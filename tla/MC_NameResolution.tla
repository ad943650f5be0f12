------------------------- MODULE MC_NameResolution -------------------------
(* A module-level variable, a function and parameters that may share their  *)
(* names with each other and with the local variables; and a function        *)
(* without parameters in a program without other names.                      *)
EXTENDS NameResolution

CONSTANTS x, y, f, blank

MCNames == {x, y, f, blank}
MCGlobals == <<y>>
MCFunctions == {f}
MCFunctionList == <<f>>
MCParams == {<<>>, <<x>>, <<y, f>>}

(* A bound of the model: functions of at most this many local variables.    *)
MaxLocals == 2
Bounded == declared <= MaxLocals

HidingNames == {x, y, blank}
HidingParams == {<<>>}
NoNames == <<>>
HidingLocals == 3
HidingBounded == declared <= HidingLocals
=============================================================================
