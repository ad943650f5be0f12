------------------------- MODULE MC_SemanticScope -------------------------
(* Functions that may share a name with a variable, a module-level variable  *)
(* that a parameter may repeat, and positions that are met more than once,   *)
(* as the expansions of a macro are.                                         *)
EXTENDS SemanticScopeCorrect

CONSTANTS x, y, f, blank

MCNames == {x, y, f, blank}
MCGlobals == <<y>>
MCFunctions == {f}
MCParams == {<<>>, <<y>>}
MCPositions == {1}

(* Bounds of the model: the slots the functions use, the variables reported  *)
(* unused, and the errors after which the walk is followed further.          *)
MaxSlots == 3
MaxUnused == 1
FollowedError == Problem("undefined", x, 1)
Errors == {d \in result.diagnostics : d.level = "error"}
Bounded ==
    /\ Len(scope.entries) <= MaxSlots
    /\ Errors \subseteq {FollowedError} /\ Cardinality(result.diagnostics \ Errors) <= MaxUnused
=============================================================================
