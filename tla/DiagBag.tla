------------------------------ MODULE DiagBag ------------------------------
(***************************************************************************)
(* The bag of diagnostics a pass fills (src/diag.vix) and the counters of  *)
(* SemanticResult that decide what becomes of the program                  *)
(* (src/semantic.vix).  The code keeps the diagnostics in an array, refuses *)
(* one that is already there and sorts the array before it is rendered:    *)
(* here it is a set.  A diagnostic is its kind (the code and the wording), *)
(* the name it is about and its place in the source.                       *)
(***************************************************************************)
EXTENDS Naturals

CONSTANTS Limit,         \* how many errors the bag takes
          EmitWarnings   \* whether the driver asks for warnings

ASSUME BagAssumption == Limit \in Nat \ {0} /\ EmitWarnings \in BOOLEAN

ErrorKinds == {"undefined", "undefined function", "duplicate", "iterator", "mutable capture",
               "undefined capture"}
Diagnostics(Names, Positions) ==
    [level : {"error"}, kind : ErrorKinds, name : Names, at : Positions]
        \cup [level : {"warning"}, kind : {"unused"}, name : Names, at : Positions]
Results(Names, Positions) ==
    [diagnostics : SUBSET Diagnostics(Names, Positions), error_count : 0..Limit, stopped : BOOLEAN]

-----------------------------------------------------------------------------
result_new == [diagnostics |-> {}, error_count |-> 0, stopped |-> FALSE]

Problem(kind, x, at) == [level |-> "error", kind |-> kind, name |-> x, at |-> at]
Unused(x, at) == [level |-> "warning", kind |-> "unused", name |-> x, at |-> at]

(* A bag that is full before it holds the first error.                     *)
add_errorWrong(r, d) ==
    IF d \in r.diagnostics THEN r
    ELSE IF r.error_count + 1 >= Limit THEN [r EXCEPT !.stopped = TRUE]
    ELSE [r EXCEPT !.diagnostics = @ \cup {d}, !.error_count = @ + 1]

(* An error the bag does not take is not counted.                          *)
add_error(r, d) ==
    IF d \in r.diagnostics THEN r
    ELSE IF r.error_count >= Limit THEN [r EXCEPT !.stopped = TRUE]
    ELSE [r EXCEPT !.diagnostics = @ \cup {d}, !.error_count = @ + 1]

(* Warnings have no limit.                                                 *)
add_warnings(r, D) ==
    IF EmitWarnings THEN [r EXCEPT !.diagnostics = @ \cup D] ELSE r
=============================================================================
