------------------------------ MODULE DynArrays ------------------------------
(***************************************************************************)
(* What the language promises of its arrays: a variable has a sequence of  *)
(* its own, which grows at the end.  An array for which there is no memory *)
(* is the empty one.                                                       *)
(***************************************************************************)
EXTENDS Integers, Sequences

CONSTANTS Vars, Values, MaxLen, Bounds

VARIABLE val   \* the sequence of each variable

Init == val = [v \in Vars |-> <<>>]

Push(v, x) ==
    \/ Len(val[v]) < MaxLen /\ val' = [val EXCEPT ![v] = Append(@, x)]
    \/ val' = [val EXCEPT ![v] = <<>>]

(* A moved array is gone from where it was.                                *)
Move(v, w) == v # w /\ val' = [val EXCEPT ![w] = val[v], ![v] = <<>>]

(* The elements from start on and before end, as far as there are any.     *)
Slice(v, w, start, end) ==
    LET from == IF start < 0 THEN 0 ELSE start
        wanted == {i \in DOMAIN val[v] : start < i /\ i <= end}
    IN  \/ val' = [val EXCEPT ![w] = [k \in {i - from : i \in wanted} |-> val[v][k + from]]]
        \/ val' = [val EXCEPT ![w] = <<>>]

Next ==
    \E v, w \in Vars :
        \/ \E x \in Values : Push(v, x)
        \/ Move(v, w)
        \/ \E start, end \in Bounds : Slice(v, w, start, end)

Spec == Init /\ [][Next]_val
=============================================================================
