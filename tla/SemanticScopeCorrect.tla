------------------------ MODULE SemanticScopeCorrect ------------------------
(***************************************************************************)
(* What is to be true of the arrays of the semantic pass: they implement   *)
(* blocks that nest.                                                       *)
(***************************************************************************)
EXTENDS SemanticScope

(* The slots in use at a nesting depth, and the block they stand for.      *)
SlotsAt(d) == {i \in 1..scope.active_len : scope.entries[i].depth = d}
BlockAt(d) ==
    [x \in {scope.entries[i].name : i \in SlotsAt(d)} |->
        LET e == scope.entries[CHOOSE i \in SlotsAt(d) : scope.entries[i].name = x]
        IN  [used |-> e.used, mutable |-> e.mutable, warn |-> e.warn_unused, at |-> e.at]]

Blocks == [b \in 1..scope.depth + 1 |-> BlockAt(b - 1)]
Rejected == result.error_count > 0
Warned == {<<d.name, d.at>> : d \in {w \in result.diagnostics : w.level = "warning"}}

Lexical == INSTANCE LexicalScopes WITH blocks <- Blocks, rejected <- Rejected, unused <- Warned

-----------------------------------------------------------------------------
(* The arrays, the counters and the lists hold what they are declared to   *)
(* hold, and active_len never passes the end of the arrays.                *)
TypeOK ==
    /\ scope \in Scope /\ scope.active_len <= Len(scope.entries)
    /\ result \in Results(Names, Positions)
    /\ entering \in BOOLEAN /\ pending \in Seq(Names)

(* The depths of the slots in use never decrease and never pass the        *)
(* current depth: what semantic_scope_pop stops at when it looks for the   *)
(* slots to give up.                                                       *)
DepthsInOrder ==
    \A i, j \in 1..scope.active_len :
        /\ scope.entries[i].depth <= scope.depth
        /\ i <= j => scope.entries[i].depth <= scope.entries[j].depth

(* A name has one slot in a block, so that the first that                  *)
(* semantic_scope_find_current meets and the last that                     *)
(* semantic_scope_lookup meets are the same variable.                      *)
OneSlotEach ==
    \A i, j \in 1..scope.active_len :
        scope.entries[i].name = scope.entries[j].name /\ scope.entries[i].depth = scope.entries[j].depth
            => i = j

(* The reused slots behave like nested blocks: every name means the        *)
(* variable of the innermost block, a program that breaks a rule is        *)
(* rejected whatever the limit of the bag, and the variables reported as   *)
(* unused are those that leave their block unused.                         *)
ImplementsBlocks == Lexical!Spec
=============================================================================
