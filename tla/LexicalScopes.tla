---------------------------- MODULE LexicalScopes ----------------------------
(***************************************************************************)
(* What name resolution is to compute: blocks that nest, each with its own *)
(* variables; a name means the variable of the innermost block that has    *)
(* it.  A program that breaks a rule is rejected, and of one that has      *)
(* broken none so far every variable that leaves its block unused is       *)
(* reported.  No slots, no depths, no array of diagnostics.                *)
(***************************************************************************)
EXTENDS Naturals, Sequences, FiniteSetsExt

CONSTANTS Names, Blank, Functions, Positions, EmitWarnings

VARIABLES blocks, rejected, unused

Empty == [x \in {} |-> 0]
Variable(warn, at) == [used |-> FALSE, mutable |-> FALSE, warn |-> warn, at |-> at]

Here == blocks[Len(blocks)]
Owners(x) == {b \in DOMAIN blocks : x \in DOMAIN blocks[b]}
Visible(x) == Owners(x) # {}
Meaning(x) == blocks[Max(Owners(x))][x]

With(block, x, v) == [y \in DOMAIN block \cup {x} |-> IF y = x THEN v ELSE block[y]]
Touch(x) == IF Visible(x) THEN [blocks EXCEPT ![Max(Owners(x))][x].used = TRUE] ELSE blocks
Rejecting(broken) == rejected' = (rejected \/ broken)

-----------------------------------------------------------------------------
Init == blocks = <<Empty>> /\ rejected = FALSE /\ unused = {}

InBody == Len(blocks) > 1

Enter == ~InBody /\ blocks' = <<Empty>> /\ UNCHANGED <<rejected, unused>>

(* A variable that is visible in all of the function.                      *)
Bind(x) ==
    /\ ~InBody
    /\ blocks' = IF x \in DOMAIN Here THEN blocks ELSE <<With(Here, x, Variable(FALSE, 0))>>
    /\ UNCHANGED <<rejected, unused>>

Open == blocks' = Append(blocks, Empty) /\ UNCHANGED <<rejected, unused>>

(* A variable is read, called, captured or assigned.                       *)
Read(x) == InBody /\ blocks' = Touch(x) /\ Rejecting(x # Blank /\ ~Visible(x)) /\ UNCHANGED unused
Invoke(x) == InBody /\ Rejecting(~Visible(x) /\ x \notin Functions) /\ UNCHANGED <<blocks, unused>>
Write(x) == InBody /\ Rejecting(x # Blank /\ ~Visible(x)) /\ UNCHANGED <<blocks, unused>>
Capture(x) ==
    /\ InBody
    /\ IF Visible(x) /\ Meaning(x).mutable
       THEN Rejecting(TRUE) /\ UNCHANGED blocks
       ELSE Rejecting(~Visible(x) /\ x \notin Functions) /\ blocks' = Touch(x)
    /\ UNCHANGED unused

(* A second declaration in the same block breaks a rule; the first one is  *)
(* kept, and is mutable from now on if the second one is.                  *)
Declare(x, mutable, at) ==
    /\ InBody
    /\ LET again == x \in DOMAIN Here
           v == IF again THEN Here[x] ELSE Variable(TRUE, at)
       IN  /\ Rejecting(x # Blank /\ again)
           /\ blocks' = IF x = Blank /\ ~again THEN blocks
                        ELSE [blocks EXCEPT ![Len(blocks)] = With(@, x, [v EXCEPT !.mutable = @ \/ mutable])]
    /\ UNCHANGED unused

(* A block that starts with a variable: an iterator, which must be new to  *)
(* all of the function, or what a pattern binds.                           *)
OpenWith(x, fresh, at) ==
    /\ InBody
    /\ blocks' = Append(blocks, IF x = Blank THEN Empty ELSE With(Empty, x, Variable(TRUE, at)))
    /\ Rejecting(fresh /\ Visible(x))
    /\ UNCHANGED unused

Close ==
    /\ InBody
    /\ blocks' = SubSeq(blocks, 1, Len(blocks) - 1)
    /\ unused' = IF rejected \/ ~EmitWarnings THEN unused
                 ELSE unused \cup {<<x, Here[x].at>> : x \in {y \in DOMAIN Here : Here[y].warn /\ ~Here[y].used}}
    /\ UNCHANGED rejected

Next ==
    \/ Enter
    \/ Open
    \/ Close
    \/ \E x \in Names :
          \/ Bind(x) \/ Read(x) \/ Invoke(x) \/ Write(x) \/ Capture(x)
          \/ \E at \in Positions :
                \/ \E mutable \in BOOLEAN : Declare(x, mutable, at)
                \/ \E fresh \in BOOLEAN : OpenWith(x, fresh, at)

Spec == Init /\ [][Next]_<<blocks, rejected, unused>>
=============================================================================
