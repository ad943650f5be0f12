------------------------------ MODULE Lowering ------------------------------
(***************************************************************************)
(* What the two lowerings of a function body share: the labels they number *)
(* and the statements that are open.  `b' is either builder; both have the *)
(* fields labels, temps and frames.                                        *)
(***************************************************************************)
EXTENDS SourceRun, IrCode

(* One number for each, in the order of the names.                         *)
Labels(b, names) == [k \in DOMAIN names |-> Label(names[k], b.labels + k - 1)]
Took(b, names) == [b EXCEPT !.labels = @ + Len(names)]

(* A value: the builder after it, its name, the type it is taken to have.  *)
Emitted(b, name, ty) == [b |-> b, name |-> name, ty |-> ty]
Fresh(b) == [b EXCEPT !.temps = @ + 1]

(* frames: the statements that are open, innermost last.  One that stands  *)
(* in a closed block is `dead': nothing of it is emitted.                  *)
Frame(kind, l) == [kind |-> kind, l |-> l, dead |-> FALSE, subject |-> NoDest, i |-> NoDest]
DeadFrame(kind) == [Frame(kind, <<>>) EXCEPT !.dead = TRUE]
Open(b, frame) == [b EXCEPT !.frames = Append(@, frame)]
Top(b) == b.frames[Len(b.frames)]
Retop(b, frame) == [b EXCEPT !.frames[Len(b.frames)] = frame]
Closed(b) == [b EXCEPT !.frames = SubSeq(@, 1, Len(@) - 1)]

(* The end and the next round of the innermost loop.                       *)
LoopFrames(b) == {k \in DOMAIN b.frames : b.frames[k].kind \in {"while", "for"}}
InnerLoop(b) == b.frames[LastOf(LoopFrames(b), 0)]
BreakLabel(b) == InnerLoop(b).l[IF InnerLoop(b).kind = "while" THEN 3 ELSE 4]
ContinueLabel(b) == InnerLoop(b).l[IF InnerLoop(b).kind = "while" THEN 1 ELSE 3]
=============================================================================
