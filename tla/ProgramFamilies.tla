-------------------------- MODULE ProgramFamilies --------------------------
(***************************************************************************)
(* Finite families of well-formed programs for the model checker: every    *)
(* way to extend a prefix by up to n lines taken from a set of statements, *)
(* such that names are declared before they are used (the semantic pass    *)
(* has seen to that, src/semantic.vix:286), regions nest, `break' lies in  *)
(* a loop and nothing follows a return in its region.                      *)
(***************************************************************************)
EXTENDS VixProgram, SequencesExt

(* A draft: the lines so far and, per open region, its kind and the names  *)
(* it declares; the first region is the function body.                     *)
Region(kind, names) == [kind |-> kind, names |-> names]
Draft(names) == [lines |-> <<>>, open |-> <<Region("body", names)>>]

Inner(d) == d.open[Len(d.open)]
Visible(d) == UNION {d.open[k].names : k \in DOMAIN d.open}
InLoop(d) == \E k \in DOMAIN d.open : d.open[k].kind \in {"while", "for"}
Outer(d) == SubSeq(d.open, 1, Len(d.open) - 1)
Ended(d) == d.lines # <<>> /\ d.lines[Len(d.lines)].tag \in {"return", "return_expr", "break", "continue"}

Fits(d, s) ==
    /\ Mentions(s) \subseteq Visible(d)
    /\ s.tag \in {"let", "for"} => s.name \notin Visible(d)
    /\ s.tag = "assign" => s.name \in Visible(d)
    /\ s.tag = "else" => Inner(d).kind = "if"
    /\ s.tag = "arm" => Inner(d).kind \in {"match", "arm"}
    /\ s.tag = "end" => Inner(d).kind # "body"
    /\ s.tag \in {"break", "continue"} => InLoop(d)
    /\ Inner(d).kind = "match" => s.tag \in {"arm", "end"}
    /\ Ended(d) => s.tag \in {"else", "arm", "end"}

Opened(d, s) ==
    CASE s.tag \in {"if", "block", "while", "match"} -> Append(d.open, Region(s.tag, {}))
      [] s.tag = "for" -> Append(d.open, Region("for", {s.name}))
      [] s.tag \in DividerTags -> Append(Outer(d), Region(s.tag, {}))
      [] s.tag = "end" -> Outer(d)
      [] s.tag = "let" -> Append(Outer(d), [Inner(d) EXCEPT !.names = @ \cup {s.name}])
      [] OTHER -> d.open

Extend(d, s) == [lines |-> Append(d.lines, s), open |-> Opened(d, s)]

(* Each extension must leave enough lines to close what is open.           *)
Grow(drafts, statements, left) ==
    {d \in {Extend(c[1], c[2]) : c \in {c \in drafts \X statements : Fits(c[1], c[2])}} :
        Len(d.open) - 1 <= left}

Complete(drafts) == {d.lines : d \in {c \in drafts : Len(c.open) = 1}}

Family(names, prefix, statements, n) ==
    LET first == FoldLeft(Extend, Draft(names), prefix)
        grown == FoldLeft(LAMBDA acc, k : LET next == Grow(acc.last, statements, n - k)
                                          IN  [last |-> next, all |-> acc.all \cup Complete(next)],
                          [last |-> {first}, all |-> Complete({first})], [k \in 1..n |-> k])
    IN  grown.all
=============================================================================
