----------------------------- MODULE LexerLines -----------------------------
(***************************************************************************)
(* Where the lexer ends a statement at the end of a line (src/src/         *)
(* lexer.vix).  It reads tokens one after the other, and at a newline asks *)
(* C what the next character of code is (src/src/helper.c), which skips    *)
(* blanks and comments by a loop of its own.                               *)
(*                                                                         *)
(* Characters stand for their kind: "a" for a letter, "k" for a letter the *)
(* one-letter keyword is made of.  Numbers, character literals and escapes *)
(* are left out, and lines and columns.                                    *)
(***************************************************************************)
EXTENDS Integers, Sequences

CONSTANT Texts
Letters == {"a", "k"}
Symbols == {"}", "*", "/"}
Spaces == {" ", "\n"}
Quote == "\""
Characters == Letters \cup Symbols \cup Spaces \cup {Quote}
ASSUME TextsAssumption == Texts \subseteq Seq(Characters)

VARIABLES src, pos, tokens
lexerVars == <<src, pos, tokens>>

(* A token is where it starts and ends; one the lexer adds has no text.    *)
Token(kind, start, end) == [kind |-> kind, start |-> start, end |-> end]
Semicolon(at) == Token("semicolon", at, at - 1)

StartsAt(i, text) == i + Len(text) - 1 <= Len(src) /\ SubSeq(src, i, i + Len(text) - 1) = text

\* The first of these places, else otherwise.
FirstOf(places, otherwise) ==
    IF places = {} THEN otherwise ELSE CHOOSE k \in places : \A m \in places : k <= m

LineEnd(i) == FirstOf({k \in i .. Len(src) : src[k] = "\n"}, Len(src) + 1)

(* The end of a comment that is opened at i.  Of one that is never closed  *)
(* the last character is not passed over.                                  *)
AfterComment(i) ==
    LET close == FirstOf({k \in i + 2 .. Len(src) : StartsAt(k, <<"*", "/">>)}, 0)
    IN  IF close # 0 THEN close + 2 ELSE IF i + 2 > Len(src) THEN i + 2 ELSE Len(src)

(* Past the blank or the comment that starts here, if one does.            *)
\* Mutant of Passed: only the comments of one line are skipped.
PassedWrong(i) ==
    IF src[i] \in Spaces THEN i + 1
    ELSE IF StartsAt(i, <<"/", "/">>) THEN LineEnd(i)
    ELSE i
Passed(i) ==
    IF src[i] \in Spaces THEN i + 1
    ELSE IF StartsAt(i, <<"/", "/">>) THEN LineEnd(i)
    ELSE IF StartsAt(i, <<"/", "*">>) THEN AfterComment(i)
    ELSE i

(* vix_lexer_next_non_space_char: the place of that character, past the    *)
(* end if there is none.                                                   *)
NextCode(from) ==
    LET place[i \in 1 .. Len(src) + 1] ==
            IF i > Len(src) \/ Passed(i) = i THEN i ELSE place[Passed(i)]
    IN  place[from]

token_can_end_statement(t) == t.kind \in {"name", "string", "close"}
CanStart(c) == c \in Letters \cup {"}", Quote}
newline_should_insert_semicolon(at) ==
    /\ tokens # <<>> /\ token_can_end_statement(tokens[Len(tokens)])
    /\ NextCode(at) <= Len(src) /\ CanStart(src[NextCode(at)])

-----------------------------------------------------------------------------
LexerInit == src \in Texts /\ pos = 1 /\ tokens = <<>>

ReadsAt(c) == pos <= Len(src) /\ src[pos] = c /\ UNCHANGED src
MovesTo(i) == pos' = i
Pushes(t) == tokens' = Append(tokens, t)

SkipBlank == ReadsAt(" ") /\ MovesTo(pos + 1) /\ UNCHANGED tokens

Newline ==
    /\ ReadsAt("\n")
    /\ MovesTo(pos + 1)
    /\ IF newline_should_insert_semicolon(pos + 1) THEN Pushes(Semicolon(pos)) ELSE UNCHANGED tokens

LineComment ==
    /\ ReadsAt("/") /\ StartsAt(pos, <<"/", "/">>)
    /\ MovesTo(LineEnd(pos))
    /\ UNCHANGED tokens

(* A comment that holds a newline ends the line.                           *)
BlockComment ==
    LET after == AfterComment(pos) IN
    /\ ReadsAt("/") /\ StartsAt(pos, <<"/", "*">>)
    /\ MovesTo(after)
    /\ IF /\ \E k \in pos + 2 .. after - 1 : src[k] = "\n"
          /\ newline_should_insert_semicolon(after)
       THEN Pushes(Semicolon(after)) ELSE UNCHANGED tokens

\* A string that is never closed ends with the text.
StringLiteral ==
    LET close == FirstOf({k \in pos + 1 .. Len(src) : src[k] = Quote}, Len(src)) IN
    /\ ReadsAt(Quote)
    /\ Pushes(Token("string", pos, close))
    /\ MovesTo(close + 1)

Word ==
    LET end == FirstOf({k \in pos .. Len(src) : src[k] \notin Letters}, Len(src) + 1) - 1 IN
    /\ \E c \in Letters : ReadsAt(c)
    /\ Pushes(Token(IF SubSeq(src, pos, end) = <<"k">> THEN "keyword" ELSE "name", pos, end))
    /\ MovesTo(end + 1)

Symbol ==
    LET end == IF StartsAt(pos, <<"*", "*">>) THEN pos + 1 ELSE pos IN
    /\ \E c \in Symbols : ReadsAt(c)
    /\ ~StartsAt(pos, <<"/", "/">>) /\ ~StartsAt(pos, <<"/", "*">>)
    /\ Pushes(Token(IF src[pos] = "}" THEN "close" ELSE "symbol", pos, end))
    /\ MovesTo(end + 1)

LexerNext == SkipBlank \/ Newline \/ LineComment \/ BlockComment \/ StringLiteral \/ Word \/ Symbol

LexerSpec == LexerInit /\ [][LexerNext]_lexerVars

-----------------------------------------------------------------------------
(* Between two tokens there is a semicolon, and one, just if a line ends   *)
(* between them, the first may end a statement and the second may start    *)
(* one: however blanks, newlines and comments of both kinds lie between.   *)
OneSemicolonALine ==
    pos > Len(src) =>
        /\ tokens # <<>> => tokens[Len(tokens)].kind # "semicolon"
        /\ \A i \in 1 .. Len(tokens) - 1 :
            LET this == tokens[i]
                next == tokens[i + 1]
                between == {src[k] : k \in this.end + 1 .. next.start - 1}
            IN  IF next.kind = "semicolon" THEN this.kind # "semicolon"
                ELSE this.kind # "semicolon" =>
                        ~("\n" \in between /\ token_can_end_statement(this) /\ CanStart(src[next.start]))
        /\ \A i \in 2 .. Len(tokens) - 1 : tokens[i].kind = "semicolon" =>
            /\ \E k \in tokens[i - 1].end + 1 .. tokens[i + 1].start - 1 : src[k] = "\n"
            /\ token_can_end_statement(tokens[i - 1]) /\ CanStart(src[tokens[i + 1].start])
=============================================================================
