------------------------------ MODULE LinkArgs ------------------------------
(***************************************************************************)
(* The command line lld is given (src/lib/api.c, Linker.cpp).  C writes it *)
(* into one buffer of Size bytes, an argument at a time; C++ splits that   *)
(* text into words again.                                                  *)
(*                                                                         *)
(* A text is a sequence of chunks: a blank, a quote or a stretch of other  *)
(* characters, each of length 1.  A file that is not found is the empty    *)
(* text, which is how append_arg treats a null pointer.                    *)
(***************************************************************************)
EXTENDS Integers, Sequences

CONSTANTS Chunks,        \* stretches of ordinary characters
          Size,          \* of the buffer
          Calls,         \* what the driver may ask to have linked
          Installations  \* sets of readable files

Blank == " "
Quotes == {"'", "\""}
Text == Seq(Chunks \cup Quotes \cup {Blank})
(* A library on the command line: as it is written, and the word meant.    *)
Link == [written : Text, meant : Text]
Call == [object : Text, runtime : Text, output : Text, links : Seq(Link), no_std : BOOLEAN]
ASSUME BufferAssumption == Size \in Nat \ {0}
ASSUME CallsAssumption == Calls \subseteq Call

Of(chunk) == <<chunk>>
NotFound == <<>>

-----------------------------------------------------------------------------
(* The files of the C library and of gcc, in the order they are tried.     *)
find_first_file(paths, readable) ==
    LET there == {i \in DOMAIN paths : paths[i] \in readable}
    IN  IF there = {} THEN NotFound ELSE Of(paths[CHOOSE i \in there : \A k \in there : i <= k])

\* bases, target triples and major versions, innermost last
GccDirs == <<"gcc12", "gcc9">>
InDir(dir, name) == dir \o "/" \o name
find_in_gcc_dir(name, readable) ==
    find_first_file([d \in DOMAIN GccDirs |-> InDir(GccDirs[d], name)], readable)

crt_paths == <<"Scrt1.o", "crt1.o">>
SearchDirs == <<"-L/usr/lib", "-L/lib">>

append_default_search_dirs(readable) ==
    [d \in DOMAIN SearchDirs |-> IF SearchDirs[d] \in readable THEN Of(SearchDirs[d]) ELSE NotFound]

append_opt_path(opt, path) == IF path = NotFound THEN <<>> ELSE <<Of(opt), path>>

(* main: each library is added to the text after a blank.                  *)
LinkArgsOf(links) ==
    LET text[n \in 0..Len(links)] ==
            IF n = 0 THEN <<>> ELSE text[n - 1] \o Of(Blank) \o links[n].written
    IN  text[Len(links)]

(* The arguments before and after the libraries, in the code's order.      *)
Opening(c, readable) ==
    <<Of("-o"), c.output>>
    \o (IF c.no_std THEN <<>>
        ELSE <<find_first_file(crt_paths, readable), find_first_file(<<"crti.o">>, readable),
               find_in_gcc_dir("crtbeginS.o", readable)>>)
    \o <<c.object>> \o (IF c.no_std THEN <<>> ELSE <<c.runtime>>)
Closing(c, readable) ==
    IF c.no_std THEN <<>>
    ELSE append_default_search_dirs(readable)
         \o append_opt_path("-dynamic-linker", find_first_file(<<"ld.so">>, readable))
         \o <<Of("-lm"), Of("-lc"), find_in_gcc_dir("crtendS.o", readable),
              find_first_file(<<"crtn.o">>, readable)>>
vix_api_link_executable(c, readable) ==
    Opening(c, readable) \o <<LinkArgsOf(c.links)>> \o Closing(c, readable)

-----------------------------------------------------------------------------
(* addSplitArgs: words are parted by blanks; a quote opens a part up to    *)
(* the next one of its kind, in which blanks and other quotes are taken as *)
(* they are.                                                               *)
SplitStart == [words |-> <<>>, current |-> <<>>, quote |-> ""]
Flushed(s) == IF s.current = <<>> THEN s
              ELSE [s EXCEPT !.words = Append(@, s.current), !.current = <<>>]
\* Mutant of SplitStep: a quote is closed by a quote of any kind.
SplitStepWrong(s, c) ==
    CASE s.quote # "" /\ c \in Quotes -> [s EXCEPT !.quote = ""]
      [] s.quote # "" /\ c \notin Quotes -> [s EXCEPT !.current = Append(@, c)]
      [] s.quote = "" /\ c \in Quotes -> [s EXCEPT !.quote = c]
      [] s.quote = "" /\ c = Blank -> Flushed(s)
      [] OTHER -> [s EXCEPT !.current = Append(@, c)]
SplitStep(s, c) ==
    CASE s.quote # "" /\ c = s.quote -> [s EXCEPT !.quote = ""]
      [] s.quote # "" /\ c # s.quote -> [s EXCEPT !.current = Append(@, c)]
      [] s.quote = "" /\ c \in Quotes -> [s EXCEPT !.quote = c]
      [] s.quote = "" /\ c = Blank -> Flushed(s)
      [] OTHER -> [s EXCEPT !.current = Append(@, c)]
addSplitArgs(text) ==
    LET after[n \in 0..Len(text)] ==
            IF n = 0 THEN SplitStart ELSE SplitStep(after[n - 1], text[n])
    IN  Flushed(after[Len(text)]).words

-----------------------------------------------------------------------------
VARIABLES call,     \* what is linked
          present,  \* the files that are there
          todo,     \* the arguments still to append
          args,     \* the text in the buffer
          dropped,  \* some argument did not fit
          argv      \* the words lld gets, <<>> before

linkVars == <<call, present, todo, args, dropped, argv>>

LinkInit ==
    /\ call \in {c \in Calls : c.object # <<>> /\ c.output # <<>>}
    /\ present \in Installations
    /\ todo = vix_api_link_executable(call, present)
    /\ args = <<>>
    /\ dropped = FALSE
    /\ argv = <<>>

\* Mutant of append_arg: the room for the blank and the end is not counted.
append_argWrong(arg) ==
    LET fits == Len(args) + Len(arg) < Size
    IN  /\ args' = IF arg = <<>> \/ ~fits THEN args
                   ELSE IF args = <<>> THEN arg ELSE args \o Of(Blank) \o arg
        /\ dropped' = (dropped \/ (arg # <<>> /\ ~fits))
append_arg(arg) ==
    LET fits == Len(args) + Len(arg) + 2 < Size
    IN  /\ args' = IF arg = <<>> \/ ~fits THEN args
                   ELSE IF args = <<>> THEN arg ELSE args \o Of(Blank) \o arg
        /\ dropped' = (dropped \/ (arg # <<>> /\ ~fits))

AppendNext ==
    /\ todo # <<>>
    /\ append_arg(todo[1])
    /\ todo' = Tail(todo)
    /\ UNCHANGED <<call, present, argv>>

vix_lld_link_elf ==
    /\ todo = <<>> /\ argv = <<>>
    /\ argv' = <<Of("ld.lld")>> \o addSplitArgs(args)
    /\ UNCHANGED <<call, present, todo, args, dropped>>

LinkNext == AppendNext \/ vix_lld_link_elf

LinkSpec == LinkInit /\ [][LinkNext]_linkVars

-----------------------------------------------------------------------------
(* The text and the zero byte that ends it are within the buffer.          *)
TextFits == Len(args) + 1 <= Size

(* lld gets the words that were meant, in their order: every path is one,  *)
(* every library is one, and nothing else is.  An argument the buffer has  *)
(* no room for is left out; what is there then is still no piece of a word.*)
Given(arguments) == SelectSeq(arguments, LAMBDA t : t # <<>>)
Meant == <<Of("ld.lld")>> \o Given(Opening(call, present))
         \o [l \in DOMAIN call.links |-> call.links[l].meant] \o Given(Closing(call, present))
WordsAsMeant ==
    argv # <<>> => /\ \A i \in DOMAIN argv : \E k \in DOMAIN Meant : argv[i] = Meant[k]
                   /\ ~dropped => argv = Meant
=============================================================================
