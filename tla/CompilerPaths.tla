--------------------------- MODULE CompilerPaths ---------------------------
(***************************************************************************)
(* Where the compiler looks for the runtime library it links into a        *)
(* program (src/src/helper.c): beside itself, and it finds itself by       *)
(* argv[0], as a shell did that started it.                                *)
(*                                                                         *)
(* A directory holds the compiler's file name as a program, as a symbolic  *)
(* link to the program of another directory, or not at all.                *)
(***************************************************************************)
EXTENDS Integers, Sequences

CONSTANTS Dirs,          \* directories
          Here,          \* the current one
          SearchPaths,   \* values of PATH, as sequences of directories
          Installed,     \* what the directories hold: [Dirs -> Dirs \cup {Nothing}],
                         \* the directory the program really is in
          Libraries      \* which runtime objects are readable: sets of Object

Nothing == "nothing"
(* Places of the object, seen from a directory.                            *)
Places == {"runtime.o", "runtime/runtime.o", "../runtime/runtime.o"}
Object == [dir : Dirs, place : Places]
(* argv[0]: a bare name, a path (its directory), or nothing.               *)
Argv0 == [kind : {"bare", "none"}] \cup [kind : {"path"}, dir : Dirs]
ASSUME HereAssumption == Here \in Dirs /\ Nothing \notin Dirs
ASSUME PathsAssumption == SearchPaths \subseteq Seq(Dirs)
ASSUME InstalledAssumption ==
    Installed \subseteq {f \in [Dirs -> Dirs \cup {Nothing}] :
                            \A d \in Dirs : f[d] # Nothing => f[f[d]] = f[d]}
ASSUME LibrariesAssumption == Libraries \subseteq SUBSET Object

VARIABLES argv0, path, bin, readable,  \* how the compiler was started, and where
          found                        \* the object it links, NotYet before

pathVars == <<argv0, path, bin, readable, found>>
NotYet == [place |-> "not yet"]

(* vix_object_from_executable_path: realpath follows the links of a        *)
(* program that is there.                                                  *)
\* Mutant of DirOf: the directory of the link is taken.
DirOfWrong(d) == d
DirOf(d) == IF bin[d] = Nothing THEN d ELSE bin[d]

(* vix_compiler_object_path                                                *)
CompilerDir ==
    CASE argv0.kind = "none" -> Here
      [] argv0.kind = "path" -> DirOf(argv0.dir)
      [] OTHER -> LET hits == {i \in DOMAIN path : bin[path[i]] # Nothing}
                  IN  IF hits = {} THEN Here ELSE DirOf(path[CHOOSE i \in hits : \A k \in hits : i <= k])

Beside(place) == [dir |-> CompilerDir, place |-> place]

(* vix_compiler_runtime_object_path: the last resort is not looked at.     *)
vix_compiler_runtime_object_path ==
    CASE Beside("runtime.o") \in readable -> Beside("runtime.o")
      [] Beside("runtime.o") \notin readable /\ Beside("runtime/runtime.o") \in readable -> Beside("runtime/runtime.o")
      [] readable \cap {Beside("runtime.o"), Beside("runtime/runtime.o")} = {}
            /\ Beside("../runtime/runtime.o") \in readable -> Beside("../runtime/runtime.o")
      [] OTHER -> Beside("runtime/runtime.o")

-----------------------------------------------------------------------------
(* How a shell, external here, runs a command.                             *)
Started(dir) ==
    \/ argv0.kind = "path" /\ argv0.dir = dir
    \/ argv0.kind = "bare"
       /\ \E i \in DOMAIN path : path[i] = dir /\ \A k \in 1 .. i - 1 : bin[path[k]] = Nothing
Runs(dir) == \E d \in Dirs : Started(d) /\ bin[d] = dir

PathInit ==
    /\ argv0 \in Argv0
    /\ path \in SearchPaths
    /\ bin \in Installed
    /\ \E dir \in Dirs : Runs(dir) \/ argv0.kind = "none"
    /\ readable \in Libraries
    /\ found = NotYet

Locate ==
    /\ found = NotYet
    /\ found' = vix_compiler_runtime_object_path
    /\ UNCHANGED <<argv0, path, bin, readable>>

PathNext == Locate

PathSpec == PathInit /\ [][PathNext]_pathVars

-----------------------------------------------------------------------------
(* The runtime a program is linked with is that of the compiler which is   *)
(* running, wherever it was started from and through whatever link: never  *)
(* one of another compiler, and one that is there if it has any.           *)
OwnRuntime ==
    found # NotYet => \A dir \in Dirs : Runs(dir) =>
        /\ found.dir = dir
        /\ found \in readable \/ \A o \in readable : o.dir # dir
=============================================================================
