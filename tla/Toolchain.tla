------------------------------ MODULE Toolchain ------------------------------
(***************************************************************************)
(* What the driver does after the front end (src/src/main.vix, run_mode):  *)
(* the tools of a back end one after the other, through temporary files    *)
(* next to the artifact.  Compilers run side by side over one file system; *)
(* each of them may die anywhere, and what it wrote stays.                 *)
(*                                                                         *)
(* LLVM, lld and nasm are external: a tool fails before it opens its       *)
(* output, fails after that, dies while it writes, or succeeds.            *)
(***************************************************************************)
EXTENDS Integers, FiniteSets

CONSTANTS Procs,        \* compilers that may run at a time
          Sources,
          Jobs,         \* what a compiler may be started for
          MaxDeaths     \* compilers die so often

Emits == {"exe", "obj", "asm", "ir"}
BackEndNames == {"llvm", "self"}
Job == [src : Sources, emit : Emits, backend : BackEndNames]
ASSUME JobsAssumption == Jobs \subseteq Job
ASSUME BoundsAssumption == MaxDeaths \in Nat

(* artifact_output_path, ir_output_path: one name for each source and kind *)
(* of output; a temporary file adds a suffix to it.                        *)
Suffixes == {"raw.ll", "ll", "asm", "o"}
Path == [src : Sources, emit : Emits, tmp : Suffixes \cup {""}]
ArtifactOf(j) == [src |-> j.src, emit |-> j.emit, tmp |-> ""]
\* Mutant of TempOf: the temporary files are named after the source alone.
TempOfWrong(j, suffix) == [src |-> j.src, emit |-> "exe", tmp |-> suffix]
TempOf(j, suffix) == [src |-> j.src, emit |-> j.emit, tmp |-> suffix]
TempsOf(j) == {TempOf(j, s) : s \in Suffixes}

(* A file holds something made of a job's program, or a part of it.        *)
Kinds == {"ir", "optimized", "asm", "obj", "exe"}
Content == [of : Jobs, kind : Kinds, whole : BOOLEAN]
Absent == [kind |-> "absent"]
Made(j, kind) == [of |-> j, kind |-> kind, whole |-> TRUE]
Part(of, kind) == [of |-> of, kind |-> kind, whole |-> FALSE]
(* What a tool makes of a file.                                            *)
Turned(content, kind) == [of |-> content.of, kind |-> kind, whole |-> content.whole]
ArtifactKind(j) == IF j.emit = "ir" THEN "optimized" ELSE j.emit

(* The route: self has no IR of LLVM to emit.                              *)
Route(j) == IF j.backend = "self" /\ j.emit # "ir" THEN "self" ELSE "llvm"
IrPath(j) == IF j.emit = "ir" THEN ArtifactOf(j) ELSE TempOf(j, "ll")
ObjPath(j) == IF j.emit = "exe" THEN TempOf(j, "o") ELSE ArtifactOf(j)
AsmPath(j) == IF j.emit = "asm" THEN ArtifactOf(j) ELSE TempOf(j, "asm")

Tools == {"passes", "llc", "lld"}

VARIABLES files,      \* the file system
          pc, job,    \* of every compiler: where it is and what it was started for
          result,     \* build_result: 0 is success
          lastError,  \* the tools whose LastError is not empty
          failed,     \* the step that failed, "" if none has
          opened,     \* the files it opened for writing
          entire,     \* history: its raw IR was not written in part, as if it were whole
          deaths

vars == <<files, pc, job, result, lastError, failed, opened, entire, deaths>>

NoJob == [emit |-> "none"]
Steps == {"idle", "write_raw", "optimize", "drop_raw", "compile", "link", "drop_obj", "drop_ir",
          "write_asm", "assemble", "drop_asm", "report"}
Busy(p) == pc[p] # "idle"

Init ==
    /\ files = [f \in Path |-> Absent]
    /\ pc = [p \in Procs |-> "idle"]
    /\ job = [p \in Procs |-> NoJob]
    /\ result = [p \in Procs |-> 0]
    /\ lastError = [p \in Procs |-> {}]
    /\ failed = [p \in Procs |-> ""]
    /\ opened = [p \in Procs |-> {}]
    /\ entire = [p \in Procs |-> TRUE]
    /\ deaths = 0

\* A process has no state before it starts and after it ended or died.
Reset(p) ==
    /\ result' = [result EXCEPT ![p] = 0]
    /\ lastError' = [lastError EXCEPT ![p] = {}]
    /\ failed' = [failed EXCEPT ![p] = ""]
    /\ opened' = [opened EXCEPT ![p] = {}]
    /\ entire' = [entire EXCEPT ![p] = TRUE]

(* Two compilers at work never build the same artifact.                    *)
Start(p, j) ==
    /\ ~Busy(p)
    /\ \A q \in Procs : Busy(q) => ArtifactOf(job[q]) # ArtifactOf(j)
    /\ job' = [job EXCEPT ![p] = j]
    /\ pc' = [pc EXCEPT ![p] = IF Route(j) = "llvm" THEN "write_raw" ELSE "write_asm"]
    /\ Reset(p)
    /\ UNCHANGED <<files, deaths>>

-----------------------------------------------------------------------------
(* Ways a step of p ends.                                                  *)
Opens(p, f) == opened' = [opened EXCEPT ![p] = @ \cup {f}]
Goes(p, next) == pc' = [pc EXCEPT ![p] = next]
Ends(p) == Goes(p, "idle") /\ job' = [job EXCEPT ![p] = NoJob] /\ Reset(p)
Kept(p) == UNCHANGED <<job, deaths>>

Stores(p, f, content, next) ==
    /\ files' = [files EXCEPT ![f] = content]
    /\ Opens(p, f)
    /\ Goes(p, next)
    /\ UNCHANGED <<result, failed>>
    /\ Kept(p)
Writes(p, f, content, next) == Stores(p, f, content, next) /\ UNCHANGED entire

Fails(p, step, next) ==
    /\ result' = [result EXCEPT ![p] = 1]
    /\ failed' = [failed EXCEPT ![p] = step]
    /\ Goes(p, next)
    /\ UNCHANGED entire
    /\ Kept(p)

NothingOpened == UNCHANGED <<files, opened>>
LeftPart(p, f, of, kind) == files' = [files EXCEPT ![f] = Part(of, kind)] /\ Opens(p, f)

(* A stream that could not write ends the process (raw_fd_ostream).        *)
Dies(p, f, of, kind) ==
    /\ deaths < MaxDeaths /\ deaths' = deaths + 1
    /\ files' = [files EXCEPT ![f] = Part(of, kind)]
    /\ Ends(p)

Succeeded(p, tool) == lastError' = [lastError EXCEPT ![p] = @ \ {tool}]
SetError(p, tool) == lastError' = [lastError EXCEPT ![p] = @ \cup {tool}]

-----------------------------------------------------------------------------
(* The LLVM back end.                                                      *)
(* write_text_file looks at neither fputs nor fclose: that it wrote a part *)
(* of the text, or nothing, goes unnoticed.                                *)
WriteRaw(p) == LET j == job[p]  raw == TempOf(j, "raw.ll") IN
    /\ pc[p] = "write_raw"
    /\ UNCHANGED lastError
    /\ \/ Writes(p, raw, Made(j, "ir"), "optimize")
       \/ Stores(p, raw, Part(j, "ir"), "optimize") /\ entire' = [entire EXCEPT ![p] = FALSE]
       \/ Fails(p, "write_raw", "report") /\ NothingOpened

(* optimizeIrFile: the output is opened when nothing can fail any more.    *)
optimizeIrFile(p) == LET input == TempOf(job[p], "raw.ll") IN
    /\ pc[p] = "optimize"
    /\ \/ /\ files[input] # Absent
          /\ \/ /\ Writes(p, IrPath(job[p]), Turned(files[input], "optimized"), "drop_raw")
                /\ Succeeded(p, "passes")
             \/ Dies(p, IrPath(job[p]), files[input].of, "optimized")
       \/ Fails(p, "passes", "drop_raw") /\ NothingOpened /\ SetError(p, "passes")

(* compileIrFile, to an object or to assembly: a target that cannot make   *)
(* this kind of output is noticed after the output was opened.             *)
\* Mutant of compileIrFile: that failure is returned as success.
compileIrFileWrong(p) ==
    LET j == job[p]  input == IrPath(j)
        kind == IF j.emit = "asm" THEN "asm" ELSE "obj"
        output == ObjPath(j)
        next == IF j.emit = "exe" THEN "link" ELSE "drop_ir"
    IN  /\ pc[p] = "compile"
        /\ \/ /\ files[input] # Absent
              /\ \/ Writes(p, output, Turned(files[input], kind), next) /\ Succeeded(p, "llc")
                 \/ Writes(p, output, Part(files[input].of, kind), next)
                        /\ SetError(p, "llc")
           \/ Fails(p, "llc", IF j.emit = "exe" THEN "drop_obj" ELSE "drop_ir")
                 /\ NothingOpened /\ SetError(p, "llc")
compileIrFile(p) ==
    LET j == job[p]  input == IrPath(j)
        kind == IF j.emit = "asm" THEN "asm" ELSE "obj"
        output == ObjPath(j)
        next == IF j.emit = "exe" THEN "link" ELSE "drop_ir"
        away == IF j.emit = "exe" THEN "drop_obj" ELSE "drop_ir"
    IN  /\ pc[p] = "compile"
        /\ \/ /\ files[input] # Absent
              /\ \/ Writes(p, output, Turned(files[input], kind), next) /\ Succeeded(p, "llc")
                 \/ Fails(p, "llc", away) /\ LeftPart(p, output, files[input].of, kind) /\ SetError(p, "llc")
                 \/ Dies(p, output, files[input].of, kind)
           \/ Fails(p, "llc", away) /\ NothingOpened /\ SetError(p, "llc")

(* runElfLink: what lld says is LastError, a warning too; an output it     *)
(* cannot finish it does not leave.                                        *)
runElfLink(p) == LET obj == ObjPath(job[p]) IN
    /\ pc[p] = "link"
    /\ \/ /\ files[obj] # Absent
          /\ Writes(p, ArtifactOf(job[p]), Turned(files[obj], "exe"), "drop_obj")
          /\ Succeeded(p, "lld") \/ SetError(p, "lld")
       \/ Fails(p, "lld", "drop_obj") /\ NothingOpened /\ SetError(p, "lld")

-----------------------------------------------------------------------------
(* The compiler's own back end.                                            *)
(* mir2asm_x86_64_write: a stream that could not be written is noticed.    *)
WriteAsm(p) == LET j == job[p] IN
    /\ pc[p] = "write_asm"
    /\ UNCHANGED lastError
    /\ \/ Writes(p, AsmPath(j), Made(j, "asm"), IF j.emit = "asm" THEN "report" ELSE "assemble")
       \/ Fails(p, "write_asm", "report") /\ (NothingOpened \/ LeftPart(p, AsmPath(j), j, "asm"))

(* nasm fails, or is killed, before or after it opened its output.         *)
Assemble(p) == LET asm == AsmPath(job[p]) IN
    /\ pc[p] = "assemble"
    /\ UNCHANGED lastError
    /\ \/ files[asm] # Absent /\ Writes(p, ObjPath(job[p]), Turned(files[asm], "obj"), "drop_asm")
       \/ /\ Fails(p, "nasm", "drop_asm")
          /\ \/ NothingOpened
             \/ files[asm] # Absent /\ LeftPart(p, ObjPath(job[p]), files[asm].of, "obj")

-----------------------------------------------------------------------------
(* delete_file, and where the driver goes on.                              *)
Deletes(p, at, f, next) ==
    /\ pc[p] = at
    /\ files' = [files EXCEPT ![f] = Absent]
    /\ Goes(p, next)
    /\ UNCHANGED <<job, result, lastError, failed, opened, entire, deaths>>

Sound(p) == result[p] = 0
DropRaw(p) == Deletes(p, "drop_raw", TempOf(job[p], "raw.ll"),
                      IF Sound(p) /\ job[p].emit # "ir" THEN "compile" ELSE "report")
DropAsm(p) == Deletes(p, "drop_asm", TempOf(job[p], "asm"),
                      IF Sound(p) /\ job[p].emit = "exe" THEN "link" ELSE "report")
DropObj(p) == Deletes(p, "drop_obj", TempOf(job[p], "o"),
                      IF Route(job[p]) = "llvm" THEN "drop_ir" ELSE "report")
DropIr(p) == Deletes(p, "drop_ir", TempOf(job[p], "ll"), "report")

(* A failed build prints what the tools have in LastError: after the       *)
(* optimiser its own alone, after nasm and writing none.                   *)
\* Mutant of Printed: what the linker says is taken for the code generator's too.
PrintedWrong(p) ==
    CASE failed[p] = "passes" -> {"passes"} \cap lastError[p]
      [] failed[p] \in {"llc", "lld"} -> {"lld"} \cap lastError[p]
      [] OTHER -> {}
Printed(p) ==
    CASE failed[p] = "passes" -> {"passes"} \cap lastError[p]
      [] failed[p] \in {"llc", "lld"} ->
            (IF Route(job[p]) = "llvm" THEN Tools ELSE {"lld"}) \cap lastError[p]
      [] OTHER -> {}

Report(p) ==
    /\ pc[p] = "report"
    /\ Ends(p)
    /\ UNCHANGED <<files, deaths>>

Kill(p) ==
    /\ Busy(p) /\ deaths < MaxDeaths
    /\ deaths' = deaths + 1
    /\ Ends(p)
    /\ UNCHANGED files

Next ==
    \E p \in Procs :
        \/ \E j \in Jobs : Start(p, j)
        \/ WriteRaw(p) \/ optimizeIrFile(p) \/ DropRaw(p) \/ compileIrFile(p) \/ runElfLink(p)
        \/ DropObj(p) \/ DropIr(p) \/ WriteAsm(p) \/ Assemble(p) \/ DropAsm(p)
        \/ Report(p) \/ Kill(p)

Spec == Init /\ [][Next]_vars

-----------------------------------------------------------------------------
TypeOK ==
    /\ files \in [Path -> Content \cup {Absent}]
    /\ pc \in [Procs -> Steps]
    /\ job \in [Procs -> Jobs \cup {NoJob}]
    /\ \A p \in Procs : Busy(p) <=> job[p] # NoJob
    /\ result \in [Procs -> {0, 1}]
    /\ lastError \in [Procs -> SUBSET Tools]
    /\ failed \in [Procs -> Tools \cup {"", "nasm", "write_raw", "write_asm"}]
    /\ opened \in [Procs -> SUBSET Path]
    /\ entire \in [Procs -> BOOLEAN]
    /\ deaths \in 0..MaxDeaths

(* A compiler that is about to report success has built its artifact from  *)
(* its own source, whatever dead compilers left behind and others are      *)
(* doing: all of it, and a part only if its own raw IR was written in part *)
(* (write_text_file, which does not tell).                                 *)
SuccessMeansArtifact ==
    \A p \in Procs : pc[p] = "report" /\ Sound(p) =>
        files[ArtifactOf(job[p])] = [of |-> job[p], kind |-> ArtifactKind(job[p]), whole |-> entire[p]]

(* A compiler that reports leaves no temporary file it opened, but the     *)
(* assembly it could not finish and what a nasm that failed left of the    *)
(* object: these the driver does not delete.                               *)
NeverDeleted(cause) == CASE cause = "write_asm" -> {"asm"} [] cause = "nasm" -> {"o"} [] OTHER -> {}
TemporariesRemoved ==
    \A p \in Procs : pc[p] = "report" =>
        \A f \in opened[p] : f.tmp # "" => files[f] = Absent \/ f.tmp \in NeverDeleted(failed[p])

(* What a compiler prints of a failed build is what the tool that failed   *)
(* has to say, and no other; of a build that succeeded it prints nothing.  *)
ExplainedByItsTool ==
    \A p \in Procs : pc[p] = "report" => Printed(p) = {failed[p]} \cap Tools
=============================================================================
