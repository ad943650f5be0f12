--------------------------- MODULE ToolchainProofs ---------------------------
(***************************************************************************)
(* A compiler that reports success has built its artifact, one that        *)
(* reports failure prints what the tool that failed said, and neither      *)
(* leaves a temporary file but those no step deletes: for any number of    *)
(* compilers and of jobs, and of compilers that die.                       *)
(***************************************************************************)
EXTENDS Toolchain, TLAPS

(* What a compiler at a step of its job relies on: until it fails, the     *)
(* output of the last tool is there, its own, and whole as far as its raw  *)
(* IR is.                                                                  *)
Unfailed == {"write_raw", "optimize", "compile", "link", "write_asm", "assemble"}
OnRoute(j, step) ==
    /\ step \in {"write_raw", "optimize", "drop_raw", "compile", "drop_ir"} => Route(j) = "llvm"
    /\ step \in {"write_asm", "assemble", "drop_asm"} => Route(j) = "self"
    /\ step \in {"compile", "drop_ir"} => j.emit # "ir"
    /\ step \in {"link", "drop_obj"} => j.emit = "exe"
    /\ step \in {"assemble", "drop_asm"} => j.emit # "asm"
Product(j, kind, whole) == [of |-> j, kind |-> kind, whole |-> whole]
Output(j, step, whole, fs) ==
    /\ step = "optimize" => fs[TempOf(j, "raw.ll")] = Product(j, "ir", whole)
    /\ step \in {"drop_raw", "compile"} => fs[IrPath(j)] = Product(j, "optimized", whole)
    /\ step \in {"link", "drop_asm"} => fs[ObjPath(j)] = Product(j, "obj", whole)
    /\ step = "assemble" => fs[AsmPath(j)] = Product(j, "asm", whole)
    /\ step \in {"drop_obj", "drop_ir", "report"} => fs[ArtifactOf(j)] = Product(j, ArtifactKind(j), whole)
Advanced(j, step, res, whole, fs) ==
    /\ OnRoute(j, step)
    /\ step \in Unfailed => res = 0
    /\ step \in {"write_raw", "write_asm"} => whole = TRUE
    /\ res = 0 => Output(j, step, whole, fs)

Typed ==
    /\ files \in [Path -> Content \cup {Absent}]
    /\ pc \in [Procs -> Steps]
    /\ job \in [Procs -> Jobs \cup {NoJob}]
    /\ result \in [Procs -> {0, 1}]
    /\ entire \in [Procs -> BOOLEAN]
    /\ \A p \in Procs : Busy(p) => job[p] \in Jobs
Apart ==
    \A p, q \in Procs : p # q /\ Busy(p) /\ Busy(q) => ArtifactOf(job[p]) # ArtifactOf(job[q])
OnCourse == \A p \in Procs : Busy(p) => Advanced(job[p], pc[p], result[p], entire[p], files)

Inv == Typed /\ Apart /\ OnCourse

-----------------------------------------------------------------------------
(* A temporary file is a path of its job's own, and no two are the same.   *)
LEMMA PathsOf ==
    ASSUME NEW j \in Jobs
    PROVE  /\ j \in Job
           /\ ArtifactOf(j) \in Path
           /\ \A s \in Suffixes : TempOf(j, s) = [src |-> j.src, emit |-> j.emit, tmp |-> s]
           /\ \A s \in Suffixes : TempOf(j, s) \in Path
           /\ IrPath(j) \in Path /\ ObjPath(j) \in Path /\ AsmPath(j) \in Path
<1>1. j \in Job  BY JobsAssumption
<1>2. ArtifactOf(j) \in Path  BY <1>1 DEF ArtifactOf, Path, Job
<1>3. \A s \in Suffixes : TempOf(j, s) = [src |-> j.src, emit |-> j.emit, tmp |-> s]
  BY DEF TempOf
<1>4. \A s \in Suffixes : TempOf(j, s) \in Path
  <2> TAKE s \in Suffixes
  <2>1. j.src \in Sources /\ j.emit \in Emits  BY <1>1 DEF Job
  <2>2. [src |-> j.src, emit |-> j.emit, tmp |-> s] \in Path  BY <2>1 DEF Path
  <2> QED  BY <2>2, <1>3
<1> QED  BY <1>1, <1>2, <1>3, <1>4 DEF IrPath, ObjPath, AsmPath, Suffixes

LEMMA TempsApart ==
    ASSUME NEW j \in Jobs
    PROVE  /\ \A s \in Suffixes : TempOf(j, s) # ArtifactOf(j)
           /\ IrPath(j) # TempOf(j, "raw.ll") /\ ObjPath(j) # TempOf(j, "asm")
<1>1. ArtifactOf(j).tmp = ""  BY DEF ArtifactOf
<1>2. \A s \in Suffixes : TempOf(j, s).tmp = s  BY DEF TempOf
<1>3. \A s \in Suffixes : s # ""  BY DEF Suffixes
<1>4. \A s \in Suffixes : TempOf(j, s) # ArtifactOf(j)  BY <1>1, <1>2, <1>3
<1>5. TempOf(j, "ll") # TempOf(j, "raw.ll") /\ TempOf(j, "o") # TempOf(j, "asm")
  BY <1>2 DEF Suffixes
<1> QED  BY <1>4, <1>5 DEF IrPath, ObjPath, Suffixes

(* What a tool makes of a file is as whole as the file.                    *)
LEMMA TurnedProduct ==
    ASSUME NEW j, NEW k, NEW l, NEW whole
    PROVE  Turned(Product(j, k, whole), l) = Product(j, l, whole)
BY DEF Product, Turned

(* The files of two jobs whose artifacts differ are different files.       *)
Own(j) == {f \in Path : f.src = j.src /\ f.emit = j.emit}
LEMMA OwnPaths ==
    ASSUME NEW j \in Jobs
    PROVE  /\ ArtifactOf(j) \in Own(j) /\ \A s \in Suffixes : TempOf(j, s) \in Own(j)
           /\ IrPath(j) \in Own(j) /\ ObjPath(j) \in Own(j) /\ AsmPath(j) \in Own(j)
<1>1. ArtifactOf(j) \in Own(j)  BY PathsOf DEF Own, ArtifactOf
<1>2. \A s \in Suffixes : TempOf(j, s) \in Own(j)  BY PathsOf DEF Own
<1> QED  BY <1>1, <1>2 DEF IrPath, ObjPath, AsmPath, Suffixes

LEMMA OwnApart ==
    ASSUME NEW j \in Jobs, NEW k \in Jobs, ArtifactOf(j) # ArtifactOf(k)
    PROVE  Own(j) \cap Own(k) = {}
BY DEF Own, ArtifactOf

(* What a compiler relies on are files of its own.                         *)
LEMMA OwnOutput ==
    ASSUME NEW j \in Jobs, NEW step, NEW res, NEW whole, NEW fs, NEW gs,
           \A f \in Own(j) : gs[f] = fs[f], Advanced(j, step, res, whole, fs)
    PROVE  Advanced(j, step, res, whole, gs)
BY OwnPaths DEF Advanced, Output, Suffixes

-----------------------------------------------------------------------------
(* A step of p: what the others rely on stays, since they are at work on   *)
(* other artifacts.                                                        *)
StepOf(p) ==
    /\ Busy(p)
    /\ \A q \in Procs \ {p} : /\ pc'[q] = pc[q] /\ job'[q] = job[q]
                              /\ result'[q] = result[q] /\ entire'[q] = entire[q]
    /\ \A f \in Path \ Own(job[p]) : files'[f] = files[f]
    /\ Busy(p)' => job'[p] = job[p] /\ Advanced(job[p], pc'[p], result'[p], entire'[p], files')
TypedNext ==
    /\ files' \in [Path -> Content \cup {Absent}]
    /\ pc' \in [Procs -> Steps]
    /\ job' \in [Procs -> Jobs \cup {NoJob}]
    /\ result' \in [Procs -> {0, 1}]
    /\ entire' \in [Procs -> BOOLEAN]

LEMMA StepKeepsInv ==
    ASSUME Inv, NEW p \in Procs, StepOf(p), TypedNext
    PROVE  Inv'
<1> USE DEF Inv
<1>1. \A q \in Procs : Busy(q)' => Busy(q) /\ job'[q] = job[q]
  BY DEF StepOf, Busy
<1>2. Typed'  BY <1>1 DEF Typed, TypedNext
<1>3. Apart'  BY <1>1 DEF Apart, ArtifactOf
<1>4. OnCourse'
  <2> SUFFICES ASSUME NEW q \in Procs, Busy(q)' PROVE Advanced(job[q], pc'[q], result'[q], entire'[q], files')
    BY <1>1 DEF OnCourse
  <2>1. CASE q = p  BY <2>1 DEF StepOf
  <2>2. CASE q # p
    <3>1. job[q] \in Jobs /\ job[p] \in Jobs /\ Busy(q) /\ Busy(p)  BY <1>1 DEF StepOf, Typed
    <3>2. Own(job[q]) \cap Own(job[p]) = {}  BY <2>2, <3>1, OwnApart DEF Apart
    <3>3. Advanced(job[q], pc[q], result[q], entire[q], files)  BY <3>1 DEF OnCourse
    <3>4. \A f \in Own(job[q]) : files'[f] = files[f]  BY <3>2 DEF StepOf, Own
    <3>5. Advanced(job[q], pc[q], result[q], entire[q], files')  BY <3>1, <3>3, <3>4, OwnOutput
    <3> QED  BY <2>2, <3>5 DEF StepOf
  <2> QED  BY <2>1, <2>2
<1> QED  BY <1>2, <1>3, <1>4

-----------------------------------------------------------------------------
(* The ways a step ends.                                                   *)
LEMMA StoresOf ==
    ASSUME Inv, NEW p \in Procs, NEW f \in Own(job[p]), NEW content \in Content, NEW next \in Steps,
           NEW whole \in BOOLEAN, entire' = [entire EXCEPT ![p] = whole],
           Busy(p), Stores(p, f, content, next),
           Advanced(job[p], next, result[p], whole, [files EXCEPT ![f] = content])
    PROVE  StepOf(p) /\ TypedNext
BY DEF Inv, Typed, Stores, Goes, Kept, StepOf, TypedNext, Own, Busy

LEMMA WritesOf ==
    ASSUME Inv, NEW p \in Procs, NEW f \in Own(job[p]), NEW content \in Content, NEW next \in Steps,
           Busy(p), Writes(p, f, content, next),
           Advanced(job[p], next, result[p], entire[p], [files EXCEPT ![f] = content])
    PROVE  StepOf(p) /\ TypedNext
<1>1. entire' = [entire EXCEPT ![p] = entire[p]] /\ entire[p] \in BOOLEAN  BY DEF Inv, Typed, Writes
<1> QED  BY <1>1, StoresOf DEF Writes

LEMMA FailsOf ==
    ASSUME Inv, NEW p \in Procs, NEW step, NEW next \in Steps, Busy(p), Fails(p, step, next),
           next \notin Unfailed, OnRoute(job[p], next),
           \/ files' = files
           \/ \E f \in Own(job[p]) : \E content \in Content : files' = [files EXCEPT ![f] = content]
    PROVE  StepOf(p) /\ TypedNext
BY DEF Inv, Typed, Fails, Goes, Kept, StepOf, TypedNext, Own, Busy, Advanced, Unfailed

LEMMA EndsOf ==
    ASSUME Inv, NEW p \in Procs, Busy(p), Ends(p),
           \/ files' = files
           \/ \E f \in Own(job[p]) : \E content \in Content : files' = [files EXCEPT ![f] = content]
    PROVE  StepOf(p) /\ TypedNext
BY DEF Inv, Typed, Ends, Reset, Goes, StepOf, TypedNext, Own, Busy, Steps

LEMMA DeletesOf ==
    ASSUME Inv, NEW p \in Procs, NEW f \in Own(job[p]), NEW at \in Steps, NEW next \in Steps,
           Busy(p), Deletes(p, at, f, next),
           Advanced(job[p], next, result[p], entire[p], [files EXCEPT ![f] = Absent])
    PROVE  StepOf(p) /\ TypedNext
BY DEF Inv, Typed, Deletes, Goes, StepOf, TypedNext, Own, Busy

(* What a job and its files are, for the actions below.                    *)
LEMMA AtWork ==
    ASSUME Inv, NEW p \in Procs, pc[p] \in Steps \ {"idle"}
    PROVE  /\ Busy(p) /\ job[p] \in Jobs /\ job[p] \in Job
           /\ Advanced(job[p], pc[p], result[p], entire[p], files)
           /\ \A k \in Kinds : Product(job[p], k, entire[p]) \in Content /\ Part(job[p], k) \in Content
BY PathsOf DEF Inv, Typed, OnCourse, Busy, Steps, Product, Part, Content

-----------------------------------------------------------------------------
(* The steps.                                                              *)
LEMMA StepStart ==
    ASSUME Inv, NEW p \in Procs, NEW j \in Jobs, Start(p, j)
    PROVE  Inv'
<1>1. Typed'  BY DEF Inv, Typed, Start, Reset, Steps, Busy
<1>2. \A q \in Procs \ {p} : /\ Busy(q)' = Busy(q) /\ job'[q] = job[q] /\ pc'[q] = pc[q]
                               /\ result'[q] = result[q] /\ entire'[q] = entire[q]
  BY DEF Inv, Typed, Start, Reset, Busy
<1>3. /\ job'[p] = j /\ result'[p] = 0 /\ entire'[p] = TRUE /\ files' = files
      /\ pc'[p] = IF Route(j) = "llvm" THEN "write_raw" ELSE "write_asm"
  BY DEF Inv, Typed, Start, Reset
<1>4. Apart'
  <2>1. \A q \in Procs \ {p} : Busy(q)' => ArtifactOf(job'[q]) # ArtifactOf(j)  BY <1>2 DEF Start
  <2>2. \A q, r \in Procs \ {p} : q # r /\ Busy(q)' /\ Busy(r)' => ArtifactOf(job'[q]) # ArtifactOf(job'[r])
    BY <1>2 DEF Inv, Apart
  <2> QED  BY <2>1, <2>2, <1>3 DEF Apart
<1>5. Advanced(j, pc'[p], 0, TRUE, files)
  BY <1>3 DEF Advanced, OnRoute, Output, Route
<1>6. OnCourse'  BY <1>2, <1>3, <1>5 DEF Inv, OnCourse
<1> QED  BY <1>1, <1>4, <1>6 DEF Inv

LEMMA StepWriteRaw ==
    ASSUME Inv, NEW p \in Procs, WriteRaw(p)
    PROVE  Inv'
<1> DEFINE raw == TempOf(job[p], "raw.ll")
<1>1. pc[p] = "write_raw" /\ pc[p] \in Steps  BY DEF WriteRaw, Steps
<1>2. job[p] \in Jobs /\ Busy(p) /\ Advanced(job[p], pc[p], result[p], entire[p], files)
  BY <1>1, AtWork
<1>3. raw \in Own(job[p])  BY <1>2, OwnPaths DEF Suffixes
<1>4. ASSUME NEW whole \in BOOLEAN, entire' = [entire EXCEPT ![p] = whole],
             Stores(p, raw, Product(job[p], "ir", whole), "optimize")
      PROVE  Inv'
  <2>1. Product(job[p], "ir", whole) \in Content  BY <1>2 DEF Product, Content, Kinds
  <2>2. Advanced(job[p], "optimize", result[p], whole, [files EXCEPT ![raw] = Product(job[p], "ir", whole)])
    BY <1>1, <1>2, <1>3 DEF Advanced, OnRoute, Output, Unfailed, Inv, Typed, Own
  <2> QED  BY <1>2, <1>3, <1>4, <2>1, <2>2, StoresOf, StepKeepsInv DEF Steps
<1>5. CASE Writes(p, raw, Made(job[p], "ir"), "optimize")
  <2>1. Made(job[p], "ir") = Product(job[p], "ir", TRUE)  BY DEF Made, Product
  <2>2. entire[p] = TRUE  BY <1>1, <1>2 DEF Advanced
  <2>3. entire' = [entire EXCEPT ![p] = TRUE]  BY <1>5, <2>2 DEF Writes, Inv, Typed
  <2> QED  BY <1>4, <1>5, <2>1, <2>3 DEF Writes
<1>6. CASE Stores(p, raw, Part(job[p], "ir"), "optimize") /\ entire' = [entire EXCEPT ![p] = FALSE]
  <2>1. Part(job[p], "ir") = Product(job[p], "ir", FALSE)  BY DEF Part, Product
  <2> QED  BY <1>4, <1>6, <2>1
<1>7. CASE Fails(p, "write_raw", "report") /\ files' = files
  BY <1>2, <1>7, FailsOf, StepKeepsInv DEF Steps, Unfailed, OnRoute
<1> QED  BY <1>5, <1>6, <1>7 DEF WriteRaw, NothingOpened

LEMMA StepOptimize ==
    ASSUME Inv, NEW p \in Procs, optimizeIrFile(p)
    PROVE  Inv'
<1> DEFINE input == TempOf(job[p], "raw.ll")
           out == IrPath(job[p])
<1>1. pc[p] = "optimize" /\ pc[p] \in Steps  BY DEF optimizeIrFile, Steps
<1>2. /\ job[p] \in Jobs /\ Busy(p) /\ Advanced(job[p], pc[p], result[p], entire[p], files)
      /\ Product(job[p], "optimized", entire[p]) \in Content /\ Part(job[p], "optimized") \in Content
  BY <1>1, AtWork DEF Kinds
<1>3. out \in Own(job[p])  BY <1>2, OwnPaths
<1>4. files[input] = Product(job[p], "ir", entire[p])  BY <1>1, <1>2 DEF Advanced, Output, Unfailed
<1>5. Turned(files[input], "optimized") = Product(job[p], "optimized", entire[p]) /\ files[input].of = job[p]
  BY <1>4, TurnedProduct DEF Product
<1>6. CASE Writes(p, out, Turned(files[input], "optimized"), "drop_raw")
  <2>1. Advanced(job[p], "drop_raw", result[p], entire[p], [files EXCEPT ![out] = Product(job[p], "optimized", entire[p])])
    BY <1>1, <1>2, <1>3 DEF Advanced, OnRoute, Output, Unfailed, Inv, Typed, Own
  <2> QED  BY <1>2, <1>3, <1>5, <1>6, <2>1, WritesOf, StepKeepsInv DEF Steps
<1>7. CASE Dies(p, out, files[input].of, "optimized")
  BY <1>2, <1>3, <1>5, <1>7, EndsOf, StepKeepsInv DEF Dies
<1>8. CASE Fails(p, "passes", "drop_raw") /\ files' = files
  BY <1>1, <1>2, <1>8, FailsOf, StepKeepsInv DEF Steps, Unfailed, Advanced, OnRoute
<1> QED  BY <1>6, <1>7, <1>8 DEF optimizeIrFile, NothingOpened

LEMMA StepCompile ==
    ASSUME Inv, NEW p \in Procs, compileIrFile(p)
    PROVE  Inv'
<1> DEFINE j == job[p]
           input == IrPath(j)
           kind == IF j.emit = "asm" THEN "asm" ELSE "obj"
           out == ObjPath(j)
           next == IF j.emit = "exe" THEN "link" ELSE "drop_ir"
           away == IF j.emit = "exe" THEN "drop_obj" ELSE "drop_ir"
<1>1. pc[p] = "compile" /\ pc[p] \in Steps  BY DEF compileIrFile, Steps
<1>2. /\ j \in Jobs /\ j \in Job /\ Busy(p) /\ Advanced(j, pc[p], result[p], entire[p], files)
      /\ Product(j, kind, entire[p]) \in Content /\ Part(j, kind) \in Content
  BY <1>1, AtWork DEF Kinds
<1>3. out \in Own(j)  BY <1>2, OwnPaths
<1>4. files[input] = Product(j, "optimized", entire[p])  BY <1>1, <1>2 DEF Advanced, Output, Unfailed
<1>5. Turned(files[input], kind) = Product(j, kind, entire[p]) /\ files[input].of = j
  BY <1>4, TurnedProduct DEF Product
<1>6. next \in Steps /\ away \in Steps /\ away \notin Unfailed /\ OnRoute(j, away) /\ OnRoute(j, next)
  BY <1>1, <1>2 DEF Steps, Unfailed, Advanced, OnRoute
<1>7. CASE Writes(p, out, Turned(files[input], kind), next)
  <2> DEFINE after == [files EXCEPT ![out] = Product(j, kind, entire[p])]
  <2>1. after[out] = Product(j, kind, entire[p]) /\ result[p] = 0
    BY <1>1, <1>2, <1>3 DEF Inv, Typed, Own, Advanced, Unfailed
  <2>2. Output(j, next, entire[p], after)
    <3>1. CASE j.emit = "exe"  BY <2>1, <3>1 DEF Output
    <3>2. CASE j.emit # "exe"
      <4>1. j.emit \in {"obj", "asm"}  BY <1>1, <1>2, <3>2 DEF Job, Emits, Advanced, OnRoute
      <4> QED  BY <2>1, <3>2, <4>1 DEF Output, ObjPath, ArtifactKind
    <3> QED  BY <3>1, <3>2
  <2>3. Advanced(j, next, result[p], entire[p], after)  BY <1>6, <2>1, <2>2 DEF Advanced
  <2> QED  BY <1>2, <1>3, <1>5, <1>6, <1>7, <2>3, WritesOf, StepKeepsInv
<1>8. CASE Fails(p, "llc", away) /\ LeftPart(p, out, files[input].of, kind)
  BY <1>2, <1>3, <1>5, <1>6, <1>8, FailsOf, StepKeepsInv DEF LeftPart
<1>9. CASE Dies(p, out, files[input].of, kind)
  BY <1>2, <1>3, <1>5, <1>9, EndsOf, StepKeepsInv DEF Dies
<1>10. CASE Fails(p, "llc", away) /\ files' = files
  BY <1>2, <1>6, <1>10, FailsOf, StepKeepsInv
<1> QED  BY <1>7, <1>8, <1>9, <1>10 DEF compileIrFile, NothingOpened

LEMMA StepLink ==
    ASSUME Inv, NEW p \in Procs, runElfLink(p)
    PROVE  Inv'
<1> DEFINE j == job[p]
           obj == ObjPath(j)
           out == ArtifactOf(j)
<1>1. pc[p] = "link" /\ pc[p] \in Steps  BY DEF runElfLink, Steps
<1>2. j \in Jobs /\ Busy(p) /\ Advanced(j, pc[p], result[p], entire[p], files) /\ Product(j, "exe", entire[p]) \in Content
  BY <1>1, AtWork DEF Kinds
<1>3. out \in Own(j) /\ j.emit = "exe"  BY <1>1, <1>2, OwnPaths DEF Advanced, OnRoute
<1>4. Turned(files[obj], "exe") = Product(j, "exe", entire[p])
  BY <1>1, <1>2, TurnedProduct DEF Advanced, Output, Unfailed
<1>5. CASE Writes(p, out, Turned(files[obj], "exe"), "drop_obj")
  <2>1. Advanced(j, "drop_obj", result[p], entire[p], [files EXCEPT ![out] = Product(j, "exe", entire[p])])
    BY <1>1, <1>2, <1>3 DEF Advanced, OnRoute, Output, Unfailed, Inv, Typed, Own, ArtifactKind
  <2> QED  BY <1>2, <1>3, <1>4, <1>5, <2>1, WritesOf, StepKeepsInv DEF Steps
<1>6. CASE Fails(p, "lld", "drop_obj") /\ files' = files
  BY <1>2, <1>3, <1>6, FailsOf, StepKeepsInv DEF Steps, Unfailed, OnRoute
<1> QED  BY <1>5, <1>6 DEF runElfLink, NothingOpened

LEMMA StepWriteAsm ==
    ASSUME Inv, NEW p \in Procs, WriteAsm(p)
    PROVE  Inv'
<1> DEFINE j == job[p]
           out == AsmPath(j)
           next == IF j.emit = "asm" THEN "report" ELSE "assemble"
<1>1. pc[p] = "write_asm" /\ pc[p] \in Steps  BY DEF WriteAsm, Steps
<1>2. /\ j \in Jobs /\ Busy(p) /\ Advanced(j, pc[p], result[p], entire[p], files)
      /\ Product(j, "asm", entire[p]) \in Content /\ Part(j, "asm") \in Content
  BY <1>1, AtWork DEF Kinds
<1>3. out \in Own(j)  BY <1>2, OwnPaths
<1>m. Made(j, "asm") = Product(j, "asm", entire[p])  BY <1>1, <1>2 DEF Advanced, Made, Product
<1>4. CASE Writes(p, out, Made(j, "asm"), next)
  <2>1. Advanced(j, next, result[p], entire[p], [files EXCEPT ![out] = Product(j, "asm", entire[p])])
    <3>1. CASE j.emit = "asm"
      BY <1>1, <1>2, <1>3, <3>1 DEF Advanced, OnRoute, Output, Unfailed, Inv, Typed, Own, AsmPath, ArtifactKind
    <3>2. CASE j.emit # "asm"
      BY <1>1, <1>2, <1>3, <3>2 DEF Advanced, OnRoute, Output, Unfailed, Inv, Typed, Own
    <3> QED  BY <3>1, <3>2
  <2> QED  BY <1>2, <1>3, <1>m, <1>4, <2>1, WritesOf, StepKeepsInv DEF Steps
<1>5. CASE Fails(p, "write_asm", "report") /\ (NothingOpened \/ LeftPart(p, out, j, "asm"))
  BY <1>2, <1>3, <1>5, FailsOf, StepKeepsInv DEF Steps, Unfailed, OnRoute, NothingOpened, LeftPart
<1> QED  BY <1>4, <1>5 DEF WriteAsm

LEMMA StepAssemble ==
    ASSUME Inv, NEW p \in Procs, Assemble(p)
    PROVE  Inv'
<1> DEFINE j == job[p]
           asm == AsmPath(j)
           out == ObjPath(j)
<1>1. pc[p] = "assemble" /\ pc[p] \in Steps  BY DEF Assemble, Steps
<1>2. /\ j \in Jobs /\ Busy(p) /\ Advanced(j, pc[p], result[p], entire[p], files)
      /\ Product(j, "obj", entire[p]) \in Content /\ Part(j, "obj") \in Content
  BY <1>1, AtWork DEF Kinds
<1>3. out \in Own(j)  BY <1>2, OwnPaths
<1>4. Turned(files[asm], "obj") = Product(j, "obj", entire[p]) /\ files[asm].of = j
  <2>1. files[asm] = Product(j, "asm", entire[p])  BY <1>1, <1>2 DEF Advanced, Output, Unfailed
  <2> QED  BY <2>1, TurnedProduct DEF Product
<1>5. CASE Writes(p, out, Turned(files[asm], "obj"), "drop_asm")
  <2>1. Advanced(j, "drop_asm", result[p], entire[p], [files EXCEPT ![out] = Product(j, "obj", entire[p])])
    BY <1>1, <1>2, <1>3 DEF Advanced, OnRoute, Output, Unfailed, Inv, Typed, Own
  <2> QED  BY <1>2, <1>3, <1>4, <1>5, <2>1, WritesOf, StepKeepsInv DEF Steps
<1>6. CASE Fails(p, "nasm", "drop_asm") /\ (NothingOpened \/ LeftPart(p, out, files[asm].of, "obj"))
  BY <1>1, <1>2, <1>3, <1>4, <1>6, FailsOf, StepKeepsInv
  DEF Steps, Unfailed, Advanced, OnRoute, NothingOpened, LeftPart
<1> QED  BY <1>5, <1>6 DEF Assemble

LEMMA StepDropRaw ==
    ASSUME Inv, NEW p \in Procs, DropRaw(p)
    PROVE  Inv'
<1> DEFINE j == job[p]
           raw == TempOf(j, "raw.ll")
           next == IF Sound(p) /\ j.emit # "ir" THEN "compile" ELSE "report"
<1>1. pc[p] = "drop_raw" /\ pc[p] \in Steps  BY DEF DropRaw, Deletes, Steps
<1>2. j \in Jobs /\ Busy(p) /\ Advanced(j, pc[p], result[p], entire[p], files)  BY <1>1, AtWork
<1>3. raw \in Own(j) /\ IrPath(j) \in Path /\ IrPath(j) # raw
  BY <1>2, OwnPaths, PathsOf, TempsApart DEF Suffixes
<1>4. Advanced(j, next, result[p], entire[p], [files EXCEPT ![raw] = Absent])
  BY <1>1, <1>2, <1>3 DEF Advanced, OnRoute, Output, Unfailed, Inv, Typed, Sound, IrPath, ArtifactKind
<1> QED  BY <1>2, <1>3, <1>4, DeletesOf, StepKeepsInv DEF DropRaw, Steps

LEMMA StepDropAsm ==
    ASSUME Inv, NEW p \in Procs, DropAsm(p)
    PROVE  Inv'
<1> DEFINE j == job[p]
           asm == TempOf(j, "asm")
           next == IF Sound(p) /\ j.emit = "exe" THEN "link" ELSE "report"
<1>1. pc[p] = "drop_asm" /\ pc[p] \in Steps  BY DEF DropAsm, Deletes, Steps
<1>2. j \in Jobs /\ j \in Job /\ Busy(p) /\ Advanced(j, pc[p], result[p], entire[p], files)  BY <1>1, AtWork
<1>3. asm \in Own(j) /\ ObjPath(j) \in Path /\ ObjPath(j) # asm
  BY <1>2, OwnPaths, PathsOf, TempsApart DEF Suffixes
<1>4. j.emit \in {"exe", "obj"}
  BY <1>1, <1>2 DEF Advanced, OnRoute, Route, Job, Emits
<1>5. Advanced(j, next, result[p], entire[p], [files EXCEPT ![asm] = Absent])
  BY <1>1, <1>2, <1>3, <1>4 DEF Advanced, OnRoute, Output, Unfailed, Inv, Typed, Sound, ObjPath, ArtifactKind
<1> QED  BY <1>2, <1>3, <1>5, DeletesOf, StepKeepsInv DEF DropAsm, Steps

LEMMA StepDropObj ==
    ASSUME Inv, NEW p \in Procs, DropObj(p)
    PROVE  Inv'
<1> DEFINE j == job[p]
           obj == TempOf(j, "o")
           next == IF Route(j) = "llvm" THEN "drop_ir" ELSE "report"
<1>1. pc[p] = "drop_obj" /\ pc[p] \in Steps  BY DEF DropObj, Deletes, Steps
<1>2. j \in Jobs /\ Busy(p) /\ Advanced(j, pc[p], result[p], entire[p], files)  BY <1>1, AtWork
<1>3. obj \in Own(j) /\ ArtifactOf(j) \in Path /\ ArtifactOf(j) # obj
  BY <1>2, OwnPaths, PathsOf, TempsApart DEF Suffixes
<1>4. Advanced(j, next, result[p], entire[p], [files EXCEPT ![obj] = Absent])
  BY <1>1, <1>2, <1>3 DEF Advanced, OnRoute, Output, Unfailed, Inv, Typed
<1> QED  BY <1>2, <1>3, <1>4, DeletesOf, StepKeepsInv DEF DropObj, Steps

LEMMA StepDropIr ==
    ASSUME Inv, NEW p \in Procs, DropIr(p)
    PROVE  Inv'
<1> DEFINE j == job[p]
           ir == TempOf(j, "ll")
<1>1. pc[p] = "drop_ir" /\ pc[p] \in Steps  BY DEF DropIr, Deletes, Steps
<1>2. j \in Jobs /\ Busy(p) /\ Advanced(j, pc[p], result[p], entire[p], files)  BY <1>1, AtWork
<1>3. ir \in Own(j) /\ ArtifactOf(j) \in Path /\ ArtifactOf(j) # ir
  BY <1>2, OwnPaths, PathsOf, TempsApart DEF Suffixes
<1>4. Advanced(j, "report", result[p], entire[p], [files EXCEPT ![ir] = Absent])
  BY <1>1, <1>2, <1>3 DEF Advanced, OnRoute, Output, Unfailed, Inv, Typed
<1> QED  BY <1>2, <1>3, <1>4, DeletesOf, StepKeepsInv DEF DropIr, Steps

LEMMA StepReport ==
    ASSUME Inv, NEW p \in Procs, Report(p)
    PROVE  Inv'
<1>1. Busy(p)  BY DEF Report, Busy
<1> QED  BY <1>1, EndsOf, StepKeepsInv DEF Report

LEMMA StepKill ==
    ASSUME Inv, NEW p \in Procs, Kill(p)
    PROVE  Inv'
BY EndsOf, StepKeepsInv DEF Kill

-----------------------------------------------------------------------------
LEMMA InvInit == Init => Inv
<1> SUFFICES ASSUME Init PROVE Inv
  OBVIOUS
<1>1. \A p \in Procs : ~Busy(p)  BY DEF Init, Busy
<1>2. Typed  BY <1>1 DEF Init, Typed, Steps
<1> QED  BY <1>1, <1>2 DEF Inv, Apart, OnCourse

LEMMA InvNext == Inv /\ [Next]_vars => Inv'
<1> SUFFICES ASSUME Inv, [Next]_vars PROVE Inv'
  OBVIOUS
<1>1. CASE UNCHANGED vars
  BY <1>1 DEF vars, Inv, Typed, Apart, OnCourse, Busy
<1>2. CASE Next
  <2> PICK p \in Procs :
         \/ \E j \in Jobs : Start(p, j)
         \/ WriteRaw(p) \/ optimizeIrFile(p) \/ DropRaw(p) \/ compileIrFile(p) \/ runElfLink(p)
         \/ DropObj(p) \/ DropIr(p) \/ WriteAsm(p) \/ Assemble(p) \/ DropAsm(p)
         \/ Report(p) \/ Kill(p)
    BY <1>2 DEF Next
  <2> QED
    BY StepStart, StepWriteRaw, StepOptimize, StepCompile, StepLink, StepWriteAsm, StepAssemble,
       StepDropRaw, StepDropAsm, StepDropObj, StepDropIr, StepReport, StepKill
<1> QED  BY <1>1, <1>2

(* Success means that the artifact is there, made from the compiler's own  *)
(* source, and whole unless the raw IR it is made of was written in part   *)
(* without notice: however many compilers work next to each other and      *)
(* whatever dead ones left behind (SuccessMeansArtifact; main.vix:547-676).*)
THEOREM SuccessIsAnArtifact == Spec => []SuccessMeansArtifact
<1>1. Inv => SuccessMeansArtifact
  BY DEF Inv, OnCourse, SuccessMeansArtifact, Busy, Sound, Advanced, Output, Product
<1> QED  BY InvInit, InvNext, <1>1, PTL DEF Spec

-----------------------------------------------------------------------------
(* What a compiler will say of a failure.  Up to the linker nothing is in  *)
(* LastError while nothing has failed; then it is the tool that has.  This *)
(* does not depend on the files.                                           *)
LlvmSteps == {"write_raw", "optimize", "drop_raw", "compile"}
BeforeLinking == Unfailed \cup {"drop_raw", "drop_asm"}
Diagnosed(j, step, res, cause, errors) ==
    /\ step \in Unfailed => res = 0
    /\ step \in LlvmSteps \/ cause = "llc" => Route(j) = "llvm"
    /\ res = 0 <=> cause = ""
    /\ res = 0 /\ step \in BeforeLinking => errors = {}
    /\ cause \in Tools => errors = {cause}

Causes == Tools \cup {"", "nasm", "write_raw", "write_asm"}
Spoken ==
    /\ pc \in [Procs -> Steps] /\ job \in [Procs -> Jobs \cup {NoJob}]
    /\ result \in [Procs -> {0, 1}] /\ failed \in [Procs -> Causes]
    /\ lastError \in [Procs -> SUBSET Tools]
Explained(p) == Busy(p) => Diagnosed(job[p], pc[p], result[p], failed[p], lastError[p])
ExplainInv == Spoken /\ \A p \in Procs : Explained(p)

(* A step of p leaves what the others say alone.                           *)
OthersSame(p) ==
    \A q \in Procs \ {p} :
        /\ pc'[q] = pc[q] /\ job'[q] = job[q] /\ result'[q] = result[q]
        /\ failed'[q] = failed[q] /\ lastError'[q] = lastError[q]

LEMMA StepKeepsExplained ==
    ASSUME ExplainInv, NEW p \in Procs, Spoken', OthersSame(p), Explained(p)'
    PROVE  ExplainInv'
<1>1. ASSUME NEW q \in Procs \ {p} PROVE Explained(q)'
  BY DEF ExplainInv, Explained, OthersSame, Busy
<1> QED  BY <1>1 DEF ExplainInv

(* The ways a step ends, for what is said.                                 *)
LEMMA StoresExplained ==
    ASSUME ExplainInv, NEW p \in Procs, NEW f, NEW content, NEW next \in Steps \ {"idle"}, Busy(p),
           Stores(p, f, content, next), NEW tools \in SUBSET Tools, lastError' = [lastError EXCEPT ![p] = tools],
           Diagnosed(job[p], next, result[p], failed[p], tools)
    PROVE  ExplainInv'
<1>1. pc' = [pc EXCEPT ![p] = next] /\ UNCHANGED <<job, result, failed>>
  BY DEF Stores, Goes, Kept
<1>2. Spoken' /\ OthersSame(p)  BY <1>1 DEF ExplainInv, Spoken, OthersSame
<1>3. pc'[p] = next /\ lastError'[p] = tools  BY <1>1 DEF ExplainInv, Spoken
<1>4. Explained(p)'  BY <1>1, <1>3 DEF Explained
<1> QED  BY <1>2, <1>4, StepKeepsExplained

LEMMA OneIsNotZero == 1 # 0  OBVIOUS

LEMMA FailedIsDiagnosed ==
    ASSUME NEW j, NEW at, NEW cause, NEW errors, at \notin Unfailed, cause # "",
           at \in LlvmSteps \/ cause = "llc" => Route(j) = "llvm",
           cause \in Tools => errors = {cause}
    PROVE  Diagnosed(j, at, 1, cause, errors)
<1>1. 1 # 0  BY OneIsNotZero, Zenon
<1>2. at \in Unfailed => 1 = 0  OBVIOUS
<1>3. 1 = 0 <=> cause = ""  BY <1>1
<1>4. 1 = 0 /\ at \in BeforeLinking => errors = {}  BY <1>1
<1> QED  BY <1>2, <1>3, <1>4, Zenon DEF Diagnosed

LEMMA FailsExplained ==
    ASSUME ExplainInv, NEW p \in Procs, NEW step \in Causes \ {""}, NEW next \in Steps, Busy(p),
           Fails(p, step, next), next \notin Unfailed \cup {"idle", "compile"},
           step = "llc" \/ next \in LlvmSteps => Route(job[p]) = "llvm",
           lastError[p] = {},
           \/ lastError' = lastError /\ step \notin Tools
           \/ SetError(p, step) /\ step \in Tools
    PROVE  ExplainInv'
<1>1. /\ pc' = [pc EXCEPT ![p] = next] /\ UNCHANGED job
      /\ result' = [result EXCEPT ![p] = 1] /\ failed' = [failed EXCEPT ![p] = step]
  BY DEF Fails, Goes, Kept
<1>2. lastError' \in [Procs -> SUBSET Tools] /\ (\A q \in Procs \ {p} : lastError'[q] = lastError[q])
      /\ (step \in Tools => lastError'[p] = {step})
  BY DEF SetError, ExplainInv, Spoken
<1>3. Spoken' /\ OthersSame(p)  BY <1>1, <1>2 DEF ExplainInv, Spoken, OthersSame
<1>4. pc'[p] = next /\ result'[p] = 1 /\ failed'[p] = step /\ job'[p] = job[p]
  BY <1>1 DEF ExplainInv, Spoken
<1>5. Diagnosed(job'[p], next, 1, step, lastError'[p])
  <2>1. next \notin Unfailed /\ step # ""  OBVIOUS
  <2>2. next \in LlvmSteps \/ step = "llc" => Route(job'[p]) = "llvm"  BY <1>4
  <2>3. step \in Tools => lastError'[p] = {step}  BY <1>2
  <2> QED  BY <2>1, <2>2, <2>3, FailedIsDiagnosed
<1>6. Explained(p)'  BY <1>4, <1>5 DEF Explained
<1> QED  BY <1>3, <1>6, StepKeepsExplained

LEMMA DeletesExplained ==
    ASSUME ExplainInv, NEW p \in Procs, NEW at, NEW f, NEW next \in Steps \ {"idle"}, Busy(p),
           Deletes(p, at, f, next),
           Diagnosed(job[p], next, result[p], failed[p], lastError[p])
    PROVE  ExplainInv'
<1>1. pc' = [pc EXCEPT ![p] = next] /\ UNCHANGED <<job, result, lastError, failed>>
  BY DEF Deletes, Goes
<1>2. Spoken' /\ OthersSame(p)  BY <1>1 DEF ExplainInv, Spoken, OthersSame
<1>3. Explained(p)'  BY <1>1 DEF ExplainInv, Spoken, Explained
<1> QED  BY <1>2, <1>3, StepKeepsExplained

LEMMA ResetExplained ==
    ASSUME ExplainInv, NEW p \in Procs, Ends(p)
    PROVE  ExplainInv'
<1>1. Spoken' /\ OthersSame(p)
  BY DEF Ends, Goes, Reset, ExplainInv, Spoken, OthersSame, Steps, Causes
<1>2. pc'[p] = "idle"  BY DEF Ends, Goes, ExplainInv, Spoken
<1>3. Explained(p)'  BY <1>2 DEF Explained, Busy
<1> QED  BY <1>1, <1>3, StepKeepsExplained

(* Where nothing can have failed yet.                                      *)
LEMMA NothingSaid ==
    ASSUME ExplainInv, NEW p \in Procs, pc[p] \in Unfailed
    PROVE  /\ Busy(p) /\ result[p] = 0 /\ failed[p] = "" /\ lastError[p] = {}
           /\ pc[p] \in LlvmSteps => Route(job[p]) = "llvm"
           /\ \A tool \in Tools : Succeeded(p, tool) => lastError' = [lastError EXCEPT ![p] = {}]
           /\ \A tool \in Tools : SetError(p, tool) => lastError' = [lastError EXCEPT ![p] = {tool}]
<1>1. Busy(p)  BY DEF Busy, Unfailed
<1>2. result[p] = 0 /\ failed[p] = "" /\ lastError[p] = {} /\ (pc[p] \in LlvmSteps => Route(job[p]) = "llvm")
  BY <1>1 DEF ExplainInv, Explained, Diagnosed, BeforeLinking
<1> QED  BY <1>1, <1>2 DEF Succeeded, SetError

LEMMA ExplainStart ==
    ASSUME ExplainInv, NEW p \in Procs, NEW j \in Jobs, Start(p, j)
    PROVE  ExplainInv'
<1>1. Spoken' /\ OthersSame(p)
  BY DEF Start, Reset, ExplainInv, Spoken, OthersSame, Steps, Causes
<1>2. /\ job'[p] = j /\ result'[p] = 0 /\ failed'[p] = "" /\ lastError'[p] = {}
      /\ pc'[p] = IF Route(j) = "llvm" THEN "write_raw" ELSE "write_asm"
  BY DEF Start, Reset, ExplainInv, Spoken
<1>3. Diagnosed(j, pc'[p], 0, "", {})  BY <1>2 DEF Diagnosed, LlvmSteps, Tools
<1>4. Explained(p)'  BY <1>2, <1>3 DEF Explained
<1> QED  BY <1>1, <1>4, StepKeepsExplained

LEMMA ExplainWriteRaw ==
    ASSUME ExplainInv, NEW p \in Procs, WriteRaw(p)
    PROVE  ExplainInv'
<1> DEFINE raw == TempOf(job[p], "raw.ll")
<1>1. pc[p] = "write_raw" /\ lastError' = lastError  BY DEF WriteRaw
<1>2. Busy(p) /\ result[p] = 0 /\ failed[p] = "" /\ lastError[p] = {} /\ Route(job[p]) = "llvm"
  BY <1>1, NothingSaid DEF Unfailed, LlvmSteps
<1>3. lastError' = [lastError EXCEPT ![p] = {}]  BY <1>1, <1>2 DEF ExplainInv, Spoken
<1>4. Diagnosed(job[p], "optimize", result[p], failed[p], {})  BY <1>2 DEF Diagnosed, Tools
<1>5. ASSUME NEW content, Stores(p, raw, content, "optimize") PROVE ExplainInv'
  BY <1>2, <1>3, <1>4, <1>5, StoresExplained DEF Steps
<1>6. CASE Fails(p, "write_raw", "report")
  BY <1>1, <1>2, <1>6, FailsExplained DEF Steps, Causes, Tools, Unfailed
<1> QED  BY <1>5, <1>6 DEF WriteRaw, Writes

LEMMA ExplainOptimize ==
    ASSUME ExplainInv, NEW p \in Procs, optimizeIrFile(p)
    PROVE  ExplainInv'
<1> DEFINE out == IrPath(job[p])
           made == Turned(files[TempOf(job[p], "raw.ll")], "optimized")
<1>1. pc[p] = "optimize"  BY DEF optimizeIrFile
<1>2. Busy(p) /\ result[p] = 0 /\ failed[p] = "" /\ lastError[p] = {} /\ Route(job[p]) = "llvm"
  BY <1>1, NothingSaid DEF Unfailed, LlvmSteps
<1>3. CASE Writes(p, out, made, "drop_raw") /\ Succeeded(p, "passes")
  <2>1. lastError' = [lastError EXCEPT ![p] = {}]  BY <1>1, <1>3, NothingSaid DEF Unfailed, Tools
  <2>2. Diagnosed(job[p], "drop_raw", result[p], failed[p], {})  BY <1>2 DEF Diagnosed, Tools
  <2> QED  BY <1>2, <1>3, <2>1, <2>2, StoresExplained DEF Steps, Writes
<1>4. CASE Dies(p, out, files[TempOf(job[p], "raw.ll")].of, "optimized")
  BY <1>4, ResetExplained DEF Dies
<1>5. CASE Fails(p, "passes", "drop_raw") /\ SetError(p, "passes")
  BY <1>2, <1>5, FailsExplained DEF Steps, Causes, Tools, Unfailed
<1> QED  BY <1>3, <1>4, <1>5 DEF optimizeIrFile

LEMMA ExplainCompile ==
    ASSUME ExplainInv, NEW p \in Procs, compileIrFile(p)
    PROVE  ExplainInv'
<1> DEFINE j == job[p]
           input == IrPath(j)
           kind == IF j.emit = "asm" THEN "asm" ELSE "obj"
           out == ObjPath(j)
           next == IF j.emit = "exe" THEN "link" ELSE "drop_ir"
           away == IF j.emit = "exe" THEN "drop_obj" ELSE "drop_ir"
<1>1. pc[p] = "compile"  BY DEF compileIrFile
<1>2. Busy(p) /\ result[p] = 0 /\ failed[p] = "" /\ lastError[p] = {} /\ Route(j) = "llvm"
  BY <1>1, NothingSaid DEF Unfailed, LlvmSteps
<1>3. CASE Writes(p, out, Turned(files[input], kind), next) /\ Succeeded(p, "llc")
  <2>1. lastError' = [lastError EXCEPT ![p] = {}]  BY <1>1, <1>3, NothingSaid DEF Unfailed, Tools
  <2>2. Diagnosed(j, next, result[p], failed[p], {})  BY <1>2 DEF Diagnosed, Tools
  <2> QED  BY <1>2, <1>3, <2>1, <2>2, StoresExplained DEF Steps, Writes
<1>4. CASE Dies(p, out, files[input].of, kind)
  BY <1>4, ResetExplained DEF Dies
<1>5. CASE Fails(p, "llc", away) /\ SetError(p, "llc")
  BY <1>2, <1>5, FailsExplained DEF Steps, Causes, Tools, Unfailed, LlvmSteps
<1> QED  BY <1>3, <1>4, <1>5 DEF compileIrFile

LEMMA ExplainLink ==
    ASSUME ExplainInv, NEW p \in Procs, runElfLink(p)
    PROVE  ExplainInv'
<1> DEFINE out == ArtifactOf(job[p])
           made == Turned(files[ObjPath(job[p])], "exe")
<1>1. pc[p] = "link"  BY DEF runElfLink
<1>2. Busy(p) /\ result[p] = 0 /\ failed[p] = "" /\ lastError[p] = {}
  BY <1>1, NothingSaid DEF Unfailed
<1>3. CASE Writes(p, out, made, "drop_obj") /\ (Succeeded(p, "lld") \/ SetError(p, "lld"))
  <2>1. PICK tools \in {{}, {"lld"}} : lastError' = [lastError EXCEPT ![p] = tools]
    BY <1>1, <1>3, NothingSaid DEF Unfailed, Tools
  <2>2. Diagnosed(job[p], "drop_obj", result[p], failed[p], tools)
    BY <1>2 DEF Diagnosed, Tools, BeforeLinking, Unfailed, LlvmSteps
  <2>3. tools \in SUBSET Tools  BY DEF Tools
  <2> QED  BY <1>2, <1>3, <2>1, <2>2, <2>3, StoresExplained DEF Steps, Writes
<1>4. CASE Fails(p, "lld", "drop_obj") /\ SetError(p, "lld")
  BY <1>2, <1>4, FailsExplained DEF Steps, Causes, Tools, Unfailed, LlvmSteps
<1> QED  BY <1>3, <1>4 DEF runElfLink

LEMMA ExplainWriteAsm ==
    ASSUME ExplainInv, NEW p \in Procs, WriteAsm(p)
    PROVE  ExplainInv'
<1> DEFINE next == IF job[p].emit = "asm" THEN "report" ELSE "assemble"
<1>1. pc[p] = "write_asm" /\ lastError' = lastError  BY DEF WriteAsm
<1>2. Busy(p) /\ result[p] = 0 /\ failed[p] = "" /\ lastError[p] = {}
  BY <1>1, NothingSaid DEF Unfailed
<1>3. CASE Writes(p, AsmPath(job[p]), Made(job[p], "asm"), next)
  <2>1. lastError' = [lastError EXCEPT ![p] = {}]  BY <1>1, <1>2 DEF ExplainInv, Spoken
  <2>2. Diagnosed(job[p], next, result[p], failed[p], {})  BY <1>2 DEF Diagnosed, Tools, LlvmSteps
  <2> QED  BY <1>2, <1>3, <2>1, <2>2, StoresExplained DEF Steps, Writes
<1>4. CASE Fails(p, "write_asm", "report")
  BY <1>1, <1>2, <1>4, FailsExplained DEF Steps, Causes, Tools, Unfailed, LlvmSteps
<1> QED  BY <1>3, <1>4 DEF WriteAsm

LEMMA ExplainAssemble ==
    ASSUME ExplainInv, NEW p \in Procs, Assemble(p)
    PROVE  ExplainInv'
<1>1. pc[p] = "assemble" /\ lastError' = lastError  BY DEF Assemble
<1>2. Busy(p) /\ result[p] = 0 /\ failed[p] = "" /\ lastError[p] = {}
  BY <1>1, NothingSaid DEF Unfailed
<1>3. CASE Writes(p, ObjPath(job[p]), Turned(files[AsmPath(job[p])], "obj"), "drop_asm")
  <2>1. lastError' = [lastError EXCEPT ![p] = {}]  BY <1>1, <1>2 DEF ExplainInv, Spoken
  <2>2. Diagnosed(job[p], "drop_asm", result[p], failed[p], {})  BY <1>2 DEF Diagnosed, Tools, LlvmSteps
  <2> QED  BY <1>2, <1>3, <2>1, <2>2, StoresExplained DEF Steps, Writes
<1>4. CASE Fails(p, "nasm", "drop_asm")
  BY <1>1, <1>2, <1>4, FailsExplained DEF Steps, Causes, Tools, Unfailed, LlvmSteps
<1> QED  BY <1>3, <1>4 DEF Assemble

LEMMA ExplainDrops ==
    ASSUME ExplainInv, NEW p \in Procs, DropRaw(p) \/ DropAsm(p) \/ DropObj(p) \/ DropIr(p)
    PROVE  ExplainInv'
<1>1. Busy(p)  BY DEF DropRaw, DropAsm, DropObj, DropIr, Deletes, Busy
<1>2. Diagnosed(job[p], pc[p], result[p], failed[p], lastError[p])  BY <1>1 DEF ExplainInv, Explained
<1>3. CASE DropRaw(p)
  <2> DEFINE next == IF Sound(p) /\ job[p].emit # "ir" THEN "compile" ELSE "report"
  <2>1. pc[p] = "drop_raw" /\ Deletes(p, "drop_raw", TempOf(job[p], "raw.ll"), next)
    BY <1>3 DEF DropRaw, Deletes
  <2>2. Diagnosed(job[p], next, result[p], failed[p], lastError[p])
    BY <1>2, <2>1 DEF Diagnosed, Sound, BeforeLinking, Unfailed, LlvmSteps
  <2> QED  BY <1>1, <2>1, <2>2, DeletesExplained DEF Steps
<1>4. CASE DropAsm(p)
  <2> DEFINE next == IF Sound(p) /\ job[p].emit = "exe" THEN "link" ELSE "report"
  <2>1. pc[p] = "drop_asm" /\ Deletes(p, "drop_asm", TempOf(job[p], "asm"), next)
    BY <1>4 DEF DropAsm, Deletes
  <2>2. Diagnosed(job[p], next, result[p], failed[p], lastError[p])
    BY <1>2, <2>1 DEF Diagnosed, Sound, BeforeLinking, Unfailed, LlvmSteps
  <2> QED  BY <1>1, <2>1, <2>2, DeletesExplained DEF Steps
<1>5. ASSUME NEW at, NEW f, NEW next \in {"drop_ir", "report"}, Deletes(p, at, f, next)
      PROVE  ExplainInv'
  <2>1. Diagnosed(job[p], next, result[p], failed[p], lastError[p])
    BY <1>2 DEF Diagnosed, BeforeLinking, Unfailed, LlvmSteps
  <2> QED  BY <1>1, <1>5, <2>1, DeletesExplained DEF Steps
<1>6. CASE DropObj(p)  BY <1>5, <1>6 DEF DropObj
<1>7. CASE DropIr(p)  BY <1>5, <1>7 DEF DropIr
<1> QED  BY <1>3, <1>4, <1>6, <1>7

LEMMA ExplainInit == Init => ExplainInv
<1> SUFFICES ASSUME Init PROVE ExplainInv
  OBVIOUS
<1>1. Spoken  BY DEF Init, Spoken, Steps, Causes
<1>2. ASSUME NEW p \in Procs PROVE Explained(p)
  <2>1. pc[p] = "idle"  BY DEF Init
  <2> QED  BY <2>1 DEF Explained, Busy
<1> QED  BY <1>1, <1>2 DEF ExplainInv

LEMMA ExplainNext == ExplainInv /\ [Next]_vars => ExplainInv'
<1> SUFFICES ASSUME ExplainInv, [Next]_vars PROVE ExplainInv'
  OBVIOUS
<1>1. CASE UNCHANGED vars
  BY <1>1 DEF vars, ExplainInv, Spoken, Explained, Busy
<1>2. CASE Next
  <2> PICK p \in Procs :
         \/ \E j \in Jobs : Start(p, j)
         \/ WriteRaw(p) \/ optimizeIrFile(p) \/ DropRaw(p) \/ compileIrFile(p) \/ runElfLink(p)
         \/ DropObj(p) \/ DropIr(p) \/ WriteAsm(p) \/ Assemble(p) \/ DropAsm(p)
         \/ Report(p) \/ Kill(p)
    BY <1>2 DEF Next
  <2>1. CASE Kill(p) \/ Report(p)  BY <2>1, ResetExplained DEF Kill, Report
  <2> QED
    BY <2>1, ExplainStart, ExplainWriteRaw, ExplainOptimize, ExplainCompile, ExplainLink, ExplainWriteAsm,
       ExplainAssemble, ExplainDrops
<1> QED  BY <1>1, <1>2

(* What is printed of a failure is the error of the tool that failed, and  *)
(* of no other: LastError of a tool that went well before is empty, and a  *)
(* warning of the linker is not taken for a failure (ExplainedByItsTool;   *)
(* main.vix:547-660, api.c).                                               *)
THEOREM FailuresAreExplained == Spec => []ExplainedByItsTool
<1>1. ExplainInv => ExplainedByItsTool
  <2> SUFFICES ASSUME ExplainInv, NEW p \in Procs, pc[p] = "report" PROVE Printed(p) = {failed[p]} \cap Tools
    BY DEF ExplainedByItsTool
  <2>1. Diagnosed(job[p], pc[p], result[p], failed[p], lastError[p])  BY DEF ExplainInv, Explained, Busy
  <2>2. failed[p] \in Causes /\ lastError[p] \subseteq Tools  BY DEF ExplainInv, Spoken
  <2>3. CASE failed[p] \in Tools  BY <2>1, <2>3 DEF Printed, Diagnosed, Tools
  <2>4. CASE failed[p] \notin Tools  BY <2>2, <2>4 DEF Printed, Tools
  <2> QED  BY <2>3, <2>4
<1> QED  BY ExplainInit, ExplainNext, <1>1, PTL DEF Spec
-----------------------------------------------------------------------------
(* What may be left of a job at a step: a temporary file that was opened   *)
(* is gone again, or is one that a later step deletes, or that no step     *)
(* deletes after this failure.                                             *)
StillToDrop(j, step, res) ==
    {s \in Suffixes :
        \/ s = "raw.ll" /\ step \in {"optimize", "drop_raw"}
        \/ s = "ll" /\ step = "drop_raw" /\ res = 0 /\ j.emit # "ir"
        \/ s = "ll" /\ step \in {"compile", "link", "drop_obj", "drop_ir"} /\ Route(j) = "llvm"
        \/ s = "o" /\ step \in {"link", "drop_obj"}
        \/ s = "o" /\ step = "drop_asm" /\ res = 0 /\ j.emit = "exe"
        \/ s = "asm" /\ step \in {"assemble", "drop_asm"}}
Temporary(f) == f.tmp # ""
Tidy(j, step, res, cause, open, fs) ==
    \A f \in open : \/ ~Temporary(f) \/ fs[f] = Absent
                   \/ f.tmp \in StillToDrop(j, step, res) \cup NeverDeleted(cause)
InOrder(j, step, res, cause, open, fs) ==
    /\ OnRoute(j, step)
    /\ step \in Unfailed => res = 0
    /\ res = 0 => cause = ""
    /\ open \subseteq Own(j)
    /\ Tidy(j, step, res, cause, open, fs)

Shaped ==
    /\ files = [f \in Path |-> files[f]]
    /\ pc \in [Procs -> Steps] /\ job \in [Procs -> Jobs \cup {NoJob}] /\ result \in [Procs -> {0, 1}]
    /\ failed = [p \in Procs |-> failed[p]] /\ opened \in [Procs -> SUBSET Path]
    /\ \A p \in Procs : Busy(p) => job[p] \in Jobs
Orderly(p) == Busy(p) => InOrder(job[p], pc[p], result[p], failed[p], opened[p], files)
TidyInv == Shaped /\ Apart /\ \A p \in Procs : Orderly(p)
LEMMA OwnByName ==
    ASSUME NEW j \in Jobs, NEW f \in Own(j), NEW s \in Suffixes, f.tmp = s
    PROVE  f = TempOf(j, s)
<1>1. f \in Path /\ f.src = j.src /\ f.emit = j.emit  BY DEF Own
<1>2. f = [src |-> f.src, emit |-> f.emit, tmp |-> f.tmp]
  <2> DEFINE Names == Suffixes \cup {""}
  <2>1. Path = [src : Sources, emit : Emits, tmp : Names]  BY DEF Path
  <2> HIDE DEF Names
  <2> QED  BY <1>1, <2>1
<1> QED  BY <1>1, <1>2 DEF TempOf

(* A step of p: of the others' files none is touched.                      *)
OrderlyStep(p) ==
    /\ Busy(p)
    /\ \A q \in Procs \ {p} :
          /\ pc'[q] = pc[q] /\ job'[q] = job[q] /\ result'[q] = result[q]
          /\ failed'[q] = failed[q] /\ opened'[q] = opened[q]
    /\ \A f \in Path \ Own(job[p]) : files'[f] = files[f]
    /\ Busy(p)' => job'[p] = job[p] /\ Orderly(p)'
ShapedNext ==
    /\ files' = [f \in Path |-> files'[f]]
    /\ pc' \in [Procs -> Steps] /\ job' \in [Procs -> Jobs \cup {NoJob}] /\ result' \in [Procs -> {0, 1}]
    /\ failed' = [p \in Procs |-> failed'[p]] /\ opened' \in [Procs -> SUBSET Path]

LEMMA StepKeepsOrder ==
    ASSUME TidyInv, NEW p \in Procs, OrderlyStep(p), ShapedNext
    PROVE  TidyInv'
<1>1. \A q \in Procs : Busy(q)' => Busy(q) /\ job'[q] = job[q]
  BY DEF OrderlyStep, Busy
<1>2. Shaped'  BY <1>1 DEF TidyInv, Shaped, ShapedNext
<1>3. Apart'
  <2> SUFFICES ASSUME NEW q \in Procs, NEW r \in Procs, q # r, Busy(q)', Busy(r)'
               PROVE  ArtifactOf(job'[q]) # ArtifactOf(job'[r])
    BY DEF Apart
  <2> QED  BY <1>1 DEF TidyInv, Apart
<1>4. ASSUME NEW q \in Procs, Busy(q)'
      PROVE  InOrder(job'[q], pc'[q], result'[q], failed'[q], opened'[q], files')
  <2>1. CASE q = p  BY <1>4, <2>1 DEF OrderlyStep, Orderly
  <2>2. CASE q # p
    <3>1. job[q] \in Jobs /\ job[p] \in Jobs /\ Busy(q) /\ Busy(p)
      BY <1>1, <1>4 DEF OrderlyStep, TidyInv, Shaped
    <3>2. Own(job[q]) \cap Own(job[p]) = {}  BY <2>2, <3>1, OwnApart DEF TidyInv, Apart
    <3>3. InOrder(job[q], pc[q], result[q], failed[q], opened[q], files)
      BY <3>1 DEF TidyInv, Orderly
    <3>4. \A f \in opened[q] : files'[f] = files[f]
      BY <3>2, <3>3 DEF InOrder, OrderlyStep, Own
    <3>5. InOrder(job[q], pc[q], result[q], failed[q], opened[q], files')
      BY <3>3, <3>4 DEF InOrder, Tidy
    <3> QED  BY <2>2, <3>5 DEF OrderlyStep
  <2> QED  BY <2>1, <2>2
<1>5. \A q \in Procs : Orderly(q)'  BY <1>4 DEF Orderly
<1> QED  BY <1>2, <1>3, <1>5 DEF TidyInv

(* The ways a step ends, for what is left behind.                          *)
LEMMA StoresInOrder ==
    ASSUME TidyInv, NEW p \in Procs, NEW f \in Own(job[p]), NEW content, NEW next \in Steps,
           Busy(p), Stores(p, f, content, next),
           OnRoute(job[p], next), next \in Unfailed => result[p] = 0,
           ~Temporary(f) \/ f.tmp \in StillToDrop(job[p], next, result[p]),
           StillToDrop(job[p], pc[p], result[p]) \subseteq StillToDrop(job[p], next, result[p])
    PROVE  TidyInv'
<1>1. /\ pc' = [pc EXCEPT ![p] = next] /\ UNCHANGED <<job, result, failed>>
      /\ files' = [files EXCEPT ![f] = content] /\ opened' = [opened EXCEPT ![p] = @ \cup {f}]
  BY DEF Stores, Goes, Kept, Opens
<1>2. InOrder(job[p], pc[p], result[p], failed[p], opened[p], files)  BY DEF TidyInv, Orderly
<1>3. f \in Path /\ opened[p] \subseteq Own(job[p])  BY <1>2 DEF Own, InOrder
<1>4. ShapedNext  BY <1>1, <1>3 DEF TidyInv, Shaped, ShapedNext
<1>5. /\ pc'[p] = next /\ job'[p] = job[p] /\ result'[p] = result[p] /\ failed'[p] = failed[p] /\ opened'[p] = opened[p] \cup {f}
      /\ \A g \in Path \ {f} : files'[g] = files[g]
  BY <1>1, <1>3 DEF TidyInv, Shaped
<1>6. Tidy(job[p], next, result[p], failed[p], opened[p] \cup {f}, files')
  <2>1. Tidy(job[p], pc[p], result[p], failed[p], opened[p], files)  BY <1>2 DEF InOrder
  <2>2. ASSUME NEW g \in opened[p], g # f
        PROVE  \/ ~Temporary(g) \/ files'[g] = Absent
               \/ g.tmp \in StillToDrop(job[p], next, result[p]) \cup NeverDeleted(failed[p])
    <3>1. g \in Path  BY <1>3 DEF Own
    <3> QED  BY <1>5, <2>1, <2>2, <3>1 DEF Tidy
  <2> QED  BY <2>2 DEF Tidy
<1>7. Orderly(p)'  BY <1>2, <1>3, <1>5, <1>6 DEF Orderly, InOrder
<1>8. OrderlyStep(p)  BY <1>1, <1>5, <1>7 DEF OrderlyStep, TidyInv, Shaped, Own
<1> QED  BY <1>4, <1>8, StepKeepsOrder

LEMMA FailsInOrder ==
    ASSUME TidyInv, NEW p \in Procs, NEW step, NEW next \in Steps,
           Busy(p), Fails(p, step, next), pc[p] \in Unfailed,
           OnRoute(job[p], next), next \notin Unfailed,
           StillToDrop(job[p], pc[p], result[p]) \subseteq StillToDrop(job[p], next, 1),
           \/ NothingOpened
           \/ \E f \in Own(job[p]) : \E of, kind :
                 /\ LeftPart(p, f, of, kind)
                 /\ ~Temporary(f) \/ f.tmp \in StillToDrop(job[p], next, 1) \cup NeverDeleted(step)
    PROVE  TidyInv'
<1>1. /\ pc' = [pc EXCEPT ![p] = next] /\ UNCHANGED job
      /\ result' = [result EXCEPT ![p] = 1] /\ failed' = [failed EXCEPT ![p] = step]
  BY DEF Fails, Goes, Kept
<1>2. InOrder(job[p], pc[p], result[p], failed[p], opened[p], files)  BY DEF TidyInv, Orderly
<1>3. /\ opened[p] \subseteq Own(job[p])
      /\ \A g \in opened[p] :
            ~Temporary(g) \/ files[g] = Absent \/ g.tmp \in StillToDrop(job[p], next, 1) \cup NeverDeleted(step)
  <2>1. failed[p] = ""  BY <1>2 DEF InOrder
  <2>2. NeverDeleted("") = {}  BY DEF NeverDeleted
  <2> QED  BY <1>2, <2>1, <2>2 DEF InOrder, Tidy
<1>4. pc'[p] = next /\ job'[p] = job[p] /\ result'[p] = 1 /\ failed'[p] = step
  BY <1>1 DEF TidyInv, Shaped
<1>5. CASE NothingOpened
  <2>1. files' = files /\ opened' = opened  BY <1>5 DEF NothingOpened
  <2>2. ShapedNext  BY <1>1, <2>1 DEF TidyInv, Shaped, ShapedNext
  <2>3. Tidy(job[p], next, 1, step, opened[p], files)  BY <1>3 DEF Tidy
  <2>4. Orderly(p)'  BY <1>3, <1>4, <2>1, <2>3 DEF Orderly, InOrder
  <2>5. OrderlyStep(p)  BY <1>1, <1>4, <2>1, <2>4 DEF OrderlyStep, TidyInv, Shaped
  <2> QED  BY <2>2, <2>5, StepKeepsOrder
<1>6. ASSUME NEW f \in Own(job[p]), NEW of, NEW kind, LeftPart(p, f, of, kind),
             ~Temporary(f) \/ f.tmp \in StillToDrop(job[p], next, 1) \cup NeverDeleted(step)
      PROVE  TidyInv'
  <2>1. files' = [files EXCEPT ![f] = Part(of, kind)] /\ opened' = [opened EXCEPT ![p] = @ \cup {f}]
    BY <1>6 DEF LeftPart, Opens
  <2>2. f \in Path  BY DEF Own
  <2>3. opened'[p] = opened[p] \cup {f} /\ \A g \in Path \ {f} : files'[g] = files[g]
    BY <2>1, <2>2 DEF TidyInv, Shaped
  <2>4. ShapedNext  BY <1>1, <2>1, <2>2 DEF TidyInv, Shaped, ShapedNext
  <2>5. Tidy(job[p], next, 1, step, opened[p] \cup {f}, files')
    <3>1. ASSUME NEW g \in opened[p], g # f
          PROVE  \/ ~Temporary(g) \/ files'[g] = Absent
                 \/ g.tmp \in StillToDrop(job[p], next, 1) \cup NeverDeleted(step)
      <4>1. g \in Path  BY <1>3 DEF Own
      <4> QED  BY <1>3, <2>3, <3>1, <4>1
    <3> QED  BY <1>6, <3>1 DEF Tidy
  <2>6. Orderly(p)'  BY <1>3, <1>4, <2>3, <2>5 DEF Orderly, InOrder
  <2>7. OrderlyStep(p)  BY <1>1, <1>4, <2>1, <2>3, <2>6 DEF OrderlyStep, TidyInv, Shaped, Own
  <2> QED  BY <2>4, <2>7, StepKeepsOrder
<1> QED  BY <1>5, <1>6

LEMMA EndsInOrder ==
    ASSUME TidyInv, NEW p \in Procs, Busy(p), Ends(p),
           \/ files' = files
           \/ \E f \in Own(job[p]) : \E content : files' = [files EXCEPT ![f] = content]
    PROVE  TidyInv'
<1>1. /\ pc' = [pc EXCEPT ![p] = "idle"] /\ job' = [job EXCEPT ![p] = NoJob]
      /\ result' = [result EXCEPT ![p] = 0] /\ opened' = [opened EXCEPT ![p] = {}]
      /\ failed' = [failed EXCEPT ![p] = ""]
  BY DEF Ends, Goes, Reset
<1>2. ~Busy(p)'  BY <1>1 DEF Busy, TidyInv, Shaped
<1>3. files' = [f \in Path |-> files'[f]] /\ \A f \in Path \ Own(job[p]) : files'[f] = files[f]
  BY DEF TidyInv, Shaped, Own
<1>4. ShapedNext  BY <1>1, <1>3 DEF TidyInv, Shaped, ShapedNext, Steps
<1>5. OrderlyStep(p)  BY <1>1, <1>2, <1>3 DEF OrderlyStep, TidyInv, Shaped
<1> QED  BY <1>4, <1>5, StepKeepsOrder

LEMMA DeletesInOrder ==
    ASSUME TidyInv, NEW p \in Procs, NEW s \in Suffixes, NEW at, NEW next \in Steps,
           Busy(p), Deletes(p, at, TempOf(job[p], s), next),
           OnRoute(job[p], next), next \in Unfailed => result[p] = 0,
           StillToDrop(job[p], at, result[p]) \subseteq StillToDrop(job[p], next, result[p]) \cup {s}
    PROVE  TidyInv'
<1> DEFINE f == TempOf(job[p], s)
<1>1. /\ pc[p] = at /\ pc' = [pc EXCEPT ![p] = next] /\ UNCHANGED <<job, result, failed, opened>>
      /\ files' = [files EXCEPT ![f] = Absent]
  BY DEF Deletes, Goes
<1>2. InOrder(job[p], pc[p], result[p], failed[p], opened[p], files) /\ job[p] \in Jobs
  BY DEF TidyInv, Shaped, Orderly
<1>3. opened[p] \subseteq Own(job[p]) /\ Tidy(job[p], at, result[p], failed[p], opened[p], files)
  BY <1>1, <1>2 DEF InOrder
<1>4. f \in Own(job[p]) /\ f \in Path  BY <1>2, OwnPaths, PathsOf
<1>5. pc'[p] = next /\ \A g \in Path : files'[g] = IF g = f THEN Absent ELSE files[g]
  BY <1>1, <1>4 DEF TidyInv, Shaped
<1>6. Tidy(job[p], next, result[p], failed[p], opened[p], files')
  <2>1. ASSUME NEW g \in opened[p]
        PROVE  \/ ~Temporary(g) \/ files'[g] = Absent
               \/ g.tmp \in StillToDrop(job[p], next, result[p]) \cup NeverDeleted(failed[p])
    <3>1. g \in Own(job[p]) /\ g \in Path  BY <1>3 DEF Own
    <3>2. g.tmp = s => g = f  BY <1>2, <3>1, OwnByName
    <3>3. \/ ~Temporary(g) \/ files[g] = Absent
          \/ g.tmp \in StillToDrop(job[p], at, result[p]) \cup NeverDeleted(failed[p])
      BY <1>3 DEF Tidy
    <3> HIDE DEF f
    <3> QED  BY <1>5, <3>1, <3>2, <3>3
  <2> QED  BY <2>1 DEF Tidy
<1>7. ShapedNext  BY <1>1, <1>4 DEF TidyInv, Shaped, ShapedNext
<1>8. Orderly(p)'  BY <1>1, <1>2, <1>3, <1>5, <1>6 DEF Orderly, InOrder
<1>9. OrderlyStep(p)  BY <1>1, <1>4, <1>5, <1>8 DEF OrderlyStep, TidyInv, Shaped
<1> QED  BY <1>7, <1>9, StepKeepsOrder

LEMMA AtWorkInOrder ==
    ASSUME TidyInv, NEW p \in Procs, pc[p] \in Steps \ {"idle"}
    PROVE  /\ Busy(p) /\ job[p] \in Jobs /\ job[p] \in Job
           /\ InOrder(job[p], pc[p], result[p], failed[p], opened[p], files)
           /\ pc[p] \in Unfailed => result[p] = 0
BY PathsOf DEF TidyInv, Shaped, Orderly, Busy, Steps, InOrder

(* Which name a tool's output has.                                         *)
LEMMA NameOfOutput ==
    ASSUME NEW j \in Jobs
    PROVE  /\ ~Temporary(ArtifactOf(j)) /\ \A s \in Suffixes : TempOf(j, s).tmp = s
           /\ IF j.emit = "ir" THEN ~Temporary(IrPath(j)) ELSE IrPath(j).tmp = "ll"
           /\ IF j.emit = "exe" THEN ObjPath(j).tmp = "o" ELSE ~Temporary(ObjPath(j))
           /\ IF j.emit = "asm" THEN ~Temporary(AsmPath(j)) ELSE AsmPath(j).tmp = "asm"
<1>1. ~Temporary(ArtifactOf(j))  BY DEF ArtifactOf, Temporary
<1>2. \A s \in Suffixes : TempOf(j, s).tmp = s  BY DEF TempOf
<1> QED  BY <1>1, <1>2 DEF IrPath, ObjPath, AsmPath, Suffixes
-----------------------------------------------------------------------------
(* The steps, for what is left behind.                                     *)
LEMMA TidyStart ==
    ASSUME TidyInv, NEW p \in Procs, NEW j \in Jobs, Start(p, j)
    PROVE  TidyInv'
<1>1. /\ pc' = [pc EXCEPT ![p] = IF Route(j) = "llvm" THEN "write_raw" ELSE "write_asm"]
      /\ job' = [job EXCEPT ![p] = j] /\ result' = [result EXCEPT ![p] = 0]
      /\ failed' = [failed EXCEPT ![p] = ""]
      /\ opened' = [opened EXCEPT ![p] = {}] /\ files' = files
  BY DEF Start, Reset
<1>2. \A q \in Procs \ {p} :
         /\ Busy(q)' = Busy(q) /\ job'[q] = job[q] /\ pc'[q] = pc[q] /\ result'[q] = result[q]
         /\ failed'[q] = failed[q] /\ opened'[q] = opened[q]
  BY <1>1 DEF TidyInv, Shaped, Busy
<1>3. /\ pc'[p] = IF Route(j) = "llvm" THEN "write_raw" ELSE "write_asm"
      /\ job'[p] = j /\ result'[p] = 0 /\ failed'[p] = "" /\ opened'[p] = {}
  BY <1>1 DEF TidyInv, Shaped
<1>4. Shaped'
  <2>1. /\ files' = [f \in Path |-> files'[f]] /\ failed' = [q \in Procs |-> failed'[q]]
        /\ pc' \in [Procs -> Steps] /\ job' \in [Procs -> Jobs \cup {NoJob}]
        /\ result' \in [Procs -> {0, 1}] /\ opened' \in [Procs -> SUBSET Path]
    BY <1>1 DEF TidyInv, Shaped, Steps
  <2>2. \A q \in Procs : Busy(q)' => job'[q] \in Jobs  BY <1>2, <1>3 DEF TidyInv, Shaped
  <2> QED  BY <2>1, <2>2 DEF Shaped
<1>5. Apart'
  <2>1. \A q \in Procs \ {p} : Busy(q)' => ArtifactOf(job'[q]) # ArtifactOf(j)  BY <1>2 DEF Start
  <2>2. \A q, r \in Procs \ {p} : q # r /\ Busy(q)' /\ Busy(r)' => ArtifactOf(job'[q]) # ArtifactOf(job'[r])
    BY <1>2 DEF TidyInv, Apart
  <2> QED  BY <2>1, <2>2, <1>3 DEF Apart
<1>6. Orderly(p)'
  <2>1. Tidy(j, pc'[p], 0, "", {}, files')  BY DEF Tidy
  <2>2. OnRoute(j, pc'[p])  BY <1>3 DEF OnRoute, Route
  <2> QED  BY <1>3, <2>1, <2>2 DEF Orderly, InOrder
<1>7. \A q \in Procs \ {p} : Orderly(q)'  BY <1>1, <1>2 DEF TidyInv, Orderly
<1> QED  BY <1>4, <1>5, <1>6, <1>7 DEF TidyInv

LEMMA TidyWriteRaw ==
    ASSUME TidyInv, NEW p \in Procs, WriteRaw(p)
    PROVE  TidyInv'
<1> DEFINE j == job[p]
           raw == TempOf(j, "raw.ll")
<1>1. pc[p] = "write_raw" /\ pc[p] \in Steps  BY DEF WriteRaw, Steps
<1>2. j \in Jobs /\ Busy(p) /\ OnRoute(j, "write_raw") /\ result[p] = 0
  BY <1>1, AtWorkInOrder DEF InOrder, Unfailed
<1>3. raw \in Own(j) /\ raw.tmp = "raw.ll"  BY <1>2, OwnPaths, NameOfOutput DEF Suffixes
<1>4. StillToDrop(j, "write_raw", 0) = {} /\ "raw.ll" \in StillToDrop(j, "optimize", 0)
  BY DEF StillToDrop, Suffixes
<1>5. OnRoute(j, "optimize") /\ OnRoute(j, "report")  BY <1>2 DEF OnRoute
<1>6. ASSUME NEW content, Stores(p, raw, content, "optimize") PROVE TidyInv'
  BY <1>1, <1>2, <1>3, <1>4, <1>5, <1>6, StoresInOrder DEF Steps
<1>7. CASE Fails(p, "write_raw", "report") /\ NothingOpened
  BY <1>1, <1>2, <1>4, <1>5, <1>7, FailsInOrder DEF Steps, Unfailed
<1> QED  BY <1>6, <1>7 DEF WriteRaw, Writes

LEMMA TidyDies ==
    ASSUME TidyInv, NEW p \in Procs, Busy(p), NEW f \in Own(job[p]), NEW of, NEW kind, Dies(p, f, of, kind)
    PROVE  TidyInv'
BY EndsInOrder DEF Dies

LEMMA TidyOptimize ==
    ASSUME TidyInv, NEW p \in Procs, optimizeIrFile(p)
    PROVE  TidyInv'
<1> DEFINE j == job[p]
           out == IrPath(j)
<1>1. pc[p] = "optimize" /\ pc[p] \in Steps  BY DEF optimizeIrFile, Steps
<1>2. j \in Jobs /\ Busy(p) /\ OnRoute(j, "optimize") /\ result[p] = 0
  BY <1>1, AtWorkInOrder DEF InOrder, Unfailed
<1>3. out \in Own(j)  BY <1>2, OwnPaths
<1>4. ~Temporary(out) \/ out.tmp \in StillToDrop(j, "drop_raw", 0)
  <2>1. CASE j.emit = "ir"  BY <1>2, <2>1, NameOfOutput
  <2>2. CASE j.emit # "ir"  BY <1>2, <2>2, NameOfOutput DEF StillToDrop, Suffixes
  <2> QED  BY <2>1, <2>2
<1>5. \A res \in {0, 1} : StillToDrop(j, "optimize", 0) \subseteq StillToDrop(j, "drop_raw", res)
  BY DEF StillToDrop
<1>6. OnRoute(j, "drop_raw")  BY <1>2 DEF OnRoute
<1>7. ASSUME NEW content, Writes(p, out, content, "drop_raw") PROVE TidyInv'
  BY <1>1, <1>2, <1>3, <1>4, <1>5, <1>6, <1>7, StoresInOrder DEF Steps, Unfailed, Writes
<1>8. ASSUME NEW of, Dies(p, out, of, "optimized") PROVE TidyInv'
  BY <1>2, <1>3, <1>8, TidyDies
<1>9. CASE Fails(p, "passes", "drop_raw") /\ NothingOpened
  BY <1>1, <1>2, <1>5, <1>6, <1>9, FailsInOrder DEF Steps, Unfailed
<1> QED  BY <1>7, <1>8, <1>9 DEF optimizeIrFile

LEMMA TidyCompile ==
    ASSUME TidyInv, NEW p \in Procs, compileIrFile(p)
    PROVE  TidyInv'
<1> DEFINE j == job[p]
           input == IrPath(j)
           kind == IF j.emit = "asm" THEN "asm" ELSE "obj"
           out == ObjPath(j)
           next == IF j.emit = "exe" THEN "link" ELSE "drop_ir"
           away == IF j.emit = "exe" THEN "drop_obj" ELSE "drop_ir"
<1>1. pc[p] = "compile" /\ pc[p] \in Steps  BY DEF compileIrFile, Steps
<1>2. j \in Jobs /\ Busy(p) /\ OnRoute(j, "compile") /\ result[p] = 0
  BY <1>1, AtWorkInOrder DEF InOrder, Unfailed
<1>3. out \in Own(j)  BY <1>2, OwnPaths
<1>4. /\ ~Temporary(out) \/ out.tmp \in StillToDrop(j, next, 0)
      /\ ~Temporary(out) \/ out.tmp \in StillToDrop(j, away, 1)
  <2>1. CASE j.emit = "exe"  BY <1>2, <2>1, NameOfOutput DEF StillToDrop, Suffixes
  <2>2. CASE j.emit # "exe"  BY <1>2, <2>2, NameOfOutput
  <2> QED  BY <2>1, <2>2
<1>5. /\ StillToDrop(j, "compile", 0) \subseteq StillToDrop(j, next, 0)
      /\ StillToDrop(j, "compile", 0) \subseteq StillToDrop(j, away, 1)
  BY DEF StillToDrop
<1>6. next \in Steps /\ away \in Steps /\ away \notin Unfailed /\ OnRoute(j, away) /\ OnRoute(j, next)
  BY <1>2 DEF Steps, Unfailed, OnRoute
<1>7. CASE Writes(p, out, Turned(files[input], kind), next)
  BY <1>1, <1>2, <1>3, <1>4, <1>5, <1>6, <1>7, StoresInOrder DEF Writes
<1>8. CASE Fails(p, "llc", away) /\ LeftPart(p, out, files[input].of, kind)
  BY <1>1, <1>2, <1>3, <1>4, <1>5, <1>6, <1>8, FailsInOrder DEF Unfailed
<1>9. CASE Dies(p, out, files[input].of, kind)
  BY <1>2, <1>3, <1>9, TidyDies
<1>10. CASE Fails(p, "llc", away) /\ NothingOpened
  BY <1>1, <1>2, <1>5, <1>6, <1>10, FailsInOrder DEF Unfailed
<1> QED  BY <1>7, <1>8, <1>9, <1>10 DEF compileIrFile

LEMMA TidyLink ==
    ASSUME TidyInv, NEW p \in Procs, runElfLink(p)
    PROVE  TidyInv'
<1> DEFINE j == job[p]
           out == ArtifactOf(j)
<1>1. pc[p] = "link" /\ pc[p] \in Steps  BY DEF runElfLink, Steps
<1>2. j \in Jobs /\ Busy(p) /\ OnRoute(j, "link") /\ result[p] = 0
  BY <1>1, AtWorkInOrder DEF InOrder, Unfailed
<1>3. out \in Own(j) /\ ~Temporary(out)  BY <1>2, OwnPaths, NameOfOutput
<1>4. \A res \in {0, 1} : StillToDrop(j, "link", 0) \subseteq StillToDrop(j, "drop_obj", res)
  BY DEF StillToDrop
<1>5. OnRoute(j, "drop_obj") /\ "drop_obj" \notin Unfailed  BY <1>2 DEF OnRoute, Unfailed
<1>6. ASSUME NEW content, Writes(p, out, content, "drop_obj") PROVE TidyInv'
  BY <1>1, <1>2, <1>3, <1>4, <1>5, <1>6, StoresInOrder DEF Steps, Writes
<1>7. CASE Fails(p, "lld", "drop_obj") /\ NothingOpened
  BY <1>1, <1>2, <1>4, <1>5, <1>7, FailsInOrder DEF Steps, Unfailed
<1> QED  BY <1>6, <1>7 DEF runElfLink

LEMMA TidyWriteAsm ==
    ASSUME TidyInv, NEW p \in Procs, WriteAsm(p)
    PROVE  TidyInv'
<1> DEFINE j == job[p]
           out == AsmPath(j)
           next == IF j.emit = "asm" THEN "report" ELSE "assemble"
<1>1. pc[p] = "write_asm" /\ pc[p] \in Steps  BY DEF WriteAsm, Steps
<1>2. j \in Jobs /\ Busy(p) /\ OnRoute(j, "write_asm") /\ result[p] = 0
  BY <1>1, AtWorkInOrder DEF InOrder, Unfailed
<1>3. out \in Own(j) /\ (~Temporary(out) \/ out.tmp = "asm")  BY <1>2, OwnPaths, NameOfOutput DEF Suffixes
<1>4. ~Temporary(out) \/ out.tmp \in StillToDrop(j, next, 0)
  <2>1. CASE j.emit = "asm"  BY <1>2, <2>1, NameOfOutput
  <2>2. CASE j.emit # "asm"  BY <1>2, <2>2, NameOfOutput DEF StillToDrop, Suffixes
  <2> QED  BY <2>1, <2>2
<1>5. StillToDrop(j, "write_asm", 0) = {}  BY DEF StillToDrop
<1>6. next \in Steps /\ OnRoute(j, next) /\ OnRoute(j, "report")  BY <1>2 DEF Steps, OnRoute
<1>7. CASE Writes(p, out, Made(j, "asm"), next)
  BY <1>1, <1>2, <1>3, <1>4, <1>5, <1>6, <1>7, StoresInOrder DEF Writes
<1>8. CASE Fails(p, "write_asm", "report") /\ (NothingOpened \/ LeftPart(p, out, j, "asm"))
  BY <1>1, <1>2, <1>3, <1>5, <1>6, <1>8, FailsInOrder DEF Steps, Unfailed, NeverDeleted
<1> QED  BY <1>7, <1>8 DEF WriteAsm

LEMMA TidyAssemble ==
    ASSUME TidyInv, NEW p \in Procs, Assemble(p)
    PROVE  TidyInv'
<1> DEFINE j == job[p]
           out == ObjPath(j)
<1>1. pc[p] = "assemble" /\ pc[p] \in Steps  BY DEF Assemble, Steps
<1>2. j \in Jobs /\ Busy(p) /\ OnRoute(j, "assemble") /\ result[p] = 0
  BY <1>1, AtWorkInOrder DEF InOrder, Unfailed
<1>3. out \in Own(j) /\ (~Temporary(out) \/ out.tmp = "o")  BY <1>2, OwnPaths, NameOfOutput DEF Suffixes
<1>4. ~Temporary(out) \/ out.tmp \in StillToDrop(j, "drop_asm", 0)
  <2>1. CASE j.emit = "exe"  BY <1>2, <2>1, NameOfOutput DEF StillToDrop, Suffixes
  <2>2. CASE j.emit # "exe"  BY <1>2, <2>2, NameOfOutput
  <2> QED  BY <2>1, <2>2
<1>5. \A res \in {0, 1} : StillToDrop(j, "assemble", 0) \subseteq StillToDrop(j, "drop_asm", res)
  BY DEF StillToDrop
<1>6. OnRoute(j, "drop_asm") /\ "drop_asm" \notin Unfailed  BY <1>2 DEF OnRoute, Unfailed
<1>7. ASSUME NEW content, Writes(p, out, content, "drop_asm") PROVE TidyInv'
  BY <1>1, <1>2, <1>3, <1>4, <1>5, <1>6, <1>7, StoresInOrder DEF Steps, Writes
<1>8. CASE Fails(p, "nasm", "drop_asm") /\ (NothingOpened \/ LeftPart(p, out, files[AsmPath(j)].of, "obj"))
  BY <1>1, <1>2, <1>3, <1>5, <1>6, <1>8, FailsInOrder DEF Steps, Unfailed, NeverDeleted
<1> QED  BY <1>7, <1>8 DEF Assemble

LEMMA TidyDrops ==
    ASSUME TidyInv, NEW p \in Procs, DropRaw(p) \/ DropAsm(p) \/ DropObj(p) \/ DropIr(p)
    PROVE  TidyInv'
<1> DEFINE j == job[p]
<1>1. pc[p] \in {"drop_raw", "drop_asm", "drop_obj", "drop_ir"}
  BY DEF DropRaw, DropAsm, DropObj, DropIr, Deletes
<1>2. j \in Jobs /\ Busy(p) /\ OnRoute(j, pc[p]) /\ result[p] \in {0, 1}
  BY <1>1, AtWorkInOrder DEF InOrder, TidyInv, Shaped, Steps
<1>3. CASE DropRaw(p)
  <2> DEFINE next == IF Sound(p) /\ j.emit # "ir" THEN "compile" ELSE "report"
  <2>1. pc[p] = "drop_raw" /\ Deletes(p, "drop_raw", TempOf(j, "raw.ll"), next)
    BY <1>3 DEF DropRaw, Deletes
  <2>2. OnRoute(j, next) /\ (next \in Unfailed => result[p] = 0) /\ next \in Steps
    BY <1>2, <2>1 DEF OnRoute, Unfailed, Sound, Steps
  <2>3. StillToDrop(j, "drop_raw", result[p]) \subseteq StillToDrop(j, next, result[p]) \cup {"raw.ll"}
    BY <1>2, <2>1 DEF StillToDrop, Sound, OnRoute
  <2> QED  BY <1>2, <2>1, <2>2, <2>3, DeletesInOrder DEF Suffixes
<1>4. CASE DropAsm(p)
  <2> DEFINE next == IF Sound(p) /\ j.emit = "exe" THEN "link" ELSE "report"
  <2>1. pc[p] = "drop_asm" /\ Deletes(p, "drop_asm", TempOf(j, "asm"), next)
    BY <1>4 DEF DropAsm, Deletes
  <2>2. OnRoute(j, next) /\ (next \in Unfailed => result[p] = 0) /\ next \in Steps
    BY <1>2, <2>1 DEF OnRoute, Unfailed, Sound, Steps
  <2>3. StillToDrop(j, "drop_asm", result[p]) \subseteq StillToDrop(j, next, result[p]) \cup {"asm"}
    BY <1>2, <2>1 DEF StillToDrop, Sound
  <2> QED  BY <1>2, <2>1, <2>2, <2>3, DeletesInOrder DEF Suffixes
<1>5. CASE DropObj(p)
  <2> DEFINE next == IF Route(j) = "llvm" THEN "drop_ir" ELSE "report"
  <2>1. pc[p] = "drop_obj" /\ Deletes(p, "drop_obj", TempOf(j, "o"), next)
    BY <1>5 DEF DropObj, Deletes
  <2>2. OnRoute(j, next) /\ next \notin Unfailed /\ next \in Steps
    BY <1>2, <2>1 DEF OnRoute, Unfailed, Steps
  <2>3. StillToDrop(j, "drop_obj", result[p]) \subseteq StillToDrop(j, next, result[p]) \cup {"o"}
    BY DEF StillToDrop
  <2> QED  BY <1>2, <2>1, <2>2, <2>3, DeletesInOrder DEF Suffixes
<1>6. CASE DropIr(p)
  <2>1. pc[p] = "drop_ir" /\ Deletes(p, "drop_ir", TempOf(j, "ll"), "report")
    BY <1>6 DEF DropIr, Deletes
  <2>2. OnRoute(j, "report") /\ "report" \notin Unfailed /\ "report" \in Steps
    BY DEF OnRoute, Unfailed, Steps
  <2>3. StillToDrop(j, "drop_ir", result[p]) \subseteq StillToDrop(j, "report", result[p]) \cup {"ll"}
    BY DEF StillToDrop
  <2> QED  BY <1>2, <2>1, <2>2, <2>3, DeletesInOrder DEF Suffixes
<1> QED  BY <1>3, <1>4, <1>5, <1>6

LEMMA TidyEnds ==
    ASSUME TidyInv, NEW p \in Procs, Report(p) \/ Kill(p)
    PROVE  TidyInv'
<1>1. files' = files /\ Busy(p) /\ Ends(p)  BY DEF Report, Kill, Busy
<1> QED  BY <1>1, EndsInOrder

LEMMA TidyInit == Init => TidyInv
<1> SUFFICES ASSUME Init PROVE TidyInv
  OBVIOUS
<1>1. /\ files = [f \in Path |-> Absent] /\ pc = [p \in Procs |-> "idle"]
      /\ job = [p \in Procs |-> NoJob] /\ result = [p \in Procs |-> 0]
      /\ opened = [p \in Procs |-> {}]
  BY DEF Init
<1>2. failed = [p \in Procs |-> failed[p]]
  <2> DEFINE none == ""
  <2>1. failed = [p \in Procs |-> none]  BY DEF Init
  <2> HIDE DEF none
  <2> QED  BY <2>1
<1>3. \A p \in Procs : ~Busy(p)  BY <1>1 DEF Busy
<1>4. Shaped  BY <1>1, <1>2, <1>3 DEF Shaped, Steps
<1> QED  BY <1>3, <1>4 DEF TidyInv, Apart, Orderly

LEMMA TidyNext == TidyInv /\ [Next]_vars => TidyInv'
<1> SUFFICES ASSUME TidyInv, [Next]_vars PROVE TidyInv'
  OBVIOUS
<1>1. CASE UNCHANGED vars
  BY <1>1 DEF vars, TidyInv, Shaped, Apart, Orderly, Busy
<1>2. CASE Next
  <2> PICK p \in Procs :
         \/ \E j \in Jobs : Start(p, j)
         \/ WriteRaw(p) \/ optimizeIrFile(p) \/ DropRaw(p) \/ compileIrFile(p) \/ runElfLink(p)
         \/ DropObj(p) \/ DropIr(p) \/ WriteAsm(p) \/ Assemble(p) \/ DropAsm(p)
         \/ Report(p) \/ Kill(p)
    BY <1>2 DEF Next
  <2> QED
    BY TidyStart, TidyWriteRaw, TidyOptimize, TidyCompile, TidyLink, TidyWriteAsm, TidyAssemble,
       TidyDrops, TidyEnds
<1> QED  BY <1>1, <1>2

(* A compiler that comes to its report has removed every temporary file it *)
(* opened, on every path of success and of failure, but for the assembly   *)
(* it could not finish and the object that nasm could not; no other        *)
(* compiler brings one back, dead or alive (TemporariesRemoved;            *)
(* main.vix:547-660).                                                      *)
THEOREM NothingIsLeftBehind == Spec => []TemporariesRemoved
<1>1. TidyInv => TemporariesRemoved
  <2> SUFFICES ASSUME TidyInv, NEW p \in Procs, pc[p] = "report", NEW f \in opened[p], Temporary(f)
               PROVE  files[f] = Absent \/ f.tmp \in NeverDeleted(failed[p])
    BY DEF TemporariesRemoved, Temporary
  <2>1. InOrder(job[p], "report", result[p], failed[p], opened[p], files)
    BY DEF TidyInv, Orderly, Busy
  <2>2. StillToDrop(job[p], "report", result[p]) = {}  BY DEF StillToDrop
  <2> QED  BY <2>1, <2>2 DEF InOrder, Tidy
<1> QED  BY TidyInit, TidyNext, <1>1, PTL DEF Spec
=============================================================================
