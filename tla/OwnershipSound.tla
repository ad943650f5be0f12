--------------------------- MODULE OwnershipSound ---------------------------
(***************************************************************************)
(* The checker and the program together: a program is checked, and when it *)
(* is accepted it runs, along any of its paths.  A fault of such a run is  *)
(* what the checker is there to exclude.                                   *)
(***************************************************************************)
EXTENDS OwnershipCheck

VARIABLES rpc, env, regions, fault, halted

Exec == INSTANCE VixExec WITH
    Globals <- [i \in DOMAIN Params |->
                   [name |-> Params[i].name, ty |-> Params[i].ty, global |-> Params[i].param = 2]],
    MayReturn <- ReturnType

soundVars == <<checkVars, rpc, env, regions, fault, halted>>

SoundInit == Init /\ Exec!ExecInit
CheckPhase == Check /\ UNCHANGED <<rpc, env, regions, fault, halted>>
RunPhase == Accepted /\ Exec!ExecStep(prog) /\ UNCHANGED <<prog, pc, st, frames, finished, reported>>

SoundSpec == SoundInit /\ [][CheckPhase \/ RunPhase]_soundVars

(* The compiler is a sequential program that nothing but its own steps     *)
(* drives, so the check goes on as long as it can; the checked program may *)
(* loop forever.                                                           *)
FairSoundSpec == SoundSpec /\ WF_soundVars(CheckPhase)

-----------------------------------------------------------------------------
(* No accepted program uses, borrows or moves a value that it has moved    *)
(* (diagnostic E5001), on any path through its branches and loops.         *)
NoUseAfterMove == fault # "moved"

(***************************************************************************)
(* No accepted program uses a reference after its owner was moved,         *)
(* overwritten, borrowed again in conflict or dropped (E5002, E5003).      *)
(***************************************************************************)
NoStaleReference == fault # "stale"

(* No accepted program returns a reference to one of its own variables     *)
(* (E5008).                                                                *)
NoEscape == fault # "escape"
=============================================================================
