------------------------------ MODULE AgentUpdate ------------------------------
(***************************************************************************)
(* The agent replaces its own binaries, update.rs: the task that downloads *)
(* a release and, on Linux, swaps the agent's binary and restarts itself;  *)
(* on Windows, the apply-update helper that stops the service, swaps both  *)
(* binaries and starts the service.  Any step can fail; the machine can    *)
(* stop between any two.  Versions are numbers, 0 is a file that is not    *)
(* there.                                                                  *)
(***************************************************************************)
EXTENDS Integers

CONSTANTS
  Current, Latest  \* the version installed first and the release's

ASSUME VersionsAssumption ==
  Current \in Nat \ {0} /\ Latest \in Nat /\ Latest > Current

Programs == {"agent", "tray"}
Version  == {0, Current, Latest}

VARIABLES
  windows,  \* the platform; it never changes
  running,  \* the version of the agent's process, 0 if it is down
  file,     \* per program: the binary, <name>.bak and <name>.new
  lock,     \* UPDATE_IN_PROGRESS
  task,     \* how far run_update is
  helper,   \* how far run_apply_update_helper is
  faults    \* "stop": sc stop failed once; "rollback": so did a rollback

updateVars == <<windows, running, file, lock, task, helper, faults>>

UpdateTypeOK ==
  /\ windows \in BOOLEAN /\ running \in Version /\ lock \in BOOLEAN
  /\ file \in [Programs -> [target: Version, bak: Version, new: Version]]
  /\ task \in {"idle", "fetch", "tray", "agent", "apply", "swap", "restart"}
  /\ helper \in {"none", "stop", "agent", "agentSwap", "tray", "traySwap", "start"}
  /\ faults \subseteq {"stop", "rollback"}

UpdateInit ==
  /\ windows \in BOOLEAN /\ running = Current /\ lock = FALSE
  /\ file = [f \in Programs |-> [target |-> Current, bak |-> 0, new |-> 0]]
  /\ task = "idle" /\ helper = "none" /\ faults = {}

-----------------------------------------------------------------------------
(* The process: cleanup_stale_artifacts is the first thing it does.  The   *)
(* helper runs from the agent's .bak, which therefore cannot be removed.   *)
Cleaned(files) ==
  [f \in Programs |-> [files[f] EXCEPT
     !.new = 0, !.bak = IF f = "agent" /\ helper # "none" THEN @ ELSE 0]]

Boot ==
  /\ running' = file["agent"].target /\ running' # 0
  /\ file' = Cleaned(file) /\ lock' = FALSE /\ task' = "idle"

(* The service manager or an operator starts it. *)
Start ==
  /\ running = 0 /\ Boot
  /\ UNCHANGED <<windows, helper, faults>>

(* It dies, alone or with the machine. *)
Crash ==
  /\ running' = 0 /\ lock' = FALSE /\ task' = "idle" /\ helper' \in {helper, "none"}
  /\ <<running, helper>> # <<running', helper'>>
  /\ UNCHANGED <<windows, file, faults>>

-----------------------------------------------------------------------------
(* replace_binary, from one rename to the next. *)

DropTarget(f) ==  \* mutant: the old binary is removed, not kept as .bak
  /\ file[f].target # 0
  /\ file' = [file EXCEPT ![f].bak = 0, ![f].target = 0]

SetAside(f) ==
  /\ file[f].target # 0
  /\ file' = [file EXCEPT ![f].bak = file[f].target, ![f].target = 0]

CannotSetAside(f) == file' = [file EXCEPT ![f].bak = 0]

Place(f) ==
  /\ file[f].new # 0
  /\ file' = [file EXCEPT ![f].target = file[f].new, ![f].new = 0]

(* "Best-effort rollback: put the original back." *)
CannotPlace(f) ==
  \/ /\ file' = [file EXCEPT ![f].target = file[f].bak, ![f].bak = 0]
     /\ UNCHANGED faults
  \/ UNCHANGED file /\ faults' = faults \cup {"rollback"}

-----------------------------------------------------------------------------
(* run_update. *)

(* The command; while an update is in progress it is ignored. *)
Command ==
  /\ running # 0 /\ task = "idle" /\ ~lock
  /\ lock' = TRUE /\ task' = "fetch"
  /\ UNCHANGED <<windows, running, file, helper, faults>>

EndKeepsLock == task' = "idle" /\ UNCHANGED lock  \* mutant: an early return forgets the lock

End == task' = "idle" /\ lock' = FALSE

(* An error on the way: no release, no asset, no signature, no network. *)
Fail ==
  /\ task \in {"fetch", "tray", "agent", "apply", "restart"} /\ End
  /\ UNCHANGED <<windows, running, file, helper, faults>>

Fetch ==
  /\ task = "fetch"
  /\ \/ running = Latest /\ End
     \/ running # Latest /\ task' = (IF windows THEN "tray" ELSE "agent") /\ UNCHANGED lock
  /\ UNCHANGED <<windows, running, file, helper, faults>>

Download(f, next) ==
  /\ file' = [file EXCEPT ![f].new = Latest] /\ task' = next
  /\ UNCHANGED <<windows, running, lock, helper, faults>>

(* A release without the tray's asset leaves the tray as it is. *)
SkipTray ==
  /\ task = "tray" /\ task' = "agent"
  /\ UNCHANGED <<windows, running, file, lock, helper, faults>>

DownloadTray  == task = "tray" /\ Download("tray", "agent")
DownloadAgent == task = "agent" /\ Download("agent", "apply")

(* Linux. *)
ApplySetAside ==
  /\ task = "apply" /\ ~windows
  /\ \/ SetAside("agent") /\ task' = "swap" /\ UNCHANGED lock
     \/ CannotSetAside("agent") /\ End
  /\ UNCHANGED <<windows, running, helper, faults>>

ApplyPlace ==
  /\ task = "swap"
  /\ \/ Place("agent") /\ task' = "restart" /\ UNCHANGED <<lock, faults>>
     \/ CannotPlace("agent") /\ End
  /\ UNCHANGED <<windows, running, helper>>

(* restart_self: the child is spawned and this process exits. *)
Restart ==
  /\ task = "restart" /\ Boot
  /\ UNCHANGED <<windows, helper, faults>>

(* Windows: the lock stays with the process that is about to be stopped.   *)
(* The helper is given the tray's .new if there is one.  Bound: one helper *)
(* at a time (it takes seconds, and a download lies between two).          *)
SpawnHelper ==
  /\ task = "apply" /\ windows /\ helper = "none"
  /\ helper' = "stop" /\ task' = "idle"
  /\ UNCHANGED <<windows, running, file, lock, faults>>

-----------------------------------------------------------------------------
(* run_apply_update_helper: an error in the middle of it ends it there. *)

HelperStop ==
  /\ helper = "stop" /\ helper' = "agent"
  /\ \/ running' = 0 /\ lock' = FALSE /\ task' = "idle" /\ UNCHANGED faults
     \/ faults' = faults \cup {"stop"} /\ UNCHANGED <<running, lock, task>>
  /\ UNCHANGED <<windows, file>>

HelperSetAside(f, next) ==
  /\ \/ SetAside(f) /\ helper' = next
     \/ CannotSetAside(f) /\ helper' = "none"
  /\ UNCHANGED <<windows, running, lock, task, faults>>

HelperAgent == helper = "agent" /\ HelperSetAside("agent", "agentSwap")
HelperTray  == helper = "tray" /\ HelperSetAside("tray", "traySwap")

HelperAgentSwap ==
  /\ helper = "agentSwap"
  /\ \/ Place("agent") /\ helper' \in {"tray", "start"} /\ UNCHANGED faults
     \/ CannotPlace("agent") /\ helper' = "none"
  /\ UNCHANGED <<windows, running, lock, task>>

(* The tray's .bak is removed if it can be; nothing waits for it. *)
HelperTraySwap ==
  /\ helper = "traySwap"
  /\ \/ /\ file["tray"].new # 0 /\ helper' = "start" /\ UNCHANGED faults
        /\ \E bak \in {0, file["tray"].bak} :
             file' = [file EXCEPT !["tray"] = [target |-> @.new, bak |-> bak, new |-> 0]]
     \/ CannotPlace("tray") /\ helper' = "none"
  /\ UNCHANGED <<windows, running, lock, task>>

(* sc start, unless it fails or the service runs. *)
HelperStart ==
  /\ helper = "start" /\ helper' = "none"
  /\ \/ running = 0 /\ Boot
     \/ UNCHANGED <<running, file, lock, task>>
  /\ UNCHANGED <<windows, faults>>

-----------------------------------------------------------------------------
UpdateNext ==
  \/ Start \/ Crash
  \/ Command \/ Fail \/ Fetch \/ SkipTray \/ DownloadTray \/ DownloadAgent
  \/ ApplySetAside \/ ApplyPlace \/ Restart \/ SpawnHelper
  \/ HelperStop \/ HelperAgent \/ HelperAgentSwap \/ HelperTray \/ HelperTraySwap
  \/ HelperStart

UpdateSpec == UpdateInit /\ [][UpdateNext]_updateVars

-----------------------------------------------------------------------------
(* Properties. *)

(* Whatever fails and wherever the machine stops, the agent's binary or    *)
(* its .bak is there to be started or put back, unless a rollback failed   *)
(* (the next attempt then removes the .bak as stale).                      *)
AgentNeverLost ==
  file["agent"].target = 0 /\ file["agent"].bak = 0 => "rollback" \in faults

(* Later commands are turned away only while an update is under way, or    *)
(* after a helper that could not stop the service: that process keeps the  *)
(* lock, and ignores every update, until it is restarted.                  *)
LockMeansUpdating == lock => task # "idle" \/ helper # "none" \/ "stop" \in faults
=============================================================================
