-------------------------- MODULE AgentStatusHistory --------------------------
(***************************************************************************)
(* The status rows of one agent, agent-status.ts: callbacks of the socket  *)
(* and a snapshot every ten minutes each read the last row, wait, and      *)
(* insert one if it differs.  The callbacks overlap with one another and   *)
(* with the snapshot; when rows are purged is module Uptime's.             *)
(***************************************************************************)
EXTENDS Integers

CONSTANTS
  Writers, \* slots for callbacks under way
  NoStatus

Status == {"ONLINE", "OFFLINE", "RUNNING_BACKUP", "FAILED_BACKUP"}

ASSUME StatusAssumption == NoStatus \notin Status

VARIABLES
  tracking, \* initAgentStatusTracking has run
  online,   \* the agent has its entry in agentRegistry
  working,  \* the entry's currentJob
  last,     \* the status of the newest row
  writer,   \* per callback: how far, the status to record, what to record after it
  snap      \* the snapshot: how far, the status it read, its entry is the registry's

statusVars == <<tracking, online, working, last, writer, snap>>

Connectivity == "connectivity"  \* to record ONLINE or OFFLINE, whichever holds by then

StatusTypeOK ==
  /\ tracking \in BOOLEAN /\ online \in BOOLEAN /\ working \in BOOLEAN
  /\ last \in Status
  /\ writer \in [Writers -> [pc: {"free", "find", "create"}, status: Status \cup {NoStatus},
                             then: {Connectivity, NoStatus}]]
  /\ snap \in [pc: {"idle", "active", "offline", "offlineRead"}, seen: Status \cup {NoStatus},
               entry: BOOLEAN]

Idle == [pc |-> "free", status |-> NoStatus, then |-> NoStatus]

StatusInit ==
  /\ tracking = FALSE /\ online = FALSE /\ working = FALSE /\ last = "OFFLINE"
  /\ writer = [w \in Writers |-> Idle]
  /\ snap = [pc |-> "idle", seen |-> NoStatus, entry |-> FALSE]

TrackingStarts ==
  /\ ~tracking /\ tracking' = TRUE
  /\ UNCHANGED <<online, working, last, writer, snap>>

-----------------------------------------------------------------------------
(* What the socket's handlers do, and the callback each of them starts.    *)

Records(w, status, then) ==
  /\ writer[w].pc = "free"
  /\ writer' = [writer EXCEPT ![w] = [pc |-> "find", status |-> status, then |-> then]]

(* A new connection replaces the entry, and with it the job it had. *)
Connects(w) ==
  /\ tracking /\ online' = TRUE /\ working' = FALSE
  /\ Records(w, "ONLINE", NoStatus)
  /\ snap' = [snap EXCEPT !.entry = FALSE]
  /\ UNCHANGED <<tracking, last>>

(* onClose or the reaper, whichever removes the entry. *)
Disconnects(w) ==
  /\ online /\ online' = FALSE /\ working' = FALSE
  /\ Records(w, "OFFLINE", NoStatus)
  /\ snap' = [snap EXCEPT !.entry = FALSE]
  /\ UNCHANGED <<tracking, last>>

(* agent_status. *)
Reports ==
  /\ online /\ working' = ~working
  /\ UNCHANGED <<tracking, online, last, writer, snap>>

(* backup_status: the frame came from the agent, and the update of the     *)
(* backup's row was awaited, so the agent may be gone by now.              *)
ConnectivityNow == IF online THEN "ONLINE" ELSE "OFFLINE"

BackupStatus(w) ==
  /\ tracking
  /\ \/ Records(w, "RUNNING_BACKUP", NoStatus)
     \/ Records(w, "FAILED_BACKUP", Connectivity)
     \/ Records(w, ConnectivityNow, NoStatus)
  /\ UNCHANGED <<tracking, online, working, last, snap>>

-----------------------------------------------------------------------------
(* recordStatus. *)

Done(w) ==
  writer' = [writer EXCEPT ![w] =
    IF @.then = Connectivity
      THEN [pc |-> "find", status |-> ConnectivityNow, then |-> NoStatus] ELSE Idle]

RecordFind(w) ==
  /\ writer[w].pc = "find"
  /\ IF last = writer[w].status THEN Done(w)
     ELSE writer' = [writer EXCEPT ![w].pc = "create"]
  /\ UNCHANGED <<tracking, online, working, last, snap>>

RecordCreate(w) ==
  /\ writer[w].pc = "create" /\ last' = writer[w].status
  /\ Done(w)
  /\ UNCHANGED <<tracking, online, working, snap>>

-----------------------------------------------------------------------------
(* The snapshot, active agents first.  A row is also inserted when the     *)
(* last one is six days old; it says the same.                             *)

SnapshotStart ==
  /\ tracking /\ snap.pc = "idle"
  /\ snap' = IF online THEN [pc |-> "active", seen |-> last, entry |-> TRUE]
             ELSE [pc |-> "offline", seen |-> NoStatus, entry |-> FALSE]
  /\ UNCHANGED <<tracking, online, working, last, writer>>

(* The entry was taken before the query; its currentJob is read after it.  *)
(* An entry that left the registry meanwhile keeps whichever job it had.   *)
SnapshotActive ==
  /\ snap.pc = "active"
  /\ \E running \in (IF snap.entry THEN {working} ELSE BOOLEAN) :
       LET now == IF running THEN "RUNNING_BACKUP" ELSE "ONLINE" IN
       last' = IF snap.seen # now THEN now ELSE last
  /\ snap' = [pc |-> "offline", seen |-> NoStatus, entry |-> FALSE]
  /\ UNCHANGED <<tracking, online, working, writer>>

SnapshotOfflineRead ==
  /\ snap.pc = "offline"
  /\ snap' = IF online THEN [snap EXCEPT !.pc = "idle"]
             ELSE [snap EXCEPT !.pc = "offlineRead", !.seen = last]
  /\ UNCHANGED <<tracking, online, working, last, writer>>

OfflineOnlyFirst ==  \* mutant: only an agent without a row gets one
  /\ snap.pc = "offlineRead"
  /\ last' = IF snap.seen = NoStatus THEN "OFFLINE" ELSE last
  /\ snap' = [pc |-> "idle", seen |-> NoStatus, entry |-> FALSE]
  /\ UNCHANGED <<tracking, online, working, writer>>

SnapshotOffline ==
  /\ snap.pc = "offlineRead"
  /\ last' = IF snap.seen # "OFFLINE" THEN "OFFLINE" ELSE last
  /\ snap' = [pc |-> "idle", seen |-> NoStatus, entry |-> FALSE]
  /\ UNCHANGED <<tracking, online, working, writer>>

Snapshot == SnapshotStart \/ SnapshotActive \/ SnapshotOfflineRead \/ SnapshotOffline

-----------------------------------------------------------------------------
Write(w) == RecordFind(w) \/ RecordCreate(w)

StatusNext ==
  \/ TrackingStarts \/ Reports \/ Snapshot
  \/ \E w \in Writers : Connects(w) \/ Disconnects(w) \/ BackupStatus(w) \/ Write(w)

StatusSpec == StatusInit /\ [][StatusNext]_statusVars

StatusFairness ==
  /\ WF_statusVars(Snapshot)
  /\ \A w \in Writers : WF_statusVars(Write(w))

-----------------------------------------------------------------------------
(* Properties. *)

(* Callbacks that were written in the wrong order, or not at all because   *)
(* each read the row the other was about to replace, are put right: the    *)
(* newest row comes to say what the agent's connection and job have been   *)
(* saying since, once no more callbacks come.                              *)
Settled == \A w \in Writers : writer[w].pc = "free"

HistoryCatchesUp ==
  /\ <>[](Settled /\ ~online) => <>[](last = "OFFLINE")
  /\ <>[](Settled /\ online /\ ~working) => <>[](last = "ONLINE")
  /\ <>[](Settled /\ online /\ working) => <>[](last = "RUNNING_BACKUP")
=============================================================================
