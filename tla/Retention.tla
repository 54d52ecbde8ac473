------------------------------ MODULE Retention ------------------------------
(***************************************************************************)
(* Retention of one backup job.  Two independent implementations delete    *)
(* rows of the job: the scheduler's _pruneJob, run hourly under a flag and *)
(* after every upload without it, which deletes a row and then its object; *)
(* and runBackupPolicy, run when the agent reports "completed", which      *)
(* deletes rows alone.  Each decides on rows it read some awaits before.   *)
(***************************************************************************)
EXTENDS Naturals, FiniteSets, FiniteSetsExt

CONSTANTS
  MaxBackups,   \* bound: backups of the job, numbered by started_at
  MaxTime,      \* bound: days
  MaxFaults,    \* bound: database errors, stale writes, crashes of the server
  Null,         \* a rule that is not set
  PolicySets    \* the sets of policies that may be attached to the job

ASSUME BoundsAssumption ==
  /\ MaxBackups \in Nat /\ MaxTime \in Nat /\ MaxFaults \in Nat /\ Null \notin Nat
  /\ \A ps \in PolicySets : ps \subseteq [keep : Nat \cup {Null}, age : Nat \cup {Null}]

Ids     == 1 .. MaxBackups
Pruners == 0 .. MaxBackups  \* 0 is the hourly one, b the one after b's upload

VARIABLES
  policies,   \* live policies attached to the job
  status,     \* status column of each row
  keys,       \* rows whose blob_key is set
  started,    \* started_at, in days
  blobs,      \* objects in the bucket
  now,
  frames,     \* backups whose "completed" frame the server has yet to handle
  prune,      \* _pruneJob, per pruner
  policyRun,  \* runBackupPolicy, per reported backup: the rows it will delete
  retentionRunning,
  faults

vars == <<policies, status, keys, started, blobs, now, frames, prune, policyRun,
          retentionRunning, faults>>

Exists(b)   == status[b] \notin {"absent", "deleted"}
Finished(b) == status[b] \in {"COMPLETED", "FAILED"}
Completed   == {b \in Ids : status[b] = "COMPLETED"}

NoPrune == [pc |-> "off", todo |-> {}, keyed |-> {}, row |-> 0]
Reading == [NoPrune EXCEPT !.pc = "count"]

Status == {"absent", "IN_PROGRESS", "COMPLETED", "FAILED", "deleted"}
Prune  == [pc: {"off", "count", "age", "delete", "remove"}, todo: SUBSET Ids,
           keyed: SUBSET Ids, row: 0 .. MaxBackups]

TypeOK ==
  /\ policies \in PolicySets
  /\ status \in [Ids -> Status]
  /\ keys \subseteq Ids /\ blobs \subseteq Ids /\ frames \subseteq Ids
  /\ now \in 0 .. MaxTime /\ started \in [Ids -> 0 .. MaxTime]
  /\ prune \in [Pruners -> Prune]
  /\ policyRun \in [Ids -> SUBSET Ids]
  /\ retentionRunning \in BOOLEAN /\ faults \in 0 .. MaxFaults

Init ==
  /\ policies \in PolicySets
  /\ status = [b \in Ids |-> "absent"] /\ started = [b \in Ids |-> 0]
  /\ keys = {} /\ blobs = {} /\ frames = {} /\ now = 0
  /\ prune = [p \in Pruners |-> NoPrune] /\ policyRun = [b \in Ids |-> {}]
  /\ retentionRunning = FALSE /\ faults = 0

-----------------------------------------------------------------------------
(* What a rule selects. *)

(* The least value any attached policy gives the rule, or Null. *)
Strictest(values) == IF values \subseteq {Null} THEN Null ELSE Min(values \ {Null})
KeepLastN  == Strictest({p.keep : p \in policies})
MaxAgeDays == Strictest({p.age : p \in policies})

Newer(b, ids) == {o \in ids : o > b}
(* started_at < now - days; a day's reading comes after the day's starts. *)
OlderThan(days) == {b \in Ids : Exists(b) /\ now - started[b] >= days}

BeyondByOne(n, ids) == {b \in ids : Cardinality(Newer(b, ids)) + 1 >= n}  \* mutant: slice(n - 1)
Beyond(n, ids) == {b \in ids : Cardinality(Newer(b, ids)) >= n}

(* _pruneJob's two selections. *)
OverCount == IF KeepLastN = Null THEN {} ELSE Beyond(KeepLastN, Completed)
OverAge   == IF MaxAgeDays = Null THEN {} ELSE {b \in OlderThan(MaxAgeDays) : Finished(b)}

(* runBackupPolicy's: rows of any status, and a rule set to 0 is ignored. *)
PolicySelects ==
  LET rows == {b \in Ids : Exists(b)} IN
  UNION {(IF p.keep \in {Null, 0} THEN {} ELSE Beyond(p.keep, rows))
           \cup (IF p.age \in {Null, 0} THEN {} ELSE OlderThan(p.age)) : p \in policies}

-----------------------------------------------------------------------------
(* Backups come and go (module BackupLifecycle has the detail). *)

Create ==
  /\ \E b \in Ids :
       /\ status[b] = "absent" /\ \A o \in Ids : o < b => status[o] # "absent"
       /\ status' = [status EXCEPT ![b] = "IN_PROGRESS"]
       /\ started' = [started EXCEPT ![b] = now]
  /\ UNCHANGED <<policies, keys, blobs, now, frames, prune, policyRun, retentionRunning, faults>>

(* The object is stored; POST /upload/complete writes the row whatever its *)
(* status, then starts the pruner without awaiting it.  The agent's report *)
(* is on its way.                                                          *)
Complete(b) ==
  /\ Exists(b) /\ b \notin keys
  /\ status' = [status EXCEPT ![b] = "COMPLETED"]
  /\ keys' = keys \cup {b} /\ blobs' = blobs \cup {b}
  /\ frames' = frames \cup {b}
  /\ prune' = [prune EXCEPT ![b] = Reading]
  /\ UNCHANGED <<policies, started, now, policyRun, retentionRunning, faults>>

(* handleBackupStatusUpdate(COMPLETED) up to the read of runBackupPolicy;  *)
(* it finds no row, or its update throws, if the row has been deleted.     *)
Report(b) ==
  /\ b \in frames /\ frames' = frames \ {b}
  /\ IF Exists(b)
       THEN /\ status' = [status EXCEPT ![b] = "COMPLETED"]
            /\ policyRun' = [policyRun EXCEPT ![b] = PolicySelects]
       ELSE UNCHANGED <<status, policyRun>>
  /\ UNCHANGED <<policies, keys, started, blobs, now, prune, retentionRunning, faults>>

FailRaw(b) ==  \* mutant: writes the agent's word, not the enum's
  /\ status[b] = "IN_PROGRESS" /\ status' = [status EXCEPT ![b] = "failed"]
  /\ UNCHANGED <<policies, keys, started, blobs, now, frames, prune, policyRun,
                 retentionRunning, faults>>

(* A failure report, or (a fault) a scan or timeout that read the row      *)
(* before it completed.                                                    *)
Fail(b) ==
  /\ \/ status[b] = "IN_PROGRESS" /\ UNCHANGED faults
     \/ status[b] = "COMPLETED" /\ faults < MaxFaults /\ faults' = faults + 1
  /\ status' = [status EXCEPT ![b] = "FAILED"]
  /\ UNCHANGED <<policies, keys, started, blobs, now, frames, prune, policyRun,
                 retentionRunning>>

-----------------------------------------------------------------------------
(* The scheduler's pruning. *)

HourlyStart ==
  /\ ~retentionRunning /\ retentionRunning' = TRUE
  /\ prune' = [prune EXCEPT ![0] = Reading]
  /\ UNCHANGED <<policies, status, keys, started, blobs, now, frames, policyRun, faults>>

(* The rest of _pruneJob for pruner p; the hourly one lowers its flag. *)
ContinueFlagStuck(p, todo, keyed) ==  \* mutant: the flag is not lowered
  /\ prune' = [prune EXCEPT ![p] =
                IF todo = {} THEN NoPrune ELSE [pc |-> "delete", todo |-> todo,
                                                keyed |-> keyed \cap todo, row |-> 0]]
  /\ UNCHANGED retentionRunning

Continue(p, todo, keyed) ==
  /\ prune' = [prune EXCEPT ![p] =
                IF todo = {} THEN NoPrune ELSE [pc |-> "delete", todo |-> todo,
                                                keyed |-> keyed \cap todo, row |-> 0]]
  /\ retentionRunning' = (retentionRunning /\ ~(p = 0 /\ todo = {}))

(* The policies, then the COMPLETED rows, newest first. *)
PruneCount(p) ==
  /\ prune[p].pc = "count"
  /\ prune' = [prune EXCEPT ![p] = [pc |-> "age", todo |-> OverCount, keyed |-> OverCount,
                                     row |-> 0]]
  /\ UNCHANGED <<policies, status, keys, started, blobs, now, frames, policyRun,
                 retentionRunning, faults>>

PruneAge(p) ==
  /\ prune[p].pc = "age"
  /\ Continue(p, prune[p].todo \cup OverAge, prune[p].keyed \cup (OverAge \cap keys))
  /\ UNCHANGED <<policies, status, keys, started, blobs, now, frames, policyRun, faults>>

(* backup.delete: it throws if the row is gone, or on a database error;    *)
(* the object is then left alone.                                          *)
PruneObjectFirst(p, b) ==  \* mutant: the object goes before the row
  /\ prune[p].pc = "delete" /\ b \in prune[p].todo
  /\ \/ /\ Exists(b) /\ UNCHANGED <<status, faults, retentionRunning>>
        /\ blobs' = blobs \ {b} /\ prune' = [prune EXCEPT ![p].pc = "remove", ![p].todo = @ \ {b}, ![p].row = b]
     \/ /\ ~Exists(b) /\ UNCHANGED <<status, blobs, faults>>
        /\ Continue(p, prune[p].todo \ {b}, prune[p].keyed)
  /\ UNCHANGED <<policies, keys, started, now, frames, policyRun>>

PruneDelete(p, b) ==
  /\ prune[p].pc = "delete" /\ b \in prune[p].todo
  /\ \/ /\ Exists(b) /\ b \in prune[p].keyed
        /\ status' = [status EXCEPT ![b] = "deleted"]
        /\ prune' = [prune EXCEPT ![p].pc = "remove", ![p].todo = @ \ {b}, ![p].row = b]
        /\ UNCHANGED <<faults, retentionRunning>>
     \/ /\ Exists(b) /\ b \notin prune[p].keyed
        /\ status' = [status EXCEPT ![b] = "deleted"]
        /\ Continue(p, prune[p].todo \ {b}, prune[p].keyed)
        /\ UNCHANGED faults
     \/ /\ \/ ~Exists(b) /\ UNCHANGED faults
           \/ faults < MaxFaults /\ faults' = faults + 1
        /\ Continue(p, prune[p].todo \ {b}, prune[p].keyed)
        /\ UNCHANGED status
  /\ UNCHANGED <<policies, keys, started, blobs, now, frames, policyRun>>

(* removeObject of the row just deleted; an error leaves an orphan. *)
PruneRemove(p) ==
  /\ prune[p].pc = "remove"
  /\ blobs' \in {blobs, blobs \ {prune[p].row}}
  /\ Continue(p, prune[p].todo, prune[p].keyed)
  /\ UNCHANGED <<policies, status, keys, started, now, frames, policyRun, faults>>

-----------------------------------------------------------------------------
(* runBackupPolicy. *)

(* One deleteMany; the objects stay. *)
PolicyDelete(b) ==
  /\ policyRun[b] # {}
  /\ policyRun' = [policyRun EXCEPT ![b] = {}]
  /\ \/ /\ status' = [o \in Ids |-> IF o \in policyRun[b] /\ Exists(o) THEN "deleted"
                                                                     ELSE status[o]]
        /\ UNCHANGED faults
     \/ faults < MaxFaults /\ faults' = faults + 1 /\ UNCHANGED status
  /\ UNCHANGED <<policies, keys, started, blobs, now, frames, prune, retentionRunning>>

-----------------------------------------------------------------------------
(* The server dies between any two steps. *)
Crash ==
  /\ faults < MaxFaults /\ faults' = faults + 1
  /\ prune' = [p \in Pruners |-> NoPrune] /\ policyRun' = [b \in Ids |-> {}]
  /\ retentionRunning' = FALSE /\ frames' = {}
  /\ UNCHANGED <<policies, status, keys, started, blobs, now>>

NextDay ==
  /\ now < MaxTime /\ now' = now + 1
  /\ UNCHANGED <<policies, status, keys, started, blobs, frames, prune, policyRun,
                 retentionRunning, faults>>

PruneStep(p) ==
  PruneCount(p) \/ PruneAge(p) \/ PruneRemove(p) \/ \E b \in Ids : PruneDelete(p, b)

Next ==
  \/ Create \/ HourlyStart \/ Crash \/ NextDay
  \/ \E b \in Ids : Complete(b) \/ Report(b) \/ Fail(b) \/ PolicyDelete(b)
  \/ \E p \in Pruners : PruneStep(p)

Spec == Init /\ [][Next]_vars

(* The timer keeps starting the hourly sweep, and what it started runs on. *)
FairSpec == Spec /\ WF_vars(HourlyStart) /\ WF_vars(PruneStep(0))

-----------------------------------------------------------------------------
(* Properties. *)

(* "DB row is deleted first, then the storage object": a row with a key    *)
(* never points to an object that is gone, whichever pruners, uploads and  *)
(* crashes interleave.                                                     *)
RowHasObject == \A b \in keys : Exists(b) => b \in blobs

(* The count rule never eats into the newest: whoever deletes a row that   *)
(* is not over age leaves at least KeepLastN newer rows, though the two    *)
(* pruners count different rows and act on what they read before.          *)
NewestKept ==
  [][\A b \in Ids : Exists(b) /\ status'[b] = "deleted" =>
       \/ MaxAgeDays # Null /\ b \in OlderThan(MaxAgeDays)
       \/ KeepLastN # Null /\ Cardinality({o \in Ids : o > b /\ status'[o] \notin {"absent", "deleted"}})
                                >= KeepLastN]_vars

(* What a rule selects does not stay: a sweep started later removes it,    *)
(* after failed deletes, failed pruners and crashes as well.               *)
PolicyIsEnforced == \A b \in Ids : (b \in OverCount \cup OverAge) ~> b \notin OverCount \cup OverAge

(* "a backup is only deleted when both rules agree it should be removed" *)
BothRulesAgree ==
  [][\A b \in Ids :
       Exists(b) /\ status'[b] = "deleted" /\ KeepLastN # Null /\ MaxAgeDays # Null =>
         b \in OlderThan(MaxAgeDays) /\ b \in OverCount]_vars
=============================================================================
