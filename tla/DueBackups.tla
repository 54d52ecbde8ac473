----------------------------- MODULE DueBackups -----------------------------
(***************************************************************************)
(* Scheduled backups: the minute tick of each server instance reads the    *)
(* due jobs, checks each against the rows of the current minute and hands  *)
(* it to the instance's BackupQueue, which dispatches a few jobs at a time *)
(* and creates the row only when the dispatch gets to it.  Nothing stops a *)
(* tick from overlapping the one before.                                   *)
(***************************************************************************)
EXTENDS Integers, Sequences, SequencesExt, Cron

CONSTANTS
  Instances,      \* server processes on one database
  Jobs,
  CronOf,         \* the expression of each job
  Clock,          \* each minute as getZonedParts shows it in SCHEDULER_TZ
  MaxConcurrent,  \* MAX_CONCURRENT
  MaxMinute,      \* bound: minutes of the clock
  MaxCrashes      \* bound: restarts of an instance

ASSUME BoundsAssumption ==
  MaxConcurrent \in Nat \ {0} /\ MaxMinute \in Nat /\ MaxCrashes \in Nat

Minutes == 0 .. MaxMinute

(* getZonedParts gives each part of a date in its range; an expression is  *)
(* whatever was saved.                                                     *)
ASSUME ScheduleAssumption ==
  /\ \A j \in Jobs : CronOf[j] \in Seq(Fields)
  /\ \A m \in Minutes : Clock[m] \in Moments

VARIABLES
  minute,   \* the wall clock
  rows,     \* how many backup rows of a job have their started_at in a minute
  ticked,   \* the minute of an instance's last tick, -1 before the first
  lastRun,  \* the minute of the last tick that ran triggerDueBackups, or -1
  scan,     \* triggerDueBackups, per instance and minute of its tick
  pool,     \* BackupQueue, per instance
  crashes

vars == <<minute, rows, ticked, lastRun, scan, pool, crashes>>

(* flight holds the triggerBackup calls that have not settled, oldest first. *)
Dispatches == [job: Jobs, created: BOOLEAN]
Pool == [queue: Seq(Jobs), pending: SUBSET Jobs, running: 0 .. MaxConcurrent,
         flight: Seq(Dispatches)]
Scan == [pc: {"off", "wait", "read", "check"}, at: Minutes, todo: SUBSET Jobs]

EmptyPool == [queue |-> <<>>, pending |-> {}, running |-> 0, flight |-> <<>>]
NoScan    == [pc |-> "off", at |-> 0, todo |-> {}]

TypeOK ==
  /\ minute \in Minutes
  /\ ticked \in [Instances -> Minutes \cup {-1}] /\ lastRun \in [Instances -> Minutes \cup {-1}]
  /\ rows \in [Jobs -> [Minutes -> Nat]]
  /\ scan \in [Instances -> [Minutes -> Scan]]
  /\ pool \in [Instances -> Pool]
  /\ crashes \in 0 .. MaxCrashes

Init ==
  /\ minute = 0 /\ crashes = 0
  /\ ticked = [i \in Instances |-> -1] /\ lastRun = [i \in Instances |-> -1]
  /\ rows = [j \in Jobs |-> [m \in Minutes |-> 0]]
  /\ scan = [i \in Instances |-> [m \in Minutes |-> NoScan]]
  /\ pool = [i \in Instances |-> EmptyPool]

-----------------------------------------------------------------------------
(* BackupQueue. *)

(* drain starts as many of the waiting jobs as there are idle slots. *)
StartableTooMany(p) ==  \* mutant: <= for <
  IF MaxConcurrent + 1 - p.running < Len(p.queue)
    THEN MaxConcurrent + 1 - p.running ELSE Len(p.queue)

Startable(p) ==
  IF MaxConcurrent - p.running < Len(p.queue) THEN MaxConcurrent - p.running ELSE Len(p.queue)

DrainNewest(p) ==  \* mutant: pop for shift
  LET n == Startable(p)  rest == Len(p.queue) - n IN
  [queue   |-> SubSeq(p.queue, 1, rest),
   pending |-> p.pending \ {p.queue[rest + m] : m \in 1 .. n},
   running |-> p.running + n,
   flight  |-> p.flight \o [m \in 1 .. n |-> [job |-> p.queue[rest + m], created |-> FALSE]]]

Drain(p) ==
  LET n == Startable(p) IN
  [queue   |-> SubSeq(p.queue, n + 1, Len(p.queue)),
   pending |-> p.pending \ {p.queue[m] : m \in 1 .. n},
   running |-> p.running + n,
   flight  |-> p.flight \o [m \in 1 .. n |-> [job |-> p.queue[m], created |-> FALSE]]]

EnqueueAgain(p, j) ==  \* mutant: pending is not looked at
  Drain([p EXCEPT !.pending = @ \cup {j}, !.queue = Append(@, j)])

Enqueue(p, j) ==
  IF j \in p.pending THEN p
  ELSE Drain([p EXCEPT !.pending = @ \cup {j}, !.queue = Append(@, j)])

(* The finally of a dispatch. *)
ReleaseOnly(p, k) ==  \* mutant: the slot is not handed on
  [p EXCEPT !.running = @ - 1, !.flight = RemoveAt(@, k)]

Release(p, k) == Drain([p EXCEPT !.running = @ - 1, !.flight = RemoveAt(@, k)])

-----------------------------------------------------------------------------
(* The tick. *)

NextMinute ==
  /\ minute < MaxMinute /\ minute' = minute + 1
  /\ UNCHANGED <<rows, ticked, lastRun, scan, pool, crashes>>

Tick(i) ==
  /\ ticked[i] < minute
  /\ ticked' = [ticked EXCEPT ![i] = minute]
  /\ scan' = [scan EXCEPT ![i][minute].pc = "wait"]
  /\ UNCHANGED <<minute, rows, lastRun, pool, crashes>>

(* The tick awaits the tasks registered before triggerDueBackups.  A tick  *)
(* the next one overtook finds a later lastRun and skips the task; a tick  *)
(* that was held up runs it with the time it has become.                   *)
ScanStart(i, m) ==
  /\ scan[i][m].pc = "wait"
  /\ IF lastRun[i] < m
       THEN /\ lastRun' = [lastRun EXCEPT ![i] = m]
            /\ scan' = [scan EXCEPT ![i][m] = [pc |-> "read", at |-> minute, todo |-> {}]]
       ELSE scan' = [scan EXCEPT ![i][m] = NoScan] /\ UNCHANGED lastRun
  /\ UNCHANGED <<minute, rows, ticked, pool, crashes>>

(* isCronDue on the job and its latest row: the fields match and the row   *)
(* is not of the scan's minute.                                            *)
LatestIsOf(j, m) == rows[j][m] > 0 /\ \A n \in Minutes : n > m => rows[j][n] = 0

isCronDue(j, m) == expressionMatches(CronOf[j], Clock[m]) /\ ~LatestIsOf(j, m)

(* The jobs that are active and due; any job may be switched off.  A read  *)
(* that throws ends the scan as if none were.                              *)
ScanRead(i, m) ==
  /\ scan[i][m].pc = "read"
  /\ \E todo \in SUBSET {j \in Jobs : isCronDue(j, scan[i][m].at)} :
       scan' = [scan EXCEPT ![i][m] =
                 IF todo = {} THEN NoScan ELSE [@ EXCEPT !.pc = "check", !.todo = todo]]
  /\ UNCHANGED <<minute, rows, ticked, lastRun, pool, crashes>>

Checked(s, j) == IF s.todo = {j} THEN NoScan ELSE [s EXCEPT !.todo = @ \ {j}]

(* The count of the job's rows in the scan's minute, then enqueue; a count *)
(* that throws ends the scan.                                              *)
ScanCheck(i, m) ==
  /\ scan[i][m].pc = "check"
  /\ \/ \E j \in scan[i][m].todo :
          /\ scan' = [scan EXCEPT ![i][m] = Checked(@, j)]
          /\ pool' = IF rows[j][scan[i][m].at] > 0 THEN pool
                     ELSE [pool EXCEPT ![i] = Enqueue(@, j)]
     \/ scan' = [scan EXCEPT ![i][m] = NoScan] /\ UNCHANGED pool
  /\ UNCHANGED <<minute, rows, ticked, lastRun, crashes>>

(* sendStartBackupCommand found the job and its agent online and created   *)
(* the row, started now.                                                   *)
DispatchCreate(i, k) ==
  /\ k \in 1 .. Len(pool[i].flight) /\ ~pool[i].flight[k].created
  /\ pool' = [pool EXCEPT ![i].flight[k].created = TRUE]
  /\ rows' = [rows EXCEPT ![pool[i].flight[k].job][minute] = @ + 1]
  /\ UNCHANGED <<minute, ticked, lastRun, scan, crashes>>

(* triggerBackup ends: the command is sent, or anything threw on the way. *)
DispatchEndThen(i, k) ==  \* mutant: then instead of finally, a failure keeps the slot
  /\ k \in 1 .. Len(pool[i].flight)
  /\ pool' = [pool EXCEPT ![i] = IF @.flight[k].created THEN Release(@, k)
                                 ELSE [@ EXCEPT !.flight = RemoveAt(@, k)]]
  /\ UNCHANGED <<minute, rows, ticked, lastRun, scan, crashes>>

DispatchEnd(i, k) ==
  /\ k \in 1 .. Len(pool[i].flight)
  /\ pool' = [pool EXCEPT ![i] = Release(@, k)]
  /\ UNCHANGED <<minute, rows, ticked, lastRun, scan, crashes>>

(* An instance restarts: queue and scans were in memory only, and the timer *)
(* is aligned to the next whole minute.                                     *)
Restart(i) ==
  /\ crashes < MaxCrashes /\ crashes' = crashes + 1
  /\ pool' = [pool EXCEPT ![i] = EmptyPool]
  /\ scan' = [scan EXCEPT ![i] = [m \in Minutes |-> NoScan]]
  /\ ticked' = [ticked EXCEPT ![i] = minute] /\ lastRun' = [lastRun EXCEPT ![i] = -1]
  /\ UNCHANGED <<minute, rows>>

InstanceStep(i) ==
  \/ Tick(i) \/ Restart(i)
  \/ \E m \in Minutes : ScanStart(i, m) \/ ScanRead(i, m) \/ ScanCheck(i, m)
  \/ \E k \in 1 .. Len(pool[i].flight) : DispatchCreate(i, k) \/ DispatchEnd(i, k)

Next == NextMinute \/ \E i \in Instances : InstanceStep(i)

Spec == Init /\ [][Next]_vars

(* A dispatch settles: its database calls return or throw. *)
DueFairness == \A i \in Instances : WF_vars(DispatchEnd(i, 1))

FairSpec == Spec /\ DueFairness

-----------------------------------------------------------------------------
(* Properties. *)

(* running counts the dispatches in flight, never more than MaxConcurrent, *)
(* and a job waits only while every slot is taken: no enqueue, end of a    *)
(* dispatch or restart loses or leaks a slot of BackupQueue.               *)
SlotsConserved ==
  \A i \in Instances :
    LET p == pool[i] IN
    /\ p.running = Len(p.flight) /\ p.running <= MaxConcurrent
    /\ p.queue # <<>> => p.running = MaxConcurrent

(* pending, which the dashboard shows as the queued jobs, is exactly what  *)
(* waits, and no job waits twice though overlapping ticks find it due.     *)
PendingMirrorsQueue ==
  \A i \in Instances :
    LET p == pool[i] IN
    /\ p.pending = ToSet(p.queue)
    /\ \A m, n \in 1 .. Len(p.queue) : m # n => p.queue[m] # p.queue[n]

(* A queued job is dispatched in the end, or forgotten by a restart: the   *)
(* finally of each dispatch hands its slot on.                             *)
WaitingIsServed ==
  \A i \in Instances : \A j \in Jobs : (j \in pool[i].pending) ~> (j \notin pool[i].pending)

(* No job is ever checked, waiting, dispatched or started that was not due *)
(* in some minute so far: the hand-written parser never reads more into an *)
(* expression of the syntax than its comment says, at the turn of an hour, *)
(* day or month either, and however late a tick runs; an expression that   *)
(* isCronDue reports never starts one; a misspelled entry that it does not *)
(* report leaves the other fields as binding as they were.  It does not    *)
(* keep the job from firing, nor is the clock the agent's, as the manual   *)
(* has it ("The job fires on the agent's local system clock"): it is the   *)
(* server's, in SCHEDULER_TZ.                                              *)
Started(j) ==
  \/ \E m \in Minutes : rows[j][m] > 0
  \/ \E i \in Instances :
       \/ \E m \in Minutes : j \in scan[i][m].todo
       \/ j \in pool[i].pending
       \/ \E k \in 1 .. Len(pool[i].flight) : pool[i].flight[k].job = j

OnlyWhenDue ==
  \A j \in Jobs : Started(j) => \E m \in 0 .. minute : NotExcluded(CronOf[j], Clock[m])

(* The queues are what WorkerPool describes, which knows nothing of pending *)
(* sets, drains, rows or dispatches that throw.                             *)
Abstract == INSTANCE WorkerPool
  WITH Pools <- Instances, Workers <- MaxConcurrent,
       waiting <- [i \in Instances |-> pool[i].queue],
       busy <- [i \in Instances |-> pool[i].running]

QueueIsPool == Abstract!FairPoolSpec

(* "reject if a backup was already started within the current calendar     *)
(* minute (protects against NTP clock skew or multiple server instances    *)
(* firing simultaneously)": one row per job and minute.                    *)
OnePerMinute == \A j \in Jobs : \A m \in Minutes : rows[j][m] <= 1
=============================================================================
