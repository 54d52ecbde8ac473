------------------------- MODULE AgentRunner_proofs -------------------------
(***************************************************************************)
(* An agent runs one backup at a time, for any number of jobs, connections *)
(* and channel capacities.  The loop and the readers of every connection   *)
(* call process_next_job, and each looks at current_job with no lock held  *)
(* before or after: the argument is that at most one of them is past       *)
(* TakeJob, that the job it has taken is the one current_job names, and    *)
(* that the queue holds each waiting job once.  A second part shows that   *)
(* an outgoing loop that waits for itself never gets on.                   *)
(***************************************************************************)
EXTENDS AgentRunner, TLAPS

Starting(p) == pc[p] \in {"running", "report"}

TakenIsStarting ==
  \A p \in Procs : Starting(p) => doing[p] \in Jobs /\ stage[doing[p]] = "starting"

OneStarter == \A p, q \in Procs : Starting(p) /\ Starting(q) => p = q

QueueWaits ==
  \A m \in 1 .. Len(queue) :
    /\ stage[queue[m]] = "queued"
    /\ \A n \in 1 .. Len(queue) : m # n => queue[m] # queue[n]

IInv == TypeOK /\ OneAtATime /\ TakenIsStarting /\ OneStarter /\ QueueWaits

-----------------------------------------------------------------------------

LEMMA SendTyped ==
  ASSUME TypeOK, NEW c, Send(c)
  PROVE  cmd' \in 0 .. CmdCap
  BY BoundsAssumption DEF TypeOK, Send

LEMMA ReportTyped ==
  ASSUME TypeOK, NEW c, SendReport(c)
  PROVE  cmd' \in 0 .. CmdCap
  BY SendTyped DEF SendReport

LEMMA ProcsAreNumbers == Loop \in Procs /\ Conns \subseteq Procs /\ MaxConns \in Nat
  BY BoundsAssumption DEF Loop, Procs, Conns

LEMMA InitType == Init => TypeOK
<1> SUFFICES ASSUME Init PROVE TypeOK
  OBVIOUS
<1>1. conn \in Procs /\ update \in Procs /\ tx \in [Jobs -> Procs]
  BY ProcsAreNumbers DEF Init, Loop
<1>2. pc \in [Procs -> Pc] /\ doing \in [Procs -> Jobs \cup {None}]
  BY DEF Init, Pc
<1>3. stage \in [Jobs -> Stage]
  BY DEF Init, Stage
<1>4. cmd \in 0 .. CmdCap /\ msgs \in [Jobs -> 0 .. ProgressCap]
  BY BoundsAssumption DEF Init
<1>5. fired \in BOOLEAN /\ restarts \in BOOLEAN
  BY Zenon DEF Init
<1>6. queue \in Seq(Jobs)
  BY DEF Init
<1> QED  BY <1>1, <1>2, <1>3, <1>4, <1>5, <1>6 DEF Init, TypeOK

LEMMA ProcessType ==
  ASSUME TypeOK, NEW p \in Procs, ProcessNextJob(p)
  PROVE  TypeOK'
<1>1. CASE LockQueue(p)
  BY <1>1 DEF LockQueue, TypeOK, Pc, link, jobs
<1>2. CASE TakeJob(p)
  <2>1. CASE cur # None \/ queue = <<>>
    BY <1>2, <2>1 DEF TakeJob, TypeOK, Pc, link
  <2>2. CASE ~(cur # None \/ queue = <<>>)
    <3>1. Head(queue) \in Jobs /\ Tail(queue) \in Seq(Jobs)
      BY <2>2 DEF TypeOK
    <3>2. stage' \in [Jobs -> Stage]
      BY <1>2, <2>2, <3>1 DEF TakeJob, TypeOK, Stage
    <3>3. doing' \in [Procs -> Jobs \cup {None}]
      BY <1>2, <2>2, <3>1 DEF TakeJob, TypeOK
    <3>5. pc' \in [Procs -> Pc]
      BY <1>2, <2>2 DEF TakeJob, TypeOK, Pc
    <3>4. queue' \in Seq(Jobs) /\ cur' \in Jobs \cup {None} /\ queueLock' \in Procs \cup {None}
      BY <1>2, <2>2, <3>1 DEF TakeJob, TypeOK
    <3> QED  BY <1>2, <3>2, <3>3, <3>4, <3>5 DEF TakeJob, TypeOK, link
  <2> QED  BY <2>1, <2>2
<1>3. CASE SendRunning(p)
  <2>1. cmd' \in 0 .. CmdCap
    BY <1>3, SendTyped DEF SendRunning
  <2> QED  BY <1>3, <2>1 DEF SendRunning, TypeOK, Pc, jobs
<1>4. CASE Spawn(p)
  <2>1. cmd' \in 0 .. CmdCap
    BY <1>4, ReportTyped DEF Spawn
  <2>2. pc' \in [Procs -> Pc] /\ doing' \in [Procs -> Jobs \cup {None}]
    BY <1>4 DEF Spawn, TypeOK, Pc
  <2>3. stage' \in [Jobs -> Stage] /\ tx' \in [Jobs -> Procs]
    BY <1>4 DEF Spawn, TypeOK, Stage, SenderOf
  <2> QED  BY <1>4, <2>1, <2>2, <2>3 DEF Spawn, TypeOK
<1> QED  BY <1>1, <1>2, <1>3, <1>4 DEF ProcessNextJob

LEMMA ReaderType ==
  ASSUME TypeOK, NEW c \in Conns, Reader(c)
  PROVE  TypeOK'
<1>1. c \in Procs
  BY BoundsAssumption DEF Conns, Procs
<1>2. CASE CheckIdle(c)
  BY <1>2 DEF CheckIdle, TypeOK, Pc, link, jobs
<1>3. CASE Request(c)
  BY <1>3 DEF Request, TypeOK, Pc, link, jobs
<1>7. CASE ReaderEnd(c)
  BY <1>7 DEF ReaderEnd, TypeOK, Pc, link, jobs
<1>4. CASE Reply(c)
  <2>1. cmd' \in 0 .. CmdCap
    BY <1>4, SendTyped DEF Reply
  <2> QED  BY <1>4, <2>1 DEF Reply, TypeOK, Pc, jobs
<1>5. CASE UpdateLook(c) \/ UpdateLookQueue(c)
  <2>1. pc' \in [Procs -> Pc]
    BY <1>5 DEF UpdateLook, UpdateLookQueue, TypeOK, Pc
  <2> QED  BY <1>5, <2>1 DEF UpdateLook, UpdateLookQueue, TypeOK, link, jobs
<1>8. CASE UpdateStart(c)
  <2>1. cmd' \in 0 .. CmdCap
    BY <1>8, SendTyped DEF UpdateStart
  <2>2. pc' \in [Procs -> Pc]
    BY <1>8 DEF UpdateStart, TypeOK, Pc
  <2> QED  BY <1>1, <1>8, <2>1, <2>2 DEF UpdateStart, TypeOK, jobs
<1>6. ASSUME NEW j \in Jobs, StartBackup(c, j) PROVE TypeOK'
  <2>1. queue' \in Seq(Jobs)
    BY <1>6 DEF StartBackup, TypeOK
  <2>2. stage' \in [Jobs -> Stage]
    BY <1>6 DEF StartBackup, TypeOK, Stage
  <2>3. pc' \in [Procs -> Pc]
    BY <1>6 DEF StartBackup, TypeOK, Pc
  <2> QED  BY <1>6, <2>1, <2>2, <2>3 DEF StartBackup, TypeOK, link
<1> QED  BY <1>2, <1>3, <1>4, <1>5, <1>6, <1>7, <1>8 DEF Reader, UpdateCommand

LEMMA JobType ==
  ASSUME TypeOK, NEW j \in Jobs, JobStep(j)
  PROVE  TypeOK'
<1>1. CASE Progress(j)
  BY <1>1, BoundsAssumption DEF Progress, TypeOK, link, jobs
<1>2. CASE Forward(j)
  <2>1. cmd' \in 0 .. CmdCap
    BY <1>2, ReportTyped DEF Forward
  <2>2. msgs' \in [Jobs -> 0 .. ProgressCap]
    BY <1>2, BoundsAssumption DEF Forward, TypeOK
  <2> QED  BY <1>2, <2>1, <2>2 DEF Forward, TypeOK, jobs
<1>3. CASE RunEnd(j)
  BY <1>3 DEF RunEnd, TypeOK, Stage, link
<1>4. CASE FinalLock(j)
  BY <1>4 DEF FinalLock, TypeOK, Stage, link
<1>5. CASE FinalSend(j)
  <2>1. cmd' \in 0 .. CmdCap
    BY <1>5, SendTyped DEF FinalSend
  <2> QED  BY <1>5, <2>1 DEF FinalSend, TypeOK, Stage
<1>6. CASE FinalReport(j) \/ LastReport(j)
  <2>1. cmd' \in 0 .. CmdCap
    BY <1>6, ReportTyped DEF FinalReport, LastReport
  <2> QED  BY <1>6, <2>1 DEF FinalReport, LastReport, TypeOK, Stage
<1>7. CASE Clear(j)
  BY <1>7 DEF Clear, TypeOK, Stage, link
<1> QED  BY <1>1, <1>2, <1>3, <1>4, <1>5, <1>6, <1>7 DEF JobStep, Finish

LEMMA NextType == TypeOK /\ [Next]_vars => TypeOK'
<1> SUFFICES ASSUME TypeOK, [Next]_vars PROVE TypeOK'
  OBVIOUS
<1>1. CASE UNCHANGED vars
  BY <1>1 DEF vars, link, jobs, TypeOK
<1>2. CASE Connect
  <2>1. conn' \in Procs
    BY <1>2, BoundsAssumption DEF Connect, TypeOK, Procs
  <2>2. pc' \in [Procs -> Pc]
    BY <1>2 DEF Connect, TypeOK, Pc
  <2> QED  BY <1>2, <2>1, <2>2 DEF Connect, TypeOK, jobs
<1>3. CASE Watchdog
  BY <1>3 DEF Watchdog, TypeOK, jobs
<1>4. CASE LoopWrite
  BY <1>4, BoundsAssumption DEF LoopWrite, TypeOK, jobs
<1>5. CASE LoopEnd
  <2>1. pc' \in [Procs -> Pc]
    BY <1>5 DEF LoopEnd, TypeOK, Pc
  <2>2. cmd' \in 0 .. CmdCap
    BY <1>5, BoundsAssumption DEF LoopEnd
  <2>3. fired' \in BOOLEAN
    BY <1>5, Zenon DEF LoopEnd
  <2> QED  BY <1>5, <2>1, <2>2, <2>3 DEF LoopEnd, TypeOK, jobs
<1>6. CASE LoopTick
  BY <1>6 DEF LoopTick, TypeOK, Pc, link, jobs
<1>7. CASE UpdateEnd
  <2>1. cmd' \in 0 .. CmdCap
    BY <1>7, SendTyped DEF UpdateEnd, TypeOK
  <2> QED  BY <1>7, <2>1, BoundsAssumption DEF UpdateEnd, TypeOK, Procs, jobs
<1>8. CASE UpdateRestart
  <2>1. pc' \in [Procs -> Pc] /\ doing' \in [Procs -> Jobs \cup {None}]
    BY <1>8 DEF UpdateRestart, Pc
  <2>2. stage' \in [Jobs -> Stage]
    BY <1>8 DEF UpdateRestart, TypeOK, Stage
  <2>3. cmd' \in 0 .. CmdCap /\ msgs' \in [Jobs -> 0 .. ProgressCap] /\ update' \in Procs
    BY <1>8, BoundsAssumption DEF UpdateRestart, Procs
  <2>4. fired' \in BOOLEAN /\ restarts' \in BOOLEAN
    BY <1>8, Zenon DEF UpdateRestart
  <2>6. queue' \in Seq(Jobs)
    BY <1>8 DEF UpdateRestart
  <2>5. queueLock' \in Procs \cup {None} /\ curLock' \in Jobs \cup {None}
        /\ cur' \in Jobs \cup {None} /\ conn' \in Procs /\ tx' \in [Jobs -> Procs]
    BY <1>8 DEF UpdateRestart, TypeOK
  <2> QED  BY <2>1, <2>2, <2>3, <2>4, <2>5, <2>6 DEF TypeOK
<1> QED
  BY <1>1, <1>2, <1>3, <1>4, <1>5, <1>6, <1>7, <1>8, ProcessType, ReaderType, JobType DEF Next

(* Every variable stays in its type: the cmd channel within its capacity,  *)
(* current_job locked by a backup task only.                               *)
THEOREM TypeCorrect == Spec => []TypeOK
  BY InitType, NextType, PTL DEF Spec

-----------------------------------------------------------------------------
(* The inductive step.  What a step must leave alone for each conjunct. *)

LEMMA Untouched ==
  ASSUME IInv, TypeOK', UNCHANGED <<pc, doing, queue, cur, stage>>
  PROVE  IInv'
  BY DEF IInv, OneAtATime, Running, TakenIsStarting, OneStarter, Starting, QueueWaits

(* A step that brings no process to the end of process_next_job. *)
LEMMA PcOnly ==
  ASSUME IInv, TypeOK', UNCHANGED <<doing, queue, cur, stage>>,
         \A p \in Procs : Starting(p)' => Starting(p)
  PROVE  IInv'
<1>1. OneAtATime' /\ QueueWaits'
  BY DEF IInv, OneAtATime, Running, QueueWaits
<1>2. TakenIsStarting'
  BY DEF IInv, TakenIsStarting
<1>3. OneStarter'
  BY DEF IInv, OneStarter
<1> QED  BY <1>1, <1>2, <1>3 DEF IInv

(* A running job moves on, but not out of the stages of a running job. *)
LEMMA StageOnly ==
  ASSUME IInv, TypeOK', UNCHANGED <<pc, doing, queue, cur>>, NEW j \in Jobs, NEW s \in Stage,
         stage' = [stage EXCEPT ![j] = s],
         stage[j] \notin {"starting", "queued"}, s # "starting",
         stage[j] \in {"run", "final", "send", "report", "clear"}
           <=> s \in {"run", "final", "send", "report", "clear"}
  PROVE  IInv'
<1>1. stage \in [Jobs -> Stage] /\ queue \in Seq(Jobs) /\ doing \in [Procs -> Jobs \cup {None}]
  BY DEF IInv, TypeOK
<1>2. \A i \in Jobs : Running(i)' <=> Running(i)
  BY <1>1 DEF Running
<1>3. OneAtATime'
  BY <1>2 DEF IInv, OneAtATime
<1>4. TakenIsStarting'
  BY <1>1 DEF IInv, TakenIsStarting, Starting
<1>5. OneStarter'
  BY DEF IInv, OneStarter, Starting
<1>6. QueueWaits'
  BY <1>1 DEF IInv, QueueWaits
<1> QED  BY <1>3, <1>4, <1>5, <1>6 DEF IInv

LEMMA InitIInv == Init => IInv
  BY InitType DEF Init, IInv, OneAtATime, Running, TakenIsStarting, OneStarter, Starting,
                  QueueWaits

LEMMA TakeStep ==
  ASSUME IInv, TypeOK', NEW p \in Procs, TakeJob(p)
  PROVE  IInv'
<1>1. /\ stage \in [Jobs -> Stage] /\ queue \in Seq(Jobs) /\ pc \in [Procs -> Pc]
      /\ doing \in [Procs -> Jobs \cup {None}] /\ cur \in Jobs \cup {None}
  BY DEF IInv, TypeOK
<1>2. CASE cur # None \/ queue = <<>>
  <2>1. UNCHANGED <<doing, queue, cur, stage>> /\ pc' = [pc EXCEPT ![p] = "ready"]
    BY <1>2 DEF TakeJob
  <2>2. pc[p] = "locked"
    BY DEF TakeJob
  <2>3. \A q \in Procs : Starting(q)' <=> Starting(q)
    BY <1>1, <2>1, <2>2 DEF Starting
  <2> QED  BY <2>1, <2>3, PcOnly
<1>3. CASE cur = None /\ queue # <<>>
  <2> DEFINE j == Head(queue)
  <2>1. /\ pc' = [pc EXCEPT ![p] = "running"] /\ doing' = [doing EXCEPT ![p] = j]
        /\ queue' = Tail(queue) /\ cur' = j /\ stage' = [stage EXCEPT ![j] = "starting"]
    BY <1>3 DEF TakeJob
  <2>2. j \in Jobs /\ j = queue[1] /\ 1 \in 1 .. Len(queue)
    BY <1>1, <1>3
  <2>3. Len(queue') = Len(queue) - 1 /\ \A m \in 1 .. Len(queue') : queue'[m] = queue[m + 1]
    BY <1>1, <1>3, <2>1
  <2>4. stage[j] = "queued"
    BY <2>2 DEF IInv, QueueWaits
  <2> HIDE DEF j
  <2>5. \A i \in Jobs : ~Running(i)
    BY <1>3 DEF IInv, OneAtATime
  <2>6. OneAtATime'
    <3>1. \A i \in Jobs : Running(i)' <=> i = j
      BY <1>1, <2>1, <2>2, <2>5 DEF Running
    <3>2. {i \in Jobs : Running(i)'} = {j}
      BY <2>2, <3>1
    <3>3. j # None
      BY <2>2, BoundsAssumption
    <3> QED  BY <2>1, <3>2, <3>3 DEF OneAtATime
  <2>7. \A q \in Procs : ~Starting(q)
    BY <2>5 DEF IInv, TakenIsStarting, Running
  <2>8. TakenIsStarting' /\ OneStarter'
    <3>1. \A q \in Procs : Starting(q)' => q = p
      BY <1>1, <2>1, <2>7 DEF Starting
    <3>2. doing'[p] = j /\ stage'[j] = "starting"
      BY <1>1, <2>1, <2>2
    <3> QED  BY <2>2, <3>1, <3>2 DEF TakenIsStarting, OneStarter
  <2>9. QueueWaits'
    <3> SUFFICES ASSUME NEW m \in 1 .. Len(queue')
                 PROVE  /\ stage'[queue'[m]] = "queued"
                        /\ \A n \in 1 .. Len(queue') : m # n => queue'[m] # queue'[n]
      BY DEF QueueWaits
    <3>1. m + 1 \in 1 .. Len(queue) /\ m + 1 # 1
      BY <1>1, <2>3
    <3>2. stage[queue[m + 1]] = "queued" /\ queue[m + 1] # j /\ queue[m + 1] \in Jobs
      BY <1>1, <2>2, <3>1 DEF IInv, QueueWaits
    <3>3. \A n \in 1 .. Len(queue') : m # n => queue[m + 1] # queue[n + 1]
      <4> SUFFICES ASSUME NEW n \in 1 .. Len(queue'), m # n PROVE queue[m + 1] # queue[n + 1]
        OBVIOUS
      <4>1. n + 1 \in 1 .. Len(queue) /\ m + 1 # n + 1
        BY <1>1, <2>3
      <4> QED  BY <3>1, <4>1 DEF IInv, QueueWaits
    <3>4. stage'[queue'[m]] = "queued"
      BY <1>1, <2>1, <2>3, <3>2
    <3> QED  BY <2>3, <3>3, <3>4
  <2> QED  BY <2>6, <2>8, <2>9 DEF IInv
<1> QED  BY <1>2, <1>3

LEMMA SpawnStep ==
  ASSUME IInv, TypeOK', NEW p \in Procs, Spawn(p)
  PROVE  IInv'
<1> DEFINE j == doing[p]
<1>1. /\ stage \in [Jobs -> Stage] /\ queue \in Seq(Jobs) /\ pc \in [Procs -> Pc]
      /\ doing \in [Procs -> Jobs \cup {None}]
  BY DEF IInv, TypeOK
<1>2. /\ pc[p] = "report" /\ pc' = [pc EXCEPT ![p] = "ready"]
      /\ doing' = [doing EXCEPT ![p] = None] /\ stage' = [stage EXCEPT ![j] = "run"]
      /\ queue' = queue /\ cur' = cur
  BY DEF Spawn
<1>3. j \in Jobs /\ stage[j] = "starting"
  BY <1>2 DEF IInv, TakenIsStarting, Starting
<1> HIDE DEF j
<1>4. OneAtATime'
  <2>1. \A i \in Jobs : Running(i)' <=> Running(i)
    BY <1>1, <1>2, <1>3 DEF Running
  <2> QED  BY <1>2, <2>1 DEF IInv, OneAtATime
<1>5. \A q \in Procs : ~Starting(q)'
  <2>1. \A q \in Procs : q # p => ~Starting(q)
    BY <1>2 DEF IInv, OneStarter, Starting
  <2> QED  BY <1>1, <1>2, <2>1 DEF Starting
<1>6. TakenIsStarting' /\ OneStarter'
  BY <1>5 DEF TakenIsStarting, OneStarter
<1>7. QueueWaits'
  BY <1>1, <1>2, <1>3 DEF IInv, QueueWaits
<1> QED  BY <1>4, <1>6, <1>7 DEF IInv

LEMMA StartBackupStep ==
  ASSUME IInv, TypeOK', NEW c \in Conns, NEW j \in Jobs, StartBackup(c, j)
  PROVE  IInv'
<1>1. /\ stage \in [Jobs -> Stage] /\ queue \in Seq(Jobs) /\ pc \in [Procs -> Pc]
      /\ doing \in [Procs -> Jobs \cup {None}] /\ c \in Procs
  BY ProcsAreNumbers DEF IInv, TypeOK
<1>2. /\ pc[c] = "ready" /\ pc' = [pc EXCEPT ![c] = "check"] /\ stage[j] = "new"
      /\ queue' = Append(queue, j) /\ stage' = [stage EXCEPT ![j] = "queued"]
      /\ cur' = cur /\ doing' = doing
  BY DEF StartBackup
<1>3. OneAtATime'
  <2>1. \A i \in Jobs : Running(i)' <=> Running(i)
    BY <1>1, <1>2 DEF Running
  <2> QED  BY <1>2, <2>1 DEF IInv, OneAtATime
<1>4. \A q \in Procs : Starting(q)' <=> Starting(q)
  BY <1>1, <1>2 DEF Starting
<1>5. TakenIsStarting' /\ OneStarter'
  BY <1>1, <1>2, <1>4 DEF IInv, TakenIsStarting, OneStarter
<1>6. QueueWaits'
  <2>1. /\ Len(queue') = Len(queue) + 1 /\ queue'[Len(queue) + 1] = j
        /\ \A m \in 1 .. Len(queue) : queue'[m] = queue[m] /\ queue[m] \in Jobs
    BY <1>1, <1>2
  <2>2. \A m \in 1 .. Len(queue) : queue[m] # j /\ stage[queue[m]] = "queued"
    BY <1>2 DEF IInv, QueueWaits
  <2>3. \A m \in 1 .. Len(queue') : m \in 1 .. Len(queue) \/ m = Len(queue) + 1
    BY <1>1, <2>1
  <2>4. \A m \in 1 .. Len(queue') : stage'[queue'[m]] = "queued"
    BY <1>1, <1>2, <2>1, <2>2, <2>3
  <2>5. \A m, n \in 1 .. Len(queue') : m # n => queue'[m] # queue'[n]
    BY <2>1, <2>2, <2>3 DEF IInv, QueueWaits
  <2> QED  BY <2>4, <2>5 DEF QueueWaits
<1> QED  BY <1>3, <1>5, <1>6 DEF IInv

LEMMA ClearStep ==
  ASSUME IInv, TypeOK', NEW j \in Jobs, Clear(j)
  PROVE  IInv'
<1>1. /\ stage \in [Jobs -> Stage] /\ queue \in Seq(Jobs) /\ doing \in [Procs -> Jobs \cup {None}]
  BY DEF IInv, TypeOK
<1>2. /\ stage[j] = "clear" /\ stage' = [stage EXCEPT ![j] = "cleared"] /\ cur' = None
      /\ UNCHANGED <<pc, doing, queue>>
  BY DEF Clear
<1>3. OneAtATime'
  <2>1. \A i \in Jobs : Running(i) => i = j
    <3>1. j \in {cur} \ {None}
      BY <1>2 DEF IInv, OneAtATime, Running
    <3> QED  BY <3>1 DEF IInv, OneAtATime
  <2>2. \A i \in Jobs : ~Running(i)'
    BY <1>1, <1>2, <2>1 DEF Running
  <2> QED  BY <1>2, <2>2 DEF OneAtATime
<1>4. TakenIsStarting'
  BY <1>1, <1>2 DEF IInv, TakenIsStarting, Starting
<1>5. OneStarter'
  BY <1>2 DEF IInv, OneStarter, Starting
<1>6. QueueWaits'
  BY <1>1, <1>2 DEF IInv, QueueWaits
<1> QED  BY <1>3, <1>4, <1>5, <1>6 DEF IInv

LEMMA RestartStep ==
  ASSUME IInv, TypeOK', UpdateRestart
  PROVE  IInv'
<1>1. \A p \in Procs : ~Starting(p)'
  BY DEF UpdateRestart, Starting
<1>2. \A j \in Jobs : ~Running(j)'
  BY DEF UpdateRestart, Running
<1>3. cur' = None /\ queue' = <<>>
  BY DEF UpdateRestart
<1>4. OneAtATime'
  BY <1>2, <1>3 DEF OneAtATime
<1>5. TakenIsStarting' /\ OneStarter'
  BY <1>1 DEF TakenIsStarting, OneStarter
<1>6. QueueWaits'
  BY <1>3 DEF QueueWaits
<1> QED  BY <1>4, <1>5, <1>6 DEF IInv

LEMMA NextIInv == IInv /\ [Next]_vars => IInv'
<1> SUFFICES ASSUME IInv, [Next]_vars PROVE IInv'
  OBVIOUS
<1>1. TypeOK' /\ TypeOK
  BY NextType DEF IInv
<1>2. pc \in [Procs -> Pc] /\ Conns \subseteq Procs /\ Loop \in Procs
  BY <1>1, ProcsAreNumbers DEF TypeOK
<1>3. CASE UNCHANGED vars \/ Watchdog \/ LoopWrite \/ UpdateEnd
  BY <1>1, <1>3, Untouched DEF vars, link, jobs, Watchdog, LoopWrite, UpdateEnd
<1>4. CASE Connect
  <2>1. \A p \in Procs : Starting(p)' => Starting(p)
    BY <1>2, <1>4 DEF Connect, Starting
  <2> QED  BY <1>1, <1>4, <2>1, PcOnly DEF Connect, jobs
<1>5. CASE LoopEnd \/ LoopTick
  <2>1. \A p \in Procs : Starting(p)' <=> Starting(p)
    BY <1>2, <1>5 DEF LoopEnd, LoopTick, Starting
  <2> QED  BY <1>1, <1>5, <2>1, PcOnly DEF LoopEnd, LoopTick, jobs
<1>6. ASSUME NEW p \in Procs, ProcessNextJob(p) PROVE IInv'
  <2>1. CASE LockQueue(p) \/ SendRunning(p)
    <3>1. \A q \in Procs : Starting(q)' <=> Starting(q)
      BY <1>2, <2>1 DEF LockQueue, SendRunning, Starting
    <3> QED  BY <1>1, <2>1, <3>1, PcOnly DEF LockQueue, SendRunning, jobs
  <2> QED  BY <1>1, <1>6, <2>1, TakeStep, SpawnStep DEF ProcessNextJob
<1>7. ASSUME NEW c \in Conns, Reader(c) PROVE IInv'
  <2>1. CASE CheckIdle(c) \/ Request(c) \/ Reply(c) \/ ReaderEnd(c)
    <3>1. \A q \in Procs : Starting(q)' => Starting(q)
      BY <1>2, <2>1 DEF CheckIdle, Request, Reply, ReaderEnd, Starting
    <3> QED  BY <1>1, <2>1, <3>1, PcOnly DEF CheckIdle, Request, Reply, ReaderEnd, jobs
  <2>2. CASE UpdateCommand(c)
    <3>1. \A q \in Procs : Starting(q)' => Starting(q)
      BY <1>2, <2>2 DEF UpdateCommand, UpdateLook, UpdateLookQueue, UpdateStart, Starting
    <3> QED
      BY <1>1, <2>2, <3>1, PcOnly
      DEF UpdateCommand, UpdateLook, UpdateLookQueue, UpdateStart, jobs
  <2> QED  BY <1>1, <1>7, <2>1, <2>2, StartBackupStep DEF Reader
<1>8. ASSUME NEW j \in Jobs, JobStep(j) PROVE IInv'
  <2>1. CASE Progress(j) \/ Forward(j)
    BY <1>1, <2>1, Untouched DEF Progress, Forward, jobs
  <2>2. CASE RunEnd(j)
    BY <1>1, <2>2, StageOnly DEF RunEnd, Stage
  <2>3. CASE FinalLock(j)
    BY <1>1, <2>3, StageOnly DEF FinalLock, Stage
  <2>4. CASE FinalSend(j)
    BY <1>1, <2>4, StageOnly DEF FinalSend, Stage
  <2>5. CASE FinalReport(j)
    BY <1>1, <2>5, StageOnly DEF FinalReport, Stage
  <2>6. CASE LastReport(j)
    BY <1>1, <2>6, StageOnly DEF LastReport, Stage
  <2> QED  BY <1>1, <1>8, <2>1, <2>2, <2>3, <2>4, <2>5, <2>6, ClearStep DEF JobStep, Finish
<1> QED
  BY <1>1, <1>3, <1>4, <1>5, <1>6, <1>7, <1>8, RestartStep DEF Next

(* "Only one job can run at a time per agent": the loop and the readers of *)
(* old and new connections never start a job while another one runs, and   *)
(* current_job names the one that does.                                    *)
THEOREM OneBackupAtATime == Spec => []OneAtATime
<1>1. IInv => OneAtATime
  BY DEF IInv
<1> QED  BY <1>1, InitIInv, NextIInv, PTL DEF Spec

-----------------------------------------------------------------------------
(* A loop that waits for itself does so for ever.  Whoever holds           *)
(* current_job's mutex is sending its final status, and a process that is  *)
(* restarted is over: the argument needs that beside IInv.                 *)

LockIsSending  == curLock # None => stage[curLock] = "send"
RestartedIsOff == restarts => pc[Loop] = "off"

HInv == IInv /\ LockIsSending /\ RestartedIsOff

LEMMA InitHInv == Init => HInv
BY InitIInv, ProcsAreNumbers DEF Init, HInv, LockIsSending, RestartedIsOff

(* Steps that leave the holder of the mutex, and its stage, alone. *)
LEMMA HolderStays ==
  ASSUME HInv, curLock' = curLock,
         \A j \in Jobs : stage[j] = "send" => stage'[j] = "send"
  PROVE  LockIsSending'
BY DEF HInv, IInv, TypeOK, LockIsSending

LEMMA NextLockIsSending == HInv /\ [Next]_vars => LockIsSending'
<1> SUFFICES ASSUME HInv, [Next]_vars PROVE LockIsSending'
  OBVIOUS
<1> DEFINE Kept == curLock' = curLock /\ \A j \in Jobs : stage[j] = "send" => stage'[j] = "send"
<1>0. stage \in [Jobs -> Stage] /\ curLock \in Jobs \cup {None} /\ queue \in Seq(Jobs)
  BY DEF HInv, IInv, TypeOK
<1>1. ASSUME NEW p \in Procs, ProcessNextJob(p) PROVE Kept
  <2>1. CASE LockQueue(p) \/ SendRunning(p)
    BY <2>1 DEF LockQueue, SendRunning, jobs
  <2>2. CASE TakeJob(p)
    <3>1. CASE cur # None \/ queue = <<>>
      BY <2>2, <3>1 DEF TakeJob
    <3>2. CASE ~(cur # None \/ queue = <<>>)
      <4>1. stage[Head(queue)] = "queued"
        BY <1>0, <3>2 DEF HInv, IInv, QueueWaits
      <4> QED  BY <1>0, <2>2, <3>2, <4>1 DEF TakeJob
    <3> QED  BY <3>1, <3>2
  <2>3. CASE Spawn(p)
    <3>1. stage[doing[p]] = "starting"
      BY <2>3 DEF Spawn, HInv, IInv, TakenIsStarting, Starting
    <3> QED  BY <1>0, <2>3, <3>1 DEF Spawn
  <2> QED  BY <1>1, <2>1, <2>2, <2>3 DEF ProcessNextJob
<1>2. ASSUME NEW c \in Conns, Reader(c) PROVE Kept
  <2>1. ASSUME NEW j \in Jobs, StartBackup(c, j) PROVE Kept
    BY <1>0, <2>1 DEF StartBackup
  <2> QED
    BY <1>2, <2>1
    DEF Reader, CheckIdle, Request, Reply, UpdateCommand, UpdateLook, UpdateLookQueue,
        UpdateStart, ReaderEnd, jobs
<1>3. ASSUME NEW j \in Jobs, JobStep(j), ~FinalLock(j), ~FinalSend(j) PROVE Kept
  BY <1>0, <1>3
  DEF JobStep, Progress, Forward, RunEnd, Finish, FinalReport, Clear, LastReport, jobs
<1>4. ASSUME NEW j \in Jobs, FinalLock(j) \/ FinalSend(j) PROVE LockIsSending'
  BY <1>0, <1>4 DEF FinalLock, FinalSend, LockIsSending
<1>5. CASE UpdateRestart
  BY <1>5 DEF UpdateRestart, LockIsSending
<1>6. CASE Connect \/ Watchdog \/ LoopWrite \/ LoopEnd \/ LoopTick \/ UpdateEnd \/ UNCHANGED vars
  BY <1>6 DEF Connect, Watchdog, LoopWrite, LoopEnd, LoopTick, UpdateEnd, vars, jobs,
              HInv, LockIsSending
<1> QED
  BY <1>1, <1>2, <1>3, <1>4, <1>5, <1>6, HolderStays DEF Next

LEMMA NextRestartedIsOff == HInv /\ [Next]_vars => RestartedIsOff'
<1> SUFFICES ASSUME HInv, [Next]_vars, restarts' PROVE pc'[Loop] = "off"
  BY DEF RestartedIsOff
<1>0. pc \in [Procs -> Pc] /\ Loop \in Procs /\ \A c \in Conns : c # Loop
  BY ProcsAreNumbers DEF HInv, IInv, TypeOK, Conns, Loop
<1>1. CASE UpdateRestart
  BY <1>0, <1>1 DEF UpdateRestart
<1>2. CASE restarts /\ ~UpdateRestart
  <2>1. pc[Loop] = "off"
    BY <1>2 DEF HInv, RestartedIsOff
  <2>2. ASSUME NEW p \in Procs, ProcessNextJob(p) PROVE pc'[Loop] = "off"
    BY <1>0, <2>1, <2>2 DEF ProcessNextJob, LockQueue, TakeJob, SendRunning, Spawn
  <2>3. ASSUME NEW c \in Conns, Reader(c) PROVE pc'[Loop] = "off"
    <3>1. pc[Loop] = pc'[Loop]
      BY <1>0, <2>3
      DEF Reader, StartBackup, CheckIdle, Request, Reply, UpdateCommand, UpdateLook,
          UpdateLookQueue, UpdateStart, ReaderEnd
    <3> QED  BY <2>1, <3>1
  <2>4. ASSUME NEW j \in Jobs, JobStep(j) PROVE pc'[Loop] = "off"
    BY <2>1, <2>4
    DEF JobStep, Progress, Forward, RunEnd, Finish, FinalLock, FinalSend, FinalReport,
        Clear, LastReport
  <2>5. CASE Connect \/ Watchdog \/ LoopWrite \/ LoopEnd \/ LoopTick \/ UpdateEnd
               \/ UNCHANGED vars
    BY <1>2, <2>1, <2>5
    DEF Connect, Watchdog, LoopWrite, LoopEnd, LoopTick, UpdateEnd, vars
  <2> QED  BY <1>2, <2>2, <2>3, <2>4, <2>5 DEF Next
<1>3. CASE ~restarts /\ ~UpdateRestart
  <2>1. restarts' = restarts
    BY <1>3
    DEF Next, vars, Connect, Watchdog, LoopWrite, LoopEnd, LoopTick, UpdateEnd,
        ProcessNextJob, LockQueue, TakeJob, SendRunning, Spawn,
        Reader, StartBackup, CheckIdle, Request, Reply, UpdateCommand, UpdateLook,
        UpdateLookQueue, UpdateStart, ReaderEnd, JobStep, Progress, Forward, RunEnd,
        Finish, FinalLock, FinalSend, FinalReport, Clear, LastReport
  <2> QED  BY <1>3, <2>1
<1> QED  BY <1>1, <1>2, <1>3

LEMMA NextHInv == HInv /\ [Next]_vars => HInv'
BY NextIInv, NextLockIsSending, NextRestartedIsOff DEF HInv

(* The channel is full and its loop has not ended: no one can send to it. *)
LEMMA HungBlocks ==
  ASSUME Hung, NEW c
  PROVE  /\ pc[Loop] # "off" /\ pc[Loop] # "ready" /\ cmd = CmdCap
         /\ Send(c) => Closed(c) /\ cmd' = cmd
         /\ SendReport(c) => Closed(c) /\ cmd' = cmd
BY BoundsAssumption DEF Hung, Send, SendReport

(* What has to stay for the loop to stay hung. *)
HungKept ==
  /\ cmd' = cmd /\ conn' = conn /\ pc'[Loop] = pc[Loop]
  /\ curLock # None /\ ~Closed(tx[curLock]) =>
       /\ curLock' = curLock /\ tx'[curLock] = tx[curLock]
       /\ queueLock # None => queueLock' # None

LEMMA KeptIsHung == ASSUME Hung, HungKept PROVE Hung'
BY DEF Hung, HungKept, Closed

LEMMA HungStep == HInv /\ Hung /\ [Next]_vars => Hung' \/ restarts' # restarts
<1> SUFFICES ASSUME HInv, Hung, [Next]_vars, restarts' = restarts PROVE HungKept
  BY KeptIsHung
<1>0. /\ pc \in [Procs -> Pc] /\ tx \in [Jobs -> Procs] /\ curLock \in Jobs \cup {None}
      /\ Loop \in Procs /\ \A c \in Conns : c # Loop
  BY ProcsAreNumbers DEF HInv, IInv, TypeOK, Conns, Loop
<1>1. \A c : /\ pc[Loop] # "off" /\ pc[Loop] # "ready" /\ cmd = CmdCap
             /\ Send(c) => Closed(c) /\ cmd' = cmd
             /\ SendReport(c) => Closed(c) /\ cmd' = cmd
  BY HungBlocks
<1>2. ~Closed(conn)
  BY <1>1 DEF Closed
<1>3. ASSUME NEW p \in Procs, ProcessNextJob(p) PROVE HungKept
  <2>1. CASE LockQueue(p)
    <3>1. p # Loop \/ curLock = None
      BY <2>1 DEF LockQueue, Hung
    <3>2. p # Loop
      BY <2>1, <3>1 DEF LockQueue, Hung
    <3> QED  BY <1>0, <2>1, <3>2 DEF LockQueue, HungKept, link, jobs
  <2>2. CASE TakeJob(p)
    <3>1. curLock = None
      BY <2>2 DEF TakeJob
    <3>2. p # Loop
      BY <2>2, <3>1 DEF TakeJob, Hung
    <3> QED  BY <1>0, <2>2, <3>1, <3>2 DEF TakeJob, HungKept, link
  <2>3. CASE SendRunning(p)
    <3>1. p # Loop /\ cmd' = cmd
      BY <1>1, <1>2, <2>3 DEF SendRunning, SenderOf
    <3> QED  BY <1>0, <2>3, <3>1 DEF SendRunning, HungKept, jobs
  <2>4. CASE Spawn(p)
    <3>1. p # Loop /\ cmd' = cmd
      BY <1>1, <1>2, <2>4 DEF Spawn, SenderOf
    <3>2. curLock # None => curLock # doing[p]
      BY <2>4 DEF Spawn, HInv, IInv, LockIsSending, TakenIsStarting, Starting
    <3>3. curLock # None => tx'[curLock] = tx[curLock]
      BY <1>0, <2>4, <3>2 DEF Spawn
    <3> QED  BY <1>0, <2>4, <3>1, <3>3 DEF Spawn, HungKept
  <2> QED  BY <1>3, <2>1, <2>2, <2>3, <2>4 DEF ProcessNextJob
<1>4. ASSUME NEW c \in Conns, Reader(c) PROVE HungKept
  <2>1. pc'[Loop] = pc[Loop]
    BY <1>0, <1>4
    DEF Reader, StartBackup, CheckIdle, Request, Reply, UpdateCommand, UpdateLook,
        UpdateLookQueue, UpdateStart, ReaderEnd
  <2>2. cmd' = cmd
    BY <1>1, <1>4
    DEF Reader, StartBackup, CheckIdle, Request, Reply, UpdateCommand, UpdateLook,
        UpdateLookQueue, UpdateStart, ReaderEnd, link
  <2>3. UNCHANGED <<conn, curLock, tx, queueLock>>
    BY <1>4
    DEF Reader, StartBackup, CheckIdle, Request, Reply, UpdateCommand, UpdateLook,
        UpdateLookQueue, UpdateStart, ReaderEnd, link, jobs
  <2> QED  BY <2>1, <2>2, <2>3 DEF HungKept
<1>5. ASSUME NEW j \in Jobs, JobStep(j) PROVE HungKept
  <2>1. CASE FinalLock(j)
    BY <1>0, <2>1 DEF FinalLock, HungKept, link
  <2>2. CASE FinalSend(j)
    <3>1. Closed(tx[j]) /\ cmd' = cmd
      BY <1>1, <2>2 DEF FinalSend
    <3>2. curLock # None => curLock = j
      <4>1. Running(j)
        BY <2>2 DEF FinalSend, Running
      <4>2. curLock # None => curLock \in Jobs /\ Running(curLock)
        BY <1>0 DEF HInv, LockIsSending, Running
      <4> QED  BY <4>1, <4>2 DEF HInv, IInv, OneAtATime
    <3> QED  BY <1>0, <2>2, <3>1, <3>2 DEF FinalSend, HungKept
  <2>3. CASE Clear(j)
    BY <2>3 DEF Clear, HungKept, link
  <2>4. CASE Progress(j) \/ RunEnd(j)
    BY <2>4 DEF Progress, RunEnd, HungKept, link, jobs
  <2>5. CASE Forward(j) \/ FinalReport(j) \/ LastReport(j)
    BY <1>1, <2>5 DEF Forward, FinalReport, LastReport, HungKept, jobs
  <2> QED  BY <1>5, <2>1, <2>2, <2>3, <2>4, <2>5 DEF JobStep, Finish
<1>6. CASE UpdateEnd
  BY <1>1, <1>6 DEF UpdateEnd, HungKept, jobs
<1>7. ~UpdateRestart
  BY <1>1 DEF UpdateRestart, HInv, RestartedIsOff
<1>8. CASE Connect \/ Watchdog \/ LoopWrite \/ LoopEnd \/ LoopTick \/ UNCHANGED vars
  BY <1>1, <1>8
  DEF Connect, Watchdog, LoopWrite, LoopEnd, LoopTick, vars, link, jobs, HungKept
<1> QED  BY <1>3, <1>4, <1>5, <1>6, <1>7, <1>8 DEF Next

(* Once the outgoing loop waits for itself it never gets on, whatever the *)
(* server, the watchdog and the other tasks do, short of a new process.   *)
THEOREM HungForGood == Spec => HungIsForever
<1>1. HInv /\ [Next]_vars => [Hung => Hung' \/ restarts' # restarts]_vars
  BY HungStep
<1>2. Spec => []HInv
  BY InitHInv, NextHInv, PTL DEF Spec
<1> QED  BY <1>1, <1>2, PTL DEF Spec, HungIsForever
=============================================================================
