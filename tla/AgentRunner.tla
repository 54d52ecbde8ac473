----------------------------- MODULE AgentRunner -----------------------------
(***************************************************************************)
(* The agent process, main.rs: the tasks of a connection (the loop that    *)
(* writes to the socket and also starts jobs, the reader), the backup task *)
(* and the progress forwarder of each job, two mutexes (job_queue and      *)
(* current_job) and the bounded cmd channel of the connection.  One action *)
(* is one stretch between two awaits that can block.  What frames say is   *)
(* left out; module BackupLifecycle has what the server makes of them.     *)
(***************************************************************************)
EXTENDS Integers, Sequences

CONSTANTS
  Jobs,         \* the backups the server will send, each once
  None,         \* an empty current_job, a mutex that is not held
  CmdCap,       \* capacity of the cmd channel (10 in the code)
  ProgressCap,  \* capacity of a progress channel (32 in the code)
  MaxConns      \* bound: connections

ASSUME BoundsAssumption ==
  /\ CmdCap \in Nat \ {0} /\ ProgressCap \in Nat /\ MaxConns \in Nat \ {0}
  /\ None \notin Jobs

Conns == 1 .. MaxConns
Loop  == 0            \* the outgoing loop of the newest connection
Procs == 0 .. MaxConns  \* who runs process_next_job: the loop, the readers

VARIABLES
  conn,     \* the newest connection, 0 before the first
  fired,    \* the newest connection's shutdown channel was signalled
  pc,       \* where the loop and each reader are
  doing,    \* the job process_next_job has taken
  cmd,      \* messages in the newest connection's cmd channel
  queue, queueLock,   \* job_queue and who holds its mutex
  cur, curLock,       \* current_job and whose backup task holds its mutex
  stage,    \* the life of a job in the agent
  tx,       \* the connection whose cmd_tx a job's tasks hold
  msgs,     \* messages in a job's progress channel
  update,   \* the connection that brought the update being run, 0 if none
  restarts  \* has an update restarted the process

link == <<conn, fired, cmd>>
jobs == <<queue, cur, stage, tx>>
vars == <<link, pc, doing, queueLock, curLock, jobs, msgs, update, restarts>>

Pc    == {"off", "ready", "check", "lock", "locked", "running", "report", "reply",
          "idle", "ack"}
Stage == {"new", "queued", "starting", "run", "final", "send", "report", "clear",
          "cleared", "done", "lost"}

TypeOK ==
  /\ conn \in Procs /\ fired \in BOOLEAN /\ pc \in [Procs -> Pc]
  /\ doing \in [Procs -> Jobs \cup {None}]
  /\ cmd \in 0 .. CmdCap
  /\ queue \in Seq(Jobs) /\ queueLock \in Procs \cup {None}
  /\ cur \in Jobs \cup {None} /\ curLock \in Jobs \cup {None}
  /\ stage \in [Jobs -> Stage] /\ tx \in [Jobs -> Procs]
  /\ msgs \in [Jobs -> 0 .. ProgressCap]
  /\ update \in Procs /\ restarts \in BOOLEAN

Init ==
  /\ conn = 0 /\ fired = FALSE /\ pc = [p \in Procs |-> "off"] /\ cmd = 0
  /\ doing = [p \in Procs |-> None]
  /\ queue = <<>> /\ queueLock = None /\ cur = None /\ curLock = None
  /\ stage = [j \in Jobs |-> "new"] /\ tx = [j \in Jobs |-> 0]
  /\ msgs = [j \in Jobs |-> 0] /\ update = 0 /\ restarts = FALSE

-----------------------------------------------------------------------------
(* The cmd channel.  Its receiver lives in connect(): when the loop ends,  *)
(* or on a sender of an earlier connection, send fails at once.            *)
Closed(c) == c # conn \/ pc[Loop] = "off"

SendUnbounded(c) == cmd' = IF Closed(c) THEN cmd ELSE cmd + 1  \* mutant: capacity ignored

Send(c) ==
  /\ Closed(c) \/ cmd < CmdCap
  /\ cmd' = IF Closed(c) THEN cmd ELSE cmd + 1

(* A report is built by taking the two mutexes one after the other, neither *)
(* of them across an await, and is then sent.                               *)
SendReport(c) == queueLock = None /\ curLock = None /\ Send(c)

-----------------------------------------------------------------------------
(* The connection. *)

Connect ==
  /\ pc[Loop] = "off" /\ conn < MaxConns /\ ~restarts
  /\ conn' = conn + 1
  /\ pc' = [pc EXCEPT ![Loop] = "ready", ![conn + 1] = "ready"]
  /\ UNCHANGED <<fired, cmd, doing, queueLock, curLock, jobs, msgs, update, restarts>>

(* The watchdog has seen no frame for two heartbeats: the server is silent, *)
(* or the reader has not got to its frames.                                 *)
Watchdog ==
  /\ pc[Loop] # "off" /\ ~fired /\ fired' = TRUE
  /\ UNCHANGED <<conn, cmd, pc, doing, queueLock, curLock, jobs, msgs, update, restarts>>

LoopWrite ==
  /\ pc[Loop] = "ready" /\ cmd > 0 /\ cmd' = cmd - 1
  /\ UNCHANGED <<conn, fired, pc, doing, queueLock, curLock, jobs, msgs, update, restarts>>

(* The loop sees the shutdown, or a write (a heartbeat's, at the latest)   *)
(* fails.  What is in the channel is lost; the channels of the connection  *)
(* are dropped.                                                            *)
LoopEnd ==
  /\ pc[Loop] = "ready" /\ pc' = [pc EXCEPT ![Loop] = "off"]
  /\ cmd' = 0 /\ fired' = FALSE
  /\ UNCHANGED <<conn, doing, queueLock, curLock, jobs, msgs, update, restarts>>

LoopShutdown == fired /\ LoopEnd

(* The 100 ms tick. *)
LoopTick ==
  /\ pc[Loop] = "ready" /\ pc' = [pc EXCEPT ![Loop] = "lock"]
  /\ UNCHANGED <<link, doing, queueLock, curLock, jobs, msgs, update, restarts>>

-----------------------------------------------------------------------------
(* process_next_job, by the loop or by a reader; its sends go to the       *)
(* channel that the loop alone empties.                                    *)
LockQueue(p) ==
  /\ pc[p] = "lock" /\ queueLock = None /\ queueLock' = p
  /\ pc' = [pc EXCEPT ![p] = "locked"]
  /\ UNCHANGED <<link, doing, curLock, jobs, msgs, update, restarts>>

TakeJobUnchecked(p) ==  \* mutant: current_job is not looked at
  /\ pc[p] = "locked" /\ curLock = None /\ queueLock' = None
  /\ IF queue = <<>>
       THEN pc' = [pc EXCEPT ![p] = "ready"] /\ UNCHANGED <<doing, queue, cur, stage>>
       ELSE /\ pc' = [pc EXCEPT ![p] = "running"] /\ doing' = [doing EXCEPT ![p] = Head(queue)]
            /\ queue' = Tail(queue) /\ cur' = Head(queue)
            /\ stage' = [stage EXCEPT ![Head(queue)] = "starting"]
  /\ UNCHANGED <<link, curLock, tx, msgs, update, restarts>>

TakeJob(p) ==
  /\ pc[p] = "locked" /\ curLock = None /\ queueLock' = None
  /\ IF cur # None \/ queue = <<>>
       THEN pc' = [pc EXCEPT ![p] = "ready"] /\ UNCHANGED <<doing, queue, cur, stage>>
       ELSE /\ pc' = [pc EXCEPT ![p] = "running"] /\ doing' = [doing EXCEPT ![p] = Head(queue)]
            /\ queue' = Tail(queue) /\ cur' = Head(queue)
            /\ stage' = [stage EXCEPT ![Head(queue)] = "starting"]
  /\ UNCHANGED <<link, curLock, tx, msgs, update, restarts>>

SenderOf(p) == IF p = Loop THEN conn ELSE p

SendRunning(p) ==
  /\ pc[p] = "running" /\ Send(SenderOf(p))
  /\ pc' = [pc EXCEPT ![p] = "report"]
  /\ UNCHANGED <<conn, fired, doing, queueLock, curLock, jobs, msgs, update, restarts>>

(* The first report, then the job's own tasks are spawned. *)
SpawnTry(p) ==  \* mutant: try_send, which drops the report rather than wait
  /\ pc[p] = "report" /\ (SendReport(SenderOf(p)) \/ (cmd = CmdCap /\ cmd' = cmd))
  /\ pc' = [pc EXCEPT ![p] = "ready"] /\ doing' = [doing EXCEPT ![p] = None]
  /\ stage' = [stage EXCEPT ![doing[p]] = "run"]
  /\ tx' = [tx EXCEPT ![doing[p]] = SenderOf(p)]
  /\ UNCHANGED <<conn, fired, queueLock, curLock, queue, cur, msgs, update, restarts>>

Spawn(p) ==
  /\ pc[p] = "report" /\ SendReport(SenderOf(p))
  /\ pc' = [pc EXCEPT ![p] = "ready"] /\ doing' = [doing EXCEPT ![p] = None]
  /\ stage' = [stage EXCEPT ![doing[p]] = "run"]
  /\ tx' = [tx EXCEPT ![doing[p]] = SenderOf(p)]
  /\ UNCHANGED <<conn, fired, queueLock, curLock, queue, cur, msgs, update, restarts>>

ProcessNextJob(p) == LockQueue(p) \/ TakeJob(p) \/ SendRunning(p) \/ Spawn(p)

-----------------------------------------------------------------------------
(* The reader of connection c: handle_message. *)

(* start_backup: the job is queued, and process_next_job is called if      *)
(* nothing was running when current_job was looked at.                     *)
StartBackup(c, j) ==
  /\ pc[c] = "ready" /\ stage[j] = "new" /\ queueLock = None
  /\ queue' = Append(queue, j) /\ stage' = [stage EXCEPT ![j] = "queued"]
  /\ pc' = [pc EXCEPT ![c] = "check"]
  /\ UNCHANGED <<link, doing, queueLock, curLock, cur, tx, msgs, update, restarts>>

CheckIdle(c) ==
  /\ pc[c] = "check" /\ curLock = None
  /\ pc' = [pc EXCEPT ![c] = IF cur = None THEN "lock" ELSE "ready"]
  /\ UNCHANGED <<link, doing, queueLock, curLock, jobs, msgs, update, restarts>>

(* Frames that are only answered: ping, get_logs, dry_run, connected with a *)
(* stale lockfile.                                                          *)
Request(c) ==
  /\ pc[c] = "ready" /\ pc' = [pc EXCEPT ![c] = "reply"]
  /\ UNCHANGED <<link, doing, queueLock, curLock, jobs, msgs, update, restarts>>

Reply(c) ==
  /\ pc[c] = "reply" /\ Send(c)
  /\ pc' = [pc EXCEPT ![c] = "ready"]
  /\ UNCHANGED <<conn, fired, doing, queueLock, curLock, jobs, msgs, update, restarts>>

(* update: declined while a backup runs or waits.  current_job is looked at *)
(* first, then job_queue; neither stays locked.  While an update is under   *)
(* way the command is only answered, as a Request is.                       *)
UpdateLook(c) ==
  /\ pc[c] = "ready" /\ curLock = None /\ update = 0
  /\ pc' = [pc EXCEPT ![c] = IF cur = None THEN "idle" ELSE "reply"]
  /\ UNCHANGED <<link, doing, queueLock, curLock, jobs, msgs, update, restarts>>

UpdateLookQueue(c) ==
  /\ pc[c] = "idle" /\ queueLock = None
  /\ pc' = [pc EXCEPT ![c] = IF queue = <<>> THEN "ack" ELSE "reply"]
  /\ UNCHANGED <<link, doing, queueLock, curLock, jobs, msgs, update, restarts>>

(* Acknowledged, and run in a task of its own unless one is under way. *)
UpdateStart(c) ==
  /\ pc[c] = "ack" /\ Send(c)
  /\ pc' = [pc EXCEPT ![c] = "ready"]
  /\ update' = IF update = 0 THEN c ELSE update
  /\ UNCHANGED <<conn, fired, doing, queueLock, curLock, jobs, msgs, restarts>>

UpdateCommand(c) == UpdateLook(c) \/ UpdateLookQueue(c) \/ UpdateStart(c)

(* The shutdown, a close frame or a read error ends the reader; the loop is *)
(* not told.                                                                *)
ReaderEnd(c) ==
  /\ pc[c] = "ready" /\ pc' = [pc EXCEPT ![c] = "off"]
  /\ UNCHANGED <<link, doing, queueLock, curLock, jobs, msgs, update, restarts>>

Reader(c) ==
  \/ CheckIdle(c) \/ Request(c) \/ Reply(c) \/ UpdateCommand(c) \/ ReaderEnd(c)
  \/ \E j \in Jobs : StartBackup(c, j)

-----------------------------------------------------------------------------
(* The tasks of a job. *)

(* run_backup_job reports progress with try_send ... *)
Progress(j) ==
  /\ stage[j] = "run" /\ msgs[j] < ProgressCap
  /\ msgs' = [msgs EXCEPT ![j] = @ + 1]
  /\ UNCHANGED <<link, pc, doing, queueLock, curLock, jobs, update, restarts>>

(* ... and the forwarder turns each message into a report. *)
Forward(j) ==
  /\ msgs[j] > 0 /\ SendReport(tx[j])
  /\ msgs' = [msgs EXCEPT ![j] = @ - 1]
  /\ UNCHANGED <<conn, fired, pc, doing, queueLock, curLock, jobs, update, restarts>>

RunEnd(j) ==
  /\ stage[j] = "run" /\ stage' = [stage EXCEPT ![j] = "final"]
  /\ UNCHANGED <<link, pc, doing, queueLock, curLock, queue, cur, tx, msgs, update, restarts>>

(* current_job stays locked while the final status is sent. *)
FinalLock(j) ==
  /\ stage[j] = "final" /\ curLock = None
  /\ curLock' = j /\ stage' = [stage EXCEPT ![j] = "send"]
  /\ UNCHANGED <<link, pc, doing, queueLock, queue, cur, tx, msgs, update, restarts>>

FinalSendLocked(j) ==  \* mutant: the report is built before the guard is dropped
  /\ stage[j] = "send" /\ Send(tx[j])
  /\ stage' = [stage EXCEPT ![j] = "report"]
  /\ UNCHANGED <<conn, fired, pc, doing, queueLock, curLock, queue, cur, tx, msgs, update,
                 restarts>>

FinalSend(j) ==
  /\ stage[j] = "send" /\ Send(tx[j])
  /\ curLock' = None /\ stage' = [stage EXCEPT ![j] = "report"]
  /\ UNCHANGED <<conn, fired, pc, doing, queueLock, queue, cur, tx, msgs, update, restarts>>

FinalReport(j) ==
  /\ stage[j] = "report" /\ SendReport(tx[j])
  /\ stage' = [stage EXCEPT ![j] = "clear"]
  /\ UNCHANGED <<conn, fired, pc, doing, queueLock, curLock, queue, cur, tx, msgs, update,
                 restarts>>

Clear(j) ==
  /\ stage[j] = "clear" /\ curLock = None
  /\ cur' = None /\ stage' = [stage EXCEPT ![j] = "cleared"]
  /\ UNCHANGED <<link, pc, doing, queueLock, curLock, queue, tx, msgs, update, restarts>>

LastReport(j) ==
  /\ stage[j] = "cleared" /\ SendReport(tx[j])
  /\ stage' = [stage EXCEPT ![j] = "done"]
  /\ UNCHANGED <<conn, fired, pc, doing, queueLock, curLock, queue, cur, tx, msgs, update,
                 restarts>>

Finish(j) == FinalLock(j) \/ FinalSend(j) \/ FinalReport(j) \/ Clear(j) \/ LastReport(j)

-----------------------------------------------------------------------------
(* The update. *)

(* It fails and says so, or finds nothing newer. *)
UpdateEnd ==
  /\ update # 0 /\ (Send(update) \/ cmd' = cmd)
  /\ update' = 0
  /\ UNCHANGED <<conn, fired, pc, doing, queueLock, curLock, jobs, msgs, restarts>>

(* The new binary is in place: the process exits and starts anew, as in Init *)
(* and with what it knew of the jobs lost.  The model ends here.             *)
UpdateRestart ==
  /\ update # 0 /\ update' = 0 /\ restarts' = TRUE
  /\ pc' = [p \in Procs |-> "off"] /\ doing' = [p \in Procs |-> None]
  /\ fired' = FALSE /\ cmd' = 0
  /\ queue' = <<>> /\ queueLock' = None /\ cur' = None /\ curLock' = None
  /\ stage' = [j \in Jobs |-> IF stage[j] \in {"new", "done"} THEN stage[j] ELSE "lost"]
  /\ msgs' = [j \in Jobs |-> 0]
  /\ UNCHANGED <<conn, tx>>

-----------------------------------------------------------------------------
JobStep(j) == Progress(j) \/ Forward(j) \/ RunEnd(j) \/ Finish(j)

Next ==
  \/ Connect \/ Watchdog \/ LoopWrite \/ LoopEnd \/ LoopTick
  \/ \E p \in Procs : ProcessNextJob(p)
  \/ \E c \in Conns : Reader(c)
  \/ \E j \in Jobs : JobStep(j)
  \/ UpdateEnd \/ UpdateRestart

Spec == Init /\ [][Next]_vars

(* tokio's mutexes and channels serve waiters in order, and select! picks  *)
(* among the ready branches at random: what is possible again and again    *)
(* happens.  Nothing is assumed of the server, the network or 7z.          *)
FairSpec ==
  /\ Spec
  /\ SF_vars(LoopWrite) /\ SF_vars(LoopShutdown)
  /\ WF_vars(\E p \in Procs : ProcessNextJob(p))
  /\ SF_vars(\E j \in Jobs : Finish(j))

-----------------------------------------------------------------------------
(* Properties. *)

Running(j) == stage[j] \in {"starting", "run", "final", "send", "report", "clear"}

(* "Only one job can run at a time per agent", and current_job names it:   *)
(* though the loop and the readers of several connections all start jobs.  *)
OneAtATime == {j \in Jobs : Running(j)} = {cur} \ {None}

(* The loop waits for something that only the loop can bring about: for    *)
(* room in the channel it empties, or for a mutex whose holder waits so.   *)
Hung ==
  /\ cmd = CmdCap
  /\ \/ pc[Loop] \in {"running", "report"}
     \/ /\ curLock # None /\ ~Closed(tx[curLock])
        /\ \/ pc[Loop] = "locked"
           \/ pc[Loop] = "lock" /\ queueLock # None

(* There is no way out of it: neither the watchdog nor the server's closing *)
(* the socket helps, only a new process.                                    *)
HungIsForever == [][Hung => Hung' \/ restarts' # restarts]_vars

(* Short of that, once a backup is over its task ends and frees the agent  *)
(* for the next one, and once the watchdog has fired the loop ends and the *)
(* agent reconnects: the two mutexes alone block neither.                  *)
OnlyHungStops ==
  /\ \A j \in Jobs : stage[j] = "final" ~> stage[j] \in {"done", "lost"} \/ Hung
  /\ fired ~> pc[Loop] = "off" \/ Hung

(* "Signal shutdown so the outgoing loop breaks and start() reconnects with *)
(* backoff."                                                                *)
WatchdogEnds == fired ~> pc[Loop] = "off"
=============================================================================
