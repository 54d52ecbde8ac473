------------------------------ MODULE WorkerPool ------------------------------
(***************************************************************************)
(* What the pools of the server instances promise, each a few workers: a   *)
(* job waits at most once in a pool, in order, and only while every worker *)
(* there is busy; a worker that gets free takes the job that has waited    *)
(* longest.                                                                *)
(***************************************************************************)
EXTENDS Integers, Sequences

CONSTANTS Pools, Jobs, Workers

VARIABLES waiting, busy

poolVars == <<waiting, busy>>

Idle == waiting = [i \in Pools |-> <<>>] /\ busy = [i \in Pools |-> 0]

Waits(i, j) == \E m \in 1 .. Len(waiting[i]) : waiting[i][m] = j

StartAtOnce(i) ==
  /\ busy[i] < Workers /\ busy' = [busy EXCEPT ![i] = @ + 1]
  /\ UNCHANGED waiting

QueueUp(i, j) ==
  /\ busy[i] = Workers /\ ~Waits(i, j)
  /\ waiting' = [waiting EXCEPT ![i] = Append(@, j)]
  /\ UNCHANGED busy

Finish(i) ==
  /\ busy[i] > 0
  /\ \/ waiting[i] = <<>> /\ busy' = [busy EXCEPT ![i] = @ - 1] /\ UNCHANGED waiting
     \/ waiting[i] # <<>> /\ waiting' = [waiting EXCEPT ![i] = Tail(@)] /\ UNCHANGED busy

(* The process restarts: a pool is in memory only. *)
Forget(i) == waiting' = [waiting EXCEPT ![i] = <<>>] /\ busy' = [busy EXCEPT ![i] = 0]

PoolNext ==
  \E i \in Pools : StartAtOnce(i) \/ Finish(i) \/ Forget(i) \/ \E j \in Jobs : QueueUp(i, j)

PoolSpec == Idle /\ [][PoolNext]_poolVars

FairPoolSpec == PoolSpec /\ \A i \in Pools : WF_poolVars(Finish(i))
=============================================================================
