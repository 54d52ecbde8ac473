-------------------------- MODULE DueBackups_proofs --------------------------
(***************************************************************************)
(* BackupQueue never loses a slot and its pending set is its queue, for    *)
(* any number of server instances, jobs and slots.  The invariant is one   *)
(* predicate on a single queue, GoodPool; each operation of the queue      *)
(* keeps it, and no action changes a queue in another way.  The queues are *)
(* the pools of WorkerPool.  And the parser of cron expressions reads the  *)
(* syntax as it is meant, whatever the expression and the moment, so that  *)
(* what is started was due.                                                *)
(***************************************************************************)
EXTENDS DueBackups, SequenceTheorems, FiniteSetTheorems, TLAPS

Distinct(q) == \A m, n \in 1 .. Len(q) : m # n => q[m] # q[n]

Lists(q, S) == \A j \in Jobs : j \in S <=> \E m \in 1 .. Len(q) : q[m] = j

(* A queue between two calls of drain. *)
FairPool(p) ==
  /\ p \in Pool
  /\ p.running = Len(p.flight)
  /\ Lists(p.queue, p.pending) /\ Distinct(p.queue)

GoodPool(p) == FairPool(p) /\ (p.queue # <<>> => p.running = MaxConcurrent)

IInv == TypeOK /\ \A i \in Instances : GoodPool(pool[i])

-----------------------------------------------------------------------------

LEMMA EmptyPoolGood == GoodPool(EmptyPool)
  BY BoundsAssumption DEF EmptyPool, GoodPool, FairPool, Pool, Distinct, Lists

LEMMA StartableRange ==
  ASSUME NEW p, FairPool(p)
  PROVE  /\ Startable(p) \in 0 .. Len(p.queue)
         /\ Startable(p) <= MaxConcurrent - p.running
         /\ Startable(p) < Len(p.queue) => Startable(p) = MaxConcurrent - p.running
<1>1. p.queue \in Seq(Jobs) /\ p.running \in 0 .. MaxConcurrent
  BY DEF FairPool, Pool
<1> QED  BY <1>1, BoundsAssumption DEF Startable

LEMMA DrainGood ==
  ASSUME NEW p, FairPool(p)
  PROVE  GoodPool(Drain(p))
<1> DEFINE n == Startable(p)
           q == SubSeq(p.queue, n + 1, Len(p.queue))
           started == [m \in 1 .. n |-> [job |-> p.queue[m], created |-> FALSE]]
<1>1. /\ p.queue \in Seq(Jobs) /\ p.flight \in Seq(Dispatches)
      /\ p.running \in 0 .. MaxConcurrent /\ p.pending \in SUBSET Jobs
  BY DEF FairPool, Pool
<1>2. /\ n \in 0 .. Len(p.queue) /\ n <= MaxConcurrent - p.running
      /\ n < Len(p.queue) => n = MaxConcurrent - p.running
  BY StartableRange
<1>3. /\ q \in Seq(Jobs) /\ Len(q) = Len(p.queue) - n
      /\ \A m \in 1 .. Len(q) : q[m] = p.queue[m + n]
  <2> HIDE DEF n
  <2>1. n + 1 \in Int /\ Len(p.queue) \in Int
    BY <1>1, <1>2
  <2>2. \A m \in n + 1 .. Len(p.queue) : p.queue[m] \in Jobs
    BY <1>1, <1>2
  <2>3. /\ q \in Seq(Jobs)
        /\ Len(q) = IF n + 1 <= Len(p.queue) THEN Len(p.queue) - (n + 1) + 1 ELSE 0
        /\ \A m \in 1 .. Len(p.queue) - (n + 1) + 1 : q[m] = p.queue[n + 1 + m - 1]
    BY <2>1, <2>2, SubSeqProperties
  <2> HIDE DEF q
  <2> QED  BY <1>2, <2>1, <2>3
<1>4. started \in Seq(Dispatches) /\ Len(started) = n
  <2>1. started \in [1 .. n -> Dispatches]
    BY <1>1, <1>2 DEF Dispatches
  <2> HIDE DEF started, n
  <2>2. n \in Nat
    BY <1>1, <1>2
  <2> QED  BY <2>1, <2>2, SeqDef
<1> HIDE DEF n, q, started
<1>5. /\ Drain(p).queue = q /\ Drain(p).running = p.running + n
      /\ Drain(p).flight = p.flight \o started
      /\ Drain(p).pending = p.pending \ {p.queue[m] : m \in 1 .. n}
  BY DEF Drain, n, q, started
<1>6. Drain(p).flight \in Seq(Dispatches) /\ Len(Drain(p).flight) = Len(p.flight) + n
  <2>1. /\ p.flight \o started \in Seq(Dispatches)
        /\ Len(p.flight \o started) = Len(p.flight) + Len(started)
    BY <1>1, <1>4, ConcatProperties
  <2> QED  BY <1>4, <1>5, <2>1
<1>7. p.running + n \in 0 .. MaxConcurrent
  BY <1>1, <1>2, BoundsAssumption
<1>8. Drain(p) \in Pool
  <2>1. Drain(p) = [queue |-> Drain(p).queue, pending |-> Drain(p).pending,
                    running |-> Drain(p).running, flight |-> Drain(p).flight]
    BY DEF Drain
  <2> QED  BY <1>1, <1>3, <1>5, <1>6, <1>7, <2>1 DEF Pool
<1>9. \A m \in 1 .. Len(q) : m + n \in 1 .. Len(p.queue)
  BY <1>2, <1>3
<1>10. Distinct(q)
  <2> SUFFICES ASSUME NEW a \in 1 .. Len(q), NEW b \in 1 .. Len(q), a # b PROVE q[a] # q[b]
    BY DEF Distinct
  <2>1. a + n # b + n
    BY <1>2, <1>3
  <2>2. p.queue[a + n] # p.queue[b + n]
    BY <1>9, <2>1 DEF FairPool, Distinct
  <2> QED  BY <1>3, <2>2
<1>11. Lists(q, Drain(p).pending)
  <2> SUFFICES ASSUME NEW j \in Jobs
               PROVE  j \in Drain(p).pending <=> \E m \in 1 .. Len(q) : q[m] = j
    BY DEF Lists
  <2>1. j \in p.pending <=> \E m \in 1 .. Len(p.queue) : p.queue[m] = j
    BY DEF FairPool, Lists
  <2>2. ASSUME j \in Drain(p).pending PROVE \E m \in 1 .. Len(q) : q[m] = j
    <3>1. PICK a \in 1 .. Len(p.queue) : p.queue[a] = j
      BY <1>5, <2>1, <2>2
    <3>2. a \notin 1 .. n
      BY <1>5, <2>2, <3>1
    <3>3. a - n \in 1 .. Len(q) /\ (a - n) + n = a
      BY <1>2, <1>3, <3>2
    <3> QED  BY <1>3, <3>1, <3>3
  <2>3. ASSUME NEW a \in 1 .. Len(q), q[a] = j PROVE j \in Drain(p).pending
    <3>1. a + n \in 1 .. Len(p.queue) /\ p.queue[a + n] = j
      BY <1>3, <1>9, <2>3
    <3>2. \A b \in 1 .. n : b \in 1 .. Len(p.queue) /\ b # a + n
      BY <1>2, <1>3
    <3>3. \A b \in 1 .. n : p.queue[b] # j
      BY <3>1, <3>2 DEF FairPool, Distinct
    <3> QED  BY <1>5, <2>1, <3>1, <3>3
  <2> QED  BY <2>2, <2>3
<1>12. q # <<>> => p.running + n = MaxConcurrent
  <2>1. q # <<>> => Len(q) # 0
    BY <1>3, EmptySeq
  <2>2. Len(p.queue) \in Nat
    BY <1>1
  <2> HIDE DEF n
  <2>3. ASSUME Len(q) # 0 PROVE n < Len(p.queue)
    BY <1>2, <1>3, <2>2, <2>3
  <2> QED  BY <1>1, <1>2, <2>1, <2>3, BoundsAssumption
<1> QED
  BY <1>1, <1>5, <1>6, <1>8, <1>10, <1>11, <1>12 DEF GoodPool, FairPool

(* A job that is not pending joins the queue; the queue is fair again. *)
LEMMA EnqueuedFair ==
  ASSUME NEW p, GoodPool(p), NEW j \in Jobs, j \notin p.pending
  PROVE  FairPool([p EXCEPT !.pending = p.pending \cup {j}, !.queue = Append(p.queue, j)])
<1> DEFINE r == [p EXCEPT !.pending = p.pending \cup {j}, !.queue = Append(p.queue, j)]
<1>1. /\ p.queue \in Seq(Jobs) /\ p.flight \in Seq(Dispatches) /\ p.pending \in SUBSET Jobs
      /\ p.running \in 0 .. MaxConcurrent /\ p.running = Len(p.flight)
      /\ Lists(p.queue, p.pending) /\ Distinct(p.queue)
  BY DEF GoodPool, FairPool, Pool
<1>2. /\ r.pending = p.pending \cup {j} /\ r.queue = Append(p.queue, j)
      /\ r.running = p.running /\ r.flight = p.flight /\ r \in Pool
  <2>1. Append(p.queue, j) \in Seq(Jobs)
    BY <1>1
  <2> DEFINE s == Append(p.queue, j)
  <2> HIDE DEF s
  <2> QED  BY <1>1, <2>1 DEF GoodPool, FairPool, Pool
<1> HIDE DEF r
<1>3. /\ Len(r.queue) = Len(p.queue) + 1 /\ r.queue[Len(p.queue) + 1] = j
      /\ \A m \in 1 .. Len(p.queue) : r.queue[m] = p.queue[m]
  BY <1>1, <1>2
<1>4. \A m \in 1 .. Len(p.queue) : p.queue[m] # j
  BY <1>1 DEF Lists
<1>5. \A m \in 1 .. Len(r.queue) : m \in 1 .. Len(p.queue) \/ m = Len(p.queue) + 1
  BY <1>1, <1>3
<1>6. Distinct(r.queue)
  BY <1>1, <1>3, <1>4, <1>5 DEF Distinct
<1>7. Lists(r.queue, r.pending)
  <2> SUFFICES ASSUME NEW x \in Jobs
               PROVE  x \in r.pending <=> \E m \in 1 .. Len(r.queue) : r.queue[m] = x
    BY DEF Lists
  <2>1. x \in p.pending <=> \E m \in 1 .. Len(p.queue) : p.queue[m] = x
    BY <1>1 DEF Lists
  <2>2. /\ Len(p.queue) + 1 \in 1 .. Len(r.queue)
        /\ \A m \in 1 .. Len(p.queue) : m \in 1 .. Len(r.queue)
    BY <1>1, <1>3
  <2> QED  BY <1>2, <1>3, <1>5, <2>1, <2>2
<1>8. FairPool(r)
  BY <1>1, <1>2, <1>6, <1>7 DEF FairPool
<1> QED  BY <1>8 DEF r

LEMMA EnqueueGood ==
  ASSUME NEW p, GoodPool(p), NEW j \in Jobs
  PROVE  GoodPool(Enqueue(p, j))
<1>1. CASE j \in p.pending
  BY <1>1 DEF Enqueue
<1>2. CASE j \notin p.pending
  BY <1>2, EnqueuedFair, DrainGood DEF Enqueue
<1> QED  BY <1>1, <1>2

LEMMA ReleasedFair ==
  ASSUME NEW p, GoodPool(p), NEW k \in 1 .. Len(p.flight)
  PROVE  FairPool([p EXCEPT !.running = @ - 1, !.flight = RemoveAt(@, k)])
<1> DEFINE r == [p EXCEPT !.running = @ - 1, !.flight = RemoveAt(@, k)]
<1>1. /\ p.queue \in Seq(Jobs) /\ p.flight \in Seq(Dispatches) /\ p.pending \in SUBSET Jobs
      /\ p.running \in 0 .. MaxConcurrent /\ p.running = Len(p.flight)
      /\ Lists(p.queue, p.pending) /\ Distinct(p.queue) /\ p \in Pool
  BY DEF GoodPool, FairPool, Pool
<1>2. RemoveAt(p.flight, k) \in Seq(Dispatches)
        /\ Len(RemoveAt(p.flight, k)) = Len(p.flight) - 1
  <2> DEFINE before == SubSeq(p.flight, 1, k - 1)
             after  == SubSeq(p.flight, k + 1, Len(p.flight))
  <2>1. k \in 1 .. Len(p.flight) /\ Len(p.flight) \in Nat
    BY <1>1
  <2>2. before \in Seq(Dispatches) /\ Len(before) = k - 1
    BY <1>1, <2>1, SubSeqProperties
  <2>3. after \in Seq(Dispatches) /\ Len(after) = Len(p.flight) - k
    BY <1>1, <2>1, SubSeqProperties
  <2> HIDE DEF before, after
  <2>4. before \o after \in Seq(Dispatches) /\ Len(before \o after) = Len(before) + Len(after)
    BY <2>2, <2>3, ConcatProperties
  <2>5. RemoveAt(p.flight, k) = before \o after
    BY DEF RemoveAt, before, after
  <2>6. Len(before) + Len(after) = Len(p.flight) - 1
    BY <2>1, <2>2, <2>3
  <2> QED  BY <2>4, <2>5, <2>6
<1>3. p.running - 1 \in 0 .. MaxConcurrent
  BY <1>1, BoundsAssumption
<1>4. /\ r.queue = p.queue /\ r.pending = p.pending /\ r.running = p.running - 1
      /\ r.flight = RemoveAt(p.flight, k) /\ r \in Pool
  BY <1>1, <1>2, <1>3 DEF Pool
<1> HIDE DEF r
<1>5. FairPool(r)
  BY <1>1, <1>2, <1>4 DEF FairPool
<1> QED  BY <1>5 DEF r

LEMMA ReleaseGood ==
  ASSUME NEW p, GoodPool(p), NEW k \in 1 .. Len(p.flight)
  PROVE  GoodPool(Release(p, k))
  BY ReleasedFair, DrainGood DEF Release

LEMMA DispatchTyped ==
  ASSUME NEW d \in Dispatches
  PROVE  d.job \in Jobs /\ [d EXCEPT !.created = TRUE] \in Dispatches
  BY DEF Dispatches

LEMMA CreateGood ==
  ASSUME NEW p, GoodPool(p), NEW k \in 1 .. Len(p.flight)
  PROVE  GoodPool([p EXCEPT !.flight[k].created = TRUE])
<1> DEFINE r == [p EXCEPT !.flight[k].created = TRUE]
<1>1. /\ p.flight \in Seq(Dispatches) /\ p \in Pool /\ p.queue \in Seq(Jobs)
  BY DEF GoodPool, FairPool, Pool
<1>2. /\ r.queue = p.queue /\ r.pending = p.pending /\ r.running = p.running
      /\ r.flight = [p.flight EXCEPT ![k] = [@ EXCEPT !.created = TRUE]]
  BY <1>1 DEF Pool
<1>3. [p.flight[k] EXCEPT !.created = TRUE] \in Dispatches
  BY <1>1, DispatchTyped
<1>4. r.flight \in Seq(Dispatches) /\ Len(r.flight) = Len(p.flight)
  BY <1>1, <1>2, <1>3
<1>5. r \in Pool
  BY <1>1, <1>2, <1>4 DEF Pool
<1> QED  BY <1>2, <1>4, <1>5 DEF GoodPool, FairPool

-----------------------------------------------------------------------------

LEMMA InitIInv == Init => IInv
<1> SUFFICES ASSUME Init PROVE IInv
  OBVIOUS
<1>1. /\ minute \in Minutes /\ rows \in [Jobs -> [Minutes -> Nat]] /\ crashes \in 0 .. MaxCrashes
      /\ ticked \in [Instances -> Minutes \cup {-1}] /\ lastRun \in [Instances -> Minutes \cup {-1}]
  BY BoundsAssumption DEF Init, Minutes
<1>2. scan \in [Instances -> [Minutes -> Scan]]
  BY BoundsAssumption DEF Init, NoScan, Scan, Minutes
<1>3. \A i \in Instances : GoodPool(pool[i])
  BY EmptyPoolGood DEF Init
<1>4. pool \in [Instances -> Pool]
  BY <1>3 DEF Init, GoodPool, FairPool
<1> QED  BY <1>1, <1>2, <1>3, <1>4 DEF IInv, TypeOK

(* What an action must do to the queues: leave all but one as they are. *)
LEMMA PoolStep ==
  ASSUME IInv, NEW i \in Instances, NEW p, GoodPool(p), pool' = [pool EXCEPT ![i] = p]
  PROVE  pool' \in [Instances -> Pool] /\ \A x \in Instances : GoodPool(pool'[x])
<1>1. pool \in [Instances -> Pool] /\ \A x \in Instances : GoodPool(pool[x])
  BY DEF IInv, TypeOK
<1> QED  BY <1>1 DEF GoodPool, FairPool

LEMMA ScanStep ==
  ASSUME IInv, NEW i \in Instances, NEW m \in Minutes, NEW s \in Scan,
         scan' = [scan EXCEPT ![i][m] = s]
  PROVE  scan' \in [Instances -> [Minutes -> Scan]]
  BY DEF IInv, TypeOK

LEMMA ScanTyped ==
  ASSUME NEW s \in Scan, NEW todo \in SUBSET Jobs
  PROVE  /\ [s EXCEPT !.pc = "wait"] \in Scan
         /\ [s EXCEPT !.pc = "check", !.todo = todo] \in Scan
  BY DEF Scan

LEMMA CheckedTyped ==
  ASSUME NEW s \in Scan, NoScan \in Scan, NEW j \in s.todo
  PROVE  j \in Jobs /\ Checked(s, j) \in Scan
  BY DEF Scan, Checked

LEMMA NextIInv == IInv /\ [Next]_vars => IInv'
<1> SUFFICES ASSUME IInv, [Next]_vars PROVE IInv'
  OBVIOUS
<1> DEFINE PoolsKept == pool' \in [Instances -> Pool] /\ \A x \in Instances : GoodPool(pool'[x])
<1>1. /\ minute \in Minutes /\ rows \in [Jobs -> [Minutes -> Nat]] /\ crashes \in 0 .. MaxCrashes
      /\ ticked \in [Instances -> Minutes \cup {-1}] /\ lastRun \in [Instances -> Minutes \cup {-1}]
      /\ scan \in [Instances -> [Minutes -> Scan]]
      /\ pool \in [Instances -> Pool] /\ \A x \in Instances : GoodPool(pool[x])
  BY DEF IInv, TypeOK
<1>2. pool' = pool => PoolsKept
  BY <1>1
<1>3. NoScan \in Scan
  BY BoundsAssumption DEF NoScan, Scan, Minutes
<1> HIDE DEF PoolsKept
<1>4. PoolsKept /\ TypeOK' => IInv'
  BY DEF IInv, PoolsKept
<1>5. CASE UNCHANGED vars
  BY <1>1, <1>2, <1>4, <1>5 DEF vars, TypeOK
<1>6. CASE NextMinute
  <2>1. minute' \in Minutes
    BY <1>1, <1>6, BoundsAssumption DEF NextMinute, Minutes
  <2> QED  BY <1>1, <1>2, <1>4, <1>6, <2>1 DEF NextMinute, TypeOK
<1>7. ASSUME NEW i \in Instances, Tick(i) PROVE IInv'
  <2>1. scan' \in [Instances -> [Minutes -> Scan]]
    <3>1. [scan[i][minute] EXCEPT !.pc = "wait"] \in Scan
      BY <1>1, ScanTyped
    <3>2. scan' = [scan EXCEPT ![i][minute] = [scan[i][minute] EXCEPT !.pc = "wait"]]
      BY <1>7 DEF Tick
    <3> QED  BY <1>1, <3>1, <3>2, ScanStep
  <2>2. ticked' \in [Instances -> Minutes \cup {-1}]
    BY <1>1, <1>7 DEF Tick
  <2> QED  BY <1>1, <1>2, <1>4, <1>7, <2>1, <2>2 DEF Tick, TypeOK
<1>8. ASSUME NEW i \in Instances, Restart(i) PROVE IInv'
  <2>1. PoolsKept
    BY <1>8, EmptyPoolGood, PoolStep DEF Restart, PoolsKept
  <2>2. scan' \in [Instances -> [Minutes -> Scan]]
    BY <1>1, <1>3, <1>8 DEF Restart
  <2>3. crashes' \in 0 .. MaxCrashes
    BY <1>1, <1>8, BoundsAssumption DEF Restart
  <2>4. ticked' \in [Instances -> Minutes \cup {-1}] /\ lastRun' \in [Instances -> Minutes \cup {-1}]
    BY <1>1, <1>8 DEF Restart
  <2> QED  BY <1>1, <1>4, <1>8, <2>1, <2>2, <2>3, <2>4 DEF Restart, TypeOK, PoolsKept
<1>9. ASSUME NEW i \in Instances, NEW m \in Minutes, ScanStart(i, m) PROVE IInv'
  <2>1. scan' \in [Instances -> [Minutes -> Scan]] /\ lastRun' \in [Instances -> Minutes \cup {-1}]
    <3>1. [pc |-> "read", at |-> minute, todo |-> {}] \in Scan
      BY <1>1 DEF Scan
    <3>2. CASE lastRun[i] < m
      BY <1>1, <1>9, <3>1, <3>2, ScanStep DEF ScanStart
    <3>3. CASE ~(lastRun[i] < m)
      BY <1>1, <1>3, <1>9, <3>3, ScanStep DEF ScanStart
    <3> QED  BY <3>2, <3>3
  <2> QED  BY <1>1, <1>2, <1>4, <1>9, <2>1 DEF ScanStart, TypeOK
<1>10. ASSUME NEW i \in Instances, NEW m \in Minutes, ScanRead(i, m) PROVE IInv'
  <2>1. scan' \in [Instances -> [Minutes -> Scan]]
    <3>1. PICK due \in SUBSET Jobs :
             scan' = [scan EXCEPT ![i][m] = IF due = {} THEN NoScan
                        ELSE [scan[i][m] EXCEPT !.pc = "check", !.todo = due]]
      BY <1>1, <1>10 DEF ScanRead
    <3>2. [scan[i][m] EXCEPT !.pc = "check", !.todo = due] \in Scan
      <4>1. scan[i][m] \in Scan
        BY <1>1
      <4> QED  BY <4>1, ScanTyped
    <3> QED  BY <1>3, <3>1, <3>2, ScanStep
  <2> QED  BY <1>1, <1>2, <1>4, <1>10, <2>1 DEF ScanRead, TypeOK
<1>11. ASSUME NEW i \in Instances, NEW m \in Minutes, ScanCheck(i, m) PROVE IInv'
  <2>1. scan' \in [Instances -> [Minutes -> Scan]] /\ PoolsKept
    <3>1. CASE scan' = [scan EXCEPT ![i][m] = NoScan] /\ UNCHANGED pool
      BY <1>2, <1>3, <3>1, ScanStep
    <3>2. ASSUME NEW j \in scan[i][m].todo,
                 scan' = [scan EXCEPT ![i][m] = Checked(@, j)],
                 pool' = IF rows[j][scan[i][m].at] > 0 THEN pool
                         ELSE [pool EXCEPT ![i] = Enqueue(@, j)]
          PROVE  scan' \in [Instances -> [Minutes -> Scan]] /\ PoolsKept
      <4>1. scan[i][m] \in Scan
        BY <1>1
      <4>2. j \in Jobs /\ Checked(scan[i][m], j) \in Scan
        BY <1>3, <4>1, CheckedTyped
      <4>3. scan' \in [Instances -> [Minutes -> Scan]]
        BY <3>2, <4>2, ScanStep
      <4>4. GoodPool(Enqueue(pool[i], j))
        BY <1>1, <4>2, EnqueueGood
      <4>5. pool' = pool \/ pool' = [pool EXCEPT ![i] = Enqueue(pool[i], j)]
        BY <3>2
      <4>6. PoolsKept
        BY <1>2, <4>4, <4>5, PoolStep DEF PoolsKept
      <4> QED  BY <4>3, <4>6
    <3> QED  BY <1>11, <3>1, <3>2 DEF ScanCheck
  <2> QED  BY <1>1, <1>4, <1>11, <2>1 DEF ScanCheck, TypeOK, PoolsKept
<1>12. ASSUME NEW i \in Instances, NEW k \in 1 .. Len(pool[i].flight), DispatchCreate(i, k)
       PROVE  IInv'
  <2> DEFINE r == [pool[i] EXCEPT !.flight[k].created = TRUE]
  <2>1. PoolsKept
    <3>1. GoodPool(r)
      BY <1>1, CreateGood
    <3>2. pool' = [pool EXCEPT ![i] = r]
      BY <1>1, <1>12 DEF DispatchCreate
    <3> HIDE DEF r
    <3> QED  BY <3>1, <3>2, PoolStep DEF PoolsKept
  <2>2. rows' \in [Jobs -> [Minutes -> Nat]]
    <3>1. pool[i].flight[k].job \in Jobs
      <4>1. pool[i].flight \in Seq(Dispatches)
        BY <1>1 DEF Pool
      <4>2. pool[i].flight[k] \in Dispatches
        BY <4>1
      <4> QED  BY <4>2, DispatchTyped
    <3>2. \A j \in Jobs : rows[j][minute] + 1 \in Nat
      BY <1>1
    <3> QED  BY <1>1, <1>12, <3>1, <3>2 DEF DispatchCreate
  <2> QED  BY <1>1, <1>4, <1>12, <2>1, <2>2 DEF DispatchCreate, TypeOK, PoolsKept
<1>13. ASSUME NEW i \in Instances, NEW k \in 1 .. Len(pool[i].flight), DispatchEnd(i, k)
       PROVE  IInv'
  <2>1. GoodPool(Release(pool[i], k))
    BY <1>1, ReleaseGood
  <2>2. pool' = [pool EXCEPT ![i] = Release(pool[i], k)]
    BY <1>1, <1>13 DEF DispatchEnd
  <2>3. PoolsKept
    BY <2>1, <2>2, PoolStep DEF PoolsKept
  <2> QED  BY <1>1, <1>4, <1>13, <2>3 DEF DispatchEnd, TypeOK, PoolsKept
<1> QED
  BY <1>5, <1>6, <1>7, <1>8, <1>9, <1>10, <1>11, <1>12, <1>13 DEF Next, InstanceStep

-----------------------------------------------------------------------------
(* Each operation of a queue is a step of the abstract pool, or none. *)

LEMMA EnqueueAbstract ==
  ASSUME NEW p, GoodPool(p), NEW j \in Jobs
  PROVE  \/ Enqueue(p, j) = p
         \/ /\ p.running < MaxConcurrent /\ Enqueue(p, j).running = p.running + 1
            /\ Enqueue(p, j).queue = p.queue
         \/ /\ p.running = MaxConcurrent /\ Enqueue(p, j).running = p.running
            /\ \A m \in 1 .. Len(p.queue) : p.queue[m] # j
            /\ Enqueue(p, j).queue = Append(p.queue, j)
<1> DEFINE r == [p EXCEPT !.pending = p.pending \cup {j}, !.queue = Append(p.queue, j)]
<1>1. /\ p.queue \in Seq(Jobs) /\ p.running \in 0 .. MaxConcurrent
      /\ p.queue # <<>> => p.running = MaxConcurrent
      /\ Lists(p.queue, p.pending) /\ MaxConcurrent \in Nat \ {0}
  BY BoundsAssumption DEF GoodPool, FairPool, Pool
<1>2. CASE j \in p.pending
  BY <1>2 DEF Enqueue
<1>3. CASE j \notin p.pending
  <2>1. Enqueue(p, j) = Drain(r)
    BY <1>3 DEF Enqueue
  <2>2. r.queue = Append(p.queue, j) /\ r.running = p.running
    BY DEF GoodPool, FairPool, Pool
  <2>3. /\ Drain(r).queue = SubSeq(r.queue, Startable(r) + 1, Len(r.queue))
        /\ Drain(r).running = r.running + Startable(r)
    BY DEF Drain
  <2> HIDE DEF r
  <2>4. r.queue \in Seq(Jobs) /\ Len(r.queue) = Len(p.queue) + 1
    BY <1>1, <2>2
  <2>5. CASE p.running < MaxConcurrent
    <3>1. p.queue = <<>>
      BY <1>1, <2>5
    <3>2. Len(r.queue) = 1 /\ Startable(r) = 1
      BY <1>1, <2>2, <2>4, <2>5, <3>1 DEF Startable
    <3>3. SubSeq(r.queue, 2, 1) = <<>>
      BY <2>4
    <3> QED  BY <2>1, <2>2, <2>3, <2>5, <3>1, <3>2, <3>3
  <2>6. CASE p.running = MaxConcurrent
    <3>1. Startable(r) = 0
      BY <1>1, <2>2, <2>4, <2>6 DEF Startable
    <3>2. SubSeq(r.queue, 1, Len(r.queue)) = r.queue
      BY <2>4
    <3>3. \A m \in 1 .. Len(p.queue) : p.queue[m] # j
      BY <1>1, <1>3 DEF Lists
    <3> QED  BY <1>1, <2>1, <2>2, <2>3, <2>6, <3>1, <3>2, <3>3
  <2> QED  BY <1>1, <2>5, <2>6
<1> QED  BY <1>2, <1>3

LEMMA StartableWithSlots ==
  ASSUME NEW r, NEW n \in Nat, Len(r.queue) = n, NEW s \in Nat, r.running = s,
         MaxConcurrent \in Nat
  PROVE  /\ n = 0 /\ s <= MaxConcurrent => Startable(r) = 0
         /\ n >= 1 /\ s + 1 = MaxConcurrent => Startable(r) = 1
  BY DEF Startable

LEMMA ReleaseAbstract ==
  ASSUME NEW p, GoodPool(p), NEW k \in 1 .. Len(p.flight)
  PROVE  /\ p.running > 0
         /\ \/ /\ p.queue = <<>> /\ Release(p, k).queue = <<>>
               /\ Release(p, k).running = p.running - 1
            \/ /\ p.queue # <<>> /\ Release(p, k).queue = Tail(p.queue)
               /\ Release(p, k).running = p.running
<1> DEFINE r == [p EXCEPT !.running = @ - 1, !.flight = RemoveAt(@, k)]
<1>1. /\ p.queue \in Seq(Jobs) /\ p.running \in 0 .. MaxConcurrent
      /\ p.queue # <<>> => p.running = MaxConcurrent
      /\ p.flight \in Seq(Dispatches) /\ p.running = Len(p.flight) /\ MaxConcurrent \in Nat \ {0}
  BY BoundsAssumption DEF GoodPool, FairPool, Pool
<1>2. p.running > 0
  BY <1>1
<1>3. Release(p, k) = Drain(r)
  BY DEF Release
<1>4. r.queue = p.queue /\ r.running = p.running - 1
  BY DEF GoodPool, FairPool, Pool
<1>5. /\ Drain(r).queue = SubSeq(r.queue, Startable(r) + 1, Len(r.queue))
      /\ Drain(r).running = r.running + Startable(r)
  BY DEF Drain
<1> HIDE DEF r
<1>6. CASE p.queue = <<>>
  <2>1. Startable(r) = 0
    <3>1. Len(r.queue) = 0
      BY <1>4, <1>6
    <3>2. p.running - 1 \in Nat /\ p.running - 1 <= MaxConcurrent
      BY <1>1, <1>2
    <3> QED  BY <1>1, <1>4, <3>1, <3>2, StartableWithSlots
  <2>2. SubSeq(r.queue, 1, Len(r.queue)) = <<>>
    BY <1>4, <1>6
  <2> QED  BY <1>1, <1>2, <1>3, <1>4, <1>5, <1>6, <2>1, <2>2
<1>7. CASE p.queue # <<>>
  <2>1. Len(p.queue) >= 1
    BY <1>1, <1>7
  <2>2. Startable(r) = 1
    <3>1. Len(r.queue) = Len(p.queue) /\ Len(p.queue) \in Nat
      BY <1>1, <1>4
    <3>2. p.running - 1 \in Nat /\ p.running - 1 + 1 = MaxConcurrent
      BY <1>1, <1>2, <1>7
    <3> QED  BY <1>1, <1>4, <2>1, <3>1, <3>2, StartableWithSlots
  <2>3. SubSeq(p.queue, 2, Len(p.queue)) = Tail(p.queue)
    BY <1>1, <1>7
  <2> QED  BY <1>1, <1>2, <1>3, <1>4, <1>5, <1>7, <2>2, <2>3
<1> QED  BY <1>6, <1>7

(* A step that changes one pool, seen through the refinement mapping. *)
LEMMA AbstractOne ==
  ASSUME IInv, NEW i \in Instances, NEW p, pool' = [pool EXCEPT ![i] = p]
  PROVE  /\ [x \in Instances |-> pool[x].queue]' =
              [[x \in Instances |-> pool[x].queue] EXCEPT ![i] = p.queue]
         /\ [x \in Instances |-> pool[x].running]' =
              [[x \in Instances |-> pool[x].running] EXCEPT ![i] = p.running]
<1>1. pool \in [Instances -> Pool]
  BY DEF IInv, TypeOK
<1> QED  BY <1>1

LEMMA AbstractStep == IInv /\ [Next]_vars => [Abstract!PoolNext]_(Abstract!poolVars)
<1> SUFFICES ASSUME IInv, [Next]_vars PROVE [Abstract!PoolNext]_(Abstract!poolVars)
  OBVIOUS
<1> DEFINE wait == [x \in Instances |-> pool[x].queue]
           used == [x \in Instances |-> pool[x].running]
<1>1. /\ pool \in [Instances -> Pool] /\ \A x \in Instances : GoodPool(pool[x])
      /\ scan \in [Instances -> [Minutes -> Scan]]
  BY DEF IInv, TypeOK
<1>2. pool' = pool => UNCHANGED (Abstract!poolVars)
  BY DEF Abstract!poolVars
<1>3. CASE pool' = pool
  BY <1>2, <1>3
<1>4. ASSUME NEW i \in Instances, Restart(i) PROVE Abstract!Forget(i)
  <2>1. wait' = [wait EXCEPT ![i] = <<>>] /\ used' = [used EXCEPT ![i] = 0]
    <3>1. pool' = [pool EXCEPT ![i] = EmptyPool]
      BY <1>4 DEF Restart
    <3>2. /\ wait' = [wait EXCEPT ![i] = EmptyPool.queue]
          /\ used' = [used EXCEPT ![i] = EmptyPool.running]
      BY <3>1, AbstractOne
    <3>3. EmptyPool.queue = <<>> /\ EmptyPool.running = 0
      BY DEF EmptyPool
    <3> QED  BY <3>2, <3>3
  <2> QED  BY <2>1 DEF Abstract!Forget
<1>5. ASSUME NEW i \in Instances, NEW m \in Minutes, ScanCheck(i, m), pool' # pool
      PROVE  Abstract!StartAtOnce(i) \/ \E j \in Jobs : Abstract!QueueUp(i, j)
  <2>1. PICK j \in scan[i][m].todo : pool' = [pool EXCEPT ![i] = Enqueue(pool[i], j)]
    BY <1>5 DEF ScanCheck
  <2>2. j \in Jobs
    BY <1>1 DEF Scan
  <2> DEFINE p == pool[i]
             e == Enqueue(p, j)
  <2>3. wait' = [wait EXCEPT ![i] = e.queue] /\ used' = [used EXCEPT ![i] = e.running]
    BY <2>1, AbstractOne
  <2>4. e # p
    BY <1>1, <1>5, <2>1
  <2>5. wait[i] = p.queue /\ used[i] = p.running
    OBVIOUS
  <2>6. wait = [wait EXCEPT ![i] = p.queue] /\ used = [used EXCEPT ![i] = p.running]
    OBVIOUS
  <2> HIDE DEF e, wait, used
  <2>7. CASE p.running < MaxConcurrent /\ e.running = p.running + 1 /\ e.queue = p.queue
    BY <2>3, <2>5, <2>6, <2>7 DEF Abstract!StartAtOnce, wait, used
  <2>8. CASE /\ p.running = MaxConcurrent /\ e.running = p.running
             /\ \A n \in 1 .. Len(p.queue) : p.queue[n] # j
             /\ e.queue = Append(p.queue, j)
    <3>1. Abstract!QueueUp(i, j)
      BY <2>3, <2>5, <2>6, <2>8 DEF Abstract!QueueUp, Abstract!Waits, wait, used
    <3> QED  BY <2>2, <3>1
  <2>9. GoodPool(p)
    BY <1>1
  <2> QED  BY <2>2, <2>4, <2>7, <2>8, <2>9, EnqueueAbstract DEF e
<1>6. ASSUME NEW i \in Instances, NEW k \in 1 .. Len(pool[i].flight), DispatchCreate(i, k)
      PROVE  UNCHANGED (Abstract!poolVars)
  <2> DEFINE p == pool[i]
             c == [p EXCEPT !.flight[k].created = TRUE]
  <2>1. pool' = [pool EXCEPT ![i] = c]
    BY <1>1, <1>6 DEF DispatchCreate
  <2>2. c.queue = p.queue /\ c.running = p.running
    BY <1>1 DEF Pool
  <2> HIDE DEF c
  <2>3. wait' = [wait EXCEPT ![i] = c.queue] /\ used' = [used EXCEPT ![i] = c.running]
    BY <2>1, AbstractOne
  <2>4. wait = [wait EXCEPT ![i] = p.queue] /\ used = [used EXCEPT ![i] = p.running]
    OBVIOUS
  <2>5. wait' = wait /\ used' = used
    BY <2>2, <2>3, <2>4
  <2> QED  BY <2>5 DEF Abstract!poolVars
<1>7. ASSUME NEW i \in Instances, NEW k \in 1 .. Len(pool[i].flight), DispatchEnd(i, k)
      PROVE  Abstract!Finish(i)
  <2> DEFINE p == pool[i]
             f == Release(p, k)
  <2>1. pool' = [pool EXCEPT ![i] = f]
    BY <1>1, <1>7 DEF DispatchEnd
  <2> HIDE DEF f
  <2>2. wait' = [wait EXCEPT ![i] = f.queue] /\ used' = [used EXCEPT ![i] = f.running]
    BY <2>1, AbstractOne
  <2>3. /\ p.running > 0
        /\ \/ p.queue = <<>> /\ f.queue = <<>> /\ f.running = p.running - 1
           \/ p.queue # <<>> /\ f.queue = Tail(p.queue) /\ f.running = p.running
    BY <1>1, ReleaseAbstract DEF f
  <2>4. /\ wait[i] = p.queue /\ used[i] = p.running
        /\ wait = [wait EXCEPT ![i] = p.queue] /\ used = [used EXCEPT ![i] = p.running]
    OBVIOUS
  <2> HIDE DEF wait, used, p
  <2> QED  BY <2>2, <2>3, <2>4 DEF Abstract!Finish, wait, used
<1>8. pool' = pool \/ \E i \in Instances :
        \/ Restart(i) \/ \E m \in Minutes : ScanCheck(i, m)
        \/ \E k \in 1 .. Len(pool[i].flight) : DispatchCreate(i, k) \/ DispatchEnd(i, k)
  BY DEF Next, InstanceStep, NextMinute, Tick, ScanStart, ScanRead, vars
<1> QED  BY <1>3, <1>4, <1>5, <1>6, <1>7, <1>8 DEF Abstract!PoolNext

(* BackupQueue, with its pending set, its drain and dispatches that throw  *)
(* or are lost in a restart, implements WorkerPool, for any number of      *)
(* instances, jobs and slots.                                              *)
THEOREM QueueImplementsPool == Spec => Abstract!PoolSpec
<1>1. Init => Abstract!Idle
  BY DEF Init, EmptyPool, Abstract!Idle
<1> QED  BY <1>1, InitIInv, NextIInv, AbstractStep, PTL DEF Spec, Abstract!PoolSpec

-----------------------------------------------------------------------------
(* Slots of BackupQueue are neither lost nor leaked: running is the number *)
(* of triggerBackup calls in flight, at most MAX_CONCURRENT, and nothing   *)
(* waits while a slot is idle.                                             *)
THEOREM NoSlotLost == Spec => []SlotsConserved
<1>1. IInv => SlotsConserved
  <2> SUFFICES ASSUME IInv, NEW i \in Instances
               PROVE  /\ pool[i].running = Len(pool[i].flight)
                      /\ pool[i].running <= MaxConcurrent
                      /\ pool[i].queue # <<>> => pool[i].running = MaxConcurrent
    BY DEF SlotsConserved
  <2>1. pool[i].running \in 0 .. MaxConcurrent
    BY DEF IInv, GoodPool, FairPool, Pool
  <2> QED  BY <2>1, BoundsAssumption DEF IInv, GoodPool, FairPool
<1> QED  BY <1>1, InitIInv, NextIInv, PTL DEF Spec

(* The dashboard's queued jobs (getSchedulerQueuedJobIds) are the waiting  *)
(* ones, each once, however many ticks find them due.                      *)
THEOREM PendingIsQueue == Spec => []PendingMirrorsQueue
<1>1. IInv => PendingMirrorsQueue
  <2> SUFFICES ASSUME IInv, NEW i \in Instances
               PROVE  pool[i].pending = ToSet(pool[i].queue) /\ Distinct(pool[i].queue)
    BY DEF PendingMirrorsQueue, Distinct
  <2>1. /\ pool[i].queue \in Seq(Jobs) /\ pool[i].pending \subseteq Jobs
        /\ Lists(pool[i].queue, pool[i].pending) /\ Distinct(pool[i].queue)
    BY DEF IInv, GoodPool, FairPool, Pool
  <2>2. \A x : x \in ToSet(pool[i].queue) <=> \E m \in 1 .. Len(pool[i].queue) : pool[i].queue[m] = x
    BY <2>1 DEF ToSet
  <2>3. \A m \in 1 .. Len(pool[i].queue) : pool[i].queue[m] \in Jobs
    BY <2>1
  <2> QED  BY <2>1, <2>2, <2>3 DEF Lists
<1> QED  BY <1>1, InitIInv, NextIInv, PTL DEF Spec
(* Every variable keeps to its declared range: running never exceeds        *)
(* MAX_CONCURRENT, nor goes below zero.                                     *)
THEOREM TypeCorrect == Spec => []TypeOK
<1>1. IInv => TypeOK
  BY DEF IInv
<1> QED  BY <1>1, InitIInv, NextIInv, PTL DEF Spec

-----------------------------------------------------------------------------
(* The parser of cron expressions reads what its comment says, for every   *)
(* expression and every moment.                                            *)

(* The loop from v on, with this step and bound, meets the value. *)
Reached(from, to, step, value) ==
  value <= to /\ \E k \in Nat : value = from + k * step

(* One turn of the loop. *)
LEMMA Unroll ==
  ASSUME NEW v \in Nat, NEW to \in Nat, NEW step \in Nat \ {0}, NEW value \in Nat
  PROVE  Reached(v, to, step, value) <=>
           v <= to /\ (v = value \/ Reached(v + step, to, step, value))
<1>1. ASSUME Reached(v, to, step, value)
      PROVE  v <= to /\ (v = value \/ Reached(v + step, to, step, value))
  <2>1. PICK k \in Nat : value = v + k * step
    BY <1>1 DEF Reached
  <2>2. k * step >= 0
    BY <2>1
  <2>3. CASE k = 0
    BY <1>1, <2>1, <2>3 DEF Reached
  <2>4. CASE k # 0
    <3>1. k - 1 \in Nat /\ value = (v + step) + (k - 1) * step
      BY <2>1, <2>4
    <3> QED
      BY <1>1, <2>1, <2>2, <3>1 DEF Reached
  <2> QED
    BY <2>3, <2>4
<1>2. ASSUME v <= to, v = value
      PROVE  Reached(v, to, step, value)
  <2>1. 0 \in Nat /\ value = v + 0 * step
    BY <1>2
  <2> QED
    BY <1>2, <2>1 DEF Reached
<1>3. ASSUME Reached(v + step, to, step, value)
      PROVE  Reached(v, to, step, value)
  <2>1. PICK k \in Nat : value = (v + step) + k * step
    BY <1>3 DEF Reached
  <2>2. k + 1 \in Nat /\ value = v + (k + 1) * step
    BY <2>1
  <2> QED
    BY <1>3, <2>2 DEF Reached
<1> QED
  BY <1>1, <1>2, <1>3

(* The recursive function that the loop is does exist: its values are     *)
(* whether the value is reached.                                           *)
LEMMA LoopIsThere ==
  ASSUME NEW from \in Nat, NEW to \in Nat, NEW step \in Nat \ {0}, NEW value \in Nat
  PROVE  \A v \in from .. to + step :
           Loop(from, to, step, value)[v] = (v <= to /\ (v = value \/ Loop(from, to, step, value)[v + step]))
<1> DEFINE S == from .. to + step
           F(f) == [v \in S |-> v <= to /\ (v = value \/ f[v + step])]
           g == [v \in S |-> Reached(v, to, step, value)]
<1>1. Loop(from, to, step, value) = CHOOSE f : f = F(f)
  BY DEF Loop
<1>2. g = F(g)
  <2> SUFFICES ASSUME NEW v \in S
               PROVE  Reached(v, to, step, value) = (v <= to /\ (v = value \/ g[v + step]))
    OBVIOUS
  <2>1. v \in Nat
    OBVIOUS
  <2>2. CASE v <= to
    <3>1. v + step \in S
      BY <2>2
    <3>2. g[v + step] = Reached(v + step, to, step, value)
      BY <3>1
    <3> QED
      <4> DEFINE R == Reached(v, to, step, value)  T == Reached(v + step, to, step, value)
      <4>1. R <=> v <= to /\ (v = value \/ T)
        BY <2>1, Unroll
      <4>2. R \in BOOLEAN /\ T \in BOOLEAN
        BY DEF Reached
      <4>3. g[v + step] = T
        BY <3>2
      <4> HIDE DEF R, T, g
      <4>4. R <=> v <= to /\ (v = value \/ g[v + step])
        BY <4>1, <4>3
      <4> QED
        BY <4>2, <4>4 DEF R
  <2>3. CASE ~(v <= to)
    <3>1. ~Reached(v, to, step, value)
      BY <2>1, <2>3, Unroll
    <3>2. Reached(v, to, step, value) = FALSE
      BY <3>1 DEF Reached
    <3> QED
      BY <2>3, <3>2
  <2> QED
    BY <2>2, <2>3
<1>3. \E f : f = F(f)
  BY <1>2
<1> DEFINE h == Loop(from, to, step, value)
<1>4. h = F(h)
  <2> HIDE DEF F, g
  <2> QED
    BY <1>1, <1>3
<1> QED
  BY <1>4

(* Every set of naturals has a least element. *)
LEMMA LeastExists ==
  ASSUME NEW S \in SUBSET Nat, S # {}
  PROVE  \E x \in S : \A y \in S : x <= y
<1> DEFINE T == {0 .. x : x \in S}
<1>1. T \subseteq FiniteSubsetsOf(Nat) /\ T # {}
  <2>1. \A x \in S : IsFiniteSet(0 .. x) /\ 0 .. x \subseteq Nat
    BY FS_Interval
  <2>2. QED
    BY <2>1 DEF FiniteSubsetsOf
<1>2. PICK t \in T : \A u \in T : ~ (<<u, t>> \in StrictSubsetOrdering(Nat))
  BY <1>1, FS_StrictSubsetOrderingWellFounded, WFMin
<1>3. PICK x \in S : t = 0 .. x
  OBVIOUS
<1>4. ASSUME NEW y \in S, y < x PROVE FALSE
  <2>1. 0 .. y \in T /\ 0 .. y \subseteq 0 .. x /\ 0 .. y # 0 .. x
    BY <1>4
  <2>2. 0 .. y \in SUBSET Nat /\ 0 .. x \in SUBSET Nat
    OBVIOUS
  <2>3. <<0 .. y, t>> \in StrictSubsetOrdering(Nat)
    BY <1>3, <2>1, <2>2 DEF StrictSubsetOrdering
  <2>4. QED
    BY <1>2, <2>1, <2>3
<1>5. QED
  BY <1>4

(* And it has no others: where two functions that do as the loop does      *)
(* differ last, they would have to differ once more.                       *)
LEMMA LoopReaches ==
  ASSUME NEW from \in Nat, NEW to \in Nat, NEW step \in Nat \ {0}, NEW value \in Nat
  PROVE  \A v \in from .. to + step : Loop(from, to, step, value)[v] <=> Reached(v, to, step, value)
<1> DEFINE h == Loop(from, to, step, value)
           Odd == {v \in from .. to + step : ~(h[v] <=> Reached(v, to, step, value))}
           Left == {to + step - v : v \in Odd}
<1>1. \A v \in from .. to + step : h[v] = (v <= to /\ (v = value \/ h[v + step]))
  BY LoopIsThere
<1> HIDE DEF h
<1>2. SUFFICES ASSUME Odd # {} PROVE FALSE
  BY DEF h
<1>3. Left \subseteq Nat /\ Left # {}
  <2>1. \A v \in Odd : to + step - v \in Nat
    OBVIOUS
  <2> HIDE DEF Odd
  <2> QED
    BY <1>2, <2>1
<1>4. PICK least \in Left : \A y \in Left : least <= y
  BY <1>3, LeastExists
<1>5. PICK v \in Odd : least = to + step - v
  OBVIOUS
<1>6. v \in Nat /\ v \in from .. to + step
  OBVIOUS
<1>7. CASE v <= to
  <2>1. v + step \in from .. to + step /\ to + step - (v + step) < least
    BY <1>5, <1>6, <1>7
  <2>2. v + step \notin Odd
    <3> HIDE DEF Odd
    <3>1. v + step \in Odd => to + step - (v + step) \in Left
      OBVIOUS
    <3> HIDE DEF Left
    <3> QED
      BY <1>4, <1>5, <1>6, <2>1, <3>1
  <2>3. h[v + step] <=> Reached(v + step, to, step, value)
    BY <2>1, <2>2
  <2>4. Reached(v, to, step, value) <=> v <= to /\ (v = value \/ Reached(v + step, to, step, value))
    BY <1>6, Unroll
  <2>5. h[v] = (v <= to /\ (v = value \/ h[v + step]))
    BY <1>1, <1>6
  <2> HIDE DEF h
  <2>6. h[v] <=> Reached(v, to, step, value)
    BY <2>3, <2>4, <2>5
  <2> QED
    BY <2>6
<1>8. CASE ~(v <= to)
  <2>1. ~Reached(v, to, step, value)
    BY <1>6, <1>8, Unroll
  <2>2. h[v] = FALSE
    BY <1>1, <1>6, <1>8
  <2> QED
    BY <2>1, <2>2
<1> QED
  BY <1>6, <1>7, <1>8

LEMMA MeetsMultiples ==
  ASSUME NEW from \in Nat, NEW to \in Nat, NEW step \in Nat, NEW value \in Nat
  PROVE  Meets(from, to, step, value) <=> value \in Multiples(from, to, step)
<1>1. CASE ~(step > 0 /\ from <= to)
  BY <1>1 DEF Meets, Multiples
<1>2. CASE step > 0 /\ from <= to
  <2>1. step \in Nat \ {0} /\ from \in from .. to + step
    BY <1>2
  <2>2. Meets(from, to, step, value) <=> Reached(from, to, step, value)
    BY <1>2, <2>1, LoopReaches DEF Meets
  <2>3. ASSUME Reached(from, to, step, value)
        PROVE  value \in Multiples(from, to, step)
    <3>1. PICK k \in Nat : value = from + k * step
      BY <2>3 DEF Reached
    <3>2. k <= k * step
      BY <2>1, <3>1
    <3>3. k \in 0 .. to - from /\ value \in from .. to
      BY <2>3, <3>1, <3>2 DEF Reached
    <3> QED
      BY <1>2, <3>1, <3>3 DEF Multiples
  <2>4. ASSUME value \in Multiples(from, to, step)
        PROVE  Reached(from, to, step, value)
    BY <2>4 DEF Multiples, Reached
  <2> QED
    BY <2>2, <2>3, <2>4
<1> QED
  BY <1>1, <1>2

(* Splitting leaves at least one part, and of a part one word.             *)
LEMMA EntryParts ==
  ASSUME NEW e \in Entries, NEW k \in 1 .. Len(e)
  PROVE  e[k] \in Seq(Words) /\ Len(e[k]) >= 1 /\ \A m \in 1 .. Len(e[k]) : e[k][m] \in Words
<1>1. e \in Seq(NonEmpty(Words))
  BY DEF Entries, NonEmpty
<1>2. e[k] \in NonEmpty(Words)
  BY <1>1, ElementOfSeq
<1>3. e[k] \in Seq(Words) /\ e[k] # <<>>
  BY <1>2 DEF NonEmpty
<1> DEFINE part == e[k]
<1>4. part \in Seq(Words) /\ part # <<>>
  BY <1>3
<1> HIDE DEF part
<1>5. Len(part) \in Nat /\ Len(part) # 0
  BY <1>4, EmptySeq
<1>6. \A m \in 1 .. Len(part) : part[m] \in Words
  BY <1>4, ElementOfSeq
<1> QED
  BY <1>4, <1>5, <1>6 DEF part

LEMMA OneOrTwo ==
  ASSUME NEW k \in Nat, k >= 1, k <= 2
  PROVE  k = 1 \/ k = 2
  OBVIOUS

LEMMA EntryLength ==
  ASSUME NEW e \in Entries
  PROVE  Len(e) \in Nat /\ Len(e) >= 1
<1>1. e \in Seq(NonEmpty(Words)) /\ e # <<>>
  BY DEF Entries, NonEmpty
<1> QED
  BY <1>1, EmptySeq

(* An entry of the syntax matches what it denotes.                         *)
LEMMA SpelledReads ==
  ASSUME NEW e \in Entries, Spelled(e),
         NEW min \in Nat, NEW max \in Nat, NEW value \in min .. max
  PROVE  EntryMatches(e, value, min, max) <=> value \in Denotes(e, min, max)
<1> DEFINE part == e[1]
<1>1. /\ Len(e) \in {1, 2} /\ value \in Nat
      /\ Len(part) \in Nat /\ Len(part) >= 1 /\ \A m \in 1 .. Len(part) : part[m] \in Words
      /\ IsStar(part) \/ Numerals(part, 2)
  <2>0. Len(e) <= 2 /\ (IsStar(part) \/ Numerals(part, 2))
    BY DEF Spelled
  <2>1. Len(e) \in {1, 2}
    <3>1. Len(e) \in Nat /\ Len(e) >= 1 /\ Len(e) <= 2
      BY <2>0, EntryLength
    <3> QED
      BY <3>1, OneOrTwo, Zenon
  <2>2. /\ part \in Seq(Words) /\ Len(part) >= 1
        /\ \A m \in 1 .. Len(part) : part[m] \in Words
    BY <2>1, EntryParts
  <2>3. Len(part) \in Nat
    BY <2>2
  <2> HIDE DEF part
  <2> QED
    BY <2>0, <2>1, <2>2, <2>3
<1>2. CASE IsStar(part)
  <2>1. Len(part) = 1 /\ part[1].kind = "star" /\ ~IsRange(part) /\ parseInt(part[1]) = NaN
    BY <1>2 DEF IsStar, IsRange, parseInt
  <2>2. CASE Len(e) = 1
    BY <1>1, <1>2, <2>1, <2>2 DEF EntryMatches, Denotes, From, To
  <2>3. CASE Len(e) = 2
    <3>1. e[2][1].n \in Nat /\ parseInt(e[2][1]) = e[2][1].n
      BY <2>3, EntryParts DEF Spelled, Numerals, parseInt, Words
    <3>2. EntryMatches(e, value, min, max) <=> Meets(min, max, e[2][1].n, value)
      BY <1>2, <2>1, <2>3, <3>1 DEF EntryMatches, StepMatches
    <3>3. Denotes(e, min, max) = Multiples(min, max, e[2][1].n)
      BY <1>2, <2>3 DEF Denotes, From, To
    <3> QED
      BY <1>1, <3>1, <3>2, <3>3, MeetsMultiples
  <2> QED
    BY <1>1, <2>2, <2>3
<1>3. CASE Numerals(part, 2) /\ Len(part) = 1
  <2>1. /\ ~IsStar(part) /\ ~IsRange(part)
        /\ part[1].n \in Nat /\ parseInt(part[1]) = part[1].n /\ parseInt(part[1]) # NaN
    BY <1>1, <1>3 DEF Numerals, IsStar, IsRange, parseInt, NaN, Words
  <2>2. CASE Len(e) = 1
    <3>1. EntryMatches(e, value, min, max) <=> part[1].n = value
      BY <1>3, <2>1, <2>2 DEF EntryMatches
    <3>2. Denotes(e, min, max) = part[1].n .. part[1].n
      BY <1>3, <2>1, <2>2 DEF Denotes, From, To
    <3> QED
      BY <1>1, <2>1, <3>1, <3>2
  <2>3. CASE Len(e) = 2
    <3>1. e[2][1].n \in Nat /\ parseInt(e[2][1]) = e[2][1].n
      BY <2>3, EntryParts DEF Spelled, Numerals, parseInt, Words
    <3>2. EntryMatches(e, value, min, max) <=> Meets(part[1].n, max, e[2][1].n, value)
      BY <1>3, <2>1, <2>3, <3>1 DEF EntryMatches, StepMatches
    <3>3. Denotes(e, min, max) = Multiples(part[1].n, max, e[2][1].n)
      BY <1>3, <2>1, <2>3 DEF Denotes, From, To
    <3> QED
      BY <1>1, <2>1, <3>1, <3>2, <3>3, MeetsMultiples
  <2> QED
    BY <1>1, <2>2, <2>3
<1>4. CASE Numerals(part, 2) /\ Len(part) = 2
  <2>1. /\ ~IsStar(part) /\ part[1].n \in Nat /\ part[2].n \in Nat
        /\ Number(part[1]) = part[1].n /\ Number(part[2]) = part[2].n /\ IsRange(part)
    <3>1. part[1] \in Words /\ part[2] \in Words /\ part[1].kind = "digits" /\ part[2].kind = "digits"
      BY <1>1, <1>4 DEF Numerals
    <3> QED
      BY <1>4, <3>1 DEF IsStar, IsRange, Number, NaN, Words
  <2>2. CASE Len(e) = 1
    <3>1. EntryMatches(e, value, min, max) <=> part[1].n <= value /\ value <= part[2].n
      BY <1>4, <2>1, <2>2 DEF EntryMatches
    <3>2. Denotes(e, min, max) = part[1].n .. part[2].n
      BY <1>4, <2>1, <2>2 DEF Denotes, From, To
    <3> QED
      BY <1>1, <2>1, <3>1, <3>2
  <2>3. CASE Len(e) = 2
    <3>1. e[2][1].n \in Nat /\ parseInt(e[2][1]) = e[2][1].n
      BY <2>3, EntryParts DEF Spelled, Numerals, parseInt, Words
    <3>2. EntryMatches(e, value, min, max) <=> Meets(part[1].n, part[2].n, e[2][1].n, value)
      BY <1>4, <2>1, <2>3, <3>1 DEF EntryMatches, StepMatches
    <3>3. Denotes(e, min, max) = Multiples(part[1].n, part[2].n, e[2][1].n)
      BY <1>4, <2>1, <2>3 DEF Denotes, From, To
    <3>4. Meets(part[1].n, part[2].n, e[2][1].n, value)
            <=> value \in Multiples(part[1].n, part[2].n, e[2][1].n)
      <4> DEFINE a == part[1].n  b == part[2].n  s == e[2][1].n
      <4>1. a \in Nat /\ b \in Nat /\ s \in Nat /\ value \in Nat
        BY <1>1, <2>1, <3>1
      <4> HIDE DEF a, b, s
      <4>2. Meets(a, b, s, value) <=> value \in Multiples(a, b, s)
        BY <4>1, MeetsMultiples
      <4> QED
        BY <4>2 DEF a, b, s
    <3> QED
      BY <3>2, <3>3, <3>4
  <2> QED
    BY <1>1, <2>2, <2>3
<1>5. Numerals(part, 2) => Len(part) = 1 \/ Len(part) = 2
  <2>1. Numerals(part, 2) => Len(part) <= 2
    BY DEF Numerals
  <2>2. Len(part) \in Nat /\ Len(part) >= 1
    BY <1>1
  <2> QED
    BY <2>1, <2>2, OneOrTwo, Zenon
<1> QED
  BY <1>1, <1>2, <1>3, <1>4, <1>5

(* Whatever the expression and the moment, isCronDue's parser matches where *)
(* entries of the syntax that the comment describes name the moment in all *)
(* five fields, misspelled ones beside them or not; it never matches where *)
(* a field has a foreign character or nothing but entries of the syntax    *)
(* that do not name the moment; so that an expression of the syntax starts *)
(* its job exactly when the comment says: with entries that overlap,       *)
(* ranges that are empty, steps of zero or past the bound.                 *)
THEOREM ParserReadsSyntax ==
  ASSUME NEW expression \in Seq(Fields), NEW now \in Moments
  PROVE  /\ Scheduled(expression, now) => expressionMatches(expression, now)
         /\ expressionMatches(expression, now) => NotExcluded(expression, now)
         /\ (\A n \in 1 .. Len(expression) : \A e \in expression[n].entries : Spelled(e))
              => (expressionMatches(expression, now) <=> Scheduled(expression, now))
<1>1. \A n \in 1 .. 5 : /\ Lowest[n] \in Nat /\ Highest[n] \in Nat
                        /\ now[Parts[n]] \in Lowest[n] .. Highest[n]
  <2>1. /\ now["minute"] \in 0 .. 59 /\ now["hour"] \in 0 .. 23 /\ now["dom"] \in 1 .. 31
        /\ now["month"] \in 1 .. 12 /\ now["dow"] \in 0 .. 6
    BY DEF Moments
  <2> SUFFICES ASSUME NEW n \in 1 .. 5
               PROVE  /\ Lowest[n] \in Nat /\ Highest[n] \in Nat
                      /\ now[Parts[n]] \in Lowest[n] .. Highest[n]
    OBVIOUS
  <2>2. n = 1 \/ n = 2 \/ n = 3 \/ n = 4 \/ n = 5
    OBVIOUS
  <2>3. /\ Parts[1] = "minute" /\ Parts[2] = "hour" /\ Parts[3] = "dom"
        /\ Parts[4] = "month" /\ Parts[5] = "dow"
    BY DEF Parts
  <2>4. /\ Lowest[1] = 0 /\ Lowest[2] = 0 /\ Lowest[3] = 1 /\ Lowest[4] = 1 /\ Lowest[5] = 0
        /\ Highest[1] = 59 /\ Highest[2] = 23 /\ Highest[3] = 31
        /\ Highest[4] = 12 /\ Highest[5] = 6
    BY DEF Lowest, Highest
  <2>5. CASE n = 1
    <3>1. Lowest[1] \in Nat /\ Highest[1] \in Nat
      BY <2>4
    <3>2. now[Parts[1]] \in Lowest[1] .. Highest[1]
      BY <2>1, <2>3, <2>4
    <3> QED
      BY <3>1, <3>2, <2>5
  <2>6. CASE n = 2
    <3>1. Lowest[2] \in Nat /\ Highest[2] \in Nat
      BY <2>4
    <3>2. now[Parts[2]] \in Lowest[2] .. Highest[2]
      BY <2>1, <2>3, <2>4
    <3> QED
      BY <3>1, <3>2, <2>6
  <2>7. CASE n = 3
    <3>1. Lowest[3] \in Nat /\ Highest[3] \in Nat
      BY <2>4
    <3>2. now[Parts[3]] \in Lowest[3] .. Highest[3]
      BY <2>1, <2>3, <2>4
    <3> QED
      BY <3>1, <3>2, <2>7
  <2>8. CASE n = 4
    <3>1. Lowest[4] \in Nat /\ Highest[4] \in Nat
      BY <2>4
    <3>2. now[Parts[4]] \in Lowest[4] .. Highest[4]
      BY <2>1, <2>3, <2>4
    <3> QED
      BY <3>1, <3>2, <2>8
  <2>9. CASE n = 5
    <3>1. Lowest[5] \in Nat /\ Highest[5] \in Nat
      BY <2>4
    <3>2. now[Parts[5]] \in Lowest[5] .. Highest[5]
      BY <2>1, <2>3, <2>4
    <3> QED
      BY <3>1, <3>2, <2>9
  <2> QED
    BY <2>2, <2>5, <2>6, <2>7, <2>8, <2>9
<1>2. CASE Len(expression) = 5
  <2>1. ASSUME NEW n \in 1 .. 5
        PROVE  expression[n].entries \subseteq Entries
    <3>1. n \in 1 .. Len(expression)
      BY <1>2
    <3>2. expression[n] \in Fields
      BY <3>1, ElementOfSeq
    <3> QED
      BY <3>2 DEF Fields
  <2>2. \A n \in 1 .. 5 : \A e \in expression[n].entries : Spelled(e) =>
          (EntryMatches(e, now[Parts[n]], Lowest[n], Highest[n])
            <=> now[Parts[n]] \in Denotes(e, Lowest[n], Highest[n]))
    BY <1>1, <2>1, SpelledReads
  <2>3. Scheduled(expression, now) => expressionMatches(expression, now)
    BY <2>2 DEF expressionMatches, cronFieldMatches, Scheduled
  <2>4. expressionMatches(expression, now) => NotExcluded(expression, now)
    BY <2>2 DEF expressionMatches, cronFieldMatches, NotExcluded
  <2>5. (\A n \in 1 .. 5 : \A e \in expression[n].entries : Spelled(e))
          => (NotExcluded(expression, now) => Scheduled(expression, now))
    BY DEF NotExcluded, Scheduled
  <2> QED
    BY <1>2, <2>3, <2>4, <2>5
<1>3. CASE Len(expression) # 5
  BY <1>3 DEF expressionMatches, Scheduled, NotExcluded
<1> QED
  BY <1>2, <1>3

-----------------------------------------------------------------------------
(* No job is handled that was not due. *)

DueJobs == {j \in Jobs : \E m \in 0 .. minute : NotExcluded(CronOf[j], Clock[m])}

(* What waits in a queue and what it has dispatched. *)
UsesOnly(p, D) ==
  /\ p.pending \subseteq D
  /\ \A k \in 1 .. Len(p.flight) : p.flight[k].job \in D

(* Every scan has the time at which it began, which is not to come; what   *)
(* it is about to check, what waits or is dispatched and what has a row is *)
(* of a job that was due.                                                  *)
DueInv ==
  /\ \A i \in Instances : \A m \in Minutes :
       scan[i][m].at \in 0 .. minute /\ scan[i][m].todo \subseteq DueJobs
  /\ \A i \in Instances : UsesOnly(pool[i], DueJobs)
  /\ \A j \in Jobs : \A m \in Minutes : rows[j][m] > 0 => j \in DueJobs

LEMMA DrainUses ==
  ASSUME NEW p, FairPool(p), NEW D \in SUBSET Jobs, UsesOnly(p, D)
  PROVE  UsesOnly(Drain(p), D)
<1> DEFINE n == Startable(p)
           started == [m \in 1 .. n |-> [job |-> p.queue[m], created |-> FALSE]]
<1>1. /\ p.queue \in Seq(Jobs) /\ p.flight \in Seq(Dispatches) /\ Lists(p.queue, p.pending)
      /\ n \in 0 .. Len(p.queue) /\ n \in Nat
  BY StartableRange DEF FairPool, Pool
<1>2. \A m \in 1 .. n : p.queue[m] \in D
  <2> HIDE DEF n
  <2> SUFFICES ASSUME NEW m \in 1 .. n
               PROVE  p.queue[m] \in D
    OBVIOUS
  <2>1. m \in 1 .. Len(p.queue) /\ p.queue[m] \in Jobs
    BY <1>1
  <2> QED
    BY <1>1, <2>1 DEF Lists, UsesOnly
<1>3. Drain(p).pending \subseteq D /\ Drain(p).flight = p.flight \o started
  BY DEF Drain, UsesOnly
<1>4. started \in Seq(Dispatches) /\ Len(started) = n /\ \A m \in 1 .. n : started[m].job = p.queue[m]
  <2>1. started \in [1 .. n -> Dispatches] /\ \A m \in 1 .. n : started[m].job = p.queue[m]
    BY <1>1 DEF Dispatches
  <2> HIDE DEF started, n
  <2> QED
    BY <1>1, <2>1, SeqDef
<1> HIDE DEF started, n
<1>5. /\ Len(p.flight \o started) = Len(p.flight) + n /\ Len(p.flight) \in Nat
      /\ \A k \in 1 .. Len(p.flight) + n :
           (p.flight \o started)[k] = IF k <= Len(p.flight) THEN p.flight[k]
                                      ELSE started[k - Len(p.flight)]
  <2>1. /\ Len(p.flight \o started) = Len(p.flight) + Len(started)
        /\ \A k \in 1 .. Len(p.flight) + Len(started) :
             (p.flight \o started)[k] = IF k <= Len(p.flight) THEN p.flight[k]
                                        ELSE started[k - Len(p.flight)]
    BY <1>1, <1>4, ConcatProperties
  <2>2. Len(p.flight) \in Nat
    BY <1>1
  <2> QED
    BY <1>4, <2>1, <2>2
<1>6. ASSUME NEW k \in 1 .. Len(p.flight) + n
      PROVE  (p.flight \o started)[k].job \in D
  <2>1. CASE k <= Len(p.flight)
    BY <1>5, <2>1 DEF UsesOnly
  <2>2. CASE ~(k <= Len(p.flight))
    <3>1. k - Len(p.flight) \in 1 .. n
      BY <1>1, <1>5, <2>2
    <3> QED
      BY <1>2, <1>4, <1>5, <2>2, <3>1
  <2> QED
    BY <2>1, <2>2
<1> QED
  BY <1>3, <1>5, <1>6 DEF UsesOnly

LEMMA EnqueueUses ==
  ASSUME NEW p, GoodPool(p), NEW D \in SUBSET Jobs, UsesOnly(p, D), NEW j \in D
  PROVE  UsesOnly(Enqueue(p, j), D)
<1> DEFINE r == [p EXCEPT !.pending = p.pending \cup {j}, !.queue = Append(p.queue, j)]
<1>1. CASE j \in p.pending
  BY <1>1 DEF Enqueue
<1>2. CASE j \notin p.pending
  <2>1. FairPool(r)
    BY <1>2, EnqueuedFair
  <2>2. UsesOnly(r, D)
    <3>1. p \in Pool
      BY DEF GoodPool, FairPool
    <3>2. r.pending = p.pending \cup {j} /\ r.flight = p.flight
      BY <3>1 DEF Pool
    <3> HIDE DEF r
    <3> QED
      BY <3>2 DEF UsesOnly
  <2> QED
    BY <1>2, <2>1, <2>2, DrainUses DEF Enqueue
<1> QED
  BY <1>1, <1>2

LEMMA ReleaseUses ==
  ASSUME NEW p, GoodPool(p), NEW D \in SUBSET Jobs, UsesOnly(p, D), NEW k \in 1 .. Len(p.flight)
  PROVE  UsesOnly(Release(p, k), D)
<1> DEFINE r == [p EXCEPT !.running = @ - 1, !.flight = RemoveAt(@, k)]
           before == SubSeq(p.flight, 1, k - 1)
           after  == SubSeq(p.flight, k + 1, Len(p.flight))
<1>1. FairPool(r)
  BY ReleasedFair
<1>2. p \in Pool /\ p.flight \in Seq(Dispatches) /\ Len(p.flight) \in Nat
  BY DEF GoodPool, FairPool, Pool
<1>3. /\ before \in Seq(Dispatches) /\ Len(before) = k - 1
      /\ \A m \in 1 .. k - 1 : before[m] = p.flight[m]
  BY <1>2, SubSeqProperties
<1>4. /\ after \in Seq(Dispatches) /\ Len(after) = Len(p.flight) - k
      /\ \A m \in 1 .. Len(p.flight) - k : after[m] = p.flight[m + k]
  <2>1. /\ after \in Seq(Dispatches) /\ Len(after) = Len(p.flight) - k
        /\ \A m \in 1 .. Len(p.flight) - (k + 1) + 1 : after[m] = p.flight[(k + 1) + m - 1]
    BY <1>2, SubSeqProperties
  <2> HIDE DEF after
  <2> QED
    BY <1>2, <2>1
<1> HIDE DEF before, after
<1>5. /\ Len(before \o after) = Len(p.flight) - 1
      /\ \A m \in 1 .. Len(p.flight) - 1 :
           (before \o after)[m] = IF m <= k - 1 THEN before[m] ELSE after[m - (k - 1)]
  <2>1. /\ Len(before \o after) = Len(before) + Len(after)
        /\ \A m \in 1 .. Len(before) + Len(after) :
             (before \o after)[m] = IF m <= Len(before) THEN before[m] ELSE after[m - Len(before)]
    BY <1>3, <1>4, ConcatProperties
  <2>2. Len(before) + Len(after) = Len(p.flight) - 1
    BY <1>2, <1>3, <1>4
  <2> QED
    BY <1>3, <2>1, <2>2
<1>6. ASSUME NEW m \in 1 .. Len(p.flight) - 1
      PROVE  (before \o after)[m].job \in D
  <2>1. CASE m <= k - 1
    <3>1. m \in 1 .. k - 1 /\ m \in 1 .. Len(p.flight)
      BY <1>2, <2>1
    <3> QED
      BY <1>3, <1>5, <2>1, <3>1 DEF UsesOnly
  <2>2. CASE ~(m <= k - 1)
    <3>1. /\ m - (k - 1) \in 1 .. Len(p.flight) - k /\ m - (k - 1) + k = m + 1
          /\ m + 1 \in 1 .. Len(p.flight)
      BY <1>2, <2>2
    <3> QED
      BY <1>4, <1>5, <2>2, <3>1 DEF UsesOnly
  <2> QED
    BY <2>1, <2>2
<1>7. UsesOnly(r, D)
  <2>1. r.pending = p.pending /\ r.flight = RemoveAt(p.flight, k)
    BY <1>2 DEF Pool
  <2>2. RemoveAt(p.flight, k) = before \o after
    BY DEF RemoveAt, before, after
  <2> HIDE DEF r
  <2> QED
    BY <1>5, <1>6, <2>1, <2>2 DEF UsesOnly
<1> QED
  BY <1>1, <1>7, DrainUses DEF Release

LEMMA CreatedJob ==
  ASSUME NEW d \in Dispatches
  PROVE  [d EXCEPT !.created = TRUE].job = d.job
  BY DEF Dispatches

LEMMA CreateUses ==
  ASSUME NEW p, GoodPool(p), NEW D \in SUBSET Jobs, UsesOnly(p, D), NEW k \in 1 .. Len(p.flight)
  PROVE  UsesOnly([p EXCEPT !.flight[k].created = TRUE], D)
<1> DEFINE r == [p EXCEPT !.flight[k].created = TRUE]
<1>1. p \in Pool /\ p.flight \in Seq(Dispatches)
  BY DEF GoodPool, FairPool, Pool
<1>2. r.pending = p.pending /\ r.flight = [p.flight EXCEPT ![k] = [@ EXCEPT !.created = TRUE]]
  BY <1>1 DEF Pool
<1>3. [p.flight[k] EXCEPT !.created = TRUE].job = p.flight[k].job
  <2>1. p.flight[k] \in Dispatches
    BY <1>1
  <2> QED
    BY <2>1, CreatedJob
<1>4. /\ Len(r.flight) = Len(p.flight)
      /\ \A m \in 1 .. Len(p.flight) : r.flight[m].job = p.flight[m].job
  BY <1>1, <1>2, <1>3
<1> HIDE DEF r
<1> QED
  BY <1>2, <1>4 DEF UsesOnly, r

LEMMA UsesMore ==
  ASSUME NEW p, NEW D, NEW E, UsesOnly(p, D), D \subseteq E
  PROVE  UsesOnly(p, E)
  BY DEF UsesOnly

LEMMA EmptyUses ==
  ASSUME NEW D
  PROVE  UsesOnly(EmptyPool, D)
  BY DEF EmptyPool, UsesOnly

LEMMA InitDue == Init => DueInv
<1> SUFFICES ASSUME Init
             PROVE  DueInv
  OBVIOUS
<1>1. \A i \in Instances : \A m \in Minutes :
        scan[i][m].at \in 0 .. minute /\ scan[i][m].todo \subseteq DueJobs
  BY DEF Init, NoScan
<1>2. \A i \in Instances : UsesOnly(pool[i], DueJobs)
  BY EmptyUses DEF Init
<1>3. \A j \in Jobs : \A m \in Minutes : ~(rows[j][m] > 0)
  BY DEF Init
<1> QED
  BY <1>1, <1>2, <1>3 DEF DueInv

(* A scan that changes is one at a time, and so is a queue. *)
LEMMA OneScan ==
  ASSUME IInv, DueInv, NEW i \in Instances, NEW m \in Minutes, NEW s,
         scan' = [scan EXCEPT ![i][m] = s], minute' = minute,
         s.at \in 0 .. minute, s.todo \subseteq DueJobs
  PROVE  \A x \in Instances : \A y \in Minutes :
           scan'[x][y].at \in 0 .. minute' /\ scan'[x][y].todo \subseteq DueJobs'
<1>1. scan \in [Instances -> [Minutes -> Scan]] /\ DueJobs' = DueJobs
  BY DEF IInv, TypeOK, DueJobs
<1>2. \A x \in Instances : \A y \in Minutes :
        scan'[x][y] = IF x = i /\ y = m THEN s ELSE scan[x][y]
  BY <1>1
<1> QED
  BY <1>1, <1>2 DEF DueInv

LEMMA OnePool ==
  ASSUME IInv, DueInv, NEW i \in Instances, NEW p, UsesOnly(p, DueJobs), minute' = minute,
         pool' = [pool EXCEPT ![i] = p]
  PROVE  \A x \in Instances : UsesOnly(pool'[x], DueJobs')
<1>1. pool \in [Instances -> Pool] /\ DueJobs' = DueJobs
  BY DEF IInv, TypeOK, DueJobs
<1>2. \A x \in Instances : pool'[x] = IF x = i THEN p ELSE pool[x]
  BY <1>1
<1> QED
  BY <1>1, <1>2 DEF DueInv

LEMMA NextDue == IInv /\ DueInv /\ [Next]_vars => DueInv'
<1> SUFFICES ASSUME IInv, DueInv, [Next]_vars PROVE DueInv'
  OBVIOUS
<1> DEFINE ScansDue == \A x \in Instances : \A y \in Minutes :
             scan[x][y].at \in 0 .. minute /\ scan[x][y].todo \subseteq DueJobs
           PoolsDue == \A x \in Instances : UsesOnly(pool[x], DueJobs)
           RowsDue  == \A j \in Jobs : \A m \in Minutes : rows[j][m] > 0 => j \in DueJobs
<1>1. /\ minute \in Minutes /\ minute \in Nat /\ rows \in [Jobs -> [Minutes -> Nat]]
      /\ scan \in [Instances -> [Minutes -> Scan]]
      /\ pool \in [Instances -> Pool] /\ \A x \in Instances : GoodPool(pool[x])
  BY BoundsAssumption DEF IInv, TypeOK, Minutes
<1>2. ScansDue /\ PoolsDue /\ RowsDue /\ DueJobs \subseteq Jobs
  BY DEF DueInv, DueJobs
<1>3. minute' = minute => /\ DueJobs' = DueJobs
                          /\ scan' = scan => ScansDue'
                          /\ pool' = pool => PoolsDue'
                          /\ rows' = rows => RowsDue'
  BY <1>2 DEF DueJobs
<1>4. ScansDue' /\ PoolsDue' /\ RowsDue' => DueInv'
  BY DEF DueInv
<1>5. NoScan.at = 0 /\ NoScan.todo = {} /\ 0 \in 0 .. minute
  BY <1>1 DEF NoScan
<1> HIDE DEF ScansDue, PoolsDue, RowsDue
<1>6. CASE UNCHANGED vars
  BY <1>3, <1>4, <1>6 DEF vars
<1>7. CASE NextMinute
  <2>1. minute' = minute + 1 /\ UNCHANGED <<rows, scan, pool>>
    BY <1>7 DEF NextMinute
  <2>2. 0 .. minute \subseteq 0 .. minute'
    BY <1>1, <2>1
  <2>3. DueJobs \subseteq DueJobs'
    BY <2>2 DEF DueJobs
  <2>4. ScansDue' /\ RowsDue'
    BY <1>2, <2>1, <2>2, <2>3 DEF ScansDue, RowsDue
  <2>5. PoolsDue'
    BY <1>2, <2>1, <2>3, UsesMore DEF PoolsDue
  <2> QED
    BY <1>4, <2>4, <2>5
<1>8. ASSUME NEW i \in Instances, Tick(i) PROVE DueInv'
  <2>1. /\ UNCHANGED <<minute, rows, pool>>
        /\ scan' = [scan EXCEPT ![i][minute] = [scan[i][minute] EXCEPT !.pc = "wait"]]
    BY <1>8 DEF Tick
  <2>2. /\ [scan[i][minute] EXCEPT !.pc = "wait"].at = scan[i][minute].at
        /\ [scan[i][minute] EXCEPT !.pc = "wait"].todo = scan[i][minute].todo
    BY <1>1 DEF Scan
  <2>3. ScansDue'
    BY <1>1, <1>2, <2>1, <2>2, OneScan DEF ScansDue
  <2> QED
    BY <1>3, <1>4, <2>1, <2>3
<1>9. ASSUME NEW i \in Instances, Restart(i) PROVE DueInv'
  <2>1. /\ UNCHANGED <<minute, rows>> /\ pool' = [pool EXCEPT ![i] = EmptyPool]
        /\ scan' = [scan EXCEPT ![i] = [m \in Minutes |-> NoScan]]
    BY <1>9 DEF Restart
  <2>2. PoolsDue'
    BY <2>1, OnePool, EmptyUses DEF PoolsDue
  <2>3. \A x \in Instances : \A y \in Minutes :
          scan'[x][y] = IF x = i THEN NoScan ELSE scan[x][y]
    BY <1>1, <2>1
  <2>4. ScansDue'
    BY <1>2, <1>3, <1>5, <2>1, <2>3 DEF ScansDue
  <2> QED
    BY <1>3, <1>4, <2>1, <2>2, <2>4
<1>10. ASSUME NEW i \in Instances, NEW m \in Minutes, ScanStart(i, m) PROVE DueInv'
  <2>1. /\ UNCHANGED <<minute, rows, pool>>
        /\ \/ scan' = [scan EXCEPT ![i][m] = [pc |-> "read", at |-> minute, todo |-> {}]]
           \/ scan' = [scan EXCEPT ![i][m] = NoScan]
    BY <1>10 DEF ScanStart
  <2>2. ScansDue'
    <3>1. CASE scan' = [scan EXCEPT ![i][m] = [pc |-> "read", at |-> minute, todo |-> {}]]
      <4> DEFINE s == [pc |-> "read", at |-> minute, todo |-> {}]
      <4>1. s.at \in 0 .. minute /\ s.todo = {}
        BY <1>1
      <4> HIDE DEF s
      <4>2. scan' = [scan EXCEPT ![i][m] = s]
        BY <3>1 DEF s
      <4> QED
        BY <2>1, <4>1, <4>2, OneScan DEF ScansDue
    <3>2. CASE scan' = [scan EXCEPT ![i][m] = NoScan]
      BY <1>5, <2>1, <3>2, OneScan DEF ScansDue
    <3> QED
      BY <2>1, <3>1, <3>2
  <2> QED
    BY <1>3, <1>4, <2>1, <2>2
<1>11. ASSUME NEW i \in Instances, NEW m \in Minutes, ScanRead(i, m) PROVE DueInv'
  <2>1. /\ UNCHANGED <<minute, rows, pool>>
        /\ \E due \in SUBSET {j \in Jobs : isCronDue(j, scan[i][m].at)} :
             scan' = [scan EXCEPT ![i][m] = IF due = {} THEN NoScan
                        ELSE [scan[i][m] EXCEPT !.pc = "check", !.todo = due]]
    BY <1>1, <1>11 DEF ScanRead
  <2>2. PICK due \in SUBSET {j \in Jobs : isCronDue(j, scan[i][m].at)} :
          scan' = [scan EXCEPT ![i][m] = IF due = {} THEN NoScan
                     ELSE [scan[i][m] EXCEPT !.pc = "check", !.todo = due]]
    BY <2>1
  <2>3. scan[i][m] \in Scan /\ scan[i][m].at \in 0 .. minute /\ scan[i][m].at \in Minutes
    BY <1>1, <1>2 DEF ScansDue, Scan
  <2>4. due \subseteq DueJobs
    <3> SUFFICES ASSUME NEW j \in due
                 PROVE  j \in DueJobs
      OBVIOUS
    <3>1. j \in Jobs /\ expressionMatches(CronOf[j], Clock[scan[i][m].at])
      BY DEF isCronDue
    <3>2. NotExcluded(CronOf[j], Clock[scan[i][m].at])
      BY <2>3, <3>1, ParserReadsSyntax, ScheduleAssumption
    <3> QED
      BY <2>3, <3>1, <3>2 DEF DueJobs
  <2>5. PICK s : /\ scan' = [scan EXCEPT ![i][m] = s]
                 /\ s.at \in 0 .. minute /\ s.todo \subseteq DueJobs
    <3>1. CASE due = {}
      BY <1>5, <2>2, <3>1
    <3>2. CASE due # {}
      <4> DEFINE s == [scan[i][m] EXCEPT !.pc = "check", !.todo = due]
      <4>1. s.at = scan[i][m].at /\ s.todo = due
        BY <2>3 DEF Scan
      <4>2. scan' = [scan EXCEPT ![i][m] = s]
        BY <2>2, <3>2
      <4> HIDE DEF s
      <4> QED
        BY <2>3, <2>4, <4>1, <4>2
    <3> QED
      BY <3>1, <3>2
  <2>6. ScansDue'
    BY <2>1, <2>5, OneScan DEF ScansDue
  <2> QED
    BY <1>3, <1>4, <2>1, <2>6
<1>12. ASSUME NEW i \in Instances, NEW m \in Minutes, ScanCheck(i, m) PROVE DueInv'
  <2>1. UNCHANGED <<minute, rows>>
    BY <1>12 DEF ScanCheck
  <2>2. CASE scan' = [scan EXCEPT ![i][m] = NoScan] /\ UNCHANGED pool
    <3>1. ScansDue'
      BY <1>5, <2>1, <2>2, OneScan DEF ScansDue
    <3> QED
      BY <1>3, <1>4, <2>1, <2>2, <3>1
  <2>3. ASSUME NEW j \in scan[i][m].todo,
               scan' = [scan EXCEPT ![i][m] = Checked(@, j)],
               pool' = IF rows[j][scan[i][m].at] > 0 THEN pool
                       ELSE [pool EXCEPT ![i] = Enqueue(@, j)]
        PROVE  DueInv'
    <3>1. /\ scan[i][m] \in Scan /\ scan[i][m].at \in 0 .. minute
          /\ scan[i][m].todo \subseteq DueJobs /\ j \in DueJobs
      BY <1>1, <1>2 DEF ScansDue
    <3>2. Checked(scan[i][m], j).at \in 0 .. minute /\ Checked(scan[i][m], j).todo \subseteq DueJobs
      BY <1>5, <3>1 DEF Checked, Scan
    <3>3. scan' = [scan EXCEPT ![i][m] = Checked(scan[i][m], j)]
      BY <1>1, <2>3
    <3>4. ScansDue'
      BY <2>1, <3>2, <3>3, OneScan DEF ScansDue
    <3>5. UsesOnly(Enqueue(pool[i], j), DueJobs)
      BY <1>1, <1>2, <3>1, EnqueueUses DEF PoolsDue
    <3>6. pool' = pool \/ pool' = [pool EXCEPT ![i] = Enqueue(pool[i], j)]
      BY <2>3
    <3>7. PoolsDue'
      BY <1>3, <2>1, <3>5, <3>6, OnePool DEF PoolsDue
    <3> QED
      BY <1>3, <1>4, <2>1, <3>4, <3>7
  <2> QED
    BY <1>12, <2>2, <2>3 DEF ScanCheck
<1>13. ASSUME NEW i \in Instances, NEW k \in 1 .. Len(pool[i].flight), DispatchCreate(i, k)
       PROVE  DueInv'
  <2> DEFINE r == [pool[i] EXCEPT !.flight[k].created = TRUE]
             j == pool[i].flight[k].job
  <2>1. /\ UNCHANGED <<minute, scan>> /\ pool' = [pool EXCEPT ![i] = r]
        /\ rows' = [rows EXCEPT ![j][minute] = @ + 1]
    BY <1>1, <1>13 DEF DispatchCreate
  <2>2. UsesOnly(r, DueJobs) /\ j \in DueJobs
    BY <1>1, <1>2, CreateUses DEF PoolsDue, UsesOnly
  <2> HIDE DEF r, j
  <2>3. PoolsDue'
    BY <2>1, <2>2, OnePool DEF PoolsDue
  <2>4. RowsDue'
    <3>1. \A x \in Jobs : x # j => rows'[x] = rows[x]
      BY <1>1, <2>1
    <3> QED
      BY <1>2, <1>3, <2>1, <2>2, <3>1 DEF RowsDue
  <2> QED
    BY <1>3, <1>4, <2>1, <2>3, <2>4
<1>14. ASSUME NEW i \in Instances, NEW k \in 1 .. Len(pool[i].flight), DispatchEnd(i, k)
       PROVE  DueInv'
  <2>1. UNCHANGED <<minute, scan, rows>> /\ pool' = [pool EXCEPT ![i] = Release(pool[i], k)]
    BY <1>1, <1>14 DEF DispatchEnd
  <2>2. UsesOnly(Release(pool[i], k), DueJobs)
    BY <1>1, <1>2, ReleaseUses DEF PoolsDue
  <2>3. PoolsDue'
    BY <2>1, <2>2, OnePool DEF PoolsDue
  <2> QED
    BY <1>3, <1>4, <2>1, <2>3
<1> QED
  BY <1>6, <1>7, <1>8, <1>9, <1>10, <1>11, <1>12, <1>13, <1>14 DEF Next, InstanceStep

(* However late a tick runs and however ticks, restarts and dispatches     *)
(* interleave, no job is checked, queued, dispatched or started that its   *)
(* expression did not name at some minute so far.                          *)
THEOREM StartedWasDue == Spec => []OnlyWhenDue
<1>1. DueInv => OnlyWhenDue
  <2> SUFFICES ASSUME DueInv, NEW j \in Jobs, Started(j)
               PROVE  \E m \in 0 .. minute : NotExcluded(CronOf[j], Clock[m])
    BY DEF OnlyWhenDue
  <2>1. j \in DueJobs
    BY DEF DueInv, Started, UsesOnly
  <2> QED
    BY <2>1 DEF DueJobs
<1>2. Init => IInv /\ DueInv
  BY InitIInv, InitDue
<1>3. IInv /\ DueInv /\ [Next]_vars => IInv' /\ DueInv'
  BY NextIInv, NextDue
<1> QED
  BY <1>1, <1>2, <1>3, PTL DEF Spec
=============================================================================
