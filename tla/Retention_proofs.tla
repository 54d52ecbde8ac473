--------------------------- MODULE Retention_proofs ---------------------------
(***************************************************************************)
(* For any number of backups, policies, faults and days a row of the       *)
(* Backup table never outlives its object.  The invariant needs that the   *)
(* row a pruner is past deleting is, and stays, deleted: nothing in the    *)
(* system brings a deleted row back.  And the newest rows of the job are   *)
(* never deleted by the count rule, which is the second part.              *)
(***************************************************************************)
EXTENDS Retention, FiniteSetTheorems, TLAPS

VictimsDeleted ==
  \A p \in Pruners : prune[p].pc = "remove" =>
    prune[p].row \in Ids /\ status[prune[p].row] = "deleted"

KeysHaveRows == \A b \in keys : status[b] # "absent"

IInv == TypeOK /\ RowHasObject /\ VictimsDeleted /\ KeysHaveRows

-----------------------------------------------------------------------------
(* Types. *)

LEMMA Parts ==
  /\ Ids \subseteq Pruners /\ 0 \in Pruners /\ 0 \in 0 .. MaxBackups
  /\ 0 \in 0 .. MaxTime /\ 0 \in 0 .. MaxFaults
  /\ NoPrune \in Prune /\ Reading \in Prune
  /\ NoPrune.pc # "remove" /\ Reading.pc # "remove"
BY BoundsAssumption DEF Ids, Pruners, NoPrune, Reading, Prune

LEMMA SelectionsType ==
  OverCount \subseteq Ids /\ OverAge \subseteq Ids /\ PolicySelects \subseteq Ids
<1>1. \A n, ids : ids \subseteq Ids => Beyond(n, ids) \subseteq Ids
  BY DEF Beyond
<1>2. \A n : OlderThan(n) \subseteq Ids
  BY DEF OlderThan
<1>3. OverCount \subseteq Ids
  BY <1>1 DEF OverCount, Completed
<1>4. OverAge \subseteq Ids
  BY <1>2 DEF OverAge
<1>5. PolicySelects \subseteq Ids
  <2> DEFINE rows == {b \in Ids : Exists(b)}
             part(p) == (IF p.keep \in {Null, 0} THEN {} ELSE Beyond(p.keep, rows))
                          \cup (IF p.age \in {Null, 0} THEN {} ELSE OlderThan(p.age))
  <2>1. \A p \in policies : part(p) \subseteq Ids
    BY <1>1, <1>2
  <2>2. PolicySelects = UNION {part(p) : p \in policies}
    BY DEF PolicySelects
  <2>3. QED
    BY <2>1, <2>2
<1>6. QED
  BY <1>3, <1>4, <1>5

(* Continue changes only pruner p, which is then off or about to delete. *)
LEMMA ContinueType ==
  ASSUME TypeOK, NEW p \in Pruners, NEW todo \in SUBSET Ids, NEW keyed \in SUBSET Ids,
         Continue(p, todo, keyed)
  PROVE  /\ prune' \in [Pruners -> Prune] /\ retentionRunning' \in BOOLEAN
         /\ \A q \in Pruners : prune'[q].pc = "remove" => prune'[q] = prune[q]
<1>1. [pc |-> "delete", todo |-> todo, keyed |-> keyed \cap todo, row |-> 0] \in Prune
  BY Parts DEF Prune
<1>2. QED
  BY <1>1, Parts DEF Continue, TypeOK

LEMMA NextType == ASSUME TypeOK, [Next]_vars PROVE TypeOK'
<1> USE DEF TypeOK
<1>1. CASE UNCHANGED vars
  BY <1>1 DEF vars
<1>2. CASE Create
  BY <1>2 DEF Create, Status
<1>3. CASE HourlyStart
  BY <1>3, Parts DEF HourlyStart
<1>4. CASE Crash
  <2>1. faults' \in 0 .. MaxFaults
    BY <1>4, BoundsAssumption DEF Crash
  <2>2. prune' \in [Pruners -> Prune] /\ policyRun' \in [Ids -> SUBSET Ids]
    BY <1>4, Parts DEF Crash
  <2>3. QED
    BY <1>4, <2>1, <2>2 DEF Crash
<1>5. CASE NextDay
  BY <1>5, BoundsAssumption DEF NextDay
<1>6. ASSUME NEW b \in Ids, Complete(b) PROVE TypeOK'
  BY <1>6, Parts DEF Complete, Status
<1>7. ASSUME NEW b \in Ids, Report(b) PROVE TypeOK'
  BY <1>7, SelectionsType DEF Report, Status
<1>8. ASSUME NEW b \in Ids, Fail(b) PROVE TypeOK'
  BY <1>8, BoundsAssumption DEF Fail, Status
<1>9. ASSUME NEW b \in Ids, PolicyDelete(b) PROVE TypeOK'
  BY <1>9, BoundsAssumption DEF PolicyDelete, Status
<1>10. ASSUME NEW p \in Pruners, PruneStep(p) PROVE TypeOK'
  <2>1. prune[p].todo \in SUBSET Ids /\ prune[p].keyed \in SUBSET Ids
    BY DEF Prune
  <2>2. CASE PruneCount(p)
    <3>1. [pc |-> "age", todo |-> OverCount, keyed |-> OverCount, row |-> 0] \in Prune
      BY SelectionsType, Parts DEF Prune
    <3>2. QED
      BY <2>2, <3>1 DEF PruneCount
  <2>3. CASE PruneAge(p)
    <3>1. /\ prune[p].todo \cup OverAge \in SUBSET Ids
          /\ prune[p].keyed \cup (OverAge \cap keys) \in SUBSET Ids
      BY <2>1, SelectionsType
    <3>2. Continue(p, prune[p].todo \cup OverAge, prune[p].keyed \cup (OverAge \cap keys))
      BY <2>3 DEF PruneAge
    <3>3. prune' \in [Pruners -> Prune] /\ retentionRunning' \in BOOLEAN
      BY <3>1, <3>2, ContinueType
    <3>4. QED
      BY <2>3, <3>3 DEF PruneAge
  <2>4. CASE PruneRemove(p)
    <3>1. prune' \in [Pruners -> Prune] /\ retentionRunning' \in BOOLEAN
      BY <2>1, <2>4, ContinueType DEF PruneRemove
    <3>2. QED
      BY <2>4, <3>1 DEF PruneRemove
  <2>5. ASSUME NEW b \in Ids, PruneDelete(p, b) PROVE TypeOK'
    <3>1. status' \in [Ids -> Status] /\ faults' \in 0 .. MaxFaults
      BY <2>5, BoundsAssumption DEF PruneDelete, Status
    <3>2. [prune[p] EXCEPT !.pc = "remove", !.todo = @ \ {b}, !.row = b] \in Prune
      <4>1. prune[p] \in Prune /\ prune[p].todo \ {b} \in SUBSET Ids /\ b \in 0 .. MaxBackups
        BY <2>1, BoundsAssumption DEF Ids
      <4>2. \A r \in Prune : \A t \in SUBSET Ids : \A o \in 0 .. MaxBackups :
              [r EXCEPT !.pc = "remove", !.todo = t, !.row = o] \in Prune
        BY DEF Prune
      <4>3. QED
        BY <4>1, <4>2
    <3>3. prune' \in [Pruners -> Prune] /\ retentionRunning' \in BOOLEAN
      <4>1. CASE Continue(p, prune[p].todo \ {b}, prune[p].keyed)
        <5>1. prune[p].todo \ {b} \in SUBSET Ids
          BY <2>1
        <5>2. QED
          BY <2>1, <4>1, <5>1, ContinueType
      <4>2. CASE prune' = [prune EXCEPT ![p] = [prune[p] EXCEPT !.pc = "remove", !.todo = @ \ {b},
                                                                !.row = b]]
                 /\ UNCHANGED retentionRunning
        BY <3>2, <4>2
      <4>3. QED
        BY <2>5, <4>1, <4>2 DEF PruneDelete
    <3>4. QED
      BY <2>5, <3>1, <3>3 DEF PruneDelete
  <2>6. QED
    BY <1>10, <2>2, <2>3, <2>4, <2>5 DEF PruneStep
<1>11. QED
  BY <1>1, <1>2, <1>3, <1>4, <1>5, <1>6, <1>7, <1>8, <1>9, <1>10 DEF Next

-----------------------------------------------------------------------------
(* The object outlives the row. *)

LEMMA InitIInv == Init => IInv
<1> SUFFICES ASSUME Init PROVE IInv
  OBVIOUS
<1>1. TypeOK
  BY Parts DEF Init, TypeOK, Status
<1>2. RowHasObject /\ VictimsDeleted /\ KeysHaveRows
  BY Parts DEF Init, RowHasObject, VictimsDeleted, KeysHaveRows
<1>3. QED
  BY <1>1, <1>2 DEF IInv

(* How a row's status may move while keys and objects stay as they are. *)
StatusMoves == \A b \in Ids :
  \/ status'[b] = status[b]
  \/ Exists(b) /\ status'[b] # "absent"
  \/ status[b] = "absent" /\ status'[b] # "absent"

LEMMA KeptByMoves ==
  ASSUME IInv, StatusMoves, UNCHANGED <<keys, blobs>>,
         \A p \in Pruners : prune'[p].pc = "remove" =>
           \/ prune'[p] = prune[p]
           \/ prune'[p].row \in Ids /\ status'[prune'[p].row] = "deleted"
  PROVE  (RowHasObject /\ VictimsDeleted /\ KeysHaveRows)'
<1>1. keys \subseteq Ids
  BY DEF IInv, TypeOK
<1>2. RowHasObject' /\ KeysHaveRows'
  BY <1>1 DEF IInv, StatusMoves, RowHasObject, KeysHaveRows, Exists
<1>3. VictimsDeleted'
  BY DEF IInv, StatusMoves, VictimsDeleted, Exists
<1>4. QED
  BY <1>2, <1>3

LEMMA NextIInv == ASSUME IInv, [Next]_vars PROVE IInv'
<1>1. TypeOK /\ TypeOK'
  BY NextType DEF IInv
<1>2. status \in [Ids -> Status] /\ prune \in [Pruners -> Prune] /\ keys \subseteq Ids
  BY <1>1 DEF TypeOK
<1>3. SUFFICES (RowHasObject /\ VictimsDeleted /\ KeysHaveRows)'
  BY <1>1 DEF IInv
<1>4. CASE UNCHANGED vars
  BY <1>4, KeptByMoves DEF vars, StatusMoves
<1>5. CASE Create
  <2>1. StatusMoves
    BY <1>2, <1>5 DEF Create, StatusMoves, Status
  <2>2. QED
    BY <1>5, <2>1, KeptByMoves DEF Create
<1>6. CASE HourlyStart
  BY <1>2, <1>6, Parts, KeptByMoves DEF HourlyStart, StatusMoves
<1>7. CASE Crash
  BY <1>2, <1>7, Parts, KeptByMoves DEF Crash, StatusMoves
<1>8. CASE NextDay
  BY <1>8, KeptByMoves DEF NextDay, StatusMoves
<1>9. ASSUME NEW b \in Ids, Complete(b) PROVE (RowHasObject /\ VictimsDeleted /\ KeysHaveRows)'
  <2>1. /\ keys' = keys \cup {b} /\ blobs' = blobs \cup {b}
        /\ status' = [status EXCEPT ![b] = "COMPLETED"] /\ Exists(b)
        /\ prune' = [prune EXCEPT ![b] = Reading]
    BY <1>9 DEF Complete
  <2>2. RowHasObject' /\ KeysHaveRows'
    BY <1>2, <2>1 DEF IInv, RowHasObject, KeysHaveRows, Exists
  <2>3. VictimsDeleted'
    BY <1>2, <2>1, Parts DEF IInv, VictimsDeleted, Exists
  <2>4. QED
    BY <2>2, <2>3
<1>10. ASSUME NEW b \in Ids, Report(b) PROVE (RowHasObject /\ VictimsDeleted /\ KeysHaveRows)'
  BY <1>2, <1>10, KeptByMoves DEF Report, StatusMoves
<1>11. ASSUME NEW b \in Ids, Fail(b) PROVE (RowHasObject /\ VictimsDeleted /\ KeysHaveRows)'
  <2>1. StatusMoves
    BY <1>2, <1>11 DEF Fail, StatusMoves, Exists
  <2>2. QED
    BY <1>11, <2>1, KeptByMoves DEF Fail
<1>12. ASSUME NEW b \in Ids, PolicyDelete(b)
       PROVE  (RowHasObject /\ VictimsDeleted /\ KeysHaveRows)'
  <2>1. StatusMoves
    BY <1>2, <1>12 DEF PolicyDelete, StatusMoves
  <2>2. QED
    BY <1>12, <2>1, KeptByMoves DEF PolicyDelete
<1>13. ASSUME NEW p \in Pruners, PruneStep(p)
       PROVE  (RowHasObject /\ VictimsDeleted /\ KeysHaveRows)'
  <2>1. prune[p].todo \in SUBSET Ids /\ prune[p].keyed \in SUBSET Ids
    BY <1>2 DEF Prune
  <2>2. CASE PruneCount(p)
    BY <1>2, <2>2, KeptByMoves DEF PruneCount, StatusMoves
  <2>3. CASE PruneAge(p)
    <3>1. /\ prune[p].todo \cup OverAge \in SUBSET Ids
          /\ prune[p].keyed \cup (OverAge \cap keys) \in SUBSET Ids
      BY <2>1, SelectionsType
    <3>2. Continue(p, prune[p].todo \cup OverAge, prune[p].keyed \cup (OverAge \cap keys))
      BY <2>3 DEF PruneAge
    <3>3. \A q \in Pruners : prune'[q].pc = "remove" => prune'[q] = prune[q]
      BY <1>1, <3>1, <3>2, ContinueType
    <3>4. QED
      BY <2>3, <3>3, KeptByMoves DEF PruneAge, StatusMoves
  <2>4. CASE PruneRemove(p)
    <3>1. \A q \in Pruners : prune'[q].pc = "remove" => prune'[q] = prune[q]
      BY <1>1, <2>1, <2>4, ContinueType DEF PruneRemove
    <3>2. /\ UNCHANGED <<keys, status>> /\ blobs' \in {blobs, blobs \ {prune[p].row}}
          /\ status[prune[p].row] = "deleted"
      BY <2>4 DEF PruneRemove, IInv, VictimsDeleted
    <3>3. RowHasObject' /\ KeysHaveRows'
      BY <3>2 DEF IInv, RowHasObject, KeysHaveRows, Exists
    <3>4. VictimsDeleted'
      BY <3>1, <3>2 DEF IInv, VictimsDeleted
    <3>5. QED
      BY <3>3, <3>4
  <2>5. ASSUME NEW b \in Ids, PruneDelete(p, b)
        PROVE  (RowHasObject /\ VictimsDeleted /\ KeysHaveRows)'
    <3>1. StatusMoves
      BY <1>2, <2>5 DEF PruneDelete, StatusMoves
    <3>2. CASE Continue(p, prune[p].todo \ {b}, prune[p].keyed)
      <4>1. prune[p].todo \ {b} \in SUBSET Ids
        BY <2>1
      <4>2. \A q \in Pruners : prune'[q].pc = "remove" => prune'[q] = prune[q]
        BY <1>1, <2>1, <3>2, <4>1, ContinueType
      <4>3. QED
        BY <2>5, <3>1, <4>2, KeptByMoves DEF PruneDelete
    <3>3. CASE /\ status' = [status EXCEPT ![b] = "deleted"]
               /\ prune' = [prune EXCEPT ![p].pc = "remove", ![p].todo = @ \ {b}, ![p].row = b]
      <4>1. status'[b] = "deleted"
        BY <1>2, <3>3
      <4>2. prune'[p].row = b /\ \A q \in Pruners \ {p} : prune'[q] = prune[q]
        BY <1>2, <3>3 DEF Prune
      <4>3. QED
        BY <2>5, <3>1, <4>1, <4>2, KeptByMoves DEF PruneDelete
    <3>4. QED
      BY <2>5, <3>2, <3>3 DEF PruneDelete
  <2>6. QED
    BY <1>13, <2>2, <2>3, <2>4, <2>5 DEF PruneStep
<1>14. QED
  BY <1>4, <1>5, <1>6, <1>7, <1>8, <1>9, <1>10, <1>11, <1>12, <1>13 DEF Next

(* "DB row is deleted first, then the storage object": with any number of  *)
(* pruners at work a row with a key always has its object.                 *)
THEOREM RowsOutlivedByObjects == Spec => []RowHasObject
<1>1. IInv => RowHasObject
  BY DEF IInv
<1>2. QED
  BY InitIInv, NextIInv, <1>1, PTL DEF Spec

(* Every variable keeps to its declared range: statuses are the enum's,     *)
(* and the pruners work on rows of the job alone.                           *)
THEOREM TypeCorrect == Spec => []TypeOK
<1>1. IInv => TypeOK
  BY DEF IInv
<1>2. QED
  BY InitIInv, NextIInv, <1>1, PTL DEF Spec

-----------------------------------------------------------------------------
(* The newest survive.  A row is marked for deletion when a rule selects   *)
(* it; what keeps it justified until it goes is that whoever takes away    *)
(* one of its newer rows was justified as well: by age, and then the older *)
(* row is too old as well, or by still newer rows, which stay.             *)

AgedOut(b)   == MaxAgeDays # Null /\ b \in OlderThan(MaxAgeDays)
Survivors(b) == {o \in Ids : o > b /\ Exists(o)}
OutNumbered(b) == KeepLastN # Null /\ Cardinality(Survivors(b)) >= KeepLastN
MayGo(b)     == AgedOut(b) \/ OutNumbered(b)

(* b is on some run's list. *)
Marked(b) == (\E p \in Pruners : b \in prune[p].todo) \/ (\E r \in Ids : b \in policyRun[r])

MarkedMayGo == \A b \in Ids : Marked(b) => status[b] # "absent" /\ (Exists(b) => MayGo(b))

(* Rows are numbered as they were started. *)
InOrder == \A b \in Ids : status[b] # "absent" =>
             /\ started[b] <= now
             /\ \A o \in Ids : o < b => status[o] # "absent" /\ started[o] <= started[b]

Justified == IInv /\ InOrder /\ MarkedMayGo

(* A set of numbers has a least element: the initial segments below its    *)
(* members have one under inclusion.                                       *)
LEMMA LeastExists ==
  ASSUME NEW S \in SUBSET Nat, S # {}
  PROVE  \E x \in S : \A y \in S : x <= y
<1> DEFINE T == {0 .. x : x \in S}
<1>1. T \subseteq FiniteSubsetsOf(Nat) /\ T # {}
  <2>1. \A x \in S : IsFiniteSet(0 .. x) /\ 0 .. x \subseteq Nat
    BY FS_Interval
  <2>2. QED
    BY <2>1 DEF FiniteSubsetsOf
<1>2. PICK t \in T : \A u \in T : ~ (<<u, t>> \in StrictSubsetOrdering(Nat))
  BY <1>1, FS_StrictSubsetOrderingWellFounded, WFMin
<1>3. PICK x \in S : t = 0 .. x
  OBVIOUS
<1>4. ASSUME NEW y \in S, y < x PROVE FALSE
  <2>1. 0 .. y \in T /\ 0 .. y \subseteq 0 .. x /\ 0 .. y # 0 .. x
    BY <1>4
  <2>2. 0 .. y \in SUBSET Nat /\ 0 .. x \in SUBSET Nat
    OBVIOUS
  <2>3. <<0 .. y, t>> \in StrictSubsetOrdering(Nat)
    BY <1>3, <2>1, <2>2 DEF StrictSubsetOrdering
  <2>4. QED
    BY <1>2, <2>1, <2>3
<1>5. QED
  BY <1>4

LEMMA GreatestId ==
  ASSUME NEW S \in SUBSET Ids, S # {}
  PROVE  \E x \in S : \A y \in S : y <= x
<1> DEFINE T == {MaxBackups - x : x \in S}
<1>1. T \in SUBSET Nat /\ T # {}
  <2>1. \A x \in S : x \in Nat /\ x <= MaxBackups
    BY BoundsAssumption DEF Ids
  <2>2. \A x \in S : MaxBackups - x \in Nat
    BY <2>1, BoundsAssumption
  <2>3. QED
    BY <2>2
<1>2. PICK t \in T : \A u \in T : t <= u
  BY <1>1, LeastExists
<1>3. PICK x \in S : t = MaxBackups - x
  OBVIOUS
<1>4. \A y \in S : MaxBackups - x <= MaxBackups - y
  BY <1>2, <1>3
<1>5. QED
  BY <1>4, BoundsAssumption DEF Ids

LEMMA StrictestIsLeast ==
  ASSUME NEW values \in SUBSET (Nat \cup {Null}), Strictest(values) # Null
  PROVE  Strictest(values) \in Nat /\ \A v \in values : v = Null \/ Strictest(values) <= v
<1> DEFINE S == values \ {Null}
<1>1. ~ (values \subseteq {Null})
  BY DEF Strictest
<1>2. S \in SUBSET Nat /\ S # {} /\ Strictest(values) = Min(S)
  BY <1>1 DEF Strictest
<1>3. PICK x \in S : \A y \in S : x <= y
  BY <1>2, LeastExists
<1>4. Min(S) \in S /\ \A y \in S : Min(S) <= y
  BY <1>3 DEF Min
<1>5. QED
  BY <1>2, <1>4

LEMMA RulesAreStrictest ==
  ASSUME TypeOK
  PROVE  /\ KeepLastN # Null => KeepLastN \in Nat
         /\ MaxAgeDays # Null => MaxAgeDays \in Nat
         /\ \A p \in policies :
              /\ p.keep # Null => p.keep \in Nat /\ KeepLastN # Null /\ KeepLastN <= p.keep
              /\ p.age # Null => p.age \in Nat /\ MaxAgeDays # Null /\ MaxAgeDays <= p.age
<1> DEFINE keeps == {p.keep : p \in policies}
           ages  == {p.age : p \in policies}
<1>1. policies \subseteq [keep : Nat \cup {Null}, age : Nat \cup {Null}]
  BY BoundsAssumption DEF TypeOK
<1>2. keeps \in SUBSET (Nat \cup {Null}) /\ ages \in SUBSET (Nat \cup {Null})
  BY <1>1
<1>3. KeepLastN = Strictest(keeps) /\ MaxAgeDays = Strictest(ages)
  BY DEF KeepLastN, MaxAgeDays
<1>4. ASSUME NEW values \in SUBSET (Nat \cup {Null}), NEW v \in values, v # Null
      PROVE  Strictest(values) # Null
  <2> DEFINE S == values \ {Null}
  <2>1. ~ (values \subseteq {Null}) /\ S \in SUBSET Nat /\ S # {}
    BY <1>4
  <2>2. Strictest(values) = Min(S)
    BY <2>1 DEF Strictest
  <2>3. PICK x \in S : \A y \in S : x <= y
    BY <2>1, LeastExists
  <2>4. Min(S) \in S
    BY <2>3 DEF Min
  <2>5. QED
    BY <2>1, <2>2, <2>4, BoundsAssumption
<1> HIDE DEF keeps, ages
<1>5. KeepLastN # Null => KeepLastN \in Nat /\ \A v \in keeps : v = Null \/ KeepLastN <= v
  BY <1>2, <1>3, StrictestIsLeast
<1>6. MaxAgeDays # Null => MaxAgeDays \in Nat /\ \A v \in ages : v = Null \/ MaxAgeDays <= v
  BY <1>2, <1>3, StrictestIsLeast
<1>7. ASSUME NEW p \in policies
      PROVE  /\ p.keep # Null => p.keep \in Nat /\ KeepLastN # Null /\ KeepLastN <= p.keep
             /\ p.age # Null => p.age \in Nat /\ MaxAgeDays # Null /\ MaxAgeDays <= p.age
  <2>1. p.keep \in keeps /\ p.age \in ages
    BY DEF keeps, ages
  <2>2. QED
    BY <1>2, <1>3, <1>4, <1>5, <1>6, <2>1
<1>8. QED
  BY <1>5, <1>6, <1>7

-----------------------------------------------------------------------------
LEMMA SurvivorsFinite ==
  ASSUME NEW b
  PROVE  /\ IsFiniteSet(Ids)
         /\ IsFiniteSet(Survivors(b)) /\ Cardinality(Survivors(b)) \in Nat
         /\ \A T \in SUBSET Survivors(b) : Cardinality(T) <= Cardinality(Survivors(b))
                                           /\ Cardinality(T) \in Nat
<1>1. IsFiniteSet(Ids)
  BY BoundsAssumption, FS_Interval DEF Ids
<1>2. Survivors(b) \in SUBSET Ids
  BY DEF Survivors
<1>3. IsFiniteSet(Survivors(b)) /\ Cardinality(Survivors(b)) \in Nat
  BY <1>1, <1>2, FS_Subset, FS_CardinalityType
<1>4. ASSUME NEW T \in SUBSET Survivors(b)
      PROVE  Cardinality(T) <= Cardinality(Survivors(b)) /\ Cardinality(T) \in Nat
  BY <1>3, FS_Subset, FS_CardinalityType
<1>5. QED
  BY <1>1, <1>3, <1>4

(* Whatever a rule selects may go, whichever implementation asks: what     *)
(* runBackupPolicy counts and how it reads a 0 never select more than the  *)
(* strictest values do.                                                    *)
LEMMA SelectedMayGo ==
  ASSUME TypeOK, NEW b \in OverCount \cup OverAge \cup PolicySelects
  PROVE  b \in Ids /\ Exists(b) /\ MayGo(b)
<1>1. /\ status \in [Ids -> Status] /\ now \in Int /\ started \in [Ids -> Int]
      /\ Ids \subseteq Int
  BY BoundsAssumption DEF TypeOK, Ids
<1>2. CASE b \in OverCount
  <2>1. KeepLastN # Null /\ b \in Completed /\ Cardinality(Newer(b, Completed)) >= KeepLastN
    BY <1>2 DEF OverCount, Beyond
  <2>2. Newer(b, Completed) \in SUBSET Survivors(b)
    BY DEF Newer, Completed, Survivors, Exists
  <2>3. Cardinality(Survivors(b)) >= KeepLastN
    BY <2>1, <2>2, SurvivorsFinite, RulesAreStrictest
  <2>4. QED
    BY <2>1, <2>3 DEF MayGo, OutNumbered, Completed, Exists
<1>3. CASE b \in OverAge
  BY <1>3 DEF OverAge, OlderThan, MayGo, AgedOut
<1>4. CASE b \in PolicySelects
  <2> DEFINE rows == {o \in Ids : Exists(o)}
  <2>1. PICK p \in policies :
          b \in (IF p.keep \in {Null, 0} THEN {} ELSE Beyond(p.keep, rows))
                   \cup (IF p.age \in {Null, 0} THEN {} ELSE OlderThan(p.age))
    BY <1>4 DEF PolicySelects
  <2>2. CASE p.keep \notin {Null, 0} /\ b \in Beyond(p.keep, rows)
    <3>1. b \in rows /\ Cardinality(Newer(b, rows)) >= p.keep
      BY <2>2 DEF Beyond
    <3>2. Newer(b, rows) = Survivors(b)
      BY DEF Newer, Survivors
    <3>3. p.keep \in Nat /\ KeepLastN # Null /\ KeepLastN \in Nat /\ KeepLastN <= p.keep
      BY <2>2, RulesAreStrictest
    <3>4. Cardinality(Survivors(b)) >= KeepLastN
      BY <3>1, <3>2, <3>3, SurvivorsFinite
    <3>5. QED
      BY <3>1, <3>3, <3>4 DEF MayGo, OutNumbered
  <2>3. CASE p.age \notin {Null, 0} /\ b \in OlderThan(p.age)
    <3>1. p.age \in Nat /\ MaxAgeDays # Null /\ MaxAgeDays \in Nat /\ MaxAgeDays <= p.age
      BY <2>3, RulesAreStrictest
    <3>2. b \in Ids /\ Exists(b) /\ now - started[b] >= p.age
      BY <2>3 DEF OlderThan
    <3>3. now - started[b] >= MaxAgeDays
      BY <1>1, <3>1, <3>2
    <3>4. QED
      BY <3>1, <3>2, <3>3 DEF MayGo, AgedOut, OlderThan
  <2>4. QED
    BY <2>1, <2>2, <2>3
<1>5. QED
  BY <1>2, <1>3, <1>4

(* When every row that goes in a step may go, whoever might go before and  *)
(* is not too old still has enough newer rows after it.                    *)
LEMMA NewerStay ==
  ASSUME TypeOK, InOrder, NEW b \in Ids, Exists(b), MayGo(b),
         \A o \in Ids : Exists(o) /\ ~Exists(o)' => MayGo(o)
  PROVE  AgedOut(b) \/ (KeepLastN # Null /\ Cardinality(Survivors(b)') >= KeepLastN)
<1> SUFFICES ASSUME ~AgedOut(b)
             PROVE  KeepLastN # Null /\ Cardinality(Survivors(b)') >= KeepLastN
  OBVIOUS
<1> DEFINE lost == {o \in Survivors(b) : ~Exists(o)'}
<1>1. /\ KeepLastN # Null /\ KeepLastN \in Nat
      /\ Cardinality(Survivors(b)) >= KeepLastN
  BY RulesAreStrictest DEF MayGo, OutNumbered
<1>2. IsFiniteSet(Survivors(b)')
  <2>1. Survivors(b)' \in SUBSET Ids
    BY DEF Survivors
  <2>2. QED
    BY <2>1, SurvivorsFinite, FS_Subset
<1>3. ASSUME NEW o \in Ids, Survivors(o) \subseteq Survivors(b)',
             Cardinality(Survivors(o)) >= KeepLastN
      PROVE  Cardinality(Survivors(b)') >= KeepLastN
  <2>1. /\ Cardinality(Survivors(o)) <= Cardinality(Survivors(b)')
        /\ Cardinality(Survivors(b)') \in Nat /\ Cardinality(Survivors(o)) \in Nat
    BY <1>2, <1>3, FS_Subset, FS_CardinalityType, SurvivorsFinite
  <2>2. QED
    BY <1>1, <1>3, <2>1
<1>4. CASE lost = {}
  <2>1. Survivors(b) \subseteq Survivors(b)'
    BY <1>4 DEF Survivors
  <2>2. QED
    BY <1>1, <1>3, <2>1
<1>5. CASE lost # {}
  <2>1. lost \in SUBSET Ids
    BY DEF Survivors
  <2>2. PICK m \in lost : \A o \in lost : o <= m
    BY <1>5, <2>1, GreatestId
  <2>3. m \in Ids /\ m > b /\ Exists(m) /\ MayGo(m)
    BY <2>2 DEF Survivors
  <2>4. ~AgedOut(m)
    <3>1. started[b] <= started[m]
      BY <2>3 DEF InOrder, Exists, Ids
    <3>2. /\ now \in Int /\ started[b] \in Int /\ started[m] \in Int
          /\ MaxAgeDays # Null => MaxAgeDays \in Nat
      BY <2>3, RulesAreStrictest, BoundsAssumption DEF TypeOK
    <3>3. QED
      BY <2>3, <3>1, <3>2 DEF AgedOut, OlderThan
  <2>5. Survivors(m) \subseteq Survivors(b)'
    <3>1. ASSUME NEW o \in Survivors(m) PROVE o \in Survivors(b)'
      <4>1. o \in Ids /\ o > m /\ Exists(o) /\ o > b
        BY <2>3 DEF Survivors, Ids
      <4>2. o \notin lost
        BY <2>2, <2>3, <4>1 DEF Ids
      <4>3. Exists(o)'
        BY <4>1, <4>2 DEF Survivors
      <4>4. QED
        BY <4>1, <4>3 DEF Survivors
    <3>2. QED
      BY <3>1
  <2>6. Cardinality(Survivors(m)) >= KeepLastN
    BY <2>3, <2>4 DEF MayGo, OutNumbered
  <2>7. QED
    BY <1>1, <1>3, <2>3, <2>5, <2>6
<1>6. QED
  BY <1>4, <1>5

-----------------------------------------------------------------------------
(* What a step does to the lists and the rows: nothing goes that was not   *)
(* marked, and what is newly marked may go.                                *)

Gone(b)   == Exists(b) /\ ~Exists(b)'
StepsOn   == /\ policies' = policies /\ now' \in Int /\ now' >= now
             /\ \A b \in Ids : status[b] # "absent" =>
                  /\ status'[b] # "absent" /\ started'[b] = started[b]
                  /\ ~Exists(b) => ~Exists(b)'
Marks     == /\ \A b \in Ids : Gone(b) => Marked(b)
             /\ \A b \in Ids : Marked(b)' => Marked(b) \/ (Exists(b) /\ MayGo(b))

(* Continue puts nothing on a list that is not on the one it is given. *)
LEMMA ContinueMarks ==
  ASSUME TypeOK, NEW p \in Pruners, NEW todo, NEW keyed, Continue(p, todo, keyed),
         NEW q \in Pruners, NEW b \in prune'[q].todo
  PROVE  b \in prune[q].todo \/ (q = p /\ b \in todo)
BY DEF Continue, TypeOK, NoPrune

LEMMA StepMarks == ASSUME IInv, InOrder, MarkedMayGo, [Next]_vars PROVE StepsOn /\ Marks
<1>1. /\ TypeOK /\ TypeOK' /\ status \in [Ids -> Status] /\ started \in [Ids -> 0 .. MaxTime]
      /\ prune \in [Pruners -> Prune] /\ policyRun \in [Ids -> SUBSET Ids]
      /\ now \in 0 .. MaxTime /\ now' \in 0 .. MaxTime
  BY NextType DEF IInv, TypeOK
<1>2. now \in Int /\ now' \in Int
  BY <1>1
<1>3. NoPrune.todo = {} /\ Reading.todo = {}
  BY DEF NoPrune, Reading
<1>4. ASSUME UNCHANGED <<policies, now, status, started, prune, policyRun>>
      PROVE  StepsOn /\ Marks
  BY <1>2, <1>4 DEF StepsOn, Marks, Gone, Exists, Marked
<1>5. CASE Create
  <2>1. PICK b \in Ids : /\ status[b] = "absent" /\ status' = [status EXCEPT ![b] = "IN_PROGRESS"]
                         /\ started' = [started EXCEPT ![b] = now]
    BY <1>5 DEF Create
  <2>2. UNCHANGED <<policies, now, prune, policyRun>>
    BY <1>5 DEF Create
  <2>3. StepsOn
    <3>1. \A o \in Ids : status[o] # "absent" =>
            status'[o] = status[o] /\ started'[o] = started[o]
      BY <1>1, <2>1
    <3>2. QED
      BY <1>2, <2>2, <3>1 DEF StepsOn, Exists
  <2>4. Marks
    BY <1>1, <2>1, <2>2 DEF Marks, Gone, Exists, Marked
  <2>5. QED
    BY <2>3, <2>4
<1>6. CASE HourlyStart
  <2>1. UNCHANGED <<policies, now, status, started, policyRun>>
        /\ prune' = [prune EXCEPT ![0] = Reading]
    BY <1>6 DEF HourlyStart
  <2>2. \A b : Marked(b)' => Marked(b)
    BY <1>1, <1>3, <2>1, Parts DEF Marked
  <2>3. QED
    BY <1>2, <2>1, <2>2 DEF StepsOn, Marks, Gone, Exists
<1>7. CASE Crash
  <2>1. UNCHANGED <<policies, now, status, started>>
    BY <1>7 DEF Crash
  <2>2. \A b : ~Marked(b)'
    BY <1>3, <1>7 DEF Crash, Marked
  <2>3. QED
    BY <1>2, <2>1, <2>2 DEF StepsOn, Marks, Gone, Exists
<1>8. CASE NextDay
  <2>1. UNCHANGED <<policies, status, started, prune, policyRun>> /\ now' = now + 1
    BY <1>8 DEF NextDay
  <2>2. QED
    BY <1>2, <2>1 DEF StepsOn, Marks, Gone, Exists, Marked
<1>9. ASSUME NEW b \in Ids, Complete(b) PROVE StepsOn /\ Marks
  <2>1. /\ UNCHANGED <<policies, now, started, policyRun>> /\ Exists(b)
        /\ status' = [status EXCEPT ![b] = "COMPLETED"]
        /\ prune' = [prune EXCEPT ![b] = Reading]
    BY <1>9 DEF Complete
  <2>2. \A o : Marked(o)' => Marked(o)
    BY <1>1, <1>3, <2>1, Parts DEF Marked
  <2>3. QED
    BY <1>1, <1>2, <2>1, <2>2 DEF StepsOn, Marks, Gone, Exists
<1>10. ASSUME NEW b \in Ids, Report(b) PROVE StepsOn /\ Marks
  <2>1. UNCHANGED <<policies, now, started, prune>>
    BY <1>10 DEF Report
  <2>2. CASE Exists(b)
    <3>1. /\ status' = [status EXCEPT ![b] = "COMPLETED"]
          /\ policyRun' = [policyRun EXCEPT ![b] = PolicySelects]
      BY <1>10, <2>2 DEF Report
    <3>2. \A o \in Ids : Marked(o)' => Marked(o) \/ o \in PolicySelects
      BY <1>1, <2>1, <3>1 DEF Marked
    <3>3. QED
      BY <1>1, <1>2, <2>1, <2>2, <3>1, <3>2, SelectedMayGo DEF StepsOn, Marks, Gone, Exists
  <2>3. CASE ~Exists(b)
    BY <1>4, <1>10, <2>1, <2>3 DEF Report
  <2>4. QED
    BY <2>2, <2>3
<1>11. ASSUME NEW b \in Ids, Fail(b) PROVE StepsOn /\ Marks
  <2>1. /\ UNCHANGED <<policies, now, started, prune, policyRun>> /\ Exists(b)
        /\ status' = [status EXCEPT ![b] = "FAILED"]
    BY <1>11 DEF Fail, Exists
  <2>2. QED
    BY <1>1, <1>2, <2>1 DEF StepsOn, Marks, Gone, Exists, Marked
<1>12. ASSUME NEW b \in Ids, PolicyDelete(b) PROVE StepsOn /\ Marks
  <2>1. /\ UNCHANGED <<policies, now, started, prune>>
        /\ policyRun' = [policyRun EXCEPT ![b] = {}]
        /\ \A o \in Ids : status'[o] = status[o]
             \/ (o \in policyRun[b] /\ Exists(o) /\ status'[o] = "deleted")
    BY <1>1, <1>12 DEF PolicyDelete
  <2>2. \A o : Marked(o)' => Marked(o)
    BY <1>1, <2>1 DEF Marked
  <2>3. QED
    BY <1>2, <2>1, <2>2 DEF StepsOn, Marks, Gone, Exists, Marked
<1>13. ASSUME NEW p \in Pruners, PruneStep(p) PROVE StepsOn /\ Marks
  <2>1. UNCHANGED <<policies, now, started, policyRun>>
    BY <1>13 DEF PruneStep, PruneCount, PruneAge, PruneRemove, PruneDelete
  <2>2. CASE PruneCount(p)
    <3>1. /\ UNCHANGED status
          /\ prune' = [prune EXCEPT ![p] = [pc |-> "age", todo |-> OverCount,
                                            keyed |-> OverCount, row |-> 0]]
      BY <2>2 DEF PruneCount
    <3>2. \A o \in Ids : Marked(o)' => Marked(o) \/ o \in OverCount
      BY <1>1, <2>1, <3>1 DEF Marked
    <3>3. QED
      BY <1>1, <1>2, <2>1, <3>1, <3>2, SelectedMayGo DEF StepsOn, Marks, Gone, Exists
  <2>3. CASE PruneAge(p)
    <3>1. /\ UNCHANGED status
          /\ Continue(p, prune[p].todo \cup OverAge, prune[p].keyed \cup (OverAge \cap keys))
      BY <2>3 DEF PruneAge
    <3>2. \A o \in Ids : Marked(o)' => Marked(o) \/ o \in OverAge
      BY <1>1, <2>1, <3>1, ContinueMarks DEF Marked
    <3>3. QED
      BY <1>1, <1>2, <2>1, <3>1, <3>2, SelectedMayGo DEF StepsOn, Marks, Gone, Exists
  <2>4. CASE PruneRemove(p)
    <3>1. UNCHANGED status /\ Continue(p, prune[p].todo, prune[p].keyed)
      BY <2>4 DEF PruneRemove
    <3>2. \A o : Marked(o)' => Marked(o)
      BY <1>1, <2>1, <3>1, ContinueMarks DEF Marked
    <3>3. QED
      BY <1>2, <2>1, <3>1, <3>2 DEF StepsOn, Marks, Gone, Exists
  <2>5. ASSUME NEW b \in Ids, PruneDelete(p, b) PROVE StepsOn /\ Marks
    <3>1. b \in prune[p].todo
          /\ (UNCHANGED status \/ (Exists(b) /\ status' = [status EXCEPT ![b] = "deleted"]))
      BY <2>5 DEF PruneDelete
    <3>2. ASSUME NEW o, Marked(o)' PROVE Marked(o)
      <4>1. CASE \E r \in Ids : o \in policyRun'[r]
        BY <2>1, <4>1 DEF Marked
      <4>2. ASSUME NEW q \in Pruners, o \in prune'[q].todo PROVE o \in prune[q].todo
        <5>1. CASE Continue(p, prune[p].todo \ {b}, prune[p].keyed)
          BY <1>1, <4>2, <5>1, ContinueMarks
        <5>2. CASE prune' = [prune EXCEPT ![p].pc = "remove", ![p].todo = @ \ {b}, ![p].row = b]
          <6>1. prune'[p].todo = prune[p].todo \ {b} /\ (q # p => prune'[q] = prune[q])
            BY <1>1, <5>2 DEF Prune
          <6>2. QED
            BY <4>2, <6>1
        <5>3. QED
          BY <2>5, <5>1, <5>2 DEF PruneDelete
      <4>3. QED
        BY <3>2, <4>1, <4>2 DEF Marked
    <3>3. QED
      BY <1>1, <1>2, <2>1, <3>1, <3>2 DEF StepsOn, Marks, Gone, Exists, Marked
  <2>6. QED
    BY <1>13, <2>2, <2>3, <2>4, <2>5 DEF PruneStep
<1>14. CASE UNCHANGED vars
  BY <1>4, <1>14 DEF vars
<1>15. QED
  BY <1>5, <1>6, <1>7, <1>8, <1>9, <1>10, <1>11, <1>12, <1>13, <1>14 DEF Next

LEMMA NextInOrder == ASSUME TypeOK, InOrder, StepsOn, [Next]_vars PROVE InOrder'
<1>1. /\ status \in [Ids -> Status] /\ started \in [Ids -> 0 .. MaxTime]
      /\ now \in Int /\ now' \in Int /\ now' >= now /\ Ids \subseteq Int
      /\ \A b \in Ids : started[b] \in Int
  BY BoundsAssumption DEF TypeOK, StepsOn, Ids
<1>2. CASE Create
  <2>1. PICK n \in Ids : /\ status[n] = "absent" /\ \A o \in Ids : o < n => status[o] # "absent"
                         /\ status' = [status EXCEPT ![n] = "IN_PROGRESS"]
                         /\ started' = [started EXCEPT ![n] = now]
    BY <1>2 DEF Create
  <2>2. now' = now
    BY <1>2 DEF Create
  <2>3. ASSUME NEW b \in Ids, status'[b] # "absent", NEW o \in Ids, o < b
        PROVE  status'[o] # "absent" /\ started'[o] <= started'[b]
    <3>1. CASE b = n
      BY <1>1, <2>1, <2>3, <3>1 DEF InOrder
    <3>2. CASE b # n
      <4>1. status[b] # "absent" /\ o # n
        BY <1>1, <2>1, <2>3, <3>2 DEF InOrder
      <4>2. QED
        BY <1>1, <2>1, <2>3, <3>2, <4>1 DEF InOrder
    <3>3. QED
      BY <3>1, <3>2
  <2>4. ASSUME NEW b \in Ids, status'[b] # "absent" PROVE started'[b] <= now'
    BY <1>1, <2>1, <2>2, <2>4 DEF InOrder
  <2>5. QED
    BY <2>3, <2>4 DEF InOrder
<1>3. CASE \A b \in Ids : status'[b] # "absent" => status[b] # "absent"
  BY <1>1, <1>3 DEF InOrder, StepsOn
<1>4. Create \/ \A b \in Ids : status'[b] # "absent" => status[b] # "absent"
  <2>1. ASSUME ~Create PROVE \A b \in Ids : status'[b] # "absent" => status[b] # "absent"
    <3>1. CASE status' = status
      BY <3>1
    <3>2. ASSUME NEW b \in Ids, Exists(b), NEW v, status' = [status EXCEPT ![b] = v]
          PROVE  \A o \in Ids : status'[o] # "absent" => status[o] # "absent"
      BY <1>1, <3>2 DEF Exists
    <3>3. ASSUME NEW b \in Ids, PolicyDelete(b)
          PROVE  \A o \in Ids : status'[o] # "absent" => status[o] # "absent"
      BY <1>1, <3>3 DEF PolicyDelete, Exists
    <3>4. QED
      BY <2>1, <3>1, <3>2, <3>3 DEF Next, vars, HourlyStart, Crash, NextDay, Complete, Report,
         Fail, PruneStep, PruneCount, PruneAge, PruneRemove, PruneDelete, Exists
  <2>2. QED
    BY <2>1
<1>5. QED
  BY <1>2, <1>3, <1>4

LEMMA NextMarked == ASSUME IInv, InOrder, MarkedMayGo, StepsOn, Marks PROVE MarkedMayGo'
<1>1. /\ TypeOK /\ now \in Int /\ now' \in Int /\ now' >= now /\ policies' = policies
      /\ KeepLastN' = KeepLastN /\ MaxAgeDays' = MaxAgeDays
      /\ \A b \in Ids : started[b] \in Int
  BY BoundsAssumption DEF IInv, TypeOK, StepsOn, KeepLastN, MaxAgeDays
<1>2. ASSUME NEW b \in Ids, Marked(b)'
      PROVE  status'[b] # "absent" /\ (Exists(b)' => MayGo(b)')
  <2>1. status[b] # "absent" /\ (Exists(b) => MayGo(b))
    BY <1>2 DEF Marks, MarkedMayGo, Exists
  <2>2. status'[b] # "absent" /\ started'[b] = started[b]
    BY <2>1 DEF StepsOn
  <2>3. ASSUME Exists(b)' PROVE MayGo(b)'
    <3>1. CASE ~Exists(b)
      BY <2>1, <2>3, <3>1 DEF StepsOn
    <3>2. CASE Exists(b)
      <4>1. \A o \in Ids : Exists(o) /\ ~Exists(o)' => MayGo(o)
        BY DEF Marks, Gone, MarkedMayGo
      <4>2. AgedOut(b) \/ (KeepLastN # Null /\ Cardinality(Survivors(b)') >= KeepLastN)
        BY <1>1, <2>1, <3>2, <4>1, NewerStay
      <4>3. ASSUME AgedOut(b) PROVE AgedOut(b)'
        <5>1. MaxAgeDays # Null /\ MaxAgeDays \in Nat /\ now - started[b] >= MaxAgeDays
          BY <1>1, <4>3, RulesAreStrictest DEF AgedOut, OlderThan
        <5>2. now' - started'[b] >= MaxAgeDays
          BY <1>1, <2>2, <5>1
        <5>3. QED
          BY <1>1, <2>3, <5>1, <5>2 DEF AgedOut, OlderThan
      <4>4. QED
        BY <1>1, <4>2, <4>3 DEF MayGo, OutNumbered
    <3>3. QED
      BY <3>1, <3>2
  <2>4. QED
    BY <2>2, <2>3
<1>3. QED
  BY <1>2 DEF MarkedMayGo

LEMMA InitJustified == Init => Justified
<1> SUFFICES ASSUME Init PROVE Justified
  OBVIOUS
<1>1. InOrder
  BY DEF Init, InOrder
<1>2. MarkedMayGo
  BY DEF Init, MarkedMayGo, Marked, NoPrune
<1>3. QED
  BY <1>1, <1>2, InitIInv DEF Justified

LEMMA NextJustified ==
  ASSUME Justified, [Next]_vars
  PROVE  /\ Justified'
         /\ \A b \in Ids : Exists(b) /\ status'[b] = "deleted" =>
              AgedOut(b) \/ (KeepLastN # Null /\ Cardinality(Survivors(b)') >= KeepLastN)
<1>1. IInv /\ InOrder /\ MarkedMayGo /\ StepsOn /\ Marks /\ IInv'
  BY StepMarks, NextIInv DEF Justified
<1>2. InOrder' /\ MarkedMayGo'
  BY <1>1, NextInOrder, NextMarked DEF IInv
<1>3. ASSUME NEW b \in Ids, Exists(b), status'[b] = "deleted"
      PROVE  AgedOut(b) \/ (KeepLastN # Null /\ Cardinality(Survivors(b)') >= KeepLastN)
  <2>1. MayGo(b) /\ \A o \in Ids : Exists(o) /\ ~Exists(o)' => MayGo(o)
    BY <1>1, <1>3 DEF Marks, Gone, MarkedMayGo, Exists
  <2>2. QED
    BY <1>1, <1>3, <2>1, NewerStay DEF IInv
<1>4. QED
  BY <1>1, <1>2, <1>3 DEF Justified

(* Whoever deletes a row, it is over age or it leaves as many newer rows    *)
(* as the count rule keeps: for any policies, with their nulls and zeros,   *)
(* any number of pruners that act on what they read before, and deletes in  *)
(* batches.                                                                *)
THEOREM NewestAreKept == Spec => NewestKept
<1>1. Justified /\ [Next]_vars =>
        [\A b \in Ids : Exists(b) /\ status'[b] = "deleted" =>
           \/ MaxAgeDays # Null /\ b \in OlderThan(MaxAgeDays)
           \/ KeepLastN # Null /\ Cardinality({o \in Ids : o > b /\ status'[o] \notin {"absent", "deleted"}})
                                    >= KeepLastN]_vars
  BY NextJustified DEF AgedOut, Survivors, Exists
<1>2. Justified /\ [Next]_vars => Justified'
  BY NextJustified
<1>3. QED
  BY InitJustified, <1>1, <1>2, PTL DEF Spec, NewestKept
=============================================================================
