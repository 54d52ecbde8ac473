---------------------------- MODULE Services_proofs ----------------------------
(***************************************************************************)
(* What the server says of the past, and the components side by side.  The *)
(* uptime of an agent is the time it was not offline, however its rows are *)
(* written and purged, and the dashboard's figures go together, for any    *)
(* window, rows and moments of its queries; the status rows have statuses. *)
(* A behaviour of Services is one of each component, so that every variable *)
(* keeps its type and PagesAgree holds, for every value of the constants.  *)
(***************************************************************************)
EXTENDS Services, Access_proofs, Pages_proofs, FiniteSetTheorems, SequenceTheorems, TLAPS

-----------------------------------------------------------------------------
(* Sums: what the SumFunction of the community modules is of a finite set. *)

(* Of the subsets of a finite set that are bad one is least: without any    *)
(* one of its members it is good.  This is how a sum is taken apart here.  *)
LEMMA MinimalSet ==
  ASSUME NEW S, IsFiniteSet(S), NEW Bad \in SUBSET (SUBSET S), Bad # {}
  PROVE  \E T \in Bad : \A x \in T : T \ {x} \notin Bad
<1>1. Bad \subseteq FiniteSubsetsOf(S)
  BY FS_FiniteSubsetsOfFinite
<1>2. PICK T \in Bad : \A U \in Bad : ~ (<<U, T>> \in StrictSubsetOrdering(S))
  BY <1>1, FS_StrictSubsetOrderingWellFounded, WFMin
<1>3. ASSUME NEW x \in T, T \ {x} \in Bad PROVE FALSE
  <2>1. <<T \ {x}, T>> \in StrictSubsetOrdering(S)
    BY <1>3 DEF StrictSubsetOrdering
  <2>2. QED BY <1>2, <1>3, <2>1
<1>4. QED
  BY <1>3

(* f[i] cells for each i of T, of which a sum is the number. *)
Cells(f, T) == UNION {{i} \X (1 .. f[i]) : i \in T}

LEMMA CellsOfOneMore ==
  ASSUME NEW S, IsFiniteSet(S), NEW f \in [S -> Nat], NEW T \in SUBSET S, NEW x \in T
  PROVE  /\ IsFiniteSet(Cells(f, T)) /\ IsFiniteSet(Cells(f, T \ {x}))
         /\ Cardinality(Cells(f, T)) = f[x] + Cardinality(Cells(f, T \ {x}))
         /\ Cardinality(Cells(f, T \ {x})) \in Nat
<1> DEFINE B(i) == {i} \X (1 .. f[i])
           P == Cells(f, T \ {x})
<1>1. ASSUME NEW i \in S PROVE IsFiniteSet(B(i)) /\ Cardinality(B(i)) = f[i] /\ f[i] \in Nat
  <2>1. f[i] \in Nat /\ 1 \in Int /\ f[i] \in Int
    OBVIOUS
  <2>2. IsFiniteSet(1 .. f[i]) /\ Cardinality(1 .. f[i]) = f[i]
    BY <2>1, FS_Interval
  <2>3. IsFiniteSet({i}) /\ Cardinality({i}) = 1
    BY FS_Singleton
  <2>4. IsFiniteSet(B(i)) /\ Cardinality(B(i)) = 1 * f[i]
    <3> DEFINE a == {i}
               b == 1 .. f[i]
    <3>1. IsFiniteSet(a) /\ IsFiniteSet(b) /\ Cardinality(a) = 1 /\ Cardinality(b) = f[i]
      BY <2>2, <2>3
    <3>2. B(i) = a \X b
      OBVIOUS
    <3> HIDE DEF a, b, B
    <3>3. IsFiniteSet(a \X b) /\ Cardinality(a \X b) = Cardinality(a) * Cardinality(b)
      BY <3>1, FS_Product
    <3>4. QED BY <3>1, <3>2, <3>3
  <2>5. QED BY <2>1, <2>4
<1>2. ASSUME NEW U \in SUBSET S PROVE IsFiniteSet(Cells(f, U))
  <2> DEFINE C == {B(i) : i \in U}
  <2>1. IsFiniteSet(U)
    BY FS_Subset
  <2>2. IsFiniteSet(C)
    <3> DEFINE g == [i \in U |-> B(i)]
    <3>1. g \in Surjection(U, C)
      BY DEF Surjection
    <3> HIDE DEF g, C
    <3>2. QED BY <2>1, <3>1, FS_Surjection
  <2>3. \A c \in C : IsFiniteSet(c)
    BY <1>1
  <2>4. IsFiniteSet(UNION C)
    <3> HIDE DEF C
    <3> QED BY <2>2, <2>3, FS_UNION
  <2>5. QED BY <2>4 DEF Cells
<1>3. IsFiniteSet(P) /\ IsFiniteSet(Cells(f, T))
  BY <1>2
<1>4. Cells(f, T) = B(x) \cup P
  BY DEF Cells
<1>5. B(x) \cap P = {}
  BY DEF Cells
<1>6. IsFiniteSet(B(x)) /\ Cardinality(B(x)) = f[x] /\ f[x] \in Nat
  BY <1>1
<1> HIDE DEF P, B
<1>7. Cardinality(B(x) \cup P) = Cardinality(B(x)) + Cardinality(P) - Cardinality(B(x) \cap P)
  BY <1>3, <1>6, FS_Union
<1>8. Cardinality(P) \in Nat /\ Cardinality({}) = 0
  BY <1>3, FS_CardinalityType, FS_EmptySet
<1>9. Cardinality(Cells(f, T)) = f[x] + Cardinality(P)
  <2>1. Cardinality(B(x) \cap P) = 0
    BY <1>5, <1>8
  <2>2. Cardinality(B(x) \cup P) = f[x] + Cardinality(P) - 0
    BY <1>6, <1>7, <2>1
  <2>3. Cardinality(B(x) \cup P) = f[x] + Cardinality(P)
    BY <1>6, <1>8, <2>2
  <2>4. QED BY <1>4, <2>3
<1>10. QED
  BY <1>3, <1>8, <1>9 DEF P

(* A sum over a finite set is the number of its cells, *)
LEMMA SumIsCells ==
  ASSUME NEW S, IsFiniteSet(S), NEW f \in [S -> Nat]
  PROVE  SumFunction(f) = Cardinality(Cells(f, S))
<1> DEFINE one(T) == CHOOSE x \in T : TRUE
           Eq(g) == g = [T \in SUBSET S |-> IF T = {} THEN 0 ELSE f[one(T)] + g[T \ {one(T)}]]
           w == [T \in SUBSET S |-> Cardinality(Cells(f, T))]
<1>1. \A T : T # {} => one(T) \in T
  OBVIOUS
<1>2. Cardinality(Cells(f, {})) = 0
  BY FS_EmptySet DEF Cells
<1>3. Eq(w)
  <2>1. ASSUME NEW T \in SUBSET S, T # {} PROVE Cardinality(Cells(f, T)) = f[one(T)] + w[T \ {one(T)}]
    <3>1. one(T) \in T /\ T \ {one(T)} \in SUBSET S
      BY <1>1, <2>1
    <3>2. w[T \ {one(T)}] = Cardinality(Cells(f, T \ {one(T)}))
      BY <3>1
    <3> HIDE DEF one
    <3>3. Cardinality(Cells(f, T)) = f[one(T)] + Cardinality(Cells(f, T \ {one(T)}))
      BY <3>1, CellsOfOneMore
    <3>4. QED BY <3>2, <3>3
  <2>2. QED BY <1>2, <2>1
<1>4. ASSUME NEW g, Eq(g) PROVE g[S] = Cardinality(Cells(f, S))
  <2> DEFINE Bad == {T \in SUBSET S : g[T] # w[T]}
  <2>1. CASE Bad # {}
    <3>1. PICK T \in Bad : \A x \in T : T \ {x} \notin Bad
      <4>1. Bad \in SUBSET (SUBSET S)
        OBVIOUS
      <4> HIDE DEF Bad
      <4>2. QED BY <2>1, <4>1, MinimalSet
    <3>2. CASE T = {}
      BY <1>2, <1>4, <3>2
    <3>3. CASE T # {}
      <4>1. one(T) \in T /\ T \ {one(T)} \in SUBSET S
        BY <1>1, <3>3
      <4>2. g[T \ {one(T)}] = w[T \ {one(T)}]
        BY <3>1, <4>1
      <4>3. g[T] = f[one(T)] + g[T \ {one(T)}] /\ w[T] = f[one(T)] + w[T \ {one(T)}]
        BY <1>3, <1>4, <3>3
      <4>4. QED BY <4>2, <4>3
    <3>4. QED BY <3>2, <3>3
  <2>2. CASE Bad = {}
    BY <2>2
  <2>3. QED BY <2>1, <2>2
<1>5. Eq(CHOOSE g : Eq(g))
  <2> HIDE DEF Eq, w
  <2> QED BY <1>3
<1>6. SumFunction(f) = (CHOOSE g : Eq(g))[S]
  BY DEF SumFunction, SumFunctionOnSet, FoldFunctionOnSet, MapThenFoldSet
<1> HIDE DEF Eq
<1>7. QED
  BY <1>4, <1>5, <1>6

(* which is a natural number. *)
LEMMA SumType ==
  ASSUME NEW S, IsFiniteSet(S), NEW f \in [S -> Nat]
  PROVE  SumFunction(f) \in Nat
<1>1. CASE S = {}
  <2>1. Cells(f, S) = {} /\ SumFunction(f) = Cardinality(Cells(f, S))
    BY <1>1, SumIsCells DEF Cells
  <2>2. QED BY <2>1, FS_EmptySet
<1>2. CASE S # {}
  <2>1. PICK x \in S : TRUE
    BY <1>2
  <2>2. S \in SUBSET S
    OBVIOUS
  <2>3. IsFiniteSet(Cells(f, S))
    BY <2>1, <2>2, CellsOfOneMore
  <2>4. QED BY <2>3, SumIsCells, FS_CardinalityType
<1>3. QED BY <1>1, <1>2

(* K is made of f[i] elements for each i of S. *)
MadeOf(K, S, f, U) ==
  /\ \A i \in S : IsFiniteSet(U[i]) /\ Cardinality(U[i]) = f[i]
  /\ \A i, j \in S : i # j => U[i] \cap U[j] = {}
  /\ \A x : x \in K <=> \E i \in S : x \in U[i]

(* A sum of what disjoint sets have is what they have together. *)
LEMMA SumOfDisjoint ==
  ASSUME NEW S, IsFiniteSet(S), NEW f \in [S -> Nat], NEW U, NEW K, MadeOf(K, S, f, U)
  PROVE  IsFiniteSet(K) /\ SumFunction(f) = Cardinality(K)
<1>0. /\ \A i \in S : IsFiniteSet(U[i]) /\ Cardinality(U[i]) = f[i]
      /\ \A i, j \in S : i # j => U[i] \cap U[j] = {}
      /\ \A x : x \in K <=> \E i \in S : x \in U[i]
  BY DEF MadeOf
<1> DEFINE All(T) == UNION {U[i] : i \in T}
           Bad == {T \in SUBSET S : ~ (IsFiniteSet(All(T)) /\ Cardinality(Cells(f, T)) = Cardinality(All(T)))}
<1>1. CASE Bad # {}
  <2>1. PICK T \in Bad : \A x \in T : T \ {x} \notin Bad
    <3>1. Bad \in SUBSET (SUBSET S)
      OBVIOUS
    <3> HIDE DEF Bad
    <3>2. QED BY <1>1, <3>1, MinimalSet
  <2>2. CASE T = {}
    <3>1. All(T) = {} /\ Cells(f, T) = {}
      BY <2>2 DEF Cells
    <3>2. QED BY <2>1, <3>1, FS_EmptySet
  <2>3. CASE T # {}
    <3>1. PICK x \in T : TRUE
      BY <2>3
    <3> DEFINE P == All(T \ {x})
    <3>2. T \ {x} \in SUBSET S /\ T \in SUBSET S /\ x \in S
      BY <3>1
    <3>3. IsFiniteSet(P) /\ Cardinality(Cells(f, T \ {x})) = Cardinality(P)
      BY <2>1, <3>1, <3>2
    <3>4. Cardinality(Cells(f, T)) = f[x] + Cardinality(Cells(f, T \ {x}))
      BY <3>1, <3>2, CellsOfOneMore
    <3>5. All(T) = U[x] \cup P
      BY <3>1
    <3>6. U[x] \cap P = {}
      BY <1>0, <3>1, <3>2
    <3>7. IsFiniteSet(U[x]) /\ Cardinality(U[x]) = f[x]
      BY <1>0, <3>2
    <3>8. T \in Bad => ~ (IsFiniteSet(All(T)) /\ Cardinality(Cells(f, T)) = Cardinality(All(T)))
      OBVIOUS
    <3> HIDE DEF P, All, Bad
    <3>9. /\ IsFiniteSet(U[x] \cup P)
          /\ Cardinality(U[x] \cup P) = Cardinality(U[x]) + Cardinality(P) - Cardinality(U[x] \cap P)
      BY <3>3, <3>7, FS_Union
    <3>10. Cardinality({}) = 0 /\ Cardinality(P) \in Nat /\ f[x] \in Nat
      BY <3>2, <3>3, FS_CardinalityType, FS_EmptySet
    <3>11. Cardinality(All(T)) = f[x] + Cardinality(P)
      <4>1. Cardinality(U[x] \cap P) = 0
        BY <3>6, <3>10
      <4>2. Cardinality(U[x] \cup P) = f[x] + Cardinality(P) - 0
        BY <3>7, <3>9, <4>1
      <4>3. Cardinality(U[x] \cup P) = f[x] + Cardinality(P)
        BY <3>10, <4>2
      <4>4. QED BY <3>5, <4>3
    <3>12. QED BY <2>1, <3>3, <3>4, <3>5, <3>8, <3>9, <3>11
  <2>4. QED BY <2>2, <2>3
<1>2. CASE Bad = {}
  <2>1. IsFiniteSet(All(S)) /\ Cardinality(Cells(f, S)) = Cardinality(All(S))
    BY <1>2
  <2>2. SumFunction(f) = Cardinality(Cells(f, S))
    BY SumIsCells
  <2>3. K = All(S)
    BY <1>0
  <2>4. QED BY <2>1, <2>2, <2>3
<1>3. QED BY <1>1, <1>2

-----------------------------------------------------------------------------
(* Uptime. *)

HistoryRows == [status: States, age: 0 .. Window + 1]

(* HistoryRows of an agent, oldest first. *)
Falling(rs) ==
  /\ rs \in Seq(HistoryRows)
  /\ \A i, j \in DOMAIN rs : i < j => rs[i].age > rs[j].age

(* HistoryRows that say what was, each from its age to that of the next, none     *)
(* older than what is known.                                               *)
SaysWhatWas(rs) ==
  /\ Falling(rs)
  /\ \A i \in DOMAIN rs, k \in DOMAIN was :
       AgeAfter(rs, i) < k /\ k <= rs[i].age => was[k] = rs[i].status
  /\ \A i \in DOMAIN rs : rs[i].age <= Len(was) \/ Len(was) = Window

(* The newest says what is now. *)
NewestIsNow ==
  /\ history = <<>> => was = <<>>
  /\ history # <<>> => NewestRecord.age <= Heartbeat /\ NewestRecord.status = state

UptimeInv == UptimeTypeOK /\ SaysWhatWas(history) /\ NewestIsNow

LEMMA WindowIsLong ==
  /\ Window \in Nat /\ Day \in Nat /\ Days \in Nat /\ Day > 0 /\ Days > 0
  /\ Heartbeat \in Nat /\ 0 < Heartbeat /\ Heartbeat < Window
<1>1. Day \in Nat /\ Days \in Nat /\ Day > 0 /\ Days > 0 /\ Heartbeat \in 1 .. Day * Days - 1
  BY UptimeAssumption
<1>2. Day * Days \in Nat
  BY <1>1
<1>3. Window = Day * Days
  BY DEF Window
<1>4. QED
  BY <1>1, <1>2, <1>3

LEMMA RowsType ==
  ASSUME NEW rs \in Seq(HistoryRows)
  PROVE  /\ Len(rs) \in Nat /\ DOMAIN rs = 1 .. Len(rs)
         /\ \A i \in DOMAIN rs : rs[i].age \in 0 .. Window + 1 /\ rs[i].age \in Nat /\ rs[i].status \in States
         /\ \A i \in DOMAIN rs : AgeAfter(rs, i) \in Nat
         /\ \A i \in DOMAIN rs : i < Len(rs) => i + 1 \in DOMAIN rs /\ AgeAfter(rs, i) = rs[i + 1].age
         /\ \A i \in DOMAIN rs : i = Len(rs) => AgeAfter(rs, i) = 0
<1>1. Len(rs) \in Nat /\ DOMAIN rs = 1 .. Len(rs)
  OBVIOUS
<1>2. ASSUME NEW i \in DOMAIN rs
      PROVE  rs[i].age \in 0 .. Window + 1 /\ rs[i].age \in Nat /\ rs[i].status \in States
  <2>1. rs[i] \in HistoryRows
    BY <1>1, ElementOfSeq
  <2>2. QED BY <2>1, WindowIsLong DEF HistoryRows
<1>3. QED
  BY <1>1, <1>2 DEF AgeAfter

(* A row that comes later begins when the earlier one is over. *)
LEMMA LaterAfter ==
  ASSUME NEW rs, Falling(rs), NEW i \in DOMAIN rs, NEW j \in DOMAIN rs, i < j
  PROVE  rs[j].age <= AgeAfter(rs, i)
<1>1. rs \in Seq(HistoryRows) /\ \A a, b \in DOMAIN rs : a < b => rs[a].age > rs[b].age
  BY DEF Falling
<1>2. /\ DOMAIN rs = 1 .. Len(rs) /\ Len(rs) \in Nat
      /\ \A a \in DOMAIN rs : rs[a].age \in Nat
      /\ \A a \in DOMAIN rs : a < Len(rs) => a + 1 \in DOMAIN rs /\ AgeAfter(rs, a) = rs[a + 1].age
  BY <1>1, RowsType
<1>3. i + 1 \in DOMAIN rs /\ AgeAfter(rs, i) = rs[i + 1].age
  BY <1>2
<1>4. CASE j = i + 1
  BY <1>2, <1>3, <1>4
<1>5. CASE j # i + 1
  <2>1. i + 1 < j
    BY <1>2, <1>5
  <2>2. rs[i + 1].age > rs[j].age
    BY <1>1, <1>3, <2>1
  <2>3. QED BY <1>2, <1>3, <2>2
<1>6. QED
  BY <1>4, <1>5

LEMMA GreatestBelow ==
  ASSUME NEW n \in Nat, NEW S \in SUBSET (1 .. n), S # {}
  PROVE  \E x \in S : \A y \in S : y <= x
<1> DEFINE Bad == {T \in SUBSET S : T # {} /\ ~ \E x \in T : \A y \in T : y <= x}
<1>1. IsFiniteSet(S)
  BY CountUpTo, FS_Subset
<1>2. CASE Bad # {}
  <2>1. PICK T \in Bad : \A x \in T : T \ {x} \notin Bad
    <3>1. Bad \in SUBSET (SUBSET S)
      OBVIOUS
    <3> HIDE DEF Bad
    <3>2. QED BY <1>1, <1>2, <3>1, MinimalSet
  <2>2. PICK x \in T : TRUE
    OBVIOUS
  <2>3. CASE T \ {x} = {}
    BY <2>2, <2>3
  <2>4. CASE T \ {x} # {}
    <3>1. PICK m \in T \ {x} : \A y \in T \ {x} : y <= m
      BY <2>1, <2>4
    <3>2. (\A y \in T : y <= m) \/ (\A y \in T : y <= x)
      BY <3>1
    <3>3. QED BY <3>1, <3>2
  <2>5. QED BY <2>3, <2>4
<1>3. QED
  BY <1>2

LEMMA LeastBelow ==
  ASSUME NEW n \in Nat, NEW S \in SUBSET (0 .. n), S # {}
  PROVE  \E x \in S : \A y \in S : x <= y
<1> DEFINE Bad == {T \in SUBSET S : T # {} /\ ~ \E x \in T : \A y \in T : x <= y}
<1>1. IsFiniteSet(S)
  <2>1. 0 \in Int /\ n \in Int
    OBVIOUS
  <2>2. IsFiniteSet(0 .. n)
    BY <2>1, FS_Interval
  <2>3. QED BY <2>2, FS_Subset
<1>2. CASE Bad # {}
  <2>1. PICK T \in Bad : \A x \in T : T \ {x} \notin Bad
    <3>1. Bad \in SUBSET (SUBSET S)
      OBVIOUS
    <3> HIDE DEF Bad
    <3>2. QED BY <1>1, <1>2, <3>1, MinimalSet
  <2>2. PICK x \in T : TRUE
    OBVIOUS
  <2>3. CASE T \ {x} = {}
    BY <2>2, <2>3
  <2>4. CASE T \ {x} # {}
    <3>1. PICK m \in T \ {x} : \A y \in T \ {x} : m <= y
      BY <2>1, <2>4
    <3>2. (\A y \in T : m <= y) \/ (\A y \in T : x <= y)
      BY <3>1
    <3>3. QED BY <3>1, <3>2
  <2>5. QED BY <2>3, <2>4
<1>3. QED
  BY <1>2

(* The last row that reaches back to a unit is that unit's. *)
LEMMA EachUnitHasARow ==
  ASSUME NEW rs, Falling(rs), NEW h \in DOMAIN rs, NEW k \in Nat, k > 0, k <= rs[h].age
  PROVE  \E i \in DOMAIN rs : h <= i /\ AgeAfter(rs, i) < k /\ k <= rs[i].age
<1>1. rs \in Seq(HistoryRows)
  BY DEF Falling
<1>2. /\ DOMAIN rs = 1 .. Len(rs) /\ Len(rs) \in Nat
      /\ \A a \in DOMAIN rs : rs[a].age \in Nat
      /\ \A a \in DOMAIN rs : a < Len(rs) => a + 1 \in DOMAIN rs /\ AgeAfter(rs, a) = rs[a + 1].age
      /\ \A i \in DOMAIN rs : i = Len(rs) => AgeAfter(rs, i) = 0
  BY <1>1, RowsType
<1> DEFINE S == {i \in 1 .. Len(rs) : k <= rs[i].age}
<1>3. S \in SUBSET (1 .. Len(rs)) /\ h \in S
  BY <1>2
<1>4. \A i : i \in S <=> i \in DOMAIN rs /\ k <= rs[i].age
  BY <1>2
<1> HIDE DEF S
<1>5. PICK i \in S : \A j \in S : j <= i
  BY <1>2, <1>3, GreatestBelow
<1>6. i \in DOMAIN rs /\ k <= rs[i].age /\ h <= i
  BY <1>3, <1>4, <1>5
<1>7. CASE i = Len(rs)
  BY <1>2, <1>6, <1>7
<1>8. CASE i # Len(rs)
  <2>1. i < Len(rs)
    BY <1>2, <1>6, <1>8
  <2>2. i + 1 \in DOMAIN rs /\ AgeAfter(rs, i) = rs[i + 1].age
    BY <1>2, <1>6, <2>1
  <2>3. i + 1 \notin S
    BY <1>2, <1>5, <1>6
  <2>4. QED BY <1>2, <1>4, <1>6, <2>2, <2>3
<1>9. QED
  BY <1>7, <1>8

(* A span is the units in it. *)
LEMMA CountSpan ==
  ASSUME NEW a \in Nat, NEW b \in Nat
  PROVE  /\ IsFiniteSet(b + 1 .. a) /\ Cardinality(b + 1 .. a) = Span(a, b)
         /\ Span(a, b) \in Nat
<1>1. b + 1 \in Int /\ a \in Int
  OBVIOUS
<1>2. IsFiniteSet(b + 1 .. a) /\ Cardinality(b + 1 .. a) = IF b + 1 > a THEN 0 ELSE a - (b + 1) + 1
  BY <1>1, FS_Interval
<1>3. QED
  BY <1>2 DEF Span

(* The spans of rows that follow each other, added up. *)
LEMMA SpansAddUp ==
  ASSUME NEW S \in SUBSET Int, IsFiniteSet(S), NEW hi \in [S -> Nat], NEW lo \in [S -> Nat],
         \A i, j \in S : i < j => hi[j] <= lo[i]
  PROVE  LET K == {k \in Nat : \E i \in S : lo[i] < k /\ k <= hi[i]}
         IN /\ IsFiniteSet(K)
            /\ SumFunction([i \in S |-> Span(hi[i], lo[i])]) = Cardinality(K)
<1> DEFINE U == [i \in S |-> lo[i] + 1 .. hi[i]]
           f == [i \in S |-> Span(hi[i], lo[i])]
           K == {k \in Nat : \E i \in S : lo[i] < k /\ k <= hi[i]}
<1>1. \A i \in S : IsFiniteSet(U[i]) /\ Cardinality(U[i]) = f[i] /\ f[i] \in Nat
  BY CountSpan
<1>2. f \in [S -> Nat]
  BY <1>1
<1>3. ASSUME NEW i \in S, NEW j \in S, i # j PROVE U[i] \cap U[j] = {}
  <2>1. hi[j] <= lo[i] \/ hi[i] <= lo[j]
    BY <1>3
  <2>2. hi[i] \in Nat /\ hi[j] \in Nat /\ lo[i] \in Nat /\ lo[j] \in Nat
    OBVIOUS
  <2>3. QED BY <2>1, <2>2
<1>4. \A k : k \in K <=> \E i \in S : k \in U[i]
  <2>1. ASSUME NEW i \in S, NEW k \in U[i] PROVE k \in K
    OBVIOUS
  <2>2. ASSUME NEW k \in K PROVE \E i \in S : k \in U[i]
    OBVIOUS
  <2>3. QED BY <2>1, <2>2
<1> HIDE DEF f, U, K
<1>5. MadeOf(K, S, f, U)
  BY <1>1, <1>3, <1>4 DEF MadeOf
<1>6. IsFiniteSet(K) /\ SumFunction(f) = Cardinality(K)
  BY <1>2, <1>5, SumOfDisjoint
<1>7. QED
  BY <1>6 DEF f, K

LEMMA LesserOfTwo ==
  ASSUME NEW a \in Nat, NEW b \in Nat
  PROVE  /\ Min({a, b}) = (IF a <= b THEN a ELSE b)
         /\ Max({a, b}) = (IF a <= b THEN b ELSE a)
<1>1. \A x : x \in {a, b} <=> x = a \/ x = b
  OBVIOUS
<1>2. (IF a <= b THEN a ELSE b) \in {a, b} /\ \A y \in {a, b} : (IF a <= b THEN a ELSE b) <= y
  OBVIOUS
<1>3. (IF a <= b THEN b ELSE a) \in {a, b} /\ \A y \in {a, b} : (IF a <= b THEN b ELSE a) >= y
  OBVIOUS
<1>4. \A x \in {a, b} : (\A y \in {a, b} : x <= y) => x = (IF a <= b THEN a ELSE b)
  OBVIOUS
<1>5. \A x \in {a, b} : (\A y \in {a, b} : x >= y) => x = (IF a <= b THEN b ELSE a)
  OBVIOUS
<1>6. Min({a, b}) = (IF a <= b THEN a ELSE b)
  BY <1>2, <1>4 DEF Min
<1>7. Max({a, b}) = (IF a <= b THEN b ELSE a)
  BY <1>3, <1>5 DEF Max
<1>8. QED
  BY <1>6, <1>7

(* The units that rows of these states cover. *)
Of(rs, states) ==
  {k \in Nat : \E i \in DOMAIN rs :
     rs[i].status \in states /\ AgeAfter(rs, i) < k /\ k <= rs[i].age}

NotOffline == {"ONLINE", "RUNNING_BACKUP"}

LEMMA UpIsNotOffline == \A s \in States : s # "OFFLINE" <=> s \in NotOffline
BY DEF States, NotOffline

LEMMA PctIs ==
  ASSUME NEW rs, Falling(rs)
  PROVE  LET K == {k \in Of(rs, NotOffline) : k <= Window}
         IN IsFiniteSet(K) /\ computeUptimePct(rs) = Cardinality(K)
<1>1. /\ rs \in Seq(HistoryRows) /\ DOMAIN rs = 1 .. Len(rs) /\ Len(rs) \in Nat
      /\ \A i \in DOMAIN rs : rs[i].age \in Nat /\ rs[i].status \in States /\ AgeAfter(rs, i) \in Nat
  BY RowsType DEF Falling
<1> DEFINE S == {j \in DOMAIN rs : rs[j].status # "OFFLINE"}
           hi == [i \in S |-> Min({rs[i].age, Window})]
           lo == [i \in S |-> AgeAfter(rs, i)]
           K == {k \in Of(rs, NotOffline) : k <= Window}
           L == {k \in Nat : \E i \in S : lo[i] < k /\ k <= hi[i]}
<1>2. S \in SUBSET Int /\ IsFiniteSet(S)
  BY <1>1, CountUpTo, FS_Subset
<1>3. \A i \in S : hi[i] = IF rs[i].age <= Window THEN rs[i].age ELSE Window
  BY <1>1, WindowIsLong, LesserOfTwo
<1>4. hi \in [S -> Nat] /\ lo \in [S -> Nat]
  BY <1>1, <1>3, WindowIsLong
<1>5. ASSUME NEW i \in S, NEW j \in S, i < j PROVE hi[j] <= lo[i]
  <2>1. rs[j].age <= AgeAfter(rs, i)
    BY <1>5, LaterAfter
  <2>2. hi[j] <= rs[j].age
    <3>1. hi[j] = IF rs[j].age <= Window THEN rs[j].age ELSE Window
      BY <1>3
    <3>2. rs[j].age \in Nat /\ Window \in Nat
      BY <1>1, WindowIsLong
    <3> HIDE DEF hi
    <3>3. QED BY <3>1, <3>2
  <2>3. hi[j] \in Nat /\ rs[j].age \in Nat /\ AgeAfter(rs, i) \in Nat /\ lo[i] = AgeAfter(rs, i)
    BY <1>1, <1>4
  <2>4. QED BY <2>1, <2>2, <2>3
<1>6. computeUptimePct(rs) = SumFunction([i \in S |-> Span(hi[i], lo[i])])
  BY DEF computeUptimePct
<1>7. K = L
  <2>1. ASSUME NEW k \in K PROVE k \in L
    <3>1. PICK i \in DOMAIN rs : rs[i].status \in NotOffline /\ AgeAfter(rs, i) < k /\ k <= rs[i].age
      BY DEF Of
    <3>2. i \in S /\ k \in Nat /\ k <= Window
      BY <1>1, <3>1, UpIsNotOffline DEF Of
    <3>3. lo[i] < k /\ k <= hi[i]
      BY <1>1, <1>3, <3>1, <3>2, WindowIsLong
    <3>4. QED BY <3>2, <3>3
  <2>2. ASSUME NEW k \in L PROVE k \in K
    <3>1. PICK i \in S : lo[i] < k /\ k <= hi[i]
      OBVIOUS
    <3>2. k \in Nat /\ k <= rs[i].age /\ k <= Window /\ AgeAfter(rs, i) < k
      <4>1. hi[i] = IF rs[i].age <= Window THEN rs[i].age ELSE Window
        BY <1>3
      <4>2. rs[i].age \in Nat /\ Window \in Nat /\ k \in Nat
        BY <1>1, WindowIsLong
      <4>3. AgeAfter(rs, i) < k
        BY <3>1
      <4> HIDE DEF hi
      <4>4. QED BY <3>1, <4>1, <4>2, <4>3
    <3>3. rs[i].status \in NotOffline
      BY <1>1, UpIsNotOffline
    <3>4. QED BY <3>2, <3>3 DEF Of
  <2>3. QED BY <2>1, <2>2
<1> HIDE DEF S, hi, lo, K
<1>8. IsFiniteSet(L) /\ SumFunction([i \in S |-> Span(hi[i], lo[i])]) = Cardinality(L)
  BY <1>2, <1>4, <1>5, SpansAddUp
<1>9. QED
  BY <1>6, <1>7, <1>8 DEF K

(* Days follow each other. *)
LEMMA DaysFollow ==
  ASSUME hour \in Nat
  PROVE  /\ \A d \in Nat : DayStart(d) \in Nat /\ DayEnd(d) \in Nat /\ DayEnd(d) <= DayStart(d)
         /\ \A d, e \in Nat : d < e => DayStart(d) <= DayEnd(e)
         /\ \A d \in Nat : d > 0 => d - 1 \in Nat /\ DayEnd(d) = DayStart(d - 1)
         /\ DayEnd(0) = 0
<1>0. Day \in Nat /\ hour \in Nat
  BY WindowIsLong
<1>1. \A d \in Nat : d * Day \in Nat
  BY <1>0
<1>2. \A d \in Nat : (d + 1) * Day = d * Day + Day
  BY <1>0
<1>3. ASSUME NEW d \in Nat, NEW e \in Nat, d <= e PROVE d * Day <= e * Day
  <2>1. PICK x \in Nat : e = d + x
    <3>1. e - d \in Nat /\ e = d + (e - d)
      BY <1>3
    <3>2. QED BY <3>1
  <2>2. e * Day = d * Day + x * Day
    BY <1>0, <2>1
  <2>3. QED BY <1>1, <2>2
<1>4. ASSUME NEW d \in Nat, d > 0
      PROVE  d - 1 \in Nat /\ DayEnd(d) = DayStart(d - 1) /\ DayEnd(d) \in Nat /\ DayEnd(d) <= DayStart(d)
  <2>1. d - 1 \in Nat /\ d - 1 <= d
    BY <1>4
  <2>2. DayEnd(d) = hour + (d - 1) * Day /\ DayStart(d - 1) = hour + (d - 1) * Day /\ DayStart(d) = hour + d * Day
    BY <1>4 DEF DayEnd, DayStart
  <2>3. (d - 1) * Day <= d * Day /\ (d - 1) * Day \in Nat /\ d * Day \in Nat
    BY <1>1, <1>3, <2>1
  <2>4. QED BY <1>0, <2>1, <2>2, <2>3
<1>5. DayEnd(0) = 0
  BY DEF DayEnd
<1>6. \A d \in Nat : DayStart(d) \in Nat
  BY <1>0, <1>1 DEF DayStart
<1>7. ASSUME NEW d \in Nat, NEW e \in Nat, d < e PROVE DayStart(d) <= DayEnd(e)
  <2>1. e - 1 \in Nat /\ d <= e - 1 /\ DayEnd(e) = DayStart(e - 1)
    BY <1>4, <1>7
  <2>2. d * Day <= (e - 1) * Day /\ d * Day \in Nat /\ (e - 1) * Day \in Nat
    BY <1>1, <1>3, <2>1
  <2>3. DayStart(d) <= DayStart(e - 1)
    BY <1>0, <2>2 DEF DayStart
  <2>4. QED BY <2>1, <2>3
<1>8. QED
  <2>1. \A d \in Nat : DayEnd(d) \in Nat /\ DayEnd(d) <= DayStart(d)
    BY <1>4, <1>5, <1>6
  <2>2. QED BY <1>4, <1>5, <1>6, <1>7, <2>1

(* What rows of which none begins before an earlier one ends have on a day. *)
LEMMA ClampedAddUp ==
  ASSUME NEW rs, Falling(rs), NEW S \in SUBSET DOMAIN rs, NEW to \in [S -> Nat],
         \A i, j \in S : i < j => rs[j].age <= to[i],
         hour \in Nat, NEW d \in Nat
  PROVE  LET K == {k \in Nat : /\ DayEnd(d) < k /\ k <= DayStart(d)
                               /\ \E i \in S : to[i] < k /\ k <= rs[i].age}
         IN /\ IsFiniteSet(K)
            /\ SumFunction([i \in S |-> Clamped(d, rs[i].age, to[i])]) = Cardinality(K)
<1>1. /\ rs \in Seq(HistoryRows) /\ DOMAIN rs = 1 .. Len(rs) /\ Len(rs) \in Nat
      /\ \A i \in DOMAIN rs : rs[i].age \in Nat
  BY RowsType DEF Falling
<1>2. DayEnd(d) \in Nat /\ DayStart(d) \in Nat
  BY DaysFollow
<1> DEFINE hi == [i \in S |-> Min({rs[i].age, DayStart(d)})]
           lo == [i \in S |-> Max({to[i], DayEnd(d)})]
           K == {k \in Nat : /\ DayEnd(d) < k /\ k <= DayStart(d)
                             /\ \E i \in S : to[i] < k /\ k <= rs[i].age}
           L == {k \in Nat : \E i \in S : lo[i] < k /\ k <= hi[i]}
<1>3. S \in SUBSET Int /\ IsFiniteSet(S)
  BY <1>1, CountUpTo, FS_Subset
<1>4. ASSUME NEW i \in S
      PROVE  /\ hi[i] = IF rs[i].age <= DayStart(d) THEN rs[i].age ELSE DayStart(d)
             /\ lo[i] = IF to[i] <= DayEnd(d) THEN DayEnd(d) ELSE to[i]
             /\ hi[i] \in Nat /\ lo[i] \in Nat /\ rs[i].age \in Nat /\ to[i] \in Nat
  <2>1. rs[i].age \in Nat /\ to[i] \in Nat
    BY <1>1
  <2>2. hi[i] = IF rs[i].age <= DayStart(d) THEN rs[i].age ELSE DayStart(d)
    BY <1>2, <2>1, LesserOfTwo
  <2>3. lo[i] = IF to[i] <= DayEnd(d) THEN DayEnd(d) ELSE to[i]
    BY <1>2, <2>1, LesserOfTwo
  <2>4. QED BY <1>2, <2>1, <2>2, <2>3
<1>5. hi \in [S -> Nat] /\ lo \in [S -> Nat]
  BY <1>4
<1>6. SumFunction([i \in S |-> Clamped(d, rs[i].age, to[i])]) = SumFunction([i \in S |-> Span(hi[i], lo[i])])
  BY DEF Clamped
<1> HIDE DEF hi, lo
<1>7. ASSUME NEW i \in S, NEW j \in S, i < j PROVE hi[j] <= lo[i]
  <2>1. rs[j].age <= to[i]
    BY <1>7
  <2>2. QED BY <1>2, <1>4, <2>1
<1>8. K = L
  <2>1. ASSUME NEW k \in K PROVE k \in L
    <3>1. PICK i \in S : to[i] < k /\ k <= rs[i].age
      OBVIOUS
    <3>2. k \in Nat /\ DayEnd(d) < k /\ k <= DayStart(d)
      OBVIOUS
    <3>3. lo[i] < k /\ k <= hi[i]
      BY <1>2, <1>4, <3>1, <3>2
    <3>4. QED BY <3>2, <3>3
  <2>2. ASSUME NEW k \in L PROVE k \in K
    <3>1. PICK i \in S : lo[i] < k /\ k <= hi[i]
      OBVIOUS
    <3>2. k \in Nat
      OBVIOUS
    <3>3. to[i] < k /\ k <= rs[i].age /\ DayEnd(d) < k /\ k <= DayStart(d)
      BY <1>2, <1>4, <3>1, <3>2
    <3>4. QED BY <3>2, <3>3
  <2>3. QED BY <2>1, <2>2
<1> HIDE DEF K
<1>9. IsFiniteSet(L) /\ SumFunction([i \in S |-> Span(hi[i], lo[i])]) = Cardinality(L)
  BY <1>3, <1>5, <1>7, SpansAddUp
<1>10. QED
  BY <1>6, <1>8, <1>9 DEF K

OnDay(K, d) == {k \in K : DayEnd(d) < k /\ k <= DayStart(d)}

LEMMA FractionIs ==
  ASSUME Falling(records), hour \in Nat, NEW d \in Nat
  PROVE  computeUptimeFraction(d) = Cardinality(OnDay(Of(records, NotOffline), d))
<1> DEFINE rs == records
           S == {j \in DOMAIN rs : rs[j].status # "OFFLINE"}
           to == [i \in S |-> AgeAfter(rs, i)]
           K == {k \in Nat : /\ DayEnd(d) < k /\ k <= DayStart(d)
                             /\ \E i \in S : to[i] < k /\ k <= rs[i].age}
<1>1. computeUptimeFraction(d) = SumFunction([i \in S |-> Clamped(d, rs[i].age, to[i])])
  BY DEF computeUptimeFraction
<1>2. Falling(rs)
  OBVIOUS
<1> HIDE DEF rs
<1>3. /\ rs \in Seq(HistoryRows) /\ \A i \in DOMAIN rs : rs[i].status \in States /\ AgeAfter(rs, i) \in Nat
  BY <1>2, RowsType DEF Falling
<1>4. to \in [S -> Nat]
  BY <1>3
<1>5. \A i, j \in S : i < j => rs[j].age <= to[i]
  BY <1>2, LaterAfter
<1>6. K = OnDay(Of(rs, NotOffline), d)
  BY <1>3, UpIsNotOffline DEF OnDay, Of
<1>7. S \in SUBSET DOMAIN rs
  OBVIOUS
<1> HIDE DEF S, to
<1>8. SumFunction([i \in S |-> Clamped(d, rs[i].age, to[i])]) = Cardinality(K)
  BY <1>2, <1>4, <1>5, <1>7, ClampedAddUp
<1>9. QED
  BY <1>1, <1>6, <1>8 DEF rs

(* A group ends where a row of another state begins, or now. *)
LEMMA GroupEndIs ==
  ASSUME NEW rs, Falling(rs), NEW i \in DOMAIN rs
  PROVE  /\ GroupEnd(rs, i) \in Nat
         /\ \/ /\ GroupEnd(rs, i) = 0
               /\ \A j \in DOMAIN rs : i <= j => rs[j].status = rs[i].status
            \/ \E m \in DOMAIN rs :
                 /\ i < m /\ rs[m].status # rs[i].status /\ GroupEnd(rs, i) = rs[m].age
                 /\ \A j \in DOMAIN rs : i <= j /\ j < m => rs[j].status = rs[i].status
<1>1. /\ DOMAIN rs = 1 .. Len(rs) /\ Len(rs) \in Nat
      /\ \A j \in DOMAIN rs : rs[j].age \in Nat
  BY RowsType DEF Falling
<1> DEFINE others == {j \in i + 1 .. Len(rs) : rs[j].status # rs[i].status}
<1>2. GroupEnd(rs, i) = IF others = {} THEN 0 ELSE rs[Min(others)].age
  BY DEF GroupEnd
<1>3. \A j \in DOMAIN rs : i <= j => (j = i \/ j \in i + 1 .. Len(rs))
  BY <1>1
<1>4. \A j : j \in others <=> j \in DOMAIN rs /\ i < j /\ rs[j].status # rs[i].status
  BY <1>1
<1>5. CASE others = {}
  <2>1. \A j \in DOMAIN rs : i <= j => rs[j].status = rs[i].status
    BY <1>3, <1>5
  <2>2. QED BY <1>2, <1>5, <2>1
<1>6. CASE others # {}
  <2>1. others \in SUBSET (0 .. Len(rs))
    BY <1>1
  <2> HIDE DEF others
  <2>2. \E m \in others : \A j \in others : m <= j
    BY <1>1, <1>6, <2>1, LeastBelow
  <2>3. Min(others) \in others /\ \A j \in others : Min(others) <= j
    BY <2>2 DEF Min
  <2> DEFINE m == Min(others)
  <2>4. m \in DOMAIN rs /\ i < m /\ rs[m].status # rs[i].status /\ GroupEnd(rs, i) = rs[m].age
    BY <1>2, <1>4, <1>6, <2>3
  <2> HIDE DEF m
  <2>5. ASSUME NEW j \in DOMAIN rs, i <= j, j < m PROVE rs[j].status = rs[i].status
    <3>1. j \notin others
      BY <1>1, <2>3, <2>4, <2>5 DEF m
    <3>2. j = i \/ i < j
      BY <1>1, <2>5
    <3>3. QED BY <1>4, <3>1, <3>2
  <2>6. QED BY <1>1, <2>4, <2>5
<1>7. QED
  BY <1>5, <1>6

(* A row belongs to the group of a head of its state. *)
LEMMA HeadOf ==
  ASSUME NEW rs, Falling(rs), NEW j \in DOMAIN rs
  PROVE  \E h \in Heads(rs) :
           /\ h \in DOMAIN rs /\ h <= j
           /\ \A x \in DOMAIN rs : h <= x /\ x <= j => rs[x].status = rs[j].status
<1>1. DOMAIN rs = 1 .. Len(rs) /\ Len(rs) \in Nat
  BY RowsType DEF Falling
<1> DEFINE T == {h \in 1 .. j : \A x \in h .. j : rs[x].status = rs[j].status}
<1>2. T \in SUBSET (0 .. Len(rs)) /\ j \in T
  BY <1>1
<1>3. \A h : h \in T <=> h \in 1 .. j /\ \A x \in h .. j : rs[x].status = rs[j].status
  OBVIOUS
<1> HIDE DEF T
<1>4. PICK h \in T : \A y \in T : h <= y
  BY <1>1, <1>2, LeastBelow
<1>5. h \in DOMAIN rs /\ h <= j /\ rs[h].status = rs[j].status
  BY <1>1, <1>3
<1>6. ASSUME h # 1, rs[h].status = rs[h - 1].status PROVE FALSE
  <2>1. h - 1 \in 1 .. j
    BY <1>1, <1>3, <1>6
  <2>2. \A x \in h - 1 .. j : x = h - 1 \/ x \in h .. j
    BY <1>1, <1>5
  <2>3. \A x \in h - 1 .. j : rs[x].status = rs[j].status
    BY <1>3, <1>5, <1>6, <2>2
  <2>4. h - 1 \in T
    BY <1>3, <2>1, <2>3
  <2>5. h <= h - 1
    BY <1>4, <2>4
  <2>6. QED BY <1>1, <1>5, <2>5
<1>7. h \in Heads(rs)
  BY <1>5, <1>6 DEF Heads
<1>8. \A x \in DOMAIN rs : h <= x /\ x <= j => rs[x].status = rs[j].status
  BY <1>1, <1>3
<1>9. QED
  BY <1>5, <1>7, <1>8

LEMMA GroupsAre ==
  ASSUME NEW rs, Falling(rs), NEW st, NEW k \in Nat, k > 0
  PROVE  (\E i \in Heads(rs) : rs[i].status = st /\ GroupEnd(rs, i) < k /\ k <= rs[i].age)
           <=> k \in Of(rs, {st})
<1>1. /\ DOMAIN rs = 1 .. Len(rs) /\ Len(rs) \in Nat
      /\ \A j \in DOMAIN rs : rs[j].age \in Nat /\ AgeAfter(rs, j) \in Nat
      /\ \A i \in DOMAIN rs : i = Len(rs) => AgeAfter(rs, i) = 0
      /\ \A a, b \in DOMAIN rs : a < b => rs[a].age > rs[b].age
  BY RowsType DEF Falling
<1>2. ASSUME NEW i \in Heads(rs), rs[i].status = st, GroupEnd(rs, i) < k, k <= rs[i].age
      PROVE  k \in Of(rs, {st})
  <2>1. i \in DOMAIN rs
    BY DEF Heads
  <2>2. PICK j \in DOMAIN rs : i <= j /\ AgeAfter(rs, j) < k /\ k <= rs[j].age
    BY <1>2, <2>1, EachUnitHasARow
  <2>3. rs[j].status = st
    <3>1. CASE \A x \in DOMAIN rs : i <= x => rs[x].status = rs[i].status
      BY <1>2, <2>2, <3>1
    <3>2. CASE \E m \in DOMAIN rs :
                 /\ i < m /\ rs[m].status # rs[i].status /\ GroupEnd(rs, i) = rs[m].age
                 /\ \A x \in DOMAIN rs : i <= x /\ x < m => rs[x].status = rs[i].status
      <4>1. PICK m \in DOMAIN rs :
                 /\ i < m /\ rs[m].status # rs[i].status /\ GroupEnd(rs, i) = rs[m].age
                 /\ \A x \in DOMAIN rs : i <= x /\ x < m => rs[x].status = rs[i].status
        BY <3>2
      <4>2. rs[j].age > rs[m].age
        BY <1>1, <1>2, <2>2, <4>1
      <4>3. ~ (m < j) /\ m # j
        <5>1. m < j => rs[m].age > rs[j].age
          BY <1>1
        <5>2. rs[j].age \in Nat /\ rs[m].age \in Nat
          BY <1>1
        <5>3. QED BY <4>2, <5>1, <5>2
      <4>4. j < m
        BY <1>1, <4>3
      <4>5. QED BY <1>2, <2>2, <4>1, <4>4
    <3>3. QED BY <2>1, <3>1, <3>2, GroupEndIs
  <2>4. QED BY <2>2, <2>3 DEF Of
<1>3. ASSUME k \in Of(rs, {st})
      PROVE  \E i \in Heads(rs) : rs[i].status = st /\ GroupEnd(rs, i) < k /\ k <= rs[i].age
  <2>1. PICK j \in DOMAIN rs : rs[j].status = st /\ AgeAfter(rs, j) < k /\ k <= rs[j].age
    BY <1>3 DEF Of
  <2>2. PICK h \in Heads(rs) :
           /\ h \in DOMAIN rs /\ h <= j
           /\ \A x \in DOMAIN rs : h <= x /\ x <= j => rs[x].status = rs[j].status
    BY HeadOf
  <2>3. rs[h].status = st
    BY <1>1, <2>1, <2>2
  <2>4. k <= rs[h].age
    <3>1. h = j \/ rs[h].age > rs[j].age
      BY <1>1, <2>2
    <3>2. rs[h].age \in Nat /\ rs[j].age \in Nat
      BY <1>1, <2>2
    <3>3. QED BY <2>1, <3>1, <3>2
  <2>5. GroupEnd(rs, h) < k
    <3>1. CASE GroupEnd(rs, h) = 0
      BY <3>1
    <3>2. CASE \E m \in DOMAIN rs :
                 /\ h < m /\ rs[m].status # rs[h].status /\ GroupEnd(rs, h) = rs[m].age
                 /\ \A x \in DOMAIN rs : h <= x /\ x < m => rs[x].status = rs[h].status
      <4>1. PICK m \in DOMAIN rs :
                 h < m /\ rs[m].status # rs[h].status /\ GroupEnd(rs, h) = rs[m].age
        BY <3>2
      <4>2. ~ (m <= j)
        BY <1>1, <2>1, <2>2, <2>3, <4>1
      <4>3. j < m
        BY <1>1, <4>2
      <4>4. rs[m].age <= AgeAfter(rs, j)
        BY <4>3, LaterAfter
      <4>5. QED BY <1>1, <2>1, <4>1, <4>4
    <3>3. QED BY <2>2, <3>1, <3>2, GroupEndIs
  <2>6. QED BY <2>2, <2>3, <2>4, <2>5
<1>4. QED
  BY <1>2, <1>3

LEMMA SegmentsAre ==
  ASSUME NEW rs, Falling(rs), hour \in Nat, NEW d \in Nat, NEW st
  PROVE  /\ IsFiniteSet(OnDay(Of(rs, {st}), d))
         /\ buildDaySegments(rs, d, st) = Cardinality(OnDay(Of(rs, {st}), d))
<1> DEFINE S == {j \in Heads(rs) : rs[j].status = st}
           to == [i \in S |-> GroupEnd(rs, i)]
           K == {k \in Nat : /\ DayEnd(d) < k /\ k <= DayStart(d)
                             /\ \E i \in S : to[i] < k /\ k <= rs[i].age}
<1>1. buildDaySegments(rs, d, st) = SumFunction([i \in S |-> Clamped(d, rs[i].age, to[i])])
  BY DEF buildDaySegments
<1>2. /\ DOMAIN rs = 1 .. Len(rs) /\ Len(rs) \in Nat
      /\ \A j \in DOMAIN rs : rs[j].age \in Nat
      /\ \A a, b \in DOMAIN rs : a < b => rs[a].age > rs[b].age
  BY RowsType DEF Falling
<1>3. S \in SUBSET DOMAIN rs
  BY DEF Heads
<1>4. to \in [S -> Nat]
  BY <1>3, GroupEndIs
<1>5. ASSUME NEW i \in S, NEW j \in S, i < j PROVE rs[j].age <= to[i]
  <2>1. /\ i \in DOMAIN rs /\ j \in DOMAIN rs /\ j # 1 /\ rs[j].status # rs[j - 1].status
        /\ rs[i].status = st /\ rs[j].status = st
    BY <1>2, <1>5 DEF Heads
  <2>2. j - 1 \in DOMAIN rs /\ i <= j - 1
    BY <1>2, <1>5, <2>1
  <2>3. PICK m \in DOMAIN rs :
                 /\ i < m /\ rs[m].status # rs[i].status /\ GroupEnd(rs, i) = rs[m].age
                 /\ \A x \in DOMAIN rs : i <= x /\ x < m => rs[x].status = rs[i].status
    BY <2>1, <2>2, GroupEndIs
  <2>4. ~ (j - 1 < m)
    BY <2>1, <2>2, <2>3
  <2>5. m < j
    BY <1>2, <2>1, <2>4
  <2>6. rs[m].age > rs[j].age /\ to[i] = rs[m].age
    BY <1>2, <2>1, <2>3, <2>5
  <2>7. rs[m].age \in Nat /\ rs[j].age \in Nat
    BY <1>2, <2>1
  <2>8. QED BY <2>6, <2>7
<1>6. K = OnDay(Of(rs, {st}), d)
  <2>0. DayEnd(d) \in Nat
    BY DaysFollow
  <2>1. ASSUME NEW k \in Nat, DayEnd(d) < k
        PROVE  (\E i \in S : to[i] < k /\ k <= rs[i].age) <=> k \in Of(rs, {st})
    <3>1. k > 0
      BY <2>0, <2>1
    <3>2. (\E i \in S : to[i] < k /\ k <= rs[i].age)
            <=> (\E i \in Heads(rs) : rs[i].status = st /\ GroupEnd(rs, i) < k /\ k <= rs[i].age)
      OBVIOUS
    <3> HIDE DEF S, to
    <3>3. (\E i \in Heads(rs) : rs[i].status = st /\ GroupEnd(rs, i) < k /\ k <= rs[i].age)
            <=> k \in Of(rs, {st})
      BY <3>1, GroupsAre, Zenon
    <3>4. QED BY <3>2, <3>3
  <2> HIDE DEF S, to
  <2>2. QED BY <2>1 DEF OnDay, Of
<1> HIDE DEF S, to
<1>7. IsFiniteSet(K) /\ SumFunction([i \in S |-> Clamped(d, rs[i].age, to[i])]) = Cardinality(K)
  BY <1>3, <1>4, <1>5, ClampedAddUp
<1>8. QED
  BY <1>1, <1>6, <1>7

LEMMA BaseIs ==
  ASSUME Falling(records), hour \in Nat, NEW d \in Nat
  PROVE  buildDaySegments(baseRecords, d, "ONLINE") = Cardinality(OnDay(Of(records, NotOffline), d))
<1> DEFINE rs == records
           bs == baseRecords
           st(x) == IF x = "OFFLINE" THEN "OFFLINE" ELSE "ONLINE"
<1>0. Falling(rs)
  OBVIOUS
<1>1. bs = [i \in DOMAIN rs |-> [rs[i] EXCEPT !.status = st(@)]]
  BY DEF baseRecords
<1> HIDE DEF rs, bs
<1>2. /\ rs \in Seq(HistoryRows) /\ DOMAIN rs = 1 .. Len(rs) /\ Len(rs) \in Nat
      /\ \A i \in DOMAIN rs : rs[i].status \in States /\ rs[i].age \in 0 .. Window + 1
  BY <1>0, RowsType DEF Falling
<1>3. ASSUME NEW i \in DOMAIN rs PROVE bs[i] \in HistoryRows /\ bs[i].age = rs[i].age /\ bs[i].status = st(rs[i].status)
  <2>1. rs[i] \in HistoryRows
    BY <1>2, ElementOfSeq
  <2>2. bs[i] = [rs[i] EXCEPT !.status = st(@)]
    BY <1>1
  <2>3. st(rs[i].status) \in States
    BY DEF States
  <2>4. QED BY <2>1, <2>2, <2>3 DEF HistoryRows
<1>4. DOMAIN bs = 1 .. Len(rs) /\ bs \in [1 .. Len(rs) -> HistoryRows]
  BY <1>1, <1>2, <1>3
<1>5. bs \in Seq(HistoryRows) /\ Len(bs) = Len(rs)
  BY <1>2, <1>4
<1>6. Falling(bs)
  BY <1>0, <1>2, <1>3, <1>4, <1>5 DEF Falling
<1>7. \A i \in DOMAIN rs : AgeAfter(bs, i) = AgeAfter(rs, i)
  <2>1. \A i \in DOMAIN rs : i < Len(rs) => i + 1 \in DOMAIN rs
    BY <1>2
  <2>2. QED BY <1>3, <1>5, <2>1 DEF AgeAfter
<1>8. \A i \in DOMAIN rs : bs[i].status \in {"ONLINE"} <=> rs[i].status \in NotOffline
  BY <1>2, <1>3, UpIsNotOffline
<1>9. Of(bs, {"ONLINE"}) = Of(rs, NotOffline)
  <2>1. DOMAIN bs = DOMAIN rs
    BY <1>2, <1>4
  <2>2. QED BY <1>3, <1>7, <1>8, <2>1 DEF Of
<1>10. buildDaySegments(bs, d, "ONLINE") = Cardinality(OnDay(Of(bs, {"ONLINE"}), d))
  BY <1>6, SegmentsAre
<1>11. QED
  BY <1>9, <1>10 DEF rs, bs

LEMMA BackupIs ==
  ASSUME Falling(records)
  PROVE  /\ IsFiniteSet(Of(records, {"RUNNING_BACKUP"}))
         /\ backupMs = Cardinality(Of(records, {"RUNNING_BACKUP"}))
<1> DEFINE rs == records
           S == {j \in DOMAIN rs : rs[j].status = "RUNNING_BACKUP"}
           hi == [i \in S |-> rs[i].age]
           lo == [i \in S |-> AgeAfter(rs, i)]
           L == {k \in Nat : \E i \in S : lo[i] < k /\ k <= hi[i]}
<1>1. Falling(rs)
  OBVIOUS
<1>2. backupMs = SumFunction([i \in S |-> Span(hi[i], lo[i])])
  BY DEF backupMs
<1> HIDE DEF rs
<1>3. /\ rs \in Seq(HistoryRows) /\ DOMAIN rs = 1 .. Len(rs) /\ Len(rs) \in Nat
      /\ \A i \in DOMAIN rs : rs[i].age \in Nat /\ AgeAfter(rs, i) \in Nat
  BY <1>1, RowsType DEF Falling
<1>4. S \in SUBSET Int /\ IsFiniteSet(S)
  BY <1>3, CountUpTo, FS_Subset
<1>5. hi \in [S -> Nat] /\ lo \in [S -> Nat]
  BY <1>3
<1>6. \A i, j \in S : i < j => hi[j] <= lo[i]
  BY <1>1, LaterAfter
<1>7. L = Of(rs, {"RUNNING_BACKUP"})
  BY DEF Of
<1> HIDE DEF S, hi, lo
<1>8. IsFiniteSet(L) /\ SumFunction([i \in S |-> Span(hi[i], lo[i])]) = Cardinality(L)
  BY <1>4, <1>5, <1>6, SpansAddUp
<1>9. QED
  BY <1>2, <1>7, <1>8 DEF rs

(* The days make up what the rows have, back to where the first began. *)
LEMMA DaysAddUp ==
  ASSUME hour \in Nat, NEW K \in SUBSET Nat, IsFiniteSet(K),
         NEW f \in [0 .. Days - 1 -> Nat],
         \A d \in 0 .. Days - 1 : f[d] = Cardinality(OnDay(K, d)),
         0 \notin K
  PROVE  /\ SumFunction(f) <= Cardinality(K)
         /\ (\A k \in K : k <= DayStart(Days - 1)) => SumFunction(f) = Cardinality(K)
<1> DEFINE S == 0 .. Days - 1
           U == [d \in S |-> OnDay(K, d)]
           L == {k \in K : \E d \in S : k \in U[d]}
<1>1. Days \in Nat /\ Days > 0 /\ S \in SUBSET Nat
  BY WindowIsLong
<1>2. IsFiniteSet(S)
  <2>1. 0 \in Int /\ Days - 1 \in Int
    BY <1>1
  <2>2. QED BY <2>1, FS_Interval
<1>3. ASSUME NEW d \in S PROVE IsFiniteSet(U[d]) /\ Cardinality(U[d]) = f[d]
  <2>1. OnDay(K, d) \in SUBSET K
    BY DEF OnDay
  <2>2. QED BY <2>1, FS_Subset
<1>4. \A d \in S : DayStart(d) \in Nat /\ DayEnd(d) \in Nat
  BY <1>1, DaysFollow
<1>5. ASSUME NEW d \in S, NEW e \in S, d < e PROVE U[d] \cap U[e] = {}
  <2>1. DayStart(d) <= DayEnd(e)
    BY <1>1, <1>5, DaysFollow
  <2>2. DayStart(d) \in Nat /\ DayEnd(e) \in Nat
    BY <1>4
  <2>3. ASSUME NEW x \in U[d], x \in U[e] PROVE FALSE
    <3>1. x \in Nat /\ x <= DayStart(d) /\ DayEnd(e) < x
      BY <2>3 DEF OnDay
    <3>2. QED BY <2>1, <2>2, <3>1
  <2>4. QED BY <2>3
<1>6. \A d, e \in S : d # e => U[d] \cap U[e] = {}
  <2>1. \A d, e \in S : d # e => d < e \/ e < d
    BY <1>1
  <2>2. QED BY <1>5, <2>1
<1>7. \A x : x \in L <=> \E d \in S : x \in U[d]
  BY DEF OnDay
<1>8. ASSUME \A k \in K : k <= DayStart(Days - 1), NEW k \in K PROVE k \in L
  <2> DEFINE D == {d \in S : k <= DayStart(d)}
  <2>1. Days - 1 \in D /\ D \in SUBSET (0 .. Days - 1) /\ Days - 1 \in Nat
    BY <1>1, <1>8
  <2>2. \A d : d \in D <=> d \in S /\ k <= DayStart(d)
    OBVIOUS
  <2> HIDE DEF D
  <2>3. PICK d \in D : \A e \in D : d <= e
    <3> HIDE DEF S
    <3>1. D # {}
      BY <2>1
    <3>2. QED BY <2>1, <3>1, LeastBelow
  <2>4. d \in Nat /\ d \in S /\ k <= DayStart(d) /\ k \in Nat
    BY <1>1, <2>2
  <2>5. CASE d = 0
    <3>1. DayEnd(d) = 0 /\ k > 0
      BY <1>8, <2>4, <2>5, DaysFollow
    <3>2. QED BY <2>4, <3>1 DEF OnDay
  <2>6. CASE d > 0
    <3>1. d - 1 \in Nat /\ DayEnd(d) = DayStart(d - 1) /\ d - 1 \in S
      BY <1>1, <2>4, <2>6, DaysFollow
    <3>2. d - 1 \notin D
      BY <2>3, <2>4
    <3>3. ~ (k <= DayStart(d - 1))
      BY <2>2, <3>1, <3>2
    <3>4. DayEnd(d) < k
      BY <1>4, <2>4, <3>1, <3>3
    <3>5. QED BY <2>4, <3>4 DEF OnDay
  <2>7. QED BY <2>4, <2>5, <2>6
<1>9. L \in SUBSET K
  OBVIOUS
<1>10. f \in [S -> Nat]
  OBVIOUS
<1>11. (\A k \in K : k <= DayStart(Days - 1)) => L = K
  BY <1>8, <1>9
<1> HIDE DEF S, U, L
<1>12. MadeOf(L, S, f, U)
  BY <1>3, <1>6, <1>7 DEF MadeOf
<1>13. SumFunction(f) = Cardinality(L)
  BY <1>2, <1>10, <1>12, SumOfDisjoint
<1>14. Cardinality(L) <= Cardinality(K)
  BY <1>9, FS_Subset
<1>15. QED
  BY <1>11, <1>13, <1>14

TimelineAddsUp ==
  LET shownDays == Content
      overlaid == SumFunction([d \in 0 .. Days - 1 |-> shownDays.rows[d].overlay])
      early == records # <<>> /\ records[1].age > DayStart(Days - 1)
  IN /\ \A d \in 0 .. Days - 1 : shownDays.rows[d].base = computeUptimeFraction(d)
     /\ overlaid <= shownDays.backup /\ (overlaid = shownDays.backup \/ early)

LEMMA TimelineIsRight ==
  ASSUME Falling(records), hour \in Nat
  PROVE  TimelineAddsUp
<1> DEFINE days == 0 .. Days - 1
           f == [d \in days |-> DayRow(d).overlay]
           K == Of(records, {"RUNNING_BACKUP"})
           overlaid == SumFunction([d \in 0 .. Days - 1 |-> Content.rows[d].overlay])
           early == records # <<>> /\ records[1].age > DayStart(Days - 1)
<1>1. days \in SUBSET Nat /\ Days - 1 \in Nat
  BY WindowIsLong
<1>2. \A d \in days : Content.rows[d].base = computeUptimeFraction(d)
  BY <1>1, FractionIs, BaseIs DEF Content, DayRow
<1>3. overlaid = SumFunction(f) /\ Content.backup = backupMs
  BY DEF Content
<1>4. ASSUME NEW d \in days PROVE f[d] = Cardinality(OnDay(K, d)) /\ f[d] \in Nat
  <2>1. f[d] = buildDaySegments(records, d, "RUNNING_BACKUP")
    BY DEF DayRow
  <2>2. IsFiniteSet(OnDay(K, d)) /\ f[d] = Cardinality(OnDay(K, d))
    BY <1>1, <2>1, SegmentsAre
  <2>3. QED BY <2>2, FS_CardinalityType
<1>5. f \in [days -> Nat]
  BY <1>4
<1>6. /\ records \in Seq(HistoryRows) /\ DOMAIN records = 1 .. Len(records) /\ Len(records) \in Nat
      /\ \A i \in DOMAIN records : AgeAfter(records, i) \in Nat /\ records[i].age \in Nat
      /\ \A i, j \in DOMAIN records : i < j => records[i].age > records[j].age
  BY RowsType DEF Falling
<1>7. K \in SUBSET Nat /\ 0 \notin K
  BY <1>6 DEF Of
<1>8. ASSUME ~early, NEW k \in K PROVE k <= DayStart(Days - 1)
  <2>1. PICK i \in DOMAIN records : k <= records[i].age
    BY DEF Of
  <2>2. 1 \in DOMAIN records /\ records # <<>> /\ (i = 1 \/ 1 < i)
    BY <1>6, <2>1
  <2>3. records[i].age <= records[1].age
    <3>1. i = 1 \/ records[1].age > records[i].age
      BY <1>6, <2>2
    <3>2. QED BY <1>6, <2>2, <3>1
  <2>4. records[1].age <= DayStart(Days - 1)
    <3>1. DayStart(Days - 1) \in Nat
      BY <1>1, DaysFollow
    <3>2. QED BY <1>6, <1>8, <2>2, <3>1
  <2>5. k \in Nat /\ records[i].age \in Nat /\ records[1].age \in Nat /\ DayStart(Days - 1) \in Nat
    BY <1>1, <1>6, <1>7, <2>2, DaysFollow
  <2>6. QED BY <2>1, <2>3, <2>4, <2>5
<1>9. IsFiniteSet(K) /\ backupMs = Cardinality(K)
  BY BackupIs
<1> HIDE DEF f, K, early, overlaid
<1>10. SumFunction(f) <= Cardinality(K) /\ ((\A k \in K : k <= DayStart(Days - 1)) => SumFunction(f) = Cardinality(K))
  BY <1>4, <1>5, <1>7, <1>9, DaysAddUp
<1>11. overlaid <= Content.backup /\ (overlaid = Content.backup \/ early)
  BY <1>3, <1>8, <1>9, <1>10
<1>12. QED
  BY <1>2, <1>11 DEF TimelineAddsUp, overlaid, early

-----------------------------------------------------------------------------
(* What a list keeps of the rows when the oldest go. *)
LEMMA KeptFalls ==
  ASSUME NEW rs, Falling(rs), NEW I \in SUBSET DOMAIN rs
  PROVE  Falling(Kept(rs, I))
<1>1. rs \in Seq(HistoryRows)
  BY DEF Falling
<1> DEFINE ks == Kept(rs, I)
           a == Ascending(I)
<1>2. /\ Cardinality(I) \in Nat /\ ks \in Seq(HistoryRows) /\ Len(ks) = Cardinality(I)
      /\ a \in [1 .. Cardinality(I) -> I]
      /\ \A k \in 1 .. Cardinality(I) : ks[k] = rs[a[k]]
      /\ \A j, k \in 1 .. Cardinality(I) : j < k => a[j] < a[k]
  BY <1>1, KeptIsKept
<1> HIDE DEF ks, a
<1>3. DOMAIN ks = 1 .. Cardinality(I)
  BY <1>2
<1>4. ASSUME NEW j \in DOMAIN ks, NEW k \in DOMAIN ks, j < k PROVE ks[j].age > ks[k].age
  <2>1. a[j] \in DOMAIN rs /\ a[k] \in DOMAIN rs /\ a[j] < a[k]
    BY <1>2, <1>3, <1>4
  <2>2. rs[a[j]].age > rs[a[k]].age
    BY <2>1 DEF Falling
  <2>3. QED BY <1>2, <1>3, <2>2
<1>5. QED
  BY <1>2, <1>4 DEF Falling, ks

(* The rows from one on. *)
LEMMA SuffixSays ==
  ASSUME NEW rs, SaysWhatWas(rs), NEW s \in 1 .. Len(rs)
  PROVE  LET ss == SubSeq(rs, s, Len(rs))
         IN /\ SaysWhatWas(ss) /\ ss # <<>> /\ ss[1] = rs[s]
<1> DEFINE ss == SubSeq(rs, s, Len(rs))
<1>1. /\ rs \in Seq(HistoryRows) /\ DOMAIN rs = 1 .. Len(rs) /\ Len(rs) \in Nat
      /\ \A i, j \in DOMAIN rs : i < j => rs[i].age > rs[j].age
  BY RowsType DEF SaysWhatWas, Falling
<1>2. /\ ss \in Seq(HistoryRows) /\ Len(ss) = Len(rs) - s + 1 /\ DOMAIN ss = 1 .. Len(rs) - s + 1
      /\ \A i \in 1 .. Len(rs) - s + 1 : ss[i] = rs[i + s - 1] /\ i + s - 1 \in DOMAIN rs
  BY <1>1
<1> HIDE DEF ss
<1>3. Falling(ss)
  <2>1. ASSUME NEW i \in DOMAIN ss, NEW j \in DOMAIN ss, i < j PROVE ss[i].age > ss[j].age
    <3>1. i + s - 1 < j + s - 1 /\ i + s - 1 \in DOMAIN rs /\ j + s - 1 \in DOMAIN rs
      BY <1>1, <1>2, <2>1
    <3>2. rs[i + s - 1].age > rs[j + s - 1].age
      BY <1>1, <3>1
    <3>3. ss[i] = rs[i + s - 1] /\ ss[j] = rs[j + s - 1]
      BY <1>2
    <3>4. QED BY <3>2, <3>3
  <2>2. QED BY <1>2, <2>1 DEF Falling
<1>4. ASSUME NEW i \in DOMAIN ss
      PROVE  i + s - 1 \in DOMAIN rs /\ ss[i] = rs[i + s - 1] /\ AgeAfter(ss, i) = AgeAfter(rs, i + s - 1)
  <2>1. i < Len(ss) <=> i + s - 1 < Len(rs)
    BY <1>1, <1>2
  <2>2. i < Len(ss) => ss[i + 1] = rs[(i + s - 1) + 1]
    <3>1. i < Len(ss) => i + 1 \in 1 .. Len(rs) - s + 1 /\ (i + 1) + s - 1 = (i + s - 1) + 1
      BY <1>1, <1>2
    <3>2. QED BY <1>2, <3>1
  <2>3. QED BY <1>2, <2>1, <2>2 DEF AgeAfter
<1>5. SaysWhatWas(ss)
  BY <1>3, <1>4 DEF SaysWhatWas
<1>6. ss # <<>> /\ ss[1] = rs[s]
  BY <1>1, <1>2
<1>7. QED
  BY <1>5, <1>6 DEF ss

LEMMA BaselinedSays ==
  ASSUME UptimeInv
  PROVE  /\ SaysWhatWas(Baselined)
         /\ history # <<>> /\ history[1].age >= Window
              => Baselined # <<>> /\ Baselined[1].age >= Window
<1>1. SaysWhatWas(history) /\ history \in Seq(HistoryRows) /\ was \in Seq(States)
  BY DEF UptimeInv, UptimeTypeOK, SaysWhatWas, Falling
<1>2. DOMAIN history = 1 .. Len(history) /\ Len(history) \in Nat /\ \A i \in DOMAIN history : history[i].age \in Nat
  BY <1>1, RowsType
<1> DEFINE aged == {i \in DOMAIN history : OldRow(history[i])}
           s == IF aged = {} THEN 1 ELSE Max(aged)
<1>3. Baselined = SubSeq(history, s, Len(history))
  BY DEF Baselined
<1>4. CASE history = <<>>
  <2>1. aged = {} /\ Len(history) = 0
    BY <1>4
  <2>2. Baselined = <<>>
    BY <1>1, <1>3, <2>1
  <2>3. SaysWhatWas(Baselined)
    BY <1>1, <1>4, <2>2
  <2>4. QED BY <1>4, <2>3
<1>5. CASE history # <<>>
  <2>1. 1 \in DOMAIN history /\ 1 \in 1 .. Len(history)
    BY <1>1, <1>2, <1>5
  <2>2. aged # {} => s \in aged
    <3>1. aged \in SUBSET (1 .. Len(history))
      BY <1>2
    <3> HIDE DEF aged
    <3>2. aged # {} => \E x \in aged : \A y \in aged : y <= x
      BY <1>2, <3>1, GreatestBelow
    <3>3. \A x, y \in aged : y <= x <=> x >= y
      BY <1>2, <3>1
    <3>4. QED BY <3>2, <3>3 DEF Max
  <2>3. s \in 1 .. Len(history)
    BY <1>2, <2>1, <2>2
  <2>4. aged # {} => history[s].age > Window
    BY <2>2 DEF OldRow
  <2>5. aged = {} => s = 1
    OBVIOUS
  <2> HIDE DEF s
  <2>6. SaysWhatWas(Baselined) /\ Baselined # <<>> /\ Baselined[1] = history[s]
    BY <1>1, <1>3, <2>3, SuffixSays
  <2>7. history[1].age >= Window => Baselined[1].age >= Window
    <3>1. history[s].age \in Nat /\ Window \in Nat
      BY <1>2, <2>3, WindowIsLong
    <3>2. QED BY <2>4, <2>5, <2>6, <3>1
  <2>8. QED BY <2>6, <2>7
<1>6. QED
  BY <1>4, <1>5

LEMMA FiguresAreRight ==
  ASSUME UptimeInv
  PROVE  UptimeAddsUp
<1> DEFINE ups == {k \in DOMAIN was : was[k] # "OFFLINE"}
           bs == Baselined
           K == {k \in Of(bs, NotOffline) : k <= Window}
<1>1. /\ was \in Seq(States) /\ DOMAIN was = 1 .. Len(was) /\ Len(was) \in Nat /\ Len(was) <= Window
      /\ hour \in Nat
  BY WindowIsLong DEF UptimeInv, UptimeTypeOK
<1>2. SaysWhatWas(bs) /\ Falling(bs)
  BY BaselinedSays DEF SaysWhatWas
<1>3. IsFiniteSet(K) /\ uptime_pct = Cardinality(K)
  BY <1>2, PctIs DEF uptime_pct
<1>4. IsFiniteSet(ups) /\ IsUp = Cardinality(ups)
  BY <1>1, CountUpTo, FS_Subset DEF IsUp
<1>5. history # <<>> /\ history[1].age >= Window => bs # <<>> /\ bs[1].age >= Window
  BY BaselinedSays
<1> HIDE DEF bs
<1>6. /\ bs \in Seq(HistoryRows) /\ DOMAIN bs = 1 .. Len(bs) /\ Len(bs) \in Nat
      /\ \A i \in DOMAIN bs : bs[i].age \in Nat /\ AgeAfter(bs, i) \in Nat /\ bs[i].status \in States
  BY <1>2, RowsType DEF Falling
<1>7. ASSUME NEW k \in K PROVE k \in ups
  <2>1. PICK i \in DOMAIN bs : bs[i].status \in NotOffline /\ AgeAfter(bs, i) < k /\ k <= bs[i].age
    BY DEF Of
  <2>2. k \in Nat /\ k <= Window /\ k > 0
    BY <1>6, <2>1 DEF Of
  <2>3. k \in DOMAIN was
    <3>1. bs[i].age <= Len(was) \/ Len(was) = Window
      BY <1>2 DEF SaysWhatWas
    <3>2. bs[i].age \in Nat /\ Window \in Nat /\ k <= bs[i].age
      BY <1>6, <2>1, WindowIsLong
    <3>3. k <= Len(was)
      <4>1. CASE Len(was) = Window
        BY <2>2, <4>1
      <4>2. CASE bs[i].age <= Len(was)
        <5>1. Len(was) \in Nat
          BY <1>1
        <5>2. QED BY <2>2, <3>2, <4>2, <5>1
      <4>3. QED BY <3>1, <4>1, <4>2
    <3>4. QED BY <1>1, <2>2, <3>3
  <2>4. was[k] = bs[i].status
    BY <1>2, <2>1, <2>3 DEF SaysWhatWas
  <2>5. was[k] # "OFFLINE"
    BY <1>6, <2>1, <2>4, UpIsNotOffline
  <2>6. QED BY <2>3, <2>5
<1>8. ASSUME bs # <<>>, bs[1].age >= Window, NEW k \in ups PROVE k \in K
  <2>1. k \in Nat /\ k > 0 /\ k <= Window /\ k \in DOMAIN was
    BY <1>1, WindowIsLong
  <2>2. 1 \in DOMAIN bs /\ k <= bs[1].age
    BY <1>6, <1>8, <2>1, WindowIsLong
  <2>3. PICK i \in DOMAIN bs : AgeAfter(bs, i) < k /\ k <= bs[i].age
    BY <1>2, <2>1, <2>2, EachUnitHasARow
  <2>4. was[k] = bs[i].status
    BY <1>2, <2>1, <2>3 DEF SaysWhatWas
  <2>5. bs[i].status \in NotOffline
    BY <1>6, <2>4, UpIsNotOffline
  <2>6. QED BY <2>1, <2>3, <2>5 DEF Of
<1> HIDE DEF ups, K
<1>9. uptime_pct <= IsUp
  BY <1>3, <1>4, <1>7, FS_Subset
<1>10. history # <<>> /\ history[1].age >= Window => uptime_pct = IsUp
  <2>1. ASSUME bs # <<>>, bs[1].age >= Window PROVE K = ups
    BY <1>7, <1>8, <2>1
  <2>2. QED BY <1>3, <1>4, <1>5, <2>1
<1>11. Falling(records)
  <2>1. Falling(history)
    BY DEF UptimeInv, SaysWhatWas
  <2>2. Falling(Recent)
    BY <2>1, KeptFalls DEF Recent
  <2>3. Falling(Baselined)
    BY <1>2 DEF bs
  <2>4. QED BY <2>2, <2>3 DEF records
<1>12. TimelineAddsUp
  BY <1>1, <1>11, TimelineIsRight
<1>13. QED
  BY <1>9, <1>10, <1>12 DEF UptimeAddsUp, TimelineAddsUp

-----------------------------------------------------------------------------
(* The steps. *)
LEMMA AppendSays ==
  ASSUME NEW rs, SaysWhatWas(rs), was \in Seq(States), NEW s \in States,
         rs # <<>> => rs[Len(rs)].age > 0
  PROVE  LET as == Append(rs, [status |-> s, age |-> 0])
         IN SaysWhatWas(as) /\ as # <<>> /\ as[Len(as)] = [status |-> s, age |-> 0]
<1> DEFINE r == [status |-> s, age |-> 0]
           as == Append(rs, r)
           n == Len(rs)
<1>1. /\ rs \in Seq(HistoryRows) /\ DOMAIN rs = 1 .. n /\ n \in Nat
      /\ \A i, j \in DOMAIN rs : i < j => rs[i].age > rs[j].age
      /\ \A i \in DOMAIN rs : rs[i].age \in Nat
  BY RowsType DEF SaysWhatWas, Falling
<1>2. r \in HistoryRows /\ r.age = 0 /\ r.status = s
  BY WindowIsLong DEF HistoryRows
<1> HIDE DEF r
<1>3. /\ as \in Seq(HistoryRows) /\ Len(as) = n + 1 /\ DOMAIN as = 1 .. n + 1
      /\ \A i \in DOMAIN rs : as[i] = rs[i]
      /\ as[n + 1] = r
  BY <1>1, <1>2
<1> HIDE DEF as
<1>4. \A i \in DOMAIN as : i \in DOMAIN rs \/ i = n + 1
  BY <1>1, <1>3
<1>5. \A i \in DOMAIN rs : rs[i].age > 0
  <2>1. ASSUME NEW i \in DOMAIN rs PROVE rs[i].age > 0
    <3>1. n \in DOMAIN rs /\ rs # <<>> /\ (i = n \/ i < n)
      BY <1>1, <2>1
    <3>2. i = n \/ rs[i].age > rs[n].age
      BY <1>1, <3>1
    <3>3. QED BY <1>1, <3>1, <3>2
  <2>2. QED BY <2>1
<1>6. Falling(as)
  <2>1. ASSUME NEW i \in DOMAIN as, NEW j \in DOMAIN as, i < j PROVE as[i].age > as[j].age
    <3>1. i \in DOMAIN rs
      BY <1>1, <1>3, <2>1
    <3>2. CASE j \in DOMAIN rs
      BY <1>1, <1>3, <2>1, <3>1, <3>2
    <3>3. CASE j = n + 1
      BY <1>2, <1>3, <1>5, <3>1, <3>3
    <3>4. QED BY <1>4, <3>2, <3>3
  <2>2. QED BY <1>3, <2>1 DEF Falling
<1>7. ASSUME NEW i \in DOMAIN rs PROVE AgeAfter(as, i) = AgeAfter(rs, i)
  <2>1. CASE i = n
    <3>1. n < Len(as) /\ as[n + 1].age = 0 /\ ~ (n < Len(rs))
      BY <1>1, <1>2, <1>3
    <3>2. QED BY <2>1, <3>1 DEF AgeAfter
  <2>2. CASE i # n
    <3>1. i < n /\ i + 1 \in DOMAIN rs
      BY <1>1, <2>2
    <3>2. i < Len(as) /\ i < Len(rs) /\ as[i + 1] = rs[i + 1]
      <4>1. as[i + 1] = rs[i + 1]
        BY <1>3, <3>1
      <4>2. Len(as) = n + 1 /\ n \in Nat /\ i \in Nat
        BY <1>1, <1>3
      <4>3. QED BY <3>1, <4>1, <4>2
    <3>3. QED BY <3>2 DEF AgeAfter
  <2>3. QED BY <2>1, <2>2
<1>8. ASSUME NEW i \in DOMAIN as, NEW k \in DOMAIN was, AgeAfter(as, i) < k, k <= as[i].age
      PROVE  was[k] = as[i].status
  <2>1. CASE i \in DOMAIN rs
    BY <1>3, <1>7, <1>8, <2>1 DEF SaysWhatWas
  <2>2. CASE i = n + 1
    <3>1. k <= 0 /\ k \in Nat /\ k > 0
      <4>1. DOMAIN was = 1 .. Len(was) /\ Len(was) \in Nat
        OBVIOUS
      <4>2. as[i].age = 0
        BY <1>2, <1>3, <2>2
      <4>3. QED BY <1>8, <4>1, <4>2
    <3>2. QED BY <3>1
  <2>3. QED BY <1>4, <2>1, <2>2
<1>9. \A i \in DOMAIN as : as[i].age <= Len(was) \/ Len(was) = Window
  <2>1. Len(was) \in Nat /\ r.age <= Len(was)
    BY <1>2
  <2>2. \A i \in DOMAIN rs : as[i].age <= Len(was) \/ Len(was) = Window
    BY <1>3 DEF SaysWhatWas
  <2>3. as[n + 1].age <= Len(was)
    BY <1>3, <2>1
  <2>4. QED BY <1>4, <2>2, <2>3
<1>10. SaysWhatWas(as)
  BY <1>6, <1>8, <1>9 DEF SaysWhatWas
<1>11. as # <<>> /\ as[Len(as)] = r
  <2>1. Len(as) = n + 1 /\ n \in Nat /\ as[n + 1] = r
    BY <1>1, <1>3
  <2>2. Len(as) # 0 /\ Len(<<>>) = 0
    BY <2>1
  <2>3. QED BY <2>1, <2>2
<1>12. QED
  BY <1>10, <1>11 DEF as, r

LEMMA RecentSays ==
  ASSUME SaysWhatWas(history), history # <<>>, NewestRecord.age <= Window
  PROVE  /\ SaysWhatWas(Recent) /\ Recent # <<>>
         /\ Recent[Len(Recent)] = NewestRecord
<1> DEFINE rs == history
           I == {i \in DOMAIN history : ~OldRow(history[i])}
           n == Len(rs)
           ks == Recent
           c == Cardinality(I)
           a == Ascending(I)
<1>1. /\ rs \in Seq(HistoryRows) /\ DOMAIN rs = 1 .. n /\ n \in Nat
      /\ \A i, j \in DOMAIN rs : i < j => rs[i].age > rs[j].age
      /\ \A i \in DOMAIN rs : rs[i].age \in Nat
  BY RowsType DEF SaysWhatWas, Falling
<1>2. I \in SUBSET DOMAIN rs /\ ks = Kept(rs, I)
  BY DEF Recent
<1>3. n \in I
  BY <1>1, WindowIsLong DEF NewestRecord, OldRow
<1>4. ASSUME NEW i \in I, i < n PROVE i + 1 \in I
  <2>1. i + 1 \in DOMAIN rs /\ i \in DOMAIN rs /\ i < i + 1
    BY <1>1, <1>4
  <2>2. rs[i].age > rs[i + 1].age /\ ~ (rs[i].age > Window)
    BY <1>1, <2>1 DEF OldRow
  <2>3. ~ (rs[i + 1].age > Window)
    BY <1>1, <2>1, <2>2, WindowIsLong
  <2>4. QED BY <2>1, <2>3 DEF OldRow
<1>5. SaysWhatWas(rs)
  OBVIOUS
<1>6. NewestRecord = rs[n]
  BY DEF NewestRecord
<1> HIDE DEF rs, I, ks, a
<1>7. /\ c \in Nat /\ ks \in Seq(HistoryRows) /\ Len(ks) = c
      /\ a \in [1 .. c -> I]
      /\ \A k \in 1 .. c : ks[k] = rs[a[k]]
      /\ \A j, k \in 1 .. c : j < k => a[j] < a[k]
      /\ \A i \in I : \E k \in 1 .. c : a[k] = i
  BY <1>1, <1>2, KeptIsKept DEF a
<1>8. DOMAIN ks = 1 .. c /\ I \in SUBSET Int
  BY <1>1, <1>2, <1>7
<1>9. a[c] = n /\ c > 0
  <2>1. PICK k \in 1 .. c : a[k] = n
    BY <1>3, <1>7
  <2>2. c \in 1 .. c /\ c > 0 /\ (k = c \/ k < c)
    BY <1>7
  <2>3. a[c] \in I /\ a[c] <= n
    BY <1>1, <1>2, <1>7, <2>2
  <2>4. k = c \/ n < a[c]
    BY <1>7, <2>1, <2>2
  <2>5. a[c] \in Int /\ n \in Int
    BY <1>3, <1>8, <2>3
  <2>6. a[c] = n
    BY <2>1, <2>3, <2>4, <2>5
  <2>7. QED BY <2>2, <2>6
<1>10. ASSUME NEW k \in 1 .. c, k < c PROVE a[k + 1] = a[k] + 1
  <2>1. c \in 1 .. c /\ k + 1 \in 1 .. c /\ k < k + 1 /\ c \in Nat
    BY <1>7, <1>10
  <2>2. a[k] \in I /\ a[k + 1] \in I /\ a[k] < a[k + 1] /\ a[k] < n
    BY <1>7, <1>9, <1>10, <2>1
  <2>3. PICK j \in 1 .. c : a[j] = a[k] + 1
    BY <1>4, <1>7, <2>2
  <2>4. ~ (j <= k)
    <3>1. j < k => a[j] < a[k]
      BY <1>7
    <3>2. a[j] \in Int /\ a[k] \in Int /\ j \in Int /\ k \in Int
      <4>1. a[j] \in I /\ a[k] \in I
        BY <1>7
      <4>2. c \in Nat
        BY <1>7
      <4>3. j \in Int /\ k \in Int
        BY <4>2
      <4>4. \A x \in I : x \in Int
        BY <1>8
      <4>5. QED BY <4>1, <4>3, <4>4
    <3>3. j # k
      BY <2>3, <3>2
    <3>4. QED BY <2>3, <3>1, <3>2, <3>3
  <2>5. j = k + 1 \/ k + 1 < j
    BY <2>1, <2>4
  <2>6. k + 1 < j => a[k + 1] < a[j]
    BY <1>7, <2>1
  <2>7. a[k] \in Int /\ a[k + 1] \in Int /\ a[j] \in Int
    BY <1>7, <1>8, <2>2
  <2>8. a[k + 1] > a[k] /\ ~ (a[k + 1] < a[k] + 1)
    BY <2>2, <2>7
  <2>9. QED BY <2>3, <2>5, <2>6, <2>7, <2>8
<1>11. ASSUME NEW k \in 1 .. c PROVE a[k] \in DOMAIN rs /\ AgeAfter(ks, k) = AgeAfter(rs, a[k])
  <2>1. a[k] \in DOMAIN rs
    BY <1>2, <1>7
  <2>2. CASE k = c
    <3>1. ~ (k < Len(ks)) /\ ~ (a[k] < Len(rs))
      BY <1>1, <1>7, <1>9, <2>2
    <3>2. QED BY <2>1, <3>1 DEF AgeAfter
  <2>3. CASE k # c
    <3>1. k < c /\ k + 1 \in 1 .. c
      BY <1>7, <2>3
    <3>2. a[k + 1] = a[k] + 1 /\ a[k + 1] \in DOMAIN rs /\ ks[k + 1] = rs[a[k] + 1]
      BY <1>2, <1>7, <1>10, <3>1
    <3>3. a[k] < n
      BY <1>1, <2>1, <3>2
    <3>4. k < Len(ks) /\ a[k] < Len(rs)
      BY <1>7, <3>1, <3>3
    <3>5. QED BY <2>1, <3>2, <3>4 DEF AgeAfter
  <2>4. QED BY <2>1, <2>2, <2>3
<1>12. Falling(ks)
  BY <1>2, <1>5, KeptFalls DEF SaysWhatWas
<1>13. ASSUME NEW i \in DOMAIN ks, NEW k \in DOMAIN was, AgeAfter(ks, i) < k, k <= ks[i].age
      PROVE  was[k] = ks[i].status
  BY <1>5, <1>7, <1>8, <1>11, <1>13 DEF SaysWhatWas
<1>14. \A i \in DOMAIN ks : ks[i].age <= Len(was) \/ Len(was) = Window
  BY <1>5, <1>7, <1>8, <1>11 DEF SaysWhatWas
<1>15. SaysWhatWas(ks)
  BY <1>12, <1>13, <1>14 DEF SaysWhatWas
<1>16. ks # <<>> /\ ks[Len(ks)] = rs[n]
  BY <1>7, <1>9
<1>17. QED
  BY <1>6, <1>15, <1>16 DEF ks

LEMMA PassSays ==
  ASSUME UptimeInv, Pass
  PROVE  UptimeInv'
<1> DEFINE n == Len(history)
           m == Len(was)
           hs == [i \in DOMAIN history |-> [history[i] EXCEPT !.age = @ + 1]]
           ws == SubSeq(<<state>> \o was, 1, IF m < Window THEN m + 1 ELSE Window)
<1>1. /\ SaysWhatWas(history) /\ was \in Seq(States) /\ m <= Window /\ hour \in 0 .. Day - 1
      /\ state \in States /\ NewestIsNow
  BY DEF UptimeInv, UptimeTypeOK
<1>2. /\ history \in Seq(HistoryRows) /\ DOMAIN history = 1 .. n /\ n \in Nat
      /\ \A i, j \in DOMAIN history : i < j => history[i].age > history[j].age
      /\ \A i \in DOMAIN history : history[i].age \in Nat /\ history[i].status \in States /\ AgeAfter(history, i) \in Nat
  BY <1>1, RowsType DEF SaysWhatWas, Falling
<1>3. /\ history # <<>> /\ NewestRecord.age < Heartbeat /\ history[1].age <= Window
      /\ history' = hs /\ was' = ws /\ hour' = (hour + 1) % Day /\ state' = state
  <2>1. ~BeatDue /\ ~OldRow(history[1]) /\ history' = hs /\ was' = ws /\ hour' = (hour + 1) % Day /\ state' = state
    BY DEF Pass
  <2>2. history # <<>> /\ ~ (NewestRecord.age >= Heartbeat) /\ ~ (history[1].age > Window)
    BY <2>1 DEF BeatDue, OldRow
  <2>3. 1 \in DOMAIN history /\ n \in DOMAIN history
    BY <1>2, <2>2
  <2>4. history[1].age \in Nat /\ NewestRecord.age \in Nat
    BY <1>2, <2>3 DEF NewestRecord
  <2>5. QED BY <2>1, <2>2, <2>4, WindowIsLong
<1>4. 1 \in DOMAIN history /\ n \in DOMAIN history
  BY <1>2, <1>3
<1>5. \A i \in DOMAIN history : history[i].age <= Window
  <2>1. ASSUME NEW i \in DOMAIN history PROVE history[i].age <= Window
    <3>1. i = 1 \/ history[1].age > history[i].age
      BY <1>2, <1>4
    <3>2. history[i].age \in Nat /\ history[1].age \in Nat /\ Window \in Nat
      BY <1>2, <1>4, WindowIsLong
    <3>3. QED BY <1>3, <3>1, <3>2
  <2>2. QED BY <2>1
<1>6. ASSUME NEW i \in DOMAIN history
      PROVE  hs[i] \in HistoryRows /\ hs[i].age = history[i].age + 1 /\ hs[i].status = history[i].status
  <2>1. history[i] \in HistoryRows
    BY <1>2, ElementOfSeq
  <2>2. hs[i] = [history[i] EXCEPT !.age = @ + 1]
    OBVIOUS
  <2>3. history[i].age + 1 \in 0 .. Window + 1
    BY <1>2, <1>5, WindowIsLong
  <2>4. QED BY <2>1, <2>2, <2>3 DEF HistoryRows
<1>7. hs \in Seq(HistoryRows) /\ Len(hs) = n /\ DOMAIN hs = DOMAIN history
  <2>1. hs \in [1 .. n -> HistoryRows]
    BY <1>2, <1>6
  <2>2. QED BY <1>2, <2>1
<1>8. /\ ws \in Seq(States) /\ DOMAIN ws = 1 .. Len(ws)
      /\ Len(ws) = (IF m < Window THEN m + 1 ELSE Window)
      /\ ws[1] = state /\ \A k \in DOMAIN ws : k # 1 => k - 1 \in DOMAIN was /\ ws[k] = was[k - 1]
  <2> DEFINE all == <<state>> \o was
             l == IF m < Window THEN m + 1 ELSE Window
  <2>1. m \in Nat /\ DOMAIN was = 1 .. m /\ Window \in Nat /\ Window > 0
    BY <1>1, WindowIsLong
  <2>2. <<state>> \in Seq(States) /\ Len(<<state>>) = 1
    BY <1>1
  <2>3. /\ all \in Seq(States) /\ Len(all) = m + 1
        /\ \A k \in 1 .. m + 1 : all[k] = IF k <= 1 THEN <<state>>[k] ELSE was[k - 1]
    BY <1>1, <2>2, ConcatProperties
  <2>4. l \in 1 .. m + 1
    BY <1>1, <2>1
  <2> HIDE DEF all, l
  <2>5. /\ SubSeq(all, 1, l) \in Seq(States) /\ Len(SubSeq(all, 1, l)) = l
        /\ DOMAIN SubSeq(all, 1, l) = 1 .. l
        /\ \A k \in 1 .. l : SubSeq(all, 1, l)[k] = all[k]
    BY <2>1, <2>3, <2>4
  <2>6. ws = SubSeq(all, 1, l)
    BY DEF all, l
  <2> HIDE DEF ws
  <2>7. ws[1] = state
    BY <2>1, <2>3, <2>4, <2>5, <2>6
  <2>8. ASSUME NEW k \in 1 .. l, k # 1 PROVE k - 1 \in DOMAIN was /\ ws[k] = was[k - 1]
    <3>1. k \in 1 .. m + 1 /\ ~ (k <= 1) /\ k - 1 \in 1 .. m
      BY <2>1, <2>4, <2>8
    <3>2. QED BY <2>1, <2>3, <2>5, <2>6, <3>1
  <2>9. QED BY <2>5, <2>6, <2>7, <2>8 DEF l
<1> HIDE DEF hs, ws
<1>9. \A i \in DOMAIN history : AgeAfter(hs, i) = IF i < n THEN AgeAfter(history, i) + 1 ELSE 0
  <2>1. \A i \in DOMAIN history : i < n => i + 1 \in DOMAIN history
    BY <1>2
  <2>2. QED BY <1>6, <1>7, <2>1 DEF AgeAfter
<1>10. Falling(hs)
  <2>1. ASSUME NEW i \in DOMAIN history, NEW j \in DOMAIN history, i < j PROVE hs[i].age > hs[j].age
    <3>1. history[i].age > history[j].age
      BY <1>2, <2>1
    <3>2. QED BY <1>2, <1>6, <3>1
  <2>2. QED BY <1>7, <2>1 DEF Falling
<1>11. ASSUME NEW i \in DOMAIN hs, NEW k \in DOMAIN ws, AgeAfter(hs, i) < k, k <= hs[i].age
       PROVE  ws[k] = hs[i].status
  <2>0. i \in DOMAIN history /\ k \in Nat /\ k > 0 /\ AgeAfter(history, i) \in Nat /\ history[i].age \in Nat /\ i \in Nat
    <3>1. Len(ws) \in Nat
      BY <1>8
    <3>2. QED BY <1>2, <1>7, <1>8, <3>1
  <2>1. CASE k = 1
    <3>1. ~ (i < n)
      BY <1>9, <1>11, <2>0, <2>1
    <3>2. i = n
      BY <1>2, <2>0, <3>1
    <3>3. hs[i].status = state
      BY <1>1, <1>3, <1>6, <2>0, <3>2 DEF NewestIsNow, NewestRecord
    <3>4. QED BY <1>8, <2>1, <3>3
  <2>2. CASE k # 1
    <3>1. k - 1 \in DOMAIN was /\ ws[k] = was[k - 1]
      BY <1>8, <2>2
    <3>2. k - 1 <= history[i].age
      BY <1>6, <1>11, <2>0
    <3>3. AgeAfter(history, i) < k - 1
      <4>1. CASE i < n
        BY <1>9, <1>11, <2>0, <4>1
      <4>2. CASE ~ (i < n)
        BY <2>0, <2>2, <4>2 DEF AgeAfter
      <4>3. QED BY <4>1, <4>2
    <3>4. was[k - 1] = history[i].status
      BY <1>1, <2>0, <3>1, <3>2, <3>3 DEF SaysWhatWas
    <3>5. QED BY <1>6, <2>0, <3>1, <3>4
  <2>3. QED BY <2>1, <2>2
<1>12. ASSUME NEW i \in DOMAIN hs PROVE hs[i].age <= Len(ws) \/ Len(ws) = Window
  <2>1. i \in DOMAIN history /\ (history[i].age <= m \/ m = Window)
    BY <1>1, <1>7 DEF SaysWhatWas
  <2>2. m \in Nat /\ Window \in Nat /\ history[i].age \in Nat
    BY <1>1, <1>2, <2>1, WindowIsLong
  <2>3. QED BY <1>1, <1>6, <1>8, <2>1, <2>2
<1>13. SaysWhatWas(history)'
  BY <1>3, <1>10, <1>11, <1>12 DEF SaysWhatWas
<1>14. NewestIsNow'
  <2>1. history' # <<>>
    BY <1>2, <1>3, <1>4, <1>7
  <2>2. NewestRecord' = hs[n]
    BY <1>3, <1>7 DEF NewestRecord
  <2>3. hs[n].age <= Heartbeat /\ hs[n].status = state
    <3>1. hs[n].age = NewestRecord.age + 1 /\ hs[n].status = NewestRecord.status /\ NewestRecord.age \in Nat
      BY <1>2, <1>4, <1>6 DEF NewestRecord
    <3>2. QED BY <1>1, <1>3, <3>1, WindowIsLong DEF NewestIsNow
  <2>4. QED BY <1>3, <2>1, <2>2, <2>3 DEF NewestIsNow
<1>15. UptimeTypeOK'
  <2>1. Len(ws) <= Window /\ Window \in Nat
    BY <1>1, <1>8, WindowIsLong
  <2>2. (hour + 1) % Day \in 0 .. Day - 1
    BY <1>1, WindowIsLong
  <2>3. QED BY <1>1, <1>3, <1>7, <1>8, <2>1, <2>2 DEF UptimeTypeOK, HistoryRows
<1>16. QED
  BY <1>13, <1>14, <1>15 DEF UptimeInv

LEMMA UptimeSteps ==
  ASSUME UptimeInv, [UptimeNext]_uptimeVars
  PROVE  UptimeInv'
<1>1. /\ SaysWhatWas(history) /\ was \in Seq(States) /\ Len(was) <= Window /\ hour \in 0 .. Day - 1
      /\ state \in States /\ NewestIsNow /\ history \in Seq(HistoryRows)
  BY DEF UptimeInv, UptimeTypeOK, SaysWhatWas, Falling
<1>2. \A i \in DOMAIN history : history[i].age \in Nat
  BY <1>1, RowsType
<1>3. history # <<>> => NewestRecord.age \in Nat
  <2>1. history # <<>> => Len(history) \in DOMAIN history
    BY <1>1
  <2>2. QED BY <1>2, <2>1 DEF NewestRecord
<1>4. ASSUME NEW s \in States, history # <<>> => NewestRecord.age > 0,
             history' = Append(history, [status |-> s, age |-> 0]), state' = s, UNCHANGED <<was, hour>>,
             history = <<>> => was = <<>>
      PROVE  UptimeInv'
  <2> DEFINE as == Append(history, [status |-> s, age |-> 0])
  <2>1. SaysWhatWas(as) /\ as # <<>> /\ as[Len(as)] = [status |-> s, age |-> 0]
    BY <1>1, <1>4, AppendSays DEF NewestRecord
  <2> HIDE DEF as
  <2>2. history' = as /\ was' = was /\ state' = s /\ hour' = hour
    BY <1>4 DEF as
  <2>3. SaysWhatWas(history)'
    BY <2>1, <2>2 DEF SaysWhatWas
  <2>4. NewestIsNow'
    <3>1. as[Len(as)].age = 0 /\ as[Len(as)].status = s
      BY <2>1
    <3>2. NewestRecord' = as[Len(as)]
      BY <2>2 DEF NewestRecord
    <3>3. NewestRecord'.age <= Heartbeat /\ NewestRecord'.status = state'
      <4>1. 0 <= Heartbeat
        BY WindowIsLong
      <4>2. QED BY <2>2, <3>1, <3>2, <4>1
    <3>4. QED BY <2>1, <2>2, <3>3 DEF NewestIsNow
  <2>5. UptimeTypeOK'
    BY <1>1, <2>1, <2>2 DEF UptimeTypeOK, SaysWhatWas, Falling, HistoryRows
  <2>6. QED BY <2>3, <2>4, <2>5 DEF UptimeInv
<1>5. CASE Beat
  <2>1. history # <<>> => NewestRecord.age > 0
    BY <1>3, <1>5, WindowIsLong DEF Beat, BeatDue
  <2>2. QED BY <1>1, <1>4, <1>5, <2>1 DEF Beat, Written, NewestIsNow
<1>6. CASE \E s \in States : Becomes(s)
  BY <1>4, <1>6 DEF Becomes
<1>7. CASE Purge
  <2>1. history # <<>> /\ history' = Recent /\ UNCHANGED <<state, was, hour>>
    BY <1>7 DEF Purge
  <2>2. NewestRecord.age <= Window
    BY <1>1, <1>3, <2>1, WindowIsLong DEF NewestIsNow
  <2>3. SaysWhatWas(Recent) /\ Recent # <<>> /\ Recent[Len(Recent)] = NewestRecord
    BY <1>1, <2>1, <2>2, RecentSays
  <2> DEFINE ks == Recent
  <2>4. SaysWhatWas(ks) /\ ks # <<>> /\ ks[Len(ks)] = NewestRecord /\ history' = ks
    BY <2>1, <2>3
  <2> HIDE DEF ks
  <2>5. SaysWhatWas(history)'
    BY <2>1, <2>4 DEF SaysWhatWas
  <2>6. NewestIsNow'
    BY <1>1, <2>1, <2>4 DEF NewestIsNow, NewestRecord
  <2>7. UptimeTypeOK'
    BY <1>1, <2>1, <2>4 DEF UptimeTypeOK, SaysWhatWas, Falling, HistoryRows
  <2>8. QED BY <2>5, <2>6, <2>7 DEF UptimeInv
<1>8. CASE Pass
  BY <1>8, PassSays
<1>9. CASE UNCHANGED uptimeVars
  <2>1. history' = history /\ was' = was /\ state' = state /\ hour' = hour
    BY <1>9 DEF uptimeVars
  <2>2. QED BY <1>1, <2>1 DEF UptimeInv, UptimeTypeOK, SaysWhatWas, NewestIsNow, NewestRecord, HistoryRows
<1>10. QED
  BY <1>5, <1>6, <1>7, <1>8, <1>9 DEF UptimeNext

LEMMA UptimeInvariant == UptimeSpec => []UptimeInv
<1>1. UptimeInit => UptimeInv
  <2> SUFFICES ASSUME UptimeInit PROVE UptimeInv
    OBVIOUS
  <2>1. history = <<>> /\ was = <<>> /\ state = "OFFLINE" /\ hour = 0
    BY DEF UptimeInit
  <2>2. history \in Seq(HistoryRows) /\ DOMAIN history = {} /\ was \in Seq(States) /\ Len(was) = 0 /\ DOMAIN was = {}
    BY <2>1
  <2>3. UptimeTypeOK
    BY <2>1, <2>2, WindowIsLong DEF UptimeTypeOK, States, HistoryRows
  <2>4. QED BY <2>1, <2>2, <2>3 DEF UptimeInv, SaysWhatWas, Falling, NewestIsNow
<1>2. UptimeInv /\ [UptimeNext]_uptimeVars => UptimeInv'
  BY UptimeSteps
<1>3. QED
  BY <1>1, <1>2, PTL DEF UptimeSpec

LEMMA UptimeTypes == UptimeSpec => []UptimeTypeOK
<1>1. UptimeInv => UptimeTypeOK
  BY DEF UptimeInv
<1> QED
  BY <1>1, UptimeInvariant, PTL

(* computeUptimePct and the timeline, for any lengths of a day, the window *)
(* and the heartbeat: no time is counted that the agent was away, all of it *)
(* is while a row reaches back to the window's start, and each day shows   *)
(* the uptime that is counted and the backups that the sum below counts.   *)
THEOREM UptimeIsRight == UptimeSpec => []UptimeAddsUp
BY UptimeInvariant, FiguresAreRight, PTL

-----------------------------------------------------------------------------
(* Dashboard. *)

(* What the parts of an answer owe each other, for a page of that day. *)
GoTogether(data, day) ==
  /\ SumFunction(data.jobs) <= data.total
  /\ data.failed >= Cardinality({i \in DOMAIN data.last :
                                   data.last[i].status = "FAILED" /\ data.last[i].day > day - ChartDays})
  /\ \A d \in BoardDays : d > day - ChartDays =>
       data.days[d] >= Cardinality({i \in DOMAIN data.last : data.last[i].day = d})

(* What an answer says is what the database has now. *)
TotalNow == answer.total = Cardinality({i \in DOMAIN backup : IsCompleted(i)})
LastNow  == answer.last = [i \in NewestRows(LastTaken) |-> backup[i]]
JobsNow  ==
  \A j \in BoardJobs :
    answer.jobs[j] <= Cardinality({i \in DOMAIN backup : JobFor[i] = j /\ IsCompleted(i)})
FailedNow ==
  answer.failed >= Cardinality({i \in DOMAIN backup :
                                  backup[i].status = "FAILED" /\ backup[i].day > today - ChartDays})
DaysNow ==
  \A d \in BoardDays : d > today - ChartDays =>
    answer.days[d] >= Cardinality({i \in DOMAIN backup : backup[i].day = d})

FromNow ==
  /\ "total" \notin asked => TotalNow
  /\ "last" \notin asked => LastNow
  /\ "jobs" \notin asked => JobsNow
  /\ "failed" \notin asked => FailedNow
  /\ "days" \notin asked => DaysNow

BoardInv ==
  /\ BoardTypeOK
  /\ asked # {} => answer.read
  /\ ~torn /\ asked # {} => FromNow
  /\ ~torn /\ asked = {} => GoTogether(answer, today)
  /\ ~board.torn => GoTogether(board.data, board.today)
  /\ Cardinality(DOMAIN answer.last) <= LastTaken
  /\ Cardinality(DOMAIN board.data.last) <= LastTaken
  /\ board.calendar = {} \/ \E ahead \in -1 .. 1 :
       board.calendar = board.today + ahead - ChartDays + 1 .. board.today + ahead

LEMMA BoardBounds ==
  /\ MaxStarts \in Nat /\ MaxDay \in Nat /\ ChartDays \in Nat /\ ChartDays > 0
  /\ LastTaken \in Nat /\ LastTaken < 200
  /\ IsFiniteSet(Starters) /\ Cardinality(Starters) = MaxStarts
  /\ IsFiniteSet(BoardJobs) /\ \A i \in Starters : JobFor[i] \in BoardJobs
<1>1. /\ MaxStarts \in Nat /\ MaxDay \in Nat /\ ChartDays \in Nat /\ ChartDays > 0
      /\ LastTaken \in Nat /\ LastTaken < 200
  BY BoardAssumption
<1>2. IsFiniteSet(Starters) /\ Cardinality(Starters) = MaxStarts
  BY <1>1, CountUpTo DEF Starters
<1>3. IsFiniteSet(BoardJobs)
  <2> DEFINE f == [i \in Starters |-> JobFor[i]]
  <2>1. f \in Surjection(Starters, BoardJobs)
    BY DEF Surjection, BoardJobs
  <2> HIDE DEF f
  <2>2. QED BY <1>2, <2>1, FS_Surjection
<1>4. QED
  BY <1>1, <1>2, <1>3 DEF BoardJobs

LEMMA RowSetIs ==
  ASSUME NEW rs
  PROVE  rs \in RowSets <=> DOMAIN rs \in SUBSET Starters /\ rs \in [DOMAIN rs -> BoardRow]
BY DEF RowSets

LEMMA CountRows ==
  ASSUME NEW S \in SUBSET Starters
  PROVE  IsFiniteSet(S) /\ Cardinality(S) \in 0 .. MaxStarts /\ Cardinality(S) \in Nat
<1>1. IsFiniteSet(S) /\ Cardinality(S) <= MaxStarts
  BY BoardBounds, FS_Subset
<1>2. Cardinality(S) \in Nat
  BY <1>1, FS_CardinalityType
<1>3. QED
  BY <1>1, <1>2, BoardBounds

(* No more rows are taken than were asked for. *)
LEMMA TakenAtMost ==
  ASSUME backup \in RowSets
  PROVE  /\ NewestRows(LastTaken) \in SUBSET DOMAIN backup
         /\ Cardinality(NewestRows(LastTaken)) <= LastTaken
<1> DEFINE S == DOMAIN backup
           N == NewestRows(LastTaken)
           R == {p \in S \X S : p[1] > p[2]}
           f == [i \in N |-> Rank(S, R, i)]
<1>1. S \in SUBSET Starters /\ IsFiniteSet(S) /\ S \in SUBSET Int
  BY RowSetIs, CountRows DEF Starters
<1>2. N \in SUBSET S
  BY DEF NewestRows
<1>3. ASSUME NEW i \in N PROVE Rank(S, R, i) \in 0 .. LastTaken - 1
  <2>1. {k \in S : <<k, i>> \in R} = {k \in S : k > i}
    BY <1>2
  <2>2. Rank(S, R, i) = Cardinality({k \in S : k > i})
    BY <2>1 DEF Rank
  <2>3. Cardinality({k \in S : k > i}) < LastTaken
    BY DEF NewestRows
  <2>4. Cardinality({k \in S : k > i}) \in Nat
    <3>1. {k \in S : k > i} \in SUBSET Starters
      BY <1>1
    <3>2. QED BY <3>1, CountRows
  <2>5. QED BY <2>2, <2>3, <2>4, BoardBounds
<1>4. StrictOrder(S, R)
  BY <1>1 DEF StrictOrder
<1>5. \A i, j \in S : i > j => <<i, j>> \in R
  OBVIOUS
<1> HIDE DEF N, R, S
<1>6. ASSUME NEW i \in N, NEW j \in N, f[i] = f[j] PROVE i = j
  <2>1. i \in S /\ j \in S /\ i \in Int /\ j \in Int
    BY <1>1, <1>2
  <2>2. i > j => Rank(S, R, i) < Rank(S, R, j)
    BY <1>1, <1>4, <1>5, <2>1, RankGrows
  <2>3. j > i => Rank(S, R, j) < Rank(S, R, i)
    BY <1>1, <1>4, <1>5, <2>1, RankGrows
  <2>4. Rank(S, R, i) = Rank(S, R, j) /\ Rank(S, R, i) \in Int
    BY <1>3, <1>6
  <2>5. QED BY <2>1, <2>2, <2>3, <2>4
<1>7. f \in Injection(N, 0 .. LastTaken - 1)
  BY <1>3, <1>6 DEF Injection, IsInjective
<1>8. IsFiniteSet(0 .. LastTaken - 1) /\ Cardinality(0 .. LastTaken - 1) = LastTaken
  <2>1. 0 \in Int /\ LastTaken - 1 \in Int
    BY BoardBounds
  <2>2. QED BY <2>1, FS_Interval, BoardBounds
<1>9. Cardinality(N) <= LastTaken
  <2> HIDE DEF f
  <2> QED BY <1>7, <1>8, FS_Injection
<1>10. QED
  BY <1>2, <1>9 DEF N, S

(* Of sums whose terms are in proportion. *)
LEMMA SumsInProportion ==
  ASSUME NEW S, IsFiniteSet(S), NEW f \in [S -> Nat], NEW g \in [S -> Nat],
         NEW a \in Nat, NEW b \in Nat, \A i \in S : a * f[i] <= b * g[i]
  PROVE  a * SumFunction(f) <= b * SumFunction(g)
<1> DEFINE Fine(T) == a * Cardinality(Cells(f, T)) <= b * Cardinality(Cells(g, T))
           Bad == {T \in SUBSET S : ~Fine(T)}
<1>1. CASE Bad # {}
  <2>1. PICK T \in Bad : \A x \in T : T \ {x} \notin Bad
    <3>1. Bad \in SUBSET (SUBSET S)
      OBVIOUS
    <3> HIDE DEF Bad
    <3>2. QED BY <1>1, <3>1, MinimalSet
  <2>2. CASE T = {}
    <3>1. Cells(f, T) = {} /\ Cells(g, T) = {}
      BY <2>2 DEF Cells
    <3>2. Cardinality(Cells(f, T)) = 0 /\ Cardinality(Cells(g, T)) = 0
      BY <3>1, FS_EmptySet
    <3>3. QED BY <2>1, <3>2
  <2>3. CASE T # {}
    <3>1. PICK x \in T : TRUE
      BY <2>3
    <3>2. T \ {x} \in SUBSET S /\ T \in SUBSET S /\ x \in S /\ ~Fine(T)
      BY <3>1
    <3>3. Fine(T \ {x})
      BY <2>1, <3>1, <3>2
    <3> DEFINE F == Cardinality(Cells(f, T \ {x}))
               G == Cardinality(Cells(g, T \ {x}))
    <3>4. Cardinality(Cells(f, T)) = f[x] + F /\ F \in Nat
      BY <3>1, <3>2, CellsOfOneMore
    <3>5. Cardinality(Cells(g, T)) = g[x] + G /\ G \in Nat
      BY <3>1, <3>2, CellsOfOneMore
    <3>6. f[x] \in Nat /\ g[x] \in Nat /\ a * f[x] <= b * g[x] /\ a * F <= b * G
      BY <3>2, <3>3
    <3>7. ~ (a * (f[x] + F) <= b * (g[x] + G))
      BY <3>2, <3>4, <3>5
    <3> HIDE DEF F, G
    <3>8. a * (f[x] + F) = a * f[x] + a * F /\ b * (g[x] + G) = b * g[x] + b * G
      BY <3>4, <3>5, <3>6
    <3>9. a * f[x] \in Nat /\ a * F \in Nat /\ b * g[x] \in Nat /\ b * G \in Nat
      BY <3>4, <3>5, <3>6
    <3>10. QED BY <3>6, <3>7, <3>8, <3>9
  <2>4. QED BY <2>2, <2>3
<1>2. CASE Bad = {}
  <2>1. Fine(S)
    BY <1>2
  <2>2. SumFunction(f) = Cardinality(Cells(f, S)) /\ SumFunction(g) = Cardinality(Cells(g, S))
    BY SumIsCells
  <2>3. QED BY <2>1, <2>2
<1>3. QED BY <1>1, <1>2

LEMMA AnswerIs ==
  ASSUME NEW a, a \in AnswerType
  PROVE  /\ a.total \in 0 .. MaxStarts /\ a.total \in Nat /\ a.last \in RowSets
         /\ a.days \in [BoardDays -> 0 .. MaxStarts] /\ a.failed \in 0 .. MaxStarts /\ a.failed \in Nat
         /\ a.jobs \in [BoardJobs -> 0 .. MaxStarts] /\ a.jobs \in [BoardJobs -> Nat] /\ a.read \in BOOLEAN
         /\ \A d \in BoardDays : a.days[d] \in Nat
BY BoardBounds DEF AnswerType

(* All that a page shows comes from one state of the database. *)
LEMMA NowGoesTogether ==
  ASSUME BoardTypeOK, FromNow, asked = {}
  PROVE  GoTogether(answer, today)
<1>1. /\ backup \in RowSets /\ DOMAIN backup \in SUBSET Starters /\ today \in Int /\ ChartDays \in Int
  BY RowSetIs, BoardBounds DEF BoardTypeOK, BoardDays
<1>2. /\ answer.total = Cardinality({i \in DOMAIN backup : IsCompleted(i)})
      /\ answer.last = [i \in NewestRows(LastTaken) |-> backup[i]]
      /\ \A j \in BoardJobs :
           answer.jobs[j] <= Cardinality({i \in DOMAIN backup : JobFor[i] = j /\ IsCompleted(i)})
      /\ answer.failed >= Cardinality({i \in DOMAIN backup :
                                       backup[i].status = "FAILED" /\ backup[i].day > today - ChartDays})
      /\ \A d \in BoardDays : d > today - ChartDays =>
           answer.days[d] >= Cardinality({i \in DOMAIN backup : backup[i].day = d})
  BY DEF FromNow, TotalNow, LastNow, JobsNow, FailedNow, DaysNow
<1>3. /\ answer.total \in Nat /\ answer.failed \in Nat /\ answer.jobs \in [BoardJobs -> Nat]
      /\ \A d \in BoardDays : answer.days[d] \in Nat
  BY AnswerIs DEF BoardTypeOK
<1>4. /\ NewestRows(LastTaken) \in SUBSET DOMAIN backup
      /\ DOMAIN answer.last \in SUBSET DOMAIN backup /\ \A i \in DOMAIN answer.last : answer.last[i] = backup[i]
  BY <1>1, <1>2, TakenAtMost
<1>5. SumFunction(answer.jobs) <= answer.total
  <2> DEFINE U == [j \in BoardJobs |-> {i \in DOMAIN backup : JobFor[i] = j /\ IsCompleted(i)}]
             g == [j \in BoardJobs |-> Cardinality(U[j])]
             K == {i \in DOMAIN backup : IsCompleted(i)}
  <2>1. ASSUME NEW j \in BoardJobs PROVE IsFiniteSet(U[j]) /\ g[j] \in Nat
    <3>1. U[j] \in SUBSET Starters
      BY <1>1
    <3>2. QED BY <3>1, CountRows
  <2>2. g \in [BoardJobs -> Nat]
    BY <2>1
  <2>3. \A x : x \in K <=> \E j \in BoardJobs : x \in U[j]
    BY <1>1, BoardBounds
  <2>4. \A j, k \in BoardJobs : j # k => U[j] \cap U[k] = {}
    OBVIOUS
  <2>5. \A j \in BoardJobs : 1 * answer.jobs[j] <= 1 * g[j]
    <3>1. ASSUME NEW j \in BoardJobs PROVE 1 * answer.jobs[j] <= 1 * g[j]
      <4>1. answer.jobs[j] <= g[j] /\ answer.jobs[j] \in Nat /\ g[j] \in Nat
        BY <1>2, <1>3, <2>1
      <4> HIDE DEF g
      <4>2. QED BY <4>1
    <3>2. QED BY <3>1
  <2> HIDE DEF U, K
  <2>6. MadeOf(K, BoardJobs, g, U)
    BY <2>1, <2>3, <2>4 DEF MadeOf
  <2> HIDE DEF g
  <2>7. SumFunction(g) = Cardinality(K)
    BY <2>2, <2>6, BoardBounds, SumOfDisjoint
  <2>8. 1 * SumFunction(answer.jobs) <= 1 * SumFunction(g)
    BY <1>3, <2>2, <2>5, BoardBounds, SumsInProportion
  <2>9. SumFunction(answer.jobs) \in Nat /\ SumFunction(g) \in Nat
    BY <1>3, <2>2, BoardBounds, SumType
  <2>10. SumFunction(g) = answer.total
    BY <1>2, <2>7 DEF K
  <2>11. QED BY <2>8, <2>9, <2>10
<1>6. answer.failed >= Cardinality({i \in DOMAIN answer.last :
        answer.last[i].status = "FAILED" /\ answer.last[i].day > today - ChartDays})
  <2> DEFINE A == {i \in DOMAIN answer.last :
                     answer.last[i].status = "FAILED" /\ answer.last[i].day > today - ChartDays}
             B == {i \in DOMAIN backup : backup[i].status = "FAILED" /\ backup[i].day > today - ChartDays}
  <2>1. A \in SUBSET B /\ B \in SUBSET Starters /\ A \in SUBSET Starters
    BY <1>1, <1>4
  <2>2. answer.failed >= Cardinality(B)
    BY <1>2
  <2> HIDE DEF A, B
  <2>3. Cardinality(A) <= Cardinality(B)
    BY <2>1, CountRows, FS_Subset
  <2>4. Cardinality(A) \in Nat /\ Cardinality(B) \in Nat
    BY <2>1, CountRows
  <2>5. answer.failed >= Cardinality(A)
    BY <1>3, <2>2, <2>3, <2>4
  <2>6. QED BY <2>5 DEF A
<1>7. ASSUME NEW d \in BoardDays, d > today - ChartDays
      PROVE  answer.days[d] >= Cardinality({i \in DOMAIN answer.last : answer.last[i].day = d})
  <2> DEFINE A == {i \in DOMAIN answer.last : answer.last[i].day = d}
             B == {i \in DOMAIN backup : backup[i].day = d}
  <2>1. A \in SUBSET B /\ B \in SUBSET Starters /\ A \in SUBSET Starters
    BY <1>1, <1>4
  <2>2. answer.days[d] >= Cardinality(B)
    BY <1>2, <1>7
  <2> HIDE DEF A, B
  <2>3. Cardinality(A) <= Cardinality(B)
    BY <2>1, CountRows, FS_Subset
  <2>4. Cardinality(A) \in Nat /\ Cardinality(B) \in Nat
    BY <2>1, CountRows
  <2>5. answer.days[d] \in Nat
    BY <1>3
  <2>6. answer.days[d] >= Cardinality(A)
    BY <2>2, <2>3, <2>4, <2>5
  <2>7. QED BY <2>6 DEF A
<1>8. QED
  BY <1>5, <1>6, <1>7 DEF GoTogether

(* It does not matter to an answer that a day begins. *)
LEMMA LaterGoesTogether ==
  ASSUME NEW a \in AnswerType, NEW d \in Int, NEW e \in Int, d <= e, GoTogether(a, d)
  PROVE  GoTogether(a, e)
<1>1. /\ a.failed \in Nat /\ a.last \in RowSets /\ ChartDays \in Int
  BY AnswerIs, BoardBounds
<1>2. /\ DOMAIN a.last \in SUBSET Starters /\ \A i \in DOMAIN a.last : a.last[i].day \in Int
  BY <1>1, RowSetIs, BoardBounds DEF BoardRow, BoardDays
<1> DEFINE A == {i \in DOMAIN a.last : a.last[i].status = "FAILED" /\ a.last[i].day > e - ChartDays}
           B == {i \in DOMAIN a.last : a.last[i].status = "FAILED" /\ a.last[i].day > d - ChartDays}
<1>3. A \in SUBSET B /\ B \in SUBSET Starters /\ A \in SUBSET Starters
  BY <1>1, <1>2
<1>4. a.failed >= Cardinality(B)
  BY DEF GoTogether
<1> HIDE DEF A, B
<1>5. Cardinality(A) <= Cardinality(B)
  BY <1>3, CountRows, FS_Subset
<1>6. Cardinality(A) \in Nat /\ Cardinality(B) \in Nat
  BY <1>3, CountRows
<1>7. a.failed >= Cardinality(A)
  BY <1>1, <1>4, <1>5, <1>6
<1>8. \A x \in BoardDays : x > e - ChartDays => x > d - ChartDays
  BY <1>1, BoardBounds DEF BoardDays
<1>9. QED
  BY <1>7, <1>8 DEF GoTogether, A

LEMMA NothingGoesTogether ==
  /\ NoAnswer \in AnswerType /\ \A d \in Int : GoTogether(NoAnswer, d)
  /\ Cardinality(DOMAIN NoAnswer.last) <= LastTaken
<1>1. /\ NoAnswer.total = 0 /\ DOMAIN NoAnswer.last = {} /\ NoAnswer.last = <<>> /\ NoAnswer.failed = 0
      /\ NoAnswer.days = [d \in BoardDays |-> 0] /\ NoAnswer.jobs = [j \in BoardJobs |-> 0]
      /\ NoAnswer.read = FALSE
  BY DEF NoAnswer
<1>2. Cardinality({}) = 0
  BY FS_EmptySet
<1>3. NoAnswer.last \in RowSets
  <2>1. <<>> \in [{} -> BoardRow]
    OBVIOUS
  <2>2. QED BY <1>1, <2>1 DEF RowSets
<1>4. NoAnswer \in AnswerType
  BY <1>3, BoardBounds DEF AnswerType, NoAnswer
<1>5. SumFunction(NoAnswer.jobs) = 0
  <2> DEFINE f == [j \in BoardJobs |-> 0]
             g == [j \in BoardJobs |-> 1]
  <2>1. f \in [BoardJobs -> Nat] /\ g \in [BoardJobs -> Nat] /\ \A i \in BoardJobs : 1 * f[i] <= 0 * g[i]
    OBVIOUS
  <2>2. NoAnswer.jobs = f
    BY <1>1
  <2> HIDE DEF f, g
  <2>3. 1 * SumFunction(f) <= 0 * SumFunction(g)
    BY <2>1, BoardBounds, SumsInProportion
  <2>4. SumFunction(f) \in Nat /\ SumFunction(g) \in Nat
    BY <2>1, BoardBounds, SumType
  <2>5. 1 * SumFunction(f) = SumFunction(f) /\ 0 * SumFunction(g) = 0
    BY <2>4
  <2>6. QED BY <2>2, <2>3, <2>4, <2>5
<1>6. ASSUME NEW d \in Int PROVE GoTogether(NoAnswer, d)
  <2>1. {i \in DOMAIN NoAnswer.last :
            NoAnswer.last[i].status = "FAILED" /\ NoAnswer.last[i].day > d - ChartDays} = {}
    BY <1>1
  <2>2. \A x \in BoardDays : {i \in DOMAIN NoAnswer.last : NoAnswer.last[i].day = x} = {} /\ NoAnswer.days[x] = 0
    BY <1>1
  <2>3. QED BY <1>1, <1>2, <1>5, <2>1, <2>2 DEF GoTogether
<1>7. QED
  BY <1>1, <1>2, <1>4, <1>6, BoardBounds

-----------------------------------------------------------------------------
LEMMA Divides ==
  ASSUME NEW a \in Int, NEW b \in Int, b > 0
  PROVE  /\ a \div b \in Int /\ b * (a \div b) <= a
         /\ \A n \in Int : 0 <= n /\ n < b /\ a = 100 * b + n => a \div b = 100
<1>1. a \div b \in Int
  OBVIOUS
<1>2. b * (a \div b) <= a
  OBVIOUS
<1>3. ASSUME NEW n \in Int, 0 <= n, n < b, a = 100 * b + n PROVE a \div b = 100
  BY <1>3
<1>4. QED
  BY <1>1, <1>2, <1>3

(* The health card accounts for every backup it is about. *)
LEMMA BreakdownAddsUp ==
  ASSUME RecentBackups \in RowSets
  PROVE  /\ SumFunction([p \in statusBreakdown |-> p[2]]) = Cardinality(DOMAIN RecentBackups)
         /\ Cardinality(DOMAIN RecentBackups) < 200 =>
              (successRate = 100 <=> statusBreakdown = {<<"COMPLETED", Cardinality(DOMAIN RecentBackups)>>})
<1> DEFINE D == DOMAIN RecentBackups
           n == Cardinality(D)
           In(s) == {i \in D : RecentBackups[i].status = s}
           c == InStatus("COMPLETED")
<1>1. D \in SUBSET Starters /\ \A i \in D : RecentBackups[i].status \in RowStatus
  BY RowSetIs DEF BoardRow
<1>2. IsFiniteSet(D) /\ n \in Nat
  BY <1>1, CountRows
<1>3. ASSUME NEW s PROVE IsFiniteSet(In(s)) /\ InStatus(s) = Cardinality(In(s)) /\ InStatus(s) \in Nat /\ In(s) \in SUBSET D
  <2>1. In(s) \in SUBSET Starters /\ InStatus(s) = Cardinality(In(s)) /\ In(s) \in SUBSET D
    BY <1>1 DEF InStatus
  <2>2. QED BY <2>1, CountRows
<1>4. \A s : InStatus(s) = 0 <=> In(s) = {}
  BY <1>3, FS_EmptySet
<1>5. \A p : p \in statusBreakdown <=> \E s \in RowStatus : InStatus(s) > 0 /\ p = <<s, InStatus(s)>>
  BY DEF statusBreakdown
<1>6. SumFunction([p \in statusBreakdown |-> p[2]]) = n
  <2> DEFINE S == statusBreakdown
             f == [p \in S |-> p[2]]
             U == [p \in S |-> In(p[1])]
  <2>1. IsFiniteSet(S)
    <3> DEFINE T == {x \in RowStatus : InStatus(x) > 0}
               g == [x \in T |-> <<x, InStatus(x)>>]
    <3>1. IsFiniteSet({"PENDING", "IN_PROGRESS", "COMPLETED", "FAILED"})
      <4>1. IsFiniteSet({"PENDING"}) /\ IsFiniteSet({"IN_PROGRESS"}) /\ IsFiniteSet({"COMPLETED"}) /\ IsFiniteSet({"FAILED"})
        BY FS_Singleton
      <4>2. IsFiniteSet({"PENDING"} \cup {"IN_PROGRESS"}) /\ IsFiniteSet({"COMPLETED"} \cup {"FAILED"})
        BY <4>1, FS_Union
      <4>3. IsFiniteSet(({"PENDING"} \cup {"IN_PROGRESS"}) \cup ({"COMPLETED"} \cup {"FAILED"}))
        BY <4>2, FS_Union
      <4>4. ({"PENDING"} \cup {"IN_PROGRESS"}) \cup ({"COMPLETED"} \cup {"FAILED"})
              = {"PENDING", "IN_PROGRESS", "COMPLETED", "FAILED"}
        OBVIOUS
      <4>5. QED BY <4>3, <4>4
    <3>2. IsFiniteSet(T)
      <4>1. T \in SUBSET RowStatus /\ IsFiniteSet(RowStatus)
        BY <3>1 DEF RowStatus
      <4> HIDE DEF T
      <4>2. QED BY <4>1, FS_Subset
    <3>3. g \in Surjection(T, S)
      BY DEF Surjection, statusBreakdown
    <3> HIDE DEF g, T, S
    <3>4. QED BY <3>2, <3>3, FS_Surjection
  <2>2. ASSUME NEW p \in S PROVE IsFiniteSet(U[p]) /\ Cardinality(U[p]) = f[p] /\ f[p] \in Nat
    <3>1. PICK s \in RowStatus : p = <<s, InStatus(s)>>
      BY <1>5
    <3>2. U[p] = In(s) /\ f[p] = InStatus(s)
      BY <3>1
    <3>3. QED BY <1>3, <3>2
  <2>3. ASSUME NEW p \in S, NEW q \in S, p # q PROVE U[p] \cap U[q] = {}
    <3>1. PICK s \in RowStatus : p = <<s, InStatus(s)>>
      BY <1>5
    <3>2. PICK t \in RowStatus : q = <<t, InStatus(t)>>
      BY <1>5
    <3>3. s # t
      BY <2>3, <3>1, <3>2
    <3>4. U[p] = In(s) /\ U[q] = In(t)
      BY <3>1, <3>2
    <3>5. QED BY <3>3, <3>4
  <2>4. ASSUME NEW i \in D PROVE \E p \in S : i \in U[p]
    <3> DEFINE s == RecentBackups[i].status
    <3>1. s \in RowStatus /\ i \in In(s)
      BY <1>1
    <3>2. InStatus(s) > 0
      <4>1. InStatus(s) \in Nat /\ InStatus(s) # 0
        BY <1>3, <1>4, <3>1
      <4>2. QED BY <4>1
    <3>3. <<s, InStatus(s)>> \in S
      BY <1>5, <3>1, <3>2
    <3>4. U[<<s, InStatus(s)>>] = In(s)
      BY <3>3
    <3>5. QED BY <3>1, <3>3, <3>4
  <2>5. \A i : i \in D <=> \E p \in S : i \in U[p]
    BY <2>4
  <2>6. f \in [S -> Nat]
    BY <2>2
  <2> HIDE DEF S, U, f, D
  <2>7. MadeOf(D, S, f, U)
    BY <2>2, <2>3, <2>5 DEF MadeOf
  <2>8. SumFunction(f) = Cardinality(D)
    BY <2>1, <2>6, <2>7, SumOfDisjoint
  <2>9. QED BY <2>8 DEF f, S, D
<1>7. c \in Nat /\ c <= n /\ (c = n => In("COMPLETED") = D)
  <2>1. c \in Nat /\ In("COMPLETED") \in SUBSET D /\ c = Cardinality(In("COMPLETED"))
    BY <1>3
  <2> HIDE DEF D
  <2>2. Cardinality(In("COMPLETED")) <= Cardinality(D) /\ (Cardinality(In("COMPLETED")) = Cardinality(D) => In("COMPLETED") = D)
    BY <1>2, <2>1, FS_Subset
  <2>3. QED BY <2>1, <2>2 DEF D
<1>8. statusBreakdown = {<<"COMPLETED", n>>} <=> n > 0 /\ c = n
  <2>0. "COMPLETED" \in RowStatus
    BY DEF RowStatus
  <2>1. ASSUME n > 0, c = n PROVE statusBreakdown = {<<"COMPLETED", n>>}
    <3>1. \A s : s # "COMPLETED" => In(s) = {}
      BY <1>7, <2>1
    <3>2. \A s : s # "COMPLETED" => InStatus(s) = 0
      BY <1>4, <3>1
    <3>3. \A p : p \in statusBreakdown <=> p = <<"COMPLETED", n>>
      BY <1>5, <2>0, <2>1, <3>2
    <3>4. QED BY <3>3
  <2>2. ASSUME statusBreakdown = {<<"COMPLETED", n>>} PROVE n > 0 /\ c = n
    <3>1. <<"COMPLETED", n>> \in statusBreakdown
      BY <2>2
    <3>2. PICK s \in RowStatus : InStatus(s) > 0 /\ <<"COMPLETED", n>> = <<s, InStatus(s)>>
      BY <1>5, <3>1
    <3>3. s = "COMPLETED" /\ n = InStatus(s)
      BY <3>2
    <3>4. QED BY <3>2, <3>3
  <2>3. QED BY <2>1, <2>2
<1>9. n < 200 => (successRate = 100 <=> n > 0 /\ c = n)
  <2>1. successRate = IF n = 0 THEN -1 ELSE (200 * c + n) \div (2 * n)
    BY DEF successRate
  <2> HIDE DEF n, c, D
  <2>2. ASSUME n < 200, n > 0
        PROVE  (200 * c + n) \div (2 * n) = 100 <=> c = n
    <3> DEFINE a == 200 * c + n
               b == 2 * n
               q == a \div b
    <3>1. a \in Nat /\ b \in Nat /\ b > 0
      BY <1>2, <1>7, <2>2
    <3>2. b * q <= a
      BY <3>1, Divides DEF b
    <3>3. ASSUME c = n PROVE q = 100
      <4>1. a = 100 * b + n /\ n < b /\ n >= 0 /\ n \in Int
        BY <1>2, <2>2, <3>3
      <4> HIDE DEF a, b
      <4>2. QED BY <3>1, <4>1, Divides
    <3>4. ASSUME q = 100 PROVE c = n
      <4>1. a >= b * 100
        <5> HIDE DEF a, b, q
        <5>1. QED BY <3>1, <3>2, <3>4
      <4>2. 200 * c + n >= 200 * n
        BY <1>2, <4>1
      <4>3. QED BY <1>2, <1>7, <2>2, <4>2
    <3>5. QED BY <3>3, <3>4
  <2>3. QED BY <1>2, <2>1, <2>2
<1>10. QED
  BY <1>6, <1>8, <1>9

LEMMA BoardIsRight ==
  ASSUME BoardInv
  PROVE  BoardAddsUp
<1> DEFINE data == board.data
           day == board.today
<1>1. data \in AnswerType /\ day \in Int /\ day \in BoardDays /\ RecentBackups = data.last /\ ChartDays \in Int
  BY BoardBounds DEF BoardInv, BoardTypeOK, RecentBackups, BoardDays
<1>2. /\ data.total \in Nat /\ data.failed \in Nat /\ data.jobs \in [BoardJobs -> Nat] /\ data.last \in RowSets
      /\ \A d \in BoardDays : data.days[d] \in Nat
  BY <1>1, AnswerIs
<1>3. DOMAIN data.last \in SUBSET Starters
      /\ \A i \in DOMAIN data.last : data.last[i].day \in Int
  BY <1>2, RowSetIs, BoardBounds DEF BoardRow, BoardDays
<1>4. /\ SumFunction([p \in statusBreakdown |-> p[2]]) = Cardinality(DOMAIN RecentBackups)
      /\ successRate = 100 <=> statusBreakdown = {<<"COMPLETED", Cardinality(DOMAIN RecentBackups)>>}
  <2>1. Cardinality(DOMAIN RecentBackups) < 200
    <3>1. Cardinality(DOMAIN RecentBackups) <= LastTaken
      BY <1>1 DEF BoardInv
    <3>2. Cardinality(DOMAIN RecentBackups) \in Nat
      BY <1>1, <1>3, CountRows
    <3>3. QED BY <3>1, <3>2, BoardBounds
  <2>2. QED BY <1>1, <1>2, <2>1, BreakdownAddsUp
<1>5. ASSUME ~board.torn PROVE GoTogether(data, day)
  BY <1>5 DEF BoardInv
<1>6. ASSUME ~board.torn PROVE SumFunction(StorageByJobChart) <= 100
  <2> DEFINE T == data.total
             f == [j \in BoardJobs |-> IF T > 0 THEN (100 * data.jobs[j]) \div T ELSE 0]
  <2>1. StorageByJobChart = f
    BY DEF StorageByJobChart, StorageUsed
  <2>2. SumFunction(data.jobs) <= T
    BY <1>5, <1>6 DEF GoTogether
  <2>3. SumFunction(data.jobs) \in Nat
    BY <1>2, BoardBounds, SumType
  <2>4. ASSUME NEW j \in BoardJobs PROVE f[j] \in Nat /\ T * f[j] <= 100 * data.jobs[j]
    <3>1. data.jobs[j] \in Nat /\ 100 * data.jobs[j] \in Nat /\ T \in Nat
      BY <1>2
    <3>2. CASE T > 0
      <4>1. f[j] = (100 * data.jobs[j]) \div T
        BY <3>2
      <4> DEFINE a == 100 * data.jobs[j]
                 q == a \div T
      <4>2. a \in Nat
        BY <3>1
      <4> HIDE DEF a, T, f
      <4>3. a \div T \in Int /\ T * (a \div T) <= a
        BY <3>1, <3>2, <4>2, Divides
      <4>4. a \div T >= 0
        BY <3>1, <3>2, <4>2
      <4>5. QED BY <4>1, <4>3, <4>4 DEF a
    <3>3. CASE T = 0
      <4>1. f[j] = 0
        BY <3>3
      <4>2. QED BY <3>1, <3>3, <4>1
    <3>4. QED BY <3>1, <3>2, <3>3
  <2>5. f \in [BoardJobs -> Nat]
    BY <2>4
  <2> HIDE DEF f
  <2>6. SumFunction(f) \in Nat
    BY <2>5, BoardBounds, SumType
  <2>7. CASE T > 0
    <3>1. T * SumFunction(f) <= 100 * SumFunction(data.jobs)
      BY <1>2, <2>4, <2>5, BoardBounds, SumsInProportion
    <3> DEFINE x == SumFunction(f)
               y == SumFunction(data.jobs)
    <3>2. x \in Nat /\ y \in Nat /\ T \in Nat /\ T > 0 /\ T * x <= 100 * y /\ y <= T
      BY <1>2, <2>2, <2>3, <2>6, <2>7, <3>1
    <3> HIDE DEF x, y, T
    <3>3. x > 100 => T * x >= T * 101
      <4>1. ASSUME x > 100 PROVE T * x >= T * 101
        <5>1. x - 101 \in Nat
          BY <3>2, <4>1
        <5>2. T * (x - 101) \in Nat
          BY <3>2, <5>1
        <5>3. T * (x - 101) = T * x - T * 101
          BY <3>2
        <5>4. T * x \in Int /\ T * 101 \in Int
          BY <3>2
        <5>5. QED BY <5>2, <5>3, <5>4
      <4>2. QED BY <4>1
    <3>4. T * x \in Int /\ T * 101 = 100 * T + T
      BY <3>2
    <3>5. x <= 100
      BY <3>2, <3>3, <3>4
    <3>6. QED BY <2>1, <3>5 DEF x
  <2>8. CASE T = 0
    <3> DEFINE g == [j \in BoardJobs |-> 1]
    <3>0. \A j \in BoardJobs : f[j] = 0
      BY <2>8 DEF f
    <3>1. g \in [BoardJobs -> Nat] /\ \A j \in BoardJobs : 1 * f[j] <= 0 * g[j]
      BY <3>0
    <3> HIDE DEF g
    <3>2. 1 * SumFunction(f) <= 0 * SumFunction(g)
      BY <2>5, <3>1, BoardBounds, SumsInProportion
    <3>3. SumFunction(g) \in Nat
      BY <3>1, BoardBounds, SumType
    <3>4. 1 * SumFunction(f) = SumFunction(f) /\ 0 * SumFunction(g) = 0
      BY <2>6, <3>3
    <3>5. SumFunction(f) <= 100
      BY <2>6, <3>2, <3>4
    <3>6. QED BY <2>1, <3>5
  <2>9. QED BY <1>2, <2>7, <2>8
<1>7. ASSUME ~board.torn
      PROVE  LET Counts(r) == r.status = "FAILED" /\ r.day > board.today - ChartDays
             IN FailedCard >= CountListed(Counts)
  BY <1>1, <1>5, <1>7 DEF GoTogether, FailedCard, CountListed
<1>8. ASSUME ~board.torn, board.today \in board.calendar, board.today + 1 \notin board.calendar,
             NEW d \in BoardDays \cap (board.today - ChartDays + 1 .. board.today)
      PROVE  LET IsOfDay(r) == r.day = d
             IN d \in board.calendar /\ BackupDayChart[d] >= CountListed(IsOfDay)
  <2>1. PICK ahead \in -1 .. 1 : board.calendar = day + ahead - ChartDays + 1 .. day + ahead
    BY <1>8 DEF BoardInv
  <2>2. ahead = 0
    <3>1. ahead \in Int /\ day \in day + ahead - ChartDays + 1 .. day + ahead
          /\ day + 1 \notin day + ahead - ChartDays + 1 .. day + ahead
      BY <1>8, <2>1
    <3>2. ahead \in {-1, 0, 1}
      BY <2>1
    <3> HIDE DEF day
    <3>3. QED BY <1>1, <3>1, <3>2, BoardBounds
  <2>3. d \in board.calendar /\ d \in Int /\ d > day - ChartDays
    BY <1>1, <2>1, <2>2
  <2>4. BackupDayChart[d] = data.days[d]
    BY <2>3 DEF BackupDayChart
  <2>5. data.days[d] >= Cardinality({i \in DOMAIN data.last : data.last[i].day = d})
    BY <1>5, <1>8, <2>3 DEF GoTogether
  <2>6. QED BY <1>1, <2>3, <2>4, <2>5 DEF CountListed
<1>9. QED
  BY <1>4, <1>6, <1>7, <1>8 DEF BoardAddsUp

-----------------------------------------------------------------------------
(* The steps. *)
LEMMA DatabaseSteps ==
  ASSUME BoardInv, DatabaseMoves, started' \in 0 .. MaxStarts, backup' \in RowSets,
         kept' \subseteq BoardJobs, today' \in BoardDays, today <= today'
  PROVE  BoardInv'
<1>1. /\ torn' = (torn \/ asked \notin {{}, BoardQueries})
      /\ asked' = asked /\ answer' = answer /\ board' = board
  BY DEF DatabaseMoves
<1>2. BoardTypeOK /\ today \in Int /\ today' \in Int
  BY BoardBounds DEF BoardInv, BoardTypeOK, BoardDays
<1>3. BoardTypeOK'
  BY <1>1, <1>2 DEF BoardTypeOK
<1>4. ~torn' /\ asked' # {} => FromNow'
  BY <1>1 DEF FromNow, BoardQueries
<1>5. ~torn' /\ asked' = {} => GoTogether(answer', today')
  <2>1. SUFFICES ASSUME ~torn', asked' = {} PROVE GoTogether(answer, today')
    BY <1>1
  <2>2. GoTogether(answer, today)
    BY <1>1, <2>1 DEF BoardInv
  <2>3. answer \in AnswerType
    BY <1>2 DEF BoardTypeOK
  <2>4. QED BY <1>2, <2>2, <2>3, LaterGoesTogether
<1>6. /\ asked' # {} => answer'.read
      /\ ~board'.torn => GoTogether(board'.data, board'.today)
      /\ Cardinality(DOMAIN answer'.last) <= LastTaken
      /\ Cardinality(DOMAIN board'.data.last) <= LastTaken
      /\ board'.calendar = {} \/ \E ahead \in -1 .. 1 :
           board'.calendar = board'.today + ahead - ChartDays + 1 .. board'.today + ahead
  BY <1>1 DEF BoardInv
<1>7. QED
  BY <1>3, <1>4, <1>5, <1>6 DEF BoardInv

LEMMA QuerySteps ==
  ASSUME BoardInv, NEW q \in BoardQueries, QueryAnswered(q)
  PROVE  BoardInv'
<1>1. /\ q \in asked /\ asked' = asked \ {q}
      /\ started' = started /\ backup' = backup /\ kept' = kept /\ today' = today
      /\ torn' = torn /\ board' = board
  BY DEF QueryAnswered, worldOfBoard
<1>2. /\ BoardTypeOK /\ answer \in AnswerType /\ backup \in RowSets /\ today \in Int
      /\ asked \subseteq BoardQueries /\ answer.read
  BY <1>1, BoardBounds DEF BoardInv, BoardTypeOK, BoardDays
<1>3. /\ DOMAIN backup \in SUBSET Starters /\ backup \in [DOMAIN backup -> BoardRow]
  BY <1>2, RowSetIs
<1>4. \A S \in SUBSET DOMAIN backup : Cardinality(S) \in 0 .. MaxStarts
  BY <1>3, CountRows
<1> DEFINE Fit ==
      /\ answer' \in AnswerType /\ answer'.read
      /\ Cardinality(DOMAIN answer'.last) <= LastTaken
      /\ ~torn => FromNow'
<1>5. Cardinality(DOMAIN answer.last) <= LastTaken /\ (~torn => FromNow)
  BY <1>1 DEF BoardInv
<1>k. /\ answer'.total = answer.total /\ TotalNow => TotalNow'
      /\ answer'.last = answer.last /\ LastNow => LastNow'
      /\ answer'.jobs = answer.jobs /\ JobsNow => JobsNow'
      /\ answer'.failed = answer.failed /\ FailedNow => FailedNow'
      /\ answer'.days = answer.days /\ DaysNow => DaysNow'
  BY <1>1 DEF TotalNow, LastNow, JobsNow, FailedNow, DaysNow, IsCompleted, NewestRows
<1>6. ASSUME q = "total", TotalStored PROVE Fit
  <2> DEFINE x == Cardinality({i \in DOMAIN backup : IsCompleted(i)})
  <2>1. answer' = [answer EXCEPT !.total = x]
    BY <1>6 DEF TotalStored, Quantify
  <2>2. x \in 0 .. MaxStarts
    BY <1>4
  <2>3. x' = x
    BY <1>1 DEF IsCompleted
  <2>4. answer' \in AnswerType /\ answer'.read /\ answer'.last = answer.last /\ answer'.total = x
        /\ answer'.jobs = answer.jobs /\ answer'.failed = answer.failed /\ answer'.days = answer.days
    <3> HIDE DEF x
    <3> QED BY <1>2, <2>1, <2>2 DEF AnswerType
  <2>5. ~torn => FromNow'
    <3>1. TotalNow'
      BY <2>3, <2>4 DEF TotalNow
    <3> HIDE DEF x
    <3>2. QED BY <1>1, <1>5, <1>6, <1>k, <2>4, <3>1 DEF FromNow
  <2>6. QED BY <1>5, <2>4, <2>5
<1>7. ASSUME q = "last", LastRows PROVE Fit
  <2> DEFINE x == [i \in NewestRows(LastTaken) |-> backup[i]]
  <2>1. answer' = [answer EXCEPT !.last = x]
    BY <1>7 DEF LastRows
  <2>2. x \in RowSets /\ Cardinality(DOMAIN x) <= LastTaken
    <3>1. NewestRows(LastTaken) \in SUBSET DOMAIN backup /\ Cardinality(NewestRows(LastTaken)) <= LastTaken
      BY <1>2, TakenAtMost
    <3>2. x \in [NewestRows(LastTaken) -> BoardRow]
      BY <1>3, <3>1
    <3>3. DOMAIN x = NewestRows(LastTaken)
      OBVIOUS
    <3> HIDE DEF x
    <3>4. QED BY <1>3, <3>1, <3>2, <3>3, RowSetIs
  <2>3. x' = x
    BY <1>1 DEF NewestRows
  <2>4. answer' \in AnswerType /\ answer'.read /\ answer'.last = x /\ answer'.total = answer.total
        /\ answer'.jobs = answer.jobs /\ answer'.failed = answer.failed /\ answer'.days = answer.days
    <3> HIDE DEF x
    <3> QED BY <1>2, <2>1, <2>2 DEF AnswerType
  <2>5. ~torn => FromNow'
    <3>1. LastNow'
      BY <2>3, <2>4 DEF LastNow
    <3> HIDE DEF x
    <3>2. QED BY <1>1, <1>5, <1>7, <1>k, <2>4, <3>1 DEF FromNow
  <2>6. QED BY <2>2, <2>4, <2>5
<1>8. ASSUME q = "jobs", StorageByJob PROVE Fit
  <2> DEFINE c(j) == Cardinality({i \in DOMAIN backup : JobFor[i] = j /\ IsCompleted(i)})
             x == [j \in BoardJobs |-> IF j \in kept THEN c(j) ELSE 0]
  <2>1. answer' = [answer EXCEPT !.jobs = x]
    BY <1>8 DEF StorageByJob, Quantify
  <2>2. \A j \in BoardJobs : c(j) \in 0 .. MaxStarts /\ x[j] \in 0 .. MaxStarts /\ x[j] <= c(j)
    <3>1. ASSUME NEW j \in BoardJobs PROVE c(j) \in 0 .. MaxStarts
      BY <1>4
    <3> HIDE DEF c
    <3>2. QED BY <3>1, BoardBounds
  <2>3. x \in [BoardJobs -> 0 .. MaxStarts]
    <3>1. x = [j \in BoardJobs |-> x[j]]
      OBVIOUS
    <3> HIDE DEF x, c
    <3>2. QED BY <2>2, <3>1
  <2>4. \A j \in BoardJobs : c(j)' = c(j)
    BY <1>1 DEF IsCompleted
  <2>5. answer' \in AnswerType /\ answer'.read /\ answer'.last = answer.last /\ answer'.total = answer.total
        /\ answer'.jobs = x /\ answer'.failed = answer.failed /\ answer'.days = answer.days
    <3> HIDE DEF x
    <3> QED BY <1>2, <2>1, <2>3 DEF AnswerType
  <2>6. \A j \in BoardJobs : answer'.jobs[j] <= c(j)'
    <3> HIDE DEF x, c
    <3> QED BY <2>2, <2>4, <2>5
  <2>7. ~torn => FromNow'
    <3>1. JobsNow'
      BY <2>6 DEF JobsNow
    <3> HIDE DEF x, c
    <3>2. QED BY <1>1, <1>5, <1>8, <1>k, <2>5, <3>1 DEF FromNow
  <2>8. QED BY <1>5, <2>5, <2>7
<1>9. ASSUME q = "failed", \E out \in SUBSET DOMAIN backup : FailedLately(out) PROVE Fit
  <2>1. PICK out \in SUBSET DOMAIN backup : FailedLately(out)
    BY <1>9
  <2> DEFINE X == {i \in DOMAIN backup : backup[i].status = "FAILED" /\ Lately(out, i)}
             Y == {i \in DOMAIN backup : backup[i].status = "FAILED" /\ backup[i].day > today - ChartDays}
  <2>2. answer' = [answer EXCEPT !.failed = Cardinality(X)]
    BY <2>1 DEF FailedLately, Quantify
  <2>3. Cardinality(X) \in 0 .. MaxStarts /\ Cardinality(Y) \in 0 .. MaxStarts
    BY <1>4
  <2>4. Cardinality(X) >= Cardinality(Y)
    <3>1. Y \in SUBSET X /\ X \in SUBSET Starters
      BY <1>3 DEF Lately
    <3> HIDE DEF X, Y
    <3>2. Cardinality(Y) <= Cardinality(X)
      BY <3>1, CountRows, FS_Subset
    <3>3. QED BY <2>3, <3>2, BoardBounds
  <2>5. Y' = Y
    BY <1>1
  <2>6. answer' \in AnswerType /\ answer'.read /\ answer'.last = answer.last /\ answer'.total = answer.total
        /\ answer'.jobs = answer.jobs /\ answer'.failed = Cardinality(X) /\ answer'.days = answer.days
    <3> HIDE DEF X
    <3> QED BY <1>2, <2>2, <2>3 DEF AnswerType
  <2>7. ~torn => FromNow'
    <3>1. FailedNow'
      BY <2>4, <2>5, <2>6 DEF FailedNow
    <3> HIDE DEF X, Y
    <3>2. QED BY <1>1, <1>5, <1>9, <1>k, <2>6, <3>1 DEF FromNow
  <2>8. QED BY <1>5, <2>6, <2>7
<1>10. ASSUME q = "days", \E out \in SUBSET DOMAIN backup : ByDay(out) PROVE Fit
  <2>1. PICK out \in SUBSET DOMAIN backup : ByDay(out)
    BY <1>10
  <2> DEFINE X(d) == {i \in DOMAIN backup : backup[i].day = d /\ Lately(out, i)}
             Y(d) == {i \in DOMAIN backup : backup[i].day = d}
             x == [d \in BoardDays |-> Cardinality(X(d))]
  <2>2. answer' = [answer EXCEPT !.days = x]
    BY <2>1 DEF ByDay, Quantify
  <2>3. \A d \in BoardDays : Cardinality(X(d)) \in 0 .. MaxStarts
    BY <1>4
  <2>4. ASSUME NEW d \in BoardDays, d > today - ChartDays PROVE X(d) = Y(d)
    BY <2>4 DEF Lately
  <2>5. x \in [BoardDays -> 0 .. MaxStarts] /\ \A d \in BoardDays : x[d] = Cardinality(X(d))
    <3> HIDE DEF X
    <3> QED BY <2>3
  <2>6. answer' \in AnswerType /\ answer'.read /\ answer'.last = answer.last /\ answer'.total = answer.total
        /\ answer'.jobs = answer.jobs /\ answer'.failed = answer.failed /\ answer'.days = x
    <3> HIDE DEF x
    <3> QED BY <1>2, <2>2, <2>5 DEF AnswerType
  <2>7. ASSUME NEW d \in BoardDays, d > today' - ChartDays
        PROVE  answer'.days[d] >= Cardinality({i \in DOMAIN backup' : backup'[i].day = d})
    <3>1. X(d) = Y(d) /\ {i \in DOMAIN backup' : backup'[i].day = d} = Y(d)
      BY <1>1, <2>4, <2>7
    <3>2. Cardinality(X(d)) \in Int /\ answer'.days[d] = Cardinality(X(d))
      BY <2>3, <2>5, <2>6, BoardBounds
    <3>3. Cardinality({i \in DOMAIN backup' : backup'[i].day = d}) = Cardinality(X(d))
      BY <3>1
    <3> HIDE DEF X, Y, x
    <3>4. QED BY <3>2, <3>3
  <2>8. ~torn => FromNow'
    <3>1. DaysNow'
      BY <2>7 DEF DaysNow
    <3> HIDE DEF X, Y, x
    <3>2. QED BY <1>1, <1>5, <1>10, <1>k, <2>6, <3>1 DEF FromNow
  <2>9. QED BY <1>5, <2>6, <2>8
<1>11. Fit
  <2>1. \/ q = "total" /\ TotalStored
        \/ q = "last" /\ LastRows
        \/ q = "jobs" /\ StorageByJob
        \/ q \in {"days", "failed"} /\
             \E out \in SUBSET DOMAIN backup : IF q = "days" THEN ByDay(out) ELSE FailedLately(out)
    BY DEF QueryAnswered
  <2>0. CASE q \in {"days", "failed"} /\
             \E out \in SUBSET DOMAIN backup : IF q = "days" THEN ByDay(out) ELSE FailedLately(out)
    <3>1. \/ q = "days" /\ \E out \in SUBSET DOMAIN backup : ByDay(out)
          \/ q = "failed" /\ \E out \in SUBSET DOMAIN backup : FailedLately(out)
      BY <2>0
    <3> HIDE DEF Fit
    <3>2. QED BY <1>9, <1>10, <3>1
  <2> HIDE DEF Fit
  <2>2. QED BY <2>0, <1>6, <1>7, <1>8, <1>9, <1>10, <2>1
<1>12. BoardTypeOK'
  BY <1>1, <1>2, <1>11 DEF BoardTypeOK
<1>13. ~torn' /\ asked' = {} => GoTogether(answer', today')
  <2>1. SUFFICES ASSUME ~torn', asked' = {} PROVE GoTogether(answer, today)'
    OBVIOUS
  <2>2. FromNow' /\ BoardTypeOK' /\ asked' = {}
    BY <1>1, <1>11, <1>12, <2>1
  <2>3. (BoardTypeOK /\ FromNow /\ asked = {} => GoTogether(answer, today))'
    BY NowGoesTogether, PTL
  <2>4. QED BY <2>2, <2>3
<1>14. QED
  BY <1>1, <1>11, <1>12, <1>13 DEF BoardInv

LEMMA BoardSteps ==
  ASSUME BoardInv, [BoardNext]_boardVars
  PROVE  BoardInv'
<1>1. /\ started \in 0 .. MaxStarts /\ backup \in RowSets /\ kept \subseteq BoardJobs
      /\ today \in BoardDays /\ today \in Int /\ BoardDays \in SUBSET Int
      /\ asked \subseteq BoardQueries /\ answer \in AnswerType /\ torn \in BOOLEAN
  BY BoardBounds DEF BoardInv, BoardTypeOK, BoardDays
<1>2. DOMAIN backup \in SUBSET Starters /\ backup \in [DOMAIN backup -> BoardRow]
  BY <1>1, RowSetIs
<1>3. ASSUME NEW i \in Starters, RowStarts(i) PROVE BoardInv'
  <2> DEFINE new == [k \in DOMAIN backup \cup {i} |->
               IF k = i THEN [status |-> "PENDING", day |-> today] ELSE backup[k]]
  <2>1. started' = i /\ backup' = new /\ DatabaseMoves /\ kept' = kept /\ today' = today
    BY <1>3 DEF RowStarts
  <2>2. [status |-> "PENDING", day |-> today] \in BoardRow
    BY <1>1 DEF BoardRow, RowStatus
  <2>3. new \in [DOMAIN backup \cup {i} -> BoardRow] /\ DOMAIN new = DOMAIN backup \cup {i}
        /\ DOMAIN backup \cup {i} \in SUBSET Starters
    BY <1>2, <2>2
  <2> HIDE DEF new
  <2>4. new \in RowSets
    BY <2>3, RowSetIs
  <2>5. i \in 0 .. MaxStarts
    BY BoardBounds DEF Starters
  <2>6. QED BY <1>1, <2>1, <2>4, <2>5, DatabaseSteps
<1>4. ASSUME NEW i \in Starters, RowPruned(i) PROVE BoardInv'
  <2> DEFINE new == [k \in DOMAIN backup \ {i} |-> backup[k]]
  <2>1. started' = started /\ backup' = new /\ DatabaseMoves /\ kept' = kept /\ today' = today
    BY <1>4 DEF RowPruned
  <2>2. new \in [DOMAIN backup \ {i} -> BoardRow] /\ DOMAIN new = DOMAIN backup \ {i}
        /\ DOMAIN backup \ {i} \in SUBSET Starters
    BY <1>2
  <2> HIDE DEF new
  <2>3. new \in RowSets
    BY <2>2, RowSetIs
  <2>4. QED BY <1>1, <2>1, <2>3, DatabaseSteps
<1>5. ASSUME NEW i \in Starters, NEW s \in RowStatus, RowBecomes(i, s) PROVE BoardInv'
  <2> DEFINE new == [backup EXCEPT ![i].status = s]
  <2>1. i \in DOMAIN backup /\ started' = started /\ backup' = new /\ DatabaseMoves /\ kept' = kept /\ today' = today
    BY <1>5 DEF RowBecomes
  <2>2. new \in [DOMAIN backup -> BoardRow] /\ DOMAIN new = DOMAIN backup
    BY <1>2, <2>1 DEF BoardRow
  <2> HIDE DEF new
  <2>3. new \in RowSets
    BY <1>2, <2>2, RowSetIs
  <2>4. QED BY <1>1, <2>1, <2>3, DatabaseSteps
<1>6. ASSUME NEW j \in BoardJobs, JobGoes(j) PROVE BoardInv'
  <2>1. DatabaseMoves /\ started' = started /\ backup' = backup /\ today' = today /\ kept' \subseteq BoardJobs
    BY <1>1, <1>6 DEF JobGoes
  <2>2. QED BY <1>1, <2>1, DatabaseSteps
<1>7. CASE DatabaseMidnight
  <2>1. DatabaseMoves /\ started' = started /\ backup' = backup /\ kept' = kept /\ today' \in BoardDays /\ today <= today'
    BY <1>1, <1>7, BoardBounds DEF DatabaseMidnight, BoardDays
  <2>2. QED BY <1>1, <2>1, DatabaseSteps
<1>8. CASE AskBoard
  <2>1. /\ asked' = BoardQueries /\ torn' = FALSE /\ answer' = [NoAnswer EXCEPT !.read = TRUE]
        /\ started' = started /\ backup' = backup /\ kept' = kept /\ today' = today /\ board' = board
    BY <1>8 DEF AskBoard, worldOfBoard
  <2>2. answer' \in AnswerType /\ answer'.read /\ answer'.last = NoAnswer.last
    BY <2>1, NothingGoesTogether DEF AnswerType
  <2>3. FromNow' /\ asked' # {}
    BY <2>1 DEF FromNow, BoardQueries
  <2>4. BoardTypeOK'
    BY <2>1, <2>2 DEF BoardInv, BoardTypeOK
  <2>5. Cardinality(DOMAIN answer'.last) <= LastTaken
    BY <2>2, NothingGoesTogether
  <2>6. QED BY <2>1, <2>2, <2>3, <2>4, <2>5 DEF BoardInv
<1>9. CASE SetData
  <2>1. PICK ahead \in -1 .. 1 :
          board' = [data |-> answer, calendar |-> getLast7Days(ahead), today |-> today, torn |-> torn]
    BY <1>9 DEF SetData
  <2>2. /\ asked = {} /\ asked' = {} /\ answer' = NoAnswer /\ torn' = FALSE
        /\ started' = started /\ backup' = backup /\ kept' = kept /\ today' = today
    BY <1>9 DEF SetData, worldOfBoard
  <2>3. getLast7Days(ahead) = today + ahead - ChartDays + 1 .. today + ahead
    BY DEF getLast7Days
  <2>4. getLast7Days(ahead) \in SUBSET (-ChartDays .. MaxDay + 1)
    <3>1. today \in 0 .. MaxDay /\ ahead \in Int /\ ahead >= -1 /\ ahead <= 1
      BY <1>1 DEF BoardDays
    <3>2. QED BY <2>3, <3>1, BoardBounds
  <2> DEFINE cal == getLast7Days(ahead)
  <2> HIDE DEF cal
  <2>5. /\ board'.data = answer /\ board'.calendar = cal /\ board'.today = today /\ board'.torn = torn
        /\ board' \in [data: AnswerType, calendar: SUBSET (-ChartDays .. MaxDay + 1),
                today: BoardDays, torn: BOOLEAN]
    BY <1>1, <2>1, <2>4 DEF cal
  <2>6. BoardTypeOK'
    BY <1>1, <2>2, <2>5, NothingGoesTogether DEF BoardTypeOK
  <2>7. ~torn => GoTogether(answer, today)
    BY <2>2 DEF BoardInv
  <2>8. Cardinality(DOMAIN answer.last) <= LastTaken
    BY DEF BoardInv
  <2>9. GoTogether(answer', today')
    BY <1>1, <2>2, NothingGoesTogether
  <2>10. ~board'.torn => GoTogether(board'.data, board'.today)
    BY <2>5, <2>7
  <2>11. \E x \in -1 .. 1 : board'.calendar = board'.today + x - ChartDays + 1 .. board'.today + x
    BY <2>3, <2>5 DEF cal
  <2>12. QED BY <2>2, <2>5, <2>6, <2>8, <2>9, <2>10, <2>11, NothingGoesTogether DEF BoardInv
<1>10. ASSUME NEW q \in BoardQueries, QueryAnswered(q) PROVE BoardInv'
  BY <1>10, QuerySteps
<1>11. CASE UNCHANGED boardVars
  BY <1>11 DEF boardVars, BoardInv, BoardTypeOK, FromNow, TotalNow, LastNow, JobsNow, FailedNow, DaysNow, NewestRows, IsCompleted
<1>12. QED
  BY <1>3, <1>4, <1>5, <1>6, <1>7, <1>8, <1>9, <1>10, <1>11 DEF BoardNext

LEMMA BoardInvariant == BoardSpec => []BoardInv
<1>1. BoardInit => BoardInv
  <2> SUFFICES ASSUME BoardInit PROVE BoardInv
    OBVIOUS
  <2>1. /\ started = 0 /\ backup = <<>> /\ kept = BoardJobs /\ today = 0
        /\ asked = {} /\ answer = NoAnswer /\ torn = FALSE /\ board = NoBoard
    BY DEF BoardInit
  <2>2. backup \in RowSets
    <3>1. <<>> \in [{} -> BoardRow]
      OBVIOUS
    <3>2. QED BY <2>1, <3>1 DEF RowSets
  <2>3. /\ board.data = NoAnswer /\ board.calendar = {} /\ board.today = 0
        /\ board \in [data: AnswerType, calendar: SUBSET (-ChartDays .. MaxDay + 1),
                today: BoardDays, torn: BOOLEAN]
    BY <2>1, NothingGoesTogether, BoardBounds DEF NoBoard, BoardDays
  <2>4. BoardTypeOK
    <3>1. 0 \in 0 .. MaxStarts /\ 0 \in BoardDays
      BY BoardBounds DEF BoardDays
    <3>2. asked \subseteq BoardQueries /\ kept \subseteq BoardJobs /\ torn \in BOOLEAN /\ answer \in AnswerType
      BY <2>1, NothingGoesTogether
    <3>3. QED BY <2>1, <2>2, <2>3, <3>1, <3>2 DEF BoardTypeOK
  <2>5. QED BY <2>1, <2>3, <2>4, NothingGoesTogether DEF BoardInv
<1>2. BoardInv /\ [BoardNext]_boardVars => BoardInv'
  BY BoardSteps
<1>3. QED
  BY <1>1, <1>2, PTL DEF BoardSpec

LEMMA BoardTypes == BoardSpec => []BoardTypeOK
<1>1. BoardInv => BoardTypeOK
  BY DEF BoardInv
<1> QED
  BY <1>1, BoardInvariant, PTL

(* The dashboard, for any backups, jobs and days: the health card accounts *)
(* for every backup it lists, and unless the database changed between the  *)
(* queries the figures that are shown beside one another go together.      *)
THEOREM BoardGoesTogether == BoardSpec => []BoardAddsUp
BY BoardInvariant, BoardIsRight, PTL

-----------------------------------------------------------------------------
(* AgentStatusHistory. *)

(* A callback under way has a status to record, and so has one that another *)
(* record follows: what recordStatus inserts is always a status.            *)
HasAStatus == \A w \in Writers : writer[w].pc # "free" => writer[w].status \in Status

StatusInv == StatusTypeOK /\ HasAStatus

LEMMA StatusSteps == StatusInv /\ [StatusNext]_statusVars => StatusInv'
<1> SUFFICES ASSUME StatusInv, [StatusNext]_statusVars PROVE StatusInv'
  OBVIOUS
<1> USE DEF StatusInv, StatusTypeOK, HasAStatus, Status, Connectivity
<1>1. CASE TrackingStarts
  BY <1>1 DEF TrackingStarts
<1>2. CASE Reports
  BY <1>2 DEF Reports
<1>3. CASE Snapshot
  <2>1. CASE SnapshotStart
    BY <2>1 DEF SnapshotStart
  <2>2. CASE SnapshotActive
    BY <2>2 DEF SnapshotActive
  <2>3. CASE SnapshotOfflineRead
    BY <2>3 DEF SnapshotOfflineRead
  <2>4. CASE SnapshotOffline
    BY <2>4 DEF SnapshotOffline
  <2> QED
    BY <1>3, <2>1, <2>2, <2>3, <2>4 DEF Snapshot
<1>4. ASSUME NEW w \in Writers, Connects(w) \/ Disconnects(w) \/ BackupStatus(w)
      PROVE  StatusInv'
  <2>1. \A status \in Status, then \in {Connectivity, NoStatus} :
          Records(w, status, then) =>
            /\ writer' \in [Writers -> [pc: {"free", "find", "create"},
                                 status: Status \cup {NoStatus}, then: {Connectivity, NoStatus}]]
            /\ HasAStatus'
    BY DEF Records
  <2>2. CASE Connects(w)
    <3>1. Records(w, "ONLINE", NoStatus)
      BY <2>2 DEF Connects
    <3> QED
      BY <2>1, <2>2, <3>1 DEF Connects
  <2>3. CASE Disconnects(w)
    <3>1. Records(w, "OFFLINE", NoStatus)
      BY <2>3 DEF Disconnects
    <3> QED
      BY <2>1, <2>3, <3>1 DEF Disconnects
  <2>4. CASE BackupStatus(w)
    <3>1. ConnectivityNow \in Status
      BY DEF ConnectivityNow
    <3>2. \E status \in Status, then \in {Connectivity, NoStatus} : Records(w, status, then)
      BY <2>4, <3>1 DEF BackupStatus
    <3> QED
      BY <2>1, <2>4, <3>2 DEF BackupStatus
  <2> QED
    BY <1>4, <2>2, <2>3, <2>4
<1>5. ASSUME NEW w \in Writers, Write(w) PROVE StatusInv'
  <2>1. Done(w) => writer' \in [Writers -> [pc: {"free", "find", "create"},
                                 status: Status \cup {NoStatus}, then: {Connectivity, NoStatus}]]
                   /\ HasAStatus'
    BY DEF Done, ConnectivityNow, Idle
  <2>2. CASE RecordFind(w)
    BY <2>1, <2>2 DEF RecordFind
  <2>3. CASE RecordCreate(w)
    BY <2>1, <2>3 DEF RecordCreate
  <2> QED
    BY <1>5, <2>2, <2>3 DEF Write
<1>6. CASE UNCHANGED statusVars
  BY <1>6 DEF statusVars
<1> QED
  BY <1>1, <1>2, <1>3, <1>4, <1>5, <1>6 DEF StatusNext

(* recordStatus and the snapshot insert statuses, whichever callbacks of    *)
(* the socket overlap with them, and each has one to insert.               *)
THEOREM StatusTypes == StatusSpec => []StatusTypeOK
<1>1. StatusInit => StatusInv
  <2> SUFFICES ASSUME StatusInit PROVE StatusInv
    OBVIOUS
  <2>1. Idle \in [pc: {"free", "find", "create"}, status: Status \cup {NoStatus},
                  then: {Connectivity, NoStatus}]
    BY DEF Idle
  <2>2. StatusTypeOK
    BY <2>1 DEF StatusInit, StatusTypeOK, Status
  <2>3. HasAStatus
    BY DEF StatusInit, HasAStatus, Idle
  <2> QED
    BY <2>2, <2>3 DEF StatusInv
<1>2. StatusInv => StatusTypeOK
  BY DEF StatusInv
<1> QED
  BY <1>1, <1>2, StatusSteps, PTL DEF StatusSpec

-----------------------------------------------------------------------------
(* Services. *)

(* A step is of the component that moves, and the others stutter. *)
LEMMA StepsApart ==
  [Next]_vars =>
    /\ moving' = moving
    /\ [SessionsNext]_userVars
    /\ [EnrolNext]_enrolVars
    /\ [UpdateNext]_updateVars
    /\ [CallsNext]_callVars
    /\ [StatusNext]_statusVars
    /\ [UptimeNext]_uptimeVars
    /\ [LiveNext]_liveVars
    /\ [EditNext]_editVars
    /\ [ListNext]_listVars
    /\ [BoardNext]_boardVars
    /\ [FeedNext]_feedVars
    /\ [CardsNext]_cardVars
    /\ [DialogsNext]_dialogVars
BY DEF Next, vars

LEMMA StartsApart ==
  Init => /\ moving \in Components
          /\ SessionsInit /\ EnrolInit /\ UpdateInit /\ CallsInit /\ StatusInit
          /\ UptimeInit /\ LiveInit /\ EditInit /\ ListInit /\ BoardInit
          /\ FeedInit /\ CardsInit /\ DialogsInit
BY DEF Init

(* A behaviour of Services is one of each component, and the one that moves *)
(* is one of them: what holds of a component alone holds beside the others. *)
THEOREM EachBehaves ==
  Spec => /\ [](moving \in Components)
          /\ SessionsSpec /\ EnrolSpec /\ UpdateSpec /\ CallsSpec /\ StatusSpec
          /\ UptimeSpec /\ LiveSpec /\ EditSpec /\ ListSpec /\ BoardSpec
          /\ FeedSpec /\ CardsSpec /\ DialogsSpec
<1>1. moving \in Components /\ moving' = moving => (moving \in Components)'
  BY DEF Components
<1> QED
  BY <1>1, StepsApart, StartsApart, PTL
     DEF Spec, SessionsSpec, EnrolSpec, UpdateSpec, CallsSpec, StatusSpec, UptimeSpec,
         LiveSpec, EditSpec, ListSpec, BoardSpec, FeedSpec, CardsSpec, DialogsSpec

(* The variables of every component keep their types. *)
THEOREM ServicesTypes == Spec => []ServicesTypeOK
<1>1. /\ moving \in Components
      /\ SessionsTypeOK /\ EnrolTypeOK /\ UpdateTypeOK /\ CallsTypeOK /\ StatusTypeOK
      /\ UptimeTypeOK /\ LiveTypeOK /\ EditTypeOK /\ ListTypeOK /\ BoardTypeOK
      /\ FeedTypeOK /\ CardsTypeOK /\ DialogsTypeOK
      => ServicesTypeOK
  BY Zenon DEF Components, ServicesTypeOK
<1> QED
  BY <1>1, EachBehaves, SessionsTypes, EnrolTypes, UpdateTypes, CallsTypes, StatusTypes,
     UptimeTypes, LiveTypes, EditTypes, ListTypes, BoardTypes, FeedTypes, CardsTypes,
     DialogsTypes, PTL

(* The feed, the cards, the dialogs, the uptime with its timeline and the  *)
(* dashboard's figures, each as the theorem on its component says.         *)
THEOREM PagesShowAgreement == Spec => []PagesAgree
<1>1. FeedInOrder /\ CardsInOrder /\ DialogsInTurn /\ UptimeAddsUp /\ BoardAddsUp => PagesAgree
  BY DEF PagesAgree
<1> QED
  BY <1>1, EachBehaves, FeedListsInOrder, CardsStandInOrder, DialogsTakeTurns,
     UptimeIsRight, BoardGoesTogether, PTL
=============================================================================
