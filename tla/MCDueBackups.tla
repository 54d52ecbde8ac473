----------------------------- MODULE MCDueBackups -----------------------------
(* One instance with more jobs than slots; for the counterexample two      *)
(* instances and one job.  The clock goes from Saturday 31 January 23:59   *)
(* to Sunday 1 February 00:00, where all five fields turn.                 *)
EXTENDS DueBackups

CONSTANTS s1, s2, j1, j2, j3, j4, j5, j6

MCOneInstance  == {s1}
MCTwoInstances == {s1, s2}
MCJobs       == {j1, j2, j3, j4, j5, j6}
MCOneJob     == {j1}

MCClock ==
  0 :> [minute |-> 59, hour |-> 23, dom |-> 31, month |-> 1, dow |-> 6] @@
  1 :> [minute |-> 0, hour |-> 0, dom |-> 1, month |-> 2, dow |-> 0]

D(n)     == [kind |-> "digits", n |-> n]
Empty    == [kind |-> "empty", n |-> 0]
DStar(n) == [kind |-> "digitsStar", n |-> n]
Asterisk == [kind |-> "star", n |-> 0]

Field(entries) == [foreign |-> FALSE, entries |-> entries]
Garbled(entries) == [foreign |-> TRUE, entries |-> entries]

Value(a)            == <<<<D(a)>>>>
Span(a, b)          == <<<<D(a), D(b)>>>>
Every(step)         == <<<<Asterisk>>, <<D(step)>>>>
EveryFrom(a, step)  == <<<<D(a)>>, <<D(step)>>>>
EveryIn(a, b, step) == <<<<D(a), D(b)>>, <<D(step)>>>>
Star                == Field({<<<<Asterisk>>>>})

(* j1: * * * * *             j2: 59,0/20 23,0 * 1-2 0,6                    *)
(* j3: */20 */6 1* 2,/ -0    (misspelled, read as 0/20 0/6 1 2 0)          *)
(* j4: 7/7,0-9/0 * * * *     (neither minute)                              *)
(* j5: 0,x 0 * * *           (foreign: never)  j6: * * * *  (four fields)  *)
MCCronOf ==
  j1 :> <<Star, Star, Star, Star, Star>> @@
  j2 :> <<Field({Value(59), EveryFrom(0, 20)}), Field({Value(23), Value(0)}), Star,
          Field({Span(1, 2)}), Field({Value(0), Value(6)})>> @@
  j3 :> <<Field({Every(20)}), Field({Every(6)}), Field({<<<<DStar(1)>>>>}),
          Field({Value(2), <<<<Empty>>, <<Empty>>>>}), Field({<<<<Empty, D(0)>>>>})>> @@
  j4 :> <<Field({EveryFrom(7, 7), EveryIn(0, 9, 0)}), Star, Star, Star, Star>> @@
  j5 :> <<Garbled({Value(0)}), Field({Value(0)}), Star, Star, Star>> @@
  j6 :> <<Star, Star, Star, Star>>
=============================================================================
