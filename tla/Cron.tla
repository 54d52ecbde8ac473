--------------------------------- MODULE Cron ---------------------------------
(***************************************************************************)
(* The scheduler's cron expressions, as its own parser reads them.  An     *)
(* expression is a sequence of fields, a field the entries of its comma    *)
(* list, an entry its parts between "/", a part its words between "-".  Of *)
(* a word it matters where its digits and its "*" are; of the other        *)
(* characters, that a field has one.  Nothing checks an expression before  *)
(* the scheduler reads it, so any may come.  Numbers are below 2^53.       *)
(***************************************************************************)
EXTENDS Integers, Sequences

(* "digitsStar" starts with digits and has a "*" later, "starFirst" starts *)
(* with a "*" and has something after it.                                  *)
Words == [kind: {"empty", "digits", "star", "digitsStar", "starFirst"}, n: Nat]

NonEmpty(S) == Seq(S) \ {<<>>}
Entries == NonEmpty(NonEmpty(Words))
Fields  == [foreign: BOOLEAN, entries: SUBSET Entries]

(* A moment in the scheduler's time zone, as getZonedParts gives it, and   *)
(* the bounds cronFieldMatches is given for each of the five fields.       *)
Parts == <<"minute", "hour", "dom", "month", "dow">>
Lowest  == <<0, 0, 1, 1, 0>>
Highest == <<59, 23, 31, 12, 6>>

Moments == [minute: 0 .. 59, hour: 0 .. 23, dom: 1 .. 31, month: 1 .. 12, dow: 0 .. 6]

-----------------------------------------------------------------------------
NaN == -1

(* What JavaScript makes of a word.  A "-" before the digits is not part of *)
(* the word: parseInt of such a part is that of the empty word before it,  *)
(* which is as little a step as a negative number is.                      *)
parseInt(w) == IF w.kind \in {"digits", "digitsStar"} THEN w.n ELSE NaN

Number(w) == CASE w.kind = "digits" -> w.n
               [] w.kind = "empty"  -> 0
               [] OTHER             -> NaN

IsStar(part)  == Len(part) = 1 /\ part[1].kind = "star"
IsRange(part) == Len(part) = 2 /\ Number(part[1]) # NaN /\ Number(part[2]) # NaN

(* The loop "for (v = from; v <= to; v += step)" meets value. *)
Loop(from, to, step, value) ==
  LET meets[v \in from .. to + step] == v <= to /\ (v = value \/ meets[v + step])
  IN  meets

Meets(from, to, step, value) == step > 0 /\ from <= to /\ Loop(from, to, step, value)[from]

StepMatches(part, step, value, min, max) ==
  \/ IsStar(part)  /\ Meets(min, max, step, value)
  \/ IsRange(part) /\ Meets(Number(part[1]), Number(part[2]), step, value)
  \/ /\ Len(part) = 1 /\ parseInt(part[1]) # NaN
     /\ Meets(parseInt(part[1]), max, step, value)

EntryMatches(e, value, min, max) ==
  \/ Len(e) = 1 /\ IsStar(e[1])
  \/ Len(e) = 2 /\ StepMatches(e[1], parseInt(e[2][1]), value, min, max)
  \/ Len(e) = 1 /\ IsRange(e[1]) /\ Number(e[1][1]) <= value /\ value <= Number(e[1][2])
  \/ Len(e) = 1 /\ Len(e[1]) = 1 /\ parseInt(e[1][1]) = value

cronFieldMatches(field, value, min, max) ==
  \E e \in field.entries : EntryMatches(e, value, min, max)

MatchesUnvalidated(expression, now) ==  \* mutant: a character that is foreign spoils its entry only
  /\ Len(expression) = 5
  /\ \A n \in 1 .. 5 : cronFieldMatches(expression[n], now[Parts[n]], Lowest[n], Highest[n])

(* isCronDue up to the look at the last run: five fields, none with a      *)
(* foreign character, and all of them have to match, day of month and day  *)
(* of week both.                                                           *)
expressionMatches(expression, now) ==
  /\ Len(expression) = 5
  /\ \A n \in 1 .. 5 : ~expression[n].foreign
  /\ \A n \in 1 .. 5 : cronFieldMatches(expression[n], now[Parts[n]], Lowest[n], Highest[n])

-----------------------------------------------------------------------------
(* What the comment on isCronDue says the syntax means, as sets of values: *)
(* "*", "n", "n-m", "n/s", and "*/s", which the code names; "n-m/s", which *)
(* it reads without naming it, is taken as it is everywhere.               *)

Multiples(from, to, step) ==
  {v \in from .. to : step > 0 /\ \E k \in 0 .. to - from : v = from + k * step}

Numerals(part, most) == Len(part) <= most /\ \A k \in 1 .. Len(part) : part[k].kind = "digits"

Spelled(e) ==
  /\ Len(e) <= 2
  /\ IsStar(e[1]) \/ Numerals(e[1], 2)
  /\ Len(e) = 2 => Numerals(e[2], 1)

From(part, min)       == IF IsStar(part) THEN min ELSE part[1].n
To(part, max, single) == IF IsStar(part) THEN max ELSE IF Len(part) = 2 THEN part[2].n ELSE single

Denotes(e, min, max) ==
  IF Len(e) = 2 THEN Multiples(From(e[1], min), To(e[1], max, max), e[2][1].n)
  ELSE From(e[1], min) .. To(e[1], max, e[1][1].n)

(* The expression is one of the syntax and names the moment.               *)
Scheduled(expression, now) ==
  /\ Len(expression) = 5
  /\ \A n \in 1 .. 5 :
       /\ ~expression[n].foreign
       /\ \E e \in expression[n].entries :
            Spelled(e) /\ now[Parts[n]] \in Denotes(e, Lowest[n], Highest[n])

(* It does as far as it is of the syntax: a misspelled entry of these      *)
(* characters, as "5*" or "-5", may be read as any values of its own field. *)
NotExcluded(expression, now) ==
  /\ Len(expression) = 5
  /\ \A n \in 1 .. 5 :
       /\ ~expression[n].foreign
       /\ \E e \in expression[n].entries :
            Spelled(e) => now[Parts[n]] \in Denotes(e, Lowest[n], Highest[n])
=============================================================================
