------------------------------- MODULE Dashboard -------------------------------
(***************************************************************************)
(* The figures of the dashboard.  The server answers one request with a    *)
(* dozen queries that run side by side over a database that moves, and the *)
(* page puts them next to each other: shares of a total, a chart of days   *)
(* that the database names in its time zone and the page in its own.       *)
(* LiveView models when the page fetches; here is what it then shows.      *)
(***************************************************************************)
EXTENDS Integers, FiniteSetsExt, Functions

CONSTANTS
  MaxStarts, \* bound: backups that are ever started
  MaxDay,    \* bound: the last day
  ChartDays, \* how far the chart and the failures go back: 7
  LastTaken, \* backups listed as the last ones: 10 (of 200 and more, 100 per
             \* cent rounded would not mean all)
  JobFor     \* the job that each backup is of

ASSUME BoardAssumption ==
  /\ {MaxStarts, MaxDay} \subseteq Nat /\ ChartDays \in Nat \ {0} /\ LastTaken \in 0 .. 199
  /\ DOMAIN JobFor = 1 .. MaxStarts

Starters     == 1 .. MaxStarts
BoardDays    == 0 .. MaxDay
BoardJobs    == {JobFor[i] : i \in Starters}
RowStatus == {"PENDING", "IN_PROGRESS", "COMPLETED", "FAILED"}
BoardRow          == [status: RowStatus, day: BoardDays]
BoardQueries == {"total", "last", "days", "failed", "jobs"}

VARIABLES
  started, \* backups started so far
  backup,     \* the rows that are there, by the order in which they started
  kept,    \* jobs that are not deleted
  today,   \* the day in the database's time zone
  asked,   \* queries of the request under way that are not answered yet
  answer,  \* what those that are answered said
  torn,    \* ghost: the database changed since the first of them
  board    \* what the page was given last

boardVars == <<started, backup, kept, today, asked, answer, torn, board>>
worldOfBoard == <<started, backup, kept, today>>

NoAnswer == [total |-> 0, last |-> <<>>, days |-> [d \in BoardDays |-> 0], failed |-> 0,
             jobs |-> [j \in BoardJobs |-> 0], read |-> FALSE]

NoBoard == [data |-> NoAnswer, calendar |-> {}, today |-> 0, torn |-> FALSE]

RowSets == UNION {[s -> BoardRow] : s \in SUBSET Starters}

AnswerType ==
  [total: 0 .. MaxStarts, last: RowSets, days: [BoardDays -> 0 .. MaxStarts],
   failed: 0 .. MaxStarts, jobs: [BoardJobs -> 0 .. MaxStarts], read: BOOLEAN]

BoardTypeOK ==
  /\ started \in 0 .. MaxStarts /\ backup \in RowSets /\ kept \subseteq BoardJobs
  /\ today \in BoardDays
  /\ asked \subseteq BoardQueries /\ answer \in AnswerType /\ torn \in BOOLEAN
  /\ board \in [data: AnswerType, calendar: SUBSET (-ChartDays .. MaxDay + 1),
                today: BoardDays, torn: BOOLEAN]

BoardInit ==
  /\ started = 0 /\ backup = <<>> /\ kept = BoardJobs /\ today = 0
  /\ asked = {} /\ answer = NoAnswer /\ torn = FALSE /\ board = NoBoard

-----------------------------------------------------------------------------
(* The database moves. *)

(* Bounds: until the page has its answer, the only one, and once between   *)
(* the queries.                                                            *)
DatabaseMoves ==
  /\ ~board.data.read /\ ~torn
  /\ torn' = (torn \/ asked \notin {{}, BoardQueries})
  /\ UNCHANGED <<asked, answer, board>>

RowStarts(i) ==
  /\ i = started + 1 /\ JobFor[i] \in kept /\ started' = i
  /\ backup' = [k \in DOMAIN backup \cup {i} |->
               IF k = i THEN [status |-> "PENDING", day |-> today] ELSE backup[k]]
  /\ DatabaseMoves /\ UNCHANGED <<kept, today>>

RowBecomes(i, s) ==
  /\ i \in DOMAIN backup /\ backup[i].status \in {"PENDING", "IN_PROGRESS"}
  /\ s \in RowStatus \ {"PENDING", backup[i].status}
  /\ backup' = [backup EXCEPT ![i].status = s]
  /\ DatabaseMoves /\ UNCHANGED <<started, kept, today>>

(* A retention rule removes a row. *)
RowPruned(i) ==
  /\ i \in DOMAIN backup /\ backup[i].status \in {"COMPLETED", "FAILED"}
  /\ backup' = [k \in DOMAIN backup \ {i} |-> backup[k]]
  /\ DatabaseMoves /\ UNCHANGED <<started, kept, today>>

(* The rows of a deleted job stay. *)
JobGoes(j) ==
  /\ j \in kept /\ kept' = kept \ {j}
  /\ DatabaseMoves /\ UNCHANGED <<started, backup, today>>

DatabaseMidnight ==
  /\ today < MaxDay /\ today' = today + 1
  /\ DatabaseMoves /\ UNCHANGED <<started, backup, kept>>

-----------------------------------------------------------------------------
(* The queries. *)

AskBoard ==
  /\ asked = {} /\ ~answer.read /\ ~board.data.read
  /\ asked' = BoardQueries /\ torn' = FALSE /\ answer' = [NoAnswer EXCEPT !.read = TRUE]
  /\ UNCHANGED <<worldOfBoard, board>>

IsCompleted(i) == backup[i].status = "COMPLETED"

(* Of the rows that start ChartDays days ago, those before this hour of    *)
(* that day are out.                                                       *)
Lately(out, i) ==
  backup[i].day > today - ChartDays \/ (backup[i].day = today - ChartDays /\ i \notin out)

NewestRows(n) == {i \in DOMAIN backup : Cardinality({k \in DOMAIN backup : k > i}) < n}

TotalStored ==
  answer' = [answer EXCEPT !.total = Quantify(DOMAIN backup, IsCompleted)]
LastRows ==
  answer' = [answer EXCEPT !.last = [i \in NewestRows(LastTaken) |-> backup[i]]]
ByDay(out) ==
  answer' = [answer EXCEPT !.days = [d \in BoardDays |->
    LET OnDay(i) == backup[i].day = d /\ Lately(out, i) IN Quantify(DOMAIN backup, OnDay)]]
FailedLately(out) ==
  LET Recently(i) == backup[i].status = "FAILED" /\ Lately(out, i)
  IN answer' = [answer EXCEPT !.failed = Quantify(DOMAIN backup, Recently)]

StorageByJobAny ==  \* mutant: the join without the status
  answer' = [answer EXCEPT !.jobs = [j \in BoardJobs |->
    LET Of(i) == JobFor[i] = j IN IF j \in kept THEN Quantify(DOMAIN backup, Of) ELSE 0]]

StorageByJob ==
  answer' = [answer EXCEPT !.jobs = [j \in BoardJobs |->
    LET Of(i) == JobFor[i] = j /\ IsCompleted(i) IN IF j \in kept THEN Quantify(DOMAIN backup, Of) ELSE 0]]

(* The queries are answered in any order. *)
QueryAnswered(q) ==
  /\ q \in asked /\ asked' = asked \ {q}
  /\ \/ q = "total" /\ TotalStored
     \/ q = "last" /\ LastRows
     \/ q = "jobs" /\ StorageByJob
     \/ q \in {"days", "failed"} /\
          \E out \in SUBSET DOMAIN backup : IF q = "days" THEN ByDay(out) ELSE FailedLately(out)
  /\ UNCHANGED <<worldOfBoard, torn, board>>

(* The page takes the answer, with the last days of its own calendar, which *)
(* may be a day ahead of the database's or behind it.                      *)
getLast7Days(ahead) == today + ahead - ChartDays + 1 .. today + ahead

SetData ==
  /\ asked = {} /\ answer.read
  /\ \E ahead \in -1 .. 1 :
       board' = [data |-> answer, calendar |-> getLast7Days(ahead), today |-> today, torn |-> torn]
  /\ answer' = NoAnswer /\ torn' = FALSE
  /\ UNCHANGED <<worldOfBoard, asked>>

-----------------------------------------------------------------------------
BoardNext ==
  \/ \E i \in Starters : RowStarts(i) \/ RowPruned(i) \/ \E s \in RowStatus : RowBecomes(i, s)
  \/ \E j \in BoardJobs : JobGoes(j)
  \/ DatabaseMidnight \/ AskBoard \/ SetData
  \/ \E q \in BoardQueries : QueryAnswered(q)

BoardSpec == BoardInit /\ [][BoardNext]_boardVars

-----------------------------------------------------------------------------
(* The page. *)

StorageUsed == board.data.total
FailedCard  == board.data.failed

(* Per cent of the total, in hundredths here; nothing of nothing is 0. *)
StorageByJobChart ==
  [j \in BoardJobs |-> IF StorageUsed > 0 THEN (100 * board.data.jobs[j]) \div StorageUsed ELSE 0]

BackupDayChart ==
  [d \in board.calendar |-> IF d \in BoardDays THEN board.data.days[d] ELSE 0]

RecentBackups == board.data.last

InStatus(s) == Cardinality({i \in DOMAIN RecentBackups : RecentBackups[i].status = s})
statusBreakdown == {<<s, InStatus(s)>> : s \in {x \in RowStatus : InStatus(x) > 0}}

(* Rounded half up; -1 for no rate. *)
successRate ==
  LET n == Cardinality(DOMAIN RecentBackups)
  IN IF n = 0 THEN -1 ELSE (200 * InStatus("COMPLETED") + n) \div (2 * n)

-----------------------------------------------------------------------------
(* Properties. *)

CountListed(P(_)) == Cardinality({i \in DOMAIN RecentBackups : P(RecentBackups[i])})

(* The figures go together: the health card accounts for every backup it   *)
(* is about; and unless the database changed between the queries, the jobs *)
(* share no more than the total, and the failures and the chart have every *)
(* one of the last backups that is theirs, the chart as long as the page's *)
(* day is the database's.                                                  *)
BoardAddsUp ==
  /\ SumFunction([p \in statusBreakdown |-> p[2]]) = Cardinality(DOMAIN RecentBackups)
  /\ successRate = 100 <=> statusBreakdown = {<<"COMPLETED", Cardinality(DOMAIN RecentBackups)>>}
  /\ ~board.torn =>
       /\ SumFunction(StorageByJobChart) <= 100
       /\ LET Counts(r) == r.status = "FAILED" /\ r.day > board.today - ChartDays
          IN FailedCard >= CountListed(Counts)
       /\ board.today \in board.calendar /\ board.today + 1 \notin board.calendar =>
            \A d \in BoardDays \cap (board.today - ChartDays + 1 .. board.today) :
              LET OnDay(r) == r.day = d
              IN d \in board.calendar /\ BackupDayChart[d] >= CountListed(OnDay)
=============================================================================
