-------------------------------- MODULE Uptime --------------------------------
(***************************************************************************)
(* How long an agent was up, as the dashboard computes it from the status  *)
(* rows that the heartbeat of the snapshot and the hourly purge leave.     *)
(* Time passes in units; a row has the age of its date.  The two jobs of   *)
(* the scheduler run often enough to do their work within a unit.          *)
(***************************************************************************)
EXTENDS Sorting, FiniteSetsExt, Functions

CONSTANTS
  Day,      \* units in a day
  Days,     \* days kept and shown (7 in the code)
  Heartbeat \* age at which a row is written again (6 days in the code)

ASSUME UptimeAssumption ==
  /\ Day \in Nat \ {0} /\ Days \in Nat \ {0}
  /\ Heartbeat \in 1 .. Day * Days - 1

Window == Day * Days

States == {"ONLINE", "OFFLINE", "RUNNING_BACKUP"}

VARIABLES
  history, \* the agent's status rows, oldest first
  state,   \* what the agent is doing
  was,     \* what it did in each unit of the window, latest first
  hour     \* units since midnight

uptimeVars == <<history, state, was, hour>>

UptimeTypeOK ==
  /\ history \in Seq([status: States, age: 0 .. Window + 1])
  /\ state \in States /\ was \in Seq(States) /\ Len(was) <= Window
  /\ hour \in 0 .. Day - 1

UptimeInit == history = <<>> /\ state = "OFFLINE" /\ was = <<>> /\ hour = 0

NewestRecord  == history[Len(history)]
Written == Append(history, [status |-> state, age |-> 0])

-----------------------------------------------------------------------------
(* The agent connects, disconnects, begins or ends a backup: module        *)
(* AgentStatusHistory has how that becomes a row.                          *)
Becomes(s) ==
  /\ history # <<>> /\ s # state /\ NewestRecord.age > 0
  /\ state' = s /\ history' = Append(history, [status |-> s, age |-> 0])
  /\ UNCHANGED <<was, hour>>

(* The snapshots: no row yet, or the last one is old. *)
BeatDue == IF history = <<>> THEN TRUE ELSE NewestRecord.age >= Heartbeat

Beat ==
  /\ BeatDue /\ history' = Written
  /\ UNCHANGED <<state, was, hour>>

(* purgeOldAgentStatuses. *)
OldRow(r) == r.age > Window

Recent == Kept(history, {i \in DOMAIN history : ~OldRow(history[i])})

Purge ==
  /\ history # <<>> /\ OldRow(history[1])
  /\ history' = Recent
  /\ UNCHANGED <<state, was, hour>>

Pass ==
  /\ ~BeatDue /\ ~OldRow(history[1])
  /\ history' = [i \in DOMAIN history |-> [history[i] EXCEPT !.age = @ + 1]]
  /\ was' = SubSeq(<<state>> \o was, 1, IF Len(was) < Window THEN Len(was) + 1 ELSE Window)
  /\ hour' = (hour + 1) % Day
  /\ UNCHANGED state

UptimeNext == Beat \/ Purge \/ Pass \/ \E s \in States : Becomes(s)

UptimeSpec == UptimeInit /\ [][UptimeNext]_uptimeVars

-----------------------------------------------------------------------------
(* The list of agents. *)

(* The units between two ages, the older one clamped first. *)
Span(from, to) == IF from > to THEN from - to ELSE 0

AgeAfter(rs, i) == IF i < Len(rs) THEN rs[i + 1].age ELSE 0

(* computeUptimePct, without the division by the window. *)
computeUptimePct(rs) ==
  SumFunction([i \in {j \in DOMAIN rs : rs[j].status # "OFFLINE"} |->
                 Span(Min({rs[i].age, Window}), AgeAfter(rs, i))])

(* The rows that GET /api/agents takes: those of the window, after the     *)
(* newest of the older ones.  A purged row is nowhere.                     *)
Baselined ==
  LET old == {i \in DOMAIN history : OldRow(history[i])}
  IN SubSeq(history, IF old = {} THEN 1 ELSE Max(old), Len(history))

uptime_pct == computeUptimePct(Baselined)

-----------------------------------------------------------------------------
(* The dialog of one agent: its rows of the window, by calendar day, after *)
(* an older one when the window does not begin with a row.                 *)

records ==
  LET rs == Recent IN IF rs # <<>> /\ rs[1].age = Window THEN rs ELSE Baselined

(* The ages at which the day d days ago began and ended. *)
DayStart(d) == hour + d * Day
DayEnd(d)   == IF d = 0 THEN 0 ELSE hour + (d - 1) * Day

Clamped(d, from, to) == Span(Min({from, DayStart(d)}), Max({to, DayEnd(d)}))

computeUptimeFraction(d) ==
  LET rs == records
  IN SumFunction([i \in {j \in DOMAIN rs : rs[j].status # "OFFLINE"} |->
                    Clamped(d, rs[i].age, AgeAfter(rs, i))])

(* buildDaySegments: rows that say the same are drawn as one piece. *)
Heads(rs) == {i \in DOMAIN rs : i = 1 \/ rs[i].status # rs[i - 1].status}

GroupEndFirst(rs, i) ==  \* mutant: a group ends with its first row
  AgeAfter(rs, i)

GroupEnd(rs, i) ==
  LET others == {j \in i + 1 .. Len(rs) : rs[j].status # rs[i].status}
  IN IF others = {} THEN 0 ELSE rs[Min(others)].age

buildDaySegments(rs, d, status) ==
  SumFunction([i \in {j \in Heads(rs) : rs[j].status = status} |->
                 Clamped(d, rs[i].age, GroupEnd(rs, i))])

(* An agent that runs a backup is up: that is the base of a day's row, and *)
(* the backups are drawn over it.                                          *)
baseRecords ==
  LET rs == records
  IN [i \in DOMAIN rs |->
        [rs[i] EXCEPT !.status = IF @ = "OFFLINE" THEN "OFFLINE" ELSE "ONLINE"]]

DayRow(d) ==
  [base    |-> buildDaySegments(baseRecords, d, "ONLINE"),
   overlay |-> buildDaySegments(records, d, "RUNNING_BACKUP")]

(* "Time running backups", of the rows and not of the days. *)
backupMs ==
  LET rs == records
  IN SumFunction([i \in {j \in DOMAIN rs : rs[j].status = "RUNNING_BACKUP"} |->
                    Span(rs[i].age, AgeAfter(rs, i))])

(* A row for each of the last days, and the summary below them. *)
Content == [rows |-> [d \in 0 .. Days - 1 |-> DayRow(d)], backup |-> backupMs]

-----------------------------------------------------------------------------
(* Properties. *)

IsUp == Cardinality({k \in DOMAIN was : was[k] # "OFFLINE"})

(* No time is counted that the agent was away, however the purge, the      *)
(* heartbeat and changes of state fall; all of it is counted while a row   *)
(* is kept that reaches back to the start of the window; and the timeline  *)
(* shows as much, day by day, as the sum below it counts, though one       *)
(* groups the rows and the other does not: what the agent was up, and the  *)
(* backups, as far as the rows begin on the days that are shown.           *)
UptimeAddsUp ==
  /\ uptime_pct <= IsUp
  /\ history # <<>> /\ history[1].age >= Window => uptime_pct = IsUp
  /\ LET shownDays == Content
         drawn == SumFunction([d \in 0 .. Days - 1 |-> shownDays.rows[d].overlay])
         early == records # <<>> /\ records[1].age > DayStart(Days - 1)
     IN /\ \A d \in 0 .. Days - 1 : shownDays.rows[d].base = computeUptimeFraction(d)
        /\ drawn <= shownDays.backup /\ (drawn = shownDays.backup \/ early)

(* The rows "may start before `since` (a baseline record) to avoid treating *)
(* the window's start as downtime".                                         *)
UptimeCountsAll == Len(was) = Window => uptime_pct = IsUp
=============================================================================
