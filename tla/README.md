# Backupr in TLA+

Backupr runs backups of many machines from one server. A Rust agent on each
machine keeps a websocket to the server, runs the jobs it is sent and uploads
archives to a bucket; the server (Bun, Hono, Prisma) schedules the jobs,
records what became of them and deletes old ones; a React page shows it all.
This directory models the parts of the program where several actors, requests
or answers meet, and says what was model-checked (TLC) and what was proved
(TLAPS).

Every `X.tla` is a component or what one promises, `MCX.tla` its constants for
TLC, `X*.cfg` the runs, `X_proofs.tla` theorems: of a component on the backup
path its own, of the services in three modules: `Access` (sessions, pairing,
update, requests), `Pages` (what the pages list and change) and `Services` (what
they compute, and the services side by side). `PROJECT.json` maps each definition
to the lines it models and lists runs, findings, hazards and theorems.

## The system

| Component | State | Operations | What is hard | What makes it correct |
|---|---|---|---|---|
| Dispatch and status handling (`backup.ts`) | rows of `Backup` | `sendStartBackupCommand`, `initBackup`, `handleBackupStatusUpdate`, `runBackupPolicy` | handlers write after awaits, by id only | a COMPLETED row can be downloaded; only a stale decision demotes it |
| Upload endpoints (`routes/agents.ts` 43-193) | rows, objects | prepare, PUT to the bucket, complete | a row deleted between the requests, lost answers | an object is stored before its row says COMPLETED |
| Recovery and timeout (`ws.agent.ts` 49-73, `scheduler.ts` 437-478) | rows | scan on connect, hourly limit | find, then update without a guard | no row stays in progress |
| Agent endpoint (`ws.agent.ts`) | `agentRegistry`, one socket per agent, ping timers | onOpen, onMessage, onClose, reap, `sendToAgent` | onOpen awaits three times, sockets supersede each other | the registry holds the live socket |
| Scheduler (`scheduler.ts` 13-65, 128-236) | `tasks`, `lastRun`, `BackupQueue` | tick, `triggerDueBackups`, enqueue, drain | ticks overlap, several instances, dispatches that throw | slots are conserved, what waits is served |
| Retention (`scheduler.ts` 480-635, `backup.ts` 171-254) | rows, objects, `retentionRunning` | `_pruneJob` hourly and after an upload, `runBackupPolicy` | two implementations with different readings, failures between row and object | no row without object, the newest survive |
| Agent loop (`main.rs`) | `job_queue`, `current_job`, cmd channel, progress channels | connect, `handle_message`, `process_next_job`, the backup task | mutexes held across sends into a bounded channel | one backup at a time, the agent never waits for itself |
| Runner (`backup/runner.rs`) | lockfile, archive | stage, compress, upload, clean up | crash at any step, retries | the server learns the outcome |
| Update (`update.rs`) | the binaries on disk, `UPDATE_IN_PROGRESS` | download, replace, the Windows helper, restart, cleanup at the start | a failure or a crash between two renames | an agent that starts, a lock that is free again |
| Request and reply (`ws.agent.ts` 84-116) | `pendingRequests`, a timer each | `sendToAgent`, answer, timeout, the dialogs that wait | a late answer races the timer, the socket closes | nothing stays pending, no dialog loads for ever |
| Pairing and agents (`routes/agents.ts` 195-328, 418-670) | codes, agent sessions, agents | create code, pair, revoke, disable, delete, cleanup | checks outside the transaction that acts, sockets that open meanwhile | a spent code has its session, who is put out leaves |
| Users and sessions (`general.ts` 59-160, `users.ts`) | session rows, the token in `localStorage` | login, me, refresh, logout, revoke, delete, expire | rotation, answers that overtake one another | no session more than logins, a live token is kept |
| Jobs and policies (`backup-jobs.ts`, `backup-policies.ts`) | jobs, policies, links | create, save, delete, check of what is in use | transactions of several clients, check then act | one policy per job, nothing in use is deleted |
| Status history (`agent-status.ts`) | status rows | callbacks, snapshots, heartbeat, purge; uptime, timeline | read, compare, create without a lock | the last row comes to be true, uptime adds up |
| Dashboard socket (`ws.web.ts`, `use-socket.tsx`) | one socket per page, the statuses it shows | push, reconnect, `backup_updated`, `trigger_backup` | pushes, writes and fetches in any order | the page comes to show the agent as it is |
| Pages (`apps/web`) | query and filters, rows, cards, dialogs | fetch, search, sort, "Load more", create, edit, delete | fetches that overlap, closures that are old | what is shown is what was asked for |
| Dashboard figures (`general.ts` 163-289, `dashboard/page.tsx`) | none, a dozen queries | query, chart, shares | queries over a database that moves, two time zones | figures that go together |
| IPC and tray, libraries, schema, proxy, installers | subscribers; none | | snapshot before subscribe | |

How they interact: the scheduler's tick fills the `BackupQueue`; a dispatch
creates a row and sends `start_backup` through the registry's socket; the agent
queues it, runs it, and speaks to the server on two channels that are not
ordered against each other, the websocket (`running`, `completed`, `failed`,
`stale_backup`) and HTTP (prepare, complete). Completion starts a pruner, the
`completed` frame starts `runBackupPolicy`. A reconnect starts a recovery scan.
Everything shares the database; on the backup path nothing on the server takes
a lock, while pairing, the deletion of an agent and the saving of a job are
transactions, which do. Around that path the components share little: a page
learns of agents and backups over its own socket and fetches the rest, sessions
of users and of agents only decide who may speak.

The hazards are listed one by one, at their lines, in `PROJECT.json`.

## The modules

An asynchronous function of the server is modelled as one action per stretch
between two awaits, since Bun runs each stretch alone; what it read before an
await is kept in a variable. A task of the agent is one action per stretch
between two awaits that can block (a mutex, room in a channel). Database calls
are atomic, as each is one statement; where the code uses a transaction whose
reads and writes do not race with anything modelled it is one step.

**`BackupLifecycle`** One agent, one job, and the rows of its backups.
`row` is the table (status, is `blob_key` set, the error column), `blobs` the
bucket; `conn`, `link`, `down`, `up` the websocket connections, one after the
other, with frames of an old connection handled after a new one opened;
`disp`, `handlers`, `scans`, `sweep`, `creqs` what each handler in flight has
read; `queue`, `cur`, `run`, `lock` the agent. `Open`, `Register`, `Welcome`
are the stretches of `onOpen`; `Dispatch*` of `initBackup`; `Receive` and
`StatusUpdate` the two halves of a status frame; `Scan*` and `Sweep*` the
recovery and the one-hour timeout; `Complete` is `/upload/complete`; `Agent*`
the agent's steps. `AgentCrash`, `ServerCrash`, `DeleteJob` may happen
`MaxIncidents` times between them; `RetentionRow` deletes any row at any time,
which covers both pruners. Time is abstract: any row in progress may be over an
hour old. One timeout sweep runs at a time, and a drop during `open` also ends
the `onOpen` in flight; the races of overlapping `onOpen`s are not here.

**`BackupRecord`** What the table and the bucket promise to whoever lists,
downloads or deletes backups: a record is made once and never comes back, it
succeeds only with its object named and stored (or stored once and removed on
record), an object goes only while its record names it, and the name only
afterwards. `Record` in `BackupLifecycle` is the mapping (`row` column by
column, `blobs`, `swept`), `RecordKept` that the detailed system implements it:
sockets, frames, handlers in flight, scans, the agent and crashes are all
stutters of the records or one of their eight steps.

**`Retention`** One job, its rows numbered by `started_at`, time in days.
`prune[p]` is a run of `_pruneJob`: `PruneCount` and `PruneAge` are its two
queries, `PruneDelete` and `PruneRemove` the row and then the object, pruner 0
the hourly one under `retentionRunning`, pruner b the one started without it
after b's upload. `Report` and `PolicyDelete` are `runBackupPolicy`, which has
rules of its own: it counts rows of any status and ignores a rule set to 0.
Faults (a failing delete, a demotion by a stale write, a crash) are bounded by
`MaxFaults`; a removal of an object may always fail.

**`DueBackups`** The minute tick of each server instance, `triggerDueBackups`
split at its queries, and `BackupQueue` as a record (`queue`, `pending`,
`running`, and the dispatches in `flight`). A job is due when its expression
matches the minute and its latest row is not of it. Module **`Cron`** has the
matching. Nobody checks an expression before the scheduler reads it, so an
expression is any sequence of fields. A field has foreign characters or not,
which makes `isCronDue` reject the whole expression, and the entries of its
comma list, as the words that splitting at "/" and then at "-" leaves: digits,
"*", nothing, or a mixture such as "5*". `parseInt` and `Number` are what
JavaScript makes of a word, and `EntryMatches` reads what the code reads, also
"5*" as 5, "-5" as 0-5 and "5/3-1" as 5/3; the loop of the code is a recursive
function (`Loop`). Numbers of sixteen digits and more, which JavaScript rounds,
are left out. Next to it stands what the comment on `isCronDue` says: which entries are
of the syntax (`Spelled`) and the set of values each means (`Denotes`).
`Scheduled` is an expression that names a moment by entries of the syntax alone,
`NotExcluded` one that may name it if misspelled entries may mean anything in
their own field; for an expression of the syntax the two are the same.
`ScheduleAssumption` says that expressions are such sequences and that the clock
gives each part of a moment in its range, which is what `getZonedParts` computes.
A tick may run late. **`WorkerPool`** is what the queue promises, a few workers
and a line in front of them; `Abstract` in `DueBackups` is the mapping, and
`QueueIsPool` says that the detailed queue implements it.

**`AgentRunner`** The process inside: the outgoing loop of the newest
connection (`pc[0]`), a reader per connection, `job_queue` and `current_job`
with their mutexes, the bounded cmd channel, the tasks of each job, the update.
Frames carry no content here. The heartbeat and status timers are not actions:
both send into the channel like `Request`/`Reply`, which fills it as well.

**`AgentLink`** Several sockets of one agent. `phase[c]` is how far the socket's
`onOpen` has come: the database's answer (`Lookup`), the registry (`Accept`),
the session update that succeeds or throws (`Welcome`, `Throw`). `net[c]` goes
from open to closing to closed, when `onClose` runs; a peer may vanish without
closing (`silent`). `registry` and `fresh` are the entry and whether its
`lastSeen` is recent; `pinging` and `due` the ping interval and timeout.
`Revoke*` and `Delete*` are the two routes, the rows first and the registry
afterwards. Frames may still arrive on a socket that the server is closing.
That the handlers of one connection get one and the same socket object is taken
from the code, which compares them (`ws.agent.ts` 266, 511); an adapter that made
a new object per event would leave closed entries to the reaper.

The components around the backup path:

**`UserSessions`** The session rows of one user, requests in slots (`req`), each
stopped between any two of its awaits, and browsers whose tabs share the token
(`stored`). A token is the number of its signing; two tokens signed in the same
second are the same token, as they are in the code. Every route that makes,
rotates or deletes a row is an action, and so are the page's guards that send
`me` and what they do with a refusal and with a network error.

**`Enrolment`** One agent's codes, pairings with each statement of their
transaction (a row lock makes another pairing and a deletion wait, and a
statement sees what was committed when it starts: READ COMMITTED), the session
rows, sockets between lookup and registration, revocation and deletion, rows
first and registry afterwards, and both cleanups.

**`AgentUpdate`** Each binary, its `.bak` and `.new`, as versions; `run_update`
and `apply-update` one step per rename, download or service command, each of
which may fail; `Crash` anywhere; `Boot` is the cleanup of the next start.

**`AgentRequests`** `pendingRequests`, a timer and a frame per request id, the
sockets they were sent on, and the dialogs that wait (`GetLogs`, `TestJob`).

**`AgentStatusHistory`** and **`Uptime`** The first has the callbacks and both
snapshots, each as its read and its write, over the last row. The second has
time: units of a day, rows with ages, the heartbeat, the purge, and over them
`computeUptimePct`, the baseline, and the grouping by which the page draws the
days of the timeline and its overlays.

**`LiveView`** One page: its socket with both ends, messages on it, the status
last shown, the fetch after a push or a change of job, and the server's write
and push at the end of a backup. The agent is what the registry has of it.

**`JobEditing`** Jobs, policies, agents, links; each client's dialog, the two
statements of a PATCH as the transaction's steps, deletions as check and mark.

**`ListPage`, `CardViews`, `BackupFeed`, `DialogQueue`** The pages. A list has the
header's fields, the query in the store, the fetches in flight with the query
they carry, the rows and what they came from, the dialog and the change it
sends with the closure it was drawn with; the four list pages are copies of
one another. Cards add orders of the server and of the page, and the fetch
half a second after a trigger. The feed grows by pages over rows that come and
go. The provider of dialogs has its queue, its stack and its timers.

**`Dashboard`** The queries of one request, answered in any order while rows and
midnight move, and what the page computes from the answer. What it counts are
backups; their sizes are one each.

**`Sorting`** What ORDER BY, `sort` and `filter` return, which `CardViews`,
`BackupFeed`, `DialogQueue` and `Uptime` use. An element's place is the number of
elements before it, not what a recursion leaves, so that it can be proved about;
sums are `SumFunction` of the community modules for the same reason.

`Services` has them side by side, and `MCServices` the constants of its run. They share no state that the models keep,
so their product would only multiply states: `moving` picks one in the initial
state, that one takes its steps and the others stay as they start. Invariants
hold in every component's initial state, which makes those of the others
trivially true; the few that speak of derived figures or of several modules are
guarded by `moving`. The fairness of the components is assumed together: each
starts with none of its fair actions enabled, so that a component that does not
move makes no demand on a behaviour (`Init` sees to that where a component has a
choice of initial states). `Server` does the same for `DueBackups` and
`AgentLink`, with `part` for `moving`; it fixes the session of the first socket,
which any session may be, as the others only differ from it by name.

`BackupLifecycle` is the composition: its `Agent*` actions are `AgentRunner`
with the mutexes and channels abstracted, its `RetentionRow` is `Retention`
with the choice of rows abstracted, its `DispatchCheck` is what `DueBackups`
calls at `DispatchCreate`.

## The runs

| Run | Question | Bounds |
|---|---|---|
| `lifecycle` | `CompletedIsDownloadable`, `DemotedOnlyByStaleRead`, `RecordKept`, `InProgressEnds` | one dispatched row and one that prepare may create in its place, two connections, one incident |
| `retention` | `RowHasObject`, `NewestKept`, `PolicyIsEnforced` | two backups, two days, one fault; a policy with both rules, and two policies whose strictest value is the 0 one implementation ignores |
| `server` | of `DueBackups`: `SlotsConserved`, `PendingMirrorsQueue`, `OnlyWhenDue`, `QueueIsPool`, `WaitingIsServed`; of `AgentLink`: `NeverInvisible`, `RevokedIsCutOff`, `DeadEntryGoes` | one instance, six jobs with an expression each on two slots, two minutes, one restart; two sockets, two sessions |
| `agent_runner` | `OneAtATime`, `HungIsForever`, `OnlyHungStops` | two jobs, two connections, a channel of one |
| `services` | the properties of the thirteen components above, see below | two or three tokens, codes, calls and fetches each; listed with the run in `Services.cfg` |
| `lifecycle_ghost`, `lifecycle_interrupted`, `retention_both`, `due_backups_twice`, `agent_watchdog`, `pairing_once`, `agent_uptime` | one claim of a comment or a page each, refuted | the least that shows it |

Why the bounds are enough for what they ask. A row is reached by no other row
except through prepare's replacement, hence two rows. Two connections are what
"the old one and the new one" needs. Two days and two backups let each rule
select one row and spare another. More jobs than slots make some wait, and six
expressions have every form of entry and a step of 0, one of them misspelled
fields, one a foreign character and one a field too few. A channel of one message is full as a channel of
ten is, after fewer steps. Every one of the safety properties that is proved
(below) holds whatever the bounds.

The bounds of `services`: three tokens, so that one login's token can be
refreshed twice at once; two codes, rows and pairings, and one socket, the races
of several sockets being `server`'s; one update from version 1 to 2; two
calls, two dialogs and two sockets of the agent; two callbacks under way; a
window of three days of two units with a heartbeat at five (seven days and six
in the code); one backup, two sockets and three fetches of a page, for its
mount, a trigger and the end of the backup; two clients, one job and one policy:
a second link can only be a second client's; a word to search for, three fetches
and two visits of a list of one row, three fetches of two cards, four of a feed
of three rows with pages of one; two backups and one day's change of the
dashboard, of which one is listed as the last; four dialogs.

The symmetric sets are not declared as symmetric: the runs with liveness would
not be sound, and the others do not need it.

### What the runs show

What holds: a COMPLETED row is downloadable unless the one-hour timeout, having
found the row in progress, removed the object of an upload that finished in the
meantime; a COMPLETED row is demoted only by a decision taken on what was read
before; the table and the bucket are the records of `BackupRecord`, whoever
writes; no row stays IN_PROGRESS; a row with a key never lost its object to
retention; the count rule leaves the newest; the flag and failed deletes do not
stop retention; the queue loses no slot; the agent runs one job at a time; an
open socket is the registered one, in whatever order two `onOpen`s resume, and a
revoked one is closed; a job starts only in a minute that its expression names,
as far as the expression is of the syntax, and never when a field has a foreign
character; and the queue is the worker pool that it means to be. That of the sockets
excepts a socket whose lookup was answered before the revocation and whose
session update then throws: it is registered, open and stays so, which no text
of the repository rules out.

Of the services, with the exceptions written into the properties, each of which
is a behaviour of the code that TLC showed first:

- `RotationConserves`, `LiveTokenKept`: rotation never multiplies sessions, and
  a browser loses a live token only by a logout or through a request that
  carried another token. The latter happens: a 401 to a token that was rotated
  in the meantime throws away its successor.
- `UsedMeansPaired`, `PutOutLeaves`, `TransactionsEnd`: a code is spent in a
  step that makes a session of it, and every session takes a pairing that began
  with a fresh code (an action property). It does not say that a code makes one
  session only: two pairings that began with it fresh make one each
  (`pairing_once` below). Who is put out is disconnected, and no transaction waits
  for good. A socket whose `onOpen` was between its lookup and its registration escapes a
  revocation or a deletion (`late`).
- `AgentNeverLost`, `LockMeansUpdating`: binary or `.bak` is there unless a
  rollback failed as well; the lock is free after every failure, except where
  the service could not be stopped, when the process goes on and ignores
  updates.
- `NothingLeaks`, `EveryCallSettles`: a closed socket rejects nothing, and yet
  nothing stays pending and no dialog loads for ever, thanks to the timers.
- `HistoryCatchesUp`, `PagesAgree` (uptime and dashboard): rows written in the wrong order are put
  right by a snapshot; no time is counted that an agent was away, the timeline
  and the sum agree, and so do the dashboard's figures unless rows changed
  between its queries.
- `ToldIsListed`, `ViewCatchesUp`: a list whose newest fetch is the one applied
  has every end of a backup that the page was told of, whatever is still on its
  way; the pages come to show the agent as it is, and to offer a backup when it
  is idle and none when it runs one or is away, as long as the page's token has
  its session. What is offered while a backup waits it leaves open: the manual says
  the lightning button is disabled while the agent is queued, but `agentBusy` looks
  at the connection and the current job only, so it is enabled while the same page
  shows the agent as queued. A socket that reconnects with a rotated token is refused until the page
  is loaded again.
- `OnePolicyPerJob`, `InUseStays`: PATCH locks the job's row before it replaces
  the link, so that two clients leave one link; the checks of what is in use
  miss what is saved while they run (`late`).
- `ListMatchesHeader`, `PagesAgree` (feed, cards, dialogs): what is shown is what was asked for when the
  newest fetch is the one applied: the rows that the query of the header (or of
  the closure of the last change) matches, and none that the page was told is
  gone. Nothing in the pages sees to it that it is the newest: an older answer
  that comes last stays. A dialog asked for while another one is being put up waits
  for the next one (`crossed`); an order chosen before the fetch of a trigger is
  due is lost (`outrun`); a feed over changing rows lists a backup twice.

`OnlyWhenDue` says what the code does, in two points against its texts. The
validation of the fields is said to keep a malformed expression from ever
firing, and is one of characters: "1*" and "-0" pass, are read as 1 and as 0-0,
and fire. And the manual says that a job fires on the agent's clock: it fires on
the server's, in the server's zone. (The same sentence calls the syntax the
standard one. Cron starts a job when the day of the month or that of the week
matches; `isCronDue` asks for both, as its comment lets one expect.)

What does not hold, each by a run that must find the counterexample:

- `lifecycle_ghost`: recovery on connect (`ws.agent.ts` 44-48) is meant to leave
  no ghost runs. A `start_backup` sent on the socket captured before the row was
  created is lost if the agent reconnects in between, after the scan of the new
  connection; the row stays PENDING, which the timeout does not look at.
- `lifecycle_interrupted`: recovery is meant for "a prior crash" and writes
  "Agent restarted". It runs on every connect, so a short loss of the network
  fails the row of a backup that is still running.
- `retention_both`: the manual says a backup goes "only when both rules agree";
  the code deletes the union.
- `due_backups_twice`: the guard against two instances counts rows that do not
  exist until the queue gets to the job.
- `pairing_once`: the code is said to be a one-time code and a second use to be
  answered "Code already used". That is looked at before the transaction: two
  requests that found the code fresh get a session each.
- `agent_uptime`: the purge deletes rows older than the window that the uptime is
  computed over, and with them the baseline that `computeUptimePct` and the
  history route look for. An agent that was online all week counts as down for
  up to six days of it, until the rows of the heartbeat fill the window.
- `agent_watchdog`: the outgoing loop of the agent calls `process_next_job`,
  whose sends wait for room in the channel that this loop alone empties. With
  the channel full the loop waits for itself; the watchdog's shutdown is not
  seen and the agent is gone until the process is restarted. `HungIsForever`
  and `OnlyHungStops` say that this is for good and that nothing else hangs it.

## Fairness

- `lifecycle`: weak fairness of the timeout sweep alone. The minute timer fires
  until a row is over an hour old and the sweep then runs on. Nothing is assumed
  of the agent, the network or the handlers: `InProgressEnds` holds by the
  timeout. `LiveSpec`, used to refute `GhostsAreClosed`, adds that the event
  loop runs pending handlers and that the agent goes on.
- `retention`: the hourly task starts again and again and its run continues.
  Each awaited call of it returns or throws.
- `server`: a dispatch settles, its database calls return or throw.
  The reaper's timer fires; an entry gets old once every peer that
  could speak is silent; the close of a socket whose peer is there completes. A
  vanished peer's socket need never close, and no ping has to be sent. The
  fairness of `WorkerPool`, a finish of each busy worker, is not assumed but shown:
  it follows from that of the dispatches.
- `agent_runner`: tokio's mutexes are FIFO and so are the channels' waiters,
  `select!` chooses at random among ready branches: strong fairness of the
  loop's write and shutdown branches and of the end of a job, weak fairness of
  `process_next_job`. Nothing is assumed of the server, the network or 7z.
- `services`: the statements of a pairing and of a deletion return (Postgres
  answers, and gives up a lock when its transaction ends); a timer fires once it
  is armed and the response of a settled request arrives or its fetch fails; the
  snapshot runs every ten minutes and the callbacks under way get on; the server
  pushes the statuses every few seconds, the page's socket reconnects when it
  dropped, and messages and answers on their way arrive or break. Nothing is
  assumed of users, agents, the network staying up or a token lasting.

Deadlock is not checked: each system may stop when its bounds are used up.

## What is proved

For every value of the constants that satisfies the `ASSUME`s of the module
(bounds are naturals, `None` is not a backup, and so on). Each theorem is of the
component's own specification; those of the services hold of `Services` as
well, since a behaviour of `Services` is one of each component
(`EachBehaves`).

**`BackupLifecycle_proofs`**

- `TypeCorrect`.
- `Downloadable`: `CompletedIsDownloadable` always holds. The property is not
  inductive: a COMPLETED status is written by `/upload/complete` and by a late
  status frame, and each of them trusts something that was true when it was
  sent. The inductive invariant `IInv` says, for whatever may lead to a
  COMPLETED row, that it vouches for the object: the rows themselves, the
  handlers in flight, the `completed` frames on the wire, the requests at
  `/upload/complete` and the agent's own run; and that whatever names a backup
  names one whose row has been created (`DispatchKnows`, `CommandsKnow`,
  `AgentKnows`, `RunKnows`, `SweepKnows`), so that a new row never inherits an
  old key.
- `DemotionIsStale`: the action property `DemotedOnlyByStaleRead`. That a failed
  send and `stale_backup` never demote a COMPLETED row rests on what cannot be
  under way at the same time: nobody (agent, frame, handler) hears of a backup
  before its dispatch is over (`HeardWasSent`), so the row that a failed send
  marks is one that no agent can have completed.
- `LifecycleKeepsRecords`: `RecordKept`, the refinement of `BackupRecord`. The
  initial states map to `Blank`; each action is shown to be a named step of the
  records or a stutter (`DispatchIsRecord`, `HandlerIsRecord`, `SweepIsRecord`,
  `AgentIsRecord`, put together in `NextIsRecord`). `IInv` gives the evidence of
  a success; in addition the sweep needs that what it is about to remove still
  has its key (`SweepHolds`), which no other action clears.

**`Retention_proofs`**

- `TypeCorrect`; `RowsOutlivedByObjects`: `RowHasObject` always holds. It is
  inductive with two facts: a row whose object is about to be removed is deleted
  already, and a row with a key was created.
- `NewestAreKept`: the action property `NewestKept`, for any policies with their
  nulls and zeros. Pruners delete what they selected on an older reading, in
  batches and beside one another, so the invariant (`MarkedMayGo`) is about what
  is marked: a row on anybody's list is over age, or as many newer rows survive
  as the rule keeps. It is kept because a deletion removes a marked row, and of
  the rows deleted together the newest is the one whose survivors count; that
  needs rows numbered in the order of their start (`InOrder`).

**`DueBackups_proofs`**

- `TypeCorrect`, `NoSlotLost` and `PendingIsQueue`. The invariant is a predicate
  on one instance's queue, and the lemmas show that `Enqueue` and `Release`,
  through `Drain`, keep it.
- `QueueImplementsPool`: every step of the detailed queue is a step of
  `WorkerPool` or a stutter, by the lemmas that one `Enqueue` is a start or a
  queueing and one `Release` a finish.
- `ParserReadsSyntax`: for every expression and every moment, `Scheduled` implies
  `expressionMatches` and that implies `NotExcluded`; for an expression of the
  syntax all three agree. Between the two bounds is what JavaScript makes of
  misspelled entries. `SpelledReads` has a case for each form of entry. The loop is a recursive function; that it exists is shown by
  giving its values (`LoopIsThere`), and that it finds a value exactly when some
  multiple of the step reaches it by the least counterexample, as the
  induction theorems of the library are out of the provers' reach.
- `StartedWasDue`: `OnlyWhenDue` always holds, for any expressions saved. The invariant follows a job from
  the scan that found it due through the queue to the dispatch and the row.

**`AgentRunner_proofs`** `TypeCorrect`; `OneBackupAtATime`. The strengthening
says that a job taken but not spawned is the one being started, that one process
at most starts a job, and that a job in the queue is not running. `HungForGood`,
the action property `HungIsForever`: with `IInv`, it needs that whoever holds
`current_job`'s mutex is sending its final status, and that a restarted process
has no loop.

**`AgentLink_proofs`** `TypeCorrect`; `OpenIsRegistered` and `RevokedStaysOut`,
which are inductive together: a revocation closes the registered socket alone,
and that is enough because no other one is open.

**`Access_proofs`** (`UserSessions`, `Enrolment`, `AgentUpdate`, `AgentRequests`)

- `SessionsTypes`; `RotationMultipliesNothing`, which is inductive once the rows
  are known to be of tokens that were signed (`RowsSigned`); `TokenIsKept`, an
  action property, which needs of a request that was answered that the token it
  carried is dead, has no row any more, or is the one the answer carries
  (`SlotOK`), and that a token that is dead stays dead.
- `EnrolTypes`; `PutOutIsClosed`, that `PutOutLeaves` always holds, and
  `CodeBuysSession`, the action property `UsedMeansPaired` (which does not make a
  code a one-time code, see `pairing_once`). Both need the shape
  of what is under way (`EnrolShape`): a pairing that has seen the agent has
  seen the one that is there, for it holds the row of its code, which keeps the
  deletion from committing; and the deletion closes sessions that exist.
- `AgentIsNeverLost`; `LockIsForUpdating`. What is needed is that the agent's
  binary is away only between two renames, with its .bak there
  (`BetweenRenames`, `AwayMeansSwapping`), and that the task hands the lock to
  the helper that it starts (`LockHandedOver`).
- `RequestsLeaveNothing`: `NothingLeaks` always holds. An answer and a timer of
  one request must not both settle it, nor a late answer settle a later request:
  the ids drawn so far bound everything, and what is pending and what is settled
  are disjoint (`CallsInv`).

**`Pages_proofs`** (`JobEditing`, `LiveView`, `ListPage`, `BackupFeed`,
`CardViews`, `DialogQueue`)

- `EditTypes`; `JobKeepsOnePolicy`, by the invariant that a transaction holds its
  job alone and that, once it has deleted, the job has no other links until it
  commits (`LockedAlone`, `ClearedAll`); `WhatIsUsedStays`, as between the look
  and the mark of a deletion whoever starts to use what it deletes is marked
  late (`DroppingUnused`, `RemovingUnused`).
- `LiveTypes`; `ToldEndsAreListed`: `ToldIsListed` always holds. A row is written
  before its end is pushed (`ToldIsWritten`), and every push makes a fetch that
  is newer than those before (`NewestHasAll`).
- `ListTypes`; `ListIsAsAsked`: `ListMatchesHeader` always holds. The newest
  fetch, wherever it is, carries the query of the page or that of a change and,
  once answered, has what the page was told (`NewestIsGood`); what it was told
  was so on the server and cannot be undone (`ToldTheTruth`); a fetch whose rows
  are shown is over, so no older answer has its number (`ShownIsOver`).
- `FeedListsInOrder`: `FeedInOrder` always holds. A page that was read of the rows
  as they are is on its way with the place it was asked for (`PagesRead`), what
  is listed of such rows is what comes first (`ListedFirst`), and a page that
  starts the list again was asked for from the start (`SkipsRight`).
- `CardsStandInOrder`: `CardsInOrder` always holds. The newest fetch asks for the
  chosen order unless one was due before (`NewestIsChosen`), and cards stand as
  their fetch was sorted (`CardsAsFetched`); sorting them again on the page by
  the last backup and filtering them loses none.
- `DialogsTakeTurns`: `DialogsInTurn` always holds. What is up was asked for before
  what waits (`UpBeforeQueued`), each dialog is up, waits or is over (`Placed`),
  and a timer is of a dialog that is up (`TimersUp`).

These rest on lemmas about `Sorting`: in a strict order of a finite set the ranks
are each taken once (`RankGrows`, `RankTaken`), so that `SortedBy` lists every
element once and in order (`SortedIsSorted`) and `Kept` what is kept (`KeptIsKept`).

**`Services_proofs`** (`Uptime`, `Dashboard`, `AgentStatusHistory`, `Services`)

- `UptimeIsRight`: `UptimeAddsUp` always holds, for any lengths of day, window and
  heartbeat. The rows say what was, each until the next (`SaysWhatWas`), and the
  newest is at most a heartbeat old and says what is now (`NewestIsNow`); a purge
  keeps that, as it takes the oldest only. A sum of the lengths of rows is then a
  number of moments (`SpansAddUp`): the spans follow one another, so that none is
  counted twice. The grouping of the timeline covers the same moments as the
  rows (`EachUnitHasARow`, `GroupsAre`), and the days cut the window into pieces
  that follow one another (`DaysFollow`, `DaysAddUp`).
- `BoardGoesTogether`: `BoardAddsUp` always holds. As long as no row changed between
  the queries, what has been answered is what the database has now (`FromNow` in
  the invariant); afterwards it goes together as it did (`GoTogether`). The shares of
  the jobs, each rounded down, make no more than 100 (`SumsInProportion`). The
  success rate is rounded, so that 100 means all only of fewer than 200 backups:
  the proof needed that of `LastTaken`, which is 10 in the code.
- `StatusTypes`: what `recordStatus` inserts is a status (`HasAStatus`).
- `EachBehaves`; `ServicesTypes`, that `ServicesTypeOK` always holds, and
  `PagesShowAgreement`, that `PagesAgree` does: both are put together from the
  theorems on the components.

The sums are of recursive functions of the community modules. That
`SumFunction` of a finite set counts cells, one for each unit (`SumIsCells`), and
that it is taken apart over disjoint sets (`SumOfDisjoint`) is shown by a least
counterexample among the subsets (`MinimalSet`, by the library's order on them),
without an induction theorem.

Model-checked only: the liveness properties (the prover does not do liveness
under fairness, nor ENABLED): `InProgressEnds`, `PolicyIsEnforced`,
`WaitingIsServed` and the fairness of `WorkerPool` in `QueueIsPool`,
`OnlyHungStops`, `DeadEntryGoes`, `TransactionsEnd`, `EveryCallSettles`,
`HistoryCatchesUp` and `ViewCatchesUp`. Every invariant and action property of a
passing run is a theorem, and so is the safety part of `QueueIsPool`
(`QueueImplementsPool`). No module declares a RECURSIVE operator.

## Not modelled

Contents of archives, sizes, names, logging, the metadata of frames; 7z and file
staging but for whether they succeed. The rate limiter, the wrappers of bcrypt,
JWT, Prisma and S3, which have no state of their own. The info column of an
agent session (read, merged and written without a guard: a field can be lost
until the next start). The objects that `runBackupPolicy` leaves in the bucket,
which nothing collects. The agent's setup, configuration, IPC and tray:
interaction, a file and a one-way broadcast. In the web application the wiki,
the presentational components, and code that no page uses (bulk actions, the
footer, selected rows, `clearAllFilters`). Declarations and scripts: the schema,
whose unique keys and rules of deletion the models use, the proxy, the
installers. The early tick: that `setInterval` never fires before its time is
assumed. A change of password leaves the user's sessions as they are (`users.ts`
94-113), and nothing says otherwise.

The list of backups is limited to what decides which rows are shown; "download
the latest" looks at the newest row alone, even while that one is still running
(`agent-jobs.tsx` 450), which no model has. The reasons for each component
are in `PROJECT.json`.

## Plan

What is done, in order: `BackupLifecycle`, `Retention`, `DueBackups`,
`AgentRunner`, `AgentLink`, with proofs; `Cron` and `WorkerPool` with its
refinement, checked and proved; the services and the pages, of which
`UserSessions`, `Enrolment`, `AgentUpdate`, `AgentRequests`, `JobEditing`,
`LiveView` and `ListPage` with proofs; every safety invariant and action
property of the backup path as a theorem; `BackupRecord` and that
`BackupLifecycle` implements it; the figures, the feed, the cards and the dialogs
with proofs, and the services side by side. What is left:

1. A run for the update that restarts over a job that arrived meanwhile
   (`AgentRunner` has the steps).
2. The liveness properties, which the installed provers do not reach.
