------------------------------- MODULE LiveView -------------------------------
(***************************************************************************)
(* What one open page shows of an agent and its backups: the status pushed *)
(* over the dashboard's websocket, and the list the page fetches again when *)
(* it learns that a backup ended.  "jobs" is the agent's job page and the   *)
(* versions dialog, "board" the dashboard.  A page lives until a reload.    *)
(***************************************************************************)
EXTENDS Integers, Sequences

CONSTANTS
  MaxRuns,    \* bound: backups that ever run
  MaxSockets, \* bound: sockets the page opens
  MaxFetches, \* bound: fetches the page makes
  MaxWire     \* bound: messages on their way to the page

ASSUME LiveAssumption == {MaxRuns, MaxSockets, MaxFetches, MaxWire} \subseteq Nat

Runs    == 1 .. MaxRuns
Fetches == 1 .. MaxFetches

VARIABLES
  run,     \* the newest backup
  target,  \* the agent as agentRegistry and the scheduler's queue have it
  written, \* backups whose end is in the database
  failing, \* backups whose failure the server is writing
  token,   \* whether the page's token still has its session
  socket,  \* the page's newest socket
  client,  \* the page's end of it
  server,  \* the server's end of each socket
  wire,    \* messages on the newest socket
  page,    \* which page is open
  shown,   \* the last status received
  old,     \* it is more than a minute old
  prev,    \* prevJobIdRef, -1 for undefined
  fetch,   \* how far each fetch is, and what it read
  applied, \* the fetch whose rows are listed
  listed,  \* the ends the list shows
  told     \* the ends that the page reacted to

liveVars == <<run, target, written, failing, token, socket, client, server, wire,
              page, shown, old, prev, fetch, applied, listed, told>>
worldVars == <<run, target, written, failing, token>>
linkVars  == <<socket, client, server>>
pageVars  == <<page, shown, old, prev, fetch, applied, listed, told>>

Stages == {"idle", "scheduled", "waiting", "running"}
Agent  == [conn: BOOLEAN, stage: Stages, job: 0 .. MaxRuns]
Unseen == [conn |-> FALSE, stage |-> "unseen", job |-> 0]

LiveTypeOK ==
  /\ run \in 0 .. MaxRuns /\ target \in Agent
  /\ written \subseteq Runs /\ failing \subseteq Runs
  /\ token \in {"good", "rotated"} /\ socket \in 0 .. MaxSockets
  /\ client \in {"none", "waiting", "connecting", "open"}
  /\ server \in [1 .. MaxSockets -> {"none", "looking", "up", "closed", "leaked"}]
  /\ wire \in Seq([type: {"agent_statuses"}, body: Agent] \cup [type: {"backup_updated"}, body: Runs])
  /\ page \in {"none", "jobs", "board"} /\ shown \in Agent \cup {Unseen} /\ old \in BOOLEAN
  /\ prev \in -1 .. MaxRuns /\ applied \in 0 .. MaxFetches
  /\ fetch \in [Fetches -> [pc: {"none", "sent", "read", "done"}, got: SUBSET Runs]]
  /\ listed \subseteq Runs /\ told \subseteq Runs

LiveInit ==
  /\ run = 0 /\ target = [conn |-> TRUE, stage |-> "idle", job |-> 0]
  /\ written = {} /\ failing = {} /\ token = "good"
  /\ socket = 0 /\ client = "none" /\ server = [i \in 1 .. MaxSockets |-> "none"]
  /\ wire = <<>> /\ page = "none" /\ shown = Unseen /\ old = FALSE /\ prev = -1
  /\ fetch = [n \in Fetches |-> [pc |-> "none", got |-> {}]]
  /\ applied = 0 /\ listed = {} /\ told = {}

-----------------------------------------------------------------------------
(* The server. *)

Up == socket # 0 /\ server[socket] = "up" /\ client = "open"

(* pushBackupUpdate: to every registered client, at once. *)
PushBackupUpdate(k) ==
  /\ Len(wire) < MaxWire
  /\ wire' = IF Up THEN Append(wire, [type |-> "backup_updated", body |-> k]) ELSE wire

(* A status is built from a query and then from the registry as it is, so  *)
(* it is true when it is sent: on every change and every five seconds.     *)
pushAgentStatuses ==
  /\ Up /\ Len(wire) < MaxWire
  /\ wire' = Append(wire, [type |-> "agent_statuses", body |-> target])
  /\ UNCHANGED <<worldVars, linkVars, pageVars>>

(* A backup waits in the scheduler's queue, goes to the agent's and runs   *)
(* there; the backup of an agent that is away is skipped.                  *)
Schedule ==
  /\ target.stage = "idle" /\ run < MaxRuns
  /\ target' = [target EXCEPT !.stage = "scheduled"]
  /\ UNCHANGED <<run, written, failing, token, linkVars, wire, pageVars>>

Dispatch ==
  /\ target.stage = "scheduled"
  /\ run' = IF target.conn THEN run + 1 ELSE run
  /\ target' = [target EXCEPT !.stage = IF target.conn THEN "waiting" ELSE "idle"]
  /\ UNCHANGED <<written, failing, token, linkVars, wire, pageVars>>

Starts ==
  /\ target.stage = "waiting"
  /\ target' = [target EXCEPT !.stage = "running", !.job = run]
  /\ UNCHANGED <<run, written, failing, token, linkVars, wire, pageVars>>

PushFirst ==  \* mutant: the push before the row is written
  /\ target.job \notin written \cup failing \cup {0}
  /\ failing' = failing \cup {target.job}
  /\ PushBackupUpdate(target.job)
  /\ UNCHANGED <<run, target, written, token, linkVars, pageVars>>

(* upload/complete writes the row, then pushes. *)
Complete ==
  /\ target.job \notin written \cup failing \cup {0}
  /\ written' = written \cup {target.job}
  /\ PushBackupUpdate(target.job)
  /\ UNCHANGED <<run, target, failing, token, linkVars, pageVars>>

(* A failure arrives over the agent's socket; while its row is written, the *)
(* messages after it are handled.                                           *)
Fails ==
  /\ target.job \notin written \cup failing \cup {0}
  /\ failing' = failing \cup {target.job}
  /\ UNCHANGED <<run, target, written, token, linkVars, wire, pageVars>>

WriteFailure(k) ==
  /\ k \in failing /\ failing' = failing \ {k} /\ written' = written \cup {k}
  /\ PushBackupUpdate(k)
  /\ UNCHANGED <<run, target, token, linkVars, pageVars>>

(* The agent's report that it runs nothing any more. *)
Ends ==
  /\ target.job \in written \cup failing
  /\ target' = [target EXCEPT !.stage = "idle", !.job = 0]
  /\ UNCHANGED <<run, written, failing, token, linkVars, wire, pageVars>>

(* The agent dies while it runs one: the row is failed by the recovery,    *)
(* which pushes nothing.                                                   *)
AgentLost ==
  /\ target.stage = "running" /\ target.job \notin written \cup failing
  /\ target' = [conn |-> FALSE, stage |-> "idle", job |-> 0]
  /\ UNCHANGED <<run, written, failing, token, linkVars, wire, pageVars>>

AgentBack ==
  /\ ~target.conn
  /\ target' = [target EXCEPT !.conn = TRUE] /\ written' = written \cup ((1 .. run) \ failing)
  /\ UNCHANGED <<run, failing, token, linkVars, wire, pageVars>>

-----------------------------------------------------------------------------
(* The page's socket. *)

(* Mounting connects the socket and fetches the list. *)
Mount(p) ==
  /\ page = "none" /\ page' = p /\ client' = "waiting"
  /\ fetch' = [fetch EXCEPT ![1].pc = "sent"]
  /\ UNCHANGED <<worldVars, socket, server, wire, shown, old, prev, applied, listed, told>>

Connect ==
  /\ client = "waiting" /\ socket < MaxSockets
  /\ socket' = socket + 1 /\ client' = "connecting"
  /\ UNCHANGED <<worldVars, server, wire, pageVars>>

Opens ==
  /\ client = "connecting" /\ client' = "open"
  /\ server' = [server EXCEPT ![socket] = "looking"]
  /\ UNCHANGED <<worldVars, socket, wire, pageVars>>

(* onOpen, once the session is looked up: the client is registered, or told *)
(* to go.                                                                   *)
Admit ==
  /\ client = "open" /\ server[socket] = "looking" /\ token = "good"
  /\ server' = [server EXCEPT ![socket] = "up"]
  /\ UNCHANGED <<worldVars, socket, client, wire, pageVars>>

Refuse ==
  /\ client = "open" /\ server[socket] = "looking" /\ token = "rotated"
  /\ server' = [server EXCEPT ![socket] = "closed"] /\ client' = "waiting"
  /\ UNCHANGED <<worldVars, socket, wire, pageVars>>

DropForGood ==  \* mutant: the page does not notice and sets no timer
  /\ client = "open" /\ socket < MaxSockets /\ wire' = <<>>
  /\ server' = [server EXCEPT ![socket] = "closed"]
  /\ UNCHANGED <<worldVars, socket, client, pageVars>>

(* The connection breaks, or a ping is not answered; what was on its way is *)
(* lost.  onClose during onOpen's lookup finds no client id: the entry and  *)
(* the intervals that onOpen then makes stay for good.                      *)
Drop ==
  /\ client = "open" /\ socket < MaxSockets
  /\ client' = "waiting" /\ wire' = <<>>
  /\ server' = [server EXCEPT ![socket] =
                  IF @ = "looking" /\ token = "good" THEN "leaked" ELSE "closed"]
  /\ UNCHANGED <<worldVars, socket, pageVars>>

(* The settings dialog rotates the token; the provider keeps the one it was *)
(* mounted with.                                                            *)
Rotate ==
  /\ token = "good" /\ token' = "rotated"
  /\ UNCHANGED <<run, target, written, failing, linkVars, wire, pageVars>>

-----------------------------------------------------------------------------
(* The page. *)

Drawn == {n \in Fetches : fetch[n].pc # "none"}
Newest(n) == n \in Drawn /\ \A m \in Drawn : m <= n

fetchData ==
  \E n \in Fetches :
    /\ fetch[n].pc = "none" /\ \A m \in 1 .. (n - 1) : m \in Drawn
    /\ fetch' = [fetch EXCEPT ![n].pc = "sent"]

(* The status of the agent as every page words it. *)
getAgentStatus(s, stale) ==
  CASE s.stage = "unseen" -> "none"
    [] s.stage # "unseen" /\ ~s.conn -> "disconnected"
    [] s.conn /\ stale -> "stale"
    [] s.conn /\ ~stale /\ s.stage = "running" -> "running"
    [] s.conn /\ ~stale /\ s.stage = "scheduled" -> "scheduler_queued"
    [] s.conn /\ ~stale /\ s.stage = "waiting" -> "queued"
    [] OTHER -> "connected"

Ended(was, now) == was > 0 /\ now = 0

(* The effect of the job page: it fetches when a current job is gone.  An  *)
(* end counts as told when its row is written by then.                     *)
ReceiveStatus ==
  /\ wire # <<>> /\ Head(wire).type = "agent_statuses" /\ wire' = Tail(wire)
  /\ shown' = Head(wire).body /\ old' = FALSE /\ prev' = Head(wire).body.job
  /\ IF page = "jobs" /\ Ended(prev, Head(wire).body.job)
       THEN fetchData /\ told' = told \cup ({prev} \cap written)
       ELSE UNCHANGED <<fetch, told>>
  /\ UNCHANGED <<worldVars, linkVars, page, applied, listed>>

ReceiveUpdate ==
  /\ wire # <<>> /\ Head(wire).type = "backup_updated" /\ wire' = Tail(wire)
  /\ IF page = "board"
       THEN fetchData /\ told' = told \cup {Head(wire).body}
       ELSE UNCHANGED <<fetch, told>>
  /\ UNCHANGED <<worldVars, linkVars, page, shown, old, prev, applied, listed>>

(* A minute without a status. *)
Ages ==
  /\ client \notin {"none", "open"} /\ ~old /\ old' = TRUE
  /\ UNCHANGED <<worldVars, linkVars, wire, page, shown, prev, fetch, applied, listed, told>>

(* triggerBackup is offered while the agent is not busy; the command is    *)
(* dropped when the socket is down, and the list is fetched all the same.  *)
agentBusy == ~shown.conn \/ shown.job # 0

triggerBackup ==
  /\ page = "jobs" /\ ~agentBusy /\ Drawn = {1}
  /\ fetchData
  /\ UNCHANGED <<worldVars, linkVars, wire, page, shown, old, prev, applied, listed, told>>

Reads(n) ==
  /\ fetch[n].pc = "sent" /\ fetch' = [fetch EXCEPT ![n] = [pc |-> "read", got |-> written]]
  /\ UNCHANGED <<worldVars, linkVars, wire, page, shown, old, prev, applied, listed, told>>

(* The response is applied whatever was applied before it; a fetch that    *)
(* fails leaves the list.                                                  *)
Applies(n) ==
  /\ fetch[n].pc = "read" /\ fetch' = [fetch EXCEPT ![n] = [pc |-> "done", got |-> {}]]
  /\ \/ listed' = fetch[n].got /\ applied' = n
     \/ UNCHANGED <<listed, applied>>
  /\ UNCHANGED <<worldVars, linkVars, wire, page, shown, old, prev, told>>

-----------------------------------------------------------------------------
Reconnects == Connect \/ Opens \/ Admit
Receives   == ReceiveStatus \/ ReceiveUpdate
Answered   == \E n \in Fetches : Reads(n) \/ Applies(n)

LiveNext ==
  \/ pushAgentStatuses \/ Schedule \/ Dispatch \/ Starts \/ Complete \/ Fails \/ Ends
  \/ AgentLost \/ AgentBack \/ \E k \in Runs : WriteFailure(k)
  \/ \E p \in {"jobs", "board"} : Mount(p)
  \/ Reconnects \/ Refuse \/ Drop \/ Rotate
  \/ Receives \/ Ages \/ triggerBackup \/ Answered

LiveSpec == LiveInit /\ [][LiveNext]_liveVars

(* The status interval, the reconnect timer, and a network that delivers   *)
(* while it is up.  Of what is taken together, one is possible at a time,  *)
(* or, of the fetches, each only once.                                     *)
LiveFairness ==
  /\ WF_liveVars(pushAgentStatuses) /\ WF_liveVars(Reconnects)
  /\ WF_liveVars(Receives) /\ WF_liveVars(Answered)

-----------------------------------------------------------------------------
(* What the pages make of it; each has its own copy of getAgentStatus. *)

AgentsPageStatus == getAgentStatus(shown, old)
DetailStatus     == getAgentStatus(shown, old)
AgentCard        == getAgentStatus(shown, old)
AgentRow         == AgentCard

(* The dot is lit. *)
ConnectionStatus == AgentsPageStatus \notin {"none", "disconnected"}

(* A job's card and its row: whether a backup can be asked for, and the    *)
(* backup whose progress it shows.                                         *)
JobCard == [trigger |-> ~agentBusy, progress |-> shown.job]
JobRow  == JobCard

(* A row of the versions dialog: the running one with its progress. *)
BackupVersionsTable == [k \in 1 .. run |-> k = shown.job]

(* The dialog of the agent: logs and update are offered while it is there. *)
SessionActions == DetailStatus \notin {"disconnected", "none", "stale"}

onlineCount == IF shown.conn THEN 1 ELSE 0
Overview    == onlineCount

(* A backup can be asked for while nothing is under way, and cannot while  *)
(* one runs or the agent is away; of one that waits this says nothing, see *)
(* ViewCatchesUp.                                                          *)
ShowsAsItIs ==
  /\ {AgentsPageStatus, DetailStatus, AgentCard, AgentRow} = {getAgentStatus(target, FALSE)}
  /\ JobCard.progress = target.job
  /\ target.conn /\ target.stage = "idle" => JobCard.trigger
  /\ JobCard.trigger => target.conn /\ target.stage # "running"
  /\ JobRow = JobCard
  /\ \A k \in DOMAIN BackupVersionsTable : BackupVersionsTable[k] = (k = target.job)
  /\ {SessionActions, ConnectionStatus, Overview = 1} = {target.conn}

-----------------------------------------------------------------------------
(* Properties. *)

(* However often its socket drops and whatever was lost with it, the pages *)
(* come to show the agent as it is, all of them alike, and to offer a      *)
(* backup when it is idle and none when it runs one or is away, as long as *)
(* the page's token has its session.  What is offered while a backup waits *)
(* is left open: the manual has the button disabled when the agent is      *)
(* queued, and agentBusy, which knows of no queue, leaves it enabled.      *)
ViewCatchesUp == <>[](token = "good" /\ page # "none") => <>[]ShowsAsItIs

(* Whenever the newest fetch is the one applied, the list has every end    *)
(* that the page was told of, whatever older answers are still to come:    *)
(* the push, the write and the fetch are in the right order.               *)
ToldIsListed == Newest(applied) => told \subseteq listed
=============================================================================
