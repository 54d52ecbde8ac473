--------------------------- MODULE BackupLifecycle ---------------------------
(***************************************************************************)
(* The life of a backup record between the server and one agent: the       *)
(* dispatcher that creates the row and sends start_backup, the websocket   *)
(* that may drop and be replaced, the agent that queues, runs and uploads, *)
(* the status handlers that write the row after an await, the scan that    *)
(* fails "stuck" rows on every (re)connect, and the one-hour timeout.      *)
(*                                                                         *)
(* An asynchronous handler of the server is one action per stretch between *)
(* two awaits; what it read before an await is kept in a variable of its   *)
(* own.  Rows, objects and the lockfile are durable, all else is not.      *)
(***************************************************************************)
EXTENDS Naturals, Sequences

CONSTANTS
  Backups,      \* identifiers of the rows that may be created
  Spares,       \* those among them that only /upload/prepare draws
  None,         \* no backup: an empty current_job, an absent lockfile
  MaxConns,     \* bound: websocket connections the agent ever opens
  MaxIncidents  \* bound: crashes of the server or the agent, deletion of the job

ASSUME BoundsAssumption == MaxConns \in Nat \ {0} /\ MaxIncidents \in Nat

ASSUME NoneAssumption == None \notin Backups /\ Spares \subseteq Backups

Conns == 1 .. MaxConns

VARIABLES
  \* durable
  row,          \* the Backup table: status, blob_key set?, error column
  blobs,        \* keys of the objects in the bucket (one key per backup id)
  lock,         \* the agent's lockfile
  jobDeleted,   \* the BackupJob is soft-deleted
  \* the link
  conn,         \* number of the newest connection, 0 before the first
  link,         \* its state as the server sees it
  down,         \* frames on their way to the agent on the newest connection
  up,           \* frames on their way to the server, per connection
  \* handlers of the server in flight
  disp,         \* sendStartBackupCommand / initBackup
  handlers,     \* handleBackupStatusUpdate, past its findUnique
  scans,        \* recoverStuckBackups, per connection
  sweep,        \* timeoutStaleBackups
  creqs,        \* /upload/complete requests the server has yet to process
  \* the agent process
  queue,        \* job_queue
  cur,          \* current_job
  run,          \* progress of run_backup_job, the upload's id, and its cmd_tx
  \* history and bounds
  swept,        \* objects the timeout has removed
  incidents

dbVars     == <<row, blobs, jobDeleted>>
linkVars   == <<conn, link, down, up>>
serverVars == <<disp, handlers, scans, sweep, creqs>>
agentVars  == <<lock, queue, cur, run>>
histVars   == <<swept, incidents>>
vars == <<dbVars, linkVars, serverVars, agentVars, histVars>>

Status == {"absent", "PENDING", "IN_PROGRESS", "COMPLETED", "FAILED", "deleted"}
ErrorColumn == {"none", "send", "interrupted", "timeout", "agent"}
Exists(b) == row[b].status \notin {"absent", "deleted"}

StuckUnguarded(b) == Exists(b)  \* mutant: the status guard is dropped
Stuck(b)  == row[b].status \in {"PENDING", "IN_PROGRESS"}

FrameType == {"running", "completed", "failed", "stale_backup"}
Frame     == [type: FrameType, id: Backups]
StartMsg  == [type: {"start_backup"}, id: Backups]
Connected == [type |-> "connected", id |-> None]

Stage == {"idle", "compress", "upload", "confirm", "ok", "err"}
Row      == [status: Status, key: BOOLEAN, error: ErrorColumn]
Dispatch == [pc: {"none", "checked", "created"}, conn: 0 .. MaxConns]
Handler  == [id: Backups, to: {"IN_PROGRESS", "COMPLETED", "FAILED"}]
Scan     == [pc: {"off", "find", "mark"}, ids: SUBSET Backups]
Sweep    == [pc: {"off", "mark", "clean"}, ids: SUBSET Backups,
             keyed: SUBSET Backups, removed: SUBSET Backups]
Run      == [stage: Stage, slot: Backups \cup {None}, tx: 0 .. MaxConns]

Idle  == [stage |-> "idle", slot |-> None, tx |-> 0]
NoDispatch == [pc |-> "none", conn |-> 0]
NoScan  == [pc |-> "off", ids |-> {}]
NoSweep == [pc |-> "off", ids |-> {}, keyed |-> {}, removed |-> {}]

TypeOK ==
  /\ row \in [Backups -> Row]
  /\ blobs \subseteq Backups /\ swept \subseteq Backups /\ creqs \subseteq Backups
  /\ jobDeleted \in BOOLEAN
  /\ lock \in Backups \cup {None} /\ cur \in Backups \cup {None}
  /\ conn \in 0 .. MaxConns
  /\ link \in {"down", "open", "registered", "up"}
  /\ down \in Seq(StartMsg \cup {Connected})
  /\ up \in [Conns -> Seq(Frame)]
  /\ disp \in [Backups -> Dispatch]
  /\ handlers \subseteq Handler
  /\ scans \in [Conns -> Scan]
  /\ sweep \in Sweep
  /\ queue \in Seq(Backups)
  /\ run \in Run
  /\ incidents \in 0 .. MaxIncidents

Init ==
  /\ row = [b \in Backups |-> [status |-> "absent", key |-> FALSE, error |-> "none"]]
  /\ blobs = {} /\ swept = {} /\ creqs = {} /\ handlers = {}
  /\ jobDeleted = FALSE /\ lock = None /\ cur = None /\ incidents = 0
  /\ conn = 0 /\ link = "down" /\ down = <<>> /\ up = [c \in Conns |-> <<>>]
  /\ disp = [b \in Backups |-> NoDispatch]
  /\ scans = [c \in Conns |-> NoScan] /\ sweep = NoSweep
  /\ queue = <<>> /\ run = Idle

(* A frame the agent writes on connection c is lost unless c is still open. *)
SendUp(c, frame) ==
  up' = IF link # "down" /\ c = conn THEN [up EXCEPT ![c] = Append(@, frame)] ELSE up

(* db.backup.updateMany on ids: rows that no longer exist are not matched. *)
FailRows(ids, why) ==
  row' = [b \in Backups |-> IF b \in ids /\ Exists(b)
                              THEN [row[b] EXCEPT !.status = "FAILED", !.error = why]
                              ELSE row[b]]

-----------------------------------------------------------------------------
(* The link. *)

(* The agent's connect_async succeeded: its tasks run, the server's onOpen *)
(* awaits the session lookup and has not set agentId yet.                  *)
Open ==
  /\ link = "down" /\ conn < MaxConns
  /\ conn' = conn + 1 /\ link' = "open" /\ down' = <<>>
  /\ UNCHANGED <<dbVars, up, serverVars, agentVars, histVars>>

(* onOpen after the lookup: the registry entry makes the agent dispatchable. *)
Register ==
  /\ link = "open" /\ link' = "registered"
  /\ UNCHANGED <<dbVars, conn, down, up, serverVars, agentVars, histVars>>

(* onOpen after the session update: "connected" is sent, the scan is started. *)
Welcome ==
  /\ link = "registered" /\ link' = "up"
  /\ down' = Append(down, Connected)
  /\ scans' = [scans EXCEPT ![conn] = [pc |-> "find", ids |-> {}]]
  /\ UNCHANGED <<dbVars, conn, up, disp, handlers, sweep, creqs, agentVars, histVars>>

(* The connection breaks.  Frames already received may still be handled,   *)
(* even after the agent is back on a newer connection.                     *)
Drop ==
  /\ link # "down" /\ link' = "down" /\ down' = <<>>
  /\ UNCHANGED <<dbVars, conn, up, serverVars, agentVars, histVars>>

LoseFrames(c) ==
  /\ up[c] # <<>> /\ (c # conn \/ link = "down")
  /\ up' = [up EXCEPT ![c] = <<>>]
  /\ UNCHANGED <<dbVars, conn, link, down, serverVars, agentVars, histVars>>

-----------------------------------------------------------------------------
(* Dispatch: sendStartBackupCommand and initBackup. *)

(* The job is read, the registry entry is captured. *)
DispatchCheck(b) ==
  /\ disp[b].pc = "none" /\ row[b].status = "absent" /\ b \notin Spares
  /\ ~jobDeleted /\ link \in {"registered", "up"}
  /\ disp' = [disp EXCEPT ![b] = [pc |-> "checked", conn |-> conn]]
  /\ UNCHANGED <<dbVars, linkVars, handlers, scans, sweep, creqs, agentVars, histVars>>

DispatchCreate(b) ==
  /\ disp[b].pc = "checked"
  /\ row' = [row EXCEPT ![b].status = "PENDING"]
  /\ disp' = [disp EXCEPT ![b].pc = "created"]
  /\ UNCHANGED <<blobs, jobDeleted, linkVars, handlers, scans, sweep, creqs,
                 agentVars, histVars>>

(* The command goes to the socket captured before the row was created.  On *)
(* a socket that closed meanwhile it is lost, or send throws.              *)
DispatchSend(b) ==
  /\ disp[b].pc = "created"
  /\ disp' = [disp EXCEPT ![b] = NoDispatch]
  /\ \/ /\ link # "down" /\ conn = disp[b].conn
        /\ down' = Append(down, [type |-> "start_backup", id |-> b])
        /\ UNCHANGED row
     \/ /\ link = "down" \/ conn # disp[b].conn
        /\ UNCHANGED row \/ FailRows({b}, "send")
        /\ UNCHANGED down
  /\ UNCHANGED <<blobs, jobDeleted, conn, link, up, handlers, scans, sweep,
                 creqs, agentVars, histVars>>

-----------------------------------------------------------------------------
(* The server's handlers. *)

(* onMessage.  Before agentId is set a frame is ignored.  backup_status    *)
(* runs up to the first await of handleBackupStatusUpdate; stale_backup is *)
(* one guarded updateMany.                                                 *)
RawStatus(type) == type  \* mutant: the agent's word is written as it is
StatusOf(type) == CASE type = "running"   -> "IN_PROGRESS"
                    [] type = "completed" -> "COMPLETED"
                    [] OTHER              -> "FAILED"

Receive(c) ==
  LET f == Head(up[c]) IN
  /\ up[c] # <<>>
  /\ up' = [up EXCEPT ![c] = Tail(@)]
  /\ \/ /\ c = conn /\ link = "open"
        /\ UNCHANGED <<row, handlers>>
     \/ /\ ~(c = conn /\ link = "open") /\ f.type = "stale_backup"
        /\ FailRows({b \in {f.id} : Stuck(b)}, "interrupted")
        /\ UNCHANGED handlers
     \/ /\ ~(c = conn /\ link = "open") /\ f.type # "stale_backup"
        /\ handlers' = IF Exists(f.id)
                         THEN handlers \cup {[id |-> f.id, to |-> StatusOf(f.type)]}
                         ELSE handlers
        /\ UNCHANGED row
  /\ UNCHANGED <<blobs, jobDeleted, conn, link, down, disp, scans, sweep, creqs,
                 agentVars, histVars>>

StatusUpsert(h) ==  \* mutant: makes the row when there is none
  /\ h \in handlers /\ handlers' = handlers \ {h}
  /\ row' = [row EXCEPT ![h.id].status = h.to,
                        ![h.id].error = IF h.to = "FAILED" THEN "agent" ELSE @]
  /\ UNCHANGED <<blobs, jobDeleted, linkVars, disp, scans, sweep, creqs,
                 agentVars, histVars>>

(* The update at the end of handleBackupStatusUpdate: by id only, whatever *)
(* the row's status has become.  An error text comes with "failed" alone.  *)
StatusUpdate(h) ==
  /\ h \in handlers /\ handlers' = handlers \ {h}
  /\ row' = IF Exists(h.id)
              THEN [row EXCEPT ![h.id].status = h.to,
                               ![h.id].error = IF h.to = "FAILED" THEN "agent" ELSE @]
              ELSE row
  /\ UNCHANGED <<blobs, jobDeleted, linkVars, disp, scans, sweep, creqs,
                 agentVars, histVars>>

(* recoverStuckBackups: the ids are read, then failed without a status guard. *)
ScanFind(c) ==
  /\ scans[c].pc = "find"
  /\ LET ids == IF jobDeleted THEN {} ELSE {b \in Backups : Stuck(b)} IN
       scans' = [scans EXCEPT ![c] = IF ids = {} THEN NoScan
                                                  ELSE [pc |-> "mark", ids |-> ids]]
  /\ UNCHANGED <<dbVars, linkVars, disp, handlers, sweep, creqs, agentVars, histVars>>

ScanMark(c) ==
  /\ scans[c].pc = "mark"
  /\ FailRows(scans[c].ids, "interrupted")
  /\ scans' = [scans EXCEPT ![c] = NoScan]
  /\ UNCHANGED <<blobs, jobDeleted, linkVars, disp, handlers, sweep, creqs,
                 agentVars, histVars>>

(* timeoutStaleBackups, one sweep at a time: the rows it finds are those in *)
(* progress whose started_at is, by now, over an hour ago.                  *)
SweepFindPending ==  \* mutant: looks for the wrong status
  /\ sweep.pc = "off"
  /\ \E stale \in SUBSET {b \in Backups : row[b].status = "PENDING"} \ {{}} :
     sweep' = [pc |-> "mark", ids |-> stale, keyed |-> {}, removed |-> {}]
  /\ UNCHANGED <<dbVars, linkVars, disp, handlers, scans, creqs, agentVars, histVars>>

SweepFind ==
  /\ sweep.pc = "off"
  /\ \E stale \in SUBSET {b \in Backups : row[b].status = "IN_PROGRESS"} \ {{}} :
     sweep' = [pc |-> "mark", ids |-> stale, keyed |-> {b \in stale : row[b].key},
               removed |-> {}]
  /\ UNCHANGED <<dbVars, linkVars, disp, handlers, scans, creqs, agentVars, histVars>>

SweepMark ==
  /\ sweep.pc = "mark"
  /\ FailRows(sweep.ids, "timeout")
  /\ sweep' = IF sweep.keyed = {} THEN NoSweep ELSE [sweep EXCEPT !.pc = "clean"]
  /\ UNCHANGED <<blobs, jobDeleted, linkVars, disp, handlers, scans, creqs,
                 agentVars, histVars>>

(* removeObject succeeds, or throws and the row keeps its key. *)
SweepRemove(b) ==
  /\ sweep.pc = "clean" /\ b \in sweep.keyed /\ sweep.removed = {}
  /\ \/ /\ blobs' = blobs \ {b} /\ swept' = swept \cup {b}
        /\ sweep' = [sweep EXCEPT !.removed = {b}]
     \/ /\ sweep' = IF sweep.keyed = {b} THEN NoSweep
                                         ELSE [sweep EXCEPT !.keyed = @ \ {b}]
        /\ UNCHANGED <<blobs, swept>>
  /\ UNCHANGED <<row, jobDeleted, linkVars, disp, handlers, scans, creqs,
                 agentVars, incidents>>

SweepClear(b) ==
  /\ b \in sweep.removed
  /\ row' = IF Exists(b) THEN [row EXCEPT ![b].key = FALSE] ELSE row
  /\ sweep' = IF sweep.keyed = {b} THEN NoSweep
                ELSE [sweep EXCEPT !.keyed = @ \ {b}, !.removed = {}]
  /\ UNCHANGED <<blobs, jobDeleted, linkVars, disp, handlers, scans, creqs,
                 agentVars, histVars>>

(* POST /upload/complete.  It records the upload whatever the row's status *)
(* is, and throws if retention deleted the row.  The agent may have given  *)
(* up on the request, or the answer may be lost.                           *)
Waiting(b) == cur # None /\ run.stage = "confirm" /\ run.slot = b

Complete(b) ==
  LET found == ~jobDeleted /\ Exists(b) IN
  /\ b \in creqs /\ creqs' = creqs \ {b}
  /\ row' = IF found THEN [row EXCEPT ![b].status = "COMPLETED", ![b].key = TRUE] ELSE row
  /\ \/ run' = run
     \/ Waiting(b) /\ run' = [run EXCEPT !.stage = IF found THEN "ok" ELSE "err"]
  /\ UNCHANGED <<blobs, jobDeleted, linkVars, disp, handlers, scans, sweep, lock,
                 queue, cur, histVars>>

-----------------------------------------------------------------------------
(* The agent. *)

(* handle_message.  start_backup is queued.  "connected" comes on every    *)
(* reconnect, not only after a restart: it kills any 7z process, reports   *)
(* the lockfile as a stale backup and removes it.                          *)
AgentReceive ==
  LET m == Head(down) IN
  /\ link # "down" /\ down # <<>> /\ down' = Tail(down)
  /\ \/ /\ m.type = "start_backup"
        /\ queue' = Append(queue, m.id)
        /\ UNCHANGED <<up, lock, run>>
     \/ /\ m.type = "connected"
        /\ IF lock # None THEN SendUp(conn, [type |-> "stale_backup", id |-> lock])
                          ELSE UNCHANGED up
        /\ lock' = None
        /\ \/ run' = run
           \/ run.stage = "compress" /\ run' = [run EXCEPT !.stage = "err"]
        /\ UNCHANGED queue
  /\ UNCHANGED <<dbVars, conn, link, serverVars, cur, histVars>>

(* process_next_job, from the command handler or the 100 ms tick, both of  *)
(* which live with the connection.                                         *)
AgentStart ==
  /\ link # "down" /\ cur = None /\ queue # <<>>
  /\ LET b == Head(queue) IN
       /\ cur' = b /\ queue' = Tail(queue)
       /\ run' = [stage |-> "compress", slot |-> None, tx |-> conn]
       /\ lock' = b
       /\ SendUp(conn, [type |-> "running", id |-> b])
  /\ UNCHANGED <<dbVars, conn, link, down, serverVars, histVars>>

(* POST /upload/prepare.  If retention deleted the row meanwhile the server *)
(* creates another one, IN_PROGRESS, and the upload goes to that id.  The   *)
(* answer may be lost.                                                      *)
AgentPrepare ==
  /\ run.stage = "compress" /\ ~jobDeleted
  /\ \E b \in Backups :
       /\ IF Exists(cur)
            THEN b = cur /\ UNCHANGED row
            ELSE /\ b \in Spares /\ row[b].status = "absent"
                 /\ row' = [row EXCEPT ![b].status = "IN_PROGRESS"]
       /\ \/ run' = [run EXCEPT !.stage = "upload", !.slot = b]
          \/ run' = [run EXCEPT !.stage = "err"]
  /\ UNCHANGED <<blobs, jobDeleted, linkVars, serverVars, lock, queue, cur, histVars>>

(* The PUT to the bucket, tried up to three times, and on success the      *)
(* request for /upload/complete.  The object may be stored though the      *)
(* agent sees only an error, or the request may never reach the server.    *)
AgentPutUnchecked ==  \* mutant: confirms without looking at the PUT's outcome
  /\ run.stage = "upload"
  /\ \E stored \in {{}, {run.slot}} : blobs' = blobs \cup stored
  /\ run' = [run EXCEPT !.stage = "confirm"] /\ creqs' = creqs \cup {run.slot}
  /\ UNCHANGED <<row, jobDeleted, linkVars, disp, handlers, scans, sweep, lock, queue, cur,
                 histVars>>

AgentPut ==
  /\ run.stage = "upload"
  /\ blobs' = blobs \cup {run.slot}
  /\ \/ run' = [run EXCEPT !.stage = "confirm"] /\ creqs' = creqs \cup {run.slot}
     \/ run' = [run EXCEPT !.stage = "err"] /\ UNCHANGED creqs
  /\ UNCHANGED <<row, jobDeleted, linkVars, disp, handlers, scans, sweep, lock, queue, cur,
                 histVars>>

(* Staging, 7z, an HTTP request or all three PUT attempts fail. *)
AgentFail ==
  /\ run.stage \in {"compress", "upload", "confirm"}
  /\ run' = [run EXCEPT !.stage = "err"]
  /\ UNCHANGED <<dbVars, linkVars, serverVars, lock, queue, cur, histVars>>

(* The end of run_backup_job removes the lockfile; the final status goes   *)
(* to the connection the job was started on; current_job is cleared.       *)
AgentFinish ==
  /\ run.stage \in {"ok", "err"}
  /\ lock' = None /\ cur' = None /\ run' = Idle
  /\ SendUp(run.tx, [type |-> IF run.stage = "ok" THEN "completed" ELSE "failed",
                     id |-> cur])
  /\ UNCHANGED <<dbVars, conn, link, down, serverVars, queue, histVars>>

-----------------------------------------------------------------------------
(* The environment. *)

(* The agent process dies: queue and current job are lost, the lockfile    *)
(* and requests already at the server are not.                             *)
AgentCrash ==
  /\ incidents < MaxIncidents /\ incidents' = incidents + 1
  /\ link' = "down" /\ down' = <<>>
  /\ queue' = <<>> /\ cur' = None /\ run' = Idle
  /\ UNCHANGED <<dbVars, conn, up, serverVars, lock, swept>>

(* The server process dies: every handler in flight stops where it is. *)
ServerCrash ==
  /\ incidents < MaxIncidents /\ incidents' = incidents + 1
  /\ link' = "down" /\ down' = <<>> /\ up' = [c \in Conns |-> <<>>]
  /\ disp' = [b \in Backups |-> NoDispatch] /\ handlers' = {} /\ creqs' = {}
  /\ scans' = [c \in Conns |-> NoScan] /\ sweep' = NoSweep
  /\ UNCHANGED <<dbVars, conn, agentVars, swept>>

(* Retention, run after another backup of the job completed, deletes a row *)
(* whatever its status.  Module Retention has the detail, and what becomes *)
(* of the object.                                                          *)
RetentionRow(b) ==
  /\ Exists(b)
  /\ row' = [row EXCEPT ![b].status = "deleted"]
  /\ UNCHANGED <<blobs, jobDeleted, linkVars, serverVars, agentVars, histVars>>

(* DELETE /api/backup-jobs/:id soft-deletes the job and keeps its rows. *)
DeleteJob ==
  /\ incidents < MaxIncidents /\ incidents' = incidents + 1
  /\ ~jobDeleted /\ jobDeleted' = TRUE
  /\ UNCHANGED <<row, blobs, linkVars, serverVars, agentVars, swept>>

-----------------------------------------------------------------------------
LinkStep  == Open \/ Register \/ Welcome \/ Drop \/ \E c \in Conns : LoseFrames(c)

DispatchStep(b) == DispatchCheck(b) \/ DispatchCreate(b) \/ DispatchSend(b)

SweepStep == SweepFind \/ SweepMark \/ \E b \in Backups : SweepRemove(b) \/ SweepClear(b)

HandlerStep ==
  \/ \E c \in Conns : Receive(c) \/ ScanFind(c) \/ ScanMark(c)
  \/ \E h \in handlers : StatusUpdate(h)
  \/ \E b \in Backups : Complete(b)

AgentStep == AgentReceive \/ AgentStart \/ AgentPrepare \/ AgentPut \/ AgentFail
               \/ AgentFinish

EnvStep ==
  \/ AgentCrash \/ ServerCrash \/ DeleteJob
  \/ \E b \in Backups : RetentionRow(b)

Next ==
  \/ LinkStep \/ SweepStep \/ HandlerStep \/ AgentStep \/ EnvStep
  \/ \E b \in Backups : DispatchStep(b)

Spec == Init /\ [][Next]_vars

(* The one-minute timer keeps firing until a row is over an hour old, and  *)
(* the sweep it started runs on.                                           *)
FairSpec == Spec /\ WF_vars(SweepStep)

(* Besides, the event loop runs every handler that is pending and the agent *)
(* process runs what it has started.  Nothing is assumed of dispatches,     *)
(* drops, reconnects, crashes or retention.                                 *)
LiveSpec ==
  /\ FairSpec
  /\ WF_vars(Register) /\ WF_vars(Welcome) /\ WF_vars(HandlerStep) /\ WF_vars(AgentStep)
  /\ \A b \in Backups : WF_vars(DispatchCreate(b) \/ DispatchSend(b))

-----------------------------------------------------------------------------
(* Properties. *)

(* A row that reads COMPLETED can be downloaded: its key is set and the    *)
(* object is in the bucket, whatever upload confirmations, late status     *)
(* frames, scans, crashes and retention did in between.  The one exception *)
(* is an object the one-hour timeout removed, having read the row before.  *)
CompletedIsDownloadable ==
  \A b \in Backups : row[b].status = "COMPLETED" =>
    (row[b].key /\ b \in blobs) \/ b \in swept

(* A COMPLETED row is demoted only by a write whose decision was taken     *)
(* before: a scan or sweep that read the row earlier, or a status frame    *)
(* handled late.  stale_backup, guarded in the update itself, never does.  *)
DemotedOnlyByStaleRead ==
  [][\A b \in Backups :
       row[b].status = "COMPLETED" /\ row'[b].status \notin {"COMPLETED", "deleted"} =>
         \/ \E c \in Conns : b \in scans[c].ids
         \/ b \in sweep.ids
         \/ \E h \in handlers : h.id = b /\ h.to # "COMPLETED"]_row

(* The rows and the bucket are the records of BackupRecord, which knows     *)
(* nothing of sockets, handlers in flight, scans, agents or crashes: no row *)
(* comes back, none succeeds without evidence, no object goes unnoticed.    *)
Record == INSTANCE BackupRecord
  WITH Records <- Backups,
       status  <- [b \in Backups |-> row[b].status],
       keyed   <- {b \in Backups : row[b].key},
       stored  <- blobs,
       removed <- swept

RecordKept == Record!RecordSpec

(* No row stays IN_PROGRESS: the agent's report, the scan on a reconnect   *)
(* or, if all else is lost, the one-hour timeout ends it.                  *)
InProgressEnds ==
  \A b \in Backups : row[b].status = "IN_PROGRESS" ~> row[b].status # "IN_PROGRESS"

(* recoverStuckBackups writes "Agent restarted: backup was interrupted":   *)
(* a row that says so is not being run, nor queued, by the agent.          *)
InterruptedIsNotRunning ==
  \A b \in Backups : row[b].status = "FAILED" /\ row[b].error = "interrupted" =>
    b # cur /\ \A i \in DOMAIN queue : queue[i] # b

(* A row that nobody will ever work on is closed while the agent is        *)
(* connected, so that no ghost run is shown.                               *)
Abandoned(b) == /\ Stuck(b) /\ link = "up" /\ ~jobDeleted
                /\ disp[b].pc = "none" /\ b # cur /\ down = <<>>
                /\ \A i \in DOMAIN queue : queue[i] # b

GhostsAreClosed ==
  \A b \in Backups : Abandoned(b) ~> ~Abandoned(b)
=============================================================================
