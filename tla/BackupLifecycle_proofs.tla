----------------------- MODULE BackupLifecycle_proofs -----------------------
(***************************************************************************)
(* For any set of backups, any number of reconnects, crashes and deletions  *)
(* the type invariant holds, a COMPLETED row can be downloaded, only a      *)
(* decision on a stale reading demotes it, and the table and the bucket     *)
(* are the records of BackupRecord, step by step.                           *)
(*                                                                          *)
(* The second needs the trail of evidence a success leaves: the object is   *)
(* stored before the agent asks to record it, the row has its key before    *)
(* the agent learns of the success, and only then can a "completed" frame,  *)
(* and a handler for it, exist.  Uploaded(b) is what each of them vouches   *)
(* for; it is stable because keys are cleared and objects removed only by   *)
(* the sweep, which leaves a trace in swept, and deleted rows stay deleted. *)
(* The third needs that a frame handled was sent, the last that what a      *)
(* sweep is about to remove still has its key.                              *)
(***************************************************************************)
EXTENDS BackupLifecycle, TLAPS

Created(b)  == row[b].status # "absent"
Stored(b)   == Created(b) /\ (row[b].status = "deleted" \/ b \in blobs \/ b \in swept)
Uploaded(b) == Created(b) /\ (row[b].status = "deleted" \/ b \in swept
                                \/ (row[b].key /\ b \in blobs))

(* What the parts of the system vouch for. *)
RowsVouch     == \A b \in Backups : row[b].status = "COMPLETED" => Uploaded(b)
HandlersVouch == \A h \in handlers : h.to = "COMPLETED" => Uploaded(h.id)
FramesVouch   == \A c \in Conns : \A i \in 1 .. Len(up[c]) :
                   up[c][i].type = "completed" => Uploaded(up[c][i].id)
RequestsVouch == \A b \in creqs : Stored(b)
RunVouches ==
  /\ run.stage = "confirm" => Stored(run.slot)
  /\ run.stage = "ok" => Uploaded(cur)

(* The dispatcher creates only rows that do not exist, the agent is only   *)
(* ever told of rows that do, and uploads under another id only if its own *)
(* row was deleted.                                                        *)
DispatchKnows ==
  \A b \in Backups : /\ disp[b].pc = "checked" => ~Created(b)
                     /\ b \in Spares => disp[b].pc = "none"
                     /\ disp[b].pc = "created" => Created(b)
CommandsKnow ==
  \A i \in 1 .. Len(down) : down[i].type = "start_backup" => Created(down[i].id)
AgentKnows ==
  /\ \A i \in 1 .. Len(queue) : Created(queue[i])
  /\ cur # None => Created(cur)
RunKnows ==
  run.stage \in {"upload", "confirm"} =>
    Created(run.slot) /\ (run.slot # cur => row[cur].status = "deleted")

SweepKnows == sweep.removed \subseteq swept

IInv ==
  /\ RowsVouch /\ HandlersVouch /\ FramesVouch /\ RequestsVouch /\ RunVouches
  /\ DispatchKnows /\ CommandsKnow /\ AgentKnows /\ RunKnows /\ SweepKnows

-----------------------------------------------------------------------------
(* Type correctness. *)

(* The values a handler, a scan, ... starts from. *)
LEMMA RestType ==
  /\ NoDispatch \in Dispatch /\ NoScan \in Scan /\ NoSweep \in Sweep /\ Idle \in Run
  /\ [status |-> "absent", key |-> FALSE, error |-> "none"] \in Row
  /\ Connected \in StartMsg \cup {Connected}
BY BoundsAssumption
DEF NoDispatch, Dispatch, NoScan, Scan, NoSweep, Sweep, Idle, Run, Stage, Row, Status,
    ErrorColumn

(* ... and what an update of a record keeps. *)
LEMMA RecordType ==
  /\ \A r \in Row : \A s \in Status : [r EXCEPT !.status = s] \in Row
  /\ \A r \in Row : \A s \in Status : \A e \in ErrorColumn :
       [[r EXCEPT !.status = s] EXCEPT !.error = e] \in Row
  /\ \A r \in Row : \A s \in Status : \A k \in BOOLEAN :
       [[r EXCEPT !.status = s] EXCEPT !.key = k] \in Row
  /\ \A r \in Row : \A k \in BOOLEAN : [r EXCEPT !.key = k] \in Row
  /\ \A r \in Row : r.error \in ErrorColumn
  /\ \A r \in Run : \A s \in Stage : [r EXCEPT !.stage = s] \in Run
  /\ \A r \in Run : \A s \in Stage : \A b \in Backups :
       [[r EXCEPT !.stage = s] EXCEPT !.slot = b] \in Run
BY DEF Row, Run

(* A run has a current job, and once prepared an id to upload to. *)
RunShape ==
  /\ run.stage # "idle" <=> cur # None
  /\ run.stage \in {"upload", "confirm"} => run.slot # None

LEMMA RunShapeStep == ASSUME TypeOK, RunShape, [Next]_vars PROVE RunShape'
<1> USE DEF RunShape
<1>1. ASSUME UNCHANGED <<run, cur>> PROVE RunShape'
  BY <1>1
<1>2. CASE UNCHANGED vars
  BY <1>1, <1>2 DEF vars, agentVars
<1>3. CASE LinkStep
  BY <1>1, <1>3 DEF LinkStep, Open, Register, Welcome, Drop, LoseFrames, agentVars
<1>4. CASE SweepStep
  BY <1>1, <1>4 DEF SweepStep, SweepFind, SweepMark, SweepRemove, SweepClear, agentVars
<1>5. CASE HandlerStep
  <2>1. ASSUME NEW b \in Backups, Complete(b) PROVE RunShape'
    BY <2>1 DEF Complete, Waiting, TypeOK, Run
  <2>2. QED
    BY <1>1, <1>5, <2>1 DEF HandlerStep, Receive, ScanFind, ScanMark, StatusUpdate, agentVars
<1>6. CASE AgentStep
  <2>1. CASE AgentReceive
    BY <2>1 DEF AgentReceive, TypeOK, Run
  <2>2. CASE AgentStart
    BY <2>2, NoneAssumption DEF AgentStart, TypeOK
  <2>3. CASE AgentPrepare
    BY <2>3, NoneAssumption DEF AgentPrepare, TypeOK, Run
  <2>4. CASE AgentPut
    BY <2>4 DEF AgentPut, TypeOK, Run
  <2>5. CASE AgentFail
    BY <2>5 DEF AgentFail, TypeOK, Run
  <2>6. CASE AgentFinish
    BY <2>6 DEF AgentFinish, Idle
  <2>7. QED
    BY <1>6, <2>1, <2>2, <2>3, <2>4, <2>5, <2>6 DEF AgentStep
<1>7. CASE EnvStep
  BY <1>1, <1>7 DEF EnvStep, AgentCrash, ServerCrash, DeleteJob, RetentionRow, agentVars, Idle
<1>8. CASE \E b \in Backups : DispatchStep(b)
  BY <1>1, <1>8 DEF DispatchStep, DispatchCheck, DispatchCreate, DispatchSend, agentVars
<1>9. QED
  BY <1>2, <1>3, <1>4, <1>5, <1>6, <1>7, <1>8 DEF Next

LEMMA InitType == Init => TypeOK
<1> SUFFICES ASSUME Init PROVE TypeOK
  OBVIOUS
<1>1. 0 \in 0 .. MaxConns /\ 0 \in 0 .. MaxIncidents
  BY BoundsAssumption
<1>2. /\ row \in [Backups -> Row] /\ disp \in [Backups -> Dispatch]
      /\ scans \in [Conns -> Scan] /\ sweep \in Sweep /\ run \in Run
  BY RestType DEF Init
<1>3. /\ down \in Seq(StartMsg \cup {Connected}) /\ up \in [Conns -> Seq(Frame)]
      /\ queue \in Seq(Backups)
  BY DEF Init
<1>4. QED
  BY <1>1, <1>2, <1>3 DEF Init, TypeOK

(* What the two helpers with primes do to the types. *)
LEMMA FailRowsType ==
  ASSUME TypeOK, NEW ids, NEW why \in ErrorColumn, FailRows(ids, why)
  PROVE  row' \in [Backups -> Row]
<1>1. \A b \in Backups : [[row[b] EXCEPT !.status = "FAILED"] EXCEPT !.error = why] \in Row
  BY RecordType DEF TypeOK, Status
<1>2. QED
  BY <1>1 DEF TypeOK, FailRows

LEMMA SendUpType ==
  ASSUME TypeOK, NEW c, NEW f \in Frame, SendUp(c, f)
  PROVE  up' \in [Conns -> Seq(Frame)]
<1>1. ASSUME c \in Conns PROVE Append(up[c], f) \in Seq(Frame)
  BY <1>1 DEF TypeOK
<1>2. QED
  BY <1>1 DEF TypeOK, SendUp

LEMMA LinkType == ASSUME TypeOK, LinkStep PROVE TypeOK'
<1> USE DEF TypeOK, dbVars, serverVars, agentVars, histVars
<1>1. ASSUME Open PROVE TypeOK'
  <2>1. conn' \in 0 .. MaxConns /\ down' \in Seq(StartMsg \cup {Connected})
    BY <1>1, BoundsAssumption DEF Open
  <2>2. QED
    BY <1>1, <2>1 DEF Open
<1>2. ASSUME Register PROVE TypeOK'
  BY <1>2 DEF Register
<1>3. ASSUME Welcome PROVE TypeOK'
  <2>1. [pc |-> "find", ids |-> {}] \in Scan
    BY DEF Scan
  <2>2. scans' \in [Conns -> Scan]
    BY <1>3, <2>1 DEF Welcome
  <2>3. down' \in Seq(StartMsg \cup {Connected})
    BY <1>3 DEF Welcome
  <2>4. QED
    BY <1>3, <2>2, <2>3 DEF Welcome
<1>4. ASSUME Drop PROVE TypeOK'
  <2>1. down' \in Seq(StartMsg \cup {Connected})
    BY <1>4 DEF Drop
  <2>2. QED
    BY <1>4, <2>1 DEF Drop
<1>5. ASSUME NEW c \in Conns, LoseFrames(c) PROVE TypeOK'
  <2>1. up' \in [Conns -> Seq(Frame)]
    BY <1>5 DEF LoseFrames
  <2>2. QED
    BY <1>5, <2>1 DEF LoseFrames
<1>6. QED
  BY <1>1, <1>2, <1>3, <1>4, <1>5 DEF LinkStep

LEMMA DispatchType == ASSUME TypeOK, NEW b \in Backups, DispatchStep(b) PROVE TypeOK'
<1> USE DEF TypeOK, dbVars, linkVars, agentVars, histVars
<1>1. ASSUME DispatchCheck(b) PROVE TypeOK'
  <2>1. [pc |-> "checked", conn |-> conn] \in Dispatch
    BY DEF Dispatch
  <2>2. disp' \in [Backups -> Dispatch]
    BY <1>1, <2>1 DEF DispatchCheck
  <2>3. QED
    BY <1>1, <2>2 DEF DispatchCheck
<1>2. ASSUME DispatchCreate(b) PROVE TypeOK'
  <2>1. [row[b] EXCEPT !.status = "PENDING"] \in Row
    BY RecordType DEF Status
  <2>2. [disp[b] EXCEPT !.pc = "created"] \in Dispatch
    BY DEF Dispatch
  <2>3. row' \in [Backups -> Row] /\ disp' \in [Backups -> Dispatch]
    BY <1>2, <2>1, <2>2 DEF DispatchCreate
  <2>4. QED
    BY <1>2, <2>3 DEF DispatchCreate
<1>3. ASSUME DispatchSend(b) PROVE TypeOK'
  <2>1. row' \in [Backups -> Row]
    BY <1>3, FailRowsType DEF DispatchSend, ErrorColumn
  <2>2. [type |-> "start_backup", id |-> b] \in StartMsg \cup {Connected}
    BY DEF StartMsg
  <2>3. down' \in Seq(StartMsg \cup {Connected})
    <3>1. Append(down, [type |-> "start_backup", id |-> b]) \in Seq(StartMsg \cup {Connected})
      BY <2>2
    <3>2. down' = down \/ down' = Append(down, [type |-> "start_backup", id |-> b])
      BY <1>3 DEF DispatchSend
    <3>3. QED
      BY <3>1, <3>2
  <2>4. disp' \in [Backups -> Dispatch]
    BY <1>3, RestType DEF DispatchSend
  <2>5. QED
    BY <1>3, <2>1, <2>3, <2>4 DEF DispatchSend
<1>4. QED
  BY <1>1, <1>2, <1>3 DEF DispatchStep

LEMMA SweepType == ASSUME TypeOK, SweepStep PROVE TypeOK'
<1> USE DEF TypeOK, dbVars, linkVars, agentVars, histVars
<1>1. ASSUME SweepFind PROVE TypeOK'
  <2>1. sweep' \in Sweep
    BY <1>1 DEF SweepFind, Sweep
  <2>2. QED
    BY <1>1, <2>1 DEF SweepFind
<1>2. ASSUME SweepMark PROVE TypeOK'
  <2>1. row' \in [Backups -> Row]
    BY <1>2, FailRowsType DEF SweepMark, ErrorColumn
  <2>2. sweep' \in Sweep
    BY <1>2, RestType DEF SweepMark, Sweep
  <2>3. QED
    BY <1>2, <2>1, <2>2 DEF SweepMark
<1>3. ASSUME NEW b \in Backups, SweepRemove(b) PROVE TypeOK'
  <2>1. sweep' \in Sweep
    <3>1. [sweep EXCEPT !.removed = {b}] \in Sweep /\ [sweep EXCEPT !.keyed = @ \ {b}] \in Sweep
      BY DEF Sweep
    <3>2. QED
      BY <1>3, <3>1, RestType DEF SweepRemove
  <2>2. QED
    BY <1>3, <2>1 DEF SweepRemove
<1>4. ASSUME NEW b \in Backups, SweepClear(b) PROVE TypeOK'
  <2>1. sweep' \in Sweep
    BY <1>4, RestType DEF SweepClear, Sweep
  <2>2. [row[b] EXCEPT !.key = FALSE] \in Row
    BY RecordType
  <2>3. row' \in [Backups -> Row]
    BY <1>4, <2>2 DEF SweepClear
  <2>4. QED
    BY <1>4, <2>1, <2>3 DEF SweepClear
<1>5. QED
  BY <1>1, <1>2, <1>3, <1>4 DEF SweepStep

LEMMA HandlerType == ASSUME TypeOK, HandlerStep PROVE TypeOK'
<1> USE DEF TypeOK, dbVars, linkVars, agentVars, histVars
<1>1. ASSUME NEW c \in Conns, Receive(c) PROVE TypeOK'
  <2>1. Head(up[c]) \in Frame /\ Tail(up[c]) \in Seq(Frame)
    BY <1>1 DEF Receive
  <2>2. row' \in [Backups -> Row]
    BY <1>1, FailRowsType DEF Receive, ErrorColumn
  <2>3. StatusOf(Head(up[c]).type) \in {"IN_PROGRESS", "COMPLETED", "FAILED"}
    BY DEF StatusOf
  <2>4. [id |-> Head(up[c]).id, to |-> StatusOf(Head(up[c]).type)] \in Handler
    BY <2>1, <2>3 DEF Handler, Frame
  <2>5. handlers' \subseteq Handler
    BY <1>1, <2>4 DEF Receive
  <2>6. up' \in [Conns -> Seq(Frame)]
    BY <1>1, <2>1 DEF Receive
  <2>7. QED
    BY <1>1, <2>2, <2>5, <2>6 DEF Receive
<1>2. ASSUME NEW c \in Conns, ScanFind(c) PROVE TypeOK'
  <2>1. \A ids \in SUBSET Backups : [pc |-> "mark", ids |-> ids] \in Scan
    BY DEF Scan
  <2>2. scans' \in [Conns -> Scan]
    BY <1>2, <2>1, RestType DEF ScanFind
  <2>3. QED
    BY <1>2, <2>2 DEF ScanFind
<1>3. ASSUME NEW c \in Conns, ScanMark(c) PROVE TypeOK'
  <2>1. row' \in [Backups -> Row]
    BY <1>3, FailRowsType DEF ScanMark, ErrorColumn
  <2>2. scans' \in [Conns -> Scan]
    BY <1>3, RestType DEF ScanMark
  <2>3. QED
    BY <1>3, <2>1, <2>2 DEF ScanMark
<1>4. ASSUME NEW h \in handlers, StatusUpdate(h) PROVE TypeOK'
  <2>1. h.id \in Backups /\ h.to \in Status
    BY DEF Handler, Status
  <2>2. \A e \in ErrorColumn : [[row[h.id] EXCEPT !.status = h.to] EXCEPT !.error = e] \in Row
    BY <2>1, RecordType
  <2>3. row[h.id].error \in ErrorColumn /\ "agent" \in ErrorColumn
    BY <2>1, RecordType DEF ErrorColumn
  <2>4. row' \in [Backups -> Row]
    BY <1>4, <2>1, <2>2, <2>3 DEF StatusUpdate
  <2>5. QED
    BY <1>4, <2>4 DEF StatusUpdate
<1>5. ASSUME NEW b \in Backups, Complete(b) PROVE TypeOK'
  <2>1. [[row[b] EXCEPT !.status = "COMPLETED"] EXCEPT !.key = TRUE] \in Row
    BY RecordType DEF Status
  <2>2. row' \in [Backups -> Row]
    BY <1>5, <2>1 DEF Complete
  <2>3. run' \in Run
    BY <1>5, RecordType DEF Complete, Stage
  <2>4. QED
    BY <1>5, <2>2, <2>3 DEF Complete
<1>6. QED
  BY <1>1, <1>2, <1>3, <1>4, <1>5 DEF HandlerStep

LEMMA AgentType == ASSUME TypeOK, RunShape, AgentStep PROVE TypeOK'
<1> USE DEF TypeOK, dbVars, linkVars, serverVars, agentVars, histVars
<1>1. ASSUME AgentReceive PROVE TypeOK'
  <2>1. Head(down) \in StartMsg \cup {Connected} /\ down' \in Seq(StartMsg \cup {Connected})
    BY <1>1 DEF AgentReceive
  <2>2. queue' \in Seq(Backups)
    <3>1. Head(down).type = "start_backup" => Head(down).id \in Backups
      BY <2>1 DEF StartMsg, Connected
    <3>2. \/ queue' = queue
          \/ Head(down).type = "start_backup" /\ queue' = Append(queue, Head(down).id)
      BY <1>1 DEF AgentReceive
    <3>3. queue \in Seq(Backups)
      OBVIOUS
    <3>4. QED
      <4> HIDE DEF TypeOK, dbVars, linkVars, serverVars, agentVars, histVars
      <4> QED BY <3>1, <3>2, <3>3
  <2>3. lock # None => [type |-> "stale_backup", id |-> lock] \in Frame
    BY DEF Frame, FrameType
  <2>4. up' \in [Conns -> Seq(Frame)]
    BY <1>1, <2>3, SendUpType DEF AgentReceive
  <2>5. run' \in Run
    BY <1>1, RecordType DEF AgentReceive, Stage
  <2>6. lock' \in Backups \cup {None}
    BY <1>1 DEF AgentReceive
  <2>7. QED
    BY <1>1, <2>1, <2>2, <2>4, <2>5, <2>6 DEF AgentReceive
<1>2. ASSUME AgentStart PROVE TypeOK'
  <2>1. Head(queue) \in Backups /\ Tail(queue) \in Seq(Backups)
    BY <1>2 DEF AgentStart
  <2>2. [type |-> "running", id |-> Head(queue)] \in Frame
    BY <2>1 DEF Frame, FrameType
  <2>3. up' \in [Conns -> Seq(Frame)]
    BY <1>2, <2>2, SendUpType DEF AgentStart
  <2>4. [stage |-> "compress", slot |-> None, tx |-> conn] \in Run
    BY DEF Run, Stage
  <2>5. QED
    BY <1>2, <2>1, <2>3, <2>4 DEF AgentStart
<1>3. ASSUME AgentPrepare PROVE TypeOK'
  <2>1. \A b \in Backups : [row[b] EXCEPT !.status = "IN_PROGRESS"] \in Row
    BY RecordType DEF Status
  <2>2. row' \in [Backups -> Row]
    BY <1>3, <2>1 DEF AgentPrepare
  <2>3. run' \in Run
    <3>1. [run EXCEPT !.stage = "err"] \in Run
      BY RecordType DEF Stage
    <3>2. \A b \in Backups : [[run EXCEPT !.stage = "upload"] EXCEPT !.slot = b] \in Run
      BY RecordType DEF Stage
    <3>3. QED
      BY <1>3, <3>1, <3>2 DEF AgentPrepare
  <2>4. QED
    BY <1>3, <2>2, <2>3 DEF AgentPrepare
<1>4. ASSUME AgentPut PROVE TypeOK'
  <2>1. run' \in Run
    BY <1>4, RecordType DEF AgentPut, Stage
  <2>2. run.slot \in Backups
    BY <1>4 DEF AgentPut, RunShape, Run
  <2>3. QED
    BY <1>4, <2>1, <2>2 DEF AgentPut
<1>5. ASSUME AgentFail PROVE TypeOK'
  <2>1. run' \in Run
    BY <1>5, RecordType DEF AgentFail, Stage
  <2>2. QED
    BY <1>5, <2>1 DEF AgentFail
<1>6. ASSUME AgentFinish PROVE TypeOK'
  <2>1. \A t \in {"completed", "failed"} : [type |-> t, id |-> cur] \in Frame
    BY <1>6 DEF AgentFinish, RunShape, Frame, FrameType
  <2>2. up' \in [Conns -> Seq(Frame)]
    BY <1>6, <2>1, SendUpType DEF AgentFinish
  <2>3. QED
    BY <1>6, <2>2, RestType DEF AgentFinish
<1>7. QED
  BY <1>1, <1>2, <1>3, <1>4, <1>5, <1>6 DEF AgentStep

LEMMA EnvType == ASSUME TypeOK, EnvStep PROVE TypeOK'
<1> USE DEF TypeOK, dbVars, linkVars, serverVars, agentVars, histVars
<1>1. ASSUME AgentCrash PROVE TypeOK'
  <2>1. /\ incidents' \in 0 .. MaxIncidents /\ queue' \in Seq(Backups)
        /\ down' \in Seq(StartMsg \cup {Connected})
    BY <1>1, BoundsAssumption DEF AgentCrash
  <2>2. QED
    BY <1>1, <2>1, RestType DEF AgentCrash
<1>2. ASSUME ServerCrash PROVE TypeOK'
  <2>1. incidents' \in 0 .. MaxIncidents /\ down' \in Seq(StartMsg \cup {Connected})
    BY <1>2, BoundsAssumption DEF ServerCrash
  <2>2. /\ up' \in [Conns -> Seq(Frame)] /\ scans' \in [Conns -> Scan]
        /\ disp' \in [Backups -> Dispatch] /\ sweep' \in Sweep
    BY <1>2, RestType DEF ServerCrash
  <2>3. QED
    BY <1>2, <2>1, <2>2 DEF ServerCrash
<1>3. ASSUME DeleteJob PROVE TypeOK'
  <2>1. incidents' \in 0 .. MaxIncidents
    BY <1>3, BoundsAssumption DEF DeleteJob
  <2>2. QED
    BY <1>3, <2>1 DEF DeleteJob
<1>4. ASSUME NEW b \in Backups, RetentionRow(b) PROVE TypeOK'
  <2>1. [row[b] EXCEPT !.status = "deleted"] \in Row
    BY RecordType DEF Status
  <2>2. row' \in [Backups -> Row]
    BY <1>4, <2>1 DEF RetentionRow
  <2>3. QED
    BY <1>4, <2>2 DEF RetentionRow
<1>5. QED
  BY <1>1, <1>2, <1>3, <1>4 DEF EnvStep

LEMMA NextType == ASSUME TypeOK, RunShape, [Next]_vars PROVE TypeOK'
<1>1. CASE UNCHANGED vars
  BY <1>1 DEF TypeOK, vars, dbVars, linkVars, serverVars, agentVars, histVars
<1>2. QED
  BY <1>1, LinkType, DispatchType, SweepType, HandlerType, AgentType, EnvType DEF Next

(* Every variable keeps to its declared range: in particular a status the  *)
(* agent reports reaches the row only as one of the enum's values.         *)
THEOREM TypeCorrect == Spec => []TypeOK
<1>1. Init => TypeOK /\ RunShape
  BY InitType DEF Init, RunShape, Idle
<1>2. TypeOK /\ RunShape /\ [Next]_vars => (TypeOK /\ RunShape)'
  BY NextType, RunShapeStep
<1>3. QED
  BY <1>1, <1>2, PTL DEF Spec
-----------------------------------------------------------------------------
(* What a step may do to a row: nothing; rewrite it if it exists, where a  *)
(* key is lost only after the sweep removed the object and a row turns     *)
(* COMPLETED only on evidence; or create it, if it never existed.          *)
RowEvolves(b) ==
  \/ row'[b] = row[b]
  \/ /\ Exists(b) /\ row'[b].status # "absent"
     /\ row[b].key => row'[b].key \/ b \in swept
     /\ row'[b].status = "COMPLETED" =>
          row[b].status = "COMPLETED" \/ Uploaded(b) \/ (Stored(b) /\ row'[b].key)
  \/ /\ ~Created(b) /\ row'[b].status \in {"PENDING", "IN_PROGRESS"}
     /\ disp'[b].pc # "checked"

DbEvolves ==
  /\ \A b \in Backups : RowEvolves(b)
  /\ swept \subseteq swept' /\ blobs \subseteq blobs' \cup swept'

LEMMA FailRowsEvolves ==
  ASSUME TypeOK, NEW ids, NEW why, FailRows(ids, why)
  PROVE  \A b \in Backups : RowEvolves(b)
<1> SUFFICES ASSUME NEW b \in Backups PROVE RowEvolves(b)
  OBVIOUS
<1>1. row[b] \in Row
  BY DEF TypeOK
<1>2. \/ row'[b] = row[b]
      \/ Exists(b) /\ row'[b] = [[row[b] EXCEPT !.status = "FAILED"] EXCEPT !.error = why]
  BY DEF FailRows
<1>3. QED
  BY <1>1, <1>2 DEF RowEvolves, Row

LEMMA DbStep == ASSUME TypeOK, RunShape, IInv, [Next]_vars PROVE DbEvolves
<1>1. ASSUME UNCHANGED <<row, blobs, swept>> PROVE DbEvolves
  BY <1>1 DEF DbEvolves, RowEvolves
<1>2. ASSUME UNCHANGED <<blobs, swept>>, \A b \in Backups : RowEvolves(b) PROVE DbEvolves
  BY <1>2 DEF DbEvolves
<1>3. row \in [Backups -> Row]
  BY DEF TypeOK
<1>4. CASE UNCHANGED vars
  BY <1>1, <1>4 DEF vars, dbVars, histVars
<1>5. CASE LinkStep
  BY <1>1, <1>5 DEF LinkStep, Open, Register, Welcome, Drop, LoseFrames, dbVars, histVars
<1>6. ASSUME NEW b \in Backups, DispatchStep(b) PROVE DbEvolves
  <2>1. CASE DispatchCheck(b)
    BY <1>1, <2>1 DEF DispatchCheck, dbVars, histVars
  <2>2. CASE DispatchCreate(b)
    <3>1. ~Created(b) /\ disp \in [Backups -> Dispatch]
      BY <2>2 DEF DispatchCreate, IInv, DispatchKnows, TypeOK
    <3>2. disp'[b].pc # "checked"
      BY <2>2, <3>1 DEF DispatchCreate, Dispatch
    <3>3. row'[b].status = "PENDING" /\ \A o \in Backups \ {b} : row'[o] = row[o]
      BY <2>2, <1>3 DEF DispatchCreate, Row
    <3>4. \A o \in Backups : RowEvolves(o)
      BY <3>1, <3>2, <3>3 DEF RowEvolves
    <3>5. QED
      BY <1>2, <2>2, <3>4 DEF DispatchCreate, histVars
  <2>3. CASE DispatchSend(b)
    <3>1. \A o \in Backups : RowEvolves(o)
      BY <2>3, FailRowsEvolves DEF DispatchSend, RowEvolves
    <3>2. QED
      BY <1>2, <2>3, <3>1 DEF DispatchSend, histVars
  <2>4. QED
    BY <1>6, <2>1, <2>2, <2>3 DEF DispatchStep
<1>7. CASE SweepStep
  <2>1. CASE SweepFind
    BY <1>1, <2>1 DEF SweepFind, dbVars, histVars
  <2>2. CASE SweepMark
    BY <1>2, <2>2, FailRowsEvolves DEF SweepMark, histVars
  <2>3. ASSUME NEW b \in Backups, SweepRemove(b) PROVE DbEvolves
    BY <2>3 DEF SweepRemove, DbEvolves, RowEvolves
  <2>4. ASSUME NEW b \in Backups, SweepClear(b) PROVE DbEvolves
    <3>1. b \in swept
      BY <2>4 DEF SweepClear, IInv, SweepKnows
    <3>2. \A o \in Backups : row'[o] = row[o] \/ (o = b /\ Exists(b) /\ row'[o].status = row[o].status)
      BY <2>4, <1>3 DEF SweepClear, Row
    <3>3. \A o \in Backups : RowEvolves(o)
      BY <3>1, <3>2 DEF RowEvolves, Exists
    <3>4. QED
      BY <1>2, <2>4, <3>3 DEF SweepClear, histVars
  <2>5. QED
    BY <1>7, <2>1, <2>2, <2>3, <2>4 DEF SweepStep
<1>8. CASE HandlerStep
  <2>1. ASSUME NEW c \in Conns, Receive(c) PROVE DbEvolves
    <3>1. \A o \in Backups : RowEvolves(o)
      BY <2>1, FailRowsEvolves DEF Receive, RowEvolves
    <3>2. QED
      BY <1>2, <2>1, <3>1 DEF Receive, histVars
  <2>2. ASSUME NEW c \in Conns, ScanFind(c) PROVE DbEvolves
    BY <1>1, <2>2 DEF ScanFind, dbVars, histVars
  <2>3. ASSUME NEW c \in Conns, ScanMark(c) PROVE DbEvolves
    BY <1>2, <2>3, FailRowsEvolves DEF ScanMark, histVars
  <2>4. ASSUME NEW h \in handlers, StatusUpdate(h) PROVE DbEvolves
    <3>1. h.id \in Backups /\ h.to \in {"IN_PROGRESS", "COMPLETED", "FAILED"}
      BY DEF TypeOK, Handler
    <3>2. \A o \in Backups :
            row'[o] = row[o] \/ (/\ o = h.id /\ Exists(o) /\ row'[o].status = h.to
                                 /\ row'[o].key = row[o].key)
      BY <2>4, <1>3, <3>1 DEF StatusUpdate, Row
    <3>3. h.to = "COMPLETED" => Uploaded(h.id)
      BY DEF IInv, HandlersVouch
    <3>4. \A o \in Backups : RowEvolves(o)
      BY <3>1, <3>2, <3>3 DEF RowEvolves
    <3>5. QED
      BY <1>2, <2>4, <3>4 DEF StatusUpdate, histVars
  <2>5. ASSUME NEW b \in Backups, Complete(b) PROVE DbEvolves
    <3>1. Stored(b)
      BY <2>5 DEF Complete, IInv, RequestsVouch
    <3>2. \A o \in Backups :
            row'[o] = row[o] \/ (/\ o = b /\ Exists(o) /\ row'[o].status = "COMPLETED"
                                 /\ row'[o].key)
      BY <2>5, <1>3 DEF Complete, Row
    <3>3. \A o \in Backups : RowEvolves(o)
      BY <3>1, <3>2 DEF RowEvolves
    <3>4. QED
      BY <1>2, <2>5, <3>3 DEF Complete, histVars
  <2>6. QED
    BY <1>8, <2>1, <2>2, <2>3, <2>4, <2>5 DEF HandlerStep
<1>9. CASE AgentStep
  <2>1. CASE AgentPrepare
    <3>1. \A o \in Backups :
            row'[o] = row[o] \/ (/\ ~Created(o) /\ o \in Spares
                                 /\ row'[o].status = "IN_PROGRESS")
      BY <2>1, <1>3 DEF AgentPrepare, Created, Row
    <3>2. \A o \in Spares : disp'[o].pc = "none"
      BY <2>1, NoneAssumption DEF AgentPrepare, IInv, DispatchKnows, serverVars
    <3>3. \A o \in Backups : RowEvolves(o)
      BY <3>1, <3>2 DEF RowEvolves
    <3>4. QED
      BY <1>2, <2>1, <3>3 DEF AgentPrepare, histVars
  <2>2. CASE AgentPut
    BY <2>2 DEF AgentPut, DbEvolves, RowEvolves, histVars
  <2>3. QED
    BY <1>1, <1>9, <2>1, <2>2
    DEF AgentStep, AgentReceive, AgentStart, AgentFail, AgentFinish, dbVars, histVars
<1>10. CASE EnvStep
  <2>1. ASSUME NEW b \in Backups, RetentionRow(b) PROVE DbEvolves
    <3>1. \A o \in Backups :
            row'[o] = row[o] \/ (/\ o = b /\ Exists(o) /\ row'[o].status = "deleted"
                                 /\ row'[o].key = row[o].key)
      BY <2>1, <1>3 DEF RetentionRow, Row
    <3>2. \A o \in Backups : RowEvolves(o)
      BY <3>1 DEF RowEvolves
    <3>3. QED
      BY <1>2, <2>1, <3>2 DEF RetentionRow, histVars
  <2>2. QED
    BY <1>1, <1>10, <2>1 DEF EnvStep, AgentCrash, ServerCrash, DeleteJob, dbVars
<1>11. QED
  BY <1>4, <1>5, <1>6, <1>7, <1>8, <1>9, <1>10 DEF Next

(* What was vouched for once stays true. *)
LEMMA Stable ==
  ASSUME DbEvolves, NEW b \in Backups
  PROVE  /\ Created(b) => Created(b)'
         /\ row[b].status = "deleted" => row'[b].status = "deleted"
         /\ Stored(b) => Stored(b)'
         /\ Uploaded(b) => Uploaded(b)'
<1>1. RowEvolves(b)
  BY DEF DbEvolves
<1>2. Created(b) => Created(b)'
  BY <1>1 DEF RowEvolves, Created
<1>3. row[b].status = "deleted" => row'[b].status = "deleted"
  BY <1>1 DEF RowEvolves, Created, Exists
<1>4. Stored(b) => Stored(b)'
  BY <1>2, <1>3 DEF Stored, DbEvolves
<1>5. Uploaded(b) => Uploaded(b)'
  <2>1. row[b].key /\ Created(b) => row'[b].key \/ b \in swept
    BY <1>1 DEF RowEvolves
  <2>2. QED
    BY <1>2, <1>3, <2>1 DEF Uploaded, DbEvolves
<1>6. QED
  BY <1>2, <1>3, <1>4, <1>5
-----------------------------------------------------------------------------
(* One lemma per conjunct of IInv. *)

LEMMA RowsVouchStep ==
  ASSUME TypeOK, RunShape, IInv, DbEvolves PROVE RowsVouch'
<1> SUFFICES ASSUME NEW b \in Backups, row'[b].status = "COMPLETED" PROVE Uploaded(b)'
  BY DEF RowsVouch
<1>1. RowEvolves(b)
  BY DEF DbEvolves
<1>2. row[b].status = "COMPLETED" => Uploaded(b)
  BY DEF IInv, RowsVouch
<1>3. CASE Uploaded(b)
  BY <1>3, Stable
<1>4. CASE Stored(b) /\ Exists(b) /\ row'[b].key
  <2>1. Created(b)' /\ (b \in blobs' \/ b \in swept')
    BY <1>4, Stable DEF Stored, Exists, DbEvolves
  <2>2. QED
    BY <1>4, <2>1 DEF Uploaded
<1>5. QED
  BY <1>1, <1>2, <1>3, <1>4 DEF RowEvolves

LEMMA HandlersVouchStep ==
  ASSUME TypeOK, RunShape, IInv, DbEvolves, [Next]_vars PROVE HandlersVouch'
<1>1. SUFFICES \A h \in handlers' : h.to = "COMPLETED" => h.id \in Backups /\ Uploaded(h.id)
  BY <1>1, Stable DEF HandlersVouch
<1>2. \A h \in handlers : h.to = "COMPLETED" => h.id \in Backups /\ Uploaded(h.id)
  BY DEF IInv, HandlersVouch, TypeOK, Handler
<1>3. ASSUME handlers' \subseteq handlers
      PROVE  \A h \in handlers' : h.to = "COMPLETED" => h.id \in Backups /\ Uploaded(h.id)
  BY <1>2, <1>3
<1>4. ASSUME NEW c \in Conns, Receive(c)
      PROVE  \A h \in handlers' : h.to = "COMPLETED" => h.id \in Backups /\ Uploaded(h.id)
  <2> DEFINE f == Head(up[c])
  <2>1. f = up[c][1] /\ 1 \in 1 .. Len(up[c]) /\ f \in Frame
    BY <1>4 DEF Receive, TypeOK
  <2>2. f.type = "completed" => f.id \in Backups /\ Uploaded(f.id)
    BY <2>1 DEF IInv, FramesVouch, Frame
  <2>3. StatusOf(f.type) = "COMPLETED" => f.type = "completed"
    BY DEF StatusOf
  <2>4. handlers' \subseteq handlers \cup {[id |-> f.id, to |-> StatusOf(f.type)]}
    BY <1>4 DEF Receive
  <2>5. QED
    BY <1>2, <2>2, <2>3, <2>4
<1>5. CASE UNCHANGED vars
  BY <1>3, <1>5 DEF vars, serverVars
<1>6. CASE LinkStep
  BY <1>3, <1>6 DEF LinkStep, Open, Register, Welcome, Drop, LoseFrames, serverVars
<1>7. CASE \E b \in Backups : DispatchStep(b)
  BY <1>3, <1>7 DEF DispatchStep, DispatchCheck, DispatchCreate, DispatchSend
<1>8. CASE SweepStep
  BY <1>3, <1>8 DEF SweepStep, SweepFind, SweepMark, SweepRemove, SweepClear
<1>9. CASE HandlerStep
  BY <1>3, <1>4, <1>9 DEF HandlerStep, ScanFind, ScanMark, StatusUpdate, Complete
<1>10. CASE AgentStep
  BY <1>3, <1>10 DEF AgentStep, AgentReceive, AgentStart, AgentPrepare, AgentPut, AgentFail,
                     AgentFinish, serverVars
<1>11. CASE EnvStep
  BY <1>3, <1>11 DEF EnvStep, AgentCrash, ServerCrash, DeleteJob, RetentionRow, serverVars
<1>12. QED
  BY <1>5, <1>6, <1>7, <1>8, <1>9, <1>10, <1>11 DEF Next

(* The frames after a step that writes f to connection c. *)
LEMMA SendUpVouch ==
  ASSUME TypeOK, FramesVouch, DbEvolves, NEW c, NEW f \in Frame, SendUp(c, f),
         f.type = "completed" => Uploaded(f.id)
  PROVE  FramesVouch'
<1> SUFFICES ASSUME NEW d \in Conns, NEW i \in 1 .. Len(up'[d]),
                    up'[d][i].type = "completed"
             PROVE  Uploaded(up[d][i].id)'
  BY DEF FramesVouch
<1>1. up[d] \in Seq(Frame)
  BY DEF TypeOK
<1>2. up'[d] = up[d] \/ up'[d] = Append(up[d], f)
  BY DEF SendUp, TypeOK
<1>3. \/ i \in 1 .. Len(up[d]) /\ up'[d][i] = up[d][i]
      \/ up'[d][i] = f
  BY <1>1, <1>2
<1>4. up'[d][i] \in Frame /\ Uploaded(up'[d][i].id)
  BY <1>1, <1>3 DEF FramesVouch
<1>5. PICK x \in Backups : x = up'[d][i].id /\ Uploaded(x)
  BY <1>4 DEF Frame
<1>6. Uploaded(x)'
  BY <1>5, Stable
<1>7. QED
  BY <1>5, <1>6 DEF Uploaded, Created

LEMMA FramesVouchStep ==
  ASSUME TypeOK, RunShape, IInv, DbEvolves, [Next]_vars PROVE FramesVouch'
<1>1. FramesVouch
  BY DEF IInv
<1>2. ASSUME \A d \in Conns : up'[d] = up[d] \/ up'[d] = <<>> \/ (up[d] # <<>> /\ up'[d] = Tail(up[d]))
      PROVE  FramesVouch'
  <2> SUFFICES ASSUME NEW d \in Conns, NEW i \in 1 .. Len(up'[d]),
                      up'[d][i].type = "completed"
               PROVE  Uploaded(up[d][i].id)'
    BY DEF FramesVouch
  <2>1. up[d] \in Seq(Frame)
    BY DEF TypeOK
  <2>2. \E j \in 1 .. Len(up[d]) : up'[d][i] = up[d][j]
    <3>1. CASE up'[d] = up[d]
      BY <3>1
    <3>2. CASE up[d] # <<>> /\ up'[d] = Tail(up[d])
      <4>1. i + 1 \in 1 .. Len(up[d]) /\ up'[d][i] = up[d][i + 1]
        BY <2>1, <3>2
      <4>2. QED
        BY <4>1
    <3>3. up'[d] # <<>>
      OBVIOUS
    <3>4. QED
      BY <1>2, <3>1, <3>2, <3>3
  <2>3. up'[d][i] \in Frame /\ Uploaded(up'[d][i].id)
    BY <1>1, <2>1, <2>2 DEF FramesVouch
  <2>4. PICK x \in Backups : x = up'[d][i].id /\ Uploaded(x)
    BY <2>3 DEF Frame
  <2>5. Uploaded(x)'
    BY <2>4, Stable
  <2>6. QED
    BY <2>4, <2>5 DEF Uploaded, Created
<1>3. ASSUME up' = up PROVE FramesVouch'
  BY <1>2, <1>3
<1>4. CASE UNCHANGED vars
  BY <1>3, <1>4 DEF vars, linkVars
<1>5. CASE LinkStep
  <2>1. ASSUME NEW c \in Conns, LoseFrames(c) PROVE FramesVouch'
    <3>1. \A d \in Conns : up'[d] = up[d] \/ up'[d] = <<>>
      BY <2>1 DEF LoseFrames, TypeOK
    <3>2. QED
      BY <1>2, <3>1
  <2>2. QED
    BY <1>3, <1>5, <2>1 DEF LinkStep, Open, Register, Welcome, Drop
<1>6. CASE \E b \in Backups : DispatchStep(b)
  BY <1>3, <1>6 DEF DispatchStep, DispatchCheck, DispatchCreate, DispatchSend, linkVars
<1>7. CASE SweepStep
  BY <1>3, <1>7 DEF SweepStep, SweepFind, SweepMark, SweepRemove, SweepClear, linkVars
<1>8. CASE HandlerStep
  <2>1. ASSUME NEW c \in Conns, Receive(c) PROVE FramesVouch'
    <3>1. \A d \in Conns : up'[d] = up[d] \/ (up[d] # <<>> /\ up'[d] = Tail(up[d]))
      BY <2>1 DEF Receive, TypeOK
    <3>2. QED
      BY <1>2, <3>1
  <2>2. QED
    BY <1>3, <1>8, <2>1 DEF HandlerStep, ScanFind, ScanMark, StatusUpdate, Complete, linkVars
<1>9. CASE AgentStep
  <2>1. CASE AgentReceive
    <3>1. lock # None => [type |-> "stale_backup", id |-> lock] \in Frame
      BY DEF TypeOK, Frame, FrameType
    <3>2. UNCHANGED up \/ (lock # None /\ SendUp(conn, [type |-> "stale_backup", id |-> lock]))
      BY <2>1 DEF AgentReceive
    <3>3. QED
      BY <1>1, <1>3, <3>1, <3>2, SendUpVouch
  <2>2. CASE AgentStart
    <3>1. [type |-> "running", id |-> Head(queue)] \in Frame
      BY <2>2 DEF AgentStart, TypeOK, Frame, FrameType
    <3>2. SendUp(conn, [type |-> "running", id |-> Head(queue)])
      BY <2>2 DEF AgentStart
    <3>3. QED
      BY <1>1, <3>1, <3>2, SendUpVouch
  <2>3. CASE AgentFinish
    <3> DEFINE f == [type |-> IF run.stage = "ok" THEN "completed" ELSE "failed", id |-> cur]
    <3>1. cur \in Backups
      BY <2>3 DEF AgentFinish, RunShape, TypeOK
    <3>2. f \in Frame
      BY <3>1 DEF Frame, FrameType
    <3>3. f.type = "completed" => Uploaded(f.id)
      BY DEF IInv, RunVouches
    <3>4. SendUp(run.tx, f)
      BY <2>3 DEF AgentFinish
    <3>5. QED
      BY <1>1, <3>2, <3>3, <3>4, SendUpVouch
  <2>4. QED
    BY <1>3, <1>9, <2>1, <2>2, <2>3 DEF AgentStep, AgentPrepare, AgentPut, AgentFail, linkVars
<1>10. CASE EnvStep
  <2>1. CASE ServerCrash
    <3>1. \A d \in Conns : up'[d] = <<>>
      BY <2>1 DEF ServerCrash
    <3>2. QED
      BY <1>2, <3>1
  <2>2. QED
    BY <1>3, <1>10, <2>1 DEF EnvStep, AgentCrash, DeleteJob, RetentionRow, linkVars
<1>11. QED
  BY <1>4, <1>5, <1>6, <1>7, <1>8, <1>9, <1>10 DEF Next

LEMMA RequestsVouchStep ==
  ASSUME TypeOK, RunShape, IInv, DbEvolves, [Next]_vars PROVE RequestsVouch'
<1> SUFFICES ASSUME NEW b \in creqs' PROVE Stored(b)'
  BY DEF RequestsVouch
<1>1. b \in creqs => Stored(b)'
  BY Stable DEF IInv, RequestsVouch, TypeOK
<1>2. CASE creqs' \subseteq creqs
  BY <1>1, <1>2
<1>3. CASE AgentPut
  <2>1. b \in creqs \/ b = run.slot
    BY <1>3 DEF AgentPut
  <2>2. run.slot \in Backups /\ run.slot \in blobs' /\ Created(run.slot)
    BY <1>3 DEF AgentPut, RunShape, TypeOK, Run, IInv, RunKnows
  <2>3. b = run.slot => Created(b)' /\ b \in blobs'
    BY <2>2, Stable
  <2>4. QED
    BY <1>1, <2>1, <2>3 DEF Stored
<1>4. CASE UNCHANGED vars
  BY <1>2, <1>4 DEF vars, serverVars
<1>5. CASE LinkStep
  BY <1>2, <1>5 DEF LinkStep, Open, Register, Welcome, Drop, LoseFrames, serverVars
<1>6. CASE \E o \in Backups : DispatchStep(o)
  BY <1>2, <1>6 DEF DispatchStep, DispatchCheck, DispatchCreate, DispatchSend
<1>7. CASE SweepStep
  BY <1>2, <1>7 DEF SweepStep, SweepFind, SweepMark, SweepRemove, SweepClear
<1>8. CASE HandlerStep
  BY <1>2, <1>8 DEF HandlerStep, Receive, ScanFind, ScanMark, StatusUpdate, Complete
<1>9. CASE AgentStep
  BY <1>2, <1>3, <1>9 DEF AgentStep, AgentReceive, AgentStart, AgentPrepare, AgentFail,
                          AgentFinish, serverVars
<1>10. CASE EnvStep
  BY <1>2, <1>10 DEF EnvStep, AgentCrash, ServerCrash, DeleteJob, RetentionRow, serverVars
<1>11. QED
  BY <1>4, <1>5, <1>6, <1>7, <1>8, <1>9, <1>10 DEF Next

(* The agent's run.  Only the upload and its confirmation gain a claim. *)
LEMMA RunStep ==
  ASSUME TypeOK, RunShape, IInv, DbEvolves, [Next]_vars
  PROVE  RunVouches' /\ RunKnows'
<1>1. run \in Run /\ (cur # None => cur \in Backups) /\ (run.slot # None => run.slot \in Backups)
  BY DEF TypeOK, Run
<1>2. run.stage \in {"upload", "confirm"} =>
        /\ run.slot \in Backups /\ cur \in Backups
        /\ \A b \in Backups : b = run.slot => Created(b) /\ Created(b)'
        /\ run.slot # cur => row[cur].status = "deleted" /\ row'[cur].status = "deleted"
  <2>1. run.stage \in {"upload", "confirm"} => run.slot \in Backups /\ cur \in Backups
    BY <1>1 DEF RunShape
  <2>2. QED
    BY <2>1, Stable DEF IInv, RunKnows
<1>3. \A b \in Backups :
        /\ run.stage = "confirm" /\ b = run.slot => Stored(b) /\ Stored(b)'
        /\ run.stage = "ok" /\ b = cur => Uploaded(b) /\ Uploaded(b)'
  BY Stable DEF IInv, RunVouches
<1>4. CASE run' = run /\ cur' = cur
  <2>1. RunVouches'
    BY <1>1, <1>2, <1>3, <1>4 DEF RunShape, RunVouches, Stored, Uploaded, Created
  <2>2. RunKnows'
    BY <1>2, <1>4 DEF RunKnows, Created
  <2>3. QED
    BY <2>1, <2>2
<1>5. CASE run'.stage \in {"idle", "compress", "err"}
  BY <1>5 DEF RunVouches, RunKnows
<1>6. CASE UNCHANGED vars
  BY <1>4, <1>6 DEF vars, agentVars
<1>7. CASE LinkStep
  BY <1>4, <1>7 DEF LinkStep, Open, Register, Welcome, Drop, LoseFrames, agentVars
<1>8. CASE \E o \in Backups : DispatchStep(o)
  BY <1>4, <1>8 DEF DispatchStep, DispatchCheck, DispatchCreate, DispatchSend, agentVars
<1>9. CASE SweepStep
  BY <1>4, <1>9 DEF SweepStep, SweepFind, SweepMark, SweepRemove, SweepClear, agentVars
<1>10. CASE HandlerStep
  <2>1. ASSUME NEW b \in Backups, Complete(b) PROVE RunVouches' /\ RunKnows'
    <3>1. CASE run' = run
      BY <1>4, <2>1, <3>1 DEF Complete
    <3>2. CASE Waiting(b) /\ run' = [run EXCEPT !.stage = "err"]
      BY <1>1, <1>5, <3>2 DEF Run
    <3>3. CASE Waiting(b) /\ ~jobDeleted /\ Exists(b) /\ run' = [run EXCEPT !.stage = "ok"]
      <4>1. run.stage = "confirm" /\ run.slot = b /\ cur # None /\ cur' = cur
        BY <2>1, <3>3 DEF Waiting, Complete
      <4>2. Stored(b)' /\ row'[b].key
        <5>1. Stored(b)'
          BY <1>3, <4>1
        <5>2. row' = [row EXCEPT ![b].status = "COMPLETED", ![b].key = TRUE]
          BY <2>1, <3>3 DEF Complete
        <5>3. row'[b].key
          BY <5>2 DEF TypeOK, Row
        <5>4. QED
          BY <5>1, <5>3
      <4>3. Uploaded(b)'
        BY <4>2 DEF Stored, Uploaded, Created
      <4>4. b # cur => row'[cur].status = "deleted"
        BY <1>2, <4>1
      <4>5. Uploaded(cur)'
        <5>1. CASE b = cur
          BY <4>1, <4>3, <5>1 DEF Uploaded, Created
        <5>2. CASE b # cur
          BY <4>1, <4>4, <5>2 DEF Uploaded, Created
        <5>3. QED
          BY <5>1, <5>2
      <4>6. run'.stage = "ok"
        BY <1>1, <3>3 DEF Run
      <4>7. QED
        BY <4>1, <4>5, <4>6 DEF RunVouches, RunKnows, Uploaded, Created
    <3>4. QED
      BY <2>1, <3>1, <3>2, <3>3 DEF Complete
  <2>2. QED
    BY <1>4, <1>10, <2>1
    DEF HandlerStep, Receive, ScanFind, ScanMark, StatusUpdate, agentVars
<1>11. CASE AgentStep
  <2>1. CASE AgentReceive
    BY <1>1, <1>4, <1>5, <2>1 DEF AgentReceive, Run
  <2>2. CASE AgentStart
    BY <1>5, <2>2 DEF AgentStart
  <2>3. CASE AgentPrepare
    <3>1. CASE run' = [run EXCEPT !.stage = "err"]
      BY <1>1, <1>5, <3>1 DEF Run
    <3>2. ASSUME NEW b \in Backups, run' = [run EXCEPT !.stage = "upload", !.slot = b],
                 IF Exists(cur)
                   THEN b = cur /\ UNCHANGED row
                   ELSE /\ b \in Spares /\ row[b].status = "absent"
                        /\ row' = [row EXCEPT ![b].status = "IN_PROGRESS"]
          PROVE  RunVouches' /\ RunKnows'
      <4>1. cur # None /\ cur \in Backups /\ cur' = cur /\ Created(cur)
        BY <1>1, <2>3 DEF AgentPrepare, RunShape, IInv, AgentKnows
      <4>2. Created(b)'
        BY <3>2, <4>1 DEF Created, Exists, TypeOK, Row
      <4>3. b # cur => row'[cur].status = "deleted"
        <5>1. ~Exists(cur) => row[cur].status = "deleted"
          BY <4>1 DEF Exists, Created
        <5>2. QED
          BY <3>2, <4>1, <5>1, Stable
      <4>4. run'.stage = "upload" /\ run'.slot = b
        BY <1>1, <3>2 DEF Run
      <4>5. QED
        BY <4>1, <4>2, <4>3, <4>4 DEF RunVouches, RunKnows, Created
    <3>3. QED
      BY <2>3, <3>1, <3>2 DEF AgentPrepare
  <2>4. CASE AgentPut
    <3>1. CASE run' = [run EXCEPT !.stage = "err"]
      BY <1>1, <1>5, <3>1 DEF Run
    <3>2. CASE run' = [run EXCEPT !.stage = "confirm"]
      <4>1. /\ run'.stage = "confirm" /\ run'.slot = run.slot /\ cur' = cur
            /\ run.slot \in blobs' /\ row'[run.slot].status # "absent"
        BY <1>1, <1>2, <2>4, <3>2 DEF AgentPut, Run, Created
      <4>2. run.slot # cur => row'[cur].status = "deleted"
        BY <1>2, <2>4 DEF AgentPut
      <4>3. QED
        BY <4>1, <4>2 DEF RunVouches, RunKnows, Stored, Created
    <3>3. QED
      BY <2>4, <3>1, <3>2 DEF AgentPut
  <2>5. CASE AgentFail
    BY <1>1, <1>5, <2>5 DEF AgentFail, Run
  <2>6. CASE AgentFinish
    BY <1>5, <2>6 DEF AgentFinish, Idle
  <2>7. QED
    BY <1>11, <2>1, <2>2, <2>3, <2>4, <2>5, <2>6 DEF AgentStep
<1>12. CASE EnvStep
  BY <1>4, <1>5, <1>12 DEF EnvStep, AgentCrash, ServerCrash, DeleteJob, RetentionRow,
                           agentVars, Idle
<1>13. QED
  BY <1>6, <1>7, <1>8, <1>9, <1>10, <1>11, <1>12 DEF Next

(* A dispatch that found no row keeps the id to itself until it creates it. *)
LEMMA DispatchKnowsStep ==
  ASSUME TypeOK, RunShape, IInv, DbEvolves, [Next]_vars PROVE DispatchKnows'
<1> SUFFICES ASSUME NEW b \in Backups
             PROVE  /\ disp'[b].pc = "checked" => ~Created(b)'
                    /\ b \in Spares => disp'[b].pc = "none"
                    /\ disp'[b].pc = "created" => Created(b)'
  BY DEF DispatchKnows
<1>1. /\ disp[b].pc = "checked" => ~Created(b)
      /\ b \in Spares => disp[b].pc = "none"
      /\ disp[b].pc = "created" => Created(b)
  BY DEF IInv, DispatchKnows
<1>2. disp'[b].pc = "checked" /\ ~Created(b) => ~Created(b)'
  BY DEF DbEvolves, RowEvolves, Created, Exists
<1>3. CASE disp'[b] = disp[b] \/ disp'[b] = NoDispatch
  BY <1>1, <1>2, <1>3, Stable DEF NoDispatch
<1>4. CASE UNCHANGED vars
  BY <1>3, <1>4 DEF vars, serverVars
<1>5. CASE LinkStep
  BY <1>3, <1>5 DEF LinkStep, Open, Register, Welcome, Drop, LoseFrames, serverVars
<1>6. ASSUME NEW o \in Backups, DispatchStep(o)
      PROVE  /\ disp'[b].pc = "checked" => ~Created(b)'
             /\ b \in Spares => disp'[b].pc = "none"
             /\ disp'[b].pc = "created" => Created(b)'
  <2>1. CASE b # o
    BY <1>3, <1>6, <2>1 DEF DispatchStep, DispatchCheck, DispatchCreate, DispatchSend, TypeOK
  <2>2. CASE b = o /\ DispatchCheck(o)
    <3>1. disp'[b].pc = "checked" /\ ~Created(b) /\ b \notin Spares
      BY <2>2 DEF DispatchCheck, TypeOK, Created
    <3>2. QED
      BY <1>2, <3>1
  <2>3. CASE b = o /\ DispatchCreate(o)
    <3>1. disp'[b].pc = "created" /\ b \notin Spares
      BY <1>1, <2>3 DEF DispatchCreate, TypeOK, Dispatch
    <3>2. Created(b)'
      BY <2>3 DEF DispatchCreate, TypeOK, Row, Created
    <3>3. QED
      BY <3>1, <3>2
  <2>4. CASE b = o /\ DispatchSend(o)
    BY <1>3, <2>4 DEF DispatchSend, TypeOK
  <2>5. QED
    BY <1>6, <2>1, <2>2, <2>3, <2>4 DEF DispatchStep
<1>7. CASE SweepStep
  BY <1>3, <1>7 DEF SweepStep, SweepFind, SweepMark, SweepRemove, SweepClear
<1>8. CASE HandlerStep
  BY <1>3, <1>8 DEF HandlerStep, Receive, ScanFind, ScanMark, StatusUpdate, Complete
<1>9. CASE AgentStep
  BY <1>3, <1>9 DEF AgentStep, AgentReceive, AgentStart, AgentPrepare, AgentPut, AgentFail,
                    AgentFinish, serverVars
<1>10. CASE EnvStep
  BY <1>3, <1>10 DEF EnvStep, AgentCrash, ServerCrash, DeleteJob, RetentionRow, serverVars
<1>11. QED
  BY <1>4, <1>5, <1>6, <1>7, <1>8, <1>9, <1>10 DEF Next

LEMMA CommandsKnowStep ==
  ASSUME TypeOK, RunShape, IInv, DbEvolves, [Next]_vars PROVE CommandsKnow'
<1>1. \A i \in 1 .. Len(down) :
        down[i].type = "start_backup" => row'[down[i].id].status # "absent"
  <2> SUFFICES ASSUME NEW i \in 1 .. Len(down), down[i].type = "start_backup"
               PROVE  row'[down[i].id].status # "absent"
    OBVIOUS
  <2>1. down[i] \in StartMsg \cup {Connected}
    <3>1. down \in Seq(StartMsg \cup {Connected})
      BY DEF TypeOK
    <3>2. QED
      BY <3>1
  <2>2. down[i].id \in Backups
    BY <2>1 DEF StartMsg, Connected
  <2>3. Created(down[i].id)
    BY DEF IInv, CommandsKnow
  <2> DEFINE b == down[i].id
  <2>4. row'[b].status # "absent"
    <3> HIDE DEF b
    <3>1. b \in Backups /\ Created(b)
      BY <2>2, <2>3 DEF b
    <3> QED BY <3>1, Stable DEF Created
  <2>5. QED
    BY <2>4
<1>2. down \in Seq(StartMsg \cup {Connected})
  BY DEF TypeOK
<1>3. CASE down' = down \/ down' = <<>>
  BY <1>1, <1>3 DEF CommandsKnow, Created
<1>4. CASE UNCHANGED vars
  BY <1>3, <1>4 DEF vars, linkVars
<1>5. CASE LinkStep
  <2>1. CASE Welcome
    BY <1>1, <1>2, <2>1 DEF Welcome, Connected, CommandsKnow, Created
  <2>2. QED
    BY <1>3, <1>5, <2>1 DEF LinkStep, Open, Register, Drop, LoseFrames
<1>6. ASSUME NEW b \in Backups, DispatchStep(b) PROVE CommandsKnow'
  <2> DEFINE m == [type |-> "start_backup", id |-> b]
  <2>1. CASE DispatchSend(b)
    <3>1. row'[b].status # "absent"
      BY <2>1, Stable DEF DispatchSend, IInv, DispatchKnows, Created
    <3>2. down' = down \/ down' = Append(down, m)
      BY <2>1 DEF DispatchSend
    <3>3. CASE down' = Append(down, m)
      BY <1>1, <1>2, <3>1, <3>3 DEF CommandsKnow, Created
    <3>4. QED
      BY <1>3, <3>2, <3>3
  <2>2. QED
    BY <1>3, <1>6, <2>1 DEF DispatchStep, DispatchCheck, DispatchCreate, linkVars
<1>7. CASE SweepStep
  BY <1>3, <1>7 DEF SweepStep, SweepFind, SweepMark, SweepRemove, SweepClear, linkVars
<1>8. CASE HandlerStep
  BY <1>3, <1>8
  DEF HandlerStep, Receive, ScanFind, ScanMark, StatusUpdate, Complete, linkVars
<1>9. CASE AgentStep
  <2>1. CASE AgentReceive
    <3>1. down # <<>> /\ down' = Tail(down)
      BY <2>1 DEF AgentReceive
    <3>2. \A i \in 1 .. Len(down') : i + 1 \in 1 .. Len(down) /\ down'[i] = down[i + 1]
      BY <1>2, <3>1
    <3>3. QED
      BY <1>1, <3>2 DEF CommandsKnow, Created
  <2>2. QED
    BY <1>3, <1>9, <2>1
    DEF AgentStep, AgentStart, AgentPrepare, AgentPut, AgentFail, AgentFinish, linkVars
<1>10. CASE EnvStep
  BY <1>3, <1>10 DEF EnvStep, AgentCrash, ServerCrash, DeleteJob, RetentionRow, linkVars
<1>11. QED
  BY <1>4, <1>5, <1>6, <1>7, <1>8, <1>9, <1>10 DEF Next

LEMMA AgentKnowsStep ==
  ASSUME TypeOK, RunShape, IInv, DbEvolves, [Next]_vars PROVE AgentKnows'
<1>1. /\ queue \in Seq(Backups)
      /\ \A i \in 1 .. Len(queue) : queue[i] \in Backups /\ Created(queue[i])
      /\ cur # None => cur \in Backups /\ Created(cur)
  BY DEF TypeOK, IInv, AgentKnows
<1>2. \A b \in Backups : Created(b) => row'[b].status # "absent"
  BY Stable DEF Created
<1>3. CASE queue' \in {queue, <<>>} /\ cur' \in {cur, None}
  BY <1>1, <1>2, <1>3 DEF AgentKnows, Created
<1>4. CASE UNCHANGED vars
  BY <1>3, <1>4 DEF vars, agentVars
<1>5. CASE LinkStep
  BY <1>3, <1>5 DEF LinkStep, Open, Register, Welcome, Drop, LoseFrames, agentVars
<1>6. CASE \E b \in Backups : DispatchStep(b)
  BY <1>3, <1>6 DEF DispatchStep, DispatchCheck, DispatchCreate, DispatchSend, agentVars
<1>7. CASE SweepStep
  BY <1>3, <1>7 DEF SweepStep, SweepFind, SweepMark, SweepRemove, SweepClear, agentVars
<1>8. CASE HandlerStep
  BY <1>3, <1>8
  DEF HandlerStep, Receive, ScanFind, ScanMark, StatusUpdate, Complete, agentVars
<1>9. CASE AgentStep
  <2>1. CASE AgentReceive
    <3>1. down # <<>> /\ down \in Seq(StartMsg \cup {Connected})
      BY <2>1 DEF AgentReceive, TypeOK
    <3>2. Head(down) = down[1] /\ 1 \in 1 .. Len(down)
      BY <3>1
    <3>3. down[1].type = "start_backup" => down[1].id \in Backups /\ Created(down[1].id)
      BY <3>1, <3>2 DEF IInv, CommandsKnow, StartMsg, Connected
    <3>4. queue' = queue \/ (down[1].type = "start_backup" /\ queue' = Append(queue, down[1].id))
      BY <2>1, <3>2 DEF AgentReceive
    <3>5. \A i \in 1 .. Len(queue') : queue'[i] \in Backups /\ Created(queue'[i])
      BY <1>1, <3>3, <3>4
    <3>6. cur' = cur
      BY <2>1 DEF AgentReceive
    <3>7. QED
      BY <1>1, <1>2, <3>5, <3>6 DEF AgentKnows, Created
  <2>2. CASE AgentStart
    <3>1. queue # <<>> /\ queue' = Tail(queue) /\ cur' = Head(queue)
      BY <2>2 DEF AgentStart
    <3>2. Head(queue) = queue[1] /\ 1 \in 1 .. Len(queue)
      BY <1>1, <3>1
    <3>3. \A i \in 1 .. Len(queue') : i + 1 \in 1 .. Len(queue) /\ queue'[i] = queue[i + 1]
      BY <1>1, <3>1
    <3>4. QED
      BY <1>1, <1>2, <3>1, <3>2, <3>3 DEF AgentKnows, Created
  <2>3. QED
    BY <1>3, <1>9, <2>1, <2>2
    DEF AgentStep, AgentPrepare, AgentPut, AgentFail, AgentFinish, agentVars
<1>10. CASE EnvStep
  BY <1>3, <1>10 DEF EnvStep, AgentCrash, ServerCrash, DeleteJob, RetentionRow, agentVars
<1>11. QED
  BY <1>4, <1>5, <1>6, <1>7, <1>8, <1>9, <1>10 DEF Next

LEMMA SweepKnowsStep == ASSUME TypeOK, IInv, [Next]_vars PROVE SweepKnows'
<1>1. sweep.removed \subseteq swept /\ sweep \in Sweep
  BY DEF IInv, SweepKnows, TypeOK
<1>2. CASE sweep' \in {sweep, NoSweep} /\ swept' = swept
  BY <1>1, <1>2 DEF SweepKnows, NoSweep
<1>3. CASE UNCHANGED vars
  BY <1>2, <1>3 DEF vars, serverVars, histVars
<1>4. CASE LinkStep
  BY <1>2, <1>4 DEF LinkStep, Open, Register, Welcome, Drop, LoseFrames, serverVars, histVars
<1>5. CASE \E b \in Backups : DispatchStep(b)
  BY <1>2, <1>5 DEF DispatchStep, DispatchCheck, DispatchCreate, DispatchSend, histVars
<1>6. CASE SweepStep
  <2>1. CASE SweepFind
    BY <2>1 DEF SweepFind, SweepKnows
  <2>2. CASE SweepMark
    BY <1>1, <2>2 DEF SweepMark, SweepKnows, NoSweep, Sweep, histVars
  <2>3. ASSUME NEW b \in Backups, SweepRemove(b) PROVE SweepKnows'
    BY <1>1, <2>3 DEF SweepRemove, SweepKnows, NoSweep, Sweep
  <2>4. ASSUME NEW b \in Backups, SweepClear(b) PROVE SweepKnows'
    BY <1>1, <2>4 DEF SweepClear, SweepKnows, NoSweep, Sweep, histVars
  <2>5. QED
    BY <1>6, <2>1, <2>2, <2>3, <2>4 DEF SweepStep
<1>7. CASE HandlerStep
  BY <1>2, <1>7
  DEF HandlerStep, Receive, ScanFind, ScanMark, StatusUpdate, Complete, histVars
<1>8. CASE AgentStep
  BY <1>2, <1>8 DEF AgentStep, AgentReceive, AgentStart, AgentPrepare, AgentPut, AgentFail,
                    AgentFinish, serverVars, histVars
<1>9. CASE EnvStep
  BY <1>2, <1>9 DEF EnvStep, AgentCrash, ServerCrash, DeleteJob, RetentionRow, serverVars,
                    histVars
<1>10. QED
  BY <1>3, <1>4, <1>5, <1>6, <1>7, <1>8, <1>9 DEF Next

-----------------------------------------------------------------------------
LEMMA InitIInv == Init => IInv
<1> SUFFICES ASSUME Init PROVE IInv
  OBVIOUS
<1>1. \A b \in Backups : ~Created(b) /\ row[b].status = "absent" /\ disp[b].pc = "none"
  BY DEF Init, Created, NoDispatch
<1>2. RowsVouch /\ HandlersVouch /\ FramesVouch /\ RequestsVouch /\ RunVouches
  BY <1>1 DEF Init, Idle, RowsVouch, HandlersVouch, FramesVouch, RequestsVouch, RunVouches
<1>3. DispatchKnows /\ CommandsKnow /\ AgentKnows /\ RunKnows /\ SweepKnows
  BY <1>1 DEF Init, Idle, NoSweep, DispatchKnows, CommandsKnow, AgentKnows, RunKnows, SweepKnows
<1>4. QED
  BY <1>2, <1>3 DEF IInv

LEMMA NextIInv ==
  ASSUME TypeOK, RunShape, IInv, [Next]_vars PROVE IInv'
<1>1. DbEvolves
  BY DbStep
<1>2. RowsVouch' /\ HandlersVouch' /\ FramesVouch' /\ RequestsVouch'
  BY <1>1, RowsVouchStep, HandlersVouchStep, FramesVouchStep, RequestsVouchStep
<1>3. RunVouches' /\ RunKnows' /\ DispatchKnows' /\ CommandsKnow' /\ AgentKnows' /\ SweepKnows'
  BY <1>1, RunStep, DispatchKnowsStep, CommandsKnowStep, AgentKnowsStep, SweepKnowsStep
<1>4. QED
  BY <1>2, <1>3 DEF IInv

LEMMA CompletedHasObject == ASSUME TypeOK, IInv PROVE CompletedIsDownloadable
BY DEF IInv, RowsVouch, Uploaded, CompletedIsDownloadable

(* However dispatches, drops, reconnects, late status frames, scans, the   *)
(* timeout, retention and crashes interleave, a row that reads COMPLETED   *)
(* has its key and its object, unless the timeout removed the object.      *)
THEOREM Downloadable == Spec => []CompletedIsDownloadable
<1>1. Init => TypeOK /\ RunShape /\ IInv
  BY InitType, InitIInv DEF Init, RunShape, Idle
<1>2. TypeOK /\ RunShape /\ IInv /\ [Next]_vars => (TypeOK /\ RunShape /\ IInv)'
  BY NextType, RunShapeStep, NextIInv
<1>3. TypeOK /\ IInv => CompletedIsDownloadable
  BY CompletedHasObject
<1>4. QED
  BY <1>1, <1>2, <1>3, PTL DEF Spec

-----------------------------------------------------------------------------
(* Who may demote.  Until its command is sent nobody but the dispatcher    *)
(* knows a row that is dispatched: what has heard of a backup comes after  *)
(* the command, or is the replacement that prepare made.  So the failure   *)
(* of a send never meets a row that completed.                             *)

InUp(b)   == \E c \in Conns : \E i \in 1 .. Len(up[c]) : up[c][i].id = b
InDown(b) == \E i \in 1 .. Len(down) : down[i].type = "start_backup" /\ down[i].id = b
InQueue(b) == \E i \in 1 .. Len(queue) : queue[i] = b
AtServer(b) == row[b].status = "COMPLETED" \/ (\E h \in handlers : h.id = b) \/ b \in creqs
AtAgent(b)  == InQueue(b) \/ b = cur \/ b = lock \/ b = run.slot
Heard(b) == AtServer(b) \/ InUp(b) \/ InDown(b) \/ AtAgent(b)

HeardWasSent == \A b \in Backups : Heard(b) => Created(b) /\ disp[b].pc = "none"

(* How a step may be the first to let anybody hear of b. *)
FirstHeard(b) == \/ disp[b].pc = "created" /\ disp'[b].pc = "none"
                 \/ b \in Spares /\ Created(b)'

LEMMA SendUpHeard ==
  ASSUME TypeOK, NEW b \in Backups, NEW c, NEW f \in Frame, SendUp(c, f), InUp(b)'
  PROVE  InUp(b) \/ f.id = b
<1>1. PICK d \in Conns : \E i \in 1 .. Len(up'[d]) : up'[d][i].id = b
  BY DEF InUp
<1>2. PICK i \in 1 .. Len(up'[d]) : up'[d][i].id = b
  BY <1>1
<1>3. up[d] \in Seq(Frame)
  BY DEF TypeOK
<1>4. CASE up'[d] = up[d]
  BY <1>2, <1>4 DEF InUp
<1>5. CASE up'[d] = Append(up[d], f)
  <2>1. i \in 1 .. Len(up[d]) \/ i = Len(up[d]) + 1
    BY <1>2, <1>3, <1>5
  <2>2. CASE i \in 1 .. Len(up[d])
    BY <1>2, <1>3, <1>5, <2>2 DEF InUp
  <2>3. CASE i = Len(up[d]) + 1
    BY <1>2, <1>3, <1>5, <2>3
  <2>4. QED
    BY <2>1, <2>2, <2>3
<1>6. QED
  BY <1>4, <1>5 DEF SendUp, TypeOK

LEMMA SequencesHeard ==
  ASSUME TypeOK, NEW b \in Backups
  PROVE  /\ \A c \in Conns : up[c] # <<>> /\ up' = [up EXCEPT ![c] = Tail(@)] /\ InUp(b)' => InUp(b)
         /\ down # <<>> /\ down' = Tail(down) /\ InDown(b)' => InDown(b)
         /\ queue # <<>> /\ queue' = Tail(queue) /\ InQueue(b)' => InQueue(b)
         /\ \A m \in StartMsg \cup {Connected} :
              down' = Append(down, m) /\ InDown(b)' => InDown(b) \/ (m.type = "start_backup" /\ m.id = b)
         /\ \A o \in Backups : queue' = Append(queue, o) /\ InQueue(b)' => InQueue(b) \/ o = b
<1>1. down \in Seq(StartMsg \cup {Connected}) /\ queue \in Seq(Backups) /\ up \in [Conns -> Seq(Frame)]
  BY DEF TypeOK
<1>2. ASSUME NEW T, NEW q \in Seq(T), q # <<>>, NEW i \in 1 .. Len(Tail(q))
      PROVE  i + 1 \in 1 .. Len(q) /\ Tail(q)[i] = q[i + 1]
  BY <1>2
<1>3. ASSUME NEW T, NEW q \in Seq(T), NEW m \in T, NEW i \in 1 .. Len(Append(q, m))
      PROVE  (i \in 1 .. Len(q) /\ Append(q, m)[i] = q[i]) \/ Append(q, m)[i] = m
  BY <1>3
<1>4. ASSUME NEW c \in Conns, up[c] # <<>>, up' = [up EXCEPT ![c] = Tail(@)], InUp(b)'
      PROVE  InUp(b)
  <2>1. PICK d \in Conns : \E i \in 1 .. Len(up'[d]) : up'[d][i].id = b
    BY <1>4 DEF InUp
  <2>2. PICK i \in 1 .. Len(up'[d]) : up'[d][i].id = b
    BY <2>1
  <2>3. CASE d = c
    <3>1. up'[d] = Tail(up[c]) /\ up[c] \in Seq(Frame)
      BY <1>1, <1>4, <2>3
    <3>2. QED
      BY <1>2, <1>4, <2>2, <3>1 DEF InUp
  <2>4. CASE d # c
    BY <1>1, <1>4, <2>2, <2>4 DEF InUp
  <2>5. QED
    BY <2>3, <2>4
<1>5. down # <<>> /\ down' = Tail(down) /\ InDown(b)' => InDown(b)
  BY <1>1, <1>2 DEF InDown
<1>6. queue # <<>> /\ queue' = Tail(queue) /\ InQueue(b)' => InQueue(b)
  BY <1>1, <1>2 DEF InQueue
<1>7. \A m \in StartMsg \cup {Connected} :
        down' = Append(down, m) /\ InDown(b)' => InDown(b) \/ (m.type = "start_backup" /\ m.id = b)
  BY <1>1, <1>3 DEF InDown
<1>8. \A o \in Backups : queue' = Append(queue, o) /\ InQueue(b)' => InQueue(b) \/ o = b
  BY <1>1, <1>3 DEF InQueue
<1>9. QED
  BY <1>4, <1>5, <1>6, <1>7, <1>8

LEMMA FailRowsHeard ==
  ASSUME TypeOK, NEW ids, NEW why, FailRows(ids, why), NEW b \in Backups,
         row'[b].status = "COMPLETED"
  PROVE  row[b].status = "COMPLETED"
<1>1. row[b] \in Row
  BY DEF TypeOK
<1>2. row'[b] = row[b] \/ row'[b] = [[row[b] EXCEPT !.status = "FAILED"] EXCEPT !.error = why]
  BY DEF FailRows
<1>3. QED
  BY <1>1, <1>2 DEF Row

LEMMA HeardStep ==
  ASSUME TypeOK, RunShape, IInv, [Next]_vars, NEW b \in Backups, Heard(b)'
  PROVE  Heard(b) \/ FirstHeard(b)
<1>1. /\ row \in [Backups -> Row] /\ up \in [Conns -> Seq(Frame)] /\ disp \in [Backups -> Dispatch]
      /\ run \in Run /\ (cur # None => cur \in Backups) /\ (lock # None => lock \in Backups)
      /\ b # None
  BY NoneAssumption DEF TypeOK
<1>2. ASSUME row'[b].status = "COMPLETED" => AtServer(b),
             UNCHANGED <<handlers, creqs, up, down, queue, cur, lock, run>>
      PROVE  Heard(b)
  BY <1>2 DEF Heard, AtServer, InUp, InDown, AtAgent, InQueue
<1>3. ASSUME UNCHANGED <<row, handlers, creqs, queue, cur, lock, run>>,
             InUp(b)' => InUp(b), InDown(b)' => InDown(b)
      PROVE  Heard(b)
  BY <1>3 DEF Heard, AtServer, AtAgent, InQueue
<1>4. CASE LinkStep
  <2>1. ~InDown(b)' \/ InDown(b)
    <3>1. CASE down' = down \/ down' = <<>>
      BY <3>1 DEF InDown
    <3>2. CASE Welcome
      BY <3>2, RestType, SequencesHeard DEF Welcome, Connected
    <3>3. QED
      BY <1>4, <3>1, <3>2 DEF LinkStep, Open, Register, Drop, LoseFrames
  <2>2. InUp(b)' => InUp(b)
    <3>1. CASE up' = up
      BY <3>1 DEF InUp
    <3>2. ASSUME NEW c \in Conns, LoseFrames(c), InUp(b)' PROVE InUp(b)
      <4>1. \A d \in Conns : up'[d] = up[d] \/ up'[d] = <<>>
        BY <1>1, <3>2 DEF LoseFrames
      <4>2. QED
        BY <3>2, <4>1 DEF InUp
    <3>3. QED
      BY <1>4, <3>1, <3>2 DEF LinkStep, Open, Register, Welcome, Drop
  <2>3. QED
    BY <1>3, <1>4, <2>1, <2>2
    DEF LinkStep, Open, Register, Welcome, Drop, LoseFrames, dbVars, agentVars, serverVars
<1>5. ASSUME NEW o \in Backups, DispatchStep(o) PROVE Heard(b) \/ FirstHeard(b)
  <2>1. CASE DispatchCheck(o)
    BY <1>2, <2>1 DEF DispatchCheck, dbVars, linkVars, agentVars, AtServer
  <2>2. CASE DispatchCreate(o)
    <3>1. row'[b].status = "COMPLETED" => row[b].status = "COMPLETED"
      BY <1>1, <2>2 DEF DispatchCreate, Row
    <3>2. QED
      BY <1>2, <2>2, <3>1 DEF DispatchCreate, linkVars, agentVars, AtServer
  <2>3. CASE DispatchSend(o)
    <3>1. row'[b].status = "COMPLETED" => row[b].status = "COMPLETED"
      BY <2>3, FailRowsHeard DEF DispatchSend
    <3>2. CASE o = b
      BY <1>1, <2>3, <3>2 DEF DispatchSend, FirstHeard, NoDispatch
    <3>3. CASE o # b
      <4>1. InDown(b)' => InDown(b)
        <5>1. CASE down' = down
          BY <5>1 DEF InDown
        <5>2. CASE down' = Append(down, [type |-> "start_backup", id |-> o])
          <6>1. [type |-> "start_backup", id |-> o] \in StartMsg \cup {Connected}
            BY DEF StartMsg
          <6>2. QED
            BY <3>3, <5>2, <6>1, SequencesHeard
        <5>3. QED
          BY <2>3, <5>1, <5>2 DEF DispatchSend
      <4>2. QED
        BY <2>3, <3>1, <4>1 DEF DispatchSend, Heard, AtServer, InUp, AtAgent, InQueue, agentVars
    <3>4. QED
      BY <3>2, <3>3
  <2>4. QED
    BY <1>5, <2>1, <2>2, <2>3 DEF DispatchStep
<1>6. CASE SweepStep
  <2>1. row'[b].status = "COMPLETED" => row[b].status = "COMPLETED"
    <3>1. CASE SweepMark
      BY <3>1, FailRowsHeard DEF SweepMark
    <3>2. ASSUME NEW o \in Backups, SweepClear(o)
          PROVE  row'[b].status = "COMPLETED" => row[b].status = "COMPLETED"
      BY <1>1, <3>2 DEF SweepClear, Row
    <3>3. QED
      BY <1>6, <3>1, <3>2 DEF SweepStep, SweepFind, SweepRemove, dbVars
  <2>2. QED
    BY <1>2, <1>6, <2>1 DEF SweepStep, SweepFind, SweepMark, SweepRemove, SweepClear, linkVars,
                            agentVars, AtServer
<1>7. CASE HandlerStep
  <2>1. ASSUME NEW c \in Conns, Receive(c) PROVE Heard(b)
    <3>1. up[c] # <<>> /\ up' = [up EXCEPT ![c] = Tail(@)]
          /\ UNCHANGED <<creqs, down, agentVars>>
      BY <2>1 DEF Receive
    <3>2. InUp(b)' => InUp(b)
      BY <3>1, SequencesHeard
    <3>3. row'[b].status = "COMPLETED" => row[b].status = "COMPLETED"
      BY <2>1, FailRowsHeard DEF Receive
    <3>4. (\E h \in handlers' : h.id = b) => (\E h \in handlers : h.id = b) \/ InUp(b)
      <4>1. Head(up[c]) = up[c][1] /\ 1 \in 1 .. Len(up[c])
        BY <1>1, <3>1
      <4>2. handlers' \subseteq handlers \cup {[id |-> Head(up[c]).id, to |-> StatusOf(Head(up[c]).type)]}
        BY <2>1 DEF Receive
      <4>3. QED
        BY <4>1, <4>2 DEF InUp
    <3>5. QED
      BY <3>1, <3>2, <3>3, <3>4 DEF Heard, AtServer, InDown, AtAgent, InQueue, agentVars
  <2>2. ASSUME NEW c \in Conns, ScanFind(c) \/ ScanMark(c) PROVE Heard(b)
    <3>1. row'[b].status = "COMPLETED" => row[b].status = "COMPLETED"
      BY <2>2, FailRowsHeard DEF ScanFind, ScanMark, dbVars
    <3>2. QED
      BY <1>2, <2>2, <3>1 DEF ScanFind, ScanMark, linkVars, agentVars, AtServer
  <2>3. ASSUME NEW h \in handlers, StatusUpdate(h) PROVE Heard(b)
    <3>1. row'[b].status = "COMPLETED" => AtServer(b)
      BY <1>1, <2>3 DEF StatusUpdate, AtServer
    <3>2. QED
      BY <2>3, <3>1 DEF StatusUpdate, linkVars, agentVars, Heard, AtServer, InUp, InDown, AtAgent, InQueue
  <2>4. ASSUME NEW o \in Backups, Complete(o) PROVE Heard(b)
    <3>1. row'[b].status = "COMPLETED" => AtServer(b)
      BY <1>1, <2>4 DEF Complete, AtServer
    <3>2. run'.slot = run.slot
      BY <1>1, <2>4 DEF Complete, Run
    <3>3. QED
      BY <2>4, <3>1, <3>2 DEF Complete, linkVars, Heard, AtServer, InUp, InDown, AtAgent, InQueue
  <2>5. QED
    BY <1>7, <2>1, <2>2, <2>3, <2>4 DEF HandlerStep
<1>8. CASE AgentStep
  <2>1. CASE AgentReceive
    <3>1. /\ down # <<>> /\ down' = Tail(down) /\ Head(down) \in StartMsg \cup {Connected}
          /\ Head(down) = down[1] /\ 1 \in 1 .. Len(down)
          /\ UNCHANGED <<row, handlers, creqs, cur>>
      BY <2>1 DEF AgentReceive, TypeOK, dbVars, serverVars
    <3>2. InDown(b)' => InDown(b)
      BY <3>1, SequencesHeard
    <3>3. CASE Head(down).type = "start_backup"
      <4>1. queue' = Append(queue, Head(down).id) /\ Head(down).id \in Backups
            /\ UNCHANGED <<up, lock, run>>
        BY <2>1, <3>1, <3>3 DEF AgentReceive, StartMsg, Connected
      <4>2. InQueue(b)' => InQueue(b) \/ InDown(b)
        BY <3>1, <3>3, <4>1, SequencesHeard DEF InDown
      <4>3. QED
        BY <3>1, <3>2, <4>1, <4>2 DEF Heard, AtServer, InUp, AtAgent
    <3>4. CASE Head(down).type # "start_backup"
      <4>1. /\ UNCHANGED queue /\ lock' = None /\ run'.slot = run.slot
            /\ IF lock # None THEN SendUp(conn, [type |-> "stale_backup", id |-> lock])
                              ELSE UNCHANGED up
        BY <1>1, <2>1, <3>4 DEF AgentReceive, Run
      <4>2. InUp(b)' => InUp(b) \/ b = lock
        <5>1. CASE lock = None
          BY <4>1, <5>1 DEF InUp
        <5>2. CASE lock # None
          <6>1. [type |-> "stale_backup", id |-> lock] \in Frame
            BY <1>1, <5>2 DEF Frame, FrameType
          <6>2. QED
            BY <4>1, <5>2, <6>1, SendUpHeard
        <5>3. QED
          BY <5>1, <5>2
      <4>3. QED
        BY <1>1, <3>1, <3>2, <4>1, <4>2 DEF Heard, AtServer, AtAgent, InQueue
    <3>5. QED
      BY <3>3, <3>4
  <2>2. CASE AgentStart
    <3>1. /\ queue # <<>> /\ queue' = Tail(queue) /\ cur' = Head(queue) /\ lock' = Head(queue)
          /\ run'.slot = None
          /\ SendUp(conn, [type |-> "running", id |-> Head(queue)])
          /\ UNCHANGED <<row, handlers, creqs, down>>
      BY <2>2 DEF AgentStart, dbVars, serverVars
    <3>2. Head(queue) = queue[1] /\ 1 \in 1 .. Len(queue) /\ Head(queue) \in Backups
      BY <3>1 DEF TypeOK
    <3>3. [type |-> "running", id |-> Head(queue)] \in Frame
      BY <3>2 DEF Frame, FrameType
    <3>4. InUp(b)' => InUp(b) \/ InQueue(b)
      BY <3>1, <3>2, <3>3, SendUpHeard DEF InQueue
    <3>5. InQueue(b)' \/ b = cur' \/ b = lock' => InQueue(b)
      BY <3>1, <3>2, SequencesHeard DEF InQueue
    <3>6. QED
      BY <1>1, <3>1, <3>4, <3>5 DEF Heard, AtServer, InDown, AtAgent
  <2>3. CASE AgentPrepare
    <3>1. PICK o \in Backups :
            /\ IF Exists(cur)
                 THEN o = cur /\ UNCHANGED row
                 ELSE /\ o \in Spares /\ row[o].status = "absent"
                      /\ row' = [row EXCEPT ![o].status = "IN_PROGRESS"]
            /\ run'.slot = o \/ run'.slot = run.slot
      BY <1>1, <2>3 DEF AgentPrepare, Run
    <3>2. row'[b].status = "COMPLETED" => row[b].status = "COMPLETED"
      BY <1>1, <3>1 DEF Row
    <3>3. CASE b = o /\ ~Exists(cur)
      BY <1>1, <3>1, <3>3 DEF FirstHeard, Created, Row
    <3>4. CASE b # o \/ Exists(cur)
      BY <2>3, <3>1, <3>2, <3>4 DEF AgentPrepare, linkVars, serverVars, Heard, AtServer, InUp,
                                    InDown, AtAgent, InQueue
    <3>5. QED
      BY <3>3, <3>4
  <2>4. CASE AgentPut
    <3>1. run'.slot = run.slot /\ creqs' \subseteq creqs \cup {run.slot}
      BY <1>1, <2>4 DEF AgentPut, Run
    <3>2. QED
      BY <2>4, <3>1 DEF AgentPut, linkVars, Heard, AtServer, InUp, InDown, AtAgent, InQueue
  <2>5. CASE AgentFail
    <3>1. run'.slot = run.slot
      BY <1>1, <2>5 DEF AgentFail, Run
    <3>2. QED
      BY <2>5, <3>1 DEF AgentFail, dbVars, linkVars, serverVars, Heard, AtServer, InUp, InDown,
                        AtAgent, InQueue
  <2>6. CASE AgentFinish
    <3>1. /\ lock' = None /\ cur' = None /\ run'.slot = None
          /\ SendUp(run.tx, [type |-> IF run.stage = "ok" THEN "completed" ELSE "failed",
                             id |-> cur])
          /\ cur \in Backups /\ UNCHANGED <<row, handlers, creqs, down, queue>>
      BY <1>1, <2>6 DEF AgentFinish, Idle, RunShape, dbVars, serverVars
    <3>2. [type |-> IF run.stage = "ok" THEN "completed" ELSE "failed", id |-> cur] \in Frame
      BY <3>1 DEF Frame, FrameType
    <3>3. InUp(b)' => InUp(b) \/ b = cur
      BY <3>1, <3>2, SendUpHeard
    <3>4. QED
      BY <1>1, <3>1, <3>3 DEF Heard, AtServer, InDown, AtAgent, InQueue
  <2>7. QED
    BY <1>8, <2>1, <2>2, <2>3, <2>4, <2>5, <2>6 DEF AgentStep
<1>9. CASE EnvStep
  <2>1. CASE AgentCrash
    BY <1>1, <2>1 DEF AgentCrash, dbVars, serverVars, Idle, Heard, AtServer, InUp, InDown,
                      AtAgent, InQueue
  <2>2. CASE ServerCrash
    BY <1>1, <2>2 DEF ServerCrash, dbVars, agentVars, Heard, AtServer, InUp, InDown, AtAgent, InQueue
  <2>3. CASE DeleteJob
    BY <1>2, <2>3 DEF DeleteJob, linkVars, serverVars, agentVars, AtServer
  <2>4. ASSUME NEW o \in Backups, RetentionRow(o) PROVE Heard(b)
    <3>1. row'[b].status = "COMPLETED" => row[b].status = "COMPLETED"
      BY <1>1, <2>4 DEF RetentionRow, Row
    <3>2. QED
      BY <1>2, <2>4, <3>1 DEF RetentionRow, linkVars, serverVars, agentVars, AtServer
  <2>5. QED
    BY <1>9, <2>1, <2>2, <2>3, <2>4 DEF EnvStep
<1>10. CASE UNCHANGED vars
  BY <1>2, <1>10 DEF vars, dbVars, linkVars, serverVars, agentVars, AtServer
<1>11. QED
  BY <1>4, <1>5, <1>6, <1>7, <1>8, <1>9, <1>10 DEF Next

LEMMA HeardWasSentStep ==
  ASSUME TypeOK, RunShape, IInv, HeardWasSent, [Next]_vars PROVE HeardWasSent'
<1>1. DbEvolves /\ DispatchKnows'
  BY DbStep, NextIInv DEF IInv
<1> SUFFICES ASSUME NEW b \in Backups, Heard(b)' PROVE Created(b)' /\ disp'[b].pc = "none"
  BY DEF HeardWasSent
<1>2. CASE Heard(b)
  <2>1. Created(b) /\ disp[b].pc = "none"
    BY <1>2 DEF HeardWasSent
  <2>2. disp'[b] = disp[b] \/ disp'[b] = NoDispatch \/ disp[b].pc = "created"
          \/ disp[b].pc = "checked" \/ DispatchCheck(b)
    <3>1. CASE ServerCrash
      BY <3>1 DEF ServerCrash
    <3>2. ASSUME NEW o \in Backups, DispatchStep(o)
          PROVE  disp'[b] = disp[b] \/ disp[b].pc \in {"created", "checked"} \/ DispatchCheck(b)
      BY <3>2 DEF DispatchStep, DispatchCheck, DispatchCreate, DispatchSend, TypeOK
    <3>3. CASE disp' = disp
      BY <3>3
    <3>4. QED
      BY <3>1, <3>2, <3>3
      DEF Next, vars, serverVars, LinkStep, Open, Register, Welcome, Drop, LoseFrames, SweepStep,
          SweepFind, SweepMark, SweepRemove, SweepClear, HandlerStep, Receive, ScanFind,
          ScanMark, StatusUpdate, Complete, AgentStep, AgentReceive, AgentStart, AgentPrepare,
          AgentPut, AgentFail, AgentFinish, EnvStep, AgentCrash, DeleteJob, RetentionRow
  <2>3. ~DispatchCheck(b)
    BY <2>1 DEF DispatchCheck, Created
  <2>4. QED
    BY <1>1, <2>1, <2>2, <2>3, Stable DEF NoDispatch
<1>3. CASE FirstHeard(b)
  <2>1. CASE disp[b].pc = "created" /\ disp'[b].pc = "none"
    BY <1>1, <2>1, Stable DEF IInv, DispatchKnows
  <2>2. CASE b \in Spares /\ Created(b)'
    BY <1>1, <2>2 DEF DispatchKnows
  <2>3. QED
    BY <1>3, <2>1, <2>2 DEF FirstHeard
<1>4. QED
  BY <1>2, <1>3, HeardStep

(* The writes of every step, and what stood behind the one that demotes. *)
LEMMA DemotionStep ==
  ASSUME TypeOK, RunShape, IInv, HeardWasSent, [Next]_vars, NEW b \in Backups,
         row[b].status = "COMPLETED", row'[b].status \notin {"COMPLETED", "deleted"}
  PROVE  \/ \E c \in Conns : b \in scans[c].ids
         \/ b \in sweep.ids
         \/ \E h \in handlers : h.id = b /\ h.to # "COMPLETED"
<1>1. row \in [Backups -> Row] /\ row'[b] # row[b]
  BY DEF TypeOK
<1>2. disp[b].pc = "none" /\ Exists(b)
  BY DEF HeardWasSent, Heard, AtServer, Exists
<1>3. ASSUME NEW ids, NEW why, FailRows(ids, why) PROVE b \in ids
  BY <1>1, <1>3 DEF FailRows
<1>4. ASSUME NEW o \in Backups, DispatchStep(o) PROVE FALSE
  <2>1. CASE DispatchCreate(o)
    BY <1>1, <1>2, <2>1 DEF DispatchCreate
  <2>2. CASE DispatchSend(o)
    <3>1. o # b
      BY <1>2, <2>2 DEF DispatchSend
    <3>2. QED
      BY <1>1, <1>3, <2>2, <3>1 DEF DispatchSend
  <2>3. QED
    BY <1>1, <1>4, <2>1, <2>2 DEF DispatchStep, DispatchCheck, dbVars
<1>5. CASE SweepStep
  <2>1. CASE SweepMark
    BY <1>3, <2>1 DEF SweepMark
  <2>2. ASSUME NEW o \in Backups, SweepClear(o) PROVE FALSE
    BY <1>1, <2>2 DEF SweepClear, Row
  <2>3. QED
    BY <1>1, <1>5, <2>1, <2>2 DEF SweepStep, SweepFind, SweepRemove, dbVars
<1>6. CASE HandlerStep
  <2>1. ASSUME NEW c \in Conns, Receive(c) PROVE FALSE
    BY <1>1, <1>3, <2>1 DEF Receive, Stuck
  <2>2. ASSUME NEW c \in Conns, ScanMark(c) PROVE b \in scans[c].ids
    BY <1>3, <2>2 DEF ScanMark
  <2>3. ASSUME NEW h \in handlers, StatusUpdate(h) PROVE h.id = b /\ h.to # "COMPLETED"
    BY <1>1, <2>3 DEF StatusUpdate, Row
  <2>4. ASSUME NEW o \in Backups, Complete(o) PROVE FALSE
    BY <1>1, <2>4 DEF Complete, Row
  <2>5. QED
    BY <1>1, <1>6, <2>1, <2>2, <2>3, <2>4 DEF HandlerStep, ScanFind, dbVars
<1>7. CASE AgentStep
  <2>1. CASE AgentPrepare
    BY <1>1, <1>2, <2>1 DEF AgentPrepare, Exists
  <2>2. QED
    BY <1>1, <1>7, <2>1
    DEF AgentStep, AgentReceive, AgentStart, AgentPut, AgentFail, AgentFinish, dbVars
<1>8. CASE EnvStep
  <2>1. ASSUME NEW o \in Backups, RetentionRow(o) PROVE FALSE
    BY <1>1, <2>1 DEF RetentionRow, Row
  <2>2. QED
    BY <1>1, <1>8, <2>1 DEF EnvStep, AgentCrash, ServerCrash, DeleteJob, dbVars
<1>9. ~LinkStep /\ ~UNCHANGED vars
  BY <1>1 DEF LinkStep, Open, Register, Welcome, Drop, LoseFrames, vars, dbVars
<1>10. QED
  BY <1>4, <1>5, <1>6, <1>7, <1>8, <1>9 DEF Next

Inductive == TypeOK /\ RunShape /\ IInv /\ HeardWasSent

LEMMA InitInductive == Init => Inductive
<1> SUFFICES ASSUME Init PROVE Inductive
  OBVIOUS
<1>1. RunShape
  BY DEF Init, RunShape, Idle
<1>2. ASSUME NEW b \in Backups PROVE ~Heard(b)
  <2>1. ~AtServer(b)
    BY DEF Init, AtServer
  <2>2. ~InUp(b) /\ ~InDown(b)
    BY DEF Init, InUp, InDown
  <2>3. ~AtAgent(b)
    BY NoneAssumption DEF Init, Idle, AtAgent, InQueue
  <2>4. QED
    BY <2>1, <2>2, <2>3 DEF Heard
<1>3. QED
  BY <1>1, <1>2, InitType, InitIInv DEF Inductive, HeardWasSent

LEMMA NextInductive == Inductive /\ [Next]_vars => Inductive'
BY NextType, RunShapeStep, NextIInv, HeardWasSentStep DEF Inductive

(* A row that reads COMPLETED loses that status only to a write decided    *)
(* on what was read before: stale_backup and a failed send never demote    *)
(* it, for any number of connections, scans and crashes.                   *)
THEOREM DemotionIsStale == Spec => DemotedOnlyByStaleRead
<1>1. Inductive /\ [Next]_vars =>
        [\A b \in Backups :
           row[b].status = "COMPLETED" /\ row'[b].status \notin {"COMPLETED", "deleted"} =>
             \/ \E c \in Conns : b \in scans[c].ids
             \/ b \in sweep.ids
             \/ \E h \in handlers : h.id = b /\ h.to # "COMPLETED"]_row
  BY DemotionStep DEF Inductive
<1>2. QED
  BY InitInductive, NextInductive, <1>1, PTL DEF Spec, DemotedOnlyByStaleRead

-----------------------------------------------------------------------------
(* The rows and the bucket as the records of BackupRecord. *)

StatusColumn(r) == [b \in Backups |-> r[b].status]
KeyColumn(r)  == {b \in Backups : r[b].key}

(* The sweep removes the objects of rows that have their key. *)
SweepHolds == \A b \in sweep.keyed : row[b].key

(* What becomes of the table's columns when one row is written. *)
LEMMA OneRowWritten ==
  ASSUME row \in [Backups -> Row], NEW b \in Backups, NEW s,
         row'[b].status = s, \A o \in Backups \ {b} : row'[o] = row[o]
  PROVE  /\ StatusColumn(row') = [StatusColumn(row) EXCEPT ![b] = s]
         /\ row'[b].key = row[b].key => KeyColumn(row') = KeyColumn(row)
         /\ row'[b].key = TRUE => KeyColumn(row') = KeyColumn(row) \cup {b}
         /\ row'[b].key = FALSE => KeyColumn(row') = KeyColumn(row) \ {b}
  BY DEF StatusColumn, KeyColumn

LEMMA RowsSame ==
  ASSUME \A o \in Backups : row'[o] = row[o]
  PROVE  StatusColumn(row') = StatusColumn(row) /\ KeyColumn(row') = KeyColumn(row)
  BY DEF StatusColumn, KeyColumn

LEMMA FailIsFail ==
  ASSUME TypeOK, NEW ids, NEW why, FailRows(ids, why), UNCHANGED <<blobs, swept>>
  PROVE  \E R \in SUBSET Backups : Record!Fail(R)
<1> PICK R \in SUBSET Backups : R = {b \in Backups : b \in ids /\ Exists(b)}
  OBVIOUS
<1>1. \A b \in Backups : row[b] \in Row
  BY DEF TypeOK
<1>2. \A b \in Backups :
        /\ row'[b].status = IF b \in R THEN "FAILED" ELSE row[b].status
        /\ row'[b].key = row[b].key
  <2> SUFFICES ASSUME NEW b \in Backups
               PROVE  /\ row'[b].status = IF b \in R THEN "FAILED" ELSE row[b].status
                      /\ row'[b].key = row[b].key
    OBVIOUS
  <2>1. row'[b] = IF b \in R THEN [[row[b] EXCEPT !.status = "FAILED"] EXCEPT !.error = why]
                             ELSE row[b]
    BY DEF FailRows
  <2>2. QED
    BY <1>1, <2>1 DEF Row
<1>3. /\ KeyColumn(row') = KeyColumn(row)
      /\ StatusColumn(row') = [b \in Backups |-> IF b \in R THEN "FAILED" ELSE StatusColumn(row)[b]]
  BY <1>2 DEF KeyColumn, StatusColumn
<1>4. \A b \in R : b \in Backups /\ StatusColumn(row)[b] \notin {"absent", "deleted"}
  BY DEF StatusColumn, Exists
<1>5. Record!Fail(R)
  BY <1>3, <1>4 DEF Record!Fail, Record!Live, StatusColumn, KeyColumn
<1>6. QED
  BY <1>5

(* A write of one row is the step of the record that its old and new values *)
(* make it.                                                                *)
LEMMA OneRowIsOneRecord ==
  ASSUME TypeOK, NEW b \in Backups, UNCHANGED <<blobs, swept>>,
         \A o \in Backups \ {b} : row'[o] = row[o]
  PROVE  /\ row[b].status = "absent" =>
              (row'[b].status \in {"PENDING", "IN_PROGRESS"} /\ row'[b].key = row[b].key
                 => Record!Make(b))
         /\ Exists(b) =>
              /\ row'[b].status = "deleted" /\ row'[b].key = row[b].key => Record!Delete(b)
              /\ row'[b].status = "IN_PROGRESS" /\ row'[b].key = row[b].key
                   => Record!Progress(b)
              /\ (/\ row'[b].status = "COMPLETED" /\ b \in blobs \cup swept
                  /\ \/ row'[b].key = TRUE
                     \/ row'[b].key = row[b].key /\ (row[b].key \/ b \in swept))
                   => Record!Succeed(b)
              /\ row'[b].status = row[b].status /\ row'[b].key = FALSE /\ b \in swept
                   => Record!Unname(b)
<1>1. row \in [Backups -> Row]
  BY DEF TypeOK
<1> DEFINE s == row'[b].status
<1>2. /\ StatusColumn(row') = [StatusColumn(row) EXCEPT ![b] = s]
      /\ row'[b].key = row[b].key => KeyColumn(row') = KeyColumn(row)
      /\ row'[b].key = TRUE => KeyColumn(row') = KeyColumn(row) \cup {b}
      /\ row'[b].key = FALSE => KeyColumn(row') = KeyColumn(row) \ {b}
  BY <1>1, OneRowWritten
<1>3. StatusColumn(row)[b] = row[b].status /\ (b \in KeyColumn(row) <=> row[b].key)
  BY <1>1 DEF StatusColumn, KeyColumn, Row
<1>4. s = row[b].status => StatusColumn(row') = StatusColumn(row)
  BY <1>2, <1>3 DEF StatusColumn
<1> HIDE DEF s
<1>5. ASSUME row[b].status = "absent", s \in {"PENDING", "IN_PROGRESS"},
             row'[b].key = row[b].key
      PROVE  Record!Make(b)
  BY <1>2, <1>3, <1>5 DEF Record!Make, StatusColumn, KeyColumn
<1>6. ASSUME Exists(b), s = "deleted", row'[b].key = row[b].key PROVE Record!Delete(b)
  BY <1>2, <1>3, <1>6 DEF Record!Delete, Record!Live, Exists, StatusColumn, KeyColumn
<1>7. ASSUME Exists(b), s = "IN_PROGRESS", row'[b].key = row[b].key PROVE Record!Progress(b)
  BY <1>2, <1>3, <1>7 DEF Record!Progress, Record!Live, Exists, StatusColumn, KeyColumn
<1>8. ASSUME Exists(b), s = "COMPLETED", b \in blobs \cup swept,
             \/ row'[b].key = TRUE
             \/ row'[b].key = row[b].key /\ (row[b].key \/ b \in swept)
      PROVE  Record!Succeed(b)
  <2>1. \/ KeyColumn(row') = KeyColumn(row) \cup {b}
        \/ b \in KeyColumn(row) \cup swept /\ KeyColumn(row') = KeyColumn(row)
    BY <1>2, <1>3, <1>8
  <2>2. QED
    BY <1>2, <1>3, <1>8, <2>1
    DEF Record!Succeed, Record!Live, Exists, StatusColumn, KeyColumn
<1>9. ASSUME Exists(b), s = row[b].status, row'[b].key = FALSE, b \in swept
      PROVE  Record!Unname(b)
  BY <1>2, <1>3, <1>4, <1>9 DEF Record!Unname, Record!Live, Exists, StatusColumn, KeyColumn
<1>10. QED
  BY <1>5, <1>6, <1>7, <1>8, <1>9 DEF s

RecordStep == Record!RecordNext \/ UNCHANGED Record!recordVars

LEMMA StutterIsRecord ==
  ASSUME UNCHANGED <<blobs, swept>>, \A o \in Backups : row'[o] = row[o]
  PROVE  RecordStep
<1>1. StatusColumn(row') = StatusColumn(row) /\ KeyColumn(row') = KeyColumn(row)
  BY RowsSame
<1>2. QED
  BY <1>1 DEF RecordStep, Record!recordVars, StatusColumn, KeyColumn

LEMMA FailIsRecord ==
  ASSUME TypeOK, NEW ids, NEW why, FailRows(ids, why), UNCHANGED <<blobs, swept>>
  PROVE  RecordStep
  BY FailIsFail DEF RecordStep, Record!RecordNext

LEMMA DispatchIsRecord ==
  ASSUME TypeOK, IInv, NEW b \in Backups, DispatchStep(b) PROVE RecordStep
<1>1. row \in [Backups -> Row] /\ disp \in [Backups -> Dispatch]
  BY DEF TypeOK
<1>2. CASE DispatchCheck(b)
  BY <1>2, StutterIsRecord DEF DispatchCheck, dbVars, histVars
<1>3. CASE DispatchCreate(b)
  <2>1. row[b].status = "absent"
    BY <1>3 DEF DispatchCreate, IInv, DispatchKnows, Created
  <2>2. /\ row'[b].status = "PENDING" /\ row'[b].key = row[b].key
        /\ \A o \in Backups \ {b} : row'[o] = row[o]
        /\ UNCHANGED <<blobs, swept>>
    BY <1>1, <1>3 DEF DispatchCreate, Row, histVars
  <2>3. Record!Make(b)
    BY <2>1, <2>2, OneRowIsOneRecord
  <2>4. QED
    BY <2>3 DEF RecordStep, Record!RecordNext
<1>4. CASE DispatchSend(b)
  BY <1>4, FailIsRecord, StutterIsRecord DEF DispatchSend, histVars
<1>5. QED
  BY <1>2, <1>3, <1>4 DEF DispatchStep

LEMMA SweepIsRecord ==
  ASSUME TypeOK, IInv, SweepHolds, SweepStep PROVE RecordStep
<1>1. row \in [Backups -> Row]
  BY DEF TypeOK
<1>2. CASE SweepFind
  BY <1>2, StutterIsRecord DEF SweepFind, dbVars, histVars
<1>3. CASE SweepMark
  BY <1>3, FailIsRecord DEF SweepMark, histVars
<1>4. ASSUME NEW b \in Backups, SweepRemove(b) PROVE RecordStep
  <2>1. row' = row /\ b \in KeyColumn(row)
    BY <1>4 DEF SweepRemove, SweepHolds, KeyColumn
  <2>2. CASE blobs' = blobs \ {b} /\ swept' = swept \cup {b}
    <3>1. Record!Remove(b)
      BY <2>1, <2>2 DEF Record!Remove, KeyColumn
    <3>2. QED
      BY <3>1 DEF RecordStep, Record!RecordNext
  <2>3. CASE UNCHANGED <<blobs, swept>>
    BY <2>1, <2>3, StutterIsRecord
  <2>4. QED
    BY <1>4, <2>2, <2>3 DEF SweepRemove
<1>5. ASSUME NEW b \in Backups, SweepClear(b) PROVE RecordStep
  <2>1. b \in swept /\ UNCHANGED <<blobs, swept>>
    BY <1>5 DEF SweepClear, IInv, SweepKnows, histVars
  <2>2. CASE Exists(b)
    <3>1. /\ row'[b].status = row[b].status /\ row'[b].key = FALSE
          /\ \A o \in Backups \ {b} : row'[o] = row[o]
      BY <1>1, <1>5, <2>2 DEF SweepClear, Row
    <3>2. Record!Unname(b)
      BY <2>1, <2>2, <3>1, OneRowIsOneRecord
    <3>3. QED
      BY <3>2 DEF RecordStep, Record!RecordNext
  <2>3. CASE ~Exists(b)
    BY <1>5, <2>1, <2>3, StutterIsRecord DEF SweepClear
  <2>4. QED
    BY <2>2, <2>3
<1>6. QED
  BY <1>2, <1>3, <1>4, <1>5 DEF SweepStep

LEMMA HandlerIsRecord ==
  ASSUME TypeOK, IInv, HandlerStep PROVE RecordStep
<1>1. row \in [Backups -> Row]
  BY DEF TypeOK
<1>2. ASSUME NEW c \in Conns, Receive(c) PROVE RecordStep
  BY <1>2, FailIsRecord, StutterIsRecord DEF Receive, histVars
<1>3. ASSUME NEW c \in Conns, ScanFind(c) PROVE RecordStep
  BY <1>3, StutterIsRecord DEF ScanFind, dbVars, histVars
<1>4. ASSUME NEW c \in Conns, ScanMark(c) PROVE RecordStep
  BY <1>4, FailIsRecord DEF ScanMark, histVars
<1>5. ASSUME NEW h \in handlers, StatusUpdate(h) PROVE RecordStep
  <2> DEFINE b == h.id
  <2>1. /\ b \in Backups /\ h.to \in {"IN_PROGRESS", "COMPLETED", "FAILED"}
        /\ UNCHANGED <<blobs, swept>>
    BY <1>5 DEF TypeOK, Handler, StatusUpdate, histVars
  <2>2. CASE ~Exists(b)
    BY <1>5, <2>1, <2>2, StutterIsRecord DEF StatusUpdate
  <2>3. CASE Exists(b) /\ h.to = "FAILED"
    <3>1. FailRows({b}, "agent")
      BY <1>1, <1>5, <2>1, <2>3 DEF StatusUpdate, FailRows, Row
    <3>2. QED
      BY <2>1, <3>1, FailIsRecord
  <2>4. CASE Exists(b) /\ h.to # "FAILED"
    <3>1. /\ row'[b].status = h.to /\ row'[b].key = row[b].key
          /\ \A o \in Backups \ {b} : row'[o] = row[o]
      BY <1>1, <1>5, <2>1, <2>4 DEF StatusUpdate, Row
    <3>2. h.to = "COMPLETED" => b \in swept \/ (row[b].key /\ b \in blobs)
      BY <2>4 DEF IInv, HandlersVouch, Uploaded, Exists
    <3>3. Record!Progress(b) \/ Record!Succeed(b)
      BY <2>1, <2>4, <3>1, <3>2, OneRowIsOneRecord
    <3>4. QED
      BY <2>1, <3>3 DEF RecordStep, Record!RecordNext
  <2>5. QED
    BY <2>2, <2>3, <2>4
<1>6. ASSUME NEW b \in Backups, Complete(b) PROVE RecordStep
  <2>1. UNCHANGED <<blobs, swept>> /\ Stored(b)
    BY <1>6 DEF Complete, histVars, IInv, RequestsVouch
  <2>2. CASE ~jobDeleted /\ Exists(b)
    <3>1. /\ row'[b].status = "COMPLETED" /\ row'[b].key = TRUE
          /\ \A o \in Backups \ {b} : row'[o] = row[o]
      BY <1>1, <1>6, <2>2 DEF Complete, Row
    <3>2. Record!Succeed(b)
      BY <2>1, <2>2, <3>1, OneRowIsOneRecord DEF Stored, Exists
    <3>3. QED
      BY <3>2 DEF RecordStep, Record!RecordNext
  <2>3. CASE ~(~jobDeleted /\ Exists(b))
    BY <1>6, <2>1, <2>3, StutterIsRecord DEF Complete
  <2>4. QED
    BY <2>2, <2>3
<1>7. QED
  BY <1>2, <1>3, <1>4, <1>5, <1>6 DEF HandlerStep

LEMMA AgentIsRecord ==
  ASSUME TypeOK, RunShape, IInv, AgentStep PROVE RecordStep
<1>1. row \in [Backups -> Row] /\ run \in Run
  BY DEF TypeOK
<1>2. CASE AgentPrepare
  <2>1. UNCHANGED <<blobs, swept>>
    BY <1>2 DEF AgentPrepare, histVars
  <2>2. CASE row' = row
    BY <2>1, <2>2, StutterIsRecord
  <2>3. CASE \E b \in Backups : /\ row[b].status = "absent"
                                /\ row' = [row EXCEPT ![b].status = "IN_PROGRESS"]
    <3>1. PICK b \in Backups : /\ row[b].status = "absent"
                               /\ row' = [row EXCEPT ![b].status = "IN_PROGRESS"]
      BY <2>3
    <3>2. /\ row'[b].status = "IN_PROGRESS" /\ row'[b].key = row[b].key
          /\ \A o \in Backups \ {b} : row'[o] = row[o]
      BY <1>1, <3>1 DEF Row
    <3>3. Record!Make(b)
      BY <2>1, <3>1, <3>2, OneRowIsOneRecord
    <3>4. QED
      BY <3>3 DEF RecordStep, Record!RecordNext
  <2>4. QED
    BY <1>2, <2>2, <2>3 DEF AgentPrepare
<1>3. CASE AgentPut
  <2>1. run.slot \in Backups /\ row[run.slot].status # "absent"
    BY <1>1, <1>3 DEF AgentPut, RunShape, Run, IInv, RunKnows, Created
  <2>2. blobs' = blobs \cup {run.slot} /\ row' = row /\ swept' = swept
    BY <1>3 DEF AgentPut, histVars
  <2>3. PICK b \in Backups : b = run.slot
    BY <2>1
  <2>4. Record!Store(b)
    BY <2>1, <2>2, <2>3 DEF Record!Store
  <2>5. QED
    BY <2>4 DEF RecordStep, Record!RecordNext
<1>4. QED
  BY <1>2, <1>3, StutterIsRecord
  DEF AgentStep, AgentReceive, AgentStart, AgentFail, AgentFinish, dbVars, histVars

LEMMA NextIsRecord ==
  ASSUME TypeOK, RunShape, IInv, SweepHolds, [Next]_vars PROVE RecordStep
<1>1. ASSUME UNCHANGED <<row, blobs, swept>> PROVE RecordStep
  BY <1>1, StutterIsRecord
<1>2. CASE UNCHANGED vars
  BY <1>1, <1>2 DEF vars, dbVars, histVars
<1>3. CASE LinkStep
  BY <1>1, <1>3 DEF LinkStep, Open, Register, Welcome, Drop, LoseFrames, dbVars, histVars
<1>4. CASE EnvStep
  <2>1. ASSUME NEW b \in Backups, RetentionRow(b) PROVE RecordStep
    <3>1. /\ row'[b].status = "deleted" /\ row'[b].key = row[b].key
          /\ \A o \in Backups \ {b} : row'[o] = row[o]
          /\ UNCHANGED <<blobs, swept>> /\ Exists(b)
      BY <2>1 DEF TypeOK, RetentionRow, Row, histVars
    <3>2. Record!Delete(b)
      BY <3>1, OneRowIsOneRecord
    <3>3. QED
      BY <3>2 DEF RecordStep, Record!RecordNext
  <2>2. QED
    BY <1>1, <1>4, <2>1 DEF EnvStep, AgentCrash, ServerCrash, DeleteJob, dbVars
<1>5. QED
  BY <1>2, <1>3, <1>4, DispatchIsRecord, SweepIsRecord, HandlerIsRecord, AgentIsRecord DEF Next

(* A key is taken away by the end of a removal alone. *)
LEMMA KeyKept ==
  ASSUME TypeOK, [Next]_vars, NEW b \in Backups, row[b].key
  PROVE  row'[b].key \/ SweepClear(b)
<1>1. row \in [Backups -> Row]
  BY DEF TypeOK
<1>2. ASSUME NEW ids, NEW why, FailRows(ids, why) PROVE row'[b].key
  <2>1. row'[b] = row[b]
          \/ row'[b] = [[row[b] EXCEPT !.status = "FAILED"] EXCEPT !.error = why]
    BY <1>2 DEF FailRows
  <2>2. QED
    BY <1>1, <2>1 DEF Row
<1>3. CASE row' = row
  BY <1>3
<1>4. ASSUME NEW o \in Backups, DispatchStep(o) PROVE row'[b].key
  <2>1. CASE DispatchCreate(o)
    BY <1>1, <2>1 DEF DispatchCreate, Row
  <2>2. QED
    BY <1>2, <1>3, <1>4, <2>1 DEF DispatchStep, DispatchCheck, DispatchSend, dbVars
<1>5. CASE SweepStep
  <2>1. ASSUME NEW o \in Backups, SweepClear(o) PROVE row'[b].key \/ SweepClear(b)
    BY <1>1, <2>1 DEF SweepClear
  <2>2. QED
    BY <1>2, <1>3, <1>5, <2>1 DEF SweepStep, SweepFind, SweepMark, SweepRemove, dbVars
<1>6. CASE HandlerStep
  <2>1. ASSUME NEW h \in handlers, StatusUpdate(h) PROVE row'[b].key
    BY <1>1, <2>1 DEF StatusUpdate, Row
  <2>2. ASSUME NEW o \in Backups, Complete(o) PROVE row'[b].key
    BY <1>1, <2>2 DEF Complete, Row
  <2>3. QED
    BY <1>2, <1>3, <1>6, <2>1, <2>2 DEF HandlerStep, Receive, ScanFind, ScanMark, dbVars
<1>7. CASE AgentStep
  <2>1. CASE AgentPrepare
    BY <1>1, <2>1 DEF AgentPrepare, Row
  <2>2. QED
    BY <1>3, <1>7, <2>1
    DEF AgentStep, AgentReceive, AgentStart, AgentPut, AgentFail, AgentFinish, dbVars
<1>8. CASE EnvStep
  <2>1. ASSUME NEW o \in Backups, RetentionRow(o) PROVE row'[b].key
    BY <1>1, <2>1 DEF RetentionRow, Row
  <2>2. QED
    BY <1>3, <1>8, <2>1 DEF EnvStep, AgentCrash, ServerCrash, DeleteJob, dbVars
<1>9. CASE LinkStep \/ UNCHANGED vars
  BY <1>3, <1>9 DEF LinkStep, Open, Register, Welcome, Drop, LoseFrames, vars, dbVars
<1>10. QED
  BY <1>4, <1>5, <1>6, <1>7, <1>8, <1>9 DEF Next

LEMMA SweepHoldsStep ==
  ASSUME TypeOK, SweepHolds, [Next]_vars PROVE SweepHolds'
<1>1. sweep \in Sweep
  BY DEF TypeOK
<1>2. ASSUME sweep'.keyed \subseteq sweep.keyed, \A b \in Backups : ~SweepClear(b)
      PROVE  SweepHolds'
  <2>1. \A b \in sweep'.keyed : b \in Backups /\ row[b].key
    BY <1>1, <1>2 DEF SweepHolds, Sweep
  <2>2. QED
    BY <1>2, <2>1, KeyKept DEF SweepHolds
<1>3. CASE sweep' = sweep
  <2>1. ASSUME NEW b \in Backups, SweepClear(b) PROVE FALSE
    <3>1. sweep'.removed = {}
      BY <1>1, <2>1 DEF SweepClear, Sweep, NoSweep
    <3>2. QED
      BY <1>3, <2>1, <3>1 DEF SweepClear
  <2>2. QED
    BY <1>2, <1>3, <2>1
<1>4. CASE SweepFind
  <2>1. row' = row /\ \A b \in sweep'.keyed : row[b].key
    BY <1>4 DEF SweepFind, dbVars
  <2>2. QED
    BY <2>1 DEF SweepHolds
<1>5. CASE SweepMark
  BY <1>1, <1>2, <1>5 DEF SweepMark, SweepClear, Sweep, NoSweep
<1>6. ASSUME NEW b \in Backups, SweepRemove(b) PROVE SweepHolds'
  <2>1. row' = row /\ sweep'.keyed \subseteq sweep.keyed
    BY <1>1, <1>6 DEF SweepRemove, Sweep, NoSweep
  <2>2. QED
    BY <2>1 DEF SweepHolds
<1>7. ASSUME NEW b \in Backups, SweepClear(b) PROVE SweepHolds'
  <2>1. sweep'.keyed \subseteq sweep.keyed \ {b}
    BY <1>1, <1>7 DEF SweepClear, Sweep, NoSweep
  <2>2. \A o \in Backups \ {b} : row'[o] = row[o]
    BY <1>7 DEF SweepClear, TypeOK
  <2>3. QED
    BY <1>1, <2>1, <2>2 DEF SweepHolds, Sweep
<1>8. CASE ServerCrash
  BY <1>8 DEF ServerCrash, NoSweep, SweepHolds
<1>9. QED
  BY <1>3, <1>4, <1>5, <1>6, <1>7, <1>8
  DEF Next, vars, serverVars, LinkStep, Open, Register, Welcome, Drop, LoseFrames, SweepStep,
      DispatchStep, DispatchCheck, DispatchCreate, DispatchSend, HandlerStep, Receive,
      ScanFind, ScanMark, StatusUpdate, Complete, AgentStep, AgentReceive, AgentStart,
      AgentPrepare, AgentPut, AgentFail, AgentFinish, EnvStep, AgentCrash, DeleteJob,
      RetentionRow

(* The table and the bucket are, whatever the sockets, agents, handlers,    *)
(* scans and crashes do, the records that BackupRecord describes: no row is *)
(* made twice or comes back, a success is written only on evidence, and an  *)
(* object of a row goes only by the sweep that found its key.               *)
THEOREM LifecycleKeepsRecords == Spec => RecordKept
<1>1. ASSUME Init PROVE Record!Blank /\ SweepHolds
  <2>1. sweep = NoSweep /\ blobs = {} /\ swept = {}
    BY <1>1 DEF Init
  <2>2. row = [b \in Backups |-> [status |-> "absent", key |-> FALSE, error |-> "none"]]
    BY <1>1 DEF Init
  <2>3. \A b \in Backups : row[b].status = "absent" /\ row[b].key = FALSE
    BY <2>2
  <2>4. StatusColumn(row) = [b \in Backups |-> "absent"] /\ KeyColumn(row) = {}
    BY <2>3 DEF StatusColumn, KeyColumn
  <2>5. Record!Blank
    BY <2>1, <2>4 DEF Record!Blank, StatusColumn, KeyColumn
  <2>6. SweepHolds
    BY <2>1 DEF SweepHolds, NoSweep
  <2>7. QED
    BY <2>5, <2>6
<1>2. Inductive /\ SweepHolds /\ [Next]_vars =>
        SweepHolds' /\ [Record!RecordNext]_(Record!recordVars)
  BY SweepHoldsStep, NextIsRecord DEF Inductive, RecordStep
<1>3. QED
  BY InitInductive, NextInductive, <1>1, <1>2, PTL DEF Spec, RecordKept, Record!RecordSpec
=============================================================================
