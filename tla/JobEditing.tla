------------------------------ MODULE JobEditing ------------------------------
(***************************************************************************)
(* Backup jobs, the policies linked to them and the agents they run on, as *)
(* the dialogs of several clients and the routes behind them create, change *)
(* and delete them.  A deletion is soft: the row stays, deleted_at is set. *)
(***************************************************************************)
CONSTANTS Jobs, Policies, Agents, Clients, None

ASSUME EditingAssumption == None \notin Jobs \cup Policies \cup Agents

VARIABLES
  machine,  \* "live" or "deleted"
  policy,   \* "absent", "live" or "deleted"
  job,
  owner,    \* a job's agent_id
  links,    \* committed BackupJobPolicy rows, and who wrote each
  form,     \* each client's job dialog and its request
  cleared,  \* the rows that a client's open transaction has deleted
  dropping, \* policies whose deletion found no job
  removing, \* agents whose deletion found no job
  late      \* ghost: jobs saved with what was being deleted, or was

editVars == <<machine, policy, job, owner, links, form, cleared, dropping, removing, late>>

Row      == [job: Jobs, policy: Policies, by: Clients]
NoForm   == [pc |-> "closed", job |-> None, agent |-> None, policy |-> None]
InTx     == {"locked", "cleared"}
Undeleted(s)  == {x \in DOMAIN s : s[x] = "live"}

EditTypeOK ==
  /\ machine \in [Agents -> {"live", "deleted"}]
  /\ policy \in [Policies -> {"absent", "live", "deleted"}]
  /\ job \in [Jobs -> {"absent", "live", "deleted"}]
  /\ owner \in [Jobs -> Agents \cup {None}]
  /\ links \subseteq Row
  /\ form \in [Clients -> [pc: {"closed", "open"} \cup InTx, job: Jobs \cup {None},
                           agent: Agents \cup {None}, policy: Policies \cup {None}]]
  /\ cleared \in [Clients -> SUBSET Row]
  /\ dropping \subseteq Policies /\ removing \subseteq Agents /\ late \subseteq Jobs

EditInit ==
  /\ machine = [a \in Agents |-> "live"] /\ policy = [p \in Policies |-> "absent"]
  /\ job = [j \in Jobs |-> "absent"] /\ owner = [j \in Jobs |-> None] /\ links = {}
  /\ form = [c \in Clients |-> NoForm] /\ cleared = [c \in Clients |-> {}]
  /\ dropping = {} /\ removing = {} /\ late = {}

-----------------------------------------------------------------------------
(* The job dialog.  Until its fetches answer, its selects hold nothing: no *)
(* agent, with which it does not submit, and no policy, with which it does. *)
(* What is chosen was live when the options were fetched.                  *)

OpenDialog(c, j) ==  \* to create a job when j is None
  /\ form[c].pc = "closed" /\ (j # None => job[j] = "live")
  /\ form' = [form EXCEPT ![c] = [pc |-> "open", job |-> j, agent |-> None, policy |-> None]]
  /\ UNCHANGED <<machine, policy, job, owner, links, cleared, dropping, removing, late>>

fetchAgents(c, a) ==
  /\ form[c].pc = "open" /\ form[c].agent = None /\ a \in Undeleted(machine)
  /\ form' = [form EXCEPT ![c].agent = a]
  /\ UNCHANGED <<machine, policy, job, owner, links, cleared, dropping, removing, late>>

fetchPolicies(c, p) ==
  /\ form[c].pc = "open" /\ form[c].policy = None /\ p \in Undeleted(policy)
  /\ form' = [form EXCEPT ![c].policy = p]
  /\ UNCHANGED <<machine, policy, job, owner, links, cleared, dropping, removing, late>>

Close(c) ==
  /\ form[c].pc = "open" /\ form' = [form EXCEPT ![c] = NoForm]
  /\ UNCHANGED <<machine, policy, job, owner, links, cleared, dropping, removing, late>>

-----------------------------------------------------------------------------
(* Saving a job.  Neither route looks at whether the agent and the policy   *)
(* are deleted.                                                            *)

NewLinks(c, j) == IF form[c].policy = None THEN {}
                  ELSE {[job |-> j, policy |-> form[c].policy, by |-> c]}

Saved(c, j) ==
  /\ owner' = [owner EXCEPT ![j] = form[c].agent]
  /\ links' = (links \ cleared[c]) \cup NewLinks(c, j)
  /\ late' = IF \/ form[c].agent \in removing \/ machine[form[c].agent] = "deleted"
                \/ form[c].policy \in dropping
                \/ \E p \in Policies : p = form[c].policy /\ policy[p] = "deleted"
             THEN late \cup {j} ELSE late \ {j}
  /\ cleared' = [cleared EXCEPT ![c] = {}]

(* One transaction that touches no row of anybody else.  The button stays  *)
(* enabled until the response closes the dialog.                           *)
Create(c, j) ==
  /\ form[c].pc = "open" /\ form[c].job = None /\ form[c].agent # None
  /\ job[j] = "absent" /\ job' = [job EXCEPT ![j] = "live"]
  /\ Saved(c, j)
  /\ \E pc \in {"open", "closed"} :
       form' = [form EXCEPT ![c] = IF pc = "open" THEN @ ELSE NoForm]
  /\ UNCHANGED <<machine, policy, dropping, removing>>

JobLocked(j) == \E c \in Clients : form[c].pc \in InTx /\ form[c].job = j

TxUpdateLast(c) ==  \* mutant: the job's row is not updated first, so nothing is locked
  /\ form[c].pc = "open" /\ form[c].job # None /\ form[c].agent # None
  /\ form' = [form EXCEPT ![c].pc = "locked"]
  /\ UNCHANGED <<machine, policy, job, owner, links, cleared, dropping, removing, late>>

(* PATCH: the job's row first, whose lock the transaction keeps to its end, *)
TxUpdate(c) ==
  /\ form[c].pc = "open" /\ form[c].job # None /\ form[c].agent # None
  /\ ~JobLocked(form[c].job)
  /\ form' = [form EXCEPT ![c].pc = "locked"]
  /\ UNCHANGED <<machine, policy, job, owner, links, cleared, dropping, removing, late>>

(* then the links that are committed, *)
TxClear(c) ==
  /\ form[c].pc = "locked"
  /\ cleared' = [cleared EXCEPT ![c] = {l \in links : l.job = form[c].job}]
  /\ form' = [form EXCEPT ![c].pc = "cleared"]
  /\ UNCHANGED <<machine, policy, job, owner, links, dropping, removing, late>>

(* then the new one. *)
TxCommit(c) ==
  /\ form[c].pc = "cleared"
  /\ Saved(c, form[c].job)
  /\ form' = [form EXCEPT ![c] = NoForm]
  /\ UNCHANGED <<machine, policy, job, dropping, removing>>

TxFail(c) ==
  /\ form[c].pc \in InTx
  /\ form' = [form EXCEPT ![c].pc = "open"] /\ cleared' = [cleared EXCEPT ![c] = {}]
  /\ UNCHANGED <<machine, policy, job, owner, links, dropping, removing, late>>

DeleteJob(j) ==
  /\ job[j] = "live" /\ ~JobLocked(j) /\ job' = [job EXCEPT ![j] = "deleted"]
  /\ UNCHANGED <<machine, policy, owner, links, form, cleared, dropping, removing, late>>

-----------------------------------------------------------------------------
(* Policies and agents: the deletion looks for jobs in one statement and    *)
(* marks the row in another.                                               *)

CreatePolicy(p) ==
  /\ policy[p] = "absent" /\ policy' = [policy EXCEPT ![p] = "live"]
  /\ UNCHANGED <<machine, job, owner, links, form, cleared, dropping, removing, late>>

PolicyCheckOthers(p) ==  \* mutant: the filter on the job's deleted_at is the wrong way round
  /\ policy[p] = "live"
  /\ \A l \in links : l.policy = p => job[l.job] # "deleted"
  /\ dropping' = dropping \cup {p}
  /\ UNCHANGED <<machine, policy, job, owner, links, form, cleared, removing, late>>

PolicyCheck(p) ==
  /\ policy[p] = "live"
  /\ \A l \in links : l.policy = p => job[l.job] # "live"
  /\ dropping' = dropping \cup {p}
  /\ UNCHANGED <<machine, policy, job, owner, links, form, cleared, removing, late>>

PolicyMark(p) ==
  /\ p \in dropping /\ dropping' = dropping \ {p}
  /\ policy' = [policy EXCEPT ![p] = "deleted"]
  /\ UNCHANGED <<machine, job, owner, links, form, cleared, removing, late>>

AgentCheck(a) ==
  /\ machine[a] = "live" /\ \A j \in Undeleted(job) : owner[j] # a
  /\ removing' = removing \cup {a}
  /\ UNCHANGED <<machine, policy, job, owner, links, form, cleared, dropping, late>>

AgentMark(a) ==
  /\ a \in removing /\ removing' = removing \ {a}
  /\ machine' = [machine EXCEPT ![a] = "deleted"]
  /\ UNCHANGED <<policy, job, owner, links, form, cleared, dropping, late>>

-----------------------------------------------------------------------------
EditNext ==
  \/ \E c \in Clients :
       \/ \E j \in Jobs \cup {None} : OpenDialog(c, j)
       \/ \E a \in Agents : fetchAgents(c, a)
       \/ \E p \in Policies : fetchPolicies(c, p)
       \/ Close(c) \/ TxUpdate(c) \/ TxClear(c) \/ TxCommit(c) \/ TxFail(c)
       \/ \E j \in Jobs : Create(c, j)
  \/ \E j \in Jobs : DeleteJob(j)
  \/ \E p \in Policies : CreatePolicy(p) \/ PolicyCheck(p) \/ PolicyMark(p)
  \/ \E a \in Agents : AgentCheck(a) \/ AgentMark(a)

EditSpec == EditInit /\ [][EditNext]_editVars

-----------------------------------------------------------------------------
(* Properties. *)

(* However many clients save a job at once, it keeps one policy: the second *)
(* PATCH waits for the job's row and so sees the link it has to delete.    *)
OnePolicyPerJob == \A l, m \in links : l.job = m.job => l = m

(* What a job uses is not deleted under it, except by a deletion that ran   *)
(* while the job was saved, or before it from an old list.                 *)
InUseStays ==
  \A j \in Undeleted(job) \ late :
    /\ machine[owner[j]] = "live"
    /\ \A l \in links : l.job = j => policy[l.policy] = "live"
=============================================================================
