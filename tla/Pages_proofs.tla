----------------------------- MODULE Pages_proofs -----------------------------
(***************************************************************************)
(* What the pages of the web application change and show.  A job keeps one *)
(* policy and what is in use stays, for any number of jobs, policies,      *)
(* agents and clients; a list that is up to date has every end the page    *)
(* was told of, for any number of backups, sockets and fetches; a list page *)
(* shows what it asked for last, once the newest answer is the one shown,  *)
(* for any rows, words, fetches and visits.  The feed of all the backups    *)
(* and the cards stand in the order that was asked for, whatever the order *)
(* in which the answers come; the dialogs take turns, in the order they    *)
(* were opened.                                                            *)
(***************************************************************************)
EXTENDS JobEditing, LiveView, ListPage, BackupFeed, CardViews, DialogQueue, Sorting,
        FiniteSetTheorems, SequenceTheorems, TLAPS

(* A link is of a job that was created; so is the job of a form, which was *)
(* picked from a list, as was its policy.                                  *)
LinksKnown == \A l \in links : job[l.job] # "absent"

FormsKnown ==
  \A c \in Clients :
    /\ form[c].job # None => job[form[c].job] # "absent"
    /\ form[c].policy # None => policy[form[c].policy] # "absent"
    /\ form[c].pc \in InTx => form[c].job \in Jobs /\ form[c].agent \in Agents

(* The row lock: one transaction at a time for a job, *)
LockedAlone ==
  \A c, d \in Clients :
    form[c].pc \in InTx /\ form[d].pc \in InTx /\ form[c].job = form[d].job => c = d

(* so that what it has deleted is all there is until it commits. *)
ClearedAll ==
  \A c \in Clients :
    /\ form[c].pc = "cleared" => cleared[c] = {l \in links : l.job = form[c].job}
    /\ form[c].pc # "cleared" => cleared[c] = {}

OwnersKnown == \A j \in Jobs : job[j] # "absent" => owner[j] \in Agents

(* Between the look and the mark of a deletion, whoever starts to use what  *)
(* is being deleted is marked late.                                        *)
DroppingUnused ==
  \A l \in links : l.policy \in dropping /\ job[l.job] = "live" => l.job \in late

RemovingUnused ==
  \A j \in Jobs : job[j] = "live" /\ owner[j] \in removing => j \in late

EditInv ==
  /\ EditTypeOK /\ LinksKnown /\ FormsKnown /\ LockedAlone /\ ClearedAll
  /\ OwnersKnown /\ DroppingUnused /\ RemovingUnused
  /\ OnePolicyPerJob /\ InUseStays

-----------------------------------------------------------------------------
LEMMA EditInitInv == EditInit => EditInv
BY EditingAssumption
   DEF EditInit, EditInv, EditTypeOK, LinksKnown, FormsKnown, LockedAlone, ClearedAll,
       OwnersKnown, DroppingUnused, RemovingUnused, OnePolicyPerJob, InUseStays, NoForm,
       InTx, Undeleted, Row

(* The dialog: the form of one client changes, outside a transaction, into *)
(* one of what was in the lists.                                           *)
Picked(c, f) ==
  /\ form' = [form EXCEPT ![c] = f] /\ form[c].pc \notin InTx
  /\ f \in [pc: {"closed", "open"}, job: Jobs \cup {None}, agent: Agents \cup {None},
            policy: Policies \cup {None}]
  /\ f.job # None => job[f.job] # "absent"
  /\ f.policy # None => policy[f.policy] # "absent"
  /\ UNCHANGED <<machine, policy, job, owner, links, cleared, dropping, removing, late>>

LEMMA PickedKeeps ==
  ASSUME EditInv, NEW c \in Clients, NEW f, Picked(c, f)
  PROVE  EditInv'
<1>1. /\ form'[c] = f /\ f.pc \notin InTx
      /\ \A d \in Clients \ {c} : form'[d] = form[d]
  BY DEF EditInv, EditTypeOK, Picked, InTx
<1>2. EditTypeOK'
  BY DEF EditInv, EditTypeOK, Picked, InTx
<1>3. FormsKnown'
  BY <1>1 DEF EditInv, FormsKnown, Picked
<1>4. LockedAlone'
  BY <1>1 DEF EditInv, LockedAlone
<1>5. ClearedAll'
  BY <1>1 DEF EditInv, ClearedAll, Picked, InTx
<1>6. /\ LinksKnown' /\ OwnersKnown' /\ DroppingUnused' /\ RemovingUnused'
      /\ OnePolicyPerJob' /\ InUseStays'
  BY DEF EditInv, LinksKnown, OwnersKnown, DroppingUnused, RemovingUnused, OnePolicyPerJob,
         InUseStays, Undeleted, Picked
<1> QED
  BY <1>2, <1>3, <1>4, <1>5, <1>6 DEF EditInv

LEMMA DialogKeeps ==
  ASSUME EditInv, NEW c \in Clients,
         \/ \E j \in Jobs \cup {None} : OpenDialog(c, j)
         \/ \E a \in Agents : fetchAgents(c, a)
         \/ \E p \in Policies : fetchPolicies(c, p)
         \/ Close(c)
  PROVE  EditInv'
<1>1. ASSUME NEW j \in Jobs \cup {None}, OpenDialog(c, j)
      PROVE  Picked(c, [pc |-> "open", job |-> j, agent |-> None, policy |-> None])
  <2> DEFINE f == [pc |-> "open", job |-> j, agent |-> None, policy |-> None]
  <2>2. f.job = j /\ f.policy = None
        /\ f \in [pc: {"closed", "open"}, job: Jobs \cup {None}, agent: Agents \cup {None},
                  policy: Policies \cup {None}]
    OBVIOUS
  <2>3. /\ j # None => job[j] # "absent"
        /\ form[c].pc \notin InTx
        /\ UNCHANGED <<machine, policy, job, owner, links, cleared, dropping, removing, late>>
    BY <1>1 DEF OpenDialog, InTx
  <2>4. form' = [form EXCEPT ![c] = f]
    BY <1>1 DEF OpenDialog
  <2> HIDE DEF f
  <2>5. Picked(c, f)
    BY <2>2, <2>3, <2>4 DEF Picked
  <2> QED
    BY <2>5 DEF f
<1>2. ASSUME NEW a \in Agents, fetchAgents(c, a)
      PROVE  Picked(c, [form[c] EXCEPT !.agent = a])
  BY <1>2 DEF fetchAgents, Picked, EditInv, EditTypeOK, FormsKnown, InTx
<1>3. ASSUME NEW p \in Policies, fetchPolicies(c, p)
      PROVE  Picked(c, [form[c] EXCEPT !.policy = p])
  BY <1>3 DEF fetchPolicies, Picked, EditInv, EditTypeOK, FormsKnown, InTx, Undeleted
<1>4. ASSUME Close(c)
      PROVE  Picked(c, NoForm)
  BY <1>4 DEF Close, Picked, NoForm, InTx
<1> QED
  BY <1>1, <1>2, <1>3, <1>4, PickedKeeps
-----------------------------------------------------------------------------
(* What it takes to save job j: the client's own transaction, if it has     *)
(* one, has deleted all of the job's links.                                *)
LEMMA SavedKeeps ==
  ASSUME EditInv, NEW c \in Clients, NEW j \in Jobs, Saved(c, j),
         form[c].agent \in Agents, \A l \in links : l.job = j => l \in cleared[c],
         \A l \in cleared[c] : l.job = j,
         job' \in {job, [job EXCEPT ![j] = "live"]},
         UNCHANGED <<machine, policy, dropping, removing>>
  PROVE  /\ links' \subseteq Row /\ owner' \in [Jobs -> Agents \cup {None}] /\ late' \subseteq Jobs
         /\ OwnersKnown' /\ DroppingUnused' /\ RemovingUnused'
         /\ OnePolicyPerJob' /\ InUseStays'
         /\ \A l \in links' : l.job # j => l \in links
         /\ \A l \in links : l.job # j => l \in links'
         /\ cleared' = [cleared EXCEPT ![c] = {}]
<1> DEFINE new == [job |-> j, policy |-> form[c].policy, by |-> c]
<1>1. /\ \A l \in links' : l.job # j => l \in links
      /\ \A l \in links : l.job # j => l \in links'
      /\ \A l \in links' : l.job = j => l = new /\ form[c].policy # None
      /\ form[c].policy \in Policies \cup {None}
      /\ links \subseteq Row /\ links' \subseteq Row
  BY DEF Saved, NewLinks, EditInv, EditTypeOK, Row
<1>2. /\ owner' = [owner EXCEPT ![j] = form[c].agent]
      /\ owner \in [Jobs -> Agents \cup {None}] /\ owner' \in [Jobs -> Agents \cup {None}]
      /\ owner'[j] = form[c].agent /\ \A k \in Jobs \ {j} : owner'[k] = owner[k]
  BY DEF Saved, EditInv, EditTypeOK
<1>3. /\ late' \subseteq Jobs /\ \A k \in Jobs \ {j} : k \in late' <=> k \in late
      /\ j \notin late' =>
           /\ form[c].agent \notin removing /\ machine[form[c].agent] # "deleted"
           /\ form[c].policy \notin dropping
           /\ form[c].policy \in Policies => policy[form[c].policy] # "deleted"
  BY DEF Saved, EditInv, EditTypeOK
<1>4. /\ \A k \in Jobs \ {j} : job'[k] = job[k]
      /\ DOMAIN job = Jobs /\ DOMAIN job' = Jobs
  BY DEF EditInv, EditTypeOK
<1>5. OwnersKnown'
  BY <1>2, <1>4 DEF EditInv, OwnersKnown
<1>6. DroppingUnused'
  BY <1>1, <1>3, <1>4 DEF EditInv, DroppingUnused, Row
<1>7. RemovingUnused'
  BY <1>2, <1>3, <1>4 DEF EditInv, RemovingUnused
<1>8. OnePolicyPerJob'
  BY <1>1 DEF EditInv, OnePolicyPerJob
<1>9. InUseStays'
  <2>1. /\ machine \in [Agents -> {"live", "deleted"}]
        /\ policy \in [Policies -> {"absent", "live", "deleted"}]
        /\ form[c].policy # None => policy[form[c].policy] # "absent"
    BY DEF EditInv, EditTypeOK, FormsKnown
  <2> SUFFICES ASSUME NEW k \in Jobs, job'[k] = "live", k \notin late'
               PROVE  /\ machine[owner'[k]] = "live"
                      /\ \A l \in links' : l.job = k => policy[l.policy] = "live"
    BY <1>4 DEF InUseStays, Undeleted
  <2>2. CASE k = j
    BY <1>1, <1>2, <1>3, <2>1, <2>2
  <2>3. CASE k # j
    BY <1>1, <1>2, <1>3, <1>4, <2>3 DEF EditInv, InUseStays, Undeleted
  <2> QED
    BY <2>2, <2>3
<1> QED
  BY <1>1, <1>2, <1>3, <1>5, <1>6, <1>7, <1>8, <1>9 DEF Saved

LEMMA CreateKeeps ==
  ASSUME EditInv, NEW c \in Clients, NEW j \in Jobs, Create(c, j)
  PROVE  EditInv'
<1>1. /\ form[c].agent \in Agents /\ cleared[c] = {} /\ \A l \in links : l.job # j
      /\ Saved(c, j) /\ job' = [job EXCEPT ![j] = "live"]
      /\ UNCHANGED <<machine, policy, dropping, removing>>
  BY DEF EditInv, EditTypeOK, Create, LinksKnown, ClearedAll
<1>2. /\ links' \subseteq Row /\ owner' \in [Jobs -> Agents \cup {None}] /\ late' \subseteq Jobs
      /\ OwnersKnown' /\ DroppingUnused' /\ RemovingUnused' /\ OnePolicyPerJob' /\ InUseStays'
      /\ \A l \in links' : l.job # j => l \in links
      /\ \A l \in links : l.job # j => l \in links'
      /\ cleared' = [cleared EXCEPT ![c] = {}]
  BY <1>1, SavedKeeps
<1>3. /\ form' \in {form, [form EXCEPT ![c] = NoForm]} /\ form[c].pc = "open"
  BY DEF Create, EditInv, EditTypeOK
<1>4. EditTypeOK'
  <2>1. job' \in [Jobs -> {"absent", "live", "deleted"}]
    BY <1>1 DEF EditInv, EditTypeOK
  <2>2. form' \in [Clients -> [pc: {"closed", "open"} \cup InTx, job: Jobs \cup {None},
                              agent: Agents \cup {None}, policy: Policies \cup {None}]]
    BY <1>3 DEF EditInv, EditTypeOK, NoForm
  <2>3. cleared' \in [Clients -> SUBSET Row]
    BY <1>2 DEF EditInv, EditTypeOK
  <2> QED
    BY <1>1, <1>2, <2>1, <2>2, <2>3 DEF EditInv, EditTypeOK, Row, InTx
<1>5. LinksKnown'
  BY <1>1, <1>2 DEF EditInv, EditTypeOK, LinksKnown, Row
<1>6. FormsKnown'
  BY <1>1, <1>3, EditingAssumption DEF EditInv, EditTypeOK, FormsKnown, NoForm, InTx
<1>7. LockedAlone'
  BY <1>3 DEF EditInv, EditTypeOK, LockedAlone, NoForm, InTx
<1>8. ClearedAll'
  <2>1. \A d \in Clients : form[d].pc = "cleared" =>
          /\ form'[d] = form[d] /\ cleared'[d] = cleared[d]
          /\ form[d].job # j
    BY <1>1, <1>2, <1>3, EditingAssumption DEF EditInv, EditTypeOK, Create, FormsKnown, InTx
  <2>2. \A d \in Clients : form[d].pc # "cleared" => form'[d].pc # "cleared" /\ cleared'[d] = {}
    BY <1>2, <1>3 DEF EditInv, EditTypeOK, ClearedAll, NoForm
  <2> QED
    BY <1>2, <2>1, <2>2 DEF EditInv, ClearedAll
<1> QED
  BY <1>2, <1>4, <1>5, <1>6, <1>7, <1>8 DEF EditInv

(* The steps of a PATCH. *)
LEMMA TxUpdateKeeps ==
  ASSUME EditInv, NEW c \in Clients, TxUpdate(c)
  PROVE  EditInv'
<1>1. /\ form' = [form EXCEPT ![c].pc = "locked"] /\ form[c].pc = "open"
      /\ form[c].job \in Jobs /\ form[c].agent \in Agents
      /\ \A d \in Clients : form[d].pc \in InTx => form[d].job # form[c].job
      /\ UNCHANGED <<machine, policy, job, owner, links, cleared, dropping, removing, late>>
  BY DEF TxUpdate, JobLocked, EditInv, EditTypeOK
<1>2. /\ form'[c].pc = "locked" /\ form'[c].job = form[c].job
      /\ form'[c].agent = form[c].agent /\ form'[c].policy = form[c].policy
      /\ \A d \in Clients \ {c} : form'[d] = form[d]
  BY <1>1 DEF EditInv, EditTypeOK
<1>3. EditTypeOK'
  BY <1>1 DEF EditInv, EditTypeOK, InTx, Row
<1>4. FormsKnown'
  BY <1>1, <1>2 DEF EditInv, FormsKnown
<1>5. LockedAlone'
  BY <1>1, <1>2 DEF EditInv, LockedAlone
<1>6. ClearedAll'
  BY <1>1, <1>2 DEF EditInv, ClearedAll
<1>7. /\ LinksKnown' /\ OwnersKnown' /\ DroppingUnused' /\ RemovingUnused'
      /\ OnePolicyPerJob' /\ InUseStays'
  BY <1>1 DEF EditInv, LinksKnown, OwnersKnown, DroppingUnused, RemovingUnused,
              OnePolicyPerJob, InUseStays, Undeleted
<1> QED
  BY <1>3, <1>4, <1>5, <1>6, <1>7 DEF EditInv

LEMMA TxClearKeeps ==
  ASSUME EditInv, NEW c \in Clients, TxClear(c)
  PROVE  EditInv'
<1>1. /\ form' = [form EXCEPT ![c].pc = "cleared"] /\ form[c].pc = "locked"
      /\ cleared' = [cleared EXCEPT ![c] = {l \in links : l.job = form[c].job}]
      /\ UNCHANGED <<machine, policy, job, owner, links, dropping, removing, late>>
  BY DEF TxClear
<1>2. /\ form'[c].pc = "cleared" /\ form'[c].job = form[c].job
      /\ form'[c].agent = form[c].agent /\ form'[c].policy = form[c].policy
      /\ cleared'[c] = {l \in links : l.job = form[c].job}
      /\ \A d \in Clients \ {c} : form'[d] = form[d] /\ cleared'[d] = cleared[d]
  BY <1>1 DEF EditInv, EditTypeOK
<1>3. EditTypeOK'
  <2>1. form' \in [Clients -> [pc: {"closed", "open"} \cup InTx, job: Jobs \cup {None},
                              agent: Agents \cup {None}, policy: Policies \cup {None}]]
    BY <1>1 DEF EditInv, EditTypeOK, InTx
  <2>2. cleared' \in [Clients -> SUBSET Row]
    BY <1>1 DEF EditInv, EditTypeOK
  <2> QED
    BY <1>1, <2>1, <2>2 DEF EditInv, EditTypeOK, InTx, Row
<1>4. FormsKnown'
  BY <1>1, <1>2 DEF EditInv, FormsKnown, InTx
<1>5. LockedAlone'
  BY <1>1, <1>2 DEF EditInv, LockedAlone, InTx
<1>6. ClearedAll'
  BY <1>1, <1>2 DEF EditInv, ClearedAll
<1>7. /\ LinksKnown' /\ OwnersKnown' /\ DroppingUnused' /\ RemovingUnused'
      /\ OnePolicyPerJob' /\ InUseStays'
  BY <1>1 DEF EditInv, LinksKnown, OwnersKnown, DroppingUnused, RemovingUnused,
              OnePolicyPerJob, InUseStays, Undeleted
<1> QED
  BY <1>3, <1>4, <1>5, <1>6, <1>7 DEF EditInv

LEMMA TxFailKeeps ==
  ASSUME EditInv, NEW c \in Clients, TxFail(c)
  PROVE  EditInv'
<1>1. /\ form' = [form EXCEPT ![c].pc = "open"] /\ form[c].pc \in InTx
      /\ cleared' = [cleared EXCEPT ![c] = {}]
      /\ UNCHANGED <<machine, policy, job, owner, links, dropping, removing, late>>
  BY DEF TxFail
<1>2. /\ form'[c].pc = "open" /\ form'[c].job = form[c].job
      /\ form'[c].agent = form[c].agent /\ form'[c].policy = form[c].policy
      /\ cleared'[c] = {}
      /\ \A d \in Clients \ {c} : form'[d] = form[d] /\ cleared'[d] = cleared[d]
  BY <1>1 DEF EditInv, EditTypeOK
<1>3. EditTypeOK'
  <2> DEFINE Forms == [pc: {"closed", "open"} \cup InTx, job: Jobs \cup {None},
                       agent: Agents \cup {None}, policy: Policies \cup {None}]
  <2>3. form \in [Clients -> Forms]
    BY DEF EditInv, EditTypeOK
  <2>4. [form[c] EXCEPT !.pc = "open"] \in Forms
    BY <2>3
  <2>5. form' = [form EXCEPT ![c] = [form[c] EXCEPT !.pc = "open"]]
    BY <1>1
  <2> HIDE DEF Forms
  <2>1. form' \in [Clients -> Forms]
    BY <2>3, <2>4, <2>5
  <2>2. cleared' \in [Clients -> SUBSET Row]
    BY <1>1 DEF EditInv, EditTypeOK
  <2> QED
    BY <1>1, <2>1, <2>2 DEF Forms, EditInv, EditTypeOK, InTx, Row
<1>4. FormsKnown'
  BY <1>1, <1>2 DEF EditInv, FormsKnown, InTx
<1>5. LockedAlone'
  BY <1>1, <1>2 DEF EditInv, LockedAlone, InTx
<1>6. ClearedAll'
  BY <1>1, <1>2 DEF EditInv, ClearedAll
<1>7. /\ LinksKnown' /\ OwnersKnown' /\ DroppingUnused' /\ RemovingUnused'
      /\ OnePolicyPerJob' /\ InUseStays'
  BY <1>1 DEF EditInv, LinksKnown, OwnersKnown, DroppingUnused, RemovingUnused,
              OnePolicyPerJob, InUseStays, Undeleted
<1> QED
  BY <1>3, <1>4, <1>5, <1>6, <1>7 DEF EditInv

LEMMA TxCommitKeeps ==
  ASSUME EditInv, NEW c \in Clients, TxCommit(c)
  PROVE  EditInv'
<1> DEFINE j == form[c].job
<1>1. /\ form[c].pc = "cleared" /\ j \in Jobs /\ form[c].agent \in Agents /\ job[j] # "absent"
      /\ cleared[c] = {l \in links : l.job = j}
      /\ Saved(c, j) /\ form' = [form EXCEPT ![c] = NoForm]
      /\ UNCHANGED <<machine, policy, job, dropping, removing>>
  BY EditingAssumption
     DEF TxCommit, EditInv, EditTypeOK, FormsKnown, ClearedAll, InTx
<1>2. /\ links' \subseteq Row /\ owner' \in [Jobs -> Agents \cup {None}] /\ late' \subseteq Jobs
      /\ OwnersKnown' /\ DroppingUnused' /\ RemovingUnused' /\ OnePolicyPerJob' /\ InUseStays'
      /\ \A l \in links' : l.job # j => l \in links
      /\ \A l \in links : l.job # j => l \in links'
      /\ cleared' = [cleared EXCEPT ![c] = {}]
  <2> HIDE DEF j
  <2> QED
    BY <1>1, SavedKeeps
<1>3. /\ form'[c] = NoForm /\ NoForm.pc = "closed" /\ NoForm.job = None /\ NoForm.policy = None
      /\ cleared'[c] = {}
      /\ \A d \in Clients \ {c} : form'[d] = form[d] /\ cleared'[d] = cleared[d]
  BY <1>1, <1>2 DEF EditInv, EditTypeOK, NoForm
<1>4. EditTypeOK'
  <2>1. form' \in [Clients -> [pc: {"closed", "open"} \cup InTx, job: Jobs \cup {None},
                              agent: Agents \cup {None}, policy: Policies \cup {None}]]
    BY <1>1 DEF EditInv, EditTypeOK, NoForm
  <2>2. cleared' \in [Clients -> SUBSET Row]
    BY <1>2 DEF EditInv, EditTypeOK
  <2> QED
    BY <1>1, <1>2, <2>1, <2>2 DEF EditInv, EditTypeOK, Row, InTx
<1>5. LinksKnown'
  BY <1>1, <1>2 DEF EditInv, LinksKnown
<1>6. FormsKnown'
  BY <1>1, <1>3 DEF EditInv, FormsKnown, InTx
<1>7. LockedAlone'
  BY <1>1, <1>3 DEF EditInv, LockedAlone, InTx
<1>8. ClearedAll'
  <2>1. \A d \in Clients \ {c} : form[d].pc = "cleared" => form[d].job # j
    BY <1>1 DEF EditInv, LockedAlone, InTx
  <2> QED
    BY <1>1, <1>2, <1>3, <2>1 DEF EditInv, ClearedAll
<1> QED
  BY <1>2, <1>4, <1>5, <1>6, <1>7, <1>8 DEF EditInv

-----------------------------------------------------------------------------
LEMMA DeleteJobKeeps ==
  ASSUME EditInv, NEW j \in Jobs, DeleteJob(j)
  PROVE  EditInv'
<1>1. /\ job' = [job EXCEPT ![j] = "deleted"] /\ job[j] = "live"
      /\ UNCHANGED <<machine, policy, owner, links, form, cleared, dropping, removing, late>>
  BY DEF DeleteJob
<1>2. /\ job'[j] = "deleted" /\ \A k \in Jobs \ {j} : job'[k] = job[k]
      /\ DOMAIN job = Jobs /\ DOMAIN job' = Jobs
  BY <1>1 DEF EditInv, EditTypeOK
<1>3. EditTypeOK'
  BY <1>1 DEF EditInv, EditTypeOK, Row, InTx
<1>4. LinksKnown' /\ OwnersKnown'
  BY <1>1, <1>2 DEF EditInv, EditTypeOK, LinksKnown, OwnersKnown, Row
<1>5. FormsKnown'
  BY <1>1, <1>2 DEF EditInv, EditTypeOK, FormsKnown
<1>6. DroppingUnused' /\ RemovingUnused'
  BY <1>1, <1>2 DEF EditInv, EditTypeOK, DroppingUnused, RemovingUnused, Row
<1>7. InUseStays'
  BY <1>1, <1>2 DEF EditInv, InUseStays, Undeleted
<1>8. LockedAlone' /\ ClearedAll' /\ OnePolicyPerJob'
  BY <1>1 DEF EditInv, LockedAlone, ClearedAll, OnePolicyPerJob
<1> QED
  BY <1>3, <1>4, <1>5, <1>6, <1>7, <1>8 DEF EditInv

LEMMA PolicyKeeps ==
  ASSUME EditInv, NEW p \in Policies, CreatePolicy(p) \/ PolicyCheck(p) \/ PolicyMark(p)
  PROVE  EditInv'
<1>1. UNCHANGED <<machine, job, owner, links, form, cleared, removing, late>>
  BY DEF CreatePolicy, PolicyCheck, PolicyMark
<1>2. /\ \A q \in Policies : policy[q] # "absent" => policy'[q] # "absent"
      /\ \A q \in Policies : policy[q] = "live" =>
           policy'[q] = "live" \/ (q \in dropping /\ policy'[q] = "deleted")
      /\ dropping' \subseteq Policies
      /\ policy' \in [Policies -> {"absent", "live", "deleted"}]
  BY DEF EditInv, EditTypeOK, CreatePolicy, PolicyCheck, PolicyMark
<1>3. EditTypeOK'
  BY <1>1, <1>2 DEF EditInv, EditTypeOK, Row, InTx
<1>4. FormsKnown'
  BY <1>1, <1>2 DEF EditInv, EditTypeOK, FormsKnown
<1>5. DroppingUnused'
  <2>1. \A q \in dropping' : q \in dropping \/ \A l \in links : l.policy = q => job[l.job] # "live"
    BY DEF CreatePolicy, PolicyCheck, PolicyMark
  <2> QED
    BY <1>1, <2>1 DEF EditInv, DroppingUnused
<1>6. InUseStays'
  <2> SUFFICES ASSUME NEW k \in Undeleted(job) \ late
               PROVE  /\ machine[owner[k]] = "live"
                      /\ \A l \in links : l.job = k => policy'[l.policy] = "live"
    BY <1>1 DEF InUseStays, Undeleted
  <2>1. /\ machine[owner[k]] = "live"
        /\ \A l \in links : l.job = k => policy[l.policy] = "live" /\ l.policy \notin dropping
    BY DEF EditInv, InUseStays, DroppingUnused, Undeleted
  <2> QED
    BY <1>2, <2>1 DEF EditInv, EditTypeOK, Row
<1>7. /\ LinksKnown' /\ LockedAlone' /\ ClearedAll' /\ OwnersKnown' /\ RemovingUnused'
      /\ OnePolicyPerJob'
  BY <1>1 DEF EditInv, LinksKnown, LockedAlone, ClearedAll, OwnersKnown, RemovingUnused,
              OnePolicyPerJob
<1> QED
  BY <1>3, <1>4, <1>5, <1>6, <1>7 DEF EditInv

LEMMA AgentKeeps ==
  ASSUME EditInv, NEW a \in Agents, AgentCheck(a) \/ AgentMark(a)
  PROVE  EditInv'
<1>1. UNCHANGED <<policy, job, owner, links, form, cleared, dropping, late>>
  BY DEF AgentCheck, AgentMark
<1>2. /\ \A b \in Agents : machine[b] = "live" => machine'[b] = "live" \/ b \in removing
      /\ removing' \subseteq Agents
      /\ machine' \in [Agents -> {"live", "deleted"}]
  BY DEF EditInv, EditTypeOK, AgentCheck, AgentMark
<1>3. EditTypeOK'
  BY <1>1, <1>2 DEF EditInv, EditTypeOK, Row, InTx
<1>4. RemovingUnused'
  <2>1. \A b \in removing' : b \in removing \/ \A k \in Undeleted(job) : owner[k] # b
    BY DEF AgentCheck, AgentMark
  <2> QED
    BY <1>1, <2>1 DEF EditInv, EditTypeOK, RemovingUnused, Undeleted
<1>5. InUseStays'
  <2> SUFFICES ASSUME NEW k \in Undeleted(job) \ late
               PROVE  /\ machine'[owner[k]] = "live"
                      /\ \A l \in links : l.job = k => policy[l.policy] = "live"
    BY <1>1 DEF InUseStays, Undeleted
  <2>1. /\ machine[owner[k]] = "live" /\ owner[k] \in Agents /\ owner[k] \notin removing
        /\ \A l \in links : l.job = k => policy[l.policy] = "live"
    BY DEF EditInv, EditTypeOK, InUseStays, RemovingUnused, OwnersKnown, Undeleted
  <2> QED
    BY <1>2, <2>1
<1>6. /\ LinksKnown' /\ FormsKnown' /\ LockedAlone' /\ ClearedAll' /\ OwnersKnown'
      /\ DroppingUnused' /\ OnePolicyPerJob'
  BY <1>1 DEF EditInv, LinksKnown, FormsKnown, LockedAlone, ClearedAll, OwnersKnown,
              DroppingUnused, OnePolicyPerJob
<1> QED
  BY <1>3, <1>4, <1>5, <1>6 DEF EditInv

-----------------------------------------------------------------------------
LEMMA EditStepKeeps == EditInv /\ [EditNext]_editVars => EditInv'
<1> SUFFICES ASSUME EditInv, [EditNext]_editVars
             PROVE  EditInv'
  OBVIOUS
<1>1. CASE UNCHANGED editVars
  BY <1>1 DEF EditInv, EditTypeOK, LinksKnown, FormsKnown, LockedAlone, ClearedAll, OwnersKnown,
              DroppingUnused, RemovingUnused, OnePolicyPerJob, InUseStays, Undeleted, Row, InTx,
              editVars
<1>2. ASSUME NEW c \in Clients,
             \/ \E j \in Jobs \cup {None} : OpenDialog(c, j)
             \/ \E a \in Agents : fetchAgents(c, a)
             \/ \E p \in Policies : fetchPolicies(c, p)
             \/ Close(c)
      PROVE  EditInv'
  BY <1>2, DialogKeeps
<1>3. ASSUME NEW c \in Clients, TxUpdate(c) \/ TxClear(c) \/ TxCommit(c) \/ TxFail(c)
      PROVE  EditInv'
  BY <1>3, TxUpdateKeeps, TxClearKeeps, TxCommitKeeps, TxFailKeeps
<1>4. ASSUME NEW c \in Clients, NEW j \in Jobs, Create(c, j)
      PROVE  EditInv'
  BY <1>4, CreateKeeps
<1>5. ASSUME NEW j \in Jobs, DeleteJob(j)
      PROVE  EditInv'
  BY <1>5, DeleteJobKeeps
<1>6. ASSUME NEW p \in Policies, CreatePolicy(p) \/ PolicyCheck(p) \/ PolicyMark(p)
      PROVE  EditInv'
  BY <1>6, PolicyKeeps
<1>7. ASSUME NEW a \in Agents, AgentCheck(a) \/ AgentMark(a)
      PROVE  EditInv'
  BY <1>7, AgentKeeps
<1> QED
  BY <1>1, <1>2, <1>3, <1>4, <1>5, <1>6, <1>7 DEF EditNext

LEMMA EditInvariant == EditSpec => []EditInv
BY EditInitInv, EditStepKeeps, PTL DEF EditSpec

(* The dialogs, routes and transactions keep their types. *)
THEOREM EditTypes == EditSpec => []EditTypeOK
<1>1. EditInv => EditTypeOK
  BY DEF EditInv
<1> QED
  BY <1>1, EditInvariant, PTL

(* PATCH and POST of a job: the lock of the job's row makes the second     *)
(* transaction see, and delete, the link of the first.                     *)
THEOREM JobKeepsOnePolicy == EditSpec => []OnePolicyPerJob
<1>1. EditInv => OnePolicyPerJob
  BY DEF EditInv
<1> QED
  BY <1>1, EditInvariant, PTL

(* DELETE of a policy or an agent: what a live job uses stays, unless the   *)
(* job was saved with it while, or after, the deletion ran.                *)
THEOREM WhatIsUsedStays == EditSpec => []InUseStays
<1>1. EditInv => InUseStays
  BY DEF EditInv
<1> QED
  BY <1>1, EditInvariant, PTL

-----------------------------------------------------------------------------
(* The list of an open page. *)

FetchType == [pc: {"none", "sent", "read", "done"}, got: SUBSET Runs]
Message   == [type: {"agent_statuses"}, body: Agent] \cup [type: {"backup_updated"}, body: Runs]

(* The page is told of an end only when its row is written: a push is sent *)
(* after the write, and the job page counts an end as told by then.        *)
ToldIsWritten ==
  /\ told \subseteq written
  /\ \A m \in 1 .. Len(wire) : wire[m].type = "backup_updated" => wire[m].body \in written

(* Fetches are drawn in order, the first when the page is opened, and the  *)
(* newest is sent no earlier than the page was last told of an end.        *)
NewestHasAll ==
  /\ page = "none" => Drawn = {}
  /\ \A n \in Drawn : 1 .. n \subseteq Drawn
  /\ applied \in Fetches => fetch[applied].pc = "done"
  /\ \A n \in Fetches : Newest(n) =>
       /\ fetch[n].pc = "read" => told \subseteq fetch[n].got
       /\ applied = n => told \subseteq listed

LiveInv ==
  /\ LiveTypeOK
  /\ target.stage = "scheduled" => run < MaxRuns
  /\ ToldIsWritten /\ NewestHasAll

LEMMA LiveInitInv == LiveInit => LiveInv
<1> SUFFICES ASSUME LiveInit
             PROVE  LiveInv
  OBVIOUS
<1>1. fetch \in [Fetches -> FetchType] /\ \A n \in Fetches : fetch[n].pc = "none"
  BY DEF LiveInit, FetchType
<1>2. wire = <<>> /\ wire \in Seq(Message) /\ Len(wire) = 0
  BY DEF LiveInit
<1>3. /\ 0 \in 0 .. MaxRuns /\ 0 \in 0 .. MaxSockets /\ 0 \in 0 .. MaxFetches
      /\ -1 \in -1 .. MaxRuns
  BY LiveAssumption
<1>4. LiveTypeOK
  BY <1>1, <1>2, <1>3
     DEF LiveInit, LiveTypeOK, FetchType, Message, Agent, Stages, Unseen
<1>5. ToldIsWritten
  BY <1>2 DEF LiveInit, ToldIsWritten
<1>6. Drawn = {}
  BY <1>1 DEF Drawn
<1>7. NewestHasAll
  BY <1>6 DEF LiveInit, NewestHasAll, Newest, Fetches
<1> QED
  BY <1>4, <1>5, <1>7 DEF LiveInit, LiveInv

(* What the server, the agent and the network do: the rows that are        *)
(* written stay, and of the page nothing changes.                          *)
WorldStep ==
  \/ pushAgentStatuses \/ Schedule \/ Dispatch \/ Starts \/ Complete \/ Fails \/ Ends
  \/ AgentLost \/ AgentBack \/ \E k \in Runs : WriteFailure(k)
  \/ Reconnects \/ Refuse \/ Drop \/ Rotate

LEMMA PushAppends ==
  ASSUME LiveTypeOK, ToldIsWritten, NEW k \in Runs, written' = written \cup {k},
         PushBackupUpdate(k), told' = told
  PROVE  wire' \in Seq(Message) /\ ToldIsWritten'
<1>1. wire \in Seq(Message)
  BY DEF LiveTypeOK, Message
<1> DEFINE m == [type |-> "backup_updated", body |-> k]
<1>2. m \in Message
  BY DEF Message
<1>3. CASE wire' = wire
  BY <1>1, <1>3 DEF ToldIsWritten
<1>4. CASE wire' = Append(wire, m)
  <2>1. /\ wire' \in Seq(Message) /\ Len(wire') = Len(wire) + 1 /\ wire'[Len(wire) + 1] = m
        /\ \A i \in 1 .. Len(wire) : wire'[i] = wire[i]
        /\ Len(wire) \in Nat
    BY <1>1, <1>2, <1>4
  <2> QED
    BY <2>1 DEF ToldIsWritten
<1> QED
  BY <1>3, <1>4 DEF PushBackupUpdate

LEMMA WorldStepInv ==
  ASSUME LiveInv, WorldStep
  PROVE  LiveInv'
<1>1. UNCHANGED pageVars
  BY DEF WorldStep, pushAgentStatuses, Schedule, Dispatch, Starts, Complete, Fails, Ends,
         AgentLost, AgentBack, WriteFailure, Reconnects, Connect, Opens, Admit, Refuse, Drop, Rotate
<1>2. NewestHasAll'
  BY <1>1 DEF LiveInv, NewestHasAll, Newest, Drawn, pageVars
<1>3. /\ run \in 0 .. MaxRuns /\ target \in Agent /\ target.job \in 0 .. MaxRuns
      /\ target.stage \in Stages /\ target.conn \in BOOLEAN
      /\ written \subseteq Runs /\ failing \subseteq Runs /\ wire \in Seq(Message)
      /\ MaxRuns \in Nat /\ 0 \in 0 .. MaxRuns
  BY LiveAssumption DEF LiveInv, LiveTypeOK, Agent, Message
<1>4. /\ run' \in 0 .. MaxRuns /\ target' \in Agent
      /\ target'.stage = "scheduled" => run' < MaxRuns
      /\ written' \subseteq Runs /\ failing' \subseteq Runs /\ token' \in {"good", "rotated"}
  <2>1. CASE UNCHANGED <<run, target, written, failing>> /\ token' \in {token, "rotated"}
    BY <1>3, <2>1 DEF LiveInv, LiveTypeOK
  <2>2. CASE Schedule \/ Dispatch \/ Starts \/ Ends \/ AgentLost
    <3>1. UNCHANGED <<written, failing, token>>
      BY <2>2 DEF Schedule, Dispatch, Starts, Ends, AgentLost
    <3>2. \A st \in Stages : \A k \in 0 .. MaxRuns :
            /\ [target EXCEPT !.stage = st] \in Agent
            /\ [target EXCEPT !.stage = st].stage = st
            /\ [target EXCEPT !.stage = st, !.job = k] \in Agent
            /\ [target EXCEPT !.stage = st, !.job = k].stage = st
      BY <1>3 DEF Agent
    <3>3. /\ run' \in 0 .. MaxRuns /\ target' \in Agent
          /\ target'.stage = "scheduled" => run' < MaxRuns
      <4>1. CASE Schedule
        BY <1>3, <3>2, <4>1 DEF Schedule, Stages
      <4>2. CASE Dispatch
        <5>1. CASE target.conn
          <6>1. /\ run' = run + 1 /\ target' = [target EXCEPT !.stage = "waiting"]
                /\ run < MaxRuns
            BY <4>2, <5>1 DEF LiveInv, Dispatch
          <6>2. "waiting" \in Stages
            BY DEF Stages
          <6>3. target' \in Agent /\ target'.stage = "waiting"
            BY <1>3, <3>2, <6>1, <6>2
          <6>4. run' \in 0 .. MaxRuns
            BY <1>3, <6>1
          <6> QED
            BY <6>3, <6>4
        <5>2. CASE ~target.conn
          <6>1. run' = run /\ target' = [target EXCEPT !.stage = "idle"]
            BY <4>2, <5>2 DEF Dispatch
          <6> QED
            BY <1>3, <3>2, <6>1 DEF Stages
        <5> QED
          BY <5>1, <5>2
      <4>3. CASE Starts
        BY <1>3, <3>2, <4>3 DEF Starts, Stages
      <4>4. CASE Ends
        BY <1>3, <3>2, <4>4 DEF Ends, Stages
      <4>5. CASE AgentLost
        BY <1>3, <4>5 DEF AgentLost, Agent, Stages
      <4> QED
        BY <2>2, <4>1, <4>2, <4>3, <4>4, <4>5
    <3> QED
      BY <1>3, <3>1, <3>3 DEF LiveInv, LiveTypeOK
  <2>3. CASE Complete \/ Fails \/ \E k \in Runs : WriteFailure(k)
    <3>1. /\ UNCHANGED <<run, target, token>>
          /\ written' \subseteq Runs /\ failing' \subseteq Runs
      <4>1. CASE Complete \/ Fails
        <5>1. target.job # 0 /\ target.job \in Runs
          BY <1>3, <4>1 DEF Complete, Fails, Runs
        <5> QED
          BY <1>3, <4>1, <5>1 DEF Complete, Fails
      <4>2. CASE \E k \in Runs : WriteFailure(k)
        BY <1>3, <4>2 DEF WriteFailure
      <4> QED
        BY <2>3, <4>1, <4>2
    <3> QED
      BY <1>3, <3>1 DEF LiveInv, LiveTypeOK
  <2>4. CASE AgentBack
    <3>1. /\ UNCHANGED <<run, failing, token>> /\ target' \in Agent /\ target'.stage = target.stage
      BY <1>3, <2>4 DEF AgentBack, Agent
    <3>2. written' \subseteq Runs
      BY <1>3, <2>4 DEF AgentBack, Runs
    <3> QED
      BY <1>3, <3>1, <3>2 DEF LiveInv, LiveTypeOK
  <2> QED
    BY <2>1, <2>2, <2>3, <2>4
       DEF WorldStep, pushAgentStatuses, worldVars, Reconnects, Connect, Opens, Admit, Refuse,
           Drop, Rotate
<1>5. /\ socket' \in 0 .. MaxSockets /\ client' \in {"none", "waiting", "connecting", "open"}
      /\ server' \in [1 .. MaxSockets -> {"none", "looking", "up", "closed", "leaked"}]
  <2>1. CASE UNCHANGED linkVars
    BY <2>1 DEF LiveInv, LiveTypeOK, linkVars
  <2>2. CASE Connect
    BY <2>2, LiveAssumption DEF LiveInv, LiveTypeOK, Connect
  <2>3. CASE Opens \/ Admit \/ Refuse \/ Drop
    BY <2>3 DEF LiveInv, LiveTypeOK, Opens, Admit, Refuse, Drop
  <2> QED
    BY <2>1, <2>2, <2>3
       DEF WorldStep, pushAgentStatuses, Schedule, Dispatch, Starts, Complete, Fails, Ends,
           AgentLost, AgentBack, WriteFailure, Reconnects, Rotate
<1>6. wire' \in Seq(Message) /\ ToldIsWritten'
  <2>1. CASE Complete \/ \E k \in Runs : WriteFailure(k)
    <3>1. PICK k \in Runs : written' = written \cup {k} /\ PushBackupUpdate(k)
      BY <1>3, <2>1 DEF Complete, WriteFailure, Runs
    <3> QED
      BY <1>1, <3>1, PushAppends DEF LiveInv, pageVars
  <2>2. CASE pushAgentStatuses
    <3> DEFINE m == [type |-> "agent_statuses", body |-> target]
    <3>1. m \in Message /\ wire' = Append(wire, m) /\ written' = written
      BY <1>3, <2>2 DEF pushAgentStatuses, worldVars, Message
    <3>2. /\ wire' \in Seq(Message) /\ Len(wire') = Len(wire) + 1 /\ wire'[Len(wire) + 1] = m
          /\ \A i \in 1 .. Len(wire) : wire'[i] = wire[i]
          /\ Len(wire) \in Nat
      BY <1>3, <3>1
    <3> QED
      BY <1>1, <3>1, <3>2 DEF LiveInv, ToldIsWritten, pageVars
  <2>3. CASE wire' = <<>> /\ written' = written
    BY <1>1, <2>3 DEF LiveInv, ToldIsWritten, pageVars
  <2>4. CASE wire' = wire /\ written \subseteq written'
    BY <1>1, <1>3, <2>4 DEF LiveInv, ToldIsWritten, pageVars
  <2> QED
    BY <2>1, <2>2, <2>3, <2>4
       DEF WorldStep, Schedule, Dispatch, Starts, Fails, Ends, AgentLost, AgentBack,
           Reconnects, Connect, Opens, Admit, Refuse, Drop, Rotate, worldVars
<1>7. LiveTypeOK'
  BY <1>1, <1>4, <1>5, <1>6 DEF LiveInv, LiveTypeOK, Message, pageVars
<1> QED
  BY <1>2, <1>4, <1>6, <1>7 DEF LiveInv

(* A fetch that is sent is the newest, whatever the page is told with it. *)
LEMMA SentIsNewest ==
  ASSUME LiveTypeOK, NewestHasAll, NEW n \in Fetches, fetch[n].pc = "none",
         \A m \in 1 .. (n - 1) : m \in Drawn,
         fetch' = [fetch EXCEPT ![n].pc = "sent"], applied' = applied, page' # "none"
  PROVE  fetch' \in [Fetches -> FetchType] /\ NewestHasAll'
<1>1. fetch \in [Fetches -> FetchType] /\ Fetches \subseteq Nat /\ Drawn \subseteq Fetches
  BY LiveAssumption DEF LiveTypeOK, FetchType, Fetches, Drawn
<1>2. /\ fetch' \in [Fetches -> FetchType] /\ fetch'[n].pc = "sent"
      /\ \A m \in Fetches : m # n => fetch'[m] = fetch[m]
  BY <1>1 DEF FetchType
<1>3. Drawn' = Drawn \cup {n} /\ n \notin Drawn
  BY <1>1, <1>2 DEF Drawn
<1>4. \A m \in Drawn : m < n
  <2> SUFFICES ASSUME NEW m \in Drawn, ~(m < n)
               PROVE  FALSE
    OBVIOUS
  <2>1. n \in 1 .. m
    BY <1>1 DEF Fetches
  <2> QED
    BY <1>3, <2>1 DEF NewestHasAll
<1>5. \A m \in Fetches : Newest(m)' => m = n
  BY <1>1, <1>3, <1>4 DEF Newest
<1>6. \A m \in Drawn' : 1 .. m \subseteq Drawn'
  <2>1. 1 .. n \subseteq Drawn \cup {n}
    BY <1>1
  <2> QED
    BY <1>3, <2>1 DEF NewestHasAll
<1>7. applied' \in Fetches => applied' # n /\ fetch'[applied'].pc = "done"
  BY <1>1, <1>2 DEF NewestHasAll
<1> QED
  BY <1>2, <1>5, <1>6, <1>7 DEF NewestHasAll

LEMMA FetchIsNewest ==
  ASSUME LiveTypeOK, NewestHasAll, fetchData, applied' = applied, page' # "none"
  PROVE  fetch' \in [Fetches -> FetchType] /\ NewestHasAll'
  BY SentIsNewest DEF fetchData

(* What the page reads off its socket. *)
LEMMA HeadIsMessage ==
  ASSUME LiveInv, wire # <<>>, wire' = Tail(wire), written' = written
  PROVE  /\ Head(wire) \in Message /\ wire' \in Seq(Message)
         /\ Head(wire).type = "backup_updated" => Head(wire).body \in written
         /\ \A m \in 1 .. Len(wire') : wire'[m].type = "backup_updated" => wire'[m].body \in written'
<1>1. wire \in Seq(Message)
  BY DEF LiveInv, LiveTypeOK, Message
<1>2. Len(wire) \in Nat /\ Len(wire) > 0 /\ Head(wire) = wire[1] /\ Head(wire) \in Message
  BY <1>1
<1>3. /\ wire' \in Seq(Message) /\ Len(wire') = Len(wire) - 1
      /\ \A m \in 1 .. Len(wire') : wire'[m] = wire[m + 1]
  BY <1>1
<1> QED
  BY <1>2, <1>3 DEF LiveInv, ToldIsWritten

LEMMA ReceivesStep ==
  ASSUME LiveInv, Receives
  PROVE  LiveInv'
<1>1. /\ UNCHANGED <<worldVars, linkVars, page, applied, listed>>
      /\ wire # <<>> /\ wire' = Tail(wire)
  BY DEF Receives, ReceiveStatus, ReceiveUpdate
<1>2. /\ wire' \in Seq(Message) /\ Head(wire) \in Message
      /\ Head(wire).type = "backup_updated" => Head(wire).body \in written
      /\ \A m \in 1 .. Len(wire') : wire'[m].type = "backup_updated" => wire'[m].body \in written'
  BY <1>1, HeadIsMessage DEF worldVars
<1>3. /\ fetch' \in [Fetches -> FetchType] /\ NewestHasAll'
      /\ told' \subseteq written /\ told' \subseteq Runs
  <2>1. CASE UNCHANGED <<fetch, told>>
    BY <1>1, <2>1 DEF LiveInv, LiveTypeOK, FetchType, NewestHasAll, Newest, Drawn, ToldIsWritten
  <2>2. CASE page # "none" /\ fetchData
             /\ \/ told' = told \cup ({prev} \cap written)
                \/ told' = told \cup {Head(wire).body} /\ Head(wire).type = "backup_updated"
    <3>1. told' \subseteq written /\ written \subseteq Runs
      BY <1>2, <2>2 DEF LiveInv, LiveTypeOK, ToldIsWritten
    <3> QED
      BY <1>1, <2>2, <3>1, FetchIsNewest DEF LiveInv
  <2> QED
    BY <2>1, <2>2 DEF Receives, ReceiveStatus, ReceiveUpdate
<1>4. shown' \in Agent \cup {Unseen} /\ old' \in BOOLEAN /\ prev' \in -1 .. MaxRuns
  <2>1. CASE ReceiveUpdate
    BY <2>1 DEF ReceiveUpdate, LiveInv, LiveTypeOK
  <2>2. CASE ReceiveStatus
    <3>1. Head(wire).type = "agent_statuses" /\ Head(wire).body \in Agent
      BY <1>2, <2>2 DEF ReceiveStatus, Message
    <3>2. Head(wire).body.job \in -1 .. MaxRuns
      BY <3>1, LiveAssumption DEF Agent
    <3> QED
      BY <2>2, <3>1, <3>2 DEF ReceiveStatus
  <2> QED
    BY <2>1, <2>2 DEF Receives
<1>5. LiveTypeOK'
  BY <1>1, <1>2, <1>3, <1>4
     DEF LiveInv, LiveTypeOK, worldVars, linkVars, FetchType, Message
<1>6. ToldIsWritten'
  BY <1>1, <1>2, <1>3 DEF ToldIsWritten, worldVars
<1> QED
  BY <1>1, <1>3, <1>5, <1>6 DEF LiveInv, worldVars

LEMMA OpensAndAsks ==
  ASSUME LiveInv, triggerBackup \/ (\E p \in {"jobs", "board"} : Mount(p)) \/ Ages
  PROVE  LiveInv'
<1>1. /\ UNCHANGED <<worldVars, socket, server, wire, shown, prev, applied, listed, told>>
      /\ page' \in {"none", "jobs", "board"} /\ client' \in {client, "waiting"}
      /\ old' \in {old, TRUE}
  BY DEF LiveInv, LiveTypeOK, triggerBackup, Mount, Ages, linkVars
<1>2. fetch' \in [Fetches -> FetchType] /\ NewestHasAll'
  <2>1. CASE UNCHANGED <<fetch, page>>
    BY <1>1, <2>1 DEF LiveInv, LiveTypeOK, FetchType, NewestHasAll, Newest, Drawn
  <2>2. CASE fetchData /\ page' # "none"
    BY <1>1, <2>2, FetchIsNewest DEF LiveInv
  <2>3. CASE \E p \in {"jobs", "board"} : Mount(p)
    <3>1. /\ Drawn = {} /\ page' # "none"
          /\ fetch' = [fetch EXCEPT ![1].pc = "sent"]
      BY <2>3 DEF LiveInv, NewestHasAll, Mount
    <3>2. fetch \in [Fetches -> FetchType] /\ \A n \in Fetches : fetch[n].pc = "none"
      BY <3>1 DEF LiveInv, LiveTypeOK, FetchType, Drawn
    <3>3. CASE 1 \in Fetches
      <4>1. \A m \in 1 .. (1 - 1) : m \in Drawn
        OBVIOUS
      <4> QED
        BY <1>1, <3>1, <3>2, <3>3, <4>1, SentIsNewest DEF LiveInv
    <3>4. CASE 1 \notin Fetches
      <4>1. fetch' = fetch
        BY <3>1, <3>2, <3>4
      <4> QED
        BY <1>1, <3>1, <3>2, <4>1 DEF LiveInv, NewestHasAll, Newest, Drawn
    <3> QED
      BY <3>3, <3>4
  <2> QED
    BY <2>1, <2>2, <2>3 DEF triggerBackup, Ages
<1>3. LiveTypeOK'
  BY <1>1, <1>2 DEF LiveInv, LiveTypeOK, worldVars, FetchType
<1>4. ToldIsWritten'
  BY <1>1 DEF LiveInv, ToldIsWritten, worldVars
<1> QED
  BY <1>1, <1>2, <1>3, <1>4 DEF LiveInv, worldVars

(* A fetch reads all that is written, and so all that the page was told    *)
(* of; when it is applied, the list has what it read.                      *)
LEMMA AnsweredStep ==
  ASSUME LiveInv, Answered
  PROVE  LiveInv'
<1> PICK n \in Fetches : Reads(n) \/ Applies(n)
  BY DEF Answered
<1>1. /\ UNCHANGED <<worldVars, linkVars, wire, page, shown, old, prev, told>>
      /\ written \subseteq Runs /\ told \subseteq written
      /\ fetch \in [Fetches -> FetchType]
  BY DEF LiveInv, LiveTypeOK, ToldIsWritten, FetchType, Reads, Applies
<1>2. /\ fetch' \in [Fetches -> FetchType] /\ listed' \subseteq Runs /\ applied' \in 0 .. MaxFetches
      /\ Drawn' = Drawn /\ NewestHasAll'
  <2>1. CASE Reads(n)
    <3>1. /\ fetch[n].pc = "sent" /\ fetch' = [fetch EXCEPT ![n] = [pc |-> "read", got |-> written]]
          /\ UNCHANGED <<applied, listed>>
      BY <2>1 DEF Reads
    <3>2. /\ fetch' \in [Fetches -> FetchType] /\ fetch'[n].pc = "read" /\ fetch'[n].got = written
          /\ \A m \in Fetches : m # n => fetch'[m] = fetch[m]
      BY <1>1, <3>1 DEF FetchType
    <3>3. Drawn' = Drawn
      BY <3>1, <3>2 DEF Drawn
    <3> QED
      BY <1>1, <3>1, <3>2, <3>3 DEF LiveInv, LiveTypeOK, NewestHasAll, Newest
  <2>2. CASE Applies(n)
    <3>1. /\ fetch[n].pc = "read" /\ fetch' = [fetch EXCEPT ![n] = [pc |-> "done", got |-> {}]]
          /\ \/ listed' = fetch[n].got /\ applied' = n
             \/ UNCHANGED <<listed, applied>>
      BY <2>2 DEF Applies
    <3>2. /\ fetch' \in [Fetches -> FetchType] /\ fetch'[n].pc = "done"
          /\ \A m \in Fetches : m # n => fetch'[m] = fetch[m]
      BY <1>1, <3>1 DEF FetchType
    <3>3. Drawn' = Drawn
      BY <3>1, <3>2 DEF Drawn
    <3>4. listed' \subseteq Runs /\ applied' \in 0 .. MaxFetches
      BY <1>1, <3>1, LiveAssumption DEF LiveInv, LiveTypeOK, FetchType, Fetches
    <3>5. NewestHasAll'
      BY <1>1, <3>1, <3>2, <3>3 DEF LiveInv, NewestHasAll, Newest
    <3> QED
      BY <3>2, <3>3, <3>4, <3>5
  <2> QED
    BY <2>1, <2>2
<1>3. LiveTypeOK'
  BY <1>1, <1>2 DEF LiveInv, LiveTypeOK, worldVars, linkVars, FetchType
<1>4. ToldIsWritten'
  BY <1>1 DEF LiveInv, ToldIsWritten, worldVars
<1> QED
  BY <1>1, <1>2, <1>3, <1>4 DEF LiveInv, worldVars

LEMMA LiveNextInv == LiveInv /\ [LiveNext]_liveVars => LiveInv'
<1> SUFFICES ASSUME LiveInv, [LiveNext]_liveVars
             PROVE  LiveInv'
  OBVIOUS
<1>1. CASE UNCHANGED liveVars
  BY <1>1 DEF LiveInv, LiveTypeOK, ToldIsWritten, NewestHasAll, Newest, Drawn, liveVars
<1>2. CASE LiveNext
  BY <1>2, WorldStepInv, ReceivesStep, OpensAndAsks, AnsweredStep DEF LiveNext, WorldStep
<1> QED
  BY <1>1, <1>2

(* The types of the page's variables, its sockets' and its fetches'. *)
THEOREM LiveTypes == LiveSpec => []LiveTypeOK
<1>1. LiveInv => LiveTypeOK
  BY DEF LiveInv
<1> QED
  BY <1>1, LiveInitInv, LiveNextInv, PTL DEF LiveSpec

(* A list whose newest fetch is applied has every end that the page was    *)
(* told of, however often the socket drops and in whatever order the       *)
(* answers of the fetches are applied.                                     *)
THEOREM ToldEndsAreListed == LiveSpec => []ToldIsListed
<1>1. LiveInv => ToldIsListed
  BY LiveAssumption DEF LiveInv, LiveTypeOK, NewestHasAll, ToldIsListed, Newest, Drawn
<1> QED
  BY <1>1, LiveInitInv, LiveNextInv, PTL DEF LiveSpec

-----------------------------------------------------------------------------
(* The list pages. *)

LoadType   == [pc: {"none", "sent", "read", "failed", "done"}, query: Queries, got: Listed,
               again: BOOLEAN]
OriginType == [by: 0 .. MaxLoads, query: Queries, again: BOOLEAN]
DialogType == [does: Changed \cup {"none", "error"}, row: Ids]
ChangeType == [pc: {"none", "sent", "made", "refused"}, does: Changed, row: Ids,
               visit: 0 .. MaxVisits, query: Queries]

(* Fetches are made one after the other, those whose rows are shown are    *)
(* over, and what was read is an answer that makes sense.                  *)
SentInOrder == \A n \in Sent : 1 .. n \subseteq Sent
ShownIsOver == origin.by \in Loads => load[origin.by].pc = "done"

(* What the page was told is so: the rows it was told of were created, and *)
(* nothing that is deleted comes back but the row of a creation that is    *)
(* still being asked for.                                                  *)
MadeIs(does, r) ==
  CASE does = "delete" -> rows[r] = "deleted"
    [] does = "edit"   -> rows[r] \in {"new", "deleted"}
    [] does = "create" -> rows[r] # "unborn"

ToldTheTruth ==
  /\ \A does \in Changed : \A r \in confirmed[does] : MadeIs(does, r)
  /\ change.pc = "made" => MadeIs(change.does, change.row)
  /\ change.does = "create" => \A does \in Changed : change.row \notin confirmed[does]

(* An answer to the word w that has what the page was told. *)
AsTold(w, got) ==
  /\ w # Garbled /\ DOMAIN got \subseteq Matching[w]
  /\ DOMAIN got \cap confirmed["delete"] = {}
  /\ \A r \in confirmed["edit"] \cap DOMAIN got : got[r] = "new"
  /\ \A r \in confirmed["create"] \cap Matching[w] : r \in DOMAIN got \/ ~Alive(r)

NewestIsGood ==
  open => \A n \in Loads : NewestLoad(n) =>
    /\ load[n].pc \notin {"none", "done"} => load[n].query = query \/ load[n].again
    /\ load[n].pc = "read" => AsTold(load[n].query.word, load[n].got)
    /\ origin.by = n =>
         (origin.query = query \/ origin.again) /\ AsTold(origin.query.word, list)

SpinnerIsReal == loading => open /\ Loading # {}

ListInv == ListTypeOK /\ SentInOrder /\ ShownIsOver /\ ToldTheTruth /\ NewestIsGood /\ SpinnerIsReal

(* The values that a page, a fetch, a dialog, ... starts from. *)
LEMMA RestTypes ==
  /\ NoQuery \in Queries /\ <<>> \in Listed /\ NoFetch \in LoadType /\ Over \in LoadType
  /\ NoFetch.pc = "none" /\ Over.pc = "done"
  /\ ShownNothing \in OriginType /\ ShownNothing.by = 0
  /\ NoDialog \in DialogType /\ NoDialog.row \in Ids /\ NoDialog.does = "none"
  /\ NoChange \in ChangeType /\ NoChange.does = "delete" /\ NoChange.pc = "none"
  /\ ToldNothing \in [Changed -> SUBSET Ids] /\ \A c \in Changed : ToldNothing[c] = {}
<1>1. NoQuery \in Queries
  BY DEF NoQuery, Queries, Typed, Orders
<1>2. <<>> \in Listed
  <2>1. {} \in SUBSET Ids /\ <<>> \in [{} -> {"old", "new"}]
    OBVIOUS
  <2>2. QED
    BY <2>1 DEF Listed
<1>3. NoFetch \in LoadType /\ NoFetch.pc = "none"
  BY <1>1, <1>2 DEF NoFetch, LoadType
<1>4. Over \in LoadType /\ Over.pc = "done"
  BY <1>3 DEF Over, LoadType
<1>5. ShownNothing \in OriginType /\ ShownNothing.by = 0
  BY <1>1, ListAssumption DEF ShownNothing, OriginType
<1>6. PICK r \in Ids : r = CHOOSE x \in Ids : TRUE
  BY ListAssumption
<1>7. NoDialog \in DialogType /\ NoDialog.row \in Ids /\ NoDialog.does = "none"
  BY <1>6 DEF NoDialog, DialogType
<1>8. NoChange \in ChangeType /\ NoChange.does = "delete" /\ NoChange.pc = "none"
  BY <1>1, <1>7, ListAssumption DEF NoChange, ChangeType, Changed
<1>9. ToldNothing \in [Changed -> SUBSET Ids] /\ \A c \in Changed : ToldNothing[c] = {}
  BY DEF ToldNothing
<1>10. QED
  BY <1>1, <1>2, <1>3, <1>4, <1>5, <1>7, <1>8, <1>9

(* A fetch that is made is the newest from then on. *)
Begins(n, q, again) ==
  /\ load[n].pc = "none"
  /\ load'[n].pc = "sent" /\ load'[n].query = q /\ load'[n].again = again
  /\ \A m \in Loads : m # n => load'[m] = load[m]
  /\ \A m \in Loads : NewestLoad(m)' => m = n

LEMMA LoadIsNewest ==
  ASSUME ListTypeOK, SentInOrder, NEW q \in Queries, NEW again \in BOOLEAN, fetchList(q, again)
  PROVE  /\ loading' = TRUE /\ load' \in [Loads -> LoadType] /\ SentInOrder' /\ Loading' # {}
         /\ \E n \in Loads : Begins(n, q, again)
<1>1. load \in [Loads -> LoadType] /\ Loads \subseteq Nat
  BY ListAssumption DEF ListTypeOK, LoadType, Loads
<1> DEFINE f == [pc |-> "sent", query |-> q, got |-> <<>>, again |-> again]
<1>2. PICK n \in Loads : /\ n \notin Sent /\ 1 .. (n - 1) \subseteq Sent
                         /\ load' = [load EXCEPT ![n] = f]
  BY DEF fetchList
<1>3. f \in LoadType /\ f.pc = "sent" /\ f.query = q /\ f.again = again
  BY RestTypes DEF LoadType
<1> HIDE DEF f
<1>4. load[n].pc = "none"
  BY <1>1, <1>2 DEF Sent
<1>5. /\ load' \in [Loads -> LoadType] /\ load'[n] = f
      /\ \A m \in Loads : m # n => load'[m] = load[m]
  BY <1>1, <1>2, <1>3
<1>6. Sent' = Sent \cup {n}
  BY <1>3, <1>5 DEF Sent
<1>7. \A m \in Sent : m < n
  <2> SUFFICES ASSUME NEW m \in Sent, ~(m < n) PROVE FALSE
    OBVIOUS
  <2>1. m \in Nat /\ n \in 1 .. m
    BY <1>1 DEF Sent, Loads
  <2>2. QED
    BY <1>2, <2>1 DEF SentInOrder
<1>8. SentInOrder'
  <2>1. 1 .. n \subseteq Sent \cup {n}
    BY <1>1, <1>2
  <2>2. QED
    BY <1>6, <2>1 DEF SentInOrder
<1>9. \A m \in Loads : NewestLoad(m)' => m = n
  <2> SUFFICES ASSUME NEW m \in Loads, NewestLoad(m)' PROVE m = n
    OBVIOUS
  <2>1. m \in Sent \cup {n} /\ n <= m
    BY <1>6 DEF NewestLoad
  <2>2. QED
    BY <1>1, <1>7, <2>1
<1>10. Loading' # {}
  BY <1>3, <1>5, <1>6 DEF Loading
<1>11. Begins(n, q, again)
  BY <1>3, <1>4, <1>5, <1>9 DEF Begins
<1>12. QED
  BY <1>5, <1>8, <1>10, <1>11 DEF fetchList

(* What a step has to show of the fetches when it makes one: nothing. *)
LEMMA AskKeeps ==
  ASSUME ListInv, NEW q \in Queries, NEW again \in BOOLEAN, fetchList(q, again),
         open', q = query' \/ again, UNCHANGED <<list, origin>>, ListTypeOK', ToldTheTruth'
  PROVE  ListInv'
<1>1. PICK n \in Loads : Begins(n, q, again)
  BY LoadIsNewest DEF ListInv
<1>2. SentInOrder' /\ SpinnerIsReal'
  BY LoadIsNewest DEF ListInv, SpinnerIsReal
<1>3. ShownIsOver' /\ origin'.by # n
  BY <1>1 DEF ListInv, ShownIsOver, Begins
<1>4. NewestIsGood'
  BY <1>1, <1>3 DEF NewestIsGood, Begins
<1>5. QED
  BY <1>2, <1>3, <1>4 DEF ListInv

(* ... and when it makes none, that no row comes back. *)
LEMMA RestKeeps ==
  ASSUME ListInv, UNCHANGED <<query, open, loading, load, list, origin, confirmed>>,
         \A r \in confirmed["create"] : ~Alive(r) => ~Alive(r)',
         ListTypeOK', ToldTheTruth'
  PROVE  ListInv'
<1>1. Sent' = Sent /\ Loading' = Loading
  BY DEF Sent, Loading
<1>2. SentInOrder' /\ SpinnerIsReal' /\ ShownIsOver'
  BY <1>1 DEF ListInv, SentInOrder, SpinnerIsReal, ShownIsOver
<1>3. ASSUME NEW w, NEW got, AsTold(w, got) PROVE AsTold(w, got)'
  BY <1>3 DEF AsTold
<1>4. NewestIsGood'
  <2>1. SUFFICES ASSUME open', NEW n \in Loads, NewestLoad(n)'
                 PROVE  /\ load[n].pc \notin {"none", "done"} => load[n].query = query \/ load[n].again
                        /\ load[n].pc = "read" => AsTold(load[n].query.word, load[n].got)'
                        /\ origin.by = n => /\ origin.query = query \/ origin.again
                                            /\ AsTold(origin.query.word, list)'
    BY DEF NewestIsGood
  <2>2. open /\ NewestLoad(n)
    BY <1>1, <2>1 DEF NewestLoad
  <2>3. QED
    BY <1>3, <2>2 DEF ListInv, NewestIsGood
<1>5. QED
  BY <1>2, <1>4 DEF ListInv

LEMMA ListInitInv == ListInit => ListInv
<1> SUFFICES ASSUME ListInit PROVE ListInv
  OBVIOUS
<1>1. ListTypeOK
  <2>1. rows \in [Ids -> {"unborn", "old", "new", "deleted"}]
    BY DEF ListInit
  <2>2. load \in [Loads -> LoadType]
    BY RestTypes DEF ListInit
  <2>3. field \in Typed /\ visit \in 0 .. MaxVisits
    BY ListAssumption DEF ListInit, Typed
  <2>4. open \in BOOLEAN /\ loading \in BOOLEAN
    BY DEF ListInit
  <2>5. QED
    BY <2>1, <2>2, <2>3, <2>4, RestTypes
    DEF ListInit, ListTypeOK, LoadType, OriginType, DialogType, ChangeType
<1>2. Sent = {}
  BY RestTypes DEF ListInit, Sent
<1>3. SentInOrder /\ SpinnerIsReal
  BY <1>2 DEF ListInit, SentInOrder, SpinnerIsReal
<1>4. ShownIsOver
  BY RestTypes, ListAssumption DEF ListInit, ShownIsOver, Loads
<1>5. ToldTheTruth
  BY RestTypes DEF ListInit, ToldTheTruth
<1>6. NewestIsGood
  BY DEF ListInit, NewestIsGood
<1>7. QED
  BY <1>1, <1>3, <1>4, <1>5, <1>6 DEF ListInv

LEMMA AnswersKeeps == ASSUME ListInv, NEW n \in Loads, Answers(n) PROVE ListInv'
<1>1. load \in [Loads -> LoadType] /\ rows \in [Ids -> {"unborn", "old", "new", "deleted"}]
  BY DEF ListInv, ListTypeOK, LoadType
<1> DEFINE q == load[n].query
           got == [r \in {x \in Matching[q.word] : Alive(x)} |-> rows[r]]
           f == IF q.word = Garbled THEN [load[n] EXCEPT !.pc = "failed"]
                                    ELSE [load[n] EXCEPT !.pc = "read", !.got = got]
<1>2. /\ load[n].pc = "sent" /\ load' = [load EXCEPT ![n] = f]
      /\ UNCHANGED <<rows, query, field, visit, open, loading, list, origin, dialog, change,
                     confirmed>>
  BY DEF Answers
<1>3. q.word # Garbled => Matching[q.word] \in SUBSET Ids
  <2>1. q \in Queries
    BY <1>1 DEF LoadType
  <2>2. QED
    BY <2>1, ListAssumption DEF Queries, Typed
<1>4. q.word # Garbled => got \in Listed
  <2>1. ASSUME q.word # Garbled
        PROVE  /\ {x \in Matching[q.word] : Alive(x)} \in SUBSET Ids
               /\ got \in [{x \in Matching[q.word] : Alive(x)} -> {"old", "new"}]
    BY <1>1, <1>3, <2>1 DEF Alive
  <2>2. QED
    BY <2>1 DEF Listed
<1>5. q.word # Garbled => AsTold(q.word, got)
  <2> SUFFICES ASSUME q.word # Garbled PROVE AsTold(q.word, got)
    OBVIOUS
  <2>1. DOMAIN got = {x \in Matching[q.word] : Alive(x)} /\ \A r \in DOMAIN got : got[r] = rows[r]
    OBVIOUS
  <2> HIDE DEF got
  <2>2. /\ \A r \in confirmed["delete"] : rows[r] = "deleted"
        /\ \A r \in confirmed["edit"] : rows[r] \in {"new", "deleted"}
    BY DEF ListInv, ToldTheTruth, MadeIs, Changed
  <2>3. QED
    BY <2>1, <2>2 DEF AsTold, Alive
<1>6. /\ f \in LoadType /\ f.pc \in {"failed", "read"} /\ f.query = q /\ f.again = load[n].again
      /\ f.pc = "read" => q.word # Garbled /\ f.got = got
  <2>1. load[n] \in LoadType
    BY <1>1
  <2> HIDE DEF got
  <2>2. QED
    BY <1>4, <2>1 DEF LoadType
<1> HIDE DEF f, got
<1>7. /\ load' \in [Loads -> LoadType] /\ load'[n] = f
      /\ \A m \in Loads : m # n => load'[m] = load[m]
  BY <1>1, <1>2, <1>6
<1>8. Sent' = Sent /\ Loading' = Loading
  BY <1>2, <1>6, <1>7 DEF Sent, Loading
<1>9. ListTypeOK'
  BY <1>2, <1>7 DEF ListInv, ListTypeOK, LoadType
<1>10. SentInOrder' /\ SpinnerIsReal' /\ ShownIsOver'
  BY <1>2, <1>7, <1>8 DEF ListInv, SentInOrder, SpinnerIsReal, ShownIsOver
<1>11. ToldTheTruth'
  BY <1>2 DEF ListInv, ToldTheTruth, MadeIs
<1>12. ASSUME NEW w, NEW l PROVE AsTold(w, l)' = AsTold(w, l)
  BY <1>2 DEF AsTold, Alive
<1>13. NewestIsGood'
  <2>1. SUFFICES ASSUME open, NEW m \in Loads, NewestLoad(m)
                 PROVE  /\ load'[m].pc \notin {"none", "done"} => load'[m].query = query \/ load'[m].again
                        /\ load'[m].pc = "read" => AsTold(load'[m].query.word, load'[m].got)
                        /\ origin.by = m => /\ origin.query = query \/ origin.again
                                            /\ AsTold(origin.query.word, list)
    BY <1>2, <1>8, <1>12 DEF NewestIsGood, NewestLoad, AsTold, Alive
  <2>2. /\ load[m].pc \notin {"none", "done"} => load[m].query = query \/ load[m].again
        /\ load[m].pc = "read" => AsTold(load[m].query.word, load[m].got)
        /\ origin.by = m => (origin.query = query \/ origin.again) /\ AsTold(origin.query.word, list)
    BY <2>1 DEF ListInv, NewestIsGood
  <2>3. QED
    BY <1>2, <1>5, <1>6, <1>7, <2>2
<1>14. QED
  BY <1>9, <1>10, <1>11, <1>13 DEF ListInv

LEMMA ShowsKeeps == ASSUME ListInv, NEW n \in Loads, Shows(n) PROVE ListInv'
<1>1. load \in [Loads -> LoadType] /\ list \in Listed /\ origin \in OriginType
  BY DEF ListInv, ListTypeOK, LoadType, OriginType
<1>2. /\ load[n].pc \in {"sent", "read", "failed"} /\ ~loading'
      /\ load' = [load EXCEPT ![n] = Over]
      /\ UNCHANGED <<rows, query, field, visit, open, dialog, change, confirmed>>
  BY DEF Shows
<1>3. /\ load' \in [Loads -> LoadType] /\ load'[n].pc = "done"
      /\ \A m \in Loads : m # n => load'[m] = load[m]
  BY <1>1, <1>2, RestTypes
<1>4. Sent' = Sent
  BY <1>2, <1>3 DEF Sent
<1>5. \/ load[n].pc = "read" /\ list' = load[n].got /\ origin'.by = n
           /\ origin'.query = load[n].query /\ origin'.again = load[n].again
           /\ origin' \in OriginType /\ list' \in Listed
      \/ load[n].pc # "read" /\ UNCHANGED <<list, origin>>
  <2>1. load[n] \in LoadType /\ n \in 0 .. MaxLoads
    BY <1>1, ListAssumption DEF Loads
  <2>2. CASE load[n].pc = "read"
    <3>1. list' = load[n].got
            /\ origin' = [by |-> n, query |-> load[n].query, again |-> load[n].again]
      BY <2>2 DEF Shows
    <3>2. QED
      BY <2>1, <2>2, <3>1 DEF LoadType, OriginType
  <2>3. CASE load[n].pc # "read"
    BY <2>3 DEF Shows
  <2>4. QED
    BY <2>2, <2>3
<1>6. ListTypeOK'
  <2>1. loading' \in BOOLEAN
    BY DEF Shows
  <2>2. QED
    BY <1>1, <1>2, <1>3, <1>5, <2>1 DEF ListInv, ListTypeOK, LoadType, OriginType
<1>7. SentInOrder' /\ SpinnerIsReal' /\ ShownIsOver'
  <2>1. SentInOrder' /\ SpinnerIsReal'
    BY <1>2, <1>4 DEF ListInv, SentInOrder, SpinnerIsReal
  <2>2. ShownIsOver'
    BY <1>3, <1>5 DEF ListInv, ShownIsOver
  <2>3. QED
    BY <2>1, <2>2
<1>8. ToldTheTruth'
  BY <1>2 DEF ListInv, ToldTheTruth, MadeIs
<1>9. NewestIsGood'
  <2>1. SUFFICES ASSUME open, NEW m \in Loads, NewestLoad(m)
                 PROVE  /\ load'[m].pc \notin {"none", "done"} => load'[m].query = query \/ load'[m].again
                        /\ load'[m].pc = "read" => AsTold(load'[m].query.word, load'[m].got)
                        /\ origin'.by = m => /\ origin'.query = query \/ origin'.again
                                             /\ AsTold(origin'.query.word, list')
    BY <1>2, <1>4 DEF NewestIsGood, NewestLoad, AsTold, Alive
  <2>2. /\ load[m].pc \notin {"none", "done"} => load[m].query = query \/ load[m].again
        /\ load[m].pc = "read" => AsTold(load[m].query.word, load[m].got)
        /\ origin.by = m => (origin.query = query \/ origin.again) /\ AsTold(origin.query.word, list)
    BY <2>1 DEF ListInv, NewestIsGood
  <2>3. CASE m # n
    BY <1>3, <1>5, <2>2, <2>3
  <2>4. CASE m = n
    <3>1. load[n].pc # "read" => origin'.by # n
      BY <1>2, <1>5 DEF ListInv, ShownIsOver
    <3>2. load[n].pc = "read" =>
            (origin'.query = query \/ origin'.again) /\ AsTold(origin'.query.word, list')
      BY <1>5, <2>2, <2>4
    <3>3. QED
      BY <1>3, <2>4, <3>1, <3>2
  <2>5. QED
    BY <2>3, <2>4
<1>10. QED
  BY <1>6, <1>7, <1>8, <1>9 DEF ListInv

(* The page goes: what it was told, and every fetch, goes with it. *)
LEMMA LeaveKeeps == ASSUME ListInv, Leave PROVE ListInv'
<1>1. /\ load' = [n \in Loads |-> IF n \in Sent THEN Over ELSE NoFetch]
      /\ ~open' /\ ~loading' /\ open' \in BOOLEAN /\ loading' \in BOOLEAN
      /\ list' = <<>> /\ origin' = ShownNothing /\ confirmed' = ToldNothing
      /\ UNCHANGED <<rows, query, field, visit, dialog, change>>
  BY DEF Leave
<1>2. /\ load' \in [Loads -> LoadType]
      /\ \A n \in Loads : load'[n].pc = IF n \in Sent THEN "done" ELSE "none"
  BY <1>1, RestTypes
<1>3. Sent' = Sent
  BY <1>2 DEF Sent
<1>4. ListTypeOK'
  BY <1>1, <1>2, RestTypes DEF ListInv, ListTypeOK, LoadType, OriginType
<1>5. SentInOrder' /\ SpinnerIsReal' /\ NewestIsGood'
  BY <1>1, <1>3 DEF ListInv, SentInOrder, SpinnerIsReal, NewestIsGood
<1>6. ShownIsOver'
  BY <1>1, RestTypes, ListAssumption DEF ShownIsOver, Loads
<1>7. ToldTheTruth'
  BY <1>1, RestTypes DEF ListInv, ToldTheTruth, MadeIs
<1>8. QED
  BY <1>4, <1>5, <1>6, <1>7 DEF ListInv

LEMMA AsksKeeps ==
  ASSUME ListInv, NEW w \in Typed, NEW o \in Orders, open, field' \in Typed,
         Asks([word |-> w, order |-> o]), UNCHANGED <<dialog, change>>
  PROVE  ListInv'
<1> DEFINE q == [word |-> w, order |-> o]
<1>1. q \in Queries
  BY DEF Queries
<1> HIDE DEF q
<1>2. /\ query' = q /\ fetchList(q, FALSE)
      /\ UNCHANGED <<rows, visit, open, list, origin, confirmed>>
  BY DEF Asks, q
<1>3. load' \in [Loads -> LoadType] /\ loading' = TRUE
  BY <1>1, <1>2, LoadIsNewest DEF ListInv
<1>4. ListTypeOK'
  BY <1>1, <1>2, <1>3 DEF ListInv, ListTypeOK, LoadType
<1>5. ToldTheTruth'
  BY <1>2 DEF ListInv, ToldTheTruth, MadeIs
<1>6. QED
  BY <1>1, <1>2, <1>4, <1>5, AskKeeps

LEMMA HeaderKeeps == ASSUME ListInv, Search \/ Clear \/ toggleOrderBy PROVE ListInv'
<1>1. query \in Queries /\ field \in Typed /\ NoWord \in Typed
  BY DEF ListInv, ListTypeOK, Typed
<1>2. query.word \in Typed /\ query.order \in Orders
  BY <1>1 DEF Queries
<1>3. ASSUME NEW w \in Typed PROVE [query EXCEPT !.word = w] = [word |-> w, order |-> query.order]
  BY <1>1 DEF Queries
<1>4. ASSUME NEW o \in Orders PROVE [query EXCEPT !.order = o] = [word |-> query.word, order |-> o]
  BY <1>1 DEF Queries
<1>5. CASE Search
  BY <1>1, <1>2, <1>3, <1>5, AsksKeeps DEF Search, Reachable, Asks
<1>6. CASE Clear
  BY <1>1, <1>2, <1>3, <1>6, AsksKeeps DEF Clear, Reachable, Asks
<1>7. CASE toggleOrderBy
  <2>1. PICK o \in Orders : Asks([query EXCEPT !.order = o])
    BY <1>7 DEF toggleOrderBy, Orders
  <2>2. /\ Asks([word |-> query.word, order |-> o]) /\ open /\ field' \in Typed
        /\ UNCHANGED <<dialog, change>>
    BY <1>1, <1>4, <1>7, <2>1 DEF toggleOrderBy, Reachable, Asks
  <2>3. QED
    BY <1>2, <2>2, AsksKeeps
<1>8. QED
  BY <1>5, <1>6, <1>7

LEMMA VisitKeeps == ASSUME ListInv, Visit PROVE ListInv'
<1>1. query \in Queries /\ visit \in 0 .. MaxVisits
  BY DEF ListInv, ListTypeOK
<1>2. /\ open' = TRUE /\ visit' = visit + 1 /\ visit < MaxVisits /\ fetchList(query, FALSE)
      /\ UNCHANGED <<rows, query, list, origin, dialog, change, confirmed>>
  BY DEF Visit
<1>3. visit' \in 0 .. MaxVisits
  BY <1>1, <1>2, ListAssumption
<1>4. field' \in Typed
  BY <1>1 DEF Visit, Queries, Typed
<1>5. load' \in [Loads -> LoadType] /\ loading' = TRUE
  BY <1>1, <1>2, LoadIsNewest DEF ListInv
<1>6. ListTypeOK'
  BY <1>2, <1>3, <1>4, <1>5 DEF ListInv, ListTypeOK, LoadType
<1>7. ToldTheTruth'
  BY <1>2 DEF ListInv, ToldTheTruth, MadeIs
<1>8. QED
  BY <1>1, <1>2, <1>6, <1>7, AskKeeps

(* What the user does to a dialog, and what becomes of its request, leaves *)
(* the rows and the page as they are; so does typing.                      *)
LEMMA DialogOnly ==
  ASSUME ListInv,
         UNCHANGED <<rows, query, visit, open, loading, load, list, origin, confirmed>>,
         field' \in Typed, dialog' \in DialogType, change' \in ChangeType,
         change'.pc = "made" => MadeIs(change'.does, change'.row),
         change'.does = "create" => \A does \in Changed : change'.row \notin confirmed[does]
  PROVE  ListInv'
<1>1. ListTypeOK'
  BY DEF ListInv, ListTypeOK, DialogType, ChangeType
<1>2. ToldTheTruth'
  BY DEF ListInv, ToldTheTruth, MadeIs
<1>3. QED
  BY <1>1, <1>2, RestKeeps DEF Alive

LEMMA TypeKeeps == ASSUME ListInv, NEW w \in Words \cup {NoWord}, Type(w) PROVE ListInv'
<1>1. /\ field' = w
      /\ UNCHANGED <<rows, query, visit, open, loading, load, list, origin, dialog, change, confirmed>>
  BY DEF Type
<1>2. field' \in Typed /\ dialog' \in DialogType /\ change' \in ChangeType
  BY <1>1 DEF ListInv, ListTypeOK, Typed, DialogType, ChangeType
<1>3. QED
  BY <1>1, <1>2, DialogOnly DEF ListInv, ToldTheTruth

LEMMA ExecuteKeeps ==
  ASSUME ListInv, NEW does \in Changed, NEW r \in Ids, functionExecute(does, r)
  PROVE  ListInv'
<1>1. visit \in 0 .. MaxVisits /\ query \in Queries /\ NoChange \in ChangeType
  BY RestTypes DEF ListInv, ListTypeOK
<1> DEFINE c == [NoChange EXCEPT !.does = does, !.row = r, !.visit = visit, !.query = query]
<1>2. c \in ChangeType /\ c.pc = "none" /\ c.does = does /\ c.row = r
  BY <1>1, RestTypes DEF ChangeType
<1> HIDE DEF c
<1>3. /\ dialog' = [does |-> does, row |-> r] /\ change' = c
      /\ UNCHANGED <<rows, query, field, visit, open, loading, load, list, origin, confirmed>>
  BY DEF functionExecute, c
<1>4. dialog' \in DialogType /\ field' \in Typed
  BY <1>3 DEF DialogType, ListInv, ListTypeOK
<1>5. does = "create" => \A d \in Changed : r \notin confirmed[d]
  <2> SUFFICES ASSUME does = "create", NEW d \in Changed, r \in confirmed[d] PROVE FALSE
    OBVIOUS
  <2>1. rows[r] = "unborn"
    BY DEF functionExecute
  <2>2. MadeIs(d, r)
    BY DEF ListInv, ToldTheTruth
  <2>3. QED
    BY <2>1, <2>2 DEF MadeIs, Changed
<1>6. QED
  BY <1>2, <1>3, <1>4, <1>5, DialogOnly

LEMMA DialogKeepsList ==
  ASSUME ListInv, Confirm \/ Dismiss \/ Refuses \/ DeleteRefused PROVE ListInv'
<1>1. /\ change \in ChangeType /\ dialog \in DialogType /\ field \in Typed
      /\ NoDialog \in DialogType /\ NoChange \in ChangeType
      /\ NoChange.pc = "none" /\ NoChange.does = "delete"
  BY RestTypes DEF ListInv, ListTypeOK, ChangeType, DialogType
<1>2. \A p \in {"none", "sent", "refused"} :
        LET c == [change EXCEPT !.pc = p]
        IN c \in ChangeType /\ c.pc = p /\ c.does = change.does /\ c.row = change.row
  BY <1>1 DEF ChangeType
<1>3. /\ change.pc = "made" => MadeIs(change.does, change.row)
      /\ change.does = "create" => \A does \in Changed : change.row \notin confirmed[does]
  BY DEF ListInv, ToldTheTruth
<1>4. CASE Confirm
  <2>1. /\ change' = [change EXCEPT !.pc = "sent"] /\ dialog' \in {dialog, NoDialog}
        /\ UNCHANGED <<rows, query, field, visit, open, loading, load, list, origin, confirmed>>
    BY <1>4 DEF Confirm
  <2>2. QED
    BY <1>1, <1>2, <1>3, <2>1, DialogOnly
<1>5. CASE Dismiss
  <2>1. /\ change' \in {change, NoChange} /\ dialog' = NoDialog
        /\ UNCHANGED <<rows, query, field, visit, open, loading, load, list, origin, confirmed>>
    BY <1>5 DEF Dismiss
  <2>2. QED
    BY <1>1, <1>3, <2>1, DialogOnly
<1>6. CASE Refuses
  <2>1. /\ change' = [change EXCEPT !.pc = "refused"]
        /\ UNCHANGED <<rows, query, field, visit, open, loading, load, list, origin, dialog, confirmed>>
    BY <1>6 DEF Refuses
  <2>2. QED
    BY <1>1, <1>2, <1>3, <2>1, DialogOnly
<1>7. CASE DeleteRefused
  <2>1. /\ change' = NoChange /\ dialog' \in {dialog, [does |-> "error", row |-> change.row]}
        /\ UNCHANGED <<rows, query, field, visit, open, loading, load, list, origin, confirmed>>
    BY <1>7 DEF DeleteRefused
  <2>2. dialog' \in DialogType
    BY <1>1, <2>1 DEF DialogType, ChangeType
  <2>3. QED
    BY <1>1, <2>1, <2>2, DialogOnly
<1>8. QED
  BY <1>4, <1>5, <1>6, <1>7

(* The rows change: nothing that the page was told stops being so. *)
LEMMA RowKeeps ==
  ASSUME ListInv, NEW r \in Ids, NEW s \in {"old", "new", "deleted"}, NEW p \in {"none", "sent", "made", "refused"},
         rows' = [rows EXCEPT ![r] = s], change' = [change EXCEPT !.pc = p],
         UNCHANGED <<query, field, visit, open, loading, load, list, origin, dialog, confirmed>>,
         \A does \in Changed : r \in confirmed[does] =>
            /\ s = "deleted" \/ (s = "new" /\ rows[r] # "deleted"),
         p = "made" => MadeIs(change.does, change.row)'
  PROVE  ListInv'
<1>1. /\ rows \in [Ids -> {"unborn", "old", "new", "deleted"}] /\ change \in ChangeType
      /\ confirmed \in [Changed -> SUBSET Ids]
  BY DEF ListInv, ListTypeOK, ChangeType
<1>2. /\ change' \in ChangeType /\ change'.pc = p
      /\ change'.does = change.does /\ change'.row = change.row
  BY <1>1 DEF ChangeType
<1>3. \A x \in Ids : rows'[x] = IF x = r THEN s ELSE rows[x]
  BY <1>1
<1>4. ListTypeOK'
  BY <1>1, <1>2 DEF ListInv, ListTypeOK, ChangeType
<1>5. \A does \in Changed : \A x \in confirmed[does] : x \in Ids /\ MadeIs(does, x)
  BY <1>1 DEF ListInv, ToldTheTruth
<1>6. \A does \in Changed : \A x \in confirmed[does] : MadeIs(does, x)'
  <2> SUFFICES ASSUME NEW does \in Changed, NEW x \in confirmed[does] PROVE MadeIs(does, x)'
    OBVIOUS
  <2>1. x \in Ids /\ MadeIs(does, x)
    BY <1>5
  <2>2. CASE x # r
    BY <1>3, <2>1, <2>2 DEF MadeIs
  <2>3. CASE x = r
    BY <1>3, <2>1, <2>3 DEF MadeIs, Changed
  <2>4. QED
    BY <2>2, <2>3
<1>7. ToldTheTruth'
  BY <1>2, <1>6 DEF ListInv, ToldTheTruth
<1>8. \A x \in confirmed["create"] : ~Alive(x) => ~Alive(x)'
  <2> SUFFICES ASSUME NEW x \in confirmed["create"], ~Alive(x) PROVE ~Alive(x)'
    OBVIOUS
  <2>1. "create" \in Changed
    BY DEF Changed
  <2>2. x \in Ids /\ rows[x] = "deleted"
    BY <1>1, <1>5, <2>1 DEF MadeIs, Alive
  <2>3. x = r => s = "deleted"
    BY <2>1, <2>2
  <2>4. QED
    BY <1>3, <2>2, <2>3 DEF Alive
<1>9. QED
  BY <1>4, <1>7, <1>8, RestKeeps

LEMMA ElsewhereKeeps == ASSUME ListInv, NEW r \in Ids, Elsewhere(r) PROVE ListInv'
<1>1. /\ rows \in [Ids -> {"unborn", "old", "new", "deleted"}] /\ change \in ChangeType
      /\ rows' = [rows EXCEPT ![r] = "deleted"]
      /\ UNCHANGED <<query, field, visit, open, loading, load, list, origin, dialog, change,
                     confirmed>>
  BY DEF Elsewhere, ListInv, ListTypeOK, ChangeType
<1>2. /\ change.pc \in {"none", "sent", "made", "refused"} /\ change.row \in Ids
      /\ change.does \in Changed /\ change' = [change EXCEPT !.pc = change.pc]
  BY <1>1 DEF ChangeType
<1>3. change.pc = "made" => MadeIs(change.does, change.row)'
  <2>1. \A x \in Ids : rows'[x] = IF x = r THEN "deleted" ELSE rows[x]
    BY <1>1
  <2>2. change.pc = "made" => MadeIs(change.does, change.row)
    BY DEF ListInv, ToldTheTruth
  <2>3. QED
    BY <1>1, <1>2, <2>1, <2>2 DEF MadeIs, Changed
<1>4. QED
  BY <1>1, <1>2, <1>3, RowKeeps

LEMMA MakesKeeps == ASSUME ListInv, Makes PROVE ListInv'
<1> DEFINE r == change.row
           s == CASE change.does = "delete" -> "deleted"
                  [] change.does = "create" -> "old"
                  [] change.does = "edit"   -> IF rows[r] = "deleted" THEN "deleted" ELSE "new"
<1>1. /\ rows \in [Ids -> {"unborn", "old", "new", "deleted"}] /\ change \in ChangeType
  BY DEF ListInv, ListTypeOK, ChangeType
<1>2. r \in Ids /\ change.does \in {"delete", "create", "edit"}
  BY <1>1 DEF ChangeType, Changed
<1>3. s \in {"old", "new", "deleted"}
  BY <1>2
<1>4. /\ rows' = [rows EXCEPT ![r] = s] /\ change' = [change EXCEPT !.pc = "made"]
      /\ UNCHANGED <<query, field, visit, open, loading, load, list, origin, dialog, confirmed>>
  BY DEF Makes
<1>5. /\ change.does = "create" => \A does \in Changed : r \notin confirmed[does]
      /\ change.does # "create" => s = "deleted" \/ (s = "new" /\ rows[r] # "deleted")
  BY <1>2 DEF ListInv, ToldTheTruth
<1>6. /\ change.does = "delete" => s = "deleted"
      /\ change.does = "edit" => s \in {"new", "deleted"}
      /\ change.does = "create" => s = "old"
  OBVIOUS
<1> HIDE DEF s, r
<1>7. rows'[r] = s /\ change'.does = change.does /\ change'.row = r
  BY <1>1, <1>2, <1>4 DEF ChangeType, r
<1>8. MadeIs(change.does, change.row)'
  BY <1>2, <1>6, <1>7 DEF MadeIs
<1>9. QED
  BY <1>2, <1>3, <1>4, <1>5, <1>8, RowKeeps

(* A change that is made is told to the page that asked for it, if it is   *)
(* still there, and the page fetches again.                                *)
LEMMA RefetchKeeps ==
  ASSUME ListInv, NEW ids \in SUBSET Ids, Refetch(ids), field' = field,
         UNCHANGED <<rows, query, visit, open, list, origin>>,
         dialog' \in DialogType, change' \in ChangeType, change'.pc # "made",
         \A r \in ids : MadeIs(change.does, r),
         change'.does = "create" =>
           /\ \A does \in Changed : change'.row \notin confirmed[does]
           /\ change'.row \notin ids
  PROVE  ListInv'
<1>1. /\ change \in ChangeType /\ change.query \in Queries /\ change.does \in Changed
      /\ confirmed \in [Changed -> SUBSET Ids] /\ field' \in Typed
  BY DEF ListInv, ListTypeOK, ChangeType
<1>2. CASE UNCHANGED <<load, loading, confirmed>>
  <2>1. change'.does = "create" => \A does \in Changed : change'.row \notin confirmed[does]
    OBVIOUS
  <2>2. change'.pc = "made" => MadeIs(change'.does, change'.row)
    OBVIOUS
  <2>3. QED
    BY <1>1, <1>2, <2>1, <2>2, DialogOnly
<1>3. CASE /\ open /\ fetchList(change.query, TRUE)
           /\ confirmed' = [confirmed EXCEPT ![change.does] = @ \cup ids]
  <2>1. load' \in [Loads -> LoadType] /\ loading' = TRUE
    BY <1>1, <1>3, LoadIsNewest DEF ListInv
  <2>2. /\ confirmed' \in [Changed -> SUBSET Ids]
        /\ \A does \in Changed :
             confirmed'[does] = IF does = change.does THEN confirmed[does] \cup ids ELSE confirmed[does]
    BY <1>1, <1>3
  <2>3. ListTypeOK'
    BY <1>1, <1>3, <2>1, <2>2 DEF ListInv, ListTypeOK, LoadType, ChangeType, DialogType
  <2>4. \A does \in Changed : \A r \in confirmed'[does] : MadeIs(does, r)
    BY <2>2 DEF ListInv, ToldTheTruth
  <2>5. ToldTheTruth'
    BY <2>2, <2>4 DEF ToldTheTruth, MadeIs
  <2>6. PICK q \in Queries : q = change.query
    BY <1>1
  <2>7. QED
    BY <1>3, <2>3, <2>5, <2>6, AskKeeps
<1>4. QED
  BY <1>2, <1>3 DEF Refetch

LEMMA MadeKeeps == ASSUME ListInv, Made PROVE ListInv'
<1>1. /\ change \in ChangeType /\ change.row \in Ids /\ dialog \in DialogType
      /\ NoDialog \in DialogType /\ NoChange \in ChangeType
      /\ NoChange.pc = "none" /\ NoChange.does = "delete"
  BY RestTypes DEF ListInv, ListTypeOK, ChangeType, DialogType
<1>2. /\ change' = NoChange /\ dialog' \in {dialog, NoDialog} /\ Refetch({change.row})
      /\ UNCHANGED <<rows, query, field, visit, open, list, origin>>
  BY DEF Made
<1>3. MadeIs(change.does, change.row)
  BY DEF Made, ListInv, ToldTheTruth
<1>4. PICK ids \in SUBSET Ids : ids = {change.row}
  BY <1>1
<1>5. Refetch(ids)
  BY <1>2, <1>4 DEF Refetch
<1>6. QED
  BY <1>1, <1>2, <1>3, <1>4, <1>5, RefetchKeeps

LEMMA FormRefusedKeeps == ASSUME ListInv, FormRefused PROVE ListInv'
<1>1. /\ change \in ChangeType /\ dialog \in DialogType /\ NoChange \in ChangeType
      /\ NoChange.pc = "none" /\ NoChange.does = "delete"
  BY RestTypes DEF ListInv, ListTypeOK, ChangeType, DialogType
<1>2. /\ change' \in {NoChange, [change EXCEPT !.pc = "none"]} /\ Refetch({})
      /\ UNCHANGED <<rows, query, field, visit, open, list, origin, dialog>>
  BY DEF FormRefused
<1>3. /\ change' \in ChangeType /\ change'.pc = "none"
      /\ change'.does = "create" => change'.does = change.does /\ change'.row = change.row
  BY <1>1, <1>2 DEF ChangeType
<1>4. change.does = "create" => \A does \in Changed : change.row \notin confirmed[does]
  BY DEF ListInv, ToldTheTruth
<1>5. QED
  BY <1>1, <1>2, <1>3, <1>4, RefetchKeeps

LEMMA ListNextInv == ListInv /\ [ListNext]_listVars => ListInv'
<1> SUFFICES ASSUME ListInv, [ListNext]_listVars PROVE ListInv'
  OBVIOUS
<1>1. CASE UNCHANGED listVars
  <2>1. UNCHANGED <<rows, query, field, visit, open, loading, load, list, origin, dialog, change,
                    confirmed>>
    BY <1>1 DEF listVars
  <2>2. /\ field' \in Typed /\ dialog' \in DialogType /\ change' \in ChangeType
        /\ change'.pc = "made" => MadeIs(change'.does, change'.row)
        /\ change'.does = "create" => \A does \in Changed : change'.row \notin confirmed[does]
    BY <2>1 DEF ListInv, ListTypeOK, ChangeType, DialogType, ToldTheTruth
  <2>3. QED
    BY <2>1, <2>2, DialogOnly
<1>2. CASE ListNext
  BY <1>2, VisitKeeps, LeaveKeeps, HeaderKeeps, TypeKeeps, AnswersKeeps, ShowsKeeps,
     ElsewhereKeeps, ExecuteKeeps, DialogKeepsList, MakesKeeps, MadeKeeps, FormRefusedKeeps
  DEF ListNext
<1>3. QED
  BY <1>1, <1>2

LEMMA ListInvariant == ListSpec => []ListInv
<1>1. QED
  BY ListInitInv, ListNextInv, PTL DEF ListSpec

(* Every variable of a list page keeps its type, for any rows, words,      *)
(* visits and fetches.                                                     *)
THEOREM ListTypes == ListSpec => []ListTypeOK
<1>1. ListInv => ListTypeOK
  BY DEF ListInv
<1>2. QED
  BY <1>1, ListInvariant, PTL

(* A list page whose newest fetch is the one applied shows what its query, *)
(* or that of the closure of its last change, asks for, and of the rows it *)
(* was told of what it was told, however fetches, changes, other clients   *)
(* and visits interleave.                                                  *)
THEOREM ListIsAsAsked == ListSpec => []ListMatchesHeader
<1>1. ListInv => ListMatchesHeader
  <2> SUFFICES ASSUME ListInv PROVE ListMatchesHeader
    OBVIOUS
  <2>1. loading => open /\ Loading # {}
    BY DEF ListInv, SpinnerIsReal
  <2>2. ASSUME open, NewestLoad(origin.by)
        PROVE  /\ origin.query = query \/ origin.again
               /\ AsTold(origin.query.word, list)
    <3>1. origin.by \in Loads
      BY <2>2 DEF NewestLoad, Sent
    <3>2. QED
      BY <2>2, <3>1 DEF ListInv, NewestIsGood
  <2>3. QED
    BY <2>1, <2>2 DEF ListMatchesHeader, AsTold
<1>2. QED
  BY <1>1, ListInvariant, PTL

-----------------------------------------------------------------------------
(* Sorting: what is sorted is sorted, and filter keeps the order. *)

(* An order in which any two members of S are one before the other. *)
StrictOrder(S, R) ==
  /\ \A x, y \in S : x # y => <<x, y>> \in R \/ <<y, x>> \in R
  /\ \A x \in S : <<x, x>> \notin R
  /\ \A x, y, z \in S : <<x, y>> \in R /\ <<y, z>> \in R => <<x, z>> \in R

(* The later of two has the higher rank, and no rank is left out. *)
LEMMA RankGrows ==
  ASSUME NEW S, IsFiniteSet(S), NEW R, StrictOrder(S, R),
         NEW x \in S, NEW y \in S, <<x, y>> \in R
  PROVE  Rank(S, R, x) < Rank(S, R, y)
<1> DEFINE A == {z \in S : <<z, x>> \in R}
           B == {z \in S : <<z, y>> \in R}
<1>1. A \in SUBSET B /\ x \in B /\ x \notin A /\ B \in SUBSET S
  BY DEF StrictOrder
<1>2. IsFiniteSet(B)
  BY <1>1, FS_Subset
<1>3. Cardinality(A) <= Cardinality(B) /\ Cardinality(A) # Cardinality(B) /\ IsFiniteSet(A)
  BY <1>1, <1>2, FS_Subset
<1>4. Cardinality(A) \in Nat /\ Cardinality(B) \in Nat
  BY <1>2, <1>3, FS_CardinalityType
<1>5. QED
  BY <1>3, <1>4 DEF Rank

LEMMA RankType ==
  ASSUME NEW S, IsFiniteSet(S), NEW R, StrictOrder(S, R), NEW x \in S
  PROVE  Rank(S, R, x) \in 0 .. Cardinality(S) - 1
<1> DEFINE A == {z \in S : <<z, x>> \in R}
<1>1. A \in SUBSET S /\ A # S
  BY DEF StrictOrder
<1>2. IsFiniteSet(A) /\ Cardinality(A) <= Cardinality(S) /\ Cardinality(A) # Cardinality(S)
  BY <1>1, FS_Subset
<1>3. Cardinality(A) \in Nat /\ Cardinality(S) \in Nat
  BY <1>2, FS_CardinalityType
<1>4. QED
  BY <1>2, <1>3 DEF Rank

(* Every rank is somebody's. *)
LEMMA RankTaken ==
  ASSUME NEW S, IsFiniteSet(S), NEW R, StrictOrder(S, R), NEW k \in 1 .. Cardinality(S)
  PROVE  \E x \in S : Rank(S, R, x) = k - 1
<1> DEFINE n == Cardinality(S)
           f == [x \in S |-> Rank(S, R, x)]
<1>1. n \in Nat
  BY FS_CardinalityType
<1>2. IsFiniteSet(0 .. n - 1) /\ Cardinality(0 .. n - 1) = n
  <2> HIDE DEF n
  <2>1. 0 \in Int /\ n - 1 \in Int
    BY <1>1
  <2>2. QED
    BY <1>1, <2>1, FS_Interval
<1>3. \A x \in S : Rank(S, R, x) \in 0 .. n - 1
  BY RankType
<1>4. f \in [S -> 0 .. n - 1]
  BY <1>3
<1>5. ASSUME NEW x \in S, NEW y \in S, f[x] = f[y] PROVE x = y
  <2>1. CASE <<x, y>> \in R
    BY <1>3, <1>5, <2>1, RankGrows
  <2>2. CASE <<y, x>> \in R
    BY <1>3, <1>5, <2>2, RankGrows
  <2>3. QED
    BY <2>1, <2>2 DEF StrictOrder
<1>6. f \in Injection(S, 0 .. n - 1)
  BY <1>4, <1>5 DEF Injection, IsInjective
<1>7. f \in Surjection(S, 0 .. n - 1)
  <2> HIDE DEF f
  <2> QED BY <1>2, <1>6, FS_Injection
<1>8. k - 1 \in 0 .. n - 1
  BY <1>1
<1>9. PICK x \in S : f[x] = k - 1
  BY <1>7, <1>8 DEF Surjection
<1>10. QED
  BY <1>9

(* A sorted list has each element once, in order. *)
LEMMA SortedIsSorted ==
  ASSUME NEW S, IsFiniteSet(S), NEW R, StrictOrder(S, R)
  PROVE  /\ Cardinality(S) \in Nat
         /\ SortedBy(S, R) \in [1 .. Cardinality(S) -> S]
         /\ \A i, j \in 1 .. Cardinality(S) : i < j => <<SortedBy(S, R)[i], SortedBy(S, R)[j]>> \in R
         /\ \A x \in S : \E i \in 1 .. Cardinality(S) : SortedBy(S, R)[i] = x
<1> DEFINE n == Cardinality(S)
           s == SortedBy(S, R)
<1>1. n \in Nat
  BY FS_CardinalityType
<1>2. \A k \in 1 .. n : s[k] \in S /\ Rank(S, R, s[k]) = k - 1
  BY RankTaken DEF SortedBy
<1>3. s \in [1 .. n -> S]
  BY <1>2 DEF SortedBy
<1>4. ASSUME NEW i \in 1 .. n, NEW j \in 1 .. n, i < j PROVE <<s[i], s[j]>> \in R
  <2>1. CASE s[i] = s[j]
    BY <1>1, <1>2, <1>4, <2>1
  <2>2. CASE <<s[j], s[i]>> \in R
    <3>1. Rank(S, R, s[j]) < Rank(S, R, s[i])
      BY <1>2, <2>2, RankGrows
    <3>2. QED BY <1>1, <1>2, <1>4, <3>1
  <2>3. QED
    BY <1>2, <2>1, <2>2 DEF StrictOrder
<1>5. ASSUME NEW x \in S PROVE \E i \in 1 .. n : s[i] = x
  <2>1. Rank(S, R, x) \in 0 .. n - 1
    BY RankType
  <2>2. PICK i \in 1 .. n : Rank(S, R, x) = i - 1
    <3>1. Rank(S, R, x) + 1 \in 1 .. n /\ Rank(S, R, x) = (Rank(S, R, x) + 1) - 1
      BY <1>1, <2>1
    <3>2. QED BY <3>1
  <2>3. Rank(S, R, s[i]) = i - 1 /\ s[i] \in S
    BY <1>2
  <2>4. ~ Rank(S, R, x) < Rank(S, R, s[i]) /\ ~ Rank(S, R, s[i]) < Rank(S, R, x)
    BY <1>1, <2>2, <2>3
  <2>5. <<s[i], x>> \notin R /\ <<x, s[i]>> \notin R
    BY <2>3, <2>4, RankGrows
  <2>6. s[i] = x
    BY <2>3, <2>5 DEF StrictOrder
  <2>7. QED BY <2>6
<1>6. QED
  BY <1>1, <1>3, <1>4, <1>5

LEMMA PositionsOrdered ==
  ASSUME NEW I \in SUBSET Int
  PROVE  StrictOrder(I, {p \in I \X I : p[1] < p[2]})
BY DEF StrictOrder

(* The positions kept, in their order. *)
LEMMA AscendingIsSorted ==
  ASSUME NEW I \in SUBSET Int, IsFiniteSet(I)
  PROVE  /\ Cardinality(I) \in Nat
         /\ Ascending(I) \in [1 .. Cardinality(I) -> I]
         /\ \A i, j \in 1 .. Cardinality(I) : i < j => Ascending(I)[i] < Ascending(I)[j]
         /\ \A x \in I : \E i \in 1 .. Cardinality(I) : Ascending(I)[i] = x
<1> DEFINE R == {p \in I \X I : p[1] < p[2]}
<1>1. StrictOrder(I, R)
  BY PositionsOrdered
<1>2. \A x, y : <<x, y>> \in R => x < y
  OBVIOUS
<1> HIDE DEF R
<1>3. /\ Cardinality(I) \in Nat
      /\ SortedBy(I, R) \in [1 .. Cardinality(I) -> I]
      /\ \A i, j \in 1 .. Cardinality(I) : i < j => <<SortedBy(I, R)[i], SortedBy(I, R)[j]>> \in R
      /\ \A x \in I : \E i \in 1 .. Cardinality(I) : SortedBy(I, R)[i] = x
  BY <1>1, SortedIsSorted
<1>4. Ascending(I) = SortedBy(I, R)
  BY DEF Ascending, R
<1>5. QED
  BY <1>2, <1>3, <1>4

LEMMA DescendingIsSorted ==
  ASSUME NEW I \in SUBSET Int, IsFiniteSet(I)
  PROVE  /\ Cardinality(I) \in Nat
         /\ Descending(I) \in [1 .. Cardinality(I) -> I]
         /\ \A i, j \in 1 .. Cardinality(I) : i < j => Descending(I)[i] > Descending(I)[j]
<1> DEFINE R == {p \in I \X I : p[1] > p[2]}
<1>1. StrictOrder(I, R)
  BY DEF StrictOrder
<1>2. \A x, y : <<x, y>> \in R => x > y
  OBVIOUS
<1> HIDE DEF R
<1>3. /\ Cardinality(I) \in Nat
      /\ SortedBy(I, R) \in [1 .. Cardinality(I) -> I]
      /\ \A i, j \in 1 .. Cardinality(I) : i < j => <<SortedBy(I, R)[i], SortedBy(I, R)[j]>> \in R
  BY <1>1, SortedIsSorted
<1>4. Descending(I) = SortedBy(I, R)
  BY DEF Descending, R
<1>5. QED
  BY <1>2, <1>3, <1>4

LEMMA CountUpTo ==
  ASSUME NEW n \in Nat
  PROVE  IsFiniteSet(1 .. n) /\ Cardinality(1 .. n) = n
<1>1. 1 \in Int /\ n \in Int
  OBVIOUS
<1>2. QED
  BY <1>1, FS_Interval

(* What is kept of a list. *)
LEMMA KeptIsKept ==
  ASSUME NEW T, NEW s \in Seq(T), NEW I \in SUBSET DOMAIN s
  PROVE  /\ IsFiniteSet(I) /\ Cardinality(I) \in Nat /\ Cardinality(I) <= Len(s)
         /\ Kept(s, I) \in Seq(T) /\ Len(Kept(s, I)) = Cardinality(I)
         /\ Ascending(I) \in [1 .. Cardinality(I) -> I]
         /\ \A k \in 1 .. Cardinality(I) : Kept(s, I)[k] = s[Ascending(I)[k]]
         /\ \A j, k \in 1 .. Cardinality(I) : j < k => Ascending(I)[j] < Ascending(I)[k]
         /\ \A i \in I : \E k \in 1 .. Cardinality(I) : Ascending(I)[k] = i
<1>1. DOMAIN s = 1 .. Len(s) /\ Len(s) \in Nat /\ I \in SUBSET Int
  OBVIOUS
<1>2. IsFiniteSet(1 .. Len(s)) /\ Cardinality(1 .. Len(s)) = Len(s)
  BY <1>1, CountUpTo
<1>3. IsFiniteSet(I) /\ Cardinality(I) <= Len(s)
  BY <1>1, <1>2, FS_Subset
<1>4. /\ Cardinality(I) \in Nat
      /\ Ascending(I) \in [1 .. Cardinality(I) -> I]
      /\ \A i, j \in 1 .. Cardinality(I) : i < j => Ascending(I)[i] < Ascending(I)[j]
      /\ \A x \in I : \E i \in 1 .. Cardinality(I) : Ascending(I)[i] = x
  BY <1>1, <1>3, AscendingIsSorted
<1>5. Kept(s, I) \in [1 .. Cardinality(I) -> T]
  BY <1>4 DEF Kept
<1>6. Kept(s, I) \in Seq(T) /\ Len(Kept(s, I)) = Cardinality(I)
  BY <1>4, <1>5
<1>7. \A k \in 1 .. Cardinality(I) : Kept(s, I)[k] = s[Ascending(I)[k]]
  BY DEF Kept
<1>8. QED
  BY <1>3, <1>4, <1>6, <1>7

-----------------------------------------------------------------------------
(* BackupFeed. *)

(* What is listed of the rows as they are is what comes first in their order. *)
ListedFirst ==
  feedOf = version =>
    /\ Len(feed) <= Len(InOrder)
    /\ \A i \in DOMAIN feed : feed[i] = InOrder[i]
    /\ feed # <<>> => count = Cardinality(DOMAIN table)

(* So is a page that is on its way. *)
PagesRead ==
  \A n \in Gets : get[n].pc = "read" /\ get[n].version = version =>
    get[n].got = PageFrom(get[n].skip) /\ get[n].count = Cardinality(DOMAIN table)

NoneAhead == feedOf <= version /\ \A n \in Gets : get[n].version <= version

(* A page that starts the list again was asked for from the start. *)
SkipsRight == \A n \in Gets : get[n].reset => get[n].skip = 0

FeedInv == FeedTypeOK /\ NoneAhead /\ PagesRead /\ ListedFirst /\ SkipsRight

LEMMA RowsCounted ==
  ASSUME NEW S \in SUBSET Backups
  PROVE  IsFiniteSet(S) /\ Cardinality(S) \in 0 .. MaxRows
<1>1. MaxRows \in Nat /\ Backups = 1 .. MaxRows
  BY FeedAssumption DEF Backups
<1>2. IsFiniteSet(Backups) /\ Cardinality(Backups) = MaxRows
  BY <1>1, CountUpTo
<1>3. IsFiniteSet(S) /\ Cardinality(S) <= MaxRows
  BY <1>2, FS_Subset
<1>4. QED
  BY <1>1, <1>3, FS_CardinalityType

LEMMA InOrderType ==
  ASSUME FeedTypeOK
  PROVE  /\ InOrder \in Seq(Listing) /\ Len(InOrder) = Cardinality(DOMAIN table)
         /\ Cardinality(DOMAIN table) \in 0 .. MaxRows
         /\ \A i, j \in DOMAIN InOrder : i < j => InOrder[i].id > InOrder[j].id
<1> DEFINE I == DOMAIN table
           n == Cardinality(I)
           ids == Descending(I)
<1>1. I \in SUBSET Backups /\ I \in SUBSET Int
  BY DEF FeedTypeOK, Backups
<1>2. IsFiniteSet(I) /\ n \in 0 .. MaxRows
  BY <1>1, RowsCounted
<1>3. /\ n \in Nat /\ ids \in [1 .. n -> I]
      /\ \A i, j \in 1 .. n : i < j => ids[i] > ids[j]
  BY <1>1, <1>2, DescendingIsSorted
<1>4. InOrder = [i \in 1 .. n |-> [id |-> ids[i], status |-> table[ids[i]]]]
  BY <1>3 DEF InOrder
<1>5. \A i \in 1 .. n : [id |-> ids[i], status |-> table[ids[i]]] \in Listing
  BY <1>1, <1>3 DEF FeedTypeOK, Listing
<1> HIDE DEF ids, n
<1>6. InOrder \in [1 .. n -> Listing]
  BY <1>4, <1>5
<1>7. InOrder \in Seq(Listing) /\ Len(InOrder) = n /\ DOMAIN InOrder = 1 .. n
  BY <1>3, <1>6
<1>8. \A i \in 1 .. n : InOrder[i].id = ids[i]
  BY <1>4
<1>9. QED
  BY <1>2, <1>3, <1>7, <1>8 DEF n

LEMMA LesserOf ==
  ASSUME NEW a \in Int, NEW b \in Int
  PROVE  Min({a, b}) = IF a <= b THEN a ELSE b
BY DEF Min

LEMMA PageType ==
  ASSUME FeedTypeOK, NEW skip \in Nat
  PROVE  /\ PageFrom(skip) \in Seq(Listing) /\ Len(PageFrom(skip)) <= PageSize
         /\ skip <= Len(InOrder) => skip + Len(PageFrom(skip)) <= Len(InOrder)
         /\ \A i \in 1 .. Len(PageFrom(skip)) : PageFrom(skip)[i] = InOrder[skip + i]
<1> DEFINE m == Min({skip + PageSize, Len(InOrder)})
<1>1. InOrder \in Seq(Listing) /\ Len(InOrder) \in Nat /\ PageSize \in Nat \ {0}
  BY InOrderType, FeedAssumption
<1>2. m = IF skip + PageSize <= Len(InOrder) THEN skip + PageSize ELSE Len(InOrder)
  BY <1>1, LesserOf
<1>3. m \in Nat /\ m <= Len(InOrder) /\ m <= skip + PageSize /\ PageFrom(skip) = SubSeq(InOrder, skip + 1, m)
  BY <1>1, <1>2 DEF PageFrom
<1> HIDE DEF m
<1>4. CASE skip + 1 <= m
  <2>1. /\ PageFrom(skip) \in Seq(Listing) /\ Len(PageFrom(skip)) = m - skip
        /\ \A i \in 1 .. m - skip : PageFrom(skip)[i] = InOrder[skip + i]
    BY <1>1, <1>3, <1>4
  <2>2. QED BY <1>1, <1>3, <1>4, <2>1
<1>5. CASE ~ (skip + 1 <= m)
  <2>1. PageFrom(skip) = <<>>
    BY <1>1, <1>3, <1>5
  <2>2. QED BY <1>1, <2>1
<1>6. QED
  BY <1>4, <1>5

LEMMA NoGetType ==
  /\ NoGet \in GetType /\ Len(NoGet.got) <= PageSize /\ NoGet.pc = "none" /\ NoGet.version = 0
  /\ NoGet.got = <<>> /\ NoGet.skip = 0
<1>1. 0 \in Versions /\ 0 \in 0 .. MaxRows /\ PageSize \in Nat
  BY FeedAssumption DEF Versions
<1>2. QED
  BY <1>1 DEF NoGet, GetType

LEMMA FeedInitInv == FeedInit => FeedInv
<1> SUFFICES ASSUME FeedInit PROVE FeedInv
  OBVIOUS
<1>1. /\ table = [b \in 1 .. FirstRows |-> IF b = FirstRows THEN "IN_PROGRESS" ELSE "COMPLETED"]
      /\ version = 0 /\ view = "agents" /\ feed = <<>> /\ count = 0 /\ busy = FALSE /\ feedOf = 0
      /\ get = [n \in Gets |-> NoGet]
  BY DEF FeedInit
<1>2. DOMAIN table = 1 .. FirstRows /\ DOMAIN table \subseteq Backups /\ 0 \in Versions /\ 0 \in 0 .. MaxRows
  BY <1>1, FeedAssumption DEF Backups, Versions
<1>3. /\ NoGet \in GetType /\ Len(NoGet.got) <= PageSize /\ NoGet.pc = "none" /\ NoGet.version = 0
      /\ NoGet.skip = 0
  BY NoGetType
<1>4. FeedTypeOK
  <2>1. table \in [DOMAIN table -> Outcomes \cup {"IN_PROGRESS"}]
    BY <1>1 DEF Outcomes
  <2>2. get \in [Gets -> GetType] /\ \A n \in Gets : Len(get[n].got) <= PageSize
    BY <1>1, <1>3
  <2>3. feed \in Seq(Listing)
    BY <1>1
  <2>4. QED
    BY <1>1, <1>2, <2>1, <2>2, <2>3 DEF FeedTypeOK
<1>5. NoneAhead
  BY <1>1, <1>3 DEF NoneAhead
<1>6. PagesRead
  BY <1>1, <1>3 DEF PagesRead
<1>7. ListedFirst
  <2>1. Len(InOrder) \in Nat
    BY <1>4, InOrderType
  <2>2. Len(feed) = 0 /\ DOMAIN feed = {}
    BY <1>1
  <2>3. QED BY <1>1, <2>1, <2>2 DEF ListedFirst
<1>8. SkipsRight
  BY <1>1, <1>3 DEF SkipsRight
<1>9. QED
  BY <1>4, <1>5, <1>6, <1>7, <1>8 DEF FeedInv

(* Nothing that was listed or read before a change counts as current.      *)
LEMMA ChangesKeep ==
  ASSUME FeedInv, NEW fresh, Changes(fresh),
         fresh \in [DOMAIN fresh -> Outcomes \cup {"IN_PROGRESS"}], DOMAIN fresh \subseteq Backups
  PROVE  FeedInv'
<1>1. /\ version' = version + 1 /\ table' = fresh /\ version < MaxChanges
      /\ UNCHANGED <<view, feed, count, busy, get, feedOf>>
  BY DEF Changes
<1>2. version \in Nat /\ version' \in Versions
  BY <1>1, FeedAssumption DEF FeedInv, FeedTypeOK, Versions
<1>3. FeedTypeOK'
  BY <1>1, <1>2 DEF FeedInv, FeedTypeOK
<1>4. \A n \in Gets : get[n].version \in Versions /\ get[n].version <= version
  BY DEF FeedInv, FeedTypeOK, GetType, NoneAhead
<1>5. feedOf <= version /\ feedOf \in Int
  BY DEF FeedInv, NoneAhead, FeedTypeOK, Versions, Mixed
<1>6. NoneAhead'
  BY <1>1, <1>2, <1>4, <1>5 DEF NoneAhead, Versions
<1>7. PagesRead'
  BY <1>1, <1>2, <1>4 DEF PagesRead, Versions
<1>8. ListedFirst'
  BY <1>1, <1>2, <1>5 DEF ListedFirst
<1>9. SkipsRight'
  BY <1>1 DEF FeedInv, SkipsRight
<1>10. QED
  BY <1>3, <1>6, <1>7, <1>8, <1>9 DEF FeedInv

LEMMA TableChangesKeep ==
  ASSUME FeedInv, BackupBegins \/ BackupOver \/ BackupPruned
  PROVE  FeedInv'
<1> DEFINE S == Outcomes \cup {"IN_PROGRESS"}
<1>1. table \in [DOMAIN table -> S] /\ DOMAIN table \subseteq Backups
  BY DEF FeedInv, FeedTypeOK
<1>2. CASE BackupBegins
  <2>1. PICK b \in Backups :
          Changes([k \in DOMAIN table \cup {b} |-> IF k = b THEN "IN_PROGRESS" ELSE table[k]])
    BY <1>2 DEF BackupBegins
  <2> DEFINE fresh == [k \in DOMAIN table \cup {b} |-> IF k = b THEN "IN_PROGRESS" ELSE table[k]]
  <2>2. fresh \in [DOMAIN fresh -> S] /\ DOMAIN fresh \subseteq Backups
    BY <1>1
  <2> HIDE DEF fresh
  <2>3. QED BY <2>1, <2>2, ChangesKeep DEF fresh
<1>3. CASE BackupOver
  <2>1. PICK b \in DOMAIN table, s \in Outcomes : Changes([table EXCEPT ![b] = s])
    BY <1>3 DEF BackupOver
  <2> DEFINE fresh == [table EXCEPT ![b] = s]
  <2>2. fresh \in [DOMAIN fresh -> S] /\ DOMAIN fresh \subseteq Backups
    BY <1>1
  <2> HIDE DEF fresh
  <2>3. QED BY <2>1, <2>2, ChangesKeep DEF fresh
<1>4. CASE BackupPruned
  <2>1. PICK b \in DOMAIN table : Changes([k \in DOMAIN table \ {b} |-> table[k]])
    BY <1>4 DEF BackupPruned
  <2> DEFINE fresh == [k \in DOMAIN table \ {b} |-> table[k]]
  <2>2. fresh \in [DOMAIN fresh -> S] /\ DOMAIN fresh \subseteq Backups
    BY <1>1
  <2> HIDE DEF fresh
  <2>3. QED BY <2>1, <2>2, ChangesKeep DEF fresh
<1>5. QED
  BY <1>2, <1>3, <1>4

(* What is listed stays so while neither it nor the rows change. *)
LEMMA InOrderStays ==
  ASSUME UNCHANGED table
  PROVE  InOrder' = InOrder /\ \A skip : PageFrom(skip)' = PageFrom(skip)
BY DEF InOrder, PageFrom

LEMMA ReadKeeps ==
  ASSUME FeedInv, NEW n \in Gets, ListBackups(n)
  PROVE  FeedInv'
<1> DEFINE g == [get[n] EXCEPT !.pc = "read", !.version = version,
                   !.got = PageFrom(get[n].skip), !.count = Cardinality(DOMAIN table)]
<1>1. get' = [get EXCEPT ![n] = g] /\ UNCHANGED <<table, version, view, feed, count, busy, feedOf>>
  BY DEF ListBackups
<1>2. get[n] \in GetType /\ version \in Versions /\ get[n].skip \in Nat
  BY DEF FeedInv, FeedTypeOK, GetType
<1>3. /\ Cardinality(DOMAIN table) \in 0 .. MaxRows
      /\ PageFrom(get[n].skip) \in Seq(Listing) /\ Len(PageFrom(get[n].skip)) <= PageSize
  BY <1>2, InOrderType, PageType DEF FeedInv
<1>4. /\ g \in GetType /\ g.pc = "read" /\ g.version = version /\ g.skip = get[n].skip
      /\ g.got = PageFrom(get[n].skip) /\ g.count = Cardinality(DOMAIN table)
      /\ g.reset = get[n].reset
  BY <1>2, <1>3 DEF GetType
<1> HIDE DEF g
<1>5. get' \in [Gets -> GetType] /\ get'[n] = g /\ \A m \in Gets \ {n} : get'[m] = get[m]
  BY <1>1, <1>4 DEF FeedInv, FeedTypeOK
<1>6. FeedTypeOK'
  <2>1. \A m \in Gets : Len(get'[m].got) <= PageSize
    BY <1>3, <1>4, <1>5 DEF FeedInv, FeedTypeOK
  <2>2. QED BY <1>1, <1>5, <2>1 DEF FeedInv, FeedTypeOK
<1>7. NoneAhead'
  BY <1>1, <1>2, <1>4, <1>5 DEF FeedInv, NoneAhead, Versions
<1>8. PagesRead'
  <2>1. InOrder' = InOrder /\ \A skip : PageFrom(skip)' = PageFrom(skip)
    BY <1>1, InOrderStays
  <2>2. ASSUME NEW m \in Gets, get'[m].pc = "read", get'[m].version = version
        PROVE  get'[m].got = PageFrom(get'[m].skip) /\ get'[m].count = Cardinality(DOMAIN table)
    BY <1>4, <1>5, <2>2 DEF FeedInv, PagesRead
  <2>3. QED BY <1>1, <2>1, <2>2 DEF PagesRead, PageFrom, InOrder
<1>9. ListedFirst'
  BY <1>1, InOrderStays DEF FeedInv, ListedFirst
<1>10. SkipsRight'
  BY <1>4, <1>5 DEF FeedInv, SkipsRight
<1>11. QED
  BY <1>6, <1>7, <1>8, <1>9, <1>10 DEF FeedInv

(* A request that is sent or over has no page with it. *)
LEMMA GetMovesKeeps ==
  ASSUME FeedInv, NEW n \in Gets, NEW g \in GetType, get' = [get EXCEPT ![n] = g],
         g.pc # "read", g.version = 0, g.got = <<>>, g.reset => g.skip = 0,
         UNCHANGED <<table, version>>
  PROVE  /\ get' \in [Gets -> GetType] /\ \A m \in Gets : Len(get'[m].got) <= PageSize
         /\ \A m \in Gets : get'[m].version <= version
         /\ PagesRead' /\ SkipsRight'
<1>1. get' \in [Gets -> GetType] /\ get'[n] = g /\ \A m \in Gets \ {n} : get'[m] = get[m]
  BY DEF FeedInv, FeedTypeOK
<1>2. \A m \in Gets : Len(get'[m].got) <= PageSize
  BY <1>1, FeedAssumption DEF FeedInv, FeedTypeOK
<1>3. \A m \in Gets : get'[m].version <= version
  BY <1>1 DEF FeedInv, FeedTypeOK, NoneAhead, Versions
<1>4. PagesRead'
  <2>1. ASSUME NEW m \in Gets, get'[m].pc = "read", get'[m].version = version
        PROVE  get'[m].got = PageFrom(get'[m].skip) /\ get'[m].count = Cardinality(DOMAIN table)
    BY <1>1, <2>1 DEF FeedInv, PagesRead
  <2>2. QED BY <2>1 DEF PagesRead, PageFrom, InOrder
<1>5. SkipsRight'
  BY <1>1 DEF FeedInv, SkipsRight
<1>6. QED
  BY <1>1, <1>2, <1>3, <1>4, <1>5

LEMMA FeedSendKeeps ==
  ASSUME FeedInv, NEW reset \in BOOLEAN, NEW skip \in Nat, reset => skip = 0, fetchBackupsFrom(skip, reset),
         view' \in {"agents", "all"}
  PROVE  FeedInv'
<1>1. PICK n \in Gets : get' = [get EXCEPT ![n] = [NoGet EXCEPT !.pc = "sent", !.reset = reset, !.skip = skip]]
  BY DEF fetchBackupsFrom
<1>2. busy' = TRUE /\ UNCHANGED <<table, version, feed, count, feedOf>>
  BY DEF fetchBackupsFrom
<1> DEFINE g == [NoGet EXCEPT !.pc = "sent", !.reset = reset, !.skip = skip]
<1>3. /\ g \in GetType /\ g.pc = "sent" /\ g.version = 0 /\ g.got = <<>>
      /\ g.skip = skip /\ g.reset = reset
  <2> HIDE DEF NoGet
  <2>1. NoGet \in GetType /\ NoGet.version = 0 /\ NoGet.got = <<>>
    BY NoGetType
  <2>2. QED BY <2>1 DEF GetType
<1> HIDE DEF g
<1>4. get' = [get EXCEPT ![n] = g]
  BY <1>1 DEF g
<1>5. /\ get' \in [Gets -> GetType] /\ \A m \in Gets : Len(get'[m].got) <= PageSize
      /\ \A m \in Gets : get'[m].version <= version
      /\ PagesRead' /\ SkipsRight'
  BY <1>2, <1>3, <1>4, GetMovesKeeps
<1>6. FeedTypeOK'
  BY <1>2, <1>5 DEF FeedInv, FeedTypeOK
<1>7. NoneAhead'
  BY <1>2, <1>5 DEF FeedInv, NoneAhead
<1>8. ListedFirst'
  BY <1>2, InOrderStays DEF FeedInv, ListedFirst
<1>9. QED
  BY <1>5, <1>6, <1>7, <1>8 DEF FeedInv

LEMMA OverType ==
  LET g == [NoGet EXCEPT !.pc = "done"] IN
  g \in GetType /\ g.pc = "done" /\ g.version = 0 /\ g.got = <<>> /\ g.skip = 0
BY NoGetType DEF GetType

LEMMA FailKeeps ==
  ASSUME FeedInv, NEW n \in Gets, FeedFails(n)
  PROVE  FeedInv'
<1> DEFINE g == [NoGet EXCEPT !.pc = "done"]
<1>1. /\ get' = [get EXCEPT ![n] = g] /\ busy' = FALSE
      /\ UNCHANGED <<table, version, view, feed, count, feedOf>>
  BY DEF FeedFails
<1>2. g \in GetType /\ g.pc = "done" /\ g.version = 0 /\ g.got = <<>> /\ g.skip = 0
  BY OverType
<1> HIDE DEF g
<1>5. /\ get' \in [Gets -> GetType] /\ \A m \in Gets : Len(get'[m].got) <= PageSize
      /\ \A m \in Gets : get'[m].version <= version
      /\ PagesRead' /\ SkipsRight'
  BY <1>1, <1>2, GetMovesKeeps
<1>6. FeedTypeOK'
  BY <1>1, <1>5 DEF FeedInv, FeedTypeOK
<1>7. NoneAhead'
  BY <1>1, <1>5 DEF FeedInv, NoneAhead
<1>8. ListedFirst'
  BY <1>1, InOrderStays DEF FeedInv, ListedFirst
<1>9. QED
  BY <1>5, <1>6, <1>7, <1>8 DEF FeedInv

(* A page of the rows as they are, put where the list ends, goes on in     *)
(* their order; one that replaces the list begins it.                      *)
LEMMA SetKeeps ==
  ASSUME FeedInv, NEW n \in Gets, SetBackups(n)
  PROVE  FeedInv'
<1> DEFINE g == get[n]
           done == [NoGet EXCEPT !.pc = "done"]
<1>1. /\ g.pc = "read" /\ get' = [get EXCEPT ![n] = done] /\ busy' = FALSE /\ count' = g.count
      /\ UNCHANGED <<table, version, view>>
      /\ g.reset => feed' = g.got /\ feedOf' = g.version
      /\ ~g.reset => /\ feed' = feed \o g.got
                     /\ feedOf' = IF g.version = feedOf /\ g.skip = Len(feed) THEN feedOf ELSE Mixed
  BY DEF SetBackups
<1>2. /\ g \in GetType /\ g.reset \in BOOLEAN /\ g.got \in Seq(Listing) /\ g.version \in Versions
      /\ g.count \in 0 .. MaxRows /\ g.skip \in Nat /\ feed \in Seq(Listing)
      /\ version \in Nat /\ Mixed \notin Nat /\ Versions \subseteq Nat
  BY DEF FeedInv, FeedTypeOK, GetType, Versions, Mixed
<1>3. done \in GetType /\ done.pc = "done" /\ done.version = 0 /\ done.got = <<>> /\ done.skip = 0
  BY OverType
<1> HIDE DEF done
<1>4. /\ get' \in [Gets -> GetType] /\ \A m \in Gets : Len(get'[m].got) <= PageSize
      /\ \A m \in Gets : get'[m].version <= version
      /\ PagesRead' /\ SkipsRight'
  BY <1>1, <1>3, GetMovesKeeps
<1>5. feed' \in Seq(Listing) /\ feedOf' \in Versions \cup {Mixed} /\ feedOf' <= version
  <2>1. g.version <= version /\ feedOf \in Versions \cup {Mixed}
    BY DEF FeedInv, FeedTypeOK, NoneAhead
  <2>2. Mixed <= version /\ feedOf <= version
    BY <1>2 DEF Mixed, FeedInv, NoneAhead
  <2>3. CASE g.reset
    BY <1>1, <1>2, <2>1, <2>3
  <2>4. CASE ~g.reset
    <3>1. feed' \in Seq(Listing)
      <4>1. feed' = feed \o g.got
        BY <1>1, <2>4
      <4>2. QED BY <1>2, <4>1, ConcatProperties
    <3>2. feedOf' = feedOf \/ feedOf' = Mixed
      BY <1>1, <2>4
    <3>3. QED BY <2>1, <2>2, <3>1, <3>2
  <2>5. QED BY <2>3, <2>4
<1>6. FeedTypeOK'
  BY <1>1, <1>2, <1>4, <1>5 DEF FeedInv, FeedTypeOK
<1>7. NoneAhead'
  BY <1>1, <1>4, <1>5 DEF NoneAhead
<1>8. ASSUME feedOf' = version
      PROVE  /\ Len(feed') <= Len(InOrder)
             /\ \A i \in DOMAIN feed' : feed'[i] = InOrder[i]
             /\ count' = Cardinality(DOMAIN table)
  <2>1. g.version = version
    BY <1>1, <1>2, <1>8
  <2>2. g.got = PageFrom(g.skip) /\ g.count = Cardinality(DOMAIN table)
    BY <1>1, <2>1 DEF FeedInv, PagesRead
  <2>3. /\ Len(g.got) \in Nat /\ Len(InOrder) \in Nat /\ DOMAIN g.got = 1 .. Len(g.got)
        /\ g.skip <= Len(InOrder) => g.skip + Len(g.got) <= Len(InOrder)
        /\ \A i \in 1 .. Len(g.got) : g.got[i] = InOrder[g.skip + i]
    <3>1. InOrder \in Seq(Listing) /\ FeedTypeOK
      BY InOrderType DEF FeedInv
    <3>2. /\ g.skip <= Len(InOrder) => g.skip + Len(PageFrom(g.skip)) <= Len(InOrder)
          /\ \A i \in 1 .. Len(PageFrom(g.skip)) : PageFrom(g.skip)[i] = InOrder[g.skip + i]
      BY <1>2, <3>1, PageType
    <3>3. Len(InOrder) \in Nat /\ Len(g.got) \in Nat /\ DOMAIN g.got = 1 .. Len(g.got)
      BY <1>2, <3>1
    <3>4. QED BY <2>2, <3>2, <3>3
  <2>4. CASE g.reset
    <3>1. g.skip = 0 /\ feed' = g.got
      BY <1>1, <2>4 DEF FeedInv, SkipsRight
    <3>2. QED BY <1>1, <2>2, <2>3, <3>1
  <2>5. CASE ~g.reset
    <3>1. feed' = feed \o g.got /\ g.skip = Len(feed) /\ feedOf = version
      BY <1>1, <1>2, <1>8, <2>5
    <3>2. Len(feed) <= Len(InOrder) /\ \A i \in DOMAIN feed : feed[i] = InOrder[i]
      BY <3>1 DEF FeedInv, ListedFirst
    <3>3. /\ DOMAIN feed = 1 .. Len(feed) /\ Len(feed) \in Nat
          /\ Len(feed') = Len(feed) + Len(g.got) /\ DOMAIN feed' = 1 .. Len(feed) + Len(g.got)
          /\ \A i \in DOMAIN feed' : feed'[i] = IF i <= Len(feed) THEN feed[i] ELSE g.got[i - Len(feed)]
      BY <1>2, <3>1
    <3>4. ASSUME NEW i \in DOMAIN feed' PROVE feed'[i] = InOrder[i]
      <4>1. CASE i <= Len(feed)
        BY <3>2, <3>3, <4>1
      <4>2. CASE ~ (i <= Len(feed))
        <5>1. i - Len(feed) \in 1 .. Len(g.got) /\ g.skip + (i - Len(feed)) = i
          BY <3>1, <3>3, <2>3, <4>2
        <5>2. QED BY <2>3, <3>3, <4>2, <5>1
      <4>3. QED BY <4>1, <4>2
    <3>5. Len(feed') <= Len(InOrder)
      BY <2>3, <3>1, <3>2, <3>3
    <3>6. QED BY <1>1, <2>2, <3>4, <3>5
  <2>6. QED BY <1>2, <2>4, <2>5
<1>9. ListedFirst'
  <2>1. InOrder' = InOrder /\ DOMAIN table' = DOMAIN table /\ version' = version
    BY <1>1, InOrderStays
  <2>2. QED BY <1>8, <2>1 DEF ListedFirst
<1>10. QED
  BY <1>4, <1>6, <1>7, <1>9 DEF FeedInv

LEMMA FeedNextKeeps == FeedInv /\ [FeedNext]_feedVars => FeedInv'
<1> SUFFICES ASSUME FeedInv, [FeedNext]_feedVars PROVE FeedInv'
  OBVIOUS
<1>1. CASE BackupBegins \/ BackupOver \/ BackupPruned
  BY <1>1, TableChangesKeep
<1>2. CASE ShowAll
  BY <1>2, FeedSendKeeps DEF ShowAll, fetchBackups
<1>3. CASE LoadMore
  <2>1. Len(feed) \in Nat /\ view' \in {"agents", "all"}
    BY <1>3 DEF LoadMore, FeedInv, FeedTypeOK
  <2>2. fetchBackupsFrom(Len(feed), FALSE)
    BY <1>3 DEF LoadMore, fetchBackups
  <2>3. QED BY <2>1, <2>2, FeedSendKeeps
<1>4. CASE ShowAgents
  BY <1>4 DEF ShowAgents, FeedInv, FeedTypeOK, NoneAhead, PagesRead, ListedFirst, SkipsRight,
              InOrder, PageFrom
<1>5. ASSUME NEW n \in Gets, ListBackups(n) PROVE FeedInv'
  BY <1>5, ReadKeeps
<1>6. ASSUME NEW n \in Gets, SetBackups(n) PROVE FeedInv'
  BY <1>6, SetKeeps
<1>7. ASSUME NEW n \in Gets, FeedFails(n) PROVE FeedInv'
  BY <1>7, FailKeeps
<1>8. CASE UNCHANGED feedVars
  BY <1>8 DEF feedVars, FeedInv, FeedTypeOK, NoneAhead, PagesRead, ListedFirst, SkipsRight,
              InOrder, PageFrom
<1>9. QED
  BY <1>1, <1>2, <1>3, <1>4, <1>5, <1>6, <1>7, <1>8 DEF FeedNext

LEMMA FeedInvImplies == FeedInv => FeedInOrder
<1> SUFFICES ASSUME FeedInv, feed # <<>>, feedOf = version PROVE FeedInOrder
  BY DEF FeedInOrder
<1>1. /\ Len(feed) <= Len(InOrder) /\ \A i \in DOMAIN feed : feed[i] = InOrder[i]
      /\ count = Cardinality(DOMAIN table)
  BY DEF FeedInv, ListedFirst
<1>2. /\ InOrder \in Seq(Listing) /\ Len(InOrder) = Cardinality(DOMAIN table) /\ Len(InOrder) \in Nat
      /\ \A i, j \in DOMAIN InOrder : i < j => InOrder[i].id > InOrder[j].id
  BY InOrderType DEF FeedInv
<1>3. DOMAIN feed \subseteq DOMAIN InOrder /\ Len(feed) \in Nat
  BY <1>1, <1>2 DEF FeedInv, FeedTypeOK
<1>4. \A i, j \in DOMAIN feed : i < j => feed[i].id > feed[j].id
  BY <1>1, <1>2, <1>3
<1>5. \A i \in DOMAIN feed : feed[i].id = InOrder[i].id /\ BackupRow(feed[i]) = BackupRow(InOrder[i])
  BY <1>1
<1>6. Len(feed) < count <=> Len(feed) # Cardinality(DOMAIN table)
  BY <1>1, <1>2, <1>3
<1>7. QED
  BY <1>1, <1>4, <1>5, <1>6 DEF FeedInOrder

LEMMA FeedInvariant == FeedSpec => []FeedInv
BY FeedInitInv, FeedNextKeeps, PTL DEF FeedSpec

LEMMA FeedTypes == FeedSpec => []FeedTypeOK
<1>1. FeedInv => FeedTypeOK
  BY DEF FeedInv
<1> QED
  BY <1>1, FeedInvariant, PTL

(* The feed of all the backups, for any number of rows, changes, requests  *)
(* and rows to a page: while the rows have not changed since its first     *)
(* page was read, it lists what comes first, each once.                    *)
THEOREM FeedListsInOrder == FeedSpec => []FeedInOrder
BY FeedInvariant, FeedInvImplies, PTL

-----------------------------------------------------------------------------
(* CardViews. *)

(* The fetches are made in turn, *)
FetchesInTurn ==
  \A m, n \in CardGets : m < n /\ cardGet[n].pc # "none" => cardGet[m].pc # "none"

(* the newest asks for the order that is chosen, unless it was due before, *)
NewestIsChosen ==
  ~outrun =>
    /\ due \in {"none", sortBy}
    /\ \A n \in CardGets :
         cardGet[n].pc # "none" /\ (\A m \in CardGets : m > n => cardGet[m].pc = "none") =>
           cardGet[n].sort = sortBy

(* and the cards stand in the order that the fetch they came from asked for. *)
CardsAsFetched ==
  /\ cardsOf = 0 => cards = <<>>
  /\ cardsOf # 0 => cardGet[cardsOf].pc = "done"
  /\ Len(cards) <= Cardinality(Cards)
  /\ \A i, j \in DOMAIN cards : i < j => Before(cardGet[cardsOf].sort, cards[i].id, cards[j].id)

SpinnerFetches == spinner => \E n \in CardGets : cardGet[n].pc = "sent"

CardsInv == CardsTypeOK /\ FetchesInTurn /\ NewestIsChosen /\ CardsAsFetched /\ SpinnerFetches

LEMMA CardsAreNumbers ==
  /\ Cardinality(Cards) \in Nat /\ Cards = 1 .. Cardinality(Cards) /\ Cards \subseteq Nat
  /\ ByName \in [Cards -> Nat]
<1>1. Cardinality(Cards) \in Nat
  BY CardsAssumption, FS_CardinalityType
<1>2. Cards = 1 .. Cardinality(Cards)
  BY CardsAssumption
<1>3. Cards \subseteq Nat
  BY <1>1, <1>2
<1>4. QED
  BY <1>1, <1>2, <1>3, CardsAssumption

LEMMA CardsInitInv == CardsInit => CardsInv
<1> SUFFICES ASSUME CardsInit PROVE CardsInv
  OBVIOUS
<1>1. /\ onServer = Cards \ {Cardinality(Cards)} /\ taken = 0 /\ lastBackup = [c \in Cards |-> 0]
      /\ kind = "none" /\ sortBy = "date" /\ searched = FALSE
      /\ cardGet = [n \in CardGets |-> NoCardGet] /\ due = "none"
      /\ cards = <<>> /\ cardsOf = 0 /\ spinner = FALSE /\ outrun = FALSE
  BY DEF CardsInit
<1>2. MaxTaken \in Nat /\ MaxCardGets \in Nat
  BY CardsAssumption
<1>3. CardsTypeOK
  <2>1. cards \in Seq(Card) /\ cardsOf \in 0 .. MaxCardGets /\ taken \in 0 .. MaxTaken
    BY <1>1, <1>2
  <2>2. lastBackup \in [Cards -> 0 .. MaxTaken]
    BY <1>1, <1>2
  <2>3. cardGet \in [CardGets -> [pc: {"none", "sent", "done"}, sort: SortOptions]]
    BY <1>1 DEF NoCardGet, SortOptions
  <2>4. {searched, spinner, outrun} \subseteq BOOLEAN
    BY <1>1
  <2>5. QED
    BY <1>1, <2>1, <2>2, <2>3, <2>4 DEF CardsTypeOK, SortOptions
<1>4. \A n \in CardGets : cardGet[n].pc = "none"
  BY <1>1 DEF NoCardGet
<1>5. Len(cards) = 0 /\ DOMAIN cards = {}
  BY <1>1
<1>6. QED
  BY <1>1, <1>3, <1>4, <1>5, CardsAreNumbers
     DEF CardsInv, FetchesInTurn, NewestIsChosen, CardsAsFetched, SpinnerFetches

(* k more fetches, in the order s. *)
LEMMA CardFetchIsNewest ==
  ASSUME CardsInv, NEW s \in SortOptions, NEW k \in {1, 2}, fetchCards(s, k)
  PROVE  /\ cardGet' \in [CardGets -> [pc: {"none", "sent", "done"}, sort: SortOptions]]
         /\ spinner' = TRUE /\ SpinnerFetches' /\ FetchesInTurn'
         /\ \A n \in CardGets : cardGet[n].pc # "none" => cardGet'[n] = cardGet[n]
         /\ \A n \in CardGets :
              cardGet'[n].pc # "none" /\ (\A m \in CardGets : m > n => cardGet'[m].pc = "none") =>
                cardGet'[n].sort = s
<1> DEFINE sent == [NoCardGet EXCEPT !.pc = "sent", !.sort = s]
<1>1. PICK n \in CardGets :
        /\ n + k - 1 \in CardGets /\ \A m \in CardGets : cardGet[m].pc = "none" <=> m >= n
        /\ cardGet' = [m \in CardGets |-> IF m \in n .. n + k - 1 THEN sent ELSE cardGet[m]]
  BY DEF fetchCards, NextGets
<1>2. sent.pc = "sent" /\ sent.sort = s /\ sent \in [pc: {"none", "sent", "done"}, sort: SortOptions]
  BY DEF NoCardGet
<1> HIDE DEF sent
<1>3. cardGet \in [CardGets -> [pc: {"none", "sent", "done"}, sort: SortOptions]] /\ CardGets \subseteq Nat
  BY DEF CardsInv, CardsTypeOK, CardGets
<1>4. cardGet' \in [CardGets -> [pc: {"none", "sent", "done"}, sort: SortOptions]]
  BY <1>1, <1>2, <1>3
<1>5. \A m \in CardGets :
        /\ m \in n .. n + k - 1 => cardGet'[m] = sent
        /\ m \notin n .. n + k - 1 => cardGet'[m] = cardGet[m]
  BY <1>1
<1>6. \A m \in CardGets : cardGet'[m].pc # "none" <=> m <= n + k - 1
  BY <1>1, <1>2, <1>3, <1>5
<1>7. FetchesInTurn'
  BY <1>1, <1>3, <1>6 DEF FetchesInTurn
<1>8. n \in n .. n + k - 1 /\ n + k - 1 \in n .. n + k - 1
  BY <1>1, <1>3
<1>9. spinner' = TRUE /\ SpinnerFetches'
  BY <1>2, <1>5, <1>8 DEF fetchCards, SpinnerFetches
<1>10. \A m \in CardGets : cardGet[m].pc # "none" => cardGet'[m] = cardGet[m]
  BY <1>1, <1>3, <1>5
<1>11. ASSUME NEW p \in CardGets, cardGet'[p].pc # "none",
              \A m \in CardGets : m > p => cardGet'[m].pc = "none"
       PROVE  cardGet'[p].sort = s
  <2>1. p = n + k - 1
    BY <1>1, <1>3, <1>6, <1>11
  <2>2. QED
    BY <1>2, <1>5, <1>8, <2>1
<1>12. QED
  BY <1>4, <1>7, <1>9, <1>10, <1>11

(* What the cards were fetched with stays. *)
LEMMA AsFetchedStays ==
  ASSUME CardsInv, \A n \in CardGets : cardGet[n].pc # "none" => cardGet'[n] = cardGet[n],
         UNCHANGED <<cards, cardsOf>>
  PROVE  CardsAsFetched'
<1>1. CASE cardsOf = 0
  BY <1>1 DEF CardsInv, CardsAsFetched
<1>2. CASE cardsOf # 0
  <2>1. cardsOf \in CardGets /\ cardGet[cardsOf].pc = "done"
    BY <1>2, CardsAssumption DEF CardsInv, CardsTypeOK, CardGets, CardsAsFetched
  <2>2. cardGet'[cardsOf] = cardGet[cardsOf]
    BY <2>1
  <2>3. QED
    BY <1>2, <2>1, <2>2 DEF CardsInv, CardsAsFetched, Before
<1>3. QED
  BY <1>1, <1>2

LEMMA ServerOrder ==
  ASSUME NEW S \in SUBSET Cards, NEW s
  PROVE  StrictOrder(S, {p \in Cards \X Cards : Before(s, p[1], p[2])})
<1> DEFINE R == {p \in Cards \X Cards : Before(s, p[1], p[2])}
<1>1. \A c \in Cards : c \in Nat /\ ByName[c] \in Nat
  BY CardsAreNumbers
<1>2. \A a, b \in Cards : <<a, b>> \in R <=> Before(s, a, b)
  OBVIOUS
<1> HIDE DEF R
<1>3. \A x, y \in S : x # y => <<x, y>> \in R \/ <<y, x>> \in R
  BY <1>1, <1>2 DEF Before
<1>4. \A x \in S : <<x, x>> \notin R
  BY <1>1, <1>2 DEF Before
<1>5. \A x, y, z \in S : <<x, y>> \in R /\ <<y, z>> \in R => <<x, z>> \in R
  BY <1>1, <1>2 DEF Before
<1>6. QED
  BY <1>3, <1>4, <1>5 DEF StrictOrder, R

LEMMA ListedCards ==
  ASSUME CardsTypeOK, NEW s
  PROVE  /\ ListCards(s) \in Seq(Card) /\ Len(ListCards(s)) <= Cardinality(Cards)
         /\ \A i, j \in DOMAIN ListCards(s) : i < j => Before(s, ListCards(s)[i].id, ListCards(s)[j].id)
<1> DEFINE R == {p \in Cards \X Cards : Before(s, p[1], p[2])}
           n == Cardinality(onServer)
           ids == SortedBy(onServer, R)
<1>1. onServer \in SUBSET Cards /\ lastBackup \in [Cards -> 0 .. MaxTaken]
  BY DEF CardsTypeOK
<1>2. IsFiniteSet(onServer) /\ n <= Cardinality(Cards)
  BY <1>1, CardsAssumption, FS_Subset
<1>3. StrictOrder(onServer, R)
  BY <1>1, ServerOrder
<1>4. \A p \in R : Before(s, p[1], p[2])
  OBVIOUS
<1>5. ListCards(s) = [i \in DOMAIN ids |-> [id |-> ids[i], last |-> lastBackup[ids[i]]]]
  BY DEF ListCards
<1> HIDE DEF R
<1>6. /\ n \in Nat /\ ids \in [1 .. n -> onServer]
      /\ \A i, j \in 1 .. n : i < j => <<ids[i], ids[j]>> \in R
  BY <1>2, <1>3, SortedIsSorted
<1> HIDE DEF ids, n
<1>7. ListCards(s) \in [1 .. n -> Card]
  BY <1>1, <1>5, <1>6 DEF Card
<1>8. ListCards(s) \in Seq(Card) /\ Len(ListCards(s)) = n /\ DOMAIN ListCards(s) = 1 .. n
  BY <1>6, <1>7
<1>9. \A i \in 1 .. n : ListCards(s)[i].id = ids[i]
  BY <1>5, <1>6
<1>10. ASSUME NEW i \in 1 .. n, NEW j \in 1 .. n, i < j
       PROVE  Before(s, ListCards(s)[i].id, ListCards(s)[j].id)
  BY <1>4, <1>6, <1>9, <1>10
<1>11. QED
  BY <1>2, <1>8, <1>10 DEF n

(* The page fetches, with what was chosen. *)
LEMMA FetchKeeps ==
  ASSUME CardsInv, NEW k \in {1, 2}, sortBy' \in SortOptions, due' \in SortOptions \cup {"none"},
         NEW s \in SortOptions, fetchCards(s, k), outrun' \in BOOLEAN,
         ~outrun' => s = sortBy' /\ due' \in {"none", sortBy'},
         onServer' \subseteq Cards, taken' \in 0 .. MaxTaken, lastBackup' \in [Cards -> 0 .. MaxTaken],
         kind' \in {"none", "agents", "jobs"}, UNCHANGED <<searched, cards, cardsOf>>
  PROVE  CardsInv'
<1>1. /\ cardGet' \in [CardGets -> [pc: {"none", "sent", "done"}, sort: SortOptions]]
      /\ spinner' = TRUE /\ SpinnerFetches' /\ FetchesInTurn'
      /\ \A n \in CardGets : cardGet[n].pc # "none" => cardGet'[n] = cardGet[n]
      /\ \A n \in CardGets :
           cardGet'[n].pc # "none" /\ (\A m \in CardGets : m > n => cardGet'[m].pc = "none") =>
             cardGet'[n].sort = s
  BY CardFetchIsNewest
<1>2. CardsTypeOK'
  BY <1>1 DEF CardsInv, CardsTypeOK
<1>3. NewestIsChosen'
  BY <1>1 DEF NewestIsChosen
<1>4. CardsAsFetched'
  BY <1>1, AsFetchedStays
<1>5. QED
  BY <1>1, <1>2, <1>3, <1>4 DEF CardsInv

(* A step that is not about fetches. *)
LEMMA QuietKeeps ==
  ASSUME CardsInv, UNCHANGED <<cardGet, sortBy, cards, cardsOf, spinner, outrun>>,
         due' = due \/ due' = sortBy, due' \in SortOptions \cup {"none"}, searched' \in BOOLEAN,
         onServer' \subseteq Cards, taken' \in 0 .. MaxTaken, lastBackup' \in [Cards -> 0 .. MaxTaken],
         kind' \in {"none", "agents", "jobs"}
  PROVE  CardsInv'
<1>1. CardsTypeOK'
  BY DEF CardsInv, CardsTypeOK
<1>2. FetchesInTurn' /\ SpinnerFetches'
  BY DEF CardsInv, FetchesInTurn, SpinnerFetches
<1>3. NewestIsChosen'
  BY DEF CardsInv, NewestIsChosen
<1>4. CardsAsFetched'
  BY AsFetchedStays
<1>5. QED
  BY <1>1, <1>2, <1>3, <1>4 DEF CardsInv

LEMMA SetCardsKeeps ==
  ASSUME CardsInv, NEW n \in CardGets, SetCards(n)
  PROVE  CardsInv'
<1>1. /\ cardGet[n].pc = "sent" /\ cardGet' = [cardGet EXCEPT ![n].pc = "done"] /\ spinner' = FALSE
      /\ UNCHANGED <<onServer, taken, lastBackup, kind, sortBy, searched, due, outrun>>
      /\ \/ cards' = ListCards(cardGet[n].sort) /\ cardsOf' = n
         \/ UNCHANGED <<cards, cardsOf>>
  BY DEF SetCards, worldOfCards
<1>2. cardGet \in [CardGets -> [pc: {"none", "sent", "done"}, sort: SortOptions]]
  BY DEF CardsInv, CardsTypeOK
<1>3. /\ cardGet' \in [CardGets -> [pc: {"none", "sent", "done"}, sort: SortOptions]]
      /\ cardGet'[n].pc = "done" /\ cardGet'[n].sort = cardGet[n].sort
      /\ \A m \in CardGets \ {n} : cardGet'[m] = cardGet[m]
  BY <1>1, <1>2
<1>4. \A m \in CardGets : (cardGet'[m].pc = "none" <=> cardGet[m].pc = "none") /\ cardGet'[m].sort = cardGet[m].sort
  BY <1>1, <1>3
<1>5. /\ ListCards(cardGet[n].sort) \in Seq(Card) /\ Len(ListCards(cardGet[n].sort)) <= Cardinality(Cards)
      /\ \A i, j \in DOMAIN ListCards(cardGet[n].sort) : i < j =>
           Before(cardGet[n].sort, ListCards(cardGet[n].sort)[i].id, ListCards(cardGet[n].sort)[j].id)
  BY ListedCards DEF CardsInv
<1>6. n \in 1 .. MaxCardGets /\ n # 0
  BY CardsAssumption DEF CardGets
<1>7. CardsTypeOK'
  <2>1. cards' \in Seq(Card) /\ cardsOf' \in 0 .. MaxCardGets
    BY <1>1, <1>5, <1>6, CardsAssumption DEF CardsInv, CardsTypeOK
  <2>2. QED
    BY <1>1, <1>3, <2>1 DEF CardsInv, CardsTypeOK
<1>8. FetchesInTurn'
  BY <1>4 DEF CardsInv, FetchesInTurn
<1>9. NewestIsChosen'
  BY <1>1, <1>4 DEF CardsInv, NewestIsChosen
<1>10. SpinnerFetches'
  BY <1>1 DEF SpinnerFetches
<1>11. CardsAsFetched'
  <2>1. CASE cards' = ListCards(cardGet[n].sort) /\ cardsOf' = n
    BY <1>3, <1>5, <1>6, <2>1 DEF CardsAsFetched, Before
  <2>2. CASE UNCHANGED <<cards, cardsOf>>
    <3>1. CASE cardsOf = 0
      BY <2>2, <3>1 DEF CardsInv, CardsAsFetched
    <3>2. CASE cardsOf # 0
      <4>1. cardsOf \in CardGets /\ cardGet[cardsOf].pc = "done"
        BY <3>2, CardsAssumption DEF CardsInv, CardsTypeOK, CardGets, CardsAsFetched
      <4>2. cardGet'[cardsOf] = cardGet[cardsOf]
        BY <1>1, <1>3, <4>1
      <4>3. QED BY <2>2, <3>2, <4>1, <4>2 DEF CardsInv, CardsAsFetched, Before
    <3>3. QED BY <3>1, <3>2
  <2>3. QED BY <1>1, <2>1, <2>2
<1>12. QED
  BY <1>7, <1>8, <1>9, <1>10, <1>11 DEF CardsInv

LEMMA CardsNextKeeps == CardsInv /\ [CardsNext]_cardVars => CardsInv'
<1> SUFFICES ASSUME CardsInv, [CardsNext]_cardVars PROVE CardsInv'
  OBVIOUS
<1> USE DEF worldOfCards
<1>0. /\ onServer \subseteq Cards /\ taken \in 0 .. MaxTaken /\ lastBackup \in [Cards -> 0 .. MaxTaken]
      /\ kind \in {"none", "agents", "jobs"} /\ sortBy \in SortOptions
      /\ searched \in BOOLEAN /\ outrun \in BOOLEAN /\ due \in SortOptions \cup {"none"}
      /\ MaxTaken \in Nat
      /\ ~outrun => due \in {"none", sortBy}
  BY CardsAssumption DEF CardsInv, CardsTypeOK, NewestIsChosen
<1>1. CASE CardAdded
  <2>1. onServer' \subseteq Cards
    BY <1>0, <1>1 DEF CardAdded
  <2>2. QED BY <1>0, <1>1, <2>1, QuietKeeps DEF CardAdded
<1>2. CASE applySearch
  BY <1>0, <1>2, QuietKeeps DEF applySearch
<1>3. CASE clearSearch
  BY <1>0, <1>3, QuietKeeps DEF clearSearch
<1>4. CASE TriggerThenFetch
  BY <1>0, <1>4, QuietKeeps DEF TriggerThenFetch
<1>5. CASE LateFetch
  <2>1. due \in SortOptions /\ fetchCards(due, 1) /\ due' = "none" /\ 1 \in {1, 2}
    BY <1>0, <1>5 DEF LateFetch
  <2>2. QED BY <1>0, <1>5, <2>1, FetchKeeps DEF LateFetch
<1>6. ASSUME NEW c \in Cards, BackupTaken(c) PROVE CardsInv'
  <2>1. taken' \in 0 .. MaxTaken /\ lastBackup' \in [Cards -> 0 .. MaxTaken]
    BY <1>0, <1>6 DEF BackupTaken
  <2>2. CASE kind = "jobs"
    BY <1>0, <1>6, <2>1, <2>2, FetchKeeps DEF BackupTaken
  <2>3. CASE kind # "jobs"
    BY <1>0, <1>6, <2>1, <2>3, QuietKeeps DEF BackupTaken
  <2>4. QED BY <2>2, <2>3
<1>7. ASSUME NEW k \in {"agents", "jobs"}, MountCards(k) PROVE CardsInv'
  BY <1>0, <1>7, FetchKeeps DEF MountCards
<1>8. ASSUME NEW s \in SortOptions, SortBy(s) PROVE CardsInv'
  <2>1. outrun' \in BOOLEAN /\ (~outrun' => due' \in {"none", sortBy'})
    BY <1>0, <1>8 DEF SortBy
  <2>2. QED BY <1>0, <1>8, <2>1, FetchKeeps DEF SortBy
<1>9. ASSUME NEW n \in CardGets, SetCards(n) PROVE CardsInv'
  BY <1>9, SetCardsKeeps
<1>10. CASE UNCHANGED cardVars
  BY <1>0, <1>10, QuietKeeps DEF cardVars
<1>11. QED
  BY <1>1, <1>2, <1>3, <1>4, <1>5, <1>6, <1>7, <1>8, <1>9, <1>10 DEF CardsNext

(* The search keeps the order, and all of those it finds. *)
LEMMA FilterKeeps ==
  ASSUME CardsInv
  PROVE  /\ filteredCards \in Seq(Card) /\ Len(filteredCards) <= Cardinality(Cards)
         /\ \A i, j \in DOMAIN filteredCards : i < j =>
              Before(cardGet[cardsOf].sort, filteredCards[i].id, filteredCards[j].id)
         /\ {filteredCards[i] : i \in DOMAIN filteredCards} =
              {cards[i] : i \in {k \in DOMAIN cards : searched => cards[k].id \in Found}}
<1>1. /\ cards \in Seq(Card) /\ Len(cards) <= Cardinality(Cards) /\ Len(cards) \in Nat
      /\ DOMAIN cards = 1 .. Len(cards)
      /\ \A i, j \in DOMAIN cards : i < j => Before(cardGet[cardsOf].sort, cards[i].id, cards[j].id)
  BY DEF CardsInv, CardsTypeOK, CardsAsFetched
<1>2. CASE ~searched
  BY <1>1, <1>2 DEF filteredCards
<1>3. CASE searched
  <2> DEFINE I == {i \in DOMAIN cards : cards[i].id \in Found}
             at == Ascending(I)
             n == Cardinality(I)
  <2>1. filteredCards = Kept(cards, I) /\ I \in SUBSET DOMAIN cards
    BY <1>3 DEF filteredCards
  <2>2. I = {k \in DOMAIN cards : searched => cards[k].id \in Found}
    BY <1>3
  <2> HIDE DEF I, n, at
  <2>3. /\ n \in Nat /\ n <= Len(cards) /\ filteredCards \in Seq(Card) /\ Len(filteredCards) = n
        /\ at \in [1 .. n -> I]
        /\ \A k \in 1 .. n : filteredCards[k] = cards[at[k]]
        /\ \A j, k \in 1 .. n : j < k => at[j] < at[k]
        /\ \A i \in I : \E k \in 1 .. n : at[k] = i
    <3>1. /\ Cardinality(I) \in Nat /\ Cardinality(I) <= Len(cards)
          /\ Kept(cards, I) \in Seq(Card) /\ Len(Kept(cards, I)) = Cardinality(I)
          /\ Ascending(I) \in [1 .. Cardinality(I) -> I]
          /\ \A k \in 1 .. Cardinality(I) : Kept(cards, I)[k] = cards[Ascending(I)[k]]
          /\ \A j, k \in 1 .. Cardinality(I) : j < k => Ascending(I)[j] < Ascending(I)[k]
          /\ \A i \in I : \E k \in 1 .. Cardinality(I) : Ascending(I)[k] = i
      BY <1>1, <2>1, KeptIsKept
    <3> QED BY <2>1, <3>1 DEF n, at
  <2>4. DOMAIN filteredCards = 1 .. n /\ n <= Cardinality(Cards)
    BY <1>1, <2>3, CardsAreNumbers
  <2>5. ASSUME NEW i \in 1 .. n, NEW j \in 1 .. n, i < j
        PROVE  Before(cardGet[cardsOf].sort, filteredCards[i].id, filteredCards[j].id)
    <3>1. at[i] \in DOMAIN cards /\ at[j] \in DOMAIN cards /\ at[i] < at[j]
      BY <2>1, <2>3, <2>5
    <3>2. QED BY <1>1, <2>3, <3>1
  <2>6. {filteredCards[i] : i \in DOMAIN filteredCards} = {cards[i] : i \in I}
    BY <2>3, <2>4
  <2>7. QED
    BY <2>2, <2>3, <2>4, <2>5, <2>6
<1>4. QED
  BY <1>2, <1>3 DEF CardsInv, CardsTypeOK

(* The order by last backup moves the cards, and keeps each. *)
LEMMA ByLastMoves ==
  ASSUME NEW cs \in Seq(Card)
  PROVE  /\ SortedByLast(cs) \in Seq(Card) /\ Len(SortedByLast(cs)) = Len(cs)
         /\ \A i, j \in DOMAIN cs : i < j =>
              \E a, b \in DOMAIN cs :
                LastBefore(cs, a, b) /\ SortedByLast(cs)[i] = cs[a] /\ SortedByLast(cs)[j] = cs[b]
         /\ {SortedByLast(cs)[i] : i \in DOMAIN SortedByLast(cs)} = {cs[i] : i \in DOMAIN cs}
<1> DEFINE I == DOMAIN cs
           R == ByLast(cs)
           at == SortedBy(I, R)
           n == Len(cs)
<1>1. n \in Nat /\ I = 1 .. n
  OBVIOUS
<1>2. IsFiniteSet(I) /\ Cardinality(I) = n
  <2> HIDE DEF n
  <2> QED BY <1>1, CountUpTo
<1>3. \A i \in I : cs[i].last \in Int
  <2>1. \A i \in I : cs[i] \in Card
    BY <1>1, ElementOfSeq
  <2>2. QED BY <2>1 DEF Card
<1>4. \A a, b \in I : <<a, b>> \in R <=> LastBefore(cs, a, b)
  BY DEF ByLast
<1>6. SortedByLast(cs) = [i \in I |-> cs[at[i]]]
  BY DEF SortedByLast
<1> HIDE DEF R
<1>7. StrictOrder(I, R)
  <2>1. \A x, y \in I : x # y => <<x, y>> \in R \/ <<y, x>> \in R
    BY <1>1, <1>3, <1>4 DEF LastBefore
  <2>2. \A x \in I : <<x, x>> \notin R
    BY <1>1, <1>3, <1>4 DEF LastBefore
  <2>3. ASSUME NEW x \in I, NEW y \in I, NEW z \in I, <<x, y>> \in R, <<y, z>> \in R PROVE <<x, z>> \in R
    <3>1. LastBefore(cs, x, y) /\ LastBefore(cs, y, z)
      BY <1>4, <2>3
    <3>2. x \in Int /\ y \in Int /\ z \in Int /\ cs[x].last \in Int /\ cs[y].last \in Int /\ cs[z].last \in Int
      BY <1>1, <1>3
    <3>3. LastBefore(cs, x, z)
      BY <3>1, <3>2 DEF LastBefore
    <3>4. QED BY <1>4, <3>3
  <2>4. QED BY <2>1, <2>2, <2>3 DEF StrictOrder
<1> HIDE DEF I, n
<1>8. /\ at \in [1 .. n -> I]
      /\ \A i, j \in 1 .. n : i < j => <<at[i], at[j]>> \in R
      /\ \A x \in I : \E i \in 1 .. n : at[i] = x
  BY <1>2, <1>7, SortedIsSorted
<1> HIDE DEF at
<1>9. \A i \in I : cs[i] \in Card
  BY <1>1, ElementOfSeq DEF I, n
<1>10. SortedByLast(cs) \in [1 .. n -> Card]
  BY <1>1, <1>6, <1>8, <1>9
<1>11. SortedByLast(cs) \in Seq(Card) /\ Len(SortedByLast(cs)) = n /\ DOMAIN SortedByLast(cs) = 1 .. n
  BY <1>1, <1>10
<1>12. ASSUME NEW i \in I, NEW j \in I, i < j
       PROVE  \E a, b \in I : LastBefore(cs, a, b) /\ SortedByLast(cs)[i] = cs[a] /\ SortedByLast(cs)[j] = cs[b]
  <2>1. at[i] \in I /\ at[j] \in I /\ <<at[i], at[j]>> \in R
    BY <1>1, <1>8, <1>12
  <2>2. LastBefore(cs, at[i], at[j]) /\ SortedByLast(cs)[i] = cs[at[i]] /\ SortedByLast(cs)[j] = cs[at[j]]
    BY <1>4, <1>6, <2>1
  <2>3. QED BY <2>1, <2>2
<1>13. {SortedByLast(cs)[i] : i \in DOMAIN SortedByLast(cs)} = {cs[i] : i \in I}
  <2>1. \A i \in I : SortedByLast(cs)[i] = cs[at[i]] /\ at[i] \in I
    BY <1>1, <1>6, <1>8
  <2>2. \A i \in I : \E k \in I : SortedByLast(cs)[k] = cs[i]
    BY <1>1, <1>8, <2>1
  <2>3. DOMAIN SortedByLast(cs) = I
    BY <1>1, <1>11
  <2>4. QED BY <2>1, <2>2, <2>3
<1>14. QED
  BY <1>11, <1>12, <1>13 DEF I, n

LEMMA CardsInvImplies == CardsInv => CardsInOrder
<1> SUFFICES ASSUME CardsInv, CardsQuiet, LastGet, due = "none" PROVE CardsInOrder
  BY DEF CardsInOrder
<1> DEFINE f == filteredCards
<1>1. /\ f \in Seq(Card) /\ Len(f) <= Cardinality(Cards) /\ Cardinality(Cards) \in Nat
      /\ \A i, j \in DOMAIN f : i < j => Before(cardGet[cardsOf].sort, f[i].id, f[j].id)
      /\ {f[i] : i \in DOMAIN f} =
           {cards[i] : i \in {k \in DOMAIN cards : searched => cards[k].id \in Found}}
      /\ DOMAIN f = 1 .. Len(f) /\ Len(f) \in Nat
  <2>1. /\ f \in Seq(Card) /\ Len(f) <= Cardinality(Cards) /\ Cardinality(Cards) \in Nat
        /\ \A i, j \in DOMAIN f : i < j => Before(cardGet[cardsOf].sort, f[i].id, f[j].id)
        /\ {f[i] : i \in DOMAIN f} =
             {cards[i] : i \in {k \in DOMAIN cards : searched => cards[k].id \in Found}}
    BY FilterKeeps, CardsAreNumbers
  <2> HIDE DEF f
  <2>2. DOMAIN f = 1 .. Len(f) /\ Len(f) \in Nat
    BY <2>1
  <2>3. QED BY <2>1, <2>2
<1>2. CardGrid = visibleCards
  BY DEF CardGrid, CardsInv, SpinnerFetches, CardsQuiet
<1>3. cards = <<>> \/ (cardsOf \in CardGets /\ cardGet[cardsOf].pc = "done")
  BY CardsAssumption DEF CardsInv, CardsTypeOK, CardsAsFetched, CardGets
<1>4. ASSUME ~outrun, f # <<>> PROVE cardGet[cardsOf].sort = sortBy
  <2>1. cards # <<>>
    <3>1. CASE cards = <<>>
      <4>1. {cards[i] : i \in {k \in DOMAIN cards : searched => cards[k].id \in Found}} = {}
        BY <3>1
      <4>2. DOMAIN f = {}
        BY <1>1, <4>1
      <4>3. QED BY <1>1, <1>4, <4>2
    <3>2. QED BY <3>1
  <2>2. cardsOf \in CardGets /\ cardGet[cardsOf].pc = "done"
    BY <1>3, <2>1
  <2>3. \A m \in CardGets : m > cardsOf => cardGet[m].pc = "none"
    <3>1. ASSUME NEW m \in CardGets, cardGet[m].pc # "none" PROVE ~ (m > cardsOf)
      <4>1. m \in 1 .. cardsOf
        BY <3>1 DEF LastGet
      <4>2. QED BY <2>2, <4>1, CardsAssumption DEF CardGets
    <3>2. QED BY <3>1
  <2>4. QED
    BY <1>4, <2>2, <2>3 DEF CardsInv, NewestIsChosen
<1>5. \A i \in DOMAIN f : f[i].id \in Nat /\ ByName[f[i].id] \in Nat /\ f[i].last \in Int
  <2>1. \A i \in DOMAIN f : f[i] \in Card
    BY <1>1, ElementOfSeq
  <2>2. QED BY <2>1, CardsAreNumbers DEF Card
<1> HIDE DEF f
<1>6. \A i, j \in DOMAIN f : i # j => f[i].id # f[j].id
  <2>1. ASSUME NEW i \in DOMAIN f, NEW j \in DOMAIN f, i < j PROVE f[i].id # f[j].id
    <3>1. Before(cardGet[cardsOf].sort, f[i].id, f[j].id)
      BY <1>1, <2>1
    <3>2. QED BY <1>5, <3>1 DEF Before
  <2>2. ASSUME NEW i \in DOMAIN f, NEW j \in DOMAIN f, i # j PROVE i < j \/ j < i
    BY <1>1, <2>2
  <2>3. QED BY <2>1, <2>2
<1>7. CASE sortBy # "last-backup"
  <2>1. CardGrid = f
    BY <1>2, <1>7 DEF visibleCards, f
  <2>2. ASSUME ~outrun, NEW i \in DOMAIN f, NEW j \in DOMAIN f, i < j PROVE InChosenOrder(f[i], f[j])
    <3>1. f # <<>> /\ Before(sortBy, f[i].id, f[j].id)
      BY <1>1, <1>4, <2>2
    <3>2. sortBy = "date" \/ sortBy = "name"
      BY <1>7 DEF CardsInv, CardsTypeOK, SortOptions
    <3>3. CASE sortBy = "date"
      BY <3>1, <3>3 DEF InChosenOrder, Before
    <3>4. CASE sortBy = "name"
      <4>1. ByName[f[i].id] < ByName[f[j].id] \/ ByName[f[i].id] = ByName[f[j].id]
        BY <3>1, <3>4 DEF Before
      <4>2. ByName[f[i].id] <= ByName[f[j].id]
        BY <1>5, <4>1
      <4>3. QED BY <3>4, <4>2 DEF InChosenOrder
    <3>5. QED BY <3>2, <3>3, <3>4
  <2>3. \A i, j \in DOMAIN f : i < j => f[i].id # f[j].id
    <3>1. \A i, j \in DOMAIN f : i < j => i # j
      BY <1>1
    <3>2. QED BY <1>6, <3>1
  <2>4. QED
    BY <1>1, <2>1, <2>2, <2>3 DEF CardsInOrder
<1>8. CASE sortBy = "last-backup"
  <2> DEFINE g == SortedByLast(f)
  <2>1. CardGrid = g
    BY <1>2, <1>8 DEF visibleCards, f
  <2>2. /\ g \in Seq(Card) /\ Len(g) = Len(f)
        /\ \A i, j \in DOMAIN f : i < j =>
             \E a, b \in DOMAIN f : LastBefore(f, a, b) /\ g[i] = f[a] /\ g[j] = f[b]
        /\ {g[i] : i \in DOMAIN g} = {f[i] : i \in DOMAIN f}
    BY <1>1, ByLastMoves
  <2> HIDE DEF g
  <2>3. DOMAIN g = DOMAIN f
    BY <1>1, <2>2
  <2>4. ASSUME ~outrun, NEW i \in DOMAIN g, NEW j \in DOMAIN g, i < j PROVE InChosenOrder(g[i], g[j])
    <3>1. PICK a \in DOMAIN f, b \in DOMAIN f : LastBefore(f, a, b) /\ g[i] = f[a] /\ g[j] = f[b]
      BY <2>2, <2>3, <2>4
    <3>2. cardGet[cardsOf].sort = "last-backup"
      BY <1>1, <1>4, <1>8, <2>3, <2>4
    <3>3. f[a].last > f[b].last \/ (f[a].last = f[b].last /\ f[a].id > f[b].id)
      BY <1>1, <1>5, <3>1, <3>2 DEF LastBefore, Before
    <3>4. QED BY <1>8, <3>1, <3>3 DEF InChosenOrder
  <2>5. ASSUME NEW i \in DOMAIN g, NEW j \in DOMAIN g, i < j PROVE g[i].id # g[j].id
    <3>1. PICK a \in DOMAIN f, b \in DOMAIN f : LastBefore(f, a, b) /\ g[i] = f[a] /\ g[j] = f[b]
      BY <2>2, <2>3, <2>5
    <3>2. a # b
      BY <1>1, <1>5, <3>1 DEF LastBefore
    <3>3. QED BY <1>6, <3>1, <3>2
  <2>6. \A i, j \in DOMAIN CardGrid : i < j => CardGrid[i].id # CardGrid[j].id
    BY <2>1, <2>5
  <2>7. ~outrun => \A i, j \in DOMAIN CardGrid : i < j => InChosenOrder(CardGrid[i], CardGrid[j])
    BY <2>1, <2>4
  <2>8. {CardGrid[i] : i \in DOMAIN CardGrid} =
          {cards[i] : i \in {k \in DOMAIN cards : searched => cards[k].id \in Found}}
    BY <1>1, <2>1, <2>2
  <2>9. QED
    BY <2>6, <2>7, <2>8 DEF CardsInOrder
<1>9. QED
  BY <1>7, <1>8

LEMMA CardsInvariant == CardsSpec => []CardsInv
BY CardsInitInv, CardsNextKeeps, PTL DEF CardsSpec

LEMMA CardsTypes == CardsSpec => []CardsTypeOK
<1>1. CardsInv => CardsTypeOK
  BY DEF CardsInv
<1> QED
  BY <1>1, CardsInvariant, PTL

(* The cards, for any number of them, any names, word and fetches: once    *)
(* all is quiet they stand in the order that is chosen, each once, and all *)
(* those searched for are there.                                           *)
THEOREM CardsStandInOrder == CardsSpec => []CardsInOrder
BY CardsInvariant, CardsInvImplies, PTL

-----------------------------------------------------------------------------
(* DialogQueue. *)

UpInOrder == \A i, j \in DOMAIN stack : i < j => stack[i].id < stack[j].id
QueueInOrder == \A i, j \in DOMAIN queueRef : i < j => queueRef[i] < queueRef[j]
UpBeforeQueued == \A i \in DOMAIN stack, j \in DOMAIN queueRef : stack[i].id < queueRef[j]

Placed ==
  /\ resolved \subseteq 1 .. wanted
  /\ \A i \in DOMAIN stack : stack[i].id \in (1 .. wanted) \ resolved
  /\ \A j \in DOMAIN queueRef : queueRef[j] \in (1 .. wanted) \ resolved
  /\ \A d \in (1 .. wanted) \ resolved :
       (\E i \in DOMAIN stack : stack[i].id = d) \/ (\E j \in DOMAIN queueRef : queueRef[j] = d)

TimersUp ==
  /\ \A d \in appearing \cup vanishing : \E i \in DOMAIN stack : stack[i].id = d
  /\ appearing \cap vanishing = {}
  /\ \A c, d \in appearing : c = d
  /\ processing <=> appearing # {}

Shown ==
  /\ \A i \in DOMAIN stack : stack[i].isVisible <=> stack[i].id \notin appearing \cup vanishing
  /\ Len(queueRef) <= crossed /\ crossed <= wanted

DialogsInv ==
  /\ DialogsTypeOK /\ UpInOrder /\ QueueInOrder /\ UpBeforeQueued /\ Placed /\ TimersUp /\ Shown

LEMMA DialogsInitInv == DialogsInit => DialogsInv
<1> SUFFICES ASSUME DialogsInit PROVE DialogsInv
  OBVIOUS
<1>1. /\ wanted = 0 /\ crossed = 0 /\ queueRef = <<>> /\ stack = <<>> /\ appearing = {}
      /\ vanishing = {} /\ resolved = {} /\ processing = FALSE
      /\ DOMAIN stack = {} /\ DOMAIN queueRef = {} /\ Len(queueRef) = 0 /\ 1 .. wanted = {}
  BY DEF DialogsInit
<1>2. DialogsTypeOK
  <2>1. queueRef \in Seq(DialogIds) /\ stack \in Seq([id : DialogIds, isVisible : BOOLEAN])
    BY <1>1
  <2>2. wanted \in 0 .. MaxDialogs /\ crossed \in 0 .. MaxDialogs
    BY <1>1, DialogsAssumption
  <2>3. {appearing, vanishing, resolved} \subseteq SUBSET DialogIds
    BY <1>1
  <2>4. QED
    BY <1>1, <2>1, <2>2, <2>3 DEF DialogsTypeOK
<1>3. Placed /\ UpInOrder /\ QueueInOrder /\ UpBeforeQueued
  BY <1>1 DEF Placed, UpInOrder, QueueInOrder, UpBeforeQueued
<1>4. TimersUp /\ Shown
  BY <1>1 DEF TimersUp, Shown
<1>5. QED
  BY <1>2, <1>3, <1>4 DEF DialogsInv

(* One more at the end of the queue. *)
LEMMA QueueGrows ==
  ASSUME DialogsInv, wanted < MaxDialogs
  PROVE  LET q == Append(queueRef, wanted + 1) IN
         /\ q \in Seq(DialogIds) /\ Len(q) = Len(queueRef) + 1
         /\ \A i \in 1 .. Len(queueRef) : q[i] = queueRef[i]
         /\ q[Len(q)] = wanted + 1 /\ wanted + 1 \in DialogIds
         /\ \A i, j \in DOMAIN q : i < j => q[i] < q[j]
         /\ \A i \in DOMAIN q : q[i] \in (1 .. wanted + 1) \ resolved
         /\ \A i \in DOMAIN stack, j \in DOMAIN q : stack[i].id < q[j]
<1> DEFINE q == Append(queueRef, wanted + 1)
<1>1. /\ queueRef \in Seq(DialogIds) /\ wanted \in Nat /\ MaxDialogs \in Nat
      /\ stack \in Seq([id : DialogIds, isVisible : BOOLEAN])
      /\ resolved \subseteq 1 .. MaxDialogs
  BY DialogsAssumption DEF DialogsInv, DialogsTypeOK, DialogIds
<1>2. wanted + 1 \in DialogIds
  BY <1>1 DEF DialogIds
<1>3. /\ q \in Seq(DialogIds) /\ Len(q) = Len(queueRef) + 1 /\ DOMAIN q = 1 .. Len(queueRef) + 1
      /\ \A i \in 1 .. Len(queueRef) : q[i] = queueRef[i]
      /\ q[Len(q)] = wanted + 1 /\ DOMAIN queueRef = 1 .. Len(queueRef) /\ Len(queueRef) \in Nat
  BY <1>1, <1>2
<1>4. ASSUME NEW i \in DOMAIN q, NEW j \in DOMAIN q, i < j PROVE q[i] < q[j]
  <2>1. i \in 1 .. Len(queueRef)
    BY <1>3, <1>4
  <2>2. CASE j \in 1 .. Len(queueRef)
    BY <1>3, <1>4, <2>1, <2>2 DEF DialogsInv, QueueInOrder
  <2>3. CASE j = Len(queueRef) + 1
    <3>1. q[i] = queueRef[i] /\ queueRef[i] \in (1 .. wanted) \ resolved /\ q[j] = wanted + 1
      BY <1>3, <2>1, <2>3 DEF DialogsInv, Placed
    <3>2. QED BY <1>1, <3>1
  <2>4. QED BY <1>3, <2>2, <2>3
<1>5. ASSUME NEW i \in DOMAIN q PROVE q[i] \in (1 .. wanted + 1) \ resolved
  <2>1. CASE i \in 1 .. Len(queueRef)
    <3>1. q[i] = queueRef[i] /\ queueRef[i] \in (1 .. wanted) \ resolved
      BY <1>3, <2>1 DEF DialogsInv, Placed
    <3>2. QED BY <1>1, <3>1
  <2>2. CASE i = Len(queueRef) + 1
    <3>1. q[i] = wanted + 1 /\ resolved \subseteq 1 .. wanted
      BY <1>3, <2>2 DEF DialogsInv, Placed
    <3>2. QED BY <1>1, <3>1
  <2>3. QED BY <1>3, <2>1, <2>2
<1>6. ASSUME NEW i \in DOMAIN stack, NEW j \in DOMAIN q PROVE stack[i].id < q[j]
  <2>1. CASE j \in 1 .. Len(queueRef)
    BY <1>3, <2>1 DEF DialogsInv, UpBeforeQueued
  <2>2. CASE j = Len(queueRef) + 1
    <3>1. q[j] = wanted + 1 /\ stack[i].id \in 1 .. wanted
      BY <1>3, <2>2 DEF DialogsInv, Placed
    <3>2. QED BY <1>1, <3>1
  <2>3. QED BY <1>3, <2>1, <2>2
<1>7. QED
  BY <1>2, <1>3, <1>4, <1>5, <1>6

(* What a step makes of the stack, with who is visible. *)
LEMMA VisibleKeepsIds ==
  ASSUME DialogsTypeOK, NEW d \in DialogIds, NEW yes \in BOOLEAN, Visible(d, yes)
  PROVE  /\ stack' \in Seq([id : DialogIds, isVisible : BOOLEAN])
         /\ DOMAIN stack' = DOMAIN stack
         /\ \A i \in DOMAIN stack :
              /\ stack'[i].id = stack[i].id
              /\ stack'[i].isVisible = IF stack[i].id = d THEN yes ELSE stack[i].isVisible
<1>1. /\ stack \in Seq([id : DialogIds, isVisible : BOOLEAN])
      /\ stack' = [i \in DOMAIN stack |-> IF stack[i].id = d THEN [id |-> d, isVisible |-> yes] ELSE stack[i]]
  BY DEF DialogsTypeOK, Visible
<1>2. /\ Len(stack) \in Nat /\ DOMAIN stack = 1 .. Len(stack)
      /\ \A i \in DOMAIN stack : stack[i] \in [id : DialogIds, isVisible : BOOLEAN]
  <2>1. Len(stack) \in Nat /\ DOMAIN stack = 1 .. Len(stack)
    BY <1>1
  <2>2. QED BY <1>1, <2>1, ElementOfSeq
<1>3. stack' \in [1 .. Len(stack) -> [id : DialogIds, isVisible : BOOLEAN]]
  BY <1>1, <1>2
<1>4. QED
  BY <1>1, <1>2, <1>3

LEMMA PutsUpKeeps ==
  ASSUME DialogsInv, wanted < MaxDialogs, wanted' = wanted + 1, ~processing,
         processQueue(Append(queueRef, wanted')), UNCHANGED <<vanishing, resolved, crossed>>
  PROVE  DialogsInv'
<1> DEFINE q == Append(queueRef, wanted + 1)
<1>1. /\ queueRef \in Seq(DialogIds) /\ wanted \in Nat /\ MaxDialogs \in Nat
      /\ stack \in Seq([id : DialogIds, isVisible : BOOLEAN])
      /\ appearing = {} /\ vanishing \subseteq DialogIds /\ resolved \subseteq DialogIds
      /\ crossed \in 0 .. MaxDialogs /\ Len(queueRef) <= crossed /\ crossed <= wanted
  BY DialogsAssumption DEF DialogsInv, DialogsTypeOK, TimersUp, Shown
<1>2. /\ q \in Seq(DialogIds) /\ Len(q) = Len(queueRef) + 1
      /\ \A i \in 1 .. Len(queueRef) : q[i] = queueRef[i]
      /\ q[Len(q)] = wanted + 1 /\ wanted + 1 \in DialogIds
      /\ \A i, j \in DOMAIN q : i < j => q[i] < q[j]
      /\ \A i \in DOMAIN q : q[i] \in (1 .. wanted + 1) \ resolved
      /\ \A i \in DOMAIN stack, j \in DOMAIN q : stack[i].id < q[j]
  BY QueueGrows
<1>3. /\ processing' = TRUE /\ queueRef' = Tail(q)
      /\ stack' = Append(stack, [id |-> Head(q), isVisible |-> FALSE])
      /\ appearing' = {Head(q)}
  BY <1>1 DEF processQueue
<1> HIDE DEF q
<1>4. /\ Head(q) = q[1] /\ Head(q) \in DialogIds /\ queueRef' \in Seq(DialogIds)
      /\ Len(queueRef') = Len(queueRef) /\ Len(queueRef) \in Nat
      /\ DOMAIN queueRef' = 1 .. Len(queueRef) /\ DOMAIN q = 1 .. Len(queueRef) + 1
      /\ \A i \in DOMAIN queueRef' : queueRef'[i] = q[i + 1] /\ i + 1 \in DOMAIN q
  BY <1>1, <1>2, <1>3
<1>5. /\ stack' \in Seq([id : DialogIds, isVisible : BOOLEAN])
      /\ Len(stack) \in Nat /\ DOMAIN stack = 1 .. Len(stack) /\ DOMAIN stack' = 1 .. Len(stack) + 1
      /\ \A i \in DOMAIN stack : stack'[i] = stack[i]
      /\ stack'[Len(stack) + 1].id = q[1] /\ stack'[Len(stack) + 1].isVisible = FALSE
  BY <1>1, <1>3, <1>4
<1>6. DialogsTypeOK'
  <2>1. wanted' \in 0 .. MaxDialogs /\ crossed' \in 0 .. MaxDialogs
    BY <1>1
  <2>2. {appearing', vanishing', resolved'} \subseteq SUBSET DialogIds
    BY <1>1, <1>3, <1>4
  <2>3. QED
    BY <1>3, <1>4, <1>5, <2>1, <2>2 DEF DialogsTypeOK
<1>7. UpInOrder'
  <2>1. \A i \in DOMAIN stack : stack[i].id < q[1] /\ stack'[i].id = stack[i].id
    <3>1. 1 \in DOMAIN q
      BY <1>4
    <3>2. QED BY <1>2, <1>5, <3>1
  <2>2. \A i, j \in DOMAIN stack : i < j => stack[i].id < stack[j].id
    BY DEF DialogsInv, UpInOrder
  <2>3. ASSUME NEW i \in DOMAIN stack', NEW j \in DOMAIN stack', i < j PROVE stack'[i].id < stack'[j].id
    <3>1. i \in DOMAIN stack
      BY <1>5, <2>3
    <3>2. CASE j \in DOMAIN stack
      BY <2>1, <2>2, <2>3, <3>1, <3>2
    <3>3. CASE j = Len(stack) + 1
      BY <1>5, <2>1, <3>1, <3>3
    <3>4. QED BY <1>5, <3>2, <3>3
  <2>4. QED BY <2>3 DEF UpInOrder
<1>8. QueueInOrder'
  <2>1. ASSUME NEW i \in DOMAIN queueRef', NEW j \in DOMAIN queueRef', i < j PROVE queueRef'[i] < queueRef'[j]
    <3>1. i + 1 \in DOMAIN q /\ j + 1 \in DOMAIN q /\ i + 1 < j + 1
      BY <1>4, <2>1
    <3>2. QED BY <1>2, <1>4, <3>1
  <2>2. QED BY <2>1 DEF QueueInOrder
<1>9. UpBeforeQueued'
  <2>1. ASSUME NEW i \in DOMAIN stack', NEW j \in DOMAIN queueRef' PROVE stack'[i].id < queueRef'[j]
    <3>1. j + 1 \in DOMAIN q /\ queueRef'[j] = q[j + 1] /\ 1 \in DOMAIN q /\ 1 < j + 1
      BY <1>4
    <3>2. CASE i \in DOMAIN stack
      BY <1>2, <1>5, <3>1, <3>2
    <3>3. CASE i = Len(stack) + 1
      BY <1>2, <1>5, <3>1, <3>3
    <3>4. QED BY <1>5, <3>2, <3>3
  <2>2. QED BY <2>1 DEF UpBeforeQueued
<1>10. Placed'
  <2>1. resolved' \subseteq 1 .. wanted'
    BY <1>1 DEF DialogsInv, Placed
  <2>2. \A i \in DOMAIN stack' : stack'[i].id \in (1 .. wanted') \ resolved'
    <3>1. \A i \in DOMAIN stack : stack[i].id \in (1 .. wanted) \ resolved
      BY DEF DialogsInv, Placed
    <3>2. 1 \in DOMAIN q
      BY <1>4
    <3>3. q[1] \in (1 .. wanted + 1) \ resolved
      BY <1>2, <3>2
    <3>4. QED BY <1>1, <1>5, <3>1, <3>3
  <2>3. \A j \in DOMAIN queueRef' : queueRef'[j] \in (1 .. wanted') \ resolved'
    BY <1>2, <1>4
  <2>4. ASSUME NEW d \in (1 .. wanted') \ resolved'
        PROVE  (\E i \in DOMAIN stack' : stack'[i].id = d) \/ (\E j \in DOMAIN queueRef' : queueRef'[j] = d)
    <3>1. (\E i \in DOMAIN stack : stack[i].id = d) \/ (\E j \in DOMAIN q : q[j] = d)
      <4>1. CASE d = wanted + 1
        BY <1>2, <1>4, <4>1
      <4>2. CASE d \in 1 .. wanted
        <5>1. (\E i \in DOMAIN stack : stack[i].id = d) \/ (\E j \in DOMAIN queueRef : queueRef[j] = d)
          BY <4>2, <2>4 DEF DialogsInv, Placed
        <5>2. DOMAIN queueRef = 1 .. Len(queueRef) /\ DOMAIN queueRef \subseteq DOMAIN q
          BY <1>1, <1>4
        <5>3. QED BY <1>2, <5>1, <5>2
      <4>3. QED BY <1>1, <2>4, <4>1, <4>2
    <3>2. CASE \E i \in DOMAIN stack : stack[i].id = d
      BY <1>5, <3>2
    <3>3. CASE \E j \in DOMAIN q : q[j] = d
      <4>1. PICK j \in 1 .. Len(queueRef) + 1 : q[j] = d
        BY <1>4, <3>3
      <4>2. CASE j = 1
        BY <1>5, <4>1, <4>2
      <4>3. CASE j # 1
        <5>1. j - 1 \in DOMAIN queueRef' /\ (j - 1) + 1 = j
          BY <1>4, <4>1, <4>3
        <5>2. queueRef'[j - 1] = d
          BY <1>4, <4>1, <5>1
        <5>3. QED BY <5>1, <5>2
      <4>4. QED BY <4>2, <4>3
    <3>4. QED BY <3>1, <3>2, <3>3
  <2>5. QED
    BY <2>1, <2>2, <2>3, <2>4 DEF Placed
<1>11. TimersUp'
  <2>1. q[1] \notin vanishing
    <3>1. CASE q[1] \in vanishing
      <4>1. PICK i \in DOMAIN stack : stack[i].id = q[1]
        BY <3>1 DEF DialogsInv, TimersUp
      <4>2. 1 \in DOMAIN q /\ stack[i].id < q[1]
        BY <1>2, <1>4
      <4>3. q[1] \in Int
        BY <1>4 DEF DialogIds
      <4>4. QED BY <4>1, <4>2, <4>3
    <3>2. QED BY <3>1
  <2>2. \A d \in vanishing : \E i \in DOMAIN stack' : stack'[i].id = d
    BY <1>5 DEF DialogsInv, TimersUp
  <2>3. \E i \in DOMAIN stack' : stack'[i].id = q[1]
    BY <1>5
  <2>4. appearing' = {q[1]} /\ vanishing' = vanishing
    BY <1>3, <1>4
  <2>5. QED
    BY <1>3, <2>1, <2>2, <2>3, <2>4 DEF TimersUp
<1>12. Shown'
  <2>1. appearing' = {q[1]} /\ vanishing' = vanishing /\ 1 \in DOMAIN q
    BY <1>3, <1>4
  <2>2. ASSUME NEW i \in DOMAIN stack' PROVE stack'[i].isVisible <=> stack'[i].id \notin appearing' \cup vanishing'
    <3>1. CASE i \in DOMAIN stack
      <4>1. stack[i].isVisible <=> stack[i].id \notin appearing \cup vanishing
        BY <3>1 DEF DialogsInv, Shown
      <4>2. stack[i].id # q[1]
        <5>1. stack[i].id < q[1] /\ q[1] \in Int
          BY <1>2, <1>4, <2>1, <3>1 DEF DialogIds
        <5>2. QED BY <5>1
      <4>3. stack'[i] = stack[i]
        BY <1>5, <3>1
      <4>4. QED BY <1>1, <2>1, <4>1, <4>2, <4>3
    <3>2. CASE i = Len(stack) + 1
      BY <1>5, <2>1, <3>2
    <3>3. QED BY <1>5, <3>1, <3>2
  <2>3. Len(queueRef') <= crossed' /\ crossed' <= wanted'
    BY <1>1, <1>4
  <2>4. QED BY <2>2, <2>3 DEF Shown
<1>13. QED
  BY <1>6, <1>7, <1>8, <1>9, <1>10, <1>11, <1>12 DEF DialogsInv

LEMMA WaitsKeeps ==
  ASSUME DialogsInv, wanted < MaxDialogs, wanted' = wanted + 1,
         queueRef' = Append(queueRef, wanted'), crossed' = crossed + 1,
         UNCHANGED <<processing, stack, appearing, vanishing, resolved>>
  PROVE  DialogsInv'
<1>1. /\ queueRef \in Seq(DialogIds) /\ wanted \in Nat /\ MaxDialogs \in Nat
      /\ crossed \in Nat /\ Len(queueRef) <= crossed /\ crossed <= wanted
      /\ DOMAIN queueRef = 1 .. Len(queueRef) /\ Len(queueRef) \in Nat
  BY DialogsAssumption DEF DialogsInv, DialogsTypeOK, Shown
<1>2. /\ queueRef' \in Seq(DialogIds) /\ Len(queueRef') = Len(queueRef) + 1
      /\ \A i \in 1 .. Len(queueRef) : queueRef'[i] = queueRef[i]
      /\ queueRef'[Len(queueRef')] = wanted + 1 /\ wanted + 1 \in DialogIds
      /\ \A i, j \in DOMAIN queueRef' : i < j => queueRef'[i] < queueRef'[j]
      /\ \A i \in DOMAIN queueRef' : queueRef'[i] \in (1 .. wanted + 1) \ resolved
      /\ \A i \in DOMAIN stack, j \in DOMAIN queueRef' : stack[i].id < queueRef'[j]
  BY QueueGrows
<1>3. DOMAIN queueRef' = 1 .. Len(queueRef) + 1
  BY <1>1, <1>2
<1>4. DialogsTypeOK'
  <2>1. wanted' \in 0 .. MaxDialogs /\ crossed' \in 0 .. MaxDialogs
    BY <1>1
  <2>2. QED BY <1>2, <2>1 DEF DialogsInv, DialogsTypeOK
<1>5. UpInOrder' /\ QueueInOrder' /\ UpBeforeQueued'
  BY <1>2 DEF DialogsInv, UpInOrder, QueueInOrder, UpBeforeQueued
<1>6. Placed'
  <2>1. /\ resolved' \subseteq 1 .. wanted'
        /\ \A i \in DOMAIN stack' : stack'[i].id \in (1 .. wanted') \ resolved'
    BY <1>1 DEF DialogsInv, Placed
  <2>2. ASSUME NEW d \in (1 .. wanted') \ resolved'
        PROVE  (\E i \in DOMAIN stack' : stack'[i].id = d) \/ (\E j \in DOMAIN queueRef' : queueRef'[j] = d)
    <3>1. CASE d = wanted + 1
      BY <1>1, <1>2, <1>3, <3>1
    <3>2. CASE d \in 1 .. wanted
      <4>1. (\E i \in DOMAIN stack : stack[i].id = d) \/ (\E j \in DOMAIN queueRef : queueRef[j] = d)
        BY <2>2, <3>2 DEF DialogsInv, Placed
      <4>2. QED BY <1>1, <1>2, <1>3, <4>1
    <3>3. QED BY <1>1, <2>2, <3>1, <3>2
  <2>3. QED BY <1>2, <2>1, <2>2 DEF Placed
<1>7. TimersUp' /\ Shown'
  <2>1. Len(queueRef') <= crossed' /\ crossed' <= wanted'
    BY <1>1, <1>2
  <2>2. QED BY <2>1 DEF DialogsInv, TimersUp, Shown
<1>8. QED
  BY <1>4, <1>5, <1>6, <1>7 DEF DialogsInv

LEMMA SameIdsKeep ==
  ASSUME DialogsInv, DOMAIN stack' = DOMAIN stack,
         \A i \in DOMAIN stack : stack'[i].id = stack[i].id,
         UNCHANGED <<wanted, queueRef, resolved>>
  PROVE  UpInOrder' /\ QueueInOrder' /\ UpBeforeQueued' /\ Placed'
<1>1. UpInOrder'
  BY DEF DialogsInv, UpInOrder
<1>2. QueueInOrder'
  BY DEF DialogsInv, QueueInOrder
<1>3. UpBeforeQueued'
  BY DEF DialogsInv, UpBeforeQueued
<1>4. Placed'
  BY DEF DialogsInv, Placed
<1>5. QED
  BY <1>1, <1>2, <1>3, <1>4

LEMMA AppearsKeeps ==
  ASSUME DialogsInv, NEW d \in DialogIds, Appears(d)
  PROVE  DialogsInv'
<1>1. /\ stack' \in Seq([id : DialogIds, isVisible : BOOLEAN]) /\ DOMAIN stack' = DOMAIN stack
      /\ \A i \in DOMAIN stack :
           /\ stack'[i].id = stack[i].id
           /\ stack'[i].isVisible = IF stack[i].id = d THEN TRUE ELSE stack[i].isVisible
  BY VisibleKeepsIds DEF DialogsInv, Appears
<1>2. /\ d \in appearing /\ appearing' = appearing \ {d} /\ processing' = FALSE
      /\ UNCHANGED <<wanted, queueRef, vanishing, resolved, crossed>>
  BY DEF Appears
<1>3. appearing = {d} /\ appearing' = {} /\ d \notin vanishing
  BY <1>2 DEF DialogsInv, TimersUp
<1>4. DialogsTypeOK'
  BY <1>1, <1>2 DEF DialogsInv, DialogsTypeOK
<1>5. UpInOrder' /\ QueueInOrder' /\ UpBeforeQueued' /\ Placed'
  BY <1>1, <1>2, SameIdsKeep
<1>7. TimersUp'
  BY <1>1, <1>2, <1>3 DEF DialogsInv, TimersUp
<1>8. Shown'
  BY <1>1, <1>2, <1>3 DEF DialogsInv, Shown
<1>9. QED
  BY <1>4, <1>5, <1>7, <1>8 DEF DialogsInv

LEMMA ClosesKeeps ==
  ASSUME DialogsInv, NEW d \in DialogIds, handleClose(d)
  PROVE  DialogsInv'
<1>1. /\ stack' \in Seq([id : DialogIds, isVisible : BOOLEAN]) /\ DOMAIN stack' = DOMAIN stack
      /\ \A i \in DOMAIN stack :
           /\ stack'[i].id = stack[i].id
           /\ stack'[i].isVisible = IF stack[i].id = d THEN FALSE ELSE stack[i].isVisible
  BY VisibleKeepsIds DEF DialogsInv, handleClose
<1>2. /\ \E i \in DOMAIN stack : stack[i].id = d
      /\ d \notin appearing /\ vanishing' = vanishing \cup {d}
      /\ UNCHANGED <<wanted, queueRef, processing, appearing, resolved, crossed>>
  BY DEF handleClose
<1>4. DialogsTypeOK'
  BY <1>1, <1>2 DEF DialogsInv, DialogsTypeOK
<1>5. UpInOrder' /\ QueueInOrder' /\ UpBeforeQueued' /\ Placed'
  BY <1>1, <1>2, SameIdsKeep
<1>7. TimersUp'
  <2>1. \A c \in appearing \cup vanishing : \E i \in DOMAIN stack : stack[i].id = c
    BY DEF DialogsInv, TimersUp
  <2>2. \A c \in appearing' \cup vanishing' : \E i \in DOMAIN stack' : stack'[i].id = c
    BY <1>1, <1>2, <2>1
  <2>3. QED BY <1>2, <2>2 DEF DialogsInv, TimersUp
<1>8. Shown'
  BY <1>1, <1>2 DEF DialogsInv, Shown
<1>9. QED
  BY <1>4, <1>5, <1>7, <1>8 DEF DialogsInv

LEMMA VanishesKeeps ==
  ASSUME DialogsInv, NEW d \in DialogIds, Vanishes(d)
  PROVE  DialogsInv'
<1> DEFINE I == {i \in DOMAIN stack : stack[i].id # d}
           at == Ascending(I)
           n == Cardinality(I)
<1>1. stack \in Seq([id : DialogIds, isVisible : BOOLEAN]) /\ I \in SUBSET DOMAIN stack
  BY DEF DialogsInv, DialogsTypeOK
<1>2. /\ d \in vanishing /\ vanishing' = vanishing \ {d} /\ resolved' = resolved \cup {d}
      /\ stack' = Kept(stack, I)
      /\ UNCHANGED <<wanted, queueRef, processing, appearing, crossed>>
  BY DEF Vanishes
<1> HIDE DEF I
<1> HIDE DEF n, at
<1>3. /\ n \in Nat /\ stack' \in Seq([id : DialogIds, isVisible : BOOLEAN]) /\ Len(stack') = n
      /\ at \in [1 .. n -> I]
      /\ \A k \in 1 .. n : stack'[k] = stack[at[k]]
      /\ \A j, k \in 1 .. n : j < k => at[j] < at[k]
      /\ \A i \in I : \E k \in 1 .. n : at[k] = i
  BY <1>1, <1>2, KeptIsKept DEF n, at
<1>4. DOMAIN stack' = 1 .. n /\ \A k \in 1 .. n : at[k] \in DOMAIN stack /\ stack[at[k]].id # d
  BY <1>3 DEF I
<1>5. DialogsTypeOK'
  BY <1>2, <1>3 DEF DialogsInv, DialogsTypeOK
<1>6. UpInOrder' /\ QueueInOrder' /\ UpBeforeQueued'
  BY <1>2, <1>3, <1>4 DEF DialogsInv, UpInOrder, QueueInOrder, UpBeforeQueued
<1>7. PICK k \in DOMAIN stack : stack[k].id = d
  BY <1>2 DEF DialogsInv, TimersUp
<1>8. Placed'
  <2>1. resolved' \subseteq 1 .. wanted'
    BY <1>2, <1>7 DEF DialogsInv, Placed
  <2>2. \A i \in DOMAIN stack' : stack'[i].id \in (1 .. wanted') \ resolved'
    BY <1>2, <1>3, <1>4 DEF DialogsInv, Placed
  <2>3. ASSUME NEW j \in DOMAIN queueRef' PROVE queueRef'[j] \in (1 .. wanted') \ resolved'
    <3>1. queueRef[j] \in (1 .. wanted) \ resolved /\ stack[k].id < queueRef[j]
      BY <1>2, <1>7, <2>3 DEF DialogsInv, Placed, UpBeforeQueued
    <3>2. queueRef[j] # d
      BY <1>7, <3>1 DEF DialogIds
    <3>3. QED BY <1>2, <3>1, <3>2
  <2>4. ASSUME NEW e \in (1 .. wanted') \ resolved'
        PROVE  (\E i \in DOMAIN stack' : stack'[i].id = e) \/ (\E j \in DOMAIN queueRef' : queueRef'[j] = e)
    <3>1. e \in (1 .. wanted) \ resolved /\ e # d
      BY <1>2, <2>4
    <3>2. CASE \E i \in DOMAIN stack : stack[i].id = e
      <4>1. PICK i \in I : stack[i].id = e
        BY <3>1, <3>2 DEF I
      <4>2. QED BY <1>3, <1>4, <4>1
    <3>3. CASE \E j \in DOMAIN queueRef : queueRef[j] = e
      BY <1>2, <3>3
    <3>4. QED BY <3>1, <3>2, <3>3 DEF DialogsInv, Placed
  <2>5. QED BY <2>1, <2>2, <2>3, <2>4 DEF Placed
<1>9. TimersUp'
  <2>1. ASSUME NEW e \in appearing' \cup vanishing' PROVE \E i \in DOMAIN stack' : stack'[i].id = e
    <3>1. e \in appearing \cup vanishing /\ e # d
      BY <1>2, <2>1 DEF DialogsInv, TimersUp
    <3>2. PICK i \in DOMAIN stack : stack[i].id = e
      BY <3>1 DEF DialogsInv, TimersUp
    <3>3. i \in I
      BY <3>1, <3>2 DEF I
    <3>4. QED BY <1>3, <1>4, <3>2, <3>3
  <2>2. QED BY <1>2, <2>1 DEF DialogsInv, TimersUp
<1>10. Shown'
  <2>1. \A i \in DOMAIN stack' : stack'[i].isVisible <=> stack'[i].id \notin appearing' \cup vanishing'
    BY <1>2, <1>3, <1>4 DEF DialogsInv, Shown
  <2>2. QED BY <1>2, <2>1 DEF DialogsInv, Shown
<1>11. QED
  BY <1>5, <1>6, <1>8, <1>9, <1>10 DEF DialogsInv

LEMMA DialogsNextKeeps == DialogsInv /\ [DialogsNext]_dialogVars => DialogsInv'
<1> SUFFICES ASSUME DialogsInv, [DialogsNext]_dialogVars PROVE DialogsInv'
  OBVIOUS
<1>1. CASE openDialog
  <2>1. CASE processing
    BY <1>1, <2>1, WaitsKeeps DEF openDialog
  <2>2. CASE ~processing
    BY <1>1, <2>2, PutsUpKeeps DEF openDialog
  <2>3. QED BY <2>1, <2>2
<1>2. ASSUME NEW d \in DialogIds, Appears(d) PROVE DialogsInv'
  BY <1>2, AppearsKeeps
<1>3. ASSUME NEW d \in DialogIds, handleClose(d) PROVE DialogsInv'
  BY <1>3, ClosesKeeps
<1>4. ASSUME NEW d \in DialogIds, Vanishes(d) PROVE DialogsInv'
  BY <1>4, VanishesKeeps
<1>5. CASE UNCHANGED dialogVars
  BY <1>5 DEF dialogVars, DialogsInv, DialogsTypeOK, UpInOrder, QueueInOrder, UpBeforeQueued,
              Placed, TimersUp, Shown
<1>6. QED
  BY <1>1, <1>2, <1>3, <1>4, <1>5 DEF DialogsNext

(* What is up, and after it what waits, is everything that is not over. *)
LEMMA DialogsInvImplies == DialogsInv => DialogsInTurn
<1> SUFFICES ASSUME DialogsInv PROVE DialogsInTurn
  OBVIOUS
<1> DEFINE up == [i \in DOMAIN stack |-> stack[i].id]
           turn == up \o queueRef
           n == Len(stack)
           m == Len(queueRef)
<1>1. /\ stack \in Seq([id : DialogIds, isVisible : BOOLEAN]) /\ queueRef \in Seq(DialogIds)
  BY DEF DialogsInv, DialogsTypeOK
<1>2. n \in Nat /\ m \in Nat /\ DOMAIN stack = 1 .. n /\ DOMAIN queueRef = 1 .. m
  BY <1>1
<1>3. up \in [1 .. n -> DialogIds]
  <2>1. \A i \in 1 .. n : stack[i] \in [id : DialogIds, isVisible : BOOLEAN]
    BY <1>1, <1>2, ElementOfSeq
  <2>2. QED BY <1>2, <2>1
<1>4. up \in Seq(DialogIds) /\ Len(up) = n
  BY <1>2, <1>3
<1>5. /\ DOMAIN turn = 1 .. n + m
      /\ \A i \in 1 .. n : turn[i] = stack[i].id
      /\ \A i \in n + 1 .. n + m : turn[i] = queueRef[i - n] /\ i - n \in DOMAIN queueRef
  <2>1. \A i \in 1 .. n : up[i] = stack[i].id
    BY <1>2
  <2> HIDE DEF up
  <2>2. QED BY <1>1, <1>2, <1>4, <2>1
<1> HIDE DEF turn, up
<1>6. ASSUME NEW i \in DOMAIN turn, NEW j \in DOMAIN turn, i < j PROVE turn[i] < turn[j]
  <2>1. CASE j \in 1 .. n
    <3>1. i \in 1 .. n
      BY <1>2, <1>5, <1>6, <2>1
    <3>2. QED BY <1>2, <1>5, <1>6, <2>1, <3>1 DEF DialogsInv, UpInOrder
  <2>2. CASE i \in n + 1 .. n + m
    <3>1. j \in n + 1 .. n + m /\ i - n < j - n
      BY <1>2, <1>5, <1>6, <2>2
    <3>2. QED BY <1>5, <2>2, <3>1 DEF DialogsInv, QueueInOrder
  <2>3. CASE i \in 1 .. n /\ j \in n + 1 .. n + m
    BY <1>2, <1>5, <2>3 DEF DialogsInv, UpBeforeQueued
  <2>4. QED BY <1>2, <1>5, <2>1, <2>2, <2>3
<1>7. {turn[i] : i \in DOMAIN turn} = (1 .. wanted) \ resolved
  <2>1. ASSUME NEW i \in DOMAIN turn PROVE turn[i] \in (1 .. wanted) \ resolved
    <3>1. CASE i \in 1 .. n
      BY <1>2, <1>5, <3>1 DEF DialogsInv, Placed
    <3>2. CASE i \in n + 1 .. n + m
      BY <1>5, <3>2 DEF DialogsInv, Placed
    <3>3. QED BY <1>2, <1>5, <3>1, <3>2
  <2>2. ASSUME NEW d \in (1 .. wanted) \ resolved PROVE \E i \in DOMAIN turn : turn[i] = d
    <3>1. CASE \E i \in DOMAIN stack : stack[i].id = d
      BY <1>2, <1>5, <3>1
    <3>2. CASE \E j \in DOMAIN queueRef : queueRef[j] = d
      <4>1. PICK j \in 1 .. m : queueRef[j] = d
        BY <1>2, <3>2
      <4>2. n + j \in n + 1 .. n + m /\ (n + j) - n = j
        BY <1>2
      <4>3. turn[n + j] = d /\ n + j \in DOMAIN turn
        BY <1>2, <1>5, <4>1, <4>2
      <4>4. QED BY <4>3
    <3>3. QED BY <2>2, <3>1, <3>2 DEF DialogsInv, Placed
  <2>3. QED BY <2>1, <2>2
<1>8. DialogsInTurn <=>
        /\ \A i, j \in DOMAIN turn : i < j => turn[i] < turn[j]
        /\ {turn[i] : i \in DOMAIN turn} = (1 .. wanted) \ resolved
        /\ \A i \in DOMAIN stack : stack[i].isVisible <=> stack[i].id \notin appearing \cup vanishing
        /\ processing <=> appearing # {}
        /\ Len(queueRef) <= crossed
  BY DEF DialogsInTurn, turn, up
<1>9. QED
  BY <1>6, <1>7, <1>8 DEF DialogsInv, TimersUp, Shown

LEMMA DialogsInvariant == DialogsSpec => []DialogsInv
BY DialogsInitInv, DialogsNextKeeps, PTL DEF DialogsSpec

LEMMA DialogsTypes == DialogsSpec => []DialogsTypeOK
<1>1. DialogsInv => DialogsTypeOK
  BY DEF DialogsInv
<1> QED
  BY <1>1, DialogsInvariant, PTL

(* Dialogs come up one at a time and in the order they were asked for, and *)
(* each is up, waits or is over, for any number of them.                   *)
THEOREM DialogsTakeTurns == DialogsSpec => []DialogsInTurn
BY DialogsInvariant, DialogsInvImplies, PTL
=============================================================================
