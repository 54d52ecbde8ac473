----------------------------- MODULE BackupRecord -----------------------------
(***************************************************************************)
(* What the records of backups promise to who lists, downloads and deletes *)
(* them: an identifier has one life, success is recorded on evidence, and   *)
(* an object that is recorded goes only by a removal that stays on record.  *)
(* Which agent, frame, request, scan or timeout is behind a step is not     *)
(* said, nor whether anybody crashed.                                       *)
(***************************************************************************)
CONSTANT Records

VARIABLES
  status,  \* of each record
  keyed,   \* records that name their object
  stored,  \* records whose object is in the bucket
  removed  \* records whose object was ever removed

recordVars == <<status, keyed, stored, removed>>

Live(r) == status[r] \notin {"absent", "deleted"}

Blank ==
  /\ status = [r \in Records |-> "absent"]
  /\ keyed = {} /\ stored = {} /\ removed = {}

(* A record is made once, and what is deleted does not come back. *)
Make(r) ==
  /\ status[r] = "absent"
  /\ \E s \in {"PENDING", "IN_PROGRESS"} : status' = [status EXCEPT ![r] = s]
  /\ UNCHANGED <<keyed, stored, removed>>

Delete(r) ==
  /\ Live(r) /\ status' = [status EXCEPT ![r] = "deleted"]
  /\ UNCHANGED <<keyed, stored, removed>>

Progress(r) ==
  /\ Live(r) /\ status' = [status EXCEPT ![r] = "IN_PROGRESS"]
  /\ UNCHANGED <<keyed, stored, removed>>

(* Several at once, and only records that there are. *)
Fail(R) ==
  /\ \A r \in R : Live(r)
  /\ status' = [r \in Records |-> IF r \in R THEN "FAILED" ELSE status[r]]
  /\ UNCHANGED <<keyed, stored, removed>>

(* An object is stored for a record that was made, perhaps deleted since. *)
Store(r) ==
  /\ status[r] # "absent" /\ stored' = stored \cup {r}
  /\ UNCHANGED <<status, keyed, removed>>

(* Success comes with the object's name or to a record that has it: the    *)
(* object is there, or was and has been removed since.                     *)
Succeed(r) ==
  /\ Live(r) /\ r \in stored \cup removed
  /\ status' = [status EXCEPT ![r] = "COMPLETED"]
  /\ \/ keyed' = keyed \cup {r}
     \/ r \in keyed \cup removed /\ UNCHANGED keyed
  /\ UNCHANGED <<stored, removed>>

(* Only the object of a record that names it is removed, and the name goes *)
(* afterwards.                                                             *)
Remove(r) ==
  /\ r \in keyed /\ stored' = stored \ {r} /\ removed' = removed \cup {r}
  /\ UNCHANGED <<status, keyed>>

Unname(r) ==
  /\ Live(r) /\ r \in removed /\ keyed' = keyed \ {r}
  /\ UNCHANGED <<status, stored, removed>>

RecordNext ==
  \/ \E r \in Records : \/ Make(r) \/ Delete(r) \/ Progress(r)
                        \/ Store(r) \/ Succeed(r) \/ Remove(r) \/ Unname(r)
  \/ \E R \in SUBSET Records : Fail(R)

RecordSpec == Blank /\ [][RecordNext]_recordVars
=============================================================================
