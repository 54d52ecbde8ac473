------------------------------- MODULE ListPage -------------------------------
(***************************************************************************)
(* A list page of the web application: the header whose fields become the  *)
(* query, the store that keeps the query from one visit to the next, the   *)
(* fetches, and the dialogs that create, edit and delete a row.  The pages *)
(* of agents, jobs, users and policies are all built this way, each with   *)
(* its own copy of the handlers.                                           *)
(***************************************************************************)
EXTENDS Integers

CONSTANTS
  Ids,                \* rows that there are or that can be created
  Words,              \* what can be searched for
  NoWord, Garbled,
  Matching,           \* the rows that each word matches
  MaxLoads, MaxVisits \* bounds

ASSUME ListAssumption ==
  /\ NoWord \notin Words /\ Garbled \notin Words \cup {NoWord}
  /\ Matching \in [Words \cup {NoWord} -> SUBSET Ids] /\ Ids # {}
  /\ {MaxLoads, MaxVisits} \subseteq Nat

Loads   == 1 .. MaxLoads
Typed   == Words \cup {NoWord, Garbled}
Orders  == {"none", "asc", "desc"}
Queries == [word: Typed, order: Orders]
Changed == {"delete", "edit", "create"}
Listed  == UNION {[s -> {"old", "new"}] : s \in SUBSET Ids}

VARIABLES
  rows,    \* the rows on the server
  query,   \* filters and order of the page in the data store
  field,   \* the header's own copy of the filter
  visit,   \* which mount of the page this is, 0 before the first
  open,    \* whether it is mounted
  loading, \* whether it shows the spinner for its rows
  load,    \* the fetches: how far, of which visit, with which query
  list,    \* the rows shown
  origin,  \* the fetch they came from, and its query
  dialog,  \* the dialog that is open: what it does, to which row
  change,  \* the request it sent, and the query and visit of its closure
  confirmed \* ghost: rows it was told were deleted, edited, created, this visit

listVars == <<rows, query, field, visit, open, loading, load, list, origin, dialog, change, confirmed>>

NoQuery  == [word |-> NoWord, order |-> "none"]
NoFetch  == [pc |-> "none", query |-> NoQuery, got |-> <<>>, again |-> FALSE]
Over     == [NoFetch EXCEPT !.pc = "done"]
ShownNothing == [by |-> 0, query |-> NoQuery, again |-> FALSE]
NoDialog == [does |-> "none", row |-> CHOOSE r \in Ids : TRUE]
NoChange == [pc |-> "none", does |-> "delete", row |-> NoDialog.row, visit |-> 0, query |-> NoQuery]
ToldNothing == [c \in Changed |-> {}]

ListTypeOK ==
  /\ rows \in [Ids -> {"unborn", "old", "new", "deleted"}]
  /\ query \in Queries /\ field \in Typed
  /\ visit \in 0 .. MaxVisits /\ open \in BOOLEAN /\ loading \in BOOLEAN
  /\ load \in [Loads -> [pc: {"none", "sent", "read", "failed", "done"},
                            query: Queries, got: Listed, again: BOOLEAN]]
  /\ list \in Listed /\ origin \in [by: 0 .. MaxLoads, query: Queries, again: BOOLEAN]
  /\ dialog \in [does: Changed \cup {"none", "error"}, row: Ids]
  /\ change \in [pc: {"none", "sent", "made", "refused"}, does: Changed, row: Ids,
                 visit: 0 .. MaxVisits, query: Queries]
  /\ confirmed \in [Changed -> SUBSET Ids]

ListInit ==
  /\ rows \in [Ids -> {"unborn", "old"}]
  /\ query = NoQuery /\ field = NoWord /\ visit = 0 /\ open = FALSE /\ loading = FALSE
  /\ load = [n \in Loads |-> NoFetch] /\ list = <<>> /\ origin = ShownNothing
  /\ dialog = NoDialog /\ change = NoChange /\ confirmed = ToldNothing

Sent == {n \in Loads : load[n].pc # "none"}

(* again: the fetch after a change, with the query its closure was drawn with. *)
fetchList(q, again) ==
  /\ loading' = TRUE
  /\ \E n \in Loads :
       /\ n \notin Sent /\ 1 .. (n - 1) \subseteq Sent
       /\ load' = [load EXCEPT ![n] = [pc |-> "sent", query |-> q, got |-> <<>>, again |-> again]]

(* The store still has the query of the last visit.  The header shows it as *)
(* it was typed when the field matches by equality; a "contains" field is   *)
(* given the query object.                                                 *)
Visit ==
  /\ ~open /\ visit < MaxVisits
  /\ open' = TRUE /\ visit' = visit + 1
  /\ field' \in IF query.word = NoWord THEN {NoWord} ELSE {query.word, Garbled}
  /\ fetchList(query, FALSE)
  /\ UNCHANGED <<rows, query, list, origin, dialog, change, confirmed>>

(* The back button works over an open dialog, which belongs to the app.    *)
(* What the page that is gone still fetches is shown nowhere.              *)
Leave ==
  /\ open /\ open' = FALSE /\ loading' = FALSE
  /\ load' = [n \in Loads |-> IF n \in Sent THEN Over ELSE NoFetch]
  /\ list' = <<>> /\ origin' = ShownNothing /\ confirmed' = ToldNothing
  /\ UNCHANGED <<rows, query, field, visit, dialog, change>>

-----------------------------------------------------------------------------
(* The header and the table's heads, which a dialog covers. *)

Reachable == open /\ dialog = NoDialog

Type(w) ==
  /\ Reachable /\ field' = w
  /\ UNCHANGED <<rows, query, visit, open, loading, load, list, origin, dialog, change, confirmed>>

Asks(q) ==
  /\ query' = q /\ fetchList(q, FALSE)
  /\ UNCHANGED <<rows, visit, open, list, origin, dialog, change, confirmed>>

SearchOnce ==  \* mutant: the effect depends on the order alone
  /\ Reachable /\ query' = [query EXCEPT !.word = field]
  /\ UNCHANGED <<rows, field, visit, open, loading, load, list, origin, dialog, change, confirmed>>

(* A new filter object, equal or not, runs the effect that fetches. *)
Search == Reachable /\ Asks([query EXCEPT !.word = field]) /\ UNCHANGED field
Clear  == Reachable /\ Asks([query EXCEPT !.word = NoWord]) /\ field' = NoWord

toggleOrderBy ==
  /\ Reachable /\ ~loading /\ list # <<>>
  /\ Asks([query EXCEPT !.order = IF @ = "none" THEN "asc" ELSE IF @ = "asc" THEN "desc" ELSE "none"])
  /\ UNCHANGED field

-----------------------------------------------------------------------------
(* The server answers, with an error for a query it cannot make sense of.  *)

Alive(r) == rows[r] \in {"old", "new"}

Answers(n) ==
  /\ load[n].pc = "sent"
  /\ load' = [load EXCEPT ![n] =
       IF @.query.word = Garbled THEN [@ EXCEPT !.pc = "failed"]
       ELSE [@ EXCEPT !.pc = "read",
              !.got = [r \in {x \in Matching[load[n].query.word] : Alive(x)} |-> rows[r]]]]
  /\ UNCHANGED <<rows, query, field, visit, open, loading, list, origin, dialog, change, confirmed>>

(* The rows are shown whatever the query is by now, an error is a toast,   *)
(* and either takes the spinner away.                                      *)
Shows(n) ==
  /\ load[n].pc \in {"sent", "read", "failed"}
  /\ load' = [load EXCEPT ![n] = Over] /\ loading' = FALSE
  /\ IF load[n].pc = "read"
       THEN /\ list' = load[n].got
            /\ origin' = [by |-> n, query |-> load[n].query, again |-> load[n].again]
       ELSE UNCHANGED <<list, origin>>
  /\ UNCHANGED <<rows, query, field, visit, open, dialog, change, confirmed>>

Elsewhere(r) ==  \* another client deletes a row
  /\ Alive(r) /\ rows' = [rows EXCEPT ![r] = "deleted"]
  /\ UNCHANGED <<query, field, visit, open, loading, load, list, origin, dialog, change, confirmed>>

-----------------------------------------------------------------------------
(* The dialogs.  Their handlers are those of the render that opened them.  *)

(* The rows and their menus, unless the spinner is in their place. *)
Table == IF loading THEN {} ELSE DOMAIN list

functionExecute(does, r) ==
  /\ Reachable /\ change.pc = "none"
  /\ IF does = "create" THEN rows[r] = "unborn" ELSE r \in Table
  /\ dialog' = [does |-> does, row |-> r]
  /\ change' = [NoChange EXCEPT !.does = does, !.row = r, !.visit = visit, !.query = query]
  /\ UNCHANGED <<rows, query, field, visit, open, loading, load, list, origin, confirmed>>

(* A dialog that asks goes at once, a form stays till its request is made. *)
(* Bound: a form is sent once at a time, though its button stays enabled.  *)
Confirm ==
  /\ dialog.does \in Changed /\ change.pc = "none"
  /\ change' = [change EXCEPT !.pc = "sent"]
  /\ dialog' = IF dialog.does = "delete" THEN NoDialog ELSE dialog
  /\ UNCHANGED <<rows, query, field, visit, open, loading, load, list, origin, confirmed>>

Dismiss ==
  /\ dialog # NoDialog /\ dialog' = NoDialog
  /\ change' = IF change.pc = "none" THEN NoChange ELSE change
  /\ UNCHANGED <<rows, query, field, visit, open, loading, load, list, origin, confirmed>>

(* The server makes the change; one to a row that is gone shows nowhere. *)
Makes ==
  /\ change.pc = "sent" /\ change' = [change EXCEPT !.pc = "made"]
  /\ rows' = [rows EXCEPT ![change.row] =
       CASE change.does = "delete" -> "deleted"
         [] change.does = "create" -> "old"
         [] change.does = "edit"   -> IF @ = "deleted" THEN "deleted" ELSE "new"]
  /\ UNCHANGED <<query, field, visit, open, loading, load, list, origin, dialog, confirmed>>

(* It refuses, or the request or its answer is lost. *)
Refuses ==
  /\ change.pc \in {"sent", "made"} /\ change' = [change EXCEPT !.pc = "refused"]
  /\ UNCHANGED <<rows, query, field, visit, open, loading, load, list, origin, dialog, confirmed>>

(* The fetch of a page that is not there any more shows nothing. *)
Refetch(ids) ==
  IF open /\ change.visit = visit
    THEN fetchList(change.query, TRUE) /\ confirmed' = [confirmed EXCEPT ![change.does] = @ \cup ids]
    ELSE UNCHANGED <<load, loading, confirmed>>

(* The form closes and the page fetches again. *)
Made ==
  /\ change.pc = "made" /\ change' = NoChange
  /\ dialog' = IF change.does = "delete" THEN dialog ELSE NoDialog
  /\ Refetch({change.row})
  /\ UNCHANGED <<rows, query, field, visit, open, list, origin>>

(* A refused deletion is a toast or, for what is in use, a dialog; a form  *)
(* stays, with a toast, and the page fetches again all the same.           *)
DeleteRefused ==
  /\ change.pc = "refused" /\ change.does = "delete" /\ change' = NoChange
  /\ dialog' \in {dialog} \cup (IF Reachable THEN {[does |-> "error", row |-> change.row]} ELSE {})
  /\ UNCHANGED <<rows, query, field, visit, open, loading, load, list, origin, confirmed>>

FormRefused ==
  /\ change.pc = "refused" /\ change.does # "delete"
  /\ change' = IF dialog = NoDialog THEN NoChange ELSE [change EXCEPT !.pc = "none"]
  /\ Refetch({})
  /\ UNCHANGED <<rows, query, field, visit, open, list, origin, dialog>>

-----------------------------------------------------------------------------
ListNext ==
  \/ Visit \/ Leave \/ Search \/ Clear \/ toggleOrderBy
  \/ \E w \in Words \cup {NoWord} : Type(w)
  \/ \E n \in Loads : Answers(n) \/ Shows(n)
  \/ \E r \in Ids : Elsewhere(r) \/ \E does \in Changed : functionExecute(does, r)
  \/ Confirm \/ Dismiss \/ Makes \/ Refuses \/ Made \/ DeleteRefused \/ FormRefused

ListSpec == ListInit /\ [][ListNext]_listVars

-----------------------------------------------------------------------------
(* Properties. *)

NewestLoad(n) == n \in Sent /\ \A m \in Sent : m <= n
Loading == {n \in Sent : load[n].pc # "done"}

(* When the newest fetch is the one applied, the page shows what its query *)
(* asks for, or what the closure of its last change asked for, and none of *)
(* the rows that it was told are deleted and the others as it was told; no    *)
(* spinner stays when nothing is being fetched.                            *)
ListMatchesHeader ==
  /\ loading => open /\ Loading # {}
  /\ open /\ NewestLoad(origin.by) =>
       LET asked == origin.query IN
       /\ asked = query \/ origin.again
       /\ DOMAIN list \subseteq Matching[asked.word]
       /\ DOMAIN list \cap confirmed["delete"] = {}
       /\ \A r \in confirmed["edit"] \cap DOMAIN list : list[r] = "new"
       /\ \A r \in confirmed["create"] \cap Matching[asked.word] : r \in DOMAIN list \/ ~Alive(r)
=============================================================================
