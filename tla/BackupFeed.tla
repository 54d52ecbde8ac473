------------------------------- MODULE BackupFeed -------------------------------
(***************************************************************************)
(* The view of all the backups: a list that grows by a page with each      *)
(* "Load more", over rows that come and go, and starts again each time the *)
(* view is chosen.  A page is asked for by how many rows the list has.     *)
(***************************************************************************)
EXTENDS Sorting, FiniteSetsExt

CONSTANTS
  PageSize,   \* BACKUPS_PAGE_SIZE
  FirstRows,  \* backups there are to begin with
  MaxRows,    \* bound: backups that are ever there
  MaxChanges, \* bound: how often the rows change
  MaxGets     \* bound: requests the page makes

ASSUME FeedAssumption ==
  /\ PageSize \in Nat \ {0} /\ {FirstRows, MaxRows, MaxChanges, MaxGets} \subseteq Nat
  /\ FirstRows <= MaxRows

Backups  == 1 .. MaxRows
Gets     == 1 .. MaxGets
Versions == 0 .. MaxChanges
Mixed    == -1
Outcomes == {"COMPLETED", "FAILED"}
Listing  == [id: Backups, status: Outcomes \cup {"IN_PROGRESS"}]

VARIABLES
  table,   \* the status of the rows there are, by their place in the order of
           \* started_at
  version, \* how often they changed
  view,    \* the view: the agents, as a grid or a list, or all the backups
  feed,    \* the backups listed
  count,   \* backupsTotal
  busy,    \* backupsLoading
  get,     \* the requests: how far, and what they ask for and got
  feedOf   \* ghost: the version that all of the listed pages are of

feedVars == <<table, version, view, feed, count, busy, get, feedOf>>

NoGet == [pc |-> "none", reset |-> FALSE, skip |-> 0, got |-> <<>>, version |-> 0, count |-> 0]

GetType ==
  [pc: {"none", "sent", "read", "done"}, reset: BOOLEAN, skip: Nat, got: Seq(Listing),
   version: Versions, count: 0 .. MaxRows]

FeedTypeOK ==
  /\ table \in [DOMAIN table -> Outcomes \cup {"IN_PROGRESS"}] /\ DOMAIN table \subseteq Backups
  /\ version \in Versions /\ view \in {"agents", "all"} /\ feed \in Seq(Listing) /\ count \in 0 .. MaxRows
  /\ busy \in BOOLEAN /\ feedOf \in Versions \cup {Mixed}
  /\ get \in [Gets -> GetType] /\ \A n \in Gets : Len(get[n].got) <= PageSize

FeedInit ==
  /\ table = [b \in 1 .. FirstRows |-> IF b = FirstRows THEN "IN_PROGRESS" ELSE "COMPLETED"]
  /\ version = 0 /\ view = "agents"
  /\ feed = <<>> /\ count = 0 /\ busy = FALSE /\ feedOf = 0
  /\ get = [n \in Gets |-> NoGet]

-----------------------------------------------------------------------------
(* The server. *)

InOrder ==
  LET ids == Descending(DOMAIN table)
  IN [i \in DOMAIN ids |-> [id |-> ids[i], status |-> table[ids[i]]]]

Changes(rows) ==
  /\ version < MaxChanges /\ version' = version + 1 /\ table' = rows
  /\ UNCHANGED <<view, feed, count, busy, get, feedOf>>

BackupBegins ==
  \E b \in Backups :
    /\ \A k \in DOMAIN table : k < b
    /\ Changes([k \in DOMAIN table \cup {b} |-> IF k = b THEN "IN_PROGRESS" ELSE table[k]])

BackupOver ==
  \E b \in DOMAIN table, s \in Outcomes :
    table[b] = "IN_PROGRESS" /\ Changes([table EXCEPT ![b] = s])

BackupPruned ==
  \E b \in DOMAIN table :
    table[b] # "IN_PROGRESS" /\ Changes([k \in DOMAIN table \ {b} |-> table[k]])

PageFrom(skip) == SubSeq(InOrder, skip + 1, Min({skip + PageSize, Len(InOrder)}))

(* The list of backups from skip on, and how many there are. *)
ListBackups(n) ==
  /\ get[n].pc = "sent"
  /\ get' = [get EXCEPT ![n] = [@ EXCEPT !.pc = "read", !.version = version,
       !.got = PageFrom(get[n].skip), !.count = Cardinality(DOMAIN table)]]
  /\ UNCHANGED <<table, version, view, feed, count, busy, feedOf>>

-----------------------------------------------------------------------------
(* The page. *)

fetchBackupsFrom(skip, reset) ==
  /\ busy' = TRUE
  /\ \E n \in Gets :
       /\ get[n].pc = "none" /\ \A m \in 1 .. n - 1 : get[m].pc # "none"
       /\ get' = [get EXCEPT ![n] = [NoGet EXCEPT !.pc = "sent", !.reset = reset, !.skip = skip]]
  /\ UNCHANGED <<table, version, feed, count, feedOf>>

fetchAlwaysFrom(reset) == fetchBackupsFrom(Len(feed), reset)  \* mutant: skip whatever reset says

fetchBackups(reset) == fetchBackupsFrom(IF reset THEN 0 ELSE Len(feed), reset)

(* Choosing the view asks for its first page; what it listed before stays  *)
(* until the answer.                                                       *)
ShowAll    == view = "agents" /\ view' = "all" /\ fetchBackups(TRUE)
ShowAgents ==
  /\ view = "all" /\ view' = "agents"
  /\ UNCHANGED <<table, version, feed, count, busy, get, feedOf>>

(* The button is there while fewer are listed than there are, and is       *)
(* disabled while a request is under way, or one of two was answered.      *)
LoadMore ==
  /\ view = "all" /\ Len(feed) < count /\ ~busy
  /\ fetchBackups(FALSE) /\ UNCHANGED view

(* The answer replaces the list or is put after what is listed by then. *)
SetBackups(n) ==
  /\ get[n].pc = "read" /\ get' = [get EXCEPT ![n] = [NoGet EXCEPT !.pc = "done"]]
  /\ busy' = FALSE /\ count' = get[n].count
  /\ LET g == get[n] IN
     IF g.reset
       THEN feed' = g.got /\ feedOf' = g.version
       ELSE /\ feed' = feed \o g.got
            /\ feedOf' = IF g.version = feedOf /\ g.skip = Len(feed) THEN feedOf ELSE Mixed
  /\ UNCHANGED <<table, version, view>>

FeedFails(n) ==
  /\ get[n].pc \in {"sent", "read"} /\ get' = [get EXCEPT ![n] = [NoGet EXCEPT !.pc = "done"]]
  /\ busy' = FALSE
  /\ UNCHANGED <<table, version, view, feed, count, feedOf>>

-----------------------------------------------------------------------------
FeedNext ==
  \/ BackupBegins \/ BackupOver \/ BackupPruned \/ ShowAll \/ ShowAgents \/ LoadMore
  \/ \E n \in Gets : ListBackups(n) \/ SetBackups(n) \/ FeedFails(n)

FeedSpec == FeedInit /\ [][FeedNext]_feedVars

-----------------------------------------------------------------------------
(* What a row offers: its error, its file, or nothing yet. *)
BackupRow(r) ==
  CASE r.status = "FAILED" -> "error" [] r.status = "COMPLETED" -> "download"
    [] OTHER -> "nothing"

(* Properties. *)

(* While the rows have not changed since the first page was read, the list *)
(* is what comes first in their order, each backup once and none left out, *)
(* and "Load more" is there as long as something is missing; a change, or  *)
(* a page that was asked for before the list was started again, may list a *)
(* backup twice or leave one out.  A row offers the file of a backup that   *)
(* is completed and nothing of one that runs.                              *)
FeedInOrder ==
  feed # <<>> /\ feedOf = version =>
    /\ \A i, j \in DOMAIN feed : i < j => feed[i].id > feed[j].id
    /\ Len(feed) <= Len(InOrder)
    /\ \A i \in DOMAIN feed :
         feed[i].id = InOrder[i].id /\ BackupRow(feed[i]) = BackupRow(InOrder[i])
    /\ Len(feed) < count <=> Len(feed) # Cardinality(DOMAIN table)
=============================================================================
