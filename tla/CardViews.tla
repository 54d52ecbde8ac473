------------------------------- MODULE CardViews -------------------------------
(***************************************************************************)
(* The pages that show cards: the agents, and the jobs of one agent, a copy *)
(* of the former.  Some orders are the server's and choosing one fetches   *)
(* again; the order by last backup and the search are the page's own, over *)
(* the cards it has.  LiveView has the statuses on the cards.              *)
(***************************************************************************)
EXTENDS Sorting

CONSTANTS
  Cards,      \* agents or jobs, by the date they were created
  ByName,     \* their place in the order of their names
  Found,      \* the cards that the word searched for is part of
  MaxTaken,   \* bound: backups that are taken
  MaxCardGets \* bound: fetches of the page

ASSUME CardsAssumption ==
  /\ IsFiniteSet(Cards) /\ Cards = 1 .. Cardinality(Cards) /\ Found \subseteq Cards
  /\ ByName \in [Cards -> Nat] /\ {MaxTaken, MaxCardGets} \subseteq Nat

CardGets    == 1 .. MaxCardGets
SortOptions == {"date", "name", "last-backup"}
Card        == [id: Cards, last: 0 .. MaxTaken]

VARIABLES
  onServer, \* the cards that the server has
  taken,    \* backups taken so far
  lastBackup, \* the last backup of each card, 0 for never
  kind,     \* the page: "none" yet, the agents' or the jobs'
  sortBy,
  searched, \* whether a word is applied, appliedSearch
  cardGet,  \* the fetches: whether they are under way and the order they ask for
  due,      \* the order with which a timer is going to fetch, or "none"
  cards,    \* the cards the page has
  cardsOf,  \* the fetch they came from
  spinner,  \* loading
  outrun    \* ghost: the order was chosen before a timer with another one fired

cardVars == <<onServer, taken, lastBackup, kind, sortBy, searched, cardGet, due,
              cards, cardsOf, spinner, outrun>>
worldOfCards == <<onServer, taken, lastBackup>>

NoCardGet == [pc |-> "none", sort |-> "date"]

CardsTypeOK ==
  /\ onServer \subseteq Cards /\ taken \in 0 .. MaxTaken /\ lastBackup \in [Cards -> 0 .. MaxTaken]
  /\ kind \in {"none", "agents", "jobs"} /\ sortBy \in SortOptions
  /\ {searched, spinner, outrun} \subseteq BOOLEAN
  /\ due \in SortOptions \cup {"none"}
  /\ cardGet \in [CardGets -> [pc: {"none", "sent", "done"}, sort: SortOptions]]
  /\ cards \in Seq(Card) /\ cardsOf \in 0 .. MaxCardGets

CardsInit ==
  /\ onServer = Cards \ {Cardinality(Cards)} /\ taken = 0 /\ lastBackup = [c \in Cards |-> 0]
  /\ kind = "none" /\ sortBy = "date" /\ searched = FALSE
  /\ cardGet = [n \in CardGets |-> NoCardGet] /\ due = "none"
  /\ cards = <<>> /\ cardsOf = 0 /\ spinner = FALSE /\ outrun = FALSE

-----------------------------------------------------------------------------
(* The server. *)

(* Bound: cards are added; those that are deleted are ListPage's subject.  *)
CardAdded ==
  /\ \E c \in Cards \ onServer : onServer' = onServer \cup {c}
  /\ UNCHANGED <<taken, lastBackup, kind, sortBy, searched, cardGet, due, cards, cardsOf, spinner, outrun>>

NextGets(k) == {n \in CardGets : n + k - 1 \in CardGets /\
                  \A m \in CardGets : cardGet[m].pc = "none" <=> m >= n}

(* k fetches in the order s, one after the other. *)
fetchCards(s, k) ==
  /\ spinner' = TRUE
  /\ \E n \in NextGets(k) :
       cardGet' = [m \in CardGets |->
         IF m \in n .. n + k - 1 THEN [NoCardGet EXCEPT !.pc = "sent", !.sort = s] ELSE cardGet[m]]

(* A backup is taken; the page of the jobs hears of it and fetches. *)
BackupTaken(c) ==
  /\ c \in onServer /\ taken < MaxTaken /\ taken' = taken + 1
  /\ lastBackup' = [lastBackup EXCEPT ![c] = taken + 1]
  /\ IF kind = "jobs" THEN fetchCards(sortBy, 1) ELSE UNCHANGED <<cardGet, spinner>>
  /\ UNCHANGED <<onServer, kind, sortBy, searched, due, cards, cardsOf, outrun>>

(* Without an order of its own, a fetch gets the server's: newest first.   *)
(* Equal names stand in an order of the database's.                        *)
Before(s, a, b) ==
  IF s = "name" THEN ByName[a] < ByName[b] \/ (ByName[a] = ByName[b] /\ a < b) ELSE a > b

ListCards(s) ==
  LET ids == SortedBy(onServer, {p \in Cards \X Cards : Before(s, p[1], p[2])})
  IN [i \in DOMAIN ids |-> [id |-> ids[i], last |-> lastBackup[ids[i]]]]

-----------------------------------------------------------------------------
(* The page. *)

(* Both of its effects run when it is mounted, and each fetches. *)
MountCards(k) ==
  /\ kind = "none" /\ kind' = k /\ fetchCards(sortBy, 2)
  /\ UNCHANGED <<worldOfCards, sortBy, searched, due, cards, cardsOf, outrun>>

SortByKeeps(s) ==  \* mutant: an order that is the page's is left without a fetch
  /\ kind # "none" /\ s # sortBy /\ sortBy' = s
  /\ outrun' = (outrun \/ due \notin {"none", s})
  /\ IF sortBy = "last-backup" THEN UNCHANGED <<cardGet, spinner>> ELSE fetchCards(s, 1)
  /\ UNCHANGED <<worldOfCards, kind, searched, due, cards, cardsOf>>

SortBy(s) ==
  /\ kind # "none" /\ s # sortBy /\ sortBy' = s
  /\ outrun' = (outrun \/ due \notin {"none", s})
  /\ fetchCards(s, 1)
  /\ UNCHANGED <<worldOfCards, kind, searched, due, cards, cardsOf>>

(* The word in the search box takes effect when it is applied. *)
applySearch ==
  /\ kind # "none" /\ searched' = TRUE
  /\ UNCHANGED <<worldOfCards, kind, sortBy, cardGet, due, cards, cardsOf, spinner, outrun>>

clearSearch ==
  /\ kind # "none" /\ searched' = FALSE
  /\ UNCHANGED <<worldOfCards, kind, sortBy, cardGet, due, cards, cardsOf, spinner, outrun>>

(* A backup asked for on the page of the jobs: half a second later it      *)
(* fetches, in the order that was chosen when it was asked for.            *)
TriggerThenFetch ==
  /\ kind = "jobs" /\ due = "none" /\ cards # <<>> /\ ~spinner /\ due' = sortBy
  /\ UNCHANGED <<worldOfCards, kind, sortBy, searched, cardGet, cards, cardsOf, spinner, outrun>>

LateFetch ==
  /\ due # "none" /\ due' = "none" /\ fetchCards(due, 1)
  /\ UNCHANGED <<worldOfCards, kind, sortBy, searched, cards, cardsOf, outrun>>

(* The answers are taken in any order; one that is an error leaves the     *)
(* cards as they are.  A card is as the server has it when it is taken.    *)
SetCards(n) ==
  /\ cardGet[n].pc = "sent" /\ cardGet' = [cardGet EXCEPT ![n].pc = "done"]
  /\ spinner' = FALSE
  /\ \/ cards' = ListCards(cardGet[n].sort) /\ cardsOf' = n
     \/ UNCHANGED <<cards, cardsOf>>
  /\ UNCHANGED <<worldOfCards, kind, sortBy, searched, due, outrun>>

-----------------------------------------------------------------------------
CardsNext ==
  \/ CardAdded \/ applySearch \/ clearSearch \/ TriggerThenFetch \/ LateFetch
  \/ \E c \in Cards : BackupTaken(c)
  \/ \E k \in {"agents", "jobs"} : MountCards(k)
  \/ \E s \in SortOptions : SortBy(s)
  \/ \E n \in CardGets : SetCards(n)

CardsSpec == CardsInit /\ [][CardsNext]_cardVars

-----------------------------------------------------------------------------
(* What the page shows. *)

filteredCards ==
  IF searched THEN Kept(cards, {i \in DOMAIN cards : cards[i].id \in Found}) ELSE cards

(* The newest backup first, the others as they were. *)
LastBefore(cs, i, j) == cs[i].last > cs[j].last \/ (cs[i].last = cs[j].last /\ i < j)
ByLast(cs) == {p \in (DOMAIN cs) \X (DOMAIN cs) : LastBefore(cs, p[1], p[2])}

SortedByLast(cs) == [i \in DOMAIN cs |-> cs[SortedBy(DOMAIN cs, ByLast(cs))[i]]]

visibleCards == IF sortBy = "last-backup" THEN SortedByLast(filteredCards) ELSE filteredCards

(* The page of the jobs has the spinner in their place; that of the agents *)
(* above them.                                                             *)
CardGrid == IF kind = "jobs" /\ spinner THEN <<>> ELSE visibleCards

-----------------------------------------------------------------------------
(* Properties. *)

CardsQuiet == \A n \in CardGets : cardGet[n].pc \in {"none", "done"}
LastGet    == {n \in CardGets : cardGet[n].pc # "none"} = 1 .. cardsOf

InChosenOrder(a, b) ==
  CASE sortBy = "name" -> ByName[a.id] <= ByName[b.id]
    [] sortBy = "date" -> a.id > b.id
    [] sortBy = "last-backup" -> a.last > b.last \/ (a.last = b.last /\ a.id > b.id)

(* When all is quiet and the newest fetch is the one applied, the cards    *)
(* stand in the order that is chosen, each once, and all of those searched *)
(* for are there; unless the order was chosen while a fetch with an older  *)
(* one was due, which nothing puts right.                                  *)
CardsInOrder ==
  CardsQuiet /\ LastGet /\ due = "none" =>
    /\ ~outrun => \A i, j \in DOMAIN CardGrid : i < j => InChosenOrder(CardGrid[i], CardGrid[j])
    /\ {CardGrid[i] : i \in DOMAIN CardGrid} =
         {cards[i] : i \in {k \in DOMAIN cards : searched => cards[k].id \in Found}}
    /\ \A i, j \in DOMAIN CardGrid : i < j => CardGrid[i].id # CardGrid[j].id
=============================================================================
