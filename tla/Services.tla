------------------------------- MODULE Services -------------------------------
(***************************************************************************)
(* The components around the backup path, which share no state the models   *)
(* keep, side by side: a behaviour picks one of them and takes its steps,  *)
(* the others stay as they start.                                          *)
(***************************************************************************)
EXTENDS UserSessions, Enrolment, AgentUpdate, AgentRequests, AgentStatusHistory,
        Uptime, LiveView, JobEditing, ListPage, Dashboard, BackupFeed, CardViews,
        DialogQueue

VARIABLE moving \* the component that moves

Components == {"sessions", "enrolment", "update", "calls", "status",
               "uptime", "live", "editing", "list", "board", "feed",
               "cards", "dialogs"}

(* Only the component that moves has a choice of where it starts. *)
Init ==
  /\ moving \in Components
  /\ SessionsInit /\ EnrolInit /\ UpdateInit /\ CallsInit /\ StatusInit
  /\ UptimeInit /\ LiveInit /\ EditInit /\ ListInit /\ BoardInit
  /\ FeedInit /\ CardsInit /\ DialogsInit
  /\ moving # "update" => ~windows
  /\ \A r \in Ids : rows[r] = "unborn"

Next ==
  \/ /\ moving = "sessions" /\ SessionsNext
     /\ UNCHANGED <<moving, enrolVars, updateVars, callVars, statusVars,
                    uptimeVars, liveVars, editVars, listVars, boardVars, feedVars,
                    cardVars, dialogVars>>
  \/ /\ moving = "enrolment" /\ EnrolNext
     /\ UNCHANGED <<moving, userVars, updateVars, callVars, statusVars,
                    uptimeVars, liveVars, editVars, listVars, boardVars, feedVars,
                    cardVars, dialogVars>>
  \/ /\ moving = "update" /\ UpdateNext
     /\ UNCHANGED <<moving, userVars, enrolVars, callVars, statusVars, uptimeVars,
                    liveVars, editVars, listVars, boardVars, feedVars, cardVars,
                    dialogVars>>
  \/ /\ moving = "calls" /\ CallsNext
     /\ UNCHANGED <<moving, userVars, enrolVars, updateVars, statusVars,
                    uptimeVars, liveVars, editVars, listVars, boardVars, feedVars,
                    cardVars, dialogVars>>
  \/ /\ moving = "status" /\ StatusNext
     /\ UNCHANGED <<moving, userVars, enrolVars, updateVars, callVars, uptimeVars,
                    liveVars, editVars, listVars, boardVars, feedVars, cardVars,
                    dialogVars>>
  \/ /\ moving = "uptime" /\ UptimeNext
     /\ UNCHANGED <<moving, userVars, enrolVars, updateVars, callVars, statusVars,
                    liveVars, editVars, listVars, boardVars, feedVars, cardVars,
                    dialogVars>>
  \/ /\ moving = "live" /\ LiveNext
     /\ UNCHANGED <<moving, userVars, enrolVars, updateVars, callVars, statusVars,
                    uptimeVars, editVars, listVars, boardVars, feedVars, cardVars,
                    dialogVars>>
  \/ /\ moving = "editing" /\ EditNext
     /\ UNCHANGED <<moving, userVars, enrolVars, updateVars, callVars, statusVars,
                    uptimeVars, liveVars, listVars, boardVars, feedVars, cardVars,
                    dialogVars>>
  \/ /\ moving = "list" /\ ListNext
     /\ UNCHANGED <<moving, userVars, enrolVars, updateVars, callVars, statusVars,
                    uptimeVars, liveVars, editVars, boardVars, feedVars, cardVars,
                    dialogVars>>
  \/ /\ moving = "board" /\ BoardNext
     /\ UNCHANGED <<moving, userVars, enrolVars, updateVars, callVars, statusVars,
                    uptimeVars, liveVars, editVars, listVars, feedVars, cardVars,
                    dialogVars>>
  \/ /\ moving = "feed" /\ FeedNext
     /\ UNCHANGED <<moving, userVars, enrolVars, updateVars, callVars, statusVars,
                    uptimeVars, liveVars, editVars, listVars, boardVars, cardVars,
                    dialogVars>>
  \/ /\ moving = "cards" /\ CardsNext
     /\ UNCHANGED <<moving, userVars, enrolVars, updateVars, callVars, statusVars,
                    uptimeVars, liveVars, editVars, listVars, boardVars, feedVars,
                    dialogVars>>
  \/ /\ moving = "dialogs" /\ DialogsNext
     /\ UNCHANGED <<moving, userVars, enrolVars, updateVars, callVars, statusVars,
                    uptimeVars, liveVars, editVars, listVars, boardVars, feedVars,
                    cardVars>>

vars == <<moving, userVars, enrolVars, updateVars, callVars, statusVars,
          uptimeVars, liveVars, editVars, listVars, boardVars, feedVars,
          cardVars, dialogVars>>

(* Every component starts with nothing its fairness would have to move. *)
Spec ==
  /\ Init /\ [][Next]_vars
  /\ EnrolFairness /\ CallsFairness /\ StatusFairness /\ LiveFairness

-----------------------------------------------------------------------------
(* The types of the variables of whichever component moves. *)
ServicesTypeOK ==
  CASE moving = "sessions"  -> SessionsTypeOK
    [] moving = "enrolment" -> EnrolTypeOK
    [] moving = "update"    -> UpdateTypeOK
    [] moving = "calls"     -> CallsTypeOK
    [] moving = "status"    -> StatusTypeOK
    [] moving = "uptime"    -> UptimeTypeOK
    [] moving = "live"      -> LiveTypeOK
    [] moving = "editing"   -> EditTypeOK
    [] moving = "list"      -> ListTypeOK
    [] moving = "board"     -> BoardTypeOK
    [] moving = "feed"      -> FeedTypeOK
    [] moving = "cards"     -> CardsTypeOK
    [] moving = "dialogs"   -> DialogsTypeOK

(* What the pages show beside the lists of ListPage: the feed of all the    *)
(* backups, the cards, the dialogs over all of them, the uptime and the     *)
(* timeline of an agent and the figures of the dashboard, as the properties *)
(* of BackupFeed, CardViews, DialogQueue, Uptime and Dashboard say.         *)
PagesAgree ==
  /\ moving = "feed" => FeedInOrder
  /\ moving = "cards" => CardsInOrder
  /\ moving = "dialogs" => DialogsInTurn
  /\ moving = "uptime" => UptimeAddsUp
  /\ moving = "board" => BoardAddsUp
=============================================================================
