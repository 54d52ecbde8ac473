------------------------------- MODULE Server -------------------------------
(***************************************************************************)
(* The queues of scheduled backups and the sockets of an agent, two parts  *)
(* of the server process that share no state the models keep, side by      *)
(* side: a behaviour picks one and takes its steps, the other stays as it  *)
(* starts.                                                                 *)
(***************************************************************************)
EXTENDS DueBackups, AgentLink

VARIABLE part \* the part that moves

(* Only the part that moves has a choice of where it starts; the sessions  *)
(* are alike, so any of them stands for that of the first socket.          *)
ServerInit ==
  /\ part \in {"due", "link"}
  /\ Init /\ LinkInit
  /\ sess[1] = CHOOSE s \in Sessions : TRUE
  /\ part = "due" => \A c \in Socks : sess[c] = sess[1]

ServerNext ==
  \/ part = "due" /\ Next /\ UNCHANGED <<part, linkVars>>
  \/ part = "link" /\ LinkNext /\ UNCHANGED <<part, vars>>

serverVars == <<part, vars, linkVars>>

(* Neither part starts with anything its fairness would have to move. *)
ServerSpec ==
  /\ ServerInit /\ [][ServerNext]_serverVars
  /\ DueFairness /\ LinkFairness
=============================================================================
