------------------------------ MODULE AgentLink ------------------------------
(***************************************************************************)
(* The sockets of one agent at the server, ws.agent.ts: onOpen, which      *)
(* awaits the session lookup and the session update, the registry with its *)
(* one entry per agent, onClose, the ping cycle and the reaper, and the    *)
(* routes that revoke a session or delete the agent.  Several sockets may  *)
(* be open at once: the agent reconnects before the server has noticed the *)
(* loss, or one token is used from two places.                             *)
(***************************************************************************)
EXTENDS Naturals

CONSTANTS
  MaxSocks,   \* bound: sockets ever accepted
  Sessions    \* the agent's sessions, one per pairing

ASSUME SocksAssumption == MaxSocks \in Nat

Socks == 1 .. MaxSocks

VARIABLES
  phase,     \* how far a socket's onOpen has come
  sess,      \* the session whose token it presents
  net,       \* the socket itself
  silent,    \* sockets whose peer has vanished: no frame comes any more
  pinging,   \* sockets whose ping interval runs
  due,       \* sockets whose ping timeout is armed
  registry,  \* the socket of the agent's entry in agentRegistry, 0 if none
  fresh,     \* the entry's lastSeen is not older than STALE_TIMEOUT_MS
  revoke,    \* DELETE /api/agents/:id/sessions/:sessionId
  delete     \* DELETE /api/agents/:id

entry  == <<registry, fresh>>
timers == <<pinging, due>>
routes == <<revoke, delete>>
linkVars == <<phase, sess, net, silent, timers, entry, routes>>

Phase == {"none", "lookup", "found", "missing", "failed", "set", "ready", "threw"}
Net   == {"open", "closing", "closed"}
Route == {"no", "deleted", "done"}

LinkTypeOK ==
  /\ phase \in [Socks -> Phase] /\ sess \in [Socks -> Sessions] /\ net \in [Socks -> Net]
  /\ silent \subseteq Socks /\ pinging \subseteq Socks /\ due \subseteq Socks
  /\ registry \in 0 .. MaxSocks /\ fresh \in BOOLEAN /\ (registry = 0 => ~fresh)
  /\ revoke \in [Sessions -> Route] /\ delete \in Route

LinkInit ==
  /\ phase = [c \in Socks |-> "none"] /\ sess \in [Socks -> Sessions]
  /\ net = [c \in Socks |-> "closed"]
  /\ silent = {} /\ pinging = {} /\ due = {} /\ registry = 0 /\ fresh = FALSE
  /\ revoke = [s \in Sessions |-> "no"] /\ delete = "no"

Exists(s)   == revoke[s] = "no" /\ delete = "no"
Accepted(c) == phase[c] \in {"set", "ready", "threw"}  \* agentId is set

(* ws.close(): onClose is still to come.  On a closed socket, or on none, *)
(* nothing happens.                                                       *)
Shut(c) == net' = [d \in Socks |-> IF d = c /\ net[d] = "open" THEN "closing" ELSE net[d]]

-----------------------------------------------------------------------------
(* onOpen. *)

Connect(c) ==
  /\ phase[c] = "none" /\ \A d \in Socks : d < c => phase[d] # "none"
  /\ phase' = [phase EXCEPT ![c] = "lookup"] /\ net' = [net EXCEPT ![c] = "open"]
  /\ UNCHANGED <<sess, silent, timers, entry, routes>>

(* The database answers; the handler goes on later. *)
Lookup(c) ==
  /\ phase[c] = "lookup"
  /\ \/ phase' = [phase EXCEPT ![c] = IF Exists(sess[c]) THEN "found" ELSE "missing"]
     \/ phase' = [phase EXCEPT ![c] = "failed"]  \* it throws: nobody tells the agent
  /\ UNCHANGED <<sess, net, silent, timers, entry, routes>>

Refuse(c) ==
  /\ phase[c] = "missing" /\ phase' = [phase EXCEPT ![c] = "failed"]
  /\ Shut(c)
  /\ UNCHANGED <<sess, silent, timers, entry, routes>>

(* The previous socket is closed and its entry replaced, whether or not *)
(* this one has been closed meanwhile.                                  *)
AcceptBeside(c) ==  \* mutant: the previous socket is left open
  /\ phase[c] = "found" /\ phase' = [phase EXCEPT ![c] = "set"]
  /\ registry' = c /\ fresh' = TRUE
  /\ UNCHANGED <<sess, net, silent, timers, routes>>

Accept(c) ==
  /\ phase[c] = "found" /\ phase' = [phase EXCEPT ![c] = "set"]
  /\ Shut(registry)
  /\ registry' = c /\ fresh' = TRUE
  /\ UNCHANGED <<sess, silent, timers, routes>>

(* The session update succeeded: "connected" is sent and the ping cycle    *)
(* starts.  It throws if the session is gone, or on a database error.      *)
WelcomeAnyway(c) ==  \* mutant: the update's failure is caught and ignored
  /\ phase[c] = "set" /\ phase' = [phase EXCEPT ![c] = "ready"]
  /\ pinging' = pinging \cup {c}
  /\ UNCHANGED <<sess, net, silent, due, entry, routes>>

Welcome(c) ==
  /\ phase[c] = "set" /\ Exists(sess[c])
  /\ phase' = [phase EXCEPT ![c] = "ready"] /\ pinging' = pinging \cup {c}
  /\ UNCHANGED <<sess, net, silent, due, entry, routes>>

Throw(c) ==
  /\ phase[c] = "set" /\ phase' = [phase EXCEPT ![c] = "threw"]
  /\ UNCHANGED <<sess, net, silent, timers, entry, routes>>

-----------------------------------------------------------------------------
(* onMessage: a pong or an agent_status refreshes the agent's entry, even  *)
(* if it is not this socket's; a pong also disarms the socket's timeout.   *)
FrameAny(c) ==  \* mutant: the entry is not looked for
  /\ Accepted(c) /\ net[c] # "closed" /\ c \notin silent
  /\ fresh' = TRUE /\ due' \in {due, due \ {c}}
  /\ UNCHANGED <<phase, sess, net, silent, pinging, registry, routes>>

Frame(c) ==
  /\ Accepted(c) /\ net[c] # "closed" /\ c \notin silent
  /\ fresh' = (registry # 0)
  /\ due' \in {due, due \ {c}}
  /\ UNCHANGED <<phase, sess, net, silent, pinging, registry, routes>>

(* The peer closes the socket, or it vanishes without a word. *)
PeerCloses(c) ==
  /\ net[c] = "open" /\ Shut(c)
  /\ UNCHANGED <<phase, sess, silent, timers, entry, routes>>

PeerVanishes(c) ==
  /\ net[c] # "closed" /\ c \notin silent /\ silent' = silent \cup {c}
  /\ UNCHANGED <<phase, sess, net, timers, entry, routes>>

(* onClose: the entry goes only if it is this socket's. *)
Close(c) ==
  /\ net[c] = "closing" /\ net' = [net EXCEPT ![c] = "closed"]
  /\ pinging' = pinging \ {c} /\ due' = due \ {c}
  /\ registry' = (IF registry = c THEN 0 ELSE registry) /\ fresh' = (fresh /\ registry # c)
  /\ UNCHANGED <<phase, sess, silent, routes>>

-----------------------------------------------------------------------------
(* Timers. *)

(* The ping interval: the timeout is armed even if nothing could be sent. *)
Ping(c) ==
  /\ c \in pinging /\ due' = due \cup {c}
  /\ UNCHANGED <<phase, sess, net, silent, pinging, entry, routes>>

PingTimeout(c) ==
  /\ c \in due /\ due' = due \ {c} /\ Shut(c)
  /\ UNCHANGED <<phase, sess, silent, pinging, entry, routes>>

(* STALE_TIMEOUT_MS pass without a frame. *)
Age ==
  /\ registry # 0 /\ fresh /\ fresh' = FALSE
  /\ UNCHANGED <<phase, sess, net, silent, timers, registry, routes>>

(* reapStaleAgents: the entry goes at once, since onClose may never come. *)
ReapByClosing ==  \* mutant: leaves the entry to onClose
  /\ registry # 0 /\ ~fresh
  /\ Shut(registry) /\ UNCHANGED entry
  /\ UNCHANGED <<phase, sess, silent, timers, routes>>

Reap ==
  /\ registry # 0 /\ ~fresh
  /\ Shut(registry) /\ registry' = 0 /\ UNCHANGED fresh
  /\ UNCHANGED <<phase, sess, silent, timers, routes>>

-----------------------------------------------------------------------------
(* The routes: the rows are deleted, and then the registry is looked at. *)

RevokeDelete(s) ==
  /\ Exists(s) /\ revoke' = [revoke EXCEPT ![s] = "deleted"]
  /\ UNCHANGED <<phase, sess, net, silent, timers, entry, delete>>

RevokeClose(s) ==
  /\ revoke[s] = "deleted" /\ revoke' = [revoke EXCEPT ![s] = "done"]
  /\ IF registry # 0 /\ sess[registry] = s THEN Shut(registry) ELSE UNCHANGED net
  /\ UNCHANGED <<phase, sess, silent, timers, entry, delete>>

DeleteRows ==
  /\ delete = "no" /\ delete' = "deleted"
  /\ UNCHANGED <<phase, sess, net, silent, timers, entry, revoke>>

DeleteClose ==
  /\ delete = "deleted" /\ delete' = "done" /\ Shut(registry)
  /\ UNCHANGED <<phase, sess, silent, timers, entry, revoke>>

-----------------------------------------------------------------------------
OnOpen(c) == Connect(c) \/ Lookup(c) \/ Refuse(c) \/ Accept(c) \/ Welcome(c) \/ Throw(c)

SocketStep(c) ==
  \/ OnOpen(c) \/ Frame(c) \/ PeerCloses(c) \/ PeerVanishes(c) \/ Close(c)
  \/ Ping(c) \/ PingTimeout(c)

LinkNext ==
  \/ Age \/ Reap \/ DeleteRows \/ DeleteClose
  \/ \E c \in Socks : SocketStep(c)
  \/ \E s \in Sessions : RevokeDelete(s) \/ RevokeClose(s)

LinkSpec == LinkInit /\ [][LinkNext]_linkVars

(* Nobody is left who could still send a frame. *)
Quiet == \A c \in Socks : Accepted(c) /\ net[c] # "closed" => c \in silent

(* The timers fire: in silence lastSeen gets old and the sweep finds it.   *)
(* The close of a socket whose peer is there completes; that of a vanished *)
(* peer need not, and nothing is assumed of the database.                  *)
LinkFairness ==
  /\ WF_linkVars(Age /\ Quiet) /\ WF_linkVars(Reap)
  /\ \A c \in Socks : WF_linkVars(c \notin silent /\ Close(c))

-----------------------------------------------------------------------------
(* Properties. *)

(* A socket that is open and whose frames are acted upon is the one in the *)
(* registry: there is never a second one beside it, and none is "invisible *)
(* to command dispatch while it keeps happily heartbeating", in whatever   *)
(* order lookups, closes and the reaper come.                              *)
NeverInvisible == \A c \in Socks : Accepted(c) /\ net[c] = "open" => registry = c

(* Once a revocation or the deletion of the agent has been answered, no    *)
(* socket it welcomed is open.  It closes the registered socket alone, so  *)
(* any other must have been closed before.  (A socket whose lookup was     *)
(* answered before and whose update threw is registered and stays.)        *)
RevokedIsCutOff ==
  \A c \in Socks : phase[c] = "ready" /\ (revoke[sess[c]] = "done" \/ delete = "done") =>
    net[c] # "open"

(* "a dead entry can sit in agentRegistry forever" is what the reaper is   *)
(* for: an entry whose peer has vanished or whose socket is closed goes,   *)
(* though it may be set after onClose, though onClose may never come, and  *)
(* though frames of other sockets refresh it.                              *)
DeadEntryGoes ==
  \A c \in Socks : registry = c /\ (c \in silent \/ net[c] # "open") ~> registry # c
=============================================================================
