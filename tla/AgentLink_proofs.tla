--------------------------- MODULE AgentLink_proofs ---------------------------
(***************************************************************************)
(* That an open socket is never invisible and that a revoked one is cut    *)
(* off, for any number of sockets and sessions.  The two are inductive     *)
(* together: a revocation closes the registered socket alone, and that is  *)
(* enough because no other one is open.                                    *)
(***************************************************************************)
EXTENDS AgentLink, TLAPS

IInv == LinkTypeOK /\ NeverInvisible /\ RevokedIsCutOff

(* Socket zero is no socket. *)
LEMMA ZeroIsNoSocket == 0 \notin Socks /\ Socks \subseteq 0 .. MaxSocks
BY SocksAssumption, SMT DEF Socks

(* ws.close() opens nothing, and leaves nothing of c open. *)
LEMMA ShutOnlyCloses ==
  ASSUME net \in [Socks -> Net], NEW c, Shut(c)
  PROVE  /\ net' \in [Socks -> Net]
         /\ \A d \in Socks : net'[d] = "open" => net[d] = "open" /\ d # c
<1>1. net' \in [Socks -> Net]
  BY DEF Shut, Net
<1>2. ASSUME NEW d \in Socks, net'[d] = "open" PROVE net[d] = "open" /\ d # c
  BY <1>2 DEF Shut, Net
<1> QED BY <1>1, <1>2

LEMMA InitHolds == LinkInit => IInv
<1> SUFFICES ASSUME LinkInit PROVE IInv
  OBVIOUS
<1>1. registry \in 0 .. MaxSocks
  BY SocksAssumption, SMT DEF LinkInit
<1>2. LinkTypeOK
  BY <1>1 DEF LinkInit, LinkTypeOK, Phase, Net, Route
<1>3. NeverInvisible /\ RevokedIsCutOff
  BY DEF LinkInit, NeverInvisible, RevokedIsCutOff, Accepted
<1> QED BY <1>2, <1>3 DEF IInv

LEMMA StepKeepsType == LinkTypeOK /\ [LinkNext]_linkVars => LinkTypeOK'
<1> SUFFICES ASSUME LinkTypeOK, [LinkNext]_linkVars PROVE LinkTypeOK'
  OBVIOUS
<1> USE ZeroIsNoSocket
<1>1. ASSUME NEW c \in Socks, Connect(c) PROVE LinkTypeOK'
  BY <1>1 DEF Connect, LinkTypeOK, Phase, Net, timers, entry, routes
<1>2. ASSUME NEW c \in Socks, Lookup(c) PROVE LinkTypeOK'
  BY <1>2 DEF Lookup, LinkTypeOK, Phase, timers, entry, routes
<1>3. ASSUME NEW c \in Socks, Refuse(c) PROVE LinkTypeOK'
  BY <1>3, ShutOnlyCloses DEF Refuse, LinkTypeOK, Phase, timers, entry, routes
<1>4. ASSUME NEW c \in Socks, Accept(c) PROVE LinkTypeOK'
  BY <1>4, ShutOnlyCloses DEF Accept, LinkTypeOK, Phase, timers, routes
<1>5. ASSUME NEW c \in Socks, Welcome(c) \/ Throw(c) PROVE LinkTypeOK'
  <2>1. phase' \in [Socks -> Phase] /\ pinging' \subseteq Socks
    BY <1>5 DEF Welcome, Throw, LinkTypeOK, Phase, timers
  <2>2. UNCHANGED <<sess, net, silent, due, registry, fresh, revoke, delete>>
    BY <1>5 DEF Welcome, Throw, timers, entry, routes
  <2> QED BY <2>1, <2>2 DEF LinkTypeOK
<1>6. ASSUME NEW c \in Socks, Frame(c) PROVE LinkTypeOK'
  <2>1. fresh' \in BOOLEAN /\ (registry' = 0 => ~fresh') /\ registry' \in 0 .. MaxSocks
    BY <1>6 DEF Frame, LinkTypeOK
  <2>2. due' \subseteq Socks
    BY <1>6 DEF Frame, LinkTypeOK
  <2>3. UNCHANGED <<phase, sess, net, silent, pinging, revoke, delete>>
    BY <1>6 DEF Frame, routes
  <2> QED BY <2>1, <2>2, <2>3 DEF LinkTypeOK
<1>7. ASSUME NEW c \in Socks, PeerCloses(c) PROVE LinkTypeOK'
  BY <1>7, ShutOnlyCloses DEF PeerCloses, LinkTypeOK, timers, entry, routes
<1>8. ASSUME NEW c \in Socks, PeerVanishes(c) \/ Ping(c) PROVE LinkTypeOK'
  <2>1. silent' \subseteq Socks /\ due' \subseteq Socks
    BY <1>8 DEF PeerVanishes, Ping, LinkTypeOK, timers
  <2>2. UNCHANGED <<phase, sess, net, pinging, registry, fresh, revoke, delete>>
    BY <1>8 DEF PeerVanishes, Ping, timers, entry, routes
  <2> QED BY <2>1, <2>2 DEF LinkTypeOK
<1>9. ASSUME NEW c \in Socks, Close(c) PROVE LinkTypeOK'
  <2>1. net' \in [Socks -> Net] /\ phase' \in [Socks -> Phase] /\ sess' \in [Socks -> Sessions]
    BY <1>9 DEF Close, LinkTypeOK, Net
  <2>2. registry' \in 0 .. MaxSocks
    BY <1>9, SocksAssumption, SMT DEF Close, LinkTypeOK
  <2>3. fresh' \in BOOLEAN /\ (registry' = 0 => ~fresh')
    BY <1>9, Zenon DEF Close, LinkTypeOK
  <2>4. silent' \subseteq Socks /\ pinging' \subseteq Socks /\ due' \subseteq Socks
    BY <1>9 DEF Close, LinkTypeOK
  <2>5. revoke' \in [Sessions -> Route] /\ delete' \in Route
    BY <1>9 DEF Close, LinkTypeOK, routes
  <2> QED BY <2>1, <2>2, <2>3, <2>4, <2>5 DEF LinkTypeOK
<1>10. ASSUME NEW c \in Socks, PingTimeout(c) PROVE LinkTypeOK'
  BY <1>10, ShutOnlyCloses DEF PingTimeout, LinkTypeOK, entry, routes
<1>11. ASSUME Age PROVE LinkTypeOK'
  BY <1>11 DEF Age, LinkTypeOK, timers, routes
<1>12. ASSUME Reap PROVE LinkTypeOK'
  <2>1. registry' \in 0 .. MaxSocks /\ (registry' = 0 => ~fresh')
    BY <1>12, SocksAssumption, SMT DEF Reap
  <2> QED BY <1>12, <2>1, ShutOnlyCloses DEF Reap, LinkTypeOK, timers, routes
<1>13. ASSUME NEW s \in Sessions, RevokeDelete(s) PROVE LinkTypeOK'
  BY <1>13 DEF RevokeDelete, LinkTypeOK, Route, timers, entry
<1>14. ASSUME NEW s \in Sessions, RevokeClose(s) PROVE LinkTypeOK'
  <2>1. net' \in [Socks -> Net]
    BY <1>14, ShutOnlyCloses DEF RevokeClose, LinkTypeOK
  <2> QED BY <1>14, <2>1 DEF RevokeClose, LinkTypeOK, Route, timers, entry
<1>15. ASSUME DeleteRows PROVE LinkTypeOK'
  BY <1>15 DEF DeleteRows, LinkTypeOK, Route, timers, entry
<1>16. ASSUME DeleteClose PROVE LinkTypeOK'
  BY <1>16, ShutOnlyCloses DEF DeleteClose, LinkTypeOK, Route, timers, entry
<1>17. ASSUME UNCHANGED linkVars PROVE LinkTypeOK'
  BY <1>17 DEF linkVars, LinkTypeOK, timers, entry, routes
<1> QED
  BY <1>1, <1>2, <1>3, <1>4, <1>5, <1>6, <1>7, <1>8, <1>9, <1>10, <1>11, <1>12,
     <1>13, <1>14, <1>15, <1>16, <1>17 DEF LinkNext, SocketStep, OnOpen

(* One step per action.  Four of them need an argument: Accept and Welcome *)
(* make a socket count, RevokeClose and DeleteClose raise the bar.         *)
LEMMA StepKeeps == IInv /\ [LinkNext]_linkVars => NeverInvisible' /\ RevokedIsCutOff'
<1> SUFFICES ASSUME IInv, [LinkNext]_linkVars PROVE NeverInvisible' /\ RevokedIsCutOff'
  OBVIOUS
<1> LinkTypeOK
  BY DEF IInv
<1> DEFINE Goal == NeverInvisible' /\ RevokedIsCutOff'
<1>1. ASSUME NEW c \in Socks, Connect(c) PROVE Goal
  <2>1. \A d \in Socks : Accepted(d)' => d # c /\ Accepted(d)
    BY <1>1 DEF Connect, Accepted, LinkTypeOK
  <2>2. \A d \in Socks : d # c => net'[d] = net[d] /\ phase'[d] = phase[d]
    BY <1>1 DEF Connect, LinkTypeOK
  <2>3. phase'[c] = "lookup"
    BY <1>1 DEF Connect, LinkTypeOK
  <2> QED
    BY <1>1, <2>1, <2>2, <2>3 DEF Connect, IInv, NeverInvisible, RevokedIsCutOff, entry, routes
<1>2. ASSUME NEW c \in Socks, Lookup(c) PROVE Goal
  <2>1. \A d \in Socks : /\ Accepted(d)' => Accepted(d)
                         /\ phase'[d] = "ready" => phase[d] = "ready"
    BY <1>2 DEF Lookup, Accepted, LinkTypeOK
  <2> QED
    BY <1>2, <2>1 DEF Lookup, IInv, NeverInvisible, RevokedIsCutOff, entry, routes
<1>3. ASSUME NEW c \in Socks, Refuse(c) PROVE Goal
  <2>1. \A d \in Socks : /\ Accepted(d)' => Accepted(d)
                         /\ phase'[d] = "ready" => phase[d] = "ready"
    BY <1>3 DEF Refuse, Accepted, LinkTypeOK
  <2>2. \A d \in Socks : net'[d] = "open" => net[d] = "open"
    BY <1>3, ShutOnlyCloses DEF Refuse, LinkTypeOK
  <2> QED
    BY <1>3, <2>1, <2>2 DEF Refuse, IInv, NeverInvisible, RevokedIsCutOff, entry, routes
<1>4. ASSUME NEW c \in Socks, Accept(c) PROVE Goal
  <2>1. \A d \in Socks : net'[d] = "open" => net[d] = "open" /\ d # registry
    BY <1>4, ShutOnlyCloses DEF Accept, LinkTypeOK
  <2>2. \A d \in Socks : d # c => (Accepted(d)' <=> Accepted(d)) /\ phase'[d] = phase[d]
    BY <1>4 DEF Accept, Accepted, LinkTypeOK
  <2>3. phase'[c] = "set" /\ registry' = c /\ sess' = sess /\ revoke' = revoke /\ delete' = delete
    BY <1>4 DEF Accept, LinkTypeOK, routes
  <2>4. NeverInvisible'
    BY <2>1, <2>2, <2>3 DEF IInv, NeverInvisible
  <2>5. RevokedIsCutOff'
    BY <2>1, <2>2, <2>3 DEF IInv, RevokedIsCutOff
  <2> QED BY <2>4, <2>5
<1>5. ASSUME NEW c \in Socks, Welcome(c) PROVE Goal
  <2>1. \A d \in Socks : Accepted(d)' => Accepted(d)
    BY <1>5 DEF Welcome, Accepted, LinkTypeOK
  <2>2. \A d \in Socks : d # c => phase'[d] = phase[d]
    BY <1>5 DEF Welcome, LinkTypeOK
  <2>3. revoke[sess[c]] # "done" /\ delete # "done"
    BY <1>5 DEF Welcome, Exists
  <2> QED
    BY <1>5, <2>1, <2>2, <2>3 DEF Welcome, IInv, NeverInvisible, RevokedIsCutOff, entry, routes
<1>6. ASSUME NEW c \in Socks, Throw(c) PROVE Goal
  <2>1. \A d \in Socks : /\ Accepted(d)' => Accepted(d)
                         /\ phase'[d] = "ready" => phase[d] = "ready"
    BY <1>6 DEF Throw, Accepted, LinkTypeOK
  <2> QED
    BY <1>6, <2>1 DEF Throw, IInv, NeverInvisible, RevokedIsCutOff, entry, routes
<1>7. ASSUME NEW c \in Socks, Frame(c) \/ PeerVanishes(c) \/ Ping(c) PROVE Goal
  <2>1. UNCHANGED <<phase, sess, net, registry, revoke, delete>>
    BY <1>7 DEF Frame, PeerVanishes, Ping, entry, routes
  <2> QED BY <2>1 DEF IInv, NeverInvisible, RevokedIsCutOff, Accepted
<1>8. ASSUME NEW c \in Socks, PeerCloses(c) \/ PingTimeout(c) PROVE Goal
  <2>1. \A d \in Socks : net'[d] = "open" => net[d] = "open"
    BY <1>8, ShutOnlyCloses DEF PeerCloses, PingTimeout, LinkTypeOK
  <2>2. UNCHANGED <<phase, sess, registry, revoke, delete>>
    BY <1>8 DEF PeerCloses, PingTimeout, entry, routes
  <2> QED BY <2>1, <2>2 DEF IInv, NeverInvisible, RevokedIsCutOff, Accepted
<1>9. ASSUME NEW c \in Socks, Close(c) PROVE Goal
  <2>1. \A d \in Socks : net'[d] = "open" => net[d] = "open" /\ d # c
    BY <1>9 DEF Close, LinkTypeOK
  <2>2. UNCHANGED <<phase, sess, revoke, delete>>
    BY <1>9 DEF Close, routes
  <2>3. registry # c => registry' = registry
    BY <1>9 DEF Close
  <2> QED BY <2>1, <2>2, <2>3 DEF IInv, NeverInvisible, RevokedIsCutOff, Accepted
<1>10. ASSUME Age PROVE Goal
  BY <1>10 DEF Age, IInv, NeverInvisible, RevokedIsCutOff, Accepted, routes
<1>11. ASSUME Reap PROVE Goal
  <2>1. \A d \in Socks : net'[d] = "open" => net[d] = "open" /\ d # registry
    BY <1>11, ShutOnlyCloses DEF Reap, LinkTypeOK
  <2>2. UNCHANGED <<phase, sess, revoke, delete>>
    BY <1>11 DEF Reap, routes
  <2> QED BY <2>1, <2>2 DEF IInv, NeverInvisible, RevokedIsCutOff, Accepted
<1>12. ASSUME NEW s \in Sessions, RevokeDelete(s) PROVE Goal
  <2>1. \A t \in Sessions : revoke'[t] = "done" => revoke[t] = "done"
    BY <1>12 DEF RevokeDelete, LinkTypeOK
  <2>2. \A d \in Socks : sess[d] \in Sessions
    BY DEF LinkTypeOK
  <2> QED
    BY <1>12, <2>1, <2>2 DEF RevokeDelete, IInv, NeverInvisible, RevokedIsCutOff, Accepted, entry
<1>13. ASSUME NEW s \in Sessions, RevokeClose(s) PROVE Goal
  <2>1. \A d \in Socks : net'[d] = "open" => net[d] = "open"
    BY <1>13, ShutOnlyCloses DEF RevokeClose, LinkTypeOK
  <2>2. ASSUME NEW d \in Socks, Accepted(d), sess[d] = s PROVE net'[d] # "open"
    <3>1. CASE registry = d
      BY <1>13, <2>2, <3>1, ShutOnlyCloses, ZeroIsNoSocket DEF RevokeClose, LinkTypeOK
    <3>2. CASE registry # d
      BY <2>1, <2>2, <3>2 DEF IInv, NeverInvisible
    <3> QED BY <3>1, <3>2
  <2>3. \A d \in Socks : sess[d] \in Sessions /\ (sess[d] # s => revoke'[sess[d]] = revoke[sess[d]])
    BY <1>13 DEF RevokeClose, LinkTypeOK
  <2>4. UNCHANGED <<phase, sess, registry, delete>>
    BY <1>13 DEF RevokeClose, entry
  <2>5. NeverInvisible'
    BY <2>1, <2>4 DEF IInv, NeverInvisible, Accepted
  <2>6. RevokedIsCutOff'
    BY <2>1, <2>2, <2>3, <2>4 DEF IInv, RevokedIsCutOff, Accepted
  <2> QED BY <2>5, <2>6
<1>14. ASSUME DeleteRows PROVE Goal
  BY <1>14 DEF DeleteRows, IInv, NeverInvisible, RevokedIsCutOff, Accepted, entry
<1>15. ASSUME DeleteClose PROVE Goal
  <2>1. \A d \in Socks : net'[d] = "open" => net[d] = "open" /\ d # registry
    BY <1>15, ShutOnlyCloses DEF DeleteClose, LinkTypeOK
  <2>2. UNCHANGED <<phase, sess, registry>>
    BY <1>15 DEF DeleteClose, entry
  <2>3. \A d \in Socks : Accepted(d) => net'[d] # "open"
    BY <2>1 DEF IInv, NeverInvisible
  <2> QED BY <2>2, <2>3 DEF NeverInvisible, RevokedIsCutOff, Accepted
<1>16. ASSUME UNCHANGED linkVars PROVE Goal
  BY <1>16 DEF linkVars, IInv, NeverInvisible, RevokedIsCutOff, Accepted, entry, routes
<1> QED
  BY <1>1, <1>2, <1>3, <1>4, <1>5, <1>6, <1>7, <1>8, <1>9, <1>10, <1>11, <1>12,
     <1>13, <1>14, <1>15, <1>16 DEF LinkNext, SocketStep, OnOpen

LEMMA Invariance == LinkSpec => []IInv
<1>1. IInv /\ [LinkNext]_linkVars => IInv'
  BY StepKeepsType, StepKeeps DEF IInv
<1> QED BY InitHolds, <1>1, PTL DEF LinkSpec

(* Every variable keeps its type, and an entry's lastSeen goes with it. *)
THEOREM TypeCorrect == LinkSpec => []LinkTypeOK
<1>1. IInv => LinkTypeOK
  BY DEF IInv
<1> QED BY Invariance, <1>1, PTL

(* A socket that is open and acted upon is the registered one. *)
THEOREM OpenIsRegistered == LinkSpec => []NeverInvisible
<1>1. IInv => NeverInvisible
  BY DEF IInv
<1> QED BY Invariance, <1>1, PTL

(* A revocation or deletion that has been answered leaves no welcomed *)
(* socket open.                                                       *)
THEOREM RevokedStaysOut == LinkSpec => []RevokedIsCutOff
<1>1. IInv => RevokedIsCutOff
  BY DEF IInv
<1> QED BY Invariance, <1>1, PTL
=============================================================================
