----------------------------- MODULE Access_proofs -----------------------------
(***************************************************************************)
(* How users and agents get in and stay out.  Rotation multiplies no       *)
(* session and a browser loses a working token only in the ways that       *)
(* LiveTokenKept names, for any number of browsers, requests and tokens; a *)
(* code is spent only with the session it makes and an agent that was put  *)
(* out does not stay connected, for any number of codes, sessions,         *)
(* pairings and sockets.  An update never leaves the agent lost, and the    *)
(* lock is held only while one is made; requests to an agent leave no      *)
(* resolver and no timer behind, for any number of dialogs and requests.   *)
(***************************************************************************)
EXTENDS UserSessions, Enrolment, AgentUpdate, AgentRequests, FiniteSetTheorems, TLAPS

Known == 1 .. signed \cup {NoToken}

(* The rows are of tokens that were signed, and logins made them. *)
RowsSigned ==
  /\ signed \in 0 .. MaxTokens /\ logins \in 0 .. signed
  /\ sessions \subseteq 1 .. signed /\ expired \subseteq sessions
  /\ RotationConserves

(* What a request that is under way says of the token it carries: one that *)
(* a 401 answered is dead, one that was rotated has no row any more.       *)
SlotOK(q) ==
  /\ q \in Slot /\ q.sent \in Known /\ q.made \in Known
  /\ q.kind = "login" => q.sent = NoToken
  /\ q.pc = "answered" =>
       /\ q.kind \in {"login", "me", "refresh", "logout"}
       /\ q.kind = "me" => ~LiveToken(q.sent)
       /\ q.kind = "refresh" => q.sent \notin sessions \/ q.sent = q.made

SessionsInv ==
  /\ user \in {"absent", "live", "deleted"}
  /\ RowsSigned
  /\ stored \in [Browsers -> Known]
  /\ req \in [Requests -> Slot] /\ \A r \in Requests : SlotOK(req[r])

(* A token is signed once: the dead stay dead. *)
DeadStay ==
  /\ signed' >= signed /\ signed' \in Nat
  /\ \A t \in Known : t \notin sessions => t \notin sessions'
  /\ \A t \in Known : ~LiveToken(t) => ~LiveToken(t)'

-----------------------------------------------------------------------------
LEMMA SessionsInitInv == SessionsInit => SessionsInv
<1> SUFFICES ASSUME SessionsInit
             PROVE  SessionsInv
  OBVIOUS
<1>1. RowsSigned
  BY FS_EmptySet, SessionsAssumption DEF SessionsInit, RowsSigned, RotationConserves
<1>2. NoRequest \in Slot /\ SlotOK(NoRequest)
  BY DEF NoRequest, Slot, Kinds, SlotOK, Known
<1> QED
  BY <1>1, <1>2 DEF SessionsInit, SessionsInv, Known

LEMMA RowsFinite ==
  ASSUME RowsSigned
  PROVE  /\ IsFiniteSet(sessions) /\ Cardinality(sessions) \in Nat
         /\ signed \in Nat /\ logins \in Nat
<1>1. signed \in Nat /\ logins \in Nat
  BY SessionsAssumption DEF RowsSigned
<1>2. IsFiniteSet(1 .. signed)
  BY <1>1, FS_Interval
<1>3. IsFiniteSet(sessions)
  BY <1>2, FS_Subset DEF RowsSigned
<1> QED
  BY <1>1, <1>3, FS_CardinalityType

(* Rows that go, or expire, leave fewer; nothing is signed. *)
LEMMA RowsGo ==
  ASSUME RowsSigned, UNCHANGED <<signed, logins>>, sessions' \subseteq sessions,
         expired' \subseteq sessions', \A t \in sessions' : t \in expired => t \in expired'
  PROVE  RowsSigned' /\ DeadStay
<1>1. /\ IsFiniteSet(sessions) /\ Cardinality(sessions) \in Nat
      /\ signed \in Nat /\ logins \in Nat
  BY RowsFinite
<1>2. IsFiniteSet(sessions') /\ Cardinality(sessions') <= Cardinality(sessions)
  BY <1>1, FS_Subset
<1>3. Cardinality(sessions') \in Nat
  BY <1>2, FS_CardinalityType
<1>4. RotationConserves'
  BY <1>1, <1>2, <1>3 DEF RowsSigned, RotationConserves
<1> QED
  BY <1>1, <1>4 DEF RowsSigned, DeadStay, LiveToken, Known

(* A login adds a row. *)
LEMMA RowAdded ==
  ASSUME RowsSigned, signed < MaxTokens, signed' = signed + 1, logins' = logins + 1,
         sessions' = sessions \cup {signed + 1}, UNCHANGED expired
  PROVE  RowsSigned' /\ DeadStay
<1>1. /\ IsFiniteSet(sessions) /\ Cardinality(sessions) \in Nat
      /\ signed \in Nat /\ logins \in Nat /\ MaxTokens \in Nat /\ NoToken \notin Nat
  BY RowsFinite, SessionsAssumption
<1>2. signed + 1 \notin sessions
  BY <1>1 DEF RowsSigned
<1>3. Cardinality(sessions') = Cardinality(sessions) + 1
  BY <1>1, <1>2, FS_AddElement
<1>4. RotationConserves'
  BY <1>1, <1>3 DEF RowsSigned, RotationConserves
<1>5. sessions' \subseteq 1 .. signed' /\ expired' \subseteq sessions'
  BY <1>1 DEF RowsSigned
<1>6. DeadStay
  BY <1>1 DEF DeadStay, LiveToken, Known
<1> QED
  BY <1>1, <1>4, <1>5, <1>6 DEF RowsSigned

(* A refresh replaces one. *)
LEMMA RowReplaced ==
  ASSUME RowsSigned, NEW t \in sessions, signed < MaxTokens, signed' = signed + 1,
         sessions' = (sessions \ {t}) \cup {signed + 1}, expired' = expired \ {t},
         UNCHANGED logins
  PROVE  RowsSigned' /\ DeadStay /\ t \notin sessions'
<1>1. /\ IsFiniteSet(sessions) /\ Cardinality(sessions) \in Nat
      /\ signed \in Nat /\ logins \in Nat /\ MaxTokens \in Nat /\ NoToken \notin Nat
      /\ sessions \subseteq 1 .. signed
  BY RowsFinite, SessionsAssumption DEF RowsSigned
<1>2. signed + 1 \notin sessions \ {t} /\ t # signed + 1
  BY <1>1
<1>3. IsFiniteSet(sessions \ {t}) /\ Cardinality(sessions \ {t}) = Cardinality(sessions) - 1
  BY <1>1, FS_RemoveElement
<1>4. Cardinality(sessions') = Cardinality(sessions \ {t}) + 1
  BY <1>2, <1>3, FS_AddElement
<1>5. RotationConserves'
  BY <1>1, <1>3, <1>4 DEF RowsSigned, RotationConserves
<1>6. sessions' \subseteq 1 .. signed' /\ expired' \subseteq sessions'
  BY <1>1 DEF RowsSigned
<1>7. DeadStay
  BY <1>1 DEF DeadStay, LiveToken, Known
<1> QED
  BY <1>1, <1>2, <1>5, <1>6, <1>7 DEF RowsSigned

(* What a request says of its token stays true. *)
LEMMA SlotStays ==
  ASSUME SessionsInv, DeadStay, NEW r \in Requests, req'[r] = req[r]
  PROVE  SlotOK(req[r])' /\ Known \subseteq Known'
<1>1. SlotOK(req[r]) /\ Known \subseteq Known' /\ Slot' = Slot
  BY RowsFinite DEF SessionsInv, DeadStay, Known, Slot, Tokens
<1>2. req[r].sent \in Known
  BY <1>1 DEF SlotOK
<1> QED
  BY <1>1, <1>2 DEF SlotOK, DeadStay

(* A step of one request, which leaves the others as they are. *)
LEMMA RequestKeeps ==
  ASSUME SessionsInv, RowsSigned', DeadStay, user' = user,
         NEW r \in Requests, NEW q, req' = [req EXCEPT ![r] = q], SlotOK(q)',
         stored' \in [Browsers -> Known']
  PROVE  SessionsInv'
<1>1. req'[r] = q /\ \A s \in Requests \ {r} : req'[s] = req[s]
  BY DEF SessionsInv
<1>2. \A s \in Requests : SlotOK(req[s])'
  BY <1>1, SlotStays
<1>3. req' \in [Requests -> Slot']
  BY <1>1, <1>2 DEF SessionsInv, SlotOK
<1> QED
  BY <1>2, <1>3 DEF SessionsInv

(* Nothing happens to the rows. *)
LEMMA RowsRest ==
  ASSUME SessionsInv, UNCHANGED <<sessions, expired, signed, logins>>
  PROVE  RowsSigned' /\ DeadStay /\ Known' = Known /\ Slot' = Slot
<1>1. RowsSigned' /\ DeadStay
  BY RowsGo DEF SessionsInv, RowsSigned
<1> QED
  BY <1>1 DEF Known, Slot, Tokens

LEMMA StoredStays ==
  ASSUME SessionsInv, DeadStay, UNCHANGED stored
  PROVE  stored' \in [Browsers -> Known'] /\ Known \subseteq Known'
<1>1. Known \subseteq Known'
  BY RowsFinite DEF SessionsInv, DeadStay, Known
<1> QED
  BY <1>1 DEF SessionsInv

LEMMA FreeSlot == SlotOK(NoRequest)'
BY DEF SlotOK, NoRequest, Slot, Kinds, Known

-----------------------------------------------------------------------------
(* The database alone: users come and go, tokens expire and are cleared.   *)
LEMMA DatabaseKeeps ==
  ASSUME SessionsInv,
         CreateUser \/ DeleteUser \/ clearExpiredUserSessions \/ \E t \in Tokens : Expire(t)
  PROVE  SessionsInv'
<1>1. /\ UNCHANGED <<signed, logins, stored, req>> /\ user' \in {"absent", "live", "deleted"}
      /\ sessions' \subseteq sessions /\ expired' \subseteq sessions'
      /\ \A t \in sessions' : t \in expired => t \in expired'
  BY DEF CreateUser, DeleteUser, clearExpiredUserSessions, Expire, Forget, SessionsInv, RowsSigned
<1>2. RowsSigned' /\ DeadStay
  BY <1>1, RowsGo DEF SessionsInv
<1>3. \A r \in Requests : SlotOK(req[r])'
  BY <1>1, <1>2, SlotStays
<1> QED
  BY <1>1, <1>2, <1>3, StoredStays DEF SessionsInv, Slot, Tokens

(* A browser sends a request: a login only when it has no token. *)
LEMMA SendKeeps ==
  ASSUME SessionsInv, NEW r \in Requests,
         \/ LoginPage(r) \/ AuthMiddleware(r) \/ RootRedirect(r)
         \/ handleRefreshToken(r) \/ revokeSession(r) \/ handleLogout(r)
  PROVE  SessionsInv'
<1>1. PICK kind \in {"login", "me", "refresh", "revoke", "logout"} :
        Send(r, kind) /\ (kind = "login" => stored[BrowserOf[r]] = NoToken)
  BY DEF LoginPage, AuthMiddleware, RootRedirect, handleRefreshToken, revokeSession,
         handleLogout, LoggedIn
<1>0. PICK q : q = [kind |-> kind, pc |-> "sent", made |-> NoToken, sent |-> stored[BrowserOf[r]]]
  OBVIOUS
<1>2. /\ UNCHANGED <<user, sessions, expired, signed, logins, stored>>
      /\ req' = [req EXCEPT ![r] = q]
  BY <1>0, <1>1 DEF Send
<1>3. RowsSigned' /\ DeadStay /\ Known' = Known /\ Slot' = Slot
  BY <1>2, RowsRest
<1>4. stored[BrowserOf[r]] \in Known /\ Known \subseteq Tokens \cup {NoToken}
  BY SessionsAssumption DEF SessionsInv, RowsSigned, Known, Tokens
<1>5. SlotOK(q)'
  BY <1>0, <1>1, <1>2, <1>3, <1>4 DEF SlotOK, Slot, Kinds, Known
<1> QED
  BY <1>2, <1>3, <1>5, RequestKeeps, StoredStays

(* A step of a route that signs nothing, and what it leaves of the request. *)
LEMMA RouteKeeps ==
  ASSUME SessionsInv, NEW r \in Requests, NEW pc, NEW made,
         UNCHANGED <<user, signed, logins, stored>>,
         sessions' \subseteq sessions, expired' \subseteq sessions',
         \A t \in sessions' : t \in expired => t \in expired',
         \/ req' = [req EXCEPT ![r] = NoRequest]
         \/ req' = [req EXCEPT ![r].pc = pc, ![r].made = made]
         \/ req' = [req EXCEPT ![r].pc = pc] /\ made = req[r].made,
         pc \in {"checked", "found", "answered"}, made \in Known,
         pc = "answered" =>
           \/ req[r].kind \in {"me", "logout"} /\ (req[r].kind = "me" => ~LiveToken(req[r].sent))
           \/ req[r].kind = "refresh" /\ made = req[r].sent
  PROVE  SessionsInv'
<1>1. RowsSigned' /\ DeadStay
  BY RowsGo DEF SessionsInv
<1>2. stored' \in [Browsers -> Known'] /\ Known \subseteq Known'
  BY <1>1, StoredStays
<1>3. CASE req' = [req EXCEPT ![r] = NoRequest]
  <2>1. SlotOK(NoRequest)'
    BY FreeSlot
  <2> QED
    BY <1>1, <1>2, <1>3, <2>1, RequestKeeps
<1>4. CASE \/ req' = [req EXCEPT ![r].pc = pc, ![r].made = made]
           \/ req' = [req EXCEPT ![r].pc = pc] /\ made = req[r].made
  <2>0. PICK q : q = [kind |-> req[r].kind, sent |-> req[r].sent, made |-> made, pc |-> pc]
    OBVIOUS
  <2>1. SlotOK(req[r]) /\ req[r] \in Slot
    BY DEF SessionsInv
  <2>2. req' = [req EXCEPT ![r] = q]
    <3>1. \/ req'[r] = [[req[r] EXCEPT !.pc = pc] EXCEPT !.made = made]
          \/ req'[r] = [req[r] EXCEPT !.pc = pc] /\ made = req[r].made
      BY <1>4 DEF SessionsInv
    <3>2. req'[r] = q
      BY <2>0, <2>1, <3>1 DEF Slot
    <3>3. DOMAIN req' = Requests /\ \A s \in Requests \ {r} : req'[s] = req[s]
      BY <1>4 DEF SessionsInv
    <3>4. req' = [s \in Requests |-> req'[s]]
      BY <1>4 DEF SessionsInv
    <3> QED
      BY <3>2, <3>3, <3>4 DEF SessionsInv
  <2>3. made \in Tokens \cup {NoToken} /\ Tokens' = Tokens
    BY SessionsAssumption DEF SessionsInv, RowsSigned, Known, Tokens
  <2>4. q \in Slot /\ q.sent \in Known /\ q.made \in Known
    BY <2>0, <2>1, <2>3 DEF SlotOK, Slot
  <2>5. q \in Slot' /\ q.sent \in Known' /\ q.made \in Known'
    BY <1>2, <2>4 DEF Slot, Tokens
  <2>6. q.kind = "login" => q.sent = NoToken
    BY <2>0, <2>1 DEF SlotOK
  <2>7. q.kind = "me" /\ q.pc = "answered" => ~LiveToken(q.sent)'
    BY <1>1, <2>0, <2>4 DEF DeadStay
  <2>8. q.pc = "answered" =>
          /\ q.kind \in {"login", "me", "refresh", "logout"}
          /\ q.kind = "refresh" => q.sent = q.made
    BY <2>0
  <2>9. SlotOK(q)'
    BY <2>5, <2>6, <2>7, <2>8 DEF SlotOK
  <2> QED
    BY <1>1, <1>2, <2>2, <2>9, RequestKeeps
<1> QED
  BY <1>3, <1>4

LEMMA RoutesKeep ==
  ASSUME SessionsInv, NEW r \in Requests,
         \/ LoginFind(r) \/ Auth(r) \/ Logout(r) \/ RevokeFind(r) \/ RevokeSession(r)
  PROVE  SessionsInv'
<1>1. /\ UNCHANGED <<user, signed, logins, stored>>
      /\ sessions' \subseteq sessions /\ expired' \subseteq sessions'
      /\ \A t \in sessions' : t \in expired => t \in expired'
  BY DEF LoginFind, Auth, Logout, RevokeFind, RevokeSession, Forget, SessionsInv, RowsSigned
<1>2. PICK made : made = req[r].made
  OBVIOUS
<1>3. made \in Known /\ NoToken \in Known
  BY <1>2 DEF SessionsInv, SlotOK, Known
<1>4. CASE req' = [req EXCEPT ![r] = NoRequest]
  BY <1>1, <1>3, <1>4, RouteKeeps, Zenon
<1>5. CASE req' = [req EXCEPT ![r].pc = "checked"]
  BY <1>1, <1>2, <1>3, <1>5, RouteKeeps
<1>6. CASE Auth(r) /\ ~LiveToken(req[r].sent) /\ req[r].kind \in {"me", "logout"}
           /\ AnswerWith(r, NoToken)
  BY <1>1, <1>3, <1>6, RouteKeeps DEF AnswerWith
<1>7. CASE Logout(r)
  BY <1>1, <1>3, <1>7, RouteKeeps DEF Logout, AnswerWith
<1>8. CASE RevokeFind(r)
  <2>1. PICK t \in sessions : req' = [req EXCEPT ![r].pc = "found", ![r].made = t]
    BY <1>8 DEF RevokeFind
  <2>2. t \in Known
    BY DEF SessionsInv, RowsSigned, Known
  <2> QED
    BY <1>1, <2>1, <2>2, RouteKeeps
<1> QED
  BY <1>4, <1>5, <1>6, <1>7, <1>8 DEF LoginFind, Auth, RevokeSession, Reported

(* The two steps that sign a token, each with those in which it does not.  *)
LEMMA LoginCreateKeeps ==
  ASSUME SessionsInv, NEW r \in Requests, LoginCreate(r)
  PROVE  SessionsInv'
<1>1. UNCHANGED <<user, expired, stored>> /\ req[r].kind = "login"
  BY DEF LoginCreate
<1>2. CASE Reported(r) /\ UNCHANGED <<sessions, signed, logins>>
  <2>1. expired \subseteq sessions /\ NoToken \in Known
    BY DEF SessionsInv, RowsSigned, Known
  <2> QED
    BY <1>1, <1>2, <2>1, RouteKeeps DEF Reported
<1>3. CASE /\ signed < MaxTokens /\ signed' = signed + 1 /\ logins' = logins + 1
           /\ sessions' = sessions \cup {signed + 1} /\ AnswerWith(r, signed + 1)
  <2>1. RowsSigned' /\ DeadStay
    BY <1>1, <1>3, RowAdded DEF SessionsInv
  <2>2. PICK q : q = [kind |-> "login", sent |-> NoToken, made |-> signed + 1, pc |-> "answered"]
    OBVIOUS
  <2>3. req[r] \in Slot /\ req[r].sent = NoToken /\ signed \in Nat /\ MaxTokens \in Nat
    BY <1>1, RowsFinite, SessionsAssumption DEF SessionsInv, SlotOK
  <2>4. req' = [req EXCEPT ![r] = q]
    <3>1. req'[r] = [[req[r] EXCEPT !.pc = "answered"] EXCEPT !.made = signed + 1]
      BY <1>3 DEF SessionsInv, AnswerWith
    <3>2. req'[r] = q
      BY <1>1, <2>2, <2>3, <3>1 DEF Slot
    <3>3. /\ DOMAIN req' = Requests /\ \A s \in Requests \ {r} : req'[s] = req[s]
          /\ req' = [s \in Requests |-> req'[s]]
      BY <1>3 DEF SessionsInv, AnswerWith
    <3> QED
      BY <3>2, <3>3 DEF SessionsInv
  <2>5. SlotOK(q)'
    BY <1>3, <2>2, <2>3 DEF SlotOK, Slot, Kinds, Tokens, Known
  <2> QED
    BY <1>1, <2>1, <2>4, <2>5, RequestKeeps, StoredStays
<1> QED
  BY <1>2, <1>3 DEF LoginCreate

LEMMA RefreshKeeps ==
  ASSUME SessionsInv, NEW r \in Requests, Refresh(r)
  PROVE  SessionsInv'
<1>1. UNCHANGED <<user, logins, stored>> /\ req[r].kind = "refresh"
  BY DEF Refresh
<1>2. expired \subseteq sessions /\ NoToken \in Known
  BY DEF SessionsInv, RowsSigned, Known
<1>3. CASE Reported(r) /\ UNCHANGED <<sessions, expired, signed>>
  BY <1>1, <1>2, <1>3, RouteKeeps DEF Reported
<1>4. CASE /\ LiveToken(req[r].sent) /\ req[r].sent = signed
           /\ AnswerWith(r, signed) /\ UNCHANGED <<sessions, expired, signed>>
  <2>1. PICK made : made = signed
    OBVIOUS
  <2>2. made \in Known
    BY <1>4, <2>1 DEF LiveToken, SessionsInv, RowsSigned, Known
  <2> QED
    BY <1>1, <1>2, <1>4, <2>1, <2>2, RouteKeeps DEF AnswerWith
<1>5. CASE /\ req[r].sent \in sessions /\ signed < MaxTokens /\ signed' = signed + 1
           /\ sessions' = (sessions \ {req[r].sent}) \cup {signed + 1}
           /\ expired' = expired \ {req[r].sent} /\ AnswerWith(r, signed + 1)
  <2>1. PICK t \in sessions : t = req[r].sent
    BY <1>5
  <2>2. RowsSigned' /\ DeadStay /\ t \notin sessions'
    BY <1>1, <1>5, <2>1, RowReplaced DEF SessionsInv
  <2>3. PICK q : q = [kind |-> "refresh", sent |-> t, made |-> signed + 1, pc |-> "answered"]
    OBVIOUS
  <2>4. req[r] \in Slot /\ t \in 1 .. signed /\ signed \in Nat /\ MaxTokens \in Nat
    BY <2>1, RowsFinite, SessionsAssumption DEF SessionsInv, RowsSigned
  <2>5. req' = [req EXCEPT ![r] = q]
    <3>1. req'[r] = [[req[r] EXCEPT !.pc = "answered"] EXCEPT !.made = signed + 1]
      BY <1>5 DEF SessionsInv, AnswerWith
    <3>2. req'[r] = q
      BY <1>1, <2>1, <2>3, <2>4, <3>1 DEF Slot
    <3>3. /\ DOMAIN req' = Requests /\ \A s \in Requests \ {r} : req'[s] = req[s]
          /\ req' = [s \in Requests |-> req'[s]]
      BY <1>5 DEF SessionsInv, AnswerWith
    <3> QED
      BY <3>2, <3>3 DEF SessionsInv
  <2>6. SlotOK(q)'
    BY <1>5, <2>2, <2>3, <2>4 DEF SlotOK, Slot, Kinds, Tokens, Known
  <2> QED
    BY <1>1, <2>2, <2>5, <2>6, RequestKeeps, StoredStays
<1> QED
  BY <1>3, <1>4, <1>5 DEF Refresh

(* The page takes an answer, or the network eats it. *)
LEMMA AnswerKeeps ==
  ASSUME SessionsInv, NEW r \in Requests, Handle(r) \/ NetworkError(r)
  PROVE  SessionsInv'
<1>1. /\ UNCHANGED <<user, sessions, expired, signed, logins>>
      /\ req' = [req EXCEPT ![r] = NoRequest]
      /\ \/ UNCHANGED stored
         \/ Store(r, req[r].made)
         \/ Store(r, NoToken)
  BY DEF Handle, NetworkError
<1>2. RowsSigned' /\ DeadStay /\ Known' = Known
  BY <1>1, RowsRest
<1>3. req[r].made \in Known /\ NoToken \in Known
  BY DEF SessionsInv, SlotOK, Known
<1>4. stored' \in [Browsers -> Known']
  BY <1>1, <1>2, <1>3 DEF Store, SessionsInv
<1> QED
  BY <1>1, <1>2, <1>4, FreeSlot, RequestKeeps

-----------------------------------------------------------------------------
LEMMA SessionsStepKeeps == SessionsInv /\ [SessionsNext]_userVars => SessionsInv'
<1> SUFFICES ASSUME SessionsInv, [SessionsNext]_userVars
             PROVE  SessionsInv'
  OBVIOUS
<1>1. CASE UNCHANGED userVars
  <2>1. RowsSigned' /\ DeadStay /\ Known' = Known /\ Slot' = Slot
    BY <1>1, RowsRest DEF userVars
  <2>2. \A r \in Requests : SlotOK(req[r])'
    BY <1>1, <2>1, SlotStays DEF userVars
  <2> QED
    BY <1>1, <2>1, <2>2 DEF SessionsInv, userVars
<1>2. CASE CreateUser \/ DeleteUser \/ clearExpiredUserSessions \/ \E t \in Tokens : Expire(t)
  BY <1>2, DatabaseKeeps
<1>3. ASSUME NEW r \in Requests, RequestStep(r)
      PROVE  SessionsInv'
  BY <1>3, SendKeeps, RoutesKeep, LoginCreateKeeps, RefreshKeeps, AnswerKeeps DEF RequestStep
<1> QED
  BY <1>1, <1>2, <1>3 DEF SessionsNext

LEMMA SessionsInvariant == SessionsSpec => []SessionsInv
BY SessionsInitInv, SessionsStepKeeps, PTL DEF SessionsSpec

(* The routes of users.ts and general.ts and the pages keep their types.   *)
THEOREM SessionsTypes == SessionsSpec => []SessionsTypeOK
<1>1. SessionsInv => SessionsTypeOK
  <2> SUFFICES ASSUME SessionsInv
               PROVE  SessionsTypeOK
    OBVIOUS
  <2>1. signed \in Nat /\ MaxTokens \in Nat /\ signed <= MaxTokens
    BY RowsFinite, SessionsAssumption DEF SessionsInv, RowsSigned
  <2> QED
    BY <2>1 DEF SessionsInv, RowsSigned, SessionsTypeOK, Known, Tokens
<1> QED
  BY <1>1, SessionsInvariant, PTL

(* POST /api/refresh: the transaction that deletes one row makes one. *)
THEOREM RotationMultipliesNothing == SessionsSpec => []RotationConserves
<1>1. SessionsInv => RotationConserves
  BY DEF SessionsInv, RowsSigned
<1> QED
  BY <1>1, SessionsInvariant, PTL

(* The pages: what takes a working token out of localStorage. *)
THEOREM TokenIsKept == SessionsSpec => LiveTokenKept
<1> DEFINE Kept ==
      \A b \in Browsers :
        stored[b] \in sessions \ expired /\ stored'[b] # stored[b] =>
          \E r \in Requests :
            /\ BrowserOf[r] = b /\ Completes(r)
            /\ \/ req[r].kind = "logout"
               \/ req[r].kind \in {"me", "refresh", "login"} /\ req[r].sent # stored[b]
<1>1. SessionsInv /\ [SessionsNext]_userVars => [Kept]_userVars
  <2> SUFFICES ASSUME SessionsInv, SessionsNext, NEW b \in Browsers,
                      stored[b] \in sessions \ expired, stored'[b] # stored[b]
               PROVE  \E r \in Requests :
                        /\ BrowserOf[r] = b /\ Completes(r)
                        /\ \/ req[r].kind = "logout"
                           \/ /\ req[r].kind \in {"me", "refresh", "login"}
                              /\ req[r].sent # stored[b]
    OBVIOUS
  <2>1. PICK r \in Requests : Handle(r) \/ (NetworkError(r) /\ req[r].kind = "logout")
    BY DEF SessionsNext, RequestStep, CreateUser, DeleteUser, clearExpiredUserSessions, Expire,
           LoginPage, AuthMiddleware, RootRedirect, handleRefreshToken, revokeSession,
           handleLogout, Send, LoginFind, LoginCreate, Auth, Refresh, Logout, RevokeFind,
           RevokeSession, NetworkError
  <2>2. /\ SlotOK(req[r]) /\ req[r].pc \in {"sent", "answered"}
        /\ req' = [req EXCEPT ![r] = NoRequest]
        /\ Store(r, req[r].made) \/ (Store(r, NoToken) /\ req[r].kind = "logout")
    BY <2>1 DEF SessionsInv, Handle, NetworkError
  <2>3. BrowserOf[r] = b
    BY <2>2 DEF Store, SessionsInv
  <2>4. Completes(r)
    BY <2>2 DEF Completes, SessionsInv
  <2>5. ASSUME req[r].kind # "logout"
        PROVE  /\ req[r].kind \in {"me", "refresh", "login"} /\ req[r].sent # stored[b]
    <3>1. req[r].pc = "answered" /\ stored'[b] = req[r].made
      BY <2>1, <2>3, <2>5 DEF Handle, Store, SessionsInv
    <3>2. stored[b] # NoToken /\ LiveToken(stored[b])
      <4>1. signed \in Nat /\ sessions \subseteq 1 .. signed /\ NoToken \notin Nat
        BY RowsFinite, SessionsAssumption DEF SessionsInv, RowsSigned
      <4>2. stored[b] \in 1 .. signed
        BY <4>1
      <4> QED
        BY <4>1, <4>2 DEF LiveToken
    <3> QED
      BY <2>2, <2>5, <3>1, <3>2 DEF SlotOK, LiveToken
  <2> QED
    BY <2>3, <2>4, <2>5
<1> QED
  BY <1>1, SessionsInvariant, PTL DEF SessionsSpec, LiveTokenKept

-----------------------------------------------------------------------------
(* Enrolment. *)

(* A pairing that works on a code has one, and one that has seen the agent *)
(* has seen the agent that is there: it still holds its code's row, which  *)
(* is what keeps the deletion from committing.  A row that the deletion    *)
(* has found was made, and a socket past its lookup has a session.         *)
EnrolShape ==
  /\ \A p \in Pairings : pairing[p].pc # "idle" => pairing[p].code \in Codes
  /\ \A p \in Pairings : pairing[p].pc \in {"checked", "created"} => enrolled = "live"
  /\ \A s \in deleting.rows : row[s] # Nothing
  /\ \A k \in Sockets : conn[k].pc # "none" => conn[k].row \in Rows

EnrolInv == EnrolTypeOK /\ EnrolShape /\ PutOutLeaves

PairingType == [pc: {"idle", "found", "marked", "checked", "created"}, code: Codes \cup {Nothing}]
ConnType    == [pc: {"none", "found", "registered", "up", "closing"},
                row: Rows \cup {Nothing}, late: BOOLEAN]

LEMMA EnrolInitInv == EnrolInit => EnrolInv
<1> SUFFICES ASSUME EnrolInit
             PROVE  EnrolInv
  OBVIOUS
<1>1. conn \in [Sockets -> ConnType] /\ pairing \in [Pairings -> PairingType]
  BY DEF EnrolInit, ConnType, PairingType, Unused
<1>2. EnrolTypeOK
  BY <1>1 DEF EnrolInit, EnrolTypeOK, ConnType, PairingType
<1>3. EnrolShape
  BY DEF EnrolInit, EnrolShape, Unused
<1>4. PutOutLeaves
  BY DEF EnrolInit, PutOutLeaves
<1> QED
  BY <1>2, <1>3, <1>4 DEF EnrolInv

(* Closing a socket changes how far that socket is, and nothing else. *)
LEMMA ClosingCloses ==
  ASSUME NEW so \in [Sockets -> ConnType], NEW k
  PROVE  /\ Closing(so, k) \in [Sockets -> ConnType]
         /\ \A h \in Sockets :
              /\ Closing(so, k)[h].row = so[h].row /\ Closing(so, k)[h].late = so[h].late
              /\ h # k => Closing(so, k)[h] = so[h]
              /\ \/ Closing(so, k)[h].pc = so[h].pc
                 \/ Closing(so, k)[h].pc = "closing" /\ so[h].pc \in {"registered", "up"}
         /\ k \in Sockets => Closing(so, k)[k].pc \in {"none", "found", "closing"}
  BY DEF Closing, ConnType

(* The row that a pairing's CHOOSE takes is one that is free. *)
LEMMA FreeIsThere ==
  ASSUME FreeRows # {}
  PROVE  (CHOOSE s \in FreeRows : TRUE) \in FreeRows
  OBVIOUS

(* What pairings and codes do leaves the sockets and what puts them out    *)
(* alone, and takes no session away.                                       *)
CodeStep == CodeFind \/ CodeCreate \/ clearExpiredAgentCodes \/ \E c \in Codes : Expired(c)
PairingStep == \E p \in Pairings : PairFind(p) \/ PairStep(p)

LEMMA CodesStep ==
  ASSUME EnrolInv, CodeStep
  PROVE  EnrolInv'
<1>1. code' \in [Codes -> {"none", "fresh", "expired", "used", "cleared"}] /\ minting' \in BOOLEAN
  BY DEF EnrolInv, EnrolTypeOK, CodeStep, CodeFind, CodeCreate, clearExpiredAgentCodes, Expired
<1>2. UNCHANGED <<enrolled, pairing, row, tokens, conn, registry, revoking, deleting>>
  BY DEF CodeStep, CodeFind, CodeCreate, clearExpiredAgentCodes, Expired
<1> QED
  BY <1>1, <1>2 DEF EnrolInv, EnrolTypeOK, EnrolShape, PutOutLeaves, Admitted, Stored

LEMMA PairingsStep ==
  ASSUME EnrolInv, PairingStep
  PROVE  EnrolInv'
<1> PICK p \in Pairings : PairFind(p) \/ PairStep(p)
  BY DEF PairingStep
<1>1. UNCHANGED <<enrolled, minting, conn, registry, revoking, deleting>>
  BY DEF PairFind, PairStep, PairMark, PairAgent, PairCreate, PairCommit
<1>2. /\ pairing' \in [Pairings -> PairingType]
      /\ \A q \in Pairings : q # p => pairing'[q] = pairing[q]
      /\ pairing'[p].pc # "idle" => pairing'[p].code \in Codes
      /\ pairing'[p].pc \in {"checked", "created"} => enrolled = "live"
  BY DEF EnrolInv, EnrolTypeOK, EnrolShape, PairingType, PairFind, PairStep, PairMark,
         PairAgent, PairCreate, PairCommit, Go, EndPairing
<1>3. code' \in [Codes -> {"none", "fresh", "expired", "used", "cleared"}]
  BY DEF EnrolInv, EnrolTypeOK, EnrolShape, PairFind, PairStep, PairMark,
         PairAgent, PairCreate, PairCommit
<1>4. /\ row' \in [Rows -> Codes \cup {Nothing, Gone}] /\ tokens' \subseteq Rows
      /\ \A s \in Rows : row[s] # Nothing => row'[s] = row[s]
  <2>1. CASE PairCommit(p)
    BY <2>1, FreeIsThere DEF EnrolInv, EnrolTypeOK, EnrolShape, PairCommit, FreeRows
  <2>2. CASE ~PairCommit(p)
    BY <2>2 DEF EnrolInv, EnrolTypeOK, PairFind, PairStep, PairMark, PairAgent, PairCreate
  <2> QED
    BY <2>1, <2>2
<1>5. EnrolTypeOK'
  BY <1>1, <1>2, <1>3, <1>4 DEF EnrolInv, EnrolTypeOK, PairingType
<1>6. EnrolShape'
  BY <1>1, <1>2, <1>4 DEF EnrolInv, EnrolTypeOK, EnrolShape
<1>7. PutOutLeaves'
  BY <1>1, <1>4, EnrolmentAssumption
     DEF EnrolInv, EnrolTypeOK, EnrolShape, PutOutLeaves, Admitted, Stored
<1> QED
  BY <1>5, <1>6, <1>7 DEF EnrolInv

LEMMA SocketsStep ==
  ASSUME EnrolInv, NEW k \in Sockets,
         (\E s \in Rows : Open(k, s)) \/ OpenRegister(k) \/ OpenUpdate(k) \/ Closed(k)
  PROVE  EnrolInv'
<1>0. /\ conn \in [Sockets -> ConnType]
      /\ registry # Nothing => registry \in Sockets /\ conn[registry].pc \notin {"none", "found"}
  BY DEF EnrolInv, EnrolTypeOK, ConnType
<1>1. UNCHANGED <<enrolled, code, minting, pairing, row, revoking, deleting>>
  BY DEF Open, OpenRegister, OpenUpdate, Closed
<1>2. CASE \E s \in Rows : Open(k, s)
  <2>1. /\ conn' \in [Sockets -> ConnType] /\ tokens' \subseteq Rows /\ registry' = registry
        /\ \A h \in Sockets : h # k => conn'[h] = conn[h]
        /\ registry # k
        /\ conn'[k].pc # "none" => conn'[k].row \in Rows
    <3> PICK s \in Rows : Open(k, s)
      BY <1>2
    <3>1. conn[k].pc = "none" /\ registry' = registry /\ registry # k /\ tokens \subseteq Rows
      BY <1>0, EnrolmentAssumption DEF EnrolInv, EnrolTypeOK, Open
    <3>2. CASE conn' = conn /\ tokens' = tokens \ {s}
      BY <1>0, <3>1, <3>2
    <3>3. CASE conn' = [conn EXCEPT ![k] = [pc |-> "found", row |-> s, late |-> FALSE]]
               /\ tokens' = tokens
      BY <1>0, <3>1, <3>3 DEF ConnType
    <3> QED
      BY <3>2, <3>3 DEF Open
  <2> QED
    BY <1>0, <1>1, <2>1 DEF EnrolInv, EnrolTypeOK, ConnType, EnrolShape, PutOutLeaves, Admitted, Stored
<1>3. CASE OpenRegister(k)
  <2> DEFINE so == Closing(conn, registry)
  <2>1. /\ so \in [Sockets -> ConnType] /\ so[k].row = conn[k].row /\ so[k].row \in Rows
        /\ \A h \in Sockets : so[h].row = conn[h].row /\ (so[h].pc = "none" <=> conn[h].pc = "none")
    <3>1. conn[k].row \in Rows
      BY <1>3 DEF EnrolInv, EnrolShape, OpenRegister
    <3>2. /\ so \in [Sockets -> ConnType]
          /\ \A h \in Sockets :
               /\ so[h].row = conn[h].row /\ so[h].late = conn[h].late
               /\ \/ so[h].pc = conn[h].pc
                  \/ so[h].pc = "closing" /\ conn[h].pc \in {"registered", "up"}
      BY <1>0, ClosingCloses
    <3> QED
      BY <3>1, <3>2
  <2>2. /\ registry' = k /\ tokens' = tokens
        /\ conn' = [so EXCEPT ![k].pc = "registered", ![k].late = ~Admitted(conn[k].row)]
    BY <1>3 DEF OpenRegister
  <2> HIDE DEF so
  <2>3. /\ conn' \in [Sockets -> ConnType]
        /\ conn'[k].pc = "registered" /\ conn'[k].late = ~Admitted(conn[k].row)
        /\ \A h \in Sockets : conn'[h].row = conn[h].row
        /\ \A h \in Sockets : h # k => conn'[h] = so[h]
    BY <2>1, <2>2 DEF ConnType, Admitted
  <2>4. EnrolTypeOK'
    BY <1>1, <2>2, <2>3 DEF EnrolInv, EnrolTypeOK, ConnType
  <2>5. EnrolShape'
    BY <1>1, <2>1, <2>3 DEF EnrolInv, EnrolShape
  <2>6. PutOutLeaves'
    BY <1>1, <2>2, <2>3 DEF PutOutLeaves, Admitted, Stored
  <2> QED
    BY <2>4, <2>5, <2>6 DEF EnrolInv
<1>4. CASE OpenUpdate(k)
  <2>1. /\ conn' \in [Sockets -> ConnType] /\ tokens' = tokens /\ registry' = registry
        /\ \A h \in Sockets : /\ conn'[h].row = conn[h].row /\ conn'[h].late = conn[h].late
                              /\ h # k => conn'[h] = conn[h]
        /\ conn[k].pc = "registered" /\ conn'[k].pc = "up"
    BY <1>0, <1>4 DEF ConnType, OpenUpdate
  <2> QED
    BY <1>0, <1>1, <2>1 DEF EnrolInv, EnrolTypeOK, ConnType, EnrolShape, PutOutLeaves, Admitted, Stored
<1>5. CASE Closed(k)
  <2>1. /\ conn' \in [Sockets -> ConnType] /\ tokens' = tokens
        /\ registry' \in {registry, Nothing} /\ registry' # k
        /\ \A h \in Sockets : h # k => conn'[h] = conn[h]
        /\ conn'[k].pc = "none"
    BY <1>0, <1>5, EnrolmentAssumption DEF ConnType, Closed, Unused
  <2> QED
    BY <1>0, <1>1, <2>1 DEF EnrolInv, EnrolTypeOK, ConnType, EnrolShape, PutOutLeaves, Admitted, Stored
<1> QED
  BY <1>2, <1>3, <1>4, <1>5

(* A request that takes a session, or the agent, away is about to close    *)
(* the socket of agentRegistry's entry, and does.                          *)
PuttingOut == (\E s \in Rows : RevokeDelete(s)) \/ RevokeClose \/ DeleteMark \/ Deletion

LEMMA PuttingOutStep ==
  ASSUME EnrolInv, PuttingOut
  PROVE  EnrolInv'
<1>0. /\ conn \in [Sockets -> ConnType]
      /\ registry # Nothing => registry \in Sockets /\ conn[registry].pc \notin {"none", "found"}
                               /\ conn[registry].row \in Rows
      /\ row \in [Rows -> Codes \cup {Nothing, Gone}] /\ deleting.rows \subseteq Rows
  BY DEF EnrolInv, EnrolTypeOK, EnrolShape, ConnType
<1>1. CASE \E s \in Rows : RevokeDelete(s)
  <2> PICK s \in Rows : RevokeDelete(s)
    BY <1>1
  <2>1. /\ UNCHANGED <<enrolled, code, minting, pairing, tokens, conn, registry, deleting>>
        /\ row' \in [Rows -> Codes \cup {Nothing, Gone}] /\ revoking = Nothing /\ revoking' = s
        /\ \A t \in Rows : t # s => row'[t] = row[t]
        /\ row'[s] # Nothing
    BY <1>0, EnrolmentAssumption DEF RevokeDelete
  <2>2. EnrolTypeOK' /\ EnrolShape'
    BY <1>0, <2>1 DEF EnrolInv, EnrolTypeOK, EnrolShape
  <2>3. PutOutLeaves'
    BY <1>0, <2>1, EnrolmentAssumption DEF EnrolInv, PutOutLeaves, Admitted, Stored
  <2> QED
    BY <2>2, <2>3 DEF EnrolInv
<1>2. CASE RevokeClose \/ DeleteClose
  <2>1. /\ UNCHANGED <<enrolled, code, minting, pairing, row, tokens, registry>>
        /\ revoking' \in {revoking, Nothing} /\ conn' \in {conn, Closing(conn, registry)}
        /\ deleting' \in {deleting, [pc |-> "idle", rows |-> {}]}
    BY <1>2 DEF RevokeClose, DeleteClose
  <2>2. /\ conn' \in [Sockets -> ConnType]
        /\ \A h \in Sockets :
             /\ conn'[h].row = conn[h].row /\ conn'[h].late = conn[h].late
             /\ \/ conn'[h].pc = conn[h].pc
                \/ conn'[h].pc = "closing" /\ conn[h].pc \in {"registered", "up"}
    <3>1. CASE conn' = conn
      BY <1>0, <3>1
    <3>2. CASE conn' = Closing(conn, registry)
      BY <1>0, <3>2, ClosingCloses
    <3> QED
      BY <2>1, <3>1, <3>2
  <2>3. EnrolTypeOK' /\ EnrolShape'
    BY <1>0, <2>1, <2>2 DEF EnrolInv, EnrolTypeOK, EnrolShape, ConnType
  <2>4. CASE registry = Nothing
    BY <2>1, <2>4, <2>3 DEF EnrolInv, PutOutLeaves
  <2>5. CASE registry # Nothing /\ conn' = Closing(conn, registry)
    <3>1. conn'[registry].pc = "closing"
      BY <1>0, <2>2, <2>5, ClosingCloses DEF ConnType
    <3> QED
      BY <2>1, <2>3, <3>1 DEF EnrolInv, PutOutLeaves
  <2>6. CASE registry # Nothing /\ conn' = conn /\ conn # Closing(conn, registry)
    <3>1. RevokeClose /\ conn[registry].row # revoking /\ deleting' = deleting
      BY <1>2, <2>6 DEF RevokeClose, DeleteClose
    <3> QED
      BY <2>1, <2>3, <2>6, <3>1 DEF EnrolInv, PutOutLeaves, Admitted, Stored
  <2> QED
    BY <2>1, <2>4, <2>5, <2>6
<1>3. CASE DeleteMark \/ DeleteSessions
  <2>1. /\ UNCHANGED <<enrolled, code, minting, pairing, row, tokens, conn, registry, revoking>>
        /\ deleting.pc # "committed"
        /\ deleting' \in [pc: {"idle", "marked", "swept", "committed"}, rows: SUBSET Rows]
        /\ \A s \in deleting'.rows : row[s] # Nothing
    BY <1>3, EnrolmentAssumption
       DEF EnrolInv, EnrolTypeOK, EnrolShape, DeleteMark, DeleteSessions, Stored
  <2> QED
    BY <2>1 DEF EnrolInv, EnrolTypeOK, EnrolShape, PutOutLeaves, Admitted, Stored
<1>4. CASE DeleteCodes
  <2>1. /\ UNCHANGED <<minting, pairing, tokens, conn, registry, revoking>>
        /\ enrolled' = "deleted" /\ deleting'.pc = "committed" /\ deleting'.rows = deleting.rows
        /\ deleting' \in [pc: {"idle", "marked", "swept", "committed"}, rows: SUBSET Rows]
        /\ row' \in [Rows -> Codes \cup {Nothing, Gone}]
        /\ \A s \in deleting.rows : row'[s] # Nothing
        /\ code' \in [Codes -> {"none", "fresh", "expired", "used", "cleared"}]
    BY <1>0, <1>4, EnrolmentAssumption DEF EnrolInv, EnrolTypeOK, DeleteCodes
  <2>2. \A p \in Pairings : pairing[p].pc \notin {"checked", "created"}
    BY <1>4 DEF EnrolInv, EnrolShape, DeleteCodes, Locked
  <2> QED
    BY <2>1, <2>2 DEF EnrolInv, EnrolTypeOK, EnrolShape, PutOutLeaves
<1> QED
  BY <1>1, <1>2, <1>3, <1>4 DEF PuttingOut, Deletion

LEMMA EnrolNextInv == EnrolInv /\ [EnrolNext]_enrolVars => EnrolInv'
<1> SUFFICES ASSUME EnrolInv, [EnrolNext]_enrolVars
             PROVE  EnrolInv'
  OBVIOUS
<1>1. CASE UNCHANGED enrolVars
  BY <1>1 DEF EnrolInv, EnrolTypeOK, EnrolShape, PutOutLeaves, Admitted, Stored, enrolVars
<1>2. CASE EnrolNext
  BY <1>2, CodesStep, PairingsStep, SocketsStep, PuttingOutStep
     DEF EnrolNext, CodeStep, PairingStep, PuttingOut
<1> QED
  BY <1>1, <1>2

(* The types of the enrolment's variables. *)
THEOREM EnrolTypes == EnrolSpec => []EnrolTypeOK
<1>1. EnrolInv => EnrolTypeOK
  BY DEF EnrolInv
<1> QED
  BY <1>1, EnrolInitInv, EnrolNextInv, PTL DEF EnrolSpec

(* A session that was revoked, or an agent that was deleted, does not stay *)
(* connected, however many sockets open and close meanwhile.               *)
THEOREM PutOutIsClosed == EnrolSpec => []PutOutLeaves
<1>1. EnrolInv => PutOutLeaves
  BY DEF EnrolInv
<1> QED
  BY <1>1, EnrolInitInv, EnrolNextInv, PTL DEF EnrolSpec

(* However many pairings run at once, a code is spent only with a session  *)
(* it makes, each session takes a pairing that found its code fresh, and   *)
(* none is made for an agent that was deleted.                             *)
THEOREM CodeBuysSession == EnrolSpec => UsedMeansPaired
<1> DEFINE Buys ==
      /\ \A c \in Codes : code[c] # "used" /\ code'[c] = "used" =>
           \E s \in Rows : row[s] = Nothing /\ row'[s] = c
      /\ \A s \in Rows : row[s] = Nothing /\ row'[s] # Nothing =>
           /\ enrolled = "live" /\ enrolled' = "live"
           /\ \E p \in Pairings : pairing[p].code = row'[s] /\ pairing'[p].code = Nothing
           /\ row'[s] \in Codes /\ code'[row'[s]] = "used"
      /\ \A p \in Pairings : pairing'[p].code \notin {pairing[p].code, Nothing} =>
           code[pairing'[p].code] = "fresh"
<1>1. EnrolInv /\ [EnrolNext]_enrolVars => [Buys]_enrolVars
  <2> SUFFICES ASSUME EnrolInv, EnrolNext
               PROVE  Buys
    OBVIOUS
  <2>0. \A p \in Pairings : pairing'[p].code \notin {pairing[p].code, Nothing} =>
          code[pairing'[p].code] = "fresh"
    <3>1. CASE UNCHANGED pairing
      BY <3>1
    <3>2. ASSUME NEW p \in Pairings, PairFind(p)
          PROVE  \A q \in Pairings : pairing'[q].code \notin {pairing[q].code, Nothing} =>
                   code[pairing'[q].code] = "fresh"
      BY <3>2 DEF EnrolInv, EnrolTypeOK, PairFind
    <3>3. ASSUME NEW p \in Pairings, PairStep(p)
          PROVE  \A q \in Pairings : pairing'[q].code \in {pairing[q].code, Nothing}
      <4>1. CASE PairMark(p)
        BY <4>1 DEF EnrolInv, EnrolTypeOK, PairMark, Go, EndPairing
      <4>2. CASE PairAgent(p)
        BY <4>2 DEF EnrolInv, EnrolTypeOK, PairAgent, Go, EndPairing
      <4>3. CASE PairCreate(p)
        BY <4>3 DEF EnrolInv, EnrolTypeOK, PairCreate, Go, EndPairing
      <4>4. CASE PairCommit(p)
        BY <4>4 DEF EnrolInv, EnrolTypeOK, PairCommit, Go, EndPairing
      <4> QED
        BY <3>3, <4>1, <4>2, <4>3, <4>4 DEF PairStep
    <3> QED
      BY <3>1, <3>2, <3>3
         DEF EnrolNext, CodeFind, CodeCreate, clearExpiredAgentCodes, Expired, Open, OpenRegister,
             OpenUpdate, Closed, RevokeDelete, RevokeClose, DeleteMark, Deletion, DeleteSessions,
             DeleteCodes, DeleteClose
  <2>1. CASE \E p \in Pairings : PairCommit(p)
    <3> PICK p \in Pairings : PairCommit(p)
      BY <2>1
    <3>1. PICK s \in Rows : row[s] = Nothing /\ row' = [row EXCEPT ![s] = pairing[p].code]
      BY FreeIsThere DEF PairCommit, FreeRows
    <3>2. /\ enrolled = "live" /\ enrolled' = "live" /\ pairing[p].code \in Codes
          /\ code' = [code EXCEPT ![pairing[p].code] = "used"]
      BY DEF EnrolInv, EnrolShape, PairCommit
    <3>3. pairing'[p].code = Nothing
      BY DEF EnrolInv, EnrolTypeOK, PairCommit, EndPairing
    <3> QED
      BY <2>0, <3>1, <3>2, <3>3 DEF EnrolInv, EnrolTypeOK
  <2>2. CASE ~\E p \in Pairings : PairCommit(p)
    <3>1. \A c \in Codes : code'[c] = "used" => code[c] = "used"
      BY <2>2 DEF EnrolInv, EnrolTypeOK, EnrolNext, CodeFind, CodeCreate, clearExpiredAgentCodes,
           Expired, PairFind, PairStep, PairMark, PairAgent, PairCreate, Open, OpenRegister,
           OpenUpdate, Closed, RevokeDelete, RevokeClose, DeleteMark, Deletion, DeleteSessions,
           DeleteCodes, DeleteClose
    <3>2. \A s \in Rows : row[s] = Nothing => row'[s] = Nothing
      <4>1. CASE UNCHANGED row
        BY <4>1
      <4>2. CASE \E s \in Rows : RevokeDelete(s)
        BY <4>2, EnrolmentAssumption DEF EnrolInv, EnrolTypeOK, RevokeDelete, Stored
      <4>3. CASE DeleteCodes
        BY <4>3 DEF EnrolInv, EnrolTypeOK, EnrolShape, DeleteCodes
      <4> QED
        BY <2>2, <4>1, <4>2, <4>3
           DEF EnrolNext, CodeFind, CodeCreate, clearExpiredAgentCodes, Expired, PairFind,
               PairStep, PairMark, PairAgent, PairCreate, Open, OpenRegister, OpenUpdate,
               Closed, RevokeClose, DeleteMark, Deletion, DeleteSessions, DeleteClose
    <3> QED
      BY <2>0, <3>1, <3>2
  <2> QED
    BY <2>1, <2>2
<1> QED
  BY <1>1, EnrolInitInv, EnrolNextInv, PTL DEF EnrolSpec, UsedMeansPaired

-----------------------------------------------------------------------------
(* AgentUpdate and AgentRequests. *)

AgentFile == file["agent"]

(* The binary is away only between the two renames of replace_binary, and  *)
(* its .bak is there; or the machine stopped between them.                 *)
BetweenRenames ==
  /\ task = "swap" => ~windows /\ AgentFile.target = 0 /\ AgentFile.bak # 0
  /\ helper = "agentSwap" => windows /\ AgentFile.target = 0 /\ AgentFile.bak # 0

AwayMeansSwapping ==
  AgentFile.target = 0 =>
    \/ "rollback" \in faults
    \/ AgentFile.bak # 0 /\ (task = "swap" \/ helper = "agentSwap" \/ (running = 0 /\ helper = "none"))

(* The lock of a process that hands over to the helper goes with it. *)
LockHandedOver ==
  /\ lock /\ task = "idle" => helper # "none" \/ "stop" \in faults
  /\ lock /\ task = "idle" /\ helper # "stop" => "stop" \in faults

Linked ==
  /\ helper # "none" => windows
  /\ task # "idle" => running # 0

UpdateInv ==
  UpdateTypeOK /\ BetweenRenames /\ AwayMeansSwapping /\ LockHandedOver /\ Linked

-----------------------------------------------------------------------------
LEMMA UpdateInitInv == UpdateInit => UpdateInv
<1> SUFFICES ASSUME UpdateInit
             PROVE  UpdateInv
  OBVIOUS
<1>1. ~lock /\ lock \in BOOLEAN
  BY DEF UpdateInit
<1>2. UpdateTypeOK
  BY <1>1, VersionsAssumption DEF UpdateInit, UpdateTypeOK, Programs, Version
<1>3. BetweenRenames /\ AwayMeansSwapping /\ Linked
  BY VersionsAssumption
     DEF UpdateInit, BetweenRenames, AwayMeansSwapping, Linked, AgentFile, Programs
<1>4. LockHandedOver
  BY <1>1 DEF LockHandedOver
<1> QED
  BY <1>2, <1>3, <1>4 DEF UpdateInv

(* A process starts: its binary is there, so nothing is being renamed. *)
LEMMA BootKeeps ==
  ASSUME UpdateInv, Boot, helper' \in {helper, "none"}, UNCHANGED <<windows, faults>>
  PROVE  UpdateInv'
<1>1. /\ AgentFile.target # 0 /\ running' = AgentFile.target /\ lock' = FALSE /\ task' = "idle"
      /\ AgentFile'.target = AgentFile.target
  BY DEF Boot, Cleaned, AgentFile, UpdateInv, UpdateTypeOK, Programs
<1>2. file' \in [Programs -> [target: Version, bak: Version, new: Version]]
  BY DEF Boot, Cleaned, UpdateInv, UpdateTypeOK, Programs, Version
<1>3. UpdateTypeOK'
  BY <1>1, <1>2 DEF UpdateInv, UpdateTypeOK, AgentFile, Programs, Version
<1>4. BetweenRenames' /\ AwayMeansSwapping' /\ LockHandedOver' /\ Linked'
  BY <1>1 DEF UpdateInv, BetweenRenames, AwayMeansSwapping, LockHandedOver, Linked
<1> QED
  BY <1>3, <1>4 DEF UpdateInv

(* A step that leaves the files alone. *)
LEMMA FilesAloneKeeps ==
  ASSUME UpdateInv, UNCHANGED <<windows, file>>,
         \/ Crash \/ Command \/ Fail \/ Fetch \/ SkipTray \/ SpawnHelper \/ HelperStop
  PROVE  UpdateInv'
<1>1. AgentFile' = AgentFile
  BY DEF AgentFile
<1>2. CASE Crash
  <2>1. ~lock' /\ lock' \in BOOLEAN
    BY <1>2 DEF Crash
  <2>2. UpdateTypeOK'
    BY <1>2, <2>1 DEF Crash, UpdateInv, UpdateTypeOK, Version, Programs
  <2>3. BetweenRenames' /\ AwayMeansSwapping' /\ Linked'
    BY <1>1, <1>2 DEF Crash, UpdateInv, BetweenRenames, AwayMeansSwapping, Linked
  <2>4. LockHandedOver'
    BY <1>2, <2>1 DEF Crash, UpdateInv, LockHandedOver
  <2> QED
    BY <2>2, <2>3, <2>4 DEF UpdateInv
<1>3. CASE Command
  BY <1>1, <1>3 DEF Command, UpdateInv, UpdateTypeOK, BetweenRenames, AwayMeansSwapping,
                    LockHandedOver, Linked, Version, Programs
<1>4. CASE Fail
  <2>1. ~lock' /\ lock' \in BOOLEAN
    BY <1>4 DEF Fail, End
  <2>2. UpdateTypeOK'
    BY <1>4, <2>1 DEF Fail, End, UpdateInv, UpdateTypeOK, Version, Programs
  <2>3. BetweenRenames' /\ AwayMeansSwapping' /\ Linked'
    BY <1>1, <1>4 DEF Fail, End, UpdateInv, BetweenRenames, AwayMeansSwapping, Linked
  <2>4. LockHandedOver'
    BY <1>4, <2>1 DEF Fail, End, UpdateInv, LockHandedOver
  <2> QED
    BY <2>2, <2>3, <2>4 DEF UpdateInv
<1>5. CASE Fetch
  <2>1. (~lock' /\ lock' \in BOOLEAN) \/ (UNCHANGED lock /\ task' # "idle")
    BY <1>5 DEF Fetch, End
  <2>2. UpdateTypeOK'
    BY <1>5, <2>1 DEF Fetch, End, UpdateInv, UpdateTypeOK, Version, Programs
  <2>3. BetweenRenames' /\ AwayMeansSwapping' /\ Linked'
    BY <1>1, <1>5 DEF Fetch, End, UpdateInv, BetweenRenames, AwayMeansSwapping, Linked
  <2>4. LockHandedOver'
    BY <1>5, <2>1 DEF Fetch, End, UpdateInv, LockHandedOver
  <2> QED
    BY <2>2, <2>3, <2>4 DEF UpdateInv
<1>6. CASE SkipTray
  BY <1>1, <1>6 DEF SkipTray, UpdateInv, UpdateTypeOK, BetweenRenames, AwayMeansSwapping,
                    LockHandedOver, Linked, Version, Programs
<1>7. CASE SpawnHelper
  BY <1>1, <1>7 DEF SpawnHelper, UpdateInv, UpdateTypeOK, BetweenRenames, AwayMeansSwapping,
                    LockHandedOver, Linked, Version, Programs
<1>8. CASE HelperStop
  <2>1. (~lock' /\ lock' \in BOOLEAN) \/ (UNCHANGED <<lock, task>> /\ "stop" \in faults')
    BY <1>8 DEF HelperStop
  <2>2. UpdateTypeOK'
    BY <1>8, <2>1 DEF HelperStop, UpdateInv, UpdateTypeOK, Version, Programs
  <2>3. BetweenRenames' /\ AwayMeansSwapping' /\ Linked'
    BY <1>1, <1>8 DEF HelperStop, UpdateInv, BetweenRenames, AwayMeansSwapping, Linked
  <2>4. LockHandedOver'
    BY <1>8, <2>1 DEF HelperStop, UpdateInv, LockHandedOver
  <2> QED
    BY <2>2, <2>3, <2>4 DEF UpdateInv
<1> QED
  BY <1>2, <1>3, <1>4, <1>5, <1>6, <1>7, <1>8

-----------------------------------------------------------------------------
(* What the renames do to the files: one program at a time. *)
FileSets == [Programs -> [target: Version, bak: Version, new: Version]]

(* The files of the other program stay as they are. *)
Rest(f) == file' \in FileSets /\ \A g \in Programs \ {f} : file'[g] = file[g]

LEMMA SetAsideEffect ==
  ASSUME UpdateTypeOK, NEW f \in Programs, SetAside(f)
  PROVE  /\ file[f].target # 0 /\ file'[f].target = 0 /\ file'[f].bak = file[f].target
         /\ Rest(f)
<1>1. file \in FileSets /\ 0 \in Version
  BY DEF UpdateTypeOK, FileSets, Version
<1> QED
  BY <1>1 DEF SetAside, Rest, FileSets

LEMMA CannotSetAsideEffect ==
  ASSUME UpdateTypeOK, NEW f \in Programs, CannotSetAside(f)
  PROVE  file'[f].target = file[f].target /\ file'[f].bak = 0 /\ Rest(f)
<1>1. file \in FileSets /\ 0 \in Version
  BY DEF UpdateTypeOK, FileSets, Version
<1> QED
  BY <1>1 DEF CannotSetAside, Rest, FileSets

LEMMA PlaceEffect ==
  ASSUME UpdateTypeOK, NEW f \in Programs, Place(f)
  PROVE  file'[f].target # 0 /\ file'[f].bak = file[f].bak /\ Rest(f)
<1>1. file \in FileSets /\ 0 \in Version
  BY DEF UpdateTypeOK, FileSets, Version
<1> QED
  BY <1>1 DEF Place, Rest, FileSets

LEMMA CannotPlaceEffect ==
  ASSUME UpdateTypeOK, NEW f \in Programs, CannotPlace(f)
  PROVE  /\ \/ file'[f].target = file[f].bak /\ UNCHANGED faults
            \/ UNCHANGED file /\ faults' = faults \cup {"rollback"}
         /\ Rest(f)
<1>1. file \in FileSets /\ 0 \in Version
  BY DEF UpdateTypeOK, FileSets, Version
<1> QED
  BY <1>1 DEF CannotPlace, Rest, FileSets

-----------------------------------------------------------------------------
LEMMA DownloadKeeps ==
  ASSUME UpdateInv, DownloadTray \/ DownloadAgent
  PROVE  UpdateInv'
<1>1. /\ AgentFile'.target = AgentFile.target /\ AgentFile'.bak = AgentFile.bak /\ file' \in FileSets
      /\ task \in {"tray", "agent"} /\ task' \in {"agent", "apply"}
      /\ UNCHANGED <<windows, running, lock, helper, faults>>
  BY DEF DownloadTray, DownloadAgent, Download, AgentFile, UpdateInv, UpdateTypeOK, FileSets,
         Programs, Version
<1>2. UpdateTypeOK'
  BY <1>1 DEF UpdateInv, UpdateTypeOK, FileSets, Programs, Version
<1>3. BetweenRenames' /\ AwayMeansSwapping' /\ LockHandedOver' /\ Linked'
  BY <1>1 DEF UpdateInv, BetweenRenames, AwayMeansSwapping, LockHandedOver, Linked
<1> QED
  BY <1>2, <1>3 DEF UpdateInv

(* Linux: the two renames, each with what it does when it fails. *)
LEMMA ApplyKeeps ==
  ASSUME UpdateInv, ApplySetAside \/ ApplyPlace
  PROVE  UpdateInv'
<1>1. UpdateTypeOK /\ "agent" \in Programs /\ AgentFile = file["agent"] /\ AgentFile' = file'["agent"]
  BY DEF UpdateInv, Programs, AgentFile
<1>2. /\ file' \in FileSets /\ ~windows /\ UNCHANGED <<windows, running, helper>>
      /\ faults' \in {faults, faults \cup {"rollback"}}
      /\ task \in {"apply", "swap"} /\ task' \in {"idle", "swap", "restart"}
      /\ \/ task' = "idle" /\ lock' = FALSE
         \/ task' # "idle" /\ UNCHANGED lock
  BY <1>1, SetAsideEffect, CannotSetAsideEffect, PlaceEffect, CannotPlaceEffect
     DEF ApplySetAside, ApplyPlace, End, Rest, UpdateInv, BetweenRenames, CannotPlace
<1>3. (~lock' /\ lock' \in BOOLEAN) \/ (UNCHANGED lock /\ task' # "idle")
  BY <1>2
<1>4. UpdateTypeOK'
  BY <1>2, <1>3 DEF UpdateInv, UpdateTypeOK, FileSets, Programs, Version
<1>5. LockHandedOver'
  BY <1>3 DEF LockHandedOver
<1>6. Linked' /\ helper' = "none"
  BY <1>2 DEF UpdateInv, Linked
<1>7. BetweenRenames' /\ AwayMeansSwapping'
  <2>1. CASE task = "apply" /\ SetAside("agent") /\ task' = "swap"
    BY <1>1, <1>2, <1>6, <2>1, SetAsideEffect DEF BetweenRenames, AwayMeansSwapping
  <2>2. CASE task = "apply" /\ CannotSetAside("agent") /\ task' = "idle" /\ UNCHANGED faults
    BY <1>1, <1>2, <1>6, <2>2, CannotSetAsideEffect
       DEF UpdateInv, BetweenRenames, AwayMeansSwapping, Linked
  <2>3. CASE task = "swap" /\ Place("agent") /\ task' = "restart"
    BY <1>1, <1>2, <1>6, <2>3, PlaceEffect DEF UpdateInv, BetweenRenames, AwayMeansSwapping
  <2>4. CASE task = "swap" /\ CannotPlace("agent") /\ task' = "idle"
    BY <1>1, <1>2, <1>6, <2>4, CannotPlaceEffect DEF UpdateInv, BetweenRenames, AwayMeansSwapping
  <2> QED
    BY <2>1, <2>2, <2>3, <2>4 DEF ApplySetAside, ApplyPlace, End
<1> QED
  BY <1>4, <1>5, <1>6, <1>7 DEF UpdateInv
(* Windows: the agent's binary by the helper, *)
LEMMA HelperAgentKeeps ==
  ASSUME UpdateInv, HelperAgent \/ HelperAgentSwap
  PROVE  UpdateInv'
<1>1. UpdateTypeOK /\ "agent" \in Programs /\ AgentFile = file["agent"] /\ AgentFile' = file'["agent"]
  BY DEF UpdateInv, Programs, AgentFile
<1>2. /\ file' \in FileSets /\ UNCHANGED <<windows, running, lock, task>>
      /\ faults' \in {faults, faults \cup {"rollback"}}
      /\ helper \in {"agent", "agentSwap"} /\ windows
      /\ helper' \in {"none", "agentSwap", "tray", "start"}
  BY <1>1, SetAsideEffect, CannotSetAsideEffect, PlaceEffect, CannotPlaceEffect
     DEF HelperAgent, HelperAgentSwap, HelperSetAside, Rest, UpdateInv, Linked, CannotPlace
<1>3. UpdateTypeOK'
  BY <1>2 DEF UpdateInv, UpdateTypeOK, FileSets, Programs, Version
<1>4. LockHandedOver' /\ Linked'
  BY <1>2 DEF UpdateInv, LockHandedOver, Linked
<1>5. task # "swap"
  BY <1>2 DEF UpdateInv, BetweenRenames
<1>6. BetweenRenames' /\ AwayMeansSwapping'
  <2>1. CASE helper = "agent" /\ SetAside("agent") /\ helper' = "agentSwap"
    BY <1>1, <1>2, <1>5, <2>1, SetAsideEffect DEF BetweenRenames, AwayMeansSwapping
  <2>2. CASE helper = "agent" /\ CannotSetAside("agent") /\ helper' = "none" /\ UNCHANGED faults
    BY <1>1, <1>2, <1>5, <2>2, CannotSetAsideEffect
       DEF UpdateInv, BetweenRenames, AwayMeansSwapping
  <2>3. CASE helper = "agentSwap" /\ Place("agent") /\ helper' \in {"tray", "start"}
    BY <1>1, <1>2, <1>5, <2>3, PlaceEffect DEF UpdateInv, BetweenRenames, AwayMeansSwapping
  <2>4. CASE helper = "agentSwap" /\ CannotPlace("agent") /\ helper' = "none"
    BY <1>1, <1>2, <1>5, <2>4, CannotPlaceEffect DEF UpdateInv, BetweenRenames, AwayMeansSwapping
  <2> QED
    BY <2>1, <2>2, <2>3, <2>4 DEF HelperAgent, HelperAgentSwap, HelperSetAside
<1> QED
  BY <1>3, <1>4, <1>6 DEF UpdateInv

(* and the tray's, which is nothing to the agent's. *)
LEMMA HelperTrayKeeps ==
  ASSUME UpdateInv, HelperTray \/ HelperTraySwap
  PROVE  UpdateInv'
<1>1. UpdateTypeOK /\ "tray" \in Programs /\ "agent" \in Programs \ {"tray"}
  BY DEF UpdateInv, Programs
<1>2. file' \in FileSets /\ file'["agent"] = file["agent"]
  <2>1. CASE HelperTray
    BY <1>1, <2>1, SetAsideEffect, CannotSetAsideEffect DEF HelperTray, HelperSetAside, Rest
  <2>2. CASE HelperTraySwap
    <3>1. 0 \in Version /\ file \in FileSets
      BY <1>1 DEF UpdateTypeOK, FileSets, Version
    <3>2. CASE CannotPlace("tray")
      BY <1>1, <3>2, CannotPlaceEffect DEF Rest
    <3>3. ASSUME NEW bak \in {0, file["tray"].bak},
                 file' = [file EXCEPT !["tray"] = [target |-> @.new, bak |-> bak, new |-> 0]]
          PROVE  file' \in FileSets /\ file'["agent"] = file["agent"]
      BY <1>1, <3>1, <3>3 DEF FileSets
    <3> QED
      BY <2>2, <3>2, <3>3 DEF HelperTraySwap
  <2> QED
    BY <2>1, <2>2
<1>3. /\ UNCHANGED <<windows, running, lock, task>>
      /\ faults' \in {faults, faults \cup {"rollback"}}
      /\ helper \in {"tray", "traySwap"} /\ helper' \in {"none", "traySwap", "start"}
  BY DEF HelperTray, HelperTraySwap, HelperSetAside, CannotPlace
<1>4. AgentFile' = AgentFile
  BY <1>2 DEF AgentFile
<1>5. UpdateTypeOK'
  BY <1>2, <1>3 DEF UpdateInv, UpdateTypeOK, FileSets, Programs, Version
<1>6. BetweenRenames' /\ AwayMeansSwapping' /\ LockHandedOver' /\ Linked'
  BY <1>3, <1>4 DEF UpdateInv, BetweenRenames, AwayMeansSwapping, LockHandedOver, Linked
<1> QED
  BY <1>5, <1>6 DEF UpdateInv

LEMMA ProcessStartKeeps ==
  ASSUME UpdateInv, Start \/ Restart \/ HelperStart
  PROVE  UpdateInv'
<1>1. CASE Start
  BY <1>1, BootKeeps DEF Start
<1>2. CASE Restart
  BY <1>2, BootKeeps DEF Restart
<1>3. CASE HelperStart /\ Boot
  BY <1>3, BootKeeps DEF HelperStart
<1>4. CASE HelperStart /\ UNCHANGED <<running, file, lock, task>>
  <2>1. AgentFile' = AgentFile
    BY <1>4 DEF AgentFile
  <2> QED
    BY <1>4, <2>1 DEF HelperStart, UpdateInv, UpdateTypeOK, BetweenRenames, AwayMeansSwapping,
                      LockHandedOver, Linked, Version, Programs
<1> QED
  BY <1>1, <1>2, <1>3, <1>4 DEF HelperStart

-----------------------------------------------------------------------------
LEMMA UpdateStepKeeps == UpdateInv /\ [UpdateNext]_updateVars => UpdateInv'
<1> SUFFICES ASSUME UpdateInv, [UpdateNext]_updateVars
             PROVE  UpdateInv'
  OBVIOUS
<1>1. CASE UNCHANGED updateVars
  BY <1>1 DEF UpdateInv, UpdateTypeOK, BetweenRenames, AwayMeansSwapping, LockHandedOver,
              Linked, AgentFile, Version, Programs, updateVars
<1>2. CASE Crash \/ Command \/ Fail \/ Fetch \/ SkipTray \/ SpawnHelper \/ HelperStop
  <2>1. UNCHANGED <<windows, file>>
    BY <1>2 DEF Crash, Command, Fail, Fetch, SkipTray, SpawnHelper, HelperStop
  <2> QED
    BY <1>2, <2>1, FilesAloneKeeps
<1>3. CASE DownloadTray \/ DownloadAgent
  BY <1>3, DownloadKeeps
<1>4. CASE ApplySetAside \/ ApplyPlace
  BY <1>4, ApplyKeeps
<1>5. CASE HelperAgent \/ HelperAgentSwap
  BY <1>5, HelperAgentKeeps
<1>6. CASE HelperTray \/ HelperTraySwap
  BY <1>6, HelperTrayKeeps
<1>7. CASE Start \/ Restart \/ HelperStart
  BY <1>7, ProcessStartKeeps
<1> QED
  BY <1>1, <1>2, <1>3, <1>4, <1>5, <1>6, <1>7 DEF UpdateNext

LEMMA UpdateInvariant == UpdateSpec => []UpdateInv
BY UpdateInitInv, UpdateStepKeeps, PTL DEF UpdateSpec

LEMMA UpdateTypes == UpdateSpec => []UpdateTypeOK
<1>1. UpdateInv => UpdateTypeOK
  BY DEF UpdateInv
<1> QED
  BY <1>1, UpdateInvariant, PTL

(* replace_binary, in the agent and in the helper: the old binary is there *)
(* under one of its two names until the new one is, wherever it stops.     *)
THEOREM AgentIsNeverLost == UpdateSpec => []AgentNeverLost
<1>1. UpdateInv => AgentNeverLost
  BY DEF UpdateInv, AwayMeansSwapping, AgentNeverLost, AgentFile
<1> QED
  BY <1>1, UpdateInvariant, PTL

(* UPDATE_IN_PROGRESS: taken by the command, it is dropped at every exit   *)
(* of run_update but the one to the helper.                                *)
THEOREM LockIsForUpdating == UpdateSpec => []LockMeansUpdating
<1>1. UpdateInv => LockMeansUpdating
  BY DEF UpdateInv, LockHandedOver, LockMeansUpdating
<1> QED
  BY <1>1, UpdateInvariant, PTL

-----------------------------------------------------------------------------
(* Requests and replies. *)

(* A request that a dialog waits for was drawn for it alone; it waits for  *)
(* its answer or timer, or its response is on its way.                     *)
CallsInv ==
  /\ CallsTypeOK
  /\ pending = timers /\ pending \subseteq 1 .. drawn /\ settled \subseteq 1 .. drawn
  /\ pending \cap settled = {}
  /\ \A d \in Dialogs : call[d] \in 0 .. drawn
  /\ \A d, e \in Dialogs : call[d] # 0 /\ call[d] = call[e] => d = e
  /\ \A d \in Dialogs : call[d] # 0 => call[d] \in pending \cup settled

LEMMA CallsInitInv == CallsInit => CallsInv
<1> SUFFICES ASSUME CallsInit
             PROVE  CallsInv
  OBVIOUS
<1>1. call \in [Dialogs -> {0}] /\ \A d \in Dialogs : call[d] = 0
  BY DEF CallsInit
<1>2. 0 \in 0 .. MaxCalls /\ 0 \in 0 .. MaxChannels
  BY CallsAssumption
<1>3. CallsTypeOK
  BY <1>1, <1>2 DEF CallsInit, CallsTypeOK
<1> QED
  BY <1>1, <1>3 DEF CallsInit, CallsInv

LEMMA CallsTypeStep ==
  ASSUME CallsTypeOK, CallsNext
  PROVE  CallsTypeOK'
<1>1. CASE AgentConnects \/ AgentCloses
  <2>1. channel' \in 0 .. MaxChannels
    <3>1. channel \in 0 .. MaxChannels
      BY DEF CallsTypeOK
    <3>2. channel' = channel \/ (channel < MaxChannels /\ channel' = channel + 1)
      BY <1>1 DEF AgentConnects, AgentCloses
    <3> QED
      BY <3>1, <3>2, CallsAssumption
  <2>2. /\ reachable' \in BOOLEAN
        /\ UNCHANGED <<drawn, pending, timers, frame, via, call, settled>>
    BY <1>1 DEF AgentConnects, AgentCloses
  <2> QED
    BY <2>1, <2>2 DEF CallsTypeOK
<1>2. ASSUME NEW d \in Dialogs, GetLogs(d) \/ TestJob(d)
      PROVE  CallsTypeOK'
  <2>1. sendToAgent(d)
    BY <1>2 DEF GetLogs, TestJob
  <2>2. drawn + 1 \in Calls /\ drawn + 1 \in 0 .. MaxCalls
    BY <2>1, CallsAssumption DEF CallsTypeOK, sendToAgent, Calls
  <2>3. /\ frame' \in [Calls -> {"none", "toAgent", "atAgent", "toServer"}]
        /\ via' \in [Calls -> 0 .. MaxChannels] /\ call' \in [Dialogs -> 0 .. MaxCalls]
    BY <2>1, <2>2 DEF CallsTypeOK, sendToAgent
  <2> QED
    BY <2>1, <2>2, <2>3 DEF CallsTypeOK, sendToAgent
<1>3. ASSUME NEW d \in Dialogs, Finally(d) \/ Abandon(d)
      PROVE  CallsTypeOK'
  BY <1>3, CallsAssumption DEF CallsTypeOK, Finally, Abandon
<1>4. ASSUME NEW i \in Calls, Lost(i) \/ AgentTakes(i) \/ AgentAnswers(i)
      PROVE  CallsTypeOK'
  BY <1>4 DEF CallsTypeOK, Lost, AgentTakes, AgentAnswers
<1>5. ASSUME NEW i \in Calls, Answer(i) \/ TimeOut(i)
      PROVE  CallsTypeOK'
  BY <1>5 DEF CallsTypeOK, Answer, TimeOut, Settle
<1> QED
  BY <1>1, <1>2, <1>3, <1>4, <1>5 DEF CallsNext

LEMMA CallsNextInv == CallsInv /\ [CallsNext]_callVars => CallsInv'
<1> SUFFICES ASSUME CallsInv, [CallsNext]_callVars
             PROVE  CallsInv'
  OBVIOUS
<1>t. call \in [Dialogs -> 0 .. MaxCalls] /\ drawn \in Nat
  BY CallsAssumption DEF CallsInv, CallsTypeOK
<1>1. CASE UNCHANGED callVars
  BY <1>1 DEF CallsInv, CallsTypeOK, callVars
<1>2. CASE AgentConnects \/ AgentCloses \/ \E i \in Calls : Lost(i) \/ AgentTakes(i) \/ AgentAnswers(i)
  <2>1. UNCHANGED <<drawn, pending, timers, call, settled>> /\ CallsNext
    BY <1>2 DEF AgentConnects, AgentCloses, Lost, AgentTakes, AgentAnswers, CallsNext
  <2> QED
    BY <2>1, CallsTypeStep DEF CallsInv
<1>3. ASSUME NEW d \in Dialogs, GetLogs(d) \/ TestJob(d)
      PROVE  CallsInv'
  <2>1. CallsTypeOK'
    BY <1>3, CallsTypeStep DEF CallsInv, CallsNext
  <2>2. /\ drawn' = drawn + 1 /\ pending' = pending \cup {drawn + 1}
        /\ timers' = timers \cup {drawn + 1} /\ settled' = settled
        /\ call' = [call EXCEPT ![d] = drawn + 1]
    BY <1>3 DEF GetLogs, TestJob, sendToAgent
  <2> QED
    BY <1>t, <2>1, <2>2 DEF CallsInv
<1>4. ASSUME NEW d \in Dialogs, Finally(d) \/ Abandon(d)
      PROVE  CallsInv'
  <2>1. CallsTypeOK'
    BY <1>4, CallsTypeStep DEF CallsInv, CallsNext
  <2>2. /\ UNCHANGED <<drawn, pending, timers>>
        /\ settled' = settled \ {call[d]} /\ call' = [call EXCEPT ![d] = 0]
    BY <1>4 DEF Finally, Abandon
  <2>3. /\ call'[d] = 0
        /\ \A e \in Dialogs : e # d => call'[e] = call[e] /\ (call[e] = 0 \/ call[e] # call[d])
    BY <1>t, <2>2 DEF CallsInv
  <2>4. /\ \A e \in Dialogs : call'[e] \in 0 .. drawn'
        /\ \A e \in Dialogs : call'[e] # 0 => call'[e] \in pending' \cup settled'
    BY <1>t, <2>2, <2>3 DEF CallsInv
  <2> QED
    BY <2>1, <2>2, <2>3, <2>4 DEF CallsInv
<1>5. ASSUME NEW i \in Calls, Answer(i) \/ TimeOut(i)
      PROVE  CallsInv'
  <2>1. CallsTypeOK'
    BY <1>5, CallsTypeStep DEF CallsInv, CallsNext
  <2>2. CASE UNCHANGED <<drawn, pending, timers, call, settled>>
    BY <2>1, <2>2 DEF CallsInv
  <2>3. CASE /\ i \in pending /\ UNCHANGED <<drawn, call>>
             /\ pending' = pending \ {i} /\ timers' = timers \ {i} /\ Settle(i)
    BY <1>t, <2>1, <2>3 DEF CallsInv, Settle
  <2> QED
    BY <1>5, <2>2, <2>3 DEF Answer, TimeOut, CallsInv
<1> QED
  BY <1>1, <1>2, <1>3, <1>4, <1>5 DEF CallsNext

LEMMA CallsInvariant == CallsSpec => []CallsInv
BY CallsInitInv, CallsNextInv, PTL DEF CallsSpec

LEMMA CallsTypes == CallsSpec => []CallsTypeOK
<1>1. CallsInv => CallsTypeOK
  BY DEF CallsInv
<1> QED
  BY <1>1, CallsInvariant, PTL

(* pendingRequests holds what a timer is going to end, and no timer        *)
(* outlives its request, however answers, timeouts, lost frames and        *)
(* dialogs that go away interleave.                                        *)
THEOREM RequestsLeaveNothing == CallsSpec => []NothingLeaks
<1>1. CallsInv => NothingLeaks
  BY DEF CallsInv, NothingLeaks
<1> QED
  BY <1>1, CallsInvariant, PTL
=============================================================================
