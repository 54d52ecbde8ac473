----------------------------- MODULE UserSessions -----------------------------
(***************************************************************************)
(* Sessions of one user: the rows of UserSession, the requests that make,  *)
(* rotate and delete them, and the browsers, whose tabs share the token in *)
(* localStorage and act on answers in whatever order they arrive.          *)
(***************************************************************************)
EXTENDS Integers, FiniteSets

CONSTANTS
  Browsers,
  Requests,  \* slots for the requests in flight
  BrowserOf, \* the browser that uses a slot
  MaxTokens, \* bound: tokens that are ever signed
  NoToken

ASSUME SessionsAssumption ==
  /\ MaxTokens \in Nat /\ NoToken \notin Nat
  /\ BrowserOf \in [Requests -> Browsers] /\ IsFiniteSet(Requests)

Tokens == 1 .. MaxTokens
Kinds  == {"none", "login", "me", "refresh", "logout", "revoke"}

VARIABLES
  user,     \* "absent" before it is created, "live", "deleted"
  sessions, \* the tokens that have a session row
  expired,  \* those whose exp has passed
  signed,   \* how many tokens were signed
  logins,   \* how many rows logins made
  stored,   \* localStorage's token, per browser
  req       \* kind, token sent, how far, and what the answer makes the page store

userVars == <<user, sessions, expired, signed, logins, stored, req>>

Slot == [kind: Kinds, sent: Tokens \cup {NoToken}, made: Tokens \cup {NoToken},
         pc: {"free", "sent", "checked", "found", "answered"}]

NoRequest == [kind |-> "none", sent |-> NoToken, made |-> NoToken, pc |-> "free"]

SessionsTypeOK ==
  /\ user \in {"absent", "live", "deleted"}
  /\ sessions \subseteq Tokens /\ expired \subseteq sessions
  /\ signed \in 0 .. MaxTokens /\ logins \in 0 .. MaxTokens
  /\ stored \in [Browsers -> Tokens \cup {NoToken}]
  /\ req \in [Requests -> Slot]

SessionsInit ==
  /\ user = "absent" /\ sessions = {} /\ expired = {} /\ signed = 0 /\ logins = 0
  /\ stored = [b \in Browsers |-> NoToken]
  /\ req = [r \in Requests |-> NoRequest]

LiveToken(t) == t \in sessions /\ t \notin expired

Forget(ts) == sessions' = sessions \ ts /\ expired' = expired \ ts

(* An answer that makes the page store a token or drop it, and one that it *)
(* only reports.                                                           *)
AnswerWith(r, t) == req' = [req EXCEPT ![r].pc = "answered", ![r].made = t]
Reported(r)      == req' = [req EXCEPT ![r] = NoRequest]

-----------------------------------------------------------------------------
(* The routes. *)

CreateUser ==
  /\ user = "absent" /\ user' = "live"
  /\ UNCHANGED <<sessions, expired, signed, logins, stored, req>>

(* Another user deletes this one: the user and all its rows at once. *)
DeleteUser ==
  /\ user = "live" /\ user' = "deleted" /\ Forget(sessions)
  /\ UNCHANGED <<signed, logins, stored, req>>

(* The login finds the user and compares the password, which takes a while. *)
LoginFind(r) ==
  /\ req[r].kind = "login" /\ req[r].pc = "sent"
  /\ \/ user = "live" /\ req' = [req EXCEPT ![r].pc = "checked"]
     \/ Reported(r)
  /\ UNCHANGED <<user, sessions, expired, signed, logins, stored>>

(* A token is its user and the second it was signed in: the row of a login *)
(* in the same second as the last token cannot be created.                 *)
LoginCreate(r) ==
  /\ req[r].kind = "login" /\ req[r].pc = "checked"
  /\ \/ /\ signed < MaxTokens /\ signed' = signed + 1 /\ logins' = logins + 1
        /\ sessions' = sessions \cup {signed + 1}
        /\ AnswerWith(r, signed + 1)
     \/ /\ signed \in sessions /\ signed \notin expired
        /\ Reported(r) /\ UNCHANGED <<sessions, signed, logins>>
  /\ UNCHANGED <<user, expired, stored>>

(* The auth middleware: the token verifies and has its row. *)
Auth(r) ==
  /\ req[r].kind \in {"me", "refresh", "logout", "revoke"} /\ req[r].pc = "sent"
  /\ \/ LiveToken(req[r].sent) /\ req[r].kind = "me" /\ Reported(r)
     \/ LiveToken(req[r].sent) /\ req[r].kind # "me" /\ req' = [req EXCEPT ![r].pc = "checked"]
     \/ ~LiveToken(req[r].sent) /\ req[r].kind \in {"me", "logout"} /\ AnswerWith(r, NoToken)
     \/ ~LiveToken(req[r].sent) /\ req[r].kind \in {"refresh", "revoke"} /\ Reported(r)
  /\ UNCHANGED <<user, sessions, expired, signed, logins, stored>>

(* One transaction; its delete throws when the row is gone.  In the second  *)
(* its token was signed in, it makes the same token and the same row again. *)
RefreshAnyway(r) ==  \* mutant: deleteMany for delete
  /\ req[r].kind = "refresh" /\ req[r].pc = "checked"
  /\ signed < MaxTokens /\ signed' = signed + 1
  /\ sessions' = (sessions \ {req[r].sent}) \cup {signed + 1} /\ expired' = expired \ {req[r].sent}
  /\ AnswerWith(r, signed + 1)
  /\ UNCHANGED <<user, logins, stored>>

Refresh(r) ==
  /\ req[r].kind = "refresh" /\ req[r].pc = "checked"
  /\ \/ /\ req[r].sent \in sessions /\ signed < MaxTokens /\ signed' = signed + 1
        /\ sessions' = (sessions \ {req[r].sent}) \cup {signed + 1} /\ expired' = expired \ {req[r].sent}
        /\ AnswerWith(r, signed + 1)
     \/ /\ LiveToken(req[r].sent) /\ req[r].sent = signed
        /\ AnswerWith(r, signed) /\ UNCHANGED <<sessions, expired, signed>>
     \/ /\ req[r].sent \notin sessions
        /\ Reported(r) /\ UNCHANGED <<sessions, expired, signed>>
  /\ UNCHANGED <<user, logins, stored>>

Logout(r) ==
  /\ req[r].kind = "logout" /\ req[r].pc = "checked"
  /\ Forget({req[r].sent})
  /\ AnswerWith(r, NoToken)
  /\ UNCHANGED <<user, signed, logins, stored>>

(* Revoking another session: found, then deleted by its id. *)
RevokeFind(r) ==
  /\ req[r].kind = "revoke" /\ req[r].pc = "checked"
  /\ \E t \in sessions \ {req[r].sent} :
       req' = [req EXCEPT ![r].pc = "found", ![r].made = t]
  /\ UNCHANGED <<user, sessions, expired, signed, logins, stored>>

RevokeSession(r) ==
  /\ req[r].kind = "revoke" /\ req[r].pc = "found"
  /\ Forget({req[r].made})
  /\ Reported(r)
  /\ UNCHANGED <<user, signed, logins, stored>>

(* All tokens live for as long, so they expire as they were signed. *)
Expire(t) ==
  /\ t \in sessions \ expired /\ \A s \in sessions : s < t => s \in expired
  /\ expired' = expired \cup {t}
  /\ UNCHANGED <<user, sessions, signed, logins, stored, req>>

clearExpiredUserSessions ==
  /\ expired # {} /\ Forget(expired)
  /\ UNCHANGED <<user, signed, logins, stored, req>>

-----------------------------------------------------------------------------
(* The browser. *)

(* Every request carries whatever is stored when it is sent. *)
Send(r, kind) ==
  /\ req[r].pc = "free"
  /\ req' = [req EXCEPT ![r] = [kind |-> kind, pc |-> "sent", made |-> NoToken,
                                 sent |-> stored[BrowserOf[r]]]]
  /\ UNCHANGED <<user, sessions, expired, signed, logins, stored>>

LoggedIn(r) == stored[BrowserOf[r]] # NoToken

(* The login page shows up without a token only, *)
LoginPage(r) == ~LoggedIn(r) /\ Send(r, "login")

(* and the token, when there is one, is asked about on every navigation. *)
AuthMiddleware(r) == LoggedIn(r) /\ Send(r, "me")
RootRedirect(r)   == LoggedIn(r) /\ Send(r, "me")

(* The settings dialog and the user's menu stay open whatever becomes of   *)
(* the token.                                                              *)
handleRefreshToken(r) == Send(r, "refresh")
revokeSession(r)      == Send(r, "revoke")
handleLogout(r)       == Send(r, "logout")

Store(r, t) == stored' = [stored EXCEPT ![BrowserOf[r]] = t]

(* What the page does with an answer: a 401 to /me throws away whatever    *)
(* token is stored by then.                                                *)
Handle(r) ==
  /\ req[r].pc = "answered"
  /\ Store(r, req[r].made)
  /\ req' = [req EXCEPT ![r] = NoRequest]
  /\ UNCHANGED <<user, sessions, expired, signed, logins>>

NetworkErrorAsRefusal(r) ==  \* mutant: a network error taken for a 401
  /\ req[r].pc \in {"sent", "answered"}
  /\ IF req[r].kind \in {"logout", "me"} THEN Store(r, NoToken) ELSE UNCHANGED stored
  /\ req' = [req EXCEPT ![r] = NoRequest]
  /\ UNCHANGED <<user, sessions, expired, signed, logins>>

(* The network fails on the way there or back: the user is kept in, except *)
(* by a logout, which forgets the token whatever happens.                  *)
NetworkError(r) ==
  /\ req[r].pc \in {"sent", "answered"}
  /\ IF req[r].kind = "logout" THEN Store(r, NoToken) ELSE UNCHANGED stored
  /\ req' = [req EXCEPT ![r] = NoRequest]
  /\ UNCHANGED <<user, sessions, expired, signed, logins>>

RequestStep(r) ==
  \/ LoginPage(r) \/ AuthMiddleware(r) \/ RootRedirect(r)
  \/ handleRefreshToken(r) \/ revokeSession(r) \/ handleLogout(r)
  \/ LoginFind(r) \/ LoginCreate(r) \/ Auth(r) \/ Refresh(r) \/ Logout(r)
  \/ RevokeFind(r) \/ RevokeSession(r) \/ Handle(r) \/ NetworkError(r)

SessionsNext ==
  \/ CreateUser \/ DeleteUser \/ clearExpiredUserSessions
  \/ \E t \in Tokens : Expire(t)
  \/ \E r \in Requests : RequestStep(r)

SessionsSpec == SessionsInit /\ [][SessionsNext]_userVars

-----------------------------------------------------------------------------
(* Properties. *)

(* Rotation never multiplies sessions: there are at most as many rows as   *)
(* logins, however refreshes, lost answers and deletions interleave.       *)
RotationConserves == Cardinality(sessions) <= logins

(* A browser loses a token that still works only by logging out or by the  *)
(* answer to a request that carried another token: a 401 to a token that   *)
(* was rotated meanwhile, or a refresh that overtook another.              *)
Completes(r) == req[r].pc \in {"sent", "answered"} /\ req'[r] = NoRequest

LiveTokenKept ==
  [][\A b \in Browsers :
       stored[b] \in sessions \ expired /\ stored'[b] # stored[b] =>
         \E r \in Requests :
           /\ BrowserOf[r] = b /\ Completes(r)
           /\ \/ req[r].kind = "logout"
              \/ req[r].kind \in {"me", "refresh", "login"} /\ req[r].sent # stored[b]]_userVars
=============================================================================
