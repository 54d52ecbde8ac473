------------------------------- MODULE Enrolment -------------------------------
(***************************************************************************)
(* How one agent gets in and is put out: pairing codes, the transaction    *)
(* that turns a code into an agent session, the socket that opens with the *)
(* session's token, and the requests that revoke a session or delete the   *)
(* agent.  Transactions are READ COMMITTED: a statement sees what was      *)
(* committed when it starts and waits for the rows others have written.    *)
(***************************************************************************)
EXTENDS Integers, FiniteSets

CONSTANTS
  Codes, Rows, \* bounds: the codes and the session rows ever made
  Pairings,    \* slots for pairing requests
  Sockets,     \* slots for the agent's sockets
  Nothing

Gone == "gone"  \* a session row that was deleted

ASSUME EnrolmentAssumption == Nothing \notin Codes \cup Rows \cup Sockets \cup {Gone}

VARIABLES
  enrolled, \* "live", "deleted"
  code,     \* the codes, as committed
  minting,  \* a request for a code found none that it can show
  pairing,  \* the pairing requests: code, how far
  row,      \* the session rows, as committed: the code each was paired with
  tokens,   \* the sessions whose token an agent has received
  conn,     \* the sockets: session, how far, and whether it registered after being put out
  registry, \* agentRegistry's entry: a socket
  revoking, \* the session that a request has deleted and is about to close
  deleting  \* the request that deletes the agent: how far, and the rows it deletes

enrolVars == <<enrolled, code, minting, pairing, row, tokens, conn, registry,
               revoking, deleting>>

EnrolTypeOK ==
  /\ enrolled \in {"live", "deleted"} /\ minting \in BOOLEAN
  /\ code \in [Codes -> {"none", "fresh", "expired", "used", "cleared"}]
  /\ pairing \in [Pairings -> [pc: {"idle", "found", "marked", "checked", "created"},
                               code: Codes \cup {Nothing}]]
  /\ row \in [Rows -> Codes \cup {Nothing, Gone}] /\ tokens \subseteq Rows
  /\ conn \in [Sockets -> [pc: {"none", "found", "registered", "up", "closing"},
                             row: Rows \cup {Nothing}, late: BOOLEAN]]
  /\ registry \in {k \in Sockets : conn[k].pc \notin {"none", "found"}} \cup {Nothing}
  /\ revoking \in Rows \cup {Nothing}
  /\ deleting \in [pc: {"idle", "marked", "swept", "committed"}, rows: SUBSET Rows]

Unused == [pc |-> "none", row |-> Nothing, late |-> FALSE]

EnrolInit ==
  /\ enrolled = "live" /\ minting = FALSE
  /\ code = [c \in Codes |-> "none"]
  /\ pairing = [p \in Pairings |-> [pc |-> "idle", code |-> Nothing]]
  /\ row = [s \in Rows |-> Nothing] /\ tokens = {}
  /\ conn = [k \in Sockets |-> Unused] /\ registry = Nothing
  /\ revoking = Nothing
  /\ deleting = [pc |-> "idle", rows |-> {}]

Stored(s)   == row[s] \in Codes
Admitted(s) == Stored(s) /\ enrolled = "live"

-----------------------------------------------------------------------------
(* Codes. *)

(* The query takes any one row of the agent: it may be a spent code though *)
(* another is fresh.                                                       *)
CodeFind ==
  /\ enrolled = "live" /\ ~minting
  /\ \/ \A c \in Codes : code[c] \in {"none", "cleared"}
     \/ \E c \in Codes : code[c] \in {"expired", "used"}
  /\ minting' = TRUE
  /\ UNCHANGED <<enrolled, code, pairing, row, tokens, conn, registry, revoking, deleting>>

CodeCreate ==
  /\ minting /\ minting' = FALSE
  /\ \E c \in Codes : code[c] = "none"
  /\ code' = [code EXCEPT ![CHOOSE c \in Codes : code[c] = "none"] = "fresh"]
  /\ UNCHANGED <<enrolled, pairing, row, tokens, conn, registry, revoking, deleting>>

Expired(c) ==
  /\ code[c] = "fresh" /\ code' = [code EXCEPT ![c] = "expired"]
  /\ UNCHANGED <<enrolled, minting, pairing, row, tokens, conn, registry, revoking, deleting>>

(* A pairing's transaction holds the lock of its code's row. *)
Locked(c) == \E p \in Pairings : pairing[p].code = c /\ pairing[p].pc \in {"marked", "checked", "created"}

clearExpiredAgentCodes ==
  LET spent == {c \in Codes : code[c] \in {"expired", "used"}} IN
  /\ spent # {} /\ \A c \in spent : ~Locked(c)
  /\ code' = [c \in Codes |-> IF c \in spent THEN "cleared" ELSE code[c]]
  /\ UNCHANGED <<enrolled, minting, pairing, row, tokens, conn, registry, revoking, deleting>>

-----------------------------------------------------------------------------
(* POST /api/agents/pair: the code is looked up, then one transaction marks *)
(* it, finds the agent, makes the session and gives it its token.          *)

FreeRows == {s \in Rows : row[s] = Nothing}
Busy == {p \in Pairings : pairing[p].pc # "idle"}

PairFind(p) ==
  /\ pairing[p].pc = "idle" /\ Cardinality(FreeRows) > Cardinality(Busy)
  /\ \E c \in Codes :
       /\ code[c] = "fresh"
       /\ pairing' = [pairing EXCEPT ![p] = [pc |-> "found", code |-> c]]
  /\ UNCHANGED <<enrolled, code, minting, row, tokens, conn, registry, revoking, deleting>>

EndPairing(p)      == pairing' = [pairing EXCEPT ![p] = [pc |-> "idle", code |-> Nothing]]
Go(p, step) == pairing' = [pairing EXCEPT ![p].pc = step]

MarkOutside(p) ==  \* mutant: the code is marked before the transaction
  /\ pairing[p].pc = "found" /\ ~Locked(pairing[p].code)
  /\ \/ code[pairing[p].code] # "cleared" /\ Go(p, "marked")
        /\ code' = [code EXCEPT ![pairing[p].code] = "used"]
     \/ code[pairing[p].code] = "cleared" /\ EndPairing(p) /\ UNCHANGED code
  /\ UNCHANGED <<enrolled, minting, row, tokens, conn, registry, revoking, deleting>>

PairMark(p) ==
  /\ pairing[p].pc = "found" /\ ~Locked(pairing[p].code)
  /\ \/ code[pairing[p].code] # "cleared" /\ Go(p, "marked")
     \/ code[pairing[p].code] = "cleared" /\ EndPairing(p)
  /\ UNCHANGED <<enrolled, code, minting, row, tokens, conn, registry, revoking, deleting>>

FindForUpdate(p) ==  \* mutant: the agent's row is read with a lock
  /\ pairing[p].pc = "marked" /\ deleting.pc \notin {"marked", "swept"}
  /\ \/ enrolled = "live" /\ Go(p, "checked")
     \/ enrolled = "deleted" /\ EndPairing(p)
  /\ UNCHANGED <<enrolled, code, minting, row, tokens, conn, registry, revoking, deleting>>

PairAgent(p) ==
  /\ pairing[p].pc = "marked"
  /\ \/ enrolled = "live" /\ Go(p, "checked")
     \/ enrolled = "deleted" /\ EndPairing(p)
  /\ UNCHANGED <<enrolled, code, minting, row, tokens, conn, registry, revoking, deleting>>

(* The placeholder "" is under the token's unique index: a second one      *)
(* waits for the transaction of the first.                                 *)
PairCreate(p) ==
  /\ pairing[p].pc = "checked" /\ \A q \in Pairings : pairing[q].pc # "created"
  /\ Go(p, "created")
  /\ UNCHANGED <<enrolled, code, minting, row, tokens, conn, registry, revoking, deleting>>

(* The token replaces the placeholder, the transaction commits, and the    *)
(* answer reaches the agent or does not.                                   *)
PairCommit(p) ==
  /\ pairing[p].pc = "created" /\ EndPairing(p)
  /\ code' = [code EXCEPT ![pairing[p].code] = "used"]
  /\ FreeRows # {}
  /\ LET s == CHOOSE s \in FreeRows : TRUE IN
       /\ row' = [row EXCEPT ![s] = pairing[p].code]
       /\ tokens' \in {tokens, tokens \cup {s}}
  /\ UNCHANGED <<enrolled, minting, conn, registry, revoking, deleting>>

-----------------------------------------------------------------------------
(* The agent's socket. *)

(* onOpen's lookup.  Refused: an unknown token makes the agent forget it   *)
(* and stop.                                                               *)
Open(k, s) ==
  /\ conn[k].pc = "none" /\ s \in tokens
  /\ \/ /\ Admitted(s) /\ UNCHANGED tokens
        /\ conn' = [conn EXCEPT ![k] = [pc |-> "found", row |-> s, late |-> FALSE]]
     \/ ~Stored(s) /\ tokens' = tokens \ {s} /\ UNCHANGED conn
  /\ UNCHANGED <<enrolled, code, minting, pairing, row, registry, revoking, deleting>>

Closing(so, k) == IF k \in Sockets /\ so[k].pc \in {"registered", "up"}
                  THEN [so EXCEPT ![k].pc = "closing"] ELSE so

OpenRegister(k) ==
  /\ conn[k].pc = "found" /\ registry' = k
  /\ conn' = [Closing(conn, registry) EXCEPT
                  ![k].pc = "registered", ![k].late = ~Admitted(conn[k].row)]
  /\ UNCHANGED <<enrolled, code, minting, pairing, row, tokens, revoking, deleting>>

(* The row's last_seen_at and ip; without a row this throws and the socket *)
(* stays as it is: registered, never told that it is connected, no pings.  *)
OpenUpdate(k) ==
  /\ conn[k].pc = "registered" /\ Stored(conn[k].row)
  /\ conn' = [conn EXCEPT ![k].pc = "up"]
  /\ UNCHANGED <<enrolled, code, minting, pairing, row, tokens, registry, revoking, deleting>>

ClosedAnyway(k) ==  \* mutant: the entry stays when its socket closes
  /\ conn[k].pc \in {"registered", "up", "closing"}
  /\ conn' = [conn EXCEPT ![k] = Unused]
  /\ UNCHANGED <<enrolled, code, minting, pairing, row, tokens, registry, revoking, deleting>>

(* onClose, after the server's close or the agent's. *)
Closed(k) ==
  /\ conn[k].pc \in {"registered", "up", "closing"}
  /\ conn' = [conn EXCEPT ![k] = Unused]
  /\ registry' = IF registry = k THEN Nothing ELSE registry
  /\ UNCHANGED <<enrolled, code, minting, pairing, row, tokens, revoking, deleting>>

-----------------------------------------------------------------------------
(* Putting an agent out. *)

(* The row is found and deleted; a second delete throws. *)
RevokeDelete(s) ==
  /\ revoking = Nothing /\ Stored(s)
  /\ row' = [row EXCEPT ![s] = Gone] /\ revoking' = s
  /\ UNCHANGED <<enrolled, code, minting, pairing, tokens, conn, registry, deleting>>

CloseAnother ==  \* mutant: the session of the entry is not compared
  /\ revoking # Nothing /\ revoking' = Nothing
  /\ conn' = IF registry # Nothing /\ conn[registry].row # revoking
               THEN Closing(conn, registry) ELSE conn
  /\ UNCHANGED <<enrolled, code, minting, pairing, row, tokens, registry, deleting>>

RevokeClose ==
  /\ revoking # Nothing /\ revoking' = Nothing
  /\ conn' = IF registry # Nothing /\ conn[registry].row = revoking
               THEN Closing(conn, registry) ELSE conn
  /\ UNCHANGED <<enrolled, code, minting, pairing, row, tokens, registry, deleting>>

(* The request found no job of the agent (otherwise it is refused); a job  *)
(* created later is not looked for again.                                  *)
DeleteMark ==
  /\ deleting.pc = "idle" /\ enrolled = "live"
  /\ deleting' = [deleting EXCEPT !.pc = "marked"]
  /\ UNCHANGED <<enrolled, code, minting, pairing, row, tokens, conn, registry, revoking>>

DeleteSessions ==
  /\ deleting.pc = "marked"
  /\ deleting' = [pc |-> "swept", rows |-> {s \in Rows : Stored(s)}]
  /\ UNCHANGED <<enrolled, code, minting, pairing, row, tokens, conn, registry, revoking>>

(* The codes go when no pairing holds one, and the transaction commits. *)
DeleteCodes ==
  /\ deleting.pc = "swept" /\ \A c \in Codes : ~Locked(c)
  /\ enrolled' = "deleted" /\ deleting' = [deleting EXCEPT !.pc = "committed"]
  /\ row' = [s \in Rows |-> IF s \in deleting.rows THEN Gone ELSE row[s]]
  /\ code' = [c \in Codes |-> IF code[c] = "none" THEN "none" ELSE "cleared"]
  /\ UNCHANGED <<minting, pairing, tokens, conn, registry, revoking>>

DeleteClose ==
  /\ deleting.pc = "committed" /\ deleting' = [pc |-> "idle", rows |-> {}]
  /\ conn' = Closing(conn, registry)
  /\ UNCHANGED <<enrolled, code, minting, pairing, row, tokens, registry, revoking>>

-----------------------------------------------------------------------------
PairStep(p) == PairMark(p) \/ PairAgent(p) \/ PairCreate(p) \/ PairCommit(p)
Deletion    == DeleteSessions \/ DeleteCodes \/ DeleteClose

EnrolNext ==
  \/ CodeFind \/ CodeCreate \/ clearExpiredAgentCodes \/ \E c \in Codes : Expired(c)
  \/ \E p \in Pairings : PairFind(p) \/ PairStep(p)
  \/ \E k \in Sockets : \/ \E s \in Rows : Open(k, s)
                        \/ OpenRegister(k) \/ OpenUpdate(k) \/ Closed(k)
  \/ \E s \in Rows : RevokeDelete(s)
  \/ RevokeClose
  \/ DeleteMark \/ Deletion

EnrolSpec == EnrolInit /\ [][EnrolNext]_enrolVars

(* A transaction goes on when no lock holds it up. *)
EnrolFairness ==
  /\ \A p \in Pairings : WF_enrolVars(PairStep(p))
  /\ WF_enrolVars(Deletion)

-----------------------------------------------------------------------------
(* Properties. *)

(* A code is spent only together with the session it makes; a session is   *)
(* made only for an agent that is there, by a pairing that ends with it,   *)
(* and a pairing begins only with a fresh code: however pairings overlap,  *)
(* fail on the way or meet a deletion of the agent, though nothing locks   *)
(* the agent's row, the lookup made before the transaction is the only way *)
(* in.  Two pairings may have made it of one code: see OneSessionPerCode.  *)
UsedMeansPaired ==
  [][/\ \A c \in Codes : code[c] # "used" /\ code'[c] = "used" =>
          \E s \in Rows : row[s] = Nothing /\ row'[s] = c
     /\ \A s \in Rows : row[s] = Nothing /\ row'[s] # Nothing =>
          /\ enrolled = "live" /\ enrolled' = "live"
          /\ \E p \in Pairings : pairing[p].code = row'[s] /\ pairing'[p].code = Nothing
          /\ row'[s] \in Codes /\ code'[row'[s]] = "used"
     /\ \A p \in Pairings : pairing'[p].code \notin {pairing[p].code, Nothing} =>
          code[pairing'[p].code] = "fresh"]_enrolVars

(* The code of an agent is "a one-time code" and a second use is answered  *)
(* "Code already used": no two sessions are of one code.  Each of two      *)
(* pairings that found it fresh makes one, for the mark in the transaction *)
(* is made whether the code was used by then or not.                       *)
OneSessionPerCode ==
  \A s, t \in Rows : row[s] \in Codes /\ row[t] = row[s] => s = t

(* A session revoked, or an agent deleted, does not stay connected: the    *)
(* entry of agentRegistry is about to be closed, or it was put out while   *)
(* its socket's onOpen was between the lookup and the registration.        *)
PutOutLeaves ==
  registry # Nothing =>
    \/ Admitted(conn[registry].row)
    \/ conn[registry].pc = "closing" \/ conn[registry].late
    \/ revoking = conn[registry].row
    \/ deleting.pc = "committed"

(* The locks that pairings and a deletion take never leave any of them     *)
(* waiting for good.                                                       *)
TransactionsEnd ==
  /\ \A p \in Pairings : []<>(pairing[p].pc \in {"idle", "found"})
  /\ []<>(deleting.pc = "idle")
=============================================================================
