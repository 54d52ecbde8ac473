----------------------------- MODULE AgentRequests -----------------------------
(***************************************************************************)
(* Requests that a dashboard user makes of an agent and the server passes  *)
(* on over the agent's socket, its logs and the dry run of a job: they     *)
(* wait for an answer that names them, sendToAgent and pendingRequests.  A *)
(* frame to or from a socket that closes is lost.                          *)
(***************************************************************************)
EXTENDS Integers

CONSTANTS
  LogDialogs, TestDialogs, \* open dialogs, each with its own page state
  MaxCalls,   \* bound: request ids ever drawn
  MaxChannels \* bound: sockets of the agent

ASSUME CallsAssumption == MaxCalls \in Nat /\ MaxChannels \in Nat

Calls   == 1 .. MaxCalls
Dialogs == LogDialogs \cup TestDialogs

VARIABLES
  channel,   \* the agent's newest socket
  reachable, \* it is in agentRegistry
  drawn,     \* how many request ids were drawn
  pending,   \* the keys of pendingRequests
  timers,    \* the requests whose timer is armed
  frame,     \* where a request's frame is
  via,       \* the socket it was sent on
  call,      \* the request each dialog waits for, 0 for none
  settled    \* requests whose promise is settled and whose response is on its way

callVars == <<channel, reachable, drawn, pending, timers, frame, via, call, settled>>

CallsTypeOK ==
  /\ channel \in 0 .. MaxChannels /\ reachable \in BOOLEAN /\ drawn \in 0 .. MaxCalls
  /\ pending \subseteq Calls /\ timers \subseteq Calls /\ settled \subseteq Calls
  /\ frame \in [Calls -> {"none", "toAgent", "atAgent", "toServer"}]
  /\ via \in [Calls -> 0 .. MaxChannels]
  /\ call \in [Dialogs -> 0 .. MaxCalls]

CallsInit ==
  /\ channel = 0 /\ reachable = FALSE /\ drawn = 0
  /\ pending = {} /\ timers = {} /\ settled = {}
  /\ frame = [i \in Calls |-> "none"] /\ via = [i \in Calls |-> 0]
  /\ call = [d \in Dialogs |-> 0]

-----------------------------------------------------------------------------
(* The agent's socket. *)

AgentConnects ==
  /\ ~reachable /\ channel < MaxChannels
  /\ channel' = channel + 1 /\ reachable' = TRUE
  /\ UNCHANGED <<drawn, pending, timers, frame, via, call, settled>>

(* onClose: nothing in it looks at pendingRequests. *)
AgentCloses ==
  /\ reachable /\ reachable' = FALSE
  /\ UNCHANGED <<channel, drawn, pending, timers, frame, via, call, settled>>

Broken(i) == via[i] # channel \/ ~reachable

Lost(i) ==
  /\ frame[i] # "none" /\ Broken(i) /\ frame' = [frame EXCEPT ![i] = "none"]
  /\ UNCHANGED <<channel, reachable, drawn, pending, timers, via, call, settled>>

-----------------------------------------------------------------------------
(* A dialog. *)

(* A new id, its timer, its resolver and the frame.  send() drops the frame *)
(* of a socket that is closing.                                            *)
sendUntimed(d) ==  \* mutant: the timer is armed by the caller, which the test route forgets
  /\ call[d] = 0 /\ reachable /\ drawn < MaxCalls
  /\ LET i == drawn + 1 IN
       /\ drawn' = i /\ pending' = pending \cup {i}
       /\ timers' \in {timers, timers \cup {i}}
       /\ frame' \in {frame, [frame EXCEPT ![i] = "toAgent"]}
       /\ via' = [via EXCEPT ![i] = channel] /\ call' = [call EXCEPT ![d] = i]
  /\ UNCHANGED <<channel, reachable, settled>>

sendToAgent(d) ==
  /\ call[d] = 0 /\ reachable /\ drawn < MaxCalls
  /\ LET i == drawn + 1 IN
       /\ drawn' = i /\ pending' = pending \cup {i} /\ timers' = timers \cup {i}
       /\ frame' \in {frame, [frame EXCEPT ![i] = "toAgent"]}
       /\ via' = [via EXCEPT ![i] = channel] /\ call' = [call EXCEPT ![d] = i]
  /\ UNCHANGED <<channel, reachable, settled>>

(* Neither waits while the agent is offline: the logs are refused, the test *)
(* answers without a dry run.                                              *)
GetLogs(d) == d \in LogDialogs /\ sendToAgent(d)
TestJob(d) == d \in TestDialogs /\ sendToAgent(d)

(* The response, an error or a failed fetch: loading ends. *)
Finally(d) ==
  /\ call[d] \in settled
  /\ settled' = settled \ {call[d]} /\ call' = [call EXCEPT ![d] = 0]
  /\ UNCHANGED <<channel, reachable, drawn, pending, timers, frame, via>>

(* The fetch itself breaks, or the dialog is closed: the server goes on.   *)
Abandon(d) ==
  /\ call[d] # 0 /\ settled' = settled \ {call[d]}
  /\ call' = [call EXCEPT ![d] = 0]
  /\ UNCHANGED <<channel, reachable, drawn, pending, timers, frame, via>>

Settle(i) == settled' = IF \E d \in Dialogs : call[d] = i THEN settled \cup {i} ELSE settled

-----------------------------------------------------------------------------
(* The agent: its reader takes one frame at a time and answers on the      *)
(* socket it came from.                                                    *)
AgentTakes(i) ==
  /\ frame[i] = "toAgent" /\ ~Broken(i) /\ frame' = [frame EXCEPT ![i] = "atAgent"]
  /\ \A h \in Calls : frame[h] = "atAgent" => via[h] # via[i]
  /\ UNCHANGED <<channel, reachable, drawn, pending, timers, via, call, settled>>

AgentAnswers(i) ==
  /\ frame[i] = "atAgent" /\ frame' = [frame EXCEPT ![i] = "toServer"]
  /\ UNCHANGED <<channel, reachable, drawn, pending, timers, via, call, settled>>

-----------------------------------------------------------------------------
(* The server. *)

AnswerKeepsTimer(i) ==  \* mutant: the resolver does not clear the timer
  /\ frame[i] = "toServer" /\ ~Broken(i) /\ frame' = [frame EXCEPT ![i] = "none"]
  /\ IF i \in pending
       THEN pending' = pending \ {i} /\ Settle(i)
       ELSE UNCHANGED <<pending, settled>>
  /\ UNCHANGED <<channel, reachable, drawn, via, call, timers>>

(* logs_data, dry_run_result: an answer to a request that timed out finds  *)
(* no resolver.                                                            *)
Answer(i) ==
  /\ frame[i] = "toServer" /\ ~Broken(i) /\ frame' = [frame EXCEPT ![i] = "none"]
  /\ IF i \in pending
       THEN pending' = pending \ {i} /\ timers' = timers \ {i} /\ Settle(i)
       ELSE UNCHANGED <<pending, timers, settled>>
  /\ UNCHANGED <<channel, reachable, drawn, via, call>>

TimeOut(i) ==
  /\ i \in timers /\ timers' = timers \ {i} /\ pending' = pending \ {i} /\ Settle(i)
  /\ UNCHANGED <<channel, reachable, drawn, frame, via, call>>

-----------------------------------------------------------------------------
CallsNext ==
  \/ AgentConnects \/ AgentCloses
  \/ \E d \in Dialogs : GetLogs(d) \/ TestJob(d) \/ Finally(d) \/ Abandon(d)
  \/ \E i \in Calls : Lost(i) \/ AgentTakes(i) \/ AgentAnswers(i) \/ Answer(i) \/ TimeOut(i)

CallsSpec == CallsInit /\ [][CallsNext]_callVars

(* Timers fire, and a browser sees the response of its fetch or an error.  *)
(* Nothing is assumed of the agent.                                        *)
CallsFairness ==
  /\ \A i \in Calls : WF_callVars(TimeOut(i))
  /\ \A d \in Dialogs : WF_callVars(Finally(d))

-----------------------------------------------------------------------------
(* Properties. *)

(* However answers, timeouts, lost frames and dialogs that go away         *)
(* interleave, pendingRequests holds what still has a timer to end it, and *)
(* a timer never outlives its request.                                     *)
NothingLeaks ==
  pending = timers /\ \A d \in Dialogs : call[d] # 0 => (call[d] \in pending) # (call[d] \in settled)

(* No dialog loads for ever, though a closed socket rejects nothing.       *)
EveryCallSettles == \A d \in Dialogs : []<>(call[d] = 0)
=============================================================================
