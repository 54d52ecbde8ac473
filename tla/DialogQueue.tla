------------------------------ MODULE DialogQueue ------------------------------
(***************************************************************************)
(* The dialogs of the web application: one provider puts up what the pages *)
(* ask for, one at a time, and settles a promise when a dialog is gone.    *)
(* Putting one up, showing it and taking it away are steps of their own,   *)
(* with a timer between them.                                              *)
(***************************************************************************)
EXTENDS Sorting

CONSTANT MaxDialogs \* bound: dialogs that are ever asked for

ASSUME DialogsAssumption == MaxDialogs \in Nat

DialogIds == 1 .. MaxDialogs

VARIABLES
  wanted,     \* dialogs asked for so far
  queueRef,   \* those that are not put up yet
  processing, \* processingRef
  stack,      \* dialogStack: those that are up, and whether they are visible
  appearing,  \* timers that show one
  vanishing,  \* timers that remove one
  resolved,   \* those whose promise is resolved
  crossed     \* ghost: how many were asked for while another was being put up

dialogVars == <<wanted, queueRef, processing, stack, appearing, vanishing, resolved, crossed>>

DialogsTypeOK ==
  /\ wanted \in 0 .. MaxDialogs /\ crossed \in 0 .. MaxDialogs /\ processing \in BOOLEAN
  /\ queueRef \in Seq(DialogIds) /\ stack \in Seq([id: DialogIds, isVisible: BOOLEAN])
  /\ {appearing, vanishing, resolved} \subseteq SUBSET DialogIds

DialogsInit ==
  /\ wanted = 0 /\ queueRef = <<>> /\ processing = FALSE /\ stack = <<>>
  /\ appearing = {} /\ vanishing = {} /\ resolved = {} /\ crossed = 0

Visible(d, yes) ==
  stack' = [i \in DOMAIN stack |-> IF stack[i].id = d THEN [id |-> d, isVisible |-> yes] ELSE stack[i]]

(* The first of the queue is put up, not visible yet. *)
processQueue(queue) ==
  /\ processing' = TRUE /\ queueRef' = Tail(queue)
  /\ stack' = Append(stack, [id |-> Head(queue), isVisible |-> FALSE])
  /\ appearing' = appearing \cup {Head(queue)}

openDialog ==
  /\ wanted < MaxDialogs /\ wanted' = wanted + 1
  /\ LET queue == Append(queueRef, wanted') IN
     IF processing
       THEN queueRef' = queue /\ crossed' = crossed + 1 /\ UNCHANGED <<processing, stack, appearing>>
       ELSE processQueue(queue) /\ UNCHANGED crossed
  /\ UNCHANGED <<vanishing, resolved>>

ShowsForGood(d) ==  \* mutant: the flag is not reset
  /\ d \in appearing /\ appearing' = appearing \ {d} /\ Visible(d, TRUE)
  /\ UNCHANGED <<wanted, queueRef, processing, vanishing, resolved, crossed>>

(* The timer makes it visible; what waits in the queue goes on waiting. *)
Appears(d) ==
  /\ d \in appearing /\ appearing' = appearing \ {d} /\ Visible(d, TRUE)
  /\ processing' = FALSE
  /\ UNCHANGED <<wanted, queueRef, vanishing, resolved, crossed>>

(* The user closes it, or its own request, when it is answered.           *)
handleClose(d) ==
  /\ \E i \in DOMAIN stack : stack[i].id = d
  /\ d \notin appearing
  /\ Visible(d, FALSE) /\ vanishing' = vanishing \cup {d}
  /\ UNCHANGED <<wanted, queueRef, processing, appearing, resolved, crossed>>

Vanishes(d) ==
  /\ d \in vanishing /\ vanishing' = vanishing \ {d}
  /\ stack' = Kept(stack, {i \in DOMAIN stack : stack[i].id # d})
  /\ resolved' = resolved \cup {d}
  /\ UNCHANGED <<wanted, queueRef, processing, appearing, crossed>>

DialogsNext == openDialog \/ \E d \in DialogIds : Appears(d) \/ handleClose(d) \/ Vanishes(d)

DialogsSpec == DialogsInit /\ [][DialogsNext]_dialogVars

-----------------------------------------------------------------------------
(* Dialogs come up in the order they were asked for, each is in one place, *)
(* and what is invisible is about to be shown or removed.  One that waits  *)
(* although none is being put up was passed by: asked for while another    *)
(* was being put up, it, and all after it, wait for the next to be asked.  *)
DialogsInTurn ==
  LET turn == [i \in DOMAIN stack |-> stack[i].id] \o queueRef IN
  /\ \A i, j \in DOMAIN turn : i < j => turn[i] < turn[j]
  /\ {turn[i] : i \in DOMAIN turn} = (1 .. wanted) \ resolved
  /\ \A i \in DOMAIN stack : stack[i].isVisible <=> stack[i].id \notin appearing \cup vanishing
  /\ processing <=> appearing # {}
  /\ Len(queueRef) <= crossed
=============================================================================
