------------------------------ MODULE Approver ------------------------------
(***************************************************************************)
(* policy.ManualApprover: the queue that holds an action for human         *)
(* approval.  A review is one call of Decide, parked in a select on its    *)
(* decision channel, its timer and its request's context.  Operators       *)
(* resolve reviews through the review API, from a listing that may be out  *)
(* of date.  Every critical section of the queue's lock is one action.     *)
(***************************************************************************)
CONSTANTS
    Review,     \* calls of Decide
    Operator,   \* operators, each one call of the review API at a time
    Timed       \* the calls made at an approver built with a positive timeout

ASSUME TimedAssumption == Timed \subseteq Review

VARIABLES
    pc,        \* pc[q]: where Decide stands
    pending,   \* reviews in the pending map
    chan,      \* chan[q]: q's buffered channel, "empty" or the decision sent
    fired,     \* reviews whose timer has fired
    gone,      \* reviews whose request context is done
    result,    \* result[q]: what Decide returned, "none" before that
    seen,      \* seen[o]: review ids operator o has listed
    told       \* told[o]: the <<review, answer>> pairs o was told it settled

vars == <<pc, pending, chan, fired, gone, result, seen, told>>

Answer == {"allow", "deny"}
GaveUp == {"timeout", "cancelled"}

TypeOK ==
    /\ pc \in [Review -> {"idle", "waiting", "timeout", "cancelled", "receive", "done"}]
    /\ pending \in SUBSET Review
    /\ chan \in [Review -> {"empty"} \cup Answer]
    /\ fired \in SUBSET Review
    /\ gone \in SUBSET Review
    /\ result \in [Review -> {"none"} \cup Answer \cup GaveUp]
    /\ seen \in [Operator -> SUBSET Review]
    /\ told \in [Operator -> SUBSET (Review \X Answer)]

Init ==
    /\ pc = [q \in Review |-> "idle"]
    /\ pending = {}
    /\ chan = [q \in Review |-> "empty"]
    /\ fired = {}
    /\ gone = {}
    /\ result = [q \in Review |-> "none"]
    /\ seen = [o \in Operator |-> {}]
    /\ told = [o \in Operator |-> {}]

-----------------------------------------------------------------------------
(* Decide. *)

(* A fresh id and channel enter the map; the caller parks in the select. *)
Register(q) ==
    /\ pc[q] = "idle"
    /\ pc' = [pc EXCEPT ![q] = "waiting"]
    /\ pending' = pending \cup {q}
    /\ UNCHANGED <<chan, fired, gone, result, seen, told>>

(* The timer is armed only for a positive timeout. *)
TimerFires(q) ==
    /\ q \in Timed
    /\ pc[q] = "waiting"
    /\ q \notin fired
    /\ fired' = fired \cup {q}
    /\ UNCHANGED <<pc, pending, chan, gone, result, seen, told>>

(* The client hangs up, at any point of the call. *)
ClientLeaves(q) ==
    /\ pc[q] \in {"waiting", "timeout"}
    /\ q \notin gone
    /\ gone' = gone \cup {q}
    /\ UNCHANGED <<pc, pending, chan, fired, result, seen, told>>

Return(q, d) ==
    /\ pc' = [pc EXCEPT ![q] = "done"]
    /\ result' = [result EXCEPT ![q] = d]

(* The select takes the decision; claim's receive after losing is the same. *)
Receive(q) ==
    /\ pc[q] \in {"waiting", "receive"}
    /\ chan[q] # "empty"
    /\ Return(q, chan[q])
    /\ chan' = [chan EXCEPT ![q] = "empty"]
    /\ UNCHANGED <<pending, fired, gone, seen, told>>

(* Mutant: a select without its timer case. *)
SelectWithoutTimer(q, why) ==
    /\ pc[q] = "waiting" /\ why = "cancelled"
    /\ q \in gone
    /\ pc' = [pc EXCEPT ![q] = why]
    /\ UNCHANGED <<pending, chan, fired, gone, result, seen, told>>

(* Mutant: a select without its context case. *)
SelectWithoutContext(q, why) ==
    /\ pc[q] = "waiting" /\ why = "timeout"
    /\ q \in fired
    /\ pc' = [pc EXCEPT ![q] = why]
    /\ UNCHANGED <<pending, chan, fired, gone, result, seen, told>>

(* The select takes the timer or the context; claim is still to lock. *)
SelectGivesUp(q, why) ==
    /\ pc[q] = "waiting"
    /\ q \in IF why = "timeout" THEN fired ELSE gone
    /\ pc' = [pc EXCEPT ![q] = why]
    /\ UNCHANGED <<pending, chan, fired, gone, result, seen, told>>

(* Mutant: claim gives up without looking whether an operator was first. *)
ClaimUnchecked(q) ==
    /\ pc[q] \in GaveUp
    /\ pending' = pending \ {q}
    /\ Return(q, pc[q])
    /\ UNCHANGED <<chan, fired, gone, seen, told>>

(* claim: take the entry off the queue, or find an operator already has and *)
(* go on to receive that decision.                                          *)
Claim(q) ==
    /\ pc[q] \in GaveUp
    /\ pending' = pending \ {q}
    /\ IF q \in pending
       THEN Return(q, pc[q])
       ELSE pc' = [pc EXCEPT ![q] = "receive"] /\ UNCHANGED result
    /\ UNCHANGED <<chan, fired, gone, seen, told>>

-----------------------------------------------------------------------------
(* The review API. *)

(* GET /reviews *)
ListPending(o) ==
    /\ seen' = [seen EXCEPT ![o] = @ \cup pending]
    /\ UNCHANGED <<pc, pending, chan, fired, gone, result, told>>

(* Mutant: resolve takes the entry and does not send under the same lock. *)
ResolveWithoutSend(o, q, d) ==
    /\ q \in seen[o]
    /\ q \in pending
    /\ pending' = pending \ {q}
    /\ told' = [told EXCEPT ![o] = @ \cup {<<q, d>>}]
    /\ UNCHANGED <<pc, chan, fired, gone, result, seen>>

(* Mutant: resolve leaves the entry for the next operator. *)
ResolveWithoutDelete(o, q, d) ==
    /\ q \in seen[o]
    /\ q \in pending
    /\ chan' = [chan EXCEPT ![q] = d]
    /\ told' = [told EXCEPT ![o] = @ \cup {<<q, d>>}]
    /\ UNCHANGED <<pc, pending, fired, gone, result, seen>>

(* Approve or Deny: resolve removes the entry and sends under one hold of the *)
(* lock, and answers true; an entry that is gone answers false (404).         *)
Resolve(o, q, d) ==
    /\ q \in seen[o]
    /\ q \in pending
    /\ pending' = pending \ {q}
    /\ chan' = [chan EXCEPT ![q] = d]
    /\ told' = [told EXCEPT ![o] = @ \cup {<<q, d>>}]
    /\ UNCHANGED <<pc, fired, gone, result, seen>>

Next ==
    \/ \E q \in Review :
        \/ Register(q)
        \/ TimerFires(q)
        \/ ClientLeaves(q)
        \/ Receive(q)
        \/ \E why \in GaveUp : SelectGivesUp(q, why)
        \/ Claim(q)
    \/ \E o \in Operator :
        \/ ListPending(o)
        \/ \E q \in Review, d \in Answer : Resolve(o, q, d)

(* The goroutine parked in Decide runs when it can, and its timer fires. *)
Fairness ==
    \A q \in Review :
        /\ WF_vars(TimerFires(q))
        /\ WF_vars(Receive(q) \/ Claim(q) \/ \E why \in GaveUp : SelectGivesUp(q, why))

Spec == Init /\ [][Next]_vars /\ Fairness

-----------------------------------------------------------------------------
(* Properties. *)

(* "An operator who is told "approved" has approved the decision the requester *)
(* actually received": no two answers to one review are acknowledged, and when *)
(* Decide has returned, an answer was acknowledged exactly if it is the one    *)
(* Decide returned - however the timeout, the hang-up and other operators raced *)
(* it.                                                                         *)
ToldIsTrue ==
    \A q \in Review :
        /\ \A o1, o2 \in Operator, d1, d2 \in Answer :
               <<q, d1>> \in told[o1] /\ <<q, d2>> \in told[o2] => o1 = o2 /\ d1 = d2
        /\ pc[q] = "done" =>
               \A d \in Answer : result[q] = d <=> \E o \in Operator : <<q, d>> \in told[o]

(* claim's receive "cannot block": a waiter that lost the entry finds the      *)
(* winner's decision already in its channel, and nobody sends on a full one.   *)
LoserNeverBlocks ==
    \A q \in Review :
        /\ pc[q] = "receive" => chan[q] # "empty"
        /\ q \in pending => chan[q] = "empty" /\ pc[q] \in {"waiting"} \cup GaveUp

(* Review as the operators and the requesters see it. *)
Queue == INSTANCE ReviewQueue WITH
    verdict <- [q \in Review |->
        IF pc[q] = "idle" THEN "unasked"
        ELSE IF q \in pending THEN "open"
        ELSE IF pc[q] = "done" THEN result[q] ELSE chan[q]],
    credited <- told

(* Every step of the lock-protected queue is a step of the promise. *)
ImplementsReviewQueue == Queue!Spec

(* With a timeout configured, a request held for review is always answered:    *)
(* by an operator, by the timer, or because its client left.                   *)
HeldIsAnswered == \A q \in Timed : pc[q] = "waiting" ~> pc[q] = "done"

(* A client that left frees its review even when no timeout is configured.     *)
LeavingFreesReview == \A q \in Review : (q \in gone) ~> (q \notin pending /\ pc[q] = "done")
=============================================================================
