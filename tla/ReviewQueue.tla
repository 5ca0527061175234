----------------------------- MODULE ReviewQueue -----------------------------
(***************************************************************************)
(* What human review promises, whoever implements it: every review is      *)
(* settled at most once, by one operator or by the requester giving up,    *)
(* and the operators that were told they settled it are exactly the one    *)
(* whose answer stands.                                                    *)
(***************************************************************************)
CONSTANTS
    Review,    \* reviews, one per action held for approval
    Operator

VARIABLES
    verdict,   \* verdict[q]: where review q stands
    credited   \* credited[o]: the <<review, answer>> pairs o was told it settled

Answer == {"allow", "deny"}
GaveUp == {"timeout", "cancelled"}
Verdict == {"unasked", "open"} \cup Answer \cup GaveUp

vars == <<verdict, credited>>

Init ==
    /\ verdict = [q \in Review |-> "unasked"]
    /\ credited = [o \in Operator |-> {}]

Ask(q) ==
    /\ verdict[q] = "unasked"
    /\ verdict' = [verdict EXCEPT ![q] = "open"]
    /\ UNCHANGED credited

Settle(o, q, d) ==
    /\ verdict[q] = "open"
    /\ verdict' = [verdict EXCEPT ![q] = d]
    /\ credited' = [credited EXCEPT ![o] = @ \cup {<<q, d>>}]

GiveUp(q, why) ==
    /\ verdict[q] = "open"
    /\ verdict' = [verdict EXCEPT ![q] = why]
    /\ UNCHANGED credited

Next ==
    \E q \in Review :
        \/ Ask(q)
        \/ \E o \in Operator, d \in Answer : Settle(o, q, d)
        \/ \E why \in GaveUp : GiveUp(q, why)

Spec == Init /\ [][Next]_vars
=============================================================================
