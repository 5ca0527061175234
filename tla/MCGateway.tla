------------------------------ MODULE MCGateway ------------------------------
(* Instances of Gateway: one replica, one request, a principal and its agent. *)
EXTENDS Gateway

CONSTANTS r1, q1, principal, agent

NoWriters == [w \in {} |-> r1]
OnR1 == [q \in Request |-> r1]
ActsFor == [q \in Request |-> principal]
Acting == [q \in Request |-> agent]
Cascade == {{agent}, {principal, agent}}

(* Two held actions in a row, one allowed at once, and a refusal after an allow. *)
Plans == {<<"review", "review">>, <<"allow">>, <<"allow", "outside">>}

(* Nothing about a request changes once it is answered or lost and no resource *)
(* server honours its passport.                                                *)
Unfinished == \E q \in Request : pc[q] \notin {"answered", "lost"} \/ Accepts(q)
=============================================================================
