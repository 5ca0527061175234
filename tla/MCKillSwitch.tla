---------------------------- MODULE MCKillSwitch ----------------------------
(* One replica, two goroutines writing through its store, one cascade. *)
EXTENDS KillSwitch

CONSTANTS r1, w1, w2, principal, agent

HomeOfOne == [w \in Writer |-> r1]
Cascade == {{principal, agent}}
=============================================================================
