---------------------------- MODULE MCControlPlane ----------------------------
(* The control plane for TLC: principals are interchangeable. *)
EXTENDS ControlPlane, TLC

Principals == Permutations(Principal)
=============================================================================
