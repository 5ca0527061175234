---------------------------- MODULE MCEnrollment ----------------------------
(* Enrollment for TLC: nonces and keys are interchangeable. *)
EXTENDS Enrollment, TLC

Interchangeable == Permutations(Nonce) \cup Permutations(Key)
=============================================================================
