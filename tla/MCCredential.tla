---------------------------- MODULE MCCredential ----------------------------
EXTENDS Credential, TLC

CONSTANTS p1, p2, j1, j2, j3, j4, anIssuer, another, c1, c2

(* p1 has a credential that is running out and its successor; one of p2's is *)
(* from an issuer that is not trusted.                                       *)
MCDocument ==
    j1 :> [issuer |-> anIssuer, subject |-> p1, issued |-> 1, expires |-> 4]
    @@ j2 :> [issuer |-> anIssuer, subject |-> p1, issued |-> 2, expires |-> 6]
    @@ j3 :> [issuer |-> anIssuer, subject |-> p2, issued |-> 1, expires |-> 8]
    @@ j4 :> [issuer |-> another, subject |-> p2, issued |-> 1, expires |-> 8]

(* The calls are interchangeable. *)
Calls == Permutations({c1, c2})
=============================================================================
