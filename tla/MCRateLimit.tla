----------------------------- MODULE MCRateLimit -----------------------------
(* The limiter for TLC: two clients, one of them in a bucket that refills at  *)
(* half the rate of the others.  Call slots are interchangeable.              *)
EXTENDS RateLimit, TLC

CONSTANTS c1, c2, b1, b2

Hash == [c \in Client |-> IF c = c2 THEN b2 ELSE b1]
Rates == [b \in AnyBucket |-> IF b = b2 THEN 1 ELSE 2]
Bursts == [b \in AnyBucket |-> 1]

Interchangeable == Permutations(Call)
=============================================================================
