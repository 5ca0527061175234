------------------------------ MODULE RateLimit ------------------------------
(***************************************************************************)
(* The enrollment limiter (workload.Limiter) in front of the nonce table   *)
(* it protects.  A handler reads the time, then takes the limiter's lock   *)
(* with it, so calls reach the buckets in any order; a call to the nonce   *)
(* leg that is let through adds to the table under another lock.           *)
(*                                                                         *)
(* Tokens are counted in parts, One to the token, so that a refill over a  *)
(* whole number of clock units is a whole number of parts.                 *)
(***************************************************************************)
EXTENDS Integers, FiniteSets

CONSTANTS
    Client,       \* client addresses
    Bucket,       \* the fixed table of per-client buckets
    bucketIndex,  \* bucketIndex[c]: the bucket c hashes to
    Global,       \* the bucket for everyone together
    One,          \* parts in a token
    Rate,         \* Rate[b]: parts per clock unit
    Burst,        \* Burst[b]: tokens a full bucket holds
    NonceTTL,
    MaxNonces,    \* maxOutstandingNonces
    Call,         \* concurrent calls of the handlers
    MaxDelay,     \* how long a call may take from reading the time to its last lock
    MaxRetunes,   \* bound: how often the operator sets the budget
    MaxClock      \* bound: the clock stops here

AnyBucket == Bucket \cup {Global}

ASSUME LimiterAssumption ==
    /\ bucketIndex \in [Client -> Bucket]
    /\ Global \notin Bucket
    /\ One \in Nat \ {0}
    /\ Rate \in [AnyBucket -> Nat]
    /\ Burst \in [AnyBucket -> Nat]
    /\ NonceTTL \in Nat \ {0}
    /\ MaxNonces \in Nat
    /\ MaxDelay \in Nat
    /\ MaxRetunes \in Nat
    /\ MaxClock \in Nat

VARIABLES
    clock,
    parts,    \* parts[b]: what bucket b holds
    last,     \* last[b]: when it was last topped up; 0 is the zero time
    calls,    \* calls between reading the time and their last lock
    nonces,   \* outstanding nonces: the time each was drawn, and a serial
    retunes,  \* how often the budget was set (history)
    served    \* served[b]: calls on b let through since the budget was set (history)

vars == <<clock, parts, last, calls, nonces, retunes, served>>

(* A call read the time now on its way to the limiter, and left it, if it did, at *)
(* since; the time Nonce works with is read between then and its lock.            *)
Record == [by : Call, client : Client, now : Nat, since : Nat, at : {"allow", "nonce"}]

TypeOK ==
    /\ clock \in Nat
    /\ parts \in [AnyBucket -> Nat]
    /\ last \in [AnyBucket -> Nat]
    /\ calls \in SUBSET Record
    /\ nonces \in SUBSET (Nat \X Nat)
    /\ retunes \in Nat
    /\ served \in [AnyBucket -> Nat]

Init ==
    /\ clock = 1
    /\ parts = [b \in AnyBucket |-> 0]
    /\ last = [b \in AnyBucket |-> 0]
    /\ calls = {}
    /\ nonces = {}
    /\ retunes = 0
    /\ served = [b \in AnyBucket |-> 0]

-----------------------------------------------------------------------------

Least(a, b) == IF a <= b THEN a ELSE b

(* take: the bucket topped up to now; a bucket never used is full. *)
Take(b, now) ==
    IF last[b] = 0 THEN Burst[b] * One
    ELSE IF now > last[b] THEN Least(Burst[b] * One, parts[b] + (now - last[b]) * Rate[b])
    ELSE parts[b]

(* Mutant: the time of the last refill is not kept. *)
StampStays(b, now) == IF last[b] = 0 THEN now ELSE last[b]

Stamp(b, now) == IF last[b] = 0 \/ now > last[b] THEN now ELSE last[b]

Arrive(i, c) ==
    /\ \A k \in calls : k.by # i
    /\ calls' = calls \cup
           {[by |-> i, client |-> c, now |-> clock, since |-> clock, at |-> "allow"]}
    /\ UNCHANGED <<clock, parts, last, nonces, retunes, served>>

(* Mutant: a bucket is charged before the other one is asked. *)
CostsFirst(b, ok) == b = Global \/ ok

(* A refused call costs neither bucket a token. *)
Costs(b, ok) == ok

GoesOn(k) == [k EXCEPT !.at = "nonce", !.since = clock]

(* Allow: both buckets refill, and both pay or neither does.  A refused call is *)
(* answered 429; one to the enroll leg that is let through leaves the limiter's *)
(* world, one to the nonce leg goes on to draw a nonce.                         *)
Allow(k, leg) ==
    LET mine == {bucketIndex[k.client], Global}
        held(b) == Take(b, k.now)
        ok == \A b \in mine : held(b) >= One
        next == IF ok /\ leg = "nonce" THEN {GoesOn(k)} ELSE {}
    IN  /\ k.at = "allow"
        /\ parts' = [b \in AnyBucket |->
               IF b \notin mine THEN parts[b]
               ELSE IF Costs(b, ok) THEN held(b) - One ELSE held(b)]
        /\ last' = [b \in AnyBucket |-> IF b \in mine THEN Stamp(b, k.now) ELSE last[b]]
        /\ calls' = (calls \ {k}) \cup next
        /\ served' = [b \in AnyBucket |-> IF ok /\ b \in mine THEN served[b] + 1 ELSE served[b]]
        /\ UNCHANGED <<clock, nonces, retunes>>

(* What a sweep at time now leaves of the table: <<drawn, serial>> pairs. *)
Swept(now) == {n \in nonces : now < n[1] + NonceTTL}

(* Nonce: sweep, and draw one unless the table is full. *)
DrawNonce(k, now) ==
    LET swept == Swept(now)
    IN  /\ k.at = "nonce"
        /\ calls' = calls \ {k}
        /\ nonces' = IF Cardinality(swept) >= MaxNonces THEN swept
                     ELSE swept \cup {<<now, Cardinality({n \in swept : n[1] = now})>>}
        /\ UNCHANGED <<clock, parts, last, retunes, served>>

(* SetLimit, to the same budget: every bucket is as good as new. *)
SetLimit ==
    /\ retunes < MaxRetunes
    /\ retunes' = retunes + 1
    /\ parts' = [b \in AnyBucket |-> 0]
    /\ last' = [b \in AnyBucket |-> 0]
    /\ served' = [b \in AnyBucket |-> 0]
    /\ UNCHANGED <<clock, calls, nonces>>

Tick ==
    /\ clock < MaxClock
    /\ \A k \in calls : clock < k.now + MaxDelay
    /\ clock' = clock + 1
    /\ UNCHANGED <<parts, last, calls, nonces, retunes, served>>

Next ==
    \/ Tick
    \/ SetLimit
    \/ \E i \in Call, c \in Client : Arrive(i, c)
    \/ \E k \in calls, leg \in {"nonce", "enroll"} : Allow(k, leg)
    \/ \E k \in calls : \E now \in k.since .. clock : DrawNonce(k, now)

Spec == Init /\ [][Next]_vars

-----------------------------------------------------------------------------
(* Properties. *)

Outstanding == Cardinality(Swept(clock))

(* The bound that holds adds the burst, once for every time the budget was set, *)
(* and what refills while calls are under way.  The delay counts once for every *)
(* time the budget was set, too: a call that read the time before SetLimit may  *)
(* be the first on the new bucket, and time the old bucket was already refilled *)
(* for is then refilled for again.                                              *)
BurstAndRateBoundNonces ==
    Outstanding * One <=
        (retunes + 1) * Burst[Global] * One
            + Rate[Global] * (NonceTTL - 1 + (retunes + 1) * MaxDelay)

(* "A request refused by one does not silently cost a token in the other": a    *)
(* bucket is short of its burst by no more than the calls that were let through *)
(* on it, however many were refused.                                            *)
RefusalIsFree ==
    \A b \in AnyBucket : last[b] # 0 => parts[b] + served[b] * One >= Burst[b] * One
=============================================================================
