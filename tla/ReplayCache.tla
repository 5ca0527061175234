----------------------------- MODULE ReplayCache -----------------------------
(***************************************************************************)
(* internal/pop: the verifier of request-bound proofs and its cache of     *)
(* spent proof ids.  Check tests a proof's freshness against a time it     *)
(* reads before it takes the cache's lock, and passes that same time to    *)
(* Use; concurrent checks therefore reach the cache in any order.          *)
(***************************************************************************)
EXTENDS Integers, FiniteSets

CONSTANTS
    Jti,         \* proofs, by id; a proof can be presented any number of times
    Iat,         \* the creation times proofs may carry
    Call,        \* concurrent calls of Verifier.Check
    MaxAge,      \* Verifier.maxAge
    Skew,        \* Verifier.skew
    MaxEntries,  \* ReplayCache.max
    MaxDelay,    \* how long a check may be held up between its clock and the lock
    MaxClock     \* bound: the clock stops here

ASSUME ConstantsAssumption ==
    /\ Iat \subseteq Nat
    /\ MaxAge \in Nat \ {0}
    /\ Skew \in Nat
    /\ MaxEntries \in Nat
    /\ MaxDelay \in Nat
    /\ MaxClock \in Nat

VARIABLES
    clock,
    iat,       \* iat[j]: when proof j says it was made
    checks,    \* calls of Check past their freshness test: the proof and the time read
    cur, prev, \* the two generations
    rotated,   \* when cur was started; 0 is the zero time
    uses       \* uses[j]: how often j was accepted (history)

vars == <<clock, iat, checks, cur, prev, rotated, uses>>

Check == [by : Call, jti : Jti, now : Nat]

(* Mutant: a window that forgets proofs may be dated ahead. *)
WindowWithoutSkew == MaxAge

(* How long the cache has to remember a proof. *)
Window == MaxAge + Skew

TypeOK ==
    /\ clock \in Nat
    /\ iat \in [Jti -> Nat]
    /\ checks \in SUBSET Check
    /\ cur \in SUBSET Jti
    /\ prev \in SUBSET Jti
    /\ rotated \in Nat
    /\ uses \in [Jti -> Nat]

Init ==
    /\ clock = 1
    /\ iat \in [Jti -> Iat]
    /\ checks = {}
    /\ cur = {} /\ prev = {}
    /\ rotated = 0
    /\ uses = [j \in Jti |-> 0]

(* Not from the future beyond the skew, not older than MaxAge, and dated at all. *)
Fresh(j, now) == iat[j] # 0 /\ iat[j] <= now + Skew /\ now - iat[j] <= MaxAge

(* Check, up to its call of Use: the signature and the binding hold, the proof *)
(* is fresh at the time just read.                                             *)
Present(c, j) ==
    /\ \A k \in checks : k.by # c
    /\ Fresh(j, clock)
    /\ checks' = checks \cup {[by |-> c, jti |-> j, now |-> clock]}
    /\ UNCHANGED <<clock, iat, cur, prev, rotated, uses>>

(* Mutant: one generation only. *)
RotateForgets(now) ==
    IF rotated = 0 THEN [cur |-> cur, prev |-> prev, rotated |-> now]
    ELSE IF now - rotated < Window THEN [cur |-> cur, prev |-> prev, rotated |-> rotated]
    ELSE [cur |-> {}, prev |-> {}, rotated |-> now]

(* rotate: the generations and the start of the current one as a use at now *)
(* leaves them.                                                             *)
Rotate(now) ==
    IF rotated = 0 THEN [cur |-> cur, prev |-> prev, rotated |-> now]
    ELSE IF now - rotated < Window THEN [cur |-> cur, prev |-> prev, rotated |-> rotated]
    ELSE [cur     |-> {},
          prev    |-> IF now - rotated >= 2 * Window THEN {} ELSE cur,
          rotated |-> now]

Room(g) == Cardinality(g.cur) + Cardinality(g.prev) < MaxEntries

(* The second half of Check: Use, under the cache's lock.  The proof is spent, *)
(* or refused as replayed, or refused because the cache is full.               *)
Use(k) ==
    LET j == k.jti
        g == Rotate(k.now)
        ok == j \notin g.cur \cup g.prev /\ Room(g)
    IN  /\ checks' = checks \ {k}
        /\ cur' = IF ok THEN g.cur \cup {j} ELSE g.cur
        /\ prev' = g.prev
        /\ rotated' = g.rotated
        /\ uses' = IF ok THEN [uses EXCEPT ![j] = @ + 1] ELSE uses
        /\ UNCHANGED <<clock, iat>>

Tick ==
    /\ clock < MaxClock
    /\ \A k \in checks : clock < k.now + MaxDelay
    /\ clock' = clock + 1
    /\ UNCHANGED <<iat, checks, cur, prev, rotated, uses>>

Next ==
    \/ Tick
    \/ \E c \in Call, j \in Jti : Present(c, j)
    \/ \E k \in checks : Use(k)

Spec == Init /\ [][Next]_vars

-----------------------------------------------------------------------------
(* Properties. *)

(* "The SECOND presentation of one is refused": no proof is accepted twice. *)
AcceptedOnce == \A j \in Jti : uses[j] <= 1

(* What stands between a spent proof and a second acceptance: the generations   *)
(* outlive every proof they remember, so Use accepts one again only for a call  *)
(* that read the clock before the last rotation, that is, one a later call      *)
(* overtook between its freshness test and the cache's lock.                    *)
ReplayNeedsOvertaking ==
    [][\A k \in checks \ checks' :
         uses[k.jti] > 0 /\ uses'[k.jti] # uses[k.jti] => k.now < rotated]_vars

(* Why: a spent proof is still in a generation, or it is too old for every call *)
(* that read the clock after the last rotation; and what a generation holds is  *)
(* too old by the time that generation is dropped.  A check waiting for the     *)
(* lock carries a proof that was fresh when it read the clock.                  *)
SpentIsRemembered ==
    /\ \A j \in Jti : uses[j] > 0 => j \in cur \cup prev \/ iat[j] + MaxAge < rotated
    /\ \A j \in cur : iat[j] + MaxAge < rotated + 2 * Window
    /\ \A j \in prev : iat[j] + MaxAge < rotated + Window
    /\ rotated = 0 => cur \cup prev = {}
    /\ 0 < clock /\ rotated <= clock
    /\ \A k \in checks :
           /\ Fresh(k.jti, k.now)
           /\ 0 < k.now /\ k.now <= clock /\ clock <= k.now + MaxDelay
=============================================================================
