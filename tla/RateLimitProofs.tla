--------------------------- MODULE RateLimitProofs ---------------------------
(***************************************************************************)
(* Proofs about RateLimit, for every set of clients, buckets and calls,    *)
(* every budget, delay and number of retunes.                              *)
(***************************************************************************)
EXTENDS RateLimit, FiniteSetTheorems, TLAPS

(* The budget's numbers, bucket by bucket. *)
LEMMA BudgetType ==
    ASSUME NEW b \in AnyBucket
    PROVE  /\ One \in Nat /\ One > 0
           /\ Rate[b] \in Nat /\ Burst[b] \in Nat
           /\ Burst[b] * One \in Nat
  BY LimiterAssumption

LEMMA BucketsType ==
    /\ Global \in AnyBucket
    /\ \A c \in Client : bucketIndex[c] \in AnyBucket
  BY LimiterAssumption DEF AnyBucket

LEMMA ProductType == \A m, n \in Nat : m * n \in Nat
  OBVIOUS

(* What take leaves in a bucket is between what it held and its burst.      *)
LEMMA TakeRange ==
    ASSUME TypeOK, NEW b \in AnyBucket, NEW now \in Nat
    PROVE  /\ Take(b, now) \in Nat
           /\ last[b] = 0 => Take(b, now) = Burst[b] * One
           /\ last[b] # 0 => \/ Take(b, now) = Burst[b] * One
                             \/ Take(b, now) >= parts[b]
           /\ last[b] # 0 /\ now > last[b] =>
                  /\ Take(b, now) <= Burst[b] * One
                  /\ Take(b, now) <= parts[b] + (now - last[b]) * Rate[b]
           /\ last[b] # 0 /\ now <= last[b] => Take(b, now) = parts[b]
<1> DEFINE full == Burst[b] * One
           gain == (now - last[b]) * Rate[b]
<1>1. full \in Nat /\ parts[b] \in Nat /\ last[b] \in Nat /\ Rate[b] \in Nat
  BY BudgetType DEF TypeOK
<1>2. now > last[b] => gain \in Nat
  BY <1>1
<1>3. Take(b, now) = IF last[b] = 0 THEN full
                     ELSE IF now > last[b] THEN Least(full, parts[b] + gain)
                     ELSE parts[b]
  BY DEF Take
<1> HIDE DEF full, gain
<1>4. /\ Take(b, now) \in Nat
      /\ last[b] = 0 => Take(b, now) = full
      /\ last[b] # 0 => Take(b, now) = full \/ Take(b, now) >= parts[b]
      /\ last[b] # 0 /\ now > last[b] =>
             Take(b, now) <= full /\ Take(b, now) <= parts[b] + gain
      /\ last[b] # 0 /\ now <= last[b] => Take(b, now) = parts[b]
  BY <1>1, <1>2, <1>3 DEF Least
<1> QED BY <1>4 DEF full, gain

(* One call of Allow, bucket by bucket: the two buckets refill, and both pay *)
(* one token or neither does.                                                *)
LEMMA AllowStep ==
    ASSUME TypeOK, NEW k \in calls, NEW leg \in {"nonce", "enroll"}, Allow(k, leg)
    PROVE  \E ok \in BOOLEAN :
        /\ \A b \in AnyBucket :
               \/ /\ parts'[b] = parts[b] /\ last'[b] = last[b] /\ served'[b] = served[b]
                  /\ b # Global
               \/ /\ ok => /\ Take(b, k.now) >= One
                           /\ parts'[b] = Take(b, k.now) - One
                           /\ served'[b] = served[b] + 1
                  /\ ~ok => /\ parts'[b] = Take(b, k.now)
                            /\ served'[b] = served[b]
                  /\ last'[b] = Stamp(b, k.now)
        /\ calls' \in {calls \ {k}, (calls \ {k}) \cup {GoesOn(k)}}
        /\ ~ok => calls' = calls \ {k}
        /\ parts' = [b \in AnyBucket |-> parts'[b]]
        /\ last' = [b \in AnyBucket |-> last'[b]]
        /\ served' = [b \in AnyBucket |-> served'[b]]
        /\ UNCHANGED <<clock, nonces, retunes>>
<1> DEFINE mine == {bucketIndex[k.client], Global}
           ok == \A b \in mine : Take(b, k.now) >= One
           next == IF ok /\ leg = "nonce" THEN {GoesOn(k)} ELSE {}
<1>1. /\ parts' = [b \in AnyBucket |->
             IF b \notin mine THEN parts[b]
             ELSE IF ok THEN Take(b, k.now) - One ELSE Take(b, k.now)]
      /\ last' = [b \in AnyBucket |-> IF b \in mine THEN Stamp(b, k.now) ELSE last[b]]
      /\ calls' = (calls \ {k}) \cup next
      /\ served' = [b \in AnyBucket |-> IF ok /\ b \in mine THEN served[b] + 1 ELSE served[b]]
      /\ UNCHANGED <<clock, nonces, retunes>>
  BY DEF Allow, Costs
<1>2. calls' \in {calls \ {k}, (calls \ {k}) \cup {GoesOn(k)}}
      /\ (~ok => calls' = calls \ {k})
  BY <1>1
<1>3. ok => \A b \in mine : Take(b, k.now) >= One
  OBVIOUS
<1>4. Global \in mine
  OBVIOUS
<1> HIDE DEF mine, next
<1>5. ok \in BOOLEAN
  OBVIOUS
<1> HIDE DEF ok
<1>6. \A b \in AnyBucket :
         \/ /\ parts'[b] = parts[b] /\ last'[b] = last[b] /\ served'[b] = served[b]
            /\ b # Global
         \/ /\ ok => /\ Take(b, k.now) >= One
                     /\ parts'[b] = Take(b, k.now) - One
                     /\ served'[b] = served[b] + 1
            /\ ~ok => /\ parts'[b] = Take(b, k.now)
                      /\ served'[b] = served[b]
            /\ last'[b] = Stamp(b, k.now)
  <2> TAKE b \in AnyBucket
  <2>1. CASE b \in mine
    BY <1>1, <1>3, <2>1
  <2>2. CASE b \notin mine
    BY <1>1, <1>4, <2>2
  <2> QED BY <2>1, <2>2
<1>7. /\ parts' = [b \in AnyBucket |-> parts'[b]]
      /\ last' = [b \in AnyBucket |-> last'[b]]
      /\ served' = [b \in AnyBucket |-> served'[b]]
  BY <1>1
<1> QED BY <1>1, <1>2, <1>5, <1>6, <1>7

-----------------------------------------------------------------------------
(* Types, and what a refusal costs. *)

LEMMA InitType == Init => TypeOK
  BY DEF Init, TypeOK

LEMMA CallType ==
    ASSUME TypeOK, NEW k \in calls
    PROVE  k \in Record /\ k.now \in Nat /\ GoesOn(k) \in Record
  BY DEF TypeOK, Record, GoesOn

LEMMA AllowType ==
    ASSUME TypeOK, NEW k \in calls, NEW leg \in {"nonce", "enroll"}, Allow(k, leg)
    PROVE  TypeOK'
<1>1. PICK ok \in BOOLEAN :
        /\ \A b \in AnyBucket :
               \/ parts'[b] = parts[b] /\ last'[b] = last[b] /\ served'[b] = served[b]
               \/ /\ ok => /\ Take(b, k.now) >= One
                           /\ parts'[b] = Take(b, k.now) - One
                           /\ served'[b] = served[b] + 1
                  /\ ~ok => parts'[b] = Take(b, k.now) /\ served'[b] = served[b]
                  /\ last'[b] = Stamp(b, k.now)
        /\ calls' \in {calls \ {k}, (calls \ {k}) \cup {GoesOn(k)}}
        /\ parts' = [b \in AnyBucket |-> parts'[b]]
        /\ last' = [b \in AnyBucket |-> last'[b]]
        /\ served' = [b \in AnyBucket |-> served'[b]]
        /\ UNCHANGED <<clock, nonces, retunes>>
  BY AllowStep
<1>2. \A b \in AnyBucket : parts'[b] \in Nat /\ last'[b] \in Nat /\ served'[b] \in Nat
  <2> TAKE b \in AnyBucket
  <2>1. Take(b, k.now) \in Nat /\ k.now \in Nat /\ One \in Nat
    BY CallType, TakeRange, BudgetType
  <2>2. parts[b] \in Nat /\ last[b] \in Nat /\ served[b] \in Nat
    BY DEF TypeOK
  <2>3. Stamp(b, k.now) \in Nat
    BY <2>1, <2>2 DEF Stamp
  <2> QED BY <1>1, <2>1, <2>2, <2>3
<1>3. calls' \in SUBSET Record
  BY <1>1, CallType DEF TypeOK
<1>4. parts' \in [AnyBucket -> Nat] /\ last' \in [AnyBucket -> Nat] /\ served' \in [AnyBucket -> Nat]
  BY <1>1, <1>2
<1> QED BY <1>1, <1>3, <1>4 DEF TypeOK

(* The time a nonce is drawn at is read before the lock is held. *)
LEMMA DrawnType ==
    ASSUME TypeOK, NEW k \in calls, NEW now \in k.since .. clock
    PROVE  now \in Nat /\ now <= clock
<1>1. k.since \in Nat /\ clock \in Nat
  BY DEF TypeOK, Record
<1> QED BY <1>1

(* A nonce's serial is a number because the table is finite. *)
LEMMA SerialType ==
    ASSUME IsFiniteSet(nonces), NEW now
    PROVE  /\ IsFiniteSet(Swept(now))
           /\ Cardinality({n \in Swept(now) : n[1] = now}) \in Nat
<1>1. Swept(now) \subseteq nonces /\ {n \in Swept(now) : n[1] = now} \subseteq nonces
  BY DEF Swept
<1> QED BY <1>1, FS_Subset, FS_CardinalityType

(* The table and the calls under way are finite. *)
Finite == IsFiniteSet(nonces) /\ IsFiniteSet(calls)

LEMMA NextType == TypeOK /\ Finite /\ [Next]_vars => TypeOK' /\ Finite'
<1> SUFFICES ASSUME TypeOK, Finite, [Next]_vars PROVE TypeOK' /\ Finite'
  OBVIOUS
<1>1. CASE Tick
  BY <1>1 DEF Tick, TypeOK, Finite
<1>2. CASE SetLimit
  BY <1>2 DEF SetLimit, TypeOK, Finite
<1>3. ASSUME NEW i \in Call, NEW c \in Client, Arrive(i, c) PROVE TypeOK' /\ Finite'
  <2>1. [by |-> i, client |-> c, now |-> clock, since |-> clock, at |-> "allow"] \in Record
    BY DEF TypeOK, Record
  <2>2. TypeOK'
    BY <1>3, <2>1 DEF Arrive, TypeOK
  <2>3. Finite'
    BY <1>3, FS_AddElement DEF Arrive, Finite
  <2> QED BY <2>2, <2>3
<1>4. ASSUME NEW k \in calls, NEW leg \in {"nonce", "enroll"}, Allow(k, leg)
      PROVE  TypeOK' /\ Finite'
  <2>1. TypeOK'
    BY <1>4, AllowType
  <2>2. IsFiniteSet(calls \ {k})
    BY FS_Subset DEF Finite
  <2>3. UNCHANGED nonces /\ calls' \in {calls \ {k}, (calls \ {k}) \cup {GoesOn(k)}}
    BY <1>4, AllowStep
  <2>4. IsFiniteSet((calls \ {k}) \cup {GoesOn(k)})
    BY <2>2, FS_AddElement
  <2>5. Finite'
    BY <2>2, <2>3, <2>4 DEF Finite
  <2> QED BY <2>1, <2>5
<1>5. ASSUME NEW k \in calls, NEW now \in k.since .. clock, DrawNonce(k, now)
      PROVE  TypeOK' /\ Finite'
  <2> DEFINE new == <<now, Cardinality({n \in Swept(now) : n[1] = now})>>
  <2>1. new \in Nat \X Nat
    BY DrawnType, SerialType DEF Finite
  <2>2. nonces' \in {Swept(now), Swept(now) \cup {new}}
    BY <1>5 DEF DrawNonce
  <2>3. Swept(now) \subseteq nonces
    BY DEF Swept
  <2> HIDE DEF new
  <2>4. TypeOK'
    BY <1>5, <2>1, <2>2, <2>3 DEF DrawNonce, TypeOK
  <2>5. IsFiniteSet(calls \ {k}) /\ IsFiniteSet(Swept(now))
    BY <2>3, FS_Subset DEF Finite
  <2>6. IsFiniteSet(Swept(now) \cup {new})
    BY <2>5, FS_AddElement
  <2>7. calls' = calls \ {k}
    BY <1>5 DEF DrawNonce
  <2>8. Finite'
    BY <2>2, <2>5, <2>6, <2>7 DEF Finite
  <2> QED BY <2>4, <2>8
<1>6. CASE UNCHANGED vars
  BY <1>6 DEF vars, TypeOK, Finite
<1> QED BY <1>1, <1>2, <1>3, <1>4, <1>5, <1>6 DEF Next

LEMMA InitFinite == Init => Finite
  BY FS_EmptySet DEF Init, Finite

(* Every variable keeps its type. *)
THEOREM TypeCorrect == Spec => []TypeOK
  BY InitType, InitFinite, NextType, PTL DEF Spec

LEMMA NextRefusal == TypeOK /\ RefusalIsFree /\ [Next]_vars => RefusalIsFree'
<1> SUFFICES ASSUME TypeOK, RefusalIsFree, [Next]_vars, NEW b \in AnyBucket, last'[b] # 0
             PROVE  parts'[b] + served'[b] * One >= Burst[b] * One
  BY DEF RefusalIsFree
<1>1. CASE UNCHANGED <<parts, last, served>>
  BY <1>1 DEF RefusalIsFree
<1>2. CASE SetLimit
  BY <1>2 DEF SetLimit
<1>3. ASSUME NEW k \in calls, NEW leg \in {"nonce", "enroll"}, Allow(k, leg)
      PROVE  parts'[b] + served'[b] * One >= Burst[b] * One
  <2> DEFINE held == Take(b, k.now)
             full == Burst[b] * One
             paid == served[b] * One
             paidNow == served'[b] * One
  <2>1. PICK ok \in BOOLEAN :
            \/ parts'[b] = parts[b] /\ last'[b] = last[b] /\ served'[b] = served[b]
            \/ /\ ok => /\ held >= One
                        /\ parts'[b] = held - One
                        /\ served'[b] = served[b] + 1
               /\ ~ok => parts'[b] = held /\ served'[b] = served[b]
    BY <1>3, AllowStep
  <2>2. One \in Nat /\ full \in Nat /\ served[b] \in Nat /\ parts[b] \in Nat
    BY BudgetType DEF TypeOK
  <2>3. paid \in Nat
    BY <2>2, ProductType
  <2>4. served'[b] = served[b] + 1 => paidNow = paid + One
    BY <2>2
  <2>5. served'[b] = served[b] => paidNow = paid
    OBVIOUS
  <2>6. last[b] # 0 => parts[b] + paid >= full
    BY DEF RefusalIsFree
  <2>7. /\ held \in Nat
        /\ last[b] = 0 => held = full
        /\ last[b] # 0 => held = full \/ held >= parts[b]
    BY CallType, TakeRange
  <2> HIDE DEF held, full, paid, paidNow
  <2>8. held + paid >= full
    BY <2>2, <2>3, <2>6, <2>7
  <2>9. CASE parts'[b] = parts[b] /\ last'[b] = last[b] /\ served'[b] = served[b]
    <3>1. parts[b] + paid >= full
      BY <2>6, <2>9
    <3> QED BY <3>1, <2>5, <2>9 DEF full, paid, paidNow
  <2>10. CASE held >= One /\ parts'[b] = held - One /\ served'[b] = served[b] + 1
    <3>1. parts'[b] + paidNow >= full
      BY <2>2, <2>3, <2>4, <2>7, <2>8, <2>10
    <3> QED BY <3>1 DEF full, paidNow
  <2>11. CASE parts'[b] = held /\ served'[b] = served[b]
    <3>1. parts'[b] + paidNow >= full
      BY <2>5, <2>8, <2>11
    <3> QED BY <3>1 DEF full, paidNow
  <2> QED BY <2>1, <2>9, <2>10, <2>11
<1>4. CASE UNCHANGED vars
  BY <1>1, <1>4 DEF vars
<1>5. CASE Tick
  BY <1>1, <1>5 DEF Tick
<1>6. CASE \E i \in Call, c \in Client : Arrive(i, c)
  BY <1>1, <1>6 DEF Arrive
<1>7. CASE \E k \in calls : \E now \in k.since .. clock : DrawNonce(k, now)
  BY <1>1, <1>7 DEF DrawNonce
<1> QED BY <1>2, <1>3, <1>4, <1>5, <1>6, <1>7 DEF Next

(* "A request refused by one does not silently cost a token in the other": for  *)
(* every budget, however the calls reach the two buckets, a bucket in use is    *)
(* short of its burst by no more than the calls Allow let through on it.        *)
THEOREM RefusedCallsAreFree == Spec => []RefusalIsFree
<1>1. Init => RefusalIsFree
  BY DEF Init, RefusalIsFree
<1> QED BY <1>1, TypeCorrect, NextRefusal, PTL DEF Spec

-----------------------------------------------------------------------------
(* What the budget admits.  A window of the table opens at time w + MaxDelay:  *)
(* a nonce drawn since then was drawn by a call that read the time at w or     *)
(* later, so calls that did and are still under way count with them.           *)

Kept(w) == {n \in nonces : n[1] >= w + MaxDelay}

Waiting(w) == {k \in calls : k.at = "nonce" /\ k.now >= w}

Admitted(w) == Cardinality(Kept(w)) + Cardinality(Waiting(w))

(* A full global bucket, and what a span of time refills. *)
Full == Burst[Global] * One

Refill(span) == span * Rate[Global]

(* What a number of full buckets, refilled over a span of time, can pay for. *)
Allowance(bursts, span) == bursts * Full + Refill(span)

(* The delays of r retunes, and the time since w. *)
Delays(r) == r * MaxDelay

Since(w, c) == IF c >= w THEN c - w ELSE 0

(* Since a window opened at w, what was admitted (a parts' worth) and the p parts *)
(* the global bucket still holds stay within one burst for every time the budget  *)
(* was set and the time up to the last refill l, MaxDelay of which may have been  *)
(* refilled for again after each of r retunes.  A bucket not refilled since the   *)
(* window opened has admitted nobody; one not used since the last retune leaves   *)
(* what the earlier ones admitted up to the clock c.                              *)
Within(a, p, l, r, c, w) ==
    /\ l # 0 /\ l >= w => a + p <= Allowance(r + 1, Since(w, l) + Delays(r))
    /\ l # 0 /\ l < w => a <= Allowance(r, Delays(r))
    /\ l = 0 /\ r = 0 => a = 0
    /\ l = 0 /\ r > 0 => a <= Allowance(r, Since(w, c) + Delays(r - 1))

Paced(w) == Within(Admitted(w) * One, parts[Global], last[Global], retunes, clock, w)

(* The last refill is past; so is a call's time, and at most MaxDelay old. *)
Timely ==
    /\ clock >= 1
    /\ last[Global] <= clock
    /\ \A k \in calls : 1 <= k.now /\ k.now <= clock /\ clock <= k.now + MaxDelay

IInv == TypeOK /\ Finite /\ Timely /\ \A w \in Int : Paced(w)

LEMMA DelayType == MaxDelay \in Nat /\ NonceTTL \in Nat /\ NonceTTL > 0
  BY LimiterAssumption

LEMMA FullType == Full \in Nat
  BY BudgetType, BucketsType DEF Full

LEMMA RefillType ==
    ASSUME NEW u \in Nat
    PROVE  /\ Refill(u) \in Nat
           /\ \A v \in Nat : Refill(u + v) = Refill(u) + Refill(v)
           /\ \A v \in Nat : u <= v => Refill(u) <= Refill(v)
<1>1. Rate[Global] \in Nat
  BY BudgetType, BucketsType
<1> QED BY <1>1 DEF Refill

LEMMA AllowanceType ==
    ASSUME NEW m \in Nat, NEW u \in Nat
    PROVE  Allowance(m, u) \in Nat
<1>1. m * Full \in Nat
  BY FullType, ProductType
<1>2. Refill(u) \in Nat
  BY RefillType
<1> QED BY <1>1, <1>2 DEF Allowance

(* More bursts, or a longer span, pay for more. *)
LEMMA AllowanceGrows ==
    ASSUME NEW m \in Nat, NEW n \in Nat, m <= n, NEW u \in Nat, NEW v \in Nat, u <= v
    PROVE  Allowance(m, u) <= Allowance(n, v)
<1>1. m * Full <= n * Full /\ m * Full \in Nat /\ n * Full \in Nat
  BY FullType
<1>2. Refill(u) <= Refill(v) /\ Refill(u) \in Nat /\ Refill(v) \in Nat
  BY RefillType
<1> QED BY <1>1, <1>2 DEF Allowance

(* One more burst. *)
LEMMA AllowanceBurst ==
    ASSUME NEW m \in Nat, NEW u \in Nat
    PROVE  Allowance(m + 1, u) = Allowance(m, u) + Full
<1>1. (m + 1) * Full = m * Full + Full /\ m * Full \in Nat /\ Full \in Nat
  BY FullType
<1>2. Refill(u) \in Nat
  BY RefillType
<1> QED BY <1>1, <1>2 DEF Allowance

(* A longer span. *)
LEMMA AllowanceRefill ==
    ASSUME NEW m \in Nat, NEW u \in Nat, NEW v \in Nat
    PROVE  Allowance(m, u + v) = Allowance(m, u) + Refill(v)
<1>1. m * Full \in Nat
  BY FullType, ProductType
<1>2. Refill(u) \in Nat /\ Refill(v) \in Nat /\ Refill(u + v) = Refill(u) + Refill(v)
  BY RefillType
<1> QED BY <1>1, <1>2 DEF Allowance

-----------------------------------------------------------------------------
(* What a step does to the number admitted. *)

LEMMA AdmittedType ==
    ASSUME Finite, NEW w \in Int
    PROVE  /\ IsFiniteSet(Kept(w)) /\ IsFiniteSet(Waiting(w))
           /\ Cardinality(Kept(w)) \in Nat /\ Cardinality(Waiting(w)) \in Nat
           /\ Admitted(w) \in Nat
<1>1. Kept(w) \subseteq nonces /\ Waiting(w) \subseteq calls
  BY DEF Kept, Waiting
<1>2. IsFiniteSet(Kept(w)) /\ IsFiniteSet(Waiting(w))
  BY <1>1, FS_Subset DEF Finite
<1>3. Cardinality(Kept(w)) \in Nat /\ Cardinality(Waiting(w)) \in Nat
  BY <1>2, FS_CardinalityType
<1> QED BY <1>2, <1>3 DEF Admitted

LEMMA OneMore ==
    ASSUME NEW S, IsFiniteSet(S), NEW x
    PROVE  /\ IsFiniteSet(S \cup {x}) /\ Cardinality(S \cup {x}) \in Nat
           /\ Cardinality(S \cup {x}) <= Cardinality(S) + 1
<1>1. IsFiniteSet(S \cup {x}) /\ Cardinality(S) \in Nat /\ Cardinality(S \cup {x}) \in Nat
  BY FS_AddElement, FS_CardinalityType
<1>2. Cardinality(S \cup {x}) \in {Cardinality(S), Cardinality(S) + 1}
  BY FS_AddElement
<1> QED BY <1>1, <1>2

(* A call is admitted by Allow; it counts from the window its time falls in. *)
LEMMA AllowAdmits ==
    ASSUME TypeOK, Finite, Finite', NEW w \in Int, UNCHANGED nonces,
           NEW k \in calls, k.at = "allow", NEW ok \in BOOLEAN,
           calls' \in {calls \ {k}, (calls \ {k}) \cup {GoesOn(k)}},
           ~ok => calls' = calls \ {k}
    PROVE  /\ Admitted(w)' \in Nat
           /\ Admitted(w)' <= Admitted(w) + 1
           /\ ~ok \/ k.now < w => Admitted(w)' <= Admitted(w)
<1> DEFINE new == GoesOn(k)
<1>1. Kept(w)' = Kept(w)
  BY DEF Kept
<1>2. Waiting(w)' \subseteq Waiting(w) \cup {new}
  BY DEF Waiting
<1>3. new.now = k.now /\ k.now \in Int
  <2>1. k \in Record /\ k.now \in Nat
    BY CallType
  <2> QED BY <2>1 DEF Record, GoesOn
<1>4. ~ok \/ k.now < w => Waiting(w)' \subseteq Waiting(w)
  <2>1. CASE ~ok
    BY <2>1 DEF Waiting
  <2>2. CASE k.now < w
    <3>1. ~(new.now >= w)
      BY <1>3, <2>2
    <3> QED BY <3>1 DEF Waiting
  <2> QED BY <2>1, <2>2
<1>5. /\ IsFiniteSet(Waiting(w)) /\ Cardinality(Waiting(w)) \in Nat
      /\ Cardinality(Kept(w)) \in Nat
  BY AdmittedType
<1>6. IsFiniteSet(Waiting(w) \cup {new}) /\ Cardinality(Waiting(w) \cup {new}) \in Nat
      /\ Cardinality(Waiting(w) \cup {new}) <= Cardinality(Waiting(w)) + 1
  BY <1>5, OneMore
<1> HIDE DEF new
<1>7. /\ Cardinality(Waiting(w)') \in Nat
      /\ Cardinality(Waiting(w)') <= Cardinality(Waiting(w) \cup {new})
  BY <1>2, <1>6, FS_Subset, FS_CardinalityType
<1>8. ~ok \/ k.now < w => Cardinality(Waiting(w)') <= Cardinality(Waiting(w))
  BY <1>4, <1>5, FS_Subset
<1>9. /\ Admitted(w) = Cardinality(Kept(w)) + Cardinality(Waiting(w))
      /\ Admitted(w)' = Cardinality(Kept(w)) + Cardinality(Waiting(w)')
  BY <1>1 DEF Admitted
<1> QED BY <1>5, <1>6, <1>7, <1>8, <1>9

(* Drawing admits nobody: the nonce takes the place of the call that draws it. *)
LEMMA DrawAdmitsNone ==
    ASSUME TypeOK, Finite, Timely, NEW w \in Int, NEW k \in calls,
           NEW now \in k.since .. clock, DrawNonce(k, now)
    PROVE  Admitted(w)' \in Nat /\ Admitted(w)' <= Admitted(w)
<1> DEFINE new == <<now, Cardinality({n \in Swept(now) : n[1] = now})>>
<1>1. nonces' \subseteq nonces \cup {new} /\ calls' = calls \ {k} /\ k.at = "nonce"
  BY DEF DrawNonce, Swept
<1>2. new[1] = now
  OBVIOUS
<1>3. now \in Int /\ MaxDelay \in Int /\ k.now \in Int /\ now <= k.now + MaxDelay
  <2>1. k.now \in Nat /\ MaxDelay \in Nat /\ clock \in Nat
    BY CallType, DelayType DEF TypeOK
  <2>2. now \in Nat /\ now <= clock
    BY DrawnType
  <2> QED BY <2>1, <2>2 DEF Timely
<1>4. /\ IsFiniteSet(Kept(w)) /\ Cardinality(Kept(w)) \in Nat
      /\ IsFiniteSet(Waiting(w)) /\ Cardinality(Waiting(w)) \in Nat
  BY AdmittedType
<1>5. Waiting(w)' = Waiting(w) \ {k}
  BY <1>1 DEF Waiting
<1>6. Admitted(w) = Cardinality(Kept(w)) + Cardinality(Waiting(w))
      /\ Admitted(w)' = Cardinality(Kept(w)') + Cardinality(Waiting(w) \ {k})
  BY <1>5 DEF Admitted
<1> HIDE DEF new
<1>7. CASE now >= w + MaxDelay
  <2>1. k \in Waiting(w)
    BY <1>1, <1>3, <1>7 DEF Waiting
  <2>2. Cardinality(Waiting(w) \ {k}) = Cardinality(Waiting(w)) - 1
    BY <1>4, <2>1, FS_RemoveElement
  <2>3. Kept(w)' \subseteq Kept(w) \cup {new}
    BY <1>1 DEF Kept
  <2>4. /\ IsFiniteSet(Kept(w) \cup {new}) /\ Cardinality(Kept(w) \cup {new}) \in Nat
        /\ Cardinality(Kept(w) \cup {new}) <= Cardinality(Kept(w)) + 1
    BY <1>4, OneMore
  <2>5. /\ Cardinality(Kept(w)') \in Nat
        /\ Cardinality(Kept(w)') <= Cardinality(Kept(w) \cup {new})
    BY <2>3, <2>4, FS_Subset, FS_CardinalityType
  <2>6. Cardinality(Waiting(w) \ {k}) \in Nat
    BY <1>4, FS_Subset, FS_CardinalityType
  <2> QED BY <1>4, <1>6, <2>2, <2>4, <2>5, <2>6
<1>8. CASE ~(now >= w + MaxDelay)
  <2>1. Kept(w)' \subseteq Kept(w)
    BY <1>1, <1>2, <1>8 DEF Kept
  <2>2. Cardinality(Kept(w)') \in Nat /\ Cardinality(Kept(w)') <= Cardinality(Kept(w))
    BY <1>4, <2>1, FS_Subset, FS_CardinalityType
  <2>3. /\ Cardinality(Waiting(w) \ {k}) \in Nat
        /\ Cardinality(Waiting(w) \ {k}) <= Cardinality(Waiting(w))
    BY <1>4, FS_Subset, FS_CardinalityType
  <2> QED BY <1>4, <1>6, <2>2, <2>3
<1> QED BY <1>7, <1>8

-----------------------------------------------------------------------------
(* The arithmetic of a window. *)

LEMMA DelaysType ==
    ASSUME NEW r \in Nat
    PROVE  /\ Delays(r) \in Nat
           /\ Delays(r + 1) = Delays(r) + MaxDelay
           /\ r > 0 => r - 1 \in Nat /\ Delays(r - 1) \in Nat /\ Delays(r) = Delays(r - 1) + MaxDelay
  BY DelayType DEF Delays

LEMMA SinceType ==
    ASSUME NEW w \in Int, NEW c \in Nat
    PROVE  Since(w, c) \in Nat /\ \A d \in Nat : c <= d => Since(w, c) <= Since(w, d)
  BY DEF Since

(* The bound as it stands allows at least a smaller number. *)
LEMMA WithinAllowance ==
    ASSUME NEW a \in Nat, NEW m \in Nat, NEW n \in Nat, m <= n,
           NEW u \in Nat, NEW v \in Nat, u <= v, a <= Allowance(m, u)
    PROVE  a <= Allowance(n, v)
<1>1. Allowance(m, u) <= Allowance(n, v)
  BY AllowanceGrows
<1>2. Allowance(m, u) \in Nat /\ Allowance(n, v) \in Nat
  BY AllowanceType
<1> QED BY <1>1, <1>2

(* Fewer admitted, by a later clock. *)
LEMMA WithinLater ==
    ASSUME NEW a \in Nat, NEW z \in Nat, z <= a, NEW p \in Nat, NEW l \in Nat, NEW r \in Nat,
           NEW c \in Nat, NEW d \in Nat, c <= d, NEW w \in Int, Within(a, p, l, r, c, w)
    PROVE  Within(z, p, l, r, d, w)
<1>1. CASE l # 0 /\ l >= w
  <2> DEFINE bound == Allowance(r + 1, Since(w, l) + Delays(r))
  <2>1. Since(w, l) + Delays(r) \in Nat /\ r + 1 \in Nat
    <3>1. Since(w, l) \in Nat
      BY SinceType
    <3>2. Delays(r) \in Nat
      BY DelaysType
    <3> QED BY <3>1, <3>2
  <2>2. bound \in Nat
    BY <2>1, AllowanceType
  <2>3. a + p <= bound
    BY <1>1 DEF Within
  <2> HIDE DEF bound
  <2>4. z + p <= bound
    BY <2>2, <2>3
  <2> QED BY <1>1, <2>4 DEF Within, bound
<1>2. CASE l # 0 /\ l < w
  <2>1. a <= Allowance(r, Delays(r))
    BY <1>2 DEF Within
  <2>2. Allowance(r, Delays(r)) \in Nat
    BY DelaysType, AllowanceType
  <2>3. z <= Allowance(r, Delays(r))
    BY <2>1, <2>2
  <2> QED BY <1>2, <2>3 DEF Within
<1>3. CASE l = 0 /\ r = 0
  BY <1>3 DEF Within
<1>4. CASE l = 0 /\ r > 0
  <2> DEFINE u == Since(w, c) + Delays(r - 1)
             v == Since(w, d) + Delays(r - 1)
  <2>1. Since(w, c) \in Nat /\ Since(w, d) \in Nat /\ Since(w, c) <= Since(w, d)
    BY SinceType
  <2>2. u \in Nat /\ v \in Nat /\ u <= v
    BY <1>4, <2>1, DelaysType
  <2>3. a <= Allowance(r, u)
    BY <1>4 DEF Within
  <2> HIDE DEF u, v
  <2>4. a <= Allowance(r, v)
    BY <2>2, <2>3, WithinAllowance
  <2>5. Allowance(r, v) \in Nat
    BY <2>2, AllowanceType
  <2>6. z <= Allowance(r, v)
    BY <2>4, <2>5
  <2> QED BY <1>4, <2>6 DEF Within, v
<1> QED BY <1>1, <1>2, <1>3, <1>4

(* SetLimit: a full bucket, from which refills may start MaxDelay ago. *)
LEMMA WithinRetune ==
    ASSUME NEW a \in Nat, NEW p \in Nat, NEW l \in Nat, NEW r \in Nat,
           NEW c \in Nat, l <= c, NEW w \in Int, Within(a, p, l, r, c, w)
    PROVE  Within(a, 0, 0, r + 1, c, w)
<1> DEFINE v == Since(w, c) + Delays(r)
<1>1. /\ Since(w, c) \in Nat /\ Since(w, l) \in Nat /\ Since(w, l) <= Since(w, c)
      /\ Delays(r) \in Nat /\ r + 1 \in Nat /\ v \in Nat
  <2>1. Since(w, c) \in Nat /\ Since(w, l) \in Nat /\ Since(w, l) <= Since(w, c)
    BY SinceType
  <2>2. Delays(r) \in Nat
    BY DelaysType
  <2> QED BY <2>1, <2>2
<1>2. a <= Allowance(r + 1, v) => Within(a, 0, 0, r + 1, c, w)
  <2>1. (r + 1) - 1 = r /\ r + 1 > 0 /\ r + 1 # 0
    OBVIOUS
  <2> QED BY <2>1 DEF Within
<1>3. CASE l # 0 /\ l >= w
  <2> DEFINE u == Since(w, l) + Delays(r)
  <2>1. u \in Nat /\ u <= v
    BY <1>1
  <2>2. a + p <= Allowance(r + 1, u)
    BY <1>3 DEF Within
  <2> HIDE DEF u, v
  <2>3. Allowance(r + 1, u) \in Nat
    BY <1>1, <2>1, AllowanceType
  <2>4. a <= Allowance(r + 1, u)
    BY <2>2, <2>3
  <2>5. a <= Allowance(r + 1, v)
    BY <1>1, <2>1, <2>4, WithinAllowance
  <2> QED BY <1>2, <2>5
<1>4. CASE l # 0 /\ l < w
  <2>1. a <= Allowance(r, Delays(r))
    BY <1>4 DEF Within
  <2>2. Delays(r) <= v /\ r <= r + 1
    BY <1>1
  <2> HIDE DEF v
  <2>3. a <= Allowance(r + 1, v)
    BY <1>1, <2>1, <2>2, WithinAllowance
  <2> QED BY <1>2, <2>3
<1>5. CASE l = 0 /\ r = 0
  <2>1. a = 0
    BY <1>5 DEF Within
  <2> HIDE DEF v
  <2>2. Allowance(r + 1, v) \in Nat
    BY <1>1, AllowanceType
  <2> QED BY <1>2, <2>1, <2>2
<1>6. CASE l = 0 /\ r > 0
  <2> DEFINE u == Since(w, c) + Delays(r - 1)
  <2>1. u \in Nat /\ u <= v /\ r <= r + 1
    BY <1>1, <1>6, DelaysType, DelayType
  <2>2. a <= Allowance(r, u)
    BY <1>6 DEF Within
  <2> HIDE DEF u, v
  <2>3. a <= Allowance(r + 1, v)
    BY <1>1, <2>1, <2>2, WithinAllowance
  <2> QED BY <1>2, <2>3
<1> QED BY <1>3, <1>4, <1>5, <1>6

(* A bucket with p parts, last refilled at l, holds held parts once it is topped *)
(* up to now, and is stamped to.                                                 *)
TopsUp(p, l, now, held, to) ==
    /\ l = 0 => held = Full
    /\ l # 0 /\ now > l => held <= Full /\ held <= p + Refill(now - l)
    /\ l # 0 /\ now <= l => held = p
    /\ to = IF l = 0 \/ now > l THEN now ELSE l

(* Of the held parts q are left; a grew to z by no more than was taken, and only *)
(* if the window holds the time of the call.                                     *)
Pays(a, held, z, q, now, w) ==
    /\ z + q <= a + held
    /\ now < w => z <= a

(* Allow keeps what was admitted within the bound. *)
LEMMA WithinAllow ==
    ASSUME NEW a \in Nat, NEW p \in Nat, NEW l \in Nat, NEW r \in Nat, NEW c \in Nat,
           NEW w \in Int, Within(a, p, l, r, c, w),
           NEW now \in Nat, 1 <= now, now <= c, c <= now + MaxDelay,
           NEW held \in Nat, NEW z \in Nat, NEW q \in Nat,
           Pays(a, held, z, q, now, w), NEW to \in Nat, TopsUp(p, l, now, held, to)
    PROVE  Within(z, q, to, r, c, w)
<1>p. z + q <= a + held /\ (now < w => z <= a)
  BY DEF Pays
<1>t. to = IF l = 0 \/ now > l THEN now ELSE l
  BY DEF TopsUp
<1>h. l # 0 /\ now <= l => held = p
  BY DEF TopsUp
<1> USE <1>p, <1>t, <1>h
<1> DEFINE v == Since(w, to) + Delays(r)
<1>1. Full \in Nat /\ Delays(r) \in Nat /\ r + 1 \in Nat
  BY FullType, DelaysType
<1>2. to # 0 /\ to >= now
  OBVIOUS
<1>3. Since(w, to) \in Nat
  BY <1>2, SinceType
<1>4. v \in Nat /\ Delays(r) <= v
  BY <1>1, <1>3
<1>5. Allowance(r + 1, v) \in Nat /\ Allowance(r, Delays(r)) \in Nat
  BY <1>1, <1>4, AllowanceType
<1>6. to >= w /\ z + q <= Allowance(r + 1, v) => Within(z, q, to, r, c, w)
  BY <1>2 DEF Within
<1>7. to < w /\ z <= Allowance(r, Delays(r)) => Within(z, q, to, r, c, w)
  BY <1>2 DEF Within
<1>8. to < w => z <= a
  BY <1>2
<1>9. /\ l = 0 => held = Full
      /\ l # 0 /\ now > l => held <= Full /\ held <= p + Refill(now - l)
  BY DEF TopsUp
<1>10. now > l => now - l \in Nat /\ Refill(now - l) \in Nat
  <2>1. now > l => now - l \in Nat
    OBVIOUS
  <2> QED BY <2>1, RefillType
<1> HIDE DEF v
(* A burst on top of what was within the bound is within the next. *)
<1>11. ASSUME NEW u \in Nat, u <= v, a <= Allowance(r, u), held <= Full
       PROVE  z + q <= Allowance(r + 1, v)
  <2>1. Allowance(r + 1, u) = Allowance(r, u) + Full /\ Allowance(r, u) \in Nat
    BY AllowanceBurst, AllowanceType
  <2>2. a + held <= Allowance(r + 1, u)
    BY <1>1, <1>11, <2>1
  <2>3. z + q <= Allowance(r + 1, u)
    BY <1>1, <1>11, <2>1, <2>2
  <2>4. r + 1 <= r + 1 /\ z + q \in Nat
    BY <1>1
  <2> QED BY <1>1, <1>4, <1>11, <2>3, <2>4, WithinAllowance
<1>12. CASE l = 0
  <2>1. to = now /\ held = Full
    BY <1>9, <1>12
  <2>2. PICK u \in Nat : /\ a <= Allowance(r, u)
                         /\ to >= w => u <= v
                         /\ to < w => u <= Delays(r)
    <3>1. CASE r = 0
      <4>1. a = 0 /\ Allowance(r, 0) \in Nat
        BY <1>12, <3>1, AllowanceType DEF Within
      <4> QED BY <1>1, <1>4, <4>1
    <3>2. CASE r > 0
      <4> DEFINE u == Since(w, c) + Delays(r - 1)
      <4>1. a <= Allowance(r, u)
        BY <1>12, <3>2 DEF Within
      <4>2. Delays(r - 1) \in Nat /\ Delays(r) = Delays(r - 1) + MaxDelay /\ MaxDelay \in Nat
        BY <3>2, DelaysType, DelayType
      <4>3. Since(w, c) \in Nat
        BY SinceType
      <4>4. to >= w => Since(w, c) <= Since(w, to) + MaxDelay
        BY <2>1, <4>2 DEF Since
      <4>5. to < w => Since(w, c) <= MaxDelay
        BY <2>1, <4>2 DEF Since
      <4>6. u \in Nat
        BY <4>2, <4>3
      <4>7. to >= w => u <= v
        BY <1>3, <4>2, <4>3, <4>4 DEF v
      <4>8. to < w => u <= Delays(r)
        BY <4>2, <4>3, <4>5
      <4> QED BY <4>1, <4>6, <4>7, <4>8
    <3> QED BY <3>1, <3>2
  <2>3. CASE to >= w
    <3>1. held <= Full
      BY <1>1, <2>1
    <3>2. z + q <= Allowance(r + 1, v)
      BY <1>11, <2>2, <2>3, <3>1
    <3> QED BY <1>6, <2>3, <3>2
  <2>4. CASE to < w
    <3>1. a <= Allowance(r, Delays(r))
      <4>1. r <= r
        OBVIOUS
      <4> QED BY <1>1, <2>2, <2>4, <4>1, WithinAllowance
    <3>2. z <= Allowance(r, Delays(r))
      BY <1>5, <1>8, <2>4, <3>1
    <3> QED BY <1>7, <2>4, <3>2
  <2> QED BY <1>2, <2>3, <2>4
<1>13. CASE l # 0 /\ l >= w
  <2> DEFINE u == Since(w, l) + Delays(r)
  <2>1. a + p <= Allowance(r + 1, u)
    BY <1>13 DEF Within
  <2>2. Since(w, l) \in Nat /\ u \in Nat
    <3>1. Since(w, l) \in Nat
      BY SinceType
    <3> QED BY <1>1, <3>1
  <2>3. Allowance(r + 1, u) \in Nat
    BY <1>1, <2>2, AllowanceType
  <2>4. CASE now > l
    <3>1. to = now /\ now - l \in Nat
      BY <2>4
    <3>2. v = u + (now - l)
      BY <1>1, <1>13, <2>2, <3>1 DEF v, Since
    <3> HIDE DEF u
    <3>3. Allowance(r + 1, v) = Allowance(r + 1, u) + Refill(now - l)
      BY <1>1, <2>2, <3>1, <3>2, AllowanceRefill
    <3>4. z + q <= Allowance(r + 1, v)
      BY <1>9, <1>10, <1>13, <2>1, <2>3, <2>4, <3>3
    <3>5. to >= w
      BY <1>13, <2>4, <3>1
    <3> QED BY <1>6, <3>4, <3>5
  <2>5. CASE now <= l
    <3>1. to = l /\ held = p
      BY <1>13, <2>5
    <3>2. v = u
      BY <3>1 DEF v
    <3> HIDE DEF u
    <3>3. z + q <= Allowance(r + 1, v)
      BY <2>1, <2>3, <3>1, <3>2
    <3> QED BY <1>6, <1>13, <3>1, <3>3
  <2> QED BY <2>4, <2>5
<1>14. CASE l # 0 /\ l < w
  <2>1. a <= Allowance(r, Delays(r))
    BY <1>14 DEF Within
  <2>2. CASE to >= w
    <3>1. now > l
      BY <1>14, <2>2
    <3>2. z + q <= Allowance(r + 1, v)
      BY <1>1, <1>4, <1>9, <1>11, <1>14, <2>1, <3>1
    <3> QED BY <1>6, <2>2, <3>2
  <2>3. CASE to < w
    <3>1. z <= Allowance(r, Delays(r))
      BY <1>5, <1>8, <2>1, <2>3
    <3> QED BY <1>7, <2>3, <3>1
  <2> QED BY <1>2, <2>2, <2>3
<1> QED BY <1>12, <1>13, <1>14

-----------------------------------------------------------------------------
(* The invariant, step by step. *)

LEMMA InitInv == Init => IInv
<1> SUFFICES ASSUME Init PROVE IInv
  OBVIOUS
<1>1. TypeOK /\ Finite
  BY InitType, InitFinite
<1>2. last[Global] = 0 /\ retunes = 0 /\ clock = 1 /\ calls = {} /\ nonces = {}
  BY BucketsType DEF Init
<1>3. Timely
  BY <1>2 DEF Timely
<1>4. ASSUME NEW w \in Int PROVE Paced(w)
  <2>1. Kept(w) = {} /\ Waiting(w) = {}
    BY <1>2 DEF Kept, Waiting
  <2>2. Admitted(w) = 0
    BY <2>1, FS_EmptySet DEF Admitted
  <2>3. Admitted(w) * One = 0
    BY <2>2, BudgetType, BucketsType
  <2> QED BY <1>2, <2>3 DEF Paced, Within
<1> QED BY <1>1, <1>3, <1>4 DEF IInv

(* What a step that takes no lock of the limiter leaves. *)
LEMMA PacedStays ==
    ASSUME IInv, Finite', NEW w \in Int, UNCHANGED <<parts, last, retunes>>,
           clock' \in Nat, clock <= clock', Admitted(w)' <= Admitted(w)
    PROVE  Paced(w)'
<1>1. Admitted(w) \in Nat /\ Admitted(w)' \in Nat
  <2>1. Admitted(w) \in Nat
    BY AdmittedType DEF IInv
  <2>2. Admitted(w)' \in Nat
    <3>1. Kept(w)' \subseteq nonces' /\ Waiting(w)' \subseteq calls'
      BY DEF Kept, Waiting
    <3>2. Cardinality(Kept(w)') \in Nat /\ Cardinality(Waiting(w)') \in Nat
      BY <3>1, FS_Subset, FS_CardinalityType DEF Finite
    <3> QED BY <3>2 DEF Admitted
  <2> QED BY <2>1, <2>2
<1>2. One \in Nat
  BY BudgetType, BucketsType
<1>3. Admitted(w) * One \in Nat /\ Admitted(w)' * One \in Nat
      /\ Admitted(w)' * One <= Admitted(w) * One
  BY <1>1, <1>2
<1>4. parts[Global] \in Nat /\ last[Global] \in Nat /\ retunes \in Nat /\ clock \in Nat
  BY BucketsType DEF IInv, TypeOK
<1>5. Within(Admitted(w) * One, parts[Global], last[Global], retunes, clock, w)
  BY DEF IInv, Paced
<1>6. Within(Admitted(w)' * One, parts[Global], last[Global], retunes, clock', w)
  BY <1>3, <1>4, <1>5, WithinLater
<1> QED BY <1>6 DEF Paced

LEMMA PacedRetune ==
    ASSUME IInv, NEW w \in Int, SetLimit
    PROVE  Paced(w)'
<1>1. Admitted(w)' = Admitted(w)
  BY DEF SetLimit, Admitted, Kept, Waiting
<1>2. parts'[Global] = 0 /\ last'[Global] = 0 /\ retunes' = retunes + 1 /\ clock' = clock
  BY BucketsType DEF SetLimit
<1>3. parts[Global] \in Nat /\ last[Global] \in Nat /\ retunes \in Nat /\ clock \in Nat
  BY BucketsType DEF IInv, TypeOK
<1>4. Admitted(w) * One \in Nat
  <2>1. Admitted(w) \in Nat
    BY AdmittedType DEF IInv
  <2>2. One \in Nat
    BY BudgetType, BucketsType
  <2> QED BY <2>1, <2>2, ProductType
<1>5. Within(Admitted(w) * One, parts[Global], last[Global], retunes, clock, w)
  BY DEF IInv, Paced
<1>6. last[Global] <= clock
  BY DEF IInv, Timely
<1>7. Within(Admitted(w) * One, 0, 0, retunes + 1, clock, w)
  BY <1>3, <1>4, <1>5, <1>6, WithinRetune
<1> QED BY <1>1, <1>2, <1>7 DEF Paced

LEMMA PacedAllow ==
    ASSUME IInv, Finite', NEW w \in Int,
           NEW k \in calls, NEW leg \in {"nonce", "enroll"}, Allow(k, leg)
    PROVE  Paced(w)'
<1> DEFINE held == Take(Global, k.now)
<1>1. PICK ok \in BOOLEAN :
        /\ ok => held >= One /\ parts'[Global] = held - One
        /\ ~ok => parts'[Global] = held
        /\ last'[Global] = Stamp(Global, k.now)
        /\ calls' \in {calls \ {k}, (calls \ {k}) \cup {GoesOn(k)}}
        /\ ~ok => calls' = calls \ {k}
        /\ UNCHANGED <<clock, nonces, retunes>>
  BY AllowStep, BucketsType DEF IInv
<1>2. k.at = "allow"
  BY DEF Allow
<1>3. /\ Admitted(w)' \in Nat
      /\ Admitted(w)' <= Admitted(w) + 1
      /\ ~ok \/ k.now < w => Admitted(w)' <= Admitted(w)
  BY <1>1, <1>2, AllowAdmits DEF IInv
<1>4. Admitted(w) \in Nat /\ One \in Nat
  BY AdmittedType, BudgetType, BucketsType DEF IInv
<1> DEFINE a == Admitted(w) * One
           z == Admitted(w)' * One
<1>5. a \in Nat /\ z \in Nat
  BY <1>3, <1>4, ProductType
<1>6. z <= a + One /\ (~ok \/ k.now < w => z <= a)
  <2>1. (Admitted(w) + 1) * One = a + One
    BY <1>4
  <2>2. \A m, n, x \in Nat : m <= n => m * x <= n * x
    OBVIOUS
  <2> QED BY <1>3, <1>4, <2>1, <2>2
<1>7. k.now \in Nat /\ 1 <= k.now /\ k.now <= clock /\ clock <= k.now + MaxDelay
  BY CallType DEF IInv, Timely
<1>8. parts[Global] \in Nat /\ last[Global] \in Nat /\ retunes \in Nat /\ clock \in Nat
  BY BucketsType DEF IInv, TypeOK
<1>9. /\ held \in Nat
      /\ last[Global] = 0 => held = Full
      /\ last[Global] # 0 /\ k.now > last[Global] =>
             held <= Full /\ held <= parts[Global] + Refill(k.now - last[Global])
      /\ last[Global] # 0 /\ k.now <= last[Global] => held = parts[Global]
  BY <1>7, TakeRange, BucketsType DEF IInv, Full, Refill
<1>10. Within(a, parts[Global], last[Global], retunes, clock, w)
  BY DEF IInv, Paced
<1> HIDE DEF held, a, z
<1>11. parts'[Global] \in Nat /\ z + parts'[Global] <= a + held
  BY <1>1, <1>4, <1>5, <1>6, <1>9
<1>12. Pays(a, held, z, parts'[Global], k.now, w)
  BY <1>6, <1>11 DEF Pays
<1>13. last'[Global] \in Nat
       /\ last'[Global] = IF last[Global] = 0 \/ k.now > last[Global] THEN k.now ELSE last[Global]
  BY <1>1, <1>7, <1>8 DEF Stamp
<1>14. TopsUp(parts[Global], last[Global], k.now, held, last'[Global])
  BY <1>9, <1>13 DEF TopsUp
<1>15. Within(z, parts'[Global], last'[Global], retunes, clock, w)
  <2>1. held \in Nat /\ parts'[Global] \in Nat /\ last'[Global] \in Nat
    BY <1>9, <1>11, <1>13
  <2> QED BY <1>5, <1>7, <1>8, <1>10, <1>12, <1>14, <2>1, WithinAllow
<1> QED BY <1>1, <1>15 DEF Paced, z

LEMMA NextInv == IInv /\ [Next]_vars => IInv'
<1> SUFFICES ASSUME IInv, [Next]_vars PROVE IInv'
  OBVIOUS
<1>1. TypeOK /\ Finite /\ Timely
  BY DEF IInv
<1>2. TypeOK' /\ Finite'
  BY <1>1, NextType
<1>3. last[Global] \in Nat /\ clock \in Nat /\ MaxDelay \in Nat
  BY <1>1, BucketsType, DelayType DEF TypeOK
<1>4. \A k \in calls : k.now \in Nat
  BY <1>1, CallType
<1> SUFFICES Timely' /\ \A w \in Int : Paced(w)'
  BY <1>2 DEF IInv
<1>5. CASE Tick
  <2>1. Timely'
    BY <1>1, <1>3, <1>4, <1>5 DEF Tick, Timely
  <2>2. ASSUME NEW w \in Int PROVE Paced(w)'
    <3>1. Admitted(w)' = Admitted(w) /\ Admitted(w) \in Nat
      BY <1>1, <1>5, AdmittedType DEF Tick, Admitted, Kept, Waiting
    <3>2. clock' \in Nat /\ clock <= clock' /\ UNCHANGED <<parts, last, retunes>>
      BY <1>3, <1>5 DEF Tick
    <3>3. Admitted(w)' <= Admitted(w)
      BY <3>1
    <3> QED BY <1>2, <3>2, <3>3, PacedStays
  <2> QED BY <2>1, <2>2
<1>6. CASE SetLimit
  <2>1. last'[Global] = 0 /\ UNCHANGED <<clock, calls>>
    BY <1>6, BucketsType DEF SetLimit
  <2>2. Timely'
    BY <1>1, <1>3, <2>1 DEF Timely
  <2> QED BY <1>6, <2>2, PacedRetune
<1>7. ASSUME NEW i \in Call, NEW c \in Client, Arrive(i, c)
      PROVE  Timely' /\ \A w \in Int : Paced(w)'
  <2> DEFINE new == [by |-> i, client |-> c, now |-> clock, since |-> clock, at |-> "allow"]
  <2>1. calls' = calls \cup {new} /\ UNCHANGED <<clock, parts, last, nonces, retunes>>
    BY <1>7 DEF Arrive
  <2>2. new.now = clock /\ new.at = "allow"
    OBVIOUS
  <2> HIDE DEF new
  <2>3. Timely'
    BY <1>1, <1>3, <2>1, <2>2 DEF Timely
  <2>4. ASSUME NEW w \in Int PROVE Paced(w)'
    <3>1. Admitted(w)' = Admitted(w)
      BY <2>1, <2>2 DEF Admitted, Kept, Waiting
    <3>2. Admitted(w) \in Nat
      BY <1>1, AdmittedType
    <3>3. Admitted(w)' <= Admitted(w) /\ clock' \in Nat /\ clock <= clock'
      BY <1>3, <2>1, <3>1, <3>2
    <3> QED BY <1>2, <2>1, <3>3, PacedStays
  <2> QED BY <2>3, <2>4
<1>8. ASSUME NEW k \in calls, NEW leg \in {"nonce", "enroll"}, Allow(k, leg)
      PROVE  Timely' /\ \A w \in Int : Paced(w)'
  <2>1. /\ last'[Global] = Stamp(Global, k.now) /\ UNCHANGED clock
        /\ calls' \in {calls \ {k}, (calls \ {k}) \cup {GoesOn(k)}}
    BY <1>1, <1>8, AllowStep, BucketsType
  <2>2. k.now <= clock /\ k.now \in Nat
    BY <1>1, <1>4 DEF Timely
  <2>3. last'[Global] <= clock'
    BY <1>1, <1>3, <2>1, <2>2 DEF Stamp, Timely
  <2>4. GoesOn(k).now = k.now
    BY <1>1, CallType DEF Record, GoesOn
  <2>5. \A j \in calls' : 1 <= j.now /\ j.now <= clock /\ clock <= j.now + MaxDelay
    BY <1>1, <2>1, <2>4 DEF Timely
  <2>6. Timely'
    BY <1>1, <2>1, <2>3, <2>5 DEF Timely
  <2> QED BY <1>2, <1>8, <2>6, PacedAllow
<1>9. ASSUME NEW k \in calls, NEW now \in k.since .. clock, DrawNonce(k, now)
      PROVE  Timely' /\ \A w \in Int : Paced(w)'
  <2>1. calls' \subseteq calls /\ UNCHANGED <<clock, parts, last, retunes>>
    BY <1>9 DEF DrawNonce
  <2>2. Timely'
    BY <1>1, <2>1 DEF Timely
  <2>3. ASSUME NEW w \in Int PROVE Paced(w)'
    <3>1. Admitted(w)' <= Admitted(w)
      BY <1>1, <1>9, DrawAdmitsNone
    <3>2. clock' \in Nat /\ clock <= clock'
      BY <1>3, <2>1
    <3> QED BY <1>2, <2>1, <3>1, <3>2, PacedStays
  <2> QED BY <2>2, <2>3
<1>10. CASE UNCHANGED vars
  <2>1. Timely'
    BY <1>1, <1>10 DEF vars, Timely
  <2>2. ASSUME NEW w \in Int PROVE Paced(w)'
    <3>1. Paced(w)
      BY DEF IInv
    <3> QED BY <1>10, <3>1 DEF vars, Paced, Admitted, Kept, Waiting
  <2> QED BY <2>1, <2>2
<1> QED BY <1>5, <1>6, <1>7, <1>8, <1>9, <1>10 DEF Next

(* The window that opened NonceTTL ago holds every outstanding nonce. *)
LEMMA InvBounds == IInv => BurstAndRateBoundNonces
<1> SUFFICES ASSUME IInv PROVE BurstAndRateBoundNonces
  OBVIOUS
<1> DEFINE w == clock - NonceTTL + 1 - MaxDelay
<1>1. /\ clock \in Nat /\ retunes \in Nat /\ last[Global] \in Nat /\ parts[Global] \in Nat
      /\ MaxDelay \in Nat /\ NonceTTL \in Nat /\ NonceTTL > 0 /\ One \in Nat
  BY BucketsType, DelayType, BudgetType DEF IInv, TypeOK
<1>2. w \in Int
  BY <1>1
<1>3. Swept(clock) \subseteq Kept(w)
  BY <1>1 DEF Swept, Kept, IInv, TypeOK
<1> HIDE DEF w
<1>4. /\ IsFiniteSet(Kept(w)) /\ Cardinality(Kept(w)) \in Nat
      /\ Cardinality(Waiting(w)) \in Nat /\ Admitted(w) \in Nat
  BY <1>2, AdmittedType DEF IInv
<1>5. Outstanding \in Nat /\ Outstanding <= Cardinality(Kept(w))
  BY <1>3, <1>4, FS_Subset, FS_CardinalityType DEF Outstanding
<1>6. Outstanding <= Admitted(w)
  BY <1>4, <1>5 DEF Admitted
<1>7. Outstanding * One <= Admitted(w) * One /\ Outstanding * One \in Nat /\ Admitted(w) * One \in Nat
  BY <1>1, <1>4, <1>5, <1>6
<1> DEFINE a == Admitted(w) * One
<1>8. Within(a, parts[Global], last[Global], retunes, clock, w)
  BY <1>2 DEF IInv, Paced
<1>9. last[Global] <= clock
  BY DEF IInv, Timely
<1>10. Delays(retunes) \in Nat /\ Delays(retunes + 1) = Delays(retunes) + MaxDelay
       /\ (retunes > 0 => Delays(retunes - 1) \in Nat /\ Delays(retunes) = Delays(retunes - 1) + MaxDelay)
  BY <1>1, DelaysType
<1> DEFINE v == NonceTTL - 1 + Delays(retunes + 1)
<1>11. v \in Nat /\ retunes + 1 \in Nat
  BY <1>1, <1>10
<1>12. Since(w, clock) = NonceTTL - 1 + MaxDelay
  BY <1>1 DEF Since, w
<1>13. Since(w, last[Global]) \in Nat /\ Since(w, last[Global]) <= Since(w, clock)
  BY <1>1, <1>2, <1>9, SinceType
<1>14. a \in Nat
  BY <1>7
<1> HIDE DEF a
<1>15. a <= Allowance(retunes + 1, v)
  <2>1. CASE last[Global] # 0 /\ last[Global] >= w
    <3> DEFINE u == Since(w, last[Global]) + Delays(retunes)
    <3>1. a + parts[Global] <= Allowance(retunes + 1, u)
      BY <1>8, <2>1 DEF Within
    <3>2. u \in Nat /\ u <= v
      BY <1>1, <1>10, <1>12, <1>13
    <3> HIDE DEF u, v
    <3>3. Allowance(retunes + 1, u) \in Nat
      BY <1>11, <3>2, AllowanceType
    <3>4. a <= Allowance(retunes + 1, u)
      BY <1>1, <1>14, <3>1, <3>3
    <3> QED BY <1>11, <1>14, <3>2, <3>4, WithinAllowance
  <2>2. CASE last[Global] # 0 /\ last[Global] < w
    <3>1. a <= Allowance(retunes, Delays(retunes))
      BY <1>8, <2>2 DEF Within
    <3>2. Delays(retunes) <= v /\ retunes <= retunes + 1
      BY <1>1, <1>10
    <3> HIDE DEF v
    <3> QED BY <1>1, <1>10, <1>11, <1>14, <3>1, <3>2, WithinAllowance
  <2>3. CASE last[Global] = 0 /\ retunes = 0
    <3>1. a = 0
      BY <1>8, <2>3 DEF Within
    <3> HIDE DEF v
    <3>2. Allowance(retunes + 1, v) \in Nat
      BY <1>11, AllowanceType
    <3> QED BY <3>1, <3>2
  <2>4. CASE last[Global] = 0 /\ retunes > 0
    <3> DEFINE u == Since(w, clock) + Delays(retunes - 1)
    <3>1. a <= Allowance(retunes, u)
      BY <1>8, <2>4 DEF Within
    <3>2. u \in Nat /\ u <= v /\ retunes <= retunes + 1
      BY <1>1, <1>10, <1>12, <2>4
    <3> HIDE DEF u, v
    <3> QED BY <1>1, <1>11, <1>14, <3>1, <3>2, WithinAllowance
  <2>5. w \in Int /\ last[Global] \in Int /\ retunes \in Nat
    BY <1>1, <1>2
  <2> QED BY <2>1, <2>2, <2>3, <2>4, <2>5
<1>16. Outstanding * One <= Allowance(retunes + 1, v)
  <2> HIDE DEF v
  <2>1. Allowance(retunes + 1, v) \in Nat
    BY <1>11, AllowanceType
  <2> QED BY <1>7, <1>15, <2>1 DEF a
<1>17. (retunes + 1) * Full = (retunes + 1) * Burst[Global] * One
  <2>1. Burst[Global] \in Nat
    BY BucketsType, BudgetType
  <2> QED BY <1>1, <2>1 DEF Full
<1>18. Refill(v) = Rate[Global] * (NonceTTL - 1 + (retunes + 1) * MaxDelay)
  <2>1. Rate[Global] \in Nat
    BY BucketsType, BudgetType
  <2>2. v = NonceTTL - 1 + (retunes + 1) * MaxDelay
    BY DEF Delays
  <2>3. Refill(v) = v * Rate[Global]
    BY DEF Refill
  <2> HIDE DEF v
  <2>4. v * Rate[Global] = Rate[Global] * v
    BY <1>11, <2>1
  <2> QED BY <2>2, <2>3, <2>4
<1> QED BY <1>16, <1>17, <1>18 DEF BurstAndRateBoundNonces, Allowance

(* However calls interleave, arrive late or straddle a retune, the nonces that   *)
(* are outstanding are paid for by one burst for each time the budget was set    *)
(* and by what the global bucket refills in NonceTTL and one delay for each.     *)
THEOREM BurstAndRateBound == Spec => []BurstAndRateBoundNonces
  BY InitInv, NextInv, InvBounds, PTL DEF Spec
=============================================================================
