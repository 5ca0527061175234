---------------------------- MODULE LedgerProofs ----------------------------
(***************************************************************************)
(* The two records kept of what happened: the audit log with its witness,  *)
(* for any number of appenders and relays and logs of any length; and the  *)
(* cache of spent proofs with the credentials they are made for, for every *)
(* set of proofs, credentials and calls, every window, cap and delay.      *)
(***************************************************************************)
EXTENDS AuditLog, Credential, MerkleProofs

-----------------------------------------------------------------------------
(* The audit log and its witness. *)

Hash == Seq(Nat)
StoredEntry == [entry : Nat, prev : Hash, hash : Hash]

(* The types the hash terms need. *)
LogTypeOK ==
    /\ made \in Nat
    /\ entries \in Seq(StoredEntry)
    /\ leaves \in Seq(Hash)
    /\ cosigned \in Seq(Hash)

(* The chain, and its leaves.  The i-th hash covers i entries, so no two are *)
(* the same.                                                                 *)
Chained ==
    /\ Len(leaves) = Len(entries)
    /\ \A i \in 1 .. Len(entries) :
          /\ leaves[i] = entries[i].hash
          /\ Len(entries[i].hash) = i
          /\ entries[i].prev = IF i = 1 THEN NoHash ELSE entries[i - 1].hash
          /\ entries[i].hash = contentHash(entries[i].prev, entries[i].entry)

(* What a relay carries was signed by the operator. *)
Signed ==
    \A r \in Relay : cp[r] # NoCheckpoint => cp[r].of \in Seq(Hash) /\ cp[r] = CheckpointOf(cp[r].of)

(* The witness remembers the size and the root of what it co-signed last. *)
Remembered ==
    /\ lastSize = Len(cosigned)
    /\ lastSize > 0 => lastRoot = Root(cosigned)

(* The inductive invariant. *)
LogInv == LogTypeOK /\ Chained /\ cp = [r \in Relay |-> cp[r]] /\ Signed /\ Remembered

LEMMA LogInitInv == LogInit => LogInv
<1> SUFFICES ASSUME LogInit PROVE LogInv
  OBVIOUS
<1>1. LogTypeOK /\ Chained
  BY DEF LogInit, LogTypeOK, Chained
<1>2. cp = [r \in Relay |-> cp[r]] /\ Signed
  BY DEF LogInit, Signed
<1>3. Remembered
  BY DEF LogInit, Remembered
<1> QED BY <1>1, <1>2, <1>3 DEF LogInv

(* The chain after Append. *)
LEMMA CommitChains ==
    ASSUME LogTypeOK, Chained, NEW a \in Appender, Commit(a)
    PROVE  LogTypeOK' /\ Chained'
<1> DEFINE n == Len(entries)
           e == Stored(made')
<1>1. n \in Nat /\ made' \in Nat
  BY DEF LogTypeOK, Commit
<1>2. LastHash \in Hash /\ Len(LastHash) = n
  <2>1. CASE entries = <<>>
    BY <2>1 DEF LastHash, NoHash, Hash
  <2>2. CASE entries # <<>>
    <3>1. n \in 1 .. n
      BY <1>1, <2>2 DEF LogTypeOK
    <3>2. entries[n] \in StoredEntry
      BY <3>1 DEF LogTypeOK
    <3> QED BY <2>2, <3>1, <3>2 DEF LastHash, Chained, StoredEntry
  <2> QED BY <2>1, <2>2
<1>3. /\ e \in StoredEntry
      /\ e.hash \in Hash /\ Len(e.hash) = n + 1
      /\ e.prev = LastHash /\ e.hash = contentHash(e.prev, e.entry)
  BY <1>1, <1>2 DEF Stored, StoredEntry, contentHash, Hash
<1>4. LastHash = IF n = 0 THEN NoHash ELSE entries[n].hash
  BY DEF LastHash, LogTypeOK
<1> HIDE DEF e
<1>5. entries' = Append(entries, e) /\ leaves' = Append(leaves, e.hash) /\ UNCHANGED cosigned
  BY DEF Commit, e, witness
<1>6. LogTypeOK'
  BY <1>1, <1>3, <1>5 DEF LogTypeOK
<1>7. /\ Len(entries') = n + 1 /\ Len(leaves') = n + 1
      /\ \A i \in 1 .. n : entries'[i] = entries[i] /\ leaves'[i] = leaves[i]
      /\ entries'[n + 1] = e /\ leaves'[n + 1] = e.hash
  BY <1>1, <1>5 DEF LogTypeOK, Chained
<1>8. ASSUME NEW i \in 1 .. n + 1
      PROVE  /\ leaves'[i] = entries'[i].hash
             /\ Len(entries'[i].hash) = i
             /\ entries'[i].prev = IF i = 1 THEN NoHash ELSE entries'[i - 1].hash
             /\ entries'[i].hash = contentHash(entries'[i].prev, entries'[i].entry)
  <2>1. CASE i = n + 1
    <3>1. n # 0 => n \in 1 .. n /\ entries'[n] = entries[n]
      BY <1>1, <1>7
    <3> QED BY <1>1, <1>3, <1>4, <1>7, <2>1, <3>1
  <2>2. CASE i # n + 1
    <3>1. i \in 1 .. n /\ (i # 1 => i - 1 \in 1 .. n)
      BY <1>1, <2>2
    <3> QED BY <1>7, <3>1 DEF Chained
  <2> QED BY <2>1, <2>2
<1> QED BY <1>6, <1>7, <1>8 DEF Chained

(* What the witness takes, it takes from a signed checkpoint. *)
LEMMA WitnessRemembers ==
    ASSUME LogInv, NEW r \in Relay, Witness(r)
    PROVE  cosigned' \in Seq(Hash) /\ Remembered'
<1>1. CASE Extends(cp[r], given[r])
  <2>1. lastSize' = cp[r].size /\ lastRoot' = cp[r].root /\ cosigned' = cp[r].of
    BY <1>1 DEF Witness
  <2>2. cp[r].of \in Seq(Hash) /\ cp[r] = CheckpointOf(cp[r].of)
    BY DEF LogInv, Signed, Witness
  <2>3. cp[r].size = Len(cp[r].of) /\ cp[r].root = Root(cp[r].of)
    BY <2>2 DEF CheckpointOf
  <2> QED BY <2>1, <2>2, <2>3 DEF Remembered
<1>2. CASE ~ Extends(cp[r], given[r])
  <2>1. UNCHANGED <<lastSize, lastRoot, cosigned>>
    BY <1>2 DEF Witness, witness
  <2> QED BY <2>1 DEF LogInv, Remembered, LogTypeOK
<1> QED BY <1>1, <1>2

(* Every step keeps the invariant. *)
LEMMA LogNextInv == LogInv /\ [LogNext]_logVars => LogInv'
<1> SUFFICES ASSUME LogInv, [LogNext]_logVars PROVE LogInv'
  OBVIOUS
<1> USE DEF LogInv
<1>1. ASSUME NEW a \in Appender, Commit(a)
      PROVE  LogInv'
  <2>1. LogTypeOK' /\ Chained'
    BY <1>1, CommitChains
  <2>2. UNCHANGED <<cp, lastSize, lastRoot, cosigned>>
    BY <1>1 DEF Commit, carried, witness
  <2> QED BY <2>1, <2>2 DEF Signed, Remembered
<1>2. ASSUME NEW a \in Appender, Stream(a)
      PROVE  LogInv'
  <2>1. UNCHANGED <<made, entries, leaves, cp, lastSize, lastRoot, cosigned>>
    BY <1>2 DEF Stream, log, carried, witness
  <2> QED BY <2>1 DEF LogTypeOK, Chained, Signed, Remembered
<1>3. ASSUME Restart
      PROVE  LogInv'
  <2>1. entries' = <<>> /\ leaves' = <<>> /\ UNCHANGED <<made, cp, lastSize, lastRoot, cosigned>>
    BY <1>3 DEF Restart, carried, witness
  <2>2. LogTypeOK' /\ Chained'
    BY <2>1 DEF LogTypeOK, Chained
  <2> QED BY <2>1, <2>2 DEF Signed, Remembered
<1>4. ASSUME NEW r \in Relay, Checkpoint(r)
      PROVE  LogInv'
  <2>1. UNCHANGED <<made, entries, leaves, lastSize, lastRoot, cosigned>>
    BY <1>4 DEF Checkpoint, log, witness
  <2>2. LogTypeOK' /\ Chained' /\ Remembered'
    BY <2>1 DEF LogTypeOK, Chained, Remembered
  <2>3. cp' = [cp EXCEPT ![r] = CheckpointOf(leaves)]
    BY <1>4 DEF Checkpoint
  <2>4. leaves \in Seq(Hash) /\ CheckpointOf(leaves).of = leaves
    BY DEF LogTypeOK, CheckpointOf
  <2>5. cp' = [s \in Relay |-> cp'[s]] /\ Signed'
    BY <2>3, <2>4 DEF Signed
  <2> QED BY <2>2, <2>5
<1>5. ASSUME NEW r \in Relay, GiveProof(r)
      PROVE  LogInv'
  <2>1. UNCHANGED <<made, entries, leaves, cp, lastSize, lastRoot, cosigned>>
    BY <1>5 DEF GiveProof, log, witness
  <2> QED BY <2>1 DEF LogTypeOK, Chained, Signed, Remembered
<1>6. ASSUME NEW r \in Relay, Witness(r)
      PROVE  LogInv'
  <2>1. UNCHANGED <<made, entries, leaves>>
    BY <1>6 DEF Witness, log
  <2>2. cosigned' \in Seq(Hash) /\ Remembered'
    BY <1>6, WitnessRemembers
  <2>3. LogTypeOK' /\ Chained'
    BY <2>1, <2>2 DEF LogTypeOK, Chained
  <2>4. cp' = [cp EXCEPT ![r] = NoCheckpoint]
    BY <1>6 DEF Witness
  <2>5. cp' = [s \in Relay |-> cp'[s]] /\ Signed'
    BY <2>4 DEF Signed
  <2> QED BY <2>2, <2>3, <2>5
<1>7. ASSUME UNCHANGED logVars
      PROVE  LogInv'
  <2>1. UNCHANGED <<made, entries, leaves, cp, lastSize, lastRoot, cosigned>>
    BY <1>7 DEF logVars, log, carried, witness
  <2> QED BY <2>1 DEF LogTypeOK, Chained, Signed, Remembered
<1> QED BY <1>1, <1>2, <1>3, <1>4, <1>5, <1>6, <1>7 DEF LogNext

(* TransparencyLog.Append keeps chain and leaves together in every interleaving  *)
(* and across restarts, a checkpoint is always of a log the operator had, and    *)
(* Witness.Witness remembers the size and the root of what it co-signed.         *)
THEOREM LogInvariant == LogSpec => []LogInv
BY LogInitInv, LogNextInv, PTL DEF LogSpec

(* What Merkle's theorems make of the invariant. *)
LEMMA InvIsProvable == LogInv => LogIsProvable
<1> SUFFICES ASSUME LogInv PROVE LogIsProvable
  OBVIOUS
<1> DEFINE n == Len(leaves)
<1>1. n \in Nat /\ leaves \in Seq(Hash) /\ Len(entries) = n /\ DOMAIN entries = 1 .. n
  BY DEF LogInv, LogTypeOK, Chained
<1>2. \A i \in 1 .. n : leaves[i] = entries[i].hash /\ Len(leaves[i]) = i
  BY <1>1 DEF LogInv, Chained
<1>3. \A i \in DOMAIN entries :
         /\ entries[i].prev = IF i = 1 THEN NoHash ELSE entries[i - 1].hash
         /\ entries[i].hash = contentHash(entries[i].prev, entries[i].entry)
  BY <1>1 DEF LogInv, Chained
<1>4. ASSUME NEW j \in 1 .. n, NEW i \in 1 .. n
      PROVE  VerifyInclusion(entries[i].hash, j - 1, n, InclusionProof(leaves, j - 1), Root(leaves))
                <=> i = j
  <2>1. j - 1 \in 0 .. Len(leaves) - 1 /\ (j - 1) + 1 = j
    BY <1>1
  <2>2. VerifyInclusion(entries[i].hash, j - 1, n, InclusionProof(leaves, j - 1), Root(leaves))
           <=> entries[i].hash = leaves[(j - 1) + 1]
    BY <1>1, <2>1, InclusionIsExact
  <2>3. leaves[i] = leaves[j] <=> i = j
    BY <1>2
  <2> QED BY <1>2, <2>1, <2>2, <2>3
<1>5. ASSUME NEW m \in 0 .. n
      PROVE  VerifyConsistency(m, n, ConsistencyProof(leaves, m),
                               Root([i \in 1 .. m |-> entries[i].hash]), Root(leaves))
  <2> DEFINE old == [i \in 1 .. m |-> entries[i].hash]
  <2>1. Agree(old, leaves, 0, m)
    BY <1>1, <1>2 DEF Agree
  <2>2. Len(old) = m
    BY <1>1
  <2> HIDE DEF old
  <2>3. VerifyConsistency(m, n, ConsistencyProof(leaves, m), SliceRoot(old)[m][0], Root(leaves))
    BY <1>1, <2>1, ConsistencyIsComplete
  <2>4. VerifyConsistency(m, n, ConsistencyProof(leaves, m), Root(old), Root(leaves))
    BY <2>2, <2>3 DEF Root
  <2> QED BY <2>4 DEF old
<1> HIDE DEF n
<1>6. /\ \A j \in 1 .. n : \A i \in 1 .. n :
            VerifyInclusion(entries[i].hash, j - 1, n, InclusionProof(leaves, j - 1), Root(leaves))
               <=> i = j
      /\ \A m \in 0 .. n :
            VerifyConsistency(m, n, ConsistencyProof(leaves, m),
                              Root([i \in 1 .. m |-> entries[i].hash]), Root(leaves))
  BY <1>4, <1>5
<1> QED BY <1>3, <1>6, Zenon DEF LogIsProvable, n

(* Whatever appends run concurrently, and however long the log: the chain          *)
(* verifies, the inclusion proof for an index convinces of that entry and of no    *)
(* other, and there is a consistency proof from every earlier size.                *)
THEOREM LogStaysProvable == LogSpec => []LogIsProvable
BY LogInvariant, InvIsProvable, PTL

LEMMA SameIsPrefix ==
    ASSUME NEW S, NEW s \in Seq(S), NEW t \in Seq(S), Len(s) <= Len(t),
           \A i \in 1 .. Len(s) : s[i] = t[i]
    PROVE  IsPrefix(s, t)
BY DEF IsPrefix

(* A co-signed checkpoint extends the last one: VerifyConsistency is sound. *)
LEMMA WitnessExtends ==
    ASSUME LogInv, NEW r \in Relay, Witness(r)
    PROVE  IsPrefix(cosigned, cosigned')
<1>1. CASE Extends(cp[r], given[r])
  <2> DEFINE d == cp[r].of
  <2>1. cosigned' = d /\ d \in Seq(Hash) /\ cp[r] = CheckpointOf(d)
    BY <1>1 DEF Witness, LogInv, Signed
  <2>2. cp[r].size = Len(d) /\ cp[r].root = Root(d)
    BY <2>1 DEF CheckpointOf
  <2>3. /\ cosigned \in Seq(Hash) /\ lastSize = Len(cosigned)
        /\ lastSize > 0 => lastRoot = Root(cosigned)
    BY DEF LogInv, LogTypeOK, Remembered
  <2> HIDE DEF d
  <2>4. CASE lastSize = 0
    <3>1. Len(cosigned) = 0 /\ Len(d) \in Nat
      BY <2>1, <2>3, <2>4
    <3>2. Len(cosigned) <= Len(d) /\ \A i \in 1 .. Len(cosigned) : cosigned[i] = d[i]
      BY <3>1
    <3> QED BY <2>1, <2>3, <3>2, SameIsPrefix
  <2>5. CASE lastSize # 0
    <3>1. Len(cosigned) \in Nat /\ Len(d) \in Nat /\ lastSize > 0
      BY <2>1, <2>3, <2>5
    <3>2. /\ Len(cosigned) <= Len(d)
          /\ VerifyConsistency(Len(cosigned), Len(d), given[r], Root(cosigned), Root(d))
      BY <1>1, <2>2, <2>3, <3>1 DEF Extends
    <3>3. Agree(cosigned, d, 0, Len(cosigned))
      <4>1. VerifyConsistency(Len(cosigned), Len(d), given[r],
                              SliceRoot(cosigned)[Len(cosigned)][0], SliceRoot(d)[Len(d)][0])
        BY <3>2 DEF Root
      <4>2. 0 < Len(cosigned)
        BY <2>3, <3>1
      <4> QED BY <3>1, <3>2, <4>1, <4>2, ConsistencyIsSound
    <3>4. \A i \in 1 .. Len(cosigned) : cosigned[i] = d[i]
      BY <3>1, <3>3 DEF Agree
    <3> QED BY <2>1, <2>3, <3>2, <3>4, SameIsPrefix
  <2> QED BY <2>4, <2>5
<1>2. CASE ~ Extends(cp[r], given[r])
  BY <1>2 DEF Witness, witness, LogInv, LogTypeOK, IsPrefix
<1> QED BY <1>1, <1>2

(* Witness.Witness co-signs only what extends the log it co-signed last, whatever  *)
(* proof a relay hands it, and although an operator may have restarted with an     *)
(* empty log in between.                                                           *)
THEOREM CosigningAppends == LogSpec => CosignedIsAppendOnly
<1>1. LogInv /\ [LogNext]_logVars => [IsPrefix(cosigned, cosigned')]_logVars
  <2> SUFFICES ASSUME LogInv, LogNext
               PROVE  IsPrefix(cosigned, cosigned')
    OBVIOUS
  <2>1. ASSUME NEW r \in Relay, Witness(r)
        PROVE  IsPrefix(cosigned, cosigned')
    BY <2>1, WitnessExtends
  <2>2. CASE UNCHANGED cosigned
    BY <2>2 DEF LogInv, LogTypeOK, IsPrefix
  <2> QED BY <2>1, <2>2 DEF LogNext, Commit, Stream, Restart, Checkpoint, GiveProof, witness
<1> QED BY <1>1, LogInvariant, PTL DEF LogSpec, CosignedIsAppendOnly

-----------------------------------------------------------------------------
(* The cache of spent proofs, and the credentials they are made for. *)

(* The inductive invariant of the cache. *)
IInv == TypeOK /\ SpentIsRemembered

(* rotate leaves generations that still cover every spent proof, and restarts *)
(* the current one only at a time past the old start.                        *)
LEMMA RotateRemembers ==
    ASSUME IInv, NEW now \in Nat, now > 0
    PROVE  LET g == Rotate(now)
           IN  /\ g.cur \in SUBSET Jti /\ g.prev \in SUBSET Jti
               /\ g.rotated \in Nat /\ g.rotated > 0
               /\ \A j \in Jti : uses[j] > 0 =>
                      j \in g.cur \cup g.prev \/ iat[j] + MaxAge < g.rotated
               /\ \A j \in g.cur : iat[j] + MaxAge < g.rotated + 2 * Window
               /\ \A j \in g.prev : iat[j] + MaxAge < g.rotated + Window
               /\ now < g.rotated + Window
               /\ g.rotated \in {rotated, now}
<1> DEFINE g == Rotate(now)
<1>1. rotated \in Nat /\ Window \in Nat \ {0} /\ MaxAge \in Nat
  BY ConstantsAssumption DEF IInv, TypeOK, Window
<1>2. \/ rotated = 0 /\ g = [cur |-> cur, prev |-> prev, rotated |-> now]
      \/ rotated # 0 /\ now < rotated + Window /\ g = [cur |-> cur, prev |-> prev, rotated |-> rotated]
      \/ /\ rotated # 0 /\ rotated + Window <= now
         /\ \/ rotated + 2 * Window <= now /\ g = [cur |-> {}, prev |-> {}, rotated |-> now]
            \/ g = [cur |-> {}, prev |-> cur, rotated |-> now]
  BY <1>1 DEF Rotate
<1>3. /\ cur \in SUBSET Jti /\ prev \in SUBSET Jti /\ iat \in [Jti -> Nat]
      /\ SpentIsRemembered
  BY DEF IInv, TypeOK
<1> HIDE DEF g
<1>4. g.cur \in SUBSET Jti /\ g.prev \in SUBSET Jti /\ g.rotated \in {rotated, now}
  BY <1>2, <1>3
<1>5. g.rotated \in Nat /\ g.rotated > 0 /\ now < g.rotated + Window
  BY <1>1, <1>2
<1>6. \A j \in Jti : uses[j] > 0 => j \in g.cur \cup g.prev \/ iat[j] + MaxAge < g.rotated
  BY <1>1, <1>2, <1>3 DEF SpentIsRemembered
<1>7. /\ \A j \in g.cur : iat[j] + MaxAge < g.rotated + 2 * Window
      /\ \A j \in g.prev : iat[j] + MaxAge < g.rotated + Window
  BY <1>1, <1>2, <1>3 DEF SpentIsRemembered
<1> QED BY <1>4, <1>5, <1>6, <1>7 DEF g

(* One use of the cache, seen through rotate: the proof enters the current  *)
(* generation if neither generation holds it, or nothing is recorded.       *)
LEMMA UseStep ==
    ASSUME IInv, NEW k \in checks, Use(k)
    PROVE  LET g == Rotate(k.now)
           IN  /\ prev' = g.prev /\ rotated' = g.rotated
               /\ checks' = checks \ {k} /\ UNCHANGED <<clock, iat>>
               /\ \/ /\ k.jti \notin g.cur \cup g.prev
                     /\ cur' = g.cur \cup {k.jti}
                     /\ uses' = [uses EXCEPT ![k.jti] = @ + 1]
                  \/ cur' = g.cur /\ UNCHANGED uses
  BY DEF Use

LEMMA InitInv == Init => IInv
<1> SUFFICES ASSUME Init PROVE IInv
  OBVIOUS
<1>1. iat \in [Jti -> Nat]
  BY ConstantsAssumption DEF Init
<1>2. TypeOK
  BY <1>1 DEF Init, TypeOK
<1>3. SpentIsRemembered
  BY DEF Init, SpentIsRemembered
<1> QED BY <1>2, <1>3 DEF IInv

LEMMA NextInv == IInv /\ [Next]_vars => IInv'
<1> SUFFICES ASSUME IInv, [Next]_vars PROVE IInv'
  OBVIOUS
<1> USE ConstantsAssumption DEF IInv
<1>1. CASE Tick
  <2>1. TypeOK'
    BY <1>1 DEF Tick, TypeOK
  <2>2. \A k \in checks : k.now \in Nat /\ clock < k.now + MaxDelay
    BY <1>1 DEF Tick, TypeOK, Check
  <2>3. \A k \in checks' : Fresh(k.jti, k.now)' /\ 0 < k.now /\ k.now <= clock'
                            /\ clock' <= k.now + MaxDelay
    BY <1>1, <2>2 DEF Tick, TypeOK, SpentIsRemembered, Fresh
  <2>4. 0 < clock' /\ rotated' <= clock'
    BY <1>1 DEF Tick, TypeOK, SpentIsRemembered
  <2>5. SpentIsRemembered'
    BY <1>1, <2>3, <2>4 DEF Tick, SpentIsRemembered
  <2> QED BY <2>1, <2>5
<1>2. ASSUME NEW c \in Call, NEW j \in Jti, Present(c, j) PROVE IInv'
  <2> DEFINE k == [by |-> c, jti |-> j, now |-> clock]
  <2>1. k \in Check /\ Fresh(k.jti, k.now) /\ k.now = clock
    BY <1>2 DEF Present, TypeOK, Check
  <2>2. checks' = checks \cup {k}
    BY <1>2 DEF Present
  <2> HIDE DEF k
  <2>3. TypeOK'
    BY <1>2, <2>1, <2>2 DEF Present, TypeOK
  <2>4. 0 < clock
    BY DEF SpentIsRemembered
  <2>5. SpentIsRemembered'
    BY <1>2, <2>1, <2>2, <2>4 DEF Present, SpentIsRemembered, Fresh, TypeOK
  <2> QED BY <2>3, <2>5
<1>3. ASSUME NEW k \in checks, Use(k) PROVE IInv'
  <2> DEFINE g == Rotate(k.now)
  <2>1. /\ k.jti \in Jti /\ k.now \in Nat /\ k.now > 0 /\ k.now <= clock
        /\ Fresh(k.jti, k.now)
    BY DEF TypeOK, SpentIsRemembered, Check
  <2>2. /\ g.cur \in SUBSET Jti /\ g.prev \in SUBSET Jti
        /\ g.rotated \in Nat /\ g.rotated > 0
        /\ \A j \in Jti : uses[j] > 0 =>
               j \in g.cur \cup g.prev \/ iat[j] + MaxAge < g.rotated
        /\ \A j \in g.cur : iat[j] + MaxAge < g.rotated + 2 * Window
        /\ \A j \in g.prev : iat[j] + MaxAge < g.rotated + Window
        /\ k.now < g.rotated + Window
        /\ g.rotated \in {rotated, k.now}
    BY <2>1, RotateRemembers
  <2>3. /\ prev' = g.prev /\ rotated' = g.rotated
        /\ checks' = checks \ {k} /\ UNCHANGED <<clock, iat>>
        /\ \/ /\ k.jti \notin g.cur \cup g.prev
              /\ cur' = g.cur \cup {k.jti}
              /\ uses' = [uses EXCEPT ![k.jti] = @ + 1]
           \/ cur' = g.cur /\ UNCHANGED uses
    BY <1>3, UseStep
  <2> HIDE DEF g
  <2>4. TypeOK'
    BY <2>1, <2>2, <2>3 DEF TypeOK
  <2>5. iat[k.jti] + MaxAge < g.rotated + 2 * Window
    BY <2>1, <2>2 DEF Fresh, Window, TypeOK
  <2>6. /\ \A j \in Jti : uses'[j] > 0 => j \in cur' \cup prev' \/ iat'[j] + MaxAge < rotated'
        /\ \A j \in cur' : iat'[j] + MaxAge < rotated' + 2 * Window
        /\ \A j \in prev' : iat'[j] + MaxAge < rotated' + Window
    BY <2>1, <2>2, <2>3, <2>5 DEF TypeOK
  <2>7. rotated' > 0 /\ 0 < clock' /\ rotated' <= clock'
    BY <2>1, <2>2, <2>3 DEF SpentIsRemembered, TypeOK
  <2>8. SpentIsRemembered'
    BY <2>2, <2>3, <2>6, <2>7 DEF SpentIsRemembered, Fresh
  <2> QED BY <2>4, <2>8
<1>4. CASE UNCHANGED vars
  BY <1>4 DEF vars, TypeOK, SpentIsRemembered, Fresh
<1> QED
  BY <1>1, <1>2, <1>3, <1>4 DEF Next

(* Every spent proof is remembered until it is too old to be accepted again:    *)
(* the two generations of ReplayCache cover the whole life of what they hold.   *)
THEOREM Remembering == Spec => [](TypeOK /\ SpentIsRemembered)
<1>1. Spec => []IInv
  BY InitInv, NextInv, PTL DEF Spec
<1> QED BY <1>1, PTL DEF IInv

(* The check that accepts a spent proof read the clock before the last rotation. *)
LEMMA AcceptStep ==
    ASSUME IInv, [Next]_vars,
           NEW k \in checks \ checks', uses[k.jti] > 0, uses'[k.jti] # uses[k.jti]
    PROVE  k.now < rotated
<1>1. Use(k)
  BY DEF Next, Tick, Present, Use, vars
<1> DEFINE g == Rotate(k.now)
<1>2. /\ k.jti \in Jti /\ k.now \in Nat /\ k.now > 0
      /\ Fresh(k.jti, k.now) /\ rotated \in Nat
  BY DEF IInv, TypeOK, SpentIsRemembered, Check
<1>3. k.jti \notin g.cur \cup g.prev
  BY <1>1, UseStep
<1>4. iat[k.jti] + MaxAge < g.rotated /\ g.rotated \in {rotated, k.now} /\ g.rotated \in Nat
  BY <1>2, <1>3, RotateRemembers
<1> HIDE DEF g
<1> QED
  BY <1>2, <1>4, ConstantsAssumption DEF Fresh, IInv, TypeOK

(* ReplayCache.Use never accepts a proof a second time for a call that was not   *)
(* overtaken between its clock and the lock.                                     *)
THEOREM ReplayOnlyByOvertaking == Spec => ReplayNeedsOvertaking
<1>1. IInv /\ [Next]_vars =>
        [\A k \in checks \ checks' :
           uses[k.jti] > 0 /\ uses'[k.jti] # uses[k.jti] => k.now < rotated]_vars
  BY AcceptStep
<1> QED
  BY <1>1, InitInv, NextInv, PTL DEF Spec, ReplayNeedsOvertaking

(* When no check is held up between its clock and the lock, a proof is accepted  *)
(* at most once: the SECOND presentation is refused.                             *)
THEOREM PromptChecksAcceptOnce ==
    ASSUME MaxDelay = 0
    PROVE  Spec => []AcceptedOnce
<1> DEFINE Inv == IInv /\ AcceptedOnce
<1>1. Init => Inv
  BY InitInv DEF Init, AcceptedOnce
<1>2. Inv /\ [Next]_vars => Inv'
  <2> SUFFICES ASSUME Inv, [Next]_vars PROVE AcceptedOnce'
    BY NextInv
  <2>1. ASSUME NEW k \in checks, Use(k) PROVE AcceptedOnce'
    <3>1. k \in checks \ checks' /\ k.jti \in Jti /\ rotated <= k.now
      BY <2>1 DEF Use, IInv, TypeOK, SpentIsRemembered, Check
    <3>2. uses'[k.jti] # uses[k.jti] => ~(uses[k.jti] > 0)
      BY <3>1, AcceptStep DEF IInv, TypeOK, SpentIsRemembered, Check
    <3> QED
      BY <2>1, <3>1, <3>2, UseStep DEF AcceptedOnce, IInv, TypeOK
  <2> QED
    BY <2>1 DEF Next, Tick, Present, vars, AcceptedOnce
<1> QED
  BY <1>1, <1>2, PTL DEF Spec

-----------------------------------------------------------------------------
(* Credential. *)

(* A request past Verify carries a credential that was good then, one past Check *)
(* has spent its proof, and a key is registered until such a credential expires. *)
Vouches(j) == Document[j].issuer \in Trusted /\ Document[j].issued <= clock

Registered(p) ==
    principals[p] # 0 =>
        \E j \in Jti : /\ Document[j].subject = p /\ Document[j].expires = principals[p]
                       /\ Vouches(j) /\ uses[j] > 0

KInv ==
    /\ IInv /\ CredentialTypeOK
    /\ \A r \in arrived \cup proven : Vouches(r.jti)
    /\ \A k \in checks : Vouches(k.jti)
    /\ \A r \in proven : uses[r.jti] > 0
    /\ \A p \in Principal : Registered(p)

(* Every step of authentication is a step of the cache, or leaves it alone. *)
LEMMA AuthenticationStep ==
  ASSUME KInv, [CredentialNext]_<<vars, requests>>
  PROVE  [Next]_vars
<1>1. ASSUME NEW r \in arrived, Prove(r) PROVE [Next]_vars
  <2>1. r.by \in Call /\ r.jti \in Jti
    BY DEF KInv, CredentialTypeOK, Request
  <2>2. Present(r.by, r.jti) \/ UNCHANGED vars
    BY <1>1 DEF Prove
  <2> QED
    BY <2>1, <2>2 DEF Next
<1> QED
  BY <1>1 DEF CredentialNext, Pass, Arrive, Spend, Register, SetDisabled, Next

(* The clock only advances and what is spent stays spent. *)
LEMMA CacheMovesOn ==
  ASSUME IInv, [Next]_vars
  PROVE  /\ clock \in Nat /\ clock' \in Nat /\ clock <= clock'
         /\ \A j \in Jti : uses[j] \in Nat /\ uses'[j] \in Nat /\ uses[j] <= uses'[j]
<1> USE DEF IInv, TypeOK
<1>1. ASSUME NEW k \in checks, Use(k)
      PROVE  clock' = clock /\ \A j \in Jti : uses'[j] \in Nat /\ uses[j] <= uses'[j]
  <2>1. k.jti \in Jti
    BY DEF Check
  <2>2. clock' = clock /\ (uses' = uses \/ uses' = [uses EXCEPT ![k.jti] = @ + 1])
    BY <1>1, UseStep
  <2> QED
    BY <2>1, <2>2
<1>2. CASE Tick \/ UNCHANGED vars
  BY <1>2 DEF Tick, vars
<1>3. ASSUME NEW c \in Call, NEW j \in Jti, Present(c, j) PROVE UNCHANGED <<clock, uses>>
  BY <1>3 DEF Present
<1> QED
  BY <1>1, <1>2, <1>3 DEF Next

LEMMA StillVouches ==
  ASSUME IInv, [Next]_vars, NEW j \in Jti, Vouches(j)
  PROVE  Vouches(j)'
<1>1. Document[j].issued \in Nat
  BY CredentialAssumption DEF Credential
<1> QED
  BY <1>1, CacheMovesOn DEF Vouches

LEMMA StillRegistered ==
  ASSUME IInv, [Next]_vars, NEW p, principals'[p] = principals[p], Registered(p)
  PROVE  Registered(p)'
<1> SUFFICES ASSUME principals[p] # 0 PROVE Registered(p)'
  BY DEF Registered
<1>1. PICK j \in Jti : /\ Document[j].subject = p /\ Document[j].expires = principals[p]
                       /\ Vouches(j) /\ uses[j] > 0
  BY DEF Registered
<1>2. Vouches(j)' /\ uses'[j] > 0
  BY <1>1, StillVouches, CacheMovesOn
<1> QED
  BY <1>1, <1>2 DEF Registered

LEMMA CredentialInductive == KInv /\ [CredentialNext]_<<vars, requests>> => KInv'
<1> SUFFICES ASSUME KInv, [CredentialNext]_<<vars, requests>> PROVE KInv'
  OBVIOUS
<1>1. [Next]_vars /\ IInv
  BY AuthenticationStep DEF KInv
<1>2. IInv'
  BY <1>1, NextInv
<1>3. \A j \in Jti : (Vouches(j) => Vouches(j)') /\ (uses[j] > 0 => uses'[j] > 0)
  BY <1>1, StillVouches, CacheMovesOn
<1>4. /\ \A r \in arrived \cup proven : r.by \in Call /\ r.jti \in Jti
      /\ \A k \in checks : k.by \in Call /\ k.jti \in Jti
  BY <1>1 DEF KInv, CredentialTypeOK, Request, IInv, TypeOK, Check
<1>5. \A p \in Principal : principals'[p] = principals[p] => Registered(p)'
  BY <1>1, StillRegistered DEF KInv
<1> DEFINE Carries == /\ CredentialTypeOK'
                      /\ \A r \in arrived' \cup proven' : Vouches(r.jti)'
                      /\ \A k \in checks' : Vouches(k.jti)'
                      /\ \A r \in proven' : uses'[r.jti] > 0
<1>6. ASSUME Carries, UNCHANGED principals PROVE KInv'
  BY <1>2, <1>5, <1>6 DEF KInv
<1>7. CASE Pass \/ UNCHANGED <<vars, requests>> \/ \E p \in Principal : SetDisabled(p)
  <2>1. UNCHANGED <<arrived, proven, checks, principals>> /\ disabled' \in SUBSET Principal
    BY <1>7 DEF Pass, Tick, SetDisabled, requests, vars, KInv, CredentialTypeOK
  <2> QED
    BY <1>3, <1>4, <1>6, <2>1 DEF KInv, CredentialTypeOK
<1>8. ASSUME NEW c \in Call, NEW j \in Jti, Arrive(c, j) PROVE KInv'
  <2>1. /\ Vouches(j) /\ arrived' = arrived \cup {[by |-> c, jti |-> j]}
        /\ UNCHANGED <<proven, checks, principals, disabled>>
    BY <1>8 DEF Arrive, Verify, Vouches, vars
  <2>2. CredentialTypeOK'
    BY <2>1 DEF KInv, CredentialTypeOK, Request
  <2> QED
    BY <1>3, <1>4, <1>6, <2>1, <2>2 DEF KInv
<1>9. ASSUME NEW r \in arrived, Prove(r) PROVE KInv'
  <2>1. /\ arrived' = arrived \ {r} /\ UNCHANGED <<proven, principals, disabled>>
        /\ \A k \in checks' : k \in checks \/ k.jti = r.jti
    BY <1>9 DEF Prove, Present, vars
  <2>2. CredentialTypeOK'
    BY <2>1 DEF KInv, CredentialTypeOK
  <2> QED
    BY <1>3, <1>4, <1>6, <2>1, <2>2 DEF KInv
<1>10. ASSUME NEW k \in checks, Spend(k) PROVE KInv'
  <2>1. /\ UNCHANGED <<arrived, principals, disabled>> /\ checks' \subseteq checks
        /\ proven' = IF uses' # uses THEN proven \cup {[by |-> k.by, jti |-> k.jti]} ELSE proven
    BY <1>10 DEF Spend, Use
  <2>2. CredentialTypeOK'
    BY <1>4, <2>1 DEF KInv, CredentialTypeOK, Request
  <2>3. uses' # uses => uses'[k.jti] > 0
    <3>1. uses' = uses \/ uses' = [uses EXCEPT ![k.jti] = @ + 1]
      BY <1>1, <1>10, UseStep DEF Spend
    <3> QED
      BY <1>1, <1>4, <3>1 DEF IInv, TypeOK
  <2>4. /\ \A r \in proven' : r \in proven \/ (r.jti = k.jti /\ uses' # uses)
        /\ \A r \in arrived' : r \in arrived
    BY <2>1
  <2> QED
    BY <1>3, <1>4, <1>6, <2>1, <2>2, <2>3, <2>4 DEF KInv
<1>11. ASSUME NEW r \in proven, Register(r) PROVE KInv'
  <2> DEFINE d == Document[r.jti]
  <2>1. /\ proven' = proven \ {r} /\ UNCHANGED <<arrived, disabled, checks, uses, clock>>
        /\ principals' = IF d.subject \in disabled THEN principals
                         ELSE [principals EXCEPT ![d.subject] = d.expires]
    BY <1>11 DEF Register, vars
  <2>2. d \in Credential
    BY <1>4, CredentialAssumption
  <2>3. Vouches(r.jti)' /\ uses'[r.jti] > 0
    BY <1>3, <1>4 DEF KInv
  <2>4. CredentialTypeOK'
    BY <2>1, <2>2 DEF KInv, CredentialTypeOK, Credential
  <2>5. ASSUME NEW p \in Principal PROVE Registered(p)'
    <3>1. CASE principals'[p] = principals[p]
      BY <1>5, <3>1
    <3>2. CASE p = d.subject /\ principals'[p] = d.expires
      BY <1>4, <2>3, <3>2 DEF Registered
    <3> QED
      BY <2>1, <3>1, <3>2 DEF KInv, CredentialTypeOK
  <2> QED
    BY <1>2, <1>3, <1>4, <2>1, <2>4, <2>5 DEF KInv
<1> QED
  BY <1>7, <1>8, <1>9, <1>10, <1>11 DEF CredentialNext

LEMMA CredentialInvariance == CredentialSpec => []KInv
<1>1. CredentialInit => KInv
  <2> SUFFICES ASSUME CredentialInit PROVE KInv
    OBVIOUS
  <2>1. IInv
    BY InitInv DEF CredentialInit
  <2> QED
    BY <2>1 DEF CredentialInit, Init, KInv, CredentialTypeOK, Registered
<1> QED
  BY <1>1, CredentialInductive, PTL DEF CredentialSpec

(* Authentication uses the cache as ReplayCache describes, so that a holder proof *)
(* is accepted again only as ReplayOnlyByOvertaking says.                         *)
THEOREM CredentialUsesCache == CredentialSpec => Spec
<1>1. CredentialInit => Init
  BY DEF CredentialInit
<1>2. KInv /\ [CredentialNext]_<<vars, requests>> => [Next]_vars
  BY AuthenticationStep
<1> QED
  BY <1>1, <1>2, CredentialInvariance, PTL DEF CredentialSpec, Spec

(* A principal's key answers only while a credential that a trusted issuer gave  *)
(* that principal is within its window and has been presented by its holder, for *)
(* any number of requests held up for any time between their steps.              *)
THEOREM KeysDieWithCredentials == CredentialSpec => []KeyDiesWithCredential
<1>1. KInv => KeyDiesWithCredential
  <2> SUFFICES ASSUME KInv, NEW p \in Principal, PrincipalKey(p)
               PROVE  \E j \in Jti : /\ Document[j].subject = p /\ Verify(Document[j], clock)
                                     /\ uses[j] > 0
    BY DEF KeyDiesWithCredential
  <2>1. principals[p] # 0
    BY DEF PrincipalKey, KInv, IInv, TypeOK, CredentialTypeOK
  <2> QED
    BY <2>1 DEF KInv, Registered, Vouches, Verify, PrincipalKey
<1> QED
  BY <1>1, CredentialInvariance, PTL
=============================================================================
