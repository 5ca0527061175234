--------------------------- MODULE KillSwitchProofs ---------------------------
(***************************************************************************)
(* Proofs about KillSwitch, for every set of replicas, ids, writers and    *)
(* batches and every timing.                                               *)
(***************************************************************************)
EXTENDS KillSwitch, TLAPS

USE ConstantsAssumption

LEMMA InitType == Init => TypeOK
  BY DEF Init, TypeOK, Write, NoWrite

LEMMA NextType == TypeOK /\ [Next]_vars => TypeOK'
<1> SUFFICES ASSUME TypeOK, [Next]_vars PROVE TypeOK'
  OBVIOUS
<1> USE DEF TypeOK
<1>1. CASE Tick
  BY <1>1 DEF Tick, listVars, storeVars, sourceVars, healthVars
<1>2. ASSUME NEW op \in Op, NEW ids \in Batch, SourceWrite(op, ids) PROVE TypeOK'
  BY <1>2 DEF SourceWrite, ApplyBatch, listVars, storeVars, healthVars
<1>3. CASE SourceFails \/ SourceRecovers
  BY <1>3 DEF SourceFails, SourceRecovers, listVars, storeVars, sourceVars
<1>4. ASSUME NEW r \in Replica, StartStore(r) PROVE TypeOK'
  BY <1>4 DEF StartStore, storeVars, sourceVars, healthVars
<1>5. ASSUME NEW r \in Replica, BeginRefresh(r) PROVE TypeOK'
  <2>1. NextDue(due[r]) \in Nat
    BY <1>5 DEF BeginRefresh, NextDue
  <2> QED BY <1>5, <2>1 DEF BeginRefresh, storeVars, sourceVars, healthVars
<1>6. ASSUME NEW r \in Replica, ListReads(r) PROVE TypeOK'
  BY <1>6 DEF ListReads, storeVars, sourceVars, healthVars
<1>7. ASSUME NEW r \in Replica, RefreshOK(r) PROVE TypeOK'
  BY <1>7 DEF RefreshOK, sourceVars, healthVars
<1>8. ASSUME NEW r \in Replica, RefreshFailed(r) PROVE TypeOK'
  BY <1>8 DEF RefreshFailed, sourceVars, healthVars
<1>9. ASSUME NEW r \in Replica, Crash(r) PROVE TypeOK'
  BY <1>9 DEF Crash, sourceVars, healthVars, NoWrite, Write
<1>10. ASSUME NEW w \in Writer, NEW op \in Op, NEW ids \in Batch, LocalWrite(w, op, ids)
       PROVE TypeOK'
  BY <1>10 DEF LocalWrite, ApplyBatch, Write, listVars, storeVars, healthVars
<1>11. ASSUME NEW w \in Writer, LocalApply(w) PROVE TypeOK'
  BY <1>11 DEF LocalApply, NoWrite, Write, listVars, sourceVars, healthVars
<1>12. CASE UNCHANGED vars
  BY <1>12 DEF vars, listVars, storeVars, sourceVars, healthVars
<1> QED
  BY <1>1, <1>2, <1>3, <1>4, <1>5, <1>6, <1>7, <1>8, <1>9, <1>10, <1>11, <1>12 DEF Next

(* Every variable keeps its type. *)
THEOREM TypeCorrect == Spec => []TypeOK
  BY InitType, NextType, PTL DEF Spec

-----------------------------------------------------------------------------
(* The inductive invariant is the type invariant with SnapshotsTrackSource. *)

LEMMA InitTracks == Init => SnapshotsTrackSource
  BY DEF Init, SnapshotsTrackSource, NoWrite

LEMMA NextTracks == TypeOK /\ SnapshotsTrackSource /\ [Next]_vars => SnapshotsTrackSource'
<1> SUFFICES ASSUME TypeOK, SnapshotsTrackSource, [Next]_vars PROVE SnapshotsTrackSource'
  OBVIOUS
<1> USE DEF TypeOK, SnapshotsTrackSource, Write
<1>1. CASE Tick
  BY <1>1 DEF Tick, listVars, storeVars, sourceVars
<1>2. ASSUME NEW op \in Op, NEW ids \in Batch, SourceWrite(op, ids)
      PROVE  SnapshotsTrackSource'
  BY <1>2 DEF SourceWrite, ApplyBatch, listVars, storeVars
<1>3. CASE SourceFails \/ SourceRecovers
  BY <1>3 DEF SourceFails, SourceRecovers, listVars, storeVars, sourceVars
<1>4. ASSUME NEW r \in Replica, StartStore(r) PROVE SnapshotsTrackSource'
  BY <1>4 DEF StartStore, storeVars, sourceVars
<1>5. ASSUME NEW r \in Replica, BeginRefresh(r) PROVE SnapshotsTrackSource'
  BY <1>5 DEF BeginRefresh, storeVars, sourceVars
<1>6. ASSUME NEW r \in Replica, ListReads(r) PROVE SnapshotsTrackSource'
  BY <1>6 DEF ListReads, storeVars, sourceVars
<1>7. ASSUME NEW r \in Replica, RefreshOK(r) PROVE SnapshotsTrackSource'
  BY <1>7 DEF RefreshOK, sourceVars
<1>8. ASSUME NEW r \in Replica, RefreshFailed(r) PROVE SnapshotsTrackSource'
  BY <1>8 DEF RefreshFailed, sourceVars
<1>9. ASSUME NEW r \in Replica, Crash(r) PROVE SnapshotsTrackSource'
  BY <1>9 DEF Crash, sourceVars, NoWrite
<1>10. ASSUME NEW w \in Writer, NEW op \in Op, NEW ids \in Batch, LocalWrite(w, op, ids)
       PROVE  SnapshotsTrackSource'
  BY <1>10 DEF LocalWrite, ApplyBatch, listVars, storeVars
<1>11. ASSUME NEW w \in Writer, LocalApply(w) PROVE SnapshotsTrackSource'
  BY <1>11 DEF LocalApply, NoWrite, listVars, sourceVars
<1>12. CASE UNCHANGED vars
  BY <1>12 DEF vars, listVars, storeVars, sourceVars
<1> QED
  BY <1>1, <1>2, <1>3, <1>4, <1>5, <1>6, <1>7, <1>8, <1>9, <1>10, <1>11, <1>12 DEF Next

(* What a snapshot does not yet hold is recent, through every interleaving of *)
(* refreshes, writes through a store, outages and restarts.                   *)
THEOREM Tracking == Spec => []SnapshotsTrackSource
<1>1. Init => TypeOK /\ SnapshotsTrackSource
  BY InitType, InitTracks
<1>2. TypeOK /\ SnapshotsTrackSource /\ [Next]_vars => TypeOK' /\ SnapshotsTrackSource'
  BY NextType, NextTracks
<1> QED
  BY <1>1, <1>2, PTL DEF Spec

(* No gateway lets an id through that has been on the durable list for longer *)
(* than the staleness bound and one Source call.                              *)
THEOREM RevocationTakesEffect == Spec => []RevocationEffective
<1>1. TypeOK /\ SnapshotsTrackSource => RevocationEffective
  BY DEF TypeOK, SnapshotsTrackSource, RevocationEffective, Serves, CheckFresh, Staleness, Revoked
<1> QED
  BY <1>1, TypeCorrect, Tracking, PTL

-----------------------------------------------------------------------------
(* Batches: the Source, the reads in flight and the snapshots hold them whole. *)

Whole(ids) == \A b \in Batch : b \subseteq ids \/ b \cap ids = {}

Disjoint == \A a, b \in Batch : a # b => a \cap b = {}

AllWhole ==
    /\ Whole(source)
    /\ \A r \in Replica : Whole(got[r]) /\ Whole(snapshot[r])
    /\ \A w \in Writer : write[w].op # "none" => write[w].ids \in Batch

LEMMA BatchKeepsWhole ==
  ASSUME Disjoint, NEW ids, Whole(ids), NEW b \in Batch
  PROVE  Whole(ids \cup b) /\ Whole(ids \ b)
  BY DEF Disjoint, Whole

LEMMA InitWhole == Disjoint /\ Init => AllWhole
<1> SUFFICES ASSUME Disjoint, Init PROVE AllWhole
  OBVIOUS
<1>1. Whole(source)
  <2>1. PICK B \in SUBSET Batch : source = UNION B
    BY DEF Init
  <2> QED
    BY <2>1 DEF Whole, Disjoint
<1>2. \A r \in Replica : got[r] = {} /\ snapshot[r] = {}
  BY DEF Init
<1>3. \A w \in Writer : write[w].op = "none"
  BY DEF Init, NoWrite
<1> QED
  BY <1>1, <1>2, <1>3 DEF AllWhole, Whole

LEMMA NextWhole == Disjoint /\ TypeOK /\ AllWhole /\ [Next]_vars => AllWhole'
<1> SUFFICES ASSUME Disjoint, TypeOK, AllWhole, [Next]_vars PROVE AllWhole'
  OBVIOUS
<1>1. ASSUME NEW op, NEW ids \in Batch, ApplyBatch(op, ids) PROVE Whole(source)'
  <2>1. Whole(source \cup ids) /\ Whole(source \ ids)
    BY BatchKeepsWhole DEF AllWhole
  <2>2. source' = source \cup ids \/ source' = source \ ids
    BY <1>1 DEF ApplyBatch
  <2> QED
    BY <2>1, <2>2 DEF Whole
<1>2. ASSUME NEW op \in Op, NEW ids \in Batch, SourceWrite(op, ids) PROVE AllWhole'
  BY <1>1, <1>2 DEF SourceWrite, AllWhole, Whole, listVars, storeVars
<1>3. ASSUME NEW w \in Writer, NEW op \in Op, NEW ids \in Batch, LocalWrite(w, op, ids)
      PROVE  AllWhole'
  <2>1. Whole(source)'
    BY <1>1, <1>3 DEF LocalWrite
  <2>2. /\ UNCHANGED <<got, snapshot>>
        /\ write' = [write EXCEPT ![w] = [op |-> op, ids |-> ids, at |-> clock]]
    BY <1>3 DEF LocalWrite, listVars, storeVars
  <2>3. \A v \in Writer : write'[v].op # "none" => write'[v].ids \in Batch
    BY <2>2 DEF AllWhole, TypeOK
  <2> QED
    BY <2>1, <2>2, <2>3 DEF AllWhole, Whole
<1>4. ASSUME NEW w \in Writer, LocalApply(w) PROVE AllWhole'
  <2>1. /\ UNCHANGED <<source, got>> /\ write' = [write EXCEPT ![w] = NoWrite]
        /\ write[w].op # "none"
        /\ snapshot' = [snapshot EXCEPT ![Home[w]] =
               IF write[w].op = "revoke" THEN @ \cup write[w].ids ELSE @ \ write[w].ids]
    BY <1>4 DEF LocalApply, sourceVars, listVars
  <2>2. ASSUME NEW r \in Replica PROVE Whole(snapshot[r])'
    <3>1. Whole(snapshot[r]) /\ write[w].ids \in Batch
      BY <2>1 DEF AllWhole
    <3>2. Whole(snapshot[r] \cup write[w].ids) /\ Whole(snapshot[r] \ write[w].ids)
      BY <3>1, BatchKeepsWhole
    <3>3. \/ snapshot'[r] = snapshot[r]
          \/ snapshot'[r] = snapshot[r] \cup write[w].ids
          \/ snapshot'[r] = snapshot[r] \ write[w].ids
      BY <2>1 DEF TypeOK
    <3> QED
      BY <3>1, <3>2, <3>3 DEF Whole
  <2>3. \A v \in Writer : write'[v].op # "none" => write'[v].ids \in Batch
    BY <2>1 DEF AllWhole, TypeOK, NoWrite
  <2> QED
    BY <2>1, <2>2, <2>3 DEF AllWhole, Whole
<1>5. ASSUME NEW r \in Replica, ListReads(r) \/ RefreshOK(r) \/ RefreshFailed(r) \/ Crash(r)
      PROVE  AllWhole'
  <2>1. /\ source' = source
        /\ \A v \in Writer : write'[v] = write[v] \/ write'[v] = NoWrite
        /\ \A q \in Replica : got'[q] = got[q] \/ got'[q] = {} \/ got'[q] = source
        /\ \A q \in Replica : snapshot'[q] = snapshot[q] \/ snapshot'[q] = {} \/ snapshot'[q] = got[q]
    BY <1>5 DEF ListReads, RefreshOK, RefreshFailed, Crash, sourceVars, storeVars, TypeOK
  <2>2. Whole({})
    BY DEF Whole
  <2> QED
    BY <2>1, <2>2 DEF AllWhole, Whole, NoWrite
<1>6. CASE Tick \/ SourceFails \/ SourceRecovers \/ UNCHANGED vars
           \/ \E r \in Replica : StartStore(r) \/ BeginRefresh(r)
  <2>1. UNCHANGED <<source, got, snapshot, write>>
    BY <1>6 DEF Tick, SourceFails, SourceRecovers, StartStore, BeginRefresh, vars, listVars,
      storeVars, sourceVars
  <2> QED
    BY <2>1 DEF AllWhole, Whole
<1> QED
  BY <1>2, <1>3, <1>4, <1>5, <1>6 DEF Next

(* A cascade is in force at a gateway whole or not at all, for any disjoint       *)
(* batches and any number of stores, writers and outages.                         *)
THEOREM WholeBatches == Spec => []BatchesLandWhole
<1>1. CASE Disjoint
  <2>1. Init => AllWhole
    BY <1>1, InitWhole
  <2>2. TypeOK /\ AllWhole /\ [Next]_vars => AllWhole'
    BY <1>1, NextWhole
  <2>3. AllWhole => BatchesLandWhole
    BY DEF AllWhole, Whole, BatchesLandWhole
  <2> QED
    BY <2>1, <2>2, <2>3, TypeCorrect, PTL DEF Spec
<1>2. CASE ~Disjoint
  <2>1. BatchesLandWhole
    BY <1>2 DEF Disjoint, BatchesLandWhole
  <2> QED
    BY <2>1, PTL
<1> QED
  BY <1>1, <1>2

-----------------------------------------------------------------------------
(* Availability: with a staleness bound that one refresh period and the Source *)
(* calls around it fit into, only an outage makes a replica deny everybody.    *)

RefreshFits ==
    MaxStale > 0 => MaxStale >= RefreshEvery + ListTimeout /\ MaxStale >= 2 * ListTimeout

(* The refresh loop of a store is never late: the next tick is at most a period  *)
(* away from the last refresh or the last good one, an idle loop has not slept   *)
(* past it, and a refresh since which no good one has come ended in an outage.   *)
LoopInTime(r) ==
    /\ due[r] <= began[r] + RefreshEvery \/ due[r] <= lastOK[r] + RefreshEvery
    /\ phase[r] = "idle" =>
        /\ clock <= due[r] \/ clock <= began[r] + ListTimeout
        /\ lastOK[r] < began[r] => ~healthy \/ began[r] <= healthySince
    /\ phase[r] # "idle" =>
        \/ ~healthy
        \/ began[r] <= lastOK[r] + RefreshEvery
        \/ began[r] <= lastOK[r] + ListTimeout
        \/ began[r] <= healthySince + RefreshEvery
        \/ began[r] <= healthySince + ListTimeout

LoopsInTime == \A r \in Replica : up[r] => LoopInTime(r)

LEMMA NextDueSoon ==
  ASSUME TypeOK, NEW t \in Nat, t <= clock
  PROVE  NextDue(t) \in Nat /\ NextDue(t) <= clock + RefreshEvery
<1> DEFINE d == clock - t
<1>0. d \in Nat
  BY DEF TypeOK
<1> HIDE DEF d
<1>1. PICK k \in Nat : k = d \div RefreshEvery
  <2>1. d \div RefreshEvery \in Nat
    BY <1>0
  <2> QED
    BY <2>1
<1>2. k * RefreshEvery <= d /\ k * RefreshEvery \in Nat
  BY <1>0, <1>1
<1>3. (k + 1) * RefreshEvery = k * RefreshEvery + RefreshEvery
  BY <1>1
<1> QED
  BY <1>0, <1>1, <1>2, <1>3 DEF NextDue, TypeOK, d

LEMMA NextLoops ==
  TypeOK /\ SnapshotsTrackSource /\ LoopsInTime /\ [Next]_vars => LoopsInTime'
<1> SUFFICES ASSUME TypeOK, SnapshotsTrackSource, LoopsInTime, [Next]_vars,
                    NEW r \in Replica, up'[r]
             PROVE  LoopInTime(r)'
  BY DEF LoopsInTime
<1> DEFINE Tracked == /\ lastOK[r] <= clock /\ began[r] <= clock
                      /\ phase[r] # "idle" => clock <= began[r] + ListTimeout
<1>1. /\ clock \in Nat /\ healthy \in BOOLEAN /\ healthySince \in Nat
      /\ began[r] \in Nat /\ due[r] \in Nat /\ lastOK[r] \in Nat
      /\ phase[r] \in {"idle", "listing", "read"}
      /\ Tracked
  BY DEF TypeOK, SnapshotsTrackSource
<1>2. up[r] => LoopInTime(r)
  BY DEF LoopsInTime
<1>3. CASE Tick
  <2>1. /\ UNCHANGED <<up, phase, began, due, lastOK, healthy, healthySince>>
        /\ clock' = clock + 1
        /\ up[r] /\ phase[r] = "idle" => clock < due[r]
    BY <1>3 DEF Tick, listVars, storeVars, healthVars
  <2> QED
    BY <1>1, <1>2, <2>1 DEF LoopInTime
<1>4. CASE SourceFails \/ SourceRecovers
  <2>1. /\ UNCHANGED <<up, phase, began, due, lastOK, clock>>
        /\ \/ ~healthy'
           \/ healthySince' = clock
    BY <1>4 DEF SourceFails, SourceRecovers, listVars, storeVars
  <2> QED
    BY <1>1, <1>2, <2>1 DEF LoopInTime
<1>5. CASE BeginRefresh(r)
  <2>1. /\ up[r] /\ phase[r] = "idle" /\ due[r] <= clock
        /\ phase'[r] = "listing" /\ began'[r] = clock /\ due'[r] = NextDue(due[r])
        /\ UNCHANGED <<clock, healthy, healthySince, lastOK>>
    BY <1>1, <1>5 DEF BeginRefresh, storeVars, healthVars, TypeOK
  <2>2. due'[r] \in Nat /\ due'[r] <= clock + RefreshEvery
    BY <1>1, <2>1, NextDueSoon
  <2>3. LoopInTime(r)
    BY <1>2, <2>1
  <2>4. \/ ~healthy
        \/ clock <= lastOK[r] + RefreshEvery
        \/ clock <= lastOK[r] + ListTimeout
        \/ clock <= healthySince + RefreshEvery
        \/ clock <= healthySince + ListTimeout
    BY <1>1, <2>1, <2>3 DEF LoopInTime
  <2> QED
    BY <2>1, <2>2, <2>4 DEF LoopInTime
<1>6. CASE RefreshOK(r)
  <2>1. /\ phase[r] # "idle" /\ phase'[r] = "idle" /\ lastOK'[r] = clock
        /\ due'[r] = IF up[r] THEN due[r] ELSE clock + RefreshEvery
        /\ UNCHANGED <<clock, healthy, healthySince, began>>
    BY <1>6 DEF RefreshOK, healthVars, TypeOK
  <2> QED
    BY <1>1, <1>2, <2>1 DEF LoopInTime
<1>7. CASE RefreshFailed(r)
  <2>1. /\ phase[r] # "idle" /\ phase'[r] = "idle" /\ ~healthy
        /\ UNCHANGED <<clock, healthy, healthySince, began, due, lastOK, up>>
    BY <1>7 DEF RefreshFailed, healthVars, TypeOK
  <2> QED
    BY <1>1, <1>2, <2>1 DEF LoopInTime
<1>8. CASE ListReads(r)
  <2>1. /\ phase[r] # "idle" /\ phase'[r] # "idle"
        /\ UNCHANGED <<clock, healthy, healthySince, began, due, lastOK, up>>
    BY <1>8 DEF ListReads, healthVars, storeVars, TypeOK
  <2> QED
    BY <1>2, <2>1 DEF LoopInTime
<1>9. CASE StartStore(r) \/ Crash(r)
  <2>1. ~up'[r]
    BY <1>9 DEF StartStore, Crash, TypeOK
  <2> QED
    BY <2>1
<1>10. ASSUME NEW q \in Replica, q # r,
              \/ StartStore(q) \/ BeginRefresh(q) \/ ListReads(q) \/ RefreshOK(q)
              \/ RefreshFailed(q) \/ Crash(q)
       PROVE  LoopInTime(r)'
  <2>1. UNCHANGED <<clock, healthy, healthySince>>
    BY <1>10 DEF StartStore, BeginRefresh, ListReads, RefreshOK, RefreshFailed, Crash, healthVars
  <2>2. began'[r] = began[r] /\ phase'[r] = phase[r] /\ up'[r] = up[r]
    BY <1>10 DEF StartStore, BeginRefresh, ListReads, RefreshOK, RefreshFailed, Crash, TypeOK
  <2>3. due'[r] = due[r] /\ lastOK'[r] = lastOK[r]
    BY <1>10 DEF StartStore, BeginRefresh, ListReads, RefreshOK, RefreshFailed, Crash, storeVars,
      TypeOK
  <2> QED
    BY <1>2, <2>1, <2>2, <2>3 DEF LoopInTime
<1>11. CASE \/ UNCHANGED vars
            \/ \E op \in Op, ids \in Batch : SourceWrite(op, ids)
            \/ \E w \in Writer, op \in Op, ids \in Batch : LocalWrite(w, op, ids)
            \/ \E w \in Writer : LocalApply(w)
  <2>1. UNCHANGED <<clock, healthy, healthySince, began, due, lastOK, phase, up>>
    BY <1>11 DEF vars, SourceWrite, LocalWrite, LocalApply, healthVars, storeVars, listVars
  <2> QED
    BY <1>2, <2>1 DEF LoopInTime
<1> QED
  BY <1>3, <1>4, <1>5, <1>6, <1>7, <1>8, <1>9, <1>10, <1>11 DEF Next

(* A replica refuses everybody as stale only while the Source is down or the      *)
(* refresh cycle after its recovery is under way, for every timing in which a     *)
(* refresh period and the Source calls around it fit into the staleness bound.    *)
THEOREM OnlyOutagesDeny == RefreshFits => (Spec => []NoFalseDenial)
<1> SUFFICES ASSUME RefreshFits PROVE Spec => []NoFalseDenial
  OBVIOUS
<1>1. Init => LoopsInTime
  BY DEF Init, LoopsInTime
<1>2. TypeOK /\ SnapshotsTrackSource /\ LoopsInTime => NoFalseDenial
  <2> SUFFICES ASSUME TypeOK, SnapshotsTrackSource, LoopsInTime, NEW r \in Replica,
                      up[r], ~CheckFresh(r), healthy
               PROVE  clock - healthySince <= RefreshEvery + 2 * ListTimeout
    BY DEF NoFalseDenial, TypeOK
  <2>1. /\ clock \in Nat /\ healthySince \in Nat
        /\ began[r] \in Nat /\ due[r] \in Nat /\ lastOK[r] \in Nat
    BY DEF TypeOK
  <2>2. phase[r] # "idle" => clock <= began[r] + ListTimeout
    BY DEF SnapshotsTrackSource
  <2>3. clock > lastOK[r] + RefreshEvery + ListTimeout /\ clock > lastOK[r] + 2 * ListTimeout
    BY <2>1 DEF CheckFresh, Staleness, RefreshFits
  <2>4. LoopInTime(r)
    BY DEF LoopsInTime
  <2> QED
    BY <2>1, <2>2, <2>3, <2>4 DEF LoopInTime
<1> QED
  BY <1>1, <1>2, NextLoops, TypeCorrect, Tracking, PTL DEF Spec
=============================================================================
