---------------------------- MODULE GatewayProofs ----------------------------
(***************************************************************************)
(* Proofs about Gateway, for every number of replicas, requests, parties   *)
(* and reviews and every timing.  They build on KillSwitchProofs: the      *)
(* kill-switch keeps its invariant whatever the requests do.               *)
(***************************************************************************)
EXTENDS Gateway, KillSwitchProofs

USE GatewayAssumption

LEMMA BatchEffect ==
  ASSUME TypeOK, NEW op, NEW ids \in SUBSET Id, ApplyBatch(op, ids)
  PROVE  \A i \in source' : (i \in source /\ since'[i] = since[i]) \/ since'[i] = clock
<1> SUFFICES ASSUME NEW i \in source'
             PROVE  (i \in source /\ since'[i] = since[i]) \/ since'[i] = clock
  OBVIOUS
<1>1. i \in source \/ (op = "revoke" /\ i \in ids)
  BY DEF ApplyBatch
<1>2. i \in Id
  BY <1>1 DEF TypeOK
<1>3. since'[i] = IF op = "revoke" /\ i \in ids \ source THEN clock ELSE since[i]
  BY <1>2 DEF ApplyBatch
<1> QED
  BY <1>1, <1>3

(* What a step of the kill-switch may do to the state a request depends on. *)
LEMMA KillSwitchEffect ==
  ASSUME TypeOK, SnapshotsTrackSource, Next
  PROVE  /\ clock' \in {clock, clock + 1}
         /\ \A i \in source' : (i \in source /\ since'[i] = since[i]) \/ since'[i] = clock
         /\ \A r \in Replica : lastOK[r] <= lastOK'[r]
<1> DEFINE Effect == /\ clock' \in {clock, clock + 1}
                     /\ \A i \in source' :
                            (i \in source /\ since'[i] = since[i]) \/ since'[i] = clock
                     /\ \A r \in Replica : lastOK[r] <= lastOK'[r]
<1>1. CASE Tick
  BY <1>1 DEF Tick, TypeOK, storeVars, sourceVars
<1>2. ASSUME NEW op \in Op, NEW ids \in Batch, SourceWrite(op, ids) PROVE Effect
  <2>1. ids \in SUBSET Id
    BY ConstantsAssumption
  <2>2. ApplyBatch(op, ids) /\ clock' = clock /\ lastOK' = lastOK
    BY <1>2 DEF SourceWrite, storeVars
  <2>3. \A i \in source' : (i \in source /\ since'[i] = since[i]) \/ since'[i] = clock
    BY <2>1, <2>2, BatchEffect
  <2> QED
    BY <2>2, <2>3 DEF TypeOK
<1>3. CASE SourceFails \/ SourceRecovers
  BY <1>3 DEF SourceFails, SourceRecovers, TypeOK, storeVars, sourceVars
<1>4. ASSUME NEW r \in Replica,
             StartStore(r) \/ BeginRefresh(r) \/ ListReads(r) \/ RefreshFailed(r) \/ Crash(r)
      PROVE  Effect
  BY <1>4
  DEF StartStore, BeginRefresh, ListReads, RefreshFailed, Crash, TypeOK, storeVars, sourceVars
<1>5. ASSUME NEW r \in Replica, RefreshOK(r) PROVE Effect
  BY <1>5 DEF RefreshOK, TypeOK, SnapshotsTrackSource, sourceVars
<1>6. ASSUME NEW w \in Writer, NEW op \in Op, NEW ids \in Batch, LocalWrite(w, op, ids)
      PROVE  Effect
  <2>1. ids \in SUBSET Id
    BY ConstantsAssumption
  <2>2. ApplyBatch(op, ids) /\ clock' = clock /\ lastOK' = lastOK
    BY <1>6 DEF LocalWrite, storeVars
  <2>3. \A i \in source' : (i \in source /\ since'[i] = since[i]) \/ since'[i] = clock
    BY <2>1, <2>2, BatchEffect
  <2> QED
    BY <2>2, <2>3 DEF TypeOK
<1>7. ASSUME NEW w \in Writer, LocalApply(w) PROVE Effect
  BY <1>7 DEF LocalApply, TypeOK, sourceVars
<1> QED
  BY <1>1, <1>2, <1>3, <1>4, <1>5, <1>6, <1>7 DEF Next

-----------------------------------------------------------------------------
(* Types of the request's own variables. *)

LEMMA KillSwitchKeeps ==
  ASSUME TypeOK, SnapshotsTrackSource, [GatewayNext]_allVars
  PROVE  TypeOK' /\ SnapshotsTrackSource'
<1>1. [Next]_vars
  <2>1. CASE KillSwitchStep
    BY <2>1 DEF KillSwitchStep
  <2>2. ASSUME NEW q \in Request, RequestStep(q) PROVE UNCHANGED vars
    BY <2>2 DEF RequestStep, NotFound, RefuseEarly, Arrive, Principal, Identity,
      CheckFreshness, CheckPrincipal, CheckAgent, DecideAction, NextAction, Hold,
      Approve, Abandon, Mint, AuditAllow, Forward, Respond, Refuse, Continue
  <2> QED
    BY <2>1, <2>2 DEF GatewayNext, allVars
<1> QED
  BY <1>1, NextType, NextTracks

-----------------------------------------------------------------------------
(* Types, and the plan that is never run past its end. *)

GTypes ==
    /\ pc \in [Request -> Stages]
    /\ plan \in [Request -> Seq({"allow", "deny", "review", "outside", "error"})]
    /\ checked \in [Request -> Nat]
    /\ reviews \in [Request -> Nat]
    /\ heldSince \in [Request -> Nat]
    /\ passport \in SUBSET Request
    /\ expiry \in [Request -> Nat]
    /\ lag \in [Request -> SUBSET Nat]
    /\ audited \in [Request -> Seq({"allow", "deny"})]

(* The three forms every step of a request is built from. *)
LEMMA RefuseKeeps == ASSUME GTypes, WholePlanAllowed, NEW q \in Request, Refuse(q)
                     PROVE  GTypes' /\ WholePlanAllowed'
<1>1. audited' \in [Request -> Seq({"allow", "deny"})]
  BY DEF GTypes, Refuse, Audit
<1> QED
  BY <1>1 DEF GTypes, WholePlanAllowed, Refuse, Goto, Stages, Waiting

LEMMA ContinueKeeps == ASSUME GTypes, WholePlanAllowed, NEW q \in Request, NEW s \in Stages,
                              pc[q] # "idle" \/ s = "answered",
                              pc[q] \in {"principal", "identity", "revokedPrincipal",
                                         "revokedAgent"} \/ s \in {"answered", "forward", "forwarded"},
                              s # "mint",
                              Continue(q, s)
                       PROVE  GTypes' /\ WholePlanAllowed'
  BY DEF GTypes, WholePlanAllowed, Continue, Goto, Stages, Waiting

LEMMA NextActionKeeps == ASSUME GTypes, WholePlanAllowed, NEW q \in Request,
                                pc[q] \in {"policy", "held"}, NextAction(q)
                         PROVE  GTypes' /\ WholePlanAllowed'
<1>1. plan[q] # <<>> /\ plan[q] \in Seq({"allow", "deny", "review", "outside", "error"})
  BY DEF GTypes, WholePlanAllowed
<1>2. Tail(plan[q]) \in Seq({"allow", "deny", "review", "outside", "error"})
  BY <1>1
<1> QED
  BY <1>2 DEF GTypes, WholePlanAllowed, NextAction, Goto, Stages, Waiting

LEMMA TypesKept ==
  ASSUME TypeOK, SnapshotsTrackSource, GTypes, WholePlanAllowed, [GatewayNext]_allVars
  PROVE  GTypes' /\ WholePlanAllowed'
<1>1. CASE KillSwitchStep
  BY <1>1 DEF KillSwitchStep, GTypes, WholePlanAllowed, Stages, Waiting
<1>2. CASE UNCHANGED allVars
  BY <1>2 DEF allVars, gatewayVars, GTypes, WholePlanAllowed
<1>3. ASSUME NEW q \in Request, RequestStep(q) PROVE GTypes' /\ WholePlanAllowed'
  <2>1. ASSUME Refuse(q) PROVE GTypes' /\ WholePlanAllowed'
    BY <2>1, RefuseKeeps
  <2>2. CASE NotFound(q) \/ RefuseEarly(q) \/ Principal(q) \/ Identity(q)
               \/ CheckPrincipal(q) \/ CheckAgent(q) \/ Forward(q) \/ Respond(q)
    BY <2>1, <2>2, ContinueKeeps
    DEF NotFound, RefuseEarly, Principal, Identity, CheckPrincipal, CheckAgent, Forward,
      Respond, Stages, Waiting
  <2>3. ASSUME NEW p \in Plan, Arrive(q, p) PROVE GTypes' /\ WholePlanAllowed'
    BY <2>3 DEF Arrive, Goto, GTypes, WholePlanAllowed, Stages, Waiting
  <2>4. CASE CheckFreshness(q)
    <3>1. CASE ~CheckFresh(On[q])
      BY <2>1, <2>4, <3>1 DEF CheckFreshness
    <3>2. CASE CheckFresh(On[q])
      <4>1. /\ pc[q] = "fresh" /\ pc' = [pc EXCEPT ![q] = "revokedPrincipal"]
            /\ checked' = [checked EXCEPT ![q] = clock]
            /\ UNCHANGED <<plan, reviews, heldSince, passport, expiry, lag, audited>>
        BY <2>4, <3>2 DEF CheckFreshness, Goto
      <4> QED
        BY <4>1 DEF GTypes, WholePlanAllowed, Stages, Waiting, TypeOK
    <3> QED
      BY <3>1, <3>2
  <2>5. CASE DecideAction(q) \/ Abandon(q)
    <3>1. CASE Refuse(q)
      BY <2>1, <3>1
    <3>2. CASE NextAction(q) /\ pc[q] = "policy"
      BY <3>2, NextActionKeeps
    <3> QED
      BY <2>5, <3>1, <3>2 DEF DecideAction, Abandon
  <2>6. CASE Hold(q)
    <3>1. /\ pc[q] = "policy" /\ pc' = [pc EXCEPT ![q] = "held"]
          /\ heldSince' = [heldSince EXCEPT ![q] = clock]
          /\ reviews' = [reviews EXCEPT ![q] = reviews[q] + 1]
          /\ UNCHANGED <<plan, checked, passport, expiry, lag, audited>>
      BY <2>6 DEF Hold, Goto
    <3>2. clock \in Nat
      BY DEF TypeOK
    <3>3. GTypes'
      BY <3>1, <3>2 DEF GTypes, Stages, Waiting
    <3>4. WholePlanAllowed'
      BY <3>1 DEF GTypes, WholePlanAllowed
    <3> QED
      BY <3>3, <3>4
  <2>7. CASE Approve(q)
    BY <2>7, NextActionKeeps DEF Approve
  <2>8. CASE Mint(q)
    <3>1. CASE Refuse(q)
      BY <2>1, <3>1
    <3>2. CASE ~Refuse(q)
      <4>1. ListedFor(q) \in SUBSET Nat
        BY DEF ListedFor, TypeOK, SnapshotsTrackSource, Parties
      <4>2. /\ passport' = passport \cup {q} /\ lag' = [lag EXCEPT ![q] = ListedFor(q)]
            /\ expiry' = [expiry EXCEPT ![q] = clock + TTL] /\ clock + TTL \in Nat
            /\ pc' = [pc EXCEPT ![q] = "audit"]
            /\ UNCHANGED <<plan, checked, reviews, heldSince, audited>>
        BY <2>8, <3>2 DEF Mint, Goto, TypeOK
      <4> QED
        BY <4>1, <4>2 DEF GTypes, WholePlanAllowed, Stages, Waiting
    <3> QED
      BY <3>1, <3>2
  <2>9. CASE AuditAllow(q)
    <3>1. CASE q \notin passport
      BY <2>1, <2>9, <3>1 DEF AuditAllow
    <3>2. CASE q \in passport
      <4>1. /\ audited' = [audited EXCEPT ![q] = Append(@, "allow")]
            /\ pc' = [pc EXCEPT ![q] = "forward"]
            /\ UNCHANGED <<plan, checked, reviews, heldSince, passport, expiry, lag>>
        BY <2>9, <3>2 DEF AuditAllow, Audit, Goto
      <4>2. audited' \in [Request -> Seq({"allow", "deny"})]
        BY <4>1 DEF GTypes
      <4> QED
        BY <4>1, <4>2 DEF GTypes, WholePlanAllowed, Stages, Waiting
    <3> QED
      BY <3>1, <3>2
  <2> QED
    BY <1>3, <2>2, <2>3, <2>4, <2>5, <2>6, <2>7, <2>8, <2>9 DEF RequestStep
<1> QED
  BY <1>1, <1>2, <1>3 DEF GatewayNext

LEMMA GatewayInitial ==
  GatewayInit => TypeOK /\ SnapshotsTrackSource /\ GTypes /\ WholePlanAllowed
<1>1. GatewayInit => GTypes /\ WholePlanAllowed
  BY DEF GatewayInit, GTypes, WholePlanAllowed, Stages, Waiting
<1> QED
  BY <1>1, InitType, InitTracks DEF GatewayInit

LEMMA GatewayBase ==
  GatewaySpec => [](TypeOK /\ SnapshotsTrackSource /\ GTypes /\ WholePlanAllowed)
<1> DEFINE Base == TypeOK /\ SnapshotsTrackSource /\ GTypes /\ WholePlanAllowed
<1>1. GatewayInit => Base
  BY GatewayInitial
<1>2. Base /\ [GatewayNext]_allVars => Base'
  BY KillSwitchKeeps, TypesKept
<1> QED
  BY <1>1, <1>2, PTL DEF GatewaySpec

(* Every variable of the composition keeps its type. *)
THEOREM GatewayTypes == GatewaySpec => []GatewayTypeOK
<1>1. TypeOK /\ GTypes => GatewayTypeOK
  BY DEF GatewayTypeOK, GTypes
<1> QED
  BY <1>1, GatewayBase, PTL

(* No passport is minted before every action of its request was allowed. *)
THEOREM EveryActionDecided == GatewaySpec => []WholePlanAllowed
  BY GatewayBase, PTL

-----------------------------------------------------------------------------
(* The time between the revocation stage and the mint. *)

(* The constants but the plans, which the arithmetic below does not need. *)
LEMMA Parameters ==
    /\ On \in [Request -> Replica]
    /\ PrincipalOf \in [Request -> Id] /\ AgentOf \in [Request -> Id]
    /\ ApprovalTimeout \in Nat /\ TTL \in Nat \ {0}
  OBVIOUS

HIDE GatewayAssumption
USE Parameters

LEMMA Budget == \A n \in Nat : /\ n * ApprovalTimeout \in Nat
                               /\ (n + 1) * ApprovalTimeout = n * ApprovalTimeout + ApprovalTimeout
  OBVIOUS

(* A request a step does not concern stays screened. *)
LEMMA OtherScreened ==
  ASSUME NEW p \in Request, Screened(p), UNCHANGED vars,
         pc'[p] = pc[p], checked'[p] = checked[p], reviews'[p] = reviews[p],
         heldSince'[p] = heldSince[p]
  PROVE  Screened(p)'
<1>1. Allowance(p)' = Allowance(p)
  BY DEF Allowance
<1> QED
  BY <1>1 DEF Screened, CheckFresh, Staleness, vars, sourceVars, storeVars

(* A step that only moves the request keeps it screened, as long as the stage it *)
(* moves to claims no more than the one it leaves.                               *)
LEMMA MoveScreened ==
  ASSUME TypeOK, GTypes, NEW q \in Request, NEW s \in Stages, Screened(q), UNCHANGED vars,
         checked' = checked, reviews' = reviews, heldSince' = heldSince,
         pc' = [pc EXCEPT ![q] = s],
         s \in {"answered", "lost", "identity", "fresh", "principal", "audit", "forward", "forwarded"},
         s = "answered" \/ pc[q] \notin {"idle", "answered", "lost"}
  PROVE  Screened(q)'
<1>1. pc'[q] = s
  BY DEF GTypes
<1> QED
  BY <1>1 DEF Screened, vars

(* The steps of q touch nobody else and leave the kill-switch alone. *)
LEMMA RequestFrame ==
  ASSUME GTypes, NEW q \in Request, RequestStep(q)
  PROVE  /\ UNCHANGED vars
         /\ \A p \in Request \ {q} :
                /\ pc'[p] = pc[p] /\ checked'[p] = checked[p]
                /\ reviews'[p] = reviews[p] /\ heldSince'[p] = heldSince[p]
  BY DEF RequestStep, NotFound, RefuseEarly, Arrive, Principal, Identity, CheckFreshness,
    CheckPrincipal, CheckAgent, DecideAction, NextAction, Hold, Approve, Abandon, Mint,
    AuditAllow, Forward, Respond, Refuse, Continue, Goto, GTypes

LEMMA RefuseScreened ==
  ASSUME TypeOK, GTypes, NEW q \in Request, Screened(q), Refuse(q)
  PROVE  Screened(q)'
<1>1. /\ UNCHANGED vars /\ checked' = checked /\ reviews' = reviews /\ heldSince' = heldSince
      /\ pc' = [pc EXCEPT ![q] = "answered"]
  BY DEF Refuse, Goto
<1> QED
  BY <1>1, MoveScreened DEF Stages, Waiting

LEMMA NextActionScreened ==
  ASSUME TypeOK, GTypes, NEW q \in Request, Screened(q), NextAction(q),
         pc[q] \in {"policy", "held"}
  PROVE  Screened(q)'
<1>1. /\ UNCHANGED vars /\ checked' = checked /\ reviews' = reviews /\ heldSince' = heldSince
      /\ pc'[q] \in {"policy", "mint"}
  BY DEF NextAction, Goto, GTypes
<1>2. Allowance(q) \in Nat /\ ApprovalTimeout \in Nat
  BY Budget DEF GTypes, Allowance
<1>3. clock \in Nat /\ heldSince[q] \in Nat /\ checked[q] \in Nat
  BY DEF TypeOK, GTypes
<1>4. Allowance(q)' = Allowance(q)
  BY <1>1 DEF Allowance
<1>5. MaxStale > 0 /\ ApprovalTimeout > 0 => clock <= checked[q] + Allowance(q)
  BY <1>2, <1>3 DEF Screened
<1>6. /\ clock' = clock /\ source' = source /\ since' = since /\ up' = up
  BY <1>1 DEF vars, sourceVars
<1> QED
  BY <1>1, <1>4, <1>5, <1>6 DEF Screened

(* Whoever a fresh snapshot lets pass was listed within the kill-switch's bound. *)
LEMMA PassedInTime ==
  ASSUME TypeOK, SnapshotsTrackSource, MaxStale > 0, NEW r \in Replica, NEW i \in source,
         up[r], CheckFresh(r), ~Revoked(r, i)
  PROVE  clock <= since[i] + MaxStale + ListTimeout
<1>1. lastOK[r] <= since[i] + ListTimeout
  BY DEF SnapshotsTrackSource, Revoked
<1>2. clock - lastOK[r] <= MaxStale
  BY ConstantsAssumption DEF CheckFresh, Staleness
<1>3. clock \in Nat /\ since[i] \in Nat /\ lastOK[r] \in Int /\ MaxStale \in Nat /\ ListTimeout \in Nat
  BY ConstantsAssumption DEF TypeOK
<1> QED
  BY <1>1, <1>2, <1>3

LEMMA RequestScreened ==
  ASSUME TypeOK, SnapshotsTrackSource, GTypes, NEW q \in Request, Screened(q), RequestStep(q)
  PROVE  Screened(q)'
<1>1. CASE Refuse(q)
  BY <1>1, RefuseScreened
<1>2. ASSUME NEW s \in {"answered", "identity", "fresh", "forward", "forwarded"}, Continue(q, s),
             s = "answered" \/ pc[q] \notin {"idle", "answered", "lost"}
      PROVE  Screened(q)'
  <2>1. /\ UNCHANGED vars /\ checked' = checked /\ reviews' = reviews /\ heldSince' = heldSince
        /\ pc' = [pc EXCEPT ![q] = s]
    BY <1>2 DEF Continue, Goto
  <2> QED
    BY <1>2, <2>1, MoveScreened DEF Stages, Waiting
<1>3. CASE NotFound(q) \/ RefuseEarly(q) \/ Principal(q) \/ Identity(q) \/ Forward(q) \/ Respond(q)
  BY <1>1, <1>2, <1>3 DEF NotFound, RefuseEarly, Principal, Identity, Forward, Respond
<1>4. ASSUME NEW p \in Plan, Arrive(q, p) PROVE Screened(q)'
  <2>1. /\ UNCHANGED vars /\ checked' = checked /\ up[On[q]]
        /\ pc'[q] = "principal"
    BY <1>4 DEF Arrive, Goto, GTypes
  <2> QED
    BY <2>1 DEF Screened, vars
<1>5. CASE CheckFreshness(q) /\ ~Refuse(q)
  <2>1. /\ UNCHANGED vars /\ checked'[q] = clock /\ pc'[q] = "revokedPrincipal"
        /\ pc[q] = "fresh" /\ CheckFresh(On[q])
    BY <1>5 DEF CheckFreshness, Goto, GTypes
  <2>2. clock' = clock /\ up' = up /\ lastOK' = lastOK /\ clock \in Nat
    BY <2>1 DEF vars, storeVars, TypeOK
  <2>3. CheckFresh(On[q])'
    BY <2>1, <2>2 DEF CheckFresh, Staleness
  <2> QED
    BY <2>1, <2>2, <2>3 DEF Screened
<1>6. CASE CheckPrincipal(q) /\ ~Refuse(q)
  <2>1. /\ UNCHANGED vars /\ checked' = checked /\ pc'[q] = "revokedAgent"
        /\ pc[q] = "revokedPrincipal" /\ ~Revoked(On[q], PrincipalOf[q])
    BY <1>6 DEF CheckPrincipal, Continue, Goto, GTypes
  <2>2. MaxStale > 0 /\ PrincipalOf[q] \in source =>
            clock <= since[PrincipalOf[q]] + MaxStale + ListTimeout
    BY <2>1, PassedInTime DEF Screened
  <2> QED
    BY <2>1, <2>2 DEF Screened, vars, storeVars, sourceVars, CheckFresh, Staleness
<1>7. CASE CheckAgent(q) /\ ~Refuse(q)
  <2>1. /\ UNCHANGED vars /\ checked' = checked /\ pc'[q] = "policy" /\ reviews' = reviews
        /\ pc[q] = "revokedAgent" /\ ~Revoked(On[q], AgentOf[q])
    BY <1>7 DEF CheckAgent, Continue, Goto, GTypes
  <2>2. MaxStale > 0 /\ AgentOf[q] \in source =>
            clock <= since[AgentOf[q]] + MaxStale + ListTimeout
    BY <2>1, PassedInTime DEF Screened
  <2>3. Allowance(q) \in Nat /\ Allowance(q)' = Allowance(q)
    BY <2>1, Budget DEF GTypes, Allowance
  <2>4. clock <= checked[q] + Allowance(q)
    BY <2>1, <2>3 DEF Screened, TypeOK, GTypes
  <2> QED
    BY <2>1, <2>2, <2>3, <2>4 DEF Screened, vars, storeVars, sourceVars
<1>8. CASE (DecideAction(q) \/ Abandon(q) \/ Approve(q)) /\ ~Refuse(q)
  BY <1>8, NextActionScreened DEF DecideAction, Abandon, Approve
<1>9. CASE Hold(q)
  <2>1. /\ UNCHANGED vars /\ checked' = checked /\ pc'[q] = "held" /\ pc[q] = "policy"
        /\ reviews'[q] = reviews[q] + 1 /\ heldSince'[q] = clock
    BY <1>9 DEF Hold, Goto, GTypes
  <2>2. /\ Allowance(q) \in Nat
        /\ Allowance(q)' = Allowance(q) + ApprovalTimeout
    BY <2>1, Budget DEF GTypes, Allowance
  <2>3. /\ clock' = clock /\ source' = source /\ since' = since /\ up' = up
    BY <2>1 DEF vars, sourceVars
  <2>4. clock \in Nat /\ checked[q] \in Nat /\ ApprovalTimeout \in Nat
    BY DEF TypeOK, GTypes
  <2>5. MaxStale > 0 /\ ApprovalTimeout > 0 =>
            /\ clock <= clock + ApprovalTimeout
            /\ clock + ApprovalTimeout <= checked[q] + Allowance(q)'
    BY <2>1, <2>2, <2>4 DEF Screened
  <2> QED
    BY <2>1, <2>3, <2>5 DEF Screened
<1>10. CASE (Mint(q) \/ AuditAllow(q)) /\ ~Refuse(q)
  <2>1. /\ UNCHANGED vars /\ checked' = checked /\ reviews' = reviews /\ heldSince' = heldSince
        /\ pc[q] \in {"mint", "audit"}
        /\ pc' = [pc EXCEPT ![q] = "audit"] \/ pc' = [pc EXCEPT ![q] = "forward"]
    BY <1>10 DEF Mint, AuditAllow, Goto
  <2> QED
    BY <2>1, MoveScreened DEF Stages, Waiting
<1> QED
  BY <1>1, <1>3, <1>4, <1>5, <1>6, <1>7, <1>8, <1>9, <1>10 DEF RequestStep

(* A step of the kill-switch: time passes only for a request that waits, and an *)
(* id joins the list only now.                                                  *)
LEMMA KillSwitchScreened ==
  ASSUME TypeOK, SnapshotsTrackSource, GTypes, NEW q \in Request, Screened(q), KillSwitchStep
  PROVE  Screened(q)'
<1>1. /\ clock' \in {clock, clock + 1}
      /\ \A i \in source' : (i \in source /\ since'[i] = since[i]) \/ since'[i] = clock
      /\ \A r \in Replica : lastOK[r] <= lastOK'[r]
  BY KillSwitchEffect DEF KillSwitchStep
<1>2. /\ checked' = checked /\ reviews' = reviews /\ heldSince' = heldSince
      /\ pc'[q] = IF up[On[q]] /\ ~up'[On[q]] /\ pc[q] \notin {"idle", "answered"}
                  THEN "lost" ELSE pc[q]
      /\ clock' # clock => Quiet
  BY DEF KillSwitchStep
<1>3. TypeOK'
  BY NextType DEF KillSwitchStep
<1>6. clock \in Nat /\ checked[q] \in Nat /\ heldSince[q] \in Nat /\ ApprovalTimeout \in Nat
  BY DEF TypeOK, GTypes
<1>7. checked[q] <= clock'
  BY <1>1, <1>6 DEF Screened
<1>4. CASE pc'[q] = "lost" /\ pc[q] # "lost"
  BY <1>2, <1>4, <1>7 DEF Screened
<1>5. CASE pc'[q] = pc[q]
  <2>1. pc[q] \notin {"idle", "answered", "lost"} => up'[On[q]]
    BY <1>2, <1>5 DEF Screened
  <2>2. pc[q] \notin Waiting => clock' = clock
    BY <1>2 DEF Quiet
  <2>3. pc[q] \in {"revokedPrincipal", "revokedAgent"} => clock' = checked[q] /\ CheckFresh(On[q])'
    <3> SUFFICES ASSUME pc[q] \in {"revokedPrincipal", "revokedAgent"}
                 PROVE  clock' = checked[q] /\ CheckFresh(On[q])'
      OBVIOUS
    <3>1. clock' = clock /\ clock = checked[q] /\ CheckFresh(On[q])
      BY <2>2 DEF Screened, Waiting
    <3>2. On[q] \in Replica
      OBVIOUS
    <3>3. lastOK[On[q]] \in Int /\ lastOK'[On[q]] \in Int /\ lastOK[On[q]] <= lastOK'[On[q]]
      BY <1>1, <1>3, <3>2 DEF TypeOK
    <3> QED
      BY <1>6, <3>1, <3>3, ConstantsAssumption DEF CheckFresh, Staleness
  <2>4. ASSUME NEW i \in source', MaxStale > 0,
               i \in source => checked[q] <= since[i] + MaxStale + ListTimeout
        PROVE  checked[q] <= since'[i] + MaxStale + ListTimeout
    <3>1. CASE since'[i] = clock
      <4>1. checked[q] <= clock
        BY DEF Screened
      <4> QED
        BY <1>6, <3>1, <4>1, ConstantsAssumption
    <3> QED
      BY <1>1, <2>4, <3>1
  <2>5. pc[q] = "held" /\ ApprovalTimeout > 0 /\ MaxStale > 0 =>
            clock' <= heldSince[q] + ApprovalTimeout
    <3>1. clock' = clock \/ (pc[q] = "held" /\ ApprovalTimeout > 0 =>
                               clock < heldSince[q] + ApprovalTimeout)
      BY <1>2 DEF Quiet
    <3>2. pc[q] = "held" /\ ApprovalTimeout > 0 /\ MaxStale > 0 =>
              clock <= heldSince[q] + ApprovalTimeout
      BY DEF Screened
    <3>3. clock < heldSince[q] + ApprovalTimeout => clock + 1 <= heldSince[q] + ApprovalTimeout
      BY <1>6
    <3> QED
      BY <1>1, <3>1, <3>2, <3>3
  <2>6. Allowance(q)' = Allowance(q)
    BY <1>2 DEF Allowance
  <2>7. pc[q] \in {"policy", "mint"} => clock' = clock
    BY <2>2 DEF Waiting
  <2>8. MaxStale > 0 /\ ApprovalTimeout > 0 =>
          /\ pc[q] \in {"revokedAgent", "policy", "held", "mint"} /\ PrincipalOf[q] \in source' =>
                 checked[q] <= since'[PrincipalOf[q]] + MaxStale + ListTimeout
          /\ pc[q] \in {"policy", "held", "mint"} /\ AgentOf[q] \in source' =>
                 checked[q] <= since'[AgentOf[q]] + MaxStale + ListTimeout
    BY <2>4 DEF Screened
  <2>9. MaxStale > 0 /\ ApprovalTimeout > 0 =>
          /\ pc[q] \in {"policy", "mint"} => clock' <= checked[q] + Allowance(q)
          /\ pc[q] = "held" => heldSince[q] + ApprovalTimeout <= checked[q] + Allowance(q)
    BY <2>7 DEF Screened
  <2> QED
    BY <1>2, <1>5, <1>7, <2>1, <2>3, <2>5, <2>6, <2>8, <2>9 DEF Screened
<1> QED
  BY <1>2, <1>4, <1>5

LEMMA ScreenedKept ==
  ASSUME TypeOK, SnapshotsTrackSource, GTypes, ScreenedInTime, [GatewayNext]_allVars
  PROVE  ScreenedInTime'
<1>1. CASE KillSwitchStep
  BY <1>1, KillSwitchScreened DEF ScreenedInTime
<1>2. ASSUME NEW q \in Request, RequestStep(q) PROVE ScreenedInTime'
  <2>1. Screened(q)'
    BY <1>2, RequestScreened DEF ScreenedInTime
  <2>2. ASSUME NEW p \in Request \ {q} PROVE Screened(p)'
    BY <1>2, <2>2, RequestFrame, OtherScreened DEF ScreenedInTime
  <2> QED
    BY <2>1, <2>2 DEF ScreenedInTime
<1>3. ASSUME UNCHANGED allVars, NEW p \in Request PROVE Screened(p)'
  BY <1>3, OtherScreened DEF allVars, gatewayVars, ScreenedInTime
<1> QED
  BY <1>1, <1>2, <1>3 DEF GatewayNext, ScreenedInTime

LEMMA MintKept ==
  ASSUME TypeOK, SnapshotsTrackSource, GTypes, ScreenedInTime, MintedInTime,
         [GatewayNext]_allVars
  PROVE  MintedInTime'
<1> SUFFICES ASSUME MaxStale > 0, ApprovalTimeout > 0, NEW p \in passport', NEW age \in lag'[p]
             PROVE  age <= MaxStale + ListTimeout + Allowance(p)'
  BY DEF MintedInTime
<1>1. CASE UNCHANGED <<passport, lag, reviews>>
  <2>1. Allowance(p)' = Allowance(p)
    BY <1>1 DEF Allowance
  <2> QED
    BY <1>1, <2>1 DEF MintedInTime
<1>2. ASSUME NEW q \in Request, Hold(q) PROVE age <= MaxStale + ListTimeout + Allowance(p)'
  <2>1. /\ passport' = passport /\ lag' = lag
        /\ reviews' = [reviews EXCEPT ![q] = @ + 1]
    BY <1>2 DEF Hold
  <2>2. p \in Request /\ age <= MaxStale + ListTimeout + Allowance(p) /\ age \in Nat
    BY <2>1 DEF MintedInTime, GTypes
  <2>3. reviews'[p] = reviews[p] \/ reviews'[p] = reviews[p] + 1
    BY <2>1, <2>2 DEF GTypes
  <2>4. reviews[p] \in Nat /\ MaxStale \in Nat /\ ListTimeout \in Nat /\ ApprovalTimeout \in Nat
    BY <2>2, ConstantsAssumption DEF GTypes
  <2>5. /\ Allowance(p) \in Nat
        /\ Allowance(p)' = Allowance(p) \/ Allowance(p)' = Allowance(p) + ApprovalTimeout
    BY <2>3, <2>4, Budget DEF Allowance
  <2> QED
    BY <2>2, <2>4, <2>5
<1>3. ASSUME NEW q \in Request, Mint(q), ~Refuse(q)
      PROVE  age <= MaxStale + ListTimeout + Allowance(p)'
  <2>1. /\ pc[q] = "mint" /\ passport' = passport \cup {q}
        /\ lag' = [lag EXCEPT ![q] = ListedFor(q)] /\ reviews' = reviews
    BY <1>3 DEF Mint
  <2>4. Allowance(p)' = Allowance(p)
    BY <2>1 DEF Allowance
  <2>2. CASE p # q
    BY <2>1, <2>2, <2>4 DEF MintedInTime, GTypes
  <2>3. CASE p = q
    <3>1. PICK i \in Parties(q) \cap source : age = clock - since[i]
      BY <2>1, <2>3 DEF GTypes, ListedFor
    <3>2. /\ checked[q] <= since[i] + MaxStale + ListTimeout
          /\ clock <= checked[q] + Allowance(q)
      BY <2>1, <3>1 DEF ScreenedInTime, Screened, Parties
    <3>3. Allowance(q) \in Nat
      BY Budget DEF GTypes, Allowance
    <3>4. clock \in Nat /\ checked[q] \in Nat /\ since[i] \in Nat
      BY <3>1 DEF TypeOK, GTypes
    <3> DEFINE bound == since[i] + MaxStale + ListTimeout
               allowance == Allowance(q)
    <3>5. MaxStale \in Nat /\ ListTimeout \in Nat
      BY ConstantsAssumption
    <3>9. bound \in Nat
      BY <3>4, <3>5
    <3>6. checked[q] <= bound /\ clock <= checked[q] + allowance /\ allowance \in Nat
      BY <3>2, <3>3
    <3>7. clock - since[i] <= MaxStale + ListTimeout + allowance
          <=> clock <= bound + allowance
      BY <3>4, <3>5, <3>6
    <3> HIDE DEF bound, allowance
    <3>8. clock <= bound + allowance
      BY <3>4, <3>6, <3>9
    <3> QED
      BY <2>3, <2>4, <3>1, <3>7, <3>8 DEF allowance
  <2> QED
    BY <2>2, <2>3
<1>4. CASE KillSwitchStep \/ UNCHANGED allVars
  BY <1>1, <1>4 DEF KillSwitchStep, allVars, gatewayVars
<1>5. ASSUME NEW q \in Request, RequestStep(q), ~Hold(q), ~(Mint(q) /\ ~Refuse(q))
      PROVE  UNCHANGED <<passport, lag, reviews>>
  BY <1>5 DEF RequestStep, NotFound, RefuseEarly, Arrive, Principal, Identity, CheckFreshness,
    CheckPrincipal, CheckAgent, DecideAction, NextAction, Approve, Abandon,
    AuditAllow, Forward, Respond, Refuse, Continue
<1> QED
  BY <1>1, <1>2, <1>3, <1>4, <1>5 DEF GatewayNext

(* What is left of a passport's life, counted from when its parties were listed. *)
Outlives(q) ==
    q \in passport =>
        /\ expiry[q] <= clock + TTL
        /\ MaxStale > 0 /\ ApprovalTimeout > 0 =>
            \A i \in Parties(q) \cap source :
                expiry[q] <= since[i] + MaxStale + ListTimeout + Allowance(q) + TTL

Outlived == \A q \in Request : Outlives(q)

(* A listing during the passport's life, and the passing of time. *)
LEMMA KillSwitchOutlived ==
  ASSUME TypeOK, SnapshotsTrackSource, GTypes, NEW q \in Request, Outlives(q), KillSwitchStep
  PROVE  Outlives(q)'
<1>1. /\ clock' \in {clock, clock + 1}
      /\ \A i \in source' : (i \in source /\ since'[i] = since[i]) \/ since'[i] = clock
  BY KillSwitchEffect DEF KillSwitchStep
<1>2. /\ passport' = passport /\ expiry' = expiry /\ Allowance(q)' = Allowance(q)
  BY DEF KillSwitchStep, Allowance
<1>3. /\ clock \in Nat /\ expiry[q] \in Nat /\ Allowance(q) \in Nat
      /\ TTL \in Nat /\ MaxStale \in Nat /\ ListTimeout \in Nat
  BY Budget, ConstantsAssumption DEF TypeOK, GTypes, Allowance
<1> SUFFICES ASSUME q \in passport
             PROVE  /\ expiry[q] <= clock' + TTL
                    /\ MaxStale > 0 /\ ApprovalTimeout > 0 =>
                         \A i \in Parties(q) \cap source' :
                             expiry[q] <= since'[i] + MaxStale + ListTimeout + Allowance(q) + TTL
  BY <1>2 DEF Outlives, Parties
<1>4. expiry[q] <= clock + TTL
  BY DEF Outlives
<1>5. expiry[q] <= clock' + TTL
  BY <1>1, <1>3, <1>4
<1>6. ASSUME MaxStale > 0, ApprovalTimeout > 0, NEW i \in Parties(q) \cap source'
      PROVE  expiry[q] <= since'[i] + MaxStale + ListTimeout + Allowance(q) + TTL
  <2>1. CASE since'[i] = clock
    BY <1>3, <1>4, <2>1
  <2>2. CASE i \in source /\ since'[i] = since[i]
    BY <1>6, <2>2 DEF Outlives
  <2> QED
    BY <1>1, <2>1, <2>2
<1> QED
  BY <1>5, <1>6

LEMMA OutlivedKept ==
  ASSUME TypeOK, SnapshotsTrackSource, GTypes, ScreenedInTime, Outlived, [GatewayNext]_allVars
  PROVE  Outlived'
<1> SUFFICES ASSUME NEW p \in Request PROVE Outlives(p)'
  BY DEF Outlived
<1>1. /\ clock \in Nat /\ expiry[p] \in Nat /\ reviews[p] \in Nat /\ Allowance(p) \in Nat
      /\ TTL \in Nat /\ MaxStale \in Nat /\ ListTimeout \in Nat /\ ApprovalTimeout \in Nat
      /\ \A i \in Id : since[i] \in Nat
      /\ Parties(p) \subseteq Id
  BY Budget, ConstantsAssumption DEF TypeOK, GTypes, Allowance, Parties
<1>2. Outlives(p)
  BY DEF Outlived
<1>3. ASSUME UNCHANGED vars, passport' = passport, expiry' = expiry,
             reviews'[p] = reviews[p] \/ reviews'[p] = reviews[p] + 1
      PROVE  Outlives(p)'
  <2>1. Allowance(p)' = Allowance(p) \/ Allowance(p)' = Allowance(p) + ApprovalTimeout
    BY <1>1, <1>3, Budget DEF Allowance
  <2>2. clock' = clock /\ source' = source /\ since' = since
    BY <1>3 DEF vars, sourceVars
  <2>3. ASSUME p \in passport, MaxStale > 0, ApprovalTimeout > 0, NEW i \in Parties(p) \cap source
        PROVE  expiry[p] <= since[i] + MaxStale + ListTimeout + Allowance(p)' + TTL
    <3>1. expiry[p] <= since[i] + MaxStale + ListTimeout + Allowance(p) + TTL
      BY <1>2, <2>3 DEF Outlives
    <3>2. since[i] \in Nat
      BY <1>1
    <3> DEFINE bound == since[i] + MaxStale + ListTimeout
               allowance == Allowance(p)
               after == Allowance(p)'
    <3>3. bound \in Nat /\ allowance \in Nat /\ expiry[p] \in Nat
      BY <1>1, <3>2
    <3>4. expiry[p] <= bound + allowance + TTL
      BY <3>1
    <3>5. after = allowance \/ after = allowance + ApprovalTimeout
      BY <2>1
    <3> HIDE DEF bound, allowance, after
    <3>6. expiry[p] <= bound + after + TTL
      BY <3>3, <3>4, <3>5
    <3> QED
      BY <3>6 DEF bound, after
  <2>4. p \in passport => expiry[p] <= clock + TTL
    BY <1>2 DEF Outlives
  <2> QED
    BY <1>3, <2>2, <2>3, <2>4 DEF Outlives, Parties
<1>4. CASE KillSwitchStep
  BY <1>2, <1>4, KillSwitchOutlived
<1>5. ASSUME NEW q \in Request, Mint(q), ~Refuse(q) PROVE Outlives(p)'
  <2>1. /\ pc[q] = "mint" /\ passport' = passport \cup {q} /\ reviews' = reviews
        /\ expiry' = [expiry EXCEPT ![q] = clock + TTL] /\ UNCHANGED vars
    BY <1>5 DEF Mint
  <2>2. clock' = clock /\ source' = source /\ since' = since /\ Allowance(p)' = Allowance(p)
    BY <2>1 DEF vars, sourceVars, Allowance
  <2>3. CASE p # q
    BY <1>2, <2>1, <2>2, <2>3 DEF Outlives, Parties, GTypes
  <2>4. CASE p = q
    <3>1. expiry'[p] = clock + TTL
      BY <2>1, <2>4 DEF GTypes
    <3>2. ASSUME MaxStale > 0, ApprovalTimeout > 0, NEW i \in Parties(p) \cap source
          PROVE  clock <= since[i] + MaxStale + ListTimeout + Allowance(p)
      <4>1. /\ checked[p] <= since[i] + MaxStale + ListTimeout
            /\ clock <= checked[p] + Allowance(p)
        BY <2>1, <2>4, <3>2 DEF ScreenedInTime, Screened, Parties
      <4>2. checked[p] \in Nat /\ since[i] \in Nat
        BY <1>1 DEF GTypes
      <4> DEFINE bound == since[i] + MaxStale + ListTimeout
                 allowance == Allowance(p)
      <4>6. MaxStale \in Nat /\ ListTimeout \in Nat /\ allowance \in Nat /\ clock \in Nat
        BY <1>1
      <4>3. bound \in Nat
        BY <4>2, <4>6
      <4>4. checked[p] <= bound /\ clock <= checked[p] + allowance
        BY <4>1
      <4> HIDE DEF bound, allowance
      <4>5. clock <= bound + allowance
        BY <4>2, <4>3, <4>4, <4>6
      <4> QED
        BY <4>5 DEF bound, allowance
    <3>3. ASSUME MaxStale > 0, ApprovalTimeout > 0, NEW i \in Parties(p) \cap source
          PROVE  clock + TTL <= since[i] + MaxStale + ListTimeout + Allowance(p) + TTL
      <4> DEFINE bound == since[i] + MaxStale + ListTimeout + Allowance(p)
      <4>1. bound \in Nat
        BY <1>1, <3>3
      <4>2. clock <= bound
        BY <3>2, <3>3
      <4> HIDE DEF bound
      <4>3. clock + TTL <= bound + TTL
        BY <1>1, <4>1, <4>2
      <4> QED
        BY <4>3 DEF bound
    <3>4. expiry'[p] <= clock' + TTL
      BY <1>1, <2>2, <3>1
    <3>5. ASSUME MaxStale > 0, ApprovalTimeout > 0, NEW i \in Parties(p) \cap source'
          PROVE  expiry'[p] <= since'[i] + MaxStale + ListTimeout + Allowance(p)' + TTL
      BY <2>2, <3>1, <3>3, <3>5
    <3> QED
      BY <3>4, <3>5 DEF Outlives, Parties
  <2> QED
    BY <2>3, <2>4
<1>6. ASSUME NEW q \in Request, RequestStep(q), ~(Mint(q) /\ ~Refuse(q)) PROVE Outlives(p)'
  <2>1. UNCHANGED <<passport, expiry>> /\ UNCHANGED vars
    BY <1>6 DEF RequestStep, NotFound, RefuseEarly, Arrive, Principal, Identity, CheckFreshness,
      CheckPrincipal, CheckAgent, DecideAction, NextAction, Hold, Approve, Abandon,
      AuditAllow, Forward, Respond, Refuse, Continue
  <2>2. reviews' = reviews \/ reviews' = [reviews EXCEPT ![q] = @ + 1]
    BY <1>6 DEF RequestStep, NotFound, RefuseEarly, Arrive, Principal, Identity, CheckFreshness,
      CheckPrincipal, CheckAgent, DecideAction, NextAction, Hold, Approve, Abandon,
      AuditAllow, Forward, Respond, Refuse, Continue
  <2>3. reviews'[p] = reviews[p] \/ reviews'[p] = reviews[p] + 1
    BY <2>2 DEF GTypes
  <2> QED
    BY <1>3, <2>1, <2>3
<1>7. CASE UNCHANGED allVars
  BY <1>3, <1>7 DEF allVars, gatewayVars
<1> QED
  BY <1>4, <1>5, <1>6, <1>7 DEF GatewayNext

LEMMA GatewayTimely == GatewaySpec =>
    [](TypeOK /\ SnapshotsTrackSource /\ GTypes /\ ScreenedInTime /\ MintedInTime /\ Outlived)
<1> DEFINE Base == TypeOK /\ SnapshotsTrackSource /\ GTypes /\ WholePlanAllowed
           Timely == ScreenedInTime /\ MintedInTime /\ Outlived
<1>1. GatewayInit => Timely
  BY DEF GatewayInit, ScreenedInTime, Screened, MintedInTime, Outlived, Outlives, Init
<1>2. Base /\ Timely /\ [GatewayNext]_allVars => Timely'
  BY ScreenedKept, MintKept, OutlivedKept
<1> QED
  BY <1>1, <1>2, GatewayBase, PTL DEF GatewaySpec

(* Whoever revoke.Stage let pass was listed within the kill-switch's bound when it *)
(* ran, and the check is never older than the holds since.                         *)
THEOREM ScreeningIsTimely == GatewaySpec => []ScreenedInTime
  BY GatewayTimely, PTL

(* No passport is minted for a party that had been on the durable list for longer *)
(* than the kill-switch's bound and the time its request was held for review.     *)
THEOREM MintingIsTimely == GatewaySpec => []MintedInTime
  BY GatewayTimely, PTL

(* A resource server that verifies offline honours a listed party's passport for  *)
(* less than that bound and the passport's lifetime.                              *)
THEOREM HonouringIsTimely == GatewaySpec => []HonouredInTime
<1>1. TypeOK /\ GTypes /\ Outlived => HonouredInTime
  <2> SUFFICES ASSUME TypeOK, GTypes, Outlived, MaxStale > 0, ApprovalTimeout > 0,
                      NEW q \in Request, Accepts(q), NEW i \in Parties(q) \cap source
               PROVE  clock - since[i] < MaxStale + ListTimeout + Allowance(q) + TTL
    BY DEF HonouredInTime, ListedFor
  <2>1. /\ clock < expiry[q]
        /\ expiry[q] <= since[i] + MaxStale + ListTimeout + Allowance(q) + TTL
    BY DEF Accepts, Outlived, Outlives
  <2>2. /\ clock \in Nat /\ expiry[q] \in Nat /\ Allowance(q) \in Nat /\ since[i] \in Nat
        /\ TTL \in Nat /\ MaxStale \in Nat /\ ListTimeout \in Nat
    BY Budget, ConstantsAssumption DEF TypeOK, GTypes, Allowance
  <2> QED
    BY <2>1, <2>2
<1> QED
  BY <1>1, GatewayTimely, PTL

-----------------------------------------------------------------------------
(* One entry for each request. *)

Before == {"idle", "principal", "identity", "fresh", "revokedPrincipal", "revokedAgent",
           "policy", "held", "mint", "audit"}

Entry(q) ==
    /\ pc[q] \in Before => audited[q] = <<>>
    /\ pc[q] \in {"forward", "forwarded"} => audited[q] = <<"allow">> /\ q \in passport
    /\ pc[q] = "lost" => audited[q] \in {<<>>, <<"allow">>}
    /\ pc[q] = "answered" => audited[q] \in {<<>>, <<"allow">>, <<"deny">>}

LEMMA EntryKept ==
  ASSUME TypeOK, GTypes, NEW p \in Request, Entry(p), [GatewayNext]_allVars
  PROVE  Entry(p)'
<1>1. CASE KillSwitchStep
  <2>1. /\ UNCHANGED <<audited, passport>>
        /\ pc'[p] = pc[p] \/ (pc'[p] = "lost" /\ pc[p] \notin {"idle", "answered"})
    BY <1>1 DEF KillSwitchStep
  <2> QED
    BY <2>1 DEF Entry, Before, GTypes, Stages, Waiting
<1>2. CASE UNCHANGED allVars
  BY <1>2 DEF allVars, gatewayVars, Entry
<1>3. ASSUME NEW q \in Request, RequestStep(q) PROVE Entry(p)'
  <2>1. CASE p # q
    <3>1. pc'[p] = pc[p] /\ audited'[p] = audited[p] /\ (p \in passport => p \in passport')
      BY <1>3, <2>1 DEF RequestStep, NotFound, RefuseEarly, Arrive, Principal, Identity,
        CheckFreshness, CheckPrincipal, CheckAgent, DecideAction, NextAction, Hold, Approve,
        Abandon, Mint, AuditAllow, Forward, Respond, Refuse, Continue, Goto, Audit, GTypes
    <3> QED
      BY <3>1 DEF Entry
  <2>2. CASE p = q
    <3>1. ASSUME Refuse(q), pc[q] \in Before PROVE Entry(p)'
      <4>1. pc'[q] = "answered" /\ audited'[q] = Append(audited[q], "deny")
        BY <3>1 DEF Refuse, Goto, Audit, GTypes
      <4>2. audited[q] = <<>>
        BY <2>2, <3>1 DEF Entry
      <4>3. audited'[q] = <<"deny">>
        BY <4>1, <4>2
      <4> QED
        BY <2>2, <4>1, <4>3 DEF Entry, Before
    <3>2. ASSUME pc[q] \in Before, pc'[q] \in Before, audited' = audited PROVE Entry(p)'
      BY <2>2, <3>2 DEF Entry, Before
    <3>3. CASE NotFound(q) \/ RefuseEarly(q)
      <4>1. pc[q] = "idle" /\ (Refuse(q) \/ (pc'[q] = "answered" /\ audited' = audited))
        BY <3>3 DEF NotFound, RefuseEarly, Continue, Goto, GTypes
      <4> QED
        BY <2>2, <3>1, <4>1 DEF Entry, Before
    <3>4. CASE (\E plans \in Plan : Arrive(q, plans)) \/ Principal(q) \/ Identity(q)
      BY <3>1, <3>2, <3>4 DEF Arrive, Principal, Identity, Continue, Goto, GTypes, Before
    <3>5. CASE CheckFreshness(q) \/ CheckPrincipal(q) \/ CheckAgent(q)
      BY <3>1, <3>2, <3>5 DEF CheckFreshness, CheckPrincipal, CheckAgent, Continue, Goto, GTypes, Before
    <3>6. CASE DecideAction(q) \/ Hold(q) \/ Approve(q) \/ Abandon(q) \/ Mint(q)
      BY <3>1, <3>2, <3>6 DEF DecideAction, NextAction, Hold, Approve, Abandon, Mint, Goto, GTypes, Before
    <3>7. CASE AuditAllow(q)
      <4>1. CASE q \notin passport
        BY <3>1, <3>7, <4>1 DEF AuditAllow, Before
      <4>2. CASE q \in passport
        <5>1. pc[q] = "audit" /\ pc'[q] = "forward" /\ audited'[q] = Append(audited[q], "allow")
              /\ passport' = passport
          BY <3>7, <4>2 DEF AuditAllow, Goto, Audit, GTypes
        <5>2. audited[q] = <<>>
          BY <2>2, <5>1 DEF Entry, Before
        <5>3. audited'[q] = <<"allow">>
          BY <5>1, <5>2
        <5> QED
          BY <2>2, <4>2, <5>1, <5>3 DEF Entry, Before
      <4> QED
        BY <4>1, <4>2
    <3>8. CASE Forward(q) \/ Respond(q)
      <4>1. /\ pc[q] \in {"forward", "forwarded"} /\ pc'[q] \in {"forwarded", "answered"}
            /\ UNCHANGED <<audited, passport>>
        BY <3>8 DEF Forward, Respond, Continue, Goto, GTypes
      <4> QED
        BY <2>2, <4>1 DEF Entry, Before
    <3> QED
      BY <1>3, <3>3, <3>4, <3>5, <3>6, <3>7, <3>8 DEF RequestStep
  <2> QED
    BY <2>1, <2>2
<1> QED
  BY <1>1, <1>2, <1>3 DEF GatewayNext

(* The upstream is reached only after the allow entry and with a passport, and no *)
(* request leaves two entries, whichever of ServeHTTP's returns it takes.         *)
THEOREM OneEntryEach == GatewaySpec => []Accountable
<1> DEFINE Base == TypeOK /\ SnapshotsTrackSource /\ GTypes /\ WholePlanAllowed
           Entries == \A q \in Request : Entry(q)
<1>1. GatewayInit => Entries
  BY DEF GatewayInit, Entry, Before
<1>2. Base /\ Entries /\ [GatewayNext]_allVars => Entries'
  BY EntryKept
<1>3. Base /\ Entries => Accountable
  <2> SUFFICES ASSUME GTypes, Entries, NEW q \in Request
               PROVE  /\ Len(audited[q]) <= 1
                      /\ pc[q] \in {"forward", "forwarded"} => audited[q] = <<"allow">> /\ q \in passport
                      /\ audited[q] = <<"deny">> => pc[q] = "answered"
    BY DEF Accountable
  <2>1. Entry(q) /\ pc[q] \in Stages
    BY DEF GTypes
  <2>2. \/ audited[q] = <<>>
        \/ audited[q] = <<"allow">>
        \/ audited[q] = <<"deny">> /\ pc[q] = "answered"
    BY <2>1 DEF Entry, Before, Stages, Waiting
  <2>3. /\ Len(<<>>) = 0 /\ Len(<<"allow">>) = 1 /\ Len(<<"deny">>) = 1
        /\ <<"allow">>[1] = "allow" /\ <<"deny">>[1] = "deny"
    OBVIOUS
  <2>4. <<>> # <<"deny">> /\ <<"allow">> # <<"deny">>
    BY <2>3
  <2>5. Len(audited[q]) <= 1
    <3>1. PICK n : n = Len(audited[q])
      OBVIOUS
    <3>2. n = 0 \/ n = 1
      BY <2>2, <2>3, <3>1, Zenon
    <3>3. n <= 1
      BY <3>2
    <3> QED
      BY <3>1, <3>3, Zenon
  <2>6. audited[q] = <<"deny">> => pc[q] = "answered"
    BY <2>2, <2>4
  <2> QED
    BY <2>1, <2>5, <2>6 DEF Entry
<1> QED
  BY <1>1, <1>2, <1>3, GatewayBase, PTL DEF GatewaySpec
=============================================================================
