---------------------------- MODULE ServiceProofs ----------------------------
(***************************************************************************)
(* Proofs about what stands beside the request path: the revocations of    *)
(* ControlPlane, for any registry and any ids; the reviews of Approver,    *)
(* for any number of reviews and operators; Enrollment, for any nonces,    *)
(* keys and tokens, every budget, lifetime and number of handlers; and     *)
(* ToolGuard, for any servers, approved lists and concurrent exchanges.    *)
(***************************************************************************)
EXTENDS ControlPlane, Approver, Enrollment, ToolGuard, TLAPS

-----------------------------------------------------------------------------
(* Revocations: what the control plane tells an operator. *)

(* The typed facts each operation must keep together. *)
ControlInv == ControlTypeOK /\ DisabledIsRevoked /\ ReplyIsTrue /\ RevokedStaysDenied

(* A cascade is a set of ids, and it is what a revoke is asked to reach. *)
LEMMA CascadeIds ==
    ASSUME ControlTypeOK, NEW id \in Id
    PROVE  cascade(id) \in SUBSET Id /\ Under(id) = cascade(id)
BY DEF ControlTypeOK, Id, cascade, Under

(* Registration replaces records and leaves the list alone. *)
LEMMA PutAgentKeeps ==
    ASSUME ControlInv, NEW a \in Agent, NEW p \in Principal, NEW b \in Blueprint \cup {NoId},
           PutAgent(a, p, b)
    PROVE  ControlInv'
<1>1. ControlTypeOK'
  BY DEF ControlInv, ControlTypeOK, PutAgent
<1>2. (DisabledIsRevoked /\ ReplyIsTrue /\ RevokedStaysDenied)'
  BY DEF ControlInv, DisabledIsRevoked, ReplyIsTrue, RevokedStaysDenied, PutAgent
<1> QED
  BY <1>1, <1>2 DEF ControlInv

LEMMA RevokeKeeps ==
    ASSUME ControlInv, NEW id \in Id, Revoke(id)
    PROVE  ControlInv'
<1> DEFINE C == cascade(id)
<1>1. C \in SUBSET Id /\ Under(id) = C
  BY CascadeIds DEF ControlInv
<1>2. /\ killed' = killed \cup C
      /\ disabled' = disabled \cup (C \cap Registered)
      /\ reply' = [op |-> "revoke", ids |-> C, status |-> "ok", applied |-> {}]
      /\ doubt' = doubt \ C
      /\ fallen' = fallen \cup C
      /\ UNCHANGED <<principals, ownerOf, principalOf, blueprintOf>>
  BY <1>1 DEF Revoke, With, Respond, records
<1>3. Registered \in SUBSET (Principal \cup Agent)
  BY DEF ControlInv, ControlTypeOK, Registered
<1> HIDE DEF C
<1>4. ControlTypeOK'
  BY <1>1, <1>2, <1>3 DEF ControlInv, ControlTypeOK, Reply
<1>5. (DisabledIsRevoked /\ ReplyIsTrue /\ RevokedStaysDenied)'
  BY <1>2 DEF ControlInv, DisabledIsRevoked, ReplyIsTrue, RevokedStaysDenied
<1> QED
  BY <1>4, <1>5 DEF ControlInv

LEMMA RevokeFailsKeeps ==
    ASSUME ControlInv, NEW id \in Id, NEW landed \in BOOLEAN, RevokeFails(id, landed)
    PROVE  ControlInv'
<1> DEFINE C == cascade(id)
<1>1. C \in SUBSET Id
  BY CascadeIds DEF ControlInv
<1>2. /\ killed' = IF landed THEN killed \cup C ELSE killed
      /\ UNCHANGED <<principals, ownerOf, principalOf, blueprintOf, disabled, doubt, fallen>>
  BY DEF RevokeFails, With, records
<1>3. PICK applied \in SUBSET (C \cap killed') :
        reply' = [op |-> "revoke", ids |-> C, status |-> "failed", applied |-> applied]
  BY DEF RevokeFails, Confirm, Respond
<1> HIDE DEF C
<1>4. ControlTypeOK'
  BY <1>1, <1>2, <1>3 DEF ControlInv, ControlTypeOK, Reply
<1>5. (DisabledIsRevoked /\ ReplyIsTrue /\ RevokedStaysDenied)'
  BY <1>2, <1>3 DEF ControlInv, DisabledIsRevoked, ReplyIsTrue, RevokedStaysDenied
<1> QED
  BY <1>4, <1>5 DEF ControlInv

LEMMA RestoreKeeps ==
    ASSUME ControlInv, NEW id \in Id, Restore(id)
    PROVE  ControlInv'
<1> DEFINE C == cascade(id)
<1>1. C \in SUBSET Id /\ Under(id) = C
  BY CascadeIds DEF ControlInv
<1>2. /\ killed' = killed \ C
      /\ disabled' = disabled \ C
      /\ reply' = [op |-> "restore", ids |-> C, status |-> "ok", applied |-> {}]
      /\ doubt' = doubt \ C
      /\ fallen' = fallen \ C
      /\ UNCHANGED <<principals, ownerOf, principalOf, blueprintOf>>
  BY <1>1 DEF Restore, Without, Respond, records
<1> HIDE DEF C
<1>3. ControlTypeOK'
  BY <1>1, <1>2 DEF ControlInv, ControlTypeOK, Reply
<1>4. (DisabledIsRevoked /\ ReplyIsTrue /\ RevokedStaysDenied)'
  BY <1>2 DEF ControlInv, DisabledIsRevoked, ReplyIsTrue, RevokedStaysDenied
<1> QED
  BY <1>3, <1>4 DEF ControlInv

LEMMA RestoreFailsKeeps ==
    ASSUME ControlInv, NEW id \in Id, NEW landed \in BOOLEAN, RestoreFails(id, landed)
    PROVE  ControlInv'
<1> DEFINE C == cascade(id)
<1>1. C \in SUBSET Id
  BY CascadeIds DEF ControlInv
<1>2. /\ killed' = IF landed THEN killed \ C ELSE killed
      /\ reply' = [op |-> "restore", ids |-> C, status |-> "failed", applied |-> {}]
      /\ doubt' = doubt \cup C
      /\ UNCHANGED <<principals, ownerOf, principalOf, blueprintOf, disabled, fallen>>
  BY DEF RestoreFails, Without, Respond, records
<1> HIDE DEF C
<1>3. ControlTypeOK'
  BY <1>1, <1>2 DEF ControlInv, ControlTypeOK, Reply
<1>4. (DisabledIsRevoked /\ ReplyIsTrue /\ RevokedStaysDenied)'
  BY <1>2 DEF ControlInv, DisabledIsRevoked, ReplyIsTrue, RevokedStaysDenied
<1> QED
  BY <1>3, <1>4 DEF ControlInv

LEMMA ControlInvariance == ControlSpec => []ControlInv
<1>1. ControlInit => ControlInv
  BY DEF ControlInit, NoReply, Reply, ControlInv, ControlTypeOK, DisabledIsRevoked, ReplyIsTrue, RevokedStaysDenied
<1>2. ASSUME ControlInv, [ControlNext]_controlVars
      PROVE  ControlInv'
  <2>1. ASSUME NEW p \in Principal, RegisterPrincipal(p)
        PROVE  ControlInv'
    BY <1>2, <2>1 DEF ControlInv, ControlTypeOK, DisabledIsRevoked, ReplyIsTrue, RevokedStaysDenied,
                      RegisterPrincipal
  <2>2. ASSUME NEW p \in Principal, NEW b \in Blueprint, RegisterBlueprint(b, p)
        PROVE  ControlInv'
    BY <1>2, <2>2 DEF ControlInv, ControlTypeOK, DisabledIsRevoked, ReplyIsTrue, RevokedStaysDenied,
                      RegisterBlueprint
  <2>3. ASSUME NEW p \in Principal, NEW a \in Agent, NEW b \in Blueprint \cup {NoId},
               RegisterAgent(a, p, b)
        PROVE  ControlInv'
    BY <1>2, <2>3, PutAgentKeeps DEF RegisterAgent
  <2>4. ASSUME NEW b \in Blueprint, NEW a \in Agent, InstantiateAgent(b, a)
        PROVE  ControlInv'
    <3>1. PICK p \in Principal : p = ownerOf[b]
      BY <1>2, <2>4 DEF ControlInv, ControlTypeOK, InstantiateAgent
    <3> QED
      BY <1>2, <2>4, <3>1, PutAgentKeeps DEF InstantiateAgent
  <2>5. ASSUME NEW id \in Id, NEW landed \in BOOLEAN,
               Revoke(id) \/ Restore(id) \/ RevokeFails(id, landed) \/ RestoreFails(id, landed)
        PROVE  ControlInv'
    BY <1>2, <2>5, RevokeKeeps, RestoreKeeps, RevokeFailsKeeps, RestoreFailsKeeps
  <2>6. CASE Restart
    BY <1>2, <2>6 DEF ControlInv, ControlTypeOK, DisabledIsRevoked, ReplyIsTrue, RevokedStaysDenied,
                      Restart, NoReply, Reply
  <2>7. CASE UNCHANGED controlVars
    BY <1>2, <2>7 DEF ControlInv, ControlTypeOK, DisabledIsRevoked, ReplyIsTrue, RevokedStaysDenied,
                      controlVars, records
  <2> QED
    BY <1>2, <2>1, <2>2, <2>3, <2>4, <2>5, <2>6, <2>7, Zenon DEF ControlNext
<1> QED
  BY <1>1, <1>2, PTL DEF ControlSpec

(* An acknowledged revoke holds for the party and everyone registered under it *)
(* until a restore, whatever fails, is re-registered or restarts in between.   *)
THEOREM RevocationHolds == ControlSpec => []RevokedStaysDenied
BY ControlInvariance, PTL DEF ControlInv

(* What Revoke and Restore answer is what the durable list holds. *)
THEOREM AnswersAreTrue == ControlSpec => []ReplyIsTrue
BY ControlInvariance, PTL DEF ControlInv

(* A record marked disabled is on the deny list unless a failed restore left it *)
(* in doubt.                                                                    *)
THEOREM DisabledMeansRevoked == ControlSpec => []DisabledIsRevoked
BY ControlInvariance, PTL DEF ControlInv

(* Every variable keeps its type. *)
THEOREM ControlTypes == ControlSpec => []ControlTypeOK
BY ControlInvariance, PTL DEF ControlInv

-----------------------------------------------------------------------------
(* Reviews: the acknowledgements are true, the loser's receive does not block, *)
(* and the queue implements ReviewQueue.                                       *)

(* In the acknowledgements t, d is the one answer to q, given by one operator. *)
Settled(t, q, d) ==
    /\ \E o \in Operator : <<q, d>> \in t[o]
    /\ \A o1, o2 \in Operator, d2 \in Answer :
           <<q, d>> \in t[o1] /\ <<q, d2>> \in t[o2] => o1 = o2 /\ d = d2

Unsettled(t, q) == \A o \in Operator, d \in Answer : <<q, d>> \notin t[o]

(* Where a review's one settlement is: nowhere while it is on the queue, in its *)
(* channel once an operator took it off, in the result once Decide returned.    *)
OneSettlement ==
    \A q \in Review :
        /\ q \in pending => pc[q] \in {"waiting", "timeout", "cancelled"}
        /\ q \in pending \/ pc[q] = "idle" => chan[q] = "empty" /\ Unsettled(told, q)
        /\ q \notin pending /\ pc[q] \notin {"idle", "done"} =>
               chan[q] \in {"allow", "deny"} /\ Settled(told, q, chan[q])
        /\ pc[q] = "done" =>
               /\ chan[q] = "empty"
               /\ result[q] \in {"allow", "deny"} => Settled(told, q, result[q])
               /\ result[q] \notin {"allow", "deny"} => Unsettled(told, q)

IInv == TypeOK /\ OneSettlement

LEMMA InitInv == Init => IInv
  BY DEF Init, IInv, TypeOK, OneSettlement, Unsettled, Answer, GaveUp

LEMMA NextType == TypeOK /\ [Next]_vars => TypeOK'
<1> SUFFICES ASSUME TypeOK, [Next]_vars PROVE TypeOK'
  OBVIOUS
<1>1. ASSUME NEW q \in Review, Register(q) \/ TimerFires(q) \/ ClientLeaves(q) PROVE TypeOK'
  BY <1>1 DEF TypeOK, Answer, GaveUp, Register, TimerFires, ClientLeaves
<1>2. ASSUME NEW q \in Review, Receive(q) PROVE TypeOK'
  BY <1>2 DEF TypeOK, Answer, GaveUp, Receive, Return
<1>3. ASSUME NEW q \in Review, NEW why \in GaveUp, SelectGivesUp(q, why) PROVE TypeOK'
  BY <1>3 DEF TypeOK, Answer, GaveUp, SelectGivesUp
<1>4. ASSUME NEW q \in Review, Claim(q) PROVE TypeOK'
  BY <1>4 DEF TypeOK, Answer, GaveUp, Claim, Return
<1>5. ASSUME NEW o \in Operator, ListPending(o) PROVE TypeOK'
  BY <1>5 DEF TypeOK, Answer, GaveUp, ListPending
<1>6. ASSUME NEW o \in Operator, NEW q \in Review, NEW d \in Answer, Resolve(o, q, d)
      PROVE  TypeOK'
  BY <1>6 DEF TypeOK, Answer, GaveUp, Resolve
<1>7. CASE UNCHANGED vars
  BY <1>7 DEF TypeOK, vars
<1> QED
  BY <1>1, <1>2, <1>3, <1>4, <1>5, <1>6, <1>7 DEF Next

LEMMA SettleOne ==
  ASSUME TypeOK, NEW o \in Operator, NEW q \in Review, NEW d \in Answer,
         Resolve(o, q, d), Unsettled(told, q)
  PROVE  /\ Settled(told', q, d)
         /\ \A p \in Review \ {q}, e \in Answer : Settled(told, p, e) => Settled(told', p, e)
         /\ \A p \in Review \ {q} : Unsettled(told, p) => Unsettled(told', p)
<1>1. told' = [told EXCEPT ![o] = @ \cup {<<q, d>>}]
  BY DEF Resolve
<1>2. \A p \in Review, e \in Answer, u \in Operator :
        <<p, e>> \in told'[u] <=> <<p, e>> \in told[u] \/ (p = q /\ e = d /\ u = o)
  BY <1>1 DEF TypeOK
<1>3. Settled(told', q, d)
  BY <1>2 DEF Settled, Unsettled
<1>4. \A p \in Review \ {q}, e \in Answer : Settled(told, p, e) => Settled(told', p, e)
  BY <1>2 DEF Settled
<1>5. \A p \in Review \ {q} : Unsettled(told, p) => Unsettled(told', p)
  BY <1>2 DEF Unsettled
<1> QED
  BY <1>3, <1>4, <1>5

LEMMA NextSettlement == IInv /\ [Next]_vars => OneSettlement'
<1> SUFFICES ASSUME IInv, [Next]_vars PROVE OneSettlement'
  OBVIOUS
<1>1. ASSUME NEW q \in Review, Register(q) \/ TimerFires(q) \/ ClientLeaves(q)
      PROVE  OneSettlement'
  BY <1>1 DEF IInv, TypeOK, OneSettlement, Register, TimerFires, ClientLeaves
<1>2. ASSUME NEW q \in Review, Receive(q) PROVE OneSettlement'
  BY <1>2 DEF IInv, TypeOK, OneSettlement, Receive, Return, Answer, GaveUp
<1>3. ASSUME NEW q \in Review, NEW why \in GaveUp, SelectGivesUp(q, why) PROVE OneSettlement'
  BY <1>3 DEF IInv, TypeOK, OneSettlement, SelectGivesUp, GaveUp
<1>4. ASSUME NEW q \in Review, Claim(q) PROVE OneSettlement'
  BY <1>4 DEF IInv, TypeOK, OneSettlement, Claim, Return, GaveUp
<1>5. ASSUME NEW o \in Operator, ListPending(o) PROVE OneSettlement'
  BY <1>5 DEF IInv, TypeOK, OneSettlement, ListPending
<1>6. ASSUME NEW o \in Operator, NEW q \in Review, NEW d \in Answer, Resolve(o, q, d)
      PROVE  OneSettlement'
  <2>1. Unsettled(told, q)
    BY <1>6 DEF IInv, OneSettlement, Resolve
  <2>2. /\ Settled(told', q, d)
        /\ \A p \in Review \ {q}, e \in Answer : Settled(told, p, e) => Settled(told', p, e)
        /\ \A p \in Review \ {q} : Unsettled(told, p) => Unsettled(told', p)
    BY <1>6, <2>1, SettleOne DEF IInv
  <2>3. /\ pending' = pending \ {q} /\ chan' = [chan EXCEPT ![q] = d]
        /\ pc' = pc /\ result' = result /\ q \in pending
    BY <1>6 DEF Resolve
  <2> QED
    BY <2>2, <2>3 DEF IInv, TypeOK, OneSettlement, Answer
<1>7. CASE UNCHANGED vars
  BY <1>7 DEF IInv, OneSettlement, vars
<1> QED
  BY <1>1, <1>2, <1>3, <1>4, <1>5, <1>6, <1>7 DEF Next

LEMMA NextInv == IInv /\ [Next]_vars => IInv'
  BY NextType, NextSettlement DEF IInv

LEMMA Invariance == Spec => []IInv
  BY InitInv, NextInv, PTL DEF Spec

(* Every variable keeps its type. *)
THEOREM TypeCorrect == Spec => []TypeOK
  BY Invariance, PTL DEF IInv

(* An operator is told "approved" or "denied" exactly when that is what the *)
(* requester receives.                                                      *)
THEOREM AcknowledgementsAreTrue == Spec => []ToldIsTrue
<1>1. IInv => ToldIsTrue
  <2> SUFFICES ASSUME IInv, NEW q \in Review
               PROVE  /\ \A o1, o2 \in Operator, d1, d2 \in Answer :
                             <<q, d1>> \in told[o1] /\ <<q, d2>> \in told[o2] => o1 = o2 /\ d1 = d2
                      /\ pc[q] = "done" =>
                             \A d \in Answer :
                                 result[q] = d <=> \E o \in Operator : <<q, d>> \in told[o]
    BY DEF ToldIsTrue
  <2>1. Unsettled(told, q) \/ \E d \in Answer : Settled(told, q, d)
    BY DEF IInv, OneSettlement, Answer
  <2>2. \A o1, o2 \in Operator, d1, d2 \in Answer :
            <<q, d1>> \in told[o1] /\ <<q, d2>> \in told[o2] => o1 = o2 /\ d1 = d2
    BY <2>1, Zenon DEF Settled, Unsettled
  <2>3. CASE pc[q] = "done" /\ result[q] \in Answer
    <3>1. Settled(told, q, result[q])
      BY <2>3 DEF IInv, OneSettlement, Answer
    <3> QED
      BY <2>2, <2>3, <3>1 DEF Settled
  <2>4. CASE pc[q] = "done" /\ result[q] \notin Answer
    <3>1. Unsettled(told, q)
      BY <2>4 DEF IInv, OneSettlement, Answer
    <3> QED
      BY <2>2, <2>4, <3>1 DEF Unsettled
  <2> QED
    BY <2>2, <2>3, <2>4
<1> QED
  BY <1>1, Invariance, PTL

(* claim's receive finds a decision waiting for it. *)
THEOREM ReceiveDoesNotBlock == Spec => []LoserNeverBlocks
<1>1. IInv => LoserNeverBlocks
  BY DEF IInv, TypeOK, OneSettlement, LoserNeverBlocks, Answer, GaveUp
<1> QED
  BY <1>1, Invariance, PTL

(* The queue under its lock does only what ReviewQueue allows: each review is *)
(* settled once, and told is exactly who settled it.                          *)
THEOREM Refinement == Spec => ImplementsReviewQueue
<1>1. Init => Queue!Init
  BY DEF Init, Queue!Init
<1>2. IInv /\ [Next]_vars => [Queue!Next]_(Queue!vars)
  <2> SUFFICES ASSUME IInv, [Next]_vars PROVE [Queue!Next]_(Queue!vars)
    OBVIOUS
  <2>1. ASSUME NEW q \in Review, Register(q) PROVE Queue!Ask(q)
    BY <2>1, Zenon DEF IInv, TypeOK, OneSettlement, Register, Queue!Ask
  <2>2. ASSUME NEW q \in Review, TimerFires(q) \/ ClientLeaves(q) PROVE UNCHANGED Queue!vars
    BY <2>2 DEF TimerFires, ClientLeaves, Queue!vars
  <2>3. ASSUME NEW q \in Review, Receive(q) PROVE UNCHANGED Queue!vars
    BY <2>3 DEF IInv, TypeOK, OneSettlement, Receive, Return, Queue!vars
  <2>4. ASSUME NEW q \in Review, NEW why \in GaveUp, SelectGivesUp(q, why)
        PROVE  UNCHANGED Queue!vars
    BY <2>4 DEF IInv, TypeOK, SelectGivesUp, GaveUp, Queue!vars
  <2>5. ASSUME NEW q \in Review, Claim(q)
        PROVE  (\E why \in GaveUp : Queue!GiveUp(q, why)) \/ UNCHANGED Queue!vars
    <3>1. CASE q \in pending
      <4>1. PICK why \in GaveUp : pc[q] = why
        BY <2>5 DEF Claim
      <4>2. /\ pc' = [pc EXCEPT ![q] = "done"] /\ result' = [result EXCEPT ![q] = why]
            /\ pending' = pending \ {q} /\ chan' = chan /\ told' = told
            /\ pc[q] # "idle"
        BY <2>5, <3>1, <4>1 DEF Claim, Return, GaveUp
      <4>3. Queue!GiveUp(q, why)
        BY <3>1, <4>2, Zenon DEF IInv, TypeOK, Queue!GiveUp
      <4> QED
        BY <4>3
    <3>2. CASE q \notin pending
      BY <2>5, <3>2 DEF IInv, TypeOK, Claim, GaveUp, Queue!vars
    <3> QED
      BY <3>1, <3>2
  <2>6. ASSUME NEW o \in Operator, ListPending(o) PROVE UNCHANGED Queue!vars
    BY <2>6 DEF ListPending, Queue!vars
  <2>7. ASSUME NEW o \in Operator, NEW q \in Review, NEW d \in Answer, Resolve(o, q, d)
        PROVE  Queue!Settle(o, q, d)
    BY <2>7, Zenon DEF IInv, TypeOK, OneSettlement, Resolve, Queue!Settle
  <2>8. CASE UNCHANGED vars
    BY <2>8 DEF vars, Queue!vars
  <2> QED
    BY <2>1, <2>2, <2>3, <2>4, <2>5, <2>6, <2>7, <2>8
    DEF Next, Queue!Next, Answer, GaveUp, Queue!Answer, Queue!GaveUp
<1> QED
  BY <1>1, <1>2, Invariance, PTL DEF Spec, ImplementsReviewQueue, Queue!Spec

-----------------------------------------------------------------------------
(* Enrollment: what a nonce, a piece of evidence and a token are good for. *)

USE EnrollmentAssumption

(* Where a nonce is in its life.  A handler past consumeNonce holds a nonce that *)
(* is spent, alone, and that has earned nothing yet; what it earns later is one  *)
(* credential.                                                                   *)
NonceLife ==
    /\ spent \subseteq drawn
    /\ spent \cap nonces = {}
    /\ \A p \in attesting :
           p.evidence \in evidence /\ p.nonce \in spent /\ issued[p.nonce] = {}
    /\ \A p, r \in attesting : p.nonce = r.nonce => p = r
    /\ \A n \in Nonce : \A p \in issued[n] : n \in spent
    /\ \A n \in Nonce : \A p, r \in issued[n] : p = r

EnrollInv == EnrollTypeOK /\ NonceLife /\ CredentialsAreCovered /\ BudgetAddsUp

LEMMA EnrollInitInv == EnrollInit => EnrollInv
  BY DEF EnrollInit, EnrollInv, EnrollTypeOK, NonceLife, CredentialsAreCovered, BudgetAddsUp

LEMMA EnrollNextType == EnrollTypeOK /\ BudgetAddsUp /\ [EnrollNext]_enrollVars => EnrollTypeOK' /\ BudgetAddsUp'
<1> SUFFICES ASSUME EnrollTypeOK, BudgetAddsUp, [EnrollNext]_enrollVars PROVE EnrollTypeOK' /\ BudgetAddsUp'
  OBVIOUS
<1>1. CASE Tick
  BY <1>1 DEF Tick, EnrollTypeOK, BudgetAddsUp
<1>2. ASSUME NEW n \in Nonce, DrawNonce(n) PROVE EnrollTypeOK' /\ BudgetAddsUp'
  <2>1. Swept \subseteq drawn
    BY DEF Swept, EnrollTypeOK
  <2>2. clock + NonceTTL \in Nat
    BY DEF EnrollTypeOK
  <2>3. /\ drawn' \in SUBSET Nonce /\ nonces' \in SUBSET drawn'
        /\ expiry' \in [Nonce -> Nat]
    BY <1>2, <2>1, <2>2 DEF DrawNonce, EnrollTypeOK
  <2> QED BY <1>2, <2>3 DEF DrawNonce, EnrollTypeOK, BudgetAddsUp
<1>3. ASSUME NEW w \in Witness, NEW n \in Nonce, NEW k \in Key, BuildEvidence(w, n, k)
      PROVE  EnrollTypeOK' /\ BudgetAddsUp'
  <2>1. [by |-> w, nonce |-> n, key |-> k, at |-> clock] \in Evidence
    BY DEF EnrollTypeOK, Evidence
  <2>2. evidence' \in SUBSET Evidence
    BY <1>3, <2>1 DEF BuildEvidence, EnrollTypeOK
  <2> QED BY <1>3, <2>2 DEF BuildEvidence, EnrollTypeOK, BudgetAddsUp
<1>4. ASSUME NEW e \in evidence, NEW n \in Nonce, NEW k \in Key,
             Issue([evidence |-> e, nonce |-> n, key |-> k])
      PROVE  EnrollTypeOK' /\ BudgetAddsUp'
  <2> DEFINE p == [evidence |-> e, nonce |-> n, key |-> k]
  <2>1. p \in Post /\ p.nonce \in Nonce
    BY DEF EnrollTypeOK, Post
  <2> HIDE DEF p
  <2>2. Issue(p)
    BY <1>4 DEF p
  <2>3. attesting' \in SUBSET Post /\ spent' \in SUBSET Nonce /\ nonces' \in SUBSET drawn'
    BY <2>1, <2>2 DEF Issue, consumeNonce, EnrollTypeOK
  <2> QED BY <2>2, <2>3 DEF Issue, EnrollTypeOK, BudgetAddsUp
<1>5. ASSUME NEW p \in attesting, AttestToken(p) PROVE EnrollTypeOK' /\ BudgetAddsUp'
  <2> DEFINE t == p.evidence.by
  <2>1. p \in Post /\ p.nonce \in Nonce
    BY DEF EnrollTypeOK, Post
  <2>2. t \in Token /\ attesting' = attesting \ {p}
        /\ UNCHANGED <<clock, drawn, nonces, expiry, notAfter, evidence, spent>>
    BY <1>5 DEF AttestToken
  <2>3. CASE Covers(p) /\ Honours(t)
    <3>1. /\ left' = [left EXCEPT ![t] = @ - 1]
          /\ granted' = [granted EXCEPT ![t] = @ + 1]
          /\ issued' = [issued EXCEPT ![p.nonce] = @ \cup {p}]
      BY <1>5, <2>3 DEF AttestToken, Spend, Sign
    <3>2. left[t] > 0 /\ left[t] \in 0 .. Uses /\ granted[t] \in Nat
      BY <2>2, <2>3 DEF Honours, EnrollTypeOK
    <3> HIDE DEF t
    <3>3. left[t] - 1 \in 0 .. Uses /\ granted[t] + 1 \in Nat
      BY <3>2
    <3>4. issued' \in [Nonce -> SUBSET Post]
      BY <2>1, <3>1 DEF EnrollTypeOK
    <3>5. left' \in [Token -> 0 .. Uses] /\ granted' \in [Token -> Nat]
      BY <2>2, <3>1, <3>3 DEF EnrollTypeOK
    <3>6. EnrollTypeOK'
      BY <2>2, <3>4, <3>5 DEF EnrollTypeOK
    <3>7. ASSUME NEW s \in Token PROVE granted'[s] + left'[s] = Uses
      <4>1. granted[s] + left[s] = Uses /\ granted[s] \in Nat /\ left[s] \in Nat
        BY DEF BudgetAddsUp, EnrollTypeOK
      <4>2. CASE s = t
        <5>1. granted'[s] = granted[s] + 1 /\ left'[s] = left[s] - 1
          BY <3>1, <4>2 DEF EnrollTypeOK
        <5> QED BY <4>1, <5>1
      <4>3. CASE s # t
        <5>1. granted'[s] = granted[s] /\ left'[s] = left[s]
          BY <3>1, <4>3 DEF EnrollTypeOK
        <5> QED BY <4>1, <5>1
      <4> QED BY <4>2, <4>3
    <3> QED BY <3>6, <3>7 DEF BudgetAddsUp
  <2>4. CASE ~(Covers(p) /\ Honours(t))
    <3>1. UNCHANGED <<left, granted, issued>>
      BY <1>5, <2>4, Zenon DEF AttestToken
    <3> QED BY <2>2, <3>1 DEF EnrollTypeOK, BudgetAddsUp
  <2> QED BY <2>3, <2>4
<1>6. ASSUME NEW p \in attesting, AttestQuote(p) PROVE EnrollTypeOK' /\ BudgetAddsUp'
  <2>1. p \in Post /\ p.nonce \in Nonce
    BY DEF EnrollTypeOK, Post
  <2>2. issued' \in [Nonce -> SUBSET Post]
    BY <1>6, <2>1 DEF AttestQuote, Sign, EnrollTypeOK
  <2> QED BY <1>6, <2>2 DEF AttestQuote, EnrollTypeOK, BudgetAddsUp
<1>7. ASSUME NEW t \in Token, RegisterGrant(t) PROVE EnrollTypeOK' /\ BudgetAddsUp'
  <2>1. clock + TokenTTL \in Nat /\ Uses \in 0 .. Uses
    BY DEF EnrollTypeOK
  <2>2. EnrollTypeOK'
    BY <1>7, <2>1 DEF RegisterGrant, EnrollTypeOK
  <2>3. BudgetAddsUp'
    BY <1>7 DEF RegisterGrant, EnrollTypeOK, BudgetAddsUp
  <2> QED BY <2>2, <2>3
<1>8. CASE RestartAuthority
  <2>1. clock + TokenTTL \in Nat /\ Uses \in 0 .. Uses
    BY DEF EnrollTypeOK
  <2> QED BY <1>8, <2>1 DEF RestartAuthority, EnrollTypeOK, BudgetAddsUp
<1>9. CASE UNCHANGED enrollVars
  BY <1>9 DEF enrollVars, EnrollTypeOK, BudgetAddsUp
<1> QED BY <1>1, <1>2, <1>3, <1>4, <1>5, <1>6, <1>7, <1>8, <1>9, Zenon DEF EnrollNext

(* What either attestor does: the handler is done, and the credential it signs, *)
(* if it signs one, is the first its nonce earns and is for what the evidence    *)
(* covers.                                                                       *)
LEMMA AttestStep ==
    ASSUME EnrollInv, NEW p \in attesting, attesting' = attesting \ {p},
           issued' = issued \/ (Covers(p) /\ Sign(p)),
           UNCHANGED <<drawn, nonces, evidence, spent>>
    PROVE  NonceLife' /\ CredentialsAreCovered'
<1>1. p \in Post /\ p.nonce \in Nonce
  BY DEF EnrollInv, EnrollTypeOK, Post
<1>2. p.evidence \in evidence /\ p.nonce \in spent /\ issued[p.nonce] = {}
  BY DEF EnrollInv, NonceLife
<1>3. CASE issued' = issued
  BY <1>3 DEF EnrollInv, NonceLife, CredentialsAreCovered
<1>4. CASE Covers(p) /\ Sign(p)
  <2>1. issued'[p.nonce] = {p} /\ \A n \in Nonce \ {p.nonce} : issued'[n] = issued[n]
    BY <1>1, <1>2, <1>4 DEF Sign, EnrollInv, EnrollTypeOK
  <2>2. \A r \in attesting' : r.nonce \in Nonce \ {p.nonce}
    <3> TAKE r \in attesting'
    <3>1. r \in attesting /\ r # p
      OBVIOUS
    <3>2. r.nonce # p.nonce
      BY <3>1 DEF EnrollInv, NonceLife
    <3>3. r.nonce \in Nonce
      BY <3>1 DEF EnrollInv, EnrollTypeOK, Post
    <3> QED BY <3>2, <3>3
  <2>3. \A r \in attesting' : r.evidence \in evidence /\ r.nonce \in spent /\ issued'[r.nonce] = {}
    BY <2>1, <2>2 DEF EnrollInv, NonceLife
  <2>4. \A n \in Nonce : \A r \in issued'[n] : n \in spent
    BY <1>2, <2>1 DEF EnrollInv, NonceLife
  <2>5. \A n \in Nonce : \A r, s \in issued'[n] : r = s
    BY <2>1 DEF EnrollInv, NonceLife
  <2>6. NonceLife'
    BY <2>3, <2>4, <2>5 DEF EnrollInv, NonceLife
  <2>7. p.evidence.nonce = p.nonce /\ p.evidence.key = p.key
    BY <1>4 DEF Covers
  <2>8. ASSUME NEW n \in Nonce, NEW r \in issued'[n]
        PROVE  /\ r.evidence \in evidence'
               /\ r.evidence.nonce = n /\ r.evidence.key = r.key
    <3>1. CASE n = p.nonce
      BY <1>2, <2>1, <2>7, <2>8, <3>1
    <3>2. CASE n # p.nonce
      <4>1. r \in issued[n]
        BY <2>1, <2>8, <3>2
      <4> QED BY <4>1 DEF EnrollInv, CredentialsAreCovered
    <3> QED BY <3>1, <3>2
  <2>9. CredentialsAreCovered'
    BY <2>8 DEF CredentialsAreCovered
  <2> QED BY <2>6, <2>9
<1> QED BY <1>3, <1>4

LEMMA EnrollNextInv == EnrollInv /\ [EnrollNext]_enrollVars => EnrollInv'
<1> SUFFICES ASSUME EnrollInv, [EnrollNext]_enrollVars PROVE EnrollInv'
  OBVIOUS
<1>1. EnrollTypeOK' /\ BudgetAddsUp'
  BY EnrollNextType DEF EnrollInv
<1> SUFFICES NonceLife' /\ CredentialsAreCovered'
  BY <1>1 DEF EnrollInv
<1>2. CASE Tick
  BY <1>2 DEF Tick, EnrollInv, NonceLife, CredentialsAreCovered
<1>3. ASSUME NEW n \in Nonce, DrawNonce(n) PROVE NonceLife' /\ CredentialsAreCovered'
  <2>1. n \notin spent
    BY <1>3 DEF DrawNonce, EnrollInv, NonceLife
  <2>2. /\ nonces' \subseteq nonces \cup {n} /\ drawn \subseteq drawn'
        /\ UNCHANGED <<evidence, attesting, issued, spent>>
    BY <1>3 DEF DrawNonce, Swept
  <2> QED BY <2>1, <2>2 DEF EnrollInv, NonceLife, CredentialsAreCovered
<1>4. ASSUME NEW w \in Witness, NEW n \in Nonce, NEW k \in Key, BuildEvidence(w, n, k)
      PROVE  NonceLife' /\ CredentialsAreCovered'
  <2>1. evidence \subseteq evidence' /\ UNCHANGED <<drawn, nonces, attesting, issued, spent>>
    BY <1>4 DEF BuildEvidence
  <2> QED BY <2>1 DEF EnrollInv, NonceLife, CredentialsAreCovered
<1>5. ASSUME NEW e \in evidence, NEW n \in Nonce, NEW k \in Key,
             Issue([evidence |-> e, nonce |-> n, key |-> k])
      PROVE  NonceLife' /\ CredentialsAreCovered'
  <2> DEFINE p == [evidence |-> e, nonce |-> n, key |-> k]
  <2>1. p.evidence = e /\ p.nonce = n
    OBVIOUS
  <2> HIDE DEF p
  <2>2. /\ n \in nonces /\ nonces' = nonces \ {n} /\ spent' = spent \cup {n}
        /\ attesting' \in {attesting, attesting \cup {p}}
        /\ UNCHANGED <<drawn, evidence, issued>>
    BY <1>5, <2>1 DEF Issue, consumeNonce, p
  <2>3. n \notin spent /\ n \in drawn
    BY <2>2 DEF EnrollInv, EnrollTypeOK, NonceLife
  <2>4. issued[n] = {}
    BY <2>3, Zenon DEF EnrollInv, NonceLife
  <2>5. \A r \in attesting : r.nonce # n
    BY <2>3 DEF EnrollInv, NonceLife
  <2>6. spent' \subseteq drawn' /\ spent' \cap nonces' = {}
    BY <2>2, <2>3 DEF EnrollInv, NonceLife
  <2>7. \A r \in attesting' :
            r.evidence \in evidence' /\ r.nonce \in spent' /\ issued'[r.nonce] = {}
    BY <2>1, <2>2, <2>4 DEF EnrollInv, NonceLife
  <2>8. \A r, s \in attesting' : r.nonce = s.nonce => r = s
    BY <2>1, <2>2, <2>5 DEF EnrollInv, NonceLife
  <2>9. NonceLife'
    BY <2>2, <2>6, <2>7, <2>8 DEF EnrollInv, NonceLife
  <2>10. CredentialsAreCovered'
    BY <2>2 DEF EnrollInv, CredentialsAreCovered
  <2> QED BY <2>9, <2>10
<1>6. ASSUME NEW p \in attesting, AttestToken(p) \/ AttestQuote(p)
      PROVE  NonceLife' /\ CredentialsAreCovered'
  <2>1. /\ attesting' = attesting \ {p} /\ UNCHANGED <<drawn, nonces, evidence, spent>>
        /\ issued' = issued \/ (Covers(p) /\ Sign(p))
    BY <1>6, Zenon DEF AttestToken, AttestQuote
  <2> QED BY <2>1, AttestStep
<1>7. CASE \E t \in Token : RegisterGrant(t)
  BY <1>7 DEF RegisterGrant, EnrollInv, NonceLife, CredentialsAreCovered
<1>8. CASE RestartAuthority
  BY <1>8 DEF RestartAuthority, EnrollInv, NonceLife, CredentialsAreCovered
<1>9. CASE UNCHANGED enrollVars
  BY <1>9, Zenon DEF enrollVars, EnrollInv, NonceLife, CredentialsAreCovered
<1> QED BY <1>2, <1>3, <1>4, <1>5, <1>6, <1>7, <1>8, <1>9, Zenon DEF EnrollNext

LEMMA EnrollInvariance == EnrollSpec => []EnrollInv
  BY EnrollInitInv, EnrollNextInv, PTL DEF EnrollSpec

(* Every variable keeps its type. *)
THEOREM EnrollTypes == EnrollSpec => []EnrollTypeOK
  BY EnrollInvariance, PTL DEF EnrollInv

(* A nonce is "accepted exactly once", for any number of clients, handlers and *)
(* restarts: consumeNonce and the evidence check are under different locks, and *)
(* still no nonce earns two credentials or comes back once it was tried.        *)
THEOREM NoncesServeOnce == EnrollSpec => []NonceServesOnce
<1>1. EnrollInv => NonceServesOnce
  <2> SUFFICES ASSUME EnrollInv PROVE NonceServesOnce
    OBVIOUS
  <2> QED BY DEF EnrollInv, NonceLife, NonceServesOnce
<1> QED BY <1>1, EnrollInvariance, PTL

(* Every credential binds the key its evidence was built for, against the nonce *)
(* it was built for, whatever the evidence was posted with.                      *)
THEOREM EvidenceCoversCredentials == EnrollSpec => []CredentialsAreCovered
  BY EnrollInvariance, PTL DEF EnrollInv

(* What a registered token has granted and what it has left add up to its budget, *)
(* however the enrollments on it interleave.                                       *)
THEOREM TokensStayInBudget == EnrollSpec => []BudgetAddsUp
  BY EnrollInvariance, PTL DEF EnrollInv

(* No credential is issued on a token outside the window of its last registration. *)
THEOREM ClosedWindowGrantsNothing == EnrollSpec => WindowCloses
<1>1. EnrollInv /\ [EnrollNext]_enrollVars => [\A t \in Token : granted'[t] > granted[t] => clock < notAfter[t]]_enrollVars
  <2> SUFFICES ASSUME EnrollInv, EnrollNext, NEW t \in Token, granted'[t] > granted[t]
               PROVE  clock < notAfter[t]
    OBVIOUS
  <2>1. granted \in [Token -> Nat] /\ granted[t] \in Nat
    BY DEF EnrollInv, EnrollTypeOK
  <2>2. granted' # granted
    BY <2>1
  <2>3. PICK p \in attesting : AttestToken(p)
    <3>1. ASSUME NEW s \in Token, RegisterGrant(s) PROVE FALSE
      <4>1. granted'[t] = 0 \/ granted'[t] = granted[t]
        BY <2>1, <3>1 DEF RegisterGrant
      <4> QED BY <2>1, <4>1
    <3>2. ~RestartAuthority
      <4>1. RestartAuthority => granted'[t] = 0
        BY DEF RestartAuthority
      <4> QED BY <2>1, <4>1
    <3> QED BY <2>2, <3>1, <3>2, Zenon
            DEF EnrollNext, Tick, DrawNonce, BuildEvidence, Issue, AttestQuote
  <2> DEFINE s == p.evidence.by
  <2>4. Honours(s) /\ granted' = [granted EXCEPT ![s] = @ + 1]
    BY <2>2, <2>3, Zenon DEF AttestToken
  <2> HIDE DEF s
  <2>5. s = t
    BY <2>1, <2>4
  <2> QED BY <2>4, <2>5 DEF Honours
<1> QED BY <1>1, EnrollInvariance, PTL DEF EnrollSpec, WindowCloses

-----------------------------------------------------------------------------
(* The tool guard, for any servers, surfaces and approved lists, any number of *)
(* concurrent requests, and replies of any length.  All of the response hook   *)
(* is reduced to one fact, Inspection: the latch, the Blocked event and the    *)
(* verdict move together.                                                      *)

USE GuardAssumption

(* What a reply does to the guard, by the verdict on the part inspected. *)
Outcome(q, verdict, canBlock) ==
    /\ quarantined' = CASE verdict = "bad" -> quarantined \cup {to[q]}
                        [] verdict = "match" -> quarantined \ {to[q]}
                        [] OTHER -> quarantined
    /\ blocked' = IF verdict = "bad" /\ canBlock /\ mode[to[q]] = "deny"
                  THEN blocked \cup {q} ELSE blocked
    /\ last' = IF verdict = "none" THEN last ELSE [last EXCEPT ![to[q]] = verdict]
    /\ reported' \in [Server -> SUBSET Surface]

(* The cases of inspectBuffered and StreamEvent. *)
Inspected(q, part, canBlock) ==
    \/ part \in {"list", "page"} /\ observe(q, part = "page", canBlock)
    \/ part \in {"tooLong", "encoded", "unreadable"} /\ unverifiable(q, canBlock)
    \/ part \in {"none", "inflates", "broken"} /\ PassOn

LEMMA Inspection ==
  ASSUME GuardTypeOK, NEW q \in Request, NEW part, NEW canBlock \in BOOLEAN,
         Inspected(q, part, canBlock), Judge(q, part)
  PROVE  /\ Judged(q, part) \in Verdict
         /\ Judged(q, part) # "none" => to[q] \in Pinned
         /\ Outcome(q, Judged(q, part), canBlock)
<1>1. to[q] \in Server /\ shown[q] \in Surface
  BY DEF GuardTypeOK
<1>2. /\ Judged(q, part) \in Verdict
      /\ Judged(q, part) # "none" => to[q] \in Pinned
  BY Zenon DEF Judged, Verdict
<1>3. CASE part \in {"none", "inflates", "broken"}
  <2>1. Judged(q, part) = "none"
    BY <1>3 DEF Judged
  <2>2. UNCHANGED <<quarantined, reported, blocked>>
    BY <1>3 DEF Inspected, PassOn, guardVars
  <2>3. last' = last
    BY <2>1 DEF Judge
  <2> QED
    BY <1>2, <2>1, <2>2, <2>3 DEF Outcome, GuardTypeOK
<1>4. CASE part \in {"tooLong", "encoded", "unreadable", "page"} /\ to[q] \in Pinned
  <2>1. Judged(q, part) = "bad"
    BY <1>4 DEF Judged
  <2>2. Latch(q, canBlock)
    BY <1>4, Zenon DEF Inspected, observe, unverifiable
  <2>3. last' = [last EXCEPT ![to[q]] = "bad"]
    BY <2>1 DEF Judge
  <2> QED
    BY <1>2, <2>1, <2>2, <2>3 DEF Outcome, Latch, Blocks, GuardTypeOK
<1>5. CASE part \in {"list", "tooLong", "encoded", "unreadable", "page"} /\ to[q] \notin Pinned
  <2>1. Judged(q, part) = "none"
    BY <1>5 DEF Judged
  <2>2. /\ UNCHANGED <<quarantined, blocked>>
        /\ reported' = reported \/ reported' = [reported EXCEPT ![to[q]] = {shown[q]}]
    BY <1>5, Zenon DEF Inspected, observe, unverifiable, PassOn, guardVars
  <2>3. reported' \in [Server -> SUBSET Surface]
    <3>1. {shown[q]} \in SUBSET Surface
      BY <1>1, Zenon
    <3> QED
      BY <2>2, <3>1 DEF GuardTypeOK
  <2>4. last' = last
    BY <2>1 DEF Judge
  <2> QED
    BY <1>2, <2>1, <2>2, <2>3, <2>4 DEF Outcome
<1>6. CASE part = "list" /\ to[q] \in Pinned /\ shown[q] = Approved[to[q]]
  <2>1. Judged(q, part) = "match"
    BY <1>6, Zenon DEF Judged
  <2>2. quarantined' = quarantined \ {to[q]} /\ UNCHANGED <<reported, blocked>>
    BY <1>6, Zenon DEF Inspected, observe
  <2>3. last' = [last EXCEPT ![to[q]] = "match"]
    BY <2>1 DEF Judge
  <2> QED
    BY <1>2, <2>1, <2>2, <2>3 DEF Outcome, GuardTypeOK
<1>7. CASE part = "list" /\ to[q] \in Pinned /\ shown[q] # Approved[to[q]]
  <2>1. Judged(q, part) = "bad"
    BY <1>7, Zenon DEF Judged
  <2>2. Latch(q, canBlock)
    BY <1>7, Zenon DEF Inspected, observe
  <2>3. last' = [last EXCEPT ![to[q]] = "bad"]
    BY <2>1 DEF Judge
  <2> QED
    BY <1>2, <2>1, <2>2, <2>3 DEF Outcome, Latch, Blocks, GuardTypeOK
<1> QED
  BY <1>3, <1>4, <1>5, <1>6, <1>7, Zenon DEF Inspected

-----------------------------------------------------------------------------
(* The inductive invariant. *)

(* A server is held exactly while the last verdict on it is bad. *)
LatchFollowsVerdict == \A s \in Server : s \in quarantined <=> last[s] = "bad"

(* A request whose reply is looked at has something left to look at, an event    *)
(* says Blocked for what was refused and nothing else, and DriftNeverDelivered.  *)
RequestOK(q) ==
    /\ at[q] \in {"inspect", "streaming"} => parts[q] # <<>>
    /\ at[q] = "streaming" => form[q] = "stream"
    /\ q \in blocked <=> at[q] = "refused"
    /\ at[q] = "delivered" /\ form[q] = "whole" /\ listsTools(q) /\ mode[to[q]] = "deny"
       => Judged(q, Head(parts[q])) # "bad"

GInv ==
    /\ GuardTypeOK
    /\ LatchFollowsVerdict
    /\ \A q \in Request : RequestOK(q)
    /\ early = {}

LEMMA GuardInitially == GuardInit => GInv
<1> SUFFICES ASSUME GuardInit PROVE GInv
  OBVIOUS
<1>1. GuardTypeOK
  <2>1. \A q \in Request : Approved[to[q]] \in Surface
    BY DEF GuardInit
  <2> QED
    BY <2>1 DEF GuardInit, GuardTypeOK, Pinned, Verdict
<1>2. LatchFollowsVerdict /\ early = {}
  BY DEF GuardInit, LatchFollowsVerdict
<1>3. \A q \in Request : RequestOK(q)
  BY DEF GuardInit, RequestOK
<1> QED
  BY <1>1, <1>2, <1>3 DEF GInv

(* The steps of the response hook, with Inspection applied. *)
LEMMA HookSteps ==
  ASSUME GInv, NEW q \in Request, Whole(q) \/ inspectStream(q) \/ StreamEvent(q)
  PROVE  /\ UNCHANGED <<mode, surface, to, kind, form, shown, early>>
         /\ \E verdict \in Verdict, canBlock \in BOOLEAN :
                /\ verdict # "none" => to[q] \in Pinned
                /\ Outcome(q, verdict, canBlock)
                /\ \/ /\ form[q] = "whole" /\ canBlock /\ parts' = parts
                      /\ at' = [at EXCEPT ![q] = IF q \in blocked' THEN "refused" ELSE "delivered"]
                      /\ listsTools(q) => verdict = Judged(q, Head(parts[q]))
                      /\ at[q] = "inspect"
                   \/ /\ form[q] = "stream" /\ ~canBlock /\ at[q] \in {"inspect", "streaming"}
                      /\ \/ parts' = parts /\ at' = [at EXCEPT ![q] = "delivered"]
                         \/ /\ parts' = parts /\ at' = [at EXCEPT ![q] = "streaming"]
                            /\ at[q] = "inspect"
                         \/ /\ parts' = [parts EXCEPT ![q] = Tail(@)]
                            /\ \/ at' = [at EXCEPT ![q] = "delivered"]
                               \/ at' = [at EXCEPT ![q] = "streaming"] /\ Tail(parts[q]) # <<>>
<1>1. GuardTypeOK /\ RequestOK(q)
  BY DEF GInv
<1>2. PassOn /\ UNCHANGED last => \A canBlock \in BOOLEAN : Outcome(q, "none", canBlock)
  BY <1>1 DEF PassOn, guardVars, Outcome, GuardTypeOK
<1>3. "none" \in Verdict
  BY DEF Verdict
<1>4. CASE Whole(q)
  <2>1. /\ UNCHANGED <<mode, surface, to, kind, form, shown, parts, early>>
        /\ at[q] = "inspect" /\ form[q] = "whole"
        /\ at' = [at EXCEPT ![q] = IF q \in blocked' THEN "refused" ELSE "delivered"]
    BY <1>4, Zenon DEF Whole, askVars, replyVars
  <2>2. CASE listsTools(q) /\ Head(parts[q]) # "error"
    <3>1. Inspected(q, Head(parts[q]), TRUE) /\ Judge(q, Head(parts[q]))
      BY <1>4, <2>2, Zenon DEF Whole, inspectBuffered, Inspected
    <3>2. /\ Judged(q, Head(parts[q])) \in Verdict
          /\ Judged(q, Head(parts[q])) # "none" => to[q] \in Pinned
          /\ Outcome(q, Judged(q, Head(parts[q])), TRUE)
      BY <1>1, <3>1, Inspection, Zenon
    <3> QED
      BY <2>1, <3>2, Zenon
  <2>3. CASE ~(listsTools(q) /\ Head(parts[q]) # "error")
    <3>1. Outcome(q, "none", TRUE)
      BY <1>2, <1>4, <2>3, Zenon DEF Whole
    <3>2. listsTools(q) => Judged(q, Head(parts[q])) = "none"
      BY <2>3 DEF Judged
    <3> QED
      BY <1>3, <2>1, <3>1, <3>2, Zenon
  <2> QED
    BY <2>2, <2>3, Zenon
<1>5. CASE inspectStream(q)
  <2>1. /\ UNCHANGED <<mode, surface, to, kind, form, shown, parts, early>>
        /\ at[q] = "inspect" /\ form[q] = "stream"
    BY <1>5 DEF inspectStream, askVars, replyVars
  <2>2. CASE listsTools(q) /\ Head(parts[q]) = "encoded"
    <3>1. /\ Inspected(q, "encoded", FALSE) /\ Judge(q, "encoded")
          /\ at' = [at EXCEPT ![q] = "delivered"]
      BY <1>5, <2>2, Zenon DEF inspectStream, Inspected
    <3>2. /\ Judged(q, "encoded") \in Verdict
          /\ Judged(q, "encoded") # "none" => to[q] \in Pinned
          /\ Outcome(q, Judged(q, "encoded"), FALSE)
      BY <1>1, <3>1, Inspection, Zenon
    <3> QED
      BY <2>1, <3>1, <3>2, Zenon
  <2>3. CASE ~(listsTools(q) /\ Head(parts[q]) = "encoded")
    <3>1. /\ Outcome(q, "none", FALSE)
          /\ at' = [at EXCEPT ![q] = "delivered"] \/ at' = [at EXCEPT ![q] = "streaming"]
      BY <1>2, <1>5, <2>3, Zenon DEF inspectStream
    <3> QED
      BY <1>3, <2>1, <3>1, Zenon
  <2> QED
    BY <2>2, <2>3, Zenon
<1>6. CASE StreamEvent(q)
  <2>1. /\ UNCHANGED <<mode, surface, to, kind, form, shown, early>>
        /\ at[q] = "streaming"
        /\ parts' = [parts EXCEPT ![q] = Tail(@)]
        /\ \/ at' = [at EXCEPT ![q] = "delivered"]
           \/ at' = [at EXCEPT ![q] = "streaming"] /\ Tail(parts[q]) # <<>>
    BY <1>6, Zenon DEF StreamEvent, askVars
  <2>2. Inspected(q, Head(parts[q]), FALSE) /\ Judge(q, Head(parts[q]))
    BY <1>6, Zenon DEF StreamEvent, Inspected
  <2>3. /\ Judged(q, Head(parts[q])) \in Verdict
        /\ Judged(q, Head(parts[q])) # "none" => to[q] \in Pinned
        /\ Outcome(q, Judged(q, Head(parts[q])), FALSE)
    BY <1>1, <2>2, Inspection, Zenon
  <2>4. form[q] = "stream"
    BY <1>1, <2>1, Zenon DEF RequestOK
  <2> QED
    BY <2>1, <2>3, <2>4, Zenon
<1> QED
  BY <1>4, <1>5, <1>6, Zenon

(* What a step leaves of a request and of the guard it leaves right. *)
LEMMA RequestKept ==
  ASSUME GInv, NEW r \in Request, mode' = mode,
         to'[r] = to[r], kind'[r] = kind[r], at'[r] = at[r], parts'[r] = parts[r],
         form'[r] = form[r], shown'[r] = shown[r], r \in blocked' <=> r \in blocked
  PROVE  RequestOK(r)'
<1>1. Pinned' = Pinned
  BY Zenon DEF Pinned
<1>2. listsTools(r)' <=> listsTools(r)
  BY DEF listsTools
<1>3. Judged(r, Head(parts[r]))' = Judged(r, Head(parts[r]))
  BY <1>1, Zenon DEF Judged
<1> QED BY <1>2, <1>3, Zenon DEF GInv, RequestOK

LEMMA HookKeeps ==
  ASSUME GInv, NEW q \in Request, Whole(q) \/ inspectStream(q) \/ StreamEvent(q)
  PROVE  GInv'
<1>1. GuardTypeOK /\ LatchFollowsVerdict /\ (\A r \in Request : RequestOK(r)) /\ early = {}
  BY DEF GInv
<1>2. UNCHANGED <<mode, surface, to, kind, form, shown, early>>
  BY HookSteps, Zenon
<1>3. PICK verdict \in Verdict, canBlock \in BOOLEAN :
         /\ verdict # "none" => to[q] \in Pinned
         /\ Outcome(q, verdict, canBlock)
         /\ \/ /\ form[q] = "whole" /\ canBlock /\ parts' = parts
               /\ at' = [at EXCEPT ![q] = IF q \in blocked' THEN "refused" ELSE "delivered"]
               /\ listsTools(q) => verdict = Judged(q, Head(parts[q]))
               /\ at[q] = "inspect"
            \/ /\ form[q] = "stream" /\ ~canBlock /\ at[q] \in {"inspect", "streaming"}
               /\ \/ parts' = parts /\ at' = [at EXCEPT ![q] = "delivered"]
                  \/ /\ parts' = parts /\ at' = [at EXCEPT ![q] = "streaming"]
                     /\ at[q] = "inspect"
                  \/ /\ parts' = [parts EXCEPT ![q] = Tail(@)]
                     /\ \/ at' = [at EXCEPT ![q] = "delivered"]
                        \/ at' = [at EXCEPT ![q] = "streaming"] /\ Tail(parts[q]) # <<>>
  BY HookSteps, Zenon
<1>4. /\ blocked' = blocked \/ blocked' = blocked \cup {q}
      /\ ~canBlock => blocked' = blocked
      /\ verdict = "bad" /\ canBlock /\ mode[to[q]] = "deny" => q \in blocked'
  BY <1>3 DEF Outcome
<1>5. parts[q] # <<>> /\ q \notin blocked
  BY <1>1, <1>3, Zenon DEF RequestOK
<1>6. Tail(parts[q]) \in Seq(Part)
  BY <1>1, <1>5 DEF GuardTypeOK
<1>7. LatchFollowsVerdict' /\ quarantined' \subseteq Pinned /\ last' \in [Server -> Verdict]
  <2>1. to[q] \in Server
    BY <1>1 DEF GuardTypeOK
  <2>2. CASE verdict = "none"
    BY <1>1, <1>3, <2>2 DEF Outcome, LatchFollowsVerdict, GuardTypeOK
  <2>3. CASE verdict = "bad"
    BY <1>1, <1>3, <2>1, <2>3 DEF Outcome, LatchFollowsVerdict, GuardTypeOK
  <2>4. CASE verdict = "match"
    BY <1>1, <1>3, <2>1, <2>4 DEF Outcome, LatchFollowsVerdict, GuardTypeOK
  <2> QED
    BY <2>2, <2>3, <2>4 DEF Verdict
<1>8. GuardTypeOK'
  <2>1. at' \in [Request -> {"idle", "stage", "forward", "upstream", "inspect", "streaming",
                             "delivered", "refused", "denied"}]
    <3>1. \E p \in {"refused", "delivered", "streaming"} : at' = [at EXCEPT ![q] = p]
      BY <1>3, Zenon
    <3> QED
      BY <1>1, <3>1 DEF GuardTypeOK
  <2>2. parts' \in [Request -> Seq(Part)]
    BY <1>1, <1>3, <1>6, Zenon DEF GuardTypeOK
  <2>3. blocked' \in SUBSET Request /\ reported' \in [Server -> SUBSET Surface]
    BY <1>1, <1>3, <1>4 DEF GuardTypeOK, Outcome
  <2>4. Pinned' = Pinned
    BY <1>2 DEF Pinned
  <2> QED
    BY <1>1, <1>2, <1>7, <2>1, <2>2, <2>3, <2>4 DEF GuardTypeOK
<1>9. ASSUME NEW r \in Request PROVE RequestOK(r)'
  <2>1. CASE r # q
    BY <1>1, <1>2, <1>3, <1>4, <2>1, RequestKept, Zenon DEF GuardTypeOK
  <2>2. CASE r = q /\ form[q] = "whole"
    <3>1. /\ canBlock /\ parts' = parts
          /\ at'[q] = IF q \in blocked' THEN "refused" ELSE "delivered"
          /\ listsTools(q) => verdict = Judged(q, Head(parts[q]))
      BY <1>1, <1>3, <2>2 DEF GuardTypeOK
    <3>2. listsTools(q)' = listsTools(q) /\ Judged(q, Head(parts[q]))' = Judged(q, Head(parts[q]))
      BY <1>2, <3>1 DEF listsTools, Judged, Pinned
    <3> QED
      BY <1>2, <1>4, <2>2, <3>1, <3>2, Zenon DEF RequestOK
  <2>3. CASE r = q /\ form[q] = "stream"
    <3>1. /\ at'[q] \in {"delivered", "streaming"} /\ blocked' = blocked
          /\ at'[q] = "streaming" => parts'[q] # <<>>
      BY <1>1, <1>3, <1>4, <1>5, <2>3 DEF GuardTypeOK
    <3> QED
      BY <1>2, <1>5, <2>3, <3>1, Zenon DEF RequestOK
  <2> QED
    BY <1>3, <2>1, <2>2, <2>3, Zenon
<1> QED
  BY <1>1, <1>2, <1>7, <1>8, <1>9 DEF GInv

LEMMA GuardStepKeeps == GInv /\ [GuardNext]_toolVars => GInv'
<1> SUFFICES ASSUME GInv, [GuardNext]_toolVars PROVE GInv'
  OBVIOUS
<1>1. GuardTypeOK /\ LatchFollowsVerdict /\ (\A r \in Request : RequestOK(r)) /\ early = {}
  BY DEF GInv
<1>2. ASSUME NEW s \in Server, NEW f \in Surface, ServerChanges(s, f) PROVE GInv'
  <2>1. /\ UNCHANGED <<mode, quarantined, reported, blocked, at, to, kind, parts, form, shown,
                       last, early>>
        /\ surface' = [surface EXCEPT ![s] = f]
    BY <1>2 DEF ServerChanges, guardVars, askVars, replyVars
  <2>2. GuardTypeOK' /\ LatchFollowsVerdict'
    BY <1>1, <2>1 DEF GuardTypeOK, Pinned, LatchFollowsVerdict
  <2> QED
    BY <1>1, <2>1, <2>2, RequestKept, Zenon DEF GInv
<1>3. ASSUME NEW q \in Request, NEW s \in Server, NEW k \in Kinds, Ask(q, s, k) PROVE GInv'
  <2>1. /\ UNCHANGED <<mode, surface, quarantined, reported, blocked, parts, form, shown, last,
                       early>>
        /\ at[q] = "idle" /\ at' = [at EXCEPT ![q] = "stage"]
        /\ to' = [to EXCEPT ![q] = s] /\ kind' = [kind EXCEPT ![q] = k]
    BY <1>3 DEF Ask, guardVars, replyVars
  <2>2. GuardTypeOK' /\ LatchFollowsVerdict'
    BY <1>1, <2>1, Zenon DEF GuardTypeOK, Pinned, LatchFollowsVerdict
  <2>3. RequestOK(q)'
    BY <1>1, <2>1, Zenon DEF RequestOK, GuardTypeOK
  <2>4. \A r \in Request : r # q => RequestOK(r)'
    BY <1>1, <2>1, RequestKept DEF GuardTypeOK
  <2> QED
    BY <1>1, <2>1, <2>2, <2>3, <2>4 DEF GInv
<1>4. ASSUME NEW q \in Request, NEW a \in Replies, ServerReplies(q, a) PROVE GInv'
  <2>1. /\ UNCHANGED <<mode, surface, quarantined, reported, blocked, to, kind, last, early>>
        /\ at[q] = "upstream" /\ at' = [at EXCEPT ![q] = "inspect"]
        /\ form' = [form EXCEPT ![q] = a.form] /\ parts' = [parts EXCEPT ![q] = a.parts]
        /\ shown' = [shown EXCEPT ![q] = surface[to[q]]]
    BY <1>4 DEF ServerReplies, guardVars, askVars
  <2>2. a.form \in {"whole", "stream"} /\ a.parts \in Seq(Part) \ {<<>>}
    OBVIOUS
  <2>3. surface[to[q]] \in Surface
    BY <1>1 DEF GuardTypeOK
  <2>4. GuardTypeOK' /\ LatchFollowsVerdict'
    BY <1>1, <2>1, <2>2, <2>3, Zenon DEF GuardTypeOK, Pinned, LatchFollowsVerdict
  <2>5. RequestOK(q)'
    BY <1>1, <2>1, <2>2, Zenon DEF RequestOK, GuardTypeOK
  <2>6. \A r \in Request : r # q => RequestOK(r)'
    BY <1>1, <2>1, RequestKept DEF GuardTypeOK
  <2> QED
    BY <1>1, <2>1, <2>4, <2>5, <2>6, Zenon DEF GInv
<1>5. ASSUME NEW q \in Request, Finish(q) PROVE GInv'
  <2>1. /\ UNCHANGED <<mode, surface, quarantined, reported, to, last>>
        /\ at' = [at EXCEPT ![q] = "idle"] /\ kind' = [kind EXCEPT ![q] = "none"]
        /\ parts' = [parts EXCEPT ![q] = <<>>] /\ form' = [form EXCEPT ![q] = "none"]
        /\ shown' = [shown EXCEPT ![q] = Approved[to[q]]]
        /\ blocked' = blocked \ {q} /\ early' = early \ {q}
    BY <1>5, Zenon DEF Finish
  <2>2. Approved[to[q]] \in Surface
    BY <1>1 DEF GuardTypeOK
  <2>3. GuardTypeOK' /\ LatchFollowsVerdict' /\ early' = {}
    BY <1>1, <2>1, <2>2 DEF GuardTypeOK, Pinned, LatchFollowsVerdict
  <2>4. RequestOK(q)'
    BY <1>1, <2>1 DEF RequestOK, GuardTypeOK
  <2>5. \A r \in Request : r # q => RequestOK(r)'
    BY <1>1, <2>1, RequestKept, Zenon DEF GuardTypeOK
  <2> QED
    BY <2>3, <2>4, <2>5 DEF GInv
<1>6. ASSUME NEW q \in Request, Stage(q) PROVE GInv'
  <2>1. /\ UNCHANGED <<mode, surface, quarantined, reported, blocked, to, kind, parts, form, shown,
                       last>>
        /\ at[q] = "stage"
        /\ at' = [at EXCEPT ![q] = "forward"] \/ at' = [at EXCEPT ![q] = "denied"]
    BY <1>6, Zenon DEF Stage, guardVars, askVars, replyVars
  <2>2. early' = {}
    BY <1>1, <1>6 DEF Stage, recoveryOnly, LatchFollowsVerdict, GuardTypeOK
  <2>3. GuardTypeOK' /\ LatchFollowsVerdict'
    BY <1>1, <2>1, <2>2, Zenon DEF GuardTypeOK, Pinned, LatchFollowsVerdict
  <2>4. RequestOK(q)'
    BY <1>1, <2>1 DEF RequestOK, GuardTypeOK
  <2>5. \A r \in Request : r # q => RequestOK(r)'
    BY <1>1, <2>1, RequestKept DEF GuardTypeOK
  <2> QED
    BY <2>2, <2>3, <2>4, <2>5 DEF GInv
<1>7. ASSUME NEW q \in Request, Forward(q) PROVE GInv'
  <2>1. /\ UNCHANGED <<mode, surface, quarantined, reported, blocked, to, kind, parts, form, shown,
                       last, early>>
        /\ at[q] = "forward" /\ at' = [at EXCEPT ![q] = "upstream"]
    BY <1>7 DEF Forward, guardVars, askVars, replyVars
  <2>2. GuardTypeOK' /\ LatchFollowsVerdict'
    BY <1>1, <2>1, Zenon DEF GuardTypeOK, Pinned, LatchFollowsVerdict
  <2>3. RequestOK(q)'
    BY <1>1, <2>1 DEF RequestOK, GuardTypeOK
  <2>4. \A r \in Request : r # q => RequestOK(r)'
    BY <1>1, <2>1, RequestKept DEF GuardTypeOK
  <2> QED
    BY <1>1, <2>1, <2>2, <2>3, <2>4 DEF GInv
<1>8. CASE UNCHANGED toolVars
  <2>1. UNCHANGED <<mode, surface, quarantined, reported, blocked, at, to, kind, parts, form, shown,
                    last, early>>
    BY <1>8 DEF toolVars, guardVars, askVars, replyVars
  <2>2. GuardTypeOK' /\ LatchFollowsVerdict'
    BY <1>1, <2>1 DEF GuardTypeOK, Pinned, LatchFollowsVerdict
  <2> QED
    BY <1>1, <2>1, <2>2, RequestKept, Zenon DEF GInv
<1> QED
  BY <1>2, <1>3, <1>4, <1>5, <1>6, <1>7, <1>8, HookKeeps DEF GuardNext, Handle, Replied

LEMMA GuardInvariance == GuardSpec => []GInv
BY GuardInitially, GuardStepKeeps, PTL DEF GuardSpec

-----------------------------------------------------------------------------

(* Every variable keeps its type. *)
THEOREM GuardTypeCorrect == GuardSpec => []GuardTypeOK
BY GuardInvariance, PTL DEF GInv

(* The audit log claims a block exactly for the replies that were withheld. *)
THEOREM EventsAreTrue == GuardSpec => []BlockedIsTrue
<1>1. GInv => BlockedIsTrue
  BY Zenon DEF GInv, RequestOK, BlockedIsTrue
<1> QED
  BY <1>1, GuardInvariance, PTL

(* No drifted or unreadable list of a server in deny mode is delivered whole. *)
THEOREM DriftIsWithheld == GuardSpec => []DriftNeverDelivered
<1>1. GInv => DriftNeverDelivered
  BY DEF GInv, RequestOK, DriftNeverDelivered
<1> QED
  BY <1>1, GuardInvariance, PTL

(* However replies and requests interleave, no work passes the stage against the *)
(* last verdict: the latch is that verdict.                                      *)
THEOREM WorkWaits == GuardSpec => []WorkWaitsForMatch
<1>1. GInv => WorkWaitsForMatch
  BY DEF GInv, WorkWaitsForMatch
<1> QED
  BY <1>1, GuardInvariance, PTL
=============================================================================
