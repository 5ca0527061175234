------------------------------- MODULE Gateway -------------------------------
(***************************************************************************)
(* A request on its way through a gateway replica, composed with the       *)
(* kill-switch: ServeHTTP's early answers, the stages in the order         *)
(* buildPipeline puts them (principal, instance and delegation,            *)
(* revocation, policy, mint), the audit entry, the forwarding.  The policy *)
(* stage may hold the request for human approval, once for each action     *)
(* routed to review, while the deny list changes underneath it.            *)
(*                                                                         *)
(* What a stage computes from the request alone (a signature, a chain, a   *)
(* rule) is a choice here; Policy, Delegation and ReplayCache model those  *)
(* computations.  A stage that does not wait takes less than one unit of   *)
(* the clock.                                                              *)
(***************************************************************************)
EXTENDS KillSwitch, Sequences

CONSTANTS
    Request,
    On,              \* On[q]: the replica q is sent to
    PrincipalOf,     \* PrincipalOf[q], AgentOf[q]: the ids q authenticates as
    AgentOf,
    Plan,            \* the effects policy may give q's actions, in order: sequences
                     \* over "allow", "deny", "review", "outside" the grant, PDP "error"
    ApprovalTimeout, \* the approver's timeout (0 waits for the client)
    TTL              \* a passport's lifetime (sts.Config.TTL)

ASSUME GatewayAssumption ==
    /\ On \in [Request -> Replica]
    /\ PrincipalOf \in [Request -> Id]
    /\ AgentOf \in [Request -> Id]
    /\ Plan \subseteq Seq({"allow", "deny", "review", "outside", "error"}) \ {<<>>}
    /\ ApprovalTimeout \in Nat
    /\ TTL \in Nat \ {0}

VARIABLES
    pc,         \* pc[q]: the stage about to run
    plan,       \* plan[q]: the effects of the actions still to be decided
    checked,    \* checked[q]: when revoke.Stage found the snapshot fresh (history)
    reviews,    \* reviews[q]: how many of q's actions were held for review (history)
    heldSince,  \* when Decide last parked q
    passport,   \* requests a passport was minted for
    expiry,     \* expiry[q]: when q's passport expires
    lag,        \* lag[q]: how long parties of q had been on the list at mint (history)
    audited     \* audited[q]: the actions of q's audit entries, in order

gatewayVars == <<pc, plan, checked, reviews, heldSince, passport, expiry, lag, audited>>
allVars == <<vars, gatewayVars>>

Waiting == {"idle", "held", "forwarded", "answered", "lost"}
Stages == Waiting \cup {"principal", "identity", "fresh", "revokedPrincipal",
                        "revokedAgent", "policy", "mint", "audit", "forward"}

GatewayTypeOK ==
    /\ TypeOK
    /\ pc \in [Request -> Stages]
    /\ plan \in [Request -> Seq({"allow", "deny", "review", "outside", "error"})]
    /\ checked \in [Request -> Nat]
    /\ reviews \in [Request -> Nat]
    /\ heldSince \in [Request -> Nat]
    /\ passport \in SUBSET Request
    /\ expiry \in [Request -> Nat]
    /\ lag \in [Request -> SUBSET Nat]
    /\ audited \in [Request -> Seq({"allow", "deny"})]

GatewayInit ==
    /\ Init
    /\ pc = [q \in Request |-> "idle"]
    /\ plan = [q \in Request |-> <<>>]
    /\ checked = [q \in Request |-> 0]
    /\ reviews = [q \in Request |-> 0]
    /\ heldSince = [q \in Request |-> 0]
    /\ passport = {}
    /\ expiry = [q \in Request |-> 0]
    /\ lag = [q \in Request |-> {}]
    /\ audited = [q \in Request |-> <<>>]

Parties(q) == {PrincipalOf[q], AgentOf[q]}

-----------------------------------------------------------------------------
(* Moving on, and the two audited ways to stop. *)

Goto(q, s) == pc' = [pc EXCEPT ![q] = s]

Audit(q, action) == audited' = [audited EXCEPT ![q] = Append(@, action)]

(* Every early return of ServeHTTP but the 404 of an unscoped path: one audit *)
(* entry, one answer, nothing forwarded.                                      *)
Refuse(q) ==
    /\ Goto(q, "answered")
    /\ Audit(q, "deny")
    /\ UNCHANGED <<vars, plan, checked, reviews, heldSince, passport, expiry, lag>>

Continue(q, s) ==
    /\ Goto(q, s)
    /\ UNCHANGED <<vars, plan, checked, reviews, heldSince, passport, expiry, lag, audited>>

(* An answer without an audit entry: the path names no server at all. *)
NotFound(q) ==
    /\ pc[q] = "idle" /\ up[On[q]]
    /\ Continue(q, "answered")

(* Unknown server, oversized body, malformed JSON-RPC. *)
RefuseEarly(q) ==
    /\ pc[q] = "idle" /\ up[On[q]]
    /\ Refuse(q)

Arrive(q, p) ==
    /\ pc[q] = "idle" /\ up[On[q]]
    /\ plan' = [plan EXCEPT ![q] = p]
    /\ Goto(q, "principal")
    /\ UNCHANGED <<vars, checked, reviews, heldSince, passport, expiry, lag, audited>>

(* The authenticator consults the kill-switch, but not its freshness. *)
Principal(q) ==
    /\ pc[q] = "principal"
    /\ \/ ~Revoked(On[q], PrincipalOf[q]) /\ Continue(q, "identity")
       \/ Refuse(q)

(* Instance credential and proof, delegation chain. *)
Identity(q) ==
    /\ pc[q] = "identity"
    /\ Continue(q, "fresh") \/ Refuse(q)

(* Mutant: a revocation stage that trusts any snapshot. *)
CheckFreshnessSkipped(q) ==
    /\ pc[q] = "fresh"
    /\ checked' = [checked EXCEPT ![q] = clock]
    /\ Goto(q, "revokedPrincipal")
    /\ UNCHANGED <<vars, plan, reviews, heldSince, passport, expiry, lag, audited>>

(* revoke.Stage: freshness, then one lookup per party, each its own lock. *)
CheckFreshness(q) ==
    /\ pc[q] = "fresh"
    /\ \/ /\ CheckFresh(On[q])
          /\ checked' = [checked EXCEPT ![q] = clock]
          /\ Goto(q, "revokedPrincipal")
          /\ UNCHANGED <<vars, plan, reviews, heldSince, passport, expiry, lag, audited>>
       \/ ~CheckFresh(On[q]) /\ Refuse(q)

CheckPrincipal(q) ==
    /\ pc[q] = "revokedPrincipal"
    /\ IF Revoked(On[q], PrincipalOf[q]) THEN Refuse(q) ELSE Continue(q, "revokedAgent")

CheckAgent(q) ==
    /\ pc[q] = "revokedAgent"
    /\ IF Revoked(On[q], AgentOf[q]) THEN Refuse(q) ELSE Continue(q, "policy")

-----------------------------------------------------------------------------
(* policy.Stage: the actions in order; the first that is not allowed ends it. *)

(* Mutant: the first allowed action answers for the batch. *)
NextActionSkipsRest(q) ==
    /\ plan' = [plan EXCEPT ![q] = Tail(@)]
    /\ Goto(q, "mint")
    /\ UNCHANGED <<vars, checked, reviews, heldSince, passport, expiry, lag, audited>>

(* The action was allowed: the next one, or the mint stage. *)
NextAction(q) ==
    /\ plan' = [plan EXCEPT ![q] = Tail(@)]
    /\ Goto(q, IF Tail(plan[q]) = <<>> THEN "mint" ELSE "policy")
    /\ UNCHANGED <<vars, checked, reviews, heldSince, passport, expiry, lag, audited>>

DecideAction(q) ==
    /\ pc[q] = "policy"
    /\ \/ Head(plan[q]) = "allow" /\ NextAction(q)
       \/ Head(plan[q]) \in {"deny", "outside", "error"} /\ Refuse(q)

(* approver.Decide parks the request. *)
Hold(q) ==
    /\ pc[q] = "policy"
    /\ Head(plan[q]) = "review"
    /\ Goto(q, "held")
    /\ heldSince' = [heldSince EXCEPT ![q] = clock]
    /\ reviews' = [reviews EXCEPT ![q] = @ + 1]
    /\ UNCHANGED <<vars, plan, checked, passport, expiry, lag, audited>>

(* An operator approves, at any time up to and including the timeout's race. *)
Approve(q) ==
    /\ pc[q] = "held"
    /\ NextAction(q)

(* An operator denies, the client leaves, or the timer fires. *)
Abandon(q) ==
    /\ pc[q] = "held"
    /\ Refuse(q)

-----------------------------------------------------------------------------
(* Mint, audit, forward. *)

(* How long the parties of q have been on the durable list, those that are. *)
ListedFor(q) == {clock - since[i] : i \in Parties(q) \cap source}

(* The signer may fail; otherwise the passport is set and the headers replaced. *)
Mint(q) ==
    /\ pc[q] = "mint"
    /\ \/ Refuse(q)
       \/ /\ passport' = passport \cup {q}
          /\ expiry' = [expiry EXCEPT ![q] = clock + TTL]
          /\ lag' = [lag EXCEPT ![q] = ListedFor(q)]
          /\ Goto(q, "audit")
          /\ UNCHANGED <<vars, plan, checked, reviews, heldSince, audited>>

(* Mutant: forward first, audit never. *)
AuditAllowSkipped(q) ==
    /\ pc[q] = "audit"
    /\ Continue(q, "forward")

(* ServeHTTP goes on only with a passport. *)
AuditAllow(q) ==
    /\ pc[q] = "audit"
    /\ IF q \in passport
       THEN /\ Audit(q, "allow")
            /\ Goto(q, "forward")
            /\ UNCHANGED <<vars, plan, checked, reviews, heldSince, passport, expiry, lag>>
       ELSE Refuse(q)

Forward(q) ==
    /\ pc[q] = "forward"
    /\ Continue(q, "forwarded")

(* The upstream's response, delivered or refused by the inspector, or a proxy error. *)
Respond(q) ==
    /\ pc[q] = "forwarded"
    /\ Continue(q, "answered")

(* Mutant: the expiry is not looked at. *)
AcceptsExpired(q) == q \in passport

(* verify.Verify, offline at the resource server: it honours the passport of q *)
(* now, on the forwarded request or on any other that bears it.  The seconds   *)
(* the wire format rounds down to only shorten its life.                       *)
Accepts(q) == q \in passport /\ clock < expiry[q]

-----------------------------------------------------------------------------
(* Mutant: the approver's timer is never armed. *)
QuietWithoutTimer == \A q \in Request : pc[q] \in Waiting

(* Time waits for the stages that do not wait, and for an overdue timer. *)
Quiet ==
    \A q \in Request :
        /\ pc[q] \in Waiting
        /\ pc[q] = "held" /\ ApprovalTimeout > 0 => clock < heldSince[q] + ApprovalTimeout

(* A replica's crash takes its requests with it. *)
KillSwitchStep ==
    /\ Next
    /\ clock' # clock => Quiet
    /\ pc' = [q \in Request |->
           IF up[On[q]] /\ ~up'[On[q]] /\ pc[q] \notin {"idle", "answered"}
           THEN "lost" ELSE pc[q]]
    /\ UNCHANGED <<plan, checked, reviews, heldSince, passport, expiry, lag, audited>>

RequestStep(q) ==
    \/ NotFound(q)
    \/ RefuseEarly(q)
    \/ \E p \in Plan : Arrive(q, p)
    \/ Principal(q)
    \/ Identity(q)
    \/ CheckFreshness(q)
    \/ CheckPrincipal(q)
    \/ CheckAgent(q)
    \/ DecideAction(q)
    \/ Hold(q)
    \/ Approve(q)
    \/ Abandon(q)
    \/ Mint(q)
    \/ AuditAllow(q)
    \/ Forward(q)
    \/ Respond(q)

GatewayNext == KillSwitchStep \/ \E q \in Request : RequestStep(q)

GatewaySpec == GatewayInit /\ [][GatewayNext]_allVars

-----------------------------------------------------------------------------
(* Properties. *)

(* How long the reviews of q may have held it, in all. *)
Allowance(q) == reviews[q] * ApprovalTimeout

(* A passport is never minted for a party that had been on the durable list for *)
(* longer than the kill-switch's own bound plus the time the request was held   *)
(* for review: revoke.Stage runs before the policy stage and nothing re-reads   *)
(* the list between an approval and the mint.                                   *)
MintedInTime ==
    MaxStale > 0 /\ ApprovalTimeout > 0 =>
        \A q \in passport : \A age \in lag[q] :
            age <= MaxStale + ListTimeout + Allowance(q)

(* Why: a party the stage let pass had not been listed for longer than the      *)
(* kill-switch's bound when freshness was checked, although the snapshot may be *)
(* swapped between that check and the lookups; and at any later stage the check *)
(* is no older than the holds since.                                            *)
Screened(q) ==
    /\ checked[q] <= clock
    /\ pc[q] \notin {"idle", "answered", "lost"} => up[On[q]]
    /\ pc[q] \in {"revokedPrincipal", "revokedAgent"} =>
           clock = checked[q] /\ CheckFresh(On[q])
    /\ MaxStale > 0 /\ ApprovalTimeout > 0 =>
        /\ pc[q] \in {"revokedAgent", "policy", "held", "mint"} /\ PrincipalOf[q] \in source =>
               checked[q] <= since[PrincipalOf[q]] + MaxStale + ListTimeout
        /\ pc[q] \in {"policy", "held", "mint"} /\ AgentOf[q] \in source =>
               checked[q] <= since[AgentOf[q]] + MaxStale + ListTimeout
        /\ pc[q] \in {"policy", "mint"} => clock <= checked[q] + Allowance(q)
        /\ pc[q] = "held" =>
               /\ clock <= heldSince[q] + ApprovalTimeout
               /\ heldSince[q] + ApprovalTimeout <= checked[q] + Allowance(q)

ScreenedInTime == \A q \in Request : Screened(q)

(* "The kill-switch is gateway-side; the short TTL is the bound on that window": *)
(* a resource server, which asks nobody, honours a passport for a party on the   *)
(* durable list for less than the bound of the mint plus the passport's life,    *)
(* whether the party was listed before the mint or after it.                     *)
HonouredInTime ==
    MaxStale > 0 /\ ApprovalTimeout > 0 =>
        \A q \in Request : Accepts(q) => \A age \in ListedFor(q) :
            age < MaxStale + ListTimeout + Allowance(q) + TTL

(* The upstream is contacted only after the allow entry is in the log and with  *)
(* a minted passport; no request gets two entries, and one that was refused is  *)
(* never forwarded.                                                             *)
Accountable ==
    \A q \in Request :
        /\ Len(audited[q]) <= 1
        /\ pc[q] \in {"forward", "forwarded"} => audited[q] = <<"allow">> /\ q \in passport
        /\ audited[q] = <<"deny">> => pc[q] = "answered"

(* Every action of a request that reached the mint stage was decided, and the   *)
(* decision was an allow, by the policy or by an operator; and the policy stage *)
(* is never left with nothing to decide.                                        *)
WholePlanAllowed ==
    \A q \in Request :
        /\ pc[q] = "mint" => plan[q] = <<>>
        /\ pc[q] \in {"principal", "identity", "fresh", "revokedPrincipal",
                      "revokedAgent", "policy", "held"} => plan[q] # <<>>
=============================================================================
