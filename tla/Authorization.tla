---------------------------- MODULE Authorization ----------------------------
(***************************************************************************)
(* The authority of one request, from the hops that delegate it to the     *)
(* tool that is run: NewRoot and Extend sign hops, the gateway's           *)
(* delegation stage verifies the chain it is handed hop by hop against a   *)
(* key registry that other requests write, the policy stage decides and    *)
(* narrows, the mint stage issues the passport, and the resource server's  *)
(* middleware enforces it.                                                 *)
(*                                                                         *)
(* A signature is a name for the one message it was made over, signer's    *)
(* key included: the hop it goes with carries the fields of that message,  *)
(* since with any others it does not verify.                               *)
(***************************************************************************)
EXTENDS Delegation, Policy

CONSTANTS
    Id,            \* party ids; the same id may name a principal and an agent
    Key,
    Signature,
    NoSignature,   \* what the first hop is chained to
    Nobody,        \* no agent, no key, no server
    Principal,     \* the id the request authenticated as
    PrincipalKey,  \* its key in the registry's principal namespace
    KeysOf,        \* KeysOf[i]: the instance keys of agents called i
    Roots,         \* the ids parties sign first hops as
    Delegates,     \* the <<delegator, delegate>> pairs parties sign hops for
    Call,          \* JSON-RPC calls
    MaxCalls,      \* bound on the calls of one body
    Rules          \* the operator's policy

ASSUME AuthorizationAssumption ==
    /\ NoSignature \notin Signature
    /\ Nobody \notin Id \cup Key \cup Server
    /\ Principal \in Id
    /\ PrincipalKey \in Key
    /\ KeysOf \in [Id -> SUBSET Key]
    /\ Roots \subseteq Id
    /\ Delegates \subseteq Id \X Id
    /\ Grant \subseteq Grants
    /\ \A c \in Call : c.tool \in Tool \cup {NoTool}
    /\ NoTool \notin Tool
    /\ MaxCalls \in Nat /\ MaxDepth \in Nat /\ MaxClock \in Nat
    /\ RequireChain \in BOOLEAN

VARIABLES
    agentKey,   \* agentKey[i]: the unexpired entry of the registry's agent namespace
    hop,        \* hop[s]: the hop signature s was made over, s any made so far
    lineage,    \* lineage[s]: the chain NewRoot or Extend returned with s (history)
    pc,         \* where the request stands
    chain,      \* the chain it carries: the signatures of its hops, in order
    agent,      \* req.Agent
    server,     \* the target
    at,         \* Verify's now
    verified,   \* how many hops Verify has been through
    scope,      \* req.Scope
    passport,   \* the minted passport's agent, audience and scope
    run         \* the tools the resource server ran for the passport

signing == <<hop, lineage>>
world == <<clock, agentKey, signing>>
request == <<pc, chain, agent, server, at, verified, scope, passport, run>>
vars == <<world, request>>

Hop == [key : Key, delegator : Id, delegate : Id, grant : Grant,
        prev : Signature \cup {NoSignature}]
Passport == [agent : Id \cup {Nobody}, audience : Server \cup {Nobody}, scope : Scope]

NoPassport == [agent |-> Nobody, audience |-> Nobody, scope |-> Unscoped]

TypeOK ==
    /\ clock \in Nat
    /\ agentKey \in [Id -> Key \cup {Nobody}]
    /\ DOMAIN hop \subseteq Signature
    /\ hop \in [DOMAIN hop -> Hop]
    /\ lineage \in [DOMAIN hop -> Seq(Signature)]
    /\ pc \in {"idle", "verify", "policy", "mint", "minted", "ran"}
    /\ chain \in Seq(Signature)
    /\ agent \in Id \cup {Nobody}
    /\ server \in Server \cup {Nobody}
    /\ at \in Nat
    /\ verified \in 0 .. Len(chain)
    /\ scope \in Scope
    /\ passport \in Passport
    /\ run \in SUBSET Tool

Init ==
    /\ clock = 0
    /\ agentKey = [i \in Id |-> Nobody]
    /\ hop = <<>> /\ lineage = <<>>
    /\ pc = "idle"
    /\ chain = <<>>
    /\ agent = Nobody
    /\ server = Nobody
    /\ at = 0
    /\ verified = 0
    /\ scope = Unscoped
    /\ passport = NoPassport
    /\ run = {}

-----------------------------------------------------------------------------
(* Delegators. *)

(* Sign makes the signature of a message that has none yet; signing a message *)
(* again gives the signature it has.                                          *)
Sign(s, h, c) ==
    /\ s \in Signature \ DOMAIN hop
    /\ \A t \in DOMAIN hop : hop[t] # h
    /\ hop' = [t \in DOMAIN hop \cup {s} |-> IF t = s THEN h ELSE hop[t]]
    /\ lineage' = [t \in DOMAIN hop \cup {s} |-> IF t = s THEN Append(c, s) ELSE lineage[t]]
    /\ UNCHANGED <<clock, agentKey, request>>

NewRoot(s, p, d, k, g) ==
    /\ p # d
    /\ Sign(s, [key |-> k, delegator |-> p, delegate |-> d, grant |-> g,
                prev |-> NoSignature], <<>>)

Parties(c) == {hop[c[1]].delegator} \cup {hop[c[i]].delegate : i \in DOMAIN c}

(* Whoever holds the chain that ends in t extends it; nothing of it is verified. *)
Extend(s, t, d, k, g) ==
    /\ Len(lineage[t]) + 1 <= MaxDepth
    /\ d \notin Parties(lineage[t])
    /\ Sign(s, [key |-> k, delegator |-> hop[t].delegate, delegate |-> d, grant |-> g,
                prev |-> t], lineage[t])

-----------------------------------------------------------------------------
(* The key registry: every request's instance stage, this one's and those of   *)
(* others, writes the entry of the agent it authenticated.                     *)

Registered(i, k) == agentKey' = [agentKey EXCEPT ![i] = k]

InstanceStage(i, k) ==
    /\ agentKey[i] # k
    /\ Registered(i, k)
    /\ UNCHANGED <<clock, signing, request>>

KeyExpires(i) ==
    /\ agentKey[i] # Nobody
    /\ Registered(i, Nobody)
    /\ UNCHANGED <<clock, signing, request>>

Tick ==
    /\ clock < MaxClock
    /\ clock' = clock + 1
    /\ UNCHANGED <<agentKey, signing, request>>

-----------------------------------------------------------------------------
(* The delegation stage. *)

Answered ==
    /\ pc' = "idle" /\ chain' = <<>> /\ agent' = Nobody /\ server' = Nobody
    /\ at' = 0 /\ verified' = 0
    /\ scope' = Unscoped /\ passport' = NoPassport /\ run' = {}
    /\ UNCHANGED world

checkShape(c) ==
    /\ c # <<>>
    /\ Len(c) <= MaxDepth
    /\ \A i \in DOMAIN c :
        /\ hop[c[i]].delegator # hop[c[i]].delegate
        /\ hop[c[i]].delegate # hop[c[1]].delegator
        /\ \A j \in DOMAIN c : j < i => hop[c[j]].delegate # hop[c[i]].delegate

(* The request arrives with the chain c; Verify reads the clock and looks at *)
(* the chain's shape first.                                                  *)
Present(c) ==
    /\ pc = "idle"
    /\ checkShape(c)
    /\ pc' = "verify" /\ chain' = c /\ at' = clock
    /\ UNCHANGED <<world, agent, server, verified, scope, passport, run>>

(* Without a chain the principal acts directly, unscoped; i is the instance the *)
(* request authenticated as, if it did.                                         *)
PresentNone(i, v) ==
    /\ pc = "idle"
    /\ ~RequireChain
    /\ pc' = "policy" /\ agent' = i /\ server' = v
    /\ UNCHANGED <<world, chain, at, verified, scope, passport, run>>

Verifying == hop[chain[verified + 1]]
Verified(n) == hop[chain[n]]

(* Hop 0 resolves in the principal namespace, later ones in the agents'. *)
KeyOf(n, i) == IF n = 0 THEN IF i = Principal THEN PrincipalKey ELSE Nobody ELSE agentKey[i]

(* Mutant: the signature does not cover the hop before. *)
ValidSignatureAlone(h, n) == KeyOf(n, h.delegator) # Nobody /\ h.key = KeyOf(n, h.delegator)

(* The delegator's key signed this hop, upon the signature of the one before. *)
ValidSignature(h, n) ==
    /\ KeyOf(n, h.delegator) # Nobody
    /\ h.key = KeyOf(n, h.delegator)
    /\ h.prev = IF n = 0 THEN NoSignature ELSE chain[n]

HopOK(h, n) ==
    /\ h.delegator = IF n = 0 THEN Principal ELSE Verified(n).delegate
    /\ ValidSignature(h, n)
    /\ n > 0 => attenuates(Verified(n).grant, h.grant)
    /\ ~Expired(h.grant, at)

VerifyHop ==
    /\ pc = "verify" /\ verified < Len(chain)
    /\ IF HopOK(Verifying, verified)
       THEN verified' = verified + 1
            /\ UNCHANGED <<world, pc, chain, agent, server, at, scope, passport, run>>
       ELSE Answered

(* The instance i that authenticated, if one did, must be the chain's last        *)
(* delegate, who acts; the target v must be a server it grants.                   *)
Narrow(i, v) ==
    /\ pc = "verify" /\ verified = Len(chain)
    /\ LET last == Verified(Len(chain)) IN
       IF i \in {Nobody, last.delegate} /\ granted(last.grant.servers, v)
       THEN /\ pc' = "policy" /\ server' = v
            /\ scope' = [tools |-> last.grant.tools, budget |-> last.grant.budget]
            /\ agent' = last.delegate
            /\ UNCHANGED <<world, chain, at, verified, passport, run>>
       ELSE Answered

-----------------------------------------------------------------------------
(* The policy stage, the mint stage, the resource server. *)

Body == UNION {[1 .. n -> Call] : n \in 0 .. MaxCalls}

(* Mutant: the requested tools replace the delegated scope, budget and all. *)
NarrowedAfresh(calls) ==
    IF distinct(calls) = {} THEN scope ELSE [tools |-> distinct(calls), budget |-> NoBudget]

(* The scope granted: the tools requested, the delegated budget. *)
Narrowed(calls) ==
    IF distinct(calls) = {} THEN scope ELSE [tools |-> distinct(calls), budget |-> scope.budget]

Effect(call) ==
    IF call.tool # NoTool /\ ~granted(scope.tools, call.tool) THEN "deny"
    ELSE Evaluate(Rules, server, call)

(* Every element allowed, by the policy or - those under review - by an operator. *)
Allow(calls) ==
    /\ pc = "policy"
    /\ \A call \in Decided(calls) : Effect(call) \in {"allow", "review"}
    /\ pc' = "mint"
    /\ scope' = Narrowed(calls)
    /\ UNCHANGED <<world, chain, agent, server, at, verified, passport, run>>

(* One is denied, by the policy or by the operator. *)
Deny(calls) ==
    /\ pc = "policy"
    /\ \E call \in Decided(calls) : Effect(call) \in {"deny", "review"}
    /\ Answered

Mint ==
    /\ pc = "mint"
    /\ pc' = "minted"
    /\ passport' = [agent |-> agent, audience |-> server, scope |-> scope]
    /\ UNCHANGED <<world, chain, agent, server, at, verified, scope, run>>

(* The middleware of server v, built with EnforceScope, on a body that reaches *)
(* it with the passport, by this route or another: right audience, every tool  *)
(* in scope.                                                                   *)
Serve(v, calls) ==
    /\ pc \in {"minted", "ran"}
    /\ passport.audience = v
    /\ \A tool \in distinct(calls) : granted(passport.scope.tools, tool)
    /\ pc' = "ran"
    /\ run' = distinct(calls)
    /\ UNCHANGED <<world, chain, agent, server, at, verified, scope, passport>>

(* The passport is out of date, or not used again. *)
Done ==
    /\ pc \in {"minted", "ran"}
    /\ Answered

Chains == UNION {[1 .. n -> DOMAIN hop] : n \in 1 .. MaxDepth}

Delegate ==
    \E s \in Signature, g \in Grant, e \in Delegates :
        \/ \E k \in KeysOf[e[1]] \cup {PrincipalKey} : e[1] \in Roots /\ NewRoot(s, e[1], e[2], k, g)
        \/ \E t \in DOMAIN hop, k \in KeysOf[e[1]] :
               hop[t].delegate = e[1] /\ Extend(s, t, e[2], k, g)

Next ==
    \/ Delegate
    \/ \E i \in Id, k \in Key : k \in KeysOf[i] /\ InstanceStage(i, k)
    \/ \E i \in Id : KeyExpires(i)
    \/ Tick
    \/ \E i \in Id \cup {Nobody} :
        \E v \in Server : PresentNone(i, v) \/ Narrow(i, v)
    \/ \E c \in Chains : Present(c)
    \/ VerifyHop
    \/ \E calls \in Body : Allow(calls) \/ Deny(calls)
    \/ Mint
    \/ \E v \in Server, calls \in Body : Serve(v, calls)
    \/ Done

Spec == Init /\ [][Next]_vars

-----------------------------------------------------------------------------
(* Properties. *)

Spend == {g.budget : g \in Grant} \ {NoBudget}

(* Verify's result is the narrowest of its chain: at every point of the loop,   *)
(* whatever the grant of the hop just verified permits - a tool, a server, a    *)
(* time, an amount - every hop before it permits, unnamed tools and servers,    *)
(* missing expiries and missing budgets read the way the enforcement reads them. *)
EffectiveIsNarrowest ==
    \A m \in 1 .. verified : \A tool \in Tool, v \in Server, now \in 0 .. MaxClock, spend \in Spend :
        Permits(Verified(verified).grant, tool, v, now, spend) =>
            Permits(Verified(m).grant, tool, v, now, spend)

(* Hops cannot be recombined: the hops Verify has accepted are the chain that   *)
(* NewRoot and Extend made, begun with the principal's own key - never hops of  *)
(* two chains, whatever keys other requests register meanwhile.                 *)
AcceptedWasBuilt ==
    verified > 0 =>
        /\ SubSeq(chain, 1, verified) = lineage[chain[verified]]
        /\ Verified(1).key = PrincipalKey /\ Verified(1).delegator = Principal

(* End to end: what the resource server runs for a passport minted on a chain   *)
(* was granted by every hop of it - the tool, the server, and a budget that no  *)
(* hop's is exceeded by - whatever body the passport is used with.              *)
UsedWithinGrant ==
    pc = "ran" =>
        \A m \in DOMAIN chain :
            /\ \A tool \in run : granted(Verified(m).grant.tools, tool)
            /\ granted(Verified(m).grant.servers, passport.audience)
            /\ Verified(m).grant.budget.unit # NoUnit =>
                   Covers(Verified(m).grant.budget, passport.scope.budget)
=============================================================================
