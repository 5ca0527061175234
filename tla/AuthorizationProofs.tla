------------------------- MODULE AuthorizationProofs -------------------------
(***************************************************************************)
(* Authority only narrows, for every set of parties, keys and grants and   *)
(* for chains of any depth: the loop of Verify, the policy stage, the mint *)
(* and the middleware, with the key registry changing underneath.          *)
(***************************************************************************)
EXTENDS Authorization, DelegationProofs

-----------------------------------------------------------------------------
(* The inductive invariant. *)

(* A signature is chained to the one it was made upon, all the way down. *)
HopsLinked ==
    \A s \in DOMAIN hop :
        /\ hop[s].prev = NoSignature => lineage[s] = <<s>>
        /\ hop[s].prev # NoSignature =>
               hop[s].prev \in DOMAIN hop /\ lineage[s] = Append(lineage[hop[s].prev], s)

Presented == \A i \in 1 .. Len(chain) : chain[i] \in DOMAIN hop

(* The loop: the last verified hop is compared with every one before it. *)
Narrowing ==
    \A m \in 1 .. verified : attenuates(Verified(m).grant, Verified(verified).grant)

Within(sc, g) ==
    /\ subset(g.tools, sc.tools)
    /\ g.budget.unit # NoUnit => Covers(g.budget, sc.budget)

(* After the loop: the scope is within the last grant, the server granted. *)
Scoped ==
    pc \in {"policy", "mint", "minted", "ran"} =>
        /\ verified = Len(chain)
        /\ chain # <<>> =>
               /\ Within(scope, Verified(Len(chain)).grant)
               /\ granted(Verified(Len(chain)).grant.servers, server)

Carried ==
    /\ pc = "idle" => chain = <<>>
    /\ pc = "verify" => chain # <<>>
    /\ pc \in {"minted", "ran"} => passport.scope = scope /\ passport.audience = server
    /\ pc = "ran" => \A tool \in run : granted(scope.tools, tool)

IInv == TypeOK /\ HopsLinked /\ Presented /\ Narrowing /\ AcceptedWasBuilt /\ Scoped /\ Carried

LEMMA Initially == Init => IInv
<1> SUFFICES ASSUME Init PROVE IInv
  OBVIOUS
<1>1. DOMAIN hop = {} /\ Len(chain) = 0
  BY DEF Init
<1>2. TypeOK
  BY <1>1 DEF Init, TypeOK, Unscoped, NoPassport, NoBudget, Scope, Passport, Budget
<1>3. HopsLinked /\ Presented /\ Narrowing /\ AcceptedWasBuilt /\ Scoped /\ Carried
  BY <1>1 DEF Init, HopsLinked, Presented, Narrowing, AcceptedWasBuilt, Scoped, Carried
<1> QED
  BY <1>2, <1>3 DEF IInv

(* A new signature changes neither a hop, nor a chain, that was there. *)
LEMMA SignKeeps ==
  ASSUME IInv, NEW s, NEW h \in Hop, NEW c \in Seq(Signature), Sign(s, h, c),
         h.prev = NoSignature => c = <<>>,
         h.prev # NoSignature => h.prev \in DOMAIN hop /\ c = lineage[h.prev]
  PROVE  IInv'
<1>1. /\ s \in Signature /\ s \notin DOMAIN hop
      /\ DOMAIN hop' = DOMAIN hop \cup {s} /\ DOMAIN lineage' = DOMAIN hop \cup {s}
      /\ hop'[s] = h /\ lineage'[s] = Append(c, s)
      /\ \A t \in DOMAIN hop : hop'[t] = hop[t] /\ lineage'[t] = lineage[t]
  BY DEF Sign
<1>2. /\ UNCHANGED <<clock, agentKey>>
      /\ UNCHANGED <<pc, chain, agent, server, at, verified, scope, passport, run>>
  BY DEF Sign, request
<1>3. hop' \in [DOMAIN hop' -> Hop] /\ lineage' \in [DOMAIN hop' -> Seq(Signature)]
  BY <1>1 DEF Sign, IInv, TypeOK
<1>4. TypeOK'
  BY <1>1, <1>2, <1>3 DEF IInv, TypeOK
<1>5. HopsLinked'
  <2> SUFFICES ASSUME NEW t \in DOMAIN hop'
               PROVE  /\ hop'[t].prev = NoSignature => lineage'[t] = <<t>>
                      /\ hop'[t].prev # NoSignature =>
                           /\ hop'[t].prev \in DOMAIN hop'
                           /\ lineage'[t] = Append(lineage'[hop'[t].prev], t)
    BY DEF HopsLinked
  <2>1. CASE t = s
    <3>1. h.prev = NoSignature => Append(c, s) = <<s>>
      BY <1>1
    <3> QED
      BY <1>1, <2>1, <3>1
  <2>2. CASE t \in DOMAIN hop
    BY <1>1, <2>2 DEF IInv, HopsLinked
  <2> QED
    BY <1>1, <2>1, <2>2
<1>6. \A i \in 1 .. Len(chain) : chain[i] \in DOMAIN hop /\ Verified(i)' = Verified(i)
                                 /\ lineage'[chain[i]] = lineage[chain[i]]
  BY <1>1, <1>2 DEF IInv, Presented, Verified
<1>7. verified \in 0 .. Len(chain) /\ Len(chain) \in Nat
  BY DEF IInv, TypeOK
<1>8. Presented' /\ Narrowing' /\ Carried'
  BY <1>1, <1>2, <1>6, <1>7 DEF IInv, Presented, Narrowing, Carried
<1>9. AcceptedWasBuilt'
  <2> SUFFICES ASSUME verified > 0
               PROVE  /\ SubSeq(chain, 1, verified) = lineage'[chain[verified]]
                      /\ Verified(1)'.key = PrincipalKey /\ Verified(1)'.delegator = Principal
    BY <1>2 DEF AcceptedWasBuilt
  <2>1. verified \in 1 .. Len(chain) /\ 1 \in 1 .. Len(chain)
    BY <1>7
  <2>2. /\ SubSeq(chain, 1, verified) = lineage[chain[verified]]
        /\ Verified(1).key = PrincipalKey /\ Verified(1).delegator = Principal
    BY DEF IInv, AcceptedWasBuilt
  <2> QED
    BY <1>6, <2>1, <2>2
<1>10. Scoped'
  BY <1>2, <1>6, <1>7 DEF IInv, Scoped, Within
<1> QED
  BY <1>4, <1>5, <1>8, <1>9, <1>10 DEF IInv

LEMMA DelegateKeeps ==
  ASSUME IInv, Delegate
  PROVE  IInv'
<1>1. PICK s \in Signature, g \in Grant, e \in Delegates :
          \/ \E k \in KeysOf[e[1]] \cup {PrincipalKey} : e[1] \in Roots /\ NewRoot(s, e[1], e[2], k, g)
          \/ \E t \in DOMAIN hop, k \in KeysOf[e[1]] :
                 hop[t].delegate = e[1] /\ Extend(s, t, e[2], k, g)
  BY DEF Delegate
<1>2. e[1] \in Id /\ e[2] \in Id /\ KeysOf[e[1]] \subseteq Key /\ PrincipalKey \in Key
  BY AuthorizationAssumption
<1>3. CASE \E k \in KeysOf[e[1]] \cup {PrincipalKey} : e[1] \in Roots /\ NewRoot(s, e[1], e[2], k, g)
  <2>1. PICK k \in KeysOf[e[1]] \cup {PrincipalKey} : NewRoot(s, e[1], e[2], k, g)
    BY <1>3
  <2> DEFINE h == [key |-> k, delegator |-> e[1], delegate |-> e[2], grant |-> g,
                   prev |-> NoSignature]
  <2>2. h \in Hop /\ h.prev = NoSignature
    BY <1>2 DEF Hop
  <2>3. Sign(s, h, <<>>)
    BY <2>1 DEF NewRoot
  <2>4. <<>> \in Seq(Signature)
    OBVIOUS
  <2> HIDE DEF h
  <2> QED
    BY <2>2, <2>3, <2>4, SignKeeps
<1>4. CASE \E t \in DOMAIN hop, k \in KeysOf[e[1]] :
              hop[t].delegate = e[1] /\ Extend(s, t, e[2], k, g)
  <2>1. PICK t \in DOMAIN hop, k \in KeysOf[e[1]] :
              hop[t].delegate = e[1] /\ Extend(s, t, e[2], k, g)
    BY <1>4
  <2> DEFINE h == [key |-> k, delegator |-> hop[t].delegate, delegate |-> e[2], grant |-> g,
                   prev |-> t]
  <2>2. t \in Signature /\ t # NoSignature /\ lineage[t] \in Seq(Signature)
    BY AuthorizationAssumption DEF IInv, TypeOK
  <2>3. h \in Hop /\ h.prev = t
    BY <1>2, <2>1, <2>2 DEF Hop
  <2>4. Sign(s, h, lineage[t])
    BY <2>1 DEF Extend
  <2> HIDE DEF h
  <2> QED
    BY <2>2, <2>3, <2>4, SignKeeps
<1> QED
  BY <1>1, <1>3, <1>4

(* The registry and the clock are no part of what was accepted. *)
LEMMA WorldKeeps ==
  ASSUME IInv, UNCHANGED <<signing, request>>, clock' \in Nat,
         agentKey' \in [Id -> Key \cup {Nobody}]
  PROVE  IInv'
<1>1. /\ hop' = hop /\ lineage' = lineage
      /\ UNCHANGED <<pc, chain, agent, server, at, verified, scope, passport, run>>
  BY DEF signing, request
<1>2. TypeOK'
  BY <1>1 DEF IInv, TypeOK
<1>3. HopsLinked' /\ Presented' /\ Narrowing' /\ AcceptedWasBuilt' /\ Scoped' /\ Carried'
  BY <1>1 DEF IInv, HopsLinked, Presented, Narrowing, AcceptedWasBuilt, Scoped, Carried, Verified
<1> QED
  BY <1>2, <1>3 DEF IInv

LEMMA AnsweredKeeps ==
  ASSUME IInv, Answered
  PROVE  IInv'
<1>1. /\ hop' = hop /\ lineage' = lineage /\ clock' = clock /\ agentKey' = agentKey
      /\ pc' = "idle" /\ chain' = <<>> /\ agent' = Nobody /\ server' = Nobody /\ at' = 0
      /\ verified' = 0 /\ scope' = Unscoped /\ passport' = NoPassport /\ run' = {}
  BY DEF Answered, world, signing
<1>2. TypeOK'
  BY <1>1 DEF IInv, TypeOK, Unscoped, NoPassport, NoBudget, Scope, Passport, Budget
<1>3. HopsLinked' /\ Presented' /\ Narrowing' /\ AcceptedWasBuilt' /\ Scoped' /\ Carried'
  BY <1>1 DEF IInv, HopsLinked, Presented, Narrowing, AcceptedWasBuilt, Scoped, Carried
<1> QED
  BY <1>2, <1>3 DEF IInv

LEMMA PresentKeeps ==
  ASSUME IInv, NEW c \in Chains, Present(c)
  PROVE  IInv'
<1>1. PICK n \in 1 .. MaxDepth : c \in [1 .. n -> DOMAIN hop]
  BY DEF Chains
<1>2. c \in Seq(Signature) /\ Len(c) = n /\ n \in Nat
      /\ \A i \in 1 .. Len(c) : c[i] \in DOMAIN hop
  <2>1. n \in Nat /\ c \in [1 .. n -> Signature]
    BY <1>1, AuthorizationAssumption DEF IInv, TypeOK
  <2>2. c \in Seq(Signature)
    BY <2>1
  <2>3. Len(c) = n
    BY <2>1, <2>2
  <2> QED
    BY <1>1, <2>1, <2>2, <2>3
<1>3. verified = 0
  BY DEF Present, IInv, TypeOK, Carried
<1>4. /\ hop' = hop /\ lineage' = lineage /\ clock' = clock /\ agentKey' = agentKey
      /\ pc' = "verify" /\ chain' = c /\ at' = clock
      /\ UNCHANGED <<agent, server, verified, scope, passport, run>>
  BY DEF Present, world, signing
<1>5. TypeOK'
  BY <1>2, <1>3, <1>4 DEF IInv, TypeOK
<1>6. HopsLinked' /\ Presented'
  BY <1>2, <1>4 DEF IInv, HopsLinked, Presented
<1>7. Narrowing' /\ AcceptedWasBuilt'
  <2>1. verified' = 0
    BY <1>3, <1>4
  <2> QED
    BY <2>1 DEF Narrowing, AcceptedWasBuilt
<1>8. Scoped' /\ Carried'
  <2>1. c # <<>>
    BY <1>1, <1>2
  <2> QED
    BY <1>4, <2>1 DEF Scoped, Carried
<1> QED
  BY <1>5, <1>6, <1>7, <1>8 DEF IInv

LEMMA PresentNoneKeeps ==
  ASSUME IInv, NEW i \in Id \cup {Nobody}, NEW v \in Server, PresentNone(i, v)
  PROVE  IInv'
<1>1. chain = <<>> /\ verified = 0
  BY DEF PresentNone, IInv, TypeOK, Carried
<1>2. /\ hop' = hop /\ lineage' = lineage /\ clock' = clock /\ agentKey' = agentKey
      /\ pc' = "policy" /\ agent' = i /\ server' = v
      /\ UNCHANGED <<chain, at, verified, scope, passport, run>>
  BY DEF PresentNone, world, signing
<1>3. TypeOK'
  BY <1>2 DEF IInv, TypeOK
<1>4. HopsLinked' /\ Presented' /\ Narrowing' /\ AcceptedWasBuilt' /\ Scoped' /\ Carried'
  BY <1>1, <1>2 DEF IInv, HopsLinked, Presented, Narrowing, AcceptedWasBuilt, Scoped, Carried
<1> QED
  BY <1>3, <1>4 DEF IInv

(* One more hop: what it is compared with is compared with all before it. *)
LEMMA VerifyHopKeeps ==
  ASSUME IInv, VerifyHop
  PROVE  IInv'
<1>1. CASE ~HopOK(Verifying, verified)
  BY <1>1, AnsweredKeeps DEF VerifyHop
<1>2. CASE HopOK(Verifying, verified)
  <2> DEFINE n == verified
  <2>1. /\ hop' = hop /\ lineage' = lineage /\ clock' = clock /\ agentKey' = agentKey
        /\ pc = "verify" /\ verified' = n + 1
        /\ UNCHANGED <<pc, chain, agent, server, at, scope, passport, run>>
    BY <1>2 DEF VerifyHop, world, signing
  <2>2. n \in Nat /\ Len(chain) \in Nat /\ n < Len(chain) /\ chain \in Seq(Signature)
    BY DEF VerifyHop, IInv, TypeOK
  <2>3. chain[n + 1] \in DOMAIN hop /\ (n > 0 => chain[n] \in DOMAIN hop)
    BY <2>2 DEF IInv, Presented
  <2>4. TypeOK'
    BY <2>1, <2>2 DEF IInv, TypeOK
  <2>5. HopsLinked' /\ Presented' /\ Scoped' /\ Carried'
    BY <2>1 DEF IInv, HopsLinked, Presented, Scoped, Carried
  <2>6. \A m \in 1 .. Len(chain) : Verified(m)' = Verified(m) /\ Verified(m).grant \in Grants
    BY <2>1, AuthorizationAssumption DEF IInv, TypeOK, Presented, Verified, Hop
  <2>7. Narrowing'
    <3> SUFFICES ASSUME NEW m \in 1 .. n + 1
                 PROVE  attenuates(Verified(m).grant, Verified(n + 1).grant)
      BY <2>1, <2>2, <2>6 DEF Narrowing
    <3>1. CASE m = n + 1
      BY <2>2, <2>6, <3>1, AttenuatesReflexive
    <3>2. CASE m \in 1 .. n
      <4>1. attenuates(Verified(m).grant, Verified(n).grant)
        BY <3>2 DEF IInv, Narrowing
      <4>2. attenuates(Verified(n).grant, Verified(n + 1).grant)
        BY <1>2, <2>2, <3>2 DEF HopOK, Verifying, Verified
      <4> QED
        BY <2>2, <2>6, <3>2, <4>1, <4>2, AttenuatesTransitive
    <3> QED
      BY <2>2, <3>1, <3>2
  <2>8. AcceptedWasBuilt'
    <3>1. SubSeq(chain, 1, n + 1) = lineage[chain[n + 1]]
      <4>1. CASE n = 0
        <5>1. hop[chain[1]].prev = NoSignature
          BY <1>2, <4>1 DEF HopOK, ValidSignature, Verifying
        <5>2. lineage[chain[1]] = <<chain[1]>>
          BY <2>3, <4>1, <5>1 DEF IInv, HopsLinked
        <5>3. SubSeq(chain, 1, 1) = Append(SubSeq(chain, 1, 0), chain[1])
          BY <2>2, <4>1
        <5>4. SubSeq(chain, 1, 0) = <<>>
          BY <2>2
        <5> QED
          BY <4>1, <5>2, <5>3, <5>4
      <4>2. CASE n > 0
        <5>1. hop[chain[n + 1]].prev = chain[n]
          BY <1>2, <2>2, <4>2 DEF HopOK, ValidSignature, Verifying
        <5>2. chain[n] # NoSignature
          BY <2>3, <4>2, AuthorizationAssumption DEF IInv, TypeOK
        <5>3. lineage[chain[n + 1]] = Append(lineage[chain[n]], chain[n + 1])
          BY <2>3, <5>1, <5>2 DEF IInv, HopsLinked
        <5>4. lineage[chain[n]] = SubSeq(chain, 1, n)
          BY <4>2 DEF IInv, AcceptedWasBuilt
        <5>5. SubSeq(chain, 1, n + 1) = Append(SubSeq(chain, 1, n), chain[n + 1])
          BY <2>2, <4>2
        <5> QED
          BY <5>3, <5>4, <5>5
      <4> QED
        BY <2>2, <4>1, <4>2
    <3>2. Verified(1).key = PrincipalKey /\ Verified(1).delegator = Principal
      <4>1. CASE n = 0
        BY <1>2, <4>1 DEF HopOK, ValidSignature, KeyOf, Verifying, Verified
      <4>2. CASE n > 0
        BY <4>2 DEF IInv, AcceptedWasBuilt
      <4> QED
        BY <2>2, <4>1, <4>2
    <3>3. Verified(1)'.key = PrincipalKey /\ Verified(1)'.delegator = Principal
      BY <2>2, <2>6, <3>2
    <3>4. SubSeq(chain', 1, verified') = lineage'[chain'[verified']]
      BY <2>1, <3>1
    <3> QED
      BY <3>3, <3>4 DEF AcceptedWasBuilt
  <2> QED
    BY <2>4, <2>5, <2>7, <2>8 DEF IInv
<1> QED
  BY <1>1, <1>2

LEMMA NarrowKeeps ==
  ASSUME IInv, NEW i \in Id \cup {Nobody}, NEW v \in Server, Narrow(i, v)
  PROVE  IInv'
<1> DEFINE last == Verified(Len(chain))
           ok == i \in {Nobody, last.delegate} /\ granted(last.grant.servers, v)
<1>1. CASE ~ok
  BY <1>1, AnsweredKeeps DEF Narrow
<1>2. CASE ok
  <2>1. /\ hop' = hop /\ lineage' = lineage /\ clock' = clock /\ agentKey' = agentKey
        /\ pc = "verify" /\ verified = Len(chain) /\ pc' = "policy" /\ server' = v
        /\ scope' = [tools |-> last.grant.tools, budget |-> last.grant.budget]
        /\ agent' = last.delegate
        /\ UNCHANGED <<chain, at, verified, passport, run>>
    BY <1>2 DEF Narrow, world, signing
  <2>2. chain \in Seq(Signature) /\ Len(chain) \in Nat /\ Len(chain) > 0
    BY <2>1 DEF IInv, TypeOK, Carried
  <2>3. last \in Hop
    BY <2>2 DEF IInv, TypeOK, Presented, Verified
  <2>4. last.grant \in Grants /\ last.delegate \in Id
    BY <2>3, AuthorizationAssumption DEF Hop
  <2>5. scope' \in Scope
    BY <2>1, <2>4 DEF Scope, Grants
  <2>6. TypeOK'
    BY <2>1, <2>4, <2>5 DEF IInv, TypeOK
  <2>7. HopsLinked' /\ Presented' /\ Narrowing'
    BY <2>1 DEF IInv, HopsLinked, Presented, Narrowing, Verified
  <2>10. AcceptedWasBuilt' /\ Carried'
    BY <2>1 DEF IInv, AcceptedWasBuilt, Carried, Verified
  <2>8. Within(scope', last.grant)
    <3>1. scope'.tools = last.grant.tools /\ scope'.budget = last.grant.budget
      BY <2>1
    <3>2. last.grant.budget.limit \in Nat
      BY <2>4 DEF Grants, Budget
    <3> QED
      BY <3>1, <3>2 DEF Within, subset, Covers
  <2>9. Scoped'
    BY <1>2, <2>1, <2>8 DEF Scoped, Verified
  <2> QED
    BY <2>6, <2>7, <2>9, <2>10 DEF IInv
<1> QED
  BY <1>1, <1>2

(* The tools of a body are tools. *)
LEMMA BodyTools ==
  ASSUME NEW calls \in Body
  PROVE  distinct(calls) \subseteq Tool
<1>1. PICK n \in 0 .. MaxCalls : calls \in [1 .. n -> Call]
  BY DEF Body
<1> QED
  BY <1>1, AuthorizationAssumption DEF distinct

(* What the policy stage grants is no wider than what was delegated: a tool *)
(* outside the delegated set is denied before the policy is asked.          *)
LEMMA AllowKeeps ==
  ASSUME IInv, NEW calls \in Body, Allow(calls)
  PROVE  IInv'
<1>1. /\ hop' = hop /\ lineage' = lineage /\ clock' = clock /\ agentKey' = agentKey
      /\ pc = "policy" /\ pc' = "mint" /\ scope' = Narrowed(calls)
      /\ UNCHANGED <<chain, agent, server, at, verified, passport, run>>
  BY DEF Allow, world, signing
<1>2. \A tool \in distinct(calls) : granted(scope.tools, tool)
  <2> SUFFICES ASSUME NEW tool \in distinct(calls) PROVE granted(scope.tools, tool)
    OBVIOUS
  <2>1. PICK i \in DOMAIN calls : calls[i].tool = tool
    BY DEF distinct
  <2>2. tool # NoTool
    BY DEF distinct
  <2>3. calls # <<>>
    BY <2>1
  <2>4. calls[i] \in Decided(calls)
    BY <2>1, <2>3 DEF Decided
  <2>5. Effect(calls[i]) # "deny"
    BY <2>4 DEF Allow
  <2> QED
    BY <2>1, <2>2, <2>5 DEF Effect
<1>3. subset(scope.tools, scope'.tools) /\ scope'.budget = scope.budget
  BY <1>1, <1>2 DEF Narrowed, subset, granted
<1>4. scope' \in Scope
  BY <1>1, BodyTools DEF Narrowed, Scope, IInv, TypeOK
<1>5. TypeOK'
  BY <1>1, <1>4 DEF IInv, TypeOK
<1>6. HopsLinked' /\ Presented' /\ Narrowing'
  BY <1>1 DEF IInv, HopsLinked, Presented, Narrowing, Verified
<1>8. AcceptedWasBuilt' /\ Carried'
  BY <1>1 DEF IInv, AcceptedWasBuilt, Carried, Verified
<1>7. Scoped'
  <2>1. ASSUME NEW g, Within(scope, g) PROVE Within(scope', g)
    BY <1>3, <2>1, SubsetTransitive DEF Within
  <2> QED
    BY <1>1, <2>1 DEF IInv, Scoped, Verified
<1> QED
  BY <1>5, <1>6, <1>7, <1>8 DEF IInv

LEMMA MintKeeps ==
  ASSUME IInv, Mint
  PROVE  IInv'
<1>1. /\ hop' = hop /\ lineage' = lineage /\ clock' = clock /\ agentKey' = agentKey
      /\ pc = "mint" /\ pc' = "minted"
      /\ passport' = [agent |-> agent, audience |-> server, scope |-> scope]
      /\ UNCHANGED <<chain, agent, server, at, verified, scope, run>>
  BY DEF Mint, world, signing
<1>2. TypeOK'
  BY <1>1 DEF IInv, TypeOK, Passport
<1>3. HopsLinked' /\ Presented' /\ Narrowing' /\ AcceptedWasBuilt' /\ Carried' /\ Scoped'
  BY <1>1 DEF IInv, HopsLinked, Presented, Narrowing, AcceptedWasBuilt, Carried, Scoped, Verified
<1> QED
  BY <1>2, <1>3 DEF IInv

LEMMA ServeKeeps ==
  ASSUME IInv, NEW v \in Server, NEW calls \in Body, Serve(v, calls)
  PROVE  IInv'
<1>1. /\ hop' = hop /\ lineage' = lineage /\ clock' = clock /\ agentKey' = agentKey
      /\ pc \in {"minted", "ran"} /\ pc' = "ran" /\ run' = distinct(calls)
      /\ \A tool \in distinct(calls) : granted(passport.scope.tools, tool)
      /\ UNCHANGED <<chain, agent, server, at, verified, scope, passport>>
  BY DEF Serve, world, signing
<1>2. TypeOK'
  BY <1>1, BodyTools DEF IInv, TypeOK
<1>3. HopsLinked' /\ Presented' /\ Narrowing' /\ AcceptedWasBuilt' /\ Scoped'
  BY <1>1 DEF IInv, HopsLinked, Presented, Narrowing, AcceptedWasBuilt, Scoped, Verified
<1>4. Carried'
  BY <1>1 DEF IInv, Carried
<1> QED
  BY <1>2, <1>3, <1>4 DEF IInv

LEMMA Inductive ==
  ASSUME IInv, [Next]_vars
  PROVE  IInv'
<1>1. CASE Delegate
  BY <1>1, DelegateKeeps
<1>2. ASSUME NEW i \in Id, NEW k \in Key, InstanceStage(i, k) PROVE IInv'
  BY <1>2, WorldKeeps DEF InstanceStage, Registered, IInv, TypeOK
<1>3. ASSUME NEW i \in Id, KeyExpires(i) PROVE IInv'
  BY <1>3, WorldKeeps DEF KeyExpires, Registered, IInv, TypeOK
<1>4. CASE Tick
  BY <1>4, WorldKeeps DEF Tick, IInv, TypeOK
<1>5. ASSUME NEW i \in Id \cup {Nobody}, NEW v \in Server, PresentNone(i, v) \/ Narrow(i, v)
      PROVE  IInv'
  BY <1>5, PresentNoneKeeps, NarrowKeeps
<1>6. ASSUME NEW c \in Chains, Present(c) PROVE IInv'
  BY <1>6, PresentKeeps
<1>7. CASE VerifyHop
  BY <1>7, VerifyHopKeeps
<1>8. ASSUME NEW calls \in Body, Allow(calls) \/ Deny(calls) PROVE IInv'
  BY <1>8, AllowKeeps, AnsweredKeeps DEF Deny
<1>9. CASE Mint
  BY <1>9, MintKeeps
<1>10. ASSUME NEW v \in Server, NEW calls \in Body, Serve(v, calls) PROVE IInv'
  BY <1>10, ServeKeeps
<1>11. CASE Done
  BY <1>11, AnsweredKeeps DEF Done
<1>12. CASE UNCHANGED vars
  BY <1>12, WorldKeeps DEF vars, world, IInv, TypeOK
<1> QED
  BY <1>1, <1>2, <1>3, <1>4, <1>5, <1>6, <1>7, <1>8, <1>9, <1>10, <1>11, <1>12 DEF Next

-----------------------------------------------------------------------------
(* The theorems. *)

LEMMA Invariance == Spec => []IInv
<1>1. Init => IInv
  BY Initially
<1>2. IInv /\ [Next]_vars => IInv'
  BY Inductive
<1> QED
  BY <1>1, <1>2, PTL DEF Spec

(* The gateway and the signers keep their types. *)
THEOREM TypeCorrect == Spec => []TypeOK
<1>1. IInv => TypeOK
  BY DEF IInv
<1> QED
  BY <1>1, Invariance, PTL

(* Verify never accepts hops of two chains: what it has accepted is a chain that *)
(* NewRoot and Extend made, begun with the principal's key, however the registry *)
(* changes between two hops.                                                     *)
THEOREM NoRecombination == Spec => []AcceptedWasBuilt
<1>1. IInv => AcceptedWasBuilt
  BY DEF IInv
<1> QED
  BY <1>1, Invariance, PTL

(* The effective grant permits nothing that a hop before it does not, for chains *)
(* of any depth.                                                                 *)
THEOREM VerifyNarrows == Spec => []EffectiveIsNarrowest
<1>1. IInv => EffectiveIsNarrowest
  <2> SUFFICES ASSUME IInv, NEW m \in 1 .. verified, NEW tool \in Tool, NEW v \in Server,
                      NEW now \in 0 .. MaxClock, NEW spend \in Spend,
                      Permits(Verified(verified).grant, tool, v, now, spend)
               PROVE  Permits(Verified(m).grant, tool, v, now, spend)
    BY DEF EffectiveIsNarrowest
  <2>1. verified \in 1 .. Len(chain) /\ m \in 1 .. Len(chain)
    BY DEF IInv, TypeOK
  <2>2. Verified(m).grant \in Grants /\ Verified(verified).grant \in Grants
    BY <2>1, AuthorizationAssumption DEF IInv, TypeOK, Presented, Verified, Hop
  <2>3. attenuates(Verified(m).grant, Verified(verified).grant)
    BY DEF IInv, Narrowing
  <2>4. spend \in Budget /\ now \in Nat
    BY AuthorizationAssumption DEF Spend, Grants
  <2> QED
    BY <2>2, <2>3, <2>4, AttenuatesPermits
<1> QED
  BY <1>1, Invariance, PTL

(* What a resource server runs for a passport, on any body, every hop of the   *)
(* chain behind it granted: tool, server and budget.                           *)
THEOREM AuthorityOnlyNarrows == Spec => []UsedWithinGrant
<1>1. IInv => UsedWithinGrant
  <2> SUFFICES ASSUME IInv, pc = "ran", NEW m \in DOMAIN chain
               PROVE  /\ \A tool \in run : granted(Verified(m).grant.tools, tool)
                      /\ granted(Verified(m).grant.servers, passport.audience)
                      /\ Verified(m).grant.budget.unit # NoUnit =>
                             Covers(Verified(m).grant.budget, passport.scope.budget)
    BY DEF UsedWithinGrant
  <2> DEFINE g == Verified(m).grant
             l == Verified(Len(chain)).grant
  <2>1. m \in 1 .. Len(chain) /\ Len(chain) \in Nat /\ chain # <<>> /\ verified = Len(chain)
    BY DEF IInv, TypeOK, Scoped
  <2>2. g \in Grants /\ l \in Grants
    BY <2>1, AuthorizationAssumption DEF IInv, TypeOK, Presented, Verified, Hop
  <2>3. attenuates(g, l)
    BY <2>1 DEF IInv, Narrowing
  <2>4. Within(scope, l) /\ granted(l.servers, server)
    BY <2>1 DEF IInv, Scoped
  <2>5. passport.scope = scope /\ passport.audience = server /\ scope \in Scope
        /\ \A tool \in run : granted(scope.tools, tool)
    BY DEF IInv, Carried, TypeOK
  <2> HIDE DEF g, l
  <2>6. ASSUME NEW tool \in run PROVE granted(g.tools, tool)
    BY <2>3, <2>4, <2>5, <2>6, SubsetGrants DEF attenuates, Within
  <2>7. granted(g.servers, passport.audience)
    BY <2>3, <2>4, <2>5, SubsetGrants DEF attenuates
  <2>8. g.budget.unit # NoUnit => Covers(g.budget, passport.scope.budget)
    <3>1. /\ g.budget.limit \in Nat /\ l.budget.limit \in Nat /\ scope.budget.limit \in Nat
      BY <2>2, <2>5 DEF Grants, Budget, Scope
    <3>2. g.budget.unit # NoUnit =>
            l.budget.unit = g.budget.unit /\ l.budget.limit <= g.budget.limit
      BY <2>3 DEF attenuates
    <3>3. l.budget.unit # NoUnit =>
            scope.budget.unit = l.budget.unit /\ scope.budget.limit <= l.budget.limit
      BY <2>4 DEF Within, Covers
    <3> QED
      BY <2>5, <3>1, <3>2, <3>3 DEF Covers
  <2> QED
    BY <2>6, <2>7, <2>8 DEF g
<1> QED
  BY <1>1, Invariance, PTL
=============================================================================
