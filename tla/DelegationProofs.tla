--------------------------- MODULE DelegationProofs ---------------------------
(***************************************************************************)
(* What attenuates, the comparison every delegation mode makes between a   *)
(* grant and the one before it, is good for: it carries over any number of *)
(* delegations, and it is sound for what grants mean.                      *)
(*                                                                         *)
(* Then two of the modes, for any number of tokens, blocks, grants and     *)
(* concurrent calls.  The online exchange implements the delegation tree,  *)
(* and its tokens only narrow; an offline capability passes Verify only    *)
(* whole, and scopes a request within every block.  The third, the signed  *)
(* chain, is in AuthorizationProofs.                                       *)
(***************************************************************************)
EXTENDS Capability, Exchange, TLAPS

-----------------------------------------------------------------------------
(* Narrowing. *)

(* subset, the code's comparison of two sets, is transitive although the empty *)
(* set is its widest member.                                                   *)
LEMMA SubsetTransitive ==
  ASSUME NEW A, NEW B, NEW C, subset(A, B), subset(B, C)
  PROVE  subset(A, C)
BY DEF subset

(* What a narrower set lets through, the wider one does. *)
LEMMA SubsetGrants ==
  ASSUME NEW A, NEW B, NEW x, subset(A, B), granted(B, x)
  PROVE  granted(A, x)
BY DEF subset, granted

(* attenuates compares a hop with the one before; the comparison carries over *)
(* any number of hops.                                                        *)
LEMMA AttenuatesTransitive ==
  ASSUME NEW f \in Grants, NEW g \in Grants, NEW h \in Grants,
         attenuates(f, g), attenuates(g, h)
  PROVE  attenuates(f, h)
<1>1. subset(f.tools, h.tools) /\ subset(f.servers, h.servers)
  BY SubsetTransitive DEF attenuates
<1>2. f.notAfter # 0 => h.notAfter # 0 /\ h.notAfter <= f.notAfter
  BY DEF attenuates, Grants
<1>3. f.budget.unit # NoUnit =>
          h.budget.unit = f.budget.unit /\ h.budget.limit <= f.budget.limit
  BY DEF attenuates, Grants, Budget
<1> QED
  BY <1>1, <1>2, <1>3 DEF attenuates

LEMMA AttenuatesReflexive ==
  ASSUME NEW g \in Grants
  PROVE  attenuates(g, g)
<1>1. subset(g.tools, g.tools) /\ subset(g.servers, g.servers)
  BY DEF subset
<1>2. g.notAfter \in Nat /\ g.budget.limit \in Nat
  BY DEF Grants, Budget
<1> QED
  BY <1>1, <1>2 DEF attenuates

(* The comparison is sound for what grants mean: a narrower grant permits no *)
(* use that the wider one does not.                                          *)
LEMMA AttenuatesPermits ==
  ASSUME NEW f \in Grants, NEW g \in Grants, attenuates(f, g),
         NEW tool, NEW v, NEW now \in Nat, NEW spend \in Budget,
         Permits(g, tool, v, now, spend)
  PROVE  Permits(f, tool, v, now, spend)
<1>1. granted(f.tools, tool) /\ granted(f.servers, v)
  BY SubsetGrants DEF attenuates, Permits
<1>2. ~Expired(f, now)
  BY DEF attenuates, Permits, Expired, Grants
<1>3. Covers(f.budget, spend)
  BY DEF attenuates, Permits, Covers, Grants, Budget
<1> QED
  BY <1>1, <1>2, <1>3 DEF Permits

-----------------------------------------------------------------------------
(* The exchange: the inductive invariant. *)

TokenType == [parent : TokenId \cup {NoToken}, grant : Grant, notAfter : Nat]

ExchangeTypeOK ==
    /\ clock \in Nat
    /\ DOMAIN token \subseteq TokenId
    /\ token \in [DOMAIN token -> TokenType]
    /\ DOMAIN parent \subseteq DOMAIN token
    /\ \A u \in DOMAIN parent : parent[u] \in DOMAIN token \cup {NoToken}
    /\ line \in [DOMAIN token -> SUBSET DOMAIN token]
    /\ revoked \subseteq DOMAIN token
    /\ exchanging \subseteq [by : Caller, parent : DOMAIN token, grant : Grant]

(* What was recorded at issue is what the walk finds: the line of a token has  *)
(* its start, is closed under parent, and is within every set that is.         *)
LineOf(t) ==
    /\ t \in line[t]
    /\ ClosedUp(line[t])
    /\ \A S \in SUBSET DOMAIN token : t \in S /\ ClosedUp(S) => line[t] \subseteq S

Lined == \A t \in DOMAIN token : LineOf(t)

(* Every token, issued or about to be, narrows the one it is exchanged for. *)
Narrows ==
    /\ \A t \in DOMAIN token : token[t].parent # NoToken =>
           /\ token[t].parent \in DOMAIN token
           /\ attenuates(token[token[t].parent].grant, token[t].grant)
    /\ \A x \in exchanging : attenuates(token[x.parent].grant, x.grant)

XInv == ExchangeTypeOK /\ Lined /\ Narrows

LEMMA ExchangeInitially == clock = 0 /\ ExchangeInit => XInv
<1> SUFFICES ASSUME clock = 0, ExchangeInit PROVE XInv
  OBVIOUS
<1>1. DOMAIN token = {} /\ DOMAIN parent = {} /\ DOMAIN line = {}
  BY DEF ExchangeInit
<1>2. ExchangeTypeOK
  BY <1>1 DEF ExchangeInit, ExchangeTypeOK
<1>3. Lined /\ Narrows
  BY <1>1 DEF ExchangeInit, Lined, Narrows
<1> QED
  BY <1>2, <1>3 DEF XInv

(* The walk of Verify visits the line of the token. *)
LEMMA WalkIsLine ==
  ASSUME ExchangeTypeOK, Lined, NEW t \in DOMAIN token
  PROVE  Ancestry(t) = line[t]
<1>1. line[t] \subseteq DOMAIN token /\ LineOf(t)
  BY DEF ExchangeTypeOK, Lined
<1>2. line[t] \subseteq Ancestry(t)
  BY <1>1 DEF Ancestry, LineOf
<1>3. Ancestry(t) \subseteq line[t]
  BY <1>1 DEF Ancestry, LineOf
<1> QED
  BY <1>2, <1>3

(* A token that is issued below p, p itself issued or no token, has p's line    *)
(* above it and leaves every other line what it was: nothing points to it yet.  *)
LEMMA IssueKeepsLines ==
  ASSUME ExchangeTypeOK, Lined, NEW t, NEW p \in DOMAIN token \cup {NoToken}, NEW g,
         issue(t, p, g)
  PROVE  Lined'
<1>0. /\ t \in TokenId /\ t \notin DOMAIN token /\ t # NoToken
      /\ DOMAIN token' = DOMAIN token \cup {t}
      /\ \A u \in DOMAIN token : line'[u] = line[u] /\ line[u] \subseteq DOMAIN token
      /\ line'[t] = IF p = NoToken THEN {t} ELSE line[p] \cup {t}
  BY ExchangeAssumption DEF issue, Signed, ExchangeTypeOK
<1>1. \A u \in DOMAIN token : ParentOf(u)' = ParentOf(u) /\ ParentOf(u) \in DOMAIN token \cup {NoToken}
  BY <1>0 DEF issue, ParentOf, ExchangeTypeOK
<1>2. ParentOf(t)' = p
  BY <1>0 DEF issue, ParentOf
<1>3. ASSUME NEW S \in SUBSET DOMAIN token
      PROVE  ClosedUp(S)' <=> ClosedUp(S)
  BY <1>1 DEF ClosedUp
<1>4. ASSUME NEW S \in SUBSET DOMAIN token', ClosedUp(S)'
      PROVE  ClosedUp(S \ {t})
  <2> SUFFICES ASSUME NEW u \in S \ {t} PROVE ParentOf(u) \in (S \ {t}) \cup {NoToken}
    BY DEF ClosedUp
  <2>1. u \in DOMAIN token /\ ParentOf(u)' \in S \cup {NoToken}
    BY <1>0, <1>4 DEF ClosedUp
  <2> QED
    BY <1>0, <1>1, <2>1
<1>5. ASSUME NEW u \in DOMAIN token PROVE LineOf(u)'
  <2>1. LineOf(u) /\ line'[u] = line[u]
    BY <1>0 DEF Lined
  <2>2. u \in line'[u] /\ ClosedUp(line[u])'
    BY <1>0, <1>3, <2>1 DEF LineOf
  <2>3. ASSUME NEW S \in SUBSET DOMAIN token', u \in S, ClosedUp(S)'
        PROVE  line'[u] \subseteq S
    <3>1. S \ {t} \in SUBSET DOMAIN token /\ u \in S \ {t} /\ ClosedUp(S \ {t})
      BY <1>0, <1>4, <2>3
    <3> QED
      BY <2>1, <3>1 DEF LineOf
  <2> QED
    BY <2>1, <2>2, <2>3 DEF LineOf
<1>6. LineOf(t)'
  <2>1. CASE p = NoToken
    <3>1. line'[t] = {t} /\ ClosedUp({t})'
      BY <1>0, <1>2, <2>1 DEF ClosedUp
    <3> QED
      BY <3>1 DEF LineOf
  <2>2. CASE p \in DOMAIN token
    <3>1. LineOf(p) /\ line'[t] = line[p] \cup {t} /\ p # NoToken
      BY <1>0, <2>2, ExchangeAssumption DEF Lined, ExchangeTypeOK
    <3>2. PICK L : L = line[p]
      OBVIOUS
    <3>3. p \in L /\ L \in SUBSET DOMAIN token /\ ClosedUp(L) /\ line'[t] = L \cup {t}
      BY <1>0, <2>2, <3>1, <3>2 DEF LineOf
    <3>4. ClosedUp(L \cup {t})'
      <4>1. ClosedUp(L)'
        BY <1>3, <3>3
      <4> QED
        BY <1>2, <3>3, <4>1 DEF ClosedUp
    <3>5. ASSUME NEW S \in SUBSET DOMAIN token', t \in S, ClosedUp(S)'
          PROVE  line'[t] \subseteq S
      <4>1. p \in S
        BY <1>2, <3>1, <3>5 DEF ClosedUp
      <4>2. S \ {t} \in SUBSET DOMAIN token /\ p \in S \ {t} /\ ClosedUp(S \ {t})
        BY <1>0, <1>4, <2>2, <3>5, <4>1
      <4> QED
        BY <3>1, <3>5, <4>2 DEF LineOf
    <3>6. ClosedUp(line[t])'
      BY <3>3, <3>4 DEF ClosedUp
    <3> QED
      BY <3>3, <3>5, <3>6 DEF LineOf
  <2> QED
    BY <2>1, <2>2
<1> QED
  BY <1>0, <1>5, <1>6 DEF Lined

(* Issuing keeps the invariant when the grant narrows that of the parent. *)
LEMMA IssueKeeps ==
  ASSUME XInv, NEW t, NEW p \in DOMAIN token \cup {NoToken}, NEW g \in Grant,
         p # NoToken => attenuates(token[p].grant, g),
         issue(t, p, g), UNCHANGED <<clock, revoked>>,
         exchanging' \subseteq exchanging
  PROVE  XInv'
<1> USE DEF XInv
<1>0. /\ t \in TokenId /\ t \notin DOMAIN token /\ p # t
      /\ DOMAIN token' = DOMAIN token \cup {t}
      /\ token'[t] = [parent |-> p, grant |-> g, notAfter |-> clock + TTL]
      /\ \A u \in DOMAIN token : token'[u] = token[u]
  BY ExchangeAssumption DEF issue, Signed
<1>1. token' \in [DOMAIN token' -> TokenType]
  <2>1. token'[t] \in TokenType
    BY <1>0, ExchangeAssumption DEF ExchangeTypeOK, TokenType
  <2>2. \A u \in DOMAIN token : token'[u] \in TokenType
    BY <1>0 DEF ExchangeTypeOK
  <2> QED
    BY <1>0, <2>1, <2>2 DEF issue, Signed
<1>2. line' \in [DOMAIN token' -> SUBSET DOMAIN token']
  BY <1>0, ExchangeAssumption DEF issue, Signed, ExchangeTypeOK
<1>3. ExchangeTypeOK'
  <2>1. DOMAIN parent' \subseteq DOMAIN token'
        /\ \A u \in DOMAIN parent' : parent'[u] \in DOMAIN token' \cup {NoToken}
    BY <1>0 DEF issue, ExchangeTypeOK
  <2>2. exchanging' \subseteq [by : Caller, parent : DOMAIN token', grant : Grant]
    BY <1>0 DEF ExchangeTypeOK
  <2> QED
    BY <1>0, <1>1, <1>2, <2>1, <2>2 DEF ExchangeTypeOK
<1>4. Lined'
  BY IssueKeepsLines
<1>5. Narrows'
  <2>1. ASSUME NEW u \in DOMAIN token', token'[u].parent # NoToken
        PROVE  /\ token'[u].parent \in DOMAIN token'
               /\ attenuates(token'[token'[u].parent].grant, token'[u].grant)
    <3>1. CASE u = t
      BY <1>0, <2>1, <3>1
    <3>2. CASE u \in DOMAIN token
      BY <1>0, <2>1, <3>2 DEF Narrows
    <3> QED
      BY <1>0, <3>1, <3>2
  <2>2. ASSUME NEW x \in exchanging' PROVE attenuates(token'[x.parent].grant, x.grant)
    BY <1>0, <2>2 DEF Narrows, ExchangeTypeOK
  <2> QED
    BY <2>1, <2>2 DEF Narrows
<1> QED
  BY <1>3, <1>4, <1>5

LEMMA ExchangeStepKeeps ==
  ASSUME XInv, [ExchangeNext]_<<clock, exchangeVars>>
  PROVE  XInv'
<1> USE DEF XInv
<1>1. ASSUME NEW t \in TokenId, NEW g \in Grant, IssueRoot(t, g) PROVE XInv'
  BY <1>1, IssueKeeps DEF IssueRoot
<1>2. ASSUME NEW c \in Caller, NEW p \in TokenId, NEW g \in Grant, BeginExchange(c, p, g)
      PROVE  XInv'
  <2>1. ExchangeTypeOK' /\ Narrows'
    BY <1>2 DEF BeginExchange, Valid, ExchangeTypeOK, Narrows
  <2>2. Lined'
    BY <1>2 DEF BeginExchange, Lined, LineOf, ClosedUp, ParentOf
  <2> QED
    BY <2>1, <2>2
<1>3. ASSUME NEW x \in exchanging, NEW t \in TokenId, FinishExchange(x, t) PROVE XInv'
  <2>1. x.parent \in DOMAIN token /\ x.grant \in Grant /\ attenuates(token[x.parent].grant, x.grant)
    BY DEF ExchangeTypeOK, Narrows
  <2>2. issue(t, x.parent, x.grant) /\ UNCHANGED <<clock, revoked>> /\ exchanging' \subseteq exchanging
    BY <1>3 DEF FinishExchange
  <2> QED
    BY <2>1, <2>2, IssueKeeps
<1>4. ASSUME NEW t \in TokenId, VerifyToken(t) \/ RevokeToken(t) PROVE XInv'
  <2>1. /\ UNCHANGED <<clock, token, parent, line, exchanging>>
        /\ revoked' \subseteq DOMAIN token
    BY <1>4 DEF VerifyToken, RevokeToken, ExchangeTypeOK
  <2>2. ExchangeTypeOK' /\ Narrows'
    BY <2>1 DEF ExchangeTypeOK, Narrows
  <2>3. Lined'
    BY <2>1 DEF Lined, LineOf, ClosedUp, ParentOf
  <2> QED
    BY <2>2, <2>3
<1>5. ASSUME RestartAuthority PROVE XInv'
  <2>1. /\ UNCHANGED <<clock, token>> /\ DOMAIN parent' = {} /\ revoked' = {} /\ exchanging' = {}
        /\ line' = [t \in DOMAIN token |-> {t}]
    BY <1>5 DEF RestartAuthority
  <2>2. ExchangeTypeOK' /\ Narrows'
    BY <2>1 DEF ExchangeTypeOK, Narrows
  <2>3. Lined'
    BY <2>1 DEF Lined, LineOf, ClosedUp, ParentOf
  <2> QED
    BY <2>2, <2>3
<1>6. ASSUME ExchangeTick \/ UNCHANGED <<clock, exchangeVars>> PROVE XInv'
  <2>1. UNCHANGED exchangeVars /\ clock' \in Nat
    BY <1>6 DEF ExchangeTick, ExchangeTypeOK
  <2>2. ExchangeTypeOK' /\ Narrows'
    BY <2>1 DEF ExchangeTypeOK, Narrows, exchangeVars
  <2>3. Lined'
    BY <2>1 DEF Lined, LineOf, ClosedUp, ParentOf, exchangeVars
  <2> QED
    BY <2>2, <2>3
<1> QED
  BY <1>1, <1>2, <1>3, <1>4, <1>5, <1>6 DEF ExchangeNext

LEMMA ExchangeInvariance == ExchangeSpec => []XInv
  BY ExchangeInitially, ExchangeStepKeeps, PTL DEF ExchangeSpec

(* Along every exchange, through any number of revocations and restarts, the    *)
(* new token permits nothing that the one exchanged for does not.               *)
THEOREM ExchangeNarrows == ExchangeSpec => []TokensNarrow
<1>1. XInv => TokensNarrow
  <2> SUFFICES ASSUME XInv, NEW t \in DOMAIN token, token[t].parent # NoToken
               PROVE  /\ token[t].parent \in DOMAIN token
                      /\ \A tool \in Tool, v \in Server, now \in 0 .. MaxClock, spend \in Spends :
                             Permits(token[t].grant, tool, v, now, spend) =>
                                 Permits(token[token[t].parent].grant, tool, v, now, spend)
    BY DEF TokensNarrow
  <2> DEFINE f == token[token[t].parent].grant
  <2> DEFINE g == token[t].grant
  <2>1. token[t].parent \in DOMAIN token /\ attenuates(f, g)
    BY DEF XInv, Narrows
  <2>2. f \in Grants /\ g \in Grants
    BY <2>1, ExchangeAssumption DEF XInv, ExchangeTypeOK, TokenType
  <2>3. Spends \subseteq Budget
    BY ExchangeAssumption DEF Spends, Grants
  <2> HIDE DEF f, g
  <2>4. ASSUME NEW tool \in Tool, NEW v \in Server, NEW now \in 0 .. MaxClock, NEW spend \in Spends,
               Permits(g, tool, v, now, spend)
        PROVE  Permits(f, tool, v, now, spend)
    BY <2>1, <2>2, <2>3, <2>4, AttenuatesPermits, ExchangeAssumption
  <2> QED
    BY <2>1, <2>4 DEF f, g
<1> QED
  BY <1>1, ExchangeInvariance, PTL

-----------------------------------------------------------------------------
(* The exchange implements the tree. *)

Doomed == {t \in DOMAIN token : line[t] \cap revoked # {}}
GrantOf == [t \in DOMAIN token |-> token[t].grant]

(* A revoked token is doomed itself, and so is all that has a doomed one above. *)
LEMMA DoomIsInherited ==
  ASSUME XInv, NEW p \in DOMAIN token
  PROVE  line[p] \cap Doomed = {} <=> line[p] \cap revoked = {}
<1> USE DEF XInv
<1>1. ASSUME NEW r \in line[p] \cap revoked PROVE r \in line[p] \cap Doomed
  <2>1. r \in DOMAIN token /\ r \in line[r]
    BY DEF ExchangeTypeOK, Lined, LineOf
  <2> QED
    BY <2>1 DEF Doomed
<1>2. ASSUME NEW u \in line[p] \cap Doomed PROVE line[p] \cap revoked # {}
  <2>1. u \in DOMAIN token /\ line[p] \in SUBSET DOMAIN token /\ ClosedUp(line[p]) /\ LineOf(u)
    BY DEF Doomed, ExchangeTypeOK, Lined, LineOf
  <2>2. line[u] \subseteq line[p]
    BY <2>1 DEF LineOf
  <2> QED
    BY <2>2 DEF Doomed
<1> QED
  BY <1>1, <1>2

(* The tree compares grants the way the code does. *)
LEMMA SameComparison == \A f, g : Tree!attenuates(f, g) <=> attenuates(f, g)
BY DEF attenuates, subset, Tree!attenuates, Tree!subset

LEMMA IssueGrows ==
  ASSUME XInv, NEW t, NEW p \in DOMAIN token \cup {NoToken}, NEW g,
         issue(t, p, g), UNCHANGED revoked,
         NEW above, above = IF p = NoToken THEN {} ELSE line[p]
  PROVE  Tree!Grow(t, g, above)
<1> USE DEF XInv
<1>0. /\ t \in TokenId /\ t \notin DOMAIN token /\ t \notin revoked
      /\ DOMAIN token' = DOMAIN token \cup {t}
      /\ token'[t].grant = g
      /\ \A u \in DOMAIN token : token'[u] = token[u] /\ line'[u] = line[u]
      /\ line'[t] = above \cup {t}
      /\ line' = [u \in DOMAIN token \cup {t} |-> IF u = t THEN above \cup {t} ELSE line[u]]
  BY DEF issue, Signed, ExchangeTypeOK
<1>1. above \cap Doomed = {} <=> above \cap revoked = {}
  BY DoomIsInherited
<1>2. Doomed' = IF above \cap Doomed = {} THEN Doomed ELSE Doomed \cup {t}
  <2>1. \A u \in DOMAIN token : u \in Doomed' <=> u \in Doomed
    BY <1>0 DEF Doomed
  <2>2. t \in Doomed' <=> above \cap revoked # {}
    BY <1>0 DEF Doomed
  <2>3. Doomed' \subseteq DOMAIN token \cup {t} /\ Doomed \subseteq DOMAIN token
    BY <1>0 DEF Doomed
  <2> QED
    BY <1>0, <1>1, <2>1, <2>2, <2>3
<1>3. GrantOf' = [u \in DOMAIN GrantOf \cup {t} |-> IF u = t THEN g ELSE GrantOf[u]]
  BY <1>0 DEF GrantOf
<1> QED
  BY <1>0, <1>2, <1>3 DEF Tree!Grow, Doomed, GrantOf

(* Revocation cascades: Verify's walk over the parent map, exchanges in flight  *)
(* and restarts included, is the tree whose subtrees die at once.               *)
THEOREM ExchangeRefinement == ExchangeSpec => ImplementsDelegationTree
<1>1. clock = 0 /\ ExchangeInit => Tree!TreeInit
  BY DEF ExchangeInit, Tree!TreeInit
<1>2. XInv /\ [ExchangeNext]_<<clock, exchangeVars>> => [Tree!TreeNext]_(Tree!treeVars)
  <2> SUFFICES ASSUME XInv, [ExchangeNext]_<<clock, exchangeVars>>
               PROVE  [Tree!TreeNext]_(Tree!treeVars)
    OBVIOUS
  <2>1. ASSUME NEW t \in TokenId, NEW g \in Grant, IssueRoot(t, g) PROVE Tree!Plant(t, g)
    <3>1. Tree!Grow(t, g, {})
      BY <2>1, IssueGrows DEF IssueRoot
    <3> QED
      BY <2>1, <3>1 DEF IssueRoot, Tree!Plant
  <2>2. ASSUME NEW t \in DOMAIN token, Valid(t) PROVE t \notin Doomed
    BY <2>2, WalkIsLine DEF XInv, Valid, Doomed
  <2>3. ASSUME NEW c \in Caller, NEW p \in TokenId, NEW g \in Grant, BeginExchange(c, p, g)
        PROVE  Tree!Ask(c, p, g)
    <3>1. p \in DOMAIN token /\ p \notin Doomed
      BY <2>2, <2>3 DEF BeginExchange, Valid
    <3> QED
      BY <2>3, <3>1, SameComparison DEF BeginExchange, Tree!Ask, Doomed
  <2>4. ASSUME NEW x \in exchanging, NEW t \in TokenId, FinishExchange(x, t) PROVE Tree!Graft(x, t)
    <3>1. x.parent \in DOMAIN token /\ x.parent # NoToken
      BY ExchangeAssumption DEF XInv, ExchangeTypeOK
    <3>2. issue(t, x.parent, x.grant) /\ UNCHANGED revoked
      BY <2>4 DEF FinishExchange
    <3>3. PICK L : L = line[x.parent]
      OBVIOUS
    <3>4. Tree!Grow(t, x.grant, L)
      BY <3>1, <3>2, <3>3, IssueGrows
    <3> QED
      BY <2>4, <3>3, <3>4 DEF FinishExchange, Tree!Graft, Tree!Grow
  <2>5. ASSUME NEW t \in TokenId, VerifyToken(t) PROVE Tree!UseToken(t)
    <3>1. t \in DOMAIN token /\ t \notin Doomed
      BY <2>2, <2>5 DEF VerifyToken, Valid
    <3> QED
      BY <2>5, <3>1 DEF VerifyToken, Tree!UseToken, Doomed
  <2>6. ASSUME NEW t \in TokenId, RevokeToken(t) PROVE Tree!Cut(t)
    <3>1. Doomed' = Doomed \cup {u \in DOMAIN token : t \in line[u]}
      BY <2>6 DEF RevokeToken, Doomed
    <3> QED
      BY <2>6, <3>1 DEF RevokeToken, Tree!Cut, Doomed
  <2>7. ASSUME RestartAuthority PROVE Tree!Forget
    BY <2>7 DEF RestartAuthority, Tree!Forget
  <2>8. ASSUME ExchangeTick \/ UNCHANGED <<clock, exchangeVars>> PROVE UNCHANGED Tree!treeVars
    BY <2>8 DEF ExchangeTick, exchangeVars, Tree!treeVars
  <2> QED
    BY <2>1, <2>3, <2>4, <2>5, <2>6, <2>7, <2>8 DEF ExchangeNext, Tree!TreeNext
<1> QED
  BY <1>1, <1>2, ExchangeInvariance, PTL DEF ExchangeSpec, ImplementsDelegationTree, Tree!TreeSpec

-----------------------------------------------------------------------------
(* The capability: the inductive invariant. *)

(* A block is chained to the one it was appended to, all the way down. *)
BlocksLinked ==
    \A s \in DOMAIN block :
        /\ block[s].prev = NoStamp => path[s] = <<s>>
        /\ block[s].prev # NoStamp =>
               block[s].prev \in DOMAIN block /\ path[s] = Append(path[block[s].prev], s)

PathsMade == \A s \in DOMAIN block : \A i \in 1 .. Len(path[s]) : path[s][i] \in DOMAIN block

ShownMade == \A i \in 1 .. Len(shown) : shown[i] \in DOMAIN block

GrantShown(m) == block[shown[m]].grant

(* The loop: the last block checked narrows, and is chained to, all before it. *)
CheckedNarrow ==
    \A m \in 1 .. checked :
        attenuates(GrantShown(m), GrantShown(checked)) /\ ~Expired(GrantShown(m), readAt)

CheckedMade ==
    checked > 0 =>
        /\ SubSeq(shown, 1, checked) = path[shown[checked]]
        /\ block[shown[1]].key = TrustRoot

(* After the loop. *)
Stages ==
    /\ phase = "idle" => shown = <<>>
    /\ phase \in {"blocks", "holder"} => shown # <<>>
    /\ phase \in {"holder", "scoped"} => checked = Len(shown)
    /\ phase \in {"holder", "scoped"} /\ shown # <<>> => Final \in known
    /\ phase = "scoped" /\ shown # <<>> =>
           /\ Final \in held
           /\ capScope.tools = block[Final].grant.tools
           /\ capScope.budget = block[Final].grant.budget
           /\ \A v \in target : granted(block[Final].grant.servers, v)

CInv ==
    /\ CapabilityTypeOK /\ BlocksLinked /\ PathsMade /\ ShownMade
    /\ CheckedNarrow /\ CheckedMade /\ Stages

LEMMA CapabilityInitially == clock = 0 /\ CapabilityInit => CInv
<1> SUFFICES ASSUME clock = 0, CapabilityInit PROVE CInv
  OBVIOUS
<1>1. DOMAIN block = {} /\ DOMAIN path = {} /\ Len(shown) = 0
  BY DEF CapabilityInit
<1>2. CapabilityTypeOK
  BY <1>1 DEF CapabilityInit, CapabilityTypeOK, Unscoped, NoBudget, Scope, Budget
<1>3. BlocksLinked /\ PathsMade /\ ShownMade /\ CheckedNarrow /\ CheckedMade /\ Stages
  BY <1>1 DEF CapabilityInit, BlocksLinked, PathsMade, ShownMade, CheckedNarrow, CheckedMade, Stages
<1> QED
  BY <1>2, <1>3 DEF CInv

(* A new block changes none that was there, and no request under way. *)
LEMMA MadeKeeps ==
  ASSUME CInv, NEW s, NEW b \in Block, NEW c \in Seq(Stamp), NEW mine, Made(s, b, c, mine),
         b.prev = NoStamp => c = <<>>,
         b.prev # NoStamp => b.prev \in DOMAIN block /\ c = path[b.prev]
  PROVE  CInv'
<1> USE DEF CInv
<1>1. /\ s \in Stamp /\ s \notin DOMAIN block
      /\ DOMAIN block' = DOMAIN block \cup {s} /\ DOMAIN path' = DOMAIN block \cup {s}
      /\ block'[s] = b /\ path'[s] = Append(c, s)
      /\ \A t \in DOMAIN block : block'[t] = block[t] /\ path'[t] = path[t]
  BY DEF Made
<1>2. /\ UNCHANGED <<clock, phase, shown, checked, readAt, target, capScope>>
      /\ known \subseteq known' /\ held \subseteq held'
  BY DEF Made, asking
<1>3. block' \in [DOMAIN block' -> Block] /\ path' \in [DOMAIN block' -> Seq(Stamp)]
  BY <1>1 DEF Made, CapabilityTypeOK
<1>4. known' \subseteq DOMAIN block' /\ held' \subseteq known'
  BY <1>1 DEF Made, CapabilityTypeOK
<1>5. CapabilityTypeOK'
  BY <1>1, <1>2, <1>3, <1>4 DEF CapabilityTypeOK
<1>6. BlocksLinked'
  <2> SUFFICES ASSUME NEW t \in DOMAIN block'
               PROVE  /\ block'[t].prev = NoStamp => path'[t] = <<t>>
                      /\ block'[t].prev # NoStamp =>
                           /\ block'[t].prev \in DOMAIN block'
                           /\ path'[t] = Append(path'[block'[t].prev], t)
    BY DEF BlocksLinked
  <2>1. CASE t = s
    <3>1. b.prev = NoStamp => Append(c, s) = <<s>>
      BY <1>1
    <3> QED
      BY <1>1, <2>1, <3>1
  <2>2. CASE t \in DOMAIN block
    BY <1>1, <2>2 DEF BlocksLinked
  <2> QED
    BY <1>1, <2>1, <2>2
<1>7. PathsMade'
  <2>1. \A i \in 1 .. Len(c) : c[i] \in DOMAIN block
    BY DEF PathsMade
  <2>2. ASSUME NEW i \in 1 .. Len(path'[s]) PROVE path'[s][i] \in DOMAIN block'
    BY <1>1, <2>1
  <2>3. ASSUME NEW t \in DOMAIN block, NEW i \in 1 .. Len(path'[t]) PROVE path'[t][i] \in DOMAIN block'
    BY <1>1 DEF PathsMade
  <2> QED
    BY <1>1, <2>2, <2>3 DEF PathsMade
<1>8. \A i \in 1 .. Len(shown) : shown[i] \in DOMAIN block /\ block'[shown[i]] = block[shown[i]]
                                  /\ path'[shown[i]] = path[shown[i]]
  BY <1>1, <1>2 DEF ShownMade
<1>9. checked \in 0 .. Len(shown) /\ Len(shown) \in Nat
  BY DEF CapabilityTypeOK
<1>10. ShownMade'
  BY <1>1, <1>2, <1>8 DEF ShownMade
<1>11. CheckedNarrow'
  <2>1. \A m \in 1 .. checked : m \in 1 .. Len(shown) /\ checked \in 1 .. Len(shown)
    BY <1>9
  <2>2. \A m \in 1 .. checked : GrantShown(m)' = GrantShown(m) /\ GrantShown(checked)' = GrantShown(checked)
    BY <1>2, <1>8, <2>1 DEF GrantShown
  <2> QED
    BY <1>2, <2>2 DEF CheckedNarrow
<1>12. CheckedMade'
  <2> SUFFICES ASSUME checked > 0
               PROVE  SubSeq(shown, 1, checked) = path'[shown[checked]] /\ block'[shown[1]].key = TrustRoot
    BY <1>2 DEF CheckedMade
  <2>1. checked \in 1 .. Len(shown) /\ 1 \in 1 .. Len(shown)
    BY <1>9
  <2>2. SubSeq(shown, 1, checked) = path[shown[checked]] /\ block[shown[1]].key = TrustRoot
    BY DEF CheckedMade
  <2> QED
    BY <1>8, <2>1, <2>2
<1>13. Stages'
  <2>1. shown # <<>> => Len(shown) \in 1 .. Len(shown)
    BY <1>9 DEF CapabilityTypeOK
  <2> QED
    BY <1>2, <1>8, <2>1 DEF Stages, Final
<1> QED
  BY <1>5, <1>6, <1>7, <1>10, <1>11, <1>12, <1>13

(* Time passes, or more of what was made comes to the presenter. *)
LEMMA OutsideKeeps ==
  ASSUME CInv, clock' \in Nat, UNCHANGED <<block, path, asking>>,
         known \subseteq known', held \subseteq held',
         known' \subseteq DOMAIN block, held' \subseteq known'
  PROVE  CInv'
<1>1. UNCHANGED <<phase, shown, checked, readAt, target, capScope>>
  BY DEF asking
<1>2. CapabilityTypeOK' /\ BlocksLinked' /\ PathsMade' /\ ShownMade' /\ CheckedNarrow' /\ CheckedMade'
  BY <1>1 DEF CInv, CapabilityTypeOK, BlocksLinked, PathsMade, ShownMade, CheckedNarrow, CheckedMade,
              GrantShown
<1>3. Stages'
  BY <1>1 DEF CInv, Stages, Final
<1> QED
  BY <1>2, <1>3 DEF CInv

LEMMA SettledKeeps ==
  ASSUME CInv, Settled
  PROVE  CInv'
<1>1. UNCHANGED <<clock, block, path, known, held>>
  BY DEF Settled, making
<1>2. Unscoped \in Scope
  BY DEF Unscoped, Scope, NoBudget, Budget
<1>3. CapabilityTypeOK'
  BY <1>1, <1>2 DEF Settled, CInv, CapabilityTypeOK
<1>4. BlocksLinked' /\ PathsMade'
  BY <1>1 DEF CInv, BlocksLinked, PathsMade
<1>5. ShownMade' /\ CheckedNarrow' /\ CheckedMade' /\ Stages'
  BY DEF Settled, ShownMade, CheckedNarrow, CheckedMade, Stages
<1> QED
  BY <1>3, <1>4, <1>5 DEF CInv

LEMMA PresentationKeeps ==
  ASSUME CInv, NEW c \in Shown, PresentCapability(c)
  PROVE  CInv'
<1>1. PICK n \in 1 .. MaxDepth : c \in [1 .. n -> BlocksKnown]
  BY DEF Shown
<1>2. BlocksKnown \subseteq DOMAIN block
  <2> SUFFICES ASSUME NEW s \in known, NEW i \in DOMAIN path[s] PROVE path[s][i] \in DOMAIN block
    BY DEF BlocksKnown
  <2>1. s \in DOMAIN block /\ DOMAIN path[s] = 1 .. Len(path[s])
    BY DEF CInv, CapabilityTypeOK
  <2> QED
    BY <2>1 DEF CInv, PathsMade
<1>3. c \in Seq(Stamp) /\ Len(c) = n /\ n \in Nat /\ c # <<>>
      /\ \A i \in 1 .. Len(c) : c[i] \in DOMAIN block
  <2>1. n \in Nat /\ n > 0 /\ c \in [1 .. n -> DOMAIN block] /\ c \in [1 .. n -> Stamp]
    BY <1>1, <1>2, CapabilityAssumption DEF CInv, CapabilityTypeOK
  <2>2. c \in Seq(Stamp)
    BY <2>1
  <2>3. Len(c) = n
    BY <2>1, <2>2
  <2> QED
    BY <2>1, <2>2, <2>3
<1>4. checked = 0
  BY DEF PresentCapability, CInv, CapabilityTypeOK, Stages
<1>5. /\ UNCHANGED <<clock, block, path, known, held, checked, target, capScope>>
      /\ phase' = "blocks" /\ shown' = c /\ readAt' = clock
  BY DEF PresentCapability, making
<1>6. CapabilityTypeOK'
  BY <1>3, <1>4, <1>5 DEF CInv, CapabilityTypeOK
<1>7. BlocksLinked' /\ PathsMade' /\ ShownMade'
  BY <1>3, <1>5 DEF CInv, BlocksLinked, PathsMade, ShownMade
<1>8. CheckedNarrow' /\ CheckedMade' /\ Stages'
  BY <1>3, <1>4, <1>5 DEF CheckedNarrow, CheckedMade, Stages
<1> QED
  BY <1>6, <1>7, <1>8 DEF CInv

LEMMA VerifyBlockKeeps ==
  ASSUME CInv, VerifyBlock
  PROVE  CInv'
<1>1. CASE ~BlockOK(block[shown[checked + 1]], checked)
  BY <1>1, SettledKeeps DEF VerifyBlock
<1>2. CASE BlockOK(block[shown[checked + 1]], checked)
  <2> DEFINE n == checked
  <2>1. /\ UNCHANGED <<clock, block, path, known, held, phase, shown, readAt, target, capScope>>
        /\ phase = "blocks" /\ checked' = n + 1
    BY <1>2 DEF VerifyBlock, making
  <2>2. n \in Nat /\ Len(shown) \in Nat /\ n < Len(shown) /\ shown \in Seq(Stamp)
    BY DEF VerifyBlock, CInv, CapabilityTypeOK
  <2>3. shown[n + 1] \in DOMAIN block /\ (n > 0 => shown[n] \in DOMAIN block)
    BY <2>2 DEF CInv, ShownMade
  <2>4. CapabilityTypeOK'
    BY <2>1, <2>2 DEF CInv, CapabilityTypeOK
  <2>5. BlocksLinked' /\ PathsMade' /\ ShownMade' /\ Stages'
    BY <2>1 DEF CInv, BlocksLinked, PathsMade, ShownMade, Stages
  <2>6. \A m \in 1 .. Len(shown) : GrantShown(m)' = GrantShown(m) /\ GrantShown(m) \in Grants
    BY <2>1 DEF CInv, CapabilityTypeOK, ShownMade, GrantShown, Block
  <2>7. CheckedNarrow'
    <3> SUFFICES ASSUME NEW m \in 1 .. n + 1
                 PROVE  attenuates(GrantShown(m), GrantShown(n + 1)) /\ ~Expired(GrantShown(m), readAt)
      BY <2>1, <2>2, <2>6 DEF CheckedNarrow
    <3>1. CASE m = n + 1
      BY <1>2, <2>2, <2>6, <3>1, AttenuatesReflexive DEF BlockOK, GrantShown
    <3>2. CASE m \in 1 .. n
      <4>1. attenuates(GrantShown(m), GrantShown(n)) /\ ~Expired(GrantShown(m), readAt)
        BY <3>2 DEF CInv, CheckedNarrow
      <4>2. attenuates(GrantShown(n), GrantShown(n + 1))
        BY <1>2, <2>2, <3>2 DEF BlockOK, GrantShown
      <4> QED
        BY <2>2, <2>6, <3>2, <4>1, <4>2, AttenuatesTransitive
    <3> QED
      BY <2>2, <3>1, <3>2
  <2>8. SubSeq(shown, 1, n + 1) = path[shown[n + 1]] /\ block[shown[1]].key = TrustRoot
    <3>1. CASE n = 0
      <4>1. block[shown[1]].prev = NoStamp /\ block[shown[1]].key = TrustRoot
        BY <1>2, <3>1 DEF BlockOK, ValidBlock
      <4>2. path[shown[1]] = <<shown[1]>>
        BY <2>3, <3>1, <4>1 DEF CInv, BlocksLinked
      <4>3. SubSeq(shown, 1, 1) = Append(SubSeq(shown, 1, 0), shown[1])
        BY <2>2, <3>1
      <4>4. SubSeq(shown, 1, 0) = <<>>
        BY <2>2
      <4> QED
        BY <3>1, <4>1, <4>2, <4>3, <4>4
    <3>2. CASE n > 0
      <4>1. block[shown[n + 1]].prev = shown[n]
        BY <1>2, <2>2, <3>2 DEF BlockOK, ValidBlock
      <4>2. shown[n] # NoStamp
        BY <2>3, <3>2, CapabilityAssumption DEF CInv, CapabilityTypeOK
      <4>3. path[shown[n + 1]] = Append(path[shown[n]], shown[n + 1])
        BY <2>3, <4>1, <4>2 DEF CInv, BlocksLinked
      <4>4. path[shown[n]] = SubSeq(shown, 1, n) /\ block[shown[1]].key = TrustRoot
        BY <3>2 DEF CInv, CheckedMade
      <4>5. SubSeq(shown, 1, n + 1) = Append(SubSeq(shown, 1, n), shown[n + 1])
        BY <2>2, <3>2
      <4> QED
        BY <4>3, <4>4, <4>5
    <3> QED
      BY <2>2, <3>1, <3>2
  <2>9. CheckedMade'
    BY <2>1, <2>8 DEF CheckedMade
  <2> QED
    BY <2>4, <2>5, <2>7, <2>9 DEF CInv
<1> QED
  BY <1>1, <1>2

(* The seal shows that the last block's capability was seen as it was made. *)
LEMMA CheckSealKeeps ==
  ASSUME CInv, CheckSeal
  PROVE  CInv'
<1>1. /\ UNCHANGED <<clock, block, path, known, held, shown, checked, readAt, target, capScope>>
      /\ phase = "blocks" /\ phase' = "holder" /\ checked = Len(shown)
  BY DEF CheckSeal, making
<1>2. Final \in known
  BY DEF CheckSeal, Seals
<1>3. CapabilityTypeOK' /\ BlocksLinked' /\ PathsMade' /\ ShownMade' /\ CheckedNarrow' /\ CheckedMade'
  BY <1>1 DEF CInv, CapabilityTypeOK, BlocksLinked, PathsMade, ShownMade, CheckedNarrow, CheckedMade,
              GrantShown
<1>4. Stages'
  BY <1>1, <1>2 DEF CInv, Stages, Final
<1> QED
  BY <1>3, <1>4 DEF CInv

LEMMA HolderKeeps ==
  ASSUME CInv, NEW v \in Server, HolderStage(v)
  PROVE  CInv'
<1>1. /\ UNCHANGED <<clock, block, path, known, held, shown, checked, readAt>>
      /\ phase = "holder" /\ phase' = "scoped" /\ target' = {v}
      /\ capScope' = [tools |-> block[Final].grant.tools, budget |-> block[Final].grant.budget]
  BY DEF HolderStage, making
<1>2. Final \in DOMAIN block
  BY <1>1 DEF HolderStage, CInv, CapabilityTypeOK
<1>3. capScope' \in Scope
  BY <1>1, <1>2 DEF CInv, CapabilityTypeOK, Block, Grants, Scope
<1>4. CapabilityTypeOK'
  BY <1>1, <1>3 DEF CInv, CapabilityTypeOK
<1>5. BlocksLinked' /\ PathsMade' /\ ShownMade' /\ CheckedNarrow' /\ CheckedMade'
  BY <1>1 DEF CInv, BlocksLinked, PathsMade, ShownMade, CheckedNarrow, CheckedMade, GrantShown
<1>6. /\ Final' = Final /\ Final \in held /\ Final \in known /\ checked = Len(shown) /\ shown # <<>>
      /\ granted(block[Final].grant.servers, v)
  BY <1>1 DEF HolderStage, CInv, Stages, Final
<1>7. /\ capScope'.tools = block[Final].grant.tools
      /\ capScope'.budget = block[Final].grant.budget
  BY <1>1
<1>8. Stages'
  BY <1>1, <1>6, <1>7 DEF Stages
<1> QED
  BY <1>4, <1>5, <1>8 DEF CInv

LEMMA DirectKeeps ==
  ASSUME CInv, NEW v \in Server, ActDirectly(v)
  PROVE  CInv'
<1>1. /\ UNCHANGED <<clock, block, path, known, held, shown, checked, readAt, capScope>>
      /\ phase = "idle" /\ phase' = "scoped" /\ target' = {v}
  BY DEF ActDirectly, making
<1>2. shown = <<>> /\ checked = 0
  BY <1>1 DEF CInv, CapabilityTypeOK, Stages
<1>3. CapabilityTypeOK'
  BY <1>1 DEF CInv, CapabilityTypeOK
<1>4. BlocksLinked' /\ PathsMade' /\ ShownMade'
  BY <1>1 DEF CInv, BlocksLinked, PathsMade, ShownMade
<1>5. CheckedNarrow' /\ CheckedMade' /\ Stages'
  BY <1>1, <1>2 DEF CheckedNarrow, CheckedMade, Stages
<1> QED
  BY <1>3, <1>4, <1>5 DEF CInv

LEMMA CapabilityStepKeeps == CInv /\ [CapabilityNext]_<<clock, capabilityVars>> => CInv'
<1> SUFFICES ASSUME CInv, [CapabilityNext]_<<clock, capabilityVars>> PROVE CInv'
  OBVIOUS
<1>1. ASSUME NEW s \in Stamp, NEW r \in RootKey, NEW g \in Grant, NewCapability(s, r, g)
      PROVE  CInv'
  <2> DEFINE b == [key |-> r, root |-> r, index |-> 0, prev |-> NoStamp, grant |-> g]
  <2>1. b \in Block /\ b.prev = NoStamp /\ <<>> \in Seq(Stamp)
    BY CapabilityAssumption DEF Block
  <2>2. Made(s, b, <<>>, FALSE)
    BY <1>1 DEF NewCapability
  <2> QED
    BY <2>1, <2>2, MadeKeeps
<1>2. ASSUME NEW s \in Stamp, NEW t \in DOMAIN block, NEW r \in RootKey, NEW g \in Grant,
             NEW mine \in BOOLEAN, Appended(s, t, r, g, mine)
      PROVE  CInv'
  <2> DEFINE b == [key |-> t, root |-> r, index |-> Len(path[t]), prev |-> t, grant |-> g]
  <2>1. t \in Stamp /\ path[t] \in Seq(Stamp) /\ Len(path[t]) \in Nat
    BY DEF CInv, CapabilityTypeOK
  <2>2. b \in Block /\ b.prev = t /\ t # NoStamp
    BY <2>1, CapabilityAssumption DEF Block
  <2>3. Made(s, b, path[t], mine)
    BY <1>2 DEF Appended
  <2>4. PICK c : c = path[t]
    OBVIOUS
  <2>5. Made(s, b, c, mine) /\ c \in Seq(Stamp)
    BY <2>1, <2>3, <2>4 DEF Made
  <2> HIDE DEF b
  <2> QED
    BY <2>2, <2>4, <2>5, MadeKeeps
<1>3. ASSUME NEW s \in DOMAIN block, Observe(s) \/ Receive(s) PROVE CInv'
  <2>1. /\ clock' \in Nat /\ UNCHANGED <<block, path, asking>>
        /\ known \subseteq known' /\ held \subseteq held'
        /\ known' \subseteq DOMAIN block /\ held' \subseteq known'
    BY <1>3 DEF Observe, Receive, CInv, CapabilityTypeOK
  <2> QED
    BY <2>1, OutsideKeeps
<1>4. CASE CapabilityTick \/ UNCHANGED <<clock, capabilityVars>>
  <2>1. /\ clock' \in Nat /\ UNCHANGED <<block, path, asking>>
        /\ known \subseteq known' /\ held \subseteq held'
        /\ known' \subseteq DOMAIN block /\ held' \subseteq known'
    BY <1>4 DEF CapabilityTick, capabilityVars, making, CInv, CapabilityTypeOK
  <2> QED
    BY <2>1, OutsideKeeps
<1>5. ASSUME NEW c \in Shown, PresentCapability(c) PROVE CInv'
  BY <1>5, PresentationKeeps
<1>6. ASSUME NEW v \in Server, ActDirectly(v) PROVE CInv'
  BY <1>6, DirectKeeps
<1>7. ASSUME NEW v \in Server, HolderStage(v) PROVE CInv'
  BY <1>7, HolderKeeps
<1>8. CASE VerifyBlock
  BY <1>8, VerifyBlockKeeps
<1>9. CASE CheckSeal
  BY <1>9, CheckSealKeeps
<1>10. CASE SealMissing \/ CapabilityDone
  BY <1>10, SettledKeeps DEF SealMissing, CapabilityDone
<1> QED
  BY <1>1, <1>2, <1>3, <1>4, <1>5, <1>6, <1>7, <1>8, <1>9, <1>10
     DEF CapabilityNext, Attenuate, SignBlock

LEMMA CapabilityInvariance == CapabilitySpec => []CInv
<1>1. CInv /\ [CapabilityNext]_<<clock, capabilityVars>> => CInv'
  BY CapabilityStepKeeps
<1>2. clock = 0 /\ CapabilityInit => CInv
  BY CapabilityInitially
<1> QED
  BY <1>1, <1>2, PTL DEF CapabilitySpec

(* A capability that passes Verify was made, whole, under the trusted root and  *)
(* handed on as such, and a request is scoped by it only for a holder of its    *)
(* secret: for capabilities of any length and any number of roots and holders.  *)
THEOREM CapabilityHandedWhole == CapabilitySpec => []HandedWhole
<1>1. CInv => HandedWhole
  <2> SUFFICES ASSUME CInv, phase \in {"holder", "scoped"}, shown # <<>>
               PROVE  /\ shown = path[Final] /\ block[shown[1]].key = TrustRoot
                      /\ Final \in known
                      /\ phase = "scoped" => Final \in held
    BY DEF HandedWhole
  <2>1. checked = Len(shown) /\ Final \in known /\ (phase = "scoped" => Final \in held)
    BY DEF CInv, Stages
  <2>2. shown \in Seq(Stamp) /\ Len(shown) \in Nat /\ Len(shown) > 0
    BY DEF CInv, CapabilityTypeOK
  <2>3. SubSeq(shown, 1, Len(shown)) = shown
    BY <2>2
  <2> QED
    BY <2>1, <2>2, <2>3 DEF CInv, CheckedMade, Final
<1> QED
  BY <1>1, CapabilityInvariance, PTL

(* What a capability lets a request do is within the grant of each of its blocks, *)
(* whatever software signed them, for capabilities of any length.                 *)
THEOREM CapabilityNarrows == CapabilitySpec => []CapabilityWithinGrant
<1>1. CInv => CapabilityWithinGrant
  <2> SUFFICES ASSUME CInv, phase = "scoped", NEW i \in DOMAIN shown
               PROVE  /\ \A tool \in Tool : granted(capScope.tools, tool) => granted(GrantShown(i).tools, tool)
                      /\ \A v \in target : granted(GrantShown(i).servers, v)
                      /\ ~Expired(GrantShown(i), readAt)
                      /\ GrantShown(i).budget.unit # NoUnit => Covers(GrantShown(i).budget, capScope.budget)
    BY DEF CapabilityWithinGrant, GrantShown
  <2>1. shown \in Seq(Stamp) /\ Len(shown) \in Nat /\ i \in 1 .. Len(shown) /\ shown # <<>>
        /\ checked = Len(shown)
    BY DEF CInv, CapabilityTypeOK, Stages
  <2>2. attenuates(GrantShown(i), GrantShown(checked)) /\ ~Expired(GrantShown(i), readAt)
    BY <2>1 DEF CInv, CheckedNarrow
  <2>3. /\ capScope.tools = GrantShown(checked).tools
        /\ capScope.budget = GrantShown(checked).budget
        /\ \A v \in target : granted(GrantShown(checked).servers, v)
    BY <2>1 DEF CInv, Stages, Final, GrantShown
  <2>4. /\ subset(GrantShown(i).tools, GrantShown(checked).tools)
        /\ subset(GrantShown(i).servers, GrantShown(checked).servers)
        /\ GrantShown(i).budget.unit # NoUnit => Covers(GrantShown(i).budget, capScope.budget)
    BY <2>2, <2>3 DEF attenuates, Covers
  <2>5. \A tool \in Tool : granted(capScope.tools, tool) => granted(GrantShown(i).tools, tool)
    BY <2>3, <2>4, SubsetGrants
  <2>6. \A v \in target : granted(GrantShown(i).servers, v)
    BY <2>3, <2>4, SubsetGrants
  <2> QED
    BY <2>2, <2>4, <2>5, <2>6
<1> QED
  BY <1>1, CapabilityInvariance, PTL
=============================================================================
