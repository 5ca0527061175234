------------------------------ MODULE Exchange ------------------------------
(***************************************************************************)
(* delegation/exchange.go: the online delegation mode.  The authority      *)
(* signs every token and remembers, in memory only, which token each one   *)
(* was exchanged for and which were revoked; Verify walks the ancestry.    *)
(* Exchange verifies the parent under one hold of the lock and records the *)
(* child under another, with revocations and a restart possible between.   *)
(*                                                                         *)
(* A token is named by its id; its signature covers the other fields.      *)
(***************************************************************************)
EXTENDS Delegation

CONSTANTS
    TokenId,     \* the ids randID draws, never one twice
    NoToken,     \* the empty id, the parent of a root
    Caller,      \* concurrent calls of Exchange
    TTL,
    MaxRestarts  \* bound on restarts of the authority

ASSUME ExchangeAssumption ==
    /\ NoToken \notin TokenId
    /\ Grant \subseteq Grants
    /\ TTL \in Nat \ {0} /\ MaxRestarts \in Nat /\ MaxClock \in Nat

VARIABLES
    token,       \* token[t]: the parent, grant and expiry token t was signed with
    parent,      \* the authority's parent map
    revoked,     \* its revoked ids
    line,        \* line[t]: t and what it was exchanged from in this life of the
                 \* authority, back to the root (history)
    exchanging,  \* calls of Exchange past Verify and attenuates
    honoured,    \* the token Verify has just accepted for a relying party
    restarts

exchangeVars == <<token, parent, line, revoked, exchanging, honoured, restarts>>

ExchangeInit ==
    /\ token = <<>> /\ parent = <<>> /\ line = <<>>
    /\ revoked = {} /\ exchanging = {} /\ honoured = {}
    /\ restarts = 0

-----------------------------------------------------------------------------
(* A lookup in the parent map; an id it does not know has none. *)
ParentOf(t) == IF t \in DOMAIN parent THEN parent[t] ELSE NoToken

(* The ids Verify's loop visits from t: t, its parent, and so on - the least set *)
(* that has t and, with an id, its parent.                                       *)
ClosedUp(S) == \A u \in S : ParentOf(u) \in S \cup {NoToken}
Ancestry(t) ==
    LET Lines == {S \in SUBSET DOMAIN token : t \in S /\ ClosedUp(S)}
    IN  {a \in DOMAIN token : \A S \in Lines : a \in S}

Valid(t) ==
    /\ t \in DOMAIN token
    /\ clock < token[t].notAfter
    /\ Ancestry(t) \cap revoked = {}

Signed(t, p, g) ==
    /\ t \in TokenId \ DOMAIN token
    /\ token' = [u \in DOMAIN token \cup {t} |->
           IF u = t THEN [parent |-> p, grant |-> g, notAfter |-> clock + TTL] ELSE token[u]]
    /\ line' = [u \in DOMAIN token \cup {t} |->
           IF u # t THEN line[u] ELSE IF p = NoToken THEN {t} ELSE line[p] \cup {t}]

(* Mutant: the parent is signed and not recorded. *)
issueUnrecorded(t, p, g) == Signed(t, p, g) /\ UNCHANGED parent

(* issue: sign, then record the parent. *)
issue(t, p, g) ==
    /\ Signed(t, p, g)
    /\ parent' = [u \in DOMAIN parent \cup {t} |-> IF u = t THEN p ELSE parent[u]]

IssueRoot(t, g) ==
    /\ issue(t, NoToken, g)
    /\ honoured' = {}
    /\ UNCHANGED <<clock, revoked, exchanging, restarts>>

(* Mutant: the request is compared with nothing. *)
BeginExchangeWidens(c, p, g) ==
    /\ \A x \in exchanging : x.by # c
    /\ Valid(p)
    /\ exchanging' = exchanging \cup {[by |-> c, parent |-> p, grant |-> g]}
    /\ honoured' = {}
    /\ UNCHANGED <<clock, token, parent, line, revoked, restarts>>

(* Exchange, up to its call of issue. *)
BeginExchange(c, p, g) ==
    /\ \A x \in exchanging : x.by # c
    /\ Valid(p)
    /\ attenuates(token[p].grant, g)
    /\ exchanging' = exchanging \cup {[by |-> c, parent |-> p, grant |-> g]}
    /\ honoured' = {}
    /\ UNCHANGED <<clock, token, parent, line, revoked, restarts>>

(* Its rest, whatever became of the parent meanwhile. *)
FinishExchange(x, t) ==
    /\ issue(t, x.parent, x.grant)
    /\ exchanging' = exchanging \ {x}
    /\ honoured' = {}
    /\ UNCHANGED <<clock, revoked, restarts>>

(* A relying party has Verify look at a token; a refusal changes nothing. *)
VerifyToken(t) ==
    /\ Valid(t)
    /\ honoured' = {t}
    /\ UNCHANGED <<clock, token, parent, line, revoked, exchanging, restarts>>

RevokeToken(t) ==
    /\ t \in DOMAIN token
    /\ revoked' = revoked \cup {t}
    /\ honoured' = {}
    /\ UNCHANGED <<clock, token, parent, line, exchanging, restarts>>

(* A new authority on the same key: the tokens verify, the maps are empty. *)
RestartAuthority ==
    /\ restarts < MaxRestarts
    /\ parent' = <<>> /\ line' = [t \in DOMAIN token |-> {t}]
    /\ revoked' = {} /\ exchanging' = {} /\ honoured' = {}
    /\ restarts' = restarts + 1
    /\ UNCHANGED <<clock, token>>

ExchangeTick ==
    /\ clock < MaxClock
    /\ clock' = clock + 1
    /\ UNCHANGED exchangeVars

ExchangeNext ==
    \/ \E t \in TokenId, g \in Grant : IssueRoot(t, g)
    \/ \E c \in Caller, p \in TokenId, g \in Grant : BeginExchange(c, p, g)
    \/ \E x \in exchanging, t \in TokenId : FinishExchange(x, t)
    \/ \E t \in TokenId : VerifyToken(t) \/ RevokeToken(t)
    \/ RestartAuthority
    \/ ExchangeTick

ExchangeSpec == clock = 0 /\ ExchangeInit /\ [][ExchangeNext]_<<clock, exchangeVars>>

-----------------------------------------------------------------------------
(* Properties. *)

Tree == INSTANCE DelegationTree WITH
    Token  <- TokenId,
    Client <- Caller,
    grant  <- [t \in DOMAIN token |-> token[t].grant],
    above  <- line,
    dead   <- {t \in DOMAIN token : line[t] \cap revoked # {}},
    asked  <- exchanging,
    used   <- honoured

(* "This cascades to every token exchanged from it": the walk at the next       *)
(* Verify does what killing the whole subtree at the moment of Revoke would,    *)
(* also for a child whose Exchange was past its Verify when the parent was      *)
(* revoked - it is dead when it is issued - and no exchange starts from a dead  *)
(* token.                                                                       *)
ImplementsDelegationTree == Tree!TreeSpec

Spends == {g.budget : g \in Grant}

(* Every exchange narrows, whatever was revoked or forgotten in between: what a *)
(* token's grant permits - a tool, a server, a time, an amount - the token it   *)
(* was signed as exchanged for permits, and so on up to the root.               *)
TokensNarrow ==
    \A t \in DOMAIN token : LET source == token[t].parent IN
        source # NoToken =>
            /\ source \in DOMAIN token
            /\ \A tool \in Tool, v \in Server, now \in 0 .. MaxClock, spend \in Spends :
                   Permits(token[t].grant, tool, v, now, spend) =>
                       Permits(token[source].grant, tool, v, now, spend)
=============================================================================
