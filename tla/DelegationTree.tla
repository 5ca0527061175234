--------------------------- MODULE DelegationTree ---------------------------
(***************************************************************************)
(* What the online delegation mode promises: a tree of tokens, each no     *)
(* wider than the one it was exchanged for.  Cutting a token kills it and, *)
(* at that moment, everything below it; what is grafted below it later is  *)
(* dead from the start.  Nothing dead is used or exchanged.  The promise   *)
(* holds for one life of the authority, which remembers nothing of the     *)
(* last one.                                                               *)
(***************************************************************************)
EXTENDS Delegation

CONSTANTS
    Token,
    Client   \* concurrent exchanges

VARIABLES
    grant,   \* grant[t]: the grant of token t, t any in the tree
    above,   \* above[t]: t and its ancestors
    dead,
    asked,   \* exchanges granted and not yet answered
    used     \* the token just found good

treeVars == <<grant, above, dead, asked, used>>

TreeInit ==
    /\ grant = <<>> /\ above = <<>>
    /\ dead = {} /\ asked = {} /\ used = {}

(* A token t with grant g below the tokens in line. *)
Grow(t, g, line) ==
    /\ t \in Token \ DOMAIN grant
    /\ grant' = [u \in DOMAIN grant \cup {t} |-> IF u = t THEN g ELSE grant[u]]
    /\ above' = [u \in DOMAIN grant \cup {t} |-> IF u = t THEN line \cup {t} ELSE above[u]]
    /\ dead' = IF line \cap dead = {} THEN dead ELSE dead \cup {t}

Plant(t, g) ==
    /\ used' = {} /\ UNCHANGED asked
    /\ Grow(t, g, {})

Ask(c, p, g) ==
    /\ \A a \in asked : a.by # c
    /\ asked' = asked \cup {[by |-> c, parent |-> p, grant |-> g]}
    /\ p \in DOMAIN grant \ dead
    /\ attenuates(grant[p], g)
    /\ used' = {} /\ UNCHANGED <<grant, above, dead>>

Graft(a, t) ==
    /\ asked' = asked \ {a}
    /\ used' = {}
    /\ Grow(t, a.grant, above[a.parent])

Cut(t) ==
    /\ used' = {} /\ UNCHANGED <<asked, grant, above>>
    /\ dead' = dead \cup {u \in DOMAIN grant : t \in above[u]}

UseToken(t) ==
    /\ used' = {t}
    /\ t \in DOMAIN grant \ dead
    /\ UNCHANGED <<asked, grant, above, dead>>

(* The tokens are signed and stay good; which came from which is forgotten. *)
Forget ==
    /\ asked' = {} /\ used' = {} /\ UNCHANGED grant
    /\ dead' = {}
    /\ above' = [t \in DOMAIN grant |-> {t}]

TreeNext ==
    \/ \E t \in Token : Cut(t) \/ UseToken(t)
    \/ Forget
    \/ \E a \in asked, t \in Token : Graft(a, t)
    \/ \E c \in Client, p \in Token, g \in Grant : Ask(c, p, g)
    \/ \E t \in Token, g \in Grant : Plant(t, g)

TreeSpec == TreeInit /\ [][TreeNext]_treeVars
=============================================================================
