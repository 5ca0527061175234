------------------------------ MODULE Enrollment ------------------------------
(***************************************************************************)
(* workload: how an agent instance obtains its credential.  The client     *)
(* fetches a nonce, builds evidence over the nonce and its key (a MAC      *)
(* under a bootstrap token, or a quote by the attestation key), and posts  *)
(* both; Authority.Issue spends the nonce under one lock, spends a use of  *)
(* the token under another, and signs.  Posts are delayed and repeated,    *)
(* answers are lost, the authority restarts and forgets what was spent.    *)
(***************************************************************************)
EXTENDS Integers, FiniteSets

CONSTANTS
    Nonce,      \* nonces the authority may draw, each at most once
    Key,        \* instance keys
    Token,      \* bootstrap tokens; each enrolls an agent of its own
    Quote,      \* what signs the quotes of a measured build
    Uses,       \* enrollments a registered token authorizes
    TokenTTL,   \* how long it does
    NonceTTL,
    MaxNonces,  \* maxOutstandingNonces
    QuoteAge,   \* MeasuredAttestor.maxAge
    MaxEvidence,\* bound: pieces of evidence clients build
    MaxPosts,   \* bound: handlers running at a time
    MaxClock    \* bound: the clock stops here

ASSUME EnrollmentAssumption ==
    /\ Quote \notin Token
    /\ Uses \in Nat \ {0}
    /\ TokenTTL \in Nat \ {0}
    /\ NonceTTL \in Nat \ {0}
    /\ MaxNonces \in Nat
    /\ QuoteAge \in Nat
    /\ MaxEvidence \in Nat
    /\ MaxPosts \in Nat
    /\ MaxClock \in Nat

Witness == Token \cup {Quote}

(* Evidence covers the nonce and the key it was built for. *)
Evidence == [by : Witness, nonce : Nonce, key : Key, at : Nat]

(* A post carries evidence, and the nonce and the key it enrolls. *)
Post == [evidence : Evidence, nonce : Nonce, key : Key]

VARIABLES
    clock,
    drawn,       \* nonces ever drawn
    nonces,      \* nonces outstanding
    expiry,      \* expiry[n]: when nonce n expires
    left,        \* left[t]: uses token t has left
    notAfter,    \* notAfter[t]: when its window closes
    evidence,    \* evidence clients have built
    attesting,   \* handlers past consumeNonce: the posts whose evidence is to be attested
    issued,      \* issued[n]: the posts nonce n earned a credential for
    granted,     \* granted[t]: credentials on t since it was registered (history)
    spent        \* nonces an enrollment was attempted with (history)

enrollVars == <<clock, drawn, nonces, expiry, left, notAfter, evidence, attesting, issued, granted, spent>>

EnrollTypeOK ==
    /\ clock \in Nat
    /\ drawn \in SUBSET Nonce
    /\ nonces \in SUBSET drawn
    /\ expiry \in [Nonce -> Nat]
    /\ left \in [Token -> 0 .. Uses]
    /\ notAfter \in [Token -> Nat]
    /\ evidence \in SUBSET Evidence
    /\ attesting \in SUBSET Post
    /\ issued \in [Nonce -> SUBSET Post]
    /\ granted \in [Token -> Nat]
    /\ spent \in SUBSET Nonce

(* cmd/authority registers every token at startup. *)
EnrollInit ==
    /\ clock = 0
    /\ drawn = {}
    /\ nonces = {}
    /\ expiry = [n \in Nonce |-> 0]
    /\ left = [t \in Token |-> Uses]
    /\ notAfter = [t \in Token |-> TokenTTL]
    /\ evidence = {}
    /\ attesting = {}
    /\ issued = [n \in Nonce |-> {}]
    /\ granted = [t \in Token |-> 0]
    /\ spent = {}

-----------------------------------------------------------------------------
(* The nonce leg. *)

(* What the sweep leaves. *)
Swept == {n \in nonces : clock < expiry[n]}

Full == Cardinality(Swept) >= MaxNonces

DrawNonce(n) ==
    /\ n \notin drawn
    /\ IF Full
       THEN nonces' = Swept /\ UNCHANGED <<drawn, expiry>>
       ELSE /\ nonces' = Swept \cup {n}
            /\ drawn' = drawn \cup {n}
            /\ expiry' = [expiry EXCEPT ![n] = clock + NonceTTL]
    /\ UNCHANGED <<clock, left, notAfter, evidence, attesting, issued, granted, spent>>

(* The client builds evidence over the nonce it was given. *)
BuildEvidence(w, n, k) ==
    /\ n \in drawn
    /\ Cardinality(evidence) < MaxEvidence
    /\ evidence' = evidence \cup {[by |-> w, nonce |-> n, key |-> k, at |-> clock]}
    /\ UNCHANGED <<clock, drawn, nonces, expiry, left, notAfter, attesting, issued, granted, spent>>

-----------------------------------------------------------------------------
(* The enrollment leg. *)

Live(n) == clock < expiry[n]

(* Mutant: the nonce is looked up and left in the table. *)
consumeNonceKeeps(n) == nonces' = nonces

(* The nonce leaves the table whatever comes of the enrollment. *)
consumeNonce(n) == nonces' = nonces \ {n}

(* EnrollHandler receives a post, which may be a repeat of an earlier one, and   *)
(* spends its nonce.                                                             *)
Issue(p) ==
    /\ p.evidence \in evidence
    /\ p.nonce \in nonces
    /\ Cardinality(attesting) < MaxPosts
    /\ p \notin attesting
    /\ consumeNonce(p.nonce)
    /\ attesting' = IF Live(p.nonce) THEN attesting \cup {p} ELSE attesting
    /\ spent' = spent \cup {p.nonce}
    /\ UNCHANGED <<clock, drawn, expiry, left, notAfter, evidence, issued, granted>>

(* Mutant: evidence that covers the nonce only. *)
CoversNonce(p) == p.evidence.nonce = p.nonce

(* The MAC, or the quote, is over this nonce and this key. *)
Covers(p) == p.evidence.nonce = p.nonce /\ p.evidence.key = p.key

(* Mutant: an expired token still enrolls. *)
HonoursExpired(t) == left[t] > 0

Honours(t) == clock < notAfter[t] /\ left[t] > 0

(* The build's clock and the authority's agree. *)
QuoteFresh(e) == clock - e.at <= QuoteAge

(* The credential is signed. *)
Sign(p) == issued' = [issued EXCEPT ![p.nonce] = @ \cup {p}]

(* Mutant: a use that is not counted. *)
SpendNothing(t) == UNCHANGED left

Spend(t) == left' = [left EXCEPT ![t] = @ - 1]

(* TokenAttestor.Attest spends a use; a token past its budget or its window, or *)
(* evidence for something else, denies the enrollment.                           *)
AttestToken(p) ==
    LET t == p.evidence.by
        ok == Covers(p) /\ Honours(t)
    IN  /\ p \in attesting
        /\ t \in Token
        /\ attesting' = attesting \ {p}
        /\ IF ok
           THEN /\ Spend(t)
                /\ granted' = [granted EXCEPT ![t] = @ + 1]
                /\ Sign(p)
           ELSE UNCHANGED <<left, granted, issued>>
        /\ UNCHANGED <<clock, drawn, nonces, expiry, notAfter, evidence, spent>>

(* MeasuredAttestor.Attest spends nothing. *)
AttestQuote(p) ==
    /\ p \in attesting
    /\ p.evidence.by = Quote
    /\ attesting' = attesting \ {p}
    /\ IF Covers(p) /\ QuoteFresh(p.evidence) THEN Sign(p) ELSE UNCHANGED issued
    /\ UNCHANGED <<clock, drawn, nonces, expiry, left, notAfter, evidence, granted, spent>>

-----------------------------------------------------------------------------

(* An operator registers a token again: a full budget and a fresh window. *)
RegisterGrant(t) ==
    /\ left' = [left EXCEPT ![t] = Uses]
    /\ notAfter' = [notAfter EXCEPT ![t] = clock + TokenTTL]
    /\ granted' = [granted EXCEPT ![t] = 0]
    /\ UNCHANGED <<clock, drawn, nonces, expiry, evidence, attesting, issued, spent>>

(* The process restarts: no nonce, no handler, every token registered anew. *)
RestartAuthority ==
    /\ nonces' = {}
    /\ attesting' = {}
    /\ left' = [t \in Token |-> Uses]
    /\ notAfter' = [t \in Token |-> clock + TokenTTL]
    /\ granted' = [t \in Token |-> 0]
    /\ UNCHANGED <<clock, drawn, expiry, evidence, issued, spent>>

Tick ==
    /\ clock < MaxClock
    /\ clock' = clock + 1
    /\ UNCHANGED <<drawn, nonces, expiry, left, notAfter, evidence, attesting, issued, granted, spent>>

EnrollNext ==
    \/ Tick
    \/ \E n \in Nonce : DrawNonce(n)
    \/ \E w \in Witness, n \in Nonce, k \in Key : BuildEvidence(w, n, k)
    \/ \E e \in evidence, n \in Nonce, k \in Key :
           Issue([evidence |-> e, nonce |-> n, key |-> k])
    \/ \E p \in attesting : AttestToken(p) \/ AttestQuote(p)
    \/ \E t \in Token : RegisterGrant(t)
    \/ RestartAuthority

EnrollSpec == EnrollInit /\ [][EnrollNext]_enrollVars

-----------------------------------------------------------------------------
(* Properties. *)

(* A nonce is "accepted exactly once": it earns at most one credential, and once *)
(* an enrollment was attempted with it, it is not outstanding again, across      *)
(* repeated posts, concurrent handlers and restarts.                             *)
NonceServesOnce ==
    /\ \A n \in Nonce : \A x, y \in issued[n] : x = y
    /\ spent \cap nonces = {}
    /\ \A p, r \in attesting : p.nonce = r.nonce => p = r

(* "The MAC only enrolls that one key against that one nonce": every credential  *)
(* binds the key its evidence was built for, against the nonce it was built for, *)
(* whatever nonce and key the evidence was posted with.                          *)
CredentialsAreCovered ==
    \A n \in Nonce : \A p \in issued[n] :
        /\ p.evidence \in evidence
        /\ p.evidence.nonce = n /\ p.evidence.key = p.key

(* "A token now buys a bounded number of enrollments": what a registered token   *)
(* has granted and what it has left add up to its budget, so concurrent          *)
(* enrollments never overspend it.                                               *)
BudgetAddsUp == \A t \in Token : granted[t] + left[t] = Uses

(* "Nothing at all once the window closes": no credential is issued on a token   *)
(* outside the window of its last registration.                                  *)
WindowCloses ==
    [][\A t \in Token : granted'[t] > granted[t] => clock < notAfter[t]]_enrollVars
=============================================================================
