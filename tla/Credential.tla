----------------------------- MODULE Credential -----------------------------
(***************************************************************************)
(* Authentication of a principal by a verifiable credential                *)
(* (vc.Authenticator.AuthenticateRequest), over the replay cache of holder *)
(* proofs, and the principal keys it registers for delegation              *)
(* (workload.KeyStore).  Requests run concurrently: the credential is      *)
(* verified at one reading of the clock, the proof at another, and the     *)
(* kill-switch and the registry are reached later still.                   *)
(***************************************************************************)
EXTENDS ReplayCache

CONSTANTS
    Principal,   \* subjects, by did:key, which is also their public key
    Trusted,     \* StaticTrust: the issuers trusted
    Issuer,      \* all of them
    Document     \* Document[j]: the credential proof j commits to (its ath)

(* Issue refuses a ttl that is not positive; other software may issue anything. *)
Credential == [issuer : Issuer, subject : Principal, issued : Nat, expires : Nat]

ASSUME CredentialAssumption ==
    /\ Trusted \subseteq Issuer
    /\ Document \in [Jti -> Credential]

VARIABLES
    arrived,     \* requests past Verify: the call and the proof it came with
    proven,      \* requests past Check
    principals,  \* KeyStore.principals: when the key registered expires, 0 if none is
    disabled     \* the kill-switch's list, as far as it names principals

requests == <<arrived, proven, principals, disabled>>
Request == [by : Call, jti : Jti]

CredentialTypeOK ==
    /\ arrived \in SUBSET Request
    /\ proven \in SUBSET Request
    /\ principals \in [Principal -> Nat]
    /\ disabled \in SUBSET Principal

CredentialInit ==
    /\ Init
    /\ arrived = {} /\ proven = {}
    /\ principals = [p \in Principal |-> 0]
    /\ disabled = {}

Idle(c) == (\A r \in arrived \cup proven : r.by # c) /\ (\A k \in checks : k.by # c)

(* Verify: a trusted issuer, and now within the window. *)
Verify(d, now) == d.issuer \in Trusted /\ d.issued <= now /\ now < d.expires

(* AuthenticateRequest, up to Check.  A credential that fails changes nothing. *)
Arrive(c, j) ==
    /\ Idle(c)
    /\ Verify(Document[j], clock)
    /\ arrived' = arrived \cup {[by |-> c, jti |-> j]}
    /\ UNCHANGED <<vars, proven, principals, disabled>>

(* Check reads the clock again. *)
Prove(r) ==
    /\ arrived' = arrived \ {r}
    /\ IF Fresh(r.jti, clock) THEN Present(r.by, r.jti) ELSE UNCHANGED vars
    /\ UNCHANGED <<proven, principals, disabled>>

Spend(k) ==
    /\ Use(k)
    /\ proven' = IF uses' # uses THEN proven \cup {[by |-> k.by, jti |-> k.jti]} ELSE proven
    /\ UNCHANGED <<arrived, principals, disabled>>

(* Mutant: a key without an expiry. *)
RegisterForGood(r) ==
    LET d == Document[r.jti] IN
    /\ proven' = proven \ {r}
    /\ principals' = IF d.subject \in disabled THEN principals
                     ELSE [principals EXCEPT ![d.subject] = MaxClock + 1]
    /\ UNCHANGED <<vars, arrived, disabled>>

(* The kill-switch is asked, then AddPrincipalKey replaces what was registered: *)
(* the last request to get here wins.  A listing between the two is the same as *)
(* one after both.                                                              *)
Register(r) ==
    LET d == Document[r.jti] IN
    /\ proven' = proven \ {r}
    /\ principals' = IF d.subject \in disabled THEN principals
                     ELSE [principals EXCEPT ![d.subject] = d.expires]
    /\ UNCHANGED <<vars, arrived, disabled>>

SetDisabled(p) ==
    /\ disabled' = IF p \in disabled THEN disabled \ {p} ELSE disabled \cup {p}
    /\ UNCHANGED <<vars, arrived, proven, principals>>

Pass == Tick /\ UNCHANGED requests

CredentialNext ==
    \/ Pass
    \/ \E c \in Call, j \in Jti : Arrive(c, j)
    \/ \E r \in arrived : Prove(r)
    \/ \E k \in checks : Spend(k)
    \/ \E r \in proven : Register(r)
    \/ \E p \in Principal : SetDisabled(p)

CredentialSpec == CredentialInit /\ [][CredentialNext]_<<vars, requests>>

(* KeyStore.lookup: the principal's key is known and has not expired. *)
PrincipalKey(p) == clock < principals[p]

-----------------------------------------------------------------------------
(* Properties. *)

(* The key of a principal verifies a delegation chain only while a credential *)
(* for that principal, from a trusted issuer, is within its window, and only   *)
(* after a holder of that key has spent a proof made for that credential:      *)
(* however long the requests that registered it were held up on their way, and *)
(* whichever of them came last.                                                *)
KeyDiesWithCredential ==
    \A p \in Principal : PrincipalKey(p) =>
        \E j \in Jti :
            /\ Document[j].subject = p /\ Verify(Document[j], clock)
            /\ uses[j] > 0
=============================================================================
