# A TLA+ verification project for Sanad

Sanad is a gateway that stands between AI agents and the MCP servers they use. A
request reaches the gateway with a credential of the human or organisation it is
made for (the *principal*), usually with a credential of the *agent instance* that
makes it and a signed *delegation* from the one to the other: a chain of hops, or a
capability, or a token of an exchange authority. The gateway
decides, mints a short-lived *passport* for the one server the request is for, and
forwards it. A control plane registers parties and revokes them, an authority
enrolls agent instances, an audit log records every decision.

This directory holds TLA+ modules translated from the Go source, TLC runs that
check them on small instances, and theorems that TLAPS proves for every instance.
`PROJECT.json` lists components, runs, mutants, the definition-to-source map,
hazards and theorems.

## The parts and how they interact

The order of a request through the gateway is fixed in `cmd/gateway/main.go`:

    principal -> [instance -> delegation] -> [tool-definition guard]
              -> kill-switch -> policy (human review) -> mint
              -> audit "allow" -> proxy -> response inspector

| part | source | modules | proofs |
|---|---|---|---|
| kill-switch | `revoke/` | `KillSwitch` | `KillSwitchProofs` |
| request pipeline | `gateway/`, `cmd/gateway` | `Gateway` (extends `KillSwitch`) | `GatewayProofs` |
| human review | `policy/hitl.go`, `admin/reviews.go` | `Approver`, abstract `ReviewQueue` | `ServiceProofs` |
| proof of possession | `internal/pop` | `ReplayCache` | `LedgerProofs` |
| verifiable credentials, principal keys | `vc/`, `workload/keystore.go` | `Credential` (extends `ReplayCache`) | `LedgerProofs` |
| delegation chains, policy, passport, enforcement | `delegation/`, `policy/`, `sts/`, `verify/`, `workload/keystore.go` | `Delegation`, `Policy`, `Authorization` | `AuthorizationProofs` |
| capabilities | `delegation/capability.go` | `Capability` | `DelegationProofs` |
| delegation exchange | `delegation/exchange.go` | `Exchange`, abstract `DelegationTree` | `DelegationProofs` |
| control plane | `admin/`, `cmd/admin` | `ControlPlane` | `ServiceProofs` |
| tool-definition guard | `tooldefs/` | `ToolGuard` | `ServiceProofs` |
| enrollment | `workload/`, `cmd/authority` | `Enrollment` | `ServiceProofs` |
| enrollment rate limit | `workload/ratelimit.go` | `RateLimit` | `RateLimitProofs` |
| audit log and witness | `audit/` | `Merkle`, `AuditLog` | `MerkleProofs`, `LedgerProofs` |

Four modules compose parts. `Gateway` runs a request's stages against the same
variables the kill-switch model has, so a snapshot can be swapped, go stale or be
lost between any two steps of the request. `Authorization` puts the delegators, the
key registry that other requests write, the delegation, policy and mint stages and
the resource server's middleware together. `Credential` runs authentications over
the variables of the replay cache and up to the key registry. `RateLimit` has the
limiter and the nonce table it protects. `Approver` is shown to implement
`ReviewQueue`, and `Exchange` to implement `DelegationTree`.

## The modules

**KillSwitch.** `source` is the durable deny list; each replica has a `CachedStore`
(`snapshot`, `lastOK`) and a refresh goroutine (`phase`, `got`, `began`, `due`).
`Refresh` calls `List` outside the lock, so `BeginRefresh`, `ListReads` and
`RefreshOK`/`RefreshFailed` are separate steps; a write through the store is
`LocalWrite` (the Source) and `LocalApply` (the snapshot). `SourceWrite` is the
admin plane's write, `SourceFails`/`SourceRecovers` an outage, `Crash` the end of a
process. Time is an integer clock that cannot pass a Source call's timeout.

**Gateway.** `pc[q]` is the stage of request `q`. Freshness, the principal's lookup
and the agent's lookup are three steps because they are three lock acquisitions.
`DecideAction` takes one element of a batch; `Hold`, `Approve` and `Abandon` are
review. What a stage computes from the request alone (is the token good, does the
chain verify) is a choice here; `Authorization`, `Capability` and `Credential` model
those computations. A passport expires `TTL` after its mint; `Accepts` is the expiry
test of the resource server, which asks nobody else. The whole seconds of the encoded
expiry can only shorten a passport's life.

**Approver / ReviewQueue.** Every critical section of the review queue is an action;
the `select` of `Decide` and the lock that `claim` takes after it are two steps,
which is where the timeout, the hang-up and the operators race. `Timed` names the
calls made at an approver with a positive timeout. `ReviewQueue` promises that a
review is settled once, by whoever was told so.

**ReplayCache.** `Present` is `Check` up to the cache's lock (the clock is read and
the proof found fresh), `Use` the lock's critical section with `Rotate`. A call may
be held up by at most `MaxDelay` in between. Signature and hash checks that precede
the cache succeed.

**Credential.** `AuthenticateRequest` reads the clock in `Verify` (`Arrive`) and again
in the proof's `Check` (`Prove`), takes the cache's lock (`Spend`), and only then asks
the kill-switch and writes the key registry (`Register`); requests overtake each other
in between. A proof commits to one credential (`Document`). The last request to
register wins. The kill-switch's answer and the registration are one step: a listing
that falls between the two leaves what one after both would.

**Delegation / Policy / Authorization.** `Delegation` has grants and their narrowing
(`attenuates`, `subset`) and, independently, what a grant permits (`Permits`).
`Policy` has the allow list's precedence. In `Authorization` delegators sign hops,
any sequence of signed hops may be presented, and `VerifyHop` does one turn of
`Verify`'s loop, so the key registry may change between hops. A signature is a name
for the message it covers. An agent may have the principal's id: the two key
namespaces keep them apart. The server and the instance are chosen where they are
first read; a key's expiry may come at any time. Times are whole units of at least
a second because that is the precision in which a hop's expiry is signed.
`Serve` is the middleware with `EnforceScope`, on any body.

**Capability.** A capability is the list of its blocks; a block, and the fresh key pair
it introduces, are named by the block's signature. One presenter is followed, who sees
some capabilities (`Observe`), is handed the secrets of some (`Receive`) and may present
any blocks it has seen in any order. Everybody else holds every secret, and blocks are
also signed by software that skips the checks of `Attenuate` (`SignBlock`). `VerifyBlock`
is one turn of `Verify`'s loop, `CheckSeal` its end, `HolderStage` the rest of
`CapabilityStage`.

**Exchange / DelegationTree.** `BeginExchange` is `Exchange` up to its call of `issue`
and `FinishExchange` the rest, because the lock is released in between. `Verify`'s walk
is `Ancestry`, the least set closed under the parent map. `RestartAuthority` keeps the
signed tokens and empties both maps. `DelegationTree` has no walk: revoking a token
kills its subtree at that moment, and what is grafted below a dead token is dead. As in
the code, `Verify` tests a token's own expiry, which is `TTL` after its issue and not
capped by its parent's, and leaves the grant's expiry to the narrowing.

**ControlPlane.** Every operation of `admin.Service` runs under its lock and is one
action. A store write succeeds, fails, or fails after having landed. `Restart` loses
the records and keeps the list: it assumes the durable store (without a database
`cmd/admin` keeps the list in memory too and a restart loses it).

**ToolGuard.** `Ask`, `Stage`, `Forward`, `ServerReplies`, then `Whole` or one
`StreamEvent` per event. A reply is its form, what the inspector finds in it and the
surface it shows, which is the server's at the time it replied. The mode of the
server is chosen at start. Only the first tools result of a batched reply counts, as
in `ToolsResult`. The quarantine latch and its event are one step.

**Enrollment.** `DrawNonce`, `BuildEvidence`, `Issue` up to `consumeNonce`,
`AttestToken`/`AttestQuote` with the signature, `RegisterGrant`, `RestartAuthority`. One
authority accepts both kinds of evidence, which includes the behaviours of an
authority with either. `Nonce` reads the time just before its lock, which this model
joins and `RateLimit` does not. The approved measurement and the clock skew of a quote are left out.

**RateLimit.** A handler reads the time (`Arrive`), takes the limiter's lock with it
(`Allow`) and draws a nonce (`DrawNonce`) with a time read after the one lock and before
the other; calls overtake each other. A call is under way for at most `MaxDelay`. Tokens
are counted in parts so that a refill is a whole number.

**Merkle / AuditLog.** `Merkle` has the tree's algorithms with hashes as terms. A
slice `d[lo : lo+n]` of the Go code is its length and its start, and an algorithm that
calls itself on slices is a recursive function of the length (`SliceRoot`,
`inclusionPath`, `subproof`), so that proofs can be made about it. The loops of
`VerifyConsistency` are `AboveOdd` (up while the old tree's node is a right child) and
`Climb`, whose `Turn` is one turn of the other two. In `AuditLog`, `Commit` is `Append`'s
critical section, `Stream` the write to the sink outside it; relays carry a checkpoint
(`Checkpoint`) and a proof (`GiveProof`), taken from different snapshots, to `Witness`,
which keeps `lastSize` and `lastRoot`. `Restart` begins an empty log under the same key.

## The runs

Each `MC` module and `.cfg` names one question. All bounds are constants.

| run | question | what it shows |
|---|---|---|
| `killswitch` | how long can a revocation be missed? | `RevocationEffective`: `MaxStale` plus one Source call, whatever refreshes, write-throughs, outages and crashes do; `NoFalseDenial`: a store denies everybody only in and just after an outage; `BatchesLandWhole`: a principal and its agent fall together; `SnapshotsTrackSource` is the inductive reason |
| `gateway` | what may have changed by the time a passport is minted or used? | `MintedInTime`: the kill-switch's bound plus the time held for review; `HonouredInTime`: that and the passport's life bound how long a listed party is served; `Accountable`: the allow entry precedes the upstream call and a refusal excludes it; `WholePlanAllowed`: no element of a batch rides on another's allow; `ScreenedInTime` is the inductive reason |
| `approver` | is what an operator was told true? | `ToldIsTrue`, `LoserNeverBlocks`, the refinement `ImplementsReviewQueue`, and under fairness `HeldIsAnswered` and `LeavingFreesReview` |
| `credential` | when is a spent proof accepted again, and how long does a registered key live? | `ReplayNeedsOvertaking`: only for a call overtaken by another between its clock and the lock, across a rotation; `KeyDiesWithCredential`: a key is good only within the window of a credential whose holder proved possession; `SpentIsRemembered` is the inductive reason for the first |
| `authorization` | does authority only narrow, in each of the three modes? | chains: `AcceptedWasBuilt`: hops cannot be recombined; `EffectiveIsNarrowest`: the effective grant permits nothing a hop did not; `UsedWithinGrant`: nor does what the resource server runs. Capabilities: `HandedWhole`: no prefix of a capability passes; `CapabilityWithinGrant`: its scope is within every block's grant. Exchange: `TokensNarrow`, and the refinement `ImplementsDelegationTree`: a revocation reaches everything exchanged below, exchanges in flight included |
| `control_plane` | do records and answers agree with the list? | `DisabledIsRevoked`, `ReplyIsTrue`, `RevokedStaysDenied` through failing writes and restarts |
| `control_plane_blueprint` | is an instance of a revoked blueprint out? | a violation, see below |
| `tool_guard` | can a drifted list or work on a drifted server get through? | `DriftNeverDelivered`, `WorkWaitsForMatch`, and `BlockedIsTrue`: the audit log's claim |
| `tool_guard_recovery` | does a quarantine end? | `QuarantineEnds` under fairness |
| `enrollment` | can a nonce or token be overspent? | `NonceServesOnce`, `CredentialsAreCovered`, `BudgetAddsUp`, `WindowCloses` |
| `rate_limit` | how many nonces can be outstanding? | `BurstAndRateBoundNonces`; `RefusalIsFree`: no bucket pays for the other's refusal |
| `audit_log` | do proofs prove, and does the witness co-sign one history? | `LogIsProvable`, `CosignedIsAppendOnly` |

Every property has a mutant in `PROJECT.json`: a plausible bug in a mapped
definition under which TLC finds the property violated.

### Bounds, and why they are enough

- `KillSwitch`: one replica (replicas share only the Source, whose other writers are
  `SourceWrite`), two writing goroutines so that a restore can cross a revoke, a
  clock of 6 against a bound of 2+1, so that a revocation can become overdue and a
  recovery complete.
- `Gateway`: one request (requests share nothing but the kill-switch and the log);
  plans of two elements, both held, or an allow before a refusal. The constraint
  `Unfinished` stops at answered requests, which no longer change.
- `Approver`: two reviews, one with a timer, and two operators: every race is
  between at most three parties on one review.
- `Credential`: four proofs against a cap of two entries, two calls, eight units of
  time against a window of three: two rotations. One principal's credential
  runs out while its successor is good, one credential is from an untrusted issuer.
- `Authorization`: chains of up to three hops, grants that differ in tools, servers,
  expiry and budget; bodies of up to two calls; an agent that has the principal's id.
  A gateway runs one mode, so a behaviour has one: three blocks under one root key, or
  three tokens (a root, a child, a grandchild) with one call of `Exchange` in flight and
  one restart. Several roots and concurrent exchanges are left to the proofs, which
  cover any number.
- `ControlPlane`: two principals so that an agent can move, one blueprint, one agent.
- `ToolGuard`: two exchanges, so that replies can be inspected out of order; all
  kinds of requests and replies, streams of up to two events.
- `Enrollment`: three nonces over a table of two, two handlers, a budget of one use.
- `RateLimit`: two clients over two buckets, three calls at a time that are late by up to
  two units, the budget set again once: a late call can be the first on a bucket set anew.
  The table's cap is above what the limiter lets through, so that the limiter is what
  bounds the table.
- `AuditLog`: seven entries, so that a log of three can be replaced by one of four:
  sizes that are powers of two, odd and even occur on both sides of a proof.

Symmetry is used where the permuted values are interchangeable and no property is a
liveness property.

### Fairness

`Approver`: the goroutine parked in `Decide` runs when it can, and an armed timer
fires; operators and clients need not do anything. `ToolGuard` (`FairSpec`): an
exchange that has begun goes on, and clients keep listing; the server's changes are
not fair. The code gives the first by goroutine scheduling and Go timers. That clients
keep listing is an assumption on their behaviour, which the property states.

### A disagreement with the documentation

`admin/blueprint.go:13` says that revoking a blueprint "cascades to all of its
instances (kill-switch by BlueprintID, enforced at the gateway and in
Service.Revoke)". An agent instantiated *after* its blueprint was revoked is not on
the list, and the gateway's instance authentication sets no blueprint id it could look
up. The run `control_plane_blueprint` shows it.

### Bounds that differ from a comment's

Where a comment states a stronger bound, the properties state the one that holds:

- `revoke/cached.go:74` "either a revocation took effect within 60s, or the gateway
  is refusing traffic": `lastOK` is stamped when `List` returns, so one Source call
  adds to it (`RevocationEffective`).
- `revoke/cached.go:87` "Writes go through to the Source and update the local
  snapshot at once": a `List` that began before the write undoes the snapshot's part
  of it until the next refresh; the bound above still holds.
- `revoke/revoke.go:122` "a revoked party can never obtain a passport": one revoked
  while its request is held for review does (`MintedInTime`).
- `internal/pop/pop.go:355` "the SECOND presentation of one is refused": see
  `ReplayNeedsOvertaking`.
- `delegation/exchange.go`, "cascades to every token exchanged from it": within one
  life of the authority. After a restart on the same key nothing is revoked and nothing
  has a parent; `DelegationTree` says so with `Forget`, and `TokensNarrow` is what
  remains.
- `admin/service.go:221` "a revoke/restore pair is symmetric": a restore also takes
  off agents that had been revoked on their own before. `service.go:223`: an id
  registered while on the list is shown as enabled.
- `tooldefs/guard.go:409` "until it matches again": a matching reply the server made
  before it drifted, inspected late, releases it (`WorkWaitsForMatch` is about the
  last verdict). `guard.go:25` "A list past the bound is unverifiable": one that
  passes it only after decompression is cut, no longer parses and counts as no list.
- `workload/ratelimit.go:30` "at most 200/min × NonceTTL = 400": the burst comes on
  top, 600 with the defaults, once for every time the budget was set, and so does what
  refills while calls are under way (`BurstAndRateBoundNonces`).

## What is proved

TLAPS checks these for every value of the constants allowed by the named assumptions.

- **KillSwitchProofs**: `TypeCorrect`, `Tracking`, `RevocationTakesEffect`,
  `WholeBatches`, `OnlyOutagesDeny`. `RevocationEffective` is not inductive: a read in
  flight may bring an old list. The invariant `SnapshotsTrackSource` adds what a read
  and a write in flight may miss. For the batches the same has to be said of every list
  a read or a write holds (`AllWhole`); for availability, that the refresh loop is never
  late (`LoopsInTime`). `OnlyOutagesDeny` assumes `RefreshFits`: a refresh period and a
  Source call, and two Source calls, fit into the staleness bound. The defaults do; the
  start-up check in `cmd/gateway/main.go:629` only asks that the bound exceed the period.
- **GatewayProofs**: `GatewayTypes`, `EveryActionDecided`, `ScreeningIsTimely`,
  `MintingIsTimely`, `HonouringIsTimely`, `OneEntryEach`. The kill-switch's invariants
  hold of the composition, `ScreenedInTime` relates the time of the freshness check to
  the later stages and to the holds since, and a minted passport's expiry carries that
  bound on.
- **MerkleProofs**: what the audit log's proofs are worth, for logs of any length.
  `ConsistencyIsSound`: whatever hashes are handed to `VerifyConsistency` as a proof, a
  root it accepts as an extension is over leaves that begin with the old ones.
  `ConsistencyIsComplete`: it accepts what `ConsistencyProof` returns for every earlier
  size. `InclusionIsExact`: an inclusion proof convinces of the leaf at its index and of
  no other. The library's induction rules take a predicate, which the provers cannot
  instantiate; here an induction is over a *set* of naturals (`Induction`,
  `StrongInduction`, from the least-element principle), and the same way it is shown that
  the recursive definitions have a solution at all. The argument about the verifier
  goes level by level: at height `h` the nodes of a tree cover slices of `2^h` leaves, all
  but the last one, so `node` and `last` are the places of the old tree's and the new
  tree's last node, and `fr` and `sr` have to be the hashes of those two nodes if the
  roots at the end are to come out right. Since a hash term determines what it was
  computed from, the leaves below agree.
- **LedgerProofs**, for the two records of what happened.
  The audit log: `LogInvariant`, `LogStaysProvable` and the action property
  `CosigningAppends`, for any
  number of appenders, relays, entries and restarts. The invariant `LogInv` says that
  leaf `i` is the hash of entry `i` and covers `i` entries, so that no two leaves are the
  same (`Chained`), that a relay carries what the operator signed (`Signed`), and that the
  witness's size and root are those of the leaves it co-signed (`Remembered`). The rest is
  `MerkleProofs`: nothing is assumed of the proof that a relay brings.
  Spent proofs: `Remembering`, `ReplayOnlyByOvertaking`, and
  `PromptChecksAcceptOnce`: with no delay between clock and lock, no proof is
  accepted twice. `CredentialUsesCache`: the steps of `Credential` are steps of the
  cache, so these hold of it; `KeysDieWithCredentials` for any credentials and delays.
- **DelegationProofs**: lemmas on `attenuates` (reflexive, transitive, it bounds what is
  permitted) that `AuthorizationProofs` shares. `ExchangeNarrows` and
  `ExchangeRefinement`: the invariant says that the parent map follows the tokens of
  this life of the authority, so that `Verify`'s walk and the history `line` are the
  same set. `CapabilityHandedWhole` and `CapabilityNarrows`: the invariant says that a
  block was signed over the path it belongs to, so that what passes the loop is a path
  that was made, and the seal tells its end.
- **AuthorizationProofs**: `TypeCorrect`, `NoRecombination`, `VerifyNarrows`,
  `AuthorityOnlyNarrows`. The invariant adds that signed hops are linked to the
  chain they were made for, that verified hops narrow pairwise, and that scope and
  passport stay within the last grant.
- **ServiceProofs**, for four independent services.
  Control plane: `ControlTypes`, `RevocationHolds`, `AnswersAreTrue`,
  `DisabledMeansRevoked`.
  Human review: `TypeCorrect`, `AcknowledgementsAreTrue`, `ReceiveDoesNotBlock`,
  `Refinement`. The invariant says of each review where its one settlement is: in
  nobody's hands, in the channel, or returned.
  Enrollment: `EnrollTypes`, `NoncesServeOnce`, `EvidenceCoversCredentials`,
  `TokensStayInBudget` and the action property `ClosedWindowGrantsNothing`, for any number
  of nonces, handlers, tokens, uses and restarts. The invariant `EnrollInv` says where a
  nonce is in its life (`NonceLife`): in the table, in the hands of the one handler that
  consumed it, or on the one credential issued for it, and nowhere else once it is spent.
  The budget needs no more than what is left and what was issued.
  Tool-definition guard: `GuardTypeCorrect`, `EventsAreTrue`, `DriftIsWithheld`,
  `WorkWaits`. The invariant `GInv` says that the quarantine latch is the last verdict
  (`LatchFollowsVerdict`) and, per request, that a withheld reply is an announced one.
- **RateLimitProofs**: `TypeCorrect`, `RefusedCallsAreFree`, `BurstAndRateBound`, for any
  rates, bursts, delays and number of retunes. The bound on the nonces is not inductive: it
  speaks of the window that ends now, and the next step may be in another. The invariant
  `IInv` says of *every* window (`Paced`) that what was admitted since it opened, calls let
  through that have not drawn yet included, and what the bucket still holds are within the
  allowance of the bursts and the refill since then, and (`Timely`) that no call is older
  than `MaxDelay`. A window's account survives a retune because the new bucket starts from
  one more burst, and at most `MaxDelay` of time can be refilled for a second time. An
  earlier form of the property counted the delay once; the proof did not go through, and
  TLC found the call that crosses a retune.

Only model-checked: liveness (`HeldIsAnswered`, `LeavingFreesReview`,
`QuarantineEnds`), which needs fairness and `ENABLED`; these are out of the prover's
reach. Every other property of the runs is proved, except the one that
`control_plane_blueprint` refutes.

## What is not modelled

- Cryptography: a signature verifies exactly for the message and key it was made
  with, a hash is equal exactly for equal inputs. The context labels of
  `internal/sigctx` are why a signature is good for one kind of message.
- Parsing and configuration (`config/`, `policy/config.go`, `tooldefs/config.go`):
  read once, before anything is served.
- `metrics/`: counters nothing reads. `sdk/`, `sdks/`, `cmd/passport`, `cmd/demo`,
  `cmd/devsecrets`, `cmd/echomcp`, `cmd/sts`: sequential callers, no shared state.
- The replay cache subtracts monotonic times and compares wall-clock ones; the model
  has one clock. Replay caches and rate limits are per process, as documented.
- A witness that loses its own memory.
- Passport encoding, key files and key distribution (`pkg/passport`, `jwks/`,
  `verify/jwks.go`): the resource server knows the gateway's key. The gateway serves its
  current key alone (`cmd/gateway/main.go:143`), so after a key change passports
  signed before it verify only where the old key is still cached, although the verifier's documentation speaks of overlapping keys.
- `vc.Issue`, the credential's JSON and the `did:key` encoding; a subject's id is its
  key. The identity provider's token validation. The digest of a chain that a passport
  carries. The search functions over the audit log. These are functions of their input
  with no state, and what they feed is a choice or a constant of a model.
