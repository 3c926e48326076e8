# ce-iam in TLA+

A TLA+ model of ce-iam (`crates/ce-iam-core`, `crates/ce-iam`): capability chains and the
policies they are compiled from, the secrets vault, the device registry, the role catalog, the
verifier with its revocation cache and accepted roots, the authenticated key/value server, the two
services that sign capabilities for logins, the wallet and the trust score.
TLC checks small instances; TLAPS proves forty theorems for all instances.

    tlc -config MCVault.cfg MCVault.tla      # a run
    tlapm VaultProofs.tla                    # a module of proofs

## 1. The system

ce-iam is a library, a command line over it (one process per command, except the long-running
`node-auth` and the kv server) and a few JSON files. There is no central database: authority
travels in signed chains, shared records live in a key/value store that all devices reach through
the mesh, and everything else is a file of one host that several processes may have open.

| component (source) | state | operations | interacts with | what makes it correct |
|---|---|---|---|---|
| policy compiler (`policy.rs`, `grant.rs`) | none | `expand_actions`, `compile`, `compile_scopes` | grants, catalog | a compiled document permits what it says, nothing is dropped or widened |
| grants (`grant.rs`) | the chains callers hold | `mint`, `mint_role`, `mint_policy`, `reissue_under`, `attenuate`; `verify`, `inspect` | external `ce-cap` | authority narrows along a chain; the summary a human reads is what is enforced |
| secrets vault (`secrets.rs`) | `meta`, `d.*`, `p.*`, `enrol.*`, `s.*`, `g.*` in a shared store | `init`, `recover`, pairing, enrolment tokens, `revoke_device`, secrets, vault grants | a `Store` (file or mesh kv), one call at a time | one master for everybody enrolled; the owner gets back in; a revoked grant is never accepted |
| device registry (`device.rs`) | a map under a mutex, `devices.json` | `claim`, `request`, `set_node_id`, `approve`, `revoke`, `open` | threads of a process, the file system | an admin remains, in memory and after any crash |
| role catalog (`catalog.rs`), store (`store.rs`) | roles, policies, attachments, audit ring; operation log on disk | puts, removals, attachments, `compact`, `open`, `effective_grants` | policy compiler, the file system | disk and memory agree, no dangling role, reports are what is minted; what is written can be opened (it cannot, section 5) |
| revocation cache (`revocation.rs`), verify command (`main.rs`) | `revocation-cache.json`, one verification in progress | `refresh`, `load`, `is_fresh`, `cmd_verify`, `submit_revoke` | the chain through the node API, other verifiers through the file | a bound on how stale an accepted revocation set can be |
| accepted roots (`roots.rs`) | `roots.json`: windows per key | `add`, `retire`, `rm`, `accepted_at` | verifiers read what commands write | a retired root stops being accepted |
| kv server (`authkv.rs`), audit log (`audit.rs`) | replicated map, counters, ring | `get`, `put`, `del`, `list`, `record` | `ce-coord` log (external), mesh peers | every sensitive change is accounted and made by a writer whose chain was in force |
| mesh kv client (`kv_store.rs`) | memoized host | the `Store` calls, given up after eight seconds | vault above, kv server below | a write that arrives after its caller gave up breaks nothing the vault promises |
| wallet (`wallet.rs`) | labelled tokens in `wallet.json` | `add`, `remove`, `get` | the verify command, `store.rs` | a stored token stays until it is removed |
| bridge (`bridge.rs`) | nonce counter | `mint_operator_grant` | grants; replicas under one root | each grant has a nonce of its own |
| node auth (`nodeauth.rs`) | nonce counter, backoff, the message stream | `run`: announce, receive, vouch, reconnect, stop | the node's API, browsers | a request is answered once the node is back; who is vouched for is who asked |
| attestation (`attestation.rs`), trust (`trust.rs`) | none | `issue`, `verify`, `max_level`, `score`, `is_trusted` | relying parties | a score counts what providers signed, each provider once |

The behaviours that are hard here:

- *Several actors, one store, many calls.* A vault operation is a sequence of store calls with
  anything in between: another device's operation, a revocation, the loss of the store.
- *Snapshot under the lock, write outside it* (`DeviceStore::persist`), through one temporary name.
- *Read-modify-write of whole files* by short-lived processes (roots, catalog, wallet).
- *Stamps taken before slow steps.* `cmd_verify` reads the clock once; the fetch it stamps may
  finish much later, and then it replaces whatever another verifier wrote meanwhile.
- *Decide now, apply later.* The kv server decides and audits a write, then awaits its proposal.
- *A request that is given up is not undone*: the mesh may still serve it, after newer ones.
- *A loop over a remote stream* (node auth) that meets outages, restarts and shutdown in any state.
- *Limits*: audit rings, log lengths, byte limits, chain depth, nonces.

`PROJECT.json` lists these as hazards, each at its line, with the property that covers it or the
reason why none does.

## 2. The modules

| module | models | state |
|---|---|---|
| `Policy` | documents, `expand_actions`, `compile`, `compile_scopes`; and the meaning of a document, read statement by statement (`Grants`) | none |
| `PolicyDocument` (extends `Policy`) | a document while it is written, and what compiling it must preserve | `doc` |
| `Grant` (extends `Policy`) | the operations on chains; `ce-cap`'s rules as external operators | `grants` |
| `Vault` | every operation of `Vault` that changes the store, one action per store call; `kv_store.rs` as its channel | the records, `proc[d]` for the operation device `d` is in, `late` for the writes given up and still under way, `now` |
| `DeviceStore` | the registry, `persist` as snapshot / open+truncate / write / rename on names bound to inodes | the map, `status`, `proc[t]`, inodes and names |
| `Catalog` (extends `Policy`) | `Catalog::apply`, its validation (a put needs a name, an attachment its role; the removal of what is not there, nameless or not, is accepted and recorded), `effective_grants` | none |
| `DurableCatalog` | the abstract promise: one catalog that changes by one valid operation at a time | `content` |
| `CatalogStore` (extends `Catalog`) | log file, processes that load, append, compact, fail, stop | `file`, and `log`, `catalog`, `pc`, `pending` per process |
| `Roots` | the `root` commands as read-modify-write over `roots.json` | `clock`, `roots`, `admin` |
| `Verifier` (extends `Roots`) | `cmd_verify` step by step, the shared cache, revocations on the chain | `revokedAt`, `cache`, `proc[v]` |
| `AuthKv` | the kv server's requests, the proposals they start, the audit | `m`, `proposed`, `revoked`, `counters`, `events` |
| `NodeAuth` | the responder's loop, one step per await, with outages, broken streams, crashes and an operator | `pc`, `backoff`, `nonce`, `inbox`, `cur`; the node's `up`, `open`, `subscribed`; what browsers have |
| `CapBridge` | replicas that start, mint and stop | `micros`, `source[r]`, `granted` |
| `Wallet` | `wallet add` and `wallet rm` as read-modify-write over `wallet.json` | `wallet`, `shell[s]` |
| `Trust` | attestations in circulation, `verify`, `score`, `max_level` | `held`, `said`, `second` |
| `MC*` | finite instances; `MCGrant`, `MCCatalog`, `MCShared` and `MCServices` hold components that share no state, and a behaviour there is about the one it touches first | |
| `*Proofs` | theorems; `GrantProofs` holds those about `Policy`, `PolicyDocument`, `Grant` and `Trust`, `CatalogProofs` those about `Catalog`, `CatalogStore` and `Wallet`, `ServicesProofs` those about `NodeAuth` and `CapBridge` | |
| `Induction` | induction over numbers and sequences, and recursion along a sequence, for the proofs | |

How actions correspond to code: an operation that completes without an await or a file operation
is one action named like the function. An operation that awaits is an action for the part before
the first await that matters and one for each later part (`redeem_enrol_token`, `redeem_enroll`,
`redeem_burn`), with what the code holds in local variables in `proc`. Early returns that change
nothing are steps that are not enabled, or that end the operation (`Finish`).
`crash` is a process that stops, or equally a call that returns an error and makes the operation
return early, at any point between two steps. `times_out` is a write of the vault whose caller gave up: the
operation returns early and the write goes to `late`, from where `late_arrives` applies it whenever it
likes, after newer writes too. A variable called a history (`drawn`, `changed`, `used`, `said`, `kept`,
`retired`, the field `was`, the field `retired` of a verifier, the field `unrevoked` of a write) exists for a property only: no
guard of another variable reads it, except that ids are drawn once (`t \notin drawn`,
`Fresh(g)`), which stands for their being random.

What is abstracted: a capability's quantity conditions (cpu, memory, credits, ports, path prefix)
are one set of uses left open, because narrowing treats them alike; signatures are valid because
only the modelled operations make links; a link's hash is the link; a vault master is named by the
device whose key it derives from, and wrapping or sealing remembers which master is inside;
labels, descriptions, printed text and time stamps nobody compares are left out. In `Verifier` a
token is its root, the pairs that revoke it and its expiry: what a chain proves by itself is `Grant`.

## 3. What TLC checks

| run | instance | properties | why the bounds are enough |
|---|---|---|---|
| `grant` | all documents of at most two statements out of 216 (Allow and Deny, 6 action sets, 6 resource forms, 3 conditions); or 3 identities, 8 documents, 3 chains of at most 3 links; or 3 attestations of two providers | `TypeOK`, `CompileFaithful`, `ScopesFaithful`, `NoSilentTypo`, `AttenuationNeverBroadens`, `LeafDecides`, `TrustIsEarned` | grouping and leaking involve two statements; the library has each form, a literal outside the universe, a wildcard that matches part of it and one that matches nothing. Three links are what tells "compared with the leaf" from "compared with the root". A repeated, an altered and an expired attestation fit in three |
| `vault` | two devices, one of them the owner, one pairing code, one token, one secret, one grant, one late write | `TypeOK`, `EnrolledOpensEverything`, `AllowedAtOneInstant` | each device takes the part of owner, approver, applicant and verifier in turn, with crashes, wipes and late writes at every step; the grant is issued, and revoked while a verification is between its two reads. The three properties are proved for any number of devices |
| `vault_lockout` | owner and one device, pairing and token at once, one late write | `OwnerNeverLockedOut` | one adversary that may revoke after every step, wipes at every step, and attempts that stop between the device record and `meta` |
| `vault_tokens` | owner, two devices, one token | `TokenEnrolsOnce`, **violated** | section 5 |
| `device_store` | one caller, two devices, two keys, seeded admins | `TypeOK`, `AdminRemains`, `AdminKeyFixed`, `OperatorSurvives`, `AckedIsDurable` | two devices make the last-admin guard matter; a crash and a failing call at each step of `persist` |
| `device_threads` | two callers | `OperatorSurvives`, **violated** | section 5 |
| `catalog` | one writer, two roles, a policy, documents of one and of two scopes, at most 4 operations, a ring of 2; or a shell with three labels, two tokens and room for two entries | `MemoryIsDisk`, `AuditIsRecent`, `AttachedRolesExist`, `EffectiveIsMint`, `StoredUntilRemoved`, `ImplementsDurableCatalog`, `CompactionKeepsState` | four operations attach two roles, overflow the ring and fill the log; with two roles attached, one scope of the report may come from either, from both, or from one of several scopes of a role; three labels fill the wallet |
| `catalog_heavy` | the same with documents of weight 2 and room for 4 bytes | `Reloadable`, **violated** | section 5 |
| `shared_stores` | two writers of a catalog with one role, documents of weight 2, at most 3 operations; or the node, a reader and a writer with a sensitive and a public record, a ring of 2 and 3 requests | `TypeOK`, `KvTypeOK`, `FileIsValidLog`, `ChangesAreAccounted`, `CompactionShrinks`, `OnlyWritersChange` | the shortest overwriting needs two processes and two operations, and the log a process compacts may no longer be the file; three requests overflow the ring while proposals of two peers are under way, and every chain may be revoked between any two steps |
| `verifier` | one verifier (any stance), one administrator, one root, one revocable link, a TTL of 1, a clock of 3 | `TypeOK`, `RevocationBound`, `RetiredRootRefused` | fetched, stale, revoked and retired all fit in three ticks |
| `services` | a responder with four kinds of request, three command lines and three faults; or one replica, two devices, four grants | `TypeOK`, `VouchNamesRequester`, `IndependentlyRevocable`, `DirectAnswered`, `StopsWhenAsked` | three faults are an outage that forgets the subscription, one in the middle of an answer and an interrupt; restarts of the replica at every tick of its clock |
| `nodeauth_nonces` | a responder with two requests and a clock of two values | `NoncesFresh`, **violated** | section 5 |

What the properties say:

- `CompileFaithful`, `ScopesFaithful`: for each request (action, node, tags, time, use) the
  compiled capability or set of capabilities permits it iff the document grants it.
- `LeafDecides`: verification of a chain made by this library is decided by the summary `inspect`
  shows, plus the root, the start of the leaf and revocations. It needs the narrowing check to be
  transitive over every dimension.
- `EnrolledOpensEverything`: no interleaving of approval, redemption, revocation, wipe, recovery
  and crash leaves a device enrolled under a master that does not open what is stored.
- `AllowedAtOneInstant`: `verify_grant` reads two records; if it allows, both were there at one instant.
- `OperatorSurvives`: once `devices.json` names an admin, it never stops naming one; otherwise a
  restart would fail to load or reopen first-come `claim`.
- `AckedIsDurable`: at the moment an operation's persist succeeds, a restart would load the map.
- `OwnerNeverLockedOut`: again and again the owner is enrolled, and again and again `meta` names it as
  the owner: a `recover` that stopped between its two writes does not satisfy it.
- `EffectiveIsMint`: for a principal whose attached roles all compile, `effective_grants` has one group
  for each scope in which some role mints and none besides; the group names exactly the roles that mint
  in it, and its actions expand to exactly what they mint. Neither hidden nor added authority passes.
- `Reloadable`: what the store has written, the store opens. It is violated (section 5).
- `ImplementsDurableCatalog`: refinement, `content <- replay_content(file)`: on disk the
  catalog changes by one valid operation at a time. `CompactionKeepsState` adds that a compaction,
  which writes another log, is a stutter.
- `CompactionShrinks`: the log a compaction writes has no more operations and no more bytes than the
  one it replaces. A store limits bytes when it is opened, so a compaction that wrote more could not be loaded.
- `FileIsValidLog`: with two writers operations get lost (the store is documented as single-writer),
  yet every operation in the file is valid after those before it.
- `RevocationBound`: an allowed token has no link that was revoked before the verification began
  (live fetch), or more than the TTL before it (`--fail-closed` on the cached snapshot).
- `RetiredRootRefused`: a verification that starts after the retirement time of a root refuses its
  tokens unless the root was added again.
- `TrustIsEarned`: a subject is trusted exactly when enough providers signed that they verified it,
  however many copies, altered copies and expired attestations there are. It is for policies that
  name a provider once (section 5).
- `StoredUntilRemoved`: no `wallet` command that is killed or whose write fails loses or restores a
  token, while one command runs at a time.
- `VouchNamesRequester`: with an allow-list that covers no identity ability, an app accepts a vouch
  capability for the peer and the name it was signed for and no other.
- `DirectAnswered`: once the node stays up, every directed request that can be vouched for is
  answered, whatever was lost before. Gossip requests have no such promise (section 5).
- `StopsWhenAsked`: an interrupted responder stops, also when its node never comes back.
- `IndependentlyRevocable`: no two grants of the bridge share a nonce, over any number of restarts.
- `ChangesAreAccounted`: each write to a sensitive record is in the counters before it is applied,
  also while its proposal is pending or after it failed.
- `OnlyWritersChange`: a sensitive record changes only when a write lands that is the node's own, or that of a
  peer whose chain had `kv:write` and was not revoked when the write was accepted. A chain revoked while the
  proposal is awaited does not take the write back; a write accepted after the revocation never lands.

Each property is broken by a mutant of the code's definitions (`PROJECT.json`): for example a
snapshot stamped when it is written (`RefreshSaveStampingLate`), a temporary opened without
truncation (`OpenKeepingOld`), attenuation compared with the root (`AttenuateAgainstRoot`).

Deadlock is checked where the system always has something to do (the vault, the device store). The
other runs stop at a model bound (`MaxGrants`, `MaxOps`, `MaxRequests`, the clock, the size of a
document), or at a state that only waits, and say `CHECK_DEADLOCK FALSE`. Model bounds are named
constants: `MaxGrants`, `MaxLinks`, `MaxVersion`, `MaxLate`, `MaxTime`, `MaxRequests`, `MaxStatements`,
`MaxInbox`, `MaxFaults`, `MaxMicros`, `MaxMints`, `MaxHeld`, `LastSecond`.
`MaxNonce`, `MaxChainDepth`, `MaxOps`, `MaxBytes`, `MaxAudit`, `MaxRoots`, `MaxEvents`, `MaxEntries`,
`MaxBackoff` are limits of the code
at a small value. Symmetry is used for interchangeable devices, grants and audiences, in runs
of invariants only.

**Fairness** is assumed in two runs. In `vault_lockout` (`OwnerFairness`) the owner's device takes the
next step of an operation it is in (weak fairness of `Proceed`: an await on the store returns or fails).
The owner keeps running `recover`, and each of its two writes, the device record and `meta`, happens if it
is possible again and again (strong fairness of `recover`, `recover_enroll` and `recover_meta`): crashes
and failing store calls may hit any attempt, not every attempt. Nothing is assumed of the other devices,
of wipes or of revocations, which may follow each recovery at once: the property is that the owner
is enrolled, and named in `meta`, infinitely often, not forever.

In `services` (`Fairness` of `NodeAuth`) the runtime polls `run`: a step that stays possible is taken
(weak fairness of starting, subscribing, connecting, waiting, answering and noticing the end of the
stream). `tokio::select!` picks among its ready branches at random, so a branch that is ready again
and again, a message, a tick of the announcement, shutdown, is taken sooner or later (strong
fairness). The operator starts a stopped service again and a browser that got no answer asks again
whenever it can. Weak fairness of `connect` and `answer` also says that each call of the node's API
returns, with a result or with an error: the code gives these calls no time limit of its own, and a node
that accepts a call and never answers would hold the loop, shutdown included. Whether the node is up, and for
how long, is left open: `DirectAnswered` is for behaviours in which it stays up in the end. `MaxFaults` bounds how often things go wrong, not when: the two liveness
properties could not hold if crashes never ended.

## 4. What TLAPS proves

| theorem | for all constants | argument |
|---|---|---|
| `GrantInvariant`, `GrantTypeOK` | chains are well-formed and linked | `IInv` = `TypeOK` and `Chained`. `Chained` says each link is no broader than *every* link above, which is what makes the check against the leaf alone inductive; the step needs `NoBroader` transitive over links (`NoBroaderTransitive`) |
| `Attenuation`, `SummaryDecides` | `AttenuationNeverBroadens`, `LeafDecides` | from `Chained` and that a narrower scope permits less (`WindowNarrows`, `MatchNarrows`) |
| `CompileIsExact`, `ScopesAreExact`; `MintGivesWhatIsWritten`, `MintPolicyGivesWhatIsWritten`, `TyposAreRefused` | every document, action, node, set of self-tags, time and use; from them `CompileFaithful`, `ScopesFaithful`, `NoSilentTypo` for every library of statements | one scope means what the statements of its group mean (`ScopeExact`), dimension by dimension: actions (`ExpansionSpells`), resource (`ResourceExact`), conditions (`CaveatsExact`); and a document without a Deny means what its groups mean (`GrantsWithoutDeny`) |
| `ReportIsMint`, `EffectiveMinted` | any catalog; from it `EffectiveIsMint` | the report groups the statements of all attached roles as the compiler groups those of one: scopes and statements of several documents together are those of each (`ScopesOfMany`), and what a scope gathers expands to what each role mints in it (`ScopeExpands`) |
| `CatalogInvariant`, `CatalogTyped`, `FileStaysValid`, `RolesStayAttached`, `AuditStaysRecent` | any number of processes, roles, documents, crashes; from it `TypeOK`, `FileIsValidLog`, `AttachedRolesExist`, `AuditIsRecent` | `CatalogInv`: every log, on disk, in a process or in a temporary, is valid and within `MaxOps`, and a live catalog is what its log replays to. The file alone would not be inductive: what is renamed over it was validated against the log of a process, which another process may have overwritten on disk |
| `SoleWriterMemoryIsDisk`, `SoleWriterCompactionKeepsState`, `SoleWriterImplementsDurableCatalog` | `Processes = {w}`: `MemoryIsDisk`, `CompactionKeepsState` and the refinement of `DurableCatalog` | `SoleWriterInv`: the log of the running process is the file. The initial state maps to the empty catalog; `apply_commit` maps to one valid operation (`ReplayAppend`, `ContentReplayed`), `compact_commit` and the rest to a stutter |
| `CompactionNeverGrows` | `CompactionShrinks`, any number of processes | what a catalog holds, its log's operations brought (`AdditionsLogged`), and a snapshot has each of these operations once (`SnapshotShape`); operations of a log taken once each weigh no more than the log (`DistinctWeighLess`) |
| `SoleCommandStored` | `Shells = {s}`: `StoredUntilRemoved` | `WalletInv(s)`: what a command opened is what is stored, and the copy it saves differs from it at the command's own label only |
| `TrustStaysEarned` | `TrustIsEarned`, for policies that name each provider once | the score is the weight times the number of providers with a qualifying attestation (`ScoreCountsProviders`), and an attestation qualifies exactly when its provider signed what it says (`QualifyingIsBacking`) |
| `NodeAuthTyped`, `VouchesNameTheirRequester` | `TypeOK`, `VouchNamesRequester` | `VouchInv`: the capability under way is what the request it answers is vouched for |
| `NoncesFreshWhenStartsAhead` | `NoncesFresh`, in behaviours of which each step satisfies `StartsAhead` | `NonceInv`: the nonce of a running service is above every one drawn. `StartsAhead` (a start reads a clock that has passed every nonce drawn before) is what seeding with whole seconds leaves to chance: `nodeauth_nonces` shows a start that does not, in the second of a crash. When a crash comes does not matter, only when the next start reads the clock |
| `VaultTypeOK` | `TypeOK`, with what each operation has in hand | inductive as it stands |
| `VerificationAtomic` | `AllowedAtOneInstant` | `GrantInv`: a verification is about a grant that was handed out, and an id is never drawn twice, so a grant that is gone does not come back |
| `SingleOwnerOneMaster` | `EnrolledOpensEverything` when `Owners \subseteq {o}` | `OneMaster(o)`: every master wrapped, sealed, or in some operation's hand is `o`'s |
| `DeviceTypeOK`, `LastAdminKept`, `AdminKeyKept` | any number of threads | the type invariant and the operations one by one; a second admin exists when the cardinality exceeds one |
| `SoleCallerKeepsOperator`, `SoleCallerDurable` | `Threads = {t0}` | `SoleInv`: the snapshot being written is the current map, the temporary and the file are different inodes, and the map has an admin whenever the file has |
| `SoleAdminRetirementHolds` | `RetiredRootRefused` when `Admins = {a}` | `RetireInv(a)`: a retirement that is remembered is in the file, the one command under way differs from the file at its own key only, and once a verification has seen a retirement replaced no command under way can restore it, since a later `retire` computes a later time |
| `AuthKvTypeOK`, `EveryChangeAccounted`, `OnlyAdmittedWritesLand` | any number of peers, keys, requests | each is inductive over the type invariant; the last with `Admitted`: a write under way is the node's, or its peer held `kv:write` and was not revoked when it was accepted |
| `SoleBridgeNoncesDistinct` | `IndependentlyRevocable` when `Replicas = {r}` | `Ahead`: the counter of the running replica is above every nonce drawn and not ahead of the clock, so the seed of the next start is above them too. It needs that signing takes a microsecond |
| `VerifierTypeOK`, `RevocationIsBounded` | any number of verifiers, administrators, links | `IInv`: every snapshot, on disk or in a process, has all revocations mined before its stamp. That is why a verifier may overwrite a newer snapshot by its older one and still be within the bound: the older one has the older stamp |

The proofs rest on the named assumptions of the modules (`PolicyAssumption`, `DocumentAssumption`,
`GrantAssumption`, `PoliciesAssumption`, `CatalogAssumption`, `CatalogStoreAssumption`, `VaultAssumption`,
`DeviceStoreAssumption`, `RootsAssumption`, `VerifierAssumption`, `AuthKvAssumption`, `BridgeAssumption`,
`NodeAuthAssumption`, `TrustAssumption`), which TLC
evaluates in the runs; they say that absent values are different from present ones, that bounds are
numbers and that documents are finite. The
assumptions in theorems (`Owners \subseteq {o}`, `Threads = {t0}`, `Admins = {a}`, `Replicas = {r}`,
`Processes = {w}`, `Shells = {s}`, policies that name each provider once,
starts that find the clock ahead) are needed: without them the properties are false (sections 3 and 5).

How the log is proved about. `replay` and `bytes` are recursive functions, defined by `CHOOSE`; that such
a function exists at all is shown by building it step by step (`Iteration`), and that it is unique up to
the point that matters by `StepwiseEqual`. What holds of every log is then proved by induction over its
operations (`SeqInduction`). The predicate of an induction is a set of sequences, so that no operator is
a parameter, and the induction itself rests on the least element of a set of numbers. The central fact is
that a snapshot, whose order is left open, replays to the catalog it was taken of: every operation in it
is the only one for its role, policy or attachment, so the order among them does not matter to the
result (`ReplayRestores`). That roles come before the attachments that name them makes each operation
valid where it stands (`SnapshotRebuilds`).

The vault's theorems hold with late writes: `OneMaster` and `GrantInv` also speak of every write in
`late`, and a step of an operation and its late write change the store alike (`LateOne`, `OneGoto`).

Model-checked only: liveness (`OwnerNeverLockedOut`, `DirectAnswered`, `StopsWhenAsked`), which is beyond
TLAPS because fairness speaks of `ENABLED`. Every other property that a passing run checks is stated
by a theorem.

## 5. Where the code and its documentation part

Four runs show a disagreement (findings in `PROJECT.json`).

- `vault_tokens`: a one-time token is read, used and deleted in three store calls; two devices may
  redeem it before either deletes it.
- `device_threads`: `persist` writes outside the lock through one temporary name. A second
  thread truncates the temporary that the first is about to rename, and `devices.json` is empty or
  torn until the second has written it.
- `nodeauth_nonces`: the responder's nonce counter starts at the clock in whole seconds and counts
  capabilities, so after more capabilities than seconds a restart repeats nonces, and revoking one
  capability revokes another. The bridge seeds with microseconds and is not exposed to it.
- `catalog_heavy`: the catalog store limits a log by its operations when it writes (100,000) and by its
  bytes when it reads (64 MiB). Operations that average more than 671 bytes exceed the second limit first; the
  store then writes a log that no later `open` accepts. Only the process that wrote it could still compact; each
  command is a process of its own and opens the store first, `role compact` included.

Others were seen while the model was written. They follow from the definitions as they stand, and
no run is spent on them:

- `init` tests for `meta` and writes it in separate store calls, after it enrolled: two devices that run it at once
  leave two masters in use. Runs and theorem take one owner.
- `store_secret` reads a version and writes its successor in separate calls: two rotations at once
  write the same version.
- An approval or a redemption that was under way when a device was revoked enrols it again when it
  completes.
- `attenuate` extends a chain beyond the depth `guarded_decode` accepts, although it promises that "a caller never
  produces a chain that the verifier will later reject".
- `effective_grants` is documented to report "a role whose policy is empty or multi-scope" through `Err`
  (`catalog.rs:359-361`). The code returns one group for each scope of a multi-scope policy and nothing for an
  empty one; an error is returned for a missing role and for an Allow without actions only. Model and
  `EffectiveIsMint` follow the code.
- `effective_grants` skips Deny statements and does not expand wildcards, so it also reports roles that `mint`
  refuses: a document with a Deny, or a wildcard that matches nothing. `EffectiveIsMint` is for roles that compile.
- Two `root` commands at once: the later save undoes a retirement the earlier one reported.
- A slow verifier replaces a newer cache by an older one (harmless for the bound, as proved), and
  `refresh` that fails to write the cache has replaced the snapshot in memory, while its comment
  says the previous one is kept.
- The kv server asks for `kv:write` of every write, whatever its key. `authkv.rs:24-27`, `:32-34` and `:59-61` say
  that only sensitive records are gated and that a new device writes its pairing request without a capability;
  with enforcement on that request is denied. `OnlyWritersChange` is about sensitive records, where code and
  documentation agree.
- The kv server records a denied list and not an allowed one; and a list prefix shorter than `s.` is not
  treated as sensitive.
- Replicas of the bridge that share `CE_AUTH_CAP_ROOT_SEED` each count from their own start. A replica
  that signed for long can reach a nonce another one was seeded with.
- `run` subscribes to its gossip topic once, before the loop. If the node forgets subscriptions when it
  restarts, gossip requests reach a reconnected responder no more; directed ones do.
- `grantable` says identity abilities are never passed to it; a request may list them, and with no
  allow-list they are granted.
- The kv client remembers the fallback host when discovery fails once, and does not look again.
- `TrustPolicy::trust` may be called twice with one key; the provider then counts twice, while `score`
  says at most once.
- The wallet, the roots and the catalog are bounded in entries when they are written and in bytes when they are
  read. Two `wallet` commands at once lose one of the two changes.

## 6. Not modelled, and what comes next

Not modelled: how the kv client finds and remembers its host, and how it decodes replies;
`sign_challenge` and `verify_auth` of the vault, which change nothing; a clock that is set back, with
which neither the TTL of the revocation cache nor the nonces of the bridge promise anything; the
network between `Vault` and `AuthKv` as one composition (the vault's channel has `AuthKv`'s late
requests, without its gate). Left out for good: argument parsing, printing, identity files, hex
parsing, error texts.

Next:

1. `Vault` over `AuthKv`, with requests that the gate denies.
2. An abstract specification of the verifier and of the vault's grants, with the refinement proved.
