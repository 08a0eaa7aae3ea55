# TLA+ models and proofs of Nacre

Nacre keeps an organization's documents and answers permission-filtered
searches over them. A document lives in three stores at once (its row in
Postgres, its points in Qdrant and, optionally, its bytes in object storage), and
API requests, worker processes and periodic sweeps change them concurrently
without a distributed transaction. This directory holds TLA+ modules translated
from the code under `src/`, the TLC configurations that check them on small
instances, and TLAPS proofs of the properties that matter most.

Module names, bounds and properties below refer to the files of this directory;
paths beginning with `packages/` are relative to the repository.

## The system's parts

| Part | State it keeps | Operations | Hard behaviour | What makes it correct |
|---|---|---|---|---|
| Document ingest, delete, retry, retag (`packages/api/src/adapters.ts`) | `documents` row; points; bytes in the bucket | `NacreIngest.queue`, `remove`; `PostgresDocuments.retry`, `updateMetadata` | a transaction that also writes to Qdrant; upsert over a row a worker is indexing | a delete is final for searches; what is indexed is the last content accepted; row and payload agree |
| Indexing pass, claim, retry, reaper (`packages/worker/src/claim.ts`, `ingest.ts`, `retry.ts`, `reap.ts`, `adapters.ts`) | `status`, `claimed_at`, `attempts`, `chunks`; points | `claimNext`, `ingest`, `upsert`/`write`, `recordFailure`, `claimStranded` | leases that lapse under a slow worker; a crash at any step; points written before the row commits | the fence stops stale passes; attempts are bounded; the queue drains |
| Collector (`packages/worker/src/collect.ts`) | `vectors_purged_at`, `sweep_claimed_at` | `claimPurgeable`, `stillDeleted`, `purge`, `removeObject`, `markPurged` | four calls, no lock, racing re-ingest | purged means gone; deleted is eventually collected |
| Permission resolver (`packages/core/authz`) | grants, groups, scope tree, principals cache | `resolve`, `buildFilter`, `referenceAllows` | two implementations of one rule; a cache keyed by a version | deny beats allow; filter admits exactly what the reference allows |
| Administration: layers, workspaces, grants, principals (`packages/api/src/adapters.ts`, `principals.ts`, `admin-writes.ts`) | `layers`, `workspaces`, `grants`, `users`, `groups` | create, rename, delete, grant, revoke | a layer deleted under an ingest; the last administrator | no organization without an administrator |
| Embedding-model migration and rebuild (`packages/worker/src/main.ts`, `adapters.ts`, `reindex.ts`, `recall.ts`, `retire.ts`; `packages/core/rebuild.ts`) | `reindex_state`, copy lease and token, collection pointer, `retired_collections`, markers on documents | start, create a layer, copy, repair, embed, score, switch, retire, reclaim; rebuild | hours-long steps under leases; a crash between finish and repair; ingest, delete and purge during the copy | what is indexed is found, what is deleted stays deleted, the live collection has the slots it is searched by |
| Search, hydration, rerank (`packages/core/vector`, `packages/api/src/rerank.ts`) | none of its own | query, hydrate, rerank | reads two stores at different moments | only live chunks the caller may read |
| Sign-in, refresh tokens, password changes (`packages/api/src/login.ts`, `principals.ts`) | `users` row, `refresh_tokens` in families, an advisory lock per family | login, second half of a sign-in, refresh, logout, change and reset of the password, disable, prune | one token presented by several calls; a family ended under a rotation; a change of password under a sign-in | one live token per family; an ended family stays ended; a change ends the sessions before it |
| Second factors, recovery codes, reset links (`packages/api/src/second-factor.ts`, `recovery.ts`) | factors with their failures and lock, codes, challenges, links | enrol, confirm, verify, remove; ask for and redeem a link | two requests with one proof; enrolment and removal at once | a proof counts once; guesses are bounded; codes follow factors |
| OAuth connections (`packages/api/src/oauth-store.ts`, token endpoint in `server.ts`) | consents, authorization codes, refresh tokens in families | approve, redeem, rotate, issue, revoke | a token renewed twice, revoked under an exchange, deadlock | a family has one heir; a revoked connection gains nothing |
| Idempotency keys (`packages/api/src/idempotency.ts`) | reservations and answers in Redis | reserve, complete, replay, release | two requests with one key; Redis away | one execution per key while the reservation lasts |
| Rate limits (`packages/api/src/limits.ts`, `packages/core/redis.ts`) | counters in Redis | count, refuse | a window boundary; Redis down | |
| Proposals of administrative changes (`packages/api/src/proposals.ts`, expiry in the worker) | `admin_proposals` | propose, apply, cancel, expire, prune | panel, console, worker and revocation decide one at once; a crash while applying | run at most once, and the record tells; none waits forever |
| Alert rules and notifications (`packages/api/src/notifications.ts`, `packages/worker/src/notify.ts`) | `alert_rules` with a mark, `notifications` | queue, evaluate, claim, send, retry, expire | an event that commits late; a pass that dies or outlives its claim | nothing missed, nobody told twice, thirty an hour |
| Service keys, skills, audit, uploads (`packages/api/src/service-keys.ts`, `skills.ts`, `audit-export.ts`, `uploads.ts`) | rows of their own | create, revoke, publish a version, append, export | a version written over one not read (a unique key refuses it) | |
| Database client, migrations, provisioning (`packages/core/db`) | schema version | `withOrg`, migrate, provision | | |
| MCP servers, SDK, CLI, admin UI (`packages/mcp`, `sdk`, `cli`, `admin`) | none that outlives a request | translate calls to the API | | |
| Parser and embedding services (`services/`) | none | parse, embed | may fail, may be slow | |

The API and the worker never call each other. They meet in Postgres rows: the API
puts a document in `pending` and the worker's loop claims it. Both call Qdrant, and
both hold a row lock while they do; the collector holds none. Everything a worker
does is under a lease (`claimed_at`) that another process may take back. Requests of
the API meet each other in row locks, in unique keys and in two advisory locks, one
per organization and one per family of refresh tokens.

## Modules

| Module | What it is |
|---|---|
| `DocumentIndex` | the abstract specification: what a search may find of a document, after which requests |
| `DocumentLifecycle` | one document across row, points and bytes; requests, passes, reaper, collector; INSTANCE of `DocumentIndex` |
| `DocumentLifecycleProofs` | types, every safety property of `DocumentLifecycle` that holds, and that it implements `DocumentIndex` |
| `ModelMigration` | layers moved onto another embedding model, and the rebuild of a collection, beside ingest, delete and purge |
| `ModelMigrationProofs` | types, and every property of `ModelMigration` that holds |
| `Permissions` | the permission rules twice: document by document (`ReferenceAllows`) and as the filter of a search (`Resolve`, `Admits`) |
| `GroupGraph` | who is in which group, directly or through groups |
| `AccessControl` | requests that evaluate permissions while they change; EXTENDS `Permissions`, uses `GroupGraph` |
| `AccessControlProofs` | types, filter equals rules, cache, authority of a request |
| `EffectivePrincipalsWalk`, `EffectivePrincipalsProofs` | the walk over the membership graph, and that it returns what `GroupGraph` defines |
| `Sessions`, `SessionsProofs` | one account's refresh tokens, sign-ins and password changes; five theorems |
| `Accounts`, `AccountsProofs` | the administrators of an organization, and one person's second factors, recovery codes and reset links; six theorems |
| `Connections` | OAuth connections: consents, codes, refresh tokens, revocation |
| `AdminProposals` | proposals on those connections; EXTENDS `Connections`, and a revocation is one transaction over both |
| `AdminProposalsProofs` | types, `RunsOnce`, and of the connections `OneHeir` and `RevokedOnlyWanes` |
| `Notifications`, `NotificationsProofs` | alert rules and the outbox of one organization; three theorems |
| `MC...` | symmetry sets, constraints and the small organizations that the configurations use |

`PROJECT.json` maps every definition that stands for code to its lines. An operator
whose comment says "Mutant of" changes one definition the way a bug would; each
property has one under which TLC finds it violated.

### DocumentLifecycle

`row[d]` is the committed `documents` row with its chunks, `points[d]` the Qdrant
points that name the document, `object[d]` the bytes at its key, `lock[d]` the
transaction that holds the row lock. `worker`, `client` and `collector` hold what
each process has read and where it is. A Postgres transaction that also calls
Qdrant is split at those calls; the row change shows at its commit. A single
statement is one step.

* Requests: `Send`, `SendCommit` (`NacreIngest.queue`: bytes, then the upsert with
  its decision to requeue), `Remove`, `RemoveCommit` (flag the points, then the
  row), `Lookup`, `UpdateMetadata`, `UpdateMetadataCommit`, `Retry`, and the ways
  a request fails (`Abort`, `Rollback`).
* Passes: `Claim`, `Parse`, `Find`, `Upsert` (takes the row lock and checks the
  claim), `UpsertPoints`, `Sweep`, `Commit`, `Throw`, `RecordFailure`, `Crash`;
  `Reap` is the reaper.
* Collector: `CollectClaim`, `StillDeleted`, `Purge`, `RemoveObject`,
  `MarkPurged`, `CollectFail`.

Time is abstracted: a lease may be found lapsed, and a backoff or grace period
over, at any moment. A content stands for its own hash, and one point stands for
all the points of a pass. `history` is read by properties only.

`DocumentIndex` is what all this promises the callers: a request is accepted at once,
its content is published later, until then the document answers with what it held or
with nothing, and after a delete with nothing until it was sent again. The mapping
takes `wanted` from the row (the source it names, None when deleted) and `answer`
from what a search returns: the unflagged points, joined to the chunks of a row that
is not deleted. With the bytes in a bucket a row names a key, whose content is read when
the document is indexed, so that part of the promise is worth most in the instance
whose rows hold their content, which is the one the refinement is checked on.

### ModelMigration

`coll` holds the collections by name, each with its slots and points (a point knows
which slots it has a vector in), `live` is the organization's pointer, `retired` the
names on record for the sweep, `layer[l]` the layer's row with its `reindex_state`,
`doc[d]` the row with the columns the migration reads, and `replica[w]` what a worker
process is doing with what it read at its claim.

* The operator: `StartRead`/`StartWrite` (`PostgresReindex.start` decides, then writes),
  `CreateRead` (a layer on a model without a slot), `SetReferences`.
* The copy: `CopyClaim` (lease and token), `CopyCreate`, `CopyPage` (no snapshot),
  `CopyAbandon`, `CopyFinish` (pointer, record and phases in one transaction),
  `Repair`, `ReTombstone`, `CopyThrow`.
* Embedding: `EmbedClaim`, `EmbedAdd`, `EmbedCompare` and `EmbedMark` (`markReindexed`:
  one UPDATE, whose subquery over `chunks` is of the moment it began and whose write
  waits for the document's row), `EmbedFail`, `RecordPass`, `PendingSwitch`, `Switch`;
  the gate: `RecallBegin`, `RecallRecord`, `RecallFail`.
* Sweeps: `RetireDue`/`RetireDrop`/`RetireForget` for collections,
  `ReclaimDue`/`ReclaimDrop`/`ReclaimForget` for slots.
* The rebuild (`rebuildOrganizationIndex`): `RebuildRead`, `RebuildDrop`,
  `RebuildCreate`, `RebuildRequeue`; one that died (`RebuildDies`) is run again.
* Beside them: `Send` (any document, a deleted one too, which it brings back),
  `SendUnchanged` (the same content: only `updated_at` moves, to when the request's
  transaction began), `Delete`, the indexing pass as claim, points and commit, the
  reaper, and the collector as `CollectClaim`, `CollectSkip`, `CollectPurge` and
  `CollectMark`, each as far as the migration can tell it apart.

`missed`, `overrun`, `overlap` and `drift` record that one of the cases listed under
Findings has happened; the four properties except those by name. `drift` is of one
document, is set by the write that came of a stale read and is cleared by the next pass,
delete or purge of it that goes well; `resent` only says whether a document came back between a
collector's purge and its mark, for `drift` to be set by. The `migration` run stops
exploring after one of the first three (`Explored`); the proofs have no such constraint,
so these are the only ways a property of this module can fail, in any instance.

### AccessControl and Permissions

A request (`contextFor` and the services that call it) reads `groups_version`
(`Begin`), the caller's principals from the cache (`CacheHit`) or from the graph
(`CacheMiss`, `LoadGraph`, `CacheSet`), the grants (`LoadGrants`) and the part of
the tree those grants name (`LoadTree`), one statement after another, and then
acts: `Search`, `IssueCheck` and `Issue`, `Revoke`, `CreateLayer`, `RemoveLayer`.
Memberships, groups and grants change between any two of these (`AddMember`,
`RemoveMember`, `RemoveGroup`, `ExtensionGrant`), each moving `version`.
`past` remembers members and grants by version, for the properties.

`Permissions` holds the two implementations of the rules the repository has: the
reference that decides one scope, and the resolver whose plan becomes the filter
of a search. Deny beats allow, a grant on an outer scope reaches inward, and a
permission includes the weaker ones.

### Sessions

`token[t]` is a row of `refresh_tokens`, `lock[f]` the advisory lock of a family,
`user` the account's row, `call[c]` one request with what it has read. `Login`,
`Rehash`, `Challenge`, `CompleteSecondFactor` and `LoginIssue` are a sign-in;
`Refresh`, `Claim`, `Lose`, `ReadUser` and `RefreshIssue` a rotation, which is one
transaction from `Claim` to the commit; `RevokeBegin` and `RevokeCommit` are
`revokeFamily`; `ChangePassword`, `ResetPassword`, `UpdateTokens` and
`UpdateCommit` a change of password; `SetDisabled`, `Prune` and `Crash` the rest.
An UPDATE of several rows is two steps: what it found when it started, and its
commit once no other transaction holds one of those rows. That is READ COMMITTED,
and it is why a row inserted meanwhile escapes it. An account is one row and its
tokens, so one account is enough. A shared account is refused a change before
anything is read, and `redeem` of a reset link is in `Accounts`. A platform
administrator, whom `onTargetUser` refuses to reset or disable, is not the account
modelled.

### Accounts

Three parts share the requests `call[k]` and the person `Owner`. `UpdateRead` and
`UpdateWrite` are `PATCH /v1/users/<id>`: the organization's advisory lock, the row,
the count of the other administrators, and the write that gives the lock back at
commit. `Begin`, `ConfirmRead`, `RegisterRead` and `ConfirmCommit` enrol a factor and
mint recovery codes when none are left; `VerifyTotp`, `VerifyAssertion` and
`VerifyRecovery` accept a proof, for a sign-in or for the removal of a factor
(`RemoveDelete`, `RemoveCommit`). `AskRead`, `AskMark`, `AskCommit`, `RedeemRead` and
`RedeemSpend` are the reset links; the UPDATE that ends the older ones is two steps as
in `Sessions`: it finds the live links there are when it starts (`AskRead`), waits for
their rows and marks those that are still unused (`AskMark`), and a link that another
request inserts meanwhile is not among them. A transaction is split where another can run
between its statements; `by` is the transaction that holds a row. The clock counts
TOTP steps; a challenge, a link or a lock runs out at any moment. Whether a code or a
signature is right is an input. `Older`, `Compared` and the like name the rows a
statement finds.

### Connections and AdminProposals

`Record` and `Approve` are the consent page, `Redeem` the exchange of a code,
`RotateRead`, `RotateReplay`, `RotateSpend` and `Issue` a renewal (spent and issued in
two transactions, as in the token endpoint), `RevokeMark`, `RevokeTokens` and
`RevokeCommit` a revocation. A renewal locks its token and then the consent, a
revocation the other way round; `ExchangeLost` and `RevokeLost` are the crash and the
rollback of a deadlock. `ChangeUser` and `RevokeKey` suspend what a connection acts
as. `AdminProposals` adds `ProposeStart`, `CreateCount` and `CreateInsert` (count and
insert are two statements), `Claim`, `RunTool` and `Settle` (an apply is claimed, run
and recorded), `Cancel`, the worker's `ExpireProposals` and `PruneProposal`, and makes
`EndTokens`, `EndCommit` and `EndLost` of the revocation also hold, cancel or release
the open proposals of the connection.

### Notifications

`EventStart` and `EventCommit` are the transaction behind an event, which carries the
time it began and may stay open for any time: `Tick` notes when it has been open for
`SETTLE` (`"long"`), and its event is then `"late"` when it commits, not `"there"`;
`Enqueue` and `EnqueueCommit` a message of an agent. A worker's pass is
`EvaluateRead` and `EvaluateCommit` (rules due, events found up to the horizon,
messages under the organization's lock and the hour's bound, marks moved),
`SendClaim`, `Send` for each person, `Finish`, and `Expire`. `PassLost` ends it
anywhere. Time is in ticks, `Grain` to a millisecond, because marks lose what is below
one; the ages of a message are flags that time sets.

## Runs

| Run | Checks | Instance |
|---|---|---|
| `lifecycle` | `TombstoneHolds`, `IndexedAnswers`, `IndexedIsLatest`, `ImplementsIndex` | 2 passes, 1 request at a time, 1 collector, 2 texts, 1 URL, 3 requests |
| `lifecycle_bucket` | `TypeOK`, `SourceAvailable`, `PurgedIsGone`, `MetadataAgrees`, `TriesBounded` | bytes in a bucket, 2 requests at once, 1 pass, 2 metadata objects, a text and a URL, 4 requests |
| `lifecycle_live` | `QueueDrains`, `DeletedIsCollected` | 1 of each process, 2 texts of which 1 has no chunks, 3 requests, with fairness |
| `purge_race` | `IndexedAlwaysAnswers`, violated | see Findings |
| `migration` | `IndexedIsFound`, `DeletedStaysDeleted`, `LiveHasSlots`, `SupersededIsOnRecord` | 1 document, 2 layers of which 1 is created later, 2 models, 2 replicas, up to 2 migrations or rebuilds, 3 sends, deletes or reference sets and 1 fault, 3 of all these together |
| `access` | `TypeOK`, `CacheFresh`, `RequestAuthorized` | 2 requests, 1 user, 1 group that administers, 2 changes |
| `access_rules` | `PlanMatchesRules` | nested groups, 2 layers, 2 documents, 3 grants or changes of any kind |
| `principals` | `WalkExact`, `Terminates` | every graph on a user and 3 groups |
| `sessions` | `TypeOK`, `OneLive`, `FamilyEnds`, `SessionsEnd`, `DisabledStops` | 2 calls, 3 tokens, 1 change of password, a weak hash |
| `proposals` | `TypeOK`, `OneHeir`, `RunsOnce`, `RevokedOnlyWanes`, `ProposalsEnd` | 1 connection, 1 code, 2 tokens, 2 exchanges and 1 revocation at once, 1 proposal, 2 calls, with fairness |
| `accounts` | `TypeOK`, `Administered`, `ProofOnce`, `GuessesBounded`, `CodesFollowFactors`, `AskingAgainInvalidates` | 2 people, 1 authenticator, 1 security key, 2 challenges, 2 codes minted 1 at a time, 3 links, 2 requests at once of 6, locked after 2 failures |
| `notifications` | `HourlyBound`, `NothingMissed`, `NobodyTwice` | 2 people, 2 messages, 1 rule, 1 event, 1 worker with a relay and 1 without, 1 request, 1 an hour, 1 fault |

`ModelMigration` and `Notifications` have a type invariant too; their runs leave it
out, since it is what the others rest on and costs as much. That of `ModelMigration`
is proved, and `RowInv` holds what the proofs need of the other.

Why these bounds are enough to meet the hard cases:

* Documents share no state (the collection is shared, the points are not), so one
  is modelled. Two passes are what a lapsed lease needs: the one that lost the
  claim and the one that has it. Three or four requests reach send, delete, send
  again with a pass or a collector left over from before, and `MaxAttempts = 2`
  separates the last attempt from the one before it. Ten leases are more than the
  requests and attempts can use.
* For permissions, a revocation needs a state before and a state after it, hence
  two changes; the second request is the one whose cache entry is read. The rules
  meet at most a grant, a deny and a membership at a time, hence three changes.
* For sessions, two calls are a rotation and what interferes with it, and three
  tokens are a sign-in, its successor and the one that must not exist.
* A migration meets its hard cases with two replicas (the one that lost the lease and
  the one that has it), two models (there and back), and a layer created on the way;
  two migrations are one that fails or finishes and the next over what it left. Three
  events in all are a delete, the send that brings the document back and a second
  delete; the first two of them under a migration; a request and a fault under one; or
  two migrations with a request or a fault. One fault is a crash, an error or a lapsed
  lease, anywhere. What only a third migration
  shows is a mark for a migration that is over (Findings), and the proofs are for any
  number.
* For a connection, one code and two tokens are a family with a successor; two
  exchanges are a renewal and its replay, with a revocation beside them. Tokens are
  taken in order, so an identity says nothing and one connection is enough.
* For accounts, two requests at once are every pair of races on a row; six requests
  enrol two factors, prove, remove and ask again. Three links are an old one and the
  two that are asked for at once over it. A bound of two failures separates
  the last guess from the one before it.
* For notifications, a bound of one an hour is met by the second message; two ticks
  let an event begin before a look at its rule and commit after it, within the
  settling time or past it.

The proofs lift the results they cover to every size.

Fairness is used in three places. In `lifecycle_live` the worker's loop is weakly
fair in claiming, in each step of a pass and in recording a failure, the reaper
is weakly fair, and a request ends: the loop in `packages/worker/src/main.ts` runs
them in turn for as long as the process lives, and a crash (always allowed) only
ends a pass. The collector's steps are strongly fair: a store that refuses a call
sends the target back to be claimed again at the next sweep, and the assumption is
that a store asked for ever answers at some time. In `proposals` time passes
(`RunsOut`), a revocation's transaction ends one way or the other, and the worker's
expiry pass is strongly fair: its statement skips a row that a revocation holds at
that moment, the loop runs it again every round, and no revocation holds the row at
every round. That a call under way ends is not assumed; the expiry is what ends its
proposal. The walk is sequential code and weakly fair. No fairness is assumed of
clients starting requests, of crashes or of a lease lapsing. Deadlock is not checked:
with every request made and every document at rest, the system may stop.

## Proofs

All proofs are for arbitrary constants within the named assumptions
(`ConstantsAssumption`, `MigrationAssumption`, `ScopesAssumption`, `AccessAssumption`,
`WalkAssumption`, `SessionsAssumption`, `AccountsAssumption`, `ConnectionsAssumption`,
`ProposalsAssumption`, `NotificationsAssumption`, `NoneIsNoRow`): that sets of
different things are disjoint (the absent value is none of them), bounds are naturals (positive where the code's are), the
tree is a tree, and that there are finitely many rows where a property counts them.
Requests, workers, replicas, passes and collectors may be infinitely many except where
they are counted (the exchanges in `RevokedOnlyWanes`). TLC evaluates each assumption in
a run.

| Theorem | States | Inductive invariant and argument |
|---|---|---|
| `DocumentLifecycleProofs!TypeCorrect` | `[]TypeOK` | `TypeInv`: types, and that a busy process names a document and a lease |
| `DocumentLifecycleProofs!DeleteHolds` | `[]TombstoneHolds` | `DeleteInv` adds `LockInv`: who writes points holds the row lock over a row that is not deleted, and a delete that holds the lock has flagged what there is |
| `DocumentLifecycleProofs!LatestIndexed` | `[]IndexedIsLatest` | `LatestInv` adds `FenceInv` (who writes has the row's claim, and no two passes share one), `SourceInv` (who has the row's claim read the row's source) and `PointsInv` (a pass's points carry its text) |
| `DocumentLifecycleProofs!TriesAreBounded` | `[]TriesBounded` | `TriesInv`: the tries of a request are at most the attempts of its row, and a row that can be claimed has an attempt left |
| `DocumentLifecycleProofs!PurgedHolds` | `[]PurgedIsGone` | `CollectInv`: while no send raced it, a document stays deleted, and once purged without points, under a collector past its check |
| `DocumentLifecycleProofs!SourceHolds` | `[]SourceAvailable` | `ObjectInv`: a send that overlaps a collector past its check is on record (`raced`); otherwise the bytes that a send has stored, or that a row names, are there |
| `DocumentLifecycleProofs!IndexedFound` | `[]IndexedAnswers` | `AnswerInv`: the points a pass has written are there when it commits, and those of an indexed row are there to be found |
| `DocumentLifecycleProofs!MetadataHolds` | `[]MetadataAgrees` | `MetaInv`: the metadata a pass read is the row's while it has the claim, unless the row was retagged, and the points carry it |
| `DocumentLifecycleProofs!Refinement` | `ImplementsIndex` | `ChunkInv` (the points a pass is writing are not yet the row's chunks, so a search does not see them) over the invariants above; then one lemma per action, which maps it to a step of `DocumentIndex` or to a stutter |
| `ModelMigrationProofs!MigrationTypes` | `[]TypeOK` | `TypeInv`: types, that what a replica works on matches its place in the work, and that a migration under way has a slot |
| `ModelMigrationProofs!SupersededRecorded` | `[]SupersededIsOnRecord` | `RecordInv`: a copy whose claim still holds is a copy of the live collection, so the pointer only grows; what is on record or being swept lies before it; and while neither exception has happened, no layer is copied during a rebuild, a rebuild is of the live collection and what was forgotten is gone |
| `ModelMigrationProofs!LiveCollectionHasSlots` | `[]LiveHasSlots` | `SlotInv`: one copy at a time (`OneCopy`); the slots a layer is searched by, has decided to start onto or is filled into are those of the live collection (`SearchSlots`, `StartSlot`, `FillSlot`), a copy has them (`CopyHasSlots`) and so has what a rebuild makes (`RebuildSlots`, `Rebuilt`) |
| `ModelMigrationProofs!ReportedDocumentsAreFound`, `DeletedDocumentsStayHidden` | `[]IndexedIsFound`, `[]DeletedStaysDeleted` | `PointInv` over the three above; see below |
| `AccessControlProofs!FilterMatchesReference`, `FilterExact` | `[]PlanMatchesRules` | a lemma on `Permissions`, for all grants and trees; then the loaded part of the tree is shown to decide like the whole |
| `AccessControlProofs!TypeCorrect`, `CacheIsFresh`, `RevocationHolds` | `[]TypeOK`, `[]CacheFresh`, `[]RequestAuthorized` | `AuthInv`: `past[version]` is the present, and each request's principals and grants are those of versions in order between its start and now |
| `EffectivePrincipalsProofs!ReturnsReachable` | `[]WalkExact` | `WalkInv`: visited is reachable and closed up to the frontier |
| `SessionsProofs!TypeCorrect`, `OneSuccessor`, `EndedStaysEnded` | `[]TypeOK`, `[]OneLive`, `[]FamilyEnds` | `FamilyInv`: between lock and commit a call holds its family's lock (`LockInv`), the token it claimed stays live (`ClaimInv`), and a revocation has found all that is left of its family and nothing else (`RevokeInv`) |
| `SessionsProofs!ChangeEndsSessions` | `[]SessionsEnd` | `ChangeInv`: only the first hash can be restored, and what a sign-in verified is the latest password or a change overlapped it |
| `SessionsProofs!DisabledMintsNothing` | `DisabledStops` | `EnabledInv`: who is past the second look at the account found it enabled |
| `AccountsProofs!AlwaysAdministered` | `[]Administered` | `AdminInv`: who is between its count and its write holds the organization's lock (`LockInv`), and what it is about to write leaves an administrator (`PendingInv`); every other step is shown to be `Quiet`, touching neither people nor lock |
| `AccountsProofs!LatestLinkOnly` | `[]AskingAgainInvalidates` | `LinkInv`: a request about to insert a link has marked used every live one it found when it began, and a link not yet inserted was found by nobody |
| `AccountsProofs!ProofsAcceptedOnce` | `[]ProofOnce` | `HoldInv` (a request that enrols or removes holds its factor's row and its challenge) and `AcceptInv` (a proof that was accepted shows in the code, the challenge or the factor's last step, which is what a second request reads) |
| `AccountsProofs!GuessesAreBounded` | `[]GuessesBounded` | `GuessInv`: the failures on the factor's row are the guesses made, up to those the lapsed locks allow |
| `AccountsProofs!AccountTypes` | `[]TypeOK` | the invariants of the other theorems with `ClockInv`, the clock and the count of requests |
| `AccountsProofs!CodesFollow` | `[]CodesFollowFactors` | `FollowInv`: without overlap one request at a time enrols or removes, and what it has counted still holds when it acts on it |
| `AdminProposalsProofs!RunsAtMostOnce` | `[]RunsOnce` | `PropInv`: a call that runs a proposal is the only one that claimed it (`Claimed`), and the status tells whether it ran (`Tells`) |
| `AdminProposalsProofs!FamiliesNeverFork` | `[]OneHeir` | `ConnInv`: a renewal has the token it read locked and unused until it spends it (`HoldsToken`), a token that a revocation has deleted and not committed is of its connection (`HeldByEnder`), a family is named after a token of its own (`FamiliesExist`), and `OneHeir` itself |
| `AdminProposalsProofs!ProposalTypes` | `[]TypeOK` | `ConnInv` and `PropInv` |
| `AdminProposalsProofs!RevokedConnectionsWane` | `RevokedOnlyWanes` | each step from a state of `ConnInv`: what it adds to one of the four counts it takes from another |
| `NotificationsProofs!HourIsBounded` | `[]HourlyBound` | `RowInv`: the bound holds of what is counted and of what will be once the transaction under way commits (`Counted`); an insert not yet committed is of the one who holds the organization's lock (`Pending`), a message in a pass's batch is claimed by that pass alone (`Claimed`), and only a finished one outlives its retention (`Kept`) |
| `NotificationsProofs!NobodyGetsItTwice` | `[]NobodyTwice` | `CopyInv`: a message that waits has reached nobody (`Fresh`), and whom one in a pass's batch has reached, that pass has on its list (`Sender`) |
| `NotificationsProofs!NoEventIsMissed` | `[]NothingMissed` | `LookInv`: a transaction that is open and not yet long is younger than the settling time (`OpenIsYoung`), a mark is older or the rule's beginning (`MarkIsOld`), and a pass that will move a mark tells of everything in its window (`Looks`) |

The invariants had to be found, since none of these properties is inductive: a
delete holds only because no pass writes without the lock, and a family has one
successor only because the claimed row cannot be spent, revoked or pruned by
anyone else until the commit.

`PointInv` is the longest of them: it says which points every collection that matters
holds at each place of each kind of work. Its parts, each under the exceptions the
properties name:

* `Locks`, `Apart`: a pass that has written points, and a delete that has flagged them,
  hold the document's row; and a copy, the repair of the last one and a rebuild keep out
  of each other's way;
* `Rows`: what the rows, the layers' migrations and the replicas' claims say of each
  other (which collection, slot and chunks a replica read and may still rely on; that
  the document a collector has purged is still deleted or was sent again);
* `UniqueIds`, `DeleteNotAhead`: a point's id names one point of a document, and a delete
  wrote to a collection the pointer has reached;
* `Contents`: a document reported as indexed is found in the live collection and carries
  the vector its marker claims, and one that is deleted is flagged there, except where a
  repair under way has still to requeue or to flag it (`Found`, `Hidden`); a held copy has
  whatever was copied and has not changed since the copy began (`CopyOK`), which is what
  makes both hold at the switch; the points a pass wrote, the vector it added, the flags a
  delete set and the points a purge removed are so until the row says so, as long as
  nothing stale was written over them and the purged document was not sent again
  (`Written`, `Added`, `Hiding`, `Emptied`); and no marker names a slot about to be swept
  (`MarkedOff`).

An action that leaves rows, layers and points alone keeps all of it by one frame lemma;
the others have a lemma for each part they disturb. `PointsSuffice` reads the two
properties off it once no repair is under way.

Three attempts failed for a reason and changed the model. `SourceAvailable` was not
provable, and TLC then violated it with a URL beside the bucket and two requests: a
claim of the row dropped the record of an overlap while the bytes that another send had
stored, and the collector removed, were still missing (`StillRaced` keeps it now until
they are in place, and `lifecycle_bucket` has a URL). `SupersededIsOnRecord` named no
exception and did not hold without the run's constraint: a rebuild that began before a
migration makes anew a collection that was since superseded, dropped and forgotten. The
property now excepts overlaps and overruns itself. `IndexedIsFound` could not be proved
of a layer that is migrated there, back and there again, and with three migrations TLC
violated it: an embedding pass marks its document for the migration it was claimed for
whatever has become of that migration (`MarkedIsCarried`, under Findings). In the model
the pass now remembers which migration it was claimed for, and `drift` records a mark
that comes late.

Only model-checked: what is under fairness (`QueueDrains`, `DeletedIsCollected`,
`ProposalsEnd`, `Terminates`), which the proof system does not reach.

## Findings

Each of these properties states what a comment or a document of the repository
says, and TLC shows a behaviour of the code that violates it.

* `purge_race` (`IndexedAlwaysAnswers`). The collector checks `stillDeleted` and then
  purges without a lock. A send and a whole pass fit in between, and the purge takes
  the new points: an indexed document that answers nothing.

One comment errs the other way. `packages/worker/src/main.ts:591` says that "nothing
fences the original claimant", so that a worker stalled past its lease and its
replacement "can leave chunk rows from one and points from the other — a document whose
hits hydrate to nothing", and asks for "a fencing token checked by the upsert". That
token is there: the upsert at `packages/worker/src/adapters.ts:203` matches only the
claim of the pass, and the points are written under the row lock it takes. The
`lifecycle` run has two passes and leases that lapse under either, `IndexedAnswers` and
`IndexedIsLatest` make no exception for it, and both hold and are proved; the comment
describes the code before the fence.

`purge_race` is a run. The sentences below are stated in the modules too. No
configuration checks them; each falls when its name replaces the invariants (or, for
`FailedIsFinal`, the properties) of a configuration:

| Property | In place of those of | What happens |
|---|---|---|
| `SourceAlwaysAvailable` | `DocumentLifecycleBucket.cfg` | in the same window the collector removes the bytes a send has just stored, and the row names an object that is not there |
| `MetadataAlwaysAgrees` | `DocumentLifecycleBucket.cfg` | a retag that commits while a pass holds the claim is overwritten in the points by the metadata the pass read at its claim |
| `EveryOtherSessionEnds` | `Sessions.cfg` | the UPDATE of a password change waits for the token that a rotation has spent; the rotation commits a successor, which the UPDATE does not see and which stays live |
| `EndedHoldsNoToken` | `AdminProposals.cfg` | `redeem` and `issue` do not read `revoked_at`: a code or a renewal under way at a revocation leaves a refresh token on the ended connection, which works again once it is approved again |
| `NothingEverMissed` | `Notifications.cfg` | nothing ends a transaction that has been open for `SETTLE` (15 s, `packages/worker/src/notify.ts:44-49`); its event commits with the time it began, before the mark a look has left meanwhile, and no rule tells of it |
| `OneLiveLink` | `Accounts.cfg` | the comment at `packages/api/src/recovery.ts:107-109` wants one link that could be stolen at most; two requests at once leave two, also when the UPDATE of the second waits for the row of an older link that the first has marked: what the first then inserts was not there when that UPDATE began |
| `FailedIsFinal` | `Notifications.cfg` | a pass that outlives fifteen minutes puts a message that was marked failed meanwhile back in the queue, which docs/mcp-admin.md says is "marked `failed` rather than sent again" |
| `ToldOnce` | `Notifications.cfg` with `MaxTime = 5` | a rule's mark is read into a millisecond `Date`, so an event just before it in the same millisecond is told twice |
| `MarkedIsCarried` | `ModelMigration.cfg` with `Layers = {l1}`, `Created = {}`, `MaxClock = 1`, `MaxOps = 1`, `MaxFaults = 0` | the UPDATE of `markReindexed` compares with the chunks committed when it began, waits for the row of an indexing pass and marks what that pass has indexed, whose points lack the vector. Nor does it compare anything of the migration: a pass is slow between its vector and its mark while another replica finishes the migration, the layer moves back and the slot is swept; the mark is accepted, and a third migration, onto the slot again, counts as embedded a document without the vector |
| `PurgedIsAlwaysGone` | `PurgeRace.cfg` | a collector that lost to a send, an index and a second delete marks the second life purged while its points are there |
| `SentTextIsIndexed` | `DocumentLifecycle.cfg` | text equal to what a URL yielded before leaves `source_ref` at the URL, and a requeue fetches the URL again |
| `AbandonedAsReported` | `PurgeRace.cfg` | a document abandoned once is failed with an error that says `MaxAttempts` times |
| `AnswerOfOneInstant` | `AccessControl.cfg` with `Users = {user, admin}`, `InitialGrants <- NoGrants`, `Issuable <- GroupGrant`, `Extending <- NoGrants` | the members of one version and the grants of a later one make an answer no instant allowed |
| `GrantsResolve` | `AccessControl.cfg` with `Issuable <- GroupGrant`, `Extending <- NoGrants`, `MaxVersion = 3` | a group removed between the checks and the insert leaves a grant to nobody |
| `ListIsWhole` | `AccessControl.cfg` with `Requests = {}` | the administrator of a workspace without layers is shown no grants |

The properties of the migration except the following, each of which the model reaches
and which the code does not prevent:

* a copier whose lease lapsed deletes and makes anew the collection another one has
  made live;
* two starts, or a start and the creation of a layer, both find no copy running; the
  copy that finishes moves both layers on with the slot of one;
* a crash, or an error, between `finishCopy` and the end of the repair loses the rest
  of it; so does a second copy that begins before the first is repaired;
* a document that is being parsed while the repair looks at indexed rows, a pass or a
  purge claimed on the collection before the switch, and an embedding claimed before
  another layer's copy, end on a collection or a slot that is no longer searched;
* a slot read as due for reclaiming is dropped after a migration back onto it began;
* a rebuild during a migration: the collection is made with the slots the layers are
  searched by and without the one being embedded into, so the migration fails; and an
  embedding pass that marks its document after the requeue, or a replica late for its
  switch, puts back the marker the requeue cleared;
* an embedding pass that marks its document for a migration that is over, or whose
  UPDATE has compared the old point ids and then waited for the row of an indexing pass
  that replaced them: the new points lack the vector, the marker says they have it, and
  the switch may count on it;
* a deleted document that was sent again: the list of deleted documents the repair
  read is applied to the new collection without asking again and flags its new points;
  a collector past its check removes them; or, once it is deleted a second time, its
  points are reported purged by the purge of the first;
* the same content sent again while a pass holds the row, by a request that began before
  the migration: it waits, and then dates the row before the pass, so that the repair
  passes it over.

Two of these leave no wrong answer but a stuck state: a layer created on a model whose
copy failed is refused a start onto it (it already is on that model), and the
half-made collection of a failed copy is on no record and is not retired.

Overlapping requests on an account are excepted in the same way: two removals of the
last two factors leave the codes behind, a confirmation beside a removal leaves a
factor without codes, and two confirmations mint two sets. Two requests for a reset link
leave two live ones where docs/api.md says that asking again invalidates the previous
one (`OneLiveLink`); `AskingAgainInvalidates` has no exception, and says that a link is
dead once one asked for after it is live, where after means that the other's UPDATE
found it. On a connection, a proposal inserted after the revocation of its
connection is open again once that is approved again, and an apply that lasts past
fifteen minutes is recorded as failed though it happened.

A sign-in that brings a weak hash up to date writes the password it verified
unconditionally (`Rehash`); after a concurrent change the old password is back.
`SessionsEnd` excepts that case; no document promises otherwise.

## Not modelled

`PROJECT.json` lists every part. What is left out, and why:

* Idempotency keys. One `SET NX` decides who runs, and a reservation that lapses under
  its handler is excluded by the comment at `packages/api/src/idempotency.ts:65`, which
  takes it to be longer than any request. Without that a retry may run twice, and the
  first handler's end may overwrite or delete the reservation of the second; there is
  nothing in the code that would prevent it and so no property of the code to check.
* Rate limits. A count in Redis that fails open by design. Two edges are worth knowing:
  `release` names the window of its own reading of the clock, so a request counted
  before a window's end and refused by a later limit after it lowers the count of the
  new window, which the comment at `packages/api/src/limits.ts:31` excludes; and a
  refused request whose `DECR` fails is admitted, as any request is when Redis is away.
* Rows written by one statement that a unique key guards: skill versions, service keys,
  upload tickets, audit entries, registered OAuth clients.
* The kinds of alert rule that count within a window, and everything about wording.
* Cryptography, text processing (chunking, tokens, BM25), scores, HTTP routing,
  validation and rendering, configuration and start-up, the parser and embedding
  services (they answer or fail), and the clients (MCP, SDK, CLI, admin UI). These are
  most of the repository's lines; they keep no state that two processes change, which
  is why the map stays at a small share of them although the parts that do are in.
* A call to a store is applied or refused when it returns; one that times out and is
  applied later is not modelled. The worker takes several organizations' advisory
  locks in the order of their rules, so two workers may deadlock there; with one
  organization in the model that does not show. A relay that accepts a message and
  then loses the connection is taken to have refused it.

## Plan

1. Late application of a timed-out call to the vector store in `DocumentLifecycle`.
2. The counting rules of notifications.
