# shardd: verification project

This directory holds TLA+ modules that model shardd from the key allocator of a
node to the failover of its SDKs, the TLC configurations that check them on small
instances, and TLAPS proofs about the node's log. Paths below are relative to the
repository; `state.rs` without a directory is `apps/node/src/state.rs`.

## 1. The system

shardd is a multi-writer ledger. Every node accepts credits, debits, transfers
and reservations for any account of any bucket, writes them as events into its
own log, and gossips them. There is no consensus: an event has a globally
unique key (bucket, origin node, origin epoch, origin sequence), logs are
merged by union, and balances are sums over the log. What can go wrong is
therefore about keys, about the in-memory picture of the log beside the
database, about requests accepted twice, and about money that two nodes (or one
node before and after a crash) spend without hearing of each other.

### 1.1 Inventory

| Component | State | Operations | Hard part | What makes it correct |
|---|---|---|---|---|
| Bucket allocator (`bucket_allocator.rs`) | map bucket -> allocator object (epoch, next_seq, needs_bump, bump lock); row of `bucket_seq_allocator` | load_from_storage, allocate, forget | lazy epoch bump with double-checked lock; crash between transaction and memory; first use of a bucket | no (epoch, seq) twice; no holes; epochs go up; a call ends |
| Node log (`state.rs`) | event_buffer, unpersisted, pending_seqs, heads, digests, head locks, balances | insert_event, record_new_local_event, advance_head, mark_persisted, SharedState::new | several concurrent maps touched one by one by insert tasks and two flushers; crash and rebuild | digest = prefix of the log; head is maximal; nothing applied is lost; nothing leaks |
| Batch writer, orphan detector | batch channel and Vec; scan cursor | flush, scan, mark | both may carry one event; a flush fails | everything reaches the database and leaves memory |
| Range server, catch-up (`server.rs`) | the round of the catch-up task | heads, range request, catch-up | reads buffer and database in two steps; heads stand before holes; peers come and go | a reply is complete up to the advertised head; heads converge |
| Idempotency (`state.rs`) | idempotency_cache; nonce columns in the database | lookup in create_local_events; check_idempotency_conflict; apply_correction_event | the same request on two nodes; corrections are events and conflict too | a request counts once; the oldest event survives; one hold left |
| Accounts (`state.rs`) | AccountState: balance, reservations, released | charge, transfer, reserve, settle, release, sweep, rebuild | implicit holds; time; releases that arrive first; lock order; crash between two events | balance = log; overdraft limit; a reservation is captured once; requests end |
| Meta log, bucket deletion | deleted_buckets, meta buckets | delete cascade, tombstone | cascade against inserts and flushes under way | a deleted name stays deleted |
| Broadcast (`libs/broadcast`) | ack groups, pending requests, peers | gossip, broadcast with ack quorum, timeouts | late acks, failures, the sweep | a caller is answered, the count is honest |
| Mesh client (`mesh_client.rs`) | peer table with health, cooldowns and ages; cache file | discover, probe, pick, request, prune | answers of the past; cooldown, staleness and pruning of a node that comes back | the candidates follow the nodes that are there |
| Registry (`libs/types`, both backends) | one entry per node | connection events, merge, upsert, decommission | events in any order, ties | the registry follows the connections |
| Storage backends (`libs/storage`) | events, digests, allocator rows, registry | the storage trait | two implementations, one of them only in tests | both answer alike |
| Gateway (`apps/gateway`) | auth cache, spawned deductions | authorize, bill, forward, internal routes | rights change under the cache; check-then-act over the network | grants end; namespaces stay apart; debt is bounded |
| EVM RPC (`evm_rpc.rs`) | switch cache, transaction table | eth_sendRawTransaction, reads | cached switch; nonce read from some node; failover | a closed bucket closes; a hash means a transfer |
| Billing (`apps/billing`) | subscriptions, processed events, notifications | webhooks, status, checkout, grants, mails | deliveries repeated and overlapping; crash between mark and grant | a payment is credited once |
| Dashboard API (`apps/dashboard`) | users, keys, scopes, links, device sessions, bucket registry, audit | sign-in, keys, scopes, device login, buckets, administration | every handler is several database and Redis calls | links and codes are used once, deletion and purge take hold |
| SDKs, the dashboard's proxy (`sdks/*`) | ranked edges, cooldowns | probe, select, attempt, fail over | threads share the ranking | calls recover when an edge does |
| Dashboard UI, CLIs, infrastructure | none of the protocol's | pages, commands, scripts | | not modelled |

Interactions: the gateway forwards client requests through the mesh client to
one node; the node's RPC task serves them one after the other and calls
SharedState; SharedState allocates a key, changes the account, records the
event, queues it to the batch writer and hands it to broadcast; peers' tasks
call insert_event, which may itself allocate keys for corrections. Catch-up
compares heads and asks the range server.

### 1.2 Modules

| Module | Models | Composition |
|---|---|---|
| `BucketAllocator` | the allocator of one bucket on one node, its row, startup, crash, and what deletion does to it | on its own: buckets have independent lines |
| `NodeLog` | one (bucket, origin, epoch) chain on one node: inserting tasks, local writers, batch writer, orphan detector, range server, crash | uses unique sequence numbers, which is what `BucketAllocator` is about |
| `Idempotency` | one request key across nodes: client tasks, replication tasks, voids, releases, crash | a delivery is one step: the log's part is `NodeLog` |
| `Accounts` | accounts of one bucket across nodes: all requests, peers' events, sweep, batch writer, crash | requests carry distinct nonces: duplicates are `Idempotency` |
| `Replication` | the nodes of a cluster: client writes with acks, gossip, catch-up, bucket deletion, restarts, lost connections | `insert_event` is one step: the inside is `NodeLog`; the row of the allocator is `BucketAllocator`'s |
| `LogPromise` | what the databases of the cluster promise, without the mechanisms | `Replication` instantiates it and implements it (`KeepsPromise`) |
| `Registry` | the swarm loop's connection counts, the membership bridge, the registry in both backends | |
| `Stores` | every call of the storage trait on both backends side by side | extends `Registry`, whose tables it includes |
| `KeyScopes` | what a key's scopes allow and when a key is usable | used by `Gateway` and by `Dashboard`: what one grants and what the other revokes are the same rows |
| `Gateway` | authentication, billing, namespaces and routing of the edge gateway | extends `KeyScopes`; nodes are sets of events |
| `EvmRpc` | the EVM endpoint | extends `Gateway` |
| `Dashboard` | accounts, sign-in, keys, scopes, the device login | extends `KeyScopes` |
| `ControlPlane` | the dashboard's bucket registry, the EVM switches and the tombstones at the edges | extends `Dashboard` |
| `Billing` | the billing service, with Stripe and the ledger as external parts | beside `ControlPlane` in `MCControl` |
| `MeshClient` | the gateway's client of the mesh | |
| `Sdk` | edge selection of four SDKs and of the dashboard's proxy | beside `MeshClient` in `MCClients` |
| `Sums` | lemmas about sums over finite sets | used by `AccountsProofs` and `EdgeProofs` |
| `BucketAllocatorProofs`, `NodeLogProofs`, `IdempotencyProofs`, `AccountsProofs` | theorems and proofs about the module of that name | extends it |
| `ClusterProofs` | theorems and proofs about the cluster | extends `Replication` and `Stores`, and with it `Registry` |
| `EdgeProofs` | theorems and proofs about the gateway | extends `EvmRpc`, and with it `Gateway` |
| `ControlProofs` | theorems and proofs about the dashboard and the billing service | extends `ControlPlane`, and with it `Dashboard`, and `Billing` |
| `MC*` | values for TLC: sets of nodes, tasks, workloads and symmetry. `MCCluster`, `MCControl` and `MCClients` put parts that share no state into one run: a behaviour is about one of them | |

Definitions marked "Faulty variant" are changes a plausible slip in the code
would make. No specification uses them; they are what each property is tried
against (`mutants` in `PROJECT.json`).

## 2. What each module says about the code

### 2.1 BucketAllocator

`row` is the durable row (epoch 0 = no row), `entry` the map's entry, `heap` the
`Arc<BucketAllocator>` objects of the process: an index into `heap` is a pointer,
so two tasks may hold different objects for one bucket, as in the code. A step is
one atomic access or one transaction. Startup is `MarkPending`, `LoadRows`
(`load_from_storage`), or `LoadFails`, which the code survives by logging
"starting fresh". `Lookup`, `CreateRow`, `InstallNew` are the miss path of
`allocate`; `CheckBump`, `AcquireBumpLock`, `Bump`, `StoreEpoch`, `StoreSeq`,
`ClearBump` the lazy bump with its re-check; `ReadEpoch`, `TakeSeq` the common
end. `DbFails` is the `?` on every database call: the transaction may have
committed nevertheless, and the guard drops. `Crash` keeps only the row and the
tombstone in the meta log. The delete cascade is `DeleteBegin`, `DeleteRow`,
`Forget`, `LogTombstone`. `checkpoint_all` exists and nothing calls it, so it is
no action. The initial states are a bucket nobody has written and a bucket whose
row and keys earlier lifetimes left.

`lapse` records that a startup statement failed or that a crash cut a deletion
short. The code goes on in both cases and may then issue old keys again, so the
key properties end there (see 3.2). `RacedFirstUse` says whether two tasks may
meet a bucket without an allocator at the same time.

Properties: `UniqueKeys`, `GaplessWithinEpoch`, `EpochsAdvance`, `CallsEnd`.

### 2.2 NodeLog

The maps are sets of sequence numbers (`buffer`, `unp`, `pending`, `db`, `queue`);
the digest, a SHA-256 fold in the code, is the sequence of what was folded in,
with 0 for an event the fold did not find. `applied` counts how often an event
was added to its balance. Workers run `insert_event` access by access: three
look-ups (`event_is_present`), `Claim` (the entry API), `Apply`,
`TrackUnpersisted`, `advance_head`, `Send`. Writers run
`record_new_local_event`; `apply_correction_event` takes the same steps and is not
told apart. Under the head lock, `AdvanceContiguous`, `FoldDigest`,
`PublishHead` and `PruneBuffer` stay separate because the flushers and the range
server read without that lock. Two persisters share `InsertBulk`, `InsertFails`
and the per-key `mark_persisted` (`Unmark`, `MarkReadHead`, `MarkReadPending`,
`MarkDrop`): the batch writer takes from its queue (`TakeBatch`), the orphan
detector scans memory (`ScanOrphans`). Both forget a batch that failed; the
orphan detector is the retry. `Crash` includes the whole of `SharedState::new`
(`Rebuilt`); after it the chain is closed to local writers, because the next
allocation is in a new epoch.

Properties: `DigestCoversHead`, `HeadIsMaximal`, `Recoverable`,
`AppliedIsTracked`, `NoBufferLeak`, `RangeComplete`, `HeadAdvances`,
`DrainsToDatabase`, and `AppliedOnce`, which does not hold.

### 2.3 Idempotency

An event is the path from the request to it: `<<<<"create", 2>>, <<"void", 1>>>>`
is the void with rank 1 of the creation with rank 2. The rank stands for the order
by (created_at, event_id) that `idempotency_winner` uses. The nonce of a
correction is built from its target in the code; `Key` says the same, so two nodes
that void one loser create conflicting events, and the check recurses. A client
task holds the account lock and goes through cache, database and creation. A
worker runs the tail of `insert_event`: read the cache, install, then for a
conflict look for an existing void (cache, then database), mint, record; then the
release when the loser holds funds. A lookup or an allocation may fail.

`ChargedOnce`, `OneHoldLeft` are about states in which everything has been
exchanged and nobody is working: the request counts once there. `OldestStands`
is about every state. A worker that would go beyond the plan's depth stops, and the
state then never counts as exchanged: depth 3 is what lets crossing voids be
decided. `plan`, chosen at the start, says whether the request is a reservation
and how many crashes and faults there are.

### 2.4 Accounts

`minted` is the sequence of all events; a node has the ids in its log (`have`),
its database (`db`), the batch writer's queue (`queue`, in order), and
`AccountState` as `balance`, `resv`, `released`. `Start*` actions are the guards
of `create_local_events` under the account lock (overdraft, holds, the checks of
settle and release), `Mint*` the `emit_*_locked` functions one event at a time:
implicit hold, charge, credit side, reservation, settle's charge and release,
release. The events reach the log together at the end (`Flush`), as in the code.
`AllocFails` is the `?` at each allocation: what was applied before it stays
applied. `Receive` is `insert_event`'s effect on the account, in any order,
`Sweep` the removal of expired and released holds, `Persist` the flush of a prefix
of the queue, `Crash` the rebuild from the database, `Tick` the clock. `plan`,
chosen at the start, is the workload: nodes, amounts, transfers and bounds.

Properties: `BooksBalance` (balance and open holds are what the log says),
`Solvent` (the overdraft limit, until a node crashes), `CapturedOnce`, `ImplicitHoldFits` (the hold
that goes with a debit is shrunk so that it never makes the debit fail),
`TransferConserves`, `RequestsEnd`.

### 2.5 Replication and LogPromise

A node's process has `mem` (everything `insert_event` accepted), `queue` (the batch
channel and the unpersisted events) and `dur` (its database); `phase` is absent,
down, warming or ready. A client write (`create_event` of `service.rs`) allocates in
`line`, records, asks every connected peer for an ack (`RequestAcks`), publishes
(`GossipPublish`) and waits. The swarm loop keeps `groups` and the requests on the
wire `reqs`: `AckResponse` counts only a peer that says it has the event,
`AckFailure` is a failed request, `SweepGroups` the expiry; an answer for a group that
is gone changes nothing. Catch-up is a round per peer: `QueryHeads` compares
contiguous heads, `QueryRange` fetches a window of at most `RangeLimit` events and
inserts them. A deletion writes the tombstone to the meta log, and whoever learns of
it runs the cascade. A crash loses `mem` and `queue`; `start_node` rebuilds, and the
allocator moves to a new epoch on first use.

`LogPromise` is the abstract specification: keys are issued once, nodes store issued
events only, and what is stored goes away only with a deleted bucket. `KeepsPromise`
says `Replication` implements it with `issued <- created`, `stored <- dur`. A key of
a deleted bucket may be issued again, because the code drops the allocator row with
the bucket.

Properties: `QuorumMeansHeld`, `WritesAnswered`, `HeadsConverge`, `KeepsPromise`.

### 2.6 Registry and Stores

`Registry` follows connection and Identify events through the counters of the swarm
loop (`conns`, `peer_count`, `known_peers`), the membership channel and the bridge
task into both registries, where `upsert_registry_entry` merges: in memory by
`NodeRegistryEntry::merge`, in PostgreSQL by a CASE per column. `RegistryFollows` says
the counter is the number of connected peers, first and last times are right, and a
node's status is what its last event said, once the channel is empty and unless two
of its events fell into one millisecond.

`Stores` sends the same call to both backends and keeps both answers: inserts alone
and in bulk, range, key, nonce and hold queries, listings with filters, balances,
heads, digests, checksums, allocator rows and the delete cascade. A bulk insert folds
the insert of one event over the batch: in memory as it comes (`MemBulk`), in PostgreSQL
after the stable sort by key (`StablySorted`, `PgBulk`). `CatalogueAssumption` says what the
events are: no two share an id, which the code draws at random. `StorageSpec` is the
specification of both modules, and `BackendsAgree` compares answers and tables, and the
registries of `Registry`.

### 2.7 Gateway, EvmRpc and KeyScopes

A request of `Gateway` stops at every await: the cache look-up, the two queries of the
dashboard's introspection, its answer, the credit read, the call of a node; rights
change and the clock ticks meanwhile. Routes are records (the action, whether it is
billed and what it shows), so that every route of `main.rs` is one of a small set.
`Deduct` is the spawned write with failover, refused below a floor that is computed
as in the node: `-(u64::MAX as i64)` is 1 (`as_i64`, `BillingFloor`). Machine routes
(`InternalUserCall`, `InternalRawCall`) and a gateway without a dashboard (`OpenCall`) are
there as well. `access` records who saw or wrote whose buckets.

`EvmRpc` adds the wallet side: `ensure_evm_ready` with the cached switches, the nonce
check at one node, the write to up to three nodes in turn, receipts from the local
table or from a node's events.

`KeyScopes` holds `scope_allows`, bucket matching and the conditions of a usable key.

Properties: `GrantsEnd`, `NamespaceIsolation`, `DebtBounded`, `TransfersEnd`,
`ReceiptMeansStored`.

### 2.8 Dashboard and ControlPlane

A handler occupies a slot and stops at every await that another handler can come
between; it may die at any of them (`Die`). The tables are `row` (users), `keys`
with their scopes, `audit`; Redis holds `magic` and `cli`. Each handler is an action
whose disjuncts are its stages: the extractor that admits it, reads, writes, audit
row. Histories record what the properties compare: which browser asked for a link,
which user a device code was shown to, how often an account had been deleted when a
key was made and when its owner was last seen alive. `ControlPlane` adds the bucket
registry and the tombstones as the edges know them; a list reads the registry, then
one edge.

Properties: `LinkOnce`, `DeletionCutsOff`, `CodeIsOwners`, `PurgedIsHidden`.

### 2.9 Billing

Stripe (external) makes events and delivers each until it is acknowledged, also while
an earlier delivery still runs. A delivery is `stripe_webhook`, the check, the mark,
the handler of its type, the balance read and the grant, in that order, and may fail
or be cut at each. Grants go into a ledger that deduplicates by nonce and amount.
Status reads, checkouts, plan changes and grants by an administrator use the same
stages; the notification loop mails and then marks. A behaviour starts without
subscriptions, or with checkouts that are open, each with the customer Stripe made for
its user alone.

Property: `CreditedOnce`.

### 2.10 MeshClient and Sdk

`MeshClient` keeps a record per peer (identified as a node, age of the last sighting,
health and its age, cooldown) and follows the event loop: connections, Identify,
health requests and pings with their answers and failures, ticks that age records,
pruning and redialling, the cache file across restarts, and `request_best_with_node`
with its failover. `Sdk` has threads that share a ranked list of edges; a call selects
the edges that are not cooling down (all of them after a probe when none is left),
tries up to three and marks them. The languages differ in what an unreadable success
or a 500 does, and in how a probe's result finds its edge in a list that was re-ranked:
`Outcomes` and `ProbeEnds` have a case for each.

Properties: `CandidatesFollow`, `CallsRecover`.

## 3. The runs

| Run | Checks | What it shows |
|---|---|---|
| `alloc_keys` | `UniqueKeys`, `GaplessWithinEpoch`, `EpochsAdvance`, `CallsEnd` | Two tasks on a new or established bucket, through crashes, failing database calls, a failing startup and a deletion: keys are unique and gapless, epochs go up, calls end. |
| `log_remote` | `DigestCoversHead`, `Recoverable`, `AppliedIsTracked`, `HeadIsMaximal`, `NoBufferLeak` | Two tasks insert a peer's events in any order and repeatedly, beside both flushers. |
| `log_own` | `DigestCoversHead`, `RangeComplete`, `HeadAdvances`, `DrainsToDatabase` | The node's own chain: a local writer, a replication task, both flushers and the range server, with a crash at any step. |
| `idem` | `ChargedOnce`, `OldestStands`, `OneHoldLeft` | The same debit on two nodes, corrections of corrections included; the same reservation; the same debit with a restart and a failing call. |
| `acct` | `Solvent`, `CapturedOnce`, `ImplicitHoldFits`, `BooksBalance`, `TransferConserves`, `RequestsEnd` | One node with all requests, expiry, renewal, sweep and a failing allocation; two nodes and two accounts with transfers, credits on both, events in any order and a crash. |
| `cluster` | `QuorumMeansHeld`, `WritesAnswered`, `HeadsConverge`, `KeepsPromise`, `RegistryFollows`, `BackendsAgree` | Two and three nodes with acks, gossip, catch-up, a deletion, a crash or a cut; a node's registry under connection events; both backends under the same calls. |
| `edge` | `GrantsEnd`, `NamespaceIsolation`, `DebtBounded`, `TransfersEnd`, `ReceiptMeansStored` | Two concurrent requests through every kind of route, with keys of two users, while a right is withdrawn, the clock moves and two nodes lag behind each other; or two wallet requests while the bucket is switched. |
| `control` | `LinkOnce`, `DeletionCutsOff`, `CodeIsOwners`, `PurgedIsHidden`, `CreditedOnce` | Up to four dashboard handlers, two at a time, from eight groups that touch the same rows, each cut at any stage; the billing service with two handlers at a time, repeated deliveries, faults and a restart. |
| `clients` | `CandidatesFollow`, `CallsRecover` | The mesh client with two nodes, a restart and lost connections; the selectors of all SDKs with two or three edges that fail and come back. |

Three runs end in a counterexample. Each is a finding in `PROJECT.json` with the
line of the repository it contradicts:

| Run | What the trace shows |
|---|---|
| `alloc_first_use_race` | Two tasks miss the map for a new bucket; each installs an allocator for epoch 1; both issue (1, 1). |
| `log_dup` | An event leaves the buffer between another task's presence check and its claim and is added twice. |
| `acct_self_transfer` | A transfer from an account to itself waits for the lock it holds. |

### 3.1 Bounds

- Allocator: epochs up to 3 (two restarts, so a bump that goes wrong meets both
  the epoch before and one after it), two numbers per epoch, two tasks: the races
  are between two callers of one object. No crash follows a lapse.
- Log: two events (in order, or a gap and the drain of what was pending), two
  tasks, both flushers, one crash. The proofs remove these bounds for
  the invariants that matter most.
- Idempotency: two nodes, two ages, corrections of corrections to depth 2 or 3
  (a void of a void is where a wrong cascade first shows), one crash and one
  fault. The depth stops the model, not the code, from going deeper. One task per node.
- Accounts: seed 3 and amounts 1 and 2, so that
  limits are met exactly and missed by one; a hold duration of 11 between the
  instants 0, 10 and 11, so that a hold is seen one instant before expiry and at
  it, and 10 is past the point where an implicit hold is renewed; five events on
  one node, three on two: enough for a reservation, its capture and its release to
  overtake each other, and for a transfer to cross a credit.

- Replication: two nodes with two events and a cut or a crash, or one event, a
  deletion and a crash; three nodes with one event, a quorum of one or two, and a
  crash. `RangeLimit` is 1, so that two events need two windows; one node writes,
  which is enough for its epochs to differ and for its peers to relay.
- Registry and backends: one node and one visitor with up to two parallel
  connections and six connection events over three milliseconds (so that events tie);
  four events that collide in key, account and hold, four calls.
- Gateway: two requests, one withdrawal, two ticks with a cache lifetime of two and a
  timeout of one, credits 3 and 0 with costs 1 and 2, so that a call is admitted on
  the last credit and its deduction meets the floor; numbers of eight bits. EVM: two
  requests, transactions that collide in nonce, differ in value and name another
  chain, a deposit that covers one of them twice.
- Dashboard: two handlers at a time and four in all, an administrator and a user, one
  key, one device session. The groups of handlers are those that touch common rows;
  groups that share none cannot disturb each other.
- Billing: one user, one calendar month, two deliveries of an event; the bounds
  that bring faults, restarts, manual calls and alerts are separate instances.
- Clients: ages are counted in ticks and stop growing where no comparison tells
  them apart, so these behaviours are unbounded.

### 3.2 Where the promises end

Some properties carry a condition because the code does not keep them without it.
Each condition was found with TLC, by the instance named here:

- `UniqueKeys` and its companions end with a `lapse`. A failing
  `load_from_storage` leaves rows unflagged, and the next allocation continues the
  old epoch from sequence 1 (`docs/protocol.md:316` calls reuse impossible). The
  delete cascade drops the row before the tombstone is durable, so a crash in
  between brings the name back with epoch 1 (`docs/protocol.md:188` reserves
  deleted names for ever).
- `ChargedOnce` needs one replication task per node, no crash and no failing
  allocation; `OneHoldLeft` is stated under the same conditions. The node's default
  is four tasks (`event_worker_count`, `apps/node/src/main.rs:48`). With two, a
  node's void is in its log before it is in its cache (`state.rs:1561`, `:1586`), another
  task looks there for a rival of the peer's void in between and finds none; both voids
  stand and the request counts zero times (`docs/protocol.md:622` promises one canonical
  correction). TLC finds the trace, of 27 steps, when `idem` is run with two `Workers`
  and `Charge` as its only plan. With a crash and three ages, a duplicate is stored, the node dies before it voids it, and nobody
  looks at the pair again. With a fault the void is given up and never retried.
  `OldestStands` survives all of these: the error is a request that counts twice, or
  zero times in the two-task race, but never through a correction of the oldest event.
- A request that is created while the same request of a peer is being inserted
  overwrites the older event in the cache, and retries are answered with the
  newer one; `docs/protocol.md:572` promises the winner.
- `CapturedOnce` is about one node: with two `spenders` both settle the reservation
  before they hear of each other. A crash between the charge and the release of a
  settle reopens the reservation.
- `Solvent` ends with a crash: an acknowledged debit that was not stored is
  forgotten, its money is spent again, and the debit comes back from a peer.
- `BooksBalance` needs allocations that succeed: when the allocation for the credit
  side of a transfer fails, the debit stays in memory and in the cache, and is in no
  log.
- `TransferConserves` needs negative amounts: a positive one credits both sides
  (give the plan's `transfers` a triple with sign 1). It ends with a crash, which can
  store one side only.
- `HeadsConverge` is about contiguous heads. Events beyond a hole that a crash left in
  an epoch are pending for ever at nodes that had them and never reach a node that
  joins later. Heads of a deleted bucket need not agree: rows still in a batch
  writer's queue are flushed back after the cascade.
- `WritesAnswered` cannot rest on the timeout sweep: its sleep starts again with every
  iteration of the select loop (`libp2p.rs:720`), so traffic may starve it. It holds
  because every ack request ends by itself.
- `RegistryFollows` leaves out ties: `NodeRegistryEntry::merge` is called commutative,
  associative and idempotent (`libs/types/src/lib.rs:278`), but with equal last_seen
  the order of the arguments decides, a Down and an Up of one millisecond leave a
  connected node unreachable, and the two backends keep different addresses.
- `BackendsAgree` assumes that the database orders strings by bytes (the checksum is
  over ORDER BY) and reads the balance view after a refresh.
- `DebtBounded` is a bound, not a zero: check and deduction are two steps. The comment
  on `max_overdraft: Some(u64::MAX)` (`apps/gateway/src/main.rs:1952`) says deductions
  always go through; the node's cast makes the floor 1, so a call admitted on the last
  credits is served and its deduction refused, unnoticed. The comment "fail open" at
  `main.rs:1934` is about a balance of 0, which is refused.
- `ReceiptMeansStored` needs a discovered node: with none, `eth_sendRawTransaction`
  returns a hash and nothing is written (`MeshMayBeEmpty = TRUE`). Nonces are checked
  against some node's view: two transactions with one nonce may both pass.
- `DeletionCutsOff` allows one thing: a key that a handler inserts after the deletion,
  having found the owner alive before it, works until somebody revokes it, because
  introspection does not look at `deleted_at`.
- `CodeIsOwners` allows two keys from two exchanges at once, although the session is
  called one-shot (`cli_auth.rs:250`).
- `PurgedIsHidden` is about the owner's purge. An administrator's purge does not archive
  the row, so the bucket stays listed as active until the tombstone reaches the edge
  that is read.
- `CreditedOnce` allows two overlapping deliveries to credit different amounts when the
  balance moved in between. The converse is not promised: the event is marked before
  it is handled, so a failure after the mark loses the credits, and Stripe's next
  delivery is skipped. A balance that cannot be read counts as 0, which tops up too
  much and mails that credits have run out. An administrator's grant that is repeated
  after a lost answer has a new nonce and is granted twice.
- `CandidatesFollow` has no promise for one moment: a single node that cools down is no
  candidate, and a client that stalls for longer than three lifetimes prunes a node
  it is still connected to, until the next Identify.
- `CallsRecover` needs no more than three edges, the cap on attempts, and edges in
  states the SDK fails over from: 500 and 502 end a call of the Rust SDK at once,
  although `sdks/rust/README.md:11` says it fails over. Rust's concurrent probes write
  results by position into a list another probe has re-sorted; the next probe repairs
  it.

### 3.3 Deadlock checking

It is off where the system really stops: where a bound on events, requests or handlers
is used up (`acct`, `idem`, `edge`, `control`, `cluster`), and in `log_own` when the
chain's epoch has ended with a crash before any event was sent. It is on in
`alloc_keys`, `log_remote` and `clients`.

### 3.4 Fairness

- `BucketAllocator`: weak fairness of every task inside a call (tokio runs ready
  tasks) and strong fairness of taking `bump_lock`: tokio's mutex is a FIFO queue.
  Nothing forces a client to call, or the database to fail or to succeed.
- `NodeLog`: weak fairness of task and persister steps; strong fairness of the
  delivery of each event (catch-up asks again every five seconds while heads differ,
  and the network is assumed to let some of the requests through), of the orphan
  detector's scan reaching each event, and of its insert: a database that is tried
  again and again is up some of the time. The batch writer may lose every batch; the
  orphan detector alone carries `DrainsToDatabase`.
- `Accounts`: weak fairness of a started request's steps.
- `Replication`: weak fairness of a write's own steps; each ack request is answered or
  fails (libp2p's request timeout); a node that went down is started again and becomes
  ready; the catch-up timer fires and its requests end; a lost connection is
  established again (Kademlia's periodic bootstrap redials). Gossip may deliver
  nothing, and the timeout sweep may never fire.
- `MeshClient`: the clock and the health timer go on, every request is answered or
  fails, a connected node identifies itself. Nothing makes a node or a link come back.
- `Sdk`: a thread inside a call goes on, and cooldowns run out. Edges change state
  without any fairness.

## 4. Proofs

Each theorem below is about the specification and the property that a run of
section 3 checks on a small instance, and holds for every value of the constants
that the named assumptions of the modules allow: any number of nodes, tasks,
users, handlers, events, crashes and retries. Every proof has the same shape: an
inductive invariant, a lemma per action or per group of actions with the same
effect, and a last step that puts them together.

| Module | Theorem | Statement |
|---|---|---|
| `NodeLogProofs` | `TypeCorrect` | `Spec => []TypeOK` |
| | `DigestCorrect` | `Spec => []DigestCoversHead` |
| | `HeadMaximal` | `Spec => []HeadIsMaximal` |
| | `AppliedRecoverable` | `Spec => []Recoverable` |
| | `AppliedTracked` | `Spec => []AppliedIsTracked` |
| | `RangeIsComplete` | `Spec => []RangeComplete` |
| | `BufferDrains` | `Spec => []NoBufferLeak` |
| | `HeadsAdvance` | `Spec => HeadAdvances` |
| `BucketAllocatorProofs` | `KeysAreUnique` | `Spec => []UniqueKeys`, if `~RacedFirstUse` |
| | `KeysAreGapless` | `Spec => []GaplessWithinEpoch`, if `~RacedFirstUse` |
| | `EpochsOnlyAdvance` | `Spec => EpochsAdvance`, if `~RacedFirstUse` |
| `IdempotencyProofs` | `OldestIsSpared` | `Spec => []OldestStands` |
| | `CountsOnce` | `Spec => []ChargedOnce`, if `OneTask` |
| | `OneHoldRemains` | `Spec => []OneHoldLeft`, if `OneTask` |
| `AccountsProofs` | `BooksAgree` | `Spec => []BooksBalance` |
| | `HoldsFit` | `Spec => []ImplicitHoldFits` |
| | `SpenderStaysSolvent` | `Spec => []Solvent`, if `OneSpender` |
| | `CapturesAreSingle` | `Spec => []CapturedOnce`, if `OneSpender` |
| | `TransfersConserve` | `Spec => []TransferConserves`, if `TransfersDebit` |
| `ClusterProofs` | `ClusterKeepsPromise` | `ReplicationSpec => KeepsPromise`, the refinement of `LogPromise` |
| | `QuorumIsHeld` | `ReplicationSpec => []QuorumMeansHeld` |
| | `RegistryIsTrue` | `RegistrySpec => []RegistryFollows` |
| | `RegistriesStayAlike` | `RegistrySpec => []RegistriesAgree` |
| | `BackendsStayAlike` | `StorageSpec => []BackendsAgree` |
| `EdgeProofs` | `RightsEnd` | `EvmSpec => []GrantsEnd` |
| | `NamespacesAreOwn` | `EvmSpec => []NamespaceIsolation` |
| | `TransfersStop` | `EvmSpec => []TransfersEnd` |
| | `ReceiptsAreTrue` | `EvmSpec => []ReceiptMeansStored`, if `~MeshMayBeEmpty` |
| | `DebtsAreBounded` | `EvmSpec => []DebtBounded`, if `GrantsRenew` |
| `ControlProofs` | `LinksWorkOnce` | `CpSpec => []LinkOnce` |
| | `CodesAreOwners` | `CpSpec => []CodeIsOwners` |
| | `DeletionsCutOff` | `CpSpec => []DeletionCutsOff` |
| | `PurgesHide` | `CpSpec => []PurgedIsHidden` |
| | `TopUpsAreSingle` | `BillingSpec => []CreditedOnce` |

The hypotheses of the conditional theorems are the limits section 3.2 describes,
and the passing runs check the same cases: `RacedFirstUse` is the race that
`alloc_first_use_race` shows; `OneTask` says that a single task of each node inserts events,
and 3.2 says what two do (the node starts four unless told otherwise);
`OneSpender` says that one node serves the debits of a
plan, since two nodes that do may each spend what both see; `TransfersDebit` excludes
the transfer of a negative amount; `~MeshMayBeEmpty` says that the mesh client has
found a node, since the gateway answers a transfer with a hash also when it has not;
`GrantsRenew` says that users who start without credits are granted none later, which is
what "never given credits" means in `DebtBounded`.
The remaining assumptions are those of the modules: bounds are natural numbers,
markers such as `NoTask` are none of the things they mark, sets that are counted
are finite, a read costs no more than a write (1 and 10 in the code), billing
buckets are named after their users, and no two events share an id.

### 4.1 The node log

The inductive invariant `IInv` is the conjunction of

- `CurInv`: a busy task works on an event of the chain;
- `LockInv`: a task is inside `advance_head` exactly when it holds the head lock.
  Without it, two tasks could fold at once;
- `AdvInv`: what the lock holder's `range` means at each of its steps, how long
  the digest is then, and that outside the lock the head is followed by a gap in
  `pending`. This is what makes `HeadIsMaximal` and the digest inductive:
  between `FoldDigest` and `PublishHead` digest and head disagree, and the
  invariant has to say by how much;
- `DigestInv`: the digest has no event passed over. It needs `BufferInv`: what is
  pending, or in the lock holder's range and not yet folded, is still in the
  buffer. That in turn needs
- `MarkInv`: a flusher about to remove a key from the buffer saw a head that
  covered it and found it not pending, so no later fold will look for it;
- `DurableInv`: an event that counts as known (under the head, pending, or past
  the tracking step) is in the database or both buffered and unpersisted. This
  gives `Recoverable` and, because the range server reads the buffer first and
  the database second, `RangeComplete`.

`HeadsAdvance` follows from `IInv` and the lemma that every step but a crash
extends the digest and does not lower the head. `BufferDrains` needs more, because
`mark_persisted` and `advance_head` each leave the removal to the other:
`LeakInv` names, for every buffered event that is not pending, who will remove it.

### 4.2 The allocator

`UniqueKeys` is not inductive. A pair is new because the object's epoch is the row's
and its `next_seq` is above every number of that epoch handed out (`TakeInv`). That
holds once `needs_bump` is cleared; before, `BumpInv` says how far the bump is and
that the row's epoch is above every pair as soon as the row has seen it. `StartInv`
and `NoEntryInv` say that nobody works before the rows are flagged and loaded, and
that at most one task creates a bucket: this is where `~RacedFirstUse` is used, and
without it the invariant, like the property, fails.

### 4.3 Idempotency

A worker corrects an event because of another one that it read some steps before.
`RivalInv` says that what it read is, and stays, another event of the same key. Events
of a key differ in rank, so the one that loses is not the oldest. `OldestIsSpared` needs no
more, and holds with crashes, faults and any number of tasks.

`CountsOnce` and `OneHoldRemains` also need that every duplicate *is* corrected, although the
nodes see the events of a key in different orders and a node whose client created a
duplicate may have overwritten its cache. Their invariant `DupInv` says, as long as
nothing failed and nobody crashed:

- `WatchInv`: for every key with an event some node *watches* it. It remembers the oldest
  event of the key it has met, compares every event it inserts with that one, and
  each other event of the key that it knows is in the hands of the task that will
  compare it, or is younger and voided or about to be. The node that created the first event
  of a key had none of it before, so it starts as the watcher; it stays one, because
  whatever it meets later is compared with what it remembers. This is where `OneTask` is
  used: with a second task, an event can come in between the node's own event and
  its cache entry and is compared with nothing;
- `AloneInv`: a task about to record a void has found no void of the loser in its cache;
- `LineInv`: an event is a request, or corrects an event that exists; `HeldInv`: some node
  has it;
- `ReleaseInv`: the void of a reservation is followed by its release.

Once the nodes have exchanged everything the watcher knows all events of the key, so all but
one of them are voided and that one is not corrected (`OneSurvives`). What counts then
needs no induction over the depth of corrections: `Partner` pairs each voided event with
the one surviving void of it, and each surviving void with what it corrects. Partners
cancel, since an event and its void count with opposite signs, and the one event
without a partner is the surviving request: `Net = 1`.

### 4.4 Accounts

Balance and held funds are sums over the log, so the proofs need what a sum does when
an event is added or a hold ends. `Sums` proves this for finite sets. The sums are
folds of the community modules, recursive over subsets; an induction over them is
carried out by taking a smallest set that violates the claim (the strict subset order
on the subsets of a finite set is well founded), so it needs no induction theorem
with a predicate parameter.

- `BooksInv`: on each node, balance, open holds and released holds are what the
  log and the events of the request under way add up to. A crash rebuilds them from
  the database, which is part of the log.
- `SolvInv`: the floor holds at every step of a request, and what the request has
  still to take is covered. A settle is counted without the hold it captures, which may
  expire before the charge.
- `OriginInv`: only spenders create events that take, and without crashes a node
  knows its own events. With one spender, every other node's events only add.
- `CaptureInv`: a captured reservation is no longer open where it is served, and no
  settle under way is about it.
- `TransferInv`: the debit side of a transfer in a log has its credit side in a
  log, or in the request that is about to create it.

`HoldsFit` is arithmetic over the state's types: the hold is cut to what is available.

### 4.5 The cluster

`ClusterKeepsPromise` is the step simulation of `LogPromise`. It needs to know where events
come from (`SourceInv`, `WireInv`: what is in memory, queued, stored or on the wire was
created by somebody) and that the allocator line is ahead of every key (`LineInv`), so
that a created event is new. `QuorumIsHeld` adds `ReqInv`, a group asks each peer
once and a "yes" comes from a peer that had the event, and `CountInv`, the count
of a group is at most the number of peers that had the event and are no longer asked.
A late answer to a group that was closed, or to a node that restarted, is then one
that no count includes. `RegistryIsTrue` and `RegistriesStayAlike` are about `RegistrySpec`,
the part of `StorageSpec` that the registry's actions make up. The registry lags behind the
swarm; `FollowOK` says that the last event on the way to the bridge, or the entry when
there is none, is true.

`BackendsStayAlike` rests on `Mirror`: the two maps of the in-memory backend hold an entry for
every row of the table, under its key and under its id, and nothing else. Given that, an
insert of one event has the same outcome in both (`SameVerdict`), and each query is the same
set of events written in two ways. A bulk insert of any length is a fold; what it leaves
is found by taking the shortest batch for which the claim fails, so that no induction
theorem with a predicate parameter is needed. The batch reaches the table sorted and the
map as it came. Both keep the first event of each key, and as the sort is stable the first is
the same one.

### 4.6 The edge

A right is honoured because of something read earlier. The invariant says since when
that can have been wrong: a request under way since it was sent (`AskInv`), a cache entry
since `CacheTtl` before its end (`EntryInv`), the EVM switches since `HttpTimeout` before their
stamp (`SwitchInv`). Key and scopes are read one after the other; that both were
good at one instant follows because scopes are only taken away.

`DebtsAreBounded` is about a sum over the logs of all nodes and the deductions in flight
(`Ledger`). A check that passes at some node found at least one credit there; what that
node does not have are gifts, which only add, and unsettled deductions, fewer than
`MaxUnsettled` and at most `WriteCost` each (`EnoughLeft`). Every other step keeps the sum
or raises it: a deduction that is refused or given up leaves the ledger, replication
moves events inside it, and no billing bucket is deleted because the name is reserved
(`LogsOK`). A user without a seed never passes the check, since every event of its
bucket is worth 0 (`Books`).

### 4.7 The dashboard and billing

Handlers act on what they read some awaits ago. For deletions, `KeyInv` says of
every handler that will write a key how many deletions of the owner it has seen; for
links, `LinkInv` says that each is in one place: in Redis, with the handler that took
it, or used; device codes are followed in the same way through their session. In the
billing service a delivery marks its event before it credits, and posts under a
nonce made of the event. That the nonce determines the grant needs that the user
found for a customer or a subscription is always the same (`OwnInv`, `SubInv`), which
holds because every payer starts with a customer of its own, as Stripe makes
them, and the code never moves one.

### 4.8 Only model-checked

- Liveness (`CallsEnd`, `DrainsToDatabase`, `RequestsEnd`, `WritesAnswered`, `HeadsConverge`,
  `CandidatesFollow`, `CallsRecover`): the prover does not handle fairness.
- The client modules `MeshClient` and `Sdk`, whose properties are liveness.
- Properties that do not hold, which are the findings of section 3.

Every invariant of a passing run, and every action property, is stated by a theorem.

## 5. What is abstracted or left out

- Hashes, ids, JSON, logging and metrics; timestamps except where holds, cache entries
  and cooldowns expire.
- Integer width: `Accounts` uses unbounded integers where the code has i64 and plain
  arithmetic; the one place where the width decides, the floor of billing
  deductions, is in `Gateway`.
- One clock for all nodes in `Accounts`; nodes with different clocks see holds
  expire at different instants.
- `Idempotency` and `Replication` treat delivery, deduplication and the delete cascade
  as single steps; what happens between the maps a cascade clears is not modelled.
- The gateway's nodes are sets of events: `Accounts` and `Idempotency` hold what a node
  does with them. The billing service's ledger is one node.
- libp2p, PostgreSQL, Redis, Stripe, tokio and DashMap are modelled by what the code
  relies on: delivery in any order, lost or repeated; transactions and commands
  atomic; mutexes FIFO; one map access atomic.

### Not modelled

- Dashboard UI and landing site: pages over the API, about a quarter of the
  implementation's lines, without protocol state.
- Command-line tools and benchmarks: one request per invocation, through the clients
  that are modelled.
- Read-only pages and listings of the dashboard, its rate limiter (INCR, then EXPIRE),
  request and reply types of the SDKs, the decoding of EVM transactions: conversions,
  or reads that decide nothing.
- `checkpoint_all` of the allocator and `replace_directory` of the SDK: nothing calls
  them.
- Infrastructure scripts and the end-to-end test harness.

## 6. Plan

Modelling, if the code moves: the cascade map by map against inserts; node reads
during warm-up; the rate limiter.

Proofs: if `apply_correction_event` cached its void before it recorded it, `OneTask` should
no longer be needed; the watcher's invariant is where to look.
