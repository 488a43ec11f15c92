# A TLA+ model of go-wallet-toolbox

This directory specifies the parts of go-wallet-toolbox that keep state while
several actors work on it: how coins are selected and reserved for a transaction,
how the transaction is signed, queued, posted, proved, failed, aborted or revived,
how status events reach the wallet, how stores are replicated and switched, and how
the background jobs share their work. Request handlers, background workers and
monitor tasks of several servers write the same database rows; that is what the
models interleave.

TLC checks every specification on small instances. TLAPS proves the theorems of
eight further modules for every value of the constants.

## The system

| Part | Code | State | Actors |
|---|---|---|---|
| transaction lifecycle | `pkg/storage/internal/actions` | `transactions.status`; `known_txs.status`, `was_broadcast`, `attempts`, `rebroadcast_attempts`, merkle path | ProcessAction, background workers, `send_waiting`, AbortAction, `fail_abandoned`, `check_for_proofs` and its failure review, status events, `unfail`, reorganisations |
| output reservation | `create.go`, `repo/outputs.go`, `repo/utxos.go` | `outputs.spendable`, `spent_by`, `change`, basket; `user_utxos.utxo_status`, `reserved_by_id` | createAction, and every flow above |
| funder | `pkg/internal/storage/funder`, `txutils/change_distribution.go` | a collector with size, fee and change count; row locks | createAction, other database transactions |
| background broadcaster | `service/background_broadcaster.go` | a bounded channel, parked children, a requeue list, the sets `enqueued` and `posted` | Add, workers, sweeper, dispatcher, Stop |
| event queue | `pkg/internal/eventqueue`, `services_reorg.go`, `services_new_tip.go` | a FIFO per subscriber channel, a registry of shared queues | publishers, a forwarder, owners that close |
| status stream | `monitor/broadcast_events.go`, `services/internal/arcade/sse.go` | an apply queue, a batch, a replay cursor | SSE client, applier, the daemon's stop and start |
| monitor lease | `monitor/lease_locker.go` | a lease row per job | one daemon per server, each with its clock |
| broadcast router | `services/broadcast_router.go`, `internal/circuitbreaker` | circuit state, failures in a row | concurrent broadcasts, the health probe |
| wallet calls | `pkg/wallet/internal/actions`, `pkg/wallet/pending` | a cache of actions that wait for a signature | createAction, signAction, abortAction |
| fuel keeper | `pkg/wallet/fuelkeeper` | a round in flight, the pool target | Run, RunOnce, a stream that spends |
| storage synchronisation | `pkg/storage/internal/sync`, `repo/syncrepo` | sync state with offsets per entity | a reader, a writer, their users |
| storage manager | `pkg/storage/storage_manager.go` | cached users rows, active store, conflicts | SetActive, backups, other wallets |

How they interact. createAction reads inputs, then funds and writes in one database
transaction that is retried on contention. ProcessAction stores the signed
transaction and either stops there (noSend), queues it (delayed) or posts it. Queued
transactions are posted by the background broadcaster, and by the `send_waiting`
sweep when the queue was full or lost. Every post is preceded by a claim in the
database; an abort is preceded by a park in the database; the two exclude each other.
Everything after a post is evidence arriving late, in any order, more than once or
never: results, events, proofs, timeouts, reorganisations.

What makes it hard. Nothing holds a lock across a network request. Most writes are
compare-and-set on a status, some are not. One logical step is often two or three
database transactions. The sweeps' TryLocks are per process, and a lease may be
outlived. Queues are in memory. Two tables describe who holds an output. A
synchronisation pages by offset through tables that change.

`PROJECT.json` lists every component, with the reason where it is not modelled, and
the hazards, each at its source line.

## The modules

| Module | Models |
|---|---|
| `TxStatus` | the two status vocabularies and the sets of statuses that guards use |
| `KnownTxStore` | the status rows, and one operator per database transaction of the repositories that writes them |
| `Broadcast` | the flows, cut at every point between two database transactions or network requests |
| `UtxoReservation` | outputs and claim index under createAction and every flow that moves them; uses the operators of `KnownTxStore` |
| `CoinLedger` | the abstract promise: a coin has one holder, only what holds its coins is sent, only what was never sent gives coins back |
| `Funder` | coin selection, fee, change count and change distribution |
| `BackgroundBroadcaster` | the pool of workers that posts delayed transactions, parents before children |
| `EventQueue` | the mailboxes that feed a subscriber channel, and their two kinds of owners |
| `StatusStream` | the consumer of status events with its replay cursor |
| `LeaseLocker` | the lease of one monitor job |
| `BroadcastRouter` | routing between a primary service and its failovers, with breaker and probe |
| `WalletActions` | the wallet's calls around a pending signature, and their release |
| `FuelKeeper` | the top-up rounds of the fuel pool |
| `StorageSync` | the chunked synchronisation of two stores |
| `StorageManager` | several stores and the switch of the active one |
| `BroadcastSafety` | theorems about `Broadcast` |
| `UtxoLedger` | theorems about `UtxoReservation` and `CoinLedger` |
| `FunderSafety` | theorems about `Funder` |
| `PoolSafety` | theorems about `BackgroundBroadcaster` |
| `WorkerSafety` | theorems about `EventQueue` and `FuelKeeper` |
| `SharedSafety` | theorems about `StorageSync` and `LeaseLocker` |
| `ServiceSafety` | theorems about `BroadcastRouter`, `StatusStream` and `WalletActions` |
| `StorageSafety` | theorems about `StorageManager` |
| `MC*` | the instances TLC checks |

Composition. `Broadcast` and `UtxoReservation` extend `KnownTxStore`, so the two share
the repositories' database transactions. `Broadcast` interleaves the status flows in
detail and abstracts outputs to one variable per transaction (`inputs`: held, or given
back and by whom). `UtxoReservation` has the two output tables in detail and coarser
flows: any post may be answered at any later time, any number of times; it lets the
funder choose any coins its queries return, and `Funder` says which. `Broadcast` has the
channel of `BackgroundBroadcaster` as the set `queue` that may refuse or lose an item.
`StorageManager` runs a whole Sync as one step that may fail with any part done.
`MCParts` and `MCStorageSync` put modules that share no state side by side; a behaviour
is a behaviour of one of them.

### Broadcast

A `Calls` element is a goroutine of some server; `pc`, `on` and `arg` are its position,
the transaction it works on and what it remembers. `Duty` says which flows it may run.
One action is one database transaction or one network request; whatever a call read
before may be stale when it writes.

- `CreateAction`, `FindAction`, `StoreSigned`, `SendWith`: createAction and the first
  half of `process.Process`.
- `CheckStatus`, `SkipAlreadySent`, `ReleaseOnError`, `QueueKnown`, `QueueTx`, `Add`,
  `Claim`, `CountAttempt`, `Post`, `ApplyResult`: `broadcastTxs`, its delayed branch and
  the compensation of `release.go`.
- `BackgroundClaim`, `CountBackgroundAttempt`: `BackgroundBroadcast`.
- `SelectWaiting`: the `send_waiting` sweep, which then goes through `broadcastTxs`.
- `AbortFind`, `SelectAbandoned`, `LoadAbandoned`, `Park`, `AbortCommit`: AbortAction and
  the sweep of abandoned actions.
- `SyncSelect` ... `SyncTimeouts`, `SelectForReview`, `Review`: the proof
  synchronisation and the failure review that ends it.
- `ReceiveEvent`, `ApplyEvent`: `ProcessExternalTxStatusUpdate`.
- `ListFailed`, `MarkForUnfail`, `SelectUnfail`, `UnfailProved`, `Unfail`.
- `HandleReorg`; and, outside the code, `Mine`, `CallStops`, `Restart`. `QueueLost` is a
  restart that loses the channel.

Abstractions. A batch is a set of single-transaction calls some of which stop early.
`attempts` stops counting at the limit it is compared with. TryLocks and leases are left
out, since neither excludes a second server for ever. One user per txid: rows of other
users that share a KnownTx are not modelled.

`Serialized` is an assumption about the clients, not about the code: calls on one
action, and the sweep that aborts it, do not overlap. The run `abort_process_overlap`
shows what happens without it.

### UtxoReservation

Each transaction has one output of the same name. `spendable`, `spentBy`, `change`,
`basketName` are columns of `outputs`; `utxoStatus` and `reservedBy` those of
`user_utxos`; `rawInputs` is what the transaction spends on the chain. createAction is
`ReadInputs` (before the database transaction), then one of `CreateTransactionInTx`,
`FundingContention`, `FundingConflict` per attempt, `DropStaleRows` (the heal, in its own
transaction, whose failure is only logged) and `FundingFails`. `Features` switches
optional flows on: inputs named by the caller, status events, proof timeouts,
internalizing, relinquishing, merging into an existing transaction, and the unfail task.
Client calls on one action are serialised here too.

### Funder

`request` and `coins` are the arguments and the rows; `collector` is `utxoCollector`,
with every field that a decision reads. `funding` is the position in
`FundWithConstraints`: `allocatePriorityOutputs`, the head of `run`, the two queries of
`fromTier` (`Sufficient`, `Insufficient`), `drainBatch` row by row, or for a sweep
`loadUTXOPool` page by page and `allocateSweep`; then `GetResult` with the distribution
of the change, `FallBack` from the fuel pool to the default basket, or `Refuse`.
`CountDown` stands for the loops that lower the change count. `Distribute` is the set of
all splits the randomizer may produce. `Calculate` is the fee of a size, rounded up;
its product is computed in float64, and `RoundedUp` are sizes where that product lands
just above a whole number. `Take` and `GiveBack` are other database transactions that
lock a row or let it go between two queries (SKIP LOCKED); they act only there, since
nowhere else does the call look at the rows.

Assumptions: every row costs the size of a P2PKH input; noSend change is not in the
index (the code does not add it to the exclusion list); a sweep has a destination
output and runs over the default tiers.

### BackgroundBroadcaster

An item is the number of an accepted `Add`. What happens under `depMu` or `requeueMu` is
one action; everything else interleaves, including the mark that `Add` makes after the
item is on the channel. Queues are sets: an item is found in any order. Time is a tick
that ages parked items up to the point where every wait has expired; which remembered
transactions the sweeper prunes is arbitrary. A post that returns is one step with
`markPostedAndRelease`. An `Add` on the closed channel, which panics in Go, is left out.

### EventQueue, StatusStream, LeaseLocker, BroadcastRouter

- `EventQueue`: what is done while `q.mu`, `sharedMu` or the broadcaster's lock is held is
  one step. An owner acquires and releases with a reference count, or subscribes and
  unsubscribes without one (`sharing`). The forwarder sends the head of `buf` without the
  lock and removes it later; Close waits for it until its deadline, Discard at once.
- `StatusStream`: the server's log is external. A connection names a Last-Event-ID or
  none; frames may carry no id or be skipped; the applier takes batches, applies each
  event and moves the cursor in memory and in storage. The daemon stops in order, or dies.
- `LeaseLocker`: times are relative to the slowest clock, `ahead` is an instance's skew,
  `age` the time since it read its clock. Statements may be slow or fail, instances die
  and new ones start. `MaxHold + Skew < TTL` is assumed: a run has a context of
  0.95 intervals and the lease is at least two intervals long.
- `BroadcastRouter`: one call is the primary (with one retry after backpressure) and then
  the failovers in order; breaker methods are atomic. Answers may be late, requests are
  cancelled, and the probe reads the state and asks before it closes the circuit.

### WalletActions and FuelKeeper

- `WalletActions`: a call arms its release, reserves, assembles, saves or hands over, and
  on an error aborts what it is armed for. Cached actions expire and the wallet restarts.
  The storage is the status of an action. `nextCleanup` of the cache, an unsynchronised
  field, only decides when expired entries go, which happens at any time here.
- `FuelKeeper`: wallet and storage are three counters (pool, reserve, what the default
  basket can pay for). Concurrent leaves of a round are serialised, retries per leaf are
  not counted, and whether a stream is active is arbitrary.

### StorageSync and StorageManager

- `StorageSync`: `src` and `dst` are the rows of both stores, `saved` and `mem` the sync
  state in the database and in `ChunkProcessor`. A chunk is paged entity by entity, each
  page its own transaction, and upserted row by row; a Sync may be cut off at any step.
  Both sides write locally. A row's content is its `updated_at`; the clock is strictly
  increasing. A known transaction is stored with or after the user's transaction; labels
  and tags are not soft-deleted locally; a spendable change output belongs to a
  transaction that is sending, unproven or completed. `calm` records that the reader
  changed only between Syncs: rows inserted in mid-cycle may be missed until the next
  one, which `storage_manager.go:158` has as a TODO.
- `StorageManager`: each store's users row names the store it believes active; the
  manager caches the rows, partitions the stores and switches in steps that may fail
  (`MergeNext`, `Mark`, `PushNext`); maps are iterated in any order (`Orders`). Calls on one
  manager are serialised, which it leaves to its caller (TODOs at lines 158 and 219). Other
  wallets write only to a store that names itself active. `claimed` is a history variable:
  what the stores that claimed to be active had taken on themselves when the switch began.

## What is checked

| Run | Instance | Shows |
|---|---|---|
| `broadcast_safety` | 1 transaction, 2 goroutines that may run any flow, proof timeout after 2 attempts, 1 rebroadcast, crashes, `Serialized` | `ReleasedNeverPosted`: an abort and a post exclude each other. `PostedIsFlagged`, `EvidenceNeverCleared`: `was_broadcast` covers every post and is never cleared. |
| `broadcast_liveness` | a client and a monitor, not serialised, finitely many crashes | `EveryActionSettles`: an action that holds inputs ends completed, failed, aborted or left to its owner. |
| `utxo_named_inputs` | 2 new transactions, a received coin, a custom output; up to 1 named input; 2 funding attempts | `NoDoubleSpend`, `NoStaleRows`: two sent transactions share no input, and the two tables agree on who holds an output. |
| `utxo_flows` | 2 transactions, created or internalized, that may spend each other's change; events, timeouts | `RefinesLedger`, `SpentUntilAborted`, `UnspentChangeIsIndexed`. |
| `utxo_rewrites` | 1 new transaction, 2 received outputs; merge, relinquish, unfail | `ReservationsHaveOwners`: no coin stays reserved by an action that nobody will finish. |
| `delayed_pool` | parent and child, 2 items, 2 workers, channel of 1 | `EachItemOnce`: no item is lost or handed over twice. `ParentsPostedFirst`; `EveryItemHandled`. |
| `replication` | groups of 2 to 4 rows that refer to each other, every entity in one of them, chunks of 2; three stores, one failure | `DoneMeansReplicated`, `QuietSyncNeverRefused`, `NeverBackToOlder`, `SyncReturns` of a Sync; `SwitchedEverywhere`, `OwnRowsFollow` of a switch. |
| `independent_parts` | the seven parts of `MCParts` | see below |

Properties of `independent_parts`:

| Part | Instance | Properties |
|---|---|---|
| event queue | 2 owners, 2 queues, 2 events | `DeliveredInOrder`: each event once and in order, or counted as given up. `SenderIsOwned`: nothing is sent after the last release. `QueuesSettle`: releases return although the subscriber stopped reading, and events reach one that reads. |
| lease | 2 instances, 1 crash, skew 1 | `OneRunner`; `JobsKeepRunning`. |
| status stream | 4 events, one without id, one malformed; 2 stops | `CursorCovers`: no event behind the cursor was requested and never attempted. |
| router | 2 clients, 2 failovers, 1 outage | `VerdictIsFinal`: no service is asked after a verdict, none twice. `PrimaryIsUsedAgain`. |
| wallet calls | 2 actions, 2 callers, 4 calls, 1 restart | `ReservedIsTended`: what is reserved is cached, in the hands of a call, handed over, or kept by a fault. |
| fuel keeper | 2 runners, targets 4 and 6 | `PoolIsBounded`, `ReservePaysLeaves`, `FuelComesBack`. |
| funder | 4 rows, 26 requests, fees of 1 per 2 units of size | `FundedPays`, `ChangeSplits`, `SelectsBest`, `NothingLeftBehind`. |

Four more runs exhibit a disagreement between the code and what a comment of the
repository says; TLC's counterexample is the point of each of them.

| Run | What happens |
|---|---|
| `abort_process_overlap` | An abort lands between the read and the unconditional write of `SpendTransaction` (`transactions.go:418`): the action is revived and posted although its inputs were released. |
| `completed_marked_failed` | The failure review writes `failed` on the strength of a row it selected before a proof was stored (`synchronize_tx_statuses.go:529`). |
| `sync_deleted_tags` | A soft-deleted tag or label map is listed by the reader and not counted by the writer (`chunk_processor.go:665`): the cycle never ends, and a row that changes later is skipped by a Sync that returns without an error. |
| `signed_again_aborts` | A signAction repeated after the action was completed as noSend is armed to abort it before it looks it up (`wallet_sign_action.go:57`), and does. |

Scope of the passing properties:

- `ReleasedNeverPosted` needs `Serialized`.
- `UnspentChangeIsIndexed` is about received, mined coins, with `named` off. With it on it
  fails: the heal drops healthy rows (below). For change of the wallet's own transactions
  it fails when a transaction failed and was mined after all.
- `NoStaleRows`, `RefinesLedger`, `SpentUntilAborted` and `NoDoubleSpend` are checked
  without `merge` and `unfail`: both un-spend outputs by design or by accident (see below),
  and `NoStaleRows` and `SpentUntilAborted` are false with them.
- `ReservationsHaveOwners` is checked with one transaction that the wallet creates.
- The reservation runs set `MaxRebroadcasts = 0` (unlimited), so in them a transaction that
  was broadcast is requeued by a proof timeout and never failed by one. The theorems of
  `UtxoLedger` hold for every budget, and `broadcast_safety` has a finite one.
- `DoneMeansReplicated` and `QuietSyncNeverRefused` are about readers that change between
  Syncs (`calm`); `NeverBackToOlder` and `SyncReturns` hold without that.
- `OwnRowsFollow` is about what a store took on itself before the switch began (`claimed`).
  It says nothing of rows that store had merged from another one: such a row keeps its old
  `updated_at`, and a later Sync to a store whose watermark is past it leaves it out.
- `CursorCovers` does not count events that were published while the client had no id to
  ask with (`gap`).
- `PoolIsBounded` and `ReservePaysLeaves` allow for fan-outs that were done and reported as
  failed.
- `SelectsBest`, and for sweeps `NothingLeftBehind`, are about calls that nobody disturbs.

Bounds. Every hazard of the lifecycle is a race over the rows of one transaction, and
transactions share no status row, so one transaction with two concurrent calls shows each
pairwise race; the theorems lift the safety properties to any number of both. Two funding
attempts are the least with a retry, two transactions the least with a conflict, and two
received outputs the least with one coin in the index and one outside it. In the pool, two
items in a channel of one fill it and force the dispatcher to wait; two workers are the
least with a post racing a park. Chunks of two items split every group of rows over
several chunks, and two or three local writes are the least with a change before, during
and after a Sync; three stores are the least with a conflicting active beside a backup. Two
owners and two queues show a queue that is closing beside its successor. Four status events
with a batch of one and a queue of two make the reader wait. The funder's four rows,
sizes and fee rate are small enough to enumerate, and make change that disappears under its
own fee, change that is donated, all three regimes of the distribution, batches that stop
early, pages under churn and both passes happen; `FundedPays` is proved for all of them.

Deadlock checking is off in all of the configurations: a wallet may be idle for ever once
its bounded transactions are settled, and a pool may be stopped.

Fairness.

- `Broadcast`: a call that has begun goes on; the monitor starts each task again and again
  and the tasks reach each row (strong fairness, since other flows may change the row in
  between and change it back); preparation of a transaction and the status service do not
  fail for ever; servers crash finitely often. Nothing is assumed of the network: it may
  never accept, mine or answer favourably.
- `BackgroundBroadcaster`: goroutines are scheduled, posts return (with or without an
  error), the ticker fires, Stop runs to its end. No fairness on Add or Stop.
- `EventQueue`: goroutines are scheduled and Close has a deadline. That the subscriber reads
  is a premise of `EveryEventSettles` only.
- `LeaseLocker`: time passes, gocron starts the job, statements do not fail for ever.
- `BroadcastRouter`: the probe's timer fires, requests end. Nothing about new broadcasts.
- `FuelKeeper`: Run's timer fires, and measurements and fan-outs that are possible succeed
  at times.
- `StorageSync`: the loop goes on; nothing about interruptions or local writes.

The fairness of the parts in `MCParts` is a premise of the property (`QueuesSettle`,
`JobsKeepRunning`, `PrimaryIsUsedAgain`, `FuelComesBack`), as only one part runs.

## What is proved

For every value of the constants, from the named `ASSUME`s of the modules and the conditions
of the last column:

| Theorem | Says | Condition |
|---|---|---|
| `BroadcastSafety!TypeCorrect` | `TypeOK`; the rebroadcast counter stays within its budget | |
| `BroadcastSafety!EvidenceKept` | `PostedIsFlagged` | |
| `BroadcastSafety!EvidencePersists` | `EvidenceNeverCleared` | |
| `BroadcastSafety!AbortedNeverPosted` | `ReleasedNeverPosted`, and that a released action cannot be claimed (`ReleasedNotClaimable`) | `Serialized` |
| `UtxoLedger!LedgerTypeCorrect` | `TypeOK` of `UtxoReservation` | |
| `UtxoLedger!ReservationsOwned` | `ReservationsHaveOwners` | |
| `UtxoLedger!Refinement` | `UtxoReservation` implements `CoinLedger` | no `merge`, no `unfail` |
| `UtxoLedger!DoubleSpendFree` | `NoDoubleSpend` | the same |
| `UtxoLedger!SpentStaysSpent` | `SpentUntilAborted` | the same |
| `UtxoLedger!IndexNeverStale` | `NoStaleRows` | the same |
| `UtxoLedger!ReceivedChangeIndexed` | `UnspentChangeIsIndexed` | the same, and no `named` |
| `UtxoLedger!SentNeverConflict` | two sent transactions of the ledger share no coin | |
| `FunderSafety!FundingPays` | `FundedPays`, for any rows, requests, fee rate, sizes and batches | |
| `PoolSafety!PoolTypeCorrect` | `TypeOK` of the pool, the capacity of its channel included | |
| `PoolSafety!ItemsHandledOnce` | `EachItemOnce` | |
| `PoolSafety!ParentsGoFirst` | `ParentsPostedFirst` | |
| `WorkerSafety!QueuesDeliverInOrder` | `DeliveredInOrder` | |
| `WorkerSafety!SendersAreOwned` | `SenderIsOwned` | |
| `SharedSafety!Exclusion` | `OneRunner` | |
| `ServiceSafety!VerdictEndsBroadcast` | `VerdictIsFinal` | |
| `ServiceSafety!CursorNeverSkips` | `CursorCovers` | |
| `WorkerSafety!FuelBounded`, `ReserveSuffices` | `PoolIsBounded`, `ReservePaysLeaves` | |
| `ServiceSafety!ActionsAreTended` | `ReservedIsTended` | |
| `StorageSafety!SwitchIsComplete` | `SwitchedEverywhere` | |
| `StorageSafety!ClaimedRowsFollow` | `OwnRowsFollow` | |
| `SharedSafety!StaleChunksLose` | `NeverBackToOlder` | |

The conditions are those under which the properties are true of the code at all. A merge and
the unfail task clear `spent_by` of outputs whose spender was not aborted (see the last
section), and after a conflict over a named input the heal drops rows of healthy coins.
`Serialized` is discussed under `Broadcast`. The assumptions on constants are what the
configuration of the code guarantees: limits and sizes are natural numbers and, where a
division or a channel needs it, positive; `MaxHold + Skew < TTL` (`LeaseLocker`);
distinct priority outputs and a destination for a sweep (`Funder`); distinct failovers that
are not the primary (`BroadcastRouter`); finitely many owners, stores, coins and rows.

The arguments. Hardly any property is inductive as it stands; the name in front of each
paragraph is the invariant that is.

- *Evidence* (`FlagInv`). A call that has claimed must still find the flag set when it posts.
  `FlagInv` adds that a call between its claim and the end of its post works on a flagged
  transaction, that the network holds only what was posted, and that a row without a txid
  has no flag. `KeepsEvidence` says of each database transaction that it clears no flag,
  once, in `StoreOpsEvidence`.
- *Release* (`ReleaseInv`). It adds to `FlagInv` that the KnownTx of a released action is
  parked (`invalidTx`, or `unfail` after a request) without evidence, that no two calls are
  in the client window of one action, and what each position in the window entails. Only
  evidence of a broadcast leads out of the parked statuses, and a parked row has none
  (`LeavesParked`, `StoreOpsLeaveParked`).
- *Refinement* (`LedgerInv`). It relates statuses, calls and holdings: a transaction that is
  not yet released holds every coin it was built to spend, and a released one is parked and
  unflagged. Most actions are stuttering steps of the ledger (`QuietAt`); `CreateTakes`,
  `ReleaseGivesBack`, `ClaimSends` and `InternalizeSends` are its steps.
- *Reservations* (`OwnersInv`). An unsigned action has no KnownTx and one that is being
  created no row, so that the step by which an action stops being unsigned is one of its own,
  and each of those frees what it reserved (`OwnersAt`). This needs no condition: it holds
  with merges and the unfail task as well.
- *The claim index* (`IndexInv`, with `LedgerInv`). `NoStaleRows` is about one row;
  `RowInv` adds what is spendable and what a missing transaction implies, since the upsert
  of a row overwrites `reserved_by_id`, and `NamesExist` what a call remembers of the outputs
  it read before its database transaction. Most steps write no row except for an unspent
  output of an existing transaction (`RowsQuiet`).
- *Received change* (`IndexedInv`, with the two above). Without named inputs the
  compare-and-set cannot fail on what the queries returned (`QueriesReturnUnspent`), so the
  heal, which alone drops rows of unspent coins, never runs (`PlainCalls`).
- *Funding* (`FunderInv`). `FundedPays` speaks of final states. `FunderInv` adds that the
  collector's size and fee are those of the inputs and the change outputs it counts
  (`Sizes`), and where an input came from: a row that a query offers is not an input yet,
  since every input is excluded from the queries or is noSend change without a row (`Rows`).
  The rest is arithmetic: the fee grows with the size, rounding up of the float64 product
  included (`FeeGrows`), so change that is left out in the end still pays for what remains,
  and `Distribute` makes as many outputs as were counted (`SplitLength`).
- *The pool* (`PoolInv`). An accepted item is in exactly one place: the channel, a waiting
  set, a worker's hand, among those a post released, the requeue list, the dispatcher's
  batch, or done (`OnePlace`, `Placed`). `HoldsByStep` says which of these a worker's step
  allows. For the parents, what a worker is posting was checked against `posted`, and
  `posted` holds acknowledged transactions only.
- *Event queues* (`QueueInv`). What was accepted is what was sent, the item in hand, the
  buffer and what was counted, in that order (`QueueOK`); closing and releasing owners hold a
  closed queue, and the users of a shared queue hold the registered one (`OwnersAgree`).
- *Exclusion* (`LeaseInv`). The row of a runner carries its name and expires TTL after it
  read its clock (`RunnerHoldsLease`). While it runs, less than MaxHold has passed since, so
  no clock within Skew is past the expiry and no claim matches the row
  (`RunnerKeepsOthersOut`).
- *The router* (`RouterInv`). The results of a call are those of the primary, at most once,
  and of a beginning of the list of failovers, and only the last may be a verdict (`CallOK`).
- *The stream* (`StreamInv`). What lies before an event in the batch, in the queue or on the
  connection is settled or on its way ahead of it (`NothingSkipped`); a cursor moves to the
  largest id of a batch that was attempted, so it passes nothing.
- *Fuel* (`FuelInv`). Rounds exclude each other (`OneRound`), and what a round has still to
  mint fits under the high water it was computed for (`RoundFits`) and is covered by chunks
  (`RoundIsProvided`), whatever is spent or changed meanwhile.
- *Wallet calls* (`TendedInv`). `ReservedIsTended` is inductive with the types.
- *The switch* (`StorageInv`). Between its steps a switch relies on what the stores hold: a
  row is on the store it was made on (`RowsAtHome`), a store has what another took on itself
  up to its watermark for it (`Watermarked`), the claimed rows are on the target or on a
  store still to be merged, and while the source is pushed its users row is newer than
  those of the stores to come, so that each push replaces them (`PushOK`). The attempt to
  prove this for a stronger `OwnRowsFollow`, which also counted rows a store had merged,
  failed for a reason: see `Watermarked` and the scope note above.
- *Stale chunks* (`SyncInv`). No version is from the future, so a local write is newer than
  what it replaces; a row that is absent has no version and no free `user_utxos` row; and a
  chunk holds items that were stored when they were read.

Where an argument needs an induction (a greatest event, the least position of a sequence), it
takes the least counterexample of a well-founded order (`WFMin`), since the library's
induction theorems have an operator as a parameter.

Only model-checked:

- the liveness properties `EveryActionSettles`, `EveryItemHandled`, `SyncReturns`,
  `QueuesSettle`, `JobsKeepRunning`, `PrimaryIsUsedAgain`, `FuelComesBack` (fairness and
  ENABLED are beyond the prover);
- `ChangeSplits`, a statement about the sum of a sequence, which is defined recursively;
- `SelectsBest` and `NothingLeftBehind`, which relate the order of the queries, batches and
  pages of one call to the rows as a whole;
- `DoneMeansReplicated` and `QuietSyncNeverRefused`, which rest on what pages at counted
  offsets cover together, an induction over the ranks of rows;
- the type invariants of the parts that have no theorem of their own (`PartsTypeOK`,
  `ReplicationTypeOK`).

## Known disagreements

Besides the four above, these were met while the models were built, most of them as TLC
counterexamples. No run of the present project exhibits them.

Lifecycle and outputs:

- A merkle path that was fetched before a reorganisation is stored after it
  (`known_tx.go:616`; compare `provider.go:1218`, "HandleReorg invalidates merkle proofs for
  transactions in orphaned blocks").
- After a conflict over a named input, healthy coins of the same attempt are reported as
  stale, because the UPDATE has just set their `spent_by`, and their index rows are deleted
  (`transactions.go:288`; compare lines 296-297).
- Change that was indexed when its transaction was queued stays claimable after the
  transaction has failed: `MarkCreatedOutputsAsNotSpendable` (`outputs.go:888`) writes
  `outputs.spendable` only (compare `docs/utxo-lifecycle.md:157-158,171-172`).
- That the outputs are unspent is tested before the unit of work of the abort, and a child
  may spend them in between (`abort.go:126`; compare line 210).
- The unfail task restores inputs (`process_unfail.go:124`), while
  `docs/utxo-lifecycle.md:176` says that only AbortAction and the abandoned sweep do.
- The failure review turns `aborted` into `failed` (`synchronize_tx_statuses.go:529`; compare
  `tx_status.go:21-24`).
- A status event, and the requeue of a delayed transaction, may take a row out of a terminal
  failure (`process_external_status.go:292`; compare `process.go:928-929`).
- The unfail request marks the KnownTx of an action that recovered after it was listed
  (`list_failed_actions.go:125`; compare the comment at line 103).
- A late result is applied to the KnownTx and not to the Transaction (`process.go:975`), while
  `docs/utxo-lifecycle.md:161-164` says that the whole update is skipped.
- An abort that stops after the park holds its inputs for ever: no sweep selects the action
  (`release.go:100` says it stays reserved until `fail_abandoned`).
- A merge into an existing transaction clears `spent_by` (`outputs.go:604`), and a basket
  insertion merged over change leaves its index row fundable (`internalize.go:712-713`).
- A relinquished output that was reserved is in the index again after the abort
  (`outputs.go:284`; compare `docs/utxo-lifecycle.md:93-95`).
- The unfail task indexes change that is spent (`outputs.go:906`; compare `utxos.go:284-287`).
- By reading only: the comments at `known_tx.go:229-235` and
  `process_external_status.go:405-407` say that the spent outputs of a double spend are
  restored; the code leaves them spent, as `docs/utxo-lifecycle.md` explains.

Funder:

- The first slice of a distribution that is not saturated may be below the dust floor
  (`docs/utxo-lifecycle.md:245-248`: "then shrunk while any slice would fall below the dust
  floor"). `ChangeSplits` claims only that it is positive.
- Change of a few satoshis, less than the fee of its own output, makes a collector unfunded,
  where the same document has sub-dust change donated.
- The recorded net amount of a transaction uses the change amount also when the change was
  donated (`create.go:614`).
- Priority outputs are not put on the exclusion list, although the comment of
  `FundWithConstraints` says every allocated row is.
- A sweep pays the fee of the change outputs it counted and then does not make. Its pages go
  by OFFSET and may skip a row while others lock and release rows.
- Tier by tier, rows that cost more than they are worth may be taken and the call refused,
  although a row of a later tier alone would pay.

Streams and queues:

- A daemon that starts without a cursor, or whose only events carried no id, asks for no
  replay and misses what was published meanwhile (`broadcast_events.go:58`, "starting from
  beginning"; line 181, "replaying events is safe, skipping is not"; `sse.go:219-222`).
- Two subscribers of one channel share its queue without counting: the unsubscribe of one
  discards it for both.

Replication:

- A backup keeps, or writes, a free `user_utxos` row for an output that is spent.
- A manager whose first load failed dereferences missing settings in a later call (`panic` in
  the model).
- `SetActive` to the store that is active already returns early also with conflicts to
  resolve (comments at `storage_manager.go:196` and `224`).
- A failed `SetActive(B)` has removed B from the conflicting actives, so that a following
  `SetActive(C)` never merges B. A switch that fails after a push leaves the manager on the
  old active store. The merged state is not pushed to all stores (lines 252-253).
- A backup to a store with a conflicting claim takes the claim without merging its rows.

## Not modelled

The definitions stand for about 10,500 lines of Go, out of some 89,000 with generated queries,
examples, mocks and test fixtures. The rest is, by size: HTTP clients and servers and the
decoding of their answers, generated code, argument validation, key derivation, script
assembly and signatures, certificates, configuration, observability, and read-only queries.
They keep no state that outlives a call, or none that the properties above depend on;
`PROJECT.json` has the reason for each component. The service queues keep a call history for
reports and run services one by one or in parallel; `Broadcast` allows any verdict they may
return.

Left out of modelled components: several users that share a KnownTx and batches as such
(`Broadcast`); the events the pool publishes after a post; the limit of a thousand rounds of a
Sync; the catch-up waits and the retry limit of the fuel keeper; intervals and registration of
the monitor tasks.
