# TLA+ specifications of the blockchain data feeds

This directory specifies, model-checks and partly proves the two feeds of this
repository: the logs feed (`internal/extract`, `internal/reorg`,
`internal/store`) and the mempool feed (`internal/mempool`), with the RPC client
both use (`internal/rpc`) and the configuration all start from (`internal/config`,
`internal/decode`, `cmd/ui`). Every module is translated from the Go source;
`PROJECT.json` gives, for each definition, the lines it stands for.

Contents: [the system](#the-system), [the modules](#the-modules),
[the runs](#the-runs), [what the code does not keep](#what-the-code-does-not-keep),
[the proofs](#the-proofs), [what is left out](#what-is-left-out), [the plan](#the-plan).

## The system

| Component | State | Operations | Talks to | What is hard |
|---|---|---|---|---|
| Adaptive chunker (`extract/chunker.go`) | min, max, current size | `OnError`, `OnSuccess` | called by `processRangeAdaptive` | rounding, clamping, uint64 |
| Head follower (`extract/follow.go`, `extract.go`, `reorg/reorg.go`) | position, chunk, record buffer | detect, roll back, poll the head, index a range | node (four kinds of RPC call), tables `logs`, `checkpoints` | the chain changes and the process dies between any two calls |
| Backfill (`extract/backfill.go`) | job channel, error channel, context | producer, workers, verdict | the same | partial failure, cancellation, a producer blocked at its send |
| Store (`store/*.go`) | tables `logs`, `checkpoints`, `mempool_txs` | one SQL statement each; a transaction only for `InsertLogs` | SQLite or Postgres | non-atomic rollback, `ON CONFLICT DO NOTHING` |
| Subscriber (`mempool/subscriber.go`) | connection, backoff | dial, two handshakes, read, dispatch | node (WebSocket), channels `pendingC`, `headC` | notifications that overtake replies, reconnects, full channels |
| Service loop and fetcher (`mempool/service.go`, `fetcher.go`) | queue of hashes | hand out, resolve a hash | node, tracker | retries, order of results |
| Tracker (`mempool/tracker.go`) | maps `txs`, `fromNonce`, `inflight`; queue `receiptC` | `HandleTx`, `OnHead`, receipts, sweep | node, table `mempool_txs` | several goroutines, decisions used after the mutex is released, restarts |
| RPC client (`rpc/client.go`) | semaphore, limiter | `Call` and its retry loop | node | tokens given back by hand, repeated requests, order of judging a reply |
| Configuration (`config/config.go`) and its file | the file on disk | `Load`, `Validate`; the rewrite in `cmd/ui/main.go` | read by every program, rewritten by the UI server | defaults that depend on each other, requests without a lock, a rewrite in place |
| ABI registry (`decode/registry.go`) | events by topic and by topic and address | filter, lookup, decoding | built from the configuration, used by the follower | the filter selects more than the configuration lists |
| Metrics, the other UI handlers, wiring | | | | see [what is left out](#what-is-left-out) |

What makes each part correct:

* chunker: the size stays within its bounds, is never 0, shrinks to what the node
  accepts and recovers;
* follower: the checkpoints describe exactly what was indexed; nothing of an
  abandoned block stays; nothing final is missed, repeated or taken back; it
  catches up;
* backfill: each block is the work of one worker; success means that every block
  is indexed; it returns;
* tracker: the inflight set neither leaks nor admits a hash twice; one transaction
  of each sender and nonce is pending; rows follow what happened on the chain;
* subscriber: it reads notifications only with both subscriptions, and gets there;
* RPC client: the semaphore neither runs dry nor over; the caller hears "too many
  results" unless the HTTP status hides it; a repeated request is bounded; every call returns;
* configuration: whatever the UI did to the file, a program that starts runs with the
  operator's settings and with values every component can work with;
* registry: no log that the filter selects is unknown, and a listed event is decoded as what
  its contract emitted.

## The modules

    Chunker ---- ChunkerProofs
       |
       +---- ChunkerRun --+
       |                  +-- ConfigFile ---- ConfigFileProofs   MCConfigFile
       +---- Config ------+                                         |
             Registry ----+                                      SampleContracts
       |                                                            |
       +---- Follow (+ Chain, LogStore) ---- FollowIdle ----+-- MCFollow
       |        INSTANCE LogFeed                            |
       |                                     ChainProofs ---+-- FollowProofs
       |
       +---- Backfill ---- BackfillProofs                        MCBackfill
       |        INSTANCE BackfillJob
       |
    Tracker ---- TrackerProofs                                   MCTracker
                INSTANCE ReceiptDesk
    Subscriber ---- SubscriberProofs
    RpcClient ---- RpcClientProofs                               MCRpcClient
                INSTANCE RemoteCall

**Chunker** holds the operations of `chunker.go` as operators on a record, with the
addition of `OnSuccess` modulo `Word` (2^64 in the build). **ChunkerRun** is the life
of one chunker under the two answers of `processRangeAdaptive`.

**Config** is what `Load` makes of a parsed file, as operators on the record the YAML is
unmarshalled into; a URL is a scheme and a host, a contract has the path of its ABI file and
what the file holds. **Registry** is what `LoadRegistry` builds,
which logs the node selects by the filter, and when `DecodeLog` succeeds: two events of one
name and one list of argument types have the same topic, also when they index different
arguments, and then one's layout does not fit the other's log. **ConfigFile** composes the two
with ChunkerRun (the name of a contract is compared without regard to case, through `Lower`):
requests to `/api/token/apply` read, change and rewrite the file
concurrently, `os.WriteFile` being two steps (truncate, write), the server dies at any of
them, and an indexer is started at any of them and runs a chunker with what it loaded.
**SampleContracts** are the contracts the instances use.

**Chain** is the environment: a block *is* the path from the first block to it, so
that equal blocks have equal hashes and a hash commits to the ancestors. `Mine` appends
a body, `Reorg` abandons any number of blocks above `final`, the height that
`FinalityDepth` successors have made final. **LogStore** is the two tables as operators
on sets of rows, including the rows `ON CONFLICT DO NOTHING` keeps.

**Follow** is the follower. Its program counter `pc` names the next RPC call or SQL statement:
`boot` (load the checkpoint), `detect`, `rollbackLogs` and `rollbackCheckpoints` (the two
statements of `RollbackFrom`), `head`, `getLogs`, `build` (one header per block number, as
`BlockCache` fetches them), `header` (the hash of the checkpoint, then its row). A row carries
the block it was found in and the block whose timestamp it got. `DecodeFails` is a log that the
filter selects and the registry cannot decode: the process ends with nothing of the chunk
stored. `Crash` ends the process at any step; as every failed RPC call or SQL statement other
than the head query makes `Follow` return and `main` exit, it stands for these too. `Boot` is
the next start of the program; nothing in the repository restarts it, an operator does. When
several checkpoints share the highest end, the query may return any of them and `LastCheckpoint`
is the set of these. In MCFollow, which logs cannot be decoded is computed by Registry from
SampleContracts.

**FollowIdle** asks when the rollback of the code is all that a reorganisation calls for. The
follower starts from the tables a backfill may have left instead of empty ones
(`BackfilledInit`): the rows of any set of chunks that could be stored (`Storable`), and the
checkpoints, disjoint and with gaps, of any of these. Rows without a checkpoint, of a worker that
failed, was cancelled or died between `InsertLogs` and `SaveRangeCheckpoint`, may lie below,
between and above the others. Three things are restricted. The network reorganises while the
process is asleep between two polls or down. It abandons no block of a checkpoint that another
one follows, and no block with rows before the first checkpoint or after the last one (in a
gap between two it may: such a row goes with the rollback of the last, see `Watched`). And the
process does not die between the two deletes of a rollback; it may die between the logs of a
chunk and their checkpoint. Each restriction excludes a behaviour that
[is described below](#what-the-code-does-not-keep) and leaves rows of an abandoned branch behind,
or checkpoints without their rows.

**LogFeed** is the abstract specification: a final chain that only grows and a set of
published rows to which the rows of the next whole blocks are added. `Follow` implements it
with `published` as the rows up to the last checkpoint's end.

**Backfill** models the producer with its unbuffered send, the workers with their
chunkers, the one-place error channel with cancellation, and the verdict. The chain does
not change in it; a log is its block number. `Interrupt` is SIGINT or SIGTERM, which
cancels the context from outside; `Kill` is death.

**BackfillJob** is its abstract specification, what the caller sees: a range is asked for, the
logs of stretches of it are stored, stretches that have their logs get a checkpoint, a signal
may come, and there is one verdict, after which nothing changes and which is ok only when
exactly the range asked for has checkpoints, or after a signal. Workers, jobs, chunk sizes,
the channels and the cancellation are hidden. The blocks indexed are those covered by a
checkpoint (`Covered`).

**Tracker** models the service loop, the fetch workers, the receipt workers and the
sweeper with one step for each critical section, RPC call, SQL statement and channel
operation. A worker is a record `[step, tx, ...]`. The network submits, replaces, announces
again and mines transactions, and abandons a block (`Unmine`), which puts its transaction
back into the pool; a slot is a pair of sender and nonce. The deferred release of
`handleReceipt` is the step `Release` on every path. The six attempts of `handleHash` are
one step with three outcomes: found, not found, failed. Without a bound on `announced`,
a hash that the subscriber drops is one the network does not announce.

**ReceiptDesk** is the abstract specification of its receipt half: hashes are admitted once
and up to a limit, asked for by one worker, seen in a block, marked, settled, and let go. A
hash of the goroutine about to send it and a hash in `receiptC` both wait; that the send is
not atomic with the reservation, and the branch for a full queue, are hidden, because the
desk has no step in which a hash that waits is forgotten. A row becomes mined and a transaction
untracked only for a hash that was seen in a block and is still being asked for.

**Subscriber** models a connection as one stream from the node, in which replies and
notifications come in the order the node sends them; the channels are counters, as it is
Tracker that uses the hashes. The pause doubles and is never reset, because `runOnce` never
returns nil.

**RpcClient** models `Call` for several goroutines: limiter, semaphore, request, judging the
reply, backoff. A reply is a class of outcomes the code treats alike; the module header
lists them. `served` counts what the node executed, also when the answer is lost.

**RemoteCall** is its abstract specification: calls with a number of tries, a bound on the
requests that are out, a node that executes each request at most once, and a verdict. `Left`,
`Unread` and `Verdict` are the mapping: a call is over as soon as its last reply has been read and
allows no retry, whatever steps the code still takes to return it.

## The runs

All passing runs together fire every action. Deadlock is checked except where the system
may stop: a backfill and a call end (Backfill, RpcClient), a subscriber waits when the
bounded network has gone quiet (Subscriber), and a config file that the operator wrote wrongly
lets nothing start (ConfigFile).

| Run | Checks | Bounds |
|---|---|---|
| `startup` | `FileSurvives`, `StartsSane`, `KnownEvents`, `StaysInBounds`, `Halves`, `GrowsBack` | sizes 0, 1, 7, 25, 40 in every combination, three choices of network, three lists of contracts; 2 requests with addresses of different lengths; 6 rejections or 6 stored chunks in a row, `Word` 64 |
| `follow_final` | `Fresh`, `Complete`, `ImplementsFeed` | `Confirmations = FinalityDepth = 2`, 5 blocks, 2 reorganisations, 2 faults, three log keys of which one cannot be decoded, at most 1 log per answer |
| `follow_anyreorg` | `TypeOK`, `Tiling`, `CatchesUp` | no confirmations, a reorganisation of any depth, 3 blocks, 1 fault, two log keys of which one cannot be decoded |
| `follow_idle` | `CleanWhenIndexing`, `RollbackCutsNone` | every set of disjoint checkpoints on a chain of up to 3 blocks to start from, and every set of stored chunks without one (1866 initial states); 2 reorganisations as FollowIdle restricts them; 4 blocks, 1 failure or death, not between the two deletes |
| `tracker_safe` | `TypeOK`, `InflightAccounted`, `SingleFlight`, `QueueHasRoom`, `OwnerTracked`, `OnePending`, `ImplementsDesk` | 2 transactions of one slot, 2 fetch workers and a receipt worker, limit 1, expiry, 1 failure, 1 restart |
| `tracker_live` | `MinedWasMined`, `Releases`, `StopsPolling` | 2 transactions of two slots that compete for a limit of 1, a worker of each kind, 1 abandoned block, 1 failed call or statement; no death, which empties the inflight set and the maps (it is in `tracker_safe`) |
| `backfill` | `TypeOK`, `Exclusive`, `CheckpointHasLogs`, `SuccessIsComplete`, `Returns`, `ImplementsJob` | 2 workers, ranges within 7 blocks, jobs of 2, at most 1 block per request, 1 failure, `Word` 32 |
| `rpc` | `TypeOK`, `SlotsAccounted`, `TooManyIsHeard`, `BoundedWork`, `Returns`, `ImplementsRemote` | 2 calls, 1 slot, 2 attempts each |
| `subscriber` | `TypeOK`, `Handshaken`, `Subscribes` | channels of 1, 3 notifications, 3 messages on their way, 2 losses |
| `follow_stale`, `tracker_upsert`, `backfill_gap` | violations | see below |

Why the bounds are enough for the question asked: a chunk of two blocks can exceed the result
limit and one of one block cannot, so shrinking happens; three indexed blocks give two
checkpoints of which the later can be abandoned while the earlier is not, or both; two keys let
a transaction move to another block; two bodies without logs make branches differ that hold the
same rows. The longest streaks a chunker can have before it is at a bound are in `startup` (40
is halved to 1 in five steps). In the tracker, two fetch workers interleave with each other, with
the one receipt worker, the scheduler and the sweeper; two receipt workers are in the proofs
only. Two transactions of one slot are a replacement (`tracker_safe`), two of two slots compete
for an inflight limit of 1 (`tracker_live`); larger limits are in the proofs only, and for the
two liveness properties not at all. A backfill of seven blocks in
jobs of two leaves each of two workers a job, more behind it, and an odd last job. The proofs
below remove the bounds where it matters most.

**Fairness.** `Follow`: the process keeps taking steps (it is restarted after it ends) and the
network keeps appending blocks; faults and reorganisations are bounded and never forced.
`CatchesUp` needs a node that answers the smallest chunk (`ResultLimit` 1, one log per block):
at the smallest size the code repeats a rejected request forever. `Tracker`: every goroutine
runs, and blocks keep coming, which triggers the next round of receipts; the code gives no
guarantee that a *particular* RPC call succeeds, so failures are bounded and unfair. Which of the
pending transactions a head schedules first is the order of a map, for which no fairness is
assumed. `Backfill`,
`RpcClient`: goroutines run, the limiter grants tokens, a request ends at the latest with the
HTTP timeout, sleeps end; weak fairness of the whole step of a call suffices, because a freed
slot is not taken forever by calls that return. `Subscriber`: its two goroutines run and the
node answers requests; losses and notifications are bounded, so that the node pauses at last.
Without such a pause `Subscribes` does not hold: a notification can overtake the reply to the
second request on every connection.

Each property of a passing run has a mutant (`PROJECT.json`): an altered operator beside the
original, such as `DeleteLogsAbove`, with which the run finds the property violated.

## What the code does not keep

Three runs expect a violation. Each states what a document of the repository says:

| Run | Statement | What happens |
|---|---|---|
| `follow_stale` | rollback when a block's hash changes (`docs/blockchain-guide.md:101`) | the checkpoint's hash is fetched after the logs: rows of one branch lie under the hash of another, and stay |
| `backfill_gap` | backfill, then follow (`docs/blockchain-guide.md:103`) | the follower resumes after the highest checkpoint, above what a failed worker left out |
| `tracker_upsert` | pending becomes mined when a receipt exists (`docs/mempool.md:16`) | the upsert writes pending after the receipt was handled |

The models hold twelve more behaviours that a reader of the properties should know of. No run is
spent on them:

* `Detect` compares the last checkpoint only. After a reorganisation deeper than that, one
  rollback keeps the checkpoint before it; it becomes the last no more, because indexing goes
  on above it, and the abandoned rows below stay. This is why `CleanWhenIndexing` is stated for
  reorganisations of the last checkpoint's blocks, and `CatchesUp` for the last checkpoint.
* Rows stored by a run that ended before it saved the checkpoint are under no checkpoint. If
  they lie before the first checkpoint or after the last one and their blocks are abandoned
  before the follower gets there, no hash that `Detect` compares tells of it; `InsertLogs` then
  keeps them, and nothing deletes them until some later rollback begins below them. Without the
  condition on such rows in `ShallowReorg`, TLC finds `CleanWhenIndexing` violated.
* A rollback that dies between its two deletes leaves a checkpoint whose rows are gone. When its
  branch is the chain again before the next start, `Detect` finds nothing wrong and the rows stay
  missing; without the condition on deaths in `IdleNext`, TLC
  finds `CleanWhenIndexing` violated.
* The sweeper decides by the map and writes the rows after it released the mutex, and a receipt
  worker marks a row mined before it takes the transaction out of the map: a mined row becomes
  dropped when the sweeper collects between the two, or writes after them.
* With several fetch workers the transaction that is resolved later counts as the
  replacement; that may be the original. `OnePending` holds for the maps in either order.
* The scheduler offers the pending transactions in the order of a map. When those that no block
  holds take up the limit on every head, a mined one is refused each time ("receipt inflight
  full, dropping hash") and asked for never, until the sweeper drops it. TLC finds this with two
  transactions and a limit of 1 as soon as the condition of `StopsPolling` is dropped. Go draws
  the order anew each time and the shipped limit is 50000, so in practice it is a delay.
* After a restart no goroutine tracks the pending rows of the table.
* A row that says mined keeps the status when its block is abandoned: `Forget` has removed the
  transaction from the maps. Only a new announcement makes `Upsert` write pending again.
  `MinedWasMined` states what such a row is worth: some block held the transaction.
* A transaction whose status in memory is dropped or replaced and that is announced again is
  upserted to pending, keeps its status in memory, and is not scheduled on new heads: another
  way to violate `PendingSettles`.
* The filter sent to the node is the product of all addresses and all topics. A contract's log
  that is not listed is selected when another contract lists an event with its topic; it is
  decoded with that event's layout, or, when other arguments are indexed, ends the follower,
  at the same block on every start. `KnownEvents`, `Complete` and `CatchesUp` say what holds
  nevertheless.
* `Call` judges the HTTP status before it reads the message. A node that says "too many results"
  under 429 or a 5xx is asked the same again, and after the last attempt the caller gets an
  ordinary error: the chunk does not shrink and the indexer ends, at the same range on every start.
  `TooManyIsHeard` says which answers are heard.
* The rewrite of the config file is neither atomic nor exclusive. `FileSurvives` states its
  only bad ends: a death between truncation and write, and two overlapping requests whose
  addresses differ in length.

The follower's divergences need a reorganisation that confirmations do not exclude: with
`Confirmations >= FinalityDepth` it is proved correct. The shipped configurations set
`confirmations: 0`.

## The proofs

`tlapm` checks every proof; each holds for all values of the constants that satisfy the
named assumptions of the modules.

* **FollowProofs.** `TypeCorrect` strengthens `TypeOK` with the maximum of the chunker,
  which never changes (so that its growth cannot wrap; `ChunkAssumption`). `TilingHolds`:
  `Tiling` is inductive: checkpoints are disjoint, each continues another or starts
  at `StartBlock`, and the process stands where they end. A rollback must find the boundary
  between the last two, which is why `CheckpointBefore(cp.start)` returning the
  predecessor's end + 1 equals `cp.start`. `FreshHolds`, `CompleteHolds` and
  `FeedImplemented` assume `FinalityDepth <= Confirmations`. Their invariant `FinalInv` says
  that everything the follower holds (rows, buffers, checkpoints, target) belongs to the
  final part of the chain, that a key occurs once on a chain, and that between `getLogs`
  and the checkpoint the logs of the chunk are in the buffers or the table; the last is needed
  because a stored row of an earlier, crashed attempt makes `InsertLogs` skip the new one,
  which must then be equal. ChainProofs has the facts on the environment: final blocks, and
  the logs of final ranges, never change. `FeedImplemented` maps each step: saving a checkpoint
  is `Publish`, mining may be `Finalize`, all else stutters.
  `RollbackCutsNoneHolds` follows from `Tiling` alone, without the assumption on finality.

  `CleanWhenIndexingHolds` and `RollbackCutsNoneAfterBackfill` are about FollowIdle, for any
  chain of the backfill and any chunks (`Backfills` is all that is assumed of them), and need
  neither finality nor `Tiling`, which the gaps of a backfill break. They hold under the
  restrictions of FollowIdle and are claimed for nothing else. Their invariant `IdleInv` says of
  every row (`Rooted`) that it has the time of the block it was found in (`Genuine`); that it is
  canonical, or goes with the last checkpoint (`Exposed`: its number is in the span of the
  checkpoints and above all that another follows); and that, at or below the last checkpoint's
  end, it is on the branch which the hash of that checkpoint names. Conversely all rows of the
  kept checkpoints, and of a chunk stored but not yet saved, are there (`Full`). Every checkpoint
  that another follows is canonical, and between a clean `Detect` and the next poll all of them
  (`Branches`); from the getLogs answer to the checkpoint everything in the buffers is on the
  chain (`Assembled`); and a rollback begins right after a checkpoint that another follows, or
  below all of them (`Position`). A hash commits to its ancestors, so when the last checkpoint is
  canonical so are all rows up to its end, and when it is not, the rollback that deletes it
  deletes every row that is not, with or without a checkpoint of its own. A death between the
  logs of a chunk and their checkpoint leaves canonical rows, which the restriction on
  reorganisations then protects. A key occurs once on a chain (`OneChain`, `CanonicalKey`), so
  that the row `InsertLogs` keeps equals the one it skips. The greatest end of a finite set of
  checkpoints comes from the well-foundedness of the naturals (`Least`, `Greatest`).
* **TrackerProofs.** `InflightAccounted` and `SingleFlight` are inductive together: that a
  release removes the right hash needs that no other goroutine holds it. `QueueHasRoom` follows
  by counting: queue and senders are disjoint subsets of an inflight set no larger than the
  limit. `OnePending` needs, besides `OwnerTracked`, that a worker on its way to mark a
  transaction replaced is not that transaction's owner. `MinedWasMined` needs that a receipt
  worker on its way to mark a row has seen a receipt, and that no step takes a transaction out
  of those some block held. `DeskImplemented` maps each of the thirty-odd actions to one of the
  desk or to a stutter (lemmas `Desk...`, by goroutine). It rests on both accounts: that a hash
  can be admitted needs that the inflight set is exactly the hashes that wait or are asked for;
  that the send loses nothing is `QueueHasRoom`; that a worker which lets go of its hash takes
  no other worker's out of `asking` or `seen` is `SingleFlight`.
* **BackfillProofs.** `Exclusive` and `CheckpointHasLogs` are proved with an invariant that puts
  all jobs below the producer's cursor; `SuccessIsComplete` with one that follows every block
  from the cursor to a worker, a checkpoint or a recorded error. `SmallAssumption` excludes the
  wrap of `rEnd` near 2^64. `JobImplemented` joins them: storing a chunk is `Log`, its
  checkpoint is `Index`, the verdict is `Finish`, and the rest is `Ask`, `Refuse`, `Signal` or
  hidden. Besides the three it needs that nobody leaves the range asked for (`Within`), and that
  a worker takes a step only while there is no verdict (`WorkerRuns`, from `wg.Wait`).
* **RpcClientProofs.** One invariant per call (attempt, executions, answers by program counter)
  and the count of slot holders. `RemoteImplemented` maps the eleven steps of a call to six of
  the abstract one; that a request which has come back has a reply (`Replied`) is all it needs
  besides.
* **ChunkerProofs.** The operators preserve the bounds, shrink and grow.
* **ConfigFileProofs.** Two invariants. `FileInv`: the text of every request in flight and of
  the file is the shipped config with at most the token's address changed, its length is that of
  an address somebody applied, and two requests that write at the same time have overlapped;
  the file is unreadable only as `FileSurvives` says. That a second request changes the *same*
  contract needs that the choice of the contract looks at names only (`TextSetAgain`), and that the
  first contract with a token's name exists (`LeastNatural`, from the well-foundedness of finite
  sets). `RunInv`: the indexer's config is what `Validated` made of such a text, its chunker has
  the bounds of that config, and the streaks hold. `HalvesHolds` counts rejections by powers of
  two, so that no recursion is involved. The assumptions are that the operator's files parse and
  name a contract, and that a tenth of the largest chunk size still fits the word.
* **SubscriberProofs.** `Handshaken` is proved with an invariant that follows requests and
  replies through a connection: a request is out, or its reply is in the stream, never both; a
  reply is the only one in the stream; and if it confirms, the node has accepted what the client
  awaits. Hence the reply that ends a handshake leaves none behind.

Only model-checked: all liveness (`CatchesUp`, `Releases`, `StopsPolling`, the two `Returns`,
`Subscribes`), which needs ENABLED and is out of the prover's reach, and the three violations.
Every safety property that a passing run checks is also proved.

## What is left out

* `config`: the defaults of the UI section, of the intervals and of the database driver; the
  overrides that `Service.Run` takes from flags.
* `decode`: the decoded values, which are only stored, and the decoder of a transaction's input.
* `metrics`, `ListLogs`, `ListMempool`: read or count only.
* `cmd/ui`: the handlers other than the rewrite of the config file; they share no mutable
  state. The repeated `eth_sendTransaction` of `handleSendTx` is covered by `BoundedWork`.
* flags and wiring of `cmd/indexer`; the Hardhat network.
* Inside the models: durations (a pause, the TTL and the ticker are order only), columns other
  than those named, the drop of announced hashes at the subscriber's channel in Tracker (it is
  in Subscriber), overlapping checkpoints from several backfills, the chain during a backfill,
  and a change of the configured contracts between two starts of the follower: checkpoints do
  not say which contracts they cover, so that a contract applied later never gets its logs of
  the blocks before. Subscriber's pause is never reset, so that after five losses every later
  reconnect waits 30 seconds; as durations are left out, no property is about it.

## The plan

Order of work, the most important behaviour first. Done: 1 to 12.

1. Chunker, LogStore, Chain, Follow; runs without and with finality; `Tiling`.
2. LogFeed and the refinement; proofs of `Fresh`, `Complete` and the refinement.
3. Tracker with its findings; proofs of the accounting and of `OnePending`.
4. Backfill with proofs.
5. RpcClient with proofs.
6. Subscriber, safety and liveness, and the proofs of its invariants.
7. Backfill composed with Follow: start from the tables a backfill leaves, what a rollback does
   to them (`RollbackCutsNone`, `CleanWhenIndexing`).
8. Reorganisations in Tracker's network: what a mined row is worth.
9. Config, Registry and the config file that the UI rewrites, with proofs.
10. A decoder that fails: the follower's behaviour on a log it cannot decode.
11. FollowIdle: the proof that a rollback is enough in its environment, from any tables a
    backfill leaves.
12. BackfillJob, ReceiptDesk and RemoteCall, and the proofs that Backfill, Tracker and RpcClient
    implement them.
13. Left: checkpoints of two backfills over the same blocks; a change of contracts between two
    starts of the follower; what the follower keeps of its table without the assumption on
    finality, as an abstract ledger of ranges.
