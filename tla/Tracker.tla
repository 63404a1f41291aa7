------------------------------ MODULE Tracker ------------------------------
(***************************************************************************)
(* The mempool feed of internal/mempool: the service loop, the fetch       *)
(* workers that resolve announced hashes and call HandleTx, the receipt    *)
(* workers, and the sweeper that drops expired transactions, all sharing   *)
(* the Tracker's maps under one mutex and the mempool_txs table.           *)
(*                                                                         *)
(* Every critical section, every RPC call, every SQL statement and every   *)
(* channel operation is a step of its own, because the goroutines          *)
(* interleave between any two of them.                                     *)
(***************************************************************************)
EXTENDS Integers, Sequences, FiniteSets

CONSTANTS
    Tx,             \* transactions
    Slot,           \* pairs of sender and nonce
    SlotOf,         \* the slot of each transaction
    None,           \* no transaction
    FetchWorker,    \* goroutines of Fetcher.Run
    ReceiptWorker,  \* goroutines of Tracker.Start
    TrackLifecycle, \* mempool.track_lifecycle: schedule receipts on new heads
    MaxInflight,    \* mempool.max_inflight_hashes
    HeadCapacity,   \* capacity of headC
    DroppedTTL,     \* mempool.dropped_ttl, in ticks of the clock
    MaxClock,       \* bound: ticks of the clock
    MaxDuplicates,  \* bound: repeated announcements
    MaxReorgs,      \* bound: mined transactions whose block is abandoned
    MaxFaults,      \* bound: failed RPC calls and failed SQL statements
    MaxCrashes      \* bound: process deaths

ASSUME TrackerAssumption ==
    /\ SlotOf \in [Tx -> Slot]
    /\ None \notin Tx
    /\ TrackLifecycle \in BOOLEAN
    /\ {MaxInflight, HeadCapacity} \subseteq Nat \ {0}
    /\ {DroppedTTL, MaxClock, MaxDuplicates, MaxReorgs, MaxFaults, MaxCrashes} \subseteq Nat

VARIABLES
    pool,           \* network: transactions the node can return
    onChain,        \* network: mined transactions
    abandoned,      \* network: transactions a block of which was abandoned
    evicted,        \* network: transactions another of their slot pushed out
    announced,      \* subscriber: hashes on their way to the service, in order
    heads,          \* subscriber: new heads in headC
    duplicates,     \* repeated announcements so far
    clock,          \* time, in ticks
    faults, crashes,\* failures and deaths so far
    rows,           \* table mempool_txs: the status of each transaction's row
    txs,            \* Tracker.txs: status and first-seen time, or untracked
    fromNonce,      \* Tracker.fromNonce: the transaction that owns a slot
    inflight,       \* Tracker.inflight
    receiptC,       \* Tracker.receiptC
    pendingC,       \* Fetcher.pendingC
    fetch,          \* the fetch workers
    receipt,        \* the receipt workers
    service,        \* the service loop
    dropping        \* the sweeper: rows it has still to mark dropped

network == <<pool, onChain, abandoned, evicted, announced, heads, duplicates, clock>>
budget == <<faults, crashes>>
maps == <<txs, fromNonce>>
queue == <<inflight, receiptC>>
vars == <<network, budget, rows, maps, queue, pendingC, fetch, receipt, service, dropping>>

Untracked == [status |-> "none", firstSeen |-> 0]
IdleFetch == [step |-> "idle", tx |-> None, replaced |-> None]
IdleReceipt == [step |-> "idle", tx |-> None]
IdleService == [step |-> "idle", todo |-> {}, tx |-> None]

Tracked(h) == txs[h].status # "none"

InitMemory ==
    /\ announced = <<>> /\ heads = 0
    /\ txs = [h \in Tx |-> Untracked]
    /\ fromNonce = [s \in Slot |-> None]
    /\ inflight = {} /\ receiptC = <<>> /\ pendingC = <<>>
    /\ fetch = [w \in FetchWorker |-> IdleFetch]
    /\ receipt = [w \in ReceiptWorker |-> IdleReceipt]
    /\ service = IdleService
    /\ dropping = {}

Init ==
    /\ pool = {} /\ onChain = {} /\ abandoned = {} /\ evicted = {}
    /\ duplicates = 0 /\ clock = 0 /\ faults = 0 /\ crashes = 0
    /\ rows = [h \in Tx |-> "absent"]
    /\ InitMemory

-----------------------------------------------------------------------------
(* The network and the subscriber, which delivers in order what the node   *)
(* sends and drops a head when headC is full.                              *)
Competitors(h) == {other \in Tx \ {h} : SlotOf[other] = SlotOf[h]}

PushHeadUnbounded == heads' = heads + 1

PushHead == heads' = IF heads < HeadCapacity THEN heads + 1 ELSE heads

(* A transaction enters the pool, in place of one with the same slot that  *)
(* paid less and so will not be accepted again.                            *)
Submit(h) ==
    /\ h \notin pool \cup onChain \cup evicted
    /\ Competitors(h) \cap onChain = {}
    /\ pool' = (pool \ Competitors(h)) \cup {h}
    /\ evicted' = evicted \cup (pool \cap Competitors(h))
    /\ announced' = Append(announced, h)
    /\ UNCHANGED <<onChain, abandoned, heads, duplicates, clock>>

Reannounce(h) ==
    /\ h \in pool
    /\ duplicates < MaxDuplicates
    /\ duplicates' = duplicates + 1
    /\ announced' = Append(announced, h)
    /\ UNCHANGED <<pool, onChain, abandoned, evicted, heads, clock>>

(* A block may hold a transaction that this node's pool has pushed out; of *)
(* one slot only one transaction is ever mined.                            *)
MineTx(h) ==
    /\ h \in pool \cup evicted
    /\ ({h} \cup Competitors(h)) \cap onChain = {}
    /\ pool' = pool \ ({h} \cup Competitors(h))
    /\ onChain' = onChain \cup {h}
    /\ PushHead
    /\ UNCHANGED <<abandoned, evicted, announced, duplicates, clock>>

(* The block that holds a transaction is abandoned: another block is the   *)
(* new head, and the transaction is back in the pool, announced or not.    *)
Unmine(h) ==
    /\ h \in onChain \ abandoned
    /\ Cardinality(abandoned) < MaxReorgs
    /\ onChain' = onChain \ {h} /\ pool' = pool \cup {h}
    /\ abandoned' = abandoned \cup {h}
    /\ announced' \in {announced, Append(announced, h)}
    /\ PushHead
    /\ UNCHANGED <<evicted, duplicates, clock>>

MineOther ==
    /\ PushHead
    /\ UNCHANGED <<pool, onChain, abandoned, evicted, announced, duplicates, clock>>

Tick ==
    /\ clock < MaxClock
    /\ clock' = clock + 1
    /\ UNCHANGED <<pool, onChain, abandoned, evicted, announced, heads, duplicates>>

Network ==
    /\ MineOther \/ Tick \/ \E h \in Tx : Submit(h) \/ Reannounce(h) \/ MineTx(h) \/ Unmine(h)
    /\ UNCHANGED <<budget, rows, maps, queue, pendingC, fetch, receipt, service, dropping>>

Fail ==
    /\ faults < MaxFaults
    /\ faults' = faults + 1
    /\ UNCHANGED crashes

-----------------------------------------------------------------------------
(* enqueueReceipt, in two steps: reserve under the mutex, then send.       *)
CanReserveUnbounded(h) == h \notin inflight

CanReserve(h) == h \notin inflight /\ Cardinality(inflight) < MaxInflight

SendLeavingRoom(h) ==
    IF Len(receiptC) + 1 < MaxInflight
    THEN receiptC' = Append(receiptC, h) /\ UNCHANGED inflight
    ELSE inflight' = inflight \ {h} /\ UNCHANGED receiptC

Send(h) ==
    IF Len(receiptC) < MaxInflight
    THEN receiptC' = Append(receiptC, h) /\ UNCHANGED inflight
    ELSE inflight' = inflight \ {h} /\ UNCHANGED receiptC

-----------------------------------------------------------------------------
(* The service loop: hand a hash to the fetcher, which drops it when its   *)
(* queue is full, or, on a new head, schedule a receipt for every pending  *)
(* transaction.                                                            *)
TakeHash ==
    /\ service.step = "idle"
    /\ announced # <<>>
    /\ announced' = Tail(announced)
    /\ pendingC' = IF Len(pendingC) < MaxInflight
                   THEN Append(pendingC, Head(announced)) ELSE pendingC
    /\ UNCHANGED <<pool, onChain, abandoned, evicted, heads, duplicates, clock, budget, rows,
                   maps, queue, fetch, receipt, service, dropping>>

TakeHead ==
    /\ service.step = "idle"
    /\ heads > 0
    /\ heads' = heads - 1
    /\ service' = [step |-> "schedule", tx |-> None,
                   todo |-> {h \in Tx : TrackLifecycle /\ txs[h].status = "pending"}]
    /\ UNCHANGED <<pool, onChain, abandoned, evicted, announced, duplicates, clock, budget, rows,
                   maps, queue, pendingC, fetch, receipt, dropping>>

ScheduleReserve(h) ==
    /\ service.step = "schedule" /\ h \in service.todo
    /\ IF CanReserve(h)
       THEN /\ inflight' = inflight \cup {h}
            /\ service' = [step |-> "send", todo |-> service.todo \ {h}, tx |-> h]
       ELSE /\ service' = [service EXCEPT !.todo = @ \ {h}]
            /\ UNCHANGED inflight
    /\ UNCHANGED <<network, budget, rows, maps, receiptC, pendingC, fetch, receipt, dropping>>

ScheduleSend ==
    /\ service.step = "send"
    /\ Send(service.tx)
    /\ service' = [service EXCEPT !.step = "schedule", !.tx = None]
    /\ UNCHANGED <<network, budget, rows, maps, pendingC, fetch, receipt, dropping>>

ScheduleDone ==
    /\ service.step = "schedule" /\ service.todo = {}
    /\ service' = IdleService
    /\ UNCHANGED <<network, budget, rows, maps, queue, pendingC, fetch, receipt, dropping>>

Service ==
    \/ TakeHash \/ TakeHead \/ ScheduleSend \/ ScheduleDone
    \/ \E h \in Tx : ScheduleReserve(h)

-----------------------------------------------------------------------------
(* A fetch worker: handleHash and, when the node knows the transaction,    *)
(* HandleTx.  The six attempts are one step, which fails or finds.         *)
FetchTake(w) ==
    /\ fetch[w].step = "idle"
    /\ pendingC # <<>>
    /\ pendingC' = Tail(pendingC)
    /\ fetch' = [fetch EXCEPT ![w] =
                    [step |-> "fetch", tx |-> Head(pendingC), replaced |-> None]]
    /\ UNCHANGED <<network, budget, rows, maps, queue, receipt, service, dropping>>

FetchFound(w) ==
    /\ fetch[w].step = "fetch"
    /\ fetch[w].tx \in pool \cup onChain
    /\ fetch' = [fetch EXCEPT ![w].step = "claim"]
    /\ UNCHANGED <<network, budget, rows, maps, queue, pendingC, receipt, service, dropping>>

FetchNotFound(w) ==
    /\ fetch[w].step = "fetch"
    /\ fetch[w].tx \notin pool \cup onChain
    /\ fetch' = [fetch EXCEPT ![w] = IdleFetch]
    /\ UNCHANGED <<network, budget, rows, maps, queue, pendingC, receipt, service, dropping>>

FetchFails(w) ==
    /\ fetch[w].step = "fetch"
    /\ Fail
    /\ fetch' = [fetch EXCEPT ![w] = IdleFetch]
    /\ UNCHANGED <<network, rows, maps, queue, pendingC, receipt, service, dropping>>

ClaimIgnoringOwner(w) ==
    LET h == fetch[w].tx IN
    /\ fetch[w].step = "claim"
    /\ fromNonce' = [fromNonce EXCEPT ![SlotOf[h]] = h]
    /\ txs' = [txs EXCEPT ![h] = [status |-> "pending", firstSeen |-> clock]]
    /\ fetch' = [fetch EXCEPT ![w].step = "upsert"]
    /\ UNCHANGED <<network, budget, rows, queue, pendingC, receipt, service, dropping>>

(* The first critical section of HandleTx: take over the slot, remember    *)
(* whom it is taken from, and track the transaction unless it already is.  *)
Claim(w) ==
    LET h == fetch[w].tx
        owner == fromNonce[SlotOf[h]]
    IN  /\ fetch[w].step = "claim"
        /\ fromNonce' = [fromNonce EXCEPT ![SlotOf[h]] = h]
        /\ txs' = IF Tracked(h) THEN txs
                  ELSE [txs EXCEPT ![h] = [status |-> "pending", firstSeen |-> clock]]
        /\ fetch' = IF owner \in {None, h}
                    THEN [fetch EXCEPT ![w].step = "upsert"]
                    ELSE [fetch EXCEPT ![w] =
                             [step |-> "markReplaced", tx |-> h, replaced |-> owner]]
        /\ UNCHANGED <<network, budget, rows, queue, pendingC, receipt, service, dropping>>

(* An UPDATE of a row that is not there changes nothing.                   *)
SetStatus(h, status) ==
    IF rows[h] = "absent" THEN rows ELSE [rows EXCEPT ![h] = status]

MarkReplaced(w) ==
    /\ fetch[w].step = "markReplaced"
    /\ rows' = SetStatus(fetch[w].replaced, "replaced")
    /\ fetch' = [fetch EXCEPT ![w].step = "setReplaced"]
    /\ UNCHANGED <<network, budget, maps, queue, pendingC, receipt, service, dropping>>

(* Its error is ignored.                                                   *)
MarkReplacedFails(w) ==
    /\ fetch[w].step = "markReplaced"
    /\ Fail
    /\ fetch' = [fetch EXCEPT ![w].step = "setReplaced"]
    /\ UNCHANGED <<network, rows, maps, queue, pendingC, receipt, service, dropping>>

SetReplaced(w) ==
    /\ fetch[w].step = "setReplaced"
    /\ txs' = IF Tracked(fetch[w].replaced)
              THEN [txs EXCEPT ![fetch[w].replaced].status = "replaced"] ELSE txs
    /\ fetch' = [fetch EXCEPT ![w] = [step |-> "upsert", tx |-> @.tx, replaced |-> None]]
    /\ UNCHANGED <<network, budget, rows, fromNonce, queue, pendingC, receipt, service, dropping>>

(* INSERT ... ON CONFLICT DO UPDATE SET status = excluded.status.          *)
Upsert(w) ==
    /\ fetch[w].step = "upsert"
    /\ rows' = [rows EXCEPT ![fetch[w].tx] = "pending"]
    /\ fetch' = [fetch EXCEPT ![w].step = "reserve"]
    /\ UNCHANGED <<network, budget, maps, queue, pendingC, receipt, service, dropping>>

UpsertFails(w) ==
    /\ fetch[w].step = "upsert"
    /\ Fail
    /\ fetch' = [fetch EXCEPT ![w] = IdleFetch]
    /\ UNCHANGED <<network, rows, maps, queue, pendingC, receipt, service, dropping>>

FetchReserve(w) ==
    /\ fetch[w].step = "reserve"
    /\ IF CanReserve(fetch[w].tx)
       THEN /\ inflight' = inflight \cup {fetch[w].tx}
            /\ fetch' = [fetch EXCEPT ![w].step = "send"]
       ELSE /\ fetch' = [fetch EXCEPT ![w] = IdleFetch]
            /\ UNCHANGED inflight
    /\ UNCHANGED <<network, budget, rows, maps, receiptC, pendingC, receipt, service, dropping>>

FetchSend(w) ==
    /\ fetch[w].step = "send"
    /\ Send(fetch[w].tx)
    /\ fetch' = [fetch EXCEPT ![w] = IdleFetch]
    /\ UNCHANGED <<network, budget, rows, maps, pendingC, receipt, service, dropping>>

FetchStep(w) ==
    \/ FetchTake(w) \/ FetchFound(w) \/ FetchNotFound(w) \/ Claim(w) \/ MarkReplaced(w)
    \/ SetReplaced(w) \/ Upsert(w) \/ FetchReserve(w) \/ FetchSend(w)

FetchFault(w) == FetchFails(w) \/ MarkReplacedFails(w) \/ UpsertFails(w)

-----------------------------------------------------------------------------
(* A receipt worker: handleReceipt, whose deferred function releases the   *)
(* hash whatever happened.                                                 *)
ReceiptTakeReleasing(w) ==
    /\ receipt[w].step = "idle"
    /\ receiptC # <<>>
    /\ receiptC' = Tail(receiptC)
    /\ inflight' = inflight \ {Head(receiptC)}
    /\ receipt' = [receipt EXCEPT ![w] = [step |-> "ask", tx |-> Head(receiptC)]]
    /\ UNCHANGED <<network, budget, rows, maps, pendingC, fetch, service, dropping>>

(* The hash stays inflight until the worker is done with it.               *)
ReceiptTake(w) ==
    /\ receipt[w].step = "idle"
    /\ receiptC # <<>>
    /\ receiptC' = Tail(receiptC)
    /\ receipt' = [receipt EXCEPT ![w] = [step |-> "ask", tx |-> Head(receiptC)]]
    /\ UNCHANGED <<network, budget, rows, maps, inflight, pendingC, fetch, service, dropping>>

ReceiptNone(w) ==
    /\ receipt[w].step = "ask"
    /\ receipt[w].tx \notin onChain
    /\ receipt' = [receipt EXCEPT ![w].step = "release"]
    /\ UNCHANGED <<network, budget, rows, maps, queue, pendingC, fetch, service, dropping>>

ReceiptAssumed(w) ==
    /\ receipt[w].step = "ask"
    /\ receipt' = [receipt EXCEPT ![w].step = "markMined"]
    /\ UNCHANGED <<network, budget, rows, maps, queue, pendingC, fetch, service, dropping>>

ReceiptMined(w) ==
    /\ receipt[w].step = "ask"
    /\ receipt[w].tx \in onChain
    /\ receipt' = [receipt EXCEPT ![w].step = "markMined"]
    /\ UNCHANGED <<network, budget, rows, maps, queue, pendingC, fetch, service, dropping>>

ReceiptFailsKeepingSlot(w) ==
    /\ receipt[w].step \in {"ask", "markMined"}
    /\ Fail
    /\ receipt' = [receipt EXCEPT ![w] = IdleReceipt]
    /\ UNCHANGED <<network, rows, maps, queue, pendingC, fetch, service, dropping>>

(* The call, or the statement, fails.                                      *)
ReceiptFails(w) ==
    /\ receipt[w].step \in {"ask", "markMined"}
    /\ Fail
    /\ receipt' = [receipt EXCEPT ![w].step = "release"]
    /\ UNCHANGED <<network, rows, maps, queue, pendingC, fetch, service, dropping>>

MarkMined(w) ==
    /\ receipt[w].step = "markMined"
    /\ rows' = SetStatus(receipt[w].tx, "mined")
    /\ receipt' = [receipt EXCEPT ![w].step = "forget"]
    /\ UNCHANGED <<network, budget, maps, queue, pendingC, fetch, service, dropping>>

ForgetKeepingSlot(w) ==
    /\ receipt[w].step = "forget"
    /\ txs' = [txs EXCEPT ![receipt[w].tx] = Untracked]
    /\ receipt' = [receipt EXCEPT ![w].step = "release"]
    /\ UNCHANGED <<network, budget, rows, fromNonce, queue, pendingC, fetch, service, dropping>>

Forget(w) ==
    LET h == receipt[w].tx IN
    /\ receipt[w].step = "forget"
    /\ txs' = [txs EXCEPT ![h] = Untracked]
    /\ fromNonce' = IF Tracked(h) /\ fromNonce[SlotOf[h]] = h
                    THEN [fromNonce EXCEPT ![SlotOf[h]] = None] ELSE fromNonce
    /\ receipt' = [receipt EXCEPT ![w].step = "release"]
    /\ UNCHANGED <<network, budget, rows, queue, pendingC, fetch, service, dropping>>

ReleaseForgotten(w) ==
    /\ receipt[w].step = "release"
    /\ inflight' = IF Tracked(receipt[w].tx) THEN inflight ELSE inflight \ {receipt[w].tx}
    /\ receipt' = [receipt EXCEPT ![w] = IdleReceipt]
    /\ UNCHANGED <<network, budget, rows, maps, receiptC, pendingC, fetch, service, dropping>>

Release(w) ==
    /\ receipt[w].step = "release"
    /\ inflight' = inflight \ {receipt[w].tx}
    /\ receipt' = [receipt EXCEPT ![w] = IdleReceipt]
    /\ UNCHANGED <<network, budget, rows, maps, receiptC, pendingC, fetch, service, dropping>>

ReceiptStep(w) ==
    \/ ReceiptTake(w) \/ ReceiptNone(w) \/ ReceiptMined(w) \/ MarkMined(w)
    \/ Forget(w) \/ Release(w)

-----------------------------------------------------------------------------
(* The sweeper: dropExpired marks what has expired under the mutex, then   *)
(* updates one row after the other, whatever they say by then.             *)
Expired == {h \in Tx : txs[h].status = "pending" /\ txs[h].firstSeen + DroppedTTL < clock}

Sweep ==
    /\ dropping = {} /\ Expired # {}
    /\ dropping' = Expired
    /\ txs' = [h \in Tx |-> IF h \in Expired THEN [txs[h] EXCEPT !.status = "dropped"]
                            ELSE txs[h]]
    /\ UNCHANGED <<network, budget, rows, fromNonce, queue, pendingC, fetch, receipt, service>>

MarkDropped(h) ==
    /\ h \in dropping
    /\ rows' = SetStatus(h, "dropped")
    /\ dropping' = dropping \ {h}
    /\ UNCHANGED <<network, budget, maps, queue, pendingC, fetch, receipt, service>>

MarkDroppedFails(h) ==
    /\ h \in dropping
    /\ Fail
    /\ dropping' = dropping \ {h}
    /\ UNCHANGED <<network, rows, maps, queue, pendingC, fetch, receipt, service>>

Sweeper == Sweep \/ \E h \in Tx : MarkDropped(h)

-----------------------------------------------------------------------------
(* The process dies and is started again: its memory, its queues and its   *)
(* subscription start from nothing, the table stays.                       *)
Crash ==
    /\ crashes < MaxCrashes
    /\ crashes' = crashes + 1
    /\ announced' = <<>> /\ heads' = 0
    /\ txs' = [h \in Tx |-> Untracked]
    /\ fromNonce' = [s \in Slot |-> None]
    /\ inflight' = {} /\ receiptC' = <<>> /\ pendingC' = <<>>
    /\ fetch' = [w \in FetchWorker |-> IdleFetch]
    /\ receipt' = [w \in ReceiptWorker |-> IdleReceipt]
    /\ service' = IdleService
    /\ dropping' = {}
    /\ UNCHANGED <<pool, onChain, abandoned, evicted, duplicates, clock, faults, rows>>

Fault ==
    \/ \E w \in FetchWorker : FetchFault(w)
    \/ \E w \in ReceiptWorker : ReceiptFails(w)
    \/ \E h \in Tx : MarkDroppedFails(h)
    \/ Crash

Next ==
    \/ Network
    \/ Service
    \/ \E w \in FetchWorker : FetchStep(w)
    \/ \E w \in ReceiptWorker : ReceiptStep(w)
    \/ Sweeper
    \/ Fault

Spec == Init /\ [][Next]_vars

(* Every goroutine keeps running, and the network keeps producing blocks.  *)
Fairness ==
    /\ WF_vars(Service) /\ WF_vars(Sweeper)
    /\ \A w \in FetchWorker : WF_vars(FetchStep(w))
    /\ \A w \in ReceiptWorker : WF_vars(ReceiptStep(w))
    /\ WF_vars(MineOther /\ Network)

FairSpec == Spec /\ Fairness
-----------------------------------------------------------------------------
Statuses == {"pending", "replaced", "dropped"}
MaybeTx == Tx \cup {None}
FetchSteps == {"idle", "fetch", "claim", "markReplaced", "setReplaced", "upsert", "reserve", "send"}
ReceiptSteps == {"idle", "ask", "markMined", "forget", "release"}

NetworkOK ==
    /\ {pool, onChain, abandoned, evicted} \subseteq SUBSET Tx
    /\ announced \in Seq(Tx) /\ heads \in 0..HeadCapacity
    /\ duplicates \in Nat /\ clock \in Nat /\ faults \in Nat /\ crashes \in Nat

TablesOK ==
    /\ rows \in [Tx -> Statuses \cup {"absent", "mined"}]
    /\ txs \in [Tx -> [status : Statuses \cup {"none"}, firstSeen : Nat]]
    /\ fromNonce \in [Slot -> MaybeTx]

QueuesOK ==
    /\ inflight \subseteq Tx /\ receiptC \in Seq(Tx) /\ pendingC \in Seq(Tx)

FetchOK ==
    /\ fetch \in [FetchWorker -> [step : FetchSteps, tx : MaybeTx, replaced : MaybeTx]]
    /\ \A w \in FetchWorker :
          /\ fetch[w].step # "idle" => fetch[w].tx \in Tx
          /\ fetch[w].step \in {"markReplaced", "setReplaced"} => fetch[w].replaced \in Tx

ReceiptOK ==
    /\ receipt \in [ReceiptWorker -> [step : ReceiptSteps, tx : MaybeTx]]
    /\ \A w \in ReceiptWorker : receipt[w].step # "idle" => receipt[w].tx \in Tx

ServiceOK ==
    /\ service \in [step : {"idle", "schedule", "send"}, todo : SUBSET Tx, tx : MaybeTx]
    /\ service.step = "send" => service.tx \in Tx
    /\ dropping \subseteq Tx

(* Every variable has its type; a worker that is not idle has a            *)
(* transaction, and one that replaces has the transaction it replaces.     *)
TypeOK == NetworkOK /\ TablesOK /\ QueuesOK /\ FetchOK /\ ReceiptOK /\ ServiceOK

(* Who has the right to a reserved hash: the goroutine about to send it,   *)
(* a place in the queue, or the receipt worker that took it.               *)
Senders == {w \in FetchWorker : fetch[w].step = "send"}
Askers == {w \in ReceiptWorker : receipt[w].step # "idle"}
Sending == {fetch[w].tx : w \in Senders}
           \cup {h \in Tx : service.step = "send" /\ service.tx = h}
Queued == {receiptC[i] : i \in 1..Len(receiptC)}
Asking == {receipt[w].tx : w \in Askers}

(* The inflight set is exactly the hashes someone still holds: none leaks, *)
(* so the limit never fills up for good (tracker.go:116-136, 166-170).     *)
InflightAccounted == inflight = Sending \cup Queued \cup Asking

(* A hash has one holder: no two workers ask for the same receipt, and no  *)
(* hash is in the queue twice (tracker.go:116-127).                        *)
SingleFlight ==
    /\ Sending \cap Queued = {} /\ Sending \cap Asking = {} /\ Queued \cap Asking = {}
    /\ \A v, w \in Senders : v # w => fetch[v].tx # fetch[w].tx
    /\ service.step = "send" => \A w \in Senders : fetch[w].tx # service.tx
    /\ \A i, j \in 1..Len(receiptC) : i # j => receiptC[i] # receiptC[j]
    /\ \A v, w \in Askers : v # w => receipt[v].tx # receipt[w].tx

(* Whoever reserved a hash finds room in the queue: the "queue full"       *)
(* branch of enqueueReceipt is never taken (tracker.go:129-136).           *)
QueueHasRoom == Sending # {} => Len(receiptC) < MaxInflight

(* The owner of a slot is a tracked transaction of that slot, so the next  *)
(* transaction of the slot replaces something the tracker knows            *)
(* (tracker.go:82-92, 190-199).                                            *)
OwnerTracked ==
    \A s \in Slot : fromNonce[s] # None =>
        Tracked(fromNonce[s]) /\ SlotOf[fromNonce[s]] = s

(* Of the transactions of one slot at most one is pending without a later  *)
(* one on its way to replace it (tracker.go:82-101).                       *)
OnePending ==
    \A h \in Tx : txs[h].status = "pending" =>
        \/ fromNonce[SlotOf[h]] = h
        \/ \E w \in FetchWorker :
               fetch[w].step \in {"markReplaced", "setReplaced"} /\ fetch[w].replaced = h

(* A reserved hash is released again: by the worker that asked for its     *)
(* receipt, also when the call or the update failed, or by the end of the  *)
(* process; none stays reserved (tracker.go:165-184).                      *)
Releases == \A h \in Tx : (h \in inflight) ~> (h \notin inflight)

(* A transaction that is mined, and whose block is not abandoned, does not *)
(* stay pending in memory, however many compete with it for the inflight   *)
(* limit and whichever call fails, provided that those no block holds stop *)
(* taking up the whole limit.  Without this condition it may be refused on *)
(* every head, as the order of scheduling is that of a map                 *)
(* (tracker.go:116-152, 190-199).                                          *)
Unmined == {h \in Tx : txs[h].status = "pending" /\ h \notin onChain}

StopsPolling ==
    <>[](Cardinality(Unmined) < MaxInflight) =>
        \A h \in Tx : (h \in onChain /\ txs[h].status = "pending")
                          ~> (txs[h].status # "pending" \/ h \notin onChain)

(* A row says mined only of a transaction that a block holds or held: one  *)
(* whose block is abandoned keeps the status, because nobody tracks it any *)
(* more, but no interleaving of replacement, drop, receipt and death gives *)
(* it to another (tracker.go:165-200).                                     *)
MinedWasMined == \A h \in Tx : rows[h] = "mined" => h \in onChain \cup abandoned

(* Taken together, the goroutines, their queue and the mutex are a desk    *)
(* that admits a hash once, loses none, marks a row mined only for the     *)
(* worker that asks for it and saw it in a block, and ceases to track a    *)
(* transaction in no other way (tracker.go:54-69, 116-136, 165-200).       *)
Known == {h \in Tx : Tracked(h)}
Seers == {w \in Askers : receipt[w].step \in {"markMined", "forget"}}
Seen == {receipt[w].tx : w \in Seers}
MinedRows == {h \in Tx : rows[h] = "mined"}

Desk == INSTANCE ReceiptDesk WITH
    Limit <- MaxInflight, blocks <- onChain, tracked <- Known,
    waiting <- Sending \cup Queued, asking <- Asking, seen <- Seen, mined <- MinedRows

ImplementsDesk == Desk!Spec

(* docs/mempool.md:16, "pending -> mined when receipt exists": the row of  *)
(* a mined transaction does not stay pending.                              *)
PendingSettles ==
    \A h \in Tx : (rows[h] = "pending" /\ h \in onChain) ~> (rows[h] # "pending")
=============================================================================
