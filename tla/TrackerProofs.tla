---------------------------- MODULE TrackerProofs ----------------------------
(***************************************************************************)
(* Theorems about the mempool tracker for any number of transactions,      *)
(* workers, failures and process deaths.                                   *)
(***************************************************************************)
EXTENDS Tracker, FiniteSetTheorems, TLAPS

(* The initial state has its type.                                         *)
LEMMA TypeInit == Init => TypeOK
<1> SUFFICES ASSUME Init PROVE TypeOK
  OBVIOUS
<1> USE DEF Init, InitMemory
<1>1. NetworkOK
  BY TrackerAssumption DEF NetworkOK
<1>2. TablesOK
  BY DEF TablesOK, Untracked, MaybeTx
<1>3. QueuesOK
  BY DEF QueuesOK
<1>4. FetchOK
  BY DEF FetchOK, IdleFetch, FetchSteps, MaybeTx
<1>5. ReceiptOK
  BY DEF ReceiptOK, IdleReceipt, ReceiptSteps, MaybeTx
<1>6. ServiceOK
  BY DEF ServiceOK, IdleService, MaybeTx
<1> QED
  BY <1>1, <1>2, <1>3, <1>4, <1>5, <1>6 DEF TypeOK

(* A transition of a row (sqlite.go:193-228) leaves a status in it.        *)
LEMMA SetStatusType ==
    ASSUME TablesOK, NEW h \in Tx, NEW status \in Statuses \cup {"mined"},
           rows' = SetStatus(h, status), UNCHANGED maps
    PROVE  TablesOK'
BY DEF TablesOK, SetStatus, maps

(* Sending to the receipt queue (enqueueReceipt) keeps the queues' types.  *)
LEMMA SendType ==
    ASSUME QueuesOK, NEW h \in Tx, Send(h), UNCHANGED pendingC
    PROVE  QueuesOK'
BY DEF QueuesOK, Send

(* A step of the network changes only what NetworkOK is about.             *)
LEMMA TypeNetwork == TypeOK /\ Network => TypeOK'
<1> SUFFICES ASSUME TypeOK, Network PROVE TypeOK'
  OBVIOUS
<1> USE DEF TypeOK
<1>1. UNCHANGED <<budget, rows, maps, queue, pendingC, fetch, receipt, service, dropping>>
  BY DEF Network
<1>2. NetworkOK'
  <2> USE DEF NetworkOK
  <2>0. UNCHANGED <<faults, crashes>>
    BY <1>1 DEF budget
  <2>1. CASE MineOther
    BY <2>0, <2>1, TrackerAssumption DEF MineOther, PushHead
  <2>2. CASE Tick
    BY <2>0, <2>2 DEF Tick
  <2>3. ASSUME NEW h \in Tx, Submit(h) \/ Reannounce(h) PROVE NetworkOK'
    BY <2>0, <2>3 DEF Submit, Reannounce
  <2>4. ASSUME NEW h \in Tx, MineTx(h) PROVE NetworkOK'
    BY <2>0, <2>4, TrackerAssumption DEF MineTx, PushHead
  <2>5. ASSUME NEW h \in Tx, Unmine(h) PROVE NetworkOK'
    <3>1. heads' \in 0..HeadCapacity
      BY <2>5, TrackerAssumption DEF Unmine, PushHead
    <3>2. announced' \in Seq(Tx)
      BY <2>5 DEF Unmine
    <3>3. {pool, onChain, abandoned, evicted}' \subseteq SUBSET Tx
      BY <2>5 DEF Unmine
    <3> QED
      BY <2>0, <2>5, <3>1, <3>2, <3>3 DEF Unmine
  <2> QED
    BY <2>1, <2>2, <2>3, <2>4, <2>5 DEF Network
<1> QED
  BY <1>1, <1>2
  DEF TablesOK, QueuesOK, FetchOK, ReceiptOK, ServiceOK, budget, maps, queue

(* The steps of the service loop.                                          *)
LEMMA TypeService == TypeOK /\ Service => TypeOK'
<1> SUFFICES ASSUME TypeOK, Service PROVE TypeOK'
  OBVIOUS
<1> USE DEF TypeOK
<1>1. UNCHANGED <<budget, rows, maps, fetch, receipt, dropping>>
  BY DEF Service, TakeHash, TakeHead, ScheduleSend, ScheduleDone, ScheduleReserve
<1>2. TablesOK' /\ FetchOK' /\ ReceiptOK'
  BY <1>1 DEF TablesOK, FetchOK, ReceiptOK, maps
<1>3. NetworkOK' /\ QueuesOK' /\ ServiceOK'
  <2>1. CASE TakeHash
    BY <1>1, <2>1 DEF TakeHash, NetworkOK, QueuesOK, ServiceOK, budget, queue
  <2>2. CASE TakeHead
    <3> DEFINE todo == {h \in Tx : TrackLifecycle /\ txs[h].status = "pending"}
    <3>1. service' = [step |-> "schedule", tx |-> None, todo |-> todo]
      BY <2>2 DEF TakeHead
    <3>2. todo \in SUBSET Tx
      OBVIOUS
    <3> HIDE DEF todo
    <3>3. ServiceOK'
      BY <1>1, <3>1, <3>2 DEF ServiceOK, MaybeTx
    <3>4. NetworkOK'
      BY <1>1, <2>2, TrackerAssumption DEF TakeHead, NetworkOK, budget
    <3> QED
      BY <2>2, <3>3, <3>4 DEF TakeHead, QueuesOK, queue
  <2>3. CASE ScheduleSend
    <3>1. QueuesOK'
      BY <2>3, SendType DEF ScheduleSend, ServiceOK
    <3> QED
      BY <1>1, <2>3, <3>1 DEF ScheduleSend, NetworkOK, ServiceOK, network, budget, MaybeTx
  <2>4. CASE ScheduleDone
    BY <1>1, <2>4 DEF ScheduleDone, NetworkOK, QueuesOK, ServiceOK, IdleService, network,
                      budget, queue, MaybeTx
  <2>5. ASSUME NEW h \in Tx, ScheduleReserve(h) PROVE NetworkOK' /\ QueuesOK' /\ ServiceOK'
    BY <1>1, <2>5 DEF ScheduleReserve, NetworkOK, QueuesOK, ServiceOK, network, budget, MaybeTx
  <2> QED
    BY <2>1, <2>2, <2>3, <2>4, <2>5 DEF Service
<1> QED
  BY <1>2, <1>3

(* The steps of a fetch worker, failures included.                         *)
LEMMA TypeFetch ==
    ASSUME TypeOK, NEW w \in FetchWorker, FetchStep(w) \/ FetchFault(w)
    PROVE  TypeOK'
<1> USE DEF TypeOK
<1>1. UNCHANGED <<network, receipt, service, dropping>>
  BY DEF FetchStep, FetchFault, FetchTake, FetchFound, FetchNotFound, Claim, MarkReplaced,
         SetReplaced, Upsert, FetchReserve, FetchSend, FetchFails, MarkReplacedFails, UpsertFails
<1>2. NetworkOK' /\ ReceiptOK' /\ ServiceOK'
  <2>1. faults' \in Nat /\ crashes' = crashes
    BY DEF FetchStep, FetchFault, FetchTake, FetchFound, FetchNotFound, Claim, MarkReplaced,
         SetReplaced, Upsert, FetchReserve, FetchSend, FetchFails, MarkReplacedFails,
         UpsertFails, Fail, NetworkOK, budget
  <2> QED
    BY <1>1, <2>1 DEF NetworkOK, ReceiptOK, ServiceOK, network
<1>3. TablesOK' /\ QueuesOK' /\ FetchOK'
  <2> USE DEF FetchSteps, MaybeTx
  <2>1. CASE FetchTake(w)
    <3>1. Head(pendingC) \in Tx /\ Tail(pendingC) \in Seq(Tx)
      BY <2>1 DEF FetchTake, QueuesOK
    <3>2. FetchOK'
      BY <2>1, <3>1 DEF FetchTake, FetchOK
    <3> QED
      BY <2>1, <3>1, <3>2 DEF FetchTake, TablesOK, QueuesOK, maps, queue
  <2>2. CASE FetchFound(w)
    BY <2>2 DEF FetchFound, TablesOK, QueuesOK, FetchOK, maps, queue
  <2>3. CASE FetchNotFound(w) \/ FetchFails(w) \/ UpsertFails(w)
    <3>1. fetch' = [fetch EXCEPT ![w] = IdleFetch] /\ UNCHANGED <<rows, maps, queue, pendingC>>
      BY <2>3 DEF FetchNotFound, FetchFails, UpsertFails
    <3> QED
      BY <3>1 DEF IdleFetch, TablesOK, QueuesOK, FetchOK, maps, queue
  <2>4. CASE Claim(w)
    <3> DEFINE h == fetch[w].tx
               owner == fromNonce[SlotOf[h]]
    <3>1. h \in Tx /\ SlotOf[h] \in Slot /\ owner \in MaybeTx
      BY <2>4, TrackerAssumption DEF Claim, FetchOK, TablesOK
    <3>2. TablesOK'
      BY <2>4, <3>1 DEF Claim, TablesOK, Statuses, NetworkOK
    <3>3. FetchOK'
      <4>1. CASE owner \in {None, h}
        BY <2>4, <3>1, <4>1 DEF Claim, FetchOK
      <4>2. CASE owner \notin {None, h}
        BY <2>4, <3>1, <4>2 DEF Claim, FetchOK
      <4> QED
        BY <4>1, <4>2
    <3> QED
      BY <2>4, <3>2, <3>3 DEF Claim, QueuesOK, queue
  <2>5. CASE MarkReplaced(w)
    <3>1. TablesOK'
      BY <2>5, SetStatusType DEF MarkReplaced, FetchOK, Statuses
    <3> QED
      BY <2>5, <3>1 DEF MarkReplaced, QueuesOK, FetchOK, queue
  <2>6. CASE MarkReplacedFails(w)
    BY <2>6 DEF MarkReplacedFails, TablesOK, QueuesOK, FetchOK, maps, queue
  <2>7. CASE SetReplaced(w)
    BY <2>7 DEF SetReplaced, TablesOK, Statuses, QueuesOK, FetchOK, queue
  <2>8. CASE Upsert(w)
    BY <2>8 DEF Upsert, TablesOK, Statuses, QueuesOK, FetchOK, maps, queue
  <2>9. CASE FetchReserve(w)
    <3>1. fetch[w].tx \in Tx /\ UNCHANGED <<rows, maps, receiptC, pendingC>>
      BY <2>9 DEF FetchReserve, FetchOK
    <3>2. \/ inflight' = inflight \cup {fetch[w].tx} /\ fetch' = [fetch EXCEPT ![w].step = "send"]
          \/ UNCHANGED inflight /\ fetch' = [fetch EXCEPT ![w] = IdleFetch]
      BY <2>9 DEF FetchReserve
    <3>3. TablesOK' /\ QueuesOK'
      BY <3>1, <3>2 DEF TablesOK, QueuesOK, maps
    <3>4. FetchOK'
      BY <3>1, <3>2 DEF FetchOK, IdleFetch
    <3> QED
      BY <3>3, <3>4
  <2>10. CASE FetchSend(w)
    <3>1. QueuesOK'
      BY <2>10, SendType DEF FetchSend, FetchOK
    <3> QED
      BY <2>10, <3>1 DEF FetchSend, IdleFetch, TablesOK, FetchOK, maps
  <2> QED
    BY <2>1, <2>2, <2>3, <2>4, <2>5, <2>6, <2>7, <2>8, <2>9, <2>10 DEF FetchStep, FetchFault
<1> QED
  BY <1>2, <1>3

(* The steps of a receipt worker, failures included.                       *)
LEMMA TypeReceipt ==
    ASSUME TypeOK, NEW w \in ReceiptWorker, ReceiptStep(w) \/ ReceiptFails(w)
    PROVE  TypeOK'
<1> USE DEF TypeOK
<1>1. UNCHANGED <<network, fetch, service, dropping, pendingC>>
  BY DEF ReceiptStep, ReceiptTake, ReceiptNone, ReceiptMined, MarkMined, Forget, Release,
         ReceiptFails
<1>2. NetworkOK' /\ FetchOK' /\ ServiceOK'
  <2>1. faults' \in Nat /\ crashes' = crashes
    BY DEF ReceiptStep, ReceiptTake, ReceiptNone, ReceiptMined, MarkMined, Forget, Release,
           ReceiptFails, Fail, NetworkOK, budget
  <2> QED
    BY <1>1, <2>1 DEF NetworkOK, FetchOK, ServiceOK, network
<1>3. TablesOK' /\ QueuesOK' /\ ReceiptOK'
  <2> USE <1>1 DEF ReceiptSteps, MaybeTx
  <2>1. CASE ReceiptTake(w)
    <3>1. Head(receiptC) \in Tx /\ Tail(receiptC) \in Seq(Tx)
      BY <2>1 DEF ReceiptTake, QueuesOK
    <3> QED
      BY <2>1, <3>1 DEF ReceiptTake, TablesOK, QueuesOK, ReceiptOK, maps
  <2>2. CASE ReceiptNone(w) \/ ReceiptMined(w)
    <3>1. UNCHANGED <<rows, maps, queue>>
      BY <2>2 DEF ReceiptNone, ReceiptMined
    <3>2. TablesOK' /\ QueuesOK'
      BY <3>1 DEF TablesOK, QueuesOK, maps, queue
    <3>3. ReceiptOK'
      <4>1. CASE ReceiptNone(w)
        BY <4>1 DEF ReceiptNone, ReceiptOK
      <4>2. CASE ReceiptMined(w)
        BY <4>2 DEF ReceiptMined, ReceiptOK
      <4> QED
        BY <2>2, <4>1, <4>2
    <3> QED
      BY <3>2, <3>3
  <2>3. CASE ReceiptFails(w)
    BY <2>3 DEF ReceiptFails, TablesOK, QueuesOK, ReceiptOK, maps, queue
  <2>4. CASE MarkMined(w)
    <3>1. TablesOK'
      BY <2>4, SetStatusType DEF MarkMined, ReceiptOK
    <3> QED
      BY <2>4, <3>1 DEF MarkMined, QueuesOK, ReceiptOK, queue
  <2>5. CASE Forget(w)
    <3>1. TablesOK'
      BY <2>5, TrackerAssumption DEF Forget, Untracked, TablesOK, ReceiptOK
    <3> QED
      BY <2>5, <3>1 DEF Forget, QueuesOK, ReceiptOK, queue
  <2>6. CASE Release(w)
    BY <2>6 DEF Release, IdleReceipt, TablesOK, QueuesOK, ReceiptOK, maps
  <2> QED
    BY <2>1, <2>2, <2>3, <2>4, <2>5, <2>6 DEF ReceiptStep
<1> QED
  BY <1>2, <1>3

(* The steps of the sweeper, failures included.                            *)
LEMMA TypeSweeper ==
    ASSUME TypeOK, Sweeper \/ \E h \in Tx : MarkDroppedFails(h)
    PROVE  TypeOK'
<1> USE DEF TypeOK
<1>1. UNCHANGED <<network, queue, pendingC, fetch, receipt, service>>
  BY DEF Sweeper, Sweep, MarkDropped, MarkDroppedFails
<1>2. QueuesOK' /\ FetchOK' /\ ReceiptOK'
  BY <1>1 DEF QueuesOK, FetchOK, ReceiptOK, queue
<1>3. NetworkOK' /\ TablesOK' /\ ServiceOK'
  <2>1. CASE Sweep
    <3>1. Expired \subseteq Tx
      BY DEF Expired
    <3>2. TablesOK'
      BY <2>1, <3>1 DEF Sweep, TablesOK, Statuses
    <3> QED
      BY <1>1, <2>1, <3>1, <3>2 DEF Sweep, NetworkOK, ServiceOK, network, budget
  <2>2. ASSUME NEW h \in Tx, MarkDropped(h) PROVE NetworkOK' /\ TablesOK' /\ ServiceOK'
    <3>1. TablesOK'
      BY <2>2, SetStatusType DEF MarkDropped, Statuses
    <3> QED
      BY <1>1, <2>2, <3>1 DEF MarkDropped, NetworkOK, ServiceOK, network, budget
  <2>3. ASSUME NEW h \in Tx, MarkDroppedFails(h) PROVE NetworkOK' /\ TablesOK' /\ ServiceOK'
    BY <1>1, <2>3 DEF MarkDroppedFails, Fail, NetworkOK, TablesOK, ServiceOK, network, maps
  <2> QED
    BY <2>1, <2>2, <2>3 DEF Sweeper
<1> QED
  BY <1>2, <1>3

(* A restarted process has typed, empty memory.                            *)
LEMMA TypeCrash == TypeOK /\ Crash => TypeOK'
<1> SUFFICES ASSUME TypeOK, Crash PROVE TypeOK'
  OBVIOUS
<1> USE DEF TypeOK, Crash
<1>1. NetworkOK'
  BY TrackerAssumption DEF NetworkOK
<1>2. TablesOK'
  BY DEF TablesOK, Untracked, MaybeTx
<1>3. QueuesOK'
  BY DEF QueuesOK
<1>4. FetchOK'
  BY DEF FetchOK, IdleFetch, FetchSteps, MaybeTx
<1>5. ReceiptOK'
  BY DEF ReceiptOK, IdleReceipt, ReceiptSteps, MaybeTx
<1>6. ServiceOK'
  BY DEF ServiceOK, IdleService, MaybeTx
<1> QED
  BY <1>1, <1>2, <1>3, <1>4, <1>5, <1>6

(* Every step of the tracker keeps the types.                              *)
LEMMA TypeStep == TypeOK /\ [Next]_vars => TypeOK'
<1> SUFFICES ASSUME TypeOK, [Next]_vars PROVE TypeOK'
  OBVIOUS
<1>1. CASE UNCHANGED vars
  BY <1>1 DEF vars, network, budget, maps, queue, TypeOK, NetworkOK, TablesOK, QueuesOK,
              FetchOK, ReceiptOK, ServiceOK
<1> QED
  BY <1>1, TypeNetwork, TypeService, TypeFetch, TypeReceipt, TypeSweeper, TypeCrash
  DEF Next, Fault

(* Type correctness of the tracker.                                        *)
THEOREM TypeCorrect == Spec => []TypeOK
BY TypeInit, TypeStep, PTL DEF Spec
-----------------------------------------------------------------------------
(* Who owns a slot.                                                        *)

(* Only a claim, an answered receipt and a death change who owns a slot or *)
(* untrack a transaction; the statuses that SetReplaced and Sweep write    *)
(* are those of tracked transactions.                                      *)
LEMMA OwnerStep == TypeOK /\ OwnerTracked /\ [Next]_vars => OwnerTracked'
<1> SUFFICES ASSUME TypeOK, OwnerTracked, [Next]_vars PROVE OwnerTracked'
  OBVIOUS
<1> USE DEF OwnerTracked, Tracked
<1>0. /\ fromNonce \in [Slot -> MaybeTx]
      /\ txs \in [Tx -> [status : Statuses \cup {"none"}, firstSeen : Nat]]
  BY DEF TypeOK, TablesOK
<1>1. ASSUME UNCHANGED maps PROVE OwnerTracked'
  BY <1>1 DEF maps
<1>2. ASSUME NEW w \in FetchWorker, Claim(w) PROVE OwnerTracked'
  <2> DEFINE h == fetch[w].tx
  <2>1. h \in Tx /\ SlotOf[h] \in Slot
    BY <1>2, TrackerAssumption DEF Claim, TypeOK, FetchOK
  <2>2. /\ fromNonce' = [fromNonce EXCEPT ![SlotOf[h]] = h]
        /\ txs' = IF txs[h].status # "none" THEN txs
                  ELSE [txs EXCEPT ![h] = [status |-> "pending", firstSeen |-> clock]]
    BY <1>2 DEF Claim
  <2> QED
    BY <1>0, <2>1, <2>2, TrackerAssumption DEF MaybeTx
<1>3. ASSUME NEW w \in FetchWorker, SetReplaced(w) PROVE OwnerTracked'
  BY <1>0, <1>3, TrackerAssumption DEF SetReplaced, MaybeTx
<1>4. ASSUME NEW w \in ReceiptWorker, Forget(w) PROVE OwnerTracked'
  <2> DEFINE h == receipt[w].tx
  <2>1. h \in Tx /\ SlotOf[h] \in Slot
    BY <1>4, TrackerAssumption DEF Forget, TypeOK, ReceiptOK
  <2>2. /\ txs' = [txs EXCEPT ![h] = Untracked]
        /\ fromNonce' = IF txs[h].status # "none" /\ fromNonce[SlotOf[h]] = h
                        THEN [fromNonce EXCEPT ![SlotOf[h]] = None] ELSE fromNonce
    BY <1>4 DEF Forget
  <2> QED
    BY <1>0, <2>1, <2>2, TrackerAssumption DEF MaybeTx
<1>5. CASE Sweep
  BY <1>0, <1>5, TrackerAssumption DEF Sweep, Expired, MaybeTx
<1>6. CASE Crash
  BY <1>6 DEF Crash
<1>7. CASE Network \/ Service
  BY <1>1, <1>7 DEF Network, Service, TakeHash, TakeHead, ScheduleReserve, ScheduleSend,
                    ScheduleDone
<1>8. ASSUME NEW w \in FetchWorker, FetchStep(w) \/ FetchFault(w) PROVE OwnerTracked'
  <2>1. UNCHANGED maps \/ Claim(w) \/ SetReplaced(w)
    BY <1>8 DEF FetchStep, FetchFault, FetchTake, FetchFound, FetchNotFound, MarkReplaced,
                Upsert, FetchReserve, FetchSend, FetchFails, MarkReplacedFails, UpsertFails
  <2> QED
    BY <1>1, <1>2, <1>3, <2>1
<1>9. ASSUME NEW w \in ReceiptWorker, ReceiptStep(w) \/ ReceiptFails(w) PROVE OwnerTracked'
  <2>1. UNCHANGED maps \/ Forget(w)
    BY <1>9 DEF ReceiptStep, ReceiptTake, ReceiptNone, ReceiptMined, MarkMined, Release,
                ReceiptFails
  <2> QED
    BY <1>1, <1>4, <2>1
<1>10. ASSUME NEW h \in Tx, MarkDropped(h) \/ MarkDroppedFails(h) PROVE OwnerTracked'
  BY <1>1, <1>10 DEF MarkDropped, MarkDroppedFails
<1>11. CASE UNCHANGED vars
  BY <1>1, <1>11 DEF vars
<1> QED
  BY <1>5, <1>6, <1>7, <1>8, <1>9, <1>10, <1>11 DEF Next, Sweeper, Fault

(* The owner of a slot is a transaction the tracker knows.                 *)
THEOREM OwnerTrackedHolds == Spec => []OwnerTracked
<1>1. Init => OwnerTracked
  BY DEF Init, InitMemory, OwnerTracked
<1> QED
  BY <1>1, TypeCorrect, OwnerStep, PTL DEF Spec

-----------------------------------------------------------------------------
(* Who holds a reserved hash.                                              *)

Account == InflightAccounted /\ SingleFlight

(* Whether the hash h is held by a goroutine about to send it, has a place *)
(* in the queue, is held by a receipt worker.                              *)
LEMMA Holders ==
    ASSUME NEW h
    PROVE  /\ h \in Sending <=>
                 \/ \E w \in FetchWorker : fetch[w].step = "send" /\ fetch[w].tx = h
                 \/ h \in Tx /\ service.step = "send" /\ service.tx = h
           /\ h \in Queued <=> \E i \in 1..Len(receiptC) : receiptC[i] = h
           /\ h \in Asking <=>
                 \E w \in ReceiptWorker : receipt[w].step # "idle" /\ receipt[w].tx = h
BY DEF Sending, Senders, Queued, Asking, Askers

(* No two holders, one by one.                                             *)
LEMMA Single ==
    SingleFlight <=>
       /\ Sending \cap Queued = {} /\ Sending \cap Asking = {} /\ Queued \cap Asking = {}
       /\ \A v, w \in FetchWorker :
             fetch[v].step = "send" /\ fetch[w].step = "send" /\ v # w =>
                 fetch[v].tx # fetch[w].tx
       /\ \A w \in FetchWorker :
             fetch[w].step = "send" /\ service.step = "send" => fetch[w].tx # service.tx
       /\ \A i, j \in 1..Len(receiptC) : i # j => receiptC[i] # receiptC[j]
       /\ \A v, w \in ReceiptWorker :
             receipt[v].step # "idle" /\ receipt[w].step # "idle" /\ v # w =>
                 receipt[v].tx # receipt[w].tx
BY DEF SingleFlight, Senders, Askers

(* A step that moves no hash keeps the account.                            *)
LEMMA AccountUnmoved ==
    ASSUME Account, UNCHANGED queue,
           \A w \in FetchWorker : (fetch'[w].step = "send") = (fetch[w].step = "send"),
           \A w \in FetchWorker : fetch[w].step = "send" => fetch'[w].tx = fetch[w].tx,
           \A w \in ReceiptWorker : (receipt'[w].step = "idle") = (receipt[w].step = "idle"),
           \A w \in ReceiptWorker : receipt[w].step # "idle" => receipt'[w].tx = receipt[w].tx,
           (service'.step = "send") = (service.step = "send"),
           service.step = "send" => service'.tx = service.tx
    PROVE  Account'
<1>1. Sending' = Sending
  BY DEF Sending, Senders
<1>2. Asking' = Asking
  BY DEF Asking, Askers
<1>3. Queued' = Queued
  BY DEF Queued, queue
<1>4. Senders' = Senders /\ Askers' = Askers
  BY DEF Senders, Askers
<1> QED
  BY <1>1, <1>2, <1>3, <1>4
  DEF Account, InflightAccounted, SingleFlight, Senders, Askers, queue

(* Sending a hash: it leaves its holder for the queue, or for good when    *)
(* the queue is full.                                                      *)
LEMMA AccountSend ==
    ASSUME TypeOK, Account, NEW h \in Tx, Send(h),
           h \in Sending, h \notin Queued, h \notin Asking,
           Sending' = Sending \ {h}, Senders' \subseteq Senders,
           \A w \in Senders' : fetch'[w] = fetch[w],
           service'.step = "send" => service' = service,
           UNCHANGED receipt
    PROVE  Account'
<1>0. receiptC \in Seq(Tx) /\ Asking' = Asking /\ Askers' = Askers
  BY DEF TypeOK, QueuesOK, Asking, Askers
<1>1. CASE Len(receiptC) < MaxInflight
  <2>1. receiptC' = Append(receiptC, h) /\ UNCHANGED inflight
    BY <1>1 DEF Send
  <2>2. /\ Len(receiptC') = Len(receiptC) + 1 /\ Len(receiptC) \in Nat
        /\ receiptC'[Len(receiptC) + 1] = h
        /\ \A i \in 1..Len(receiptC) : receiptC'[i] = receiptC[i]
    BY <1>0, <2>1
  <2>3. Queued' = Queued \cup {h}
    BY <2>2 DEF Queued
  <2>4. InflightAccounted'
    BY <1>0, <2>1, <2>3 DEF Account, InflightAccounted
  <2>5. \A i, j \in 1..Len(receiptC') : i # j => receiptC'[i] # receiptC'[j]
    <3>1. \A i \in 1..Len(receiptC) : receiptC[i] # h
      BY DEF Queued
    <3> QED
      BY <2>2, <3>1 DEF Account, SingleFlight
  <2>6. SingleFlight'
    BY <1>0, <2>3, <2>5 DEF Account, SingleFlight
  <2> QED
    BY <2>4, <2>6 DEF Account
<1>2. CASE ~(Len(receiptC) < MaxInflight)
  <2>1. inflight' = inflight \ {h} /\ UNCHANGED receiptC
    BY <1>2 DEF Send
  <2>2. Queued' = Queued
    BY <2>1 DEF Queued
  <2>3. InflightAccounted'
    BY <1>0, <2>1, <2>2 DEF Account, InflightAccounted
  <2>4. SingleFlight'
    BY <1>0, <2>1, <2>2 DEF Account, SingleFlight
  <2> QED
    BY <2>3, <2>4 DEF Account
<1> QED
  BY <1>1, <1>2

(* The steps of the service loop: it reserves a hash nobody holds, and the *)
(* hash it sends leaves its hand for the queue, or for good when the queue *)
(* is full.                                                                *)
LEMMA AccountService == TypeOK /\ Account /\ Service => Account'
<1> SUFFICES ASSUME TypeOK, Account, Service PROVE Account'
  OBVIOUS
<1>1. CASE TakeHash \/ TakeHead \/ ScheduleDone
  BY <1>1, AccountUnmoved DEF TakeHash, TakeHead, ScheduleDone, IdleService
<1>2. ASSUME NEW h \in Tx, ScheduleReserve(h) PROVE Account'
  <2>0. service.step = "schedule" /\ UNCHANGED <<receiptC, fetch, receipt>>
    BY <1>2 DEF ScheduleReserve
  <2>1. CASE ~CanReserve(h)
    BY <1>2, <2>0, <2>1, AccountUnmoved DEF ScheduleReserve, TypeOK, ServiceOK, queue
  <2>2. CASE CanReserve(h)
    <3>1. h \notin inflight /\ inflight' = inflight \cup {h}
      BY <1>2, <2>2 DEF ScheduleReserve, CanReserve
    <3>2. service'.step = "send" /\ service'.tx = h
      BY <1>2, <2>2 DEF ScheduleReserve
    <3>3. h \notin Sending /\ h \notin Queued /\ h \notin Asking
      BY <3>1 DEF Account, InflightAccounted
    <3>4. Sending' = Sending \cup {h}
      BY <2>0, <3>2 DEF Sending, Senders
    <3>5. Queued' = Queued /\ Asking' = Asking
      BY <2>0 DEF Queued, Asking, Askers
    <3>6. InflightAccounted'
      BY <3>1, <3>4, <3>5 DEF Account, InflightAccounted
    <3>7. \A w \in FetchWorker : fetch[w].step = "send" => fetch[w].tx # h
      BY <3>3, Holders
    <3>8. SingleFlight'
      BY <2>0, <3>2, <3>3, <3>4, <3>5, <3>7 DEF Account, SingleFlight, Senders, Askers
    <3> QED
      BY <3>6, <3>8 DEF Account
  <2> QED
    BY <2>1, <2>2
<1>3. CASE ScheduleSend
  <2> DEFINE h == service.tx
  <2>0. /\ service.step = "send" /\ h \in Tx
        /\ service'.step = "schedule" /\ UNCHANGED <<fetch, receipt>>
    BY <1>3 DEF ScheduleSend, TypeOK, ServiceOK
  <2>1. h \in Sending /\ h \notin Queued /\ h \notin Asking
    BY <2>0, Holders DEF Account, SingleFlight
  <2>2. \A w \in FetchWorker : fetch[w].step = "send" => fetch[w].tx # h
    BY <2>0 DEF Account, SingleFlight, Senders
  <2>3. Sending' = Sending \ {h} /\ Asking' = Asking
    BY <2>0, <2>2 DEF Sending, Senders, Asking, Askers
  <2>4. Send(h) /\ Senders' = Senders /\ Askers' = Askers
    BY <1>3, <2>0 DEF ScheduleSend, Senders, Askers
  <2> HIDE DEF h
  <2> QED
    BY <2>0, <2>1, <2>3, <2>4, AccountSend
<1> QED
  BY <1>1, <1>2, <1>3 DEF Service

(* The steps of a fetch worker.                                            *)
LEMMA AccountFetch ==
    ASSUME TypeOK, Account, NEW w \in FetchWorker, FetchStep(w) \/ FetchFault(w)
    PROVE  Account'
<1>0. fetch \in [FetchWorker -> [step : FetchSteps, tx : MaybeTx, replaced : MaybeTx]]
  BY DEF TypeOK, FetchOK
<1>1. UNCHANGED <<receipt, service>>
  BY DEF FetchStep, FetchFault, FetchTake, FetchFound, FetchNotFound, Claim, MarkReplaced,
         SetReplaced, Upsert, FetchReserve, FetchSend, FetchFails, MarkReplacedFails, UpsertFails
<1>2. ASSUME UNCHANGED queue, fetch[w].step # "send", fetch'[w].step # "send",
             \A v \in FetchWorker \ {w} : fetch'[v] = fetch[v]
      PROVE  Account'
  BY <1>0, <1>1, <1>2, AccountUnmoved
<1>3. CASE FetchTake(w) \/ SetReplaced(w)
  BY <1>0, <1>2, <1>3 DEF FetchTake, SetReplaced, queue
<1>4. CASE FetchNotFound(w) \/ FetchFails(w) \/ UpsertFails(w)
  BY <1>0, <1>2, <1>4 DEF FetchNotFound, FetchFails, UpsertFails, IdleFetch, queue
<1>5. CASE FetchFound(w) \/ MarkReplaced(w) \/ MarkReplacedFails(w) \/ Upsert(w)
  BY <1>0, <1>2, <1>5 DEF FetchFound, MarkReplaced, MarkReplacedFails, Upsert
<1>6. CASE Claim(w)
  <2>1. fetch[w].step = "claim" /\ UNCHANGED queue
    BY <1>6 DEF Claim
  <2>2. \/ fetch' = [fetch EXCEPT ![w].step = "upsert"]
        \/ \E owner : fetch' = [fetch EXCEPT ![w] =
                 [step |-> "markReplaced", tx |-> fetch[w].tx, replaced |-> owner]]
    BY <1>6 DEF Claim
  <2> QED
    BY <1>0, <1>2, <2>1, <2>2
<1>7. CASE FetchReserve(w)
  <2> DEFINE h == fetch[w].tx
  <2>0. fetch[w].step = "reserve" /\ UNCHANGED receiptC
    BY <1>7 DEF FetchReserve
  <2>1. CASE ~CanReserve(h)
    BY <1>0, <1>2, <1>7, <2>0, <2>1 DEF FetchReserve, IdleFetch, queue
  <2>2. CASE CanReserve(h)
    <3>1. h \notin inflight /\ inflight' = inflight \cup {h}
      BY <1>7, <2>2 DEF FetchReserve, CanReserve
    <3>2. fetch' = [fetch EXCEPT ![w].step = "send"]
      BY <1>7, <2>2 DEF FetchReserve
    <3>3. h \notin Sending /\ h \notin Queued /\ h \notin Asking
      BY <3>1 DEF Account, InflightAccounted
    <3>4. \A v \in FetchWorker : fetch'[v] = IF v = w THEN [fetch[w] EXCEPT !.step = "send"]
                                             ELSE fetch[v]
      BY <1>0, <3>2
    <3>5. fetch'[w].step = "send" /\ fetch'[w].tx = h
      BY <1>0, <3>4
    <3>6. Sending' = Sending \cup {h} /\ Senders' = Senders \cup {w}
      BY <1>1, <2>0, <3>4, <3>5 DEF Sending, Senders
    <3>7. Queued' = Queued /\ Asking' = Asking /\ Askers' = Askers
      BY <1>1, <2>0 DEF Queued, Asking, Askers
    <3>8. InflightAccounted'
      BY <3>1, <3>6, <3>7 DEF Account, InflightAccounted
    <3>9. (\A v \in Senders : fetch[v].tx # h) /\ (service.step = "send" => service.tx # h)
      BY <1>1, <3>3, Holders DEF Senders, TypeOK, ServiceOK
    <3>10. SingleFlight'
      BY <1>1, <2>0, <3>3, <3>4, <3>5, <3>6, <3>7, <3>9 DEF Account, SingleFlight, Senders
    <3> QED
      BY <3>8, <3>10 DEF Account
  <2> QED
    BY <2>1, <2>2
<1>8. CASE FetchSend(w)
  <2> DEFINE h == fetch[w].tx
  <2>0. fetch[w].step = "send" /\ fetch' = [fetch EXCEPT ![w] = IdleFetch] /\ h \in Tx
    BY <1>8 DEF FetchSend, TypeOK, FetchOK
  <2>1. h \in Sending /\ h \notin Queued /\ h \notin Asking
    BY <2>0, Holders DEF Account, SingleFlight
  <2>2. /\ \A v \in FetchWorker \ {w} : fetch[v].step = "send" => fetch[v].tx # h
        /\ service.step = "send" => service.tx # h
    BY <2>0 DEF Account, SingleFlight, Senders
  <2>3. Senders' = Senders \ {w} /\ \A v \in FetchWorker \ {w} : fetch'[v] = fetch[v]
    BY <1>0, <2>0 DEF Senders, IdleFetch
  <2>4. Sending' = Sending \ {h}
    BY <1>1, <2>0, <2>2, <2>3 DEF Sending, Senders
  <2>5. Asking' = Asking /\ Askers' = Askers
    BY <1>1 DEF Asking, Askers
  <2>6. Send(h)
    BY <1>8 DEF FetchSend
  <2> HIDE DEF h
  <2> QED
    BY <1>1, <2>0, <2>1, <2>3, <2>4, <2>5, <2>6, AccountSend DEF Senders
<1> QED
  BY <1>3, <1>4, <1>5, <1>6, <1>7, <1>8 DEF FetchStep, FetchFault

(* A hash that is taken from the queue is not in it any more.              *)
LEMMA QueueTail ==
    ASSUME receiptC \in Seq(Tx), receiptC # <<>>, receiptC' = Tail(receiptC), SingleFlight
    PROVE  /\ Queued' = Queued \ {Head(receiptC)}
           /\ Head(receiptC) \in Queued /\ Head(receiptC) \in Tx
<1> DEFINE h == Head(receiptC)
<1>1. /\ Len(receiptC) \in Nat \ {0} /\ h = receiptC[1] /\ h \in Tx
      /\ Len(receiptC') = Len(receiptC) - 1
      /\ \A i \in 1..Len(receiptC') : receiptC'[i] = receiptC[i + 1]
  OBVIOUS
<1>2. \A i, j \in 1..Len(receiptC) : i # j => receiptC[i] # receiptC[j]
  BY DEF SingleFlight
<1>3. \A x : x \in Queued' <=> x \in Queued /\ x # h
  <2>1. ASSUME NEW x \in Queued' PROVE x \in Queued /\ x # h
    <3>1. PICK i \in 1..Len(receiptC') : receiptC'[i] = x
      BY DEF Queued
    <3>2. i + 1 \in 1..Len(receiptC) /\ i + 1 # 1 /\ 1 \in 1..Len(receiptC)
      BY <1>1
    <3> QED
      BY <1>1, <1>2, <3>1, <3>2 DEF Queued
  <2>2. ASSUME NEW x \in Queued, x # h PROVE x \in Queued'
    <3>1. PICK i \in 1..Len(receiptC) : receiptC[i] = x
      BY DEF Queued
    <3>2. i - 1 \in 1..Len(receiptC') /\ i = (i - 1) + 1
      BY <1>1, <2>2, <3>1
    <3>3. receiptC'[i - 1] = x
      BY <1>1, <3>1, <3>2
    <3> QED
      BY <3>2, <3>3 DEF Queued
  <2> QED
    BY <2>1, <2>2
<1>4. h \in Queued
  BY <1>1 DEF Queued
<1> QED
  BY <1>1, <1>3, <1>4

(* The steps of a receipt worker: a hash leaves the queue for its hand,    *)
(* and is released.                                                        *)
LEMMA AccountReceipt ==
    ASSUME TypeOK, Account, NEW w \in ReceiptWorker, ReceiptStep(w) \/ ReceiptFails(w)
    PROVE  Account'
<1>0. receipt \in [ReceiptWorker -> [step : ReceiptSteps, tx : MaybeTx]]
  BY DEF TypeOK, ReceiptOK
<1>1. UNCHANGED <<fetch, service>>
  BY DEF ReceiptStep, ReceiptTake, ReceiptNone, ReceiptMined, MarkMined, Forget, Release,
         ReceiptFails
<1>2. Sending' = Sending /\ Senders' = Senders
  BY <1>1 DEF Sending, Senders
<1>3. ASSUME UNCHANGED queue, NEW next \in ReceiptSteps \ {"idle"}, receipt[w].step # "idle",
             receipt' = [receipt EXCEPT ![w].step = next]
      PROVE  Account'
  BY <1>0, <1>1, <1>3, AccountUnmoved
<1>4. CASE ReceiptNone(w) \/ ReceiptMined(w) \/ MarkMined(w) \/ Forget(w) \/ ReceiptFails(w)
  BY <1>3, <1>4 DEF ReceiptNone, ReceiptMined, MarkMined, Forget, ReceiptFails, ReceiptSteps
<1>5. CASE ReceiptTake(w)
  <2> DEFINE h == Head(receiptC)
  <2>0. /\ receipt[w].step = "idle" /\ UNCHANGED inflight
        /\ receipt' = [receipt EXCEPT ![w] = [step |-> "ask", tx |-> h]]
        /\ receiptC # <<>> /\ receiptC' = Tail(receiptC) /\ receiptC \in Seq(Tx)
    BY <1>5 DEF ReceiptTake, TypeOK, QueuesOK
  <2>1. /\ Len(receiptC) \in Nat \ {0} /\ h = receiptC[1]
        /\ Len(receiptC') = Len(receiptC) - 1
        /\ \A i \in 1..Len(receiptC') : receiptC'[i] = receiptC[i + 1]
    BY <2>0
  <2>2. \A i, j \in 1..Len(receiptC) : i # j => receiptC[i] # receiptC[j]
    BY DEF Account, SingleFlight
  <2>3. Queued' = Queued \ {h} /\ h \in Queued
    BY <2>0, QueueTail DEF Account
  <2>4. /\ \A v \in ReceiptWorker \ {w} : receipt'[v] = receipt[v]
        /\ receipt'[w].step = "ask" /\ receipt'[w].tx = h
    BY <1>0, <2>0
  <2>5. Askers' = Askers \cup {w} /\ Asking' = Asking \cup {h}
    BY <2>0, <2>4 DEF Askers, Asking
  <2>6. h \notin Sending /\ h \notin Asking
    BY <2>3 DEF Account, SingleFlight
  <2>7. InflightAccounted'
    BY <1>2, <2>0, <2>3, <2>5 DEF Account, InflightAccounted
  <2>8. \A i, j \in 1..Len(receiptC') : i # j => receiptC'[i] # receiptC'[j]
    <3> SUFFICES ASSUME NEW i \in 1..Len(receiptC'), NEW j \in 1..Len(receiptC'), i # j
                 PROVE  receiptC'[i] # receiptC'[j]
      OBVIOUS
    <3>1. i + 1 \in 1..Len(receiptC) /\ j + 1 \in 1..Len(receiptC) /\ i + 1 # j + 1
      BY <2>1
    <3> QED
      BY <2>1, <2>2, <3>1
  <2>9. \A v \in Askers : receipt[v].tx # h
    BY <2>6 DEF Asking
  <2>10. \A u, v \in Askers' : u # v => receipt'[u].tx # receipt'[v].tx
    BY <2>0, <2>4, <2>5, <2>9 DEF Account, SingleFlight, Askers
  <2>11. SingleFlight'
    BY <1>1, <1>2, <2>3, <2>5, <2>6, <2>8, <2>10 DEF Account, SingleFlight
  <2> QED
    BY <2>7, <2>11 DEF Account
<1>6. CASE Release(w)
  <2> DEFINE h == receipt[w].tx
  <2>0. /\ receipt[w].step # "idle" /\ receipt' = [receipt EXCEPT ![w] = IdleReceipt]
        /\ inflight' = inflight \ {h} /\ UNCHANGED receiptC
    BY <1>6 DEF Release
  <2>1. /\ \A v \in ReceiptWorker \ {w} : receipt'[v] = receipt[v]
        /\ receipt'[w].step = "idle"
    BY <1>0, <2>0 DEF IdleReceipt
  <2>2. Askers' = Askers \ {w} /\ Queued' = Queued
    BY <2>0, <2>1 DEF Askers, Queued
  <2>3. \A v \in Askers \ {w} : receipt[v].tx # h
    BY <2>0 DEF Account, SingleFlight, Askers
  <2>4. Asking' = Asking \ {h} /\ h \in Asking
    BY <2>0, <2>1, <2>2, <2>3 DEF Asking, Askers
  <2>5. InflightAccounted'
    BY <1>2, <2>0, <2>2, <2>4 DEF Account, InflightAccounted, SingleFlight
  <2>6. SingleFlight'
    BY <1>1, <1>2, <2>0, <2>1, <2>2, <2>4 DEF Account, SingleFlight, Askers
  <2> QED
    BY <2>5, <2>6 DEF Account
<1> QED
  BY <1>4, <1>5, <1>6 DEF ReceiptStep

(* The account holds in every reachable state.                             *)
LEMMA AccountStep == TypeOK /\ Account /\ [Next]_vars => Account'
<1> SUFFICES ASSUME TypeOK, Account, [Next]_vars PROVE Account'
  OBVIOUS
<1>1. CASE UNCHANGED vars
  BY <1>1, AccountUnmoved DEF vars
<1>2. CASE Network \/ Sweeper \/ \E h \in Tx : MarkDroppedFails(h)
  BY <1>2, AccountUnmoved DEF Network, Sweeper, Sweep, MarkDropped, MarkDroppedFails
<1>3. CASE Crash
  BY <1>3 DEF Crash, Account, InflightAccounted, SingleFlight, Sending, Senders, Queued,
              Asking, Askers, IdleFetch, IdleReceipt, IdleService
<1> QED
  BY <1>1, <1>2, <1>3, AccountService, AccountFetch, AccountReceipt DEF Next, Fault

(* The initial state holds no hash.                                        *)
LEMMA AccountInit == Init => Account
BY DEF Init, InitMemory, Account, InflightAccounted, SingleFlight, Sending, Senders, Queued,
       Asking, Askers, IdleFetch, IdleReceipt, IdleService

(* The inflight set is exactly the hashes that someone holds.              *)
THEOREM InflightAccountedHolds == Spec => []InflightAccounted
<1>1. Account => InflightAccounted
  BY DEF Account
<1> QED
  BY <1>1, AccountInit, AccountStep, TypeCorrect, PTL DEF Spec

(* A hash has one holder at a time.                                        *)
THEOREM SingleFlightHolds == Spec => []SingleFlight
<1>1. Account => SingleFlight
  BY DEF Account
<1> QED
  BY <1>1, AccountInit, AccountStep, TypeCorrect, PTL DEF Spec

-----------------------------------------------------------------------------
(* The limit of the inflight set.                                          *)

Bounded == IsFiniteSet(inflight) /\ Cardinality(inflight) <= MaxInflight

(* Only a reservation adds to the inflight set, and it looks at the limit. *)
LEMMA BoundedStep == TypeOK /\ Bounded /\ [Next]_vars => Bounded'
<1> SUFFICES ASSUME TypeOK, Bounded, [Next]_vars PROVE Bounded'
  OBVIOUS
<1>1. ASSUME inflight' \in SUBSET inflight PROVE Bounded'
  <2>1. /\ IsFiniteSet(inflight') /\ Cardinality(inflight') <= Cardinality(inflight)
        /\ Cardinality(inflight) \in Nat /\ Cardinality(inflight') \in Nat
    BY <1>1, FS_Subset, FS_CardinalityType DEF Bounded
  <2> QED
    BY <2>1, TrackerAssumption DEF Bounded
<1>2. ASSUME NEW h, CanReserve(h), inflight' = inflight \cup {h} PROVE Bounded'
  <2>1. /\ IsFiniteSet(inflight \cup {h})
        /\ Cardinality(inflight \cup {h}) = Cardinality(inflight) + 1
        /\ Cardinality(inflight) \in Nat
    BY <1>2, FS_AddElement, FS_CardinalityType DEF Bounded, CanReserve
  <2> QED
    BY <1>2, <2>1, TrackerAssumption DEF Bounded, CanReserve
<1>3. CASE Network \/ Sweeper \/ UNCHANGED vars \/ \E h \in Tx : MarkDroppedFails(h)
  BY <1>1, <1>3 DEF Network, Sweeper, Sweep, MarkDropped, MarkDroppedFails, queue, vars
<1>4. CASE Crash
  BY <1>1, <1>4 DEF Crash
<1>5. CASE Service
  <2>1. ASSUME NEW h \in Tx, ScheduleReserve(h) PROVE Bounded'
    BY <1>1, <1>2, <2>1 DEF ScheduleReserve
  <2>2. CASE ScheduleSend
    BY <1>1, <2>2 DEF ScheduleSend, Send
  <2>3. CASE TakeHash \/ TakeHead \/ ScheduleDone
    BY <1>1, <2>3 DEF TakeHash, TakeHead, ScheduleDone, queue
  <2> QED
    BY <1>5, <2>1, <2>2, <2>3 DEF Service
<1>6. ASSUME NEW w \in FetchWorker, FetchStep(w) \/ FetchFault(w) PROVE Bounded'
  <2>1. CASE FetchReserve(w)
    BY <1>1, <1>2, <2>1 DEF FetchReserve
  <2>2. CASE FetchSend(w)
    BY <1>1, <2>2 DEF FetchSend, Send
  <2>3. FetchReserve(w) \/ FetchSend(w) \/ UNCHANGED queue
    BY <1>6 DEF FetchStep, FetchFault, FetchTake, FetchFound, FetchNotFound, Claim,
         MarkReplaced, SetReplaced, Upsert, FetchFails, MarkReplacedFails, UpsertFails
  <2> QED
    BY <1>1, <2>1, <2>2, <2>3 DEF queue
<1>7. ASSUME NEW w \in ReceiptWorker, ReceiptStep(w) \/ ReceiptFails(w) PROVE Bounded'
  BY <1>1, <1>7 DEF ReceiptStep, ReceiptTake, ReceiptNone, ReceiptMined, MarkMined, Forget,
                    Release, ReceiptFails, queue
<1> QED
  BY <1>3, <1>4, <1>5, <1>6, <1>7 DEF Next, Fault

(* A hash that is about to be sent is one of at most MaxInflight, and so   *)
(* are the different ones that are queued: there is room for it.           *)
LEMMA RoomFollows == TypeOK /\ Account /\ Bounded => QueueHasRoom
<1> SUFFICES ASSUME TypeOK, Account, Bounded, NEW h \in Sending
             PROVE  Len(receiptC) < MaxInflight
  BY DEF QueueHasRoom
<1> DEFINE n == Len(receiptC)
           others == inflight \ {h}
<1>1. receiptC \in Seq(Tx) /\ n \in Nat /\ DOMAIN receiptC = 1..n
  BY DEF TypeOK, QueuesOK
<1>2. h \in inflight /\ \A i \in 1..n : receiptC[i] \in others
  BY DEF Account, InflightAccounted, SingleFlight, Queued
<1>3. receiptC \in Injection(1..n, others)
  BY <1>1, <1>2 DEF Account, SingleFlight, Injection, IsInjective
<1>4. /\ IsFiniteSet(others) /\ Cardinality(others) = Cardinality(inflight) - 1
      /\ Cardinality(inflight) \in Nat
  BY <1>2, FS_RemoveElement, FS_CardinalityType DEF Bounded
<1>5. Cardinality(1..n) = n
  BY <1>1, FS_Interval
<1>6. Cardinality(1..n) <= Cardinality(others)
  BY <1>3, <1>4, FS_Injection
<1> QED
  BY <1>1, <1>4, <1>5, <1>6, TrackerAssumption DEF Bounded

(* Whoever reserved a hash finds room for it in the queue.                 *)
THEOREM QueueHasRoomHolds == Spec => []QueueHasRoom
<1>1. Init => Bounded
  BY FS_EmptySet, TrackerAssumption DEF Init, InitMemory, Bounded
<1> QED
  BY <1>1, BoundedStep, RoomFollows, AccountInit, AccountStep, TypeCorrect, PTL DEF Spec

-----------------------------------------------------------------------------
(* One pending transaction per slot.                                       *)

Replacing(h) ==
    \E w \in FetchWorker :
        fetch[w].step \in {"markReplaced", "setReplaced"} /\ fetch[w].replaced = h

(* A claim makes the new transaction the owner and leaves the old one to   *)
(* the claiming worker, which stays on it until it is no longer pending.   *)
LEMMA OnePendingStep == TypeOK /\ OnePending /\ [Next]_vars => OnePending'
<1> SUFFICES ASSUME TypeOK, OnePending, [Next]_vars PROVE OnePending'
  OBVIOUS
<1>0. /\ fromNonce \in [Slot -> MaybeTx]
      /\ txs \in [Tx -> [status : Statuses \cup {"none"}, firstSeen : Nat]]
      /\ fetch \in [FetchWorker -> [step : FetchSteps, tx : MaybeTx, replaced : MaybeTx]]
  BY DEF TypeOK, TablesOK, FetchOK
<1>1. \A h \in Tx : txs[h].status = "pending" => fromNonce[SlotOf[h]] = h \/ Replacing(h)
  BY DEF OnePending, Replacing
<1>2. SUFFICES ASSUME NEW h \in Tx, txs'[h].status = "pending"
               PROVE  fromNonce'[SlotOf[h]] = h \/ Replacing(h)'
  BY DEF OnePending, Replacing
<1>3. ASSUME UNCHANGED <<fetch, fromNonce>>, txs[h].status = "pending"
      PROVE  fromNonce'[SlotOf[h]] = h \/ Replacing(h)'
  BY <1>1, <1>3 DEF Replacing
<1>4. ASSUME NEW w \in FetchWorker, UNCHANGED maps,
             \A v \in FetchWorker \ {w} : fetch'[v] = fetch[v],
             \/ fetch[w].step \notin {"markReplaced", "setReplaced"}
             \/ fetch'[w].step = "setReplaced" /\ fetch'[w].replaced = fetch[w].replaced
      PROVE  fromNonce'[SlotOf[h]] = h \/ Replacing(h)'
  BY <1>1, <1>2, <1>4 DEF Replacing, maps
<1>5. ASSUME NEW w \in FetchWorker, Claim(w)
      PROVE  fromNonce'[SlotOf[h]] = h \/ Replacing(h)'
  <2> DEFINE new == fetch[w].tx
             owner == fromNonce[SlotOf[new]]
  <2>1. /\ fetch[w].step = "claim" /\ new \in Tx /\ SlotOf[new] \in Slot /\ SlotOf[h] \in Slot
        /\ fromNonce' = [fromNonce EXCEPT ![SlotOf[new]] = new]
        /\ h # new => txs[h].status = "pending"
    BY <1>0, <1>2, <1>5, TrackerAssumption DEF Claim, TypeOK, FetchOK
  <2>2. \A v \in FetchWorker \ {w} : fetch'[v] = fetch[v]
    BY <1>0, <1>5 DEF Claim
  <2>3. CASE h = new
    BY <1>0, <2>1, <2>3
  <2>4. CASE h # new /\ Replacing(h)
    BY <2>1, <2>2, <2>4 DEF Replacing
  <2>5. CASE h # new /\ fromNonce[SlotOf[h]] = h
    <3>1. CASE SlotOf[h] # SlotOf[new]
      BY <1>0, <2>1, <2>5, <3>1
    <3>2. CASE SlotOf[h] = SlotOf[new]
      <4>1. owner = h /\ owner \notin {None, new}
        BY <2>5, <3>2, TrackerAssumption
      <4>2. fetch' = [fetch EXCEPT ![w] =
                          [step |-> "markReplaced", tx |-> new, replaced |-> owner]]
        BY <1>5, <4>1 DEF Claim
      <4>3. fetch'[w].step = "markReplaced" /\ fetch'[w].replaced = h
        BY <1>0, <4>1, <4>2
      <4> QED
        BY <4>3 DEF Replacing
    <3> QED
      BY <3>1, <3>2
  <2> QED
    BY <1>1, <2>1, <2>3, <2>4, <2>5
<1>6. ASSUME NEW w \in FetchWorker, SetReplaced(w)
      PROVE  fromNonce'[SlotOf[h]] = h \/ Replacing(h)'
  <2>1. /\ txs[h].status = "pending" /\ h # fetch[w].replaced
        /\ UNCHANGED fromNonce /\ \A v \in FetchWorker \ {w} : fetch'[v] = fetch[v]
    BY <1>0, <1>2, <1>6 DEF SetReplaced, Tracked, TypeOK, FetchOK
  <2> QED
    BY <1>1, <2>1 DEF Replacing
<1>7. ASSUME NEW w \in FetchWorker, FetchStep(w) \/ FetchFault(w)
      PROVE  fromNonce'[SlotOf[h]] = h \/ Replacing(h)'
  <2>1. CASE MarkReplaced(w) \/ MarkReplacedFails(w)
    BY <1>0, <1>4, <2>1 DEF MarkReplaced, MarkReplacedFails, maps
  <2>2. CASE FetchTake(w) \/ FetchFound(w) \/ FetchNotFound(w) \/ FetchFails(w)
    BY <1>0, <1>4, <2>2 DEF FetchTake, FetchFound, FetchNotFound, FetchFails, maps
  <2>3. CASE Upsert(w) \/ UpsertFails(w) \/ FetchReserve(w) \/ FetchSend(w)
    <3>1. \A v \in FetchWorker \ {w} : fetch'[v] = fetch[v]
      BY <1>0, <2>3 DEF Upsert, UpsertFails, FetchReserve, FetchSend
    <3>2. UNCHANGED maps /\ fetch[w].step \notin {"markReplaced", "setReplaced"}
      BY <2>3 DEF Upsert, UpsertFails, FetchReserve, FetchSend, maps
    <3> QED
      BY <1>4, <3>1, <3>2
  <2> QED
    BY <1>5, <1>6, <1>7, <2>1, <2>2, <2>3 DEF FetchStep, FetchFault
<1>8. ASSUME NEW w \in ReceiptWorker, ReceiptStep(w) \/ ReceiptFails(w)
      PROVE  fromNonce'[SlotOf[h]] = h \/ Replacing(h)'
  <2>1. CASE Forget(w)
    <3> DEFINE mined == receipt[w].tx
    <3>1. /\ mined \in Tx /\ h # mined /\ txs[h].status = "pending" /\ UNCHANGED fetch
      BY <1>0, <1>2, <2>1 DEF Forget, Untracked, TypeOK, ReceiptOK
    <3>2. fromNonce[SlotOf[h]] = h => fromNonce'[SlotOf[h]] = h
      BY <1>0, <2>1, <3>1, TrackerAssumption DEF Forget
    <3> QED
      BY <1>1, <3>1, <3>2 DEF Replacing
  <2>2. UNCHANGED <<fetch, maps>> \/ Forget(w)
    BY <1>8 DEF ReceiptStep, ReceiptTake, ReceiptNone, ReceiptMined, MarkMined, Release,
                ReceiptFails
  <2> QED
    BY <1>2, <1>3, <2>1, <2>2 DEF maps
<1>9. CASE Sweep
  BY <1>2, <1>3, <1>9 DEF Sweep
<1>10. CASE Crash
  BY <1>2, <1>10 DEF Crash, Untracked
<1>11. CASE Network \/ Service \/ UNCHANGED vars \/ \E x \in Tx : MarkDropped(x)
            \/ MarkDroppedFails(x)
  BY <1>2, <1>3, <1>11 DEF Network, Service, TakeHash, TakeHead, ScheduleReserve, ScheduleSend,
                           ScheduleDone, MarkDropped, MarkDroppedFails, maps, vars
<1> QED
  BY <1>7, <1>8, <1>9, <1>10, <1>11 DEF Next, Sweeper, Fault

(* Of the transactions of a slot, one is pending without being replaced.   *)
THEOREM OnePendingHolds == Spec => []OnePending
<1>1. Init => OnePending
  BY DEF Init, InitMemory, OnePending, Untracked
<1> QED
  BY <1>1, OnePendingStep, TypeCorrect, PTL DEF Spec

-----------------------------------------------------------------------------
(* The transactions a block holds or held.  The proof of MinedWasMined     *)
(* adds to it that a receipt worker about to mark its transaction mined    *)
(* has seen the receipt of one of them.                                    *)
EverMined == onChain \cup abandoned

SeenReceipt ==
    \A w \in ReceiptWorker : receipt[w].step = "markMined" => receipt[w].tx \in EverMined

MinedInv == MinedWasMined /\ SeenReceipt

(* No step takes a transaction out of EverMined: a reorg only moves it to  *)
(* the abandoned ones.                                                     *)
LEMMA EverMinedGrows == Next => EverMined \subseteq EverMined'
<1> SUFFICES ASSUME Next PROVE EverMined \subseteq EverMined'
  OBVIOUS
<1>1. CASE Network
  BY <1>1 DEF Network, MineOther, Tick, Submit, Reannounce, MineTx, Unmine, EverMined
<1>2. CASE Service
  BY <1>2 DEF Service, TakeHash, TakeHead, ScheduleReserve, ScheduleSend, ScheduleDone,
              network, EverMined
<1>3. ASSUME NEW w \in FetchWorker, FetchStep(w) \/ FetchFault(w)
      PROVE  EverMined \subseteq EverMined'
  BY <1>3 DEF FetchStep, FetchFault, FetchTake, FetchFound, FetchNotFound, Claim, MarkReplaced,
              SetReplaced, Upsert, FetchReserve, FetchSend, FetchFails, MarkReplacedFails,
              UpsertFails, network, EverMined
<1>4. ASSUME NEW w \in ReceiptWorker, ReceiptStep(w) \/ ReceiptFails(w)
      PROVE  EverMined \subseteq EverMined'
  BY <1>4 DEF ReceiptStep, ReceiptTake, ReceiptNone, ReceiptMined, MarkMined, Forget, Release,
              ReceiptFails, network, EverMined
<1>5. CASE Sweeper \/ \E h \in Tx : MarkDroppedFails(h)
  BY <1>5 DEF Sweeper, Sweep, MarkDropped, MarkDroppedFails, network, EverMined
<1>6. CASE Crash
  BY <1>6 DEF Crash, EverMined
<1> QED
  BY <1>1, <1>2, <1>3, <1>4, <1>5, <1>6 DEF Next, Fault

(* A transition to a status other than mined, on behalf of whomever.       *)
LEMMA OtherStatus ==
    ASSUME TablesOK, MinedWasMined, EverMined \subseteq EverMined', NEW h \in Tx,
           NEW status \in Statuses, rows' = SetStatus(h, status)
    PROVE  MinedWasMined'
BY DEF TablesOK, MinedWasMined, EverMined, SetStatus, Statuses

(* Every step keeps the invariant.                                         *)
LEMMA MinedNext == TypeOK /\ MinedInv /\ [Next]_vars => MinedInv'
<1> SUFFICES ASSUME TypeOK, MinedInv, [Next]_vars PROVE MinedInv'
  OBVIOUS
<1>0. TablesOK /\ FetchOK /\ ReceiptOK /\ ServiceOK /\ MinedWasMined /\ SeenReceipt
  BY DEF TypeOK, MinedInv
<1>1. EverMined \subseteq EverMined'
  BY EverMinedGrows DEF vars, network, EverMined
<1>2. ASSUME UNCHANGED rows PROVE MinedWasMined'
  BY <1>0, <1>1, <1>2 DEF MinedWasMined, EverMined
<1>3. ASSUME UNCHANGED receipt PROVE SeenReceipt'
  BY <1>0, <1>1, <1>3 DEF SeenReceipt
<1>4. CASE Network
  BY <1>2, <1>3, <1>4 DEF Network, MinedInv
<1>5. CASE Service
  BY <1>2, <1>3, <1>5 DEF Service, TakeHash, TakeHead, ScheduleReserve, ScheduleSend,
                          ScheduleDone, MinedInv
<1>6. ASSUME NEW w \in FetchWorker, FetchStep(w) \/ FetchFault(w) PROVE MinedInv'
  <2>1. UNCHANGED receipt
    BY <1>6 DEF FetchStep, FetchFault, FetchTake, FetchFound, FetchNotFound, Claim,
                MarkReplaced, SetReplaced, Upsert, FetchReserve, FetchSend, FetchFails,
                MarkReplacedFails, UpsertFails
  <2>2. CASE MarkReplaced(w)
    <3>1. fetch[w].replaced \in Tx /\ rows' = SetStatus(fetch[w].replaced, "replaced")
      BY <1>0, <2>2 DEF MarkReplaced, FetchOK
    <3> QED
      BY <1>0, <1>1, <1>3, <2>1, <3>1, OtherStatus DEF Statuses, MinedInv
  <2>3. CASE Upsert(w)
    <3>1. MinedWasMined'
      BY <1>0, <1>1, <2>3 DEF Upsert, TablesOK, MinedWasMined, EverMined
    <3> QED
      BY <1>3, <2>1, <3>1 DEF MinedInv
  <2>4. UNCHANGED rows \/ MarkReplaced(w) \/ Upsert(w)
    BY <1>6 DEF FetchStep, FetchFault, FetchTake, FetchFound, FetchNotFound, Claim,
                SetReplaced, FetchReserve, FetchSend, FetchFails, MarkReplacedFails, UpsertFails
  <2> QED
    BY <1>2, <1>3, <2>1, <2>2, <2>3, <2>4 DEF MinedInv
<1>7. ASSUME NEW w \in ReceiptWorker, ReceiptStep(w) \/ ReceiptFails(w) PROVE MinedInv'
  <2>1. CASE ReceiptMined(w)
    <3>1. receipt[w].tx \in EverMined /\ UNCHANGED rows
      BY <2>1 DEF ReceiptMined, EverMined
    <3>2. \A v \in ReceiptWorker : receipt'[v].tx = receipt[v].tx
                                   /\ (v # w => receipt'[v] = receipt[v])
      BY <1>0, <2>1 DEF ReceiptMined, ReceiptOK
    <3> QED
      BY <1>0, <1>1, <1>2, <3>1, <3>2 DEF SeenReceipt, MinedInv
  <2>2. CASE MarkMined(w)
    <3>1. receipt[w].tx \in EverMined' /\ rows' = SetStatus(receipt[w].tx, "mined")
      BY <1>0, <1>1, <2>2 DEF MarkMined, SeenReceipt
    <3>2. MinedWasMined'
      BY <1>0, <1>1, <3>1 DEF TablesOK, SetStatus, MinedWasMined, EverMined
    <3>3. \A v \in ReceiptWorker : receipt'[v].step = "markMined" => receipt'[v] = receipt[v]
      BY <1>0, <2>2 DEF MarkMined, ReceiptOK
    <3>4. SeenReceipt'
      BY <1>0, <1>1, <3>3 DEF SeenReceipt
    <3> QED
      BY <3>2, <3>4 DEF MinedInv
  <2>3. CASE ReceiptTake(w) \/ ReceiptNone(w) \/ Forget(w) \/ Release(w) \/ ReceiptFails(w)
    <3>1. \A v \in ReceiptWorker : receipt'[v].step = "markMined" => receipt'[v] = receipt[v]
      BY <1>0, <2>3 DEF ReceiptTake, ReceiptNone, Forget, Release, ReceiptFails, IdleReceipt,
                        ReceiptOK
    <3>2. SeenReceipt'
      BY <1>0, <1>1, <3>1 DEF SeenReceipt
    <3>3. UNCHANGED rows
      BY <2>3 DEF ReceiptTake, ReceiptNone, Forget, Release, ReceiptFails
    <3> QED
      BY <1>2, <3>2, <3>3 DEF MinedInv
  <2> QED
    BY <1>7, <2>1, <2>2, <2>3 DEF ReceiptStep
<1>8. CASE Sweeper \/ \E h \in Tx : MarkDroppedFails(h)
  <2>1. UNCHANGED receipt
    BY <1>8 DEF Sweeper, Sweep, MarkDropped, MarkDroppedFails
  <2>2. ASSUME NEW h \in Tx, MarkDropped(h) PROVE MinedWasMined'
    BY <1>0, <1>1, <2>2, OtherStatus DEF MarkDropped, Statuses
  <2>3. UNCHANGED rows \/ \E h \in Tx : MarkDropped(h)
    BY <1>8 DEF Sweeper, Sweep, MarkDroppedFails
  <2> QED
    BY <1>2, <1>3, <2>1, <2>2, <2>3 DEF MinedInv
<1>9. CASE Crash
  <2>1. SeenReceipt'
    BY <1>9 DEF Crash, IdleReceipt, SeenReceipt
  <2> QED
    BY <1>2, <1>9, <2>1 DEF Crash, MinedInv
<1>10. CASE UNCHANGED vars
  BY <1>2, <1>3, <1>10 DEF vars, MinedInv
<1> QED
  BY <1>4, <1>5, <1>6, <1>7, <1>8, <1>9, <1>10 DEF Next, Fault

(* Whatever workers, failures, deaths and reorgs, a row says mined only of *)
(* a transaction that was in a block (tracker.go:165-200).                 *)
THEOREM MinedWasMinedHolds == Spec => []MinedWasMined
<1>1. Init => MinedInv
  BY DEF Init, InitMemory, MinedInv, MinedWasMined, SeenReceipt, IdleReceipt
<1> QED
  BY <1>1, MinedNext, TypeCorrect, PTL DEF Spec, MinedInv

-----------------------------------------------------------------------------
(* The tracker implements the desk.                                        *)

DeskStep == [Desk!Next]_(Desk!desk)

(* A step of which the desk sees nothing but rows that lose the status     *)
(* mined and transactions that become tracked.                             *)
LEMMA DeskStill ==
    ASSUME UNCHANGED <<onChain, Sending, Queued, Asking, Seen>>,
           \/ UNCHANGED Known /\ MinedRows' \in SUBSET MinedRows
           \/ UNCHANGED MinedRows /\ \E h \in Tx : Known' = Known \cup {h}
    PROVE  DeskStep
<1>1. CASE UNCHANGED Known /\ MinedRows' \in SUBSET MinedRows
  BY <1>1 DEF DeskStep, Desk!Next, Desk!Overwrite
<1>2. ASSUME UNCHANGED MinedRows, NEW h \in Tx, Known' = Known \cup {h} PROVE DeskStep
  BY <1>2 DEF DeskStep, Desk!Next, Desk!Track
<1> QED
  BY <1>1, <1>2

(* What the desk sees depends on these variables only.                     *)
LEMMA DeskViews ==
    /\ UNCHANGED receipt => UNCHANGED <<Asking, Seen>>
    /\ UNCHANGED receiptC => UNCHANGED Queued
    /\ UNCHANGED <<fetch, service>> => UNCHANGED Sending
    /\ UNCHANGED txs => UNCHANGED Known
    /\ UNCHANGED rows => UNCHANGED MinedRows
BY DEF Asking, Askers, Seen, Seers, Queued, Sending, Senders, Known, Tracked, MinedRows

(* A row that gets another status is no longer one that says mined.        *)
LEMMA OtherRow ==
    ASSUME TablesOK, NEW h \in Tx, NEW status \in Statuses,
           rows' = SetStatus(h, status) \/ rows' = [rows EXCEPT ![h] = status]
    PROVE  MinedRows' \in SUBSET MinedRows
BY DEF TablesOK, SetStatus, MinedRows, Statuses

(* A hash that is reserved is admitted: nobody held it, and there is room. *)
LEMMA DeskAdmit ==
    ASSUME Account, NEW h \in Tx, CanReserve(h), Sending' = Sending \cup {h},
           UNCHANGED <<onChain, Queued, Asking, Seen, Known, MinedRows>>
    PROVE  DeskStep
<1>1. /\ h \notin (Sending \cup Queued) \cup Asking
      /\ Cardinality((Sending \cup Queued) \cup Asking) < MaxInflight
  BY DEF CanReserve, Account, InflightAccounted
<1>2. (Sending \cup Queued)' = (Sending \cup Queued) \cup {h}
  OBVIOUS
<1>3. Desk!Cardinality((Sending \cup Queued) \cup Asking) = Cardinality((Sending \cup Queued) \cup Asking)
  BY DEF Cardinality, Desk!Cardinality
<1>4. Desk!Admit(h)
  BY <1>1, <1>2, <1>3 DEF Desk!Admit
<1> QED
  BY <1>4 DEF DeskStep, Desk!Next

(* A hash that is sent still waits: the queue has room for it.             *)
LEMMA DeskSend ==
    ASSUME TypeOK, QueueHasRoom, NEW h \in Tx, h \in Sending, Send(h), Sending' = Sending \ {h},
           UNCHANGED <<onChain, Asking, Seen, Known, MinedRows>>
    PROVE  DeskStep
<1>1. receiptC \in Seq(Tx) /\ Len(receiptC) < MaxInflight
  BY DEF QueueHasRoom, TypeOK, QueuesOK
<1>2. receiptC' = Append(receiptC, h)
  BY <1>1 DEF Send
<1>3. /\ Len(receiptC') = Len(receiptC) + 1 /\ Len(receiptC) \in Nat
      /\ receiptC'[Len(receiptC) + 1] = h
      /\ \A i \in 1..Len(receiptC) : receiptC'[i] = receiptC[i]
  BY <1>1, <1>2
<1>4. Queued' = Queued \cup {h}
  BY <1>3 DEF Queued
<1>5. (Sending \cup Queued)' = Sending \cup Queued
  BY <1>4
<1>6. UNCHANGED Desk!desk
  BY <1>5 DEF Desk!desk
<1> QED
  BY <1>6 DEF DeskStep

(* The steps of the service loop.                                          *)
LEMMA DeskService ==
    ASSUME TypeOK, Account, QueueHasRoom, Service
    PROVE  DeskStep
<1>1. UNCHANGED <<onChain, receipt, fetch, rows, txs>>
  BY DEF Service, TakeHash, TakeHead, ScheduleReserve, ScheduleSend, ScheduleDone, network, maps
<1>2. UNCHANGED <<onChain, Asking, Seen, Known, MinedRows>>
  BY <1>1, DeskViews
<1>3. ASSUME UNCHANGED receiptC, service.step # "send", service'.step # "send" PROVE DeskStep
  <2>1. UNCHANGED <<Sending, Queued>>
    BY <1>1, <1>3, DeskViews DEF Sending, Senders
  <2> QED
    BY <1>2, <2>1, DeskStill
<1>4. CASE TakeHash \/ TakeHead \/ ScheduleDone
  <2>1. CASE TakeHash
    BY <1>3, <2>1 DEF TakeHash, queue
  <2>2. CASE TakeHead \/ ScheduleDone
    BY <1>3, <2>2 DEF TakeHead, ScheduleDone, IdleService, queue
  <2> QED
    BY <1>4, <2>1, <2>2
<1>5. ASSUME NEW h \in Tx, ScheduleReserve(h) PROVE DeskStep
  <2>0. service.step = "schedule" /\ UNCHANGED receiptC
    BY <1>5 DEF ScheduleReserve
  <2>1. CASE ~CanReserve(h)
    BY <1>3, <1>5, <2>0, <2>1 DEF ScheduleReserve, TypeOK, ServiceOK
  <2>2. CASE CanReserve(h)
    <3>1. service'.step = "send" /\ service'.tx = h
      BY <1>5, <2>2 DEF ScheduleReserve
    <3>2. Sending' = Sending \cup {h}
      BY <1>1, <2>0, <3>1 DEF Sending, Senders
    <3>3. Queued' = Queued
      BY <2>0, DeskViews
    <3> QED
      BY <1>2, <2>2, <3>2, <3>3, DeskAdmit
  <2> QED
    BY <2>1, <2>2
<1>6. CASE ScheduleSend
  <2> DEFINE h == service.tx
  <2>0. service.step = "send" /\ h \in Tx /\ service'.step = "schedule" /\ Send(h)
    BY <1>6 DEF ScheduleSend, TypeOK, ServiceOK
  <2>1. \A w \in FetchWorker : fetch[w].step = "send" => fetch[w].tx # h
    BY <2>0 DEF Account, SingleFlight, Senders
  <2>2. Sending' = Sending \ {h} /\ h \in Sending
    BY <1>1, <2>0, <2>1 DEF Sending, Senders
  <2> HIDE DEF h
  <2> QED
    BY <1>2, <2>0, <2>2, DeskSend
<1> QED
  BY <1>4, <1>5, <1>6 DEF Service

(* The steps of a fetch worker.                                            *)
LEMMA DeskFetch ==
    ASSUME TypeOK, Account, QueueHasRoom, NEW w \in FetchWorker, FetchStep(w) \/ FetchFault(w)
    PROVE  DeskStep
<1>0. /\ fetch \in [FetchWorker -> [step : FetchSteps, tx : MaybeTx, replaced : MaybeTx]]
      /\ TablesOK /\ (fetch[w].step # "idle" => fetch[w].tx \in Tx)
      /\ (fetch[w].step \in {"markReplaced", "setReplaced"} => fetch[w].replaced \in Tx)
  BY DEF TypeOK, FetchOK
<1>1. UNCHANGED <<receipt, service, onChain>>
  BY DEF FetchStep, FetchFault, FetchTake, FetchFound, FetchNotFound, Claim, MarkReplaced,
         SetReplaced, Upsert, FetchReserve, FetchSend, FetchFails, MarkReplacedFails, UpsertFails,
         network
<1>2. UNCHANGED <<onChain, Asking, Seen>>
  BY <1>1, DeskViews
<1>3. ASSUME UNCHANGED receiptC, fetch[w].step # "send", fetch'[w].step # "send",
             \A v \in FetchWorker \ {w} : fetch'[v] = fetch[v]
      PROVE  UNCHANGED <<Sending, Queued>>
  <2>1. Senders' = Senders /\ \A v \in Senders : fetch'[v] = fetch[v]
    BY <1>3 DEF Senders
  <2> QED
    BY <1>1, <1>3, <2>1, DeskViews DEF Sending
<1>4. CASE FetchTake(w) \/ FetchFound(w) \/ FetchNotFound(w) \/ FetchFails(w)
           \/ UpsertFails(w) \/ MarkReplacedFails(w)
  <2>1. /\ UNCHANGED receiptC /\ fetch[w].step # "send" /\ fetch'[w].step # "send"
        /\ \A v \in FetchWorker \ {w} : fetch'[v] = fetch[v]
    <3>1. UNCHANGED receiptC
      BY <1>4 DEF FetchTake, FetchFound, FetchNotFound, FetchFails, UpsertFails,
                  MarkReplacedFails, queue
    <3>2. \E next : fetch' = [fetch EXCEPT ![w] = next] /\ next.step # "send"
      <4>1. CASE FetchTake(w) \/ FetchNotFound(w) \/ FetchFails(w) \/ UpsertFails(w)
        BY <4>1 DEF FetchTake, FetchNotFound, FetchFails, UpsertFails, IdleFetch
      <4>2. CASE FetchFound(w) \/ MarkReplacedFails(w)
        <5>1. PICK s \in {"claim", "setReplaced"} : fetch' = [fetch EXCEPT ![w].step = s]
          BY <4>2 DEF FetchFound, MarkReplacedFails
        <5>2. [fetch[w] EXCEPT !.step = s].step # "send"
          BY <1>0, <5>1
        <5> QED
          BY <1>0, <5>1, <5>2
      <4> QED
        BY <1>4, <4>1, <4>2
    <3>3. fetch[w].step # "send"
      BY <1>4 DEF FetchTake, FetchFound, FetchNotFound, FetchFails, UpsertFails, MarkReplacedFails
    <3> QED
      BY <1>0, <3>1, <3>2, <3>3
  <2>2. UNCHANGED <<txs, rows>>
    BY <1>4 DEF FetchTake, FetchFound, FetchNotFound, FetchFails, UpsertFails,
                MarkReplacedFails, maps
  <2>3. UNCHANGED <<Known, MinedRows>>
    BY <2>2, DeskViews
  <2> QED
    BY <1>2, <1>3, <2>1, <2>3, DeskStill
<1>5. CASE Claim(w)
  <2> DEFINE h == fetch[w].tx
  <2>1. fetch[w].step = "claim" /\ UNCHANGED <<receiptC, rows>> /\ h \in Tx
    BY <1>0, <1>5 DEF Claim, queue
  <2>2. \/ fetch' = [fetch EXCEPT ![w].step = "upsert"]
        \/ \E owner : fetch' = [fetch EXCEPT ![w] =
                 [step |-> "markReplaced", tx |-> h, replaced |-> owner]]
    BY <1>5 DEF Claim
  <2>3. fetch'[w].step # "send" /\ \A v \in FetchWorker \ {w} : fetch'[v] = fetch[v]
    BY <1>0, <2>2
  <2>4. Known' = Known \cup {h}
    BY <1>0, <1>5, <2>1 DEF Claim, Known, Tracked, TablesOK
  <2>5. UNCHANGED MinedRows
    BY <2>1, DeskViews
  <2> QED
    BY <1>2, <1>3, <2>1, <2>3, <2>4, <2>5, DeskStill
<1>6. CASE MarkReplaced(w)
  <2>1. /\ fetch[w].step = "markReplaced" /\ UNCHANGED <<receiptC, txs>>
        /\ rows' = SetStatus(fetch[w].replaced, "replaced")
        /\ fetch' = [fetch EXCEPT ![w].step = "setReplaced"]
    BY <1>6 DEF MarkReplaced, queue, maps
  <2>2. fetch'[w].step # "send" /\ \A v \in FetchWorker \ {w} : fetch'[v] = fetch[v]
    BY <1>0, <2>1
  <2>3. MinedRows' \in SUBSET MinedRows
    BY <1>0, <2>1, OtherRow DEF Statuses
  <2>4. UNCHANGED Known
    BY <2>1, DeskViews
  <2> QED
    BY <1>2, <1>3, <2>1, <2>2, <2>3, <2>4, DeskStill
<1>7. CASE SetReplaced(w)
  <2>1. /\ fetch[w].step = "setReplaced" /\ UNCHANGED <<receiptC, rows>>
        /\ fetch' = [fetch EXCEPT ![w] =
                        [step |-> "upsert", tx |-> fetch[w].tx, replaced |-> None]]
    BY <1>0, <1>7 DEF SetReplaced, queue
  <2>2. fetch'[w].step # "send" /\ \A v \in FetchWorker \ {w} : fetch'[v] = fetch[v]
    BY <1>0, <2>1
  <2>3. Known' = Known
    BY <1>0, <1>7, <2>1 DEF SetReplaced, Known, Tracked, TablesOK
  <2>4. UNCHANGED MinedRows
    BY <2>1, DeskViews
  <2> QED
    BY <1>2, <1>3, <2>1, <2>2, <2>3, <2>4, DeskStill
<1>8. CASE Upsert(w)
  <2>1. /\ fetch[w].step = "upsert" /\ UNCHANGED <<receiptC, txs>>
        /\ rows' = [rows EXCEPT ![fetch[w].tx] = "pending"]
        /\ fetch' = [fetch EXCEPT ![w].step = "reserve"]
    BY <1>8 DEF Upsert, queue, maps
  <2>2. fetch'[w].step # "send" /\ \A v \in FetchWorker \ {w} : fetch'[v] = fetch[v]
    BY <1>0, <2>1
  <2>3. MinedRows' \in SUBSET MinedRows
    BY <1>0, <2>1, OtherRow DEF Statuses
  <2>4. UNCHANGED Known
    BY <2>1, DeskViews
  <2> QED
    BY <1>2, <1>3, <2>1, <2>2, <2>3, <2>4, DeskStill
<1>9. CASE FetchReserve(w)
  <2> DEFINE h == fetch[w].tx
  <2>0. fetch[w].step = "reserve" /\ UNCHANGED <<receiptC, txs, rows>> /\ h \in Tx
    BY <1>0, <1>9 DEF FetchReserve, maps
  <2>1. UNCHANGED <<Queued, Known, MinedRows>>
    BY <2>0, DeskViews
  <2>2. CASE ~CanReserve(h)
    <3>1. fetch'[w].step # "send" /\ \A v \in FetchWorker \ {w} : fetch'[v] = fetch[v]
      BY <1>0, <1>9, <2>2 DEF FetchReserve, IdleFetch
    <3> QED
      BY <1>2, <1>3, <2>0, <2>1, <3>1, DeskStill
  <2>3. CASE CanReserve(h)
    <3>1. fetch' = [fetch EXCEPT ![w].step = "send"]
      BY <1>9, <2>3 DEF FetchReserve
    <3>2. /\ fetch'[w].step = "send" /\ fetch'[w].tx = h
          /\ \A v \in FetchWorker \ {w} : fetch'[v] = fetch[v]
      BY <1>0, <3>1
    <3>3. Sending' = Sending \cup {h}
      BY <1>1, <2>0, <3>2 DEF Sending, Senders
    <3> QED
      BY <1>2, <2>0, <2>1, <2>3, <3>3, DeskAdmit
  <2> QED
    BY <2>2, <2>3
<1>10. CASE FetchSend(w)
  <2> DEFINE h == fetch[w].tx
  <2>0. /\ fetch[w].step = "send" /\ fetch' = [fetch EXCEPT ![w] = IdleFetch] /\ h \in Tx
        /\ UNCHANGED <<txs, rows>> /\ Send(h)
    BY <1>0, <1>10 DEF FetchSend, maps
  <2>1. /\ \A v \in FetchWorker \ {w} : fetch[v].step = "send" => fetch[v].tx # h
        /\ service.step = "send" => service.tx # h
    BY <2>0 DEF Account, SingleFlight, Senders
  <2>2. Senders' = Senders \ {w} /\ \A v \in FetchWorker \ {w} : fetch'[v] = fetch[v]
    BY <1>0, <2>0 DEF Senders, IdleFetch
  <2>3. Sending' = Sending \ {h} /\ h \in Sending
    BY <1>1, <2>0, <2>1, <2>2 DEF Sending, Senders
  <2>4. UNCHANGED <<Known, MinedRows>>
    BY <2>0, DeskViews
  <2> HIDE DEF h
  <2> QED
    BY <1>2, <2>0, <2>3, <2>4, DeskSend
<1> QED
  BY <1>4, <1>5, <1>6, <1>7, <1>8, <1>9, <1>10 DEF FetchStep, FetchFault

(* What the desk sees of a receipt worker that goes on with its hash.      *)
LEMMA DeskMoves ==
    ASSUME TypeOK, Account, NEW w \in ReceiptWorker, NEW next \in ReceiptSteps \ {"idle"},
           receipt[w].step # "idle", receipt' = [receipt EXCEPT ![w].step = next]
    PROVE  /\ receipt[w].tx \in Asking /\ Asking' = Asking
           /\ next \in {"markMined", "forget"} => Seen' = Seen \cup {receipt[w].tx}
           /\ next \notin {"markMined", "forget"} => Seen' = Seen \ {receipt[w].tx}
<1> DEFINE h == receipt[w].tx
<1>1. /\ receipt'[w].step = next /\ receipt'[w].tx = h
      /\ \A v \in ReceiptWorker \ {w} : receipt'[v] = receipt[v]
  BY DEF TypeOK, ReceiptOK
<1>2. Askers' = Askers /\ w \in Askers
  BY <1>1 DEF Askers
<1>3. h \in Asking /\ Asking' = Asking
  BY <1>1, <1>2 DEF Asking, Askers
<1>4. \A v \in Askers : v # w => receipt[v].tx # h
  BY <1>2 DEF Account, SingleFlight
<1>5. CASE next \in {"markMined", "forget"}
  <2>1. Seers' = Seers \cup {w}
    BY <1>1, <1>2, <1>5 DEF Seers, Askers
  <2>2. Seen' = Seen \cup {h}
    BY <1>1, <2>1 DEF Seen, Seers, Askers
  <2> QED
    BY <1>3, <1>5, <2>2
<1>6. CASE next \notin {"markMined", "forget"}
  <2>1. Seers' = Seers \ {w}
    BY <1>1, <1>2, <1>6 DEF Seers, Askers
  <2>2. Seen' = Seen \ {h}
    BY <1>1, <1>4, <2>1 DEF Seen, Seers, Askers
  <2> QED
    BY <1>3, <1>6, <2>2
<1> QED
  BY <1>5, <1>6

(* The steps of a receipt worker.                                          *)
LEMMA DeskReceipt ==
    ASSUME TypeOK, Account, NEW w \in ReceiptWorker, ReceiptStep(w) \/ ReceiptFails(w)
    PROVE  DeskStep
<1> DEFINE h == receipt[w].tx
<1>0. /\ receipt \in [ReceiptWorker -> [step : ReceiptSteps, tx : MaybeTx]]
      /\ receipt[w].step # "idle" => h \in Tx
      /\ TablesOK
  BY DEF TypeOK, ReceiptOK
<1>1. UNCHANGED <<fetch, service, onChain>>
  BY DEF ReceiptStep, ReceiptTake, ReceiptNone, ReceiptMined, MarkMined, Forget, Release,
         ReceiptFails, network
<1>2. UNCHANGED <<onChain, Sending>>
  BY <1>1, DeskViews
<1>3. receipt[w].step \in {"markMined", "forget"} => h \in Seen /\ h \in Asking
  BY DEF Seen, Seers, Asking, Askers
<1>4. receipt[w].step \notin {"idle", "markMined", "forget"} => h \notin Seen
  BY DEF Account, SingleFlight, Seen, Seers, Askers
<1>5. CASE ReceiptNone(w) \/ ReceiptMined(w) \/ ReceiptFails(w)
  <2>1. PICK next \in {"release", "markMined"} :
           /\ receipt' = [receipt EXCEPT ![w].step = next]
           /\ next = "markMined" => h \in onChain
    BY <1>5 DEF ReceiptNone, ReceiptMined, ReceiptFails
  <2>2. /\ receipt[w].step \in {"ask", "markMined"} /\ UNCHANGED <<txs, rows, receiptC>>
        /\ next = "markMined" => receipt[w].step = "ask"
    BY <1>0, <1>5, <2>1 DEF ReceiptNone, ReceiptMined, ReceiptFails, maps, queue
  <2>3. UNCHANGED <<Known, MinedRows, Queued>>
    BY <2>2, DeskViews
  <2>4. /\ h \in Asking /\ Asking' = Asking /\ h \in Tx
        /\ next = "markMined" => Seen' = Seen \cup {h}
        /\ next = "release" => Seen' = Seen \ {h}
    BY <1>0, <2>1, <2>2, DeskMoves DEF ReceiptSteps
  <2> HIDE DEF h
  <2>5. CASE next = "markMined"
    <3>1. Desk!See(h)
      BY <1>2, <2>1, <2>3, <2>4, <2>5 DEF Desk!See
    <3> QED
      BY <2>4, <3>1 DEF DeskStep, Desk!Next
  <2>6. CASE next = "release" /\ h \in Seen
    <3>1. Desk!Settle(h)
      BY <1>2, <2>3, <2>4, <2>6 DEF Desk!Settle
    <3> QED
      BY <2>4, <3>1 DEF DeskStep, Desk!Next
  <2>7. CASE next = "release" /\ h \notin Seen
    <3>1. Seen' = Seen
      BY <2>4, <2>7
    <3> QED
      BY <1>2, <2>3, <2>4, <3>1, DeskStill
  <2> QED
    BY <2>5, <2>6, <2>7
<1>6. CASE MarkMined(w)
  <2>1. /\ receipt[w].step = "markMined" /\ receipt' = [receipt EXCEPT ![w].step = "forget"]
        /\ UNCHANGED <<txs, receiptC>> /\ rows' = SetStatus(h, "mined")
    BY <1>6 DEF MarkMined, maps, queue
  <2>2. UNCHANGED <<Known, Queued>>
    BY <2>1, DeskViews
  <2>3. h \in Seen /\ h \in Tx /\ Asking' = Asking /\ Seen' = Seen \cup {h}
    BY <1>0, <1>3, <2>1, DeskMoves DEF ReceiptSteps
  <2>4. MinedRows' = MinedRows \/ MinedRows' = MinedRows \cup {h}
    BY <1>0, <2>1, <2>3 DEF SetStatus, MinedRows, TablesOK
  <2>5. Seen' = Seen
    BY <2>3
  <2> HIDE DEF h
  <2>6. CASE MinedRows' = MinedRows
    BY <1>2, <2>2, <2>3, <2>5, <2>6, DeskStill
  <2>7. CASE MinedRows' = MinedRows \cup {h}
    <3>1. Desk!Mark(h)
      BY <1>2, <2>2, <2>3, <2>5, <2>7 DEF Desk!Mark
    <3> QED
      BY <2>3, <3>1 DEF DeskStep, Desk!Next
  <2> QED
    BY <2>4, <2>6, <2>7
<1>7. CASE Forget(w)
  <2>1. /\ receipt[w].step = "forget" /\ receipt' = [receipt EXCEPT ![w].step = "release"]
        /\ UNCHANGED <<rows, receiptC>> /\ txs' = [txs EXCEPT ![h] = Untracked]
    BY <1>7 DEF Forget, queue
  <2>2. UNCHANGED <<MinedRows, Queued>>
    BY <2>1, DeskViews
  <2>3. h \in Seen /\ h \in Tx /\ Asking' = Asking /\ Seen' = Seen \ {h}
    <3>1. "release" \in ReceiptSteps \ {"idle"} /\ "release" \notin {"markMined", "forget"}
      BY DEF ReceiptSteps
    <3>2. Asking' = Asking /\ Seen' = Seen \ {h}
      BY <2>1, <3>1, DeskMoves
    <3> QED
      BY <1>0, <1>3, <2>1, <3>2
  <2>4. Known' = Known \ {h}
    BY <1>0, <2>1, <2>3 DEF Known, Tracked, Untracked, TablesOK
  <2> HIDE DEF h
  <2>5. Desk!Settle(h)
    BY <1>2, <2>2, <2>3, <2>4 DEF Desk!Settle
  <2> QED
    BY <2>3, <2>5 DEF DeskStep, Desk!Next
<1>8. CASE ReceiptTake(w)
  <2> DEFINE x == Head(receiptC)
  <2>1. /\ receipt[w].step = "idle" /\ UNCHANGED <<txs, rows>>
        /\ receipt' = [receipt EXCEPT ![w] = [step |-> "ask", tx |-> x]]
        /\ receiptC # <<>> /\ receiptC' = Tail(receiptC)
    BY <1>8 DEF ReceiptTake, maps
  <2>2. UNCHANGED <<Known, MinedRows>>
    BY <2>1, DeskViews
  <2>3. Queued' = Queued \ {x} /\ x \in Queued /\ x \in Tx
    BY <2>1, QueueTail DEF TypeOK, QueuesOK, Account
  <2>4. /\ \A v \in ReceiptWorker \ {w} : receipt'[v] = receipt[v]
        /\ receipt'[w].step = "ask" /\ receipt'[w].tx = x
    BY <1>0, <2>1
  <2>5. Askers' = Askers \cup {w} /\ Asking' = Asking \cup {x}
    BY <2>1, <2>4 DEF Askers, Asking
  <2>6. Seers' = Seers /\ w \notin Seers
    BY <2>1, <2>4, <2>5 DEF Seers, Askers
  <2>7. Seen' = Seen
    BY <2>4, <2>6 DEF Seen, Seers, Askers
  <2>8. x \notin Sending
    BY <2>3 DEF Account, SingleFlight
  <2> HIDE DEF x
  <2>9. Desk!Ask(x)
    BY <1>2, <2>2, <2>3, <2>5, <2>7, <2>8 DEF Desk!Ask
  <2> QED
    BY <2>3, <2>9 DEF DeskStep, Desk!Next
<1>9. CASE Release(w)
  <2>1. /\ receipt[w].step = "release" /\ receipt' = [receipt EXCEPT ![w] = IdleReceipt]
        /\ UNCHANGED <<txs, rows, receiptC>>
    BY <1>9 DEF Release, maps
  <2>2. UNCHANGED <<Known, MinedRows, Queued>>
    BY <2>1, DeskViews
  <2>3. /\ \A v \in ReceiptWorker \ {w} : receipt'[v] = receipt[v]
        /\ receipt'[w].step = "idle"
    BY <1>0, <2>1 DEF IdleReceipt
  <2>4. Askers' = Askers \ {w} /\ w \in Askers
    BY <2>1, <2>3 DEF Askers
  <2>5. \A v \in Askers \ {w} : receipt[v].tx # h
    BY <2>4 DEF Account, SingleFlight
  <2>6. Asking' = Asking \ {h} /\ h \in Asking
    BY <2>3, <2>4, <2>5 DEF Asking, Askers
  <2>7. Seers' = Seers /\ w \notin Seers
    BY <2>1, <2>3, <2>4 DEF Seers, Askers
  <2>8. Seen' = Seen /\ h \notin Seen /\ h \in Tx
    BY <1>0, <1>4, <2>1, <2>3, <2>7 DEF Seen, Seers, Askers
  <2> HIDE DEF h
  <2>9. Desk!Leave(h)
    BY <1>2, <2>2, <2>6, <2>8 DEF Desk!Leave
  <2> QED
    BY <2>8, <2>9 DEF DeskStep, Desk!Next
<1> QED
  BY <1>5, <1>6, <1>7, <1>8, <1>9 DEF ReceiptStep

(* Every step of the tracker is a step of the desk, or none of it.         *)
LEMMA DeskNext ==
    ASSUME TypeOK, TypeOK', Account, QueueHasRoom, [Next]_vars
    PROVE  DeskStep
<1>0. TablesOK /\ ServiceOK
  BY DEF TypeOK
<1>1. CASE Network
  <2>1. UNCHANGED <<receipt, receiptC, fetch, service, txs, rows>>
    BY <1>1 DEF Network, queue, maps
  <2>2. UNCHANGED <<Asking, Seen, Queued, Sending, Known, MinedRows>>
    BY <2>1, DeskViews
  <2>3. onChain' \in SUBSET Tx
    BY DEF TypeOK, NetworkOK
  <2>4. Desk!Chain
    BY <2>2, <2>3 DEF Desk!Chain
  <2> QED
    BY <2>4 DEF DeskStep, Desk!Next
<1>2. CASE Service
  BY <1>2, DeskService
<1>3. ASSUME NEW w \in FetchWorker, FetchStep(w) \/ FetchFault(w) PROVE DeskStep
  BY <1>3, DeskFetch
<1>4. ASSUME NEW w \in ReceiptWorker, ReceiptStep(w) \/ ReceiptFails(w) PROVE DeskStep
  BY <1>4, DeskReceipt
<1>5. CASE Sweep
  <2>1. UNCHANGED <<receipt, receiptC, fetch, service, rows, onChain>>
    BY <1>5 DEF Sweep, queue, network
  <2>2. Known' = Known
    BY <1>0, <1>5 DEF Sweep, Expired, Known, Tracked, TablesOK
  <2> QED
    BY <2>1, <2>2, DeskViews, DeskStill
<1>6. ASSUME NEW h \in Tx, MarkDropped(h) \/ MarkDroppedFails(h) PROVE DeskStep
  <2>1. UNCHANGED <<receipt, receiptC, fetch, service, txs, onChain>>
    BY <1>6 DEF MarkDropped, MarkDroppedFails, queue, network, maps
  <2>2. UNCHANGED rows \/ rows' = SetStatus(h, "dropped")
    BY <1>6 DEF MarkDropped, MarkDroppedFails
  <2>3. MinedRows' \in SUBSET MinedRows
    BY <1>0, <2>2, OtherRow, DeskViews DEF Statuses
  <2> QED
    BY <2>1, <2>3, DeskViews, DeskStill
<1>7. CASE Crash
  <2>1. UNCHANGED <<onChain, rows>>
    BY <1>7 DEF Crash
  <2>2. Known' = {}
    BY <1>7 DEF Crash, Known, Tracked, Untracked
  <2>3. Sending' = {} /\ Queued' = {}
    BY <1>7 DEF Crash, Sending, Senders, Queued, IdleFetch, IdleService
  <2>4. Asking' = {} /\ Seen' = {}
    BY <1>7 DEF Crash, Asking, Askers, Seen, Seers, IdleReceipt
  <2>5. UNCHANGED MinedRows
    BY <2>1, DeskViews
  <2>6. Desk!Restart
    BY <2>1, <2>2, <2>3, <2>4, <2>5 DEF Desk!Restart
  <2> QED
    BY <2>6 DEF DeskStep, Desk!Next
<1>8. CASE UNCHANGED vars
  <2>1. UNCHANGED <<receipt, receiptC, fetch, service, txs, rows, onChain>>
    BY <1>8 DEF vars, queue, network, maps
  <2> QED
    BY <2>1, DeskViews, DeskStill
<1> QED
  BY <1>1, <1>2, <1>3, <1>4, <1>5, <1>6, <1>7, <1>8 DEF Next, Fault, Sweeper

(* The tracker implements the desk, for any number of transactions and     *)
(* workers: a hash is admitted once and asked for once, none that waits is *)
(* lost, and only the worker that asks and has seen the transaction in a   *)
(* block marks its row and ends its tracking.                              *)
THEOREM DeskImplemented == Spec => ImplementsDesk
<1>1. Init => Desk!Init
  <2> SUFFICES ASSUME Init PROVE Desk!Init
    OBVIOUS
  <2>1. Sending = {} /\ Queued = {}
    BY DEF Init, InitMemory, Sending, Senders, Queued, IdleFetch, IdleService
  <2>2. Asking = {} /\ Seen = {}
    BY DEF Init, InitMemory, Asking, Askers, Seen, Seers, IdleReceipt
  <2>3. Known = {} /\ MinedRows = {} /\ onChain = {}
    BY DEF Init, InitMemory, Known, Tracked, Untracked, MinedRows
  <2> QED
    BY <2>1, <2>2, <2>3 DEF Desk!Init
<1>2. TypeOK /\ TypeOK' /\ Account /\ QueueHasRoom /\ [Next]_vars => [Desk!Next]_(Desk!desk)
  BY DeskNext DEF DeskStep
<1> QED
  BY <1>1, <1>2, TypeCorrect, AccountInit, AccountStep, QueueHasRoomHolds, PTL
     DEF Spec, ImplementsDesk, Desk!Spec
=============================================================================
