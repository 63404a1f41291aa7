------------------------------ MODULE Backfill ------------------------------
(***************************************************************************)
(* Backfill of internal/extract/backfill.go: a producer cuts the range of  *)
(* blocks into jobs, a pool of workers indexes them with                   *)
(* processRangeAdaptive, the first error cancels the others, and the       *)
(* caller learns one verdict.                                              *)
(*                                                                         *)
(* The chain does not change here: Follow models the reorganisations that  *)
(* meet processRangeAdaptive.  A log is abstracted to the number of its    *)
(* block, a checkpoint to its range, and the node rejects a request for    *)
(* more than RangeLimit blocks.  A call whose context is cancelled fails;  *)
(* one that was in flight is as good as finished before.                   *)
(***************************************************************************)
EXTENDS Chunker, FiniteSets

CONSTANTS
    Worker,         \* goroutines of the pool (indexer.concurrency)
    Froms,          \* indexer.start_block and the values of --from
    Tos,            \* values of --to
    Heads,          \* block numbers the node may be at
    Confirmations,  \* indexer.confirmations
    MinChunk, MaxChunk, ChunkSize, \* sizes as Validate leaves them
    RangeLimit,     \* blocks the node accepts in one eth_getLogs
    MaxFaults       \* bound: failed RPC calls and failed SQL statements

ASSUME BackfillAssumption ==
    /\ Worker # {}
    /\ Froms \subseteq Nat /\ Tos \subseteq Nat /\ Heads \subseteq Nat
    /\ {Confirmations, MinChunk, MaxChunk, RangeLimit, MaxFaults} \subseteq Nat
    /\ ChunkSize \in Nat \ {0}

FreshChunker == NewChunker(MinChunk, MaxChunk, ChunkSize)

(* Block numbers and sizes are far below the word size; nothing in the     *)
(* code checks it.                                                         *)
ASSUME SmallAssumption ==
    /\ FitsWord(FreshChunker.max)
    /\ \A to \in Tos \cup Heads : to + ChunkSize < Word

VARIABLES
    head,           \* the node's block number
    stored,         \* blocks whose logs are in the table
    checkpoints,    \* table checkpoints: ranges
    first, last,    \* start and end of the backfill
    cur,            \* the producer's cursor
    producer,       \* "check" at the head of its loop, "offer" at its send, "done"
    worker,         \* what each worker does
    err,            \* errCh holds an error
    cancelled,      \* the context of the pool
    interrupted,    \* the process got a signal
    faults,
    result          \* "new", "running", or what the caller learns

tables == <<stored, checkpoints>>
bounds == <<head, first, last>>
control == <<err, cancelled, interrupted, faults, result>>
vars == <<tables, bounds, cur, producer, worker, control>>

Range(from, to) == [start |-> from, end |-> to]
Blocks(r) == r.start .. r.end
Idle == [pc |-> "idle", current |-> 0, to |-> 0, chunker |-> FreshChunker]
Busy == {w \in Worker : worker[w].pc \in {"getLogs", "store", "save"}}

(* The end of the next job, and of the worker's next chunk.                *)
JobEnd ==
    LET rEnd == (cur + ChunkSize - 1) % Word IN
    IF rEnd > last THEN last ELSE rEnd

ChunkEnd(w) ==
    LET job == worker[w]
        size == job.chunker.current
    IN  IF size > job.to - job.current + 1 THEN job.to ELSE job.current + size - 1

Init ==
    /\ head \in Heads
    /\ stored = {} /\ checkpoints = {}
    /\ first = 1 /\ last = 0 /\ cur = 0    \* no blocks are asked for yet
    /\ producer = "done"
    /\ worker = [w \in Worker |-> Idle]
    /\ err = FALSE /\ cancelled = FALSE /\ interrupted = FALSE
    /\ faults = 0
    /\ result = "new"
-----------------------------------------------------------------------------
(* Up to the start of the goroutines: the end is given, or it is the       *)
(* node's head minus the confirmations.                                    *)
Begin ==
    /\ result = "new"
    /\ \E from \in Froms :
          \E to \in Tos \cup {n \in {head - Confirmations} : head > Confirmations} :
             /\ first' = from /\ last' = to /\ cur' = from
             /\ IF to < from THEN result' = "ok" /\ UNCHANGED producer
                             ELSE result' = "running" /\ producer' = "check"
    /\ UNCHANGED <<head, tables, worker, err, cancelled, interrupted, faults>>

HeadTooLow ==
    /\ result = "new" /\ head <= Confirmations
    /\ result' = "error"
    /\ UNCHANGED <<tables, bounds, cur, producer, worker, err, cancelled, interrupted, faults>>

HeadFails ==
    /\ result = "new" /\ faults < MaxFaults
    /\ faults' = faults + 1
    /\ result' = "error"
    /\ UNCHANGED <<tables, bounds, cur, producer, worker, err, cancelled, interrupted>>

-----------------------------------------------------------------------------
(* The producer looks at the context only between two sends: a blocked     *)
(* send does not notice the cancellation.                                  *)
ProduceWithoutClose ==
    /\ producer = "check" /\ cur <= last /\ ~cancelled
    /\ producer' = "offer"
    /\ UNCHANGED <<tables, bounds, cur, worker, control>>

ProduceOneMore ==
    /\ producer = "check"
    /\ producer' = IF cur > last + 1 \/ cancelled THEN "done" ELSE "offer"
    /\ UNCHANGED <<tables, bounds, cur, worker, control>>

Produce ==
    /\ producer = "check"
    /\ producer' = IF cur > last \/ cancelled THEN "done" ELSE "offer"
    /\ UNCHANGED <<tables, bounds, cur, worker, control>>

(* The jobs channel has no buffer: a job goes from the producer's send     *)
(* into the hands of a waiting worker.                                     *)
TakeOverlapping(w) ==
    /\ producer = "offer" /\ worker[w].pc = "idle"
    /\ worker' = [worker EXCEPT ![w] =
                     [pc |-> "getLogs", current |-> cur, to |-> JobEnd, chunker |-> @.chunker]]
    /\ cur' = IF JobEnd = last THEN last + 1 ELSE JobEnd
    /\ producer' = "check"
    /\ UNCHANGED <<tables, bounds, control>>

Take(w) ==
    /\ producer = "offer" /\ worker[w].pc = "idle"
    /\ worker' = [worker EXCEPT ![w] =
                     [pc |-> "getLogs", current |-> cur, to |-> JobEnd, chunker |-> @.chunker]]
    /\ cur' = (JobEnd + 1) % Word
    /\ producer' = "check"
    /\ UNCHANGED <<tables, bounds, control>>

(* The channel is closed and the worker leaves its loop.                   *)
Leave(w) ==
    /\ producer = "done" /\ result = "running" /\ worker[w].pc = "idle"
    /\ worker' = [worker EXCEPT ![w].pc = "exited"]
    /\ UNCHANGED <<tables, bounds, cur, producer, control>>

-----------------------------------------------------------------------------
(* processRangeAdaptive, for the job in hand.                              *)
GetLogsTooMany(w) ==
    /\ worker[w].pc = "getLogs" /\ ~cancelled
    /\ ChunkEnd(w) - worker[w].current + 1 > RangeLimit
    /\ worker' = [worker EXCEPT ![w].chunker = OnError(@)]
    /\ UNCHANGED <<tables, bounds, cur, producer, control>>

GetLogsOk(w) ==
    /\ worker[w].pc = "getLogs" /\ ~cancelled
    /\ ChunkEnd(w) - worker[w].current + 1 <= RangeLimit
    /\ worker' = [worker EXCEPT ![w].pc = "store"]
    /\ UNCHANGED <<tables, bounds, cur, producer, control>>

StoreLogsExclusive(w) ==
    /\ worker[w].pc = "store" /\ ~cancelled
    /\ stored' = stored \cup (worker[w].current .. ChunkEnd(w) - 1)
    /\ worker' = [worker EXCEPT ![w].pc = "save"]
    /\ UNCHANGED <<checkpoints, bounds, cur, producer, control>>

StoreLogs(w) ==
    /\ worker[w].pc = "store" /\ ~cancelled
    /\ stored' = stored \cup (worker[w].current .. ChunkEnd(w))
    /\ worker' = [worker EXCEPT ![w].pc = "save"]
    /\ UNCHANGED <<checkpoints, bounds, cur, producer, control>>

(* The header of the chunk's last block, the checkpoint, the growth of the *)
(* chunk and the advance, to the next chunk or to the next job.            *)
SaveCheckpoint(w) ==
    LET end == ChunkEnd(w) IN
    /\ worker[w].pc = "save" /\ ~cancelled /\ end <= head
    /\ checkpoints' = checkpoints \cup {Range(worker[w].current, end)}
    /\ worker' = [worker EXCEPT ![w] =
                     [pc |-> IF end = worker[w].to THEN "idle" ELSE "getLogs",
                      current |-> end + 1, to |-> @.to, chunker |-> OnSuccess(@.chunker)]]
    /\ UNCHANGED <<stored, bounds, cur, producer, control>>

(* A call fails because its context is cancelled, because the block at the *)
(* end of the chunk is not there yet, or for no reason of this program.    *)
Failing(w) ==
    \/ cancelled /\ UNCHANGED faults
    \/ worker[w].pc = "save" /\ ChunkEnd(w) > head /\ UNCHANGED faults
    \/ faults < MaxFaults /\ faults' = faults + 1

FailsSilently(w) ==
    /\ w \in Busy
    /\ Failing(w)
    /\ worker' = [worker EXCEPT ![w].pc = "exited"]
    /\ cancelled' = TRUE
    /\ UNCHANGED <<tables, bounds, cur, producer, err, interrupted, result>>

(* The first error is kept and cancels the pool; later ones are dropped.   *)
Fails(w) ==
    /\ w \in Busy
    /\ Failing(w)
    /\ worker' = [worker EXCEPT ![w].pc = "exited"]
    /\ err' = TRUE
    /\ cancelled' = (cancelled \/ ~err)
    /\ UNCHANGED <<tables, bounds, cur, producer, interrupted, result>>

ReturnAfterFirst ==
    /\ result = "running"
    /\ \E w \in Worker : worker[w].pc = "exited"
    /\ result' = IF err THEN "error" ELSE "ok"
    /\ UNCHANGED <<tables, bounds, cur, producer, worker, err, cancelled, interrupted, faults>>

(* wg.Wait and the verdict.  Only the workers are waited for.              *)
Return ==
    /\ result = "running"
    /\ \A w \in Worker : worker[w].pc = "exited"
    /\ result' = IF err THEN "error" ELSE "ok"
    /\ UNCHANGED <<tables, bounds, cur, producer, worker, err, cancelled, interrupted, faults>>

(* SIGINT or SIGTERM cancels the context main passes down.                 *)
Interrupt ==
    /\ result = "running" /\ ~interrupted
    /\ interrupted' = TRUE /\ cancelled' = TRUE
    /\ UNCHANGED <<tables, bounds, cur, producer, worker, err, faults, result>>

Kill ==
    /\ result = "running"
    /\ result' = "killed"
    /\ producer' = "done"
    /\ worker' = [w \in Worker |-> [Idle EXCEPT !.pc = "exited"]]
    /\ UNCHANGED <<tables, bounds, cur, err, cancelled, interrupted, faults>>

WorkerStep(w) ==
    \/ Take(w) \/ Leave(w)
    \/ GetLogsTooMany(w) \/ GetLogsOk(w) \/ StoreLogs(w) \/ SaveCheckpoint(w)
    \/ Fails(w)

Next ==
    \/ Begin \/ HeadTooLow \/ HeadFails
    \/ Produce \/ Return
    \/ \E w \in Worker : WorkerStep(w)
    \/ Interrupt \/ Kill

Spec == Init /\ [][Next]_vars

(* The goroutines keep running.                                            *)
Fairness ==
    /\ WF_vars(Begin) /\ WF_vars(Produce) /\ WF_vars(Return)
    /\ \A w \in Worker : WF_vars(WorkerStep(w))

FairSpec == Spec /\ Fairness
-----------------------------------------------------------------------------
WorkerState ==
    [pc : {"idle", "getLogs", "store", "save", "exited"}, current : Nat, to : Nat,
     chunker : Chunkers]

(* Every variable has its type; a busy worker has a chunk left to do and a *)
(* chunk size in its bounds.                                               *)
TypeOK ==
    /\ stored \subseteq Nat /\ checkpoints \subseteq [start : Nat, end : Nat]
    /\ head \in Nat /\ first \in Nat /\ last \in Nat /\ cur \in Nat
    /\ producer \in {"check", "offer", "done"}
    /\ worker \in [Worker -> WorkerState]
    /\ \A w \in Worker : InBounds(worker[w].chunker)
    /\ \A w \in Busy : worker[w].current <= worker[w].to
    /\ err \in BOOLEAN /\ cancelled \in BOOLEAN /\ interrupted \in BOOLEAN
    /\ faults \in Nat
    /\ result \in {"new", "running", "ok", "error", "killed"}

Covered == UNION {Blocks(cp) : cp \in checkpoints}
Working(w) == worker[w].current .. worker[w].to

(* No block is the work of two workers, of one after it was checkpointed,  *)
(* or in two checkpoints (backfill.go:64-76, extract.go:64-107).           *)
Exclusive ==
    /\ \A v, w \in Busy : v # w => Working(v) \cap Working(w) = {}
    /\ \A w \in Busy : Working(w) \cap Covered = {}
    /\ \A a, b \in checkpoints : a # b => Blocks(a) \cap Blocks(b) = {}

(* A checkpoint is written after the logs of its whole range, whichever    *)
(* worker fails or is cancelled in between (extract.go:88-103).            *)
CheckpointHasLogs == Covered \subseteq stored

(* When Backfill returns nil, every block asked for has its checkpoint: no *)
(* worker's error is lost on the way to the verdict, and no job on the way *)
(* to a worker.  A signal between two jobs also makes it return nil        *)
(* (backfill.go:50-58, 65-69 and 79-85).                                   *)
SuccessIsComplete == result = "ok" /\ ~interrupted => first .. last \subseteq Covered

(* What the caller is promised (backfill.go:12-87, extract.go:64-107):     *)
(* however the workers interleave, fail or are cancelled, logs come before *)
(* checkpoints, only blocks asked for and not yet done are written, and    *)
(* nobody writes once Backfill has returned.                               *)
Job == INSTANCE BackfillJob WITH
    Block <- 0 .. Word - 1, asked <- first .. last, logged <- stored, indexed <- Covered,
    signalled <- interrupted, verdict <- result

ImplementsJob == Job!Spec

(* Backfill returns, also when every worker fails while the producer is    *)
(* blocked at its send (backfill.go:62-79).                                *)
Returns == (result = "running") ~> (result # "running")

(* docs/blockchain-guide.md:103, "Backfill + follow: historical +          *)
(* real-time ingestion": what lies below the block that a follower resumes *)
(* from after this run is indexed (follow.go:16-23).                       *)
HandsOver ==
    result \in {"ok", "error", "killed"} =>
        \A cp \in checkpoints : first .. cp.end \subseteq Covered
=============================================================================
