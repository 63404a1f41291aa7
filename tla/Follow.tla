------------------------------- MODULE Follow -------------------------------
(***************************************************************************)
(* The head follower: Follow and processRangeAdaptive of internal/extract  *)
(* with reorg.Detect and reorg.Rollback, over the tables of LogStore, the  *)
(* chunk size of Chunker and the network of Chain.                         *)
(*                                                                         *)
(* Every RPC call and every SQL statement is a step of its own, because    *)
(* the chain may change, and the process may die, between any two of them. *)
(* The local variables `start` of Follow and `current` of                  *)
(* processRangeAdaptive are one variable here, next: `start` is not read   *)
(* while a range is processed and is assigned `to + 1`, which is where     *)
(* `current` stops.  An error that Follow returns ends the process; Boot   *)
(* is its next run, which knows only what the store holds.                 *)
(***************************************************************************)
EXTENDS Chain, LogStore, Chunker, FiniteSets

CONSTANTS
    StartBlock,     \* indexer.start_block
    Confirmations,  \* indexer.confirmations
    MinChunk,       \* indexer.min_chunk_size
    MaxChunk,       \* indexer.max_chunk_size
    ChunkSize,      \* indexer.chunk_size
    ResultLimit,    \* logs the node returns at most for one eth_getLogs
    Undecodable,    \* logs the filter selects and DecodeLog fails on
    MaxFaults       \* bound: process deaths and failed head queries

ASSUME FollowAssumption ==
    /\ StartBlock \in Nat
    /\ Confirmations \in Nat
    /\ {MinChunk, MaxChunk, ChunkSize} \subseteq Nat
    /\ ResultLimit \in Nat
    /\ Undecodable \subseteq Key
    /\ MaxFaults \in Nat

VARIABLES
    logs,           \* table logs: rows [key, block, stamp]
    checkpoints,    \* table checkpoints: rows [start, end, block]
    pc,             \* what the process does next
    next,           \* first block not processed yet
    target,         \* safeHead of the range being processed
    chunker,        \* the Chunker of this run of the process
    fetched,        \* logs of the chunk whose header is not fetched yet
    records,        \* log records of the chunk, ready to insert
    faults          \* faults so far

store == <<logs, checkpoints>>
buffers == <<fetched, records>>
process == <<pc, next, target, chunker, buffers>>
vars == <<chainVars, store, process, faults>>

FreshChunker == NewChunker(MinChunk, MaxChunk, ChunkSize)

(* The configured chunk sizes are far below the word size; nothing in the  *)
(* code checks it.                                                         *)
ASSUME ChunkAssumption == FitsWord(FreshChunker.max)

(* The block after the last checkpoint, or the configured first block.     *)
ResumeFrom == IF checkpoints = {} THEN {StartBlock}
              ELSE {cp.end + 1 : cp \in LastCheckpoint(checkpoints)}

(* head - Confirmations, defined where the code computes it.               *)
SafeHeadIgnoringConfirmations == Len(chain)

SafeHead == Len(chain) - Confirmations

(* The last block of the chunk, and the getLogs request for it.            *)
ChunkEndPastTarget == next + chunker.current - 1

ChunkEnd == IF chunker.current > target - next + 1
            THEN target
            ELSE next + chunker.current - 1

GetLogs == LogsBetween(chain, next, ChunkEnd)

Init ==
    /\ ChainInit
    /\ logs = {} /\ checkpoints = {}
    /\ pc = "boot" /\ next = 0 /\ target = 0
    /\ chunker = FreshChunker
    /\ fetched = {} /\ records = {}
    /\ faults = 0

-----------------------------------------------------------------------------
(* Entry of Follow, up to the loop.                                        *)
Boot ==
    /\ pc = "boot"
    /\ next' \in ResumeFrom
    /\ chunker' = FreshChunker
    /\ pc' = "detect"
    /\ UNCHANGED <<chainVars, store, target, buffers, faults>>

(* The process ends and its memory is gone.                                *)
Exit ==
    /\ pc' = "boot" /\ next' = 0 /\ target' = 0
    /\ chunker' = FreshChunker
    /\ fetched' = {} /\ records' = {}

Crash ==
    /\ pc # "boot"
    /\ faults < MaxFaults
    /\ faults' = faults + 1
    /\ Exit
    /\ UNCHANGED <<chainVars, store>>

-----------------------------------------------------------------------------
(* reorg.Detect, its answer "no reorg": no checkpoint, or the canonical    *)
(* block at the last checkpoint's end is the one it recorded.              *)
DetectClean ==
    /\ pc = "detect"
    /\ \/ checkpoints = {}
       \/ \E cp \in LastCheckpoint(checkpoints) :
             cp.end <= Len(chain) /\ BlockAt(chain, cp.end) = cp.block
    /\ pc' = "head"
    /\ UNCHANGED <<chainVars, store, next, target, chunker, buffers, faults>>

(* reorg.Detect, its answer "rollback from": the end of the checkpoint     *)
(* before the mismatching one, plus 1, or the start of the mismatching.    *)
RollbackPointAtEnd(cp) ==
    LET before == CheckpointBefore(checkpoints, cp.start)
    IN  IF before = {} THEN {cp.start} ELSE {prev.end : prev \in before}

RollbackPoint(cp) ==
    LET before == CheckpointBefore(checkpoints, cp.start)
    IN  IF before = {} THEN {cp.start} ELSE {prev.end + 1 : prev \in before}

DetectReorgAtStart ==
    /\ pc = "detect"
    /\ \E cp \in LastCheckpoint(checkpoints) :
          /\ cp.start <= Len(chain) /\ BlockAt(chain, cp.start) # cp.block
          /\ next' = cp.start
    /\ pc' = "rollbackLogs"
    /\ UNCHANGED <<chainVars, store, target, chunker, buffers, faults>>

DetectReorg ==
    /\ pc = "detect"
    /\ \E cp \in LastCheckpoint(checkpoints) :
          /\ cp.end <= Len(chain) /\ BlockAt(chain, cp.end) # cp.block
          /\ next' \in RollbackPoint(cp)
    /\ pc' = "rollbackLogs"
    /\ UNCHANGED <<chainVars, store, target, chunker, buffers, faults>>

(* The node has no block at the last checkpoint's end: Detect's error is   *)
(* returned by Follow.                                                     *)
DetectMissing ==
    /\ pc = "detect"
    /\ \E cp \in LastCheckpoint(checkpoints) : cp.end > Len(chain)
    /\ Exit
    /\ UNCHANGED <<chainVars, store, faults>>

(* store.RollbackFrom: two statements, no transaction.                     *)
RollbackLogs ==
    /\ pc = "rollbackLogs"
    /\ logs' = DeleteLogsFrom(logs, next)
    /\ pc' = "rollbackCheckpoints"
    /\ UNCHANGED <<chainVars, checkpoints, next, target, chunker, buffers, faults>>

RollbackCheckpoints ==
    /\ pc = "rollbackCheckpoints"
    /\ checkpoints' = DeleteCheckpointsFrom(checkpoints, next)
    /\ pc' = "head"
    /\ UNCHANGED <<chainVars, logs, next, target, chunker, buffers, faults>>

-----------------------------------------------------------------------------
(* The head is not deep enough, or everything safe is processed: sleep and *)
(* go round the loop.                                                      *)
HeadWait ==
    /\ pc = "head"
    /\ Len(chain) <= Confirmations \/ SafeHead < next
    /\ pc' = "detect"
    /\ UNCHANGED <<chainVars, store, next, target, chunker, buffers, faults>>

HeadFails ==
    /\ pc = "head"
    /\ faults < MaxFaults
    /\ faults' = faults + 1
    /\ pc' = "detect"
    /\ UNCHANGED <<chainVars, store, next, target, chunker, buffers>>

HeadWork ==
    /\ pc = "head"
    /\ Len(chain) > Confirmations /\ SafeHead >= next
    /\ target' = SafeHead
    /\ pc' = "getLogs"
    /\ UNCHANGED <<chainVars, store, next, chunker, buffers, faults>>

-----------------------------------------------------------------------------
(* ErrTooManyResults: shrink the chunk and ask again, without a pause.     *)
GetLogsTooMany ==
    /\ pc = "getLogs"
    /\ Cardinality(GetLogs) > ResultLimit
    /\ chunker' = OnError(chunker)
    /\ UNCHANGED <<chainVars, store, pc, next, target, buffers, faults>>

GetLogsOk ==
    /\ pc = "getLogs"
    /\ Cardinality(GetLogs) <= ResultLimit
    /\ fetched' = GetLogs
    /\ pc' = "build"
    /\ UNCHANGED <<chainVars, store, next, target, chunker, records, faults>>

(* buildRecords: the header of a block number is fetched once, when the    *)
(* first log of that number is built, and its timestamp goes into the      *)
(* record of every log of the number.                                      *)
FetchHeaderOf(n) ==
    /\ \E row \in fetched : Height(row) = n
    /\ \A row \in fetched : n <= Height(row)

Poisoned(n) == \E row \in fetched : Height(row) = n /\ row.key \in Undecodable

FetchHeaderSkipping ==
    /\ pc = "build"
    /\ \E n \in 0..Len(chain) :
          /\ FetchHeaderOf(n)
          /\ fetched' = {row \in fetched : Height(row) # n}
          /\ records' = records \cup
                {[key |-> row.key, block |-> row.block,
                  stamp |-> BlockAt(chain, n)] :
                      row \in {r \in fetched : Height(r) = n /\ r.key \notin Undecodable}}
    /\ UNCHANGED <<chainVars, store, pc, next, target, chunker, faults>>

FetchHeader ==
    /\ pc = "build"
    /\ \E n \in 0..Len(chain) :
          /\ FetchHeaderOf(n) /\ ~Poisoned(n)
          /\ fetched' = {row \in fetched : Height(row) # n}
          /\ records' = records \cup
                {[key |-> row.key, block |-> row.block,
                  stamp |-> BlockAt(chain, n)] :
                      row \in {r \in fetched : Height(r) = n}}
    /\ UNCHANGED <<chainVars, store, pc, next, target, chunker, faults>>

(* DecodeLog fails, before or after the header of the block: its error     *)
(* ends the process.                                                       *)
DecodeFails ==
    /\ pc = "build"
    /\ \E row \in fetched : FetchHeaderOf(Height(row)) /\ Poisoned(Height(row))
    /\ Exit
    /\ UNCHANGED <<chainVars, store, faults>>

(* "block not found" for that number: the error ends the process.          *)
FetchHeaderMissing ==
    /\ pc = "build"
    /\ \E row \in fetched : FetchHeaderOf(Height(row)) /\ Height(row) > Len(chain)
    /\ Exit
    /\ UNCHANGED <<chainVars, store, faults>>

StoreLogs ==
    /\ pc = "build" /\ fetched = {}
    /\ logs' = InsertLogs(logs, records)
    /\ records' = {}
    /\ pc' = "header"
    /\ UNCHANGED <<chainVars, checkpoints, next, target, chunker, fetched, faults>>

(* The header of the chunk's last block is fetched after the logs are      *)
(* stored, and its hash is saved in the checkpoint.  Saving reads nothing  *)
(* of the chain, so the fetch and the save are one step.                   *)
SaveCheckpoint ==
    /\ pc = "header"
    /\ ChunkEnd <= Len(chain)
    /\ checkpoints' = checkpoints \cup
          {[start |-> next, end |-> ChunkEnd, block |-> BlockAt(chain, ChunkEnd)]}
    /\ chunker' = OnSuccess(chunker)
    /\ next' = ChunkEnd + 1
    /\ pc' = IF ChunkEnd = target THEN "detect" ELSE "getLogs"
    /\ UNCHANGED <<chainVars, logs, target, buffers, faults>>

HeaderMissing ==
    /\ pc = "header"
    /\ ChunkEnd > Len(chain)
    /\ Exit
    /\ UNCHANGED <<chainVars, store, faults>>
-----------------------------------------------------------------------------
(* The steps the process takes by itself.                                  *)
Detecting == DetectClean \/ DetectReorg \/ DetectMissing
RollingBack == RollbackLogs \/ RollbackCheckpoints
ReadingHead == HeadWait \/ HeadWork
Fetching == GetLogsTooMany \/ GetLogsOk
Building == FetchHeader \/ FetchHeaderMissing \/ DecodeFails
Saving == StoreLogs \/ SaveCheckpoint \/ HeaderMissing
Step == Boot \/ Detecting \/ RollingBack \/ ReadingHead \/ Fetching \/ Building \/ Saving

Fault == Crash \/ HeadFails

(* The network's steps, which leave the process and the store alone.       *)
Network == (Mine \/ Reorg) /\ UNCHANGED <<store, process, faults>>

Next == Step \/ Fault \/ Network

Spec == Init /\ [][Next]_vars

(* The network keeps producing blocks and the process keeps running: it is *)
(* restarted after it ends.  Nothing forces a fault or a reorganisation.   *)
Fairness ==
    /\ WF_vars(Step)
    /\ WF_vars(Mine /\ UNCHANGED <<store, process, faults>>)

FairSpec == Spec /\ Fairness
-----------------------------------------------------------------------------
Chunking == {"getLogs", "build", "header"}
Rows == [key : Key, block : Seq(Bodies)]
LogRecords == [key : Key, block : Seq(Bodies), stamp : Seq(Bodies)]
Checkpoints == [start : Nat, end : Nat, block : Seq(Bodies)]

(* The type of every variable, with what the records always satisfy: the   *)
(* size of the chunk is in its bounds, a range being processed is not      *)
(* empty, and a buffer holds something only where the code has one.        *)
TypeOK ==
    /\ chain \in Seq(Bodies) /\ final \in Nat /\ reorgs \in Nat
    /\ logs \subseteq LogRecords
    /\ checkpoints \subseteq Checkpoints
    /\ pc \in Chunking \cup
              {"boot", "detect", "rollbackLogs", "rollbackCheckpoints", "head"}
    /\ next \in Nat /\ target \in Nat
    /\ chunker \in Chunkers /\ InBounds(chunker)
    /\ fetched \subseteq Rows /\ (fetched # {} => pc = "build")
    /\ records \subseteq LogRecords /\ (records # {} => pc = "build")
    /\ pc \in Chunking => next <= target
    /\ faults \in Nat

(* Two checkpoints never cover the same block.                             *)
Disjoint ==
    \A a, b \in checkpoints :
        a # b => a.end < b.start \/ b.end < a.start

(* Every checkpoint but one that begins at the configured start continues  *)
(* another, and each covers at least one block.                            *)
Gapless ==
    \A cp \in checkpoints :
        /\ StartBlock <= cp.start /\ cp.start <= cp.end
        /\ Len(cp.block) = cp.end
        /\ cp.start = StartBlock \/ \E prev \in checkpoints : prev.end + 1 = cp.start

(* Whatever the process knows of its position agrees with the store: it    *)
(* works on the block after the last checkpoint, or rolls back exactly to  *)
(* the start of the last checkpoint.                                       *)
RollingBackNow == pc \in {"rollbackLogs", "rollbackCheckpoints"}

InStep ==
    /\ RollingBackNow => \E cp \in LastCheckpoint(checkpoints) : next = cp.start
    /\ ~RollingBackNow /\ pc # "boot" => next \in ResumeFrom

(* Whatever the network reorganises and whenever the process dies, the     *)
(* checkpoints tile the blocks from the configured start without gap or    *)
(* overlap, and the process continues where they end (follow.go:16-23 and  *)
(* 37-42, reorg.go:30-37, extract.go:95-107).                              *)
Tiling == Disjoint /\ Gapless /\ InStep

(* With enough confirmations: every stored log belongs to a canonical      *)
(* block and carries that block's timestamp (extract.go:73-90,             *)
(* follow.go:56).                                                          *)
Fresh == \A r \in logs : OnChain(r.block) /\ r.stamp = r.block

(* With enough confirmations: a checkpoint is saved only when every log of *)
(* its range is in the table, under the block that holds it                *)
(* (extract.go:73-103, sqlite.go:102).                                     *)
Stamped(row) == [key |-> row.key, block |-> row.block, stamp |-> row.block]

Complete ==
    \A cp \in checkpoints :
        \A row \in LogsBetween(chain, cp.start, cp.end) : Stamped(row) \in logs

(* The last block every log of which is published.                         *)
Horizon == IF checkpoints = {} THEN StartBlock - 1
           ELSE CHOOSE n \in {cp.end : cp \in checkpoints} :
                   \A cp \in checkpoints : cp.end <= n

(* With enough confirmations the follower implements the feed of module    *)
(* LogFeed: what is published is the final chain's logs, each once, in     *)
(* the chain's order, and nothing published is ever changed or taken back  *)
(* (docs/blockchain-guide.md: "Logs feed = truth (confirmed)").            *)
Feed == INSTANCE LogFeed WITH
    history <- BlockAt(chain, final),
    published <- {r \in logs : Height(r) <= Horizon},
    horizon <- Horizon

ImplementsFeed == Feed!Spec

(* If the node can answer for a chunk of the smallest size, the follower   *)
(* catches up with the safe head for good, unless a log it cannot decode   *)
(* lies ahead; its last checkpoint is canonical, whatever was reorganised  *)
(* and whenever it died before (follow.go:26-69, reorg.go:14-39,           *)
(* extract.go:76-80 and 117-120).                                          *)
PoisonAhead ==
    \E n \in 1..Len(chain) :
        Horizon < n /\ n <= SafeHead /\ chain[n].logs \cap Undecodable # {}

CatchesUp ==
    <>[](/\ Len(chain) > Confirmations
         /\ Horizon = SafeHead \/ PoisonAhead
         /\ \A cp \in LastCheckpoint(checkpoints) : OnChain(cp.block))

(* When Detect has answered, and the process turns to the head or works,   *)
(* every stored row is canonical, also one of a chunk whose checkpoint was *)
(* never saved, and every checkpointed range complete: a rollback restores *)
(* both.  This needs reorganisations and deaths as in FollowIdle           *)
(* (reorg.go:14-44, follow.go:33-42, extract.go:88-101).                   *)
CleanWhenIndexing ==
    pc \in Chunking \cup {"head"} => Fresh /\ Complete

(* A rollback deletes checkpoints by their start and logs by their block:  *)
(* it never keeps a checkpoint of which it deletes logs (reorg.go:30-37,   *)
(* sqlite.go:147-158).                                                     *)
RollbackCutsNone ==
    RollingBackNow => \A cp \in checkpoints : cp.end < next \/ next <= cp.start

(* docs/blockchain-guide.md:101, "rollback when block hash changes": once  *)
(* the chain no longer changes, no log of an abandoned block stays.        *)
EventuallyFresh == <>[]Fresh
=============================================================================
