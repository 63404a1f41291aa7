---------------------------- MODULE FollowProofs ----------------------------
(***************************************************************************)
(* Theorems about the follower for every configuration, every set of block *)
(* bodies, any number of reorganisations and any number of process deaths. *)
(***************************************************************************)
EXTENDS FollowIdle, ChainProofs, ChunkerProofs, WellFoundedInduction

-----------------------------------------------------------------------------
(* The type invariant, with the maximal chunk size of the configuration.   *)
TypeInv ==
    /\ TypeOK
    /\ chunker.max = FreshChunker.max

(* The chunker of a new process is well formed.                            *)
LEMMA FreshChunkerType ==
    FreshChunker \in Chunkers /\ InBounds(FreshChunker)
BY NewChunkerInBounds, FollowAssumption DEF FreshChunker

(* A chunk is a non-empty part of the range being processed.               *)
LEMMA ChunkEndType ==
    ASSUME TypeOK, pc \in Chunking
    PROVE  ChunkEnd \in Nat /\ next <= ChunkEnd /\ ChunkEnd <= target
BY DEF TypeOK, ChunkEnd, Chunkers, InBounds

(* A process that ends leaves well-typed variables.                        *)
LEMMA ExitType ==
    ASSUME TypeInv, Exit, UNCHANGED <<chainVars, store>>, faults' \in Nat
    PROVE  TypeInv'
BY FreshChunkerType DEF TypeInv, TypeOK, Exit, chainVars, store, Chunking

(* The initial state is well typed.                                        *)
LEMMA TypeInit == Init => TypeInv
BY FreshChunkerType DEF Init, ChainInit, TypeInv, TypeOK, Chunking

(* Every step keeps the types and the bound of the chunk size.             *)
LEMMA TypeStep == TypeInv /\ [Next]_vars => TypeInv'
<1> SUFFICES ASSUME TypeInv, [Next]_vars PROVE TypeInv'
  OBVIOUS
<1> USE DEF TypeInv
<1>1. CASE Boot
  <2>1. next' \in Nat
    BY <1>1, FollowAssumption DEF Boot, ResumeFrom, LastCheckpoint, TypeOK, Checkpoints
  <2> QED
    BY <1>1, <2>1, FreshChunkerType DEF Boot, TypeOK, chainVars, store, buffers, Chunking
<1>2. CASE DetectClean
  BY <1>2 DEF DetectClean, TypeOK, chainVars, store, buffers, Chunking
<1>3. CASE DetectReorg
  <2>1. next' \in Nat
    BY <1>3 DEF DetectReorg, RollbackPoint, CheckpointBefore, LastCheckpoint, TypeOK, Checkpoints
  <2> QED
    BY <1>3, <2>1 DEF DetectReorg, TypeOK, chainVars, store, buffers, Chunking
<1>4. CASE DetectMissing \/ DecodeFails \/ FetchHeaderMissing \/ HeaderMissing
  BY <1>4, ExitType DEF DetectMissing, DecodeFails, FetchHeaderMissing, HeaderMissing, TypeOK
<1>5. CASE RollbackLogs
  BY <1>5 DEF RollbackLogs, DeleteLogsFrom, TypeOK, chainVars, buffers, Chunking
<1>6. CASE RollbackCheckpoints
  BY <1>6 DEF RollbackCheckpoints, DeleteCheckpointsFrom, TypeOK, chainVars, buffers, Chunking
<1>7. CASE HeadWait
  BY <1>7 DEF HeadWait, TypeOK, chainVars, store, buffers, Chunking
<1>8. CASE HeadWork
  BY <1>8, FollowAssumption DEF HeadWork, SafeHead, TypeOK, chainVars, store, buffers, Chunking
<1>9. CASE GetLogsTooMany
  BY <1>9, OnErrorInBounds DEF GetLogsTooMany, TypeOK, chainVars, store, buffers, Chunking
<1>10. CASE GetLogsOk
  <2>1. fetched' \subseteq Rows
    BY <1>10, ChunkEndType, LogsBetweenType
    DEF GetLogsOk, GetLogs, TypeOK, Rows, Chunking
  <2> QED
    BY <1>10, <2>1 DEF GetLogsOk, TypeOK, chainVars, store, Chunking
<1>11. CASE FetchHeader
  <2>1. PICK n \in 0..Len(chain) :
           /\ fetched' = {row \in fetched : Height(row) # n}
           /\ records' = records \cup
                {[key |-> row.key, block |-> row.block, stamp |-> BlockAt(chain, n)] :
                      row \in {r \in fetched : Height(r) = n}}
    BY <1>11 DEF FetchHeader
  <2>2. records' \subseteq LogRecords
    BY <2>1, BlockAtType DEF TypeOK, Rows, LogRecords
  <2> QED
    BY <1>11, <2>1, <2>2 DEF FetchHeader, TypeOK, chainVars, store, Chunking
<1>12. CASE StoreLogs
  BY <1>12 DEF StoreLogs, InsertLogs, TypeOK, chainVars, Chunking
<1>13. CASE SaveCheckpoint
  <2>1. ChunkEnd \in Nat /\ next <= ChunkEnd /\ ChunkEnd <= target
    BY <1>13, ChunkEndType DEF SaveCheckpoint, Chunking
  <2>2. BlockAt(chain, ChunkEnd) \in Seq(Bodies)
    BY <1>13, <2>1, BlockAtType DEF SaveCheckpoint, TypeOK
  <2>3. checkpoints' \subseteq Checkpoints
    BY <1>13, <2>1, <2>2 DEF SaveCheckpoint, TypeOK, Checkpoints
  <2>4. chunker' \in Chunkers /\ InBounds(chunker)' /\ chunker'.max = FreshChunker.max
    BY <1>13, OnSuccessInBounds, ChunkAssumption DEF SaveCheckpoint, TypeOK, InBounds
  <2>5. next' \in Nat /\ (pc' \in Chunking => next' <= target')
    BY <1>13, <2>1 DEF SaveCheckpoint, TypeOK, Chunking
  <2> QED
    BY <1>13, <2>3, <2>4, <2>5 DEF SaveCheckpoint, TypeOK, chainVars, buffers, Chunking
<1>14. CASE Crash
  BY <1>14, ExitType DEF Crash, TypeOK
<1>15. CASE HeadFails
  BY <1>15 DEF HeadFails, TypeOK, chainVars, store, buffers, Chunking
<1>16. CASE Network
  BY <1>16, NetworkType
  DEF Network, ChainType, TypeOK, store, process, buffers, Chunking
<1>17. CASE UNCHANGED vars
  BY <1>17 DEF vars, TypeOK, chainVars, store, process, buffers, Chunking
<1> QED
  BY <1>1, <1>2, <1>3, <1>4, <1>5, <1>6, <1>7, <1>8, <1>9, <1>10, <1>11, <1>12,
     <1>13, <1>14, <1>15, <1>16, <1>17
  DEF Next, Step, Detecting, RollingBack, ReadingHead, Fetching, Building, Saving, Fault

(* The strengthened type invariant of the follower.                        *)
LEMMA TypeInvHolds == Spec => []TypeInv
BY TypeInit, TypeStep, PTL DEF Spec

(* Type correctness of the follower, for every configuration whose chunk   *)
(* sizes leave room for the growth of the chunker.                         *)
THEOREM TypeCorrect == Spec => []TypeOK
BY TypeInvHolds, PTL DEF TypeInv

-----------------------------------------------------------------------------
(* Tiling is inductive: it is its own strengthening.                       *)

(* An empty table tiles.                                                   *)
LEMMA TilingInit == Init => Tiling
BY DEF Init, Tiling, Disjoint, Gapless, InStep, RollingBackNow

(* In a tiling, what Detect finds below the last checkpoint ends just      *)
(* before it: a rollback is always to the start of the last checkpoint.    *)
LEMMA RollbackTarget ==
    ASSUME TypeOK, Tiling, NEW cp \in LastCheckpoint(checkpoints),
           NEW prev \in CheckpointBefore(checkpoints, cp.start)
    PROVE  prev.end + 1 = cp.start
<1>1. /\ cp \in checkpoints /\ prev \in checkpoints /\ prev.end < cp.start
      /\ \A other \in checkpoints : other.end < cp.start => other.end <= prev.end
  BY DEF LastCheckpoint, CheckpointBefore
<1>2. cp.start # StartBlock
  BY <1>1, FollowAssumption DEF Tiling, Gapless, TypeOK, Checkpoints
<1>3. PICK p \in checkpoints : p.end + 1 = cp.start
  BY <1>1, <1>2 DEF Tiling, Gapless
<1>4. p.end \in Nat /\ prev.end \in Nat /\ cp.start \in Nat
  BY <1>1 DEF TypeOK, Checkpoints
<1>5. p.end <= prev.end
  BY <1>1, <1>3, <1>4
<1> QED
  BY <1>1, <1>3, <1>4, <1>5

(* Deleting the last checkpoint leaves a tiling that ends where it began.  *)
LEMMA TilingRollback == TypeOK /\ Tiling /\ RollbackCheckpoints => Tiling'
<1> SUFFICES ASSUME TypeOK, Tiling, RollbackCheckpoints PROVE Tiling'
  OBVIOUS
<1>1. PICK last \in LastCheckpoint(checkpoints) : next = last.start
  BY DEF RollbackCheckpoints, Tiling, InStep, RollingBackNow
<1>2. /\ checkpoints' = {cp \in checkpoints : cp.start < next}
      /\ last \in checkpoints /\ next' = next /\ pc' = "head"
  BY <1>1 DEF RollbackCheckpoints, DeleteCheckpointsFrom, LastCheckpoint
<1>3. Disjoint'
  BY <1>2 DEF Tiling, Disjoint
<1>4. Gapless'
  BY <1>2 DEF Tiling, Gapless, TypeOK, Checkpoints
<1>5. \A cp \in checkpoints' : cp.end < next
  BY <1>1, <1>2 DEF Tiling, Disjoint, Gapless, TypeOK, Checkpoints
<1>6. CASE next = StartBlock
  <2>1. checkpoints' = {}
    BY <1>2, <1>6, FollowAssumption DEF Tiling, Gapless, TypeOK, Checkpoints
  <2> QED
    BY <1>2, <1>3, <1>4, <1>6, <2>1 DEF Tiling, InStep, RollingBackNow, ResumeFrom
<1>7. CASE next # StartBlock
  <2>1. PICK p \in checkpoints : p.end + 1 = next
    BY <1>1, <1>2, <1>7 DEF Tiling, Gapless
  <2>2. p \in checkpoints'
    BY <1>2, <2>1 DEF Tiling, Gapless, TypeOK, Checkpoints
  <2>3. p \in LastCheckpoint(checkpoints')
    BY <1>2, <1>5, <2>1, <2>2 DEF LastCheckpoint, TypeOK, Checkpoints
  <2>4. next \in ResumeFrom'
    BY <2>1, <2>2, <2>3 DEF ResumeFrom
  <2> QED
    BY <1>2, <1>3, <1>4, <2>4 DEF Tiling, InStep, RollingBackNow
<1> QED
  BY <1>6, <1>7

(* The new checkpoint begins where the tiling ended.                       *)
LEMMA TilingSave == TypeOK /\ Tiling /\ SaveCheckpoint => Tiling'
<1> SUFFICES ASSUME TypeOK, Tiling, SaveCheckpoint PROVE Tiling'
  OBVIOUS
<1> DEFINE new == [start |-> next, end |-> ChunkEnd, block |-> BlockAt(chain, ChunkEnd)]
<1>1. ChunkEnd \in Nat /\ next <= ChunkEnd /\ ChunkEnd <= Len(chain) /\ next \in Nat
  BY ChunkEndType DEF SaveCheckpoint, Chunking, TypeOK
<1>2. /\ checkpoints' = checkpoints \cup {new} /\ next' = ChunkEnd + 1
      /\ pc' \in {"detect", "getLogs"}
  BY DEF SaveCheckpoint
<1>3. next \in ResumeFrom
  BY DEF SaveCheckpoint, Tiling, InStep, RollingBackNow
<1>4. \A cp \in checkpoints : cp.end < next
  BY <1>3 DEF ResumeFrom, LastCheckpoint, TypeOK, Checkpoints
<1>5. next = StartBlock \/ \E cp \in checkpoints : cp.end + 1 = next
  BY <1>3 DEF ResumeFrom, LastCheckpoint
<1>6. Len(new.block) = new.end
  BY <1>1, BlockAtType DEF TypeOK
<1>7. StartBlock <= next
  BY <1>5, <1>1, FollowAssumption DEF Tiling, Gapless, TypeOK, Checkpoints
<1>8. Disjoint'
  BY <1>1, <1>2, <1>4 DEF Tiling, Disjoint
<1>9. Gapless'
  BY <1>1, <1>2, <1>5, <1>6, <1>7 DEF Tiling, Gapless
<1>10. new \in LastCheckpoint(checkpoints')
  BY <1>1, <1>2, <1>4 DEF LastCheckpoint, TypeOK, Checkpoints
<1>11. next' \in ResumeFrom'
  <2>1. next' = new.end + 1 /\ checkpoints' # {}
    BY <1>2
  <2> HIDE DEF new
  <2> QED
    BY <1>10, <2>1 DEF ResumeFrom
<1>12. InStep'
  BY <1>2, <1>11 DEF InStep, RollingBackNow
<1> QED
  BY <1>8, <1>9, <1>12 DEF Tiling

(* Steps that leave the checkpoints and the position alone.                *)
LEMMA TilingSame ==
    ASSUME Tiling, UNCHANGED <<checkpoints, next>>, ~RollingBackNow', pc # "boot",
           ~RollingBackNow
    PROVE  Tiling'
BY DEF Tiling, Disjoint, Gapless, InStep, ResumeFrom, LastCheckpoint

(* A process that ends disturbs no checkpoint.                             *)
LEMMA TilingDown ==
    ASSUME Tiling, UNCHANGED checkpoints, pc' = "boot"
    PROVE  Tiling'
BY DEF Tiling, Disjoint, Gapless, InStep, RollingBackNow

(* Every step keeps the checkpoints tiled and the process in step.         *)
LEMMA TilingStep == TypeOK /\ Tiling /\ [Next]_vars => Tiling'
<1> SUFFICES ASSUME TypeOK, Tiling, [Next]_vars PROVE Tiling'
  OBVIOUS
<1>1. CASE Boot
  BY <1>1 DEF Boot, store, Tiling, Disjoint, Gapless, InStep, RollingBackNow,
              ResumeFrom, LastCheckpoint
<1>2. CASE DetectReorg
  <2>1. PICK cp \in LastCheckpoint(checkpoints) :
           LET before == CheckpointBefore(checkpoints, cp.start) IN
           IF before = {} THEN next' = cp.start
                          ELSE \E prev \in before : next' = prev.end + 1
    BY <1>2 DEF DetectReorg, RollbackPoint
  <2>2. next' = cp.start
    BY <2>1, RollbackTarget
  <2> QED
    BY <1>2, <2>2 DEF DetectReorg, store, Tiling, Disjoint, Gapless, InStep,
                      RollingBackNow, LastCheckpoint
<1>3. CASE DetectMissing \/ DecodeFails \/ FetchHeaderMissing \/ HeaderMissing \/ Crash
  BY <1>3, TilingDown
  DEF DetectMissing, DecodeFails, FetchHeaderMissing, HeaderMissing, Crash, Exit, store
<1>4. CASE RollbackLogs
  BY <1>4 DEF RollbackLogs, Tiling, Disjoint, Gapless, InStep, RollingBackNow,
              LastCheckpoint
<1>5. CASE RollbackCheckpoints
  BY <1>5, TilingRollback
<1>6. CASE SaveCheckpoint
  BY <1>6, TilingSave
<1>7. CASE DetectClean \/ HeadWait \/ HeadWork \/ HeadFails
  BY <1>7, TilingSame
  DEF DetectClean, HeadWait, HeadWork, HeadFails, store, RollingBackNow
<1>8. CASE GetLogsTooMany \/ GetLogsOk \/ FetchHeader \/ StoreLogs
  BY <1>8, TilingSame
  DEF GetLogsTooMany, GetLogsOk, FetchHeader, StoreLogs, store, RollingBackNow
<1>9. CASE Network \/ UNCHANGED vars
  BY <1>9 DEF Network, vars, store, process, Tiling, Disjoint, Gapless, InStep,
              RollingBackNow, ResumeFrom, LastCheckpoint
<1> QED
  BY <1>1, <1>2, <1>3, <1>4, <1>5, <1>6, <1>7, <1>8, <1>9
  DEF Next, Step, Detecting, RollingBack, ReadingHead, Fetching, Building, Saving, Fault

(* Whatever the network reorganises and whenever the process dies, the     *)
(* checkpoints tile the blocks from the configured start and the process   *)
(* continues exactly where they end (follow.go:16-23, reorg.go:30-37).     *)
THEOREM TilingHolds == Spec => []Tiling
<1>1. TypeInv /\ Tiling /\ [Next]_vars => Tiling'
  BY TilingStep DEF TypeInv
<1> QED
  BY TilingInit, <1>1, TypeInvHolds, PTL DEF Spec

(* A rollback of the follower's own checkpoints deletes the last of them   *)
(* whole and touches no block of another, however often the process dies   *)
(* between its two statements (reorg.go:30-37, sqlite.go:147-158).         *)
THEOREM RollbackCutsNoneHolds == Spec => []RollbackCutsNone
<1>1. TypeInv /\ Tiling => RollbackCutsNone
  <2> SUFFICES ASSUME TypeInv, Tiling, RollingBackNow, NEW cp \in checkpoints
               PROVE  cp.end < next \/ next <= cp.start
    BY DEF RollbackCutsNone
  <2>1. PICK last \in LastCheckpoint(checkpoints) : next = last.start
    BY DEF Tiling, InStep
  <2>2. last \in checkpoints /\ cp.end <= last.end
    BY <2>1 DEF LastCheckpoint
  <2>3. {cp, last} \subseteq Checkpoints /\ cp.start <= cp.end /\ last.start <= last.end
    BY <2>2 DEF TypeInv, TypeOK, Tiling, Gapless
  <2>4. cp # last => cp.end < last.start \/ last.end < cp.start
    BY <2>2 DEF Tiling, Disjoint
  <2> QED
    BY <2>1, <2>2, <2>3, <2>4 DEF Checkpoints
<1> QED
  BY <1>1, TypeInvHolds, TilingHolds, PTL

-----------------------------------------------------------------------------
(* With at least as many confirmations as the network needs to make a      *)
(* block final, the process only ever touches final blocks.  The inductive *)
(* invariant says so of every variable that mentions a block; for the      *)
(* completeness of the table it also accounts for every log of the chunk   *)
(* in progress.                                                            *)

Settled(r) ==
    /\ 1 <= Len(r.block) /\ Len(r.block) <= final
    /\ r.block = BlockAt(chain, Len(r.block))
    /\ r.key \in chain[Len(r.block)].logs

Sound(r) == Settled(r) /\ r.stamp = r.block

OnlyFinal ==
    /\ ~RollingBackNow
    /\ \A cp \in checkpoints : cp.end <= final /\ cp.block = BlockAt(chain, cp.end)
    /\ pc \in Chunking => target <= final
    /\ \A r \in logs : Sound(r)
    /\ \A r \in fetched : Settled(r)
    /\ \A r \in records : Sound(r)

Pending ==
    /\ \A r \in fetched \cup records : next <= Height(r)
    /\ pc = "build" =>
          \A row \in GetLogs : row \in fetched \/ Stamped(row) \in records
    /\ pc = "header" => \A row \in GetLogs : Stamped(row) \in logs

FinalInv ==
    /\ TypeInv /\ Tiling
    /\ Finality /\ KeysOnce
    /\ OnlyFinal
    /\ Pending
    /\ Complete

(* The initial state satisfies the finality invariant.                     *)
LEMMA FinalInit == Init => FinalInv
<1> SUFFICES ASSUME Init PROVE FinalInv
  OBVIOUS
<1>1. TypeInv /\ Tiling
  BY TypeInit, TilingInit
<1>2. Finality /\ KeysOnce
  BY ChainAssumption DEF Init, ChainInit, Finality, KeysOnce
<1>3. OnlyFinal /\ Pending /\ Complete
  BY DEF Init, OnlyFinal, RollingBackNow, Chunking, Pending, Complete
<1> QED
  BY <1>1, <1>2, <1>3 DEF FinalInv

(* A settled row stays settled when the network moves.                     *)
LEMMA SettledStays ==
    ASSUME ChainType, Finality, Mine \/ Reorg, NEW r, r.block \in Seq(Bodies),
           Settled(r)
    PROVE  Settled(r)'
<1>1. /\ BlockAt(chain', Len(r.block)) = BlockAt(chain, Len(r.block))
      /\ chain'[Len(r.block)] = chain[Len(r.block)]
  BY FinalBlocksStay, FinalBodiesStay DEF Settled, ChainType
<1>2. final <= final' /\ final \in Nat /\ final' \in Nat
  BY NetworkFinality, NetworkType DEF ChainType
<1> QED
  BY <1>1, <1>2 DEF Settled

(* What getLogs returns for a chunk is settled: the chunk is below the     *)
(* final height.                                                           *)
LEMMA ChunkSettled ==
    ASSUME FinalInv, pc \in Chunking, NEW row \in GetLogs
    PROVE  /\ Settled(row) /\ row \in Rows
           /\ next <= Height(row) /\ Height(row) <= ChunkEnd
<1>1. ChunkEnd \in Nat /\ ChunkEnd <= final /\ next \in Nat /\ final \in Nat
  BY ChunkEndType DEF FinalInv, TypeInv, TypeOK, OnlyFinal
<1>2. chain \in Seq(Bodies)
  BY DEF FinalInv, TypeInv, TypeOK
<1> QED
  BY <1>1, <1>2, LogsBetweenType DEF GetLogs, Settled, Rows, Height

(* The network takes back nothing that the follower has read as final.     *)
LEMMA OnlyFinalNetwork ==
    ASSUME FinalInv, Network
    PROVE  OnlyFinal'
<1>1. ChainType /\ Finality /\ (Mine \/ Reorg) /\ UNCHANGED <<store, process, faults>>
  BY DEF FinalInv, TypeInv, TypeOK, ChainType, Network
<1>2. final <= final' /\ final \in Nat /\ final' \in Nat
  BY <1>1, NetworkFinality, NetworkType DEF ChainType
<1>3. \A cp \in checkpoints : cp.end <= final' /\ cp.block = BlockAt(chain', cp.end)
  BY <1>1, <1>2, FinalBlocksStay DEF FinalInv, OnlyFinal, TypeInv, TypeOK, Checkpoints
<1>4. /\ \A r \in logs \cup records : Sound(r)'
      /\ \A r \in fetched : Settled(r)'
  <2>1. \A r \in logs \cup records \cup fetched : r.block \in Seq(Bodies) /\ Settled(r)
    BY DEF FinalInv, OnlyFinal, TypeInv, TypeOK, LogRecords, Rows, Sound
  <2> QED
    BY <1>1, <2>1, SettledStays DEF FinalInv, OnlyFinal, Sound
<1>5. pc \in Chunking => target <= final'
  BY <1>2 DEF FinalInv, OnlyFinal, TypeInv, TypeOK
<1> QED
  BY <1>1, <1>3, <1>4, <1>5
  DEF FinalInv, OnlyFinal, store, process, buffers, RollingBackNow, Sound

(* The follower reads and stores nothing but the final chain.              *)
LEMMA OnlyFinalStep ==
    ASSUME FinalityDepth <= Confirmations, FinalInv, [Next]_vars
    PROVE  OnlyFinal'
<1> USE DEF RollingBackNow, Chunking
<1>1. TypeOK /\ Finality /\ OnlyFinal
  BY DEF FinalInv, TypeInv
<1>2. CASE Boot \/ DetectClean \/ HeadWait \/ HeadFails \/ GetLogsTooMany \/ UNCHANGED vars
  BY <1>1, <1>2
  DEF Boot, DetectClean, HeadWait, HeadFails, GetLogsTooMany, vars, chainVars,
      store, process, buffers, OnlyFinal, Sound, Settled
<1>3. ~DetectReorg /\ ~RollbackLogs /\ ~RollbackCheckpoints
  BY <1>1 DEF DetectReorg, RollbackLogs, RollbackCheckpoints, OnlyFinal, LastCheckpoint
<1>4. CASE DetectMissing \/ DecodeFails \/ FetchHeaderMissing \/ HeaderMissing \/ Crash
  BY <1>1, <1>4
  DEF DetectMissing, DecodeFails, FetchHeaderMissing, HeaderMissing, Crash, Exit, chainVars,
      store, OnlyFinal, Sound, Settled
<1>5. CASE HeadWork
  <2>1. target' \in Int /\ target' <= final
    BY <1>1, <1>5, ChainAssumption, FollowAssumption
    DEF HeadWork, SafeHead, Finality, TypeOK
  <2> QED
    BY <1>1, <1>5, <2>1 DEF HeadWork, chainVars, store, buffers, OnlyFinal, Sound, Settled
<1>6. CASE GetLogsOk
  <2>1. \A r \in fetched' : Settled(r)
    BY <1>6, ChunkSettled DEF GetLogsOk
  <2> QED
    BY <1>1, <1>6, <2>1 DEF GetLogsOk, chainVars, store, OnlyFinal, Sound, Settled
<1>7. CASE FetchHeader
  <2>1. PICK n \in 0..Len(chain) :
           /\ fetched' = {row \in fetched : Height(row) # n}
           /\ records' = records \cup
                {[key |-> row.key, block |-> row.block, stamp |-> BlockAt(chain, n)] :
                      row \in {r \in fetched : Height(r) = n}}
    BY <1>7 DEF FetchHeader
  <2>2. \A r \in records' : Sound(r)
    BY <1>1, <2>1 DEF OnlyFinal, Sound, Settled, Height
  <2> QED
    BY <1>1, <1>7, <2>1, <2>2 DEF FetchHeader, chainVars, store, OnlyFinal, Sound, Settled
<1>8. CASE StoreLogs
  BY <1>1, <1>8 DEF StoreLogs, InsertLogs, chainVars, OnlyFinal, Sound, Settled
<1>9. CASE SaveCheckpoint
  <2>1. ChunkEnd \in Nat /\ ChunkEnd <= target /\ target <= final
    BY <1>1, <1>9, ChunkEndType DEF SaveCheckpoint, OnlyFinal
  <2>2. ChunkEnd <= final
    BY <1>1, <2>1 DEF TypeOK
  <2> QED
    BY <1>1, <1>9, <2>1, <2>2 DEF SaveCheckpoint, chainVars, buffers, OnlyFinal, Sound, Settled
<1>10. CASE Network
  BY <1>10, OnlyFinalNetwork
<1> QED
  BY <1>2, <1>3, <1>4, <1>5, <1>6, <1>7, <1>8, <1>9, <1>10
  DEF Next, Step, Detecting, RollingBack, ReadingHead, Fetching, Building, Saving, Fault

(* Between its answer and its checkpoint no log of a chunk is lost.        *)
LEMMA PendingStep ==
    ASSUME FinalityDepth <= Confirmations, FinalInv, [Next]_vars
    PROVE  Pending'
<1> USE DEF Chunking
<1>1. TypeOK /\ Pending /\ OnlyFinal
  BY DEF FinalInv, TypeInv
<1>2. CASE Boot \/ DetectClean \/ HeadWait \/ HeadWork \/ HeadFails \/ GetLogsTooMany
  BY <1>1, <1>2
  DEF Boot, DetectClean, HeadWait, HeadWork, HeadFails, GetLogsTooMany, buffers,
      TypeOK, Pending
<1>3. ~DetectReorg /\ ~RollbackLogs /\ ~RollbackCheckpoints
  BY <1>1 DEF DetectReorg, RollbackLogs, RollbackCheckpoints, OnlyFinal,
              RollingBackNow, LastCheckpoint
<1>4. CASE DetectMissing \/ DecodeFails \/ FetchHeaderMissing \/ HeaderMissing \/ Crash
  BY <1>4 DEF DetectMissing, DecodeFails, FetchHeaderMissing, HeaderMissing, Crash, Exit, Pending
<1>5. CASE GetLogsOk
  <2>1. GetLogs' = GetLogs
    BY <1>5 DEF GetLogsOk, chainVars, GetLogs, ChunkEnd
  <2>2. \A r \in GetLogs : next <= Height(r)
    BY <1>5, ChunkSettled DEF GetLogsOk
  <2> QED
    BY <1>1, <1>5, <2>1, <2>2 DEF GetLogsOk, TypeOK, Pending
<1>6. CASE FetchHeader
  <2>1. PICK n \in 0..Len(chain) :
           /\ fetched' = {row \in fetched : Height(row) # n}
           /\ records' = records \cup
                {[key |-> row.key, block |-> row.block, stamp |-> BlockAt(chain, n)] :
                      row \in {r \in fetched : Height(r) = n}}
    BY <1>6 DEF FetchHeader
  <2>2. GetLogs' = GetLogs /\ next' = next /\ pc = "build" /\ pc' = "build"
    BY <1>6 DEF FetchHeader, chainVars, GetLogs, ChunkEnd
  <2>3. \A r \in fetched' \cup records' : next <= Height(r)
    BY <1>1, <2>1 DEF Pending, Height
  <2>4. \A row \in fetched : Height(row) = n => Stamped(row) \in records'
    BY <1>1, <2>1 DEF OnlyFinal, Settled, Stamped, Height
  <2>5. \A row \in GetLogs : row \in fetched' \/ Stamped(row) \in records'
    BY <1>1, <2>1, <2>2, <2>4 DEF Pending
  <2> QED
    BY <2>2, <2>3, <2>5 DEF Pending
<1>7. CASE StoreLogs
  <2>1. /\ GetLogs' = GetLogs /\ pc = "build" /\ fetched = {} /\ pc' = "header"
        /\ fetched' = {} /\ records' = {}
        /\ logs' = logs \cup {r \in records : \A old \in logs : old.key # r.key}
    BY <1>7 DEF StoreLogs, InsertLogs, chainVars, GetLogs, ChunkEnd
  <2>2. ASSUME NEW row \in GetLogs PROVE Stamped(row) \in logs'
    <3>1. Stamped(row) \in records
      BY <1>1, <2>1 DEF Pending
    <3>2. ASSUME NEW old \in logs, old.key = Stamped(row).key
          PROVE  old = Stamped(row)
      <4>1. /\ Settled(row) /\ Settled(old) /\ old.stamp = old.block
            /\ old.key = row.key /\ old \in LogRecords /\ row \in Rows
        BY <1>1, <2>1, <3>2, ChunkSettled DEF OnlyFinal, Sound, Stamped, TypeOK
      <4>2. Len(old.block) = Len(row.block)
        <5>1. /\ final <= Len(chain) /\ final \in Nat /\ Len(chain) \in Nat
              /\ old.block \in Seq(Bodies) /\ row.block \in Seq(Bodies)
          BY <4>1 DEF FinalInv, Finality, TypeInv, TypeOK, LogRecords, Rows
        <5>2. Len(old.block) \in 1..Len(chain) /\ Len(row.block) \in 1..Len(chain)
          BY <4>1, <5>1 DEF Settled
        <5>3. row.key \in chain[Len(old.block)].logs \cap chain[Len(row.block)].logs
          BY <4>1 DEF Settled
        <5> QED
          BY <5>2, <5>3 DEF FinalInv, KeysOnce
      <4>3. old.block = row.block
        BY <4>1, <4>2 DEF Settled
      <4> QED
        BY <4>1, <4>3 DEF Stamped, LogRecords
    <3> QED
      BY <2>1, <3>1, <3>2
  <2> QED
    BY <2>1, <2>2 DEF Pending
<1>8. CASE SaveCheckpoint
  BY <1>1, <1>8 DEF SaveCheckpoint, buffers, TypeOK, Pending
<1>9. CASE Network
  <2>1. ChainType /\ Finality /\ (Mine \/ Reorg) /\ UNCHANGED <<store, process, faults>>
    BY <1>1, <1>9 DEF FinalInv, TypeOK, ChainType, Network
  <2>2. pc \in Chunking => GetLogs' = GetLogs
    <3> SUFFICES ASSUME pc \in Chunking PROVE GetLogs' = GetLogs
      OBVIOUS
    <3>1. ChunkEnd \in Nat /\ ChunkEnd <= final /\ next \in Nat
      BY <1>1, ChunkEndType DEF OnlyFinal, FinalInv, Finality, TypeOK
    <3>2. ChunkEnd' = ChunkEnd /\ next' = next
      BY <2>1 DEF process, ChunkEnd
    <3> QED
      BY <2>1, <3>1, <3>2, FinalLogsStay DEF GetLogs
  <2> QED
    BY <1>1, <2>1, <2>2 DEF store, process, buffers, Pending
<1>10. CASE UNCHANGED vars
  BY <1>1, <1>10
  DEF vars, chainVars, store, process, buffers, Pending, GetLogs, ChunkEnd
<1> QED
  BY <1>2, <1>3, <1>4, <1>5, <1>6, <1>7, <1>8, <1>9, <1>10
  DEF Next, Step, Detecting, RollingBack, ReadingHead, Fetching, Building, Saving, Fault

(* Every step keeps the checkpointed ranges complete.                      *)
LEMMA CompleteStep ==
    ASSUME FinalityDepth <= Confirmations, FinalInv, [Next]_vars
    PROVE  Complete'
<1>1. TypeOK /\ Pending /\ OnlyFinal /\ Complete
  BY DEF FinalInv, TypeInv
<1>2. ~DetectReorg /\ ~RollbackLogs /\ ~RollbackCheckpoints
  BY <1>1 DEF DetectReorg, RollbackLogs, RollbackCheckpoints, OnlyFinal,
              RollingBackNow, LastCheckpoint
<1>3. CASE UNCHANGED <<chainVars, checkpoints>> /\ logs \subseteq logs'
  BY <1>1, <1>3 DEF Complete, chainVars
<1>4. CASE SaveCheckpoint
  <2>1. /\ logs' = logs /\ chain' = chain /\ pc = "header"
        /\ checkpoints' = checkpoints \cup
             {[start |-> next, end |-> ChunkEnd, block |-> BlockAt(chain, ChunkEnd)]}
    BY <1>4 DEF SaveCheckpoint, chainVars
  <2>2. \A row \in LogsBetween(chain, next, ChunkEnd) : Stamped(row) \in logs
    BY <1>1, <2>1 DEF Pending, GetLogs
  <2> QED
    BY <1>1, <2>1, <2>2 DEF Complete
<1>5. CASE Network
  <2>1. ChainType /\ Finality /\ (Mine \/ Reorg) /\ UNCHANGED <<store, process, faults>>
    BY <1>1, <1>5 DEF FinalInv, TypeOK, ChainType, Network
  <2>2. \A cp \in checkpoints :
           LogsBetween(chain', cp.start, cp.end) = LogsBetween(chain, cp.start, cp.end)
    BY <1>1, <2>1, FinalLogsStay DEF OnlyFinal, TypeOK, Checkpoints
  <2> QED
    BY <1>1, <2>1, <2>2 DEF Complete, store
<1>6. CASE StoreLogs
  BY <1>3, <1>6 DEF StoreLogs, InsertLogs
<1>7. CASE Boot \/ DetectClean \/ HeadWait \/ HeadWork \/ HeadFails \/ UNCHANGED vars
  BY <1>3, <1>7 DEF Boot, DetectClean, HeadWait, HeadWork, HeadFails, vars, store
<1>8. CASE DetectMissing \/ DecodeFails \/ FetchHeaderMissing \/ HeaderMissing \/ Crash
  BY <1>3, <1>8 DEF DetectMissing, DecodeFails, FetchHeaderMissing, HeaderMissing, Crash, store
<1>9. CASE GetLogsTooMany \/ GetLogsOk \/ FetchHeader
  BY <1>3, <1>9 DEF GetLogsTooMany, GetLogsOk, FetchHeader, store
<1> QED
  BY <1>2, <1>4, <1>5, <1>6, <1>7, <1>8, <1>9
  DEF Next, Step, Detecting, RollingBack, ReadingHead, Fetching, Building, Saving, Fault

(* The finality invariant is inductive.                                    *)
LEMMA FinalStep ==
    ASSUME FinalityDepth <= Confirmations
    PROVE  FinalInv /\ [Next]_vars => FinalInv'
<1> SUFFICES ASSUME FinalInv, [Next]_vars PROVE FinalInv'
  OBVIOUS
<1>1. TypeInv' /\ Tiling'
  BY TypeStep, TilingStep DEF FinalInv, TypeInv
<1>2. Finality' /\ KeysOnce'
  <2>1. UNCHANGED chainVars \/ Mine \/ Reorg
    BY DEF Next, Step, Detecting, RollingBack, ReadingHead, Fetching, Building, Saving,
           Fault, Network, Boot, DetectClean, DetectReorg, DetectMissing, RollbackLogs,
           RollbackCheckpoints, HeadWait, HeadWork, HeadFails, GetLogsTooMany, GetLogsOk,
           FetchHeader, DecodeFails, FetchHeaderMissing, StoreLogs, SaveCheckpoint, HeaderMissing,
           Crash, vars
  <2>2. ChainType /\ Finality /\ KeysOnce
    BY DEF FinalInv, TypeInv, TypeOK, ChainType
  <2>3. CASE UNCHANGED chainVars
    BY <2>2, <2>3 DEF chainVars, Finality, KeysOnce
  <2>4. CASE Mine \/ Reorg
    BY <2>2, <2>4, NetworkFinality, NetworkKeysOnce
  <2> QED
    BY <2>1, <2>3, <2>4
<1> QED
  BY <1>1, <1>2, OnlyFinalStep, PendingStep, CompleteStep DEF FinalInv

(* The finality invariant of the follower.                                 *)
LEMMA FinalInvHolds ==
    ASSUME FinalityDepth <= Confirmations
    PROVE  Spec => []FinalInv
BY FinalInit, FinalStep, PTL DEF Spec

(* With as many confirmations as finality takes, no reorganisation and no  *)
(* crash ever leaves a row of an abandoned block, or a row with another    *)
(* block's timestamp, in the table (extract.go:73-90, follow.go:56).       *)
THEOREM FreshHolds ==
    ASSUME FinalityDepth <= Confirmations
    PROVE  Spec => []Fresh
<1>1. FinalInv => Fresh
  <2> SUFFICES ASSUME FinalInv, NEW r \in logs PROVE OnChain(r.block) /\ r.stamp = r.block
    BY DEF Fresh
  <2>1. Sound(r) /\ final <= Len(chain) /\ final \in Nat /\ chain \in Seq(Bodies)
        /\ r.block \in Seq(Bodies)
    BY DEF FinalInv, OnlyFinal, Finality, TypeInv, TypeOK, LogRecords
  <2> QED
    BY <2>1 DEF Sound, Settled, OnChain
<1> QED
  BY <1>1, FinalInvHolds, PTL

(* Under the same assumption a checkpoint is saved only when every log of  *)
(* its range is stored, and none is ever lost (extract.go:73-103).         *)
THEOREM CompleteHolds ==
    ASSUME FinalityDepth <= Confirmations
    PROVE  Spec => []Complete
BY FinalInvHolds, PTL DEF FinalInv

-----------------------------------------------------------------------------
(* The refinement.  The mapping reads the history off the final part of    *)
(* the chain, the horizon off the last checkpoint, and publishes the rows  *)
(* up to the horizon.                                                      *)
History == BlockAt(chain, final)
Published == {r \in logs : Height(r) <= Horizon}

(* While the process is working on a position, the horizon is the block    *)
(* before it.                                                              *)
LEMMA HorizonAtNext ==
    TypeOK /\ next \in ResumeFrom => Horizon = next - 1
<1> SUFFICES ASSUME TypeOK, next \in ResumeFrom PROVE Horizon = next - 1
  OBVIOUS
<1>1. CASE checkpoints = {}
  BY <1>1, FollowAssumption DEF ResumeFrom, Horizon
<1>2. CASE checkpoints # {}
  <2> DEFINE Ends == {cp.end : cp \in checkpoints}
             Highest(n) == \A cp \in checkpoints : cp.end <= n
  <2>1. PICK last \in LastCheckpoint(checkpoints) : next = last.end + 1
    BY <1>2 DEF ResumeFrom
  <2>2. last.end \in Ends /\ Highest(last.end)
    BY <2>1 DEF LastCheckpoint
  <2>3. Horizon \in Ends /\ Highest(Horizon)
    <3>1. Horizon = CHOOSE n \in Ends : Highest(n)
      BY <1>2 DEF Horizon
    <3> HIDE DEF Ends, Highest
    <3> QED
      BY <2>2, <3>1
  <2>4. Ends \subseteq Nat
    BY DEF TypeOK, Checkpoints
  <2>5. Horizon <= last.end /\ last.end <= Horizon
    BY <2>1, <2>2, <2>3 DEF LastCheckpoint
  <2>6. Horizon \in Nat /\ last.end \in Nat
    BY <2>2, <2>3, <2>4
  <2> HIDE DEF Ends, Highest
  <2> QED
    BY <2>1, <2>5, <2>6
<1> QED
  BY <1>1, <1>2

(* The horizon is read from the checkpoints alone.                         *)
LEMMA HorizonSame ==
    ASSUME UNCHANGED checkpoints
    PROVE  Horizon' = Horizon
BY DEF Horizon

(* The rows of a final range, seen from the history and from the chain.    *)
LEMMA HistoryRows ==
    ASSUME ChainType, Finality, NEW from \in Nat, NEW to \in Nat, to <= final
    PROVE  Feed!RowsOf(History, from, to)
           = {Stamped(row) : row \in LogsBetween(chain, from, to)}
<1>1. History \in Seq(Bodies) /\ Len(History) = final
  BY BlockAtType DEF History, ChainType, Finality
<1>2. {m \in 1..Len(History) : from <= m /\ m <= to}
      = {m \in 1..Len(chain) : from <= m /\ m <= to}
  BY <1>1 DEF ChainType, Finality
<1>3. \A n \in 1..final : History[n] = chain[n] /\ SubSeq(History, 1, n) = BlockAt(chain, n)
  BY BlockAtType, BlockAtPrefix DEF History, ChainType, Finality, BlockAt
<1>4. ASSUME NEW x \in Feed!RowsOf(History, from, to)
      PROVE  \E row \in LogsBetween(chain, from, to) : x = Stamped(row)
  <2>1. PICK n \in {m \in 1..Len(chain) : from <= m /\ m <= to} :
           x \in [key : History[n].logs, block : {SubSeq(History, 1, n)},
                  stamp : {SubSeq(History, 1, n)}]
    BY <1>2 DEF Feed!RowsOf
  <2>2. x \in [key : chain[n].logs, block : {BlockAt(chain, n)},
               stamp : {BlockAt(chain, n)}]
    <3>1. n \in 1..final
      BY <2>1 DEF ChainType
    <3>2. History[n] = chain[n] /\ SubSeq(History, 1, n) = BlockAt(chain, n)
      BY <1>3, <3>1
    <3> QED
      BY <2>1, <3>2, Zenon
  <2> DEFINE row == [key |-> x.key, block |-> x.block]
  <2>3. row \in LogsBetween(chain, from, to)
    BY <2>2 DEF LogsBetween
  <2>4. x = Stamped(row)
    BY <2>2 DEF Stamped
  <2> QED
    BY <2>3, <2>4
<1>5. ASSUME NEW row \in LogsBetween(chain, from, to)
      PROVE  Stamped(row) \in Feed!RowsOf(History, from, to)
  <2>1. PICK n \in {m \in 1..Len(chain) : from <= m /\ m <= to} :
           row \in [key : chain[n].logs, block : {BlockAt(chain, n)}]
    BY DEF LogsBetween
  <2>2. Stamped(row) \in [key : History[n].logs, block : {SubSeq(History, 1, n)},
                          stamp : {SubSeq(History, 1, n)}]
    BY <1>3, <2>1 DEF Stamped, ChainType
  <2> QED
    BY <1>2, <2>1, <2>2 DEF Feed!RowsOf
<1> QED
  BY <1>4, <1>5

(* The initial state is an initial state of the feed.                      *)
LEMMA FeedInit == Init => Feed!Init
BY FollowAssumption DEF Init, ChainInit, Feed!Init, BlockAt, Horizon

(* Saving a checkpoint publishes exactly the rows of its chunk.            *)
LEMMA FeedPublish ==
    ASSUME FinalInv, SaveCheckpoint
    PROVE  /\ Horizon' = ChunkEnd /\ ChunkEnd \in Horizon + 1 .. Len(History)
           /\ Published' = Published \cup Feed!RowsOf(History, Horizon + 1, ChunkEnd)
           /\ History' = History
<1>1. TypeOK /\ ChainType /\ Finality /\ OnlyFinal /\ Pending /\ next \in ResumeFrom
  BY DEF FinalInv, TypeInv, TypeOK, ChainType, SaveCheckpoint, Tiling, InStep, RollingBackNow
<1>2. TypeOK' /\ next' \in ResumeFrom'
  BY TypeStep, TilingSave
  DEF FinalInv, TypeInv, Next, Step, Saving, SaveCheckpoint, Tiling, InStep, RollingBackNow
<1>3. ChunkEnd \in Nat /\ next <= ChunkEnd /\ ChunkEnd <= final /\ next \in Nat
  BY <1>1, ChunkEndType DEF SaveCheckpoint, OnlyFinal, TypeOK, Chunking
<1>4. Horizon = next - 1 /\ Horizon' = ChunkEnd
  <2>1. (TypeOK /\ next \in ResumeFrom => Horizon = next - 1)'
    BY HorizonAtNext, PTL
  <2>2. Horizon' = next' - 1
    BY <1>2, <2>1
  <2> QED
    BY <1>1, <1>3, <2>2, HorizonAtNext DEF SaveCheckpoint
<1>5. History' = History /\ Len(History) = final /\ logs' = logs
  BY <1>1, BlockAtType DEF SaveCheckpoint, History, chainVars, ChainType, Finality
<1>6. \A r \in logs : Height(r) \in Nat
  BY <1>1 DEF TypeOK, LogRecords, Height
<1>7. ASSUME NEW r \in logs, next <= Height(r), Height(r) <= ChunkEnd
      PROVE  r \in {Stamped(row) : row \in GetLogs}
  <2>1. Settled(r) /\ r.stamp = r.block /\ r \in LogRecords
    BY <1>1 DEF OnlyFinal, Sound, TypeOK
  <2> DEFINE row == [key |-> r.key, block |-> r.block]
             n == Len(r.block)
  <2>2. r = Stamped(row)
    BY <2>1 DEF Stamped, LogRecords
  <2>3. n \in {m \in 1..Len(chain) : next <= m /\ m <= ChunkEnd}
    BY <1>1, <1>7, <1>3, <2>1 DEF Settled, Height, Finality, ChainType, LogRecords
  <2>4. row \in [key : chain[n].logs, block : {BlockAt(chain, n)}]
    BY <2>1 DEF Settled
  <2>5. row \in GetLogs
    BY <2>3, <2>4 DEF GetLogs, LogsBetween
  <2> QED
    BY <2>2, <2>5
<1>8. \A row \in GetLogs : Stamped(row) \in logs /\ Height(Stamped(row)) <= ChunkEnd
  BY <1>1, ChunkSettled DEF SaveCheckpoint, Pending, Chunking, Stamped, Height
<1>9. {r \in logs : Height(r) <= ChunkEnd}
      = {r \in logs : Height(r) <= next - 1} \cup {Stamped(row) : row \in GetLogs}
  BY <1>3, <1>6, <1>7, <1>8
<1>10. Feed!RowsOf(History, next, ChunkEnd) = {Stamped(row) : row \in GetLogs}
  BY <1>1, <1>3, HistoryRows DEF GetLogs
<1>11. Horizon + 1 = next
  BY <1>3, <1>4
<1> QED
  BY <1>3, <1>4, <1>5, <1>9, <1>10, <1>11 DEF Published

(* A step of the network is a step of the feed: Finalize, or a stutter.    *)
LEMMA FeedNetwork ==
    ASSUME FinalInv, Network
    PROVE  [Feed!Next]_<<History, Published, Horizon>>
<1>1. ChainType /\ Finality /\ (Mine \/ Reorg) /\ UNCHANGED store
  BY DEF FinalInv, TypeInv, TypeOK, ChainType, Network
<1>2. Horizon' = Horizon /\ Published' = Published
  BY <1>1 DEF store, Horizon, Published
<1>3. CASE final' = final
  <2>1. History' = History
    BY <1>1, <1>3, FinalBlocksStay DEF History, ChainType
  <2> QED
    BY <1>2, <2>1
<1>4. CASE final' # final
  <2>1. Mine
    BY <1>1, <1>4 DEF Reorg, ReorgTo
  <2>2. final' = final + 1 /\ final' <= Len(chain') /\ chain' \in Seq(Bodies)
    BY <1>1, <1>4, <2>1, ChainAssumption, NetworkType, NetworkFinality
    DEF Mine, Higher, ChainType, Finality
  <2>3. History = BlockAt(chain', final)
    BY <1>1, FinalBlocksStay DEF History, ChainType
  <2>4. History' = Append(History, chain'[final + 1])
    BY <1>1, <2>2, <2>3 DEF History, BlockAt, ChainType
  <2>5. chain'[final + 1] \in Bodies
    BY <1>1, <2>2 DEF ChainType
  <2> QED
    BY <1>2, <2>4, <2>5 DEF Feed!Next, Feed!Finalize, History, Published
<1> QED
  BY <1>3, <1>4

(* A step of the follower is a step of the feed: Publish, or a stutter.    *)
LEMMA FeedStep ==
    ASSUME FinalityDepth <= Confirmations, FinalInv, [Next]_vars
    PROVE  [Feed!Next]_<<History, Published, Horizon>>
<1>1. TypeOK /\ Pending /\ OnlyFinal
  BY DEF FinalInv, TypeInv
<1>2. ~DetectReorg /\ ~RollbackLogs /\ ~RollbackCheckpoints
  BY <1>1 DEF DetectReorg, RollbackLogs, RollbackCheckpoints, OnlyFinal,
              RollingBackNow, LastCheckpoint
<1>3. CASE UNCHANGED <<chainVars, store>>
  BY <1>3 DEF chainVars, store, History, Published, Horizon
<1>4. CASE SaveCheckpoint
  BY <1>4, FeedPublish DEF Feed!Next, Feed!Publish, History, Published
<1>5. CASE StoreLogs
  <2>1. next \in ResumeFrom
    BY <1>5 DEF StoreLogs, FinalInv, Tiling, InStep, RollingBackNow
  <2>2. Horizon = next - 1 /\ Horizon' = Horizon /\ next \in Nat
    BY <1>1, <1>5, <2>1, HorizonAtNext, HorizonSame DEF StoreLogs, TypeOK
  <2>3. \A r \in records : ~(Height(r) <= Horizon)
    BY <1>1, <2>2 DEF Pending, Height, TypeOK, LogRecords
  <2>4. Published' = Published /\ History' = History
    BY <1>5, <2>2, <2>3 DEF StoreLogs, InsertLogs, Published, History, chainVars
  <2> QED
    BY <2>2, <2>4
<1>6. CASE Network
  BY <1>6, FeedNetwork
<1>7. CASE Boot \/ DetectClean \/ HeadWait \/ HeadWork \/ HeadFails \/ UNCHANGED vars
  BY <1>3, <1>7 DEF Boot, DetectClean, HeadWait, HeadWork, HeadFails, vars
<1>8. CASE DetectMissing \/ DecodeFails \/ FetchHeaderMissing \/ HeaderMissing \/ Crash
  BY <1>3, <1>8 DEF DetectMissing, DecodeFails, FetchHeaderMissing, HeaderMissing, Crash
<1>9. CASE GetLogsTooMany \/ GetLogsOk \/ FetchHeader
  BY <1>3, <1>9 DEF GetLogsTooMany, GetLogsOk, FetchHeader
<1> QED
  BY <1>2, <1>4, <1>5, <1>6, <1>7, <1>8, <1>9
  DEF Next, Step, Detecting, RollingBack, ReadingHead, Fetching, Building, Saving, Fault

(* The follower implements the feed: with as many confirmations as         *)
(* finality takes, its table up to the last checkpoint is an append-only,  *)
(* in-order, exactly-once copy of the final chain's logs, whatever the     *)
(* network reorganises and whenever the process dies.                      *)
THEOREM FeedImplemented ==
    ASSUME FinalityDepth <= Confirmations
    PROVE  Spec => ImplementsFeed
<1>1. Init => Feed!Init
  BY FeedInit
<1>2. FinalInv /\ [Next]_vars => [Feed!Next]_<<History, Published, Horizon>>
  BY FeedStep
<1>3. FinalInv /\ [Next]_vars =>
      [Feed!Next]_<<BlockAt(chain, final), {r \in logs : Height(r) <= Horizon}, Horizon>>
  BY <1>2 DEF History, Published
<1> QED
  BY <1>1, <1>3, FinalInvHolds, PTL DEF Spec, ImplementsFeed, Feed!Spec
-----------------------------------------------------------------------------
(* The follower after a backfill, among shallow reorganisations.  Its      *)
(* invariant says of every row why it is canonical, or else why the next   *)
(* rollback will delete it, and of every checkpoint that its rows are in   *)
(* the table.  Rows need not have a checkpoint.                            *)
RowsOf(cp) == {Stamped(row) : row \in LogsBetween(cp.block, cp.start, cp.end)}
ChunkRows == {Stamped(row) : row \in GetLogs}

Kept == {cp \in checkpoints : pc = "rollbackCheckpoints" => cp.end < next}

(* A row is a log of its block and carries the block's timestamp.          *)
Genuine(r) ==
    /\ Height(r) \in Nat \ {0}
    /\ r.stamp = r.block
    /\ r.key \in r.block[Height(r)].logs

(* A row that goes with the last checkpoint.                               *)
Exposed(r) ==
    /\ pc # "rollbackCheckpoints"
    /\ Watched(Height(r))
    /\ \A cp \in checkpoints : Followed(cp) => cp.end < Height(r)

(* A row that is not canonical goes with the last checkpoint, and a row    *)
(* at or below the last checkpoint's end is on the branch of its block.    *)
Rooted ==
    \A r \in logs :
        /\ Genuine(r)
        /\ OnChain(r.block) \/ Exposed(r)
        /\ \A cp \in checkpoints :
              ~Followed(cp) /\ Height(r) <= cp.end => r.block = BlockAt(cp.block, Height(r))

Full ==
    /\ \A cp \in Kept : RowsOf(cp) \subseteq logs
    /\ pc = "header" => ChunkRows \subseteq logs

Accounted == Rooted /\ Full

(* Between its answer and its insert, the chunk is in the two buffers.     *)
Assembled ==
    pc = "build" =>
        /\ fetched \subseteq GetLogs
        /\ records \subseteq ChunkRows
        /\ \A row \in GetLogs : row \in fetched \/ Stamped(row) \in records

(* Which checkpoints are known to be canonical.                            *)
Branches ==
    \A cp \in checkpoints :
        /\ cp.start <= cp.end /\ Len(cp.block) = cp.end
        /\ \/ Followed(cp)
           \/ pc \in Chunking \cup {"head"}
           \/ RollingBackNow /\ cp.end < next
           => OnChain(cp.block)

(* Where the process stands.                                               *)
Position ==
    /\ RollbackCutsNone
    /\ RollingBackNow => \A cp \in checkpoints : Followed(cp) => cp.end < next
    /\ RollingBackNow => \/ \E cp \in checkpoints : Followed(cp) /\ next = cp.end + 1
                         \/ \A cp \in checkpoints : next <= cp.start
    /\ ~RollingBackNow /\ pc # "boot" => \A cp \in checkpoints : cp.end < next
    /\ pc \in Chunking => target <= Len(chain)

IdleInv ==
    /\ TypeInv /\ KeysOnce
    /\ Disjoint /\ Branches /\ Position
    /\ Accounted /\ Assembled

Less == {ss \in Nat \X Nat : ss[1] < ss[2]}

(* A set of naturals that is not empty has a least element, and one that   *)
(* is bounded a greatest.                                                  *)
LEMMA Least ==
    ASSUME NEW T \in SUBSET Nat, T # {}
    PROVE  \E x \in T : \A y \in T : x <= y
<1>1. IsWellFoundedOn(Less, Nat)
  BY NatLessThanWellFounded DEF OpToRel, Less
<1>2. PICK x \in T : \A y \in T : ~ (<<y, x>> \in Less)
  BY <1>1, WFMin
<1>3. ASSUME NEW y \in T PROVE x <= y
  <2>1. <<y, x>> \notin Less
    BY <1>2
  <2>2. <<y, x>> \in Nat \X Nat /\ <<y, x>>[1] = y /\ <<y, x>>[2] = x
    OBVIOUS
  <2>3. ~(y < x)
    BY <2>1, <2>2 DEF Less
  <2> QED
    BY <2>3
<1> QED
  BY <1>3

LEMMA Greatest ==
    ASSUME NEW S \in SUBSET Nat, S # {}, NEW m \in Nat, \A n \in S : n <= m
    PROVE  \E x \in S : \A y \in S : y <= x
<1> DEFINE T == {k \in Nat : m - k \in S}
<1>1. T # {} /\ T \in SUBSET Nat
  <2>1. PICK n \in S : n <= m /\ n \in Nat
    OBVIOUS
  <2>2. m - n \in Nat /\ m - (m - n) = n
    BY <2>1
  <2>3. m - n \in T
    BY <2>1, <2>2
  <2> QED
    BY <2>3
<1>2. PICK k \in T : \A j \in T : k <= j
  BY <1>1, Least
<1>3. ASSUME NEW y \in S PROVE y <= m - k
  <2>1. y \in Nat /\ m - y \in Nat /\ m - (m - y) = y
    OBVIOUS
  <2>2. k <= m - y
    BY <1>2, <2>1
  <2> QED
    BY <2>1, <2>2
<1> QED
  BY <1>2, <1>3

(* Below a block that some checkpoint ends before, one of them is last.    *)
LEMMA LastExists ==
    ASSUME TypeOK, NEW n \in Nat, NEW cp \in checkpoints, cp.end < n
    PROVE  CheckpointBefore(checkpoints, n) # {}
<1> DEFINE Ends == {c.end : c \in {d \in checkpoints : d.end < n}}
<1>1. Ends \in SUBSET Nat /\ \A m \in Ends : m <= n
  BY DEF TypeOK, Checkpoints
<1>2. cp.end \in Ends
  OBVIOUS
<1> HIDE DEF Ends
<1>3. Ends # {}
  BY <1>2
<1>4. PICK m \in Ends : \A k \in Ends : k <= m
  BY <1>1, <1>3, Greatest
<1>5. PICK c \in checkpoints : c.end < n /\ c.end = m
  BY DEF Ends
<1>6. \A d \in checkpoints : d.end < n => d.end <= m
  BY <1>4 DEF Ends
<1> QED
  BY <1>5, <1>6 DEF CheckpointBefore, LastCheckpoint

(* What every step of the environment is, to the follower's invariants.    *)
LEMMA IdleNextIsNext == IdleNext => Next
BY DEF IdleNext, ShallowReorg, Next, Fault, Network, Reorg

(* A block on the chain has the logs that the chain has at its heights.    *)
LEMMA RowsOnChain ==
    ASSUME TypeOK, NEW cp \in checkpoints, Len(cp.block) = cp.end, OnChain(cp.block)
    PROVE  LogsBetween(cp.block, cp.start, cp.end) = LogsBetween(chain, cp.start, cp.end)
<1>1. /\ cp.end \in 0..Len(chain) /\ cp.block = BlockAt(chain, cp.end)
      /\ cp.start \in Nat /\ chain \in Seq(Bodies)
  BY DEF TypeOK, Checkpoints, OnChain
<1> QED
  BY <1>1, LogsBetweenPrefix

(* The rows of a checkpoint lie in its range.                              *)
LEMMA RowsOfRange ==
    ASSUME TypeOK, NEW cp \in checkpoints, NEW r \in RowsOf(cp)
    PROVE  /\ cp.start <= Height(r) /\ Height(r) <= cp.end /\ Height(r) \in Nat
           /\ r.stamp = r.block
           /\ r.block = BlockAt(cp.block, Height(r)) /\ Height(r) \in 1..Len(cp.block)
           /\ r.key \in cp.block[Height(r)].logs
<1>1. PICK row \in LogsBetween(cp.block, cp.start, cp.end) : r = Stamped(row)
  BY DEF RowsOf
<1>2. cp.block \in Seq(Bodies) /\ cp.start \in Nat /\ cp.end \in Nat
  BY DEF TypeOK, Checkpoints
<1>3. r.key = row.key /\ r.block = row.block /\ r.stamp = row.block
  BY <1>1 DEF Stamped
<1> QED
  BY <1>2, <1>3, LogsBetweenType DEF Height

(* While the process indexes, and after the first delete of a rollback,    *)
(* every row is canonical.                                                 *)
LEMMA RowsCanonical ==
    ASSUME IdleInv, pc \in Chunking \cup {"head", "rollbackCheckpoints"}, NEW r \in logs
    PROVE  OnChain(r.block)
<1>1. TypeOK /\ Branches /\ Genuine(r) /\ (OnChain(r.block) \/ Exposed(r))
  BY DEF IdleInv, TypeInv, Accounted, Rooted
<1>2. CASE Exposed(r)
  <2>1. pc \in Chunking \cup {"head"}
    BY <1>2 DEF Exposed
  <2>2. PICK last \in checkpoints : Height(r) <= last.end
    BY <1>2 DEF Exposed, Watched
  <2>3. Height(r) \in Nat /\ last.end \in Nat
    BY <1>1 DEF Genuine, TypeOK, Checkpoints
  <2>4. ~Followed(last)
    BY <1>2, <2>2, <2>3 DEF Exposed
  <2>5. r.block = BlockAt(last.block, Height(r))
    BY <2>2, <2>4 DEF IdleInv, Accounted, Rooted
  <2>6. last.block = BlockAt(chain, last.end) /\ last.end \in 0..Len(chain)
    BY <1>1, <2>1, <2>3 DEF Branches, OnChain, TypeOK, Checkpoints
  <2>7. r.block = BlockAt(chain, Height(r)) /\ Height(r) <= Len(chain)
    BY <1>1, <2>2, <2>3, <2>5, <2>6, BlockAtPrefix DEF TypeOK
  <2> QED
    BY <2>7 DEF OnChain, Height
<1> QED
  BY <1>1, <1>2

(* A canonical row below a canonical block is on the block's branch.       *)
LEMMA OneChain ==
    ASSUME TypeOK, NEW cp \in checkpoints, OnChain(cp.block), Len(cp.block) = cp.end,
           NEW r, OnChain(r.block), Height(r) \in Nat, Height(r) <= cp.end
    PROVE  r.block = BlockAt(cp.block, Height(r))
<1>1. cp.end \in 0..Len(chain) /\ cp.block = BlockAt(chain, cp.end)
  BY DEF OnChain, TypeOK, Checkpoints
<1>2. r.block = BlockAt(chain, Height(r)) /\ Height(r) \in 0..cp.end
  BY <1>1 DEF OnChain, Height
<1> QED
  BY <1>1, <1>2, BlockAtPrefix DEF TypeOK

(* Of a canonical row, the chain has the key at the row's height.          *)
LEMMA CanonicalKey ==
    ASSUME TypeOK, NEW r, Genuine(r), OnChain(r.block)
    PROVE  /\ Height(r) \in 1..Len(chain)
           /\ r.key \in chain[Height(r)].logs
           /\ r.block = BlockAt(chain, Height(r))
<1>1. Height(r) \in 1..Len(chain) /\ r.block = BlockAt(chain, Height(r))
  BY DEF Genuine, OnChain, Height, TypeOK
<1>2. r.block[Height(r)] = chain[Height(r)]
  BY <1>1, BlockAtType DEF TypeOK
<1> QED
  BY <1>1, <1>2 DEF Genuine

(* The rows of a chunk lie in it, on the chain.                            *)
LEMMA ChunkRowsRange ==
    ASSUME TypeOK, pc \in Chunking, NEW row \in GetLogs
    PROVE  /\ next <= Height(row) /\ Height(row) <= ChunkEnd
           /\ Height(row) \in 1..Len(chain)
           /\ row.block = BlockAt(chain, Height(row))
           /\ row.key \in chain[Height(row)].logs
           /\ row \in Rows
BY ChunkEndType, LogsBetweenType DEF TypeOK, GetLogs, Height, Rows

(* A log is at one height of the chain.                                    *)
LEMMA KeyHeight ==
    ASSUME KeysOnce, NEW i \in 1..Len(chain), NEW j \in 1..Len(chain), NEW k,
           k \in chain[i].logs, k \in chain[j].logs
    PROVE  i = j
BY DEF KeysOnce

(* The steps that read the chain and write nothing but the process's own   *)
(* position.                                                               *)
LEMMA IdleExit ==
    ASSUME IdleInv, Exit, UNCHANGED <<chainVars, store>>, pc # "rollbackCheckpoints"
    PROVE  Disjoint' /\ Branches' /\ Position' /\ Accounted' /\ Assembled'
<1>1. pc' = "boot" /\ checkpoints' = checkpoints /\ logs' = logs /\ chain' = chain
  BY DEF Exit, store, chainVars
<1>2. Disjoint' /\ Position' /\ Assembled'
  BY <1>1 DEF IdleInv, Disjoint, Position, RollbackCutsNone, RollingBackNow, Chunking, Assembled
<1>3. Branches'
  BY <1>1 DEF IdleInv, Branches, Followed, OnChain, Chunking, RollingBackNow
<1>4. Accounted'
  BY <1>1 DEF IdleInv, Accounted, Rooted, Full, Kept, RowsOf, Genuine, Exposed, Watched,
              Followed, OnChain
<1> QED
  BY <1>2, <1>3, <1>4

(* Steps that leave the store and the chain alone.                         *)
LEMMA IdleQuiet ==
    ASSUME IdleInv, UNCHANGED <<chainVars, store>>,
           pc \notin {"header", "rollbackCheckpoints"},
           pc' \notin {"header", "rollbackCheckpoints"}
    PROVE  Disjoint' /\ Accounted'
BY DEF IdleInv, store, chainVars, Disjoint, Accounted, Rooted, Full, Kept, RowsOf, Genuine,
       Exposed, Watched, Followed, OnChain

(* Steps between two polls, up to the first request for logs.              *)
LEMMA IdlePolling ==
    ASSUME IdleInv, Boot \/ DetectClean \/ HeadWait \/ HeadFails \/ HeadWork
    PROVE  Disjoint' /\ Branches' /\ Position' /\ Accounted' /\ Assembled'
<1>1. /\ UNCHANGED <<chainVars, store>> /\ Disjoint' /\ Accounted' /\ Assembled'
  BY IdleQuiet DEF Boot, DetectClean, HeadWait, HeadFails, HeadWork, Assembled
<1>2. checkpoints' = checkpoints /\ chain' = chain
  BY <1>1 DEF store, chainVars
<1>3. TypeOK /\ Disjoint /\ Branches /\ Position
  BY DEF IdleInv, TypeInv
<1>4. CASE Boot
  <2>1. \A cp \in checkpoints : cp.end < next'
    BY <1>3, <1>4 DEF Boot, ResumeFrom, LastCheckpoint, TypeOK, Checkpoints
  <2>2. pc = "boot" /\ pc' = "detect"
    BY <1>4 DEF Boot
  <2> QED
    BY <1>1, <1>2, <1>3, <2>1, <2>2
    DEF Branches, Position, RollbackCutsNone, RollingBackNow, Followed, OnChain, Chunking
<1>5. CASE DetectClean
  <2>1. pc = "detect" /\ pc' = "head" /\ next' = next
    BY <1>5 DEF DetectClean
  <2>2. ASSUME NEW cp \in checkpoints PROVE OnChain(cp.block)
    <3>1. PICK last \in LastCheckpoint(checkpoints) :
             last.end <= Len(chain) /\ BlockAt(chain, last.end) = last.block
      BY <1>5 DEF DetectClean
    <3>2. CASE cp = last
      BY <1>3, <3>1, <3>2 DEF Branches, OnChain
    <3>3. CASE cp # last
      <4>1. Followed(cp)
        BY <1>3, <3>1, <3>3 DEF Disjoint, Followed, LastCheckpoint, Branches, TypeOK, Checkpoints
      <4> QED
        BY <1>3, <4>1 DEF Branches
    <3> QED
      BY <3>2, <3>3
  <2> QED
    BY <1>1, <1>2, <1>3, <2>1, <2>2
    DEF Branches, Position, RollbackCutsNone, RollingBackNow, Followed, OnChain, Chunking
<1>6. CASE HeadWait \/ HeadFails
  <2>1. pc = "head" /\ pc' = "detect" /\ next' = next
    BY <1>6 DEF HeadWait, HeadFails
  <2> QED
    BY <1>1, <1>2, <1>3, <2>1
    DEF Branches, Position, RollbackCutsNone, RollingBackNow, Followed, OnChain, Chunking
<1>7. CASE HeadWork
  <2>1. pc = "head" /\ pc' = "getLogs" /\ next' = next /\ target' <= Len(chain)
    BY <1>3, <1>7, FollowAssumption DEF HeadWork, SafeHead, TypeOK
  <2> QED
    BY <1>1, <1>2, <1>3, <2>1
    DEF Branches, Position, RollbackCutsNone, RollingBackNow, Followed, OnChain, Chunking
<1> QED
  BY <1>4, <1>5, <1>6, <1>7

(* Detect finds a mismatch: it rolls back to a boundary between two        *)
(* checkpoints, and every checkpoint below it is canonical.                *)
LEMMA IdleDetectReorg ==
    ASSUME IdleInv, DetectReorg
    PROVE  Disjoint' /\ Branches' /\ Position' /\ Accounted' /\ Assembled'
<1>1. /\ UNCHANGED <<chainVars, store>> /\ Disjoint' /\ Accounted' /\ Assembled'
      /\ pc = "detect" /\ pc' = "rollbackLogs"
  BY IdleQuiet DEF DetectReorg, Assembled
<1>2. checkpoints' = checkpoints /\ chain' = chain
  BY <1>1 DEF store, chainVars
<1>3. TypeOK /\ Disjoint /\ Branches
  BY DEF IdleInv, TypeInv
<1>4. PICK last \in LastCheckpoint(checkpoints) : next' \in RollbackPoint(last)
  BY DEF DetectReorg
<1>5. last \in checkpoints /\ \A cp \in checkpoints : cp.end <= last.end
  BY <1>4 DEF LastCheckpoint
<1>6. next' <= last.start /\ next' \in Nat
  BY <1>3, <1>4, <1>5
  DEF RollbackPoint, CheckpointBefore, LastCheckpoint, TypeOK, Checkpoints
<1>7. \A cp \in checkpoints : cp # last => cp.end < last.start
  BY <1>3, <1>5 DEF Disjoint, Branches, TypeOK, Checkpoints
<1>8. ASSUME NEW cp \in checkpoints, cp.end < last.start
      PROVE  cp.end < next' /\ Followed(cp)
  <2>1. Followed(cp)
    BY <1>5, <1>8 DEF Followed
  <2>2. CASE CheckpointBefore(checkpoints, last.start) = {}
    BY <1>4, <1>8, <2>1, <2>2 DEF RollbackPoint
  <2>3. CASE CheckpointBefore(checkpoints, last.start) # {}
    <3>1. PICK prev \in CheckpointBefore(checkpoints, last.start) : next' = prev.end + 1
      BY <1>4, <2>3 DEF RollbackPoint
    <3>2. cp.end <= prev.end /\ cp.end \in Nat /\ prev.end \in Nat
      BY <1>3, <1>8, <3>1 DEF CheckpointBefore, LastCheckpoint, TypeOK, Checkpoints
    <3> QED
      BY <2>1, <3>1, <3>2
  <2> QED
    BY <2>2, <2>3
<1>9. \A cp \in checkpoints : cp.end < next' => cp.end < last.start
  BY <1>3, <1>5, <1>6 DEF TypeOK, Checkpoints
<1>10. \A cp \in checkpoints : Followed(cp) => cp # last
  BY <1>3, <1>5 DEF Followed, Branches, TypeOK, Checkpoints
<1>11. \/ \E cp \in checkpoints : Followed(cp) /\ next' = cp.end + 1
       \/ \A cp \in checkpoints : next' <= cp.start
  <2>1. CASE CheckpointBefore(checkpoints, last.start) = {}
    <3>1. next' = last.start
      BY <1>4, <2>1 DEF RollbackPoint
    <3>2. ASSUME NEW cp \in checkpoints, cp # last PROVE FALSE
      <4>1. cp.end < last.start /\ last.start \in Nat
        BY <1>3, <1>5, <1>7, <3>2 DEF TypeOK, Checkpoints
      <4> QED
        BY <1>3, <2>1, <4>1, LastExists
    <3> QED
      BY <1>3, <1>5, <3>1, <3>2 DEF TypeOK, Checkpoints
  <2>2. CASE CheckpointBefore(checkpoints, last.start) # {}
    <3>1. PICK prev \in CheckpointBefore(checkpoints, last.start) : next' = prev.end + 1
      BY <1>4, <2>2 DEF RollbackPoint
    <3>2. prev \in checkpoints /\ prev.end < last.start
      BY <3>1 DEF CheckpointBefore, LastCheckpoint
    <3> QED
      BY <1>8, <3>1, <3>2
  <2> QED
    BY <2>1, <2>2
<1>12. Position'
  BY <1>1, <1>2, <1>6, <1>7, <1>8, <1>10, <1>11
  DEF Position, RollbackCutsNone, RollingBackNow, Followed, Chunking
<1>13. Branches'
  BY <1>1, <1>2, <1>3, <1>8, <1>9
  DEF Branches, RollingBackNow, Followed, OnChain, Chunking
<1> QED
  BY <1>1, <1>12, <1>13

(* The first statement deletes every row that is not canonical, and none   *)
(* of a checkpoint that the second will keep.                              *)
LEMMA IdleRollbackLogs ==
    ASSUME IdleInv, RollbackLogs
    PROVE  Disjoint' /\ Branches' /\ Position' /\ Accounted' /\ Assembled'
<1>1. /\ checkpoints' = checkpoints /\ chain' = chain /\ next' = next
      /\ pc = "rollbackLogs" /\ pc' = "rollbackCheckpoints"
      /\ logs' = {r \in logs : Height(r) < next}
  BY DEF RollbackLogs, chainVars, DeleteLogsFrom
<1>2. TypeOK /\ Disjoint /\ Branches /\ Position /\ Rooted /\ Full
  BY DEF IdleInv, TypeInv, Accounted
<1>3. Disjoint' /\ Branches' /\ Position' /\ Assembled'
  BY <1>1, <1>2
  DEF Disjoint, Branches, Position, RollbackCutsNone, RollingBackNow, Followed, OnChain,
      Chunking, Assembled
<1>4. ASSUME NEW r \in logs, Exposed(r) PROVE ~(Height(r) < next)
  <2>1. PICK first \in checkpoints : first.start <= Height(r)
    BY <1>4 DEF Exposed, Watched
  <2>2. Height(r) \in Nat /\ next \in Nat /\ first.start \in Nat
    BY <1>2 DEF Rooted, Genuine, TypeOK, Checkpoints
  <2>3. CASE \E cp \in checkpoints : Followed(cp) /\ next = cp.end + 1
    <3>1. PICK cp \in checkpoints : Followed(cp) /\ next = cp.end + 1
      BY <2>3
    <3>2. cp.end < Height(r) /\ cp.end \in Nat
      BY <1>2, <1>4, <3>1 DEF Exposed, TypeOK, Checkpoints
    <3> QED
      BY <2>2, <3>1, <3>2
  <2>4. CASE \A cp \in checkpoints : next <= cp.start
    BY <2>1, <2>2, <2>4
  <2> QED
    BY <1>1, <1>2, <2>3, <2>4 DEF Position, RollingBackNow
<1>5. Rooted'
  BY <1>1, <1>2, <1>4
  DEF Rooted, Genuine, Exposed, Watched, Followed, OnChain, Height
<1>6. Full'
  <2> SUFFICES ASSUME NEW cp \in checkpoints, cp.end < next, NEW r \in RowsOf(cp)
               PROVE  r \in logs'
    BY <1>1 DEF Full, Kept, RowsOf
  <2>1. r \in logs
    BY <1>1, <1>2 DEF Full, Kept
  <2>2. Height(r) <= cp.end /\ Height(r) \in Nat
    BY <1>2, RowsOfRange
  <2> QED
    BY <1>1, <1>2, <2>1, <2>2 DEF TypeOK, Checkpoints
<1> QED
  BY <1>3, <1>5, <1>6 DEF Accounted

LEMMA IdleRollbackCheckpoints ==
    ASSUME IdleInv, RollbackCheckpoints
    PROVE  Disjoint' /\ Branches' /\ Position' /\ Accounted' /\ Assembled'
<1>1. /\ logs' = logs /\ chain' = chain /\ next' = next
      /\ pc = "rollbackCheckpoints" /\ pc' = "head"
      /\ checkpoints' = {cp \in checkpoints : cp.start < next}
  BY DEF RollbackCheckpoints, chainVars, DeleteCheckpointsFrom
<1>2. TypeOK /\ Disjoint /\ Branches /\ Position /\ Rooted /\ Full
  BY DEF IdleInv, TypeInv, Accounted
<1>3. \A cp \in checkpoints : cp.start < next <=> cp.end < next
  <2> SUFFICES ASSUME NEW cp \in checkpoints PROVE cp.start < next <=> cp.end < next
    OBVIOUS
  <2>1. cp.end < next \/ next <= cp.start
    BY <1>1, <1>2 DEF Position, RollbackCutsNone, RollingBackNow
  <2>2. cp.start <= cp.end /\ cp.start \in Nat /\ cp.end \in Nat /\ next \in Nat
    BY <1>2 DEF Branches, TypeOK, Checkpoints
  <2> QED
    BY <2>1, <2>2
<1>4. checkpoints' = {cp \in checkpoints : cp.end < next}
  BY <1>1, <1>3
<1>5. Disjoint' /\ Position' /\ Assembled'
  BY <1>1, <1>2, <1>4
  DEF Disjoint, Position, RollbackCutsNone, RollingBackNow, Chunking, Assembled
<1>6. Branches'
  BY <1>1, <1>2, <1>4 DEF Branches, RollingBackNow, OnChain
<1>7. \A cp \in checkpoints' : OnChain(cp.block) /\ Len(cp.block) = cp.end
  BY <1>1, <1>2, <1>4 DEF Branches, RollingBackNow
<1>8. Rooted'
  <2>1. \A r \in logs : OnChain(r.block)
    BY <1>1, RowsCanonical
  <2> QED
    BY <1>1, <1>2, <1>4, <1>7, <2>1, OneChain DEF Rooted, Genuine, OnChain, Height
<1>9. Full'
  BY <1>1, <1>2, <1>4 DEF Full, Kept, RowsOf
<1> QED
  BY <1>5, <1>6, <1>8, <1>9 DEF Accounted

(* The chunk is asked for and built: what is in the buffers is what the    *)
(* chain holds, because the chain below the target does not change.        *)
LEMMA IdleBuilding ==
    ASSUME IdleInv, GetLogsTooMany \/ GetLogsOk \/ FetchHeader
    PROVE  Disjoint' /\ Branches' /\ Position' /\ Accounted' /\ Assembled'
<1>1. /\ UNCHANGED <<chainVars, store>> /\ Disjoint' /\ Accounted'
      /\ pc \in {"getLogs", "build"} /\ pc' \in {"getLogs", "build"}
      /\ next' = next /\ target' = target
  BY IdleQuiet DEF GetLogsTooMany, GetLogsOk, FetchHeader
<1>2. checkpoints' = checkpoints /\ chain' = chain
  BY <1>1 DEF store, chainVars
<1>3. TypeOK /\ Branches /\ Position /\ Assembled
  BY DEF IdleInv, TypeInv
<1>4. Branches' /\ Position'
  BY <1>1, <1>2, <1>3
  DEF Branches, Position, RollbackCutsNone, RollingBackNow, Followed, OnChain, Chunking
<1>5. CASE GetLogsTooMany
  BY <1>1, <1>4, <1>5 DEF GetLogsTooMany, Assembled
<1>6. CASE GetLogsOk
  <2>1. GetLogs' = GetLogs /\ ChunkRows' = ChunkRows
    BY <1>6 DEF GetLogsOk, chainVars, GetLogs, ChunkEnd, ChunkRows
  <2>2. fetched' = GetLogs /\ records' = {}
    BY <1>3, <1>6 DEF GetLogsOk, TypeOK
  <2> QED
    BY <1>1, <1>4, <2>1, <2>2 DEF Assembled
<1>7. CASE FetchHeader
  <2>1. PICK n \in 0..Len(chain) :
           /\ fetched' = {row \in fetched : Height(row) # n}
           /\ records' = records \cup
                {[key |-> row.key, block |-> row.block, stamp |-> BlockAt(chain, n)] :
                      row \in {r \in fetched : Height(r) = n}}
    BY <1>7 DEF FetchHeader
  <2>2. GetLogs' = GetLogs /\ ChunkRows' = ChunkRows /\ pc = "build" /\ pc' = "build"
    BY <1>7 DEF FetchHeader, chainVars, GetLogs, ChunkEnd, ChunkRows
  <2>3. \A row \in fetched : Height(row) = n =>
           Stamped(row) = [key |-> row.key, block |-> row.block, stamp |-> BlockAt(chain, n)]
    BY <1>3, <2>2, ChunkRowsRange DEF Assembled, Stamped, Chunking
  <2>4. fetched' \subseteq GetLogs
    BY <1>3, <2>1, <2>2 DEF Assembled
  <2>5. records' \subseteq ChunkRows
    BY <1>3, <2>1, <2>2, <2>3 DEF Assembled, ChunkRows
  <2>6. \A row \in GetLogs : row \in fetched' \/ Stamped(row) \in records'
    BY <1>3, <2>1, <2>2, <2>3 DEF Assembled
  <2> QED
    BY <1>1, <1>4, <2>2, <2>4, <2>5, <2>6 DEF Assembled
<1> QED
  BY <1>5, <1>6, <1>7

(* The insert keeps a row of the chunk out of the table only when the same *)
(* row is there already, from a chunk without a checkpoint.                *)
LEMMA IdleStoreLogs ==
    ASSUME IdleInv, StoreLogs
    PROVE  Disjoint' /\ Branches' /\ Position' /\ Accounted' /\ Assembled'
<1>1. /\ checkpoints' = checkpoints /\ chain' = chain /\ next' = next
      /\ target' = target /\ chunker' = chunker
      /\ pc = "build" /\ pc' = "header" /\ fetched = {}
      /\ logs' = logs \cup {r \in records : \A old \in logs : old.key # r.key}
  BY DEF StoreLogs, chainVars, InsertLogs
<1>2. TypeOK /\ KeysOnce /\ Disjoint /\ Branches /\ Position /\ Rooted /\ Full /\ Assembled
  BY DEF IdleInv, TypeInv, Accounted
<1>3. Disjoint' /\ Branches' /\ Position' /\ Assembled'
  BY <1>1, <1>2
  DEF Disjoint, Branches, Position, RollbackCutsNone, RollingBackNow, Followed, OnChain,
      Chunking, Assembled
<1>4. records = ChunkRows
  BY <1>1, <1>2 DEF Assembled, ChunkRows
<1>5. ASSUME NEW row \in GetLogs
      PROVE  /\ Height(row) \in 1..Len(chain) /\ row.block = BlockAt(chain, Height(row))
             /\ row.key \in chain[Height(row)].logs /\ next <= Height(row)
  BY <1>1, <1>2, ChunkRowsRange DEF Chunking
<1>6. ASSUME NEW old \in logs, NEW row \in GetLogs, old.key = row.key
      PROVE  Stamped(row) = old
  <2>1. OnChain(old.block) /\ Genuine(old) /\ old \in LogRecords
    BY <1>1, <1>2, RowsCanonical DEF Rooted, Chunking, TypeOK
  <2>2. /\ Height(old) \in 1..Len(chain) /\ old.key \in chain[Height(old)].logs
        /\ old.block = BlockAt(chain, Height(old))
    BY <1>2, <2>1, CanonicalKey
  <2>3. Height(old) = Height(row)
    BY <1>2, <1>5, <1>6, <2>2, KeyHeight
  <2>4. old.block = row.block /\ old.stamp = old.block
    BY <1>5, <2>1, <2>2, <2>3 DEF Genuine
  <2> QED
    BY <1>6, <2>1, <2>4 DEF Stamped, LogRecords
<1>7. logs' = logs \cup ChunkRows
  <2>1. ASSUME NEW row \in GetLogs PROVE Stamped(row) \in logs'
    BY <1>1, <1>4, <1>6 DEF ChunkRows, Stamped
  <2> QED
    BY <1>1, <1>4, <2>1 DEF ChunkRows
<1>8. ChunkRows' = ChunkRows
  BY <1>1 DEF ChunkRows, GetLogs, ChunkEnd
<1>9. ASSUME NEW r \in ChunkRows
      PROVE  Genuine(r) /\ OnChain(r.block) /\ Height(r) \in Nat /\ next <= Height(r)
  <2>1. PICK row \in GetLogs : r = Stamped(row)
    BY DEF ChunkRows
  <2>2. r.block = row.block /\ r.stamp = row.block /\ r.key = row.key
    BY <2>1 DEF Stamped
  <2>3. Height(r) = Height(row)
    BY <2>2 DEF Height
  <2>4. row.block[Height(row)] = chain[Height(row)]
    BY <1>2, <1>5, BlockAtType DEF TypeOK
  <2> QED
    BY <1>5, <2>2, <2>3, <2>4 DEF Genuine, OnChain, Height
<1>10. Rooted'
  <2>1. ASSUME NEW r \in logs'
        PROVE  /\ Genuine(r) /\ OnChain(r.block)
               /\ \A cp \in checkpoints :
                     ~Followed(cp) /\ Height(r) <= cp.end => r.block = BlockAt(cp.block, Height(r))
    <3>1. CASE r \in logs
      BY <1>1, <1>2, <3>1, RowsCanonical DEF Rooted, Chunking
    <3>2. CASE r \in ChunkRows
      <4>1. \A cp \in checkpoints : cp.end < next /\ cp.end \in Nat
        BY <1>1, <1>2 DEF Position, RollingBackNow, TypeOK, Checkpoints
      <4> QED
        BY <1>2, <1>9, <3>2, <4>1 DEF TypeOK
    <3> QED
      BY <1>7, <3>1, <3>2
  <2> QED
    BY <1>1, <2>1 DEF Rooted, Genuine, OnChain, Followed, Height
<1>11. Full'
  BY <1>1, <1>2, <1>7, <1>8 DEF Full, Kept, RowsOf
<1> QED
  BY <1>3, <1>10, <1>11 DEF Accounted

(* The rows just stored become those of the new checkpoint.                *)
LEMMA IdleSaveCheckpoint ==
    ASSUME IdleInv, SaveCheckpoint
    PROVE  Disjoint' /\ Branches' /\ Position' /\ Accounted' /\ Assembled'
<1> DEFINE new == [start |-> next, end |-> ChunkEnd, block |-> BlockAt(chain, ChunkEnd)]
<1>1. TypeOK /\ Disjoint /\ Branches /\ Position /\ Rooted /\ Full
  BY DEF IdleInv, TypeInv, Accounted
<1>2. /\ ChunkEnd \in Nat /\ next <= ChunkEnd /\ ChunkEnd <= Len(chain) /\ next \in Nat
      /\ chain \in Seq(Bodies)
  BY <1>1, ChunkEndType DEF SaveCheckpoint, Chunking, TypeOK
<1>3. /\ checkpoints' = checkpoints \cup {new} /\ next' = ChunkEnd + 1 /\ target' = target
      /\ logs' = logs /\ chain' = chain
      /\ pc = "header" /\ pc' \in {"detect", "getLogs"}
  BY DEF SaveCheckpoint, chainVars
<1>4. \A cp \in checkpoints : cp.end < next /\ OnChain(cp.block)
  BY <1>1, <1>3 DEF Branches, Position, RollingBackNow, Chunking
<1>5. new.start = next /\ new.end = ChunkEnd /\ Len(new.block) = ChunkEnd /\ OnChain(new.block)
  BY <1>2, BlockAtType DEF OnChain
<1>6. RowsOf(new) = ChunkRows
  BY <1>2, LogsBetweenPrefix DEF RowsOf, ChunkRows, GetLogs
<1> HIDE DEF new
<1>7. Disjoint'
  BY <1>1, <1>3, <1>4, <1>5 DEF Disjoint
<1>8. Branches'
  BY <1>1, <1>2, <1>3, <1>4, <1>5 DEF Branches, OnChain
<1>9. Position'
  <2>1. \A cp \in checkpoints' : cp.end < next'
    BY <1>1, <1>2, <1>3, <1>4, <1>5 DEF TypeOK, Checkpoints
  <2>2. target <= Len(chain)
    BY <1>1, <1>3 DEF Position, Chunking
  <2> QED
    BY <1>3, <2>1, <2>2 DEF Position, RollbackCutsNone, RollingBackNow, Chunking
<1>10. Rooted'
  <2>1. \A r \in logs : OnChain(r.block) /\ Genuine(r)
    BY <1>1, <1>3, RowsCanonical DEF Rooted, Chunking
  <2>2. new \in checkpoints' /\ \A cp \in checkpoints : Followed(cp)'
    BY <1>1, <1>3, <1>4, <1>5 DEF Followed
  <2>3. ASSUME NEW r \in logs, Height(r) <= new.end
        PROVE  r.block = BlockAt(new.block, Height(r))
    <3>1. OnChain(r.block) /\ Height(r) \in Nat
      BY <2>1 DEF Genuine
    <3>2. r.block = BlockAt(chain, Height(r)) /\ Height(r) \in 0..ChunkEnd
      BY <1>2, <1>5, <2>3, <3>1 DEF OnChain, Height
    <3>3. new.block = BlockAt(chain, ChunkEnd)
      BY DEF new
    <3> QED
      BY <1>2, <3>2, <3>3, BlockAtPrefix
  <2> QED
    BY <1>3, <2>1, <2>2, <2>3 DEF Rooted, Genuine, OnChain, Height
<1>11. Full'
  <2>1. RowsOf(new) \subseteq logs /\ \A cp \in checkpoints : RowsOf(cp) \subseteq logs
    BY <1>1, <1>3, <1>6 DEF Full, Kept
  <2> QED
    BY <1>3, <2>1 DEF Full, Kept, RowsOf
<1>12. Assembled'
  BY <1>3 DEF Assembled
<1> QED
  BY <1>7, <1>8, <1>9, <1>10, <1>11, <1>12 DEF Accounted

(* A process that ends leaves no half-done rollback, and of a chunk it did *)
(* not finish at most rows that are canonical.                             *)
LEMMA IdleEnding ==
    ASSUME IdleInv,
           \/ DetectMissing \/ DecodeFails \/ FetchHeaderMissing \/ HeaderMissing
           \/ Crash /\ pc # "rollbackCheckpoints"
    PROVE  Disjoint' /\ Branches' /\ Position' /\ Accounted' /\ Assembled'
BY IdleExit DEF DetectMissing, DecodeFails, FetchHeaderMissing, HeaderMissing, Crash

(* A new block changes nothing below it; a shallow reorganisation changes  *)
(* at most blocks of the last checkpoint, while nothing relies on them.    *)
LEMMA IdleNetwork ==
    ASSUME IdleInv, Mine \/ ShallowReorg, UNCHANGED <<store, process, faults>>
    PROVE  Disjoint' /\ Branches' /\ Position' /\ Accounted' /\ Assembled'
<1>1. /\ UNCHANGED <<checkpoints, logs, pc, next, target, chunker, fetched, records>>
  BY DEF store, process, buffers
<1>2. /\ TypeOK /\ ChainType /\ Disjoint /\ Branches /\ Position /\ Rooted /\ Full
      /\ Assembled
  BY DEF IdleInv, TypeInv, TypeOK, ChainType, Accounted
<1>3. CASE Mine
  <2>1. PICK body \in Bodies : chain' = Append(chain, body)
    BY <1>3 DEF Mine
  <2>2. Len(chain') = Len(chain) + 1 /\ chain' \in Seq(Bodies)
    BY <1>2, <2>1 DEF ChainType
  <2>3. \A n \in 0..Len(chain) : BlockAt(chain', n) = BlockAt(chain, n)
    BY <1>2, <2>1, BlockAtAppend DEF ChainType
  <2>4. \A cp \in checkpoints : OnChain(cp.block) => OnChain(cp.block)'
    BY <1>2, <2>2, <2>3 DEF OnChain, TypeOK, Checkpoints, ChainType
  <2>5. pc \in Chunking => GetLogs' = GetLogs
    <3> SUFFICES ASSUME pc \in Chunking PROVE GetLogs' = GetLogs
      OBVIOUS
    <3>1. ChunkEnd \in Nat /\ ChunkEnd <= Len(chain) /\ next \in Nat
      BY <1>2, ChunkEndType DEF Position, TypeOK
    <3>2. ChunkEnd' = ChunkEnd /\ next' = next
      BY <1>1 DEF ChunkEnd
    <3>3. ChunkEnd \in 0..Len(chain) /\ ChunkEnd \in 0..Len(chain')
      BY <1>2, <2>2, <3>1 DEF ChainType
    <3>4. LogsBetween(chain', next, ChunkEnd) = LogsBetween(chain, next, ChunkEnd)
      BY <1>2, <2>2, <2>3, <3>1, <3>3, LogsBetweenPrefix DEF ChainType
    <3> QED
      BY <3>2, <3>4 DEF GetLogs
  <2>6. Disjoint' /\ Branches' /\ Position'
    BY <1>1, <1>2, <2>2, <2>4
    DEF Disjoint, Branches, Position, RollbackCutsNone, RollingBackNow, Followed,
        ChainType, TypeOK
  <2>7. \A r \in logs : OnChain(r.block) => OnChain(r.block)'
    BY <1>2, <2>2, <2>3 DEF OnChain, TypeOK, LogRecords, ChainType
  <2>8. Rooted'
    BY <1>1, <1>2, <2>7 DEF Rooted, Genuine, Exposed, Watched, Followed, Height
  <2>9. Full' /\ Assembled'
    BY <1>1, <1>2, <2>5 DEF Full, Kept, RowsOf, Assembled, ChunkRows, Chunking
  <2> QED
    BY <2>6, <2>8, <2>9 DEF Accounted
<1>4. CASE ShallowReorg
  <2>1. PICK keep \in 0..Len(chain) :
           /\ \A cp \in checkpoints : Followed(cp) => cp.end <= keep
           /\ \A r \in logs : Watched(Height(r)) \/ Height(r) <= keep
           /\ chain' = BlockAt(chain, keep)
    BY <1>4 DEF ShallowReorg, ReorgTo
  <2>2. pc \in {"boot", "detect"}
    BY <1>4 DEF ShallowReorg, Asleep
  <2>3. Len(chain') = keep /\ \A n \in 0..keep : BlockAt(chain', n) = BlockAt(chain, n)
    BY <1>2, <2>1, BlockAtType, BlockAtPrefix DEF ChainType
  <2>4. \A cp \in checkpoints : Followed(cp) => OnChain(cp.block)'
    BY <1>2, <2>1, <2>3 DEF Branches, OnChain, TypeOK, Checkpoints
  <2>5. Disjoint' /\ Branches' /\ Position'
    BY <1>1, <1>2, <2>2, <2>4
    DEF Disjoint, Branches, Position, RollbackCutsNone, RollingBackNow, Followed, Chunking
  <2>6. ASSUME NEW r \in logs PROVE OnChain(r.block)' \/ Exposed(r)
    <3>1. Height(r) \in Nat /\ (OnChain(r.block) \/ Exposed(r))
      BY <1>2 DEF Rooted, Genuine
    <3>2. CASE OnChain(r.block) /\ Height(r) <= keep
      <4>1. r.block = BlockAt(chain, Height(r)) /\ Height(r) \in 0..keep
        BY <3>1, <3>2 DEF OnChain, Height
      <4> QED
        BY <2>3, <4>1 DEF OnChain, Height
    <3>3. CASE ~(Height(r) <= keep)
      <4>1. Watched(Height(r))
        BY <2>1, <3>3
      <4>2. \A cp \in checkpoints : Followed(cp) => cp.end < Height(r)
        BY <1>2, <2>1, <3>1, <3>3 DEF TypeOK, Checkpoints, ChainType
      <4> QED
        BY <2>2, <4>1, <4>2 DEF Exposed
    <3> QED
      BY <3>1, <3>2, <3>3
  <2>7. Rooted'
    BY <1>1, <1>2, <2>6 DEF Rooted, Genuine, Exposed, Watched, Followed, Height
  <2>8. Full' /\ Assembled'
    BY <1>1, <1>2, <2>2 DEF Full, Kept, RowsOf, Assembled
  <2> QED
    BY <2>5, <2>7, <2>8 DEF Accounted
<1> QED
  BY <1>3, <1>4

(* What a backfill leaves satisfies the invariant.                         *)
LEMMA IdleInit ==
    ASSUME NEW Chains, NEW Ranges, Backfills(Chains, Ranges)
    PROVE  BackfilledInit(Chains, Ranges) => IdleInv
<1> SUFFICES ASSUME BackfilledInit(Chains, Ranges) PROVE IdleInv
  OBVIOUS
<1> DEFINE cpOf(r) == [start |-> r.start, end |-> r.end, block |-> BlockAt(chain, r.end)]
<1>1. /\ chain \in Seq(Bodies) /\ KeysOnce /\ final = 0 /\ reorgs = 0 /\ Disjoint
      /\ pc = "boot" /\ next = 0 /\ target = 0 /\ chunker = FreshChunker
      /\ fetched = {} /\ records = {} /\ faults = 0
  BY DEF BackfilledInit, Backfills, KeysOnce
<1>2. PICK stored \in SUBSET {r \in Ranges : Storable(r)} : \E saved \in SUBSET stored :
         /\ checkpoints = {cpOf(r) : r \in saved}
         /\ logs = {Stamped(row) : row \in
                       UNION {LogsBetween(chain, r.start, r.end) : r \in stored}}
  BY DEF BackfilledInit
<1>3. PICK saved \in SUBSET stored :
         /\ checkpoints = {cpOf(r) : r \in saved}
         /\ logs = {Stamped(row) : row \in
                       UNION {LogsBetween(chain, r.start, r.end) : r \in stored}}
  BY <1>2
<1>4. \A r \in stored : r.start \in Nat /\ r.end \in 0..Len(chain) /\ r.start <= r.end
  BY <1>1 DEF Backfills, Storable
<1>5. \A cp \in checkpoints :
         /\ cp \in Checkpoints /\ cp.start <= cp.end /\ Len(cp.block) = cp.end
         /\ OnChain(cp.block)
  BY <1>1, <1>3, <1>4, BlockAtType DEF Checkpoints, OnChain
<1>6. ASSUME NEW x \in logs PROVE x \in LogRecords /\ Genuine(x) /\ OnChain(x.block)
  <2>1. PICK r \in stored : \E row \in LogsBetween(chain, r.start, r.end) : x = Stamped(row)
    BY <1>3
  <2>2. PICK row \in LogsBetween(chain, r.start, r.end) : x = Stamped(row)
    BY <2>1
  <2>3. /\ row \in [key : Key, block : Seq(Bodies)]
        /\ Len(row.block) \in 1..Len(chain) /\ row.block = BlockAt(chain, Len(row.block))
        /\ row.key \in chain[Len(row.block)].logs
    BY <1>1, <1>4, LogsBetweenType
  <2>4. row.block[Len(row.block)] = chain[Len(row.block)]
    BY <1>1, <2>3, BlockAtType
  <2>5. x = [key |-> row.key, block |-> row.block, stamp |-> row.block]
    BY <2>2 DEF Stamped
  <2>6. x \in LogRecords
    BY <2>3, <2>5 DEF LogRecords
  <2>7. Genuine(x) /\ OnChain(x.block)
    BY <2>3, <2>4, <2>5 DEF Genuine, OnChain, Height
  <2> QED
    BY <2>6, <2>7
<1>7. \A r \in saved : RowsOf(cpOf(r)) \subseteq logs
  <2> SUFFICES ASSUME NEW r \in saved PROVE RowsOf(cpOf(r)) \subseteq logs
    OBVIOUS
  <2>1. LogsBetween(BlockAt(chain, r.end), r.start, r.end) = LogsBetween(chain, r.start, r.end)
    BY <1>1, <1>4, LogsBetweenPrefix
  <2> QED
    BY <1>3, <2>1 DEF RowsOf
<1>8. TypeInv
  BY <1>1, <1>5, <1>6, FreshChunkerType DEF TypeInv, TypeOK, Chunking
<1>9. Branches /\ Position /\ Assembled
  BY <1>1, <1>5 DEF Branches, Position, RollbackCutsNone, RollingBackNow, Assembled, Chunking
<1>10. Rooted
  <2>1. \A x \in logs, cp \in checkpoints :
           Height(x) <= cp.end => x.block = BlockAt(cp.block, Height(x))
    BY <1>5, <1>6, <1>8, OneChain DEF Genuine, TypeInv
  <2> QED
    BY <1>6, <2>1 DEF Rooted
<1>11. Full
  BY <1>1, <1>3, <1>7 DEF Full, Kept
<1> QED
  BY <1>1, <1>8, <1>9, <1>10, <1>11 DEF IdleInv, Accounted

(* Every step of the environment keeps the invariant.                      *)
LEMMA IdleStep == IdleInv /\ [IdleNext]_vars => IdleInv'
<1> SUFFICES ASSUME IdleInv, [IdleNext]_vars PROVE IdleInv'
  OBVIOUS
<1>1. TypeInv'
  BY TypeStep, IdleNextIsNext DEF IdleInv
<1>2. KeysOnce'
  <2>1. UNCHANGED chain \/ Mine \/ Reorg
    BY DEF IdleNext, ShallowReorg, Reorg, Step, Detecting, RollingBack, ReadingHead, Fetching,
           Building, Saving, Boot, DetectClean, DetectReorg, DetectMissing, RollbackLogs,
           RollbackCheckpoints, HeadWait, HeadWork, HeadFails, GetLogsTooMany, GetLogsOk,
           FetchHeader, DecodeFails, FetchHeaderMissing, StoreLogs, SaveCheckpoint,
           HeaderMissing, Crash, vars, chainVars
  <2>2. ChainType /\ KeysOnce
    BY DEF IdleInv, TypeInv, TypeOK, ChainType
  <2> QED
    BY <2>1, <2>2, NetworkKeysOnce DEF KeysOnce
<1>3. Disjoint' /\ Branches' /\ Position' /\ Accounted' /\ Assembled'
  <2>1. CASE Step \/ HeadFails \/ (Crash /\ pc # "rollbackCheckpoints")
    BY <2>1, IdlePolling, IdleDetectReorg, IdleRollbackLogs, IdleRollbackCheckpoints,
       IdleBuilding, IdleStoreLogs, IdleSaveCheckpoint, IdleEnding
    DEF Step, Detecting, RollingBack, ReadingHead, Fetching, Building, Saving
  <2>2. CASE (Mine \/ ShallowReorg) /\ UNCHANGED <<store, process, faults>>
    BY <2>2, IdleNetwork
  <2>3. CASE UNCHANGED vars
    <3>1. UNCHANGED <<chain, checkpoints, logs, pc, next, target, chunker, fetched, records>>
      BY <2>3 DEF vars, chainVars, store, process, buffers
    <3>2. Disjoint' /\ Branches' /\ Position'
      BY <3>1 DEF IdleInv, Disjoint, Branches, Position, RollbackCutsNone, RollingBackNow,
                  Followed, OnChain, Chunking
    <3>3. Accounted' /\ Assembled'
      BY <3>1 DEF IdleInv, Accounted, Rooted, Full, Assembled, Kept, RowsOf, ChunkRows, GetLogs,
                  ChunkEnd, Genuine, Exposed, Watched, Followed, OnChain
    <3> QED
      BY <3>2, <3>3
  <2> QED
    BY <2>1, <2>2, <2>3 DEF IdleNext
<1> QED
  BY <1>1, <1>2, <1>3 DEF IdleInv

LEMMA IdleInvHolds ==
    ASSUME NEW CONSTANT Chains, NEW CONSTANT Ranges, Backfills(Chains, Ranges)
    PROVE  BackfilledInit(Chains, Ranges) /\ [][IdleNext]_vars => []IdleInv
BY IdleInit, IdleStep, PTL

(* After a backfill that left disjoint checkpoints, in any order and with  *)
(* gaps, and rows without a checkpoint anywhere; among reorganisations     *)
(* that come between two polls and abandon neither a block of a checkpoint *)
(* that another follows nor a row outside the span of the checkpoints; and *)
(* among deaths anywhere but between the two deletes: whenever the process *)
(* indexes, every stored row is canonical and every checkpointed range     *)
(* complete.  One rollback restores the tables (reorg.go:14-44,            *)
(* follow.go:33-42).                                                       *)
THEOREM CleanWhenIndexingHolds ==
    ASSUME NEW CONSTANT Chains, NEW CONSTANT Ranges, Backfills(Chains, Ranges)
    PROVE  BackfilledInit(Chains, Ranges) /\ [][IdleNext]_vars => []CleanWhenIndexing
<1>1. IdleInv => CleanWhenIndexing
  <2> SUFFICES ASSUME IdleInv, pc \in Chunking \cup {"head"} PROVE Fresh /\ Complete
    BY DEF CleanWhenIndexing
  <2>1. /\ TypeOK /\ Rooted /\ Full
        /\ \A cp \in checkpoints : OnChain(cp.block) /\ Len(cp.block) = cp.end
    BY DEF IdleInv, TypeInv, Branches, Accounted
  <2>2. Fresh
    BY <2>1, RowsCanonical DEF Fresh, Rooted, Genuine
  <2>3. ASSUME NEW cp \in checkpoints, NEW row \in LogsBetween(chain, cp.start, cp.end)
        PROVE  Stamped(row) \in logs
    <3>1. Stamped(row) \in RowsOf(cp)
      BY <2>1, RowsOnChain DEF RowsOf
    <3> QED
      BY <2>1, <3>1 DEF Full, Kept, Chunking
  <2> QED
    BY <2>2, <2>3 DEF Complete
<1> QED
  BY <1>1, IdleInvHolds, PTL

(* After such a backfill, a rollback still begins at a boundary between    *)
(* two checkpoints, although they do not tile (reorg.go:30-37).            *)
THEOREM RollbackCutsNoneAfterBackfill ==
    ASSUME NEW CONSTANT Chains, NEW CONSTANT Ranges, Backfills(Chains, Ranges)
    PROVE  BackfilledInit(Chains, Ranges) /\ [][IdleNext]_vars => []RollbackCutsNone
<1>1. IdleInv => RollbackCutsNone
  BY DEF IdleInv, Position
<1> QED
  BY <1>1, IdleInvHolds, PTL
=============================================================================
