--------------------------- MODULE BackfillProofs ---------------------------
(***************************************************************************)
(* Theorems about the backfill for any number of workers, any range and    *)
(* any failures.                                                           *)
(***************************************************************************)
EXTENDS Backfill, ChunkerProofs

Running == {"getLogs", "store", "save"}

(* The type invariant, with the bound of the chunk size that OnSuccess     *)
(* needs and the shape of what happens before the goroutines start.        *)
TypeInv ==
    /\ TypeOK
    /\ \A w \in Worker : FitsWord(worker[w].chunker.max)
    /\ head \in Heads
    /\ result = "new" => producer = "done" /\ Busy = {} /\ ~err /\ ~cancelled
    /\ result # "new" /\ producer # "done" => last + ChunkSize < Word
    /\ producer = "offer" => cur <= last

(* The chunk is a non-empty part of what the worker has left to do.        *)
LEMMA ChunkOfJob ==
    ASSUME TypeOK, NEW w \in Busy
    PROVE  /\ ChunkEnd(w) \in Nat
           /\ worker[w].current <= ChunkEnd(w) /\ ChunkEnd(w) <= worker[w].to
           /\ worker[w].current \in Nat /\ worker[w].to \in Nat
<1>1. w \in Worker /\ worker[w] \in WorkerState /\ worker[w].current <= worker[w].to
  BY DEF TypeOK, Busy
<1>2. InBounds(worker[w].chunker) /\ worker[w].chunker \in Chunkers
  BY <1>1 DEF TypeOK, WorkerState
<1>3. worker[w].chunker.current \in Nat \ {0}
  BY <1>2 DEF InBounds, Chunkers
<1> QED
  BY <1>1, <1>3 DEF ChunkEnd, WorkerState

(* A job starts at the cursor and ends at or before the end of the range,  *)
(* and the cursor after it does not wrap around.                           *)
LEMMA JobInRange ==
    ASSUME TypeInv, result # "new", producer = "offer"
    PROVE  /\ JobEnd \in Nat /\ cur <= JobEnd /\ JobEnd <= last
           /\ (JobEnd + 1) % Word = JobEnd + 1
<1>1. /\ cur \in Nat /\ last \in Nat /\ cur <= last /\ last + ChunkSize < Word
      /\ ChunkSize \in Nat \ {0}
  BY BackfillAssumption DEF TypeInv, TypeOK
<1>2. (cur + ChunkSize - 1) % Word = cur + ChunkSize - 1
  <2>1. cur + ChunkSize - 1 \in Nat /\ cur + ChunkSize - 1 < Word
    BY <1>1, WordAssumption
  <2> QED
    BY <2>1, NoWrap
<1>3. JobEnd = IF cur + ChunkSize - 1 > last THEN last ELSE cur + ChunkSize - 1
  BY <1>2 DEF JobEnd
<1>4. JobEnd \in Nat /\ cur <= JobEnd /\ JobEnd <= last /\ JobEnd + 1 < Word
  BY <1>1, <1>3, WordAssumption
<1> QED
  BY <1>4, NoWrap

-----------------------------------------------------------------------------
(* The initial state.                                                      *)
LEMMA TypeInit == Init => TypeInv
<1> SUFFICES ASSUME Init PROVE TypeInv
  OBVIOUS
<1>1. FreshChunker \in Chunkers /\ InBounds(FreshChunker)
  BY BackfillAssumption, NewChunkerInBounds DEF FreshChunker
<1>2. \A w \in Worker : worker[w] = Idle
  BY DEF Init
<1>3. Idle \in WorkerState /\ Idle.chunker = FreshChunker /\ Idle.pc = "idle"
  BY <1>1 DEF Idle, WorkerState
<1>4. worker \in [Worker -> WorkerState]
  BY <1>3 DEF Init
<1>5. Busy = {}
  BY <1>2, <1>3 DEF Busy
<1> QED
  BY <1>1, <1>2, <1>3, <1>4, <1>5, BackfillAssumption, SmallAssumption DEF Init, TypeInv, TypeOK

(* A step of one worker that puts it in a typed state.                     *)
LEMMA TypeOneWorker ==
    ASSUME TypeInv, NEW w \in Worker, NEW next \in WorkerState,
           worker' = [worker EXCEPT ![w] = next],
           InBounds(next.chunker), FitsWord(next.chunker.max),
           next.pc \in Running => next.current <= next.to,
           result # "new", UNCHANGED <<bounds, result>>,
           stored' \subseteq Nat, checkpoints' \subseteq [start : Nat, end : Nat],
           cur' \in Nat, producer' \in {"check", "offer", "done"},
           producer' # producer => producer' = "check" /\ producer = "offer",
           producer' = "offer" => cur' = cur,
           err' \in BOOLEAN, cancelled' \in BOOLEAN, interrupted' \in BOOLEAN, faults' \in Nat
    PROVE  TypeInv'
<1>1. /\ worker' \in [Worker -> WorkerState] /\ worker'[w] = next
      /\ \A v \in Worker \ {w} : worker'[v] = worker[v]
  BY DEF TypeInv, TypeOK
<1>2. \A v \in Worker : InBounds(worker'[v].chunker) /\ FitsWord(worker'[v].chunker.max)
  BY <1>1 DEF TypeInv, TypeOK
<1>3. \A v \in Busy' : worker'[v].current <= worker'[v].to
  BY <1>1 DEF TypeInv, TypeOK, Busy, Running
<1>4. TypeOK'
  BY <1>1, <1>2, <1>3 DEF TypeInv, TypeOK, bounds
<1> QED
  BY <1>2, <1>4 DEF TypeInv, bounds

(* The steps of a worker.                                                  *)
LEMMA TypeWorker ==
    ASSUME TypeInv, NEW w \in Worker, WorkerStep(w)
    PROVE  TypeInv'
<1> DEFINE c == worker[w].chunker
<1>0. /\ worker[w] \in WorkerState /\ c \in Chunkers /\ InBounds(c) /\ FitsWord(c.max)
      /\ worker \in [Worker -> WorkerState] /\ TypeOK
  BY DEF TypeInv, TypeOK, WorkerState
<1>1. w \in Busy => worker[w].current <= worker[w].to /\ result # "new"
  BY DEF TypeInv, TypeOK
<1>2. result # "new"
  BY <1>1 DEF WorkerStep, Take, Leave, GetLogsTooMany, GetLogsOk, StoreLogs, SaveCheckpoint,
              Fails, TypeInv, Busy
<1>3. CASE Take(w)
  <2> DEFINE new == [pc |-> "getLogs", current |-> cur, to |-> JobEnd, chunker |-> c]
  <2>1. /\ JobEnd \in Nat /\ cur \in Nat /\ cur <= JobEnd /\ cur' = JobEnd + 1
        /\ producer = "offer" /\ producer' = "check"
        /\ worker' = [worker EXCEPT ![w] = new] /\ UNCHANGED <<tables, bounds, control>>
    BY <1>0, <1>2, <1>3, JobInRange DEF Take, TypeOK
  <2>2. new \in WorkerState
    BY <1>0, <2>1 DEF WorkerState
  <2> HIDE DEF new
  <2>3. new.chunker = c /\ new.current <= new.to
    BY <2>1 DEF new
  <2>4. cur' \in Nat /\ UNCHANGED <<stored, checkpoints>>
    BY <2>1 DEF tables
  <2>5. UNCHANGED <<result, err, cancelled, interrupted, faults>>
    BY <2>1 DEF control
  <2> QED
    BY <1>0, <1>2, <2>1, <2>2, <2>3, <2>4, <2>5, TypeOneWorker DEF TypeOK
<1>4. CASE Leave(w)
  <2> DEFINE new == [worker[w] EXCEPT !.pc = "exited"]
  <2>1. new \in WorkerState /\ new.chunker = c /\ new.pc \notin Running
    BY <1>0 DEF WorkerState, Running
  <2>2. worker' = [worker EXCEPT ![w] = new] /\ UNCHANGED <<tables, bounds, cur, producer, control>>
    BY <1>0, <1>4 DEF Leave
  <2> HIDE DEF new
  <2> QED
    BY <1>0, <1>2, <2>1, <2>2, TypeOneWorker DEF TypeOK, tables, control
<1>5. CASE GetLogsTooMany(w)
  <2> DEFINE new == [worker[w] EXCEPT !.chunker = OnError(c)]
  <2>1. OnError(c) \in Chunkers /\ InBounds(OnError(c)) /\ OnError(c).max = c.max
    BY <1>0, OnErrorInBounds
  <2>2. w \in Busy
    BY <1>5 DEF GetLogsTooMany, Busy
  <2>3. /\ new \in WorkerState /\ new.chunker = OnError(c)
        /\ new.current <= new.to
    BY <1>0, <1>1, <2>1, <2>2 DEF WorkerState
  <2>4. worker' = [worker EXCEPT ![w] = new] /\ UNCHANGED <<tables, bounds, cur, producer, control>>
    BY <1>0, <1>5 DEF GetLogsTooMany
  <2> HIDE DEF new
  <2> QED
    BY <1>0, <1>2, <2>1, <2>3, <2>4, TypeOneWorker DEF TypeOK, tables, control
<1>6. CASE GetLogsOk(w)
  <2> DEFINE new == [worker[w] EXCEPT !.pc = "store"]
  <2>1. w \in Busy
    BY <1>6 DEF GetLogsOk, Busy
  <2>2. new \in WorkerState /\ new.chunker = c /\ new.current <= new.to
    BY <1>0, <1>1, <2>1 DEF WorkerState
  <2>3. worker' = [worker EXCEPT ![w] = new] /\ UNCHANGED <<tables, bounds, cur, producer, control>>
    BY <1>0, <1>6 DEF GetLogsOk
  <2> HIDE DEF new
  <2> QED
    BY <1>0, <1>2, <2>2, <2>3, TypeOneWorker DEF TypeOK, tables, control
<1>7. CASE StoreLogs(w)
  <2> DEFINE new == [worker[w] EXCEPT !.pc = "save"]
  <2>1. w \in Busy
    BY <1>7 DEF StoreLogs, Busy
  <2>2. new \in WorkerState /\ new.chunker = c /\ new.current <= new.to
    BY <1>0, <1>1, <2>1 DEF WorkerState
  <2>3. /\ worker' = [worker EXCEPT ![w] = new]
        /\ stored' = stored \cup (worker[w].current .. ChunkEnd(w))
        /\ UNCHANGED <<checkpoints, bounds, cur, producer, control>>
    BY <1>0, <1>7 DEF StoreLogs
  <2>4. stored' \subseteq Nat
    BY <1>0, <2>1, <2>3, ChunkOfJob DEF TypeOK
  <2> HIDE DEF new
  <2> QED
    BY <1>0, <1>2, <2>2, <2>3, <2>4, TypeOneWorker DEF TypeOK, control
<1>8. CASE SaveCheckpoint(w)
  <2> DEFINE end == ChunkEnd(w)
             new == [pc |-> IF end = worker[w].to THEN "idle" ELSE "getLogs",
                     current |-> end + 1, to |-> worker[w].to, chunker |-> OnSuccess(c)]
  <2>1. w \in Busy
    BY <1>8 DEF SaveCheckpoint, Busy
  <2>2. /\ end \in Nat /\ worker[w].current \in Nat /\ end <= worker[w].to
        /\ worker[w].to \in Nat
    BY <1>0, <2>1, ChunkOfJob
  <2>3. /\ OnSuccess(c) \in Chunkers /\ InBounds(OnSuccess(c)) /\ OnSuccess(c).max = c.max
    BY <1>0, OnSuccessInBounds
  <2>4. /\ worker' = [worker EXCEPT ![w] = new]
        /\ checkpoints' = checkpoints \cup {Range(worker[w].current, end)}
        /\ UNCHANGED <<stored, bounds, cur, producer, control>>
    BY <1>8 DEF SaveCheckpoint
  <2> HIDE DEF end
  <2>5. new \in WorkerState /\ (new.pc \in Running => new.current <= new.to)
    BY <2>2, <2>3 DEF WorkerState, Running
  <2>6. checkpoints' \subseteq [start : Nat, end : Nat]
    BY <1>0, <2>2, <2>4 DEF Range, TypeOK
  <2>7. new.chunker = OnSuccess(c)
    OBVIOUS
  <2> HIDE DEF new
  <2> QED
    BY <1>0, <1>2, <2>3, <2>4, <2>5, <2>6, <2>7, TypeOneWorker DEF TypeOK, control
<1>9. CASE Fails(w)
  <2> DEFINE new == [worker[w] EXCEPT !.pc = "exited"]
  <2>1. new \in WorkerState /\ new.chunker = c /\ new.pc \notin Running
    BY <1>0 DEF WorkerState, Running
  <2>2. faults' \in Nat /\ err' \in BOOLEAN /\ cancelled' \in BOOLEAN
    BY <1>0, <1>9 DEF Fails, Failing, TypeOK
  <2>3. /\ worker' = [worker EXCEPT ![w] = new]
        /\ UNCHANGED <<tables, bounds, cur, producer, interrupted, result>>
    BY <1>0, <1>9 DEF Fails
  <2> HIDE DEF new
  <2> QED
    BY <1>0, <1>2, <2>1, <2>2, <2>3, TypeOneWorker DEF TypeOK, tables
<1> QED
  BY <1>3, <1>4, <1>5, <1>6, <1>7, <1>8, <1>9 DEF WorkerStep

(* Every step keeps the types.                                             *)
LEMMA TypeStep == TypeInv /\ [Next]_vars => TypeInv'
<1> SUFFICES ASSUME TypeInv, [Next]_vars PROVE TypeInv'
  OBVIOUS
<1>0. TypeOK
  BY DEF TypeInv
<1>1. CASE Begin
  <2>1. PICK from \in Froms, to \in Tos \cup {n \in {head - Confirmations} : head > Confirmations} :
             /\ first' = from /\ last' = to /\ cur' = from
             /\ IF to < from THEN result' = "ok" /\ UNCHANGED producer
                             ELSE result' = "running" /\ producer' = "check"
    BY <1>1 DEF Begin
  <2>2. from \in Nat /\ to \in Nat /\ to + ChunkSize < Word
    <3>1. head \in Nat /\ head + ChunkSize < Word /\ head \in Heads /\ Confirmations \in Nat
      BY SmallAssumption, BackfillAssumption DEF TypeInv, TypeOK
    <3>2. CASE to \in Tos
      BY <3>2, SmallAssumption, BackfillAssumption
    <3>3. CASE to = head - Confirmations /\ head > Confirmations
      BY <3>1, <3>3, BackfillAssumption, WordAssumption
    <3> QED
      BY <3>2, <3>3
  <2>3. UNCHANGED <<head, tables, worker, err, cancelled, interrupted, faults>> /\ result = "new"
    BY <1>1 DEF Begin
  <2>4. producer = "done" /\ Busy' = Busy
    BY <2>3 DEF TypeInv, Busy
  <2> QED
    BY <1>0, <2>1, <2>2, <2>3, <2>4 DEF TypeInv, TypeOK, tables
<1>2. CASE HeadTooLow \/ HeadFails
  <2>1. /\ UNCHANGED <<tables, bounds, cur, producer, worker, err, cancelled, interrupted>>
        /\ result = "new" /\ result' = "error" /\ faults' \in Nat
    BY <1>0, <1>2 DEF HeadTooLow, HeadFails, TypeOK
  <2>2. Busy' = Busy /\ producer' = "done"
    BY <2>1 DEF Busy, TypeInv
  <2> QED
    BY <1>0, <2>1, <2>2 DEF TypeInv, TypeOK, tables, bounds
<1>3. CASE Produce
  BY <1>0, <1>3 DEF Produce, TypeInv, TypeOK, tables, bounds, control, Busy
<1>4. ASSUME NEW w \in Worker, WorkerStep(w) PROVE TypeInv'
  BY <1>4, TypeWorker
<1>5. CASE Return \/ Interrupt
  BY <1>0, <1>5 DEF Return, Interrupt, TypeInv, TypeOK, tables, bounds, Busy
<1>6. CASE Kill
  <2> DEFINE gone == [Idle EXCEPT !.pc = "exited"]
  <2>1. FreshChunker \in Chunkers /\ InBounds(FreshChunker) /\ FitsWord(FreshChunker.max)
    BY BackfillAssumption, SmallAssumption, NewChunkerInBounds DEF FreshChunker
  <2>2. gone \in WorkerState /\ gone.pc = "exited" /\ gone.chunker = FreshChunker
    BY <2>1 DEF Idle, WorkerState
  <2>3. worker' = [w \in Worker |-> gone]
    BY <1>6 DEF Kill
  <2> HIDE DEF gone
  <2>4. worker' \in [Worker -> WorkerState] /\ Busy' = {}
    BY <2>2, <2>3 DEF Busy
  <2>5. \A w \in Worker : worker'[w].chunker = FreshChunker
    BY <2>2, <2>3
  <2> QED
    BY <1>0, <1>6, <2>1, <2>4, <2>5 DEF Kill, TypeInv, TypeOK, tables, bounds
<1>7. CASE UNCHANGED vars
  BY <1>0, <1>7 DEF vars, TypeInv, TypeOK, tables, bounds, control, Busy
<1> QED
  BY <1>1, <1>2, <1>3, <1>4, <1>5, <1>6, <1>7 DEF Next

(* Type correctness of the backfill.                                       *)
THEOREM TypeCorrect == Spec => []TypeOK
<1>1. TypeInv => TypeOK
  BY DEF TypeInv
<1> QED
  BY <1>1, TypeInit, TypeStep, PTL DEF Spec

-----------------------------------------------------------------------------
(* Who works on which blocks.                                              *)

(* Jobs are below the cursor, so is what is covered, and a worker that has *)
(* stored its chunk has it in the table.                                   *)
WorkInv ==
    /\ Exclusive
    /\ CheckpointHasLogs
    /\ \A w \in Busy : worker[w].to < cur
    /\ \A n \in Covered : n < cur
    /\ \A w \in Busy : worker[w].pc = "save" => worker[w].current .. ChunkEnd(w) \subseteq stored
    /\ result = "new" => checkpoints = {}

(* A step that gives no worker new work and changes no table.              *)
LEMMA WorkShrinks ==
    ASSUME TypeInv, WorkInv, UNCHANGED checkpoints, stored \subseteq stored', cur <= cur',
           cur' \in Nat,
           result' = "new" => result = "new",
           \A w \in Busy' : w \in Busy /\ worker'[w].current = worker[w].current
                                     /\ worker'[w].to = worker[w].to,
           \A w \in Busy' : worker'[w].pc = "save" =>
                 worker'[w].current .. ChunkEnd(w)' \subseteq stored'
    PROVE  WorkInv'
<1>1. Covered' = Covered /\ Covered \subseteq Nat
  BY DEF Covered, Blocks, TypeInv, TypeOK
<1>2. \A w \in Busy' : w \in Busy /\ Working(w)' = Working(w)
  BY DEF Working
<1>3. Exclusive'
  BY <1>1, <1>2 DEF WorkInv, Exclusive
<1>4. CheckpointHasLogs'
  BY <1>1 DEF WorkInv, CheckpointHasLogs
<1>5. cur \in Nat /\ \A w \in Busy : worker[w].to \in Nat
  BY DEF TypeInv, TypeOK, Busy, WorkerState
<1>6. \A w \in Busy' : worker'[w].to < cur'
  BY <1>5 DEF WorkInv
<1>7. ASSUME NEW n \in Covered' PROVE n < cur'
  <2>1. n \in Covered /\ n \in Nat
    BY <1>1
  <2>2. n < cur
    BY <2>1 DEF WorkInv
  <2> QED
    BY <1>5, <2>1, <2>2
<1>8. result' = "new" => checkpoints' = {}
  BY DEF WorkInv
<1> QED
  BY <1>3, <1>4, <1>6, <1>7, <1>8 DEF WorkInv

(* The producer's cursor moves past the job it hands out.                  *)
LEMMA WorkTake ==
    ASSUME TypeInv, WorkInv, NEW w \in Worker, Take(w), result # "new"
    PROVE  WorkInv'
<1>0. TypeOK /\ cur \in Nat /\ worker \in [Worker -> WorkerState]
  BY DEF TypeInv, TypeOK
<1>1. /\ JobEnd \in Nat /\ cur <= JobEnd /\ cur' = JobEnd + 1
      /\ UNCHANGED <<checkpoints, stored, result>>
  BY JobInRange DEF Take, tables, control
<1>2. /\ worker'[w].pc = "getLogs" /\ worker'[w].current = cur /\ worker'[w].to = JobEnd
      /\ \A v \in Worker \ {w} : worker'[v] = worker[v]
  BY <1>0 DEF Take
<1>3. Busy' = Busy \cup {w} /\ w \notin Busy
  BY <1>2 DEF Busy, Take
<1>4. Covered' = Covered
  BY <1>1 DEF Covered
<1>5. Working(w)' = cur .. JobEnd /\ \A v \in Busy : Working(v)' = Working(v)
  BY <1>2, <1>3 DEF Working, Busy
<1>6. \A v \in Busy : \A n \in Working(v) : n < cur
  BY <1>0 DEF WorkInv, Working, Busy, WorkerState
<1>7. \A n \in Covered : n \in Nat /\ n < cur
  BY DEF WorkInv, Covered, Blocks, TypeInv, TypeOK
<1>8. Exclusive'
  <2>1. \A v \in Busy : Working(v)' \cap Working(w)' = {}
    BY <1>0, <1>1, <1>5, <1>6
  <2>2. Working(w)' \cap Covered = {}
    BY <1>0, <1>1, <1>5, <1>7
  <2> QED
    BY <1>1, <1>3, <1>4, <1>5, <2>1, <2>2 DEF WorkInv, Exclusive
<1>9. \A v \in Busy' : worker'[v].to < cur'
  BY <1>0, <1>1, <1>2, <1>3 DEF WorkInv, Busy, WorkerState
<1>10. \A v \in Busy' : worker'[v].pc = "save" =>
           worker'[v].current .. ChunkEnd(v)' \subseteq stored'
  BY <1>1, <1>2, <1>3 DEF WorkInv, Busy, ChunkEnd
<1> QED
  BY <1>0, <1>1, <1>4, <1>7, <1>8, <1>9, <1>10 DEF WorkInv, CheckpointHasLogs

(* What is checkpointed was the first part of the worker's own work.       *)
LEMMA WorkSave ==
    ASSUME TypeInv, WorkInv, NEW w \in Worker, SaveCheckpoint(w), result # "new"
    PROVE  /\ WorkInv'
           /\ Covered' = Covered \cup (worker[w].current .. ChunkEnd(w))
           /\ Working(w) \subseteq (worker[w].current .. ChunkEnd(w)) \cup Working(w)'
           /\ ChunkEnd(w) # worker[w].to => w \in Busy'
           /\ ChunkEnd(w) = worker[w].to => Working(w) = worker[w].current .. ChunkEnd(w)
<1> DEFINE from == worker[w].current
           end == ChunkEnd(w)
           chunk == from .. end
<1>0. TypeOK /\ cur \in Nat /\ worker \in [Worker -> WorkerState]
  BY DEF TypeInv, TypeOK
<1>1. w \in Busy
  BY DEF SaveCheckpoint, Busy
<1>2. /\ end \in Nat /\ from \in Nat /\ from <= end /\ end <= worker[w].to
      /\ worker[w].to \in Nat /\ worker[w].to < cur
  BY <1>0, <1>1, ChunkOfJob DEF WorkInv
<1>3. /\ checkpoints' = checkpoints \cup {Range(from, end)}
      /\ UNCHANGED <<stored, cur, result>>
  BY DEF SaveCheckpoint, control
<1>4. /\ worker'[w].pc = IF end = worker[w].to THEN "idle" ELSE "getLogs"
      /\ worker'[w].current = end + 1 /\ worker'[w].to = worker[w].to
      /\ \A v \in Worker \ {w} : worker'[v] = worker[v]
  BY <1>0 DEF SaveCheckpoint
<1> HIDE DEF end
<1>5. Blocks(Range(from, end)) = chunk
  BY DEF Blocks, Range
<1>6. Covered' = Covered \cup chunk
  BY <1>3, <1>5 DEF Covered
<1>7. Busy' \subseteq Busy /\ (end # worker[w].to => w \in Busy')
  BY <1>1, <1>4 DEF Busy
<1>8. \A v \in Busy \ {w} : Working(v)' = Working(v)
  BY <1>4 DEF Working, Busy
<1>9. /\ Working(w)' = (end + 1) .. worker[w].to /\ Working(w) = from .. worker[w].to
  BY <1>4 DEF Working
<1>10. /\ Working(w)' \subseteq Working(w) /\ chunk \subseteq Working(w)
       /\ Working(w)' \cap chunk = {} /\ Working(w) \subseteq chunk \cup Working(w)'
       /\ end = worker[w].to => Working(w) = chunk
  BY <1>2, <1>9
<1>11. Exclusive'
  <2>1. \A u, v \in Busy' : u # v => Working(u)' \cap Working(v)' = {}
    BY <1>1, <1>7, <1>8, <1>10 DEF WorkInv, Exclusive
  <2>2. \A v \in Busy' : Working(v)' \cap Covered' = {}
    BY <1>1, <1>6, <1>7, <1>8, <1>10 DEF WorkInv, Exclusive
  <2>3. \A cp \in checkpoints : Blocks(cp) \cap chunk = {}
    BY <1>1, <1>10 DEF WorkInv, Exclusive, Covered
  <2>4. \A a, b \in checkpoints' : a # b => Blocks(a) \cap Blocks(b) = {}
    BY <1>3, <1>5, <2>3 DEF WorkInv, Exclusive
  <2> QED
    BY <2>1, <2>2, <2>4 DEF Exclusive
<1>12. CheckpointHasLogs'
  BY <1>1, <1>3, <1>6 DEF WorkInv, CheckpointHasLogs, SaveCheckpoint, end
<1>13. \A v \in Busy' : worker'[v].to < cur'
  BY <1>2, <1>3, <1>4, <1>7 DEF WorkInv, Busy
<1>14. \A n \in Covered' : n < cur'
  BY <1>0, <1>2, <1>3, <1>6 DEF WorkInv
<1>15. \A v \in Busy' : worker'[v].pc = "save" =>
           worker'[v].current .. ChunkEnd(v)' \subseteq stored'
  BY <1>3, <1>4, <1>7 DEF WorkInv, Busy, ChunkEnd
<1> QED
  BY <1>3, <1>6, <1>7, <1>10, <1>11, <1>12, <1>13, <1>14, <1>15 DEF WorkInv, end

(* Every step keeps it.                                                    *)
LEMMA WorkStep == TypeInv /\ TypeInv' /\ WorkInv /\ [Next]_vars => WorkInv'
<1> SUFFICES ASSUME TypeInv, TypeInv', WorkInv, [Next]_vars PROVE WorkInv'
  OBVIOUS
<1>0. /\ TypeOK /\ cur \in Nat /\ cur' \in Nat /\ worker \in [Worker -> WorkerState]
      /\ worker' \in [Worker -> WorkerState]
  BY DEF TypeInv, TypeOK
<1>1. CASE Begin
  <2>1. checkpoints' = {} /\ UNCHANGED <<stored, worker>> /\ Busy' = {}
    BY <1>1 DEF Begin, WorkInv, tables, TypeInv, Busy
  <2>2. Covered' = {}
    BY <2>1 DEF Covered
  <2> QED
    BY <1>1, <2>1, <2>2 DEF Begin, WorkInv, Exclusive, CheckpointHasLogs
<1>2. ASSUME UNCHANGED <<tables, worker, cur>>, result' = "new" => result = "new" PROVE WorkInv'
  BY <1>0, <1>2, WorkShrinks DEF tables, Busy, ChunkEnd, WorkInv
<1>3. CASE HeadTooLow \/ HeadFails \/ Produce \/ Return \/ Interrupt \/ UNCHANGED vars
  BY <1>2, <1>3 DEF HeadTooLow, HeadFails, Produce, Return, Interrupt, control, vars
<1>4. CASE Kill
  BY <1>0, <1>4, WorkShrinks DEF Kill, tables, Busy
<1>5. ASSUME NEW w \in Worker, WorkerStep(w) PROVE WorkInv'
  <2>0. result # "new" /\ \A v \in Busy : worker[v].to < cur
    BY <1>5 DEF WorkerStep, Take, Leave, GetLogsTooMany, GetLogsOk, StoreLogs, SaveCheckpoint,
                Fails, TypeInv, Busy, WorkInv
  <2>1. CASE Take(w)
    BY <2>0, <2>1, WorkTake
  <2>2. CASE SaveCheckpoint(w)
    BY <2>0, <2>2, WorkSave
  <2>3. CASE Leave(w)
    <3>1. UNCHANGED <<tables, cur, result>> /\ worker' = [worker EXCEPT ![w].pc = "exited"]
      BY <2>3 DEF Leave, control
    <3>2. worker'[w].pc = "exited" /\ \A v \in Worker \ {w} : worker'[v] = worker[v]
      BY <1>0, <3>1
    <3> QED
      BY <1>0, <3>1, <3>2, WorkShrinks DEF tables, Busy, ChunkEnd, WorkInv
  <2>4. CASE Fails(w)
    <3>1. UNCHANGED <<tables, cur, result>> /\ worker' = [worker EXCEPT ![w].pc = "exited"]
      BY <2>4 DEF Fails
    <3>2. worker'[w].pc = "exited" /\ \A v \in Worker \ {w} : worker'[v] = worker[v]
      BY <1>0, <3>1
    <3> QED
      BY <1>0, <3>1, <3>2, WorkShrinks DEF tables, Busy, ChunkEnd, WorkInv
  <2>5. CASE GetLogsTooMany(w)
    <3>1. UNCHANGED <<tables, cur, result>> /\ w \in Busy
      BY <2>5 DEF GetLogsTooMany, control, Busy
    <3>2. /\ worker'[w].pc = "getLogs" /\ worker'[w].current = worker[w].current
          /\ worker'[w].to = worker[w].to /\ \A v \in Worker \ {w} : worker'[v] = worker[v]
      BY <1>0, <2>5 DEF GetLogsTooMany, WorkerState
    <3> QED
      BY <1>0, <3>1, <3>2, WorkShrinks DEF tables, Busy, ChunkEnd, WorkInv
  <2>6. CASE GetLogsOk(w)
    <3>1. UNCHANGED <<tables, cur, result>> /\ w \in Busy
      BY <2>6 DEF GetLogsOk, control, Busy
    <3>2. /\ worker'[w].pc = "store" /\ worker'[w].current = worker[w].current
          /\ worker'[w].to = worker[w].to /\ \A v \in Worker \ {w} : worker'[v] = worker[v]
      BY <1>0, <2>6 DEF GetLogsOk, WorkerState
    <3> QED
      BY <1>0, <3>1, <3>2, WorkShrinks DEF tables, Busy, ChunkEnd, WorkInv
  <2>7. CASE StoreLogs(w)
    <3>1. /\ UNCHANGED <<checkpoints, cur, result>> /\ w \in Busy
          /\ stored' = stored \cup (worker[w].current .. ChunkEnd(w))
      BY <2>7 DEF StoreLogs, control, Busy
    <3>2. /\ worker'[w].pc = "save" /\ worker'[w].current = worker[w].current
          /\ worker'[w].to = worker[w].to /\ worker'[w].chunker = worker[w].chunker
          /\ \A v \in Worker \ {w} : worker'[v] = worker[v]
      BY <1>0, <2>7 DEF StoreLogs, WorkerState
    <3>3. \A v \in Busy' : ChunkEnd(v)' = ChunkEnd(v)
      BY <3>2 DEF ChunkEnd, Busy
    <3> QED
      BY <1>0, <3>1, <3>2, <3>3, WorkShrinks DEF Busy, WorkInv
  <2> QED
    BY <1>5, <2>1, <2>2, <2>3, <2>4, <2>5, <2>6, <2>7 DEF WorkerStep
<1> QED
  BY <1>1, <1>3, <1>4, <1>5 DEF Next

(* At first nobody works and nothing is covered.                           *)
LEMMA WorkInit == Init => WorkInv
<1> SUFFICES ASSUME Init PROVE WorkInv
  OBVIOUS
<1>1. Busy = {}
  BY DEF Init, Busy, Idle
<1>2. Covered = {} /\ checkpoints = {}
  BY DEF Init, Covered
<1> QED
  BY <1>1, <1>2 DEF WorkInv, Exclusive, CheckpointHasLogs

(* No block is the work of two.                                            *)
THEOREM ExclusiveHolds == Spec => []Exclusive
<1>1. WorkInv => Exclusive
  BY DEF WorkInv
<1> QED
  BY <1>1, WorkInit, WorkStep, TypeInit, TypeStep, PTL DEF Spec

(* A checkpoint is written after its logs.                                 *)
THEOREM CheckpointHasLogsHolds == Spec => []CheckpointHasLogs
<1>1. WorkInv => CheckpointHasLogs
  BY DEF WorkInv
<1> QED
  BY <1>1, WorkInit, WorkStep, TypeInit, TypeStep, PTL DEF Spec
-----------------------------------------------------------------------------
(* The verdict.                                                            *)

(* Every block below the cursor is checkpointed or in the hands of a       *)
(* worker; the workers stay until the producer is through.                 *)
Handed ==
    /\ \A n \in first .. last : n < cur => n \in Covered \/ \E w \in Busy : n \in Working(w)
    /\ producer = "done" => last < cur
    /\ \A w \in Worker : worker[w].pc = "exited" => producer = "done"

(* While nothing failed and no signal came, nothing was lost.              *)
VerdictInv ==
    /\ result # "running" =>
           Busy = {} /\ (producer = "done" \/ \A w \in Worker : worker[w].pc = "exited")
    /\ result = "new" => \A w \in Worker : worker[w].pc # "exited"
    /\ ~err /\ ~interrupted => ~cancelled
    /\ result = "running" /\ ~err /\ ~interrupted => Handed
    /\ SuccessIsComplete

(* A worker's step, when nothing failed.                                   *)
LEMMA HandedStep ==
    ASSUME TypeInv, WorkInv, VerdictInv, Handed, NEW w \in Worker, WorkerStep(w), ~Fails(w),
           result = "running"
    PROVE  Handed'
<1>0. /\ TypeOK /\ cur \in Nat /\ first \in Nat /\ last \in Nat
      /\ worker \in [Worker -> WorkerState]
  BY DEF TypeInv, TypeOK
<1>1. CASE Take(w)
  <2>1. /\ JobEnd \in Nat /\ cur <= JobEnd /\ cur' = JobEnd + 1
        /\ producer = "offer" /\ producer' = "check"
        /\ UNCHANGED <<checkpoints, first, last>>
    BY <1>1, JobInRange DEF Take, tables, bounds
  <2>2. /\ worker'[w].pc = "getLogs" /\ worker'[w].current = cur /\ worker'[w].to = JobEnd
        /\ \A v \in Worker \ {w} : worker'[v] = worker[v]
    BY <1>0, <1>1 DEF Take
  <2>3. Busy' = Busy \cup {w} /\ w \notin Busy
    BY <1>1, <2>2 DEF Busy, Take
  <2>4. Covered' = Covered
    BY <2>1 DEF Covered
  <2>5. Working(w)' = cur .. JobEnd /\ \A v \in Busy : Working(v)' = Working(v)
    BY <2>2, <2>3 DEF Working, Busy
  <2>6. ASSUME NEW n \in first .. last, n < cur'
        PROVE  n \in Covered' \/ \E v \in Busy' : n \in Working(v)'
    <3>1. CASE n < cur
      BY <2>3, <2>4, <2>5, <3>1 DEF Handed
    <3>2. CASE ~(n < cur)
      BY <1>0, <2>1, <2>3, <2>5, <2>6, <3>2
    <3> QED
      BY <3>1, <3>2
  <2>7. \A v \in Worker : worker'[v].pc # "exited"
    BY <2>1, <2>2 DEF Handed
  <2> QED
    BY <2>1, <2>6, <2>7 DEF Handed
<1>2. CASE SaveCheckpoint(w)
  <2>1. /\ Covered' = Covered \cup (worker[w].current .. ChunkEnd(w))
        /\ Working(w) \subseteq (worker[w].current .. ChunkEnd(w)) \cup Working(w)'
        /\ ChunkEnd(w) # worker[w].to => w \in Busy'
        /\ ChunkEnd(w) = worker[w].to => Working(w) = worker[w].current .. ChunkEnd(w)
    BY <1>2, WorkSave
  <2>2. /\ worker'[w].pc # "exited" /\ \A v \in Worker \ {w} : worker'[v] = worker[v]
        /\ UNCHANGED <<first, last, cur, producer>>
    BY <1>0, <1>2 DEF SaveCheckpoint, bounds
  <2>3. \A v \in Busy \ {w} : v \in Busy' /\ Working(v)' = Working(v)
    BY <2>2 DEF Busy, Working
  <2>4. ASSUME NEW n \in first .. last, n < cur
        PROVE  n \in Covered' \/ \E v \in Busy' : n \in Working(v)'
    <3>1. n \in Covered \/ \E v \in Busy : n \in Working(v)
      BY <2>4 DEF Handed
    <3>2. ASSUME n \in Working(w) PROVE n \in Covered' \/ (w \in Busy' /\ n \in Working(w)')
      BY <2>1, <3>2
    <3> QED
      BY <2>1, <2>3, <3>1, <3>2
  <2> QED
    BY <2>2, <2>4 DEF Handed
<1>3. CASE Leave(w)
  <2>1. /\ worker'[w].pc = "exited" /\ \A v \in Worker \ {w} : worker'[v] = worker[v]
        /\ UNCHANGED <<checkpoints, first, last, cur, producer>>
        /\ w \notin Busy /\ producer = "done"
    BY <1>0, <1>3 DEF Leave, tables, bounds, Busy
  <2>2. Busy' = Busy /\ \A v \in Busy : Working(v)' = Working(v)
    BY <2>1 DEF Busy, Working
  <2>3. Covered' = Covered
    BY <2>1 DEF Covered
  <2> QED
    BY <2>1, <2>2, <2>3 DEF Handed
<1>4. CASE GetLogsTooMany(w) \/ GetLogsOk(w) \/ StoreLogs(w)
  <2>1. /\ worker'[w].pc \in Running /\ worker'[w].current = worker[w].current
        /\ worker'[w].to = worker[w].to /\ \A v \in Worker \ {w} : worker'[v] = worker[v]
        /\ w \in Busy /\ UNCHANGED <<checkpoints, first, last, cur, producer>>
    BY <1>0, <1>4 DEF GetLogsTooMany, GetLogsOk, StoreLogs, tables, bounds, Busy, Running, WorkerState
  <2>2. Busy' = Busy /\ \A v \in Busy : Working(v)' = Working(v)
    BY <2>1 DEF Busy, Working, Running
  <2>3. Covered' = Covered
    BY <2>1 DEF Covered
  <2> QED
    BY <2>1, <2>2, <2>3 DEF Handed, Running
<1> QED
  BY <1>1, <1>2, <1>3, <1>4 DEF WorkerStep

(* Every step keeps the invariant of the verdict.                          *)
LEMMA VerdictStep ==
    TypeInv /\ TypeInv' /\ WorkInv /\ VerdictInv /\ [Next]_vars => VerdictInv'
<1> SUFFICES ASSUME TypeInv, TypeInv', WorkInv, VerdictInv, [Next]_vars PROVE VerdictInv'
  OBVIOUS
<1>0. /\ TypeOK /\ cur \in Nat /\ first \in Nat /\ last \in Nat
      /\ worker \in [Worker -> WorkerState]
  BY DEF TypeInv, TypeOK
<1>1. CASE Begin
  <2>1. /\ UNCHANGED <<worker, err, cancelled, interrupted>>
        /\ Busy' = {} /\ result = "new" /\ producer = "done"
        /\ \A w \in Worker : worker'[w].pc # "exited"
    BY <1>1 DEF Begin, VerdictInv, TypeInv, Busy
  <2>2. /\ first' \in Nat /\ last' \in Nat /\ cur' = first'
        /\ \/ last' < first' /\ result' = "ok" /\ producer' = "done"
           \/ result' = "running" /\ producer' = "check"
    <3>1. first' \in Nat /\ last' \in Nat
      BY DEF TypeInv, TypeOK
    <3> QED
      BY <1>1, <2>1, <3>1 DEF Begin
  <2>3. Handed' \/ result' = "ok"
    BY <2>1, <2>2 DEF Handed
  <2>4. result' = "ok" => first' .. last' = {}
    BY <2>2
  <2> QED
    BY <2>1, <2>2, <2>3, <2>4 DEF VerdictInv, SuccessIsComplete
<1>2. CASE HeadTooLow \/ HeadFails
  <2>1. /\ UNCHANGED <<worker, err, cancelled, interrupted, producer>>
        /\ result = "new" /\ result' = "error" /\ producer = "done" /\ Busy' = {}
    BY <1>2 DEF HeadTooLow, HeadFails, TypeInv, Busy
  <2> QED
    BY <2>1 DEF VerdictInv, SuccessIsComplete
<1>3. CASE Produce
  <2>1. /\ UNCHANGED <<tables, bounds, cur, worker, control>> /\ producer = "check"
        /\ producer' = IF cur > last \/ cancelled THEN "done" ELSE "offer"
        /\ UNCHANGED <<err, cancelled, interrupted, result, checkpoints, first, last>>
    BY <1>3 DEF Produce, control, tables, bounds
  <2>2. Busy' = Busy /\ Covered' = Covered /\ \A w \in Busy : Working(w)' = Working(w)
    BY <2>1 DEF Busy, Covered, Working
  <2>3. result = "running" /\ ~err /\ ~interrupted => Handed'
    BY <1>0, <2>1, <2>2 DEF VerdictInv, Handed
  <2>4. SuccessIsComplete'
    BY <2>1, <2>2 DEF VerdictInv, SuccessIsComplete
  <2> QED
    BY <2>1, <2>2, <2>3, <2>4 DEF VerdictInv
<1>4. ASSUME NEW w \in Worker, WorkerStep(w) PROVE VerdictInv'
  <2>1. result = "running"
    BY <1>4 DEF WorkerStep, Take, Leave, GetLogsTooMany, GetLogsOk, StoreLogs, SaveCheckpoint,
                Fails, VerdictInv, Busy
  <2>2. CASE Fails(w)
    BY <2>1, <2>2 DEF Fails, VerdictInv, SuccessIsComplete
  <2>3. CASE ~Fails(w)
    <3>1. UNCHANGED <<result, err, cancelled, interrupted>>
      BY <1>4, <2>3 DEF WorkerStep, Take, Leave, GetLogsTooMany, GetLogsOk, StoreLogs,
                        SaveCheckpoint, control
    <3>2. ~err /\ ~interrupted => Handed'
      BY <1>4, <2>1, <2>3, HandedStep DEF VerdictInv
    <3> QED
      BY <2>1, <3>1, <3>2 DEF VerdictInv, SuccessIsComplete
  <2> QED
    BY <2>2, <2>3
<1>5. CASE Return
  <2>1. /\ \A w \in Worker : worker[w].pc = "exited"
        /\ UNCHANGED <<worker, err, cancelled, interrupted, checkpoints, first, last>>
        /\ result = "running" /\ result' = IF err THEN "error" ELSE "ok"
    BY <1>5 DEF Return, tables, bounds
  <2>2. Busy = {} /\ Busy' = {} /\ Covered' = Covered
    BY <2>1 DEF Busy, Covered
  <2>3. ASSUME ~err, ~interrupted PROVE first .. last \subseteq Covered
    <3>1. Handed /\ last < cur
      BY <2>1, <2>3, BackfillAssumption DEF VerdictInv, Handed
    <3> QED
      BY <1>0, <2>2, <3>1 DEF Handed
  <2> QED
    BY <2>1, <2>2, <2>3 DEF VerdictInv, SuccessIsComplete
<1>6. CASE Interrupt
  BY <1>6 DEF Interrupt, VerdictInv, SuccessIsComplete
<1>7. CASE Kill
  <2>1. result' = "killed" /\ producer' = "done" /\ UNCHANGED <<err, cancelled, interrupted>>
    BY <1>7 DEF Kill
  <2>2. Busy' = {}
    BY <1>7 DEF Kill, Busy, Idle
  <2> QED
    BY <2>1, <2>2 DEF VerdictInv, SuccessIsComplete
<1>8. CASE UNCHANGED vars
  <2>1. UNCHANGED <<result, producer, worker, err, cancelled, interrupted, checkpoints, first, last, cur>>
    BY <1>8 DEF vars, tables, bounds, control
  <2>2. Busy' = Busy /\ Covered' = Covered /\ \A w \in Busy : Working(w)' = Working(w)
    BY <2>1 DEF Busy, Covered, Working
  <2> QED
    BY <2>1, <2>2 DEF VerdictInv, SuccessIsComplete, Handed
<1> QED
  BY <1>1, <1>2, <1>3, <1>4, <1>5, <1>6, <1>7, <1>8 DEF Next

(* At first there is no verdict.                                           *)
LEMMA VerdictInit == Init => VerdictInv
<1> SUFFICES ASSUME Init PROVE VerdictInv
  OBVIOUS
<1>1. \A w \in Worker : worker[w].pc = "idle"
  BY DEF Init, Idle
<1>2. Busy = {}
  BY <1>1 DEF Busy
<1> QED
  BY <1>1, <1>2 DEF Init, VerdictInv, SuccessIsComplete

(* A backfill that was not interrupted returns nil only when every block   *)
(* it was asked for has its checkpoint.                                    *)
THEOREM SuccessIsCompleteHolds == Spec => []SuccessIsComplete
<1>1. VerdictInv => SuccessIsComplete
  BY DEF VerdictInv
<1> QED
  BY <1>1, VerdictInit, VerdictStep, WorkInit, WorkStep, TypeInit, TypeStep, PTL DEF Spec
-----------------------------------------------------------------------------
(* The backfill does the job that BackfillJob promises.                    *)

(* The producer, the workers and the checkpoints stay inside the range     *)
(* that was asked for.                                                     *)
Within ==
    /\ result = "new" => first = 1 /\ last = 0
    /\ result = "running" => first <= cur
    /\ \A w \in Busy : first <= worker[w].current /\ worker[w].to <= last
    /\ Covered \subseteq first .. last

(* Once Backfill has returned no worker does anything.                     *)
LEMMA WorkerRuns ==
    ASSUME TypeInv, VerdictInv, NEW w \in Worker, WorkerStep(w)
    PROVE  result = "running"
BY DEF WorkerStep, Take, Leave, GetLogsTooMany, GetLogsOk, StoreLogs, SaveCheckpoint, Fails,
       VerdictInv, Busy

(* A worker's step, when the producer is inside the range.                 *)
LEMMA WithinWorker ==
    ASSUME TypeInv, WorkInv, Within, NEW w \in Worker, WorkerStep(w), result = "running"
    PROVE  Within'
<1>0. /\ TypeOK /\ cur \in Nat /\ first \in Nat /\ last \in Nat
      /\ worker \in [Worker -> WorkerState] /\ first <= cur
  BY DEF TypeInv, TypeOK, Within
<1>1. UNCHANGED <<first, last, result>> /\ \A v \in Worker \ {w} : worker'[v] = worker[v]
  BY <1>0 DEF WorkerStep, Take, Leave, GetLogsTooMany, GetLogsOk, StoreLogs, SaveCheckpoint,
              Fails, bounds, control
<1>2. ASSUME cur' \in Nat, cur <= cur', Covered' \subseteq first .. last,
             w \in Busy' => first <= worker'[w].current /\ worker'[w].to <= last
      PROVE  Within'
  <2>1. first <= cur'
    BY <1>0, <1>2
  <2>2. ASSUME NEW v \in Busy' PROVE first <= worker'[v].current /\ worker'[v].to <= last
    BY <1>1, <1>2, <2>2 DEF Within, Busy
  <2>3. first' = first /\ last' = last /\ result' = "running" /\ result' # "new"
    BY <1>1
  <2>4. Covered' \subseteq first' .. last'
    BY <1>2, <2>3
  <2> QED
    BY <2>1, <2>2, <2>3, <2>4 DEF Within
<1>3. CASE Take(w)
  <2>1. /\ JobEnd \in Nat /\ cur <= JobEnd /\ JobEnd <= last /\ cur' = JobEnd + 1
    BY <1>0, <1>3, JobInRange DEF Take
  <2>2. worker'[w].current = cur /\ worker'[w].to = JobEnd
    BY <1>0, <1>3 DEF Take
  <2>3. Covered' \subseteq first .. last
    BY <1>3 DEF Take, tables, Covered, Within
  <2> QED
    BY <1>0, <1>2, <2>1, <2>2, <2>3
<1>4. CASE Leave(w) \/ Fails(w)
  <2>1. cur' = cur /\ worker'[w].pc = "exited"
    BY <1>0, <1>4 DEF Leave, Fails, WorkerState
  <2>2. Covered' \subseteq first .. last
    BY <1>4 DEF Leave, Fails, tables, Covered, Within
  <2> QED
    BY <1>0, <1>2, <2>1, <2>2 DEF Busy
<1>5. CASE GetLogsTooMany(w) \/ GetLogsOk(w) \/ StoreLogs(w)
  <2>1. /\ cur' = cur /\ w \in Busy
        /\ worker'[w].current = worker[w].current /\ worker'[w].to = worker[w].to
    BY <1>0, <1>5 DEF GetLogsTooMany, GetLogsOk, StoreLogs, WorkerState, Busy
  <2>2. Covered' \subseteq first .. last
    BY <1>5 DEF GetLogsTooMany, GetLogsOk, StoreLogs, tables, Covered, Within
  <2> QED
    BY <1>0, <1>2, <2>1, <2>2 DEF Within
<1>6. CASE SaveCheckpoint(w)
  <2>1. w \in Busy /\ cur' = cur
    BY <1>6 DEF SaveCheckpoint, Busy
  <2>2. /\ ChunkEnd(w) \in Nat /\ worker[w].current \in Nat /\ worker[w].to \in Nat
        /\ worker[w].current <= ChunkEnd(w) /\ ChunkEnd(w) <= worker[w].to
    BY <1>0, <2>1, ChunkOfJob
  <2>3. worker'[w].current = ChunkEnd(w) + 1 /\ worker'[w].to = worker[w].to
    BY <1>0, <1>6 DEF SaveCheckpoint
  <2>4. first <= worker[w].current /\ worker[w].to <= last
    BY <2>1 DEF Within
  <2>5. Covered' \subseteq first .. last
    <3>1. Covered' = Covered \cup (worker[w].current .. ChunkEnd(w))
      BY <1>0, <1>6, WorkSave
    <3>2. worker[w].current .. ChunkEnd(w) \subseteq first .. last
      BY <1>0, <2>2, <2>4
    <3> QED
      BY <3>1, <3>2 DEF Within
  <2> QED
    BY <1>0, <1>2, <2>1, <2>2, <2>3, <2>4, <2>5
<1> QED
  BY <1>3, <1>4, <1>5, <1>6 DEF WorkerStep

(* Every step stays inside the range.                                      *)
LEMMA WithinStep ==
    TypeInv /\ TypeInv' /\ WorkInv /\ VerdictInv /\ Within /\ [Next]_vars => Within'
<1> SUFFICES ASSUME TypeInv, TypeInv', WorkInv, VerdictInv, Within, [Next]_vars PROVE Within'
  OBVIOUS
<1>1. CASE Begin
  <2>1. Busy' = {} /\ cur' = first' /\ result' # "new" /\ first' \in Nat
    BY <1>1 DEF Begin, TypeInv, TypeOK, Busy
  <2>2. Covered' = {}
    BY <1>1 DEF Begin, tables, WorkInv, Covered
  <2> QED
    BY <2>1, <2>2 DEF Within
<1>2. CASE HeadTooLow \/ HeadFails
  <2>1. UNCHANGED <<first, last>> /\ result' = "error" /\ Busy' = {}
    BY <1>2 DEF HeadTooLow, HeadFails, bounds, TypeInv, Busy
  <2>2. Covered' = Covered
    BY <1>2 DEF HeadTooLow, HeadFails, tables, Covered
  <2> QED
    BY <2>1, <2>2 DEF Within
<1>3. ASSUME NEW w \in Worker, WorkerStep(w) PROVE Within'
  <2>1. result = "running"
    BY <1>3, WorkerRuns
  <2> QED
    BY <1>3, <2>1, WithinWorker
<1>4. CASE Kill
  <2>1. UNCHANGED <<first, last>> /\ result' = "killed" /\ Busy' = {}
    BY <1>4 DEF Kill, bounds, Busy, Idle
  <2>2. Covered' = Covered
    BY <1>4 DEF Kill, tables, Covered
  <2> QED
    BY <2>1, <2>2 DEF Within
<1>5. CASE Produce \/ Return \/ Interrupt \/ UNCHANGED vars
  <2>1. UNCHANGED <<first, last, cur, worker>> /\ result' \in {result, "ok", "error"} /\ (result' = "new" => result = "new")
    BY <1>5 DEF Produce, Return, Interrupt, vars, bounds, control
  <2>2. Busy' = Busy
    BY <2>1 DEF Busy
  <2>3. Covered' = Covered
    BY <1>5 DEF Produce, Return, Interrupt, vars, tables, Covered
  <2> QED
    BY <2>1, <2>2, <2>3 DEF Within
<1> QED
  BY <1>1, <1>2, <1>3, <1>4, <1>5 DEF Next

(* What the caller sees of a worker's step.                                *)
LEMMA JobWorker ==
    ASSUME TypeInv, WorkInv, VerdictInv, Within, NEW w \in Worker, WorkerStep(w)
    PROVE  [Job!Next]_(Job!job)
<1>0. /\ TypeOK /\ result = "running" /\ worker \in [Worker -> WorkerState]
      /\ Covered \subseteq Nat
  BY WorkerRuns DEF TypeInv, TypeOK, Covered, Blocks
<1>1. UNCHANGED <<first, last, interrupted, result>>
  BY <1>0 DEF WorkerStep, Take, Leave, GetLogsTooMany, GetLogsOk, StoreLogs, SaveCheckpoint,
              Fails, bounds, control
<1>2. CASE StoreLogs(w)
  <2> DEFINE b == worker[w].current .. ChunkEnd(w)
  <2>1. w \in Busy /\ stored' = stored \cup b /\ checkpoints' = checkpoints
    BY <1>2 DEF StoreLogs, Busy
  <2>2. /\ ChunkEnd(w) \in Nat /\ worker[w].current \in Nat /\ worker[w].to \in Nat
        /\ worker[w].current <= ChunkEnd(w) /\ ChunkEnd(w) <= worker[w].to
    BY <1>0, <2>1, ChunkOfJob
  <2>3. b \subseteq (first .. last) \ Covered
    <3>1. b \subseteq Working(w) /\ Working(w) \cap Covered = {}
      BY <2>1, <2>2 DEF Working, WorkInv, Exclusive
    <3>2. first <= worker[w].current /\ worker[w].to <= last /\ first \in Nat /\ last \in Nat
      BY <1>0, <2>1 DEF Within, TypeOK
    <3> QED
      BY <2>2, <3>1, <3>2
  <2>4. worker[w].current \in b /\ ChunkEnd(w) \in b
    BY <2>2
  <2>5. b \in Job!Stretches((first .. last) \ Covered)
    BY <2>3, <2>4 DEF Job!Stretches
  <2>6. Covered' = Covered
    BY <2>1 DEF Covered
  <2> QED
    BY <1>0, <1>1, <2>1, <2>5, <2>6 DEF Job!Next, Job!Log
<1>3. CASE SaveCheckpoint(w)
  <2> DEFINE b == worker[w].current .. ChunkEnd(w)
  <2>1. w \in Busy /\ stored' = stored /\ worker[w].pc = "save"
    BY <1>3 DEF SaveCheckpoint, Busy
  <2>2. /\ ChunkEnd(w) \in Nat /\ worker[w].current \in Nat /\ worker[w].to \in Nat
        /\ worker[w].current <= ChunkEnd(w) /\ ChunkEnd(w) <= worker[w].to
    BY <1>0, <2>1, ChunkOfJob
  <2>3. b \subseteq stored \ Covered
    <3>1. b \subseteq Working(w) /\ Working(w) \cap Covered = {}
      BY <2>1, <2>2 DEF Working, WorkInv, Exclusive
    <3>2. b \subseteq stored
      BY <2>1 DEF WorkInv
    <3> QED
      BY <3>1, <3>2
  <2>4. worker[w].current \in b /\ ChunkEnd(w) \in b
    BY <2>2
  <2>5. b \in Job!Stretches(stored \ Covered)
    BY <2>3, <2>4 DEF Job!Stretches
  <2>6. Covered' = Covered \cup b
    BY <1>0, <1>3, WorkSave
  <2> QED
    BY <1>0, <1>1, <2>1, <2>5, <2>6 DEF Job!Next, Job!Index
<1>4. CASE ~StoreLogs(w) /\ ~SaveCheckpoint(w)
  <2>1. UNCHANGED <<stored, checkpoints>>
    BY <1>4 DEF WorkerStep, Take, Leave, GetLogsTooMany, GetLogsOk, Fails, tables
  <2>2. Covered' = Covered
    BY <2>1 DEF Covered
  <2> QED
    BY <1>1, <2>1, <2>2 DEF Job!job
<1> QED
  BY <1>2, <1>3, <1>4

(* Every step of the backfill is a step of the job, or none of it.         *)
LEMMA JobStep ==
    ASSUME TypeInv, WorkInv, VerdictInv, VerdictInv', Within, [Next]_vars
    PROVE  [Job!Next]_(Job!job)
<1>1. CASE Begin
  <2>1. PICK from \in Froms, to \in Tos \cup {n \in {head - Confirmations} : head > Confirmations} :
             /\ first' = from /\ last' = to
             /\ IF to < from THEN result' = "ok" ELSE result' = "running"
    BY <1>1 DEF Begin
  <2>2. /\ result = "new" /\ UNCHANGED <<stored, checkpoints, interrupted>>
    BY <1>1 DEF Begin, tables
  <2>3. from \in Nat /\ to \in Nat /\ to + 1 < Word
    <3>1. head \in Nat /\ head + ChunkSize < Word /\ head \in Heads /\ Confirmations \in Nat
      BY SmallAssumption, BackfillAssumption DEF TypeInv, TypeOK
    <3>2. CASE to \in Tos
      BY <3>2, SmallAssumption, BackfillAssumption, WordAssumption
    <3>3. CASE to = head - Confirmations /\ head > Confirmations
      BY <3>1, <3>3, BackfillAssumption, WordAssumption
    <3> QED
      BY <3>2, <3>3
  <2>4. CASE to < from
    <3>1. first' .. last' = 1 .. 0 /\ first' .. last' = {}
      BY <2>1, <2>3, <2>4
    <3>2. 0 \in 0 .. Word - 1 /\ 1 \in 0 .. Word - 1
      BY <2>3, WordAssumption
    <3> QED
      BY <2>1, <2>2, <2>4, <3>1, <3>2 DEF Job!Next, Job!Ask, Covered
  <2>5. CASE ~(to < from)
    <3>1. from \in first' .. last'
      BY <2>1, <2>3, <2>5
    <3>2. from \in 0 .. Word - 1 /\ to \in 0 .. Word - 1
      BY <2>3, <2>5, WordAssumption
    <3> QED
      BY <2>1, <2>2, <2>5, <3>1, <3>2 DEF Job!Next, Job!Ask, Covered
  <2> QED
    BY <2>4, <2>5
<1>2. CASE HeadTooLow \/ HeadFails
  <2>1. UNCHANGED <<stored, checkpoints, first, last, interrupted>> /\ result = "new" /\ result' = "error"
    BY <1>2 DEF HeadTooLow, HeadFails, tables, bounds
  <2> QED
    BY <2>1 DEF Job!Next, Job!Refuse, Covered
<1>3. ASSUME NEW w \in Worker, WorkerStep(w) PROVE [Job!Next]_(Job!job)
  BY <1>3, JobWorker
<1>4. CASE Return
  <2>1. /\ UNCHANGED <<stored, checkpoints, first, last, interrupted>> /\ result = "running"
        /\ result' \in {"ok", "error"}
    BY <1>4 DEF Return, tables, bounds
  <2>2. result' = "ok" => Covered = first .. last \/ interrupted
    <3>1. Covered' = Covered
      BY <2>1 DEF Covered
    <3>2. result' = "ok" => first .. last \subseteq Covered \/ interrupted
      BY <2>1, <3>1 DEF VerdictInv, SuccessIsComplete
    <3> QED
      BY <3>2 DEF Within
  <2> QED
    BY <2>1, <2>2 DEF Job!Next, Job!Finish, Covered
<1>5. CASE Interrupt
  <2>1. UNCHANGED <<stored, checkpoints, first, last, result>> /\ result = "running" /\ interrupted'
    BY <1>5 DEF Interrupt, tables, bounds
  <2>2. interrupted' = TRUE
    BY <1>5 DEF Interrupt
  <2> QED
    BY <2>1, <2>2 DEF Job!Next, Job!Signal, Covered
<1>6. CASE Kill
  <2>1. UNCHANGED <<stored, checkpoints, first, last, interrupted>> /\ result = "running" /\ result' = "killed"
    BY <1>6 DEF Kill, tables, bounds
  <2> QED
    BY <2>1 DEF Job!Next, Job!Finish, Covered
<1>7. CASE Produce \/ UNCHANGED vars
  <2>1. UNCHANGED <<stored, checkpoints, first, last, interrupted, result>>
    BY <1>7 DEF Produce, vars, tables, bounds, control
  <2> QED
    BY <2>1 DEF Job!job, Covered
<1> QED
  BY <1>1, <1>2, <1>3, <1>4, <1>5, <1>6, <1>7 DEF Next

(* The backfill implements the job: whatever its workers do, its caller    *)
(* sees stretches of logs and checkpoints of blocks that were asked for,   *)
(* in that order, none of them twice, and none after the verdict.          *)
THEOREM JobImplemented == Spec => ImplementsJob
<1>1. Init => Job!Init /\ Within
  <2> SUFFICES ASSUME Init PROVE Job!Init /\ Within
    OBVIOUS
  <2>1. Busy = {}
    BY DEF Init, Busy, Idle
  <2>2. Covered = {} /\ first .. last = {}
    BY DEF Init, Covered
  <2> QED
    BY <2>1, <2>2 DEF Init, Job!Init, Within
<1>2. TypeInv /\ WorkInv /\ VerdictInv /\ VerdictInv' /\ Within /\ [Next]_vars
         => [Job!Next]_(Job!job)
  BY JobStep
<1> QED
  BY <1>1, <1>2, WithinStep, VerdictInit, VerdictStep, WorkInit, WorkStep, TypeInit, TypeStep, PTL
     DEF Spec, ImplementsJob, Job!Spec
=============================================================================
