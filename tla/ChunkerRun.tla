----------------------------- MODULE ChunkerRun -----------------------------
(***************************************************************************)
(* The life of one Chunker in processRangeAdaptive: a request the node     *)
(* rejects with ErrTooManyResults calls OnError, a chunk that is stored    *)
(* calls OnSuccess.  The history of the current streak of equal answers is *)
(* kept to say how fast the size adapts.                                   *)
(***************************************************************************)
EXTENDS Chunker

CONSTANTS
    MaxScale,   \* bound: rejections in a row, as the power of 2
    MaxStored   \* bound: stored chunks in a row

ASSUME StreakAssumption == {MaxScale, MaxStored} \subseteq Nat

VARIABLES
    chunker,
    from,       \* size before the first answer of the streak
    scale,      \* 2 to the number of rejections in a row
    stored      \* stored chunks in a row

chunkerVars == <<chunker, from, scale, stored>>

Begin(min, max, start) ==
    /\ chunker' = NewChunker(min, max, start)
    /\ from' = NewChunker(min, max, start).current
    /\ scale' = 1 /\ stored' = 0

TooManyResults ==
    /\ scale < MaxScale
    /\ chunker' = OnError(chunker)
    /\ from' = IF scale = 1 THEN chunker.current ELSE from
    /\ scale' = 2 * scale /\ stored' = 0

ChunkStored ==
    /\ stored < MaxStored
    /\ chunker' = OnSuccess(chunker)
    /\ from' = IF stored = 0 THEN chunker.current ELSE from
    /\ stored' = stored + 1 /\ scale' = 1

Answer == TooManyResults \/ ChunkStored
-----------------------------------------------------------------------------
(* Whatever the configuration and the answers, the size stays between the  *)
(* bounds and is never 0, so a range always advances (chunker.go:9-50,     *)
(* extract.go:66-71 and 107).                                              *)
StaysInBounds == InBounds(chunker)

(* n rejections in a row divide the size by 2^n, down to min: a request    *)
(* that is too large is repeated a logarithmic number of times             *)
(* (chunker.go:29-38).                                                     *)
Halves == scale > 1 =>
    chunker.current = chunker.min \/ chunker.current * scale <= from

(* n stored chunks in a row add at least n, up to max: a chunker that was  *)
(* pushed down to a size below 10 does not stay there (chunker.go:40-50,   *)
(* chunker_test.go:18-24).                                                 *)
GrowsBack == stored > 0 =>
    chunker.current = chunker.max \/ chunker.current >= from + stored
=============================================================================
