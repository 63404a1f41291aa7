------------------------------ MODULE Chunker ------------------------------
(***************************************************************************)
(* The adaptive chunk size of internal/extract/chunker.go: how many blocks *)
(* one eth_getLogs request covers.  A chunker is a record of its bounds    *)
(* and its current size.  Sizes are uint64 in the program: Word is the     *)
(* number of values of that type (2^64 in the build) and the one addition  *)
(* that can exceed it wraps around.                                        *)
(***************************************************************************)
EXTENDS Naturals

CONSTANT Word

ASSUME WordAssumption == Word \in Nat \ {0}

Lesser(a, b) == IF a < b THEN a ELSE b
Greater(a, b) == IF a < b THEN b ELSE a

(* NewChunker repairs its arguments: a zero min becomes 1, a max below min *)
(* becomes min, and the start is clamped between the two.                  *)
NewChunker(min, max, start) ==
    LET lo == Greater(min, 1)
        hi == Greater(max, lo)
    IN  [min |-> lo, max |-> hi, current |-> Lesser(Greater(start, lo), hi)]

(* OnError halves the size, never below min.                               *)
OnErrorUnclamped(c) == [c EXCEPT !.current = @ \div 2]

OnErrorStuck(c) == c

OnError(c) ==
    IF c.current <= c.min
    THEN c
    ELSE [c EXCEPT !.current = Greater(@ \div 2, c.min)]

(* OnSuccess grows the size by a tenth and one, never above max.           *)
OnSuccessByTenth(c) ==
    IF c.current >= c.max
    THEN c
    ELSE [c EXCEPT !.current = Lesser((@ + @ \div 10) % Word, c.max)]

OnSuccess(c) ==
    IF c.current >= c.max
    THEN c
    ELSE [c EXCEPT !.current = Lesser((@ + @ \div 10 + 1) % Word, c.max)]

(* The sizes for which the addition of OnSuccess cannot wrap around.       *)
FitsWord(max) == max + max \div 10 + 1 < Word

Chunkers == [min : Nat, max : Nat, current : Nat]

(* What every chunker of the program satisfies: the bounds are in order    *)
(* and the size is between them and never 0, so that a range always        *)
(* advances.                                                               *)
InBounds(c) ==
    /\ 1 <= c.min
    /\ c.min <= c.current
    /\ c.current <= c.max
=============================================================================
