---------------------------- MODULE ChunkerProofs ----------------------------
(***************************************************************************)
(* What the chunk size guarantees its callers, for every configuration.    *)
(***************************************************************************)
EXTENDS Chunker, TLAPS

(* Adding within the word is the addition of natural numbers.              *)
LEMMA NoWrap ==
    ASSUME NEW x \in Nat, x < Word
    PROVE  x % Word = x
BY WordAssumption

(* NewChunker repairs every combination of configured sizes.               *)
THEOREM NewChunkerInBounds ==
    ASSUME NEW min \in Nat, NEW max \in Nat, NEW start \in Nat
    PROVE  /\ NewChunker(min, max, start) \in Chunkers
           /\ InBounds(NewChunker(min, max, start))
BY DEF NewChunker, Chunkers, InBounds, Greater, Lesser

(* Shrinking keeps the size between the bounds, and the bounds.            *)
THEOREM OnErrorInBounds ==
    ASSUME NEW c \in Chunkers, InBounds(c)
    PROVE  /\ OnError(c) \in Chunkers
           /\ InBounds(OnError(c))
           /\ OnError(c).max = c.max
BY DEF OnError, Chunkers, InBounds, Greater

(* Growing keeps the size between the bounds, if the sum cannot wrap.      *)
THEOREM OnSuccessInBounds ==
    ASSUME NEW c \in Chunkers, InBounds(c), FitsWord(c.max)
    PROVE  /\ OnSuccess(c) \in Chunkers
           /\ InBounds(OnSuccess(c))
           /\ OnSuccess(c).max = c.max
<1> DEFINE sum == c.current + c.current \div 10 + 1
<1>1. CASE c.current >= c.max
  BY <1>1 DEF OnSuccess
<1>2. CASE c.current < c.max
  <2>1. sum \in Nat /\ c.current < sum /\ sum < Word
    BY <1>2, WordAssumption DEF Chunkers, FitsWord
  <2>2. sum % Word = sum
    BY <2>1, NoWrap
  <2>3. OnSuccess(c) = [c EXCEPT !.current = Lesser(sum, c.max)]
    BY <1>2, <2>2 DEF OnSuccess, Chunkers
  <2> QED
    BY <1>2, <2>1, <2>3 DEF Chunkers, InBounds, Lesser
<1> QED
  BY <1>1, <1>2 DEF Chunkers

(* A chunk that can shrink does: repeated ErrTooManyResults answers reach  *)
(* the smallest size, and there the size stops changing.                   *)
THEOREM OnErrorShrinks ==
    ASSUME NEW c \in Chunkers, InBounds(c)
    PROVE  IF c.current = c.min THEN OnError(c) = c
                                ELSE OnError(c).current < c.current
BY DEF OnError, Chunkers, InBounds, Greater

(* A chunk below its maximum grows with every success.                     *)
THEOREM OnSuccessGrows ==
    ASSUME NEW c \in Chunkers, InBounds(c), FitsWord(c.max)
    PROVE  IF c.current = c.max THEN OnSuccess(c) = c
                                ELSE OnSuccess(c).current > c.current
<1> DEFINE sum == c.current + c.current \div 10 + 1
<1>1. CASE c.current = c.max
  BY <1>1 DEF OnSuccess, Chunkers
<1>2. CASE c.current # c.max
  <2>1. sum \in Nat /\ c.current < sum /\ sum < Word
    BY <1>2, WordAssumption DEF Chunkers, FitsWord, InBounds
  <2>2. sum % Word = sum
    BY <2>1, NoWrap
  <2> QED
    BY <1>2, <2>1, <2>2 DEF OnSuccess, Lesser, Chunkers, InBounds
<1> QED
  BY <1>1, <1>2
=============================================================================
