---------------------------- MODULE ChainProofs ----------------------------
(***************************************************************************)
(* Facts about blocks as paths, and about what getLogs answers.            *)
(***************************************************************************)
EXTENDS Chain, TLAPS

(* The block at a height of a chain is a path of that length.              *)
LEMMA BlockAtType ==
    ASSUME NEW c \in Seq(Bodies), NEW n \in 0..Len(c)
    PROVE  /\ BlockAt(c, n) \in Seq(Bodies)
           /\ Len(BlockAt(c, n)) = n
           /\ \A i \in 1..n : BlockAt(c, n)[i] = c[i]
BY DEF BlockAt

(* Appending a block changes none of the blocks below it.                  *)
LEMMA BlockAtAppend ==
    ASSUME NEW c \in Seq(Bodies), NEW body \in Bodies, NEW n \in 0..Len(c)
    PROVE  BlockAt(Append(c, body), n) = BlockAt(c, n)
BY DEF BlockAt

(* Truncating the chain changes none of the blocks it keeps.               *)
LEMMA BlockAtPrefix ==
    ASSUME NEW c \in Seq(Bodies), NEW k \in 0..Len(c), NEW n \in 0..k
    PROVE  BlockAt(BlockAt(c, k), n) = BlockAt(c, n)
BY DEF BlockAt

(* Every log that getLogs returns is in a block of the asked range of the  *)
(* chain that answered.                                                    *)
LEMMA LogsBetweenType ==
    ASSUME NEW c \in Seq(Bodies), NEW from \in Nat, NEW to \in Nat,
           NEW row \in LogsBetween(c, from, to)
    PROVE  /\ row \in [key : Key, block : Seq(Bodies)]
           /\ Len(row.block) \in 1..Len(c)
           /\ from <= Len(row.block) /\ Len(row.block) <= to
           /\ row.block = BlockAt(c, Len(row.block))
           /\ row.key \in c[Len(row.block)].logs
<1>1. PICK n \in 1..Len(c) : /\ from <= n /\ n <= to
                             /\ row \in [key : c[n].logs, block : {BlockAt(c, n)}]
  BY DEF LogsBetween
<1>2. /\ row.block = BlockAt(c, n) /\ row.key \in c[n].logs
      /\ row = [key |-> row.key, block |-> row.block]
  BY <1>1
<1>3. c[n] \in Bodies
  OBVIOUS
<1>4. row.key \in Key
  BY <1>2, <1>3, ChainAssumption
<1>5. BlockAt(c, n) \in Seq(Bodies) /\ Len(BlockAt(c, n)) = n
  BY BlockAtType
<1> QED
  BY <1>1, <1>2, <1>4, <1>5

(* Which logs a range of blocks holds is a matter of the blocks up to its  *)
(* end alone.                                                              *)
LEMMA LogsBetweenPrefix ==
    ASSUME NEW c \in Seq(Bodies), NEW from \in Nat, NEW to \in 0..Len(c)
    PROVE  LogsBetween(BlockAt(c, to), from, to) = LogsBetween(c, from, to)
<1>1. Len(BlockAt(c, to)) = to /\ \A i \in 1..to : BlockAt(c, to)[i] = c[i]
  BY BlockAtType
<1>2. {m \in 1..to : from <= m /\ m <= to} = {m \in 1..Len(c) : from <= m /\ m <= to}
  OBVIOUS
<1>3. \A n \in {m \in 1..to : from <= m /\ m <= to} :
         BlockAt(c, to)[n] = c[n] /\ BlockAt(BlockAt(c, to), n) = BlockAt(c, n)
  BY <1>1, BlockAtPrefix
<1> QED
  BY <1>1, <1>2, <1>3 DEF LogsBetween

-----------------------------------------------------------------------------
ChainType ==
    /\ chain \in Seq(Bodies)
    /\ final \in Nat
    /\ reorgs \in Nat

(* A step of the network keeps the types of its state.                     *)
LEMMA NetworkType ==
    ASSUME ChainType, Mine \/ Reorg
    PROVE  ChainType'
<1>1. CASE Mine
  BY <1>1, ChainAssumption DEF Mine, ChainType, Higher
<1>2. CASE Reorg
  <2>1. PICK keep \in 0..Len(chain) : ReorgTo(keep)
    BY <1>2 DEF Reorg
  <2>2. chain' \in Seq(Bodies)
    BY <2>1, BlockAtType DEF ReorgTo, ChainType
  <2> QED
    BY <2>1, <2>2 DEF ReorgTo, ChainType
<1> QED
  BY <1>1, <1>2

(* Finality: the final part is on the chain, and everything deep enough is *)
(* final.                                                                  *)
Finality ==
    /\ final <= Len(chain)
    /\ Len(chain) - FinalityDepth <= final

(* A step of the network keeps the final height where finality puts it.    *)
LEMMA NetworkFinality ==
    ASSUME ChainType, Finality, Mine \/ Reorg
    PROVE  Finality' /\ final <= final'
<1>1. CASE Mine
  BY <1>1, ChainAssumption DEF Mine, ChainType, Finality, Higher
<1>2. CASE Reorg
  <2>1. PICK keep \in 0..Len(chain) : ReorgTo(keep)
    BY <1>2 DEF Reorg
  <2>2. Len(chain') = keep
    BY <2>1, BlockAtType DEF ReorgTo, ChainType
  <2> QED
    BY <2>1, <2>2, ChainAssumption DEF ReorgTo, ChainType, Finality
<1> QED
  BY <1>1, <1>2

(* A block at or below the final height keeps its place.                   *)
LEMMA FinalBlocksStay ==
    ASSUME ChainType, Finality, Mine \/ Reorg, NEW n \in 0..final
    PROVE  BlockAt(chain', n) = BlockAt(chain, n)
<1>1. CASE Mine
  BY <1>1, BlockAtAppend DEF Mine, ChainType, Finality
<1>2. CASE Reorg
  <2>1. PICK keep \in 0..Len(chain) : ReorgTo(keep)
    BY <1>2 DEF Reorg
  <2>2. chain' = BlockAt(chain, keep) /\ n \in 0..keep
    BY <2>1 DEF ReorgTo, ChainType, Finality
  <2> QED
    BY <2>2, BlockAtPrefix DEF ChainType
<1> QED
  BY <1>1, <1>2

(* So do its logs, and what getLogs answers for a final range.             *)
LEMMA FinalBodiesStay ==
    ASSUME ChainType, Finality, Mine \/ Reorg, NEW n \in 1..final
    PROVE  chain'[n] = chain[n]
<1>1. CASE Mine
  BY <1>1 DEF Mine, ChainType, Finality
<1>2. CASE Reorg
  <2>1. PICK keep \in 0..Len(chain) : ReorgTo(keep)
    BY <1>2 DEF Reorg
  <2>2. chain' = BlockAt(chain, keep) /\ n \in 1..keep
    BY <2>1 DEF ReorgTo, ChainType, Finality
  <2> QED
    BY <2>2, BlockAtType DEF ChainType
<1> QED
  BY <1>1, <1>2

(* The logs of a final range are the same before and after a network step. *)
LEMMA FinalLogsStay ==
    ASSUME ChainType, Finality, Mine \/ Reorg,
           NEW from \in Nat, NEW to \in Nat, to <= final
    PROVE  LogsBetween(chain', from, to) = LogsBetween(chain, from, to)
<1>1. final <= Len(chain) /\ final <= Len(chain')
  BY NetworkFinality, NetworkType DEF Finality, ChainType
<1>2. {m \in 1..Len(chain) : from <= m /\ m <= to}
      = {m \in 1..Len(chain') : from <= m /\ m <= to}
  BY <1>1, NetworkType DEF ChainType
<1>3. \A n \in {m \in 1..Len(chain) : from <= m /\ m <= to} :
         chain'[n] = chain[n] /\ BlockAt(chain', n) = BlockAt(chain, n)
  BY FinalBodiesStay, FinalBlocksStay DEF ChainType
<1> QED
  BY <1>2, <1>3 DEF LogsBetween

(* A transaction is on a chain at most once.                               *)
KeysOnce ==
    \A i, j \in 1..Len(chain) : i # j => chain[i].logs \cap chain[j].logs = {}

(* A network step includes no transaction twice.                           *)
LEMMA NetworkKeysOnce ==
    ASSUME ChainType, KeysOnce, Mine \/ Reorg
    PROVE  KeysOnce'
<1>1. CASE Mine
  <2>1. PICK body \in Bodies :
           body.logs \cap KeysOn(chain) = {} /\ chain' = Append(chain, body)
    BY <1>1 DEF Mine
  <2>2. \A i \in 1..Len(chain) : chain[i].logs \cap body.logs = {}
    BY <2>1 DEF KeysOn
  <2>3. /\ Len(chain') = Len(chain) + 1 /\ chain'[Len(chain) + 1] = body
        /\ \A i \in 1..Len(chain) : chain'[i] = chain[i]
    BY <2>1 DEF ChainType
  <2> QED
    BY <2>2, <2>3 DEF KeysOnce, ChainType
<1>2. CASE Reorg
  <2>1. PICK keep \in 0..Len(chain) : chain' = BlockAt(chain, keep)
    BY <1>2 DEF Reorg, ReorgTo
  <2>2. Len(chain') = keep /\ \A i \in 1..keep : chain'[i] = chain[i]
    BY <2>1, BlockAtType DEF ChainType
  <2>3. 1..keep \subseteq 1..Len(chain)
    BY DEF ChainType
  <2> QED
    BY <2>2, <2>3 DEF KeysOnce
<1> QED
  BY <1>1, <1>2
=============================================================================
