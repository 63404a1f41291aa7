------------------------------- MODULE Chain -------------------------------
(***************************************************************************)
(* The blockchain as the indexer observes it through its JSON-RPC node: an *)
(* environment, not code of the repository.  A block is identified by its  *)
(* hash, and a hash commits to every ancestor; here a block IS the         *)
(* sequence of bodies from the first block up to it, so that two blocks    *)
(* are equal exactly when their hashes are.  Block 0 is the empty path.    *)
(*                                                                         *)
(* A body is what one block adds: the logs (named by the primary key of    *)
(* the logs table, transaction and log index) that the indexer's filter    *)
(* selects, and a salt that makes two blocks with the same logs differ.    *)
(***************************************************************************)
EXTENDS Integers, Sequences

CONSTANTS
    Key,            \* log identities (chain_id, tx_hash, log_index)
    Bodies,         \* block bodies the network may append
    FinalityDepth,  \* a block with this many successors is never replaced
    MaxHeight,      \* bound: height of the chain
    MaxReorgs       \* bound: number of reorganisations

ASSUME ChainAssumption ==
    /\ \A b \in Bodies : b.logs \subseteq Key
    /\ FinalityDepth \in Nat
    /\ MaxHeight \in Nat
    /\ MaxReorgs \in Nat

VARIABLES
    chain,          \* the canonical chain, a sequence of bodies
    final,          \* height up to which no reorganisation reaches
    reorgs          \* reorganisations so far

chainVars == <<chain, final, reorgs>>

Higher(a, b) == IF a < b THEN b ELSE a

BlockAt(c, n) == SubSeq(c, 1, n)

OnChain(b) == Len(b) <= Len(chain) /\ b = BlockAt(chain, Len(b))

KeysOn(c) == UNION {c[n].logs : n \in 1..Len(c)}

(* What eth_getLogs answers for a range of block numbers: the logs of the  *)
(* blocks that are canonical now, each with the block that holds it.       *)
LogsBetween(c, from, to) ==
    UNION {[key : c[n].logs, block : {BlockAt(c, n)}] :
              n \in {m \in 1..Len(c) : from <= m /\ m <= to}}

ChainInit ==
    /\ chain = <<>>
    /\ final = 0
    /\ reorgs = 0

(* The network appends a block.  A transaction is included at most once on *)
(* a chain.                                                                *)
Mine ==
    /\ Len(chain) < MaxHeight
    /\ \E b \in Bodies :
          /\ b.logs \cap KeysOn(chain) = {}
          /\ chain' = Append(chain, b)
    /\ final' = Higher(final, Len(chain) + 1 - FinalityDepth)
    /\ UNCHANGED reorgs

(* The node abandons the blocks above height keep; the blocks of the new   *)
(* branch arrive with Mine.                                                *)
ReorgTo(keep) ==
    /\ reorgs < MaxReorgs
    /\ final <= keep /\ keep < Len(chain)
    /\ chain' = BlockAt(chain, keep)
    /\ reorgs' = reorgs + 1
    /\ UNCHANGED final

Reorg == \E keep \in 0..Len(chain) : ReorgTo(keep)
=============================================================================
