----------------------------- MODULE FollowIdle -----------------------------
(***************************************************************************)
(* The follower after a backfill, in an environment in which its rollback  *)
(* is all that a reorganisation calls for: the network reorganises only    *)
(* while the process sleeps between two polls or is down, and abandons     *)
(* neither a block of a checkpoint that another one follows nor a block    *)
(* with stored rows before the first or after the last checkpoint, where   *)
(* nothing ever compares a hash; the process dies anywhere but between the *)
(* two deletes of a rollback.                                              *)
(***************************************************************************)
EXTENDS Follow

(* The chains on which a backfill may have run, and the chunks it may have *)
(* made.                                                                   *)
Backfills(Chains, Ranges) ==
    /\ Chains \subseteq Seq(Bodies)
    /\ \A c \in Chains : \A i, j \in 1..Len(c) : i # j => c[i].logs \cap c[j].logs = {}
    /\ Ranges \subseteq [start : Nat, end : Nat]
    /\ \A r \in Ranges : r.start <= r.end

(* A chunk that processRangeAdaptive gets as far as storing.               *)
Storable(r) ==
    /\ r.end <= Len(chain)
    /\ Cardinality(LogsBetween(chain, r.start, r.end)) <= ResultLimit
    /\ \A row \in LogsBetween(chain, r.start, r.end) : row.key \notin Undecodable

(* The tables that a backfill leaves of a chain that does not change while *)
(* it runs: the rows of the chunks it stored, and the checkpoints of those *)
(* it also saved.  A worker that fails, is cancelled or dies in between    *)
(* leaves rows without a checkpoint, anywhere among the others.            *)
BackfilledInit(Chains, Ranges) ==
    /\ chain \in Chains /\ final = 0 /\ reorgs = 0
    /\ \E stored \in SUBSET {r \in Ranges : Storable(r)} : \E saved \in SUBSET stored :
          /\ checkpoints = {[start |-> r.start, end |-> r.end,
                             block |-> BlockAt(chain, r.end)] : r \in saved}
          /\ logs = {Stamped(row) : row \in
                        UNION {LogsBetween(chain, r.start, r.end) : r \in stored}}
    /\ Disjoint
    /\ pc = "boot" /\ next = 0 /\ target = 0
    /\ chunker = FreshChunker
    /\ fetched = {} /\ records = {}
    /\ faults = 0

Asleep == pc \in {"boot", "detect"}

Followed(cp) == \E other \in checkpoints : cp.end < other.start

(* A block number in a checkpointed range or in a gap between two.         *)
Watched(n) == \E first, last \in checkpoints : first.start <= n /\ n <= last.end

ShallowReorg ==
    /\ Asleep
    /\ \E keep \in 0..Len(chain) :
          /\ \A cp \in checkpoints : Followed(cp) => cp.end <= keep
          /\ \A r \in logs : Watched(Height(r)) \/ Height(r) <= keep
          /\ ReorgTo(keep)

IdleNext ==
    \/ Step
    \/ HeadFails
    \/ Crash /\ pc # "rollbackCheckpoints"
    \/ (Mine \/ ShallowReorg) /\ UNCHANGED <<store, process, faults>>
=============================================================================
