------------------------------ MODULE LogStore ------------------------------
(***************************************************************************)
(* The logs and checkpoints tables of internal/store as pure operators on  *)
(* sets of rows.  A row of logs has a key (its primary key), the block it  *)
(* was found in and the block whose timestamp it carries; a checkpoint has *)
(* its first and last block number and the block stored as its hash.  The  *)
(* height of a block is the length of its path (module Chain).             *)
(***************************************************************************)
EXTENDS Naturals, Sequences

Height(row) == Len(row.block)

(* INSERT ... ON CONFLICT(chain_id, tx_hash, log_index) DO NOTHING, in one *)
(* transaction.                                                            *)
InsertLogs(table, rows) ==
    table \cup {r \in rows : \A old \in table : old.key # r.key}

(* ORDER BY end_block DESC LIMIT 1: the rows the query may return, none    *)
(* when the table is empty.                                                *)
LastCheckpoint(cps) ==
    {cp \in cps : \A other \in cps : other.end <= cp.end}

CheckpointBefore(cps, block) ==
    LastCheckpoint({cp \in cps : cp.end < block})

(* The two statements of RollbackFrom.                                     *)
DeleteLogsAbove(table, from) == {r \in table : Height(r) <= from}

DeleteLogsFrom(table, from) == {r \in table : Height(r) < from}

DeleteCheckpointsAbove(cps, from) == {cp \in cps : cp.start <= from}

DeleteCheckpointsFrom(cps, from) == {cp \in cps : cp.start < from}
=============================================================================
