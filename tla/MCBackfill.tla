----------------------------- MODULE MCBackfill -----------------------------
(***************************************************************************)
(* Instances of Backfill for TLC.                                          *)
(***************************************************************************)
EXTENDS Backfill

CONSTANTS w1, w2
=============================================================================
