----------------------------- MODULE MCTracker -----------------------------
(***************************************************************************)
(* Instances of Tracker for TLC.  t1 and t2 have the same sender and       *)
(* nonce, t3 has another.                                                  *)
(***************************************************************************)
EXTENDS Tracker, TLC

CONSTANTS t1, t2, t3, s1, s2, f1, f2, r1, r2

MCSlotOf == [h \in Tx |-> IF h = t3 THEN s2 ELSE s1]

Symmetry == Permutations(FetchWorker) \cup Permutations(ReceiptWorker)
=============================================================================
