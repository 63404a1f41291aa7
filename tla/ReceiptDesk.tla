---------------------------- MODULE ReceiptDesk ----------------------------
(***************************************************************************)
(* What the receipt workers of the mempool tracker amount to, without      *)
(* goroutines, channels and locks: a desk with room for Limit hashes.  A   *)
(* hash is admitted once, waits, is asked for by one worker, and leaves;   *)
(* no hash that waits is forgotten.  A row becomes mined only while its    *)
(* hash is being asked for and after the node was seen to have it in a     *)
(* block, and this is also the only way, short of a restart, in which the  *)
(* tracker ceases to know a transaction.                                   *)
(***************************************************************************)
EXTENDS Naturals, FiniteSets

CONSTANTS Tx, Limit

VARIABLES
    blocks,     \* transactions on the chain
    tracked,    \* transactions the tracker knows
    waiting,    \* hashes admitted and not yet asked for
    asking,     \* hashes asked for
    seen,       \* those of them that were seen in a block, and not yet settled
    mined       \* transactions whose row says mined

desk == <<blocks, tracked, waiting, asking, seen, mined>>

Init ==
    /\ blocks = {} /\ tracked = {}
    /\ waiting = {} /\ asking = {} /\ seen = {}
    /\ mined = {}

Chain ==
    /\ blocks' \in SUBSET Tx
    /\ UNCHANGED <<tracked, waiting, asking, seen, mined>>

Track(h) ==
    /\ tracked' = tracked \cup {h}
    /\ UNCHANGED <<blocks, waiting, asking, seen, mined>>

Admit(h) ==
    /\ h \notin waiting \cup asking
    /\ Cardinality(waiting \cup asking) < Limit
    /\ waiting' = waiting \cup {h}
    /\ UNCHANGED <<blocks, tracked, asking, seen, mined>>

Ask(h) ==
    /\ h \in waiting
    /\ waiting' = waiting \ {h}
    /\ asking' = asking \cup {h}
    /\ UNCHANGED <<blocks, tracked, seen, mined>>

See(h) ==
    /\ h \in asking /\ h \in blocks
    /\ seen' = seen \cup {h}
    /\ UNCHANGED <<blocks, tracked, waiting, asking, mined>>

Mark(h) ==
    /\ h \in seen
    /\ mined' = mined \cup {h}
    /\ UNCHANGED <<blocks, tracked, waiting, asking, seen>>

(* A failure leaves the transaction tracked.                               *)
Settle(h) ==
    /\ h \in seen
    /\ seen' = seen \ {h}
    /\ tracked' \in {tracked, tracked \ {h}}
    /\ UNCHANGED <<blocks, waiting, asking, mined>>

Leave(h) ==
    /\ h \in asking \ seen
    /\ asking' = asking \ {h}
    /\ UNCHANGED <<blocks, tracked, waiting, seen, mined>>

(* Others write other statuses over the row.                               *)
Overwrite ==
    /\ mined' \in SUBSET mined
    /\ UNCHANGED <<blocks, tracked, waiting, asking, seen>>

Restart ==
    /\ tracked' = {} /\ waiting' = {} /\ asking' = {} /\ seen' = {}
    /\ UNCHANGED <<blocks, mined>>

Next ==
    \/ Chain \/ Overwrite \/ Restart
    \/ \E h \in Tx : Track(h) \/ Admit(h) \/ Ask(h) \/ See(h) \/ Mark(h) \/ Settle(h) \/ Leave(h)

Spec == Init /\ [][Next]_desk
=============================================================================
