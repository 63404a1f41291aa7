------------------------------ MODULE LogFeed ------------------------------
(***************************************************************************)
(* What a consumer of the logs table is promised: the final part of the    *)
(* chain only grows, and the feed publishes its logs in the order of the   *)
(* blocks, whole blocks at a time, each log once, and never changes or     *)
(* withdraws what it has published.                                        *)
(***************************************************************************)
EXTENDS Integers, Sequences

CONSTANTS Bodies, StartBlock

VARIABLES
    history,    \* the final chain
    published,  \* rows visible up to the horizon
    horizon     \* last block of which every log is published

RowsOf(c, from, to) ==
    UNION {[key : c[n].logs, block : {SubSeq(c, 1, n)}, stamp : {SubSeq(c, 1, n)}] :
              n \in {m \in 1..Len(c) : from <= m /\ m <= to}}

Init ==
    /\ history = <<>>
    /\ published = {}
    /\ horizon = StartBlock - 1

Finalize ==
    /\ \E body \in Bodies : history' = Append(history, body)
    /\ UNCHANGED <<published, horizon>>

Publish ==
    /\ \E to \in horizon + 1 .. Len(history) :
          /\ horizon' = to
          /\ published' = published \cup RowsOf(history, horizon + 1, to)
    /\ UNCHANGED history

Next == Finalize \/ Publish

Spec == Init /\ [][Next]_<<history, published, horizon>>
=============================================================================
