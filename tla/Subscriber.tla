----------------------------- MODULE Subscriber -----------------------------
(***************************************************************************)
(* The WebSocket subscriber of internal/mempool/subscriber.go with the two *)
(* channels it fills and the loop of service.go that empties them.         *)
(*                                                                         *)
(* On one connection the node answers the two eth_subscribe requests and   *)
(* pushes notifications for the subscriptions it has accepted, in one      *)
(* stream; the client reads whatever comes first.  Only the kind of a      *)
(* message matters here, and the channels are counters: Tracker models     *)
(* what the hashes are used for.                                           *)
(***************************************************************************)
EXTENDS Integers, Sequences

CONSTANTS
    PendingCapacity,    \* mempool.max_inflight_hashes
    HeadCapacity,       \* capacity of headC
    MaxBackoff,         \* longest pause before a new connection, in seconds
    MaxNotices,         \* bound: notifications
    MaxStream,          \* bound: messages on their way
    MaxLosses           \* bound: lost connections and refused requests

ASSUME SubscriberAssumption ==
    /\ {PendingCapacity, HeadCapacity, MaxBackoff} \subseteq Nat \ {0}
    /\ {MaxNotices, MaxStream, MaxLosses} \subseteq Nat

Channels == {"newPendingTransactions", "newHeads"}
Notices == {"hash", "head", "other"}
Replies == {"subscribed", "refused"}

VARIABLES
    phase,      \* what the subscriber does
    backoff,    \* its next pause
    up,         \* the connection is open
    request,    \* the request on its way to the node, or "none"
    accepted,   \* node: subscriptions of this connection
    stream,     \* messages on their way to the client
    pendingC, headC,    \* messages in the two channels
    notices, losses     \* so far

connection == <<up, request, accepted, stream>>
channels == <<pendingC, headC>>
counts == <<notices, losses>>
vars == <<phase, backoff, connection, channels, counts>>

Init ==
    /\ phase = "dial" /\ backoff = 1
    /\ up = FALSE /\ request = "none" /\ accepted = {} /\ stream = <<>>
    /\ pendingC = 0 /\ headC = 0
    /\ notices = 0 /\ losses = 0

Lose ==
    /\ losses < MaxLosses
    /\ losses' = losses + 1
    /\ UNCHANGED notices

-----------------------------------------------------------------------------
(* runOnce returns: its deferred Close ends the connection, and Run pauses *)
(* before the next.  It never returns nil, so the pause is never reset.    *)
CloseNotReturning == UNCHANGED <<phase, connection>>

Close ==
    /\ phase' = "pause"
    /\ up' = FALSE /\ request' = "none" /\ accepted' = {} /\ stream' = <<>>

Pause ==
    /\ phase = "pause"
    /\ phase' = "dial"
    /\ backoff' = IF 2 * backoff < MaxBackoff THEN 2 * backoff ELSE MaxBackoff
    /\ UNCHANGED <<connection, channels, counts>>

Dial ==
    /\ phase = "dial"
    /\ phase' = "askPending"
    /\ up' = TRUE
    /\ UNCHANGED <<backoff, request, accepted, stream, channels, counts>>

DialFails ==
    /\ phase = "dial"
    /\ Lose
    /\ phase' = "pause"
    /\ UNCHANGED <<backoff, connection, channels>>

(* subscribe: write the request, then read one message and take it for the *)
(* reply.                                                                  *)
Ask ==
    /\ phase \in {"askPending", "askHeads"} /\ up
    /\ request' = IF phase = "askPending" THEN "newPendingTransactions" ELSE "newHeads"
    /\ phase' = IF phase = "askPending" THEN "awaitPending" ELSE "awaitHeads"
    /\ UNCHANGED <<backoff, up, accepted, stream, channels, counts>>

AskFails ==
    /\ phase \in {"askPending", "askHeads"} /\ ~up
    /\ Close
    /\ UNCHANGED <<backoff, channels, counts>>

AskedFor == IF phase = "awaitPending" THEN "askHeads" ELSE "reading"

ReadReplyUnchecked ==
    /\ phase \in {"awaitPending", "awaitHeads"} /\ stream # <<>>
    /\ phase' = AskedFor
    /\ stream' = Tail(stream)
    /\ UNCHANGED <<backoff, up, request, accepted, channels, counts>>

(* A message without a result is an error, also when it is a notification  *)
(* of the subscription made before.                                        *)
ReadReply ==
    /\ phase \in {"awaitPending", "awaitHeads"} /\ stream # <<>>
    /\ IF Head(stream) = "subscribed"
       THEN /\ phase' = AskedFor
            /\ stream' = Tail(stream)
            /\ UNCHANGED <<up, request, accepted>>
       ELSE Close
    /\ UNCHANGED <<backoff, channels, counts>>

(* What was sent before the connection was lost is still read.             *)
ReadFails ==
    /\ phase \in {"awaitPending", "awaitHeads", "reading"}
    /\ stream = <<>> /\ ~up
    /\ Close
    /\ UNCHANGED <<backoff, channels, counts>>

(* dispatch drops what does not fit into its channel, and skips messages   *)
(* it does not know.                                                       *)
DispatchHashUnbounded ==
    /\ phase = "reading" /\ stream # <<>> /\ Head(stream) = "hash"
    /\ stream' = Tail(stream)
    /\ pendingC' = pendingC + 1
    /\ UNCHANGED <<phase, backoff, up, request, accepted, headC, counts>>

DispatchHash ==
    /\ phase = "reading" /\ stream # <<>> /\ Head(stream) = "hash"
    /\ stream' = Tail(stream)
    /\ pendingC' = IF pendingC < PendingCapacity THEN pendingC + 1 ELSE pendingC
    /\ UNCHANGED <<phase, backoff, up, request, accepted, headC, counts>>

DispatchHead ==
    /\ phase = "reading" /\ stream # <<>> /\ Head(stream) = "head"
    /\ stream' = Tail(stream)
    /\ headC' = IF headC < HeadCapacity THEN headC + 1 ELSE headC
    /\ UNCHANGED <<phase, backoff, up, request, accepted, pendingC, counts>>

Skip ==
    /\ phase = "reading" /\ stream # <<>> /\ Head(stream) \notin {"hash", "head"}
    /\ stream' = Tail(stream)
    /\ UNCHANGED <<phase, backoff, up, request, accepted, channels, counts>>

Client ==
    \/ Pause \/ Dial \/ Ask \/ AskFails \/ ReadReply \/ ReadFails
    \/ DispatchHash \/ DispatchHead \/ Skip

-----------------------------------------------------------------------------
(* The loop of Service.Run.                                                *)
TakeHash ==
    /\ pendingC > 0
    /\ pendingC' = pendingC - 1
    /\ UNCHANGED <<phase, backoff, connection, headC, counts>>

TakeHead ==
    /\ headC > 0
    /\ headC' = headC - 1
    /\ UNCHANGED <<phase, backoff, connection, pendingC, counts>>

Service == TakeHash \/ TakeHead

-----------------------------------------------------------------------------
(* The node.                                                               *)
Accept ==
    /\ up /\ request # "none"
    /\ accepted' = accepted \cup {request}
    /\ stream' = Append(stream, "subscribed")
    /\ request' = "none"
    /\ UNCHANGED <<phase, backoff, up, channels, counts>>

Refuse ==
    /\ up /\ request # "none"
    /\ Lose
    /\ stream' = Append(stream, "refused")
    /\ request' = "none"
    /\ UNCHANGED <<phase, backoff, up, accepted, channels>>

Notify(message) ==
    /\ up /\ Len(stream) < MaxStream
    /\ message = "head" => "newHeads" \in accepted
    /\ message # "head" => "newPendingTransactions" \in accepted
    /\ notices < MaxNotices
    /\ notices' = notices + 1
    /\ stream' = Append(stream, message)
    /\ UNCHANGED <<phase, backoff, up, request, accepted, channels, losses>>

Disconnect ==
    /\ up
    /\ Lose
    /\ up' = FALSE
    /\ request' = "none"
    /\ UNCHANGED <<phase, backoff, accepted, stream, channels>>

Next ==
    \/ Client \/ DialFails
    \/ Service
    \/ Accept \/ Refuse \/ Disconnect
    \/ \E message \in Notices : Notify(message)

Spec == Init /\ [][Next]_vars

(* The two goroutines keep running and the node answers.                   *)
Fairness == WF_vars(Client) /\ WF_vars(Service) /\ WF_vars(Accept)

FairSpec == Spec /\ Fairness
-----------------------------------------------------------------------------
Phases ==
    {"dial", "askPending", "awaitPending", "askHeads", "awaitHeads", "reading", "pause"}

(* Every variable has its type and the channels their capacity.            *)
TypeOK ==
    /\ phase \in Phases
    /\ backoff \in 1 .. MaxBackoff
    /\ up \in BOOLEAN
    /\ request \in Channels \cup {"none"} /\ accepted \subseteq Channels
    /\ stream \in Seq(Notices \cup Replies)
    /\ pendingC \in 0 .. PendingCapacity /\ headC \in 0 .. HeadCapacity
    /\ notices \in Nat /\ losses \in Nat

(* While the subscriber dispatches, the node has accepted both of its      *)
(* subscriptions on this connection, and no reply is left to be taken for  *)
(* a notification: messages of an earlier connection, notifications that   *)
(* overtake a reply and refusals never pass for a subscription             *)
(* (subscriber.go:70-77 and 113-128).                                      *)
Handshaken ==
    phase = "reading" =>
        /\ accepted = Channels /\ request = "none"
        /\ \A i \in 1 .. Len(stream) : stream[i] \notin Replies

(* docs/mempool.md:8-10, "newPendingTransactions for tx hashes, newHeads   *)
(* for block notifications": the subscriber gets to read both, again after *)
(* every lost connection, once the node pauses between two notifications   *)
(* (subscriber.go:45-61, 70-77 and 113-128).                               *)
Subscribes == (phase # "reading") ~> (phase = "reading")
=============================================================================
