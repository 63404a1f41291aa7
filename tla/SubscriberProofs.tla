-------------------------- MODULE SubscriberProofs --------------------------
(***************************************************************************)
(* Theorems about the WebSocket subscriber for any capacities and any      *)
(* number of notifications, refusals and lost connections.                 *)
(***************************************************************************)
EXTENDS Subscriber, SequenceTheorems, TLAPS

Messages == Notices \cup Replies

(* The capacities, as the provers use them.                                *)
LEMMA Capacities ==
    {PendingCapacity, HeadCapacity, MaxBackoff} \subseteq {n \in Nat : n >= 1}
BY SubscriberAssumption

(* The initial state has its type.                                         *)
LEMMA TypeInit == Init => TypeOK
<1>1. PendingCapacity \in Nat /\ HeadCapacity \in Nat /\ MaxBackoff \in Nat /\ MaxBackoff >= 1
  BY Capacities
<1>2. <<>> \in Seq(Notices \cup Replies)
  OBVIOUS
<1>3. 1 \in 1 .. MaxBackoff /\ 0 \in 0 .. PendingCapacity /\ 0 \in 0 .. HeadCapacity
  BY <1>1
<1> SUFFICES ASSUME Init PROVE TypeOK
  OBVIOUS
<1>4. up \in BOOLEAN /\ phase \in Phases
  BY DEF Init, Phases
<1>5. backoff \in 1 .. MaxBackoff /\ pendingC \in 0 .. PendingCapacity /\ headC \in 0 .. HeadCapacity
  BY <1>3 DEF Init
<1>6. /\ request \in Channels \cup {"none"} /\ accepted \subseteq Channels
      /\ notices \in Nat /\ losses \in Nat
  BY DEF Init
<1>7. stream \in Seq(Notices \cup Replies)
  BY <1>2 DEF Init
<1> QED
  BY <1>4, <1>5, <1>6, <1>7 DEF TypeOK

(* Every step keeps the types and the capacities of the channels.          *)
LEMMA TypeNext == TypeOK /\ [Next]_vars => TypeOK'
<1> SUFFICES ASSUME TypeOK, [Next]_vars PROVE TypeOK'
  OBVIOUS
<1>0. /\ PendingCapacity \in Nat /\ HeadCapacity \in Nat /\ MaxBackoff \in Nat /\ MaxBackoff >= 1
      /\ <<>> \in Seq(Notices \cup Replies)
      /\ {"subscribed", "refused"} \cup Notices \subseteq Notices \cup Replies
  BY Capacities DEF Replies
<1> USE <1>0 DEF TypeOK, Phases, Channels
<1>1. CASE Pause
  BY <1>1 DEF Pause, connection, channels, counts
<1>2. CASE Dial \/ Ask
  BY <1>2 DEF Dial, Ask, channels, counts
<1>3. CASE DialFails
  BY <1>3 DEF DialFails, Lose, connection, channels
<1>4. CASE AskFails \/ ReadFails
  BY <1>4 DEF AskFails, ReadFails, Close, channels, counts
<1>5. CASE ReadReply
  <2>1. Tail(stream) \in Seq(Notices \cup Replies)
    BY <1>5 DEF ReadReply
  <2>2. AskedFor \in Phases
    BY DEF AskedFor
  <2>3. CASE Head(stream) = "subscribed"
    BY <1>5, <2>1, <2>2, <2>3 DEF ReadReply, channels, counts
  <2>4. CASE Head(stream) # "subscribed"
    BY <1>5, <2>4 DEF ReadReply, Close, channels, counts
  <2> QED
    BY <2>3, <2>4
<1>6. CASE DispatchHash \/ DispatchHead \/ Skip
  <2>1. Tail(stream) \in Seq(Notices \cup Replies)
    BY <1>6 DEF DispatchHash, DispatchHead, Skip
  <2>2. /\ pendingC' \in 0 .. PendingCapacity /\ headC' \in 0 .. HeadCapacity
        /\ stream' = Tail(stream) /\ UNCHANGED <<phase, backoff, up, request, accepted, counts>>
    BY <1>6 DEF DispatchHash, DispatchHead, Skip, channels
  <2> QED
    BY <2>1, <2>2 DEF counts
<1>7. CASE Service
  <2>1. /\ pendingC' \in 0 .. PendingCapacity /\ headC' \in 0 .. HeadCapacity
        /\ UNCHANGED <<phase, backoff, up, request, accepted, stream, notices, losses>>
    BY <1>7 DEF Service, TakeHash, TakeHead, connection, counts
  <2> QED
    BY <2>1
<1>8. CASE Accept
  <2>1. Append(stream, "subscribed") \in Seq(Notices \cup Replies)
    OBVIOUS
  <2>2. accepted' \subseteq Channels /\ request' \in Channels \cup {"none"}
    BY <1>8 DEF Accept
  <2>3. /\ stream' \in Seq(Notices \cup Replies)
        /\ UNCHANGED <<phase, backoff, up, pendingC, headC, notices, losses>>
    BY <1>8, <2>1 DEF Accept, channels, counts
  <2> QED
    BY <2>2, <2>3
<1>9. CASE Refuse \/ Disconnect
  <2>1. Append(stream, "refused") \in Seq(Notices \cup Replies)
    OBVIOUS
  <2>2. /\ stream' \in Seq(Notices \cup Replies) /\ request' = "none"
        /\ UNCHANGED <<phase, backoff, accepted, pendingC, headC>>
    BY <1>9, <2>1 DEF Refuse, Disconnect, channels
  <2>3. losses' \in Nat /\ UNCHANGED notices
    BY <1>9 DEF Refuse, Disconnect, Lose
  <2>4. up' \in BOOLEAN
    BY <1>9 DEF Refuse, Disconnect
  <2> QED
    BY <2>2, <2>3, <2>4
<1>10. ASSUME NEW message \in Notices, Notify(message) PROVE TypeOK'
  BY <1>10 DEF Notify, channels
<1>11. CASE UNCHANGED vars
  BY <1>11 DEF vars, connection, channels, counts
<1> QED
  BY <1>1, <1>2, <1>3, <1>4, <1>5, <1>6, <1>7, <1>8, <1>9, <1>10, <1>11 DEF Next, Client

(* Every variable has its type in every state.                             *)
THEOREM TypeCorrect == Spec => []TypeOK
BY TypeInit, TypeNext, PTL DEF Spec

-----------------------------------------------------------------------------
(* What the node has accepted when the client asks for the subscription it *)
(* is about, and once it has it.                                           *)
Before == IF phase \in {"askPending", "awaitPending"} THEN {} ELSE {"newPendingTransactions"}
After == IF phase = "awaitPending" THEN {"newPendingTransactions"} ELSE Channels

Asking == {"askPending", "askHeads"}
Awaiting == {"awaitPending", "awaitHeads"}

NoReply(s) == \A i \in 1 .. Len(s) : s[i] \notin Replies
OneReply(s) == \A i, j \in 1 .. Len(s) : s[i] \in Replies /\ s[j] \in Replies => i = j
Confirmed(s) == \E i \in 1 .. Len(s) : s[i] = "subscribed"

(* A closed connection leaves nothing behind.                              *)
ClosedClean ==
    phase \in {"dial", "pause"} =>
        ~up /\ request = "none" /\ accepted = {} /\ stream = <<>>

(* There is a request, or a reply to it, only while the client awaits one, *)
(* and never both.                                                         *)
RequestsOK ==
    /\ phase \in Asking => request = "none" /\ NoReply(stream) /\ accepted = Before
    /\ request # "none" =>
          /\ phase \in Awaiting /\ NoReply(stream) /\ accepted = Before
          /\ request = IF phase = "awaitPending" THEN "newPendingTransactions" ELSE "newHeads"

(* The reply that confirms a subscription is the only one in the stream,   *)
(* and the node has accepted the subscription.                             *)
RepliesOK ==
    phase \in Awaiting => OneReply(stream) /\ (Confirmed(stream) => accepted = After)

Inv == ClosedClean /\ RequestsOK /\ RepliesOK /\ Handshaken

(* What is left of a stream once its first message is read.                *)
LEMMA Rest ==
    ASSUME NEW s \in Seq(Messages), s # <<>>
    PROVE  /\ OneReply(s) => OneReply(Tail(s))
           /\ NoReply(s) => NoReply(Tail(s))
           /\ OneReply(s) /\ s[1] \in Replies => NoReply(Tail(s))
<1>1. Len(s) \in Nat \ {0} /\ Len(Tail(s)) = Len(s) - 1
  BY EmptySeq, LenProperties
<1>2. \A i \in 1 .. Len(Tail(s)) : Tail(s)[i] = s[i + 1] /\ i + 1 \in 1 .. Len(s)
  BY <1>1
<1> QED
  BY <1>1, <1>2 DEF OneReply, NoReply

(* A message more in the stream.                                           *)
LEMMA More ==
    ASSUME NEW s \in Seq(Messages), NEW m \in Messages
    PROVE  /\ NoReply(s) => OneReply(Append(s, m))
           /\ m \notin Replies /\ NoReply(s) => NoReply(Append(s, m))
           /\ m \notin Replies /\ OneReply(s) => OneReply(Append(s, m))
           /\ m # "subscribed" /\ Confirmed(Append(s, m)) => Confirmed(s)
<1>1. Len(s) \in Nat /\ Len(Append(s, m)) = Len(s) + 1
  OBVIOUS
<1>2. \A i \in 1 .. Len(s) + 1 :
          Append(s, m)[i] = IF i = Len(s) + 1 THEN m ELSE s[i]
  BY <1>1
<1>3. \A i \in 1 .. Len(s) + 1 : i # Len(s) + 1 => i \in 1 .. Len(s)
  BY <1>1
<1> QED
  BY <1>1, <1>2, <1>3 DEF OneReply, NoReply, Confirmed

(* The steps of the client keep the invariant.                             *)
LEMMA ClientKeeps == TypeOK /\ Inv /\ (Client \/ DialFails) => Inv'
<1> SUFFICES ASSUME TypeOK, Inv, Client \/ DialFails PROVE Inv'
  OBVIOUS
<1> USE DEF Inv
<1>1. CASE Pause \/ DialFails
  BY <1>1 DEF Pause, DialFails, connection, ClosedClean, RequestsOK, RepliesOK, Handshaken,
              Asking, Awaiting
<1>2. CASE Dial
  BY <1>2 DEF Dial, ClosedClean, RequestsOK, RepliesOK, Handshaken, Asking, Awaiting, Before,
              NoReply
<1>3. CASE Ask
  <2>1. phase \in Asking /\ NoReply(stream) /\ accepted = Before
    BY <1>3 DEF Ask, RequestsOK, Asking
  <2>2. phase' = (IF phase = "askPending" THEN "awaitPending" ELSE "awaitHeads")
        /\ request' = (IF phase = "askPending" THEN "newPendingTransactions" ELSE "newHeads")
        /\ UNCHANGED <<up, accepted, stream>>
    BY <1>3 DEF Ask
  <2>3. accepted' = Before' /\ NoReply(stream')
    BY <2>1, <2>2 DEF Before, Asking
  <2>4. OneReply(stream') /\ ~Confirmed(stream')
    BY <2>3 DEF NoReply, OneReply, Confirmed, Replies
  <2> QED
    BY <2>1, <2>2, <2>3, <2>4 DEF ClosedClean, RequestsOK, RepliesOK, Handshaken, Asking,
                                  Awaiting
<1>4. CASE Close
  BY <1>4 DEF Close, ClosedClean, RequestsOK, RepliesOK, Handshaken, Asking, Awaiting
<1>5. CASE ReadReply /\ Head(stream) = "subscribed"
  <2>1. phase \in Awaiting /\ stream # <<>> /\ stream \in Seq(Messages)
    BY <1>5 DEF ReadReply, TypeOK, Awaiting, Messages
  <2>2. stream[1] = "subscribed" /\ 1 \in 1 .. Len(stream)
    BY <1>5, <2>1
  <2>3. OneReply(stream) /\ accepted = After
    BY <2>1, <2>2 DEF RepliesOK, Confirmed
  <2>4. NoReply(Tail(stream))
    BY <2>1, <2>2, <2>3, Rest DEF Replies
  <2>5. request = "none"
    BY <2>2 DEF RequestsOK, NoReply, Replies
  <2>6. phase' = AskedFor /\ stream' = Tail(stream) /\ UNCHANGED <<up, request, accepted>>
    BY <1>5 DEF ReadReply
  <2>7. CASE phase = "awaitPending"
    BY <2>3, <2>4, <2>5, <2>6, <2>7
    DEF AskedFor, After, Before, ClosedClean, RequestsOK, RepliesOK, Handshaken, Asking, Awaiting
  <2>8. CASE phase = "awaitHeads"
    BY <2>3, <2>4, <2>5, <2>6, <2>8
    DEF AskedFor, After, NoReply, ClosedClean, RequestsOK, RepliesOK, Handshaken, Asking, Awaiting
  <2> QED
    BY <2>1, <2>7, <2>8 DEF Awaiting
<1>6. CASE DispatchHash \/ DispatchHead \/ Skip
  <2>1. /\ phase = "reading" /\ stream # <<>> /\ stream' = Tail(stream)
        /\ UNCHANGED <<phase, up, request, accepted>>
    BY <1>6 DEF DispatchHash, DispatchHead, Skip
  <2>2. NoReply(Tail(stream))
    BY <2>1, Rest DEF TypeOK, Messages, Handshaken, NoReply
  <2> QED
    BY <2>1, <2>2 DEF NoReply, ClosedClean, RequestsOK, RepliesOK, Handshaken, Asking, Awaiting
<1> QED
  BY <1>1, <1>2, <1>3, <1>4, <1>5, <1>6 DEF Client, AskFails, ReadFails, ReadReply

(* So do the steps of the node.                                            *)
LEMMA NodeKeeps ==
    TypeOK /\ Inv /\ (Accept \/ Refuse \/ Disconnect \/ \E m \in Notices : Notify(m)) => Inv'
<1> SUFFICES ASSUME TypeOK, Inv,
                    Accept \/ Refuse \/ Disconnect \/ \E m \in Notices : Notify(m)
             PROVE  Inv'
  OBVIOUS
<1> USE DEF Inv
<1>0. stream \in Seq(Messages)
  BY DEF TypeOK, Messages
<1>1. CASE Accept \/ Refuse
  <2>1. PICK m \in Replies : stream' = Append(stream, m) /\ (m = "subscribed" => Accept)
    BY <1>1 DEF Accept, Refuse, Replies
  <2>2. /\ up /\ request # "none" /\ request' = "none" /\ UNCHANGED <<phase, up>>
        /\ accepted' = accepted \/ Accept
    BY <1>1 DEF Accept, Refuse
  <2>3. phase \in Awaiting /\ NoReply(stream) /\ accepted = Before
    BY <2>2 DEF RequestsOK
  <2>4. OneReply(stream')
    BY <1>0, <2>1, <2>3, More DEF Messages
  <2>5. Confirmed(stream') => Accept
    BY <1>0, <2>1, <2>3, More DEF Messages, NoReply, Confirmed, Replies
  <2>6. Accept => accepted' = After'
    BY <2>2, <2>3 DEF Accept, RequestsOK, Awaiting, Before, After, Channels
  <2> QED
    BY <2>2, <2>3, <2>4, <2>5, <2>6
    DEF ClosedClean, RequestsOK, RepliesOK, Handshaken, Asking, Awaiting
<1>2. CASE Disconnect
  BY <1>2 DEF Disconnect, ClosedClean, RequestsOK, RepliesOK, Handshaken, Asking, Awaiting,
              Before, After
<1>3. ASSUME NEW m \in Notices, Notify(m) PROVE Inv'
  <2>1. /\ up /\ stream' = Append(stream, m)
        /\ UNCHANGED <<phase, up, request, accepted>>
    BY <1>3 DEF Notify
  <2>2. m \in Messages /\ m \notin Replies
    BY DEF Notices, Replies, Messages
  <2>3. /\ NoReply(stream) => NoReply(stream')
        /\ OneReply(stream) => OneReply(stream')
        /\ Confirmed(stream') => Confirmed(stream)
    BY <1>0, <2>1, <2>2, More DEF Replies
  <2>4. After' = After /\ Before' = Before
    BY <2>1 DEF After, Before
  <2> QED
    BY <2>1, <2>3, <2>4 DEF NoReply, ClosedClean, RequestsOK, RepliesOK, Handshaken, Asking
<1> QED
  BY <1>1, <1>2, <1>3

(* Every step keeps the invariant.                                         *)
LEMMA HandshakeNext == TypeOK /\ Inv /\ [Next]_vars => Inv'
<1> SUFFICES ASSUME TypeOK, Inv, [Next]_vars PROVE Inv'
  OBVIOUS
<1>1. CASE Service \/ UNCHANGED vars
  BY <1>1 DEF Service, TakeHash, TakeHead, vars, connection, Inv, ClosedClean, RequestsOK,
              RepliesOK, Handshaken, Before, After
<1> QED
  BY <1>1, ClientKeeps, NodeKeeps DEF Next

(* The subscriber dispatches only when the node has accepted both          *)
(* subscriptions of this connection (subscriber.go:70-77 and 113-128).     *)
THEOREM HandshakenHolds == Spec => []Handshaken
<1>1. Init => Inv
  BY DEF Init, Inv, ClosedClean, RequestsOK, RepliesOK, Handshaken, Asking, Awaiting
<1> QED
  BY <1>1, TypeCorrect, HandshakeNext, PTL DEF Spec, Inv
=============================================================================
