-------------------------- MODULE RpcClientProofs --------------------------
(***************************************************************************)
(* Theorems about the JSON-RPC client for any number of calls, slots and   *)
(* retries.                                                                *)
(***************************************************************************)
EXTENDS RpcClient, FiniteSetTheorems, TLAPS

Conclusive == {"ok", "rejected"}
Out == {"post", "release"}

CallState ==
    [pc : {"new", "limit", "acquire", "post", "release", "judge", "sleep", "returned"},
     attempt : 0 .. Retries, reply : Replies]

(* A request that is not out was executed in earlier attempts only, an     *)
(* answer that ends the call is the last one read, and a call that sleeps  *)
(* has an attempt left.                                                    *)
AttemptsOK(state, count, answers) ==
    /\ count <= state.attempt + 1
    /\ state.pc \in {"new", "limit", "acquire", "post"} => count <= state.attempt
    /\ state.pc \notin {"judge", "returned"} => answers \cap Conclusive = {}
    /\ state.pc = "judge" => answers \cap Conclusive \subseteq {state.reply}
    /\ state.pc = "sleep" => state.attempt < Retries

(* A call that was told, under an HTTP status that lets the message count, *)
(* that results are too many is about to return that.                      *)
HeardOK(state, answers) ==
    /\ answers \cap Understood # {} =>
           state.pc \in {"judge", "returned"} /\ state.reply \in Understood
    /\ state.pc = "returned" /\ state.reply \in TooMany \ Understood =>
           state.attempt = Retries

Inv ==
    /\ TypeOK
    /\ SlotsAccounted
    /\ \A c \in Call :
          AttemptsOK(call[c], served[c], told[c]) /\ HeardOK(call[c], told[c])

-----------------------------------------------------------------------------
(* The calls with a request out are finitely many.                         *)
LEMMA HoldersFinite == IsFiniteSet(Holders) /\ Cardinality(Holders) \in Nat
<1>1. Holders \subseteq Call
  BY DEF Holders
<1> QED
  BY <1>1, RpcAssumption, FS_Subset, FS_CardinalityType

(* One call more has a request out.                                        *)
LEMMA OneMore ==
    ASSUME NEW c \in Call, c \notin Holders, Holders' = Holders \cup {c}, SlotsAccounted,
           slots' = slots + 1
    PROVE  SlotsAccounted'
BY HoldersFinite, FS_AddElement DEF SlotsAccounted

(* One call less has a request out.                                        *)
LEMMA OneLess ==
    ASSUME NEW c \in Holders, Holders' = Holders \ {c}, SlotsAccounted, slots' = slots - 1
    PROVE  SlotsAccounted' /\ slots > 0
<1>1. /\ Cardinality(Holders \ {c}) = Cardinality(Holders) - 1
      /\ IsFiniteSet(Holders \ {c})
  BY HoldersFinite, FS_RemoveElement
<1>2. Cardinality(Holders \ {c}) \in Nat
  BY <1>1, FS_CardinalityType
<1> QED
  BY <1>1, <1>2, HoldersFinite DEF SlotsAccounted

(* A step of one call keeps the invariant if it keeps it for that call.    *)
LEMMA OneCallMoves ==
    ASSUME Inv, NEW c \in Call, NEW state \in CallState,
           NEW count \in Nat, NEW answers \in SUBSET Answers,
           call' = [call EXCEPT ![c] = state],
           served' = [served EXCEPT ![c] = count],
           told' = [told EXCEPT ![c] = answers],
           UNCHANGED <<parses, cancelled>>,
           AttemptsOK(state, count, answers), HeardOK(state, answers),
           \/ (call[c].pc \in Out <=> state.pc \in Out) /\ slots' = slots
           \/ call[c].pc \notin Out /\ state.pc \in Out /\ slots' = slots + 1
                 /\ slots < Concurrency
           \/ call[c].pc \in Out /\ state.pc \notin Out /\ slots' = slots - 1
    PROVE  Inv'
<1>0. /\ call \in [Call -> CallState] /\ served \in [Call -> Nat]
      /\ told \in [Call -> SUBSET Answers] /\ slots \in 0 .. Concurrency
      /\ Concurrency \in Nat /\ SlotsAccounted
  BY RpcAssumption DEF Inv, TypeOK, CallState
<1>1. /\ call'[c] = state /\ served'[c] = count /\ told'[c] = answers
      /\ \A d \in Call \ {c} : call'[d] = call[d] /\ served'[d] = served[d] /\ told'[d] = told[d]
  BY <1>0
<1>2. \A d \in Call : AttemptsOK(call'[d], served'[d], told'[d]) /\ HeardOK(call'[d], told'[d])
  BY <1>1 DEF Inv
<1>3. SlotsAccounted' /\ slots' \in 0 .. Concurrency
  <2>1. CASE (call[c].pc \in Out <=> state.pc \in Out) /\ slots' = slots
    <3>1. Holders' = Holders
      BY <1>1, <2>1 DEF Holders, Out
    <3> QED
      BY <1>0, <2>1, <3>1 DEF SlotsAccounted
  <2>2. CASE call[c].pc \notin Out /\ state.pc \in Out /\ slots' = slots + 1 /\ slots < Concurrency
    <3>1. Holders' = Holders \cup {c} /\ c \notin Holders
      BY <1>1, <2>2 DEF Holders, Out
    <3> QED
      BY <1>0, <2>2, <3>1, OneMore
  <2>3. CASE call[c].pc \in Out /\ state.pc \notin Out /\ slots' = slots - 1
    <3>1. Holders' = Holders \ {c} /\ c \in Holders
      BY <1>1, <2>3 DEF Holders, Out
    <3>2. SlotsAccounted' /\ slots > 0
      BY <1>0, <2>3, <3>1, OneLess
    <3> QED
      BY <1>0, <2>3, <3>2
  <2> QED
    BY <2>1, <2>2, <2>3
<1>4. TypeOK'
  <2>1. call' \in [Call -> CallState] /\ served' \in [Call -> Nat] /\ told' \in [Call -> SUBSET Answers]
    BY <1>0
  <2> QED
    BY <1>3, <2>1 DEF Inv, TypeOK, CallState
<1> QED
  BY <1>2, <1>3, <1>4 DEF Inv

(* The steps of a call.                                                    *)
LEMMA InvCall ==
    ASSUME Inv, NEW c \in Call, CallStep(c)
    PROVE  Inv'
<1> DEFINE state == call[c]
           Moved(next) == call' = [call EXCEPT ![c] = next]
<1>0. /\ call \in [Call -> CallState] /\ served \in [Call -> Nat]
      /\ told \in [Call -> SUBSET Answers] /\ Retries \in Nat
      /\ state \in CallState /\ served[c] \in Nat /\ told[c] \in SUBSET Answers
  BY RpcAssumption DEF Inv, TypeOK, CallState
<1>1. AttemptsOK(state, served[c], told[c]) /\ HeardOK(state, told[c])
  BY DEF Inv
<1>2. /\ served = [served EXCEPT ![c] = served[c]] /\ told = [told EXCEPT ![c] = told[c]]
  BY <1>0
<1>3. ASSUME UNCHANGED <<parses, slots, cancelled, served, told>>,
             NEW next \in CallState, Moved(next),
             state.pc \in Out <=> next.pc \in Out,
             AttemptsOK(next, served[c], told[c]), HeardOK(next, told[c])
      PROVE  Inv'
  BY <1>0, <1>2, <1>3, OneCallMoves
<1>4. CASE Start(c) \/ LimiterGrants(c)
  <2>1. PICK pc \in {"limit", "acquire"} : Moved([state EXCEPT !.pc = pc])
    BY <1>0, <1>4 DEF Start, LimiterGrants, Goto
  <2>2. /\ state.pc \in {"new", "limit"}
        /\ UNCHANGED <<parses, slots, cancelled, served, told>>
    BY <1>4 DEF Start, LimiterGrants, At
  <2>3. [state EXCEPT !.pc = pc] \in CallState
    BY <1>0 DEF CallState
  <2>4. /\ AttemptsOK([state EXCEPT !.pc = pc], served[c], told[c])
        /\ HeardOK([state EXCEPT !.pc = pc], told[c])
    BY <1>0, <1>1, <2>2 DEF AttemptsOK, HeardOK, CallState
  <2>5. [state EXCEPT !.pc = pc].pc = pc
    BY <1>0 DEF CallState
  <2> QED
    BY <1>3, <2>1, <2>2, <2>3, <2>4, <2>5 DEF Out
<1>5. CASE LimiterFails(c)
  <2> DEFINE next == [state EXCEPT !.pc = "returned", !.reply = "cancelled"]
  <2>1. Moved(next) /\ state.pc = "limit" /\ UNCHANGED <<parses, slots, cancelled, served, told>>
    BY <1>0, <1>5 DEF LimiterFails, At
  <2>2. next \in CallState /\ next.pc = "returned"
    BY <1>0 DEF CallState, Replies
  <2>3. AttemptsOK(next, served[c], told[c]) /\ HeardOK(next, told[c])
    BY <1>0, <1>1, <2>1 DEF AttemptsOK, HeardOK, CallState, TooMany, Understood
  <2> QED
    BY <1>3, <2>1, <2>2, <2>3 DEF Out
<1>6. CASE Acquire(c)
  <2> DEFINE next == [state EXCEPT !.pc = "post"]
  <2>1. /\ Moved(next) /\ state.pc = "acquire" /\ slots < Concurrency /\ slots' = slots + 1
        /\ UNCHANGED <<parses, cancelled, served, told>>
    BY <1>0, <1>6 DEF Acquire, At, Goto
  <2>2. next \in CallState /\ next.pc = "post"
    BY <1>0 DEF CallState
  <2>3. AttemptsOK(next, served[c], told[c]) /\ HeardOK(next, told[c])
    BY <1>0, <1>1, <2>1 DEF AttemptsOK, HeardOK, CallState
  <2> HIDE DEF next
  <2> QED
    BY <1>0, <1>2, <2>1, <2>2, <2>3, OneCallMoves DEF Out
<1>7. CASE BuildFails(c)
  <2> DEFINE next == [state EXCEPT !.pc = "returned", !.reply = "rejected"]
  <2>1. /\ Moved(next) /\ state.pc = "post" /\ slots' = slots - 1
        /\ UNCHANGED <<parses, cancelled, served, told>>
    BY <1>0, <1>7 DEF BuildFails, At
  <2>2. next \in CallState /\ next.pc = "returned"
    BY <1>0 DEF CallState, Replies, Answers
  <2>3. AttemptsOK(next, served[c], told[c]) /\ HeardOK(next, told[c])
    BY <1>0, <1>1, <2>1 DEF AttemptsOK, HeardOK, CallState, TooMany, Understood
  <2> HIDE DEF next
  <2> QED
    BY <1>0, <1>2, <2>1, <2>2, <2>3, OneCallMoves DEF Out
<1>8. CASE Post(c)
  <2>1. PICK reply \in Answers \cup {"lost", "timedOut", "cut"} :
            Moved([state EXCEPT !.pc = "release", !.reply = reply])
    BY <1>0, <1>8 DEF Post
  <2> DEFINE next == [state EXCEPT !.pc = "release", !.reply = reply]
  <2>2. /\ state.pc = "post" /\ served' = [served EXCEPT ![c] = served[c] + 1]
        /\ UNCHANGED <<parses, slots, cancelled, told>>
    BY <1>0, <1>8 DEF Post, At
  <2>3. next \in CallState /\ next.pc = "release"
    BY <1>0 DEF CallState, Replies
  <2>4. AttemptsOK(next, served[c] + 1, told[c]) /\ HeardOK(next, told[c])
    BY <1>0, <1>1, <2>2 DEF AttemptsOK, HeardOK, CallState
  <2>5. Moved(next) /\ served[c] + 1 \in Nat
    BY <1>0, <2>1
  <2> HIDE DEF next
  <2> QED
    BY <1>0, <1>2, <2>2, <2>3, <2>4, <2>5, OneCallMoves DEF Out
<1>9. CASE PostFails(c)
  <2>1. PICK reply \in {"cancelled", "refused", "timedOut"} :
            Moved([state EXCEPT !.pc = "release", !.reply = reply])
    BY <1>0, <1>9 DEF PostFails
  <2> DEFINE next == [state EXCEPT !.pc = "release", !.reply = reply]
  <2>2. state.pc = "post" /\ UNCHANGED <<parses, slots, cancelled, served, told>>
    BY <1>9 DEF PostFails, At
  <2>3. next \in CallState /\ next.pc = "release"
    BY <1>0 DEF CallState, Replies
  <2>4. AttemptsOK(next, served[c], told[c]) /\ HeardOK(next, told[c])
    BY <1>0, <1>1, <2>2 DEF AttemptsOK, HeardOK, CallState
  <2> QED
    BY <1>3, <2>1, <2>2, <2>3, <2>4 DEF Out
<1>10. CASE Release(c)
  <2>1. PICK reply \in {state.reply} \cup {r \in {"cancelled"} : c \in cancelled} :
            /\ Moved([state EXCEPT !.pc = "judge", !.reply = reply])
            /\ told' = [told EXCEPT ![c] = told[c] \cup ({reply} \cap Answers)]
    BY <1>0, <1>10 DEF Release
  <2> DEFINE next == [state EXCEPT !.pc = "judge", !.reply = reply]
             answers == told[c] \cup ({reply} \cap Answers)
  <2>2. /\ state.pc = "release" /\ slots' = slots - 1
        /\ UNCHANGED <<parses, cancelled, served>>
    BY <1>10 DEF Release, At
  <2>3. reply \in Replies
    BY <1>0 DEF CallState, Replies
  <2>4. next \in CallState /\ next.pc = "judge" /\ next.reply = reply /\ next.attempt = state.attempt
    BY <1>0, <2>3 DEF CallState
  <2>5. AttemptsOK(next, served[c], answers) /\ HeardOK(next, answers) /\ answers \in SUBSET Answers
    BY <1>0, <1>1, <2>2, <2>4 DEF AttemptsOK, HeardOK
  <2> HIDE DEF next, answers
  <2> QED
    BY <1>0, <1>2, <2>1, <2>2, <2>4, <2>5, OneCallMoves DEF Out, next, answers
<1>11. CASE Retry(c)
  <2> DEFINE next == [state EXCEPT !.pc = "sleep"]
  <2>1. /\ Moved(next) /\ state.pc = "judge" /\ UNCHANGED <<parses, slots, cancelled, served, told>>
        /\ state.reply \in {"refused", "lost", "busy", "busyTooMany", "limited"} /\ state.attempt < Retries
    BY <1>0, <1>11 DEF Retry, At, Goto, MayRetry, Retried
  <2>2. next \in CallState /\ next.pc = "sleep" /\ next.attempt = state.attempt
    BY <1>0 DEF CallState
  <2>3. AttemptsOK(next, served[c], told[c]) /\ HeardOK(next, told[c])
    BY <1>0, <1>1, <2>1, <2>2 DEF AttemptsOK, HeardOK, Conclusive, Understood
  <2> QED
    BY <1>3, <2>1, <2>2, <2>3 DEF Out
<1>12. CASE Return(c)
  <2> DEFINE next == [state EXCEPT !.pc = "returned"]
  <2>1. Moved(next) /\ state.pc = "judge" /\ UNCHANGED <<parses, slots, cancelled, served, told>>
    BY <1>0, <1>12 DEF Return, At, Goto
  <2>2. /\ next \in CallState /\ next.pc = "returned" /\ next.attempt = state.attempt
        /\ next.reply = state.reply
    BY <1>0 DEF CallState
  <2>3. state.reply \in TooMany \ Understood => state.attempt = Retries
    <3>1. ~(Retried(state.reply) /\ state.attempt < Retries)
      BY <1>12 DEF Return, MayRetry
    <3>2. state.attempt \in 0 .. Retries
      BY <1>0 DEF CallState
    <3>3. state.reply \in TooMany \ Understood => Retried(state.reply)
      BY DEF Retried, TooMany, Understood
    <3> QED
      BY <1>0, <3>1, <3>2, <3>3
  <2>4. AttemptsOK(next, served[c], told[c]) /\ HeardOK(next, told[c])
    BY <1>0, <1>1, <2>1, <2>2, <2>3 DEF AttemptsOK, HeardOK
  <2> QED
    BY <1>3, <2>1, <2>2, <2>4 DEF Out
<1>13. CASE Wake(c)
  <2> DEFINE next == [state EXCEPT !.pc = "limit", !.attempt = state.attempt + 1]
  <2>1. Moved(next) /\ state.pc = "sleep" /\ UNCHANGED <<parses, slots, cancelled, served, told>>
    BY <1>0, <1>13 DEF Wake, At
  <2>2. state.attempt < Retries /\ state.attempt \in Nat
    BY <1>0, <1>1, <2>1 DEF AttemptsOK, CallState
  <2>3. next \in CallState /\ next.pc = "limit" /\ next.attempt = state.attempt + 1
    <3>1. state.attempt + 1 \in 0 .. Retries
      BY <1>0, <2>2
    <3> QED
      BY <1>0, <3>1 DEF CallState
  <2>4. AttemptsOK(next, served[c], told[c]) /\ HeardOK(next, told[c])
    BY <1>0, <1>1, <2>1, <2>2, <2>3 DEF AttemptsOK, HeardOK
  <2> QED
    BY <1>3, <2>1, <2>3, <2>4 DEF Out
<1> QED
  BY <1>4, <1>5, <1>6, <1>7, <1>8, <1>9, <1>10, <1>11, <1>12, <1>13 DEF CallStep

(* At first no call has begun.                                             *)
LEMMA InvInit == Init => Inv
<1> SUFFICES ASSUME Init PROVE Inv
  OBVIOUS
<1>1. Holders = {}
  BY DEF Init, Holders
<1>2. SlotsAccounted
  BY <1>1, FS_EmptySet DEF SlotsAccounted, Init
<1>3. TypeOK
  BY RpcAssumption DEF Init, TypeOK, Replies
<1> QED
  BY <1>2, <1>3 DEF Init, Inv, AttemptsOK, HeardOK

(* Every step keeps the invariant.                                         *)
LEMMA InvStep == Inv /\ [Next]_vars => Inv'
<1> SUFFICES ASSUME Inv, [Next]_vars PROVE Inv'
  OBVIOUS
<1>1. ASSUME NEW c \in Call, Cancel(c) PROVE Inv'
  <2>1. Holders' = Holders
    BY <1>1 DEF Cancel, Holders
  <2> QED
    BY <1>1, <2>1 DEF Cancel, Inv, TypeOK, SlotsAccounted
<1>2. CASE UNCHANGED vars
  <2>1. Holders' = Holders
    BY <1>2 DEF vars, Holders
  <2> QED
    BY <1>2, <2>1 DEF vars, Inv, TypeOK, SlotsAccounted
<1> QED
  BY <1>1, <1>2, InvCall DEF Next

-----------------------------------------------------------------------------
(* Type correctness of the client (client.go:60-127).                      *)
THEOREM TypeCorrect == Spec => []TypeOK
<1>1. Inv => TypeOK
  BY DEF Inv
<1> QED
  BY <1>1, InvInit, InvStep, PTL DEF Spec

(* The semaphore holds exactly the tokens of the calls with a request out. *)
THEOREM SlotsAccountedHolds == Spec => []SlotsAccounted
<1>1. Inv => SlotsAccounted
  BY DEF Inv
<1> QED
  BY <1>1, InvInit, InvStep, PTL DEF Spec

(* A node that says the range is too large under an HTTP status other than *)
(* 429 and 5xx is heard on whichever attempt it does; said under one of    *)
(* these, it reaches the caller only after the last attempt.               *)
THEOREM TooManyIsHeardHolds == Spec => []TooManyIsHeard
<1>1. Inv => TooManyIsHeard
  BY DEF Inv, HeardOK, TooManyIsHeard, At
<1> QED
  BY <1>1, InvInit, InvStep, PTL DEF Spec

(* The node executes a request at most once per attempt, and not again     *)
(* after a conclusive answer.                                              *)
THEOREM BoundedWorkHolds == Spec => []BoundedWork
<1>1. Inv => BoundedWork
  BY DEF Inv, AttemptsOK, BoundedWork, Conclusive
<1> QED
  BY <1>1, InvInit, InvStep, PTL DEF Spec
-----------------------------------------------------------------------------
(* The client implements the calls of RemoteCall.                          *)

RemoteStep == [Remote!Next]_(Remote!remote)

(* What the abstract specification sees of one call.                       *)
MayRetryIn(state) == Retried(state.reply) /\ state.attempt < Retries

OverIn(state) ==
    \/ state.pc = "returned"
    \/ state.pc = "judge" /\ ~MayRetryIn(state)

LeftIn(state) ==
    IF OverIn(state) THEN 0
    ELSE IF state.pc \in {"new", "limit", "acquire"} THEN Retries + 1 - state.attempt
    ELSE Retries - state.attempt

UnreadIn(state) == IF state.pc = "release" THEN state.reply ELSE "none"

VerdictIn(state) == IF OverIn(state) THEN state.reply ELSE "none"

(* The views are functions of the calls' states.                           *)
LEMMA ViewsAre ==
    /\ Left = [c \in Call |-> LeftIn(call[c])]
    /\ Unread = [c \in Call |-> UnreadIn(call[c])]
    /\ Verdict = [c \in Call |-> VerdictIn(call[c])]
BY DEF Left, Unread, Verdict, Over, At, MayRetry, LeftIn, UnreadIn, VerdictIn, OverIn, MayRetryIn

(* A step of one call changes what is seen of that call.                   *)
LEMMA ViewsMove ==
    ASSUME Inv, NEW c \in Call, NEW next \in CallState, call' = [call EXCEPT ![c] = next]
    PROVE  /\ Left' = [Left EXCEPT ![c] = LeftIn(next)]
           /\ Unread' = [Unread EXCEPT ![c] = UnreadIn(next)]
           /\ Verdict' = [Verdict EXCEPT ![c] = VerdictIn(next)]
           /\ next.pc \in Out => Holders' = Holders \cup {c}
           /\ next.pc \notin Out => Holders' = Holders \ {c}
           /\ Left[c] = LeftIn(call[c]) /\ Unread[c] = UnreadIn(call[c])
           /\ Verdict[c] = VerdictIn(call[c])
           /\ c \in Holders <=> call[c].pc \in Out
<1>1. /\ call \in [Call -> CallState] /\ call'[c] = next
      /\ \A d \in Call \ {c} : call'[d] = call[d]
      /\ call' \in [Call -> CallState]
  BY DEF Inv, TypeOK, CallState
<1>2. /\ Left' = [d \in Call |-> LeftIn(call'[d])]
      /\ Unread' = [d \in Call |-> UnreadIn(call'[d])]
      /\ Verdict' = [d \in Call |-> VerdictIn(call'[d])]
  <2>1. \A d \in Call : Over(d)' = OverIn(call'[d])
    BY DEF Over, At, MayRetry, OverIn, MayRetryIn
  <2>2. Left' = [d \in Call |-> LeftIn(call'[d])]
    BY <2>1 DEF Left, LeftIn
  <2>3. Unread' = [d \in Call |-> UnreadIn(call'[d])]
    BY DEF Unread, UnreadIn, At
  <2>4. Verdict' = [d \in Call |-> VerdictIn(call'[d])]
    BY <2>1 DEF Verdict, VerdictIn
  <2> QED
    BY <2>2, <2>3, <2>4
<1>3. /\ Left' = [Left EXCEPT ![c] = LeftIn(next)]
      /\ Unread' = [Unread EXCEPT ![c] = UnreadIn(next)]
      /\ Verdict' = [Verdict EXCEPT ![c] = VerdictIn(next)]
  <2>1. \A d \in Call :
           /\ LeftIn(call'[d]) = IF d = c THEN LeftIn(next) ELSE LeftIn(call[d])
           /\ UnreadIn(call'[d]) = IF d = c THEN UnreadIn(next) ELSE UnreadIn(call[d])
           /\ VerdictIn(call'[d]) = IF d = c THEN VerdictIn(next) ELSE VerdictIn(call[d])
    BY <1>1
  <2>2. Left' = [Left EXCEPT ![c] = LeftIn(next)]
    BY <1>2, <2>1, ViewsAre
  <2>3. Unread' = [Unread EXCEPT ![c] = UnreadIn(next)]
    BY <1>2, <2>1, ViewsAre
  <2>4. Verdict' = [Verdict EXCEPT ![c] = VerdictIn(next)]
    BY <1>2, <2>1, ViewsAre
  <2> QED
    BY <2>2, <2>3, <2>4
<1>4. /\ Left[c] = LeftIn(call[c]) /\ Unread[c] = UnreadIn(call[c])
      /\ Verdict[c] = VerdictIn(call[c])
  BY ViewsAre
<1>5. /\ next.pc \in Out => Holders' = Holders \cup {c}
      /\ next.pc \notin Out => Holders' = Holders \ {c}
      /\ c \in Holders <=> call[c].pc \in Out
  BY <1>1 DEF Holders, Out
<1> QED
  BY <1>3, <1>4, <1>5

(* A step after which a call looks as before.                              *)
LEMMA RemoteStill ==
    ASSUME Inv, NEW c \in Call, NEW next \in CallState, call' = [call EXCEPT ![c] = next],
           LeftIn(next) = LeftIn(call[c]), UnreadIn(next) = UnreadIn(call[c]),
           VerdictIn(next) = VerdictIn(call[c]), next.pc \in Out <=> call[c].pc \in Out,
           UNCHANGED <<served, cancelled>>
    PROVE  UNCHANGED Remote!remote
<1>0. /\ Left' = [Left EXCEPT ![c] = LeftIn(next)]
      /\ Unread' = [Unread EXCEPT ![c] = UnreadIn(next)]
      /\ Verdict' = [Verdict EXCEPT ![c] = VerdictIn(next)]
      /\ next.pc \in Out => Holders' = Holders \cup {c}
      /\ next.pc \notin Out => Holders' = Holders \ {c}
      /\ Left[c] = LeftIn(call[c]) /\ Unread[c] = UnreadIn(call[c])
      /\ Verdict[c] = VerdictIn(call[c])
      /\ c \in Holders <=> call[c].pc \in Out
  BY ViewsMove
<1>1. /\ Left' = [Left EXCEPT ![c] = Left[c]] /\ Unread' = [Unread EXCEPT ![c] = Unread[c]]
      /\ Verdict' = [Verdict EXCEPT ![c] = Verdict[c]] /\ Holders' = Holders
  BY <1>0
<1>2. Left' = Left /\ Unread' = Unread /\ Verdict' = Verdict
  <2>1. /\ Left = [d \in Call |-> LeftIn(call[d])] /\ Unread = [d \in Call |-> UnreadIn(call[d])]
        /\ Verdict = [d \in Call |-> VerdictIn(call[d])]
    BY ViewsAre
  <2> QED
    BY <1>1, <2>1
<1> QED
  BY <1>1, <1>2 DEF Remote!remote

(* A request that has come back has a reply.                               *)
Replied == \A c \in Call : call[c].pc = "release" => call[c].reply # "none"

(* Every step keeps it.                                                    *)
LEMMA RepliedStep == Inv /\ Replied /\ [Next]_vars => Replied'
<1> SUFFICES ASSUME Inv, Replied, [Next]_vars PROVE Replied'
  OBVIOUS
<1>1. ASSUME NEW c \in Call, CallStep(c) PROVE Replied'
  <2>1. call \in [Call -> CallState]
    BY DEF Inv, TypeOK, CallState
  <2>2. \A d \in Call \ {c} : call'[d] = call[d]
    BY <1>1, <2>1 DEF CallStep, Start, LimiterGrants, LimiterFails, Acquire, BuildFails, Post,
                     PostFails, Release, Retry, Return, Wake, Goto
  <2>3. call'[c].pc = "release" => call'[c].reply # "none"
    <3>1. CASE Post(c) \/ PostFails(c)
      <4>1. PICK reply \in Replies \ {"none"} :
                call' = [call EXCEPT ![c].pc = "release", ![c].reply = reply]
        BY <3>1 DEF Post, PostFails, Replies, Answers, TooMany, Understood
      <4>2. call'[c].reply = reply
        BY <2>1, <4>1 DEF CallState
      <4> QED
        BY <4>2
    <3>2. CASE ~Post(c) /\ ~PostFails(c)
      BY <1>1, <2>1, <3>2 DEF CallStep, Start, LimiterGrants, LimiterFails, Acquire, BuildFails,
                             Release, Retry, Return, Wake, Goto, CallState
    <3> QED
      BY <3>1, <3>2
  <2> QED
    BY <2>2, <2>3 DEF Replied
<1>2. ASSUME UNCHANGED call PROVE Replied'
  BY <1>2 DEF Replied
<1> QED
  BY <1>1, <1>2 DEF Next, Cancel, vars

(* Every step of a call is a step of the abstract call, or none of it.     *)
LEMMA RemoteCallStep ==
    ASSUME Inv, Replied, NEW c \in Call, CallStep(c)
    PROVE  RemoteStep
<1> DEFINE state == call[c]
           Moved(next) == call' = [call EXCEPT ![c] = next]
<1>0. /\ call \in [Call -> CallState] /\ state \in CallState /\ served \in [Call -> Nat]
      /\ state.attempt \in 0 .. Retries /\ Retries \in Nat /\ state.reply \in Replies
  BY RpcAssumption DEF Inv, TypeOK, CallState
<1>1. ASSUME NEW next \in CallState, Moved(next),
             LeftIn(next) = LeftIn(state), UnreadIn(next) = UnreadIn(state),
             VerdictIn(next) = VerdictIn(state), next.pc \in Out <=> state.pc \in Out,
             UNCHANGED <<served, cancelled>>
      PROVE  RemoteStep
  BY <1>1, RemoteStill DEF RemoteStep
<1>2. ASSUME NEW next \in CallState, Moved(next)
      PROVE  /\ Left' = [Left EXCEPT ![c] = LeftIn(next)]
             /\ Unread' = [Unread EXCEPT ![c] = UnreadIn(next)]
             /\ Verdict' = [Verdict EXCEPT ![c] = VerdictIn(next)]
             /\ next.pc \in Out => Holders' = Holders \cup {c}
             /\ next.pc \notin Out => Holders' = Holders \ {c}
  BY <1>2, ViewsMove
<1>3. /\ Left[c] = LeftIn(state) /\ Unread[c] = UnreadIn(state) /\ Verdict[c] = VerdictIn(state)
      /\ c \in Holders <=> state.pc \in Out
  BY ViewsAre DEF Holders, Out
<1>4. /\ Left = [Left EXCEPT ![c] = LeftIn(state)] /\ Unread = [Unread EXCEPT ![c] = UnreadIn(state)]
      /\ Verdict = [Verdict EXCEPT ![c] = VerdictIn(state)]
  BY <1>3, ViewsAre
<1>5. CASE Start(c) \/ LimiterGrants(c)
  <2>1. PICK pc \in {"limit", "acquire"} : Moved([state EXCEPT !.pc = pc])
    BY <1>0, <1>5 DEF Start, LimiterGrants, Goto
  <2> DEFINE next == [state EXCEPT !.pc = pc]
  <2>2. state.pc \in {"new", "limit"} /\ UNCHANGED <<served, cancelled>>
    BY <1>5 DEF Start, LimiterGrants, At
  <2>3. next \in CallState /\ next.pc = pc /\ next.attempt = state.attempt
    BY <1>0 DEF CallState
  <2>4. /\ LeftIn(next) = LeftIn(state) /\ UnreadIn(next) = UnreadIn(state)
        /\ VerdictIn(next) = VerdictIn(state)
    BY <2>2, <2>3 DEF LeftIn, UnreadIn, VerdictIn, OverIn
  <2> QED
    BY <1>1, <2>1, <2>2, <2>3, <2>4 DEF Out
<1>6. CASE LimiterFails(c)
  <2> DEFINE next == [state EXCEPT !.pc = "returned", !.reply = "cancelled"]
  <2>1. Moved(next) /\ state.pc = "limit" /\ c \in cancelled /\ UNCHANGED <<served, cancelled>>
    BY <1>0, <1>6 DEF LimiterFails, At
  <2>2. next \in CallState /\ next.pc = "returned" /\ next.reply = "cancelled"
    BY <1>0 DEF CallState, Replies
  <2>3. LeftIn(next) = 0 /\ UnreadIn(next) = UnreadIn(state) /\ VerdictIn(next) = "cancelled"
    BY <2>1, <2>2 DEF LeftIn, UnreadIn, VerdictIn, OverIn
  <2>4. VerdictIn(state) = "none" /\ c \notin Holders
    BY <1>3, <2>1 DEF VerdictIn, OverIn, Out
  <2>5. Left' = [Left EXCEPT ![c] = 0] /\ Verdict' = [Verdict EXCEPT ![c] = "cancelled"]
    BY <1>2, <2>1, <2>2, <2>3
  <2>6. Unread' = Unread /\ Holders' = Holders
    <3>1. Unread' = [Unread EXCEPT ![c] = UnreadIn(next)]
      BY <1>2, <2>1, <2>2
    <3>2. Holders' = Holders \ {c}
      BY <1>2, <2>1, <2>2 DEF Out
    <3> QED
      BY <1>4, <2>3, <2>4, <3>1, <3>2
  <2>7. Remote!GiveUp(c)
    BY <1>3, <2>1, <2>4, <2>5, <2>6 DEF Remote!GiveUp, Remote!End
  <2> QED
    BY <2>7 DEF RemoteStep, Remote!Next
<1>7. CASE Acquire(c)
  <2> DEFINE next == [state EXCEPT !.pc = "post"]
  <2>1. Moved(next) /\ state.pc = "acquire" /\ slots < Concurrency /\ UNCHANGED <<served, cancelled>>
    BY <1>0, <1>7 DEF Acquire, At, Goto
  <2>2. next \in CallState /\ next.pc = "post" /\ next.attempt = state.attempt
    BY <1>0 DEF CallState
  <2>3. /\ LeftIn(state) = Retries + 1 - state.attempt /\ LeftIn(next) = Retries - state.attempt
        /\ UnreadIn(next) = UnreadIn(state) /\ VerdictIn(next) = VerdictIn(state)
    BY <2>1, <2>2 DEF LeftIn, UnreadIn, VerdictIn, OverIn
  <2>4. LeftIn(next) = LeftIn(state) - 1 /\ LeftIn(state) > 0
    BY <1>0, <2>3
  <2>5. c \notin Holders /\ Holders' = Holders \cup {c}
    BY <1>2, <1>3, <2>1, <2>2 DEF Out
  <2>6. Left' = [Left EXCEPT ![c] = Left[c] - 1] /\ Left[c] > 0
    BY <1>2, <1>3, <2>1, <2>2, <2>4
  <2>7. Unread' = Unread /\ Verdict' = Verdict
    BY <1>2, <1>4, <2>1, <2>2, <2>3
  <2>8. Cardinality(Holders) < Concurrency
    BY <2>1 DEF Inv, SlotsAccounted
  <2>9. UNCHANGED <<Unread, served, cancelled, Verdict>>
    BY <2>1, <2>7
  <2>10. Remote!Ask(c)
    BY <2>5, <2>6, <2>8, <2>9 DEF Remote!Ask, Remote!Cardinality, Cardinality
  <2> QED
    BY <2>10 DEF RemoteStep, Remote!Next
<1>8. CASE BuildFails(c)
  <2> DEFINE next == [state EXCEPT !.pc = "returned", !.reply = "rejected"]
  <2>1. Moved(next) /\ state.pc = "post" /\ UNCHANGED <<served, cancelled>>
    BY <1>0, <1>8 DEF BuildFails, At
  <2>2. next \in CallState /\ next.pc = "returned" /\ next.reply = "rejected"
    BY <1>0 DEF CallState, Replies, Answers
  <2>3. /\ LeftIn(next) = 0 /\ UnreadIn(next) = "none" /\ UnreadIn(state) = "none"
        /\ VerdictIn(next) = "rejected"
    BY <2>1, <2>2 DEF LeftIn, UnreadIn, VerdictIn, OverIn
  <2>4. c \in Holders /\ Holders' = Holders \ {c} /\ Unread' = Unread /\ Unread[c] = "none"
    <3>1. Unread' = [Unread EXCEPT ![c] = UnreadIn(next)]
      BY <1>2, <2>1, <2>2
    <3>2. c \in Holders /\ Holders' = Holders \ {c}
      BY <1>2, <1>3, <2>1, <2>2 DEF Out
    <3> QED
      BY <1>3, <1>4, <2>3, <3>1, <3>2
  <2>5. Left' = [Left EXCEPT ![c] = 0] /\ Verdict' = [Verdict EXCEPT ![c] = "rejected"]
    BY <1>2, <2>1, <2>2, <2>3
  <2>6. Remote!Unsendable(c)
    BY <2>1, <2>4, <2>5 DEF Remote!Unsendable, Remote!End
  <2> QED
    BY <2>6 DEF RemoteStep, Remote!Next
<1>9. CASE Post(c) \/ PostFails(c)
  <2>1. PICK reply \in Replies :
            /\ Moved([state EXCEPT !.pc = "release", !.reply = reply])
            /\ \/ Post(c) /\ reply \in Answers \cup {"lost", "timedOut", "cut"}
               \/ PostFails(c) /\ reply \in IF c \in cancelled THEN {"cancelled"}
                                                               ELSE {"refused", "timedOut"}
    <3>1. CASE Post(c)
      <4>1. PICK reply \in Answers \cup {"lost", "timedOut", "cut"} :
                Moved([state EXCEPT !.pc = "release", !.reply = reply])
        BY <1>0, <3>1 DEF Post
      <4> QED
        BY <3>1, <4>1 DEF Replies
    <3>2. CASE PostFails(c)
      <4>1. PICK reply \in IF c \in cancelled THEN {"cancelled"} ELSE {"refused", "timedOut"} :
                Moved([state EXCEPT !.pc = "release", !.reply = reply])
        BY <1>0, <3>2 DEF PostFails
      <4> QED
        BY <3>2, <4>1 DEF Replies
    <3> QED
      BY <1>9, <3>1, <3>2
  <2> DEFINE next == [state EXCEPT !.pc = "release", !.reply = reply]
  <2>2. state.pc = "post" /\ UNCHANGED cancelled
    BY <1>9 DEF Post, PostFails, At
  <2>3. next \in CallState /\ next.pc = "release" /\ next.reply = reply /\ next.attempt = state.attempt
    BY <1>0 DEF CallState
  <2>4. /\ LeftIn(next) = LeftIn(state) /\ UnreadIn(next) = reply /\ UnreadIn(state) = "none"
        /\ VerdictIn(next) = VerdictIn(state)
    BY <2>2, <2>3 DEF LeftIn, UnreadIn, VerdictIn, OverIn
  <2> HIDE DEF next
  <2>5. c \in Holders /\ Holders' = Holders /\ Unread[c] = "none"
    <3>1. c \in Holders /\ Unread[c] = "none"
      BY <1>3, <2>2, <2>4 DEF Out
    <3>2. Holders' = Holders \cup {c}
      BY <1>2, <2>1, <2>3 DEF Out, next
    <3> QED
      BY <3>1, <3>2
  <2>6. Left' = Left /\ Verdict' = Verdict /\ Unread' = [Unread EXCEPT ![c] = reply]
    BY <1>2, <1>4, <2>1, <2>3, <2>4 DEF next
  <2>7. CASE Post(c) /\ reply \in Answers \cup {"lost", "timedOut", "cut"}
    <3>1. c \notin cancelled /\ served' = [served EXCEPT ![c] = served[c] + 1]
      BY <1>0, <2>7 DEF Post
    <3>2. reply \in Remote!Executed
      BY <2>7 DEF Remote!Executed, Answers, TooMany, Understood
    <3>3. Remote!Execute(c)
      BY <2>2, <2>5, <2>6, <3>1, <3>2 DEF Remote!Execute
    <3> QED
      BY <3>3 DEF RemoteStep, Remote!Next
  <2>8. CASE PostFails(c) /\ reply \in IF c \in cancelled THEN {"cancelled"}
                                                         ELSE {"refused", "timedOut"}
    <3>1. served' = served
      BY <2>8 DEF PostFails
    <3>2. Remote!Miss(c)
      BY <2>2, <2>5, <2>6, <2>8, <3>1 DEF Remote!Miss, Remote!NotExecuted
    <3> QED
      BY <3>2 DEF RemoteStep, Remote!Next
  <2> QED
    BY <2>1, <2>7, <2>8
<1>10. CASE Release(c)
  <2>1. PICK reply \in {state.reply} \cup {r \in {"cancelled"} : c \in cancelled} :
            Moved([state EXCEPT !.pc = "judge", !.reply = reply])
    BY <1>0, <1>10 DEF Release
  <2> DEFINE next == [state EXCEPT !.pc = "judge", !.reply = reply]
  <2>2. state.pc = "release" /\ UNCHANGED <<served, cancelled>>
    BY <1>10 DEF Release, At
  <2>3. next \in CallState /\ next.pc = "judge" /\ next.reply = reply /\ next.attempt = state.attempt
    BY <1>0 DEF CallState, Replies
  <2>4. /\ LeftIn(state) = Retries - state.attempt /\ UnreadIn(state) = state.reply
        /\ UnreadIn(next) = "none" /\ VerdictIn(state) = "none"
    BY <2>2, <2>3 DEF LeftIn, UnreadIn, VerdictIn, OverIn
  <2> HIDE DEF next
  <2>5. c \in Holders /\ Holders' = Holders \ {c} /\ Unread' = [Unread EXCEPT ![c] = "none"]
    BY <1>2, <1>3, <2>1, <2>2, <2>3, <2>4 DEF Out, next
  <2>6. Left' = [Left EXCEPT ![c] = LeftIn(next)] /\ Verdict' = [Verdict EXCEPT ![c] = VerdictIn(next)]
    BY <1>2, <2>1, <2>3 DEF next
  <2>7. Unread[c] = state.reply /\ state.reply # "none"
    BY <1>3, <2>2, <2>4 DEF Replied
  <2>8. reply \in Remote!Temporary /\ Left[c] > 0 <=> MayRetryIn(next)
    BY <1>0, <1>3, <2>3, <2>4 DEF MayRetryIn, Retried, Remote!Temporary
  <2>9. IF reply \in Remote!Temporary /\ Left[c] > 0
        THEN UNCHANGED <<Left, Verdict>> ELSE Remote!End(c, reply)
    <3>1. CASE MayRetryIn(next)
      <4>1. LeftIn(next) = LeftIn(state) /\ VerdictIn(next) = VerdictIn(state)
        BY <2>3, <2>4, <3>1 DEF LeftIn, VerdictIn, OverIn
      <4> QED
        BY <1>4, <2>6, <2>8, <3>1, <4>1
    <3>2. CASE ~MayRetryIn(next)
      <4>1. LeftIn(next) = 0 /\ VerdictIn(next) = reply
        BY <2>3, <3>2 DEF LeftIn, VerdictIn, OverIn
      <4> QED
        BY <2>6, <2>8, <3>2, <4>1 DEF Remote!End
    <3> QED
      BY <3>1, <3>2
  <2>10. Remote!Hear(c)
    BY <2>1, <2>2, <2>5, <2>7, <2>9 DEF Remote!Hear
  <2> QED
    BY <2>10 DEF RemoteStep, Remote!Next
<1>11. CASE Retry(c) \/ Return(c)
  <2>1. PICK pc \in {"sleep", "returned"} :
            /\ Moved([state EXCEPT !.pc = pc])
            /\ pc = "sleep" <=> MayRetryIn(state)
    BY <1>0, <1>11 DEF Retry, Return, Goto, MayRetry, MayRetryIn
  <2> DEFINE next == [state EXCEPT !.pc = pc]
  <2>2. state.pc = "judge" /\ UNCHANGED <<served, cancelled>>
    BY <1>11 DEF Retry, Return, At
  <2>3. next \in CallState /\ next.pc = pc /\ next.reply = state.reply /\ next.attempt = state.attempt
    BY <1>0 DEF CallState
  <2>4. OverIn(next) <=> OverIn(state)
    BY <2>1, <2>2, <2>3 DEF OverIn
  <2>5. /\ LeftIn(next) = LeftIn(state) /\ UnreadIn(next) = UnreadIn(state)
        /\ VerdictIn(next) = VerdictIn(state)
    BY <2>2, <2>3, <2>4 DEF LeftIn, UnreadIn, VerdictIn
  <2> QED
    BY <1>1, <2>1, <2>2, <2>3, <2>5 DEF Out
<1>12. CASE Wake(c)
  <2> DEFINE next == [state EXCEPT !.pc = "limit", !.attempt = state.attempt + 1]
  <2>1. Moved(next) /\ state.pc = "sleep" /\ UNCHANGED <<served, cancelled>>
    BY <1>0, <1>12 DEF Wake, At
  <2>2. state.attempt < Retries
    BY <2>1 DEF Inv, AttemptsOK
  <2>3. next \in CallState /\ next.pc = "limit" /\ next.attempt = state.attempt + 1
    <3>1. state.attempt + 1 \in 0 .. Retries
      BY <1>0, <2>2
    <3> QED
      BY <1>0, <3>1 DEF CallState
  <2>4. LeftIn(next) = Retries + 1 - (state.attempt + 1) /\ LeftIn(state) = Retries - state.attempt
    BY <2>1, <2>3 DEF LeftIn, OverIn
  <2>5. /\ LeftIn(next) = LeftIn(state) /\ UnreadIn(next) = UnreadIn(state)
        /\ VerdictIn(next) = VerdictIn(state)
    <3>1. Retries + 1 - (state.attempt + 1) = Retries - state.attempt
      BY <1>0
    <3>2. UnreadIn(next) = UnreadIn(state) /\ VerdictIn(next) = VerdictIn(state)
      BY <2>1, <2>3 DEF UnreadIn, VerdictIn, OverIn
    <3> QED
      BY <2>4, <3>1, <3>2
  <2> QED
    BY <1>1, <2>1, <2>3, <2>5 DEF Out
<1> QED
  BY <1>5, <1>6, <1>7, <1>8, <1>9, <1>10, <1>11, <1>12 DEF CallStep

(* The client implements the calls of RemoteCall: however many goroutines  *)
(* compete for it, a call makes all its tries before a temporary failure   *)
(* is its verdict, ends with the first reply that is not temporary, and    *)
(* has no request out without a slot or after the verdict.                 *)
THEOREM RemoteImplemented == Spec => ImplementsRemote
<1>1. Init => Remote!Init /\ Replied
  <2> SUFFICES ASSUME Init PROVE Remote!Init /\ Replied
    OBVIOUS
  <2>1. Holders = {}
    BY DEF Init, Holders
  <2>2. \A c \in Call : call[c].pc = "new" /\ call[c].attempt = 0
    BY DEF Init
  <2>3. \A c \in Call : LeftIn(call[c]) = Retries + 1 /\ UnreadIn(call[c]) = "none"
                          /\ VerdictIn(call[c]) = "none"
    BY <2>2, RpcAssumption DEF LeftIn, UnreadIn, VerdictIn, OverIn
  <2>4. /\ Left = [c \in Call |-> Retries + 1] /\ Unread = [c \in Call |-> "none"]
        /\ Verdict = [c \in Call |-> "none"]
    BY <2>3, ViewsAre
  <2> QED
    BY <2>1, <2>2, <2>4 DEF Init, Remote!Init, Replied
<1>2. ASSUME Inv, Replied, [Next]_vars PROVE RemoteStep
  <2>1. ASSUME NEW c \in Call, Cancel(c) PROVE RemoteStep
    <3>1. UNCHANGED <<call, served>> /\ cancelled' = cancelled \cup {c}
      BY <2>1 DEF Cancel
    <3>2. UNCHANGED <<Left, Unread, Verdict, Holders>>
      BY <3>1 DEF Left, Unread, Verdict, Holders, Over, At, MayRetry
    <3> QED
      BY <3>1, <3>2 DEF RemoteStep, Remote!Next, Remote!Withdraw
  <2>2. CASE UNCHANGED vars
    <3>1. UNCHANGED <<call, served, cancelled>>
      BY <2>2 DEF vars
    <3>2. UNCHANGED <<Left, Unread, Verdict, Holders>>
      BY <3>1 DEF Left, Unread, Verdict, Holders, Over, At, MayRetry
    <3> QED
      BY <3>1, <3>2 DEF RemoteStep, Remote!remote
  <2> QED
    BY <1>2, <2>1, <2>2, RemoteCallStep DEF Next
<1> QED
  BY <1>1, <1>2, RepliedStep, InvInit, InvStep, PTL
     DEF Spec, ImplementsRemote, Remote!Spec, RemoteStep
=============================================================================
