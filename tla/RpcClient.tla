----------------------------- MODULE RpcClient -----------------------------
(***************************************************************************)
(* Client.Call of internal/rpc/client.go, run by several goroutines at     *)
(* once over one client: the rate limiter, the semaphore that bounds the   *)
(* requests in flight, the retry loop with its backoff, and the order in   *)
(* which an answer is judged.                                              *)
(*                                                                         *)
(* Time is abstracted away: the limiter grants a token some time, a sleep  *)
(* ends some time.  A reply is a class of outcomes that the code treats    *)
(* alike.  A request can always be encoded: the parameters of every call   *)
(* in the repository are strings, booleans, and lists and maps of these.   *)
(*   refused         no connection, so the node has not seen the request   *)
(*   lost            the connection broke after the node executed it       *)
(*   timedOut        the HTTP timeout, where the library makes it a        *)
(*                   DeadlineExceeded (elsewhere it is one of the two)     *)
(*   cancelled       the caller's context ended while the request was out  *)
(*   cut             the response ended early                              *)
(*   busy            HTTP 5xx or 429                                       *)
(*   busyTooMany     the same, with a body that isTooManyResults would     *)
(*                   recognise, but that is not looked at                  *)
(*   limited         RPC error -32005, or a message with "timeout"         *)
(*   tooMany, tooManyLimited                                               *)
(*                   with another HTTP status, a message that              *)
(*                   isTooManyResults recognises, without and with the     *)
(*                   properties of limited                                 *)
(*   rejected        any other RPC error, or a body that does not parse    *)
(*   ok              a result                                              *)
(***************************************************************************)
EXTENDS Naturals, FiniteSets

CONSTANTS
    Call,           \* calls of the client
    Concurrency,    \* capacity of the semaphore (indexer.concurrency)
    Retries         \* Client.retries

ASSUME RpcAssumption ==
    /\ IsFiniteSet(Call)
    /\ Concurrency \in Nat \ {0}
    /\ Retries \in Nat

(* What says that the results are too many, and what the code takes so.    *)
Understood == {"tooMany", "tooManyLimited"}
TooMany == Understood \cup {"busyTooMany"}
Answers == {"busy", "limited", "rejected", "ok"} \cup TooMany
Replies == Answers \cup {"none", "refused", "lost", "timedOut", "cancelled", "cut"}

VARIABLES
    parses,         \* the configured URL parses
    slots,          \* tokens in Client.sem
    call,           \* what each call does, its attempt and its last reply
    cancelled,      \* calls whose context has ended
    served,         \* node: how often it executed the request of a call
    told            \* history: the answers a call has read

vars == <<parses, slots, call, cancelled, served, told>>

Init ==
    /\ parses \in BOOLEAN
    /\ slots = 0
    /\ call = [c \in Call |-> [pc |-> "new", attempt |-> 0, reply |-> "none"]]
    /\ cancelled = {}
    /\ served = [c \in Call |-> 0]
    /\ told = [c \in Call |-> {}]

At(c, pc) == call[c].pc = pc
Goto(c, pc) == call' = [call EXCEPT ![c].pc = pc]
-----------------------------------------------------------------------------
Start(c) ==
    /\ At(c, "new")
    /\ Goto(c, "limit")
    /\ UNCHANGED <<parses, slots, cancelled, served, told>>

(* limiter.Wait: it fails when the context has ended.                      *)
LimiterGrants(c) ==
    /\ At(c, "limit") /\ c \notin cancelled
    /\ Goto(c, "acquire")
    /\ UNCHANGED <<parses, slots, cancelled, served, told>>

LimiterFails(c) ==
    /\ At(c, "limit") /\ c \in cancelled
    /\ call' = [call EXCEPT ![c].pc = "returned", ![c].reply = "cancelled"]
    /\ UNCHANGED <<parses, slots, cancelled, served, told>>

(* The send on the semaphore does not look at the context.                 *)
Acquire(c) ==
    /\ At(c, "acquire") /\ slots < Concurrency
    /\ slots' = slots + 1
    /\ Goto(c, "post")
    /\ UNCHANGED <<parses, cancelled, served, told>>

BuildFailsKeepingSlot(c) ==
    /\ At(c, "post") /\ ~parses
    /\ call' = [call EXCEPT ![c].pc = "returned", ![c].reply = "rejected"]
    /\ UNCHANGED <<parses, slots, cancelled, served, told>>

BuildFails(c) ==
    /\ At(c, "post") /\ ~parses
    /\ slots' = slots - 1
    /\ call' = [call EXCEPT ![c].pc = "returned", ![c].reply = "rejected"]
    /\ UNCHANGED <<parses, cancelled, served, told>>

(* httpClient.Do reaches the node, or it does not.                         *)
Post(c) ==
    /\ At(c, "post") /\ parses /\ c \notin cancelled
    /\ served' = [served EXCEPT ![c] = @ + 1]
    /\ \E reply \in Answers \cup {"lost", "timedOut", "cut"} :
          call' = [call EXCEPT ![c].pc = "release", ![c].reply = reply]
    /\ UNCHANGED <<parses, slots, cancelled, told>>

PostFails(c) ==
    /\ At(c, "post") /\ parses
    /\ \E reply \in IF c \in cancelled THEN {"cancelled"} ELSE {"refused", "timedOut"} :
          call' = [call EXCEPT ![c].pc = "release", ![c].reply = reply]
    /\ UNCHANGED <<parses, slots, cancelled, served, told>>

(* The slot is given back before the body is read, the answer judged, or   *)
(* the retry's backoff slept.                                              *)
Release(c) ==
    /\ At(c, "release")
    /\ slots' = slots - 1
    /\ \E reply \in {call[c].reply} \cup {r \in {"cancelled"} : c \in cancelled} :
          /\ call' = [call EXCEPT ![c].pc = "judge", ![c].reply = reply]
          /\ told' = [told EXCEPT ![c] = @ \cup ({reply} \cap Answers)]
    /\ UNCHANGED <<parses, cancelled, served>>

(* What is worth another attempt: the HTTP status is judged first, then    *)
(* the message is searched for results that are too many, then for the     *)
(* signs of a rate limit.                                                  *)
RetriedEvenTooMany(reply) ==
    reply \in {"refused", "lost", "busy", "busyTooMany", "limited", "tooManyLimited"}

Retried(reply) == reply \in {"refused", "lost", "busy", "busyTooMany", "limited"}

MayRetryOnceMore(c) == Retried(call[c].reply) /\ call[c].attempt <= Retries

MayRetryOnceLess(c) == Retried(call[c].reply) /\ call[c].attempt + 1 < Retries

MayRetry(c) == Retried(call[c].reply) /\ call[c].attempt < Retries

Retry(c) ==
    /\ At(c, "judge") /\ MayRetry(c)
    /\ Goto(c, "sleep")
    /\ UNCHANGED <<parses, slots, cancelled, served, told>>

Return(c) ==
    /\ At(c, "judge") /\ ~MayRetry(c)
    /\ Goto(c, "returned")
    /\ UNCHANGED <<parses, slots, cancelled, served, told>>

(* The backoff ends; it does not look at the context.                      *)
WakeSameAttempt(c) ==
    /\ At(c, "sleep")
    /\ Goto(c, "limit")
    /\ UNCHANGED <<parses, slots, cancelled, served, told>>

Wake(c) ==
    /\ At(c, "sleep")
    /\ call' = [call EXCEPT ![c].pc = "limit", ![c].attempt = @ + 1]
    /\ UNCHANGED <<parses, slots, cancelled, served, told>>

(* The caller's context ends.                                              *)
Cancel(c) ==
    /\ c \notin cancelled /\ ~At(c, "returned")
    /\ cancelled' = cancelled \cup {c}
    /\ UNCHANGED <<parses, slots, call, served, told>>

CallStep(c) ==
    \/ Start(c) \/ LimiterGrants(c) \/ LimiterFails(c) \/ Acquire(c)
    \/ BuildFails(c) \/ Post(c) \/ PostFails(c) \/ Release(c)
    \/ Retry(c) \/ Return(c) \/ Wake(c)

Next == \E c \in Call : CallStep(c) \/ Cancel(c)

Spec == Init /\ [][Next]_vars

(* The limiter grants tokens, a request ends at the latest with the HTTP   *)
(* timeout, a sleep ends, and goroutines keep running.                     *)
Fairness == \A c \in Call : WF_vars(CallStep(c))

FairSpec == Spec /\ Fairness
-----------------------------------------------------------------------------
Holders == {c \in Call : call[c].pc \in {"post", "release"}}

(* Every variable has its type.                                            *)
TypeOK ==
    /\ parses \in BOOLEAN
    /\ slots \in 0 .. Concurrency
    /\ call \in [Call -> [pc : {"new", "limit", "acquire", "post", "release", "judge", "sleep",
                                "returned"},
                          attempt : 0 .. Retries, reply : Replies]]
    /\ cancelled \subseteq Call
    /\ served \in [Call -> Nat]
    /\ told \in [Call -> SUBSET Answers]

(* The semaphore holds exactly the tokens of the calls with a request out: *)
(* no path through the loop keeps one, so the client does not run dry, and *)
(* none gives one back twice, so the bound holds (client.go:81-90).        *)
SlotsAccounted == slots = Cardinality(Holders)

(* A node that says the range is too large under an HTTP status other than *)
(* 429 and 5xx is heard on whichever attempt it does: the call asks no     *)
(* more and the caller learns it, also when the RPC error has the code of  *)
(* a rate limit, so the chunk can shrink.  Under HTTP 429 or 5xx it is not *)
(* heard: the caller gets such an answer, as an error like any other, only *)
(* when no attempt is left, so the chunk does not shrink and the indexer   *)
(* ends (client.go:97-118, extract.go:76-82).                              *)
TooManyIsHeard ==
    \A c \in Call :
        /\ told[c] \cap Understood # {} =>
               call[c].pc \in {"judge", "returned"} /\ call[c].reply \in Understood
        /\ At(c, "returned") /\ call[c].reply \in TooMany \ Understood =>
               call[c].attempt = Retries

(* The node executes a request at most once per attempt, and again only    *)
(* when no answer to it was read that says what became of it: this bounds  *)
(* what a repeated eth_sendTransaction can do (client.go:72-125,           *)
(* cmd/ui/main.go:208).                                                    *)
BoundedWork ==
    \A c \in Call :
        /\ served[c] <= call[c].attempt + 1
        /\ call[c].pc \in {"sleep", "limit", "acquire", "post"} =>
               told[c] \cap {"ok", "rejected"} = {}

(* Limiter, semaphore, judging, backoff and attempts together are calls    *)
(* with a number of tries each: all of them are made before a temporary    *)
(* failure reaches the caller, the first reply that is not temporary ends  *)
(* the call, and there is no request without a slot or after the verdict   *)
(* (client.go:72-126).                                                     *)
Over(c) == At(c, "returned") \/ (At(c, "judge") /\ ~MayRetry(c))

Left ==
    [c \in Call |->
        IF Over(c) THEN 0
        ELSE IF call[c].pc \in {"new", "limit", "acquire"} THEN Retries + 1 - call[c].attempt
        ELSE Retries - call[c].attempt]

Unread == [c \in Call |-> IF At(c, "release") THEN call[c].reply ELSE "none"]

Verdict == [c \in Call |-> IF Over(c) THEN call[c].reply ELSE "none"]

Remote == INSTANCE RemoteCall WITH
    Limit <- Concurrency, Tries <- Retries + 1, left <- Left, out <- Holders,
    reply <- Unread, withdrawn <- cancelled, verdict <- Verdict

ImplementsRemote == Remote!Spec

(* Every call returns, whatever the node does and whoever holds the slots  *)
(* (client.go:72-126).                                                     *)
Returns == \A c \in Call : <>At(c, "returned")
=============================================================================
