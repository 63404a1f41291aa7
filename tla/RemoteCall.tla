---------------------------- MODULE RemoteCall ----------------------------
(***************************************************************************)
(* What the calls of an RPC client amount to for the callers and for the   *)
(* node, without limiter, semaphore, attempts and backoff: each call has a *)
(* number of tries, at most Limit requests are out at a time, the node     *)
(* executes each at most once, a call is over with the first reply that is *)
(* not temporary, and a temporary one is its verdict only when all tries   *)
(* have been made.  After its verdict a call does nothing.                 *)
(***************************************************************************)
EXTENDS Naturals, FiniteSets

CONSTANTS Call, Limit, Tries

VARIABLES
    left,       \* tries that each call has left
    out,        \* calls whose request is out
    reply,      \* the reply to it, or "none"
    served,     \* how often the node executed the request of a call
    withdrawn,  \* calls whose caller has lost interest
    verdict     \* what the caller learns, or "none"

remote == <<left, out, reply, served, withdrawn, verdict>>

Executed ==
    {"ok", "rejected", "tooMany", "tooManyLimited", "busyTooMany", "busy", "limited", "lost",
     "timedOut", "cut"}
NotExecuted == {"refused", "timedOut"}
Temporary == {"refused", "lost", "busy", "busyTooMany", "limited"}

Init ==
    /\ left = [c \in Call |-> Tries]
    /\ out = {} /\ withdrawn = {}
    /\ reply = [c \in Call |-> "none"] /\ verdict = [c \in Call |-> "none"]
    /\ served = [c \in Call |-> 0]

Ask(c) ==
    /\ left[c] > 0 /\ c \notin out
    /\ Cardinality(out) < Limit
    /\ out' = out \cup {c}
    /\ left' = [left EXCEPT ![c] = @ - 1]
    /\ UNCHANGED <<reply, served, withdrawn, verdict>>

Execute(c) ==
    /\ c \in out \ withdrawn /\ reply[c] = "none"
    /\ \E r \in Executed : reply' = [reply EXCEPT ![c] = r]
    /\ served' = [served EXCEPT ![c] = @ + 1]
    /\ UNCHANGED <<left, out, withdrawn, verdict>>

Miss(c) ==
    /\ c \in out /\ reply[c] = "none"
    /\ \E r \in IF c \in withdrawn THEN {"cancelled"} ELSE NotExecuted :
          reply' = [reply EXCEPT ![c] = r]
    /\ UNCHANGED <<left, out, served, withdrawn, verdict>>

End(c, r) ==
    /\ verdict' = [verdict EXCEPT ![c] = r]
    /\ left' = [left EXCEPT ![c] = 0]

(* A reply that is still being read is lost to a withdrawal.               *)
Hear(c) ==
    /\ c \in out /\ reply[c] # "none"
    /\ out' = out \ {c}
    /\ reply' = [reply EXCEPT ![c] = "none"]
    /\ \E r \in {reply[c]} \cup {w \in {"cancelled"} : c \in withdrawn} :
          IF r \in Temporary /\ left[c] > 0 THEN UNCHANGED <<left, verdict>> ELSE End(c, r)
    /\ UNCHANGED <<served, withdrawn>>

(* The request cannot be made.                                             *)
Unsendable(c) ==
    /\ c \in out /\ reply[c] = "none"
    /\ out' = out \ {c}
    /\ End(c, "rejected")
    /\ UNCHANGED <<reply, served, withdrawn>>

GiveUp(c) ==
    /\ c \in withdrawn \ out /\ verdict[c] = "none"
    /\ End(c, "cancelled")
    /\ UNCHANGED <<out, reply, served, withdrawn>>

Withdraw(c) ==
    /\ withdrawn' = withdrawn \cup {c}
    /\ UNCHANGED <<left, out, reply, served, verdict>>

Next ==
    \E c \in Call :
        \/ Ask(c) \/ Execute(c) \/ Miss(c) \/ Hear(c)
        \/ Unsendable(c) \/ GiveUp(c) \/ Withdraw(c)

Spec == Init /\ [][Next]_remote
=============================================================================
