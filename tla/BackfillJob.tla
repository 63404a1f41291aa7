---------------------------- MODULE BackfillJob ----------------------------
(***************************************************************************)
(* What the caller of a backfill is promised, without workers, jobs or     *)
(* chunk sizes: only blocks that were asked for are touched, the logs of a *)
(* stretch of blocks come before its checkpoint, a block that has a        *)
(* checkpoint is left alone, nothing is written any more once the caller   *)
(* has its verdict, and the verdict is ok only when exactly what was asked *)
(* for has checkpoints, so that a follower resumes right behind it, or a   *)
(* signal cut the job short.                                               *)
(***************************************************************************)
EXTENDS Naturals

CONSTANT Block  \* block numbers

VARIABLES
    asked,      \* blocks the caller wants
    logged,     \* blocks whose logs are stored
    indexed,    \* blocks under a checkpoint
    signalled,  \* the process got a signal
    verdict     \* "new", "running", "ok", "error" or "killed"

job == <<asked, logged, indexed, signalled, verdict>>

Stretches(S) == {b \in {from .. to : from, to \in S} : b \subseteq S}

Init ==
    /\ asked = {} /\ logged = {} /\ indexed = {}
    /\ signalled = FALSE
    /\ verdict = "new"

Ask ==
    /\ verdict = "new"
    /\ \E from, to \in Block : asked' = from .. to
    /\ verdict' = IF asked' = {} THEN "ok" ELSE "running"
    /\ UNCHANGED <<logged, indexed, signalled>>

Refuse ==
    /\ verdict = "new"
    /\ verdict' = "error"
    /\ UNCHANGED <<asked, logged, indexed, signalled>>

Log ==
    /\ verdict = "running"
    /\ \E b \in Stretches(asked \ indexed) : logged' = logged \cup b
    /\ UNCHANGED <<asked, indexed, signalled, verdict>>

Index ==
    /\ verdict = "running"
    /\ \E b \in Stretches(logged \ indexed) : indexed' = indexed \cup b
    /\ UNCHANGED <<asked, logged, signalled, verdict>>

Signal ==
    /\ verdict = "running"
    /\ signalled' = TRUE
    /\ UNCHANGED <<asked, logged, indexed, verdict>>

Finish ==
    /\ verdict = "running"
    /\ \/ verdict' = "ok" /\ (indexed = asked \/ signalled)
       \/ verdict' \in {"error", "killed"}
    /\ UNCHANGED <<asked, logged, indexed, signalled>>

Next == Ask \/ Refuse \/ Log \/ Index \/ Signal \/ Finish

Spec == Init /\ [][Next]_job
=============================================================================
