------------------------------ MODULE MCFollow ------------------------------
(***************************************************************************)
(* Instances of Follow for TLC, and the restricted environments in which   *)
(* some questions are asked.                                               *)
(***************************************************************************)
EXTENDS FollowIdle, SampleContracts

R == INSTANCE Registry

CONSTANTS k1, k2, k3, a, b

(* Two empty bodies make two branches without logs differ; the others add  *)
(* one of the logs, so that a chunk of one block is never too large for a  *)
(* result limit of 1 and a chunk of two blocks may be.                     *)
MCBodies == {[salt |-> a, logs |-> {}], [salt |-> b, logs |-> {}],
             [salt |-> a, logs |-> {k1}], [salt |-> a, logs |-> {k2}],
             [salt |-> a, logs |-> {k3}]}

MCFewBodies == {body \in MCBodies : k3 \notin body.logs}

MCKey == {k1, k2, k3}

(* k1 and k3 are transfers of the token, k2 one of the collection: the     *)
(* filter selects all of them, as it holds the topic of the token's        *)
(* Transfer and the collection's address, but k2 cannot be decoded.        *)
Log(k) ==
    [address |-> IF k = k2 THEN "collection" ELSE "token", topic |-> "transfer",
     indexed |-> IF k = k2 THEN {1, 2, 3} ELSE {1, 2}]

ASSUME \A k \in MCKey : R!Wanted(Contracts, Log(k))

MCUndecodable == {k \in MCKey : ~R!Decodes(Contracts, Log(k))}

(* The collection is not configured.                                       *)
MCNone == {}

(* The chains on which a backfill may have run, and its chunks.            *)
Chains ==
    {c \in UNION {[1..n -> Bodies] : n \in 0..3} :
        \A i, j \in DOMAIN c : i # j => c[i].logs \cap c[j].logs = {}}

Ranges == {r \in [start : 1..3, end : 1..3] : r.start <= r.end}

ASSUME Backfills(Chains, Ranges)

MCBackfilled == BackfilledInit(Chains, Ranges)

IdleSpec == MCBackfilled /\ [][IdleNext]_vars

(* A reorganisation only while a chunk is between its getLogs answer and   *)
(* its checkpoint.                                                         *)
RaceNext ==
    \/ Step
    \/ (Mine \/ (pc \in {"build", "header"} /\ Reorg)) /\ UNCHANGED <<store, process, faults>>

RaceSpec == Init /\ [][RaceNext]_vars /\ Fairness
=============================================================================
