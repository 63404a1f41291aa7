----------------------------- MODULE ConfigFile -----------------------------
(***************************************************************************)
(* The config file that the processes share, and the start of the logs     *)
(* indexer from it.  The UI server handles requests to /api/token/apply    *)
(* concurrently and without a lock: each reads the file, changes one       *)
(* address and rewrites the file with os.WriteFile, which truncates it and *)
(* then writes it.  The server may die between any two of these steps, and *)
(* an indexer may be started at any of them.  The running indexer is the   *)
(* chunker of ChunkerRun, made from the config it loaded.                  *)
(***************************************************************************)
EXTENDS Config, Registry, ChunkerRun

CONSTANTS
    Shipped,    \* the config files an operator may start with
    Request,    \* requests to /api/token/apply
    Address,    \* the address each of them carries
    Length,     \* the length of an address in the file
    Lower       \* names of contracts in lower case

(* The operator's files parse and name a contract; their chunk sizes leave *)
(* room for the sum of OnSuccess, which nothing in the code checks.        *)
ASSUME ConfigFileAssumption ==
    /\ \A c \in Shipped :
          /\ IsConfig(c) /\ c.contracts # <<>> /\ FitsWord(IndexerDefaults(c.indexer).max)
          /\ \A i \in DOMAIN c.contracts : Length[c.contracts[i].address] \in Nat
    /\ \A r \in Request : Address[r] \in STRING /\ Length[Address[r]] \in Nat

VARIABLES
    shipped,    \* history: the file the operator wrote
    file,       \* the config the file holds, if it parses, and its length
    server,     \* whether the UI server runs
    request,    \* what each request does next, and the config it will write
    mishaps,    \* history: what went wrong inside os.WriteFile
    indexer     \* the config of the running indexer, if one runs

ui == <<file, server, request, mishaps>>
vars == <<shipped, ui, indexer, chunkerVars>>

(* The contract that updateConfigTokenAddress changes: the first with one  *)
(* of two names, whatever the case of their letters.                       *)
TokenNames == {name \in DOMAIN Lower : Lower[name] \in {"localerc20", "testtoken"}}

TokenIndexFirst(c) == 1

TokenIndex(c) ==
    LET named == {i \in DOMAIN c.contracts : c.contracts[i].name \in TokenNames}
    IN  IF named = {} THEN 1 ELSE CHOOSE i \in named : \A j \in named : i <= j

SetToken(c, address) == [c EXCEPT !.contracts[TokenIndex(c)].address = address]

(* The contents of the file.  What one writes over a longer text that      *)
(* another wrote keeps the tail of that text: a line break does no harm,   *)
(* the end of a word makes it no YAML any more.                            *)
Whole(c) == [cfg |-> {c}, length |-> Length[c.contracts[TokenIndex(c)].address]]
Truncated == [cfg |-> {}, length |-> 0]
Overwritten(c) ==
    IF file.length <= Whole(c).length THEN {Whole(c)}
    ELSE {[file EXCEPT !.cfg = {}], [file EXCEPT !.cfg = {c}]}

NewRequest == [step |-> "new", cfg |-> {}]

Init ==
    /\ shipped \in Shipped
    /\ file = Whole(shipped)
    /\ server = FALSE /\ mishaps = {}
    /\ request = [r \in Request |-> NewRequest]
    /\ indexer = {}
    /\ chunker = NewChunker(1, 1, 1) /\ from = 1 /\ scale = 1 /\ stored = 0

Writing == {r \in Request : request[r].step = "write"}

-----------------------------------------------------------------------------
(* The handler of one request.                                             *)
Read(r) ==
    /\ server /\ request[r].step = "new"
    /\ \E c \in file.cfg :
          request' = [request EXCEPT ![r] = [step |-> "open", cfg |-> {SetToken(c, Address[r])}]]
    /\ UNCHANGED <<shipped, file, server, mishaps, indexer, chunkerVars>>

(* The file does not parse, or parses to nothing and has no contracts.     *)
Refuse(r) ==
    /\ server /\ request[r].step = "new"
    /\ file.cfg = {}
    /\ request' = [request EXCEPT ![r].step = "refused"]
    /\ UNCHANGED <<shipped, file, server, mishaps, indexer, chunkerVars>>

Open(r) ==
    /\ request[r].step = "open"
    /\ file' = Truncated
    /\ request' = [request EXCEPT ![r].step = "write"]
    /\ mishaps' = mishaps \cup {"overlap" : w \in Writing}
    /\ UNCHANGED <<shipped, server, indexer, chunkerVars>>

Write(r) ==
    /\ request[r].step = "write"
    /\ \E c \in request[r].cfg : file' \in Overwritten(c)
    /\ request' = [request EXCEPT ![r] = [step |-> "done", cfg |-> {}]]
    /\ UNCHANGED <<shipped, server, mishaps, indexer, chunkerVars>>

Kill ==
    /\ server /\ server' = FALSE
    /\ mishaps' = mishaps \cup {"torn" : w \in Writing}
    /\ request' = [r \in Request |-> IF request[r].step \in {"open", "write"}
                                     THEN [step |-> "lost", cfg |-> {}] ELSE request[r]]
    /\ UNCHANGED <<shipped, file, indexer, chunkerVars>>

-----------------------------------------------------------------------------
(* mustLoadConfig of both programs: Load, or exit.  The indexer also needs *)
(* the events of its contracts.                                            *)
StartServer ==
    /\ ~server
    /\ \E c \in file.cfg : Accepts(c)
    /\ server' = TRUE
    /\ UNCHANGED <<shipped, file, request, mishaps, indexer, chunkerVars>>

StartIndexer ==
    /\ indexer = {}
    /\ \E c \in file.cfg :
          /\ Accepts(c) /\ Loadable(c.contracts)
          /\ indexer' = {Validated(c)}
          /\ LET ix == Validated(c).indexer IN Begin(ix.min, ix.max, ix.chunk)
    /\ UNCHANGED <<shipped, ui>>

StopIndexer ==
    /\ indexer # {} /\ indexer' = {}
    /\ Begin(1, 1, 1)
    /\ UNCHANGED <<shipped, ui>>

Indexing ==
    /\ indexer # {}
    /\ Answer
    /\ UNCHANGED <<shipped, ui, indexer>>

Next ==
    \/ \E r \in Request : Read(r) \/ Refuse(r) \/ Open(r) \/ Write(r)
    \/ Kill \/ StartServer \/ StartIndexer \/ StopIndexer \/ Indexing

Spec == Init /\ [][Next]_vars
-----------------------------------------------------------------------------
(* A config differs from another at most in the address of one contract,   *)
(* which has a token's name if any contract has.                           *)
SameButToken(c, old) ==
    \E i \in DOMAIN old.contracts :
        /\ \E address \in {old.contracts[i].address} \cup {Address[r] : r \in Request} :
              c = [old EXCEPT !.contracts[i].address = address]
        /\ old.contracts[i].name \in TokenNames
              \/ \A j \in DOMAIN old.contracts : i <= j /\ old.contracts[j].name \notin TokenNames

(* Whatever requests overlap, the file holds the operator's config with at *)
(* most the token's address changed.  Only a server that died between the  *)
(* truncation and the write, or two overlapping requests whose addresses   *)
(* differ in length, can leave it unreadable (cmd/ui/main.go:280-307).     *)
FileSurvives ==
    /\ \A c \in file.cfg : SameButToken(c, shipped)
    /\ file.cfg = {} =>
          \/ Writing # {} \/ "torn" \in mishaps
          \/ /\ "overlap" \in mishaps
             /\ \E r, s \in Request : Length[Address[r]] < Length[Address[s]]

(* The defaults: what the other modules assume of a config, with a chunker *)
(* that has nothing to repair, and the mempool feed on the network that    *)
(* was selected.                                                           *)
Sane(c, old) ==
    /\ 1 <= c.indexer.min /\ c.indexer.min <= c.indexer.chunk
    /\ c.indexer.chunk <= c.indexer.max
    /\ \A n \in {c.indexer.concurrency, c.mempool.pendingWorkers, c.mempool.receiptWorkers,
                 c.mempool.droppedTTL, c.mempool.maxInflight} : n >= 1
    /\ old.network # "" => c.chain = old.networks[old.network]
    /\ old.mempool.http = NoURL => c.mempool.http = c.chain.url
    /\ old.mempool.ws = NoURL => c.mempool.ws.host = c.chain.url.host

(* Whenever it was started, also in the middle of a rewrite, the indexer   *)
(* runs with the operator's config, the token's address apart, and with    *)
(* defaults that suit every component (config.go:71-145).                  *)
StartsSane ==
    \A c \in indexer :
        /\ Sane(c, shipped)
        /\ SameButToken(c, Validated(shipped))
        /\ chunker.min = c.indexer.min /\ chunker.max = c.indexer.max

(* The node's filter is a product of addresses and topics, and selects     *)
(* logs that no contract lists; still, a topic is never unknown, and a log *)
(* of a listed event is decoded by its own contract's event, unless two    *)
(* contracts were given one address (registry.go:67-77 and 129-139).       *)
KnownEvents ==
    \A c \in indexer : \A i \in DOMAIN c.contracts : \A log \in Emits(c.contracts[i]) :
        Wanted(c.contracts, log) =>
            /\ Lookup(c.contracts, log) # {}
            /\ \/ SpecFor(c.contracts, log).indexed = log.indexed
               \/ log.topic \notin {event.topic : event \in Events(c.contracts[i])}
               \/ \E j \in DOMAIN c.contracts \ {i} : c.contracts[j].address = log.address
=============================================================================
