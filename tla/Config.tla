------------------------------- MODULE Config -------------------------------
(***************************************************************************)
(* internal/config/config.go: what Load makes of a parsed file.  A config  *)
(* is the record the YAML is unmarshalled into.  Strings are model values  *)
(* or "" when they are absent, a URL is [scheme, host], and a number that  *)
(* is absent is 0.                                                         *)
(***************************************************************************)
EXTENDS Chunker, Integers, Sequences

NoURL == [scheme |-> "", host |-> ""]

(* The values of the Config type.  The field path of a contract is its     *)
(* abi_path and abi the contents of the file there; a topic is the hash of an event's name and    *)
(* the types of its arguments, so that no two events of a file share one.  *)
URLs == [scheme : STRING, host : STRING]
ChainConfig == [url : URLs, id : Nat]
IndexerConfig == [min : Nat, max : Nat, chunk : Nat, concurrency : Int]
MempoolConfig ==
    [http : URLs, ws : URLs, pendingWorkers : Int, receiptWorkers : Int,
     droppedTTL : Int, maxInflight : Int]

IsContractConfig(ctr) ==
    /\ ctr \in [name : STRING, address : STRING, path : STRING,
                events : SUBSET STRING, abi : {ctr.abi}]
    /\ \A e, f \in DOMAIN ctr.abi : ctr.abi[e].topic = ctr.abi[f].topic => e = f

IsConfig(c) ==
    /\ c \in [network : STRING, networks : [DOMAIN c.networks -> ChainConfig],
              chain : ChainConfig, dsn : STRING, indexer : IndexerConfig,
              mempool : MempoolConfig, contracts : Seq({c.contracts[i] : i \in DOMAIN c.contracts})]
    /\ \A i \in DOMAIN c.contracts : IsContractConfig(c.contracts[i])

(* resolveNetwork: a named network replaces the chain section.             *)
NetworkKnown(c) == c.network = "" \/ c.network \in DOMAIN c.networks

ChainOf(c) == IF c.network = "" THEN c.chain ELSE c.networks[c.network]

(* Validate returns no error.                                              *)
Accepts(c) ==
    /\ NetworkKnown(c)
    /\ ChainOf(c).url # NoURL /\ ChainOf(c).id # 0
    /\ c.indexer.chunk # 0 /\ c.dsn # ""
    /\ c.contracts # <<>>
    /\ \A i \in DOMAIN c.contracts :
          /\ "" \notin {c.contracts[i].address, c.contracts[i].path}
          /\ c.contracts[i].events # {}

Default(value, default) == IF value <= 0 THEN default ELSE value

IndexerDefaults(ix) ==
    LET min == Default(ix.min, 10)
        max == Greater(Default(ix.max, ix.chunk), min)
    IN  [ix EXCEPT !.min = min, !.max = max,
                   !.chunk = Lesser(Greater(ix.chunk, min), max),
                   !.concurrency = Default(@, 4)]

DeriveWSURL(url) ==
    [url EXCEPT !.scheme = CASE @ = "https" -> "wss" [] @ = "http" -> "ws" [] OTHER -> @]

MempoolDefaults(mp, chain) ==
    [mp EXCEPT !.http = IF @ = NoURL THEN chain.url ELSE @,
               !.ws = IF @ = NoURL THEN DeriveWSURL(chain.url) ELSE @,
               !.pendingWorkers = Default(@, 32),
               !.receiptWorkers = Default(@, 16),
               !.droppedTTL = Default(@, 600),
               !.maxInflight = Default(@, 50000)]

ValidatedBeforeNetwork(c) ==
    [c EXCEPT !.chain = ChainOf(c),
              !.indexer = IndexerDefaults(@),
              !.mempool = MempoolDefaults(@, c.chain)]

(* The config Load returns: the defaults of the mempool come from the      *)
(* chain that the network selected.                                        *)
Validated(c) ==
    [c EXCEPT !.chain = ChainOf(c),
              !.indexer = IndexerDefaults(@),
              !.mempool = MempoolDefaults(@, ChainOf(c))]
=============================================================================
