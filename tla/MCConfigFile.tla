---------------------------- MODULE MCConfigFile ----------------------------
(***************************************************************************)
(* An instance of ConfigFile for TLC.  The chunk sizes are absent, equal,  *)
(* crossed and far apart, below and above 10, where a tenth of the size    *)
(* rounds to zero.                                                         *)
(***************************************************************************)
EXTENDS ConfigFile, SampleContracts

CONSTANTS r1, r2

Sizes == {0, 1, 7, 25, 40}

Local == [url |-> [scheme |-> "http", host |-> "local"], id |-> 31337]
Mainnet == [url |-> [scheme |-> "https", host |-> "mainnet"], id |-> 1]

Base ==
    [network |-> "", networks |-> [n \in {"local", "mainnet"} |->
                                      IF n = "local" THEN Local ELSE Mainnet],
     chain |-> Local, dsn |-> "file", contracts |-> Contracts,
     indexer |-> [min |-> 7, max |-> 40, chunk |-> 25, concurrency |-> 0],
     mempool |-> [http |-> NoURL, ws |-> NoURL, pendingWorkers |-> 0, receiptWorkers |-> -1,
                  droppedTTL |-> 0, maxInflight |-> 0]]

MCShipped ==
    {[Base EXCEPT !.indexer = [min |-> lo, max |-> hi, chunk |-> size, concurrency |-> 1]] :
        lo, hi, size \in Sizes}
    \cup {[Base EXCEPT !.network = n, !.contracts = c] :
             n \in {"", "mainnet", "nowhere"},
             c \in {Contracts, <<Collection, Token("ERC20")>>, <<Collection, Token("TESTTOKEN")>>}}
    \cup {[Base EXCEPT !.contracts[2].path = ""]}

MCAddress == [r \in Request |-> IF r = r1 THEN "tokenA" ELSE "tokenBB"]

MCLength == [a \in {"token", "collection", "tokenA", "tokenBB"} |->
                IF a = "tokenBB" THEN 2 ELSE 1]

MCLower == [name \in {"ERC20", "Collection", "TESTTOKEN"} |->
               CASE name = "ERC20" -> "erc20" [] name = "TESTTOKEN" -> "testtoken"
                 [] OTHER -> "collection"]
=============================================================================
