-------------------------- MODULE SampleContracts --------------------------
(***************************************************************************)
(* Two contracts for the instances: a token, of which Transfer is indexed, *)
(* and a collection whose Transfer has the same topic but indexes the      *)
(* third argument too, and of which only Approval is indexed.              *)
(***************************************************************************)
Token(name) ==
    [name |-> name, address |-> "token", path |-> "token.json", events |-> {"Transfer"},
     abi |-> [e \in {"Transfer"} |-> [topic |-> "transfer", indexed |-> {1, 2}]]]

Collection ==
    [name |-> "Collection", address |-> "collection", path |-> "collection.json",
     events |-> {"Approval"},
     abi |-> [e \in {"Transfer", "Approval"} |->
                 [topic |-> IF e = "Transfer" THEN "transfer" ELSE "approval",
                  indexed |-> {1, 2, 3}]]]

Contracts == <<Token("ERC20"), Collection>>
============================================================================
