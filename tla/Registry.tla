----------------------------- MODULE Registry -----------------------------
(***************************************************************************)
(* internal/decode/registry.go: which logs the indexer asks the node for,  *)
(* and with which event's layout it decodes a log it gets.  A contract is  *)
(* [name, address, abi, events], where abi gives for each event name the   *)
(* topic and the positions of the indexed arguments, and events is the set *)
(* of names the configuration lists.  A log is [address, topic, indexed].  *)
(* Two events have one topic when their names and argument types agree;    *)
(* which arguments are indexed is no part of it.                           *)
(***************************************************************************)
EXTENDS Naturals, Sequences

(* LoadRegistry fails on a listed event that the ABI does not have.        *)
Loadable(contracts) ==
    \A i \in DOMAIN contracts : contracts[i].events \subseteq DOMAIN contracts[i].abi

Events(contract) == {contract.abi[name] : name \in contract.events}

FilterAddresses(contracts) == {contracts[i].address : i \in DOMAIN contracts}

FilterTopics(contracts) ==
    {event.topic : event \in UNION {Events(contracts[i]) : i \in DOMAIN contracts}}

(* What the node selects: any address of the filter with any topic of it.  *)
Wanted(contracts, log) ==
    /\ log.address \in FilterAddresses(contracts)
    /\ log.topic \in FilterTopics(contracts)

(* The contracts that list an event with this topic.  The maps of the      *)
(* registry hold the event of the last such contract: byTopicAddress of    *)
(* those with the address of the log, byTopic of all.                      *)
Listing(contracts, topic) ==
    {i \in DOMAIN contracts : \E event \in Events(contracts[i]) : event.topic = topic}

LookupExact(contracts, log) ==
    {i \in Listing(contracts, log.topic) : contracts[i].address = log.address}

Lookup(contracts, log) ==
    LET own == {i \in Listing(contracts, log.topic) : contracts[i].address = log.address}
    IN  IF own # {} THEN own ELSE Listing(contracts, log.topic)

SpecFor(contracts, log) ==
    LET last == CHOOSE i \in Lookup(contracts, log) : \A j \in Lookup(contracts, log) : j <= i
    IN  CHOOSE event \in Events(contracts[last]) : event.topic = log.topic

(* DecodeLog returns the arguments of the log: the layout of the event is  *)
(* that of the log.  When another number of arguments is indexed it fails; *)
(* when as many others are, it fails or returns other values, by the types *)
(* of the arguments, and that counts as not decoded.                       *)
Decodes(contracts, log) ==
    /\ Lookup(contracts, log) # {}
    /\ SpecFor(contracts, log).indexed = log.indexed

(* The logs a contract can emit, listed or not.                            *)
Emits(contract) ==
    {[address |-> contract.address, topic |-> contract.abi[name].topic,
      indexed |-> contract.abi[name].indexed] : name \in DOMAIN contract.abi}
============================================================================
