-------------------------- MODULE ConfigFileProofs --------------------------
(***************************************************************************)
(* Theorems about the config file and what an indexer makes of it, for     *)
(* every file an operator may write, any number of concurrent requests and *)
(* any number of deaths of the server.                                     *)
(***************************************************************************)
EXTENDS ConfigFile, ChunkerProofs, FiniteSetTheorems

-----------------------------------------------------------------------------
(* A non-empty set of natural numbers has a least element: of the          *)
(* intervals up to its elements, one is minimal under inclusion.           *)
LEMMA LeastNatural ==
    ASSUME NEW S \in SUBSET Nat, S # {}
    PROVE  \E n \in S : \A m \in S : n <= m
<1> DEFINE T == {0..n : n \in S}
<1>1. T \subseteq FiniteSubsetsOf(Nat)
  <2>1. ASSUME NEW n \in S PROVE 0..n \in SUBSET Nat /\ IsFiniteSet(0..n)
    <3>1. n \in Int /\ 0 \in Int
      OBVIOUS
    <3> QED
      BY <3>1, FS_Interval
  <2> QED
    BY <2>1 DEF FiniteSubsetsOf
<1>2. T # {}
  OBVIOUS
<1>3. IsWellFoundedOn(StrictSubsetOrdering(Nat), FiniteSubsetsOf(Nat))
  BY FS_StrictSubsetOrderingWellFounded
<1>4. PICK x \in T : \A y \in T : ~ (<<y, x>> \in StrictSubsetOrdering(Nat))
  <2> HIDE DEF T
  <2> QED
    BY <1>1, <1>2, <1>3, WFMin
<1>5. PICK n \in S : x = 0..n
  OBVIOUS
<1>6. ASSUME NEW m \in S, ~ (n <= m) PROVE FALSE
  <2>1. 0..m \in T /\ 0..m \subseteq 0..n /\ n \in 0..n /\ n \notin 0..m
    BY <1>6
  <2>2. <<0..m, x>> \in (SUBSET Nat) \X (SUBSET Nat)
    BY <1>5
  <2>3. <<0..m, x>> \in StrictSubsetOrdering(Nat)
    BY <1>5, <2>1, <2>2 DEF StrictSubsetOrdering
  <2> QED
    BY <1>4, <2>1, <2>3
<1> QED
  BY <1>6

-----------------------------------------------------------------------------
(* What a request makes of the operator's file.                            *)
Written(c) == IsConfig(c) /\ c.contracts # <<>>

Named(c) == {i \in DOMAIN c.contracts : c.contracts[i].name \in TokenNames}
Least(S) == CHOOSE i \in S : \A j \in S : i <= j

LEMMA TokenIndexNamed ==
    ASSUME NEW c
    PROVE  TokenIndex(c) = IF Named(c) = {} THEN 1 ELSE Least(Named(c))
BY DEF TokenIndex, Named, Least

(* The contract whose address changes is one of the file's, and one with a *)
(* token's name if there is any.                                           *)
LEMMA TokenIndexChosen ==
    ASSUME NEW c, Written(c)
    PROVE  /\ TokenIndex(c) \in DOMAIN c.contracts
           /\ \/ c.contracts[TokenIndex(c)].name \in TokenNames
              \/ \A j \in DOMAIN c.contracts :
                    TokenIndex(c) <= j /\ c.contracts[j].name \notin TokenNames
<1>1. DOMAIN c.contracts = 1..Len(c.contracts) /\ Len(c.contracts) \in Nat \ {0}
  BY DEF Written, IsConfig
<1>2. CASE Named(c) = {}
  <2>1. TokenIndex(c) = 1
    BY <1>2, TokenIndexNamed
  <2>2. \A j \in DOMAIN c.contracts : c.contracts[j].name \notin TokenNames
    BY <1>2 DEF Named
  <2> QED
    BY <1>1, <2>1, <2>2
<1>3. CASE Named(c) # {}
  <2>1. Named(c) \in SUBSET Nat
    BY <1>1 DEF Named
  <2>2. Least(Named(c)) \in Named(c)
    BY <1>3, <2>1, LeastNatural DEF Least
  <2> QED
    BY <1>3, <2>2, TokenIndexNamed DEF Named
<1> QED
  BY <1>2, <1>3

(* The config a request writes differs from the file it read in the one    *)
(* address, which is the one requested.                                    *)
OnlyAddress(new, c, address) ==
    /\ DOMAIN new.contracts = DOMAIN c.contracts
    /\ new.contracts[TokenIndex(c)].address = address
    /\ new.contracts = [c.contracts EXCEPT ![TokenIndex(c)].address = address]
    /\ new = [c EXCEPT !.contracts = new.contracts]
    /\ \A i \in DOMAIN c.contracts :
          /\ new.contracts[i].name = c.contracts[i].name
          /\ new.contracts[i].events = c.contracts[i].events
          /\ new.contracts[i].abi = c.contracts[i].abi

LEMMA TokenSet ==
    ASSUME NEW c, Written(c), NEW address \in STRING
    PROVE  OnlyAddress(SetToken(c, address), c, address)
<1> DEFINE new == SetToken(c, address)
           t == TokenIndex(c)
<1>1. t \in DOMAIN c.contracts
  BY TokenIndexChosen
<1>2. new.contracts = [c.contracts EXCEPT ![t].address = address]
  BY DEF SetToken, Written, IsConfig
<1>3. \A i \in DOMAIN c.contracts :
         c.contracts[i] \in [name : STRING, address : STRING, path : STRING,
                             events : SUBSET STRING, abi : {c.contracts[i].abi}]
  BY DEF Written, IsConfig, IsContractConfig
<1>4. new = [c EXCEPT !.contracts = new.contracts]
  BY <1>2 DEF SetToken
<1> HIDE DEF t, new
<1>5. new.contracts[t].address = address
  BY <1>1, <1>2, <1>3
<1>6. \A i \in DOMAIN c.contracts :
         /\ new.contracts[i].name = c.contracts[i].name
         /\ new.contracts[i].events = c.contracts[i].events
         /\ new.contracts[i].abi = c.contracts[i].abi
  BY <1>1, <1>2, <1>3
<1> QED
  BY <1>2, <1>4, <1>5, <1>6 DEF t, new, OnlyAddress

-----------------------------------------------------------------------------
(* The texts that the file can hold: the operator's, and one per request.  *)
Texts == {shipped} \cup {SetToken(shipped, Address[r]) : r \in Request}

Steps == {"new", "open", "write", "done", "lost", "refused"}

(* Every text is the operator's with the token's address changed, however  *)
(* many requests changed it before.                                        *)
LEMMA TextsType ==
    ASSUME shipped \in Shipped, NEW c \in Texts
    PROVE  /\ Written(c) /\ TokenIndex(c) = TokenIndex(shipped)
           /\ c = [shipped EXCEPT !.contracts = c.contracts]
           /\ DOMAIN c.contracts = DOMAIN shipped.contracts
           /\ \A i \in DOMAIN shipped.contracts :
                 /\ c.contracts[i].name = shipped.contracts[i].name
                 /\ c.contracts[i].events = shipped.contracts[i].events
                 /\ c.contracts[i].abi = shipped.contracts[i].abi
           /\ Whole(c).length \in Nat
<1>1. Written(shipped)
  BY ConfigFileAssumption DEF Written
<1>2. CASE c = shipped
  <2>1. TokenIndex(c) \in DOMAIN c.contracts
    BY <1>1, <1>2, TokenIndexChosen
  <2>2. Whole(c).length \in Nat
    BY <1>2, <2>1, ConfigFileAssumption DEF Whole
  <2>3. c = [shipped EXCEPT !.contracts = c.contracts]
    BY <1>1, <1>2 DEF Written, IsConfig
  <2> QED
    BY <1>1, <1>2, <2>2, <2>3
<1>3. CASE c # shipped
  <2>1. PICK r \in Request : c = SetToken(shipped, Address[r])
    BY <1>3 DEF Texts
  <2>2. /\ DOMAIN c.contracts = DOMAIN shipped.contracts
        /\ c.contracts[TokenIndex(shipped)].address = Address[r]
        /\ c.contracts = [shipped.contracts EXCEPT ![TokenIndex(shipped)].address = Address[r]]
        /\ c = [shipped EXCEPT !.contracts = c.contracts]
        /\ \A i \in DOMAIN shipped.contracts :
              /\ c.contracts[i].name = shipped.contracts[i].name
              /\ c.contracts[i].events = shipped.contracts[i].events
              /\ c.contracts[i].abi = shipped.contracts[i].abi
    <3>1. Address[r] \in STRING
      BY ConfigFileAssumption
    <3>2. OnlyAddress(c, shipped, Address[r])
      BY <1>1, <2>1, <3>1, TokenSet
    <3> QED
      BY <3>2 DEF OnlyAddress
  <2>3. TokenIndex(c) = TokenIndex(shipped)
    <3>1. Named(c) = Named(shipped)
      BY <2>2 DEF Named
    <3> QED
      BY <3>1, TokenIndexNamed
  <2>4. Whole(c).length \in Nat
    BY <2>2, <2>3, ConfigFileAssumption DEF Whole
  <2>5. Written(c)
    <3>1. \A i \in DOMAIN c.contracts : IsContractConfig(c.contracts[i])
      <4>1. \A i \in DOMAIN shipped.contracts :
               /\ IsContractConfig(shipped.contracts[i])
               /\ c.contracts[i] = shipped.contracts[i]
                  \/ c.contracts[i] = [shipped.contracts[i] EXCEPT !.address = Address[r]]
        BY <1>1, <2>2 DEF Written, IsConfig
      <4> SUFFICES ASSUME NEW i \in DOMAIN shipped.contracts,
                          NEW d, d = [shipped.contracts[i] EXCEPT !.address = Address[r]]
                   PROVE  IsContractConfig(d)
        BY <2>2, <4>1
      <4>2. Address[r] \in STRING /\ IsContractConfig(shipped.contracts[i])
        BY <4>1, ConfigFileAssumption
      <4>3. d.abi = shipped.contracts[i].abi
        BY <4>2 DEF IsContractConfig
      <4> QED
        BY <4>2, <4>3 DEF IsContractConfig
    <3>2. /\ DOMAIN c.contracts = 1..Len(shipped.contracts)
          /\ Len(shipped.contracts) \in Nat \ {0}
      BY <1>1, <2>2 DEF Written, IsConfig
    <3>3. c.contracts \in Seq({c.contracts[i] : i \in DOMAIN c.contracts}) /\ c.contracts # <<>>
      <4> DEFINE S == {c.contracts[i] : i \in DOMAIN c.contracts}
      <4>1. c.contracts = [i \in DOMAIN c.contracts |-> c.contracts[i]]
        BY <2>2
      <4>2. c.contracts \in [1..Len(shipped.contracts) -> S]
        BY <3>2, <4>1
      <4> HIDE DEF S
      <4>3. c.contracts \in Seq(S) /\ c.contracts # <<>>
        BY <3>2, <4>2
      <4> QED
        BY <4>3 DEF S
    <3> QED
      BY <1>1, <2>2, <3>1, <3>3 DEF Written, IsConfig
  <2> QED
    BY <2>2, <2>3, <2>4, <2>5
<1> QED
  BY <1>2, <1>3
(* A request changes any of the texts into its own.                        *)
LEMMA TextSetAgain ==
    ASSUME shipped \in Shipped, NEW c \in Texts, NEW r \in Request
    PROVE  SetToken(c, Address[r]) = SetToken(shipped, Address[r])
<1>1. CASE c = shipped
  BY <1>1
<1>2. CASE c # shipped
  <2> DEFINE t == TokenIndex(shipped)
  <2>1. PICK s \in Request : c = SetToken(shipped, Address[s])
    BY <1>2 DEF Texts
  <2>2. Written(shipped) /\ Address[s] \in STRING /\ Address[r] \in STRING
    BY ConfigFileAssumption DEF Written
  <2>3. TokenIndex(c) = t /\ t \in DOMAIN shipped.contracts
    BY <2>2, TextsType, TokenIndexChosen
  <2>4. /\ c = [shipped EXCEPT !.contracts = c.contracts]
        /\ c.contracts = [shipped.contracts EXCEPT ![t].address = Address[s]]
    BY <2>1, <2>2, TokenSet DEF OnlyAddress
  <2>5. shipped.contracts[t] \in [name : STRING, address : STRING, path : STRING,
                                  events : SUBSET STRING, abi : {shipped.contracts[t].abi}]
    BY <2>2, <2>3 DEF Written, IsConfig, IsContractConfig
  <2>6. SetToken(c, Address[r]) = [c EXCEPT !.contracts[t].address = Address[r]]
    BY <2>3 DEF SetToken
  <2>7. SetToken(shipped, Address[r]) = [shipped EXCEPT !.contracts[t].address = Address[r]]
    BY DEF SetToken
  <2> HIDE DEF t
  <2>8. [c.contracts EXCEPT ![t].address = Address[r]]
        = [shipped.contracts EXCEPT ![t].address = Address[r]]
    BY <2>3, <2>4, <2>5
  <2>9. [c EXCEPT !.contracts = [c.contracts EXCEPT ![t].address = Address[r]]]
         = [shipped EXCEPT !.contracts = [c.contracts EXCEPT ![t].address = Address[r]]]
    BY <2>4
  <2> QED
    BY <2>6, <2>7, <2>8, <2>9
<1> QED
  BY <1>1, <1>2

(* Every text differs from the operator's as FileSurvives says.            *)
LEMMA TextsSameButToken ==
    ASSUME shipped \in Shipped, NEW c \in Texts
    PROVE  SameButToken(c, shipped)
<1> DEFINE t == TokenIndex(shipped)
<1>1. Written(shipped)
  BY ConfigFileAssumption DEF Written
<1>2. /\ t \in DOMAIN shipped.contracts
      /\ \/ shipped.contracts[t].name \in TokenNames
         \/ \A j \in DOMAIN shipped.contracts :
               t <= j /\ shipped.contracts[j].name \notin TokenNames
  BY <1>1, TokenIndexChosen
<1>3. \E address \in {shipped.contracts[t].address} \cup {Address[r] : r \in Request} :
         c = [shipped EXCEPT !.contracts[t].address = address]
  <2>1. CASE c = shipped
    <3>1. shipped = [shipped EXCEPT !.contracts[t].address = shipped.contracts[t].address]
      <4> HIDE DEF t
      <4> QED
        BY <1>1, <1>2 DEF Written, IsConfig, IsContractConfig
    <3> QED
      BY <2>1, <3>1
  <2>2. CASE c # shipped
    BY <2>2 DEF Texts, SetToken
  <2> QED
    BY <2>1, <2>2
<1> HIDE DEF t
<1> QED
  BY <1>2, <1>3 DEF SameButToken
-----------------------------------------------------------------------------
(* The file and the requests.  While requests write, the file holds no     *)
(* more than the longest of those that wrote since it was truncated; and   *)
(* it holds anything then only if two requests overlapped.                 *)
FileType ==
    /\ shipped \in Shipped
    /\ file \in [cfg : SUBSET Texts, length : Nat]
    /\ request \in [Request -> [step : Steps, cfg : SUBSET Texts]]
    /\ \A r \in Request : request[r].step \in {"open", "write"} =>
          request[r].cfg = {SetToken(shipped, Address[r])}

Overlapping ==
    /\ \A r, s \in Writing : r # s => "overlap" \in mishaps
    /\ Writing # {} =>
          \/ file.length = 0
          \/ /\ "overlap" \in mishaps
             /\ \E s \in Request : file.length = Length[Address[s]]

Readable ==
    file.cfg = {} =>
        \/ Writing # {} \/ "torn" \in mishaps
        \/ /\ "overlap" \in mishaps
           /\ \E r, s \in Request : Length[Address[r]] < Length[Address[s]]

FileInv == FileType /\ Overlapping /\ Readable

(* The operator's file, before any request.                                *)
LEMMA FileInit == Init => FileInv
<1> SUFFICES ASSUME Init PROVE FileInv
  OBVIOUS
<1>1. shipped \in Shipped /\ shipped \in Texts /\ Whole(shipped).length \in Nat
  BY TextsType DEF Init, Texts
<1>2. file = [cfg |-> {shipped}, length |-> Whole(shipped).length]
  BY DEF Init, Whole
<1>3. Writing = {}
  BY DEF Init, Writing, NewRequest
<1> QED
  BY <1>1, <1>2, <1>3
  DEF Init, FileInv, FileType, Overlapping, Readable, NewRequest, Steps

(* A request writes its own text, of the length of its address.            *)
LEMMA RequestText ==
    ASSUME FileType, NEW r \in Request, request[r].step \in {"open", "write"},
           NEW c \in request[r].cfg
    PROVE  /\ c \in Texts /\ Whole(c).length = Length[Address[r]]
           /\ Whole(c).cfg = {c} /\ Length[Address[r]] \in Nat
<1>1. c = SetToken(shipped, Address[r]) /\ c \in Texts
  BY DEF FileType, Texts
<1>2. Written(shipped) /\ Address[r] \in STRING /\ shipped \in Shipped
  BY ConfigFileAssumption DEF Written, FileType
<1>3. c.contracts[TokenIndex(c)].address = Address[r]
  <2>1. OnlyAddress(c, shipped, Address[r])
    BY <1>1, <1>2, TokenSet
  <2>2. TokenIndex(c) = TokenIndex(shipped)
    BY <1>1, <1>2, TextsType
  <2> QED
    BY <2>1, <2>2 DEF OnlyAddress
<1> QED
  BY <1>1, <1>3, ConfigFileAssumption DEF Whole

(* The steps of the handler and the death of the server.                   *)
LEMMA FileStep == FileInv /\ [Next]_vars => FileInv'
<1> SUFFICES ASSUME FileInv, [Next]_vars PROVE FileInv'
  OBVIOUS
<1> USE DEF FileInv, chunkerVars
<1>1. ASSUME NEW r \in Request, Read(r) PROVE FileInv'
  <2>1. PICK c \in file.cfg :
           request' = [request EXCEPT ![r] =
                          [step |-> "open", cfg |-> {SetToken(c, Address[r])}]]
    BY <1>1 DEF Read
  <2>2. SetToken(c, Address[r]) = SetToken(shipped, Address[r])
    BY TextSetAgain DEF FileType
  <2>3. Writing' = Writing /\ shipped' = shipped /\ file' = file /\ mishaps' = mishaps
    BY <1>1, <2>1 DEF Read, Writing, FileType
  <2>4. FileType'
    BY <2>1, <2>2, <2>3 DEF FileType, Texts, Steps
  <2> QED
    BY <2>3, <2>4 DEF Overlapping, Readable
<1>2. ASSUME NEW r \in Request, Refuse(r) PROVE FileInv'
  <2>1. Writing' = Writing /\ shipped' = shipped /\ file' = file /\ mishaps' = mishaps
    BY <1>2 DEF Refuse, Writing, FileType
  <2>2. FileType'
    BY <1>2, <2>1 DEF Refuse, FileType, Texts, Steps
  <2> QED
    BY <2>1, <2>2 DEF Overlapping, Readable
<1>3. ASSUME NEW r \in Request, Open(r) PROVE FileInv'
  <2>1. /\ shipped' = shipped /\ file' = [cfg |-> {}, length |-> 0]
        /\ request' = [request EXCEPT ![r].step = "write"]
        /\ Writing' = Writing \cup {r} /\ r \notin Writing
        /\ mishaps' = mishaps \cup {"overlap" : w \in Writing}
    BY <1>3 DEF Open, Writing, FileType, Truncated
  <2>2. FileType'
    BY <1>3, <2>1 DEF Open, FileType, Texts, Steps
  <2> QED
    BY <2>1, <2>2 DEF Overlapping, Readable
<1>4. ASSUME NEW r \in Request, Write(r) PROVE FileInv'
  <2>1. PICK c \in request[r].cfg : file' \in Overwritten(c)
    BY <1>4 DEF Write
  <2>2. /\ c \in Texts /\ Whole(c).length = Length[Address[r]]
        /\ Whole(c).cfg = {c} /\ Length[Address[r]] \in Nat
    BY <1>4, <2>1, RequestText DEF Write
  <2>3. /\ shipped' = shipped /\ mishaps' = mishaps
        /\ request' = [request EXCEPT ![r] = [step |-> "done", cfg |-> {}]]
        /\ Writing' = Writing \ {r} /\ r \in Writing
    BY <1>4 DEF Write, Writing, FileType
  <2>4. \/ file' = Whole(c)
        \/ /\ \/ file' = [file EXCEPT !.cfg = {}]
              \/ file' = [file EXCEPT !.cfg = {c}]
           /\ file.length > Length[Address[r]]
    BY <2>1, <2>2 DEF Overwritten, FileType
  <2>5. FileType'
    BY <2>2, <2>3, <2>4 DEF FileType, Texts, Steps, Whole
  <2>6. Overlapping'
    <3>1. \A s, v \in Writing' : s # v => "overlap" \in mishaps'
      BY <2>3 DEF Overlapping
    <3>2. Writing' # {} => "overlap" \in mishaps'
      BY <2>3 DEF Overlapping
    <3>3. file'.length = Length[Address[r]] \/ file'.length = file.length
      BY <2>2, <2>4 DEF FileType
    <3> QED
      BY <2>3, <3>1, <3>2, <3>3 DEF Overlapping
  <2>7. Readable'
    <3>1. CASE file' = Whole(c)
      BY <2>2, <3>1 DEF Readable
    <3>2. CASE file.length > Length[Address[r]]
      BY <2>2, <2>3, <3>2 DEF Readable, Overlapping, FileType
    <3> QED
      BY <2>4, <3>1, <3>2
  <2> QED
    BY <2>5, <2>6, <2>7
<1>5. CASE Kill
  <2>1. /\ shipped' = shipped /\ file' = file
        /\ request' = [r \in Request |-> IF request[r].step \in {"open", "write"}
                                         THEN [step |-> "lost", cfg |-> {}] ELSE request[r]]
        /\ mishaps' = mishaps \cup {"torn" : w \in Writing}
    BY <1>5 DEF Kill
  <2>2. Writing' = {}
    BY <2>1 DEF Writing
  <2>3. FileType'
    BY <2>1 DEF FileType, Texts, Steps
  <2> QED
    BY <2>1, <2>2, <2>3 DEF Overlapping, Readable
<1>6. CASE StartServer \/ StartIndexer \/ StopIndexer \/ Indexing \/ UNCHANGED vars
  <2>1. UNCHANGED <<shipped, file, request, mishaps>>
    BY <1>6 DEF StartServer, StartIndexer, StopIndexer, Indexing, ui, vars
  <2> QED
    BY <2>1 DEF FileType, Texts, Overlapping, Readable, Writing
<1> QED
  BY <1>1, <1>2, <1>3, <1>4, <1>5, <1>6 DEF Next

LEMMA FileInvHolds == Spec => []FileInv
BY FileInit, FileStep, PTL DEF Spec

(* Whatever requests overlap and whenever the server dies, the file holds  *)
(* the operator's config with at most the token's address changed, and is  *)
(* unreadable only after a torn write or two overlapping ones of different *)
(* lengths (cmd/ui/main.go:277-307).                                       *)
THEOREM FileSurvivesHolds == Spec => []FileSurvives
<1>1. FileInv => FileSurvives
  BY TextsSameButToken DEF FileInv, FileType, Readable, FileSurvives
<1> QED
  BY <1>1, FileInvHolds, PTL
-----------------------------------------------------------------------------
(* The chunker of the running indexer.                                     *)

(* The defaults put the chunk sizes in order, so the chunker has nothing   *)
(* to repair.                                                              *)
LEMMA IndexerDefaultsInOrder ==
    ASSUME NEW ix \in IndexerConfig
    PROVE  LET d == IndexerDefaults(ix)
           IN  /\ d \in IndexerConfig /\ d.concurrency >= 1
               /\ 1 <= d.min /\ d.min <= d.chunk /\ d.chunk <= d.max
               /\ LET new == NewChunker(d.min, d.max, d.chunk)
                  IN  new.min = d.min /\ new.max = d.max
<1> DEFINE d == IndexerDefaults(ix)
           min == Default(ix.min, 10)
           max == Greater(Default(ix.max, ix.chunk), min)
<1>1. min \in Nat /\ 1 <= min /\ max \in Nat /\ min <= max
  BY DEF IndexerConfig, Default, Greater
<1>2. /\ d \in IndexerConfig /\ d.min = min /\ d.max = max
      /\ d.chunk = Lesser(Greater(ix.chunk, min), max)
      /\ d.concurrency = Default(ix.concurrency, 4)
  <2>1. Lesser(Greater(ix.chunk, min), max) \in Nat /\ Default(ix.concurrency, 4) \in Int
    BY <1>1 DEF IndexerConfig, Lesser, Greater, Default
  <2>2. d = [ix EXCEPT !.min = min, !.max = max,
                       !.chunk = Lesser(Greater(ix.chunk, min), max),
                       !.concurrency = Default(ix.concurrency, 4)]
    BY DEF IndexerDefaults
  <2> HIDE DEF d, min, max
  <2> QED
    BY <1>1, <2>1, <2>2 DEF IndexerConfig
<1>3. d.concurrency >= 1
  BY <1>2 DEF Default, IndexerConfig
<1>4. min <= d.chunk /\ d.chunk <= max
  <2> HIDE DEF min, max, d
  <2> QED
    BY <1>1, <1>2 DEF Lesser, Greater, IndexerConfig
<1> HIDE DEF d, min, max
<1>5. /\ NewChunker(d.min, d.max, d.chunk).min = d.min
      /\ NewChunker(d.min, d.max, d.chunk).max = d.max
  BY <1>1, <1>2 DEF NewChunker, Greater
<1> QED
  BY <1>1, <1>2, <1>3, <1>4, <1>5 DEF d

Sized ==
    /\ chunker \in Chunkers /\ InBounds(chunker) /\ FitsWord(chunker.max)
    /\ from \in Nat /\ stored \in Nat
    /\ scale \in Nat /\ scale >= 1

(* Halving doubles the scale: the product does not grow.                   *)
LEMMA HalfTimesTwice ==
    ASSUME NEW size \in Nat, NEW factor \in Nat
    PROVE  (size \div 2) * (2 * factor) <= size * factor
<1>1. PICK rest \in Nat : size = 2 * (size \div 2) + rest
  <2>1. size - 2 * (size \div 2) \in Nat
    OBVIOUS
  <2> QED
    BY <2>1
<1>2. rest * factor >= 0 /\ rest * factor \in Nat
  OBVIOUS
<1> DEFINE half == size \div 2
<1>3. half \in Nat
  OBVIOUS
<1> HIDE DEF half
<1>4. size * factor = (2 * half) * factor + rest * factor
  BY <1>1, <1>3 DEF half
<1>5. half * (2 * factor) = (2 * half) * factor
  BY <1>3
<1>6. (2 * half) * factor \in Nat
  BY <1>3
<1> QED
  BY <1>2, <1>4, <1>5, <1>6 DEF half

(* A new chunker, with or without an indexer.                              *)
LEMMA BeginSized ==
    ASSUME NEW min \in Nat, NEW max \in Nat, NEW start \in Nat, Begin(min, max, start),
           FitsWord(NewChunker(min, max, start).max)
    PROVE  (Sized /\ Halves /\ GrowsBack)'
BY NewChunkerInBounds DEF Begin, Sized, Halves, GrowsBack, Chunkers

(* An answer keeps the chunker sized and adapts the size as promised.      *)
LEMMA AnswerSized ==
    ASSUME Sized, Halves, GrowsBack, Answer
    PROVE  (Sized /\ Halves /\ GrowsBack)' /\ chunker'.min = chunker.min
           /\ chunker'.max = chunker.max
<1> USE DEF Sized
<1>0. chunker.current \in Nat /\ chunker.min \in Nat /\ chunker.max \in Nat
  BY DEF Chunkers
<1>1. CASE TooManyResults
  <2>1. /\ chunker' = OnError(chunker) /\ scale' = 2 * scale /\ stored' = 0
        /\ from' = IF scale = 1 THEN chunker.current ELSE from
    BY <1>1 DEF TooManyResults
  <2>2. /\ OnError(chunker) \in Chunkers /\ InBounds(OnError(chunker))
        /\ OnError(chunker).max = chunker.max
    BY OnErrorInBounds
  <2>3. OnError(chunker).min = chunker.min
    BY DEF OnError, Chunkers
  <2>4. \/ OnError(chunker).current = chunker.min
        \/ OnError(chunker).current = chunker.current \div 2 /\ chunker.current > chunker.min
    BY <1>0 DEF OnError, Chunkers, InBounds, Greater
  <2>5. (chunker.current \div 2) * (2 * scale) <= chunker.current * scale
    BY <1>0, HalfTimesTwice
  <2>6. chunker.current # chunker.min => chunker.current * scale <= from'
    BY <1>0, <2>1 DEF Halves
  <2>7. Halves'
    <3>1. CASE OnError(chunker).current = chunker.min
      BY <2>1, <2>3, <3>1 DEF Halves
    <3>2. CASE OnError(chunker).current # chunker.min
      <4>1. chunker.current * scale <= from' /\ from' \in Nat
        BY <1>0, <2>1, <2>4, <2>6, <3>2
      <4>2. (chunker.current \div 2) * (2 * scale) <= from'
        <5> DEFINE product == (chunker.current \div 2) * (2 * scale)
                   whole == chunker.current * scale
        <5>1. product \in Int /\ whole \in Int
          BY <1>0
        <5>2. product <= whole /\ whole <= from' /\ from' \in Int
          BY <2>5, <4>1
        <5> HIDE DEF product, whole
        <5>3. product <= from'
          BY <5>1, <5>2
        <5> QED
          BY <5>3 DEF product
      <4> QED
        BY <2>1, <2>4, <3>2, <4>2 DEF Halves
    <3> QED
      BY <3>1, <3>2
  <2>8. GrowsBack'
    BY <2>1 DEF GrowsBack
  <2> QED
    BY <1>0, <2>1, <2>2, <2>3, <2>7, <2>8
<1>2. CASE ChunkStored
  <2>1. /\ chunker' = OnSuccess(chunker) /\ stored' = stored + 1 /\ scale' = 1
        /\ from' = IF stored = 0 THEN chunker.current ELSE from
    BY <1>2 DEF ChunkStored
  <2>2. /\ OnSuccess(chunker) \in Chunkers /\ InBounds(OnSuccess(chunker))
        /\ OnSuccess(chunker).max = chunker.max
        /\ IF chunker.current = chunker.max THEN OnSuccess(chunker) = chunker
                                            ELSE OnSuccess(chunker).current > chunker.current
    BY OnSuccessInBounds, OnSuccessGrows
  <2>3. OnSuccess(chunker).min = chunker.min
    BY DEF OnSuccess, Chunkers
  <2>4. Halves'
    BY <2>1 DEF Halves
  <2>5. GrowsBack'
    BY <1>0, <2>1, <2>2 DEF GrowsBack, Chunkers
  <2> QED
    BY <1>0, <2>1, <2>2, <2>3, <2>4, <2>5
<1> QED
  BY <1>1, <1>2 DEF Answer
-----------------------------------------------------------------------------
(* The running indexer.                                                    *)

(* What Load makes of a text, up to the contracts.                         *)
LEMMA ValidatedText ==
    ASSUME shipped \in Shipped, NEW c \in Texts
    PROVE  /\ Validated(c).indexer = IndexerDefaults(shipped.indexer)
           /\ Validated(c).chain = ChainOf(shipped)
           /\ Validated(c).mempool = MempoolDefaults(shipped.mempool, ChainOf(shipped))
           /\ Validated(c).contracts = c.contracts
<1>1. /\ IsConfig(c) /\ c.indexer = shipped.indexer /\ c.chain = shipped.chain
      /\ c.network = shipped.network /\ c.networks = shipped.networks
      /\ c.mempool = shipped.mempool
  <2>1. IsConfig(shipped) /\ Written(c) /\ c = [shipped EXCEPT !.contracts = c.contracts]
    BY TextsType, ConfigFileAssumption
  <2> QED
    BY <2>1 DEF Written, IsConfig
<1>2. ChainOf(c) = ChainOf(shipped)
  BY <1>1 DEF ChainOf
<1> QED
  BY <1>1, <1>2 DEF Validated, IsConfig

(* Defaults and the change of an address commute.                          *)
LEMMA ValidatedSameButToken ==
    ASSUME shipped \in Shipped, NEW c \in Texts
    PROVE  SameButToken(Validated(c), Validated(shipped))
<1> DEFINE t == TokenIndex(shipped)
           old == Validated(shipped)
<1>1. Written(shipped) /\ shipped \in Texts
  BY ConfigFileAssumption DEF Written, Texts
<1>2. /\ t \in DOMAIN shipped.contracts
      /\ \/ shipped.contracts[t].name \in TokenNames
         \/ \A j \in DOMAIN shipped.contracts :
               t <= j /\ shipped.contracts[j].name \notin TokenNames
  BY <1>1, TokenIndexChosen
<1>3. old.contracts = shipped.contracts
  BY <1>1, ValidatedText
<1>4. Validated(c) = [old EXCEPT !.contracts = c.contracts]
  <2>1. c = [shipped EXCEPT !.contracts = c.contracts] /\ IsConfig(c) /\ IsConfig(shipped)
    BY <1>1, TextsType DEF Written
  <2>2. /\ Validated(c).indexer = old.indexer /\ Validated(c).chain = old.chain
        /\ Validated(c).mempool = old.mempool /\ Validated(c).contracts = c.contracts
    BY <1>1, ValidatedText
  <2>3. Validated(c) = [c EXCEPT !.chain = old.chain, !.indexer = old.indexer,
                                 !.mempool = old.mempool]
    BY <2>1, <2>2 DEF Validated, IsConfig
  <2>4. old = [shipped EXCEPT !.chain = old.chain, !.indexer = old.indexer,
                              !.mempool = old.mempool]
    BY <2>1 DEF Validated, IsConfig
  <2> HIDE DEF old
  <2> QED
    BY <2>1, <2>3, <2>4 DEF IsConfig
<1>5. \E address \in {shipped.contracts[t].address} \cup {Address[r] : r \in Request} :
         c.contracts = [shipped.contracts EXCEPT ![t].address = address]
  <2>1. CASE c = shipped
    <3>1. shipped.contracts
          = [shipped.contracts EXCEPT ![t].address = shipped.contracts[t].address]
      <4> HIDE DEF t
      <4> QED
        BY <1>1, <1>2 DEF Written, IsConfig, IsContractConfig
    <3> QED
      BY <2>1, <3>1
  <2>2. CASE c # shipped
    <3>1. PICK r \in Request : c = SetToken(shipped, Address[r])
      BY <2>2 DEF Texts
    <3>2. Address[r] \in STRING
      BY ConfigFileAssumption
    <3>3. OnlyAddress(c, shipped, Address[r])
      BY <1>1, <3>1, <3>2, TokenSet
    <3> QED
      BY <3>3 DEF OnlyAddress
  <2> QED
    BY <2>1, <2>2
<1> HIDE DEF t, old
<1>6. \E address \in {old.contracts[t].address} \cup {Address[r] : r \in Request} :
         Validated(c) = [old EXCEPT !.contracts[t].address = address]
  <2>1. PICK address \in {shipped.contracts[t].address} \cup {Address[r] : r \in Request} :
           c.contracts = [shipped.contracts EXCEPT ![t].address = address]
    BY <1>5
  <2>2. [old EXCEPT !.contracts[t].address = address]
        = [old EXCEPT !.contracts = [old.contracts EXCEPT ![t].address = address]]
    OBVIOUS
  <2> QED
    BY <1>3, <1>4, <2>1, <2>2
<1>7. SameButToken(Validated(c), old)
  BY <1>2, <1>3, <1>6 DEF SameButToken
<1> QED
  BY <1>7 DEF old

(* The defaults of the mempool feed suit the network that was selected.    *)
LEMMA ValidatedSane ==
    ASSUME shipped \in Shipped, NEW c \in Texts, Accepts(c)
    PROVE  Sane(Validated(c), shipped)
<1> DEFINE d == Validated(c)
           chain == ChainOf(shipped)
           mp == shipped.mempool
<1>1. /\ d.indexer = IndexerDefaults(shipped.indexer) /\ d.chain = chain
      /\ d.mempool = MempoolDefaults(mp, chain)
  BY ValidatedText
<1>2. IsConfig(shipped) /\ shipped.indexer \in IndexerConfig /\ mp \in MempoolConfig
  BY ConfigFileAssumption DEF IsConfig
<1>3. /\ 1 <= d.indexer.min /\ d.indexer.min <= d.indexer.chunk
      /\ d.indexer.chunk <= d.indexer.max /\ d.indexer.concurrency >= 1
  BY <1>1, <1>2, IndexerDefaultsInOrder
<1>4. chain \in ChainConfig /\ (shipped.network # "" => chain = shipped.networks[shipped.network])
  <2>1. shipped.network # "" => shipped.network \in DOMAIN shipped.networks
    <3>1. c = [shipped EXCEPT !.contracts = c.contracts]
      BY TextsType
    <3>2. c.network = shipped.network /\ c.networks = shipped.networks
      BY <1>2, <3>1 DEF IsConfig
    <3> QED
      BY <3>2 DEF Accepts, NetworkKnown
  <2> QED
    BY <1>2, <2>1 DEF ChainOf, IsConfig
<1>5. DeriveWSURL(chain.url).host = chain.url.host
  <2>1. chain.url \in URLs
    BY <1>4 DEF ChainConfig
  <2> QED
    BY <2>1 DEF DeriveWSURL, URLs
<1> HIDE DEF d, chain, mp
<1>6. /\ mp.http = NoURL => d.mempool.http = chain.url
      /\ mp.ws = NoURL => d.mempool.ws = DeriveWSURL(chain.url)
      /\ d.mempool.pendingWorkers = Default(mp.pendingWorkers, 32)
      /\ d.mempool.receiptWorkers = Default(mp.receiptWorkers, 16)
      /\ d.mempool.droppedTTL = Default(mp.droppedTTL, 600)
      /\ d.mempool.maxInflight = Default(mp.maxInflight, 50000)
  BY <1>1, <1>2 DEF MempoolDefaults, MempoolConfig
<1>7. \A n \in {d.mempool.pendingWorkers, d.mempool.receiptWorkers,
                d.mempool.droppedTTL, d.mempool.maxInflight} : n >= 1
  BY <1>2, <1>6 DEF Default, MempoolConfig
<1>8. /\ mp.http = NoURL => d.mempool.http = d.chain.url
      /\ mp.ws = NoURL => d.mempool.ws.host = d.chain.url.host
  BY <1>1, <1>5, <1>6
<1>9. shipped.network # "" => d.chain = shipped.networks[shipped.network]
  BY <1>1, <1>4
<1>10. Sane(d, shipped)
  BY <1>3, <1>7, <1>8, <1>9 DEF Sane, mp
<1> QED
  BY <1>10 DEF d
(* The indexer runs with what Load makes of one of the texts, and with a   *)
(* chunker of that config.                                                 *)
Running ==
    \A d \in indexer : \E c \in Texts :
        /\ Accepts(c) /\ Loadable(c.contracts) /\ d = Validated(c)
        /\ chunker.min = d.indexer.min /\ chunker.max = d.indexer.max

RunInv == FileInv /\ Sized /\ Halves /\ GrowsBack /\ Running

(* The smallest chunker fits any word that the configured one fits.        *)
LEMMA IdleChunkerFits ==
    ASSUME shipped \in Shipped
    PROVE  FitsWord(NewChunker(1, 1, 1).max)
<1>1. /\ shipped.indexer \in IndexerConfig
      /\ FitsWord(IndexerDefaults(shipped.indexer).max)
  BY ConfigFileAssumption DEF IsConfig
<1> DEFINE max == IndexerDefaults(shipped.indexer).max
<1>2. max \in Nat /\ 1 <= max
  BY <1>1, IndexerDefaultsInOrder DEF IndexerConfig
<1>3. max + max \div 10 + 1 < Word
  BY <1>1 DEF FitsWord
<1> HIDE DEF max
<1>4. 2 < Word
  BY <1>2, <1>3, WordAssumption
<1> QED
  BY <1>4 DEF FitsWord, NewChunker, Greater, Lesser

(* No indexer runs yet.                                                    *)
LEMMA RunInit == Init => RunInv
<1> SUFFICES ASSUME Init PROVE RunInv
  OBVIOUS
<1>1. FileInv
  BY FileInit
<1>2. FitsWord(NewChunker(1, 1, 1).max)
  BY <1>1, IdleChunkerFits DEF FileInv, FileType
<1>3. Sized /\ Halves /\ GrowsBack
  BY <1>2, NewChunkerInBounds DEF Init, Sized, Halves, GrowsBack
<1> QED
  BY <1>1, <1>3 DEF Init, RunInv, Running

(* Starting, stopping and working keep the invariant; the other steps      *)
(* leave the indexer alone.                                                *)
LEMMA RunStep == RunInv /\ [Next]_vars => RunInv'
<1> SUFFICES ASSUME RunInv, [Next]_vars PROVE RunInv'
  OBVIOUS
<1>1. FileInv' /\ shipped' = shipped /\ shipped \in Shipped
  <2>1. FileInv'
    BY FileStep DEF RunInv
  <2>2. shipped' = shipped
    BY DEF Next, Read, Refuse, Open, Write, Kill, StartServer, StartIndexer, StopIndexer,
           Indexing, vars
  <2> QED
    BY <2>1, <2>2 DEF RunInv, FileInv, FileType
<1>2. Texts' = Texts
  BY <1>1 DEF Texts
<1>3. CASE UNCHANGED <<indexer, chunkerVars>>
  BY <1>1, <1>2, <1>3
  DEF RunInv, Running, chunkerVars, Sized, Halves, GrowsBack
<1>4. CASE StartIndexer
  <2>1. PICK c \in file.cfg :
           /\ Accepts(c) /\ Loadable(c.contracts)
           /\ indexer' = {Validated(c)}
           /\ Begin(Validated(c).indexer.min, Validated(c).indexer.max,
                    Validated(c).indexer.chunk)
    BY <1>4 DEF StartIndexer
  <2> DEFINE ix == Validated(c).indexer
  <2>2. c \in Texts /\ shipped.indexer \in IndexerConfig
    BY <1>1, ConfigFileAssumption DEF RunInv, FileInv, FileType, IsConfig
  <2>3. ix = IndexerDefaults(shipped.indexer)
    BY <1>1, <2>2, ValidatedText
  <2>4. /\ ix \in IndexerConfig /\ FitsWord(ix.max)
        /\ NewChunker(ix.min, ix.max, ix.chunk).min = ix.min
        /\ NewChunker(ix.min, ix.max, ix.chunk).max = ix.max
    BY <1>1, <2>2, <2>3, IndexerDefaultsInOrder, ConfigFileAssumption
  <2> HIDE DEF ix
  <2>5. ix.min \in Nat /\ ix.max \in Nat /\ ix.chunk \in Nat
    BY <2>4 DEF IndexerConfig
  <2>6. Begin(ix.min, ix.max, ix.chunk)
    BY <2>1 DEF ix
  <2>7. (Sized /\ Halves /\ GrowsBack)'
    BY <2>4, <2>5, <2>6, BeginSized
  <2>8. chunker'.min = ix.min /\ chunker'.max = ix.max
    BY <2>4, <2>6 DEF Begin
  <2>9. Running'
    BY <1>2, <2>1, <2>2, <2>8 DEF Running, ix
  <2> QED
    BY <1>1, <2>7, <2>9 DEF RunInv
<1>5. CASE StopIndexer
  <2>1. indexer' = {} /\ Begin(1, 1, 1)
    BY <1>5 DEF StopIndexer
  <2>2. (Sized /\ Halves /\ GrowsBack)'
    BY <1>1, <2>1, IdleChunkerFits, BeginSized
  <2> QED
    BY <1>1, <2>1, <2>2 DEF RunInv, Running
<1>6. CASE Indexing
  <2>1. Answer /\ indexer' = indexer
    BY <1>6 DEF Indexing
  <2>2. /\ (Sized /\ Halves /\ GrowsBack)'
        /\ chunker'.min = chunker.min /\ chunker'.max = chunker.max
    BY <2>1, AnswerSized DEF RunInv
  <2> QED
    BY <1>1, <1>2, <2>1, <2>2 DEF RunInv, Running
<1> QED
  BY <1>3, <1>4, <1>5, <1>6
  DEF Next, Read, Refuse, Open, Write, Kill, StartServer, vars

LEMMA RunInvHolds == Spec => []RunInv
BY RunInit, RunStep, PTL DEF Spec

(* The size of the chunk stays in its bounds, for every configuration that *)
(* fits the word, any answers and any number of restarts.                  *)
THEOREM StaysInBoundsHolds == Spec => []StaysInBounds
<1>1. RunInv => StaysInBounds
  BY DEF RunInv, Sized, StaysInBounds
<1> QED
  BY <1>1, RunInvHolds, PTL

(* Rejections in a row divide the size by a power of 2.                    *)
THEOREM HalvesHolds == Spec => []Halves
BY RunInvHolds, PTL DEF RunInv

(* Stored chunks in a row let the size climb back to max.                  *)
THEOREM GrowsBackHolds == Spec => []GrowsBack
BY RunInvHolds, PTL DEF RunInv

(* Whenever it is started, the indexer runs with the operator's config, up *)
(* to the token's address, and with defaults that suit every component     *)
(* (config.go:71-198).                                                     *)
THEOREM StartsSaneHolds == Spec => []StartsSane
<1>1. RunInv => StartsSane
  <2> SUFFICES ASSUME RunInv, NEW d \in indexer
               PROVE  /\ Sane(d, shipped) /\ SameButToken(d, Validated(shipped))
                      /\ chunker.min = d.indexer.min /\ chunker.max = d.indexer.max
    BY DEF StartsSane
  <2>1. PICK c \in Texts :
           /\ Accepts(c) /\ d = Validated(c)
           /\ chunker.min = d.indexer.min /\ chunker.max = d.indexer.max
    BY DEF RunInv, Running
  <2>2. shipped \in Shipped
    BY DEF RunInv, FileInv, FileType
  <2> QED
    BY <2>1, <2>2, ValidatedSane, ValidatedSameButToken
<1> QED
  BY <1>1, RunInvHolds, PTL

-----------------------------------------------------------------------------
(* Decoding.                                                               *)

(* The registry knows every topic the node is asked for, and decodes the   *)
(* listed events of a contract whose address is its own by that contract's *)
(* ABI.                                                                    *)
LEMMA LookupKnown ==
    ASSUME NEW contracts, NEW i \in DOMAIN contracts, Loadable(contracts),
           IsContractConfig(contracts[i]),
           NEW log \in Emits(contracts[i]), Wanted(contracts, log)
    PROVE  /\ Lookup(contracts, log) # {}
           /\ \/ SpecFor(contracts, log).indexed = log.indexed
              \/ log.topic \notin {event.topic : event \in Events(contracts[i])}
              \/ \E j \in DOMAIN contracts \ {i} : contracts[j].address = log.address
<1> DEFINE abi == contracts[i].abi
           Listed == Listing(contracts, log.topic)
           own == {j \in Listed : contracts[j].address = log.address}
<1>1. Lookup(contracts, log) = IF own # {} THEN own ELSE Listed
  BY DEF Lookup
<1>2. Listed # {}
  BY DEF Wanted, FilterTopics, Listing
<1>3. PICK name \in DOMAIN abi :
         log = [address |-> contracts[i].address, topic |-> abi[name].topic,
                indexed |-> abi[name].indexed]
  BY DEF Emits
<1>4. ASSUME log.topic \in {event.topic : event \in Events(contracts[i])},
             \A j \in DOMAIN contracts \ {i} : contracts[j].address # log.address
      PROVE  SpecFor(contracts, log).indexed = log.indexed
  <2>1. own = {i}
    BY <1>3, <1>4 DEF Listing
  <2>2. Lookup(contracts, log) = {i}
    BY <1>1, <2>1
  <2> DEFINE last == CHOOSE k \in Lookup(contracts, log) :
                        \A j \in Lookup(contracts, log) : j <= k
  <2>3. \A event \in Events(contracts[i]) : event.topic = log.topic => event = abi[name]
    BY <1>3 DEF Events, Loadable, IsContractConfig
  <2>4. SpecFor(contracts, log) = abi[name]
    BY <1>4, <2>2, <2>3 DEF SpecFor
  <2> QED
    BY <1>3, <2>4
<1> HIDE DEF own, Listed
<1> QED
  BY <1>1, <1>2, <1>4

(* No log that a configured contract emits and the filter selects has a    *)
(* topic the registry does not know (registry.go:67-77 and 129-139).       *)
THEOREM KnownEventsHolds == Spec => []KnownEvents
<1>1. RunInv => KnownEvents
  <2> SUFFICES ASSUME RunInv, NEW d \in indexer, NEW i \in DOMAIN d.contracts,
                      NEW log \in Emits(d.contracts[i]), Wanted(d.contracts, log)
               PROVE  /\ Lookup(d.contracts, log) # {}
                      /\ \/ SpecFor(d.contracts, log).indexed = log.indexed
                         \/ log.topic \notin {event.topic : event \in Events(d.contracts[i])}
                         \/ \E j \in DOMAIN d.contracts \ {i} :
                               d.contracts[j].address = log.address
    BY DEF KnownEvents
  <2>1. PICK c \in Texts : Loadable(c.contracts) /\ d = Validated(c)
    BY DEF RunInv, Running
  <2>2. d.contracts = c.contracts /\ Written(c)
    BY <2>1, ValidatedText, TextsType DEF RunInv, FileInv, FileType
  <2>3. Loadable(d.contracts) /\ IsContractConfig(d.contracts[i])
    BY <2>1, <2>2 DEF Written, IsConfig
  <2> QED
    BY <2>3, LookupKnown
<1> QED
  BY <1>1, RunInvHolds, PTL
=============================================================================
