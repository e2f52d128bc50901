---------------------------- MODULE Parts_proofs ----------------------------
(***************************************************************************)
(* Four parts that share no state.                                         *)
(*                                                                         *)
(* BlockSearch: the block that get_latest_existing_block_at() returns is   *)
(* the one its docstring promises, for chains of every length that grow at *)
(* any moment.                                                             *)
(*                                                                         *)
(* TransactionStorage: the nonces, for any number of processes and         *)
(* transactions, as long as what a process has found out about the row     *)
(* still holds when it writes the row (SerialSpec).  The properties are    *)
(* not inductive.  That a nonce is not used again needs that a process     *)
(* never sends a transaction that was taken back, hence where the          *)
(* transaction of a process is (StepInv) and that two processes do not     *)
(* have the same one (TransactionsDiffer); that nothing is missing before  *)
(* the counter needs that the counter is never behind the network when a   *)
(* process signs.                                                          *)
(*                                                                         *)
(* SigningService: what the daily limit bounds, for all values, limits and *)
(* numbers of failures.  It is inductive only with what the file and the   *)
(* sum in memory hold of what was counted (CountInv).                      *)
(*                                                                         *)
(* Framing: the order of frames and that whole frames arrive, for all      *)
(* bytes.  Neither is inductive: the first needs the order of the numbers  *)
(* that are still in bytes (OrderInv), the second where a frame that must  *)
(* arrive is (WholeInv).                                                   *)
(***************************************************************************)
EXTENDS Framing, BlockSearch, SigningService, TransactionStorage, SequenceTheorems,
  FiniteSetTheorems, Sums, TLAPS

-----------------------------------------------------------------------------
(* get_latest_existing_block_at(). *)

\* Timestamps grow with the numbers.
ChainIsSorted ==
  \A m, n \in 0..LatestNumber : m < n => Timestamp(m) < Timestamp(n)

\* The loop invariant: up to lowest no block is later, and highest is later unless it was
\* never looked at.
RangeHoldsTheBlock ==
  search.op = "search" =>
    /\ \A n \in 0..search.lowest : ~Later(n, search.timestamp)
    /\ Later(search.highest, search.timestamp) \/ search.highest = search.latest

SearchInv ==
  SearchTypeOK /\ ChainIsSorted /\ RangeHoldsTheBlock /\ FirstLaterBlockIsFound

\* What the blocks of the chain are does not change when a block is added.
LEMMA MineKeepsBlocks ==
  ASSUME SearchTypeOK, ChainIsSorted, NEW t \in 0..MaxTime, MineBlock(t)
  PROVE  /\ LatestNumber' = LatestNumber + 1
         /\ chain' \in Seq(Nat) /\ chain' # <<>>
         /\ \A n \in 0..LatestNumber : Timestamp(n)' = Timestamp(n) /\ Timestamp(n) \in Nat
         /\ ChainIsSorted'
<1>1. /\ chain \in Seq(Nat)
      /\ t \in Nat
      /\ chain' = Append(chain, t)
      /\ t > chain[Len(chain)]
      /\ Len(chain) \in Nat \ {0}
  BY SearchAssumption DEF SearchTypeOK, MineBlock, Timestamp, LatestNumber
<1>2. /\ chain' \in Seq(Nat) /\ chain' # <<>>
      /\ Len(chain') = Len(chain) + 1
      /\ \A i \in 1..Len(chain) : chain'[i] = chain[i] /\ chain[i] \in Nat
      /\ chain'[Len(chain) + 1] = t
  BY <1>1
<1>3. LatestNumber' = LatestNumber + 1
  BY <1>1, <1>2 DEF LatestNumber
<1>4. \A n \in 0..LatestNumber : Timestamp(n)' = Timestamp(n) /\ Timestamp(n) \in Nat
  BY <1>1, <1>2 DEF LatestNumber, Timestamp
<1>5. ASSUME NEW m \in 0..LatestNumber', NEW n \in 0..LatestNumber', m < n
      PROVE  Timestamp(m)' < Timestamp(n)'
  <2>1. m \in 0..LatestNumber /\ Timestamp(m) \in Nat /\ Timestamp(m)' = Timestamp(m)
    BY <1>1, <1>3, <1>4, <1>5 DEF LatestNumber
  <2>2. Timestamp(m) <= Timestamp(LatestNumber)
    <3>1. m = LatestNumber \/ m < LatestNumber
      BY <1>1, <2>1 DEF LatestNumber
    <3>2. LatestNumber \in 0..LatestNumber /\ Timestamp(LatestNumber) \in Nat
      BY <1>1, <1>4 DEF LatestNumber
    <3> QED BY <2>1, <3>1, <3>2 DEF ChainIsSorted
  <2>3. CASE n = LatestNumber + 1
    <3>1. Timestamp(n)' = t /\ Timestamp(LatestNumber) < t
      BY <1>1, <1>2, <2>3 DEF Timestamp, LatestNumber
    <3>2. Timestamp(LatestNumber) \in Nat
      BY <1>1, <1>4 DEF LatestNumber
    <3> QED BY <1>1, <2>1, <2>2, <3>1, <3>2
  <2>4. CASE n \in 0..LatestNumber
    BY <1>4, <1>5, <2>1, <2>4 DEF ChainIsSorted
  <2> QED BY <1>1, <1>3, <2>3, <2>4 DEF LatestNumber
<1>6. ChainIsSorted'
  BY <1>5 DEF ChainIsSorted
<1> QED BY <1>2, <1>3, <1>4, <1>6

LEMMA SearchInitInv == SearchInit => SearchInv
<1> SUFFICES ASSUME SearchInit PROVE SearchInv
  OBVIOUS
<1>1. PICK t \in 0..MaxTime : chain = <<t>>
  BY DEF SearchInit
<1>2. t \in Nat /\ Len(chain) = 1 /\ search = Idle /\ search.op = "idle"
  BY <1>1, SearchAssumption DEF SearchInit, Idle
<1>3. SearchTypeOK
  BY <1>1, <1>2 DEF SearchTypeOK
<1>4. ChainIsSorted
  BY <1>2 DEF ChainIsSorted, LatestNumber
<1> QED BY <1>2, <1>3, <1>4 DEF SearchInv, RangeHoldsTheBlock, FirstLaterBlockIsFound

\* Every step keeps the loop invariant.
LEMMA SearchNextInv == SearchInv /\ [SearchNext]_searchVars => SearchInv'
<1> SUFFICES ASSUME SearchInv, [SearchNext]_searchVars PROVE SearchInv'
  OBVIOUS
<1> USE DEF SearchInv
<1>1. ASSUME NEW t \in 0..MaxTime, Call(t) PROVE SearchInv'
  <2>1. /\ search' = [op |-> "search", timestamp |-> t, lowest |-> -1,
                      highest |-> LatestNumber, latest |-> LatestNumber]
        /\ UNCHANGED chain
        /\ chain \in Seq(Nat) /\ LatestNumber \in Nat /\ t \in Nat
        /\ LatestNumber' = LatestNumber
    BY <1>1, SearchAssumption DEF Call, SearchTypeOK, LatestNumber
  <2>2. SearchTypeOK'
    BY <2>1 DEF SearchTypeOK, LatestNumber
  <2>3. ChainIsSorted'
    BY <2>1 DEF ChainIsSorted, Timestamp
  <2>4. RangeHoldsTheBlock' /\ FirstLaterBlockIsFound'
    BY <2>1 DEF RangeHoldsTheBlock, FirstLaterBlockIsFound
  <2> QED BY <2>2, <2>3, <2>4
<1>2. CASE Probe
  <2> DEFINE medium == Medium(search.lowest, search.highest)
  <2>1. /\ search \in [op : {"search"}, timestamp : Nat, lowest : Int, highest : Nat, latest : Nat]
        /\ search.lowest \in -1..search.highest
        /\ search.highest <= search.latest
        /\ search.latest < Len(chain)
        /\ search.op = "search"
        /\ search.lowest + 1 < search.highest
        /\ UNCHANGED chain
        /\ LatestNumber' = LatestNumber
        /\ LatestNumber \in Nat
    BY <1>2 DEF Probe, SearchTypeOK, Idle, LatestNumber
  <2>2. medium \in Nat /\ search.lowest < medium /\ medium < search.highest
    <3>1. /\ search.lowest \in Int /\ search.highest \in Nat
          /\ -1 <= search.lowest /\ search.lowest + 1 < search.highest
      BY <2>1
    <3>2. ASSUME NEW l \in Int, NEW h \in Nat, -1 <= l, l + 1 < h
          PROVE  (l + h) \div 2 \in Nat /\ l < (l + h) \div 2 /\ (l + h) \div 2 < h
      BY <3>2
    <3> QED BY <3>1, <3>2 DEF Medium
  <2>3. \A m, n \in 0..LatestNumber : m < n => Timestamp(m) < Timestamp(n)
    BY DEF ChainIsSorted
  <2>4. \A n \in 0..LatestNumber : Timestamp(n) \in Nat
    BY <2>1 DEF SearchTypeOK, Timestamp, LatestNumber
  <2>5. ChainIsSorted'
    BY <2>1 DEF ChainIsSorted, Timestamp
  <2>6. \A n : \A t : Later(n, t)' <=> Later(n, t')
    BY <2>1 DEF Later, Timestamp
  <2>7. CASE Later(medium, search.timestamp)
    <3>1. search' = [search EXCEPT !.highest = medium]
      BY <1>2, <2>7 DEF Probe
    <3>2. /\ search'.op = "search" /\ search'.timestamp = search.timestamp
          /\ search'.lowest = search.lowest /\ search'.highest = medium
          /\ search'.latest = search.latest
      BY <2>1, <3>1
    <3>3. SearchTypeOK'
      BY <2>1, <2>2, <3>1, <3>2 DEF SearchTypeOK
    <3>4. RangeHoldsTheBlock'
      BY <2>1, <2>7, <3>2 DEF RangeHoldsTheBlock, Later, Timestamp
    <3>5. FirstLaterBlockIsFound'
      BY <3>2 DEF FirstLaterBlockIsFound
    <3> QED BY <2>5, <3>3, <3>4, <3>5
  <2>8. CASE ~Later(medium, search.timestamp)
    <3>1. search' = [search EXCEPT !.lowest = medium]
      BY <1>2, <2>8 DEF Probe
    <3>2. /\ search'.op = "search" /\ search'.timestamp = search.timestamp
          /\ search'.lowest = medium /\ search'.highest = search.highest
          /\ search'.latest = search.latest
      BY <2>1, <3>1
    <3>3. SearchTypeOK'
      BY <2>1, <2>2, <3>1, <3>2 DEF SearchTypeOK
    <3>4. ASSUME NEW n \in 0..medium PROVE ~Later(n, search.timestamp)
      <4>1. medium \in 0..LatestNumber /\ n \in 0..LatestNumber /\ (n = medium \/ n < medium)
        BY <2>1, <2>2 DEF LatestNumber
      <4>2. Timestamp(n) <= Timestamp(medium)
        BY <2>3, <2>4, <4>1
      <4> QED BY <2>1, <2>4, <2>8, <4>1, <4>2 DEF Later
    <3>5. RangeHoldsTheBlock'
      BY <2>1, <3>2, <3>4 DEF RangeHoldsTheBlock, Later, Timestamp
    <3>6. FirstLaterBlockIsFound'
      BY <3>2 DEF FirstLaterBlockIsFound
    <3> QED BY <2>5, <3>3, <3>5, <3>6
  <2> QED BY <2>7, <2>8
<1>3. CASE Return
  <2>1. /\ search \in [op : {"search"}, timestamp : Nat, lowest : Int, highest : Nat, latest : Nat]
        /\ search.lowest \in -1..search.highest
        /\ search.highest <= search.latest
        /\ search.latest < Len(chain)
        /\ search.lowest + 1 >= search.highest
        /\ search' = [op |-> "found", timestamp |-> search.timestamp,
                      number |-> search.highest, latest |-> search.latest]
        /\ UNCHANGED chain
        /\ LatestNumber' = LatestNumber
    BY <1>3 DEF Return, SearchTypeOK, Idle, LatestNumber
  <2>2. SearchTypeOK' /\ ChainIsSorted' /\ RangeHoldsTheBlock'
    <3>1. SearchTypeOK'
      BY <2>1 DEF SearchTypeOK
    <3>2. ChainIsSorted'
      BY <2>1 DEF ChainIsSorted, Timestamp
    <3> QED BY <2>1, <3>1, <3>2 DEF RangeHoldsTheBlock
  <2>3. \A n \in 0..(search.highest - 1) : n \in 0..search.lowest
    BY <2>1
  <2>4. FirstLaterBlockIsFound'
    <3>1. \A n \in 0..LatestNumber : Timestamp(n) \in Nat
      BY DEF SearchTypeOK, Timestamp, LatestNumber
    <3>2. \A n \in 0..(search.highest - 1) : n \in 0..LatestNumber
      BY <2>1 DEF LatestNumber
    <3>3. search.op = "search" /\ search.timestamp \in Nat
      BY <2>1
    <3>4. \A n \in 0..(search.highest - 1) : Timestamp(n) <= search.timestamp
      BY <2>3, <3>1, <3>2, <3>3 DEF RangeHoldsTheBlock, Later
    <3> QED BY <2>1, <3>3, <3>4 DEF RangeHoldsTheBlock, FirstLaterBlockIsFound, Later, Timestamp
  <2> QED BY <2>2, <2>4
<1>4. CASE Reset
  <2>1. search' = Idle /\ search'.op = "idle" /\ UNCHANGED chain /\ LatestNumber' = LatestNumber
    BY <1>4 DEF Reset, Idle, LatestNumber
  <2>2. SearchTypeOK' /\ ChainIsSorted'
    BY <2>1 DEF SearchTypeOK, ChainIsSorted, Timestamp, Idle
  <2> QED BY <2>1, <2>2 DEF RangeHoldsTheBlock, FirstLaterBlockIsFound
<1>5. ASSUME NEW t \in 0..MaxTime, MineBlock(t) PROVE SearchInv'
  <2>1. /\ LatestNumber' = LatestNumber + 1 /\ LatestNumber \in Nat
        /\ chain' \in Seq(Nat) /\ chain' # <<>>
        /\ \A n \in 0..LatestNumber : Timestamp(n)' = Timestamp(n)
        /\ ChainIsSorted'
        /\ search' = search
    BY <1>5, MineKeepsBlocks DEF MineBlock, SearchTypeOK, LatestNumber
  <2>2. SearchTypeOK'
    <3>1. Len(chain) < Len(chain') /\ Len(chain) \in Nat /\ Len(chain') \in Nat
      BY <2>1 DEF SearchTypeOK, LatestNumber
    <3> QED BY <2>1, <3>1 DEF SearchTypeOK, Idle
  <2>3. ASSUME NEW n \in 0..LatestNumber, NEW s
        PROVE  Later(n, s)' <=> Later(n, s')
    BY <2>1 DEF Later
  <2>4. RangeHoldsTheBlock'
    <3> SUFFICES ASSUME search.op = "search"
                 PROVE  /\ \A n \in 0..search.lowest : ~Later(n, search.timestamp)'
                        /\ Later(search.highest, search.timestamp)' \/ search.highest = search.latest
      BY <2>1 DEF RangeHoldsTheBlock
    <3>1. search.highest \in 0..LatestNumber /\ \A n \in 0..search.lowest : n \in 0..LatestNumber
      BY <2>1 DEF SearchTypeOK, Idle, LatestNumber
    <3> QED BY <2>1, <3>1 DEF RangeHoldsTheBlock, Later
  <2>5. FirstLaterBlockIsFound'
    <3> SUFFICES ASSUME search.op = "found"
                 PROVE  /\ \A n \in 0..(search.number - 1) : Timestamp(n)' <= search.timestamp
                        /\ Timestamp(search.number)' > search.timestamp \/ search.number = search.latest
      BY <2>1 DEF FirstLaterBlockIsFound
    <3>1. search.number \in 0..LatestNumber /\ \A n \in 0..(search.number - 1) : n \in 0..LatestNumber
      BY <2>1 DEF SearchTypeOK, Idle, LatestNumber
    <3> QED BY <2>1, <3>1 DEF FirstLaterBlockIsFound, Later
  <2> QED BY <2>1, <2>2, <2>4, <2>5
<1>6. CASE UNCHANGED searchVars
  BY <1>6 DEF searchVars, SearchTypeOK, ChainIsSorted, RangeHoldsTheBlock, FirstLaterBlockIsFound,
     Later, Timestamp, LatestNumber, Idle
<1> QED BY <1>1, <1>2, <1>3, <1>4, <1>5, <1>6 DEF SearchNext

\* The block found is the first one after the time, or the last one there was, whatever is
\* mined during the search (core/utils.py, get_latest_existing_block_at).
THEOREM FoundBlockIsFirst == SearchSpec => []FirstLaterBlockIsFound
<1>1. SearchSpec => []SearchInv
  BY SearchInitInv, SearchNextInv, PTL DEF SearchSpec
<1>2. SearchInv => FirstLaterBlockIsFound
  BY DEF SearchInv
<1> QED BY <1>1, <1>2, PTL

-----------------------------------------------------------------------------
(* The nonces of the transactions. *)

\* What holds for a process that is at step s.
StepInv(s) ==
  /\ s.op \in {"init", "create", "insert", "raise"} =>
       s.network = mined \/ (s.network <= mined /\ mined <= counter)
  /\ s.op \in {"ready", "lock", "sign", "send", "revert"} => mined <= counter
  /\ s.op = "send" => s.tx \in pending \union sent
  /\ s.op = "revert" => s.tx \in pending /\ s.tx \notin sent

HasTransaction(w) == step[w].op \in {"send", "revert"}

TransactionsDiffer ==
  \A v, w \in Worker :
    v # w /\ HasTransaction(v) /\ HasTransaction(w) => step[v].tx # step[w].tx

\* What is mined was sent, so it is not one that a process takes back.
MinedIsSent == \A t \in pending : t.nonce < mined => t \in sent

TableInv == NoncesDiffer /\ NoncesHaveNoGap /\ CounterIsUnused /\ MinedIsSent

StorageInv ==
  /\ StorageTypeOK
  /\ ChecksHold
  /\ \A w \in Worker : StepInv(step[w])
  /\ TransactionsDiffer
  /\ TableInv

-----------------------------------------------------------------------------
(* The steps of the processes. *)

LEMMA StepFields ==
  ASSUME NEW s \in StepRecord
  PROVE  /\ s.op \in {"init", "create", "insert", "raise"} => s.network \in Nat
         /\ s.op \in {"lock", "sign"} => s.nonce \in Nat
         /\ s.op \in {"send", "revert"} => s.tx \in Transaction
BY DEF StepRecord, Out, Ready

LEMMA StepRecords ==
  /\ Out \in StepRecord /\ Out.op = "out"
  /\ Ready \in StepRecord /\ Ready.op = "ready"
  /\ \A o \in {"init", "create", "insert", "raise"} : \A n \in Nat :
       [op |-> o, network |-> n] \in StepRecord
  /\ \A o \in {"lock", "sign"} : \A n \in Nat : [op |-> o, nonce |-> n] \in StepRecord
  /\ \A o \in {"send", "revert"} : \A t \in Transaction : [op |-> o, tx |-> t] \in StepRecord
BY DEF StepRecord, Out, Ready

LEMMA Moves ==
  ASSUME StorageTypeOK, NEW w \in Worker, NEW s \in StepRecord, Goto(w, s)
  PROVE  /\ step' \in [Worker -> StepRecord]
         /\ step'[w] = s
         /\ \A v \in Worker : v # w => step'[v] = step[v]
BY DEF StorageTypeOK, Goto

\* A step after which a process has the transaction it had, or none.
LEMMA TransactionsStayDifferent ==
  ASSUME TransactionsDiffer, NEW w \in Worker, NEW s,
         step'[w] = s, \A v \in Worker : v # w => step'[v] = step[v],
         s.op \in {"send", "revert"} => HasTransaction(w) /\ s.tx = step[w].tx
  PROVE  TransactionsDiffer'
<1> SUFFICES ASSUME NEW u \in Worker, NEW v \in Worker,
                    u # v, HasTransaction(u)', HasTransaction(v)'
             PROVE  step'[u].tx # step'[v].tx
  BY DEF TransactionsDiffer
<1>1. /\ HasTransaction(u) /\ step'[u].tx = step[u].tx
      /\ HasTransaction(v) /\ step'[v].tx = step[v].tx
  BY DEF HasTransaction
<1> QED BY <1>1 DEF TransactionsDiffer

\* A step that changes neither the tables nor what the network knows.
LEMMA QuietStorageStep ==
  ASSUME StorageInv, ChecksHold', NEW w \in Worker, NEW s \in StepRecord, Goto(w, s),
         UNCHANGED <<counter, pending, signed, sent, mined>>,
         lock' \in Worker \union {NoWorker},
         StepInv(s),
         s.op \in {"send", "revert"} => HasTransaction(w) /\ s.tx = step[w].tx
  PROVE  StorageInv'
<1>1. /\ step' \in [Worker -> StepRecord]
      /\ step'[w] = s
      /\ \A v \in Worker : v # w => step'[v] = step[v]
  BY Moves DEF StorageInv
<1>2. StorageTypeOK'
  BY <1>1 DEF StorageInv, StorageTypeOK
<1>3. \A v \in Worker : StepInv(step[v])'
  BY <1>1 DEF StorageInv, StepInv
<1>4. TransactionsDiffer'
  BY <1>1, TransactionsStayDifferent DEF StorageInv
<1>5. TableInv'
  BY DEF StorageInv, TableInv, NoncesDiffer, NoncesHaveNoGap, CounterIsUnused, MinedIsSent
<1> QED BY <1>2, <1>3, <1>4, <1>5 DEF StorageInv

-----------------------------------------------------------------------------
(* One lemma per action that changes the tables or what the network knows. *)

\* The counter becomes the network's nonce.
LEMMA CounterIsRaised ==
  ASSUME StorageInv, ChecksHold', NEW w \in Worker, Goto(w, Ready),
         step[w].op \in {"insert", "raise"},
         counter' = step[w].network,
         UNCHANGED <<pending, lock, signed, sent, mined>>
  PROVE  StorageInv'
<1>1. /\ step' \in [Worker -> StepRecord]
      /\ step'[w] = Ready
      /\ \A v \in Worker : v # w => step'[v] = step[v]
  BY Moves, StepRecords DEF StorageInv
<1>2. step[w] \in StepRecord /\ step[w].network \in Nat
  BY StepFields DEF StorageInv, StorageTypeOK
<1>3. counter < step[w].network /\ counter \in Nat \union {-1} /\ mined \in Nat
  BY <1>2 DEF StorageInv, ChecksHold, StillHolds, StorageTypeOK, NoState
<1>4. counter' = mined
  BY <1>2, <1>3 DEF StorageInv, StepInv
<1>5. StorageTypeOK'
  BY <1>1, <1>3, <1>4 DEF StorageInv, StorageTypeOK
<1>6. \A v \in Worker : StepInv(step[v])'
  <2> SUFFICES ASSUME NEW v \in Worker PROVE StepInv(step[v])'
    OBVIOUS
  <2>1. CASE v = w
    BY <1>1, <1>3, <1>4, <2>1, StepRecords DEF StepInv
  <2>2. CASE v # w
    <3>1. step'[v] = step[v] /\ StepInv(step[v])
      BY <1>1, <2>2 DEF StorageInv
    <3>2. step[v].op \in {"init", "create", "insert", "raise"} => step[v].network \in Nat
      BY StepFields DEF StorageInv, StorageTypeOK
    <3> QED BY <1>3, <1>4, <3>1, <3>2 DEF StepInv
  <2> QED BY <2>1, <2>2
<1>7. TransactionsDiffer'
  BY <1>1, TransactionsStayDifferent, StepRecords DEF StorageInv
<1>8. TableInv'
  <2>1. NoncesDiffer' /\ MinedIsSent'
    BY DEF StorageInv, TableInv, NoncesDiffer, MinedIsSent
  <2>2. NoncesHaveNoGap'
    BY <1>3, <1>4 DEF NoncesHaveNoGap
  <2>3. CounterIsUnused'
    <3>1. \A t \in pending \union sent : t.nonce \in Nat /\ t.nonce < counter
      BY DEF StorageInv, StorageTypeOK, TableInv, CounterIsUnused, Transaction
    <3> QED BY <1>2, <1>3, <3>1 DEF CounterIsUnused
  <2> QED BY <2>1, <2>2, <2>3 DEF TableInv
<1> QED BY <1>5, <1>6, <1>7, <1>8 DEF StorageInv

\* The new transaction has a nonce that no other has.
LEMMA SigningKeepsInv ==
  ASSUME StorageInv, ChecksHold', NEW w \in Worker, SignAndSave(w)
  PROVE  StorageInv'
<1> DEFINE new == [id |-> signed, nonce |-> step[w].nonce]
<1>1. /\ step[w].op = "sign"
      /\ pending' = pending \union {new}
      /\ counter' = counter + 1
      /\ signed' = signed + 1
      /\ lock' = NoWorker
      /\ Goto(w, [op |-> "send", tx |-> new])
      /\ UNCHANGED <<sent, mined>>
  BY DEF SignAndSave, NextNonce
<1>2. /\ step[w].nonce = counter /\ counter \in Nat /\ signed \in Nat
      /\ mined \in Nat /\ mined <= counter
  <2>1. step[w] \in StepRecord /\ step[w].nonce \in Nat
    BY <1>1, StepFields DEF StorageInv, StorageTypeOK
  <2> QED BY <1>1, <2>1 DEF StorageInv, ChecksHold, StillHolds, StepInv, StorageTypeOK
<1>3. new \in Transaction /\ new.nonce = counter
  BY <1>2 DEF Transaction
<1> HIDE DEF new
<1>4. /\ step' \in [Worker -> StepRecord]
      /\ step'[w] = [op |-> "send", tx |-> new]
      /\ \A v \in Worker : v # w => step'[v] = step[v]
  BY <1>1, <1>3, Moves, StepRecords DEF StorageInv
<1>5. \A t \in pending \union sent : t \in Transaction /\ t.nonce \in Nat /\ t.nonce < counter
  BY DEF StorageInv, StorageTypeOK, TableInv, CounterIsUnused, Transaction
<1>6. StorageTypeOK'
  BY <1>1, <1>2, <1>3, <1>4 DEF StorageInv, StorageTypeOK
<1>7. \A v \in Worker : StepInv(step[v])'
  <2> SUFFICES ASSUME NEW v \in Worker PROVE StepInv(step[v])'
    OBVIOUS
  <2>1. CASE v = w
    BY <1>1, <1>2, <1>4, <2>1 DEF StepInv
  <2>2. CASE v # w
    <3>1. step'[v] = step[v] /\ StepInv(step[v])
      BY <1>4, <2>2 DEF StorageInv
    <3> QED BY <1>1, <1>2, <3>1 DEF StepInv
  <2> QED BY <2>1, <2>2
<1>8. TransactionsDiffer'
  <2>1. ASSUME NEW v \in Worker, v # w, HasTransaction(v)
        PROVE  step[v].tx # new
    <3>1. step[v].tx \in pending \union sent
      BY <2>1 DEF StorageInv, StepInv, HasTransaction
    <3> QED BY <1>2, <1>3, <1>5, <3>1
  <2> QED BY <1>4, <2>1 DEF StorageInv, TransactionsDiffer, HasTransaction
<1>9. TableInv'
  <2>1. NoncesDiffer'
    BY <1>1, <1>2, <1>3, <1>5 DEF StorageInv, TableInv, NoncesDiffer
  <2>2. NoncesHaveNoGap'
    <3> SUFFICES ASSUME NEW n \in mined..counter PROVE \E t \in pending' : t.nonce = n
      BY <1>1, <1>2 DEF NoncesHaveNoGap
    <3>1. CASE n = counter
      BY <1>1, <1>3, <3>1
    <3>2. CASE n \in mined..(counter - 1)
      BY <1>1, <3>2 DEF StorageInv, TableInv, NoncesHaveNoGap
    <3> QED BY <1>2, <3>1, <3>2
  <2>3. CounterIsUnused'
    BY <1>1, <1>2, <1>3, <1>5 DEF CounterIsUnused
  <2>4. MinedIsSent'
    BY <1>1, <1>2, <1>3 DEF StorageInv, TableInv, MinedIsSent
  <2> QED BY <2>1, <2>2, <2>3, <2>4 DEF TableInv
<1> QED BY <1>6, <1>7, <1>8, <1>9 DEF StorageInv

\* Sending: by the process that signed the transaction, or by one that found it.
LEMMA SendingKeepsInv ==
  ASSUME StorageInv, ChecksHold', NEW t \in pending \union sent,
         \A v \in Worker : step[v].op = "revert" => step[v].tx # t,
         sent' = sent \union {t},
         UNCHANGED <<counter, pending, lock, signed, mined>>,
         \/ UNCHANGED step
         \/ \E w \in Worker : Goto(w, Ready) /\ step[w].op = "send"
  PROVE  StorageInv'
<1>1. pending' \union sent' = pending \union sent
  OBVIOUS
<1>2. /\ step' \in [Worker -> StepRecord]
      /\ \A v \in Worker : step'[v] = step[v] \/ (step'[v] = Ready /\ step[v].op = "send")
  BY Moves, StepRecords DEF StorageInv, StorageTypeOK
<1>3. StorageTypeOK'
  BY <1>2 DEF StorageInv, StorageTypeOK
<1>4. \A v \in Worker : StepInv(step[v])'
  <2> SUFFICES ASSUME NEW v \in Worker PROVE StepInv(step[v])'
    OBVIOUS
  <2>1. StepInv(step[v])
    BY DEF StorageInv
  <2>2. CASE step'[v] = step[v]
    BY <2>1, <2>2 DEF StepInv
  <2>3. CASE step'[v] = Ready /\ step[v].op = "send"
    BY <2>1, <2>3, StepRecords DEF StepInv
  <2> QED BY <1>2, <2>2, <2>3
<1>5. TransactionsDiffer'
  BY <1>2, StepRecords DEF StorageInv, TransactionsDiffer, HasTransaction
<1>6. TableInv'
  BY <1>1 DEF StorageInv, TableInv, NoncesDiffer, NoncesHaveNoGap, CounterIsUnused, MinedIsSent
<1> QED BY <1>3, <1>4, <1>5, <1>6 DEF StorageInv

\* A transaction that is taken back is the last one, and nobody has sent it.
LEMMA RevertingKeepsInv ==
  ASSUME StorageInv, ChecksHold', NEW w \in Worker, RevertLastTx(w)
  PROVE  StorageInv'
<1> DEFINE last == WithNonce(counter - 1)
           own == step[w].tx
<1>1. /\ step[w].op = "revert" /\ Goto(w, Ready)
      /\ UNCHANGED <<lock, signed, sent, mined>>
  BY DEF RevertLastTx
<1>2. /\ step' \in [Worker -> StepRecord]
      /\ step'[w] = Ready
      /\ \A v \in Worker : v # w => step'[v] = step[v]
  BY <1>1, Moves, StepRecords DEF StorageInv
<1>3. CASE UNCHANGED <<pending, counter>>
  <2>1. StepInv(Ready)
    BY <1>1, StepRecords DEF StorageInv, StepInv
  <2> QED BY <1>1, <1>3, <2>1, QuietStorageStep, StepRecords DEF StorageInv, StorageTypeOK
<1>4. CASE pending' = pending \ last /\ counter' = counter - 1
  <2>1. /\ own \in Transaction /\ own \in pending /\ own \notin sent
        /\ own.nonce = counter - 1
        /\ counter \in Nat /\ mined \in Nat
    <3>1. own \in Transaction
      BY <1>1, StepFields DEF StorageInv, StorageTypeOK
    <3>2. own \in pending /\ own \notin sent /\ own.nonce = counter - 1
      BY <1>1 DEF StorageInv, StepInv, ChecksHold, StillHolds
    <3>3. own.nonce \in Nat /\ counter \in Nat \union {-1} /\ mined \in Nat
      BY <3>1 DEF Transaction, StorageInv, StorageTypeOK, NoState
    <3> QED BY <3>1, <3>2, <3>3
  <2>2. \A t \in pending \union sent :
          t # own => t.nonce \in Nat /\ t.nonce < counter - 1
    <3> SUFFICES ASSUME NEW t \in pending \union sent, t # own
                 PROVE  t.nonce \in Nat /\ t.nonce < counter - 1
      OBVIOUS
    <3>1. t.nonce \in Nat /\ t.nonce < counter
      BY DEF StorageInv, StorageTypeOK, Transaction, TableInv, CounterIsUnused
    <3>2. t.nonce # own.nonce
      BY <2>1 DEF StorageInv, TableInv, NoncesDiffer
    <3> QED BY <2>1, <3>1, <3>2
  <2>3. last = {own}
    <3>1. \A t \in pending : t.nonce = counter - 1 <=> t = own
      BY <2>1, <2>2
    <3> QED BY <2>1, <3>1 DEF WithNonce
  <2>4. /\ pending' = pending \ {own}
        /\ \A t \in pending' \union sent' : t \in pending \union sent /\ t # own
    BY <1>1, <1>4, <2>1, <2>3
  <2>5. mined <= counter - 1 /\ counter' = counter - 1 /\ counter' \in Nat
    <3>1. mined <= counter
      BY <1>1 DEF StorageInv, StepInv
    <3>2. ~(own.nonce < mined)
      BY <2>1 DEF StorageInv, TableInv, MinedIsSent
    <3>3. own.nonce \in Nat
      BY <2>1 DEF Transaction
    <3> QED BY <1>4, <2>1, <3>1, <3>2, <3>3
  <2>6. StorageTypeOK'
    BY <1>1, <1>2, <2>4, <2>5 DEF StorageInv, StorageTypeOK
  <2>7. \A v \in Worker : StepInv(step[v])'
    <3> SUFFICES ASSUME NEW v \in Worker PROVE StepInv(step[v])'
      OBVIOUS
    <3>1. CASE v = w
      BY <1>1, <1>2, <2>5, <3>1, StepRecords DEF StepInv
    <3>2. CASE v # w
      <4>1. step'[v] = step[v] /\ StepInv(step[v])
        BY <1>2, <3>2 DEF StorageInv
      <4>2. HasTransaction(v) => step[v].tx # own
        BY <1>1, <3>2 DEF StorageInv, TransactionsDiffer, HasTransaction
      <4>3. step[v].op = "send" => step[v].tx \in pending' \union sent'
        BY <1>1, <2>4, <4>1, <4>2 DEF StepInv, HasTransaction
      <4>4. step[v].op = "revert" => step[v].tx \in pending' /\ step[v].tx \notin sent'
        BY <1>1, <2>4, <4>1, <4>2 DEF StepInv, HasTransaction
      <4> QED BY <1>1, <2>5, <4>1, <4>3, <4>4 DEF StepInv
    <3> QED BY <3>1, <3>2
  <2>8. TransactionsDiffer'
    BY <1>2, TransactionsStayDifferent, StepRecords DEF StorageInv
  <2>9. TableInv'
    <3>1. NoncesDiffer' /\ MinedIsSent'
      BY <1>1, <2>4 DEF StorageInv, TableInv, NoncesDiffer, MinedIsSent
    <3>2. NoncesHaveNoGap'
      <4> SUFFICES ASSUME NEW n \in mined..(counter - 2)
                   PROVE  \E t \in pending' : t.nonce = n
        BY <1>1, <2>1, <2>5 DEF NoncesHaveNoGap
      <4>1. PICK t \in pending : t.nonce = n
        BY <2>1 DEF StorageInv, TableInv, NoncesHaveNoGap
      <4>2. t # own
        BY <2>1, <4>1
      <4> QED BY <2>4, <4>1, <4>2
    <3>3. CounterIsUnused'
      BY <2>2, <2>4, <2>5 DEF CounterIsUnused
    <3> QED BY <3>1, <3>2, <3>3 DEF TableInv
  <2> QED BY <2>6, <2>7, <2>8, <2>9 DEF StorageInv
<1> QED BY <1>3, <1>4 DEF RevertLastTx, PreviousNonce

\* The network does not get ahead of the counter.
LEMMA MiningKeepsInv ==
  ASSUME StorageInv, ChecksHold', Mine
  PROVE  StorageInv'
<1>1. PICK t \in sent : t.nonce = mined
  BY DEF Mine
<1>2. /\ mined' = mined + 1
      /\ UNCHANGED <<counter, pending, lock, step, signed, sent>>
      /\ mined \in Nat /\ counter \in Nat \union {-1}
  BY DEF Mine, StorageInv, StorageTypeOK, NoState
<1>3. mined < counter
  BY <1>1 DEF StorageInv, TableInv, CounterIsUnused
<1>4. StorageTypeOK'
  BY <1>2 DEF StorageInv, StorageTypeOK
<1>5. \A v \in Worker : StepInv(step[v])'
  <2> SUFFICES ASSUME NEW v \in Worker PROVE StepInv(step[v])'
    OBVIOUS
  <2>1. StepInv(step[v])
    BY DEF StorageInv
  <2>2. step[v].op \in {"init", "create", "insert", "raise"} => step[v].network \in Nat
    BY StepFields DEF StorageInv, StorageTypeOK
  <2> QED BY <1>2, <1>3, <2>1, <2>2 DEF StepInv
<1>6. TransactionsDiffer'
  BY <1>2 DEF StorageInv, TransactionsDiffer, HasTransaction
<1>7. TableInv'
  <2>1. NoncesDiffer' /\ CounterIsUnused'
    BY <1>2 DEF StorageInv, TableInv, NoncesDiffer, CounterIsUnused
  <2>2. NoncesHaveNoGap'
    BY <1>2, <1>3 DEF StorageInv, TableInv, NoncesHaveNoGap
  <2>3. MinedIsSent'
    <3> SUFFICES ASSUME NEW u \in pending, u.nonce < mined + 1 PROVE u \in sent
      BY <1>2 DEF MinedIsSent
    <3>1. u.nonce \in Nat
      BY DEF StorageInv, StorageTypeOK, Transaction
    <3>2. CASE u.nonce < mined
      BY <3>2 DEF StorageInv, TableInv, MinedIsSent
    <3>3. CASE u.nonce = mined
      BY <1>1, <3>3 DEF StorageInv, TableInv, NoncesDiffer
    <3> QED BY <1>2, <3>1, <3>2, <3>3
  <2> QED BY <2>1, <2>2, <2>3 DEF TableInv
<1> QED BY <1>4, <1>5, <1>6, <1>7 DEF StorageInv

LEMMA RemovingKeepsInv ==
  ASSUME StorageInv, ChecksHold', NEW w \in Worker, NEW n, RemoveTx(w, n)
  PROVE  StorageInv'
<1>1. /\ n \in 0..(mined - 1)
      /\ pending' = pending \ {t \in pending : t.nonce = n}
      /\ UNCHANGED <<counter, lock, step, signed, sent, mined>>
      /\ mined \in Nat
  BY DEF RemoveTx, ConfirmedNonces, WithNonce, StorageInv, StorageTypeOK
<1>2. \A t \in pending : t \in pending' \/ (t.nonce = n /\ t \in sent)
  <2>1. \A t \in pending : t.nonce = n => t \in sent
    BY <1>1 DEF StorageInv, TableInv, MinedIsSent
  <2> QED BY <1>1, <2>1
<1>3. StorageTypeOK'
  BY <1>1 DEF StorageInv, StorageTypeOK
<1>4. \A v \in Worker : StepInv(step[v])'
  <2> SUFFICES ASSUME NEW v \in Worker PROVE StepInv(step[v])'
    OBVIOUS
  <2>1. StepInv(step[v])
    BY DEF StorageInv
  <2> QED BY <1>1, <1>2, <2>1 DEF StepInv
<1>5. TransactionsDiffer'
  BY <1>1 DEF StorageInv, TransactionsDiffer, HasTransaction
<1>6. TableInv'
  <2>1. NoncesDiffer' /\ CounterIsUnused' /\ MinedIsSent'
    BY <1>1 DEF StorageInv, TableInv, NoncesDiffer, CounterIsUnused, MinedIsSent
  <2>2. NoncesHaveNoGap'
    <3> SUFFICES ASSUME NEW m \in mined..(counter - 1)
                 PROVE  \E t \in pending' : t.nonce = m
      BY <1>1 DEF NoncesHaveNoGap
    <3>1. PICK t \in pending : t.nonce = m
      BY DEF StorageInv, TableInv, NoncesHaveNoGap
    <3>2. m # n
      BY <1>1
    <3> QED BY <1>1, <3>1, <3>2
  <2> QED BY <2>1, <2>2 DEF TableInv
<1> QED BY <1>3, <1>4, <1>5, <1>6 DEF StorageInv

-----------------------------------------------------------------------------
(* The invariant, and the properties it implies. *)

LEMMA StorageInitInv == StorageInit => StorageInv
<1> SUFFICES ASSUME StorageInit PROVE StorageInv
  OBVIOUS
<1>1. mined \in Nat /\ counter \in {-1} \union 0..mined
  BY StorageAssumption DEF StorageInit, NoState
<1>2. StorageTypeOK
  BY <1>1, StepRecords DEF StorageInit, StorageTypeOK, NoState
<1>3. \A w \in Worker : step[w].op = "out" /\ StillHolds(w) /\ StepInv(step[w])
  BY StepRecords DEF StorageInit, StillHolds, StepInv
<1>4. TransactionsDiffer
  BY <1>3 DEF TransactionsDiffer, HasTransaction
<1>5. TableInv
  BY <1>1 DEF StorageInit, TableInv, NoncesDiffer, NoncesHaveNoGap, CounterIsUnused, MinedIsSent
<1> QED BY <1>2, <1>3, <1>4, <1>5 DEF StorageInv, ChecksHold

\* One step per action.
LEMMA StorageNextInv ==
  StorageInv /\ [StorageNext /\ ChecksHold']_storageVars => StorageInv'
<1> SUFFICES ASSUME StorageInv, StorageNext, ChecksHold' PROVE StorageInv'
  <2>1. ASSUME StorageInv, UNCHANGED storageVars PROVE StorageInv'
    BY <2>1 DEF storageVars, StorageInv, StorageTypeOK, ChecksHold, StillHolds, StepInv,
       TransactionsDiffer, HasTransaction, TableInv, NoncesDiffer, NoncesHaveNoGap,
       CounterIsUnused, MinedIsSent
  <2> QED BY <2>1
<1>1. mined \in Nat /\ counter \in Nat \union {-1} /\ lock \in Worker \union {NoWorker}
  BY DEF StorageInv, StorageTypeOK, NoState
<1>2. \A w \in Worker : StepInv(step[w]) /\ step[w] \in StepRecord
  BY DEF StorageInv, StorageTypeOK
<1>3. StepInv(Out)
  BY StepRecords DEF StepInv
<1>4. mined <= counter => StepInv(Ready)
  BY StepRecords DEF StepInv
<1>5. ASSUME NEW w \in Worker, AskNonce(w) PROVE StorageInv'
  <2> DEFINE s == [op |-> "init", network |-> mined]
  <2>1. s \in StepRecord /\ StepInv(s)
    BY <1>1, StepRecords DEF StepInv
  <2> QED BY <1>1, <1>5, <2>1, QuietStorageStep DEF AskNonce
<1>6. ASSUME NEW w \in Worker, CompareNonces(w) PROVE StorageInv'
  <2>1. step[w].network \in Nat /\ step[w].op = "init"
    BY <1>2, <1>6, StepFields DEF CompareNonces
  <2>2. ASSUME NEW o \in {"create", "raise"}, Goto(w, [op |-> o, network |-> step[w].network])
        PROVE  StorageInv'
    <3> DEFINE s == [op |-> o, network |-> step[w].network]
    <3>1. s \in StepRecord /\ StepInv(s)
      BY <1>2, <2>1, StepRecords DEF StepInv
    <3> QED BY <1>1, <1>6, <2>2, <3>1, QuietStorageStep DEF CompareNonces
  <2>3. CASE counter >= step[w].network /\ Goto(w, Ready)
    <3>1. mined <= counter
      BY <1>1, <1>2, <2>1, <2>3 DEF StepInv
    <3> QED BY <1>1, <1>4, <1>6, <2>3, <3>1, QuietStorageStep, StepRecords DEF CompareNonces
  <2> QED BY <1>6, <2>2, <2>3 DEF CompareNonces
<1>7. ASSUME NEW w \in Worker, CheckUniqueness(w) PROVE StorageInv'
  <2>1. step[w].network \in Nat /\ step[w].op = "create"
    BY <1>2, <1>7, StepFields DEF CheckUniqueness
  <2>2. CASE Goto(w, Out)
    BY <1>1, <1>3, <1>7, <2>2, QuietStorageStep, StepRecords DEF CheckUniqueness
  <2>3. CASE Goto(w, [op |-> "insert", network |-> step[w].network])
    <3> DEFINE s == [op |-> "insert", network |-> step[w].network]
    <3>1. s \in StepRecord /\ StepInv(s)
      BY <1>2, <2>1, StepRecords DEF StepInv
    <3> QED BY <1>1, <1>7, <2>3, <3>1, QuietStorageStep DEF CheckUniqueness
  <2> QED BY <1>7, <2>2, <2>3 DEF CheckUniqueness
<1>8. ASSUME NEW w \in Worker, InsertState(w) PROVE StorageInv'
  <2>1. CASE counter' = step[w].network /\ Goto(w, Ready)
    BY <1>8, <2>1, CounterIsRaised DEF InsertState
  <2>2. CASE Goto(w, Out) /\ UNCHANGED counter
    BY <1>1, <1>3, <1>8, <2>2, QuietStorageStep, StepRecords DEF InsertState
  <2> QED BY <1>8, <2>1, <2>2 DEF InsertState
<1>9. ASSUME NEW w \in Worker, RaiseNonce(w) PROVE StorageInv'
  BY <1>9, CounterIsRaised DEF RaiseNonce
<1>10. ASSUME NEW w \in Worker, GetNonce(w) PROVE StorageInv'
  <2> DEFINE s == [op |-> "lock", nonce |-> counter]
  <2>1. mined <= counter /\ counter \in Nat
    BY <1>1, <1>2, <1>10, StepRecords DEF GetNonce, StepInv
  <2>2. s \in StepRecord /\ StepInv(s)
    BY <2>1, StepRecords DEF StepInv
  <2> QED BY <1>1, <1>10, <2>2, QuietStorageStep DEF GetNonce
<1>11. ASSUME NEW w \in Worker, LockState(w) PROVE StorageInv'
  <2> DEFINE s == [op |-> "sign", nonce |-> step[w].nonce]
  <2>1. mined <= counter /\ step[w].nonce \in Nat
    BY <1>2, <1>11, StepFields DEF LockState, StepInv
  <2>2. s \in StepRecord /\ StepInv(s)
    BY <2>1, StepRecords DEF StepInv
  <2> QED BY <1>1, <1>11, <2>2, QuietStorageStep DEF LockState
<1>12. ASSUME NEW w \in Worker, SignAndSave(w) PROVE StorageInv'
  BY <1>12, SigningKeepsInv
<1>13. ASSUME NEW w \in Worker, SigningFails(w) PROVE StorageInv'
  <2>1. mined <= counter
    BY <1>2, <1>13 DEF SigningFails, StepInv
  <2> QED BY <1>4, <1>13, <2>1, QuietStorageStep, StepRecords DEF SigningFails
<1>14. ASSUME NEW w \in Worker, Send(w) PROVE StorageInv'
  <2>1. step[w].op = "send" /\ step[w].tx \in pending \union sent
    BY <1>2, <1>14 DEF Send, StepInv
  <2>2. \A v \in Worker : step[v].op = "revert" => step[v].tx # step[w].tx
    BY <2>1 DEF StorageInv, TransactionsDiffer, HasTransaction
  <2> QED BY <1>14, <2>1, <2>2, SendingKeepsInv DEF Send
<1>15. ASSUME NEW w \in Worker, Refuse(w) PROVE StorageInv'
  <2> DEFINE s == [op |-> "revert", tx |-> step[w].tx]
  <2>1. /\ step[w].op = "send" /\ step[w].tx \in Transaction
        /\ step[w].tx \in pending /\ step[w].tx \notin sent /\ mined <= counter
    BY <1>2, <1>15, StepFields DEF Refuse, StepInv
  <2>2. s \in StepRecord /\ StepInv(s)
    BY <2>1, StepRecords DEF StepInv
  <2>3. HasTransaction(w)
    BY <2>1 DEF HasTransaction
  <2> QED BY <1>1, <1>15, <2>2, <2>3, QuietStorageStep DEF Refuse
<1>16. ASSUME NEW w \in Worker, RevertLastTx(w) PROVE StorageInv'
  BY <1>16, RevertingKeepsInv
<1>17. ASSUME NEW w \in Worker, NEW t \in pending, Resend(w, t) PROVE StorageInv'
  BY <1>17, SendingKeepsInv DEF Resend
<1>18. ASSUME NEW w \in Worker, NEW t \in pending, RemoveTx(w, t.nonce) PROVE StorageInv'
  BY <1>18, RemovingKeepsInv
<1>19. ASSUME NEW w \in Worker, Crash(w) PROVE StorageInv'
  BY <1>1, <1>3, <1>19, QuietStorageStep, StepRecords DEF Crash
<1>20. CASE Mine
  BY <1>20, MiningKeepsInv
<1> QED BY <1>5, <1>6, <1>7, <1>8, <1>9, <1>10, <1>11, <1>12, <1>13, <1>14, <1>15, <1>16,
           <1>17, <1>18, <1>19, <1>20 DEF StorageNext

LEMMA StorageInvariance == SerialSpec => []StorageInv
BY StorageInitInv, StorageNextInv, PTL DEF SerialSpec

\* The variables have their types.
THEOREM StorageTypeCorrect == SerialSpec => []StorageTypeOK
<1>1. StorageInv => StorageTypeOK
  BY DEF StorageInv
<1> QED BY <1>1, StorageInvariance, PTL

\* No nonce is used twice, so no payment replaces another (storage.py,
\* set_nonce_sign_and_save_tx, revert_last_tx and init).
THEOREM NoncesAreUsedOnce == SerialSpec => []NoncesDiffer
<1>1. StorageInv => NoncesDiffer
  BY DEF StorageInv, TableInv
<1> QED BY <1>1, StorageInvariance, PTL

\* No transaction is held up by a nonce that nobody uses (storage.py, revert_last_tx and
\* remove_tx).
THEOREM NoNonceIsMissing == SerialSpec => []NoncesHaveNoGap
<1>1. StorageInv => NoncesHaveNoGap
  BY DEF StorageInv, TableInv
<1> QED BY <1>1, StorageInvariance, PTL

\* No process hands out a nonce that is in the table or was sent, whenever it has started
\* (storage.py, init).
THEOREM StartsDoNotReuseNonces == SerialSpec => []CounterIsUnused
<1>1. StorageInv => CounterIsUnused
  BY DEF StorageInv, TableInv
<1> QED BY <1>1, StorageInvariance, PTL

-----------------------------------------------------------------------------
(* The signing service. *)

\* What the connections of today have counted last is in the file, and so it is, but for
\* what this connection has counted itself, in the sum that its next transaction is added to.
\* Nothing is counted on a day to come.
CountInv ==
  /\ latest <= lasts[day]
  /\ lasts[day] <= file[day]
  /\ service.phase = "connected" => lasts[day] <= SumSoFar + latest
  /\ \A d \in Day : d > day => lasts[d] = 0

LimitInv == ServiceTypeOK /\ LatestAreLimited /\ CountInv

-----------------------------------------------------------------------------
LEMMA DaysAreNaturals == Day \subseteq Nat /\ 1 \in Day
  BY ServiceAssumption DEF Day, ServiceAssumption

\* For the backend that knows no arithmetic.
LEMMA NothingIsCovered == \A n \in Nat : 0 <= n /\ 0 <= n + 0
  OBVIOUS

LEMMA SumIsNatural == ServiceTypeOK => SumSoFar \in Nat
  BY DEF ServiceTypeOK, SumSoFar

LEMMA InitIsLimited == Init => LimitInv
  <1> SUFFICES ASSUME Init PROVE LimitInv
    OBVIOUS
  <1>1. ServiceTypeOK
    BY DaysAreNaturals DEF Init, ConnectionInit, ServiceTypeOK, ConnectionTypeOK, Phase
  <1>2. LatestAreLimited
    BY DaysAreNaturals, ServiceAssumption DEF Init, LatestAreLimited, ServiceAssumption
  <1>3. CountInv
    BY <1>1, DaysAreNaturals, SumIsNatural DEF Init, CountInv
  <1> QED
    BY <1>1, <1>2, <1>3 DEF LimitInv

\* The process changes in all these ways without a change of its type.
LEMMA ConnectionStepIsTyped ==
  ASSUME ConnectionTypeOK,
         OpenSocket \/ Authenticate \/ Fail \/ Stop \/ Start \/ UNCHANGED service
  PROVE  ConnectionTypeOK'
  BY DEF ConnectionTypeOK, Phase, OpenSocket, Authenticate, Fail, CountFailure, Stop, Start

LEMMA QuietStepIsTyped == ServiceTypeOK /\ QuietStep => ServiceTypeOK'
  <1> SUFFICES ASSUME ServiceTypeOK, QuietStep PROVE ServiceTypeOK'
    OBVIOUS
  <1> USE SumIsNatural
  <1>1. ConnectionTypeOK'
    BY ConnectionStepIsTyped
    DEF QuietStep, ServiceTypeOK, Connect, Accept, LoseConnection, StopService, StartService,
        RejectTransaction, PassMidnight
  <1>2. file' = file /\ total' = total /\ lasts' = lasts /\ latest' \in {0, latest}
    BY DEF QuietStep, Connect, Accept, LoseConnection, StopService, StartService,
           RejectTransaction, PassMidnight, history
  <1>3. counted' \in Nat /\ fileName' \in Day
    BY DEF QuietStep, ServiceTypeOK, Connect, Accept, LoseConnection, StopService,
           StartService, RejectTransaction, UpdateFileName, PassMidnight, memory
  <1>4. day' \in Day
    <2>1. CASE PassMidnight
      BY <2>1, ServiceAssumption DEF PassMidnight, ServiceTypeOK, Day, ServiceAssumption
    <2>2. CASE ~ PassMidnight
      BY <2>2 DEF QuietStep, ServiceTypeOK, Connect, Accept, LoseConnection, StopService,
                  StartService, RejectTransaction
    <2> QED
      BY <2>1, <2>2
  <1> QED
    BY <1>1, <1>2, <1>3, <1>4 DEF ServiceTypeOK

\* A quiet step counts nothing.  Only Accept makes a connection, and it reads the file.
LEMMA QuietStepIsLimited == LimitInv /\ QuietStep => LimitInv'
  <1> SUFFICES ASSUME LimitInv, QuietStep PROVE LimitInv'
    OBVIOUS
  <1> USE DaysAreNaturals, SumIsNatural DEF LimitInv
  <1>1. ServiceTypeOK'
    BY QuietStepIsTyped
  <1>2. lasts' = lasts /\ file' = file
    BY DEF QuietStep, Connect, Accept, LoseConnection, StopService, StartService,
           RejectTransaction, PassMidnight, history
  <1>3. LatestAreLimited'
    BY <1>2 DEF LatestAreLimited
  <1>4. SumSoFar' \in Nat
    BY <1>1 DEF ServiceTypeOK, SumSoFar
  <1>5. CASE PassMidnight
    <2>1. day' = day + 1 /\ day' \in Day /\ latest' = 0
      BY <1>1, <1>5 DEF PassMidnight, ServiceTypeOK
    <2>2. lasts[day'] = 0
      BY <2>1 DEF CountInv, ServiceTypeOK
    <2>3. \A d \in Day : d > day' => lasts'[d] = 0
      BY <1>2, <2>1 DEF CountInv, ServiceTypeOK
    <2>4. file'[day'] \in Nat
      BY <1>1 DEF ServiceTypeOK
    <2>5. lasts'[day'] = 0
      BY <1>2, <2>2
    <2>6. /\ latest' <= lasts'[day']
          /\ lasts'[day'] <= file'[day']
          /\ lasts'[day'] <= SumSoFar' + latest'
      BY <1>4, <2>1, <2>4, <2>5, NothingIsCovered, Zenon
    <2>7. CountInv'
      BY <2>3, <2>6 DEF CountInv
    <2> QED
      BY <1>1, <1>3, <2>7
  <1>6. CASE Accept
    <2>1. day' = day /\ latest' = 0 /\ counted' = file[day]
      BY <1>6 DEF Accept
    <2>2. SumSoFar' = file[day]
      BY <1>2, <2>1 DEF SumSoFar
    <2>3. CountInv'
      BY <1>1, <1>2, <2>1, <2>2 DEF CountInv, ServiceTypeOK
    <2> QED
      BY <1>1, <1>3, <2>3
  <1>7. CASE ~ PassMidnight /\ ~ Accept
    <2>1. day' = day /\ latest' = latest
      BY <1>7 DEF QuietStep, Connect, LoseConnection, StopService, StartService,
                  RejectTransaction, history
    <2>2. service'.phase = "connected" =>
            service.phase = "connected" /\ SumSoFar' = SumSoFar
      BY <1>2, <1>7, <2>1
      DEF QuietStep, Connect, LoseConnection, StopService, StartService, RejectTransaction,
          OpenSocket, Fail, Stop, Start, UpdateFileName, SumSoFar, ServiceTypeOK,
          ConnectionTypeOK, Phase
    <2>3. CountInv'
      BY <1>1, <1>2, <2>1, <2>2 DEF CountInv, ServiceTypeOK
    <2> QED
      BY <1>1, <1>3, <2>3
  <1> QED
    BY <1>5, <1>6, <1>7

\* What the file holds after a write, whether midnight has passed or not.
LEMMA WrittenSum ==
  ASSUME ServiceTypeOK, NEW value \in Value, WriteSum(value)
  PROVE  /\ day' \in Day
         /\ day' \in {day, day + 1}
         /\ file' \in [Day -> Nat]
         /\ file'[day'] = SumSoFar + value
  <1>1. SumSoFar + value \in Nat
    BY SumIsNatural, ServiceAssumption DEF ServiceAssumption
  <1> QED
    BY <1>1 DEF WriteSum, ServiceTypeOK

\* The value replaces what the connection counted last, so the sum of the day is at most the
\* one that was compared with the limit, and that one is in the file now.
LEMMA SigningIsLimited ==
  ASSUME LimitInv, NEW value \in Value, SignTransaction(value) \/ LoseResponse(value)
  PROVE  LimitInv'
  <1> USE DaysAreNaturals DEF LimitInv
  <1>1. WriteSum(value) /\ IsAllowed(value) /\ UpdateFileName /\ Remember(value)
    BY DEF SignTransaction, LoseResponse
  <1>2. ConnectionTypeOK'
    BY ConnectionStepIsTyped DEF ServiceTypeOK, SignTransaction, LoseResponse
  <1>3. value \in Nat /\ SumSoFar \in Nat /\ DailyLimit \in Nat
    BY SumIsNatural, ServiceAssumption DEF ServiceAssumption
  <1>4. total' \in [Day -> Nat]
    BY <1>3 DEF ServiceTypeOK, SignTransaction, LoseResponse
  <1>5. lasts[day] \in Nat /\ latest \in Nat /\ latest <= lasts[day]
    BY DEF ServiceTypeOK, CountInv
  <1>6. /\ lasts' \in [Day -> Nat]
        /\ lasts'[day] = lasts[day] - latest + value
        /\ \A d \in Day : d # day => lasts'[d] = lasts[d]
    <2>1. lasts[day] - latest + value \in Nat
      BY <1>3, <1>5
    <2> QED
      BY <1>1, <2>1 DEF Remember, ServiceTypeOK
  <1>7. latest' \in Nat /\ latest' = IF day' = day THEN value ELSE 0
    BY <1>1, <1>3 DEF Remember
  <1>8. ServiceTypeOK'
    BY <1>1, <1>2, <1>3, <1>4, <1>6, <1>7, WrittenSum DEF ServiceTypeOK, UpdateFileName
  <1>9. lasts'[day] <= SumSoFar + value /\ SumSoFar + value <= DailyLimit
    BY <1>1, <1>3, <1>5, <1>6 DEF IsAllowed, Exceeds, CountInv
  <1>10. LatestAreLimited'
    <2> SUFFICES ASSUME NEW d \in Day PROVE lasts'[d] <= DailyLimit
      BY DEF LatestAreLimited
    <2>1. CASE d = day
      BY <2>1, <1>3, <1>5, <1>6, <1>9
    <2>2. CASE d # day
      BY <2>2, <1>6 DEF LatestAreLimited
    <2> QED
      BY <2>1, <2>2
  <1>11. \A d \in Day : d > day' => lasts'[d] = 0
    BY <1>1, <1>6, WrittenSum DEF ServiceTypeOK, CountInv
  <1>12. SumSoFar' \in Nat
    BY <1>8 DEF ServiceTypeOK, SumSoFar
  <1>13. CASE day' = day
    <2>1. counted' = SumSoFar /\ fileName' = day
      BY <1>1 DEF UpdateFileName
    <2>2. SumSoFar' = SumSoFar
      BY <1>13, <2>1 DEF SumSoFar
    <2>3. CountInv'
      BY <1>1, <1>3, <1>5, <1>6, <1>7, <1>9, <1>11, <1>13, <2>2, WrittenSum DEF CountInv
    <2> QED
      BY <1>8, <1>10, <2>3
  <1>14. CASE day' = day + 1
    <2>1. lasts'[day'] = 0
      BY <1>1, <1>6, <1>14, WrittenSum DEF ServiceTypeOK, CountInv
    <2>2. latest' = 0
      BY <1>7, <1>14 DEF ServiceTypeOK
    <2>3. file'[day'] \in Nat
      BY <1>8 DEF ServiceTypeOK
    <2>4. /\ latest' <= lasts'[day']
          /\ lasts'[day'] <= file'[day']
      BY <2>1, <2>2, <2>3
    <2>5. lasts'[day'] <= SumSoFar' + latest'
      BY <1>12, <2>1, <2>2, NothingIsCovered, Zenon
    <2>6. CountInv'
      BY <1>11, <2>4, <2>5 DEF CountInv
    <2> QED
      BY <1>8, <1>10, <2>6
  <1> QED
    BY <1>1, <1>13, <1>14, WrittenSum

\* A torn file is empty, and nothing that was counted before is counted any more.
LEMMA TearingIsLimited ==
  ASSUME LimitInv, NEW value \in Value, TearFile(value)
  PROVE  LimitInv'
  <1> USE DaysAreNaturals, SumIsNatural DEF LimitInv
  <1>1. /\ day' = day /\ latest' = 0 /\ total' = total
        /\ lasts' = [lasts EXCEPT ![day] = 0]
        /\ file' = [file EXCEPT ![day] = 0]
        /\ service'.phase = "stopped"
    BY DEF TearFile, Stop
  <1>2. ServiceTypeOK'
    BY <1>1, ConnectionStepIsTyped DEF ServiceTypeOK, TearFile, UpdateFileName
  <1>3. LatestAreLimited'
    BY <1>1, ServiceAssumption DEF LatestAreLimited, ServiceTypeOK, ServiceAssumption
  <1>4. CountInv'
    BY <1>1 DEF CountInv, ServiceTypeOK
  <1> QED
    BY <1>2, <1>3, <1>4

LEMMA LimitIsKept == LimitInv /\ [Next]_vars => LimitInv'
  <1> SUFFICES ASSUME LimitInv, [Next]_vars PROVE LimitInv'
    OBVIOUS
  <1>1. CASE QuietStep
    BY <1>1, QuietStepIsLimited
  <1>2. ASSUME NEW value \in Value, SignTransaction(value) \/ LoseResponse(value)
        PROVE  LimitInv'
    BY <1>2, SigningIsLimited
  <1>3. ASSUME NEW value \in Value, TearFile(value) PROVE LimitInv'
    BY <1>3, TearingIsLimited
  <1>4. CASE UNCHANGED vars
    BY <1>4 DEF vars, memory, history, LimitInv, ServiceTypeOK, ConnectionTypeOK,
                LatestAreLimited, CountInv, SumSoFar
  <1> QED
    BY <1>1, <1>2, <1>3, <1>4 DEF Next

-----------------------------------------------------------------------------
\* What the signing service keeps has the types of ServiceTypeOK.
THEOREM ServiceIsTyped == Spec => []ServiceTypeOK
  <1>1. LimitInv => ServiceTypeOK
    BY DEF LimitInv
  <1> QED
    BY <1>1, InitIsLimited, LimitIsKept, PTL DEF Spec

\* The last transactions of all connections of a day stay within the daily limit together,
\* counted from where the file of the day was last torn, if it was.
THEOREM LatestTransactionsAreLimited == Spec => []LatestAreLimited
  <1>1. LimitInv => LatestAreLimited
    BY DEF LimitInv
  <1> QED
    BY <1>1, InitIsLimited, LimitIsKept, PTL DEF Spec

-----------------------------------------------------------------------------
(* Framing. *)

-----------------------------------------------------------------------------
(* Sequences of bytes. *)

\* Induction over sequences, by their last elements.
LEMMA SeqSetInduction ==
  ASSUME NEW T, NEW Good, <<>> \in Good,
         \A s \in Seq(T), y \in T : s \in Good => Append(s, y) \in Good
  PROVE  \A s \in Seq(T) : s \in Good
<1> DEFINE OfLength == {n \in Nat : \A s \in Seq(T) : Len(s) = n => s \in Good}
<1>1. 0 \in OfLength
  BY EmptySeq
<1>2. ASSUME NEW n \in Nat, n \in OfLength
      PROVE  n + 1 \in OfLength
  <2> SUFFICES ASSUME NEW s \in Seq(T), Len(s) = n + 1
               PROVE  s \in Good
    OBVIOUS
  <2>1. s # <<>>
    BY EmptySeq
  <2>2. PICK t \in Seq(T), y \in T : s = Append(t, y)
    BY <2>1, SequenceEmptyOrAppend
  <2>3. Len(s) = Len(t) + 1
    BY <2>2, AppendProperties
  <2>4. t \in Good
    <3>1. Len(t) \in Nat
      BY LenProperties
    <3>2. Len(t) = n
      BY <2>3, <3>1
    <3> QED
      BY <1>2, <3>2
  <2> QED
    BY <2>2, <2>4
<1>3. \A n \in Nat : n \in OfLength
  <2> HIDE DEF OfLength
  <2> QED
    BY <1>1, <1>2, NatSetInduction
<1> QED
  BY <1>3, LenProperties

\* Concatenation as an operator of its own, whose definition is expanded where it is needed.
Joined(s, t) == s \o t

\* Its length and its elements.
LEMMA JoinedProperties ==
  ASSUME NEW S, NEW s \in Seq(S), NEW t \in Seq(S)
  PROVE  /\ Joined(s, t) \in Seq(S)
         /\ Len(Joined(s, t)) = Len(s) + Len(t)
         /\ \A i \in 1..(Len(s) + Len(t)) :
              Joined(s, t)[i] = IF i <= Len(s) THEN s[i] ELSE t[i - Len(s)]
<1>1. /\ s \o t \in Seq(S) /\ Len(s \o t) = Len(s) + Len(t)
      /\ \A i \in 1..(Len(s) + Len(t)) : (s \o t)[i] = IF i <= Len(s) THEN s[i] ELSE t[i - Len(s)]
  BY ConcatProperties
<1> QED
  BY <1>1 DEF Joined

\* The empty sequence changes nothing.
LEMMA JoinedEmpty ==
  ASSUME NEW S, NEW s \in Seq(S)
  PROVE  Joined(s, <<>>) = s /\ Joined(<<>>, s) = s
BY ConcatEmptySeq DEF Joined

\* Joining three sequences.
LEMMA JoinedAssociative ==
  ASSUME NEW S, NEW s \in Seq(S), NEW t \in Seq(S), NEW u \in Seq(S)
  PROVE  Joined(Joined(s, t), u) = Joined(s, Joined(t, u))
BY ConcatAssociative DEF Joined

\* The last element of the second sequence is the last one.
LEMMA JoinedAppend ==
  ASSUME NEW S, NEW s \in Seq(S), NEW t \in Seq(S), NEW y \in S
  PROVE  Joined(s, Append(t, y)) = Append(Joined(s, t), y)
<1>1. Joined(s, Append(t, y)) \in Seq(S) /\ Append(Joined(s, t), y) \in Seq(S)
  BY JoinedProperties, AppendProperties
<1> QED
  BY <1>1 DEF Joined

\* The recursive function that FlattenSeq is a value of.
IsFlat(g, ss, n) == g = [i \in 1..n |-> IF i = 1 THEN ss[i] ELSE g[i-1] \o ss[i]]

Flattened(ss, n) == CHOOSE g : IsFlat(g, ss, n)

\* FlattenSeq() is its last value.
LEMMA FlattenIsFlat ==
  ASSUME NEW ss
  PROVE  FlattenSeq(ss) = IF Len(ss) = 0 THEN ss ELSE Flattened(ss, Len(ss))[Len(ss)]
BY DEF FlattenSeq, IsFlat, Flattened

\* There is such a function, ...
LEMMA FlatExists ==
  ASSUME NEW ss, NEW n \in Nat
  PROVE  IsFlat(Flattened(ss, n), ss, n)
<1> DEFINE Good == {k \in Nat : \E g : IsFlat(g, ss, k)}
<1>1. 0 \in Good
  <2>1. IsFlat([i \in 1..0 |-> 0], ss, 0)
    BY DEF IsFlat
  <2> QED
    BY <2>1
<1>2. ASSUME NEW k \in Nat, k \in Good
      PROVE  k + 1 \in Good
  <2>1. PICK g : IsFlat(g, ss, k)
    BY <1>2
  <2>2. \A i \in 1..k : g[i] = IF i = 1 THEN ss[i] ELSE g[i-1] \o ss[i]
    BY <2>1 DEF IsFlat
  <2> DEFINE h == [i \in 1..(k + 1) |-> IF i = 1 THEN ss[i] ELSE g[i-1] \o ss[i]]
  <2>3. \A i \in 1..k : h[i] = g[i]
    BY <2>2
  <2>4. \A i \in 1..(k + 1) : h[i] = IF i = 1 THEN ss[i] ELSE h[i-1] \o ss[i]
    <3> SUFFICES ASSUME NEW i \in 1..(k + 1)
                 PROVE  h[i] = IF i = 1 THEN ss[i] ELSE h[i-1] \o ss[i]
      OBVIOUS
    <3>1. CASE i = 1
      BY <3>1
    <3>2. CASE i # 1
      <4>1. i - 1 \in 1..k
        BY <3>2
      <4>2. h[i-1] = g[i-1]
        BY <2>3, <4>1
      <4> QED
        BY <3>2, <4>2
    <3> QED
      BY <3>1, <3>2
  <2>5. h = [i \in 1..(k + 1) |-> IF i = 1 THEN ss[i] ELSE h[i-1] \o ss[i]]
    <3>1. h = [i \in 1..(k + 1) |-> h[i]]
      OBVIOUS
    <3> HIDE DEF h
    <3> QED
      BY <2>4, <3>1
  <2>6. IsFlat(h, ss, k + 1)
    <3> HIDE DEF h
    <3> QED
      BY <2>5 DEF IsFlat
  <2> HIDE DEF h
  <2> QED
    BY <2>6
<1>3. n \in Good
  <2> HIDE DEF Good
  <2> QED
    BY <1>1, <1>2, NatSetInduction
<1> QED
  BY <1>3 DEF Flattened

\* ... and it does not depend on what comes later.
LEMMA FlatUnique ==
  ASSUME NEW ss, NEW tt, NEW m \in Nat \ {0}, \A i \in 1..m : ss[i] = tt[i]
  PROVE  Flattened(ss, m + 1)[m] = Flattened(tt, m)[m]
<1>0. PICK n \in Nat : n = m + 1
  OBVIOUS
<1>1. PICK g, h : g = Flattened(ss, n) /\ h = Flattened(tt, m)
  OBVIOUS
<1>2. /\ \A i \in 1..n : g[i] = IF i = 1 THEN ss[i] ELSE g[i-1] \o ss[i]
      /\ \A i \in 1..m : h[i] = IF i = 1 THEN tt[i] ELSE h[i-1] \o tt[i]
  <2>1. IsFlat(g, ss, n) /\ IsFlat(h, tt, m)
    BY <1>1, FlatExists
  <2>2. \A i \in 1..n : g[i] = IF i = 1 THEN ss[i] ELSE g[i-1] \o ss[i]
    BY <2>1 DEF IsFlat
  <2>3. \A i \in 1..m : h[i] = IF i = 1 THEN tt[i] ELSE h[i-1] \o tt[i]
    BY <2>1 DEF IsFlat
  <2> QED
    BY <2>2, <2>3
<1> DEFINE Good == {i \in Nat : i \in 1..m => g[i] = h[i]}
<1>3. 0 \in Good
  OBVIOUS
<1>4. ASSUME NEW i \in Nat, i \in Good
      PROVE  i + 1 \in Good
  <2> SUFFICES ASSUME i + 1 \in 1..m PROVE g[i + 1] = h[i + 1]
    OBVIOUS
  <2>1. i + 1 \in 1..n /\ i + 1 \in 1..m /\ ss[i + 1] = tt[i + 1] /\ (i + 1) - 1 = i
    BY <1>0
  <2>2. CASE i = 0
    BY <1>2, <2>1, <2>2
  <2>3. CASE i # 0
    <3>1. i \in 1..m /\ i + 1 # 1
      BY <2>3
    <3>2. g[i] = h[i]
      BY <1>4, <3>1
    <3> QED
      BY <1>2, <2>1, <3>1, <3>2
  <2> QED
    BY <2>2, <2>3
<1>5. \A i \in Nat : i \in Good
  <2> HIDE DEF Good
  <2> QED
    BY <1>3, <1>4, NatSetInduction
<1> QED
  BY <1>0, <1>1, <1>5

\* Flattening goes on with the last sequence.
LEMMA FlattenAppend ==
  ASSUME NEW T, NEW ss \in Seq(Seq(T)), NEW s \in Seq(T)
  PROVE  FlattenSeq(Append(ss, s)) = Joined(FlattenSeq(ss), s)
<1>1. PICK n \in Nat : n = Len(ss)
  BY LenProperties
<1>2. PICK tt : tt = Append(ss, s)
  OBVIOUS
<1>3. /\ tt \in Seq(Seq(T)) /\ Len(tt) = n + 1 /\ tt[n + 1] = s
      /\ \A i \in 1..n : tt[i] = ss[i]
  BY <1>1, <1>2, AppendProperties
<1>4. FlattenSeq(tt) = Flattened(tt, n + 1)[n + 1]
  BY <1>3, FlattenIsFlat
<1>5. \A i \in 1..(n + 1) :
        Flattened(tt, n + 1)[i] =
          IF i = 1 THEN tt[i] ELSE Flattened(tt, n + 1)[i-1] \o tt[i]
  <2>1. PICK g : g = Flattened(tt, n + 1)
    OBVIOUS
  <2>2. IsFlat(g, tt, n + 1)
    BY <2>1, FlatExists
  <2>3. \A i \in 1..(n + 1) : g[i] = IF i = 1 THEN tt[i] ELSE g[i-1] \o tt[i]
    BY <2>2 DEF IsFlat
  <2> QED
    BY <2>1, <2>3
<1>6. CASE n = 0
  <2>1. ss = <<>>
    BY <1>1, <1>6, EmptySeq
  <2>2. FlattenSeq(ss) = <<>>
    BY <2>1, FlattenIsFlat
  <2>3. FlattenSeq(tt) = s
    BY <1>3, <1>4, <1>5, <1>6
  <2> QED
    BY <1>2, <2>2, <2>3, JoinedEmpty
<1>7. CASE n # 0
  <2>1. FlattenSeq(ss) = Flattened(ss, n)[n]
    BY <1>1, <1>7, FlattenIsFlat
  <2>2. n \in 1..n /\ n + 1 \in 1..(n + 1) /\ (n + 1) - 1 = n /\ n + 1 # 1
    BY <1>7
  <2>3. Flattened(tt, n + 1)[n] = Flattened(ss, n)[n]
    BY <1>3, <2>2, FlatUnique
  <2>4. FlattenSeq(tt) = Joined(Flattened(tt, n + 1)[n], s)
    BY <1>3, <1>4, <1>5, <2>2 DEF Joined
  <2> QED
    BY <1>2, <2>1, <2>3, <2>4
<1> QED
  BY <1>6, <1>7

\* Flattening no sequences.
LEMMA FlattenEmpty == FlattenSeq(<<>>) = <<>>
  BY EmptySeq, FlattenIsFlat

\* The elements stay the same.
LEMMA FlattenType ==
  ASSUME NEW T, NEW ss \in Seq(Seq(T))
  PROVE  FlattenSeq(ss) \in Seq(T)
<1> DEFINE Good == {tt \in Seq(Seq(T)) : FlattenSeq(tt) \in Seq(T)}
<1>1. <<>> \in Good
  BY FlattenEmpty, EmptySeq
<1>2. \A tt \in Seq(Seq(T)), s \in Seq(T) : tt \in Good => Append(tt, s) \in Good
  BY FlattenAppend, AppendProperties, JoinedProperties
<1>3. ss \in Good
  <2> HIDE DEF Good
  <2> QED
    BY <1>1, <1>2, SeqSetInduction
<1> QED
  BY <1>3

\* Flattening two sequences one after the other.
LEMMA FlattenConcat ==
  ASSUME NEW T, NEW ss \in Seq(Seq(T)), NEW tt \in Seq(Seq(T))
  PROVE  FlattenSeq(Joined(ss, tt)) = Joined(FlattenSeq(ss), FlattenSeq(tt))
<1> DEFINE Good == {uu \in Seq(Seq(T)) :
                      FlattenSeq(Joined(ss, uu)) = Joined(FlattenSeq(ss), FlattenSeq(uu))}
<1>1. <<>> \in Good
  BY FlattenEmpty, FlattenType, JoinedEmpty, EmptySeq
<1>2. ASSUME NEW uu \in Seq(Seq(T)), NEW s \in Seq(T), uu \in Good
      PROVE  Append(uu, s) \in Good
  <2>1. Append(uu, s) \in Seq(Seq(T)) /\ Joined(ss, uu) \in Seq(Seq(T))
    BY AppendProperties, JoinedProperties
  <2>2. Joined(ss, Append(uu, s)) = Append(Joined(ss, uu), s)
    BY JoinedAppend
  <2>3. FlattenSeq(Append(Joined(ss, uu), s)) = Joined(FlattenSeq(Joined(ss, uu)), s)
    BY <2>1, FlattenAppend
  <2>4. FlattenSeq(Append(uu, s)) = Joined(FlattenSeq(uu), s)
    BY FlattenAppend
  <2>5. Joined(FlattenSeq(ss), Joined(FlattenSeq(uu), s))
          = Joined(Joined(FlattenSeq(ss), FlattenSeq(uu)), s)
    BY FlattenType, JoinedAssociative
  <2> QED
    BY <1>2, <2>1, <2>2, <2>3, <2>4, <2>5
<1>3. tt \in Good
  <2> HIDE DEF Good
  <2> QED
    BY <1>1, <1>2, SeqSetInduction
<1> QED
  BY <1>3

\* Sequences of one and of two elements.
LEMMA SmallSequences ==
  /\ \A X : \A x \in X : <<x>> \in Seq(X) /\ Len(<<x>>) = 1 /\ <<x>>[1] = x
  /\ \A X : \A x, y \in X : /\ <<x, y>> \in Seq(X) /\ Len(<<x, y>>) = 2
                            /\ <<x, y>>[1] = x /\ <<x, y>>[2] = y
<1>1. \A X : \A x \in X : <<x>> \in Seq(X) /\ Len(<<x>>) = 1 /\ <<x>>[1] = x
  OBVIOUS
<1>2. \A X : \A x, y \in X : /\ <<x, y>> \in Seq(X) /\ Len(<<x, y>>) = 2
                            /\ <<x, y>>[1] = x /\ <<x, y>>[2] = y
  OBVIOUS
<1> QED
  BY <1>1, <1>2

\* What the replaced bytes and the others become are in X: so are the bytes of the result.
LEMMA ReplaceByteType ==
  ASSUME NEW X, NEW Y, NEW s \in Seq(Y), NEW b, NEW p \in Seq(X), Y \ {b} \subseteq X
  PROVE  ReplaceByte(s, b, p) \in Seq(X)
<1> DEFINE ss == [i \in DOMAIN s |-> IF s[i] = b THEN p ELSE <<s[i]>>]
<1>1. PICK n \in Nat : n = Len(s) /\ DOMAIN s = 1..n
  BY LenProperties
<1>2. \A i \in 1..n : ss[i] \in Seq(X)
  <2> SUFFICES ASSUME NEW i \in 1..n PROVE ss[i] \in Seq(X)
    OBVIOUS
  <2>1. CASE s[i] = b
    BY <1>1, <2>1
  <2>2. CASE s[i] # b
    <3>1. s[i] \in X
      BY <1>1, <2>2, ElementOfSeq
    <3>2. ss[i] = <<s[i]>>
      BY <1>1, <2>2
    <3>3. <<s[i]>> \in Seq(X)
      BY <3>1, SmallSequences
    <3> QED
      BY <3>2, <3>3
  <2> QED
    BY <2>1, <2>2
<1>3. ss \in Seq(Seq(X))
  BY <1>1, <1>2
<1> QED
  BY <1>3, FlattenType DEF ReplaceByte

\* Nothing is replaced in no bytes.
LEMMA ReplaceByteEmpty ==
  ASSUME NEW b, NEW p
  PROVE  ReplaceByte(<<>>, b, p) = <<>>
<1>1. [i \in DOMAIN <<>> |-> IF <<>>[i] = b THEN p ELSE <<(<<>>)[i]>>] = <<>>
  OBVIOUS
<1> QED
  BY <1>1, FlattenEmpty DEF ReplaceByte

\* What a byte becomes.
Replaced(y, b, p) == IF y = b THEN p ELSE <<y>>

\* A byte becomes a sequence of bytes.
LEMMA ReplacedType ==
  ASSUME NEW X, NEW y \in X, NEW b, NEW p \in Seq(X)
  PROVE  Replaced(y, b, p) \in Seq(X)
BY SmallSequences DEF Replaced

\* Replacing goes on with the last byte.
LEMMA ReplaceByteAppend ==
  ASSUME NEW X, NEW s \in Seq(X), NEW y \in X, NEW b, NEW p \in Seq(X)
  PROVE  ReplaceByte(Append(s, y), b, p) = Joined(ReplaceByte(s, b, p), Replaced(y, b, p))
<1>0. PICK last : last = Replaced(y, b, p)
  OBVIOUS
<1> DEFINE ss == [i \in DOMAIN s |-> IF s[i] = b THEN p ELSE <<s[i]>>]
<1>1. PICK n \in Nat : n = Len(s) /\ DOMAIN s = 1..n
  BY LenProperties
<1>2. PICK t : t = Append(s, y)
  OBVIOUS
<1>3. /\ DOMAIN t = 1..(n + 1) /\ t[n + 1] = y
      /\ \A i \in 1..n : t[i] = s[i]
  BY <1>1, <1>2, AppendProperties, LenProperties
<1>4. ss \in Seq(Seq(X)) /\ Len(ss) = n /\ last \in Seq(X)
  <2>1. \A i \in 1..n : s[i] \in X
    BY <1>1, ElementOfSeq
  <2> QED
    BY <1>0, <1>1, <2>1, ReplacedType
<1>5. [i \in DOMAIN t |-> IF t[i] = b THEN p ELSE <<t[i]>>] = Append(ss, last)
  <2>1. PICK tt : tt = [i \in DOMAIN t |-> IF t[i] = b THEN p ELSE <<t[i]>>]
    OBVIOUS
  <2>2. \A i \in 1..n : tt[i] = ss[i]
    BY <1>1, <1>3, <2>1
  <2>3. tt[n + 1] = last /\ DOMAIN tt = 1..(n + 1)
    BY <1>0, <1>3, <2>1 DEF Replaced
  <2>4. tt = [i \in 1..(n + 1) |-> tt[i]]
    BY <2>1, <2>3
  <2>5. PICK u : u = Append(ss, last)
    OBVIOUS
  <2>6. /\ u \in Seq(Seq(X)) /\ Len(u) = n + 1 /\ u[n + 1] = last
        /\ \A i \in 1..n : u[i] = ss[i]
    BY <1>4, <2>5, AppendProperties
  <2>7. u = [i \in 1..(n + 1) |-> u[i]]
    BY <2>6, LenProperties
  <2>8. \A i \in 1..(n + 1) : i \in 1..n \/ i = n + 1
    OBVIOUS
  <2>9. \A i \in 1..(n + 1) : tt[i] = u[i]
    <3> HIDE DEF ss
    <3> QED
      BY <2>2, <2>3, <2>6, <2>8
  <2> QED
    BY <2>1, <2>4, <2>5, <2>7, <2>9
<1>6. FlattenSeq(Append(ss, last)) = Joined(FlattenSeq(ss), last)
  <2> HIDE DEF ss
  <2> QED
    BY <1>4, FlattenAppend
<1>7. ReplaceByte(Append(s, y), b, p) = Joined(ReplaceByte(s, b, p), last)
  BY <1>2, <1>5, <1>6 DEF ReplaceByte
<1> QED
  BY <1>0, <1>7

\* Replacing in one part after the other.
LEMMA ReplaceByteConcat ==
  ASSUME NEW X, NEW s \in Seq(X), NEW t \in Seq(X), NEW b, NEW p \in Seq(X)
  PROVE  ReplaceByte(Joined(s, t), b, p) = Joined(ReplaceByte(s, b, p), ReplaceByte(t, b, p))
<1> DEFINE R(u) == ReplaceByte(u, b, p)
           Good == {u \in Seq(X) : R(Joined(s, u)) = Joined(R(s), R(u))}
<1>0. \A u \in Seq(X) : R(u) \in Seq(X)
  BY ReplaceByteType
<1>1. <<>> \in Good
  BY <1>0, ReplaceByteEmpty, JoinedEmpty, EmptySeq
<1>2. ASSUME NEW u \in Seq(X), NEW y \in X, u \in Good
      PROVE  Append(u, y) \in Good
  <2>1. Append(u, y) \in Seq(X) /\ Joined(s, u) \in Seq(X) /\ Replaced(y, b, p) \in Seq(X)
    BY AppendProperties, JoinedProperties, ReplacedType
  <2>2. Joined(s, Append(u, y)) = Append(Joined(s, u), y)
    BY JoinedAppend
  <2>3. R(Append(Joined(s, u), y)) = Joined(R(Joined(s, u)), Replaced(y, b, p))
    BY <2>1, ReplaceByteAppend
  <2>4. R(Append(u, y)) = Joined(R(u), Replaced(y, b, p))
    BY ReplaceByteAppend
  <2>5. Joined(Joined(R(s), R(u)), Replaced(y, b, p)) = Joined(R(s), Joined(R(u), Replaced(y, b, p)))
    <3> HIDE DEF R, Good
    <3> QED
      BY <1>0, <2>1, JoinedAssociative
  <2> QED
    BY <1>2, <2>1, <2>2, <2>3, <2>4, <2>5
<1>3. t \in Good
  <2> HIDE DEF Good
  <2> QED
    BY <1>1, <1>2, SeqSetInduction
<1> QED
  BY <1>3

-----------------------------------------------------------------------------
(* Escape sequences. *)

\* An escape sequence starts where its two bytes are.
LEMMA StartsMeans ==
  ASSUME NEW X, NEW s \in Seq(X), NEW e, NEW c, NEW i \in Int
  PROVE  StartsAt(s, <<e, c>>, i) <=> i \in 1..(Len(s) - 1) /\ s[i] = e /\ s[i + 1] = c
<1>1. Len(s) \in Nat
  BY LenProperties
<1>2. CASE i \in 1..(Len(s) - 1)
  <2>1. i \in 1..Len(s) /\ i + 1 \in 1..Len(s)
    BY <1>1, <1>2
  <2>2. \A j \in i..(i + 1) : s[j] \in X
    BY <2>1, ElementOfSeq
  <2>3. /\ SubSeq(s, i, i + 1) \in Seq(X)
        /\ Len(SubSeq(s, i, i + 1)) = 2
        /\ SubSeq(s, i, i + 1)[1] = s[i] /\ SubSeq(s, i, i + 1)[2] = s[i + 1]
    <3>1. /\ SubSeq(s, i, i + 1) \in Seq(X)
          /\ Len(SubSeq(s, i, i + 1)) = IF i <= i + 1 THEN (i + 1) - i + 1 ELSE 0
          /\ \A j \in 1..((i + 1) - i + 1) : SubSeq(s, i, i + 1)[j] = s[i + j - 1]
      BY <2>2, SubSeqProperties
    <3>2. (i + 1) - i + 1 = 2 /\ i + 1 - 1 = i /\ i + 2 - 1 = i + 1 /\ i <= i + 1
      OBVIOUS
    <3> QED
      BY <3>1, <3>2
  <2>4. PICK u : u = SubSeq(s, i, i + 1)
    OBVIOUS
  <2>5. u = <<e, c>> <=> u[1] = e /\ u[2] = c
    <3>1. u = <<e, c>> => u[1] = e /\ u[2] = c
      OBVIOUS
    <3>2. ASSUME u[1] = e, u[2] = c PROVE u = <<e, c>>
      <4>1. e \in X /\ c \in X
        BY <2>1, <2>3, <2>4, <3>2, ElementOfSeq
      <4>2. PICK v : v = <<e, c>>
        OBVIOUS
      <4>3. v \in Seq(X) /\ Len(v) = 2 /\ v[1] = e /\ v[2] = c
        BY <4>1, <4>2, SmallSequences
      <4>4. \A j \in 1..2 : u[j] = v[j]
        <5>1. \A j \in 1..2 : j = 1 \/ j = 2
          OBVIOUS
        <5> QED
          BY <3>2, <4>3, <5>1
      <4>5. u = v
        BY <2>3, <2>4, <4>3, <4>4, SeqEqual
      <4> QED
        BY <4>2, <4>5
    <3> QED
      BY <3>1, <3>2
  <2>6. StartsAt(s, <<e, c>>, i) <=> u = <<e, c>>
    BY <1>2, <2>4 DEF StartsAt
  <2> QED
    BY <1>2, <2>3, <2>4, <2>5, <2>6
<1>3. CASE i \notin 1..(Len(s) - 1)
  BY <1>3 DEF StartsAt
<1> QED
  BY <1>2, <1>3

\* What ReplacePair() flattens.
Pieces(s, pair, b) ==
  [i \in DOMAIN s |->
    IF StartsAt(s, pair, i) THEN <<b>>
    ELSE IF StartsAt(s, pair, i - 1) THEN <<>> ELSE <<s[i]>>]

\* There is a piece for each byte.
LEMMA PiecesType ==
  ASSUME NEW X, NEW s \in Seq(X), NEW pair, NEW b \in X
  PROVE  Pieces(s, pair, b) \in Seq(Seq(X)) /\ Len(Pieces(s, pair, b)) = Len(s)
<1>1. PICK n \in Nat : n = Len(s) /\ DOMAIN s = 1..n
  BY LenProperties
<1>2. \A i \in 1..n : s[i] \in X
  BY <1>1, ElementOfSeq
<1>3. \A i \in 1..n : Pieces(s, pair, b)[i] \in Seq(X)
  <2> SUFFICES ASSUME NEW i \in 1..n PROVE Pieces(s, pair, b)[i] \in Seq(X)
    OBVIOUS
  <2>1. Pieces(s, pair, b)[i] \in {<<b>>, <<>>, <<s[i]>>}
    BY <1>1 DEF Pieces
  <2>2. <<b>> \in Seq(X) /\ <<>> \in Seq(X) /\ <<s[i]>> \in Seq(X)
    BY <1>2
  <2> QED
    BY <2>1, <2>2
<1>4. Pieces(s, pair, b) = [i \in 1..n |-> Pieces(s, pair, b)[i]]
  BY <1>1 DEF Pieces
<1>5. PICK ss : ss = Pieces(s, pair, b)
  OBVIOUS
<1>6. ss = [i \in 1..n |-> ss[i]] /\ \A i \in 1..n : ss[i] \in Seq(X)
  BY <1>3, <1>4, <1>5
<1>7. ss \in Seq(Seq(X)) /\ Len(ss) = n
  BY <1>6
<1> QED
  BY <1>1, <1>5, <1>7

\* What the bytes and the replacement are.
LEMMA ReplacePairType ==
  ASSUME NEW X, NEW s \in Seq(X), NEW pair, NEW b \in X
  PROVE  ReplacePair(s, pair, b) \in Seq(X)
BY PiecesType, FlattenType DEF ReplacePair, Pieces

\* Parts of which the first does not end in the middle of an escape sequence.
LEMMA ReplacePairConcat ==
  ASSUME NEW X, NEW s \in Seq(X), NEW t \in Seq(X), NEW e, NEW c, NEW b \in X,
         ~ (Len(s) > 0 /\ Len(t) > 0 /\ s[Len(s)] = e /\ t[1] = c)
  PROVE  ReplacePair(Joined(s, t), <<e, c>>, b)
           = Joined(ReplacePair(s, <<e, c>>, b), ReplacePair(t, <<e, c>>, b))
<1>1. PICK m \in Nat, n \in Nat : m = Len(s) /\ n = Len(t)
  BY LenProperties
<1>2. PICK u : u = Joined(s, t)
  OBVIOUS
<1>3. /\ u \in Seq(X) /\ Len(u) = m + n /\ DOMAIN u = 1..(m + n)
      /\ \A i \in 1..(m + n) : u[i] = IF i <= m THEN s[i] ELSE t[i - m]
  BY <1>1, <1>2, ConcatProperties, LenProperties DEF Joined
<1>4. DOMAIN s = 1..m /\ DOMAIN t = 1..n
  BY <1>1, LenProperties
<1>4a. \A i \in Int :
         StartsAt(u, <<e, c>>, i) <=> i \in 1..((m + n) - 1) /\ u[i] = e /\ u[i + 1] = c
  <2>1. \A i \in Int :
          StartsAt(u, <<e, c>>, i) <=> i \in 1..(Len(u) - 1) /\ u[i] = e /\ u[i + 1] = c
    <3>1. u \in Seq(X)
      BY <1>3
    <3> QED
      BY ONLY <3>1, StartsMeans
  <2> QED
    BY <1>3, <2>1
<1>5. \A i \in 0..m : StartsAt(u, <<e, c>>, i) <=> StartsAt(s, <<e, c>>, i)
  <2> SUFFICES ASSUME NEW i \in 0..m
               PROVE  StartsAt(u, <<e, c>>, i) <=> StartsAt(s, <<e, c>>, i)
    OBVIOUS
  <2>1. /\ StartsAt(u, <<e, c>>, i) <=> i \in 1..((m + n) - 1) /\ u[i] = e /\ u[i + 1] = c
        /\ StartsAt(s, <<e, c>>, i) <=> i \in 1..(m - 1) /\ s[i] = e /\ s[i + 1] = c
    BY <1>1, <1>3, StartsMeans
  <2>2. CASE i \in 1..(m - 1)
    <3>1. /\ i \in 1..((m + n) - 1) /\ i \in 1..(m + n) /\ i + 1 \in 1..(m + n)
          /\ i <= m /\ i + 1 <= m
      BY <2>2
    <3> QED
      BY <1>3, <2>1, <2>2, <3>1
  <2>3. CASE i = m /\ m > 0 /\ n > 0
    <3>1. /\ i \notin 1..(m - 1) /\ i \in 1..(m + n) /\ i + 1 \in 1..(m + n)
          /\ i <= m /\ ~(i + 1 <= m) /\ (i + 1) - m = 1
      BY <2>3
    <3>2. u[i] = s[m] /\ u[i + 1] = t[1]
      BY <1>3, <2>3, <3>1
    <3> QED
      BY <1>1, <2>1, <2>3, <3>1, <3>2
  <2>4. CASE i = 0 \/ (i = m /\ n = 0)
    <3>1. i \notin 1..(m - 1) /\ i \notin 1..((m + n) - 1)
      BY <2>4
    <3> QED
      BY <2>1, <3>1
  <2> QED
    BY <2>2, <2>3, <2>4
<1>6. \A i \in (m + 1)..(m + n) : StartsAt(u, <<e, c>>, i) <=> StartsAt(t, <<e, c>>, i - m)
  <2> SUFFICES ASSUME NEW i \in (m + 1)..(m + n)
               PROVE  StartsAt(u, <<e, c>>, i) <=> StartsAt(t, <<e, c>>, i - m)
    OBVIOUS
  <2>0. i \in Int /\ i - m \in Int
    OBVIOUS
  <2>1. /\ StartsAt(u, <<e, c>>, i) <=> i \in 1..((m + n) - 1) /\ u[i] = e /\ u[i + 1] = c
        /\ StartsAt(t, <<e, c>>, i - m)
             <=> i - m \in 1..(n - 1) /\ t[i - m] = e /\ t[(i - m) + 1] = c
    <3>1. StartsAt(u, <<e, c>>, i) <=> i \in 1..((m + n) - 1) /\ u[i] = e /\ u[i + 1] = c
      BY <1>4a, <2>0
    <3>2. PICK j \in Int : j = i - m
      BY <2>0
    <3>3. StartsAt(t, <<e, c>>, j) <=> j \in 1..(n - 1) /\ t[j] = e /\ t[j + 1] = c
      BY <1>1, <3>2, StartsMeans
    <3> QED
      BY <3>1, <3>2, <3>3
  <2>2. i \in 1..((m + n) - 1) <=> i - m \in 1..(n - 1)
    OBVIOUS
  <2>3. CASE i \in 1..((m + n) - 1)
    <3>1. /\ i \in 1..(m + n) /\ i + 1 \in 1..(m + n) /\ ~(i <= m) /\ ~(i + 1 <= m)
          /\ (i + 1) - m = (i - m) + 1
      BY <2>3
    <3>2. u[i] = t[i - m] /\ u[i + 1] = t[(i - m) + 1]
      BY <1>3, <3>1
    <3> QED
      BY <2>1, <2>2, <3>2
  <2> QED
    BY <2>1, <2>2, <2>3
<1> DEFINE P(v) == Pieces(v, <<e, c>>, b)
<1>7. P(u) = Joined(P(s), P(t))
  <2>1. /\ P(u) \in Seq(Seq(X)) /\ Len(P(u)) = m + n
        /\ P(s) \in Seq(Seq(X)) /\ Len(P(s)) = m
        /\ P(t) \in Seq(Seq(X)) /\ Len(P(t)) = n
    BY <1>1, <1>3, PiecesType
  <2>2. \A i \in 1..m : P(u)[i] = P(s)[i]
    <3> SUFFICES ASSUME NEW i \in 1..m PROVE P(u)[i] = P(s)[i]
      OBVIOUS
    <3>1. i \in 0..m /\ i - 1 \in 0..m /\ i \in DOMAIN u /\ i \in DOMAIN s /\ u[i] = s[i]
      BY <1>3, <1>4
    <3> QED
      BY <1>5, <3>1 DEF Pieces
  <2>3. \A i \in (m + 1)..(m + n) : P(u)[i] = P(t)[i - m]
    <3> SUFFICES ASSUME NEW i \in (m + 1)..(m + n) PROVE P(u)[i] = P(t)[i - m]
      OBVIOUS
    <3>1. i \in DOMAIN u /\ i - m \in DOMAIN t /\ u[i] = t[i - m]
      BY <1>3, <1>4
    <3>2. StartsAt(u, <<e, c>>, i) <=> StartsAt(t, <<e, c>>, i - m)
      BY <1>6
    <3>3. StartsAt(u, <<e, c>>, i - 1) <=> StartsAt(t, <<e, c>>, (i - m) - 1)
      <4>1. CASE i = m + 1
        <5>1. i - 1 = m /\ (i - m) - 1 = 0 /\ m \in 0..m
          BY <4>1
        <5>2. ~ StartsAt(s, <<e, c>>, m)
          BY <1>1 DEF StartsAt
        <5>3. ~ StartsAt(t, <<e, c>>, 0)
          BY <1>1 DEF StartsAt
        <5> QED
          BY <1>5, <5>1, <5>2, <5>3
      <4>2. CASE i # m + 1
        <5>1. i - 1 \in (m + 1)..(m + n) /\ (i - 1) - m = (i - m) - 1
          BY <4>2
        <5> QED
          BY <1>6, <5>1
      <4> QED
        BY <4>1, <4>2
    <3> QED
      BY <3>1, <3>2, <3>3 DEF Pieces
  <2> HIDE DEF P
  <2>4. PICK a1, a2, a : a1 = P(s) /\ a2 = P(t) /\ a = P(u)
    OBVIOUS
  <2>5. /\ a1 \o a2 \in Seq(Seq(X)) /\ Len(a1 \o a2) = m + n
        /\ \A i \in 1..(m + n) : (a1 \o a2)[i] = IF i <= m THEN a1[i] ELSE a2[i - m]
    BY <2>1, <2>4, ConcatProperties
  <2>6. \A i \in 1..(m + n) : a[i] = (a1 \o a2)[i]
    <3> SUFFICES ASSUME NEW i \in 1..(m + n) PROVE a[i] = (a1 \o a2)[i]
      OBVIOUS
    <3>1. CASE i <= m
      <4>1. i \in 1..m
        BY <3>1
      <4>2. a[i] = a1[i]
        BY <2>2, <2>4, <4>1
      <4> QED
        BY <2>5, <3>1, <4>2
    <3>2. CASE ~(i <= m)
      <4>1. i \in (m + 1)..(m + n)
        BY <3>2
      <4>2. a[i] = a2[i - m]
        BY <2>3, <2>4, <4>1
      <4> QED
        BY <2>5, <3>2, <4>2
    <3> QED
      BY <3>1, <3>2
  <2>7. a = Joined(a1, a2)
    <3>1. PICK v : v = Joined(a1, a2)
      OBVIOUS
    <3>2. v \in Seq(Seq(X)) /\ a \in Seq(Seq(X)) /\ Len(a) = Len(v) /\ \A i \in 1..Len(a) : a[i] = v[i]
      BY <2>1, <2>4, <2>5, <2>6, <3>1 DEF Joined
    <3>3. a = v
      BY <3>2, SeqEqual
    <3> QED
      BY <3>1, <3>3
  <2> QED
    BY <2>4, <2>7
<1>8. P(s) \in Seq(Seq(X)) /\ P(t) \in Seq(Seq(X))
  BY PiecesType
<1>9. FlattenSeq(Joined(P(s), P(t))) = Joined(FlattenSeq(P(s)), FlattenSeq(P(t)))
  <2> HIDE DEF P
  <2> QED
    BY <1>8, FlattenConcat
<1> QED
  BY <1>2, <1>7, <1>9 DEF ReplacePair, Pieces

\* Flattening one or two sequences.
LEMMA FlattenSmall ==
  ASSUME NEW T, NEW s \in Seq(T), NEW t \in Seq(T)
  PROVE  /\ FlattenSeq(<<s>>) = s
         /\ FlattenSeq(<<s, t>>) = Joined(s, t)
<1>1. <<s>> = Append(<<>>, s) /\ <<s, t>> = Append(<<s>>, t)
  OBVIOUS
<1>2. <<>> \in Seq(Seq(T)) /\ <<s>> \in Seq(Seq(T))
  OBVIOUS
<1>3. FlattenSeq(Append(<<>>, s)) = Joined(<<>>, s)
  BY <1>2, FlattenAppend, FlattenEmpty
<1>4. FlattenSeq(Append(<<s>>, t)) = Joined(FlattenSeq(<<s>>), t)
  BY <1>2, FlattenAppend
<1>5. Joined(<<>>, s) = s
  BY JoinedEmpty
<1> QED
  BY <1>1, <1>3, <1>4, <1>5

\* Two sequences of one byte.
LEMMA JoinedOne ==
  ASSUME NEW X, NEW x \in X, NEW y \in X
  PROVE  Joined(<<x>>, <<y>>) = <<x, y>>
<1>1. PICK u, v : u = Joined(<<x>>, <<y>>) /\ v = <<x, y>>
  OBVIOUS
<1>2. /\ <<x>> \in Seq(X) /\ Len(<<x>>) = 1 /\ <<x>>[1] = x
      /\ <<y>> \in Seq(X) /\ Len(<<y>>) = 1 /\ <<y>>[1] = y
      /\ v \in Seq(X) /\ Len(v) = 2 /\ v[1] = x /\ v[2] = y
  BY <1>1, SmallSequences
<1>3. PICK a, b : a = <<x>> /\ b = <<y>>
  OBVIOUS
<1>4. /\ u \in Seq(X) /\ Len(u) = Len(a) + Len(b)
      /\ \A i \in 1..(Len(a) + Len(b)) : u[i] = IF i <= Len(a) THEN a[i] ELSE b[i - Len(a)]
  <2>1. a \in Seq(X) /\ b \in Seq(X) /\ u = Joined(a, b)
    BY <1>1, <1>2, <1>3
  <2> QED
    BY ONLY <2>1, JoinedProperties
<1>5. Len(u) = 2 /\ u[1] = x /\ u[2] = y
  <2>1. Len(a) = 1 /\ Len(b) = 1 /\ a[1] = x /\ b[1] = y
    BY <1>2, <1>3
  <2>2. 1 \in 1..(1 + 1) /\ 2 \in 1..(1 + 1) /\ 2 - 1 = 1 /\ 1 <= 1 /\ ~(2 <= 1) /\ 1 + 1 = 2
    OBVIOUS
  <2> QED
    BY ONLY <1>4, <2>1, <2>2
<1>6. \A i \in 1..2 : i = 1 \/ i = 2
  OBVIOUS
<1>7. \A i \in 1..2 : u[i] = v[i]
  BY <1>2, <1>5, <1>6
<1>8. u = v
  BY <1>2, <1>4, <1>5, <1>7, SeqEqual
<1> QED
  BY <1>1, <1>8

\* One byte is no escape sequence.
LEMMA ReplacePairOne ==
  ASSUME NEW X, NEW y \in X, NEW e, NEW c, NEW b \in X
  PROVE  ReplacePair(<<y>>, <<e, c>>, b) = <<y>>
<1>1. PICK s : s = <<y>>
  OBVIOUS
<1>2. s \in Seq(X) /\ Len(s) = 1 /\ s[1] = y /\ DOMAIN s = 1..1
  BY <1>1
<1>3. \A i \in Int : ~ StartsAt(s, <<e, c>>, i)
  BY <1>2 DEF StartsAt
<1>4. Pieces(s, <<e, c>>, b) = [i \in 1..1 |-> s]
  BY <1>1, <1>2, <1>3 DEF Pieces
<1>5. Pieces(s, <<e, c>>, b) = <<s>>
  <2>1. <<s>> = [i \in 1..1 |-> s]
    OBVIOUS
  <2> QED
    BY <1>4, <2>1
<1> QED
  BY <1>1, <1>2, <1>5, FlattenSmall DEF ReplacePair, Pieces

\* A sequence of two, whose definition is expanded where it is needed.
Couple(x, y) == <<x, y>>

\* Two bytes are one, or stay as they are.
LEMMA ReplacePairTwo ==
  ASSUME NEW X, NEW x \in X, NEW y \in X, NEW e, NEW c, NEW b \in X
  PROVE  /\ x = e /\ y = c => ReplacePair(Couple(x, y), Couple(e, c), b) = <<b>>
         /\ ~ (x = e /\ y = c) => ReplacePair(Couple(x, y), Couple(e, c), b) = Couple(x, y)
<1> SUFFICES /\ x = e /\ y = c => ReplacePair(<<x, y>>, <<e, c>>, b) = <<b>>
             /\ ~ (x = e /\ y = c) => ReplacePair(<<x, y>>, <<e, c>>, b) = <<x, y>>
  BY Zenon DEF Couple
<1>1. PICK s : s = <<x, y>>
  OBVIOUS
<1>2. s \in Seq(X) /\ Len(s) = 2 /\ s[1] = x /\ s[2] = y /\ DOMAIN s = 1..2
  BY <1>1
<1>3. /\ ~ StartsAt(s, <<e, c>>, 0) /\ ~ StartsAt(s, <<e, c>>, 2)
      /\ StartsAt(s, <<e, c>>, 1) <=> x = e /\ y = c
  <2>1. /\ 0 \notin 1..(Len(s) - 1) /\ 2 \notin 1..(Len(s) - 1) /\ 1 \in 1..(Len(s) - 1)
        /\ 1 + 1 = 2
    BY <1>2
  <2> QED
    BY <1>2, <2>1, StartsMeans
<1>4. Pieces(s, <<e, c>>, b) \in Seq(Seq(X)) /\ Len(Pieces(s, <<e, c>>, b)) = 2
  BY <1>2, PiecesType
<1>5. PICK p, q, r : p = Pieces(s, <<e, c>>, b) /\ q = p[1] /\ r = p[2]
  OBVIOUS
<1>6. p = <<q, r>> /\ q \in Seq(X) /\ r \in Seq(X)
  BY <1>4, <1>5, ElementOfSeq
<1>7. /\ q = IF StartsAt(s, <<e, c>>, 1) THEN <<b>>
             ELSE IF StartsAt(s, <<e, c>>, 1 - 1) THEN <<>> ELSE <<s[1]>>
      /\ r = IF StartsAt(s, <<e, c>>, 2) THEN <<b>>
             ELSE IF StartsAt(s, <<e, c>>, 2 - 1) THEN <<>> ELSE <<s[2]>>
  BY <1>2, <1>5 DEF Pieces
<1>8. ReplacePair(s, <<e, c>>, b) = Joined(q, r)
  <2>1. FlattenSeq(p) = Joined(q, r)
    BY <1>6, FlattenSmall
  <2>2. ReplacePair(s, <<e, c>>, b) = FlattenSeq(Pieces(s, <<e, c>>, b))
    BY DEF ReplacePair, Pieces
  <2> QED
    BY <1>5, <2>1, <2>2
<1>9. 1 - 1 = 0 /\ 2 - 1 = 1
  OBVIOUS
<1>10. CASE x = e /\ y = c
  <2>1. q = <<b>> /\ r = <<>>
    BY <1>3, <1>7, <1>9, <1>10
  <2>2. Joined(<<b>>, <<>>) = <<b>>
    BY JoinedEmpty, SmallSequences
  <2> QED
    BY <1>1, <1>8, <1>10, <2>1, <2>2
<1>11. CASE ~ (x = e /\ y = c)
  <2>1. q = <<x>> /\ r = <<y>>
    BY <1>2, <1>3, <1>7, <1>9, <1>11
  <2>2. Joined(<<x>>, <<y>>) = <<x, y>>
    BY JoinedOne
  <2> QED
    BY <1>1, <1>8, <1>11, <2>1, <2>2
<1> QED
  BY <1>10, <1>11

-----------------------------------------------------------------------------
(* What EscapeEncode() makes of a byte, and what comes back. *)

\* What a byte is on the wire.
Escaped(y) ==
  IF y = EscapeCharacter THEN EscapedEscape
  ELSE IF y = FrameSeparator THEN EscapedSeparator ELSE <<y>>

\* A byte is a sequence of bytes on the wire.
LEMMA EscapedType ==
  ASSUME NEW y \in Nat
  PROVE  Escaped(y) \in Seq(Nat) /\ EscapedEscape \in Seq(Nat) /\ EscapedSeparator \in Seq(Nat)
BY SmallSequences DEF Escaped, EscapedEscape, EscapedSeparator, EscapeCharacter

\* Replacing in a single byte.
LEMMA ReplaceByteOne ==
  ASSUME NEW X, NEW y \in X, NEW b, NEW p \in Seq(X)
  PROVE  ReplaceByte(<<y>>, b, p) = Replaced(y, b, p)
<1>1. <<y>> = Append(<<>>, y) /\ <<>> \in Seq(X)
  OBVIOUS
<1>2. ReplaceByte(Append(<<>>, y), b, p) = Joined(ReplaceByte(<<>>, b, p), Replaced(y, b, p))
  <2>1. PICK s : s = <<>>
    OBVIOUS
  <2>2. s \in Seq(X) /\ y \in X /\ p \in Seq(X)
    BY <1>1, <2>1
  <2>3. ReplaceByte(Append(s, y), b, p) = Joined(ReplaceByte(s, b, p), Replaced(y, b, p))
    BY ONLY <2>2, ReplaceByteAppend
  <2> QED
    BY <2>1, <2>3
<1>3. Joined(<<>>, Replaced(y, b, p)) = Replaced(y, b, p)
  BY ReplacedType, JoinedEmpty
<1> QED
  BY <1>1, <1>2, <1>3, ReplaceByteEmpty

\* Escaped bytes are bytes.
LEMMA EncodeType ==
  ASSUME NEW s \in Seq(Nat)
  PROVE  EscapeEncode(s) \in Seq(Nat)
<1>1. EscapedEscape \in Seq(Nat) /\ EscapedSeparator \in Seq(Nat)
  BY EscapedType
<1>2. ReplaceByte(s, EscapeCharacter, EscapedEscape) \in Seq(Nat)
  BY <1>1, ReplaceByteType
<1> QED
  BY <1>1, <1>2, ReplaceByteType DEF EscapeEncode

\* Escaping no bytes.
LEMMA EncodeEmpty == EscapeEncode(<<>>) = <<>>
  BY ReplaceByteEmpty DEF EscapeEncode

\* Escaping one part after the other.
LEMMA EncodeConcat ==
  ASSUME NEW s \in Seq(Nat), NEW t \in Seq(Nat)
  PROVE  EscapeEncode(Joined(s, t)) = Joined(EscapeEncode(s), EscapeEncode(t))
<1>1. EscapedEscape \in Seq(Nat) /\ EscapedSeparator \in Seq(Nat)
  BY EscapedType
<1> DEFINE R(u) == ReplaceByte(u, EscapeCharacter, EscapedEscape)
<1>2. \A u \in Seq(Nat) : R(u) \in Seq(Nat)
  BY <1>1, ReplaceByteType
<1>3. R(Joined(s, t)) = Joined(R(s), R(t))
  BY <1>1, ReplaceByteConcat
<1>4. \A u \in Seq(Nat) : EscapeEncode(u) = ReplaceByte(R(u), FrameSeparator, EscapedSeparator)
  BY DEF EscapeEncode
<1>5. Joined(s, t) \in Seq(Nat)
  BY JoinedProperties
<1> HIDE DEF R
<1>6. ReplaceByte(Joined(R(s), R(t)), FrameSeparator, EscapedSeparator)
        = Joined(ReplaceByte(R(s), FrameSeparator, EscapedSeparator),
                 ReplaceByte(R(t), FrameSeparator, EscapedSeparator))
  BY <1>1, <1>2, ReplaceByteConcat
<1> QED
  BY <1>3, <1>4, <1>5, <1>6

\* Escaping one byte.
LEMMA EncodeOne ==
  ASSUME NEW y \in Nat
  PROVE  EscapeEncode(<<y>>) = Escaped(y)
<1>1. EscapedEscape \in Seq(Nat) /\ EscapedSeparator \in Seq(Nat) /\ <<y>> \in Seq(Nat)
  BY EscapedType, SmallSequences
<1>2. ReplaceByte(<<y>>, EscapeCharacter, EscapedEscape) = Replaced(y, EscapeCharacter, EscapedEscape)
  BY <1>1, ReplaceByteOne
<1>3. CASE y = EscapeCharacter
  <2>5. Joined(<<EscapeCharacter>>, <<0>>) = EscapedEscape
    BY JoinedOne DEF EscapedEscape, EscapeCharacter
  <2>1. ReplaceByte(<<y>>, EscapeCharacter, EscapedEscape) = Joined(<<EscapeCharacter>>, <<0>>)
    BY <1>2, <1>3, <2>5 DEF Replaced
  <2>2. EscapeCharacter \in Nat /\ <<EscapeCharacter>> \in Seq(Nat) /\ <<0>> \in Seq(Nat) /\ 0 \in Nat
        /\ EscapeCharacter # FrameSeparator /\ 0 # FrameSeparator
    BY DEF EscapeCharacter, FrameSeparator
  <2>3. ReplaceByte(Joined(<<EscapeCharacter>>, <<0>>), FrameSeparator, EscapedSeparator)
          = Joined(ReplaceByte(<<EscapeCharacter>>, FrameSeparator, EscapedSeparator),
                   ReplaceByte(<<0>>, FrameSeparator, EscapedSeparator))
    <3>1. PICK a, z : a = <<EscapeCharacter>> /\ z = <<0>>
      OBVIOUS
    <3>2. a \in Seq(Nat) /\ z \in Seq(Nat) /\ EscapedSeparator \in Seq(Nat)
      BY <1>1, <2>2, <3>1
    <3>3. ReplaceByte(Joined(a, z), FrameSeparator, EscapedSeparator)
            = Joined(ReplaceByte(a, FrameSeparator, EscapedSeparator),
                     ReplaceByte(z, FrameSeparator, EscapedSeparator))
      BY ONLY <3>2, ReplaceByteConcat
    <3> QED
      BY <3>1, <3>3
  <2>4. /\ ReplaceByte(<<EscapeCharacter>>, FrameSeparator, EscapedSeparator) = <<EscapeCharacter>>
        /\ ReplaceByte(<<0>>, FrameSeparator, EscapedSeparator) = <<0>>
    <3>1. \A x \in Nat : ReplaceByte(<<x>>, FrameSeparator, EscapedSeparator)
                           = Replaced(x, FrameSeparator, EscapedSeparator)
      BY <1>1, ReplaceByteOne
    <3>2. \A x \in Nat : x # FrameSeparator => Replaced(x, FrameSeparator, EscapedSeparator) = <<x>>
      BY DEF Replaced
    <3> QED
      BY <2>2, <3>1, <3>2
  <2>6. EscapeEncode(<<y>>) = EscapedEscape
    BY <2>1, <2>3, <2>4, <2>5 DEF EscapeEncode
  <2> QED
    BY <1>3, <2>6 DEF Escaped
<1>4. CASE y # EscapeCharacter
  <2>1. ReplaceByte(<<y>>, EscapeCharacter, EscapedEscape) = <<y>>
    BY <1>2, <1>4 DEF Replaced
  <2>2. ReplaceByte(<<y>>, FrameSeparator, EscapedSeparator) = Replaced(y, FrameSeparator, EscapedSeparator)
    BY <1>1, ReplaceByteOne
  <2> QED
    BY <1>4, <2>1, <2>2 DEF Escaped, EscapeEncode, Replaced
<1> QED
  BY <1>3, <1>4

\* A last element is a sequence of its own.
LEMMA AppendIsJoined ==
  ASSUME NEW X, NEW s \in Seq(X), NEW y \in X
  PROVE  Append(s, y) = Joined(s, <<y>>)
<1>1. PICK t : t = <<>>
  OBVIOUS
<1>2. t \in Seq(X) /\ Append(t, y) = <<y>> /\ s \in Seq(X) /\ y \in X
  BY <1>1
<1>3. Joined(s, Append(t, y)) = Append(Joined(s, t), y)
  <2>1. s \in Seq(X) /\ t \in Seq(X) /\ y \in X
    BY <1>2
  <2> QED
    BY ONLY <2>1, JoinedAppend
<1>4. Joined(s, t) = s
  BY <1>1, JoinedEmpty
<1> QED
  BY <1>2, <1>3, <1>4

\* Escaping goes on with the last byte.
LEMMA EncodeAppend ==
  ASSUME NEW s \in Seq(Nat), NEW y \in Nat
  PROVE  EscapeEncode(Append(s, y)) = Joined(EscapeEncode(s), Escaped(y))
<1>1. PICK t : t = <<y>>
  OBVIOUS
<1>2. t \in Seq(Nat) /\ EscapeEncode(t) = Escaped(y) /\ Append(s, y) = Joined(s, t)
  BY <1>1, SmallSequences, EncodeOne, AppendIsJoined
<1> QED
  BY <1>2, EncodeConcat

\* No separator is left, ...
LEMMA EncodeHasNoSeparator ==
  ASSUME NEW s \in Seq(Nat)
  PROVE  \A i \in 1..Len(EscapeEncode(s)) : EscapeEncode(s)[i] # FrameSeparator
<1> DEFINE X == Nat \ {FrameSeparator}
<1>1. EscapedEscape \in Seq(Nat)
  BY EscapedType
<1>2. ReplaceByte(s, EscapeCharacter, EscapedEscape) \in Seq(Nat)
  BY <1>1, ReplaceByteType
<1>3. EscapedSeparator \in Seq(X)
  <2>1. EscapeCharacter \in X /\ 1 \in X
    BY DEF EscapeCharacter, FrameSeparator
  <2> HIDE DEF X
  <2> QED
    BY <2>1, SmallSequences DEF EscapedSeparator
<1>4. EscapeEncode(s) \in Seq(X)
  <2>1. Nat \ {FrameSeparator} \subseteq X
    OBVIOUS
  <2> HIDE DEF X
  <2> QED
    BY <1>2, <1>3, <2>1, ReplaceByteType DEF EscapeEncode
<1>5. \A i \in 1..Len(EscapeEncode(s)) : EscapeEncode(s)[i] \in X
  <2> HIDE DEF X
  <2> QED
    BY <1>4, ElementOfSeq
<1> QED
  BY <1>5

\* ... and every escape character is the first half of an escape sequence.
Guarded(s) ==
  \A i \in 1..Len(s) : s[i] = EscapeCharacter => i + 1 \in 1..Len(s) /\ s[i + 1] \in {0, 1}

\* The bytes end in the middle of an escape sequence.
EndsInEscape(s) == Len(s) > 0 /\ s[Len(s)] = EscapeCharacter

\* The last byte is then no escape character.
LEMMA GuardedEnd ==
  ASSUME NEW s \in Seq(Nat), Guarded(s)
  PROVE  ~ EndsInEscape(s)
<1>1. Len(s) \in Nat
  BY LenProperties
<1> QED
  BY <1>1 DEF Guarded, EndsInEscape

\* Sequences of whole escape sequences can be joined.
LEMMA GuardedJoined ==
  ASSUME NEW s \in Seq(Nat), NEW t \in Seq(Nat), Guarded(s), Guarded(t)
  PROVE  Guarded(Joined(s, t))
<1>1. PICK m \in Nat, n \in Nat : m = Len(s) /\ n = Len(t)
  BY LenProperties
<1>2. PICK u : u = Joined(s, t)
  OBVIOUS
<1>3. /\ Len(u) = m + n
      /\ \A i \in 1..(m + n) : u[i] = IF i <= m THEN s[i] ELSE t[i - m]
  BY <1>1, <1>2, JoinedProperties
<1>4. ASSUME NEW i \in 1..(m + n), u[i] = EscapeCharacter
      PROVE  i + 1 \in 1..(m + n) /\ u[i + 1] \in {0, 1}
  <2>1. CASE i <= m
    <3>1. i \in 1..m /\ s[i] = EscapeCharacter
      BY <1>3, <1>4, <2>1
    <3>2. i + 1 \in 1..m /\ s[i + 1] \in {0, 1}
      BY <1>1, <3>1 DEF Guarded
    <3>3. i + 1 \in 1..(m + n) /\ i + 1 <= m
      BY <3>2
    <3> QED
      BY <1>3, <3>2, <3>3
  <2>2. CASE ~(i <= m)
    <3>1. PICK j \in 1..n : j = i - m
      BY <2>2
    <3>2. t[j] = EscapeCharacter
      BY <1>3, <1>4, <2>2, <3>1
    <3>3. j + 1 \in 1..n /\ t[j + 1] \in {0, 1}
      BY <1>1, <3>2 DEF Guarded
    <3>4. i + 1 \in 1..(m + n) /\ ~(i + 1 <= m) /\ (i + 1) - m = j + 1
      BY <3>1, <3>3
    <3> QED
      BY <1>3, <3>3, <3>4
  <2> QED
    BY <2>1, <2>2
<1> QED
  BY <1>2, <1>3, <1>4 DEF Guarded

\* The form of a single byte consists of whole escape sequences, ...
LEMMA EscapedGuarded ==
  ASSUME NEW y \in Nat
  PROVE  Guarded(Escaped(y))
<1>1. CASE y = EscapeCharacter
  <2>1. PICK s : s = EscapedEscape
    OBVIOUS
  <2>2. Len(s) = 2 /\ s[1] = EscapeCharacter /\ s[2] = 0
    BY <2>1 DEF EscapedEscape
  <2>3. \A i \in 1..2 : i = 1 \/ i = 2
    OBVIOUS
  <2>4. Guarded(s)
    BY <2>2, <2>3 DEF Guarded, EscapeCharacter
  <2> QED
    BY <1>1, <2>1, <2>4 DEF Escaped
<1>2. CASE y # EscapeCharacter /\ y = FrameSeparator
  <2>1. PICK s : s = EscapedSeparator
    OBVIOUS
  <2>2. Len(s) = 2 /\ s[1] = EscapeCharacter /\ s[2] = 1
    BY <2>1 DEF EscapedSeparator
  <2>3. \A i \in 1..2 : i = 1 \/ i = 2
    OBVIOUS
  <2>4. Guarded(s)
    BY <2>2, <2>3 DEF Guarded, EscapeCharacter
  <2> QED
    BY <1>2, <2>1, <2>4 DEF Escaped
<1>3. CASE y # EscapeCharacter /\ y # FrameSeparator
  <2>1. PICK s : s = <<y>>
    OBVIOUS
  <2>2. Len(s) = 1 /\ s[1] = y
    BY <2>1
  <2>3. Guarded(s)
    BY <1>3, <2>2 DEF Guarded
  <2> QED
    BY <1>3, <2>1, <2>3 DEF Escaped
<1> QED
  BY <1>1, <1>2, <1>3

\* ... and so does all that was escaped.
LEMMA EncodeGuarded ==
  ASSUME NEW s \in Seq(Nat)
  PROVE  Guarded(EscapeEncode(s))
<1> DEFINE Good == {t \in Seq(Nat) : Guarded(EscapeEncode(t))}
<1>1. <<>> \in Good
  <2>1. PICK t : t = <<>>
    OBVIOUS
  <2>2. t \in Seq(Nat) /\ Len(t) = 0 /\ EscapeEncode(t) = t
    BY <2>1, EncodeEmpty
  <2> QED
    BY <2>1, <2>2 DEF Guarded
<1>2. \A t \in Seq(Nat), y \in Nat : t \in Good => Append(t, y) \in Good
  <2> SUFFICES ASSUME NEW t \in Seq(Nat), NEW y \in Nat, t \in Good
               PROVE  Append(t, y) \in Good
    OBVIOUS
  <2>1. EscapeEncode(Append(t, y)) = Joined(EscapeEncode(t), Escaped(y))
    BY EncodeAppend
  <2>2. EscapeEncode(t) \in Seq(Nat) /\ Escaped(y) \in Seq(Nat)
    BY EncodeType, EscapedType
  <2>3. Guarded(EscapeEncode(t)) /\ Guarded(Escaped(y))
    BY EscapedGuarded
  <2>4. Guarded(Joined(EscapeEncode(t), Escaped(y)))
    BY ONLY <2>2, <2>3, GuardedJoined
  <2>5. Append(t, y) \in Seq(Nat)
    BY AppendProperties
  <2> QED
    BY <2>1, <2>4, <2>5
<1>3. s \in Good
  <2> HIDE DEF Good
  <2> QED
    BY <1>1, <1>2, SeqSetInduction
<1> QED
  BY <1>3

-----------------------------------------------------------------------------
(* What comes back. *)

\* The two replacements of EscapeDecode().
Unseparated(data) == ReplacePair(data, EscapedSeparator, FrameSeparator)
Unescaped(data)   == ReplacePair(data, EscapedEscape, EscapeCharacter)

\* A byte after the first of the two replacements.
Half(y) == IF y = EscapeCharacter THEN EscapedEscape ELSE <<y>>

\* Two bytes are replaced if the second is the one that is looked for.
LEMMA ReplaceEscape ==
  ASSUME NEW e \in Nat, NEW z \in Nat, NEW c \in Nat, NEW b \in Nat
  PROVE  /\ z = c => ReplacePair(Couple(e, z), Couple(e, c), b) = <<b>>
         /\ z # c => ReplacePair(Couple(e, z), Couple(e, c), b) = Couple(e, z)
<1>1. PICK X : X = Nat
  OBVIOUS
<1>2. e \in X /\ z \in X /\ c \in X /\ b \in X
  BY <1>1
<1>3. ASSUME z = c PROVE ReplacePair(Couple(e, z), Couple(e, c), b) = <<b>>
  BY ONLY <1>2, <1>3, ReplacePairTwo
<1>4. ASSUME z # c PROVE ReplacePair(Couple(e, z), Couple(e, c), b) = Couple(e, z)
  BY ONLY <1>2, <1>4, ReplacePairTwo
<1> QED
  BY <1>3, <1>4

\* The two replacements, one after the other, restore a byte.
LEMMA HalfDecoded ==
  ASSUME NEW y \in Nat
  PROVE  /\ Unseparated(Escaped(y)) = Half(y)
         /\ Unescaped(Half(y)) = <<y>>
         /\ Half(y) \in Seq(Nat) /\ Len(Half(y)) > 0 /\ ~ EndsInEscape(Half(y))
<1>1. /\ EscapeCharacter \in Nat /\ FrameSeparator \in Nat /\ EscapeCharacter # FrameSeparator
      /\ 0 \in Nat /\ 1 \in Nat /\ 0 # 1 /\ EscapeCharacter # 0
  BY DEF EscapeCharacter, FrameSeparator
<1>1a. \A z, c, b \in Nat :
         /\ z = c => ReplacePair(Couple(EscapeCharacter, z), Couple(EscapeCharacter, c), b) = <<b>>
         /\ z # c => ReplacePair(Couple(EscapeCharacter, z), Couple(EscapeCharacter, c), b)
                       = Couple(EscapeCharacter, z)
  BY <1>1, ReplaceEscape, Zenon
<1>2. CASE y = EscapeCharacter
  <2>1. Unseparated(EscapedEscape) = EscapedEscape
    <3>1. ReplacePair(Couple(EscapeCharacter, 0), Couple(EscapeCharacter, 1), FrameSeparator)
            = Couple(EscapeCharacter, 0)
      BY ONLY <1>1, <1>1a
    <3> QED
      BY ONLY <3>1 DEF Unseparated, EscapedEscape, EscapedSeparator, Couple
  <2>2. Unescaped(EscapedEscape) = <<EscapeCharacter>>
    <3>1. ReplacePair(Couple(EscapeCharacter, 0), Couple(EscapeCharacter, 0), EscapeCharacter)
            = <<EscapeCharacter>>
      BY ONLY <1>1, <1>1a
    <3> QED
      BY ONLY <3>1 DEF Unescaped, EscapedEscape, Couple
  <2>3. EscapedEscape \in Seq(Nat) /\ Len(EscapedEscape) = 2 /\ EscapedEscape[2] = 0
    BY <1>1, SmallSequences DEF EscapedEscape
  <2>4. Escaped(y) = EscapedEscape /\ Half(y) = EscapedEscape
    BY <1>2 DEF Escaped, Half
  <2>5. ~ EndsInEscape(EscapedEscape)
    BY <1>1, <2>3 DEF EndsInEscape
  <2> QED
    BY <1>2, <2>1, <2>2, <2>3, <2>4, <2>5
<1>3. CASE y # EscapeCharacter
  <2>1. Half(y) = <<y>>
    BY <1>3 DEF Half
  <2>2. <<y>> \in Seq(Nat) /\ Len(<<y>>) = 1 /\ <<y>>[1] = y
    BY SmallSequences
  <2>3. Unescaped(<<y>>) = <<y>>
    BY <1>1, ReplacePairOne DEF Unescaped, EscapedEscape
  <2>4. ~ EndsInEscape(<<y>>)
    BY <1>3, <2>2 DEF EndsInEscape
  <2>5. Unseparated(Escaped(y)) = <<y>>
    <3>1. CASE y = FrameSeparator
      <4>1. Escaped(y) = EscapedSeparator
        BY <1>3, <3>1 DEF Escaped
      <4>2. Unseparated(EscapedSeparator) = <<FrameSeparator>>
        <5>1. ReplacePair(Couple(EscapeCharacter, 1), Couple(EscapeCharacter, 1), FrameSeparator)
                = <<FrameSeparator>>
          BY ONLY <1>1, <1>1a
        <5> QED
          BY ONLY <5>1 DEF Unseparated, EscapedSeparator, Couple
      <4> QED
        BY <3>1, <4>1, <4>2
    <3>2. CASE y # FrameSeparator
      <4>1. Escaped(y) = <<y>>
        BY <1>3, <3>2 DEF Escaped
      <4>2. Unseparated(<<y>>) = <<y>>
        BY <1>1, ReplacePairOne DEF Unseparated, EscapedSeparator
      <4> QED
        BY <4>1, <4>2
    <3> QED
      BY <3>1, <3>2
  <2> QED
    BY <2>1, <2>2, <2>3, <2>4, <2>5
<1> QED
  BY <1>2, <1>3

\* Both replacements go on behind what does not end in the middle of an escape sequence.
LEMMA UnJoined ==
  ASSUME NEW s \in Seq(Nat), NEW t \in Seq(Nat), ~ EndsInEscape(s)
  PROVE  /\ Unseparated(Joined(s, t)) = Joined(Unseparated(s), Unseparated(t))
         /\ Unescaped(Joined(s, t)) = Joined(Unescaped(s), Unescaped(t))
         /\ Unseparated(s) \in Seq(Nat) /\ Unescaped(s) \in Seq(Nat)
<1>1. EscapeCharacter \in Nat /\ FrameSeparator \in Nat
  BY DEF EscapeCharacter, FrameSeparator
<1>2. \A c : ~ (Len(s) > 0 /\ Len(t) > 0 /\ s[Len(s)] = EscapeCharacter /\ t[1] = c)
  BY DEF EndsInEscape
<1>3. Unseparated(Joined(s, t)) = Joined(Unseparated(s), Unseparated(t))
  BY <1>1, <1>2, ReplacePairConcat DEF Unseparated, EscapedSeparator
<1>4. Unescaped(Joined(s, t)) = Joined(Unescaped(s), Unescaped(t))
  BY <1>1, <1>2, ReplacePairConcat DEF Unescaped, EscapedEscape
<1>5. Unseparated(s) \in Seq(Nat) /\ Unescaped(s) \in Seq(Nat)
  BY <1>1, ReplacePairType DEF Unseparated, Unescaped
<1> QED
  BY <1>3, <1>4, <1>5

\* The last byte of two sequences is that of the second.
LEMMA JoinedEnd ==
  ASSUME NEW s \in Seq(Nat), NEW t \in Seq(Nat), Len(t) > 0
  PROVE  EndsInEscape(Joined(s, t)) <=> EndsInEscape(t)
<1>1. PICK m \in Nat, n \in Nat : m = Len(s) /\ n = Len(t)
  BY LenProperties
<1>2. PICK u : u = Joined(s, t)
  OBVIOUS
<1>3. /\ Len(u) = m + n
      /\ \A i \in 1..(m + n) : u[i] = IF i <= m THEN s[i] ELSE t[i - m]
  BY <1>1, <1>2, JoinedProperties
<1>4. n > 0 /\ m + n \in 1..(m + n) /\ ~(m + n <= m) /\ (m + n) - m = n /\ m + n > 0
  BY <1>1
<1>5. u[m + n] = t[n]
  BY <1>3, <1>4
<1> QED
  BY <1>1, <1>2, <1>3, <1>4, <1>5 DEF EndsInEscape

\* EscapeDecode() undoes EscapeEncode().
THEOREM DecodeUndoesEncode ==
  ASSUME NEW s \in Seq(Nat)
  PROVE  EscapeDecode(EscapeEncode(s)) = s
<1> DEFINE U(t) == Unseparated(EscapeEncode(t))
           Good == {t \in Seq(Nat) : ~ EndsInEscape(U(t)) /\ Unescaped(U(t)) = t}
<1>1. <<>> \in Good
  <2>1. PICK t : t = <<>>
    OBVIOUS
  <2>2. t \in Seq(Nat) /\ Len(t) = 0 /\ EscapeEncode(t) = t
    BY <2>1, EncodeEmpty
  <2>3. \A pair, b : ReplacePair(t, pair, b) = t
    <3> SUFFICES ASSUME NEW pair, NEW b PROVE ReplacePair(t, pair, b) = t
      OBVIOUS
    <3>1. Pieces(t, pair, b) = <<>>
      BY <2>1 DEF Pieces
    <3> QED
      BY <2>1, <3>1, FlattenEmpty DEF ReplacePair, Pieces
  <2>4. U(t) = t /\ Unescaped(U(t)) = t
    BY <2>2, <2>3 DEF Unseparated, Unescaped
  <2>5. ~ EndsInEscape(t)
    BY <2>2 DEF EndsInEscape
  <2> QED
    BY <2>1, <2>2, <2>4, <2>5
<1>2. \A t \in Seq(Nat), y \in Nat : t \in Good => Append(t, y) \in Good
  <2> SUFFICES ASSUME NEW t \in Seq(Nat), NEW y \in Nat, t \in Good
               PROVE  Append(t, y) \in Good
    OBVIOUS
  <2>1. EscapeEncode(Append(t, y)) = Joined(EscapeEncode(t), Escaped(y))
    BY EncodeAppend
  <2>2. EscapeEncode(t) \in Seq(Nat) /\ Escaped(y) \in Seq(Nat)
    BY EncodeType, EscapedType
  <2>3. ~ EndsInEscape(EscapeEncode(t))
    BY <2>2, EncodeGuarded, GuardedEnd
  <2>4. U(Append(t, y)) = Joined(U(t), Half(y)) /\ U(t) \in Seq(Nat)
    <3>1. PICK e1, e2 : e1 = EscapeEncode(t) /\ e2 = Escaped(y)
      OBVIOUS
    <3>2. e1 \in Seq(Nat) /\ e2 \in Seq(Nat) /\ ~ EndsInEscape(e1)
      BY <2>2, <2>3, <3>1
    <3>3. /\ Unseparated(Joined(e1, e2)) = Joined(Unseparated(e1), Unseparated(e2))
          /\ Unseparated(e1) \in Seq(Nat)
      BY ONLY <3>2, UnJoined
    <3> QED
      BY <2>1, <3>1, <3>3, HalfDecoded
  <2>5. ~ EndsInEscape(U(Append(t, y)))
    <3>1. PICK e1, e2 : e1 = U(t) /\ e2 = Half(y)
      OBVIOUS
    <3>2. e1 \in Seq(Nat) /\ e2 \in Seq(Nat) /\ Len(e2) > 0 /\ ~ EndsInEscape(e2)
      BY <2>4, <3>1, HalfDecoded
    <3>3. ~ EndsInEscape(Joined(e1, e2))
      BY ONLY <3>2, JoinedEnd
    <3> QED
      BY <2>4, <3>1, <3>3
  <2>6. Unescaped(U(Append(t, y))) = Append(t, y)
    <3>1. PICK e1, e2 : e1 = U(t) /\ e2 = Half(y)
      OBVIOUS
    <3>2. e1 \in Seq(Nat) /\ e2 \in Seq(Nat) /\ ~ EndsInEscape(e1)
      BY <2>4, <3>1, HalfDecoded
    <3>3. Unescaped(Joined(e1, e2)) = Joined(Unescaped(e1), Unescaped(e2))
      BY ONLY <3>2, UnJoined
    <3>4. Unescaped(e1) = t /\ Unescaped(e2) = <<y>>
      BY <3>1, HalfDecoded
    <3> QED
      BY <2>4, <3>1, <3>3, <3>4, AppendIsJoined
  <2>7. Append(t, y) \in Seq(Nat)
    BY AppendProperties
  <2> QED
    BY <2>5, <2>6, <2>7
<1>3. s \in Good
  <2> HIDE DEF Good
  <2> QED
    BY <1>1, <1>2, SeqSetInduction
<1>4. Unescaped(U(s)) = s
  BY <1>3
<1> QED
  BY <1>4 DEF EscapeDecode, Unescaped, Unseparated

\* What was escaped is not taken for broken.
LEMMA EncodedIsNotBroken ==
  ASSUME NEW s \in Seq(Nat)
  PROVE  ~ IsBroken(EscapeEncode(s))
<1>1. PICK d : d = EscapeEncode(s)
  OBVIOUS
<1>2. d \in Seq(Nat) /\ Guarded(d)
  BY <1>1, EncodeType, EncodeGuarded
<1>3. PICK n \in Nat : n = Len(d) /\ DOMAIN d = 1..n
  BY <1>2, LenProperties
<1> DEFINE A == {i \in DOMAIN d : d[i] = EscapeCharacter}
           P(c) == {i \in DOMAIN d : StartsAt(d, <<EscapeCharacter, c>>, i)}
<1>4. IsFiniteSet(P(0)) /\ IsFiniteSet(P(1))
  <2>1. IsFiniteSet(1..n)
    BY FS_Interval
  <2>2. P(0) \in SUBSET (1..n) /\ P(1) \in SUBSET (1..n)
    BY <1>3
  <2> QED
    BY <2>1, <2>2, FS_Subset
<1>5. \A c : \A i \in 1..n : i \in P(c) <=> i \in 1..(n - 1) /\ d[i] = EscapeCharacter /\ d[i + 1] = c
  <2> SUFFICES ASSUME NEW c, NEW i \in 1..n
               PROVE  i \in P(c) <=> i \in 1..(n - 1) /\ d[i] = EscapeCharacter /\ d[i + 1] = c
    OBVIOUS
  <2>1. StartsAt(d, <<EscapeCharacter, c>>, i)
          <=> i \in 1..(Len(d) - 1) /\ d[i] = EscapeCharacter /\ d[i + 1] = c
    BY <1>2, StartsMeans
  <2> QED
    BY <1>3, <2>1
<1>6. A = P(0) \cup P(1)
  <2>1. A \subseteq 1..n /\ P(0) \subseteq 1..n /\ P(1) \subseteq 1..n
    BY <1>3
  <2>2. ASSUME NEW i \in 1..n PROVE i \in A <=> i \in P(0) \/ i \in P(1)
    <3>1. i \in A <=> d[i] = EscapeCharacter
      BY <1>3
    <3>2. d[i] = EscapeCharacter => i + 1 \in 1..n /\ d[i + 1] \in {0, 1}
      BY <1>2, <1>3 DEF Guarded
    <3>3. i + 1 \in 1..n => i \in 1..(n - 1)
      OBVIOUS
    <3> HIDE DEF A, P
    <3> QED
      BY <1>5, <3>1, <3>2, <3>3
  <2> HIDE DEF A, P
  <2> QED
    BY <2>1, <2>2
<1>7. P(0) \cap P(1) = {}
  <2>1. P(0) \subseteq 1..n /\ P(1) \subseteq 1..n
    BY <1>3
  <2> HIDE DEF P
  <2>2. \A i \in 1..n : ~ (i \in P(0) /\ i \in P(1))
    BY <1>5
  <2> QED
    BY <2>1, <2>2
<1>8. Cardinality(A) = Cardinality(P(0)) + Cardinality(P(1))
  <2> HIDE DEF A, P
  <2>1. Cardinality(A) = Cardinality(P(0)) + Cardinality(P(1)) - Cardinality(P(0) \cap P(1))
    BY <1>4, <1>6, FS_Union
  <2>2. Cardinality(P(0) \cap P(1)) = 0
    BY <1>7, FS_EmptySet
  <2>3. Cardinality(P(0)) \in Nat /\ Cardinality(P(1)) \in Nat
    BY <1>4, FS_CardinalityType
  <2> QED
    BY <2>1, <2>2, <2>3
<1>9. /\ Count(d, EscapeCharacter) = Cardinality(A)
      /\ CountPair(d, EscapedEscape) = Cardinality(P(0))
      /\ CountPair(d, EscapedSeparator) = Cardinality(P(1))
  BY DEF Count, CountPair, EscapedEscape, EscapedSeparator
<1> HIDE DEF A, P
<1> QED
  BY <1>1, <1>8, <1>9 DEF IsBroken

-----------------------------------------------------------------------------
(* Frames. *)

\* The bytes.
Octet == 0..255

\* The raw form of a frame.
Framed(n, head, tail) == Joined(Couple(head, 1000 + n), tail)

IsFrame(raw, n) == \E head \in Octet, tail \in Seq(Octet) : raw = Framed(n, head, tail)

\* Serialize() makes a frame.
LEMMA SerializeIsFrame ==
  ASSUME FramingAssumption, NEW body \in Body, NEW n \in Nat
  PROVE  IsFrame(Serialize(body, n), n)
<1>1. body \in Seq(Octet) /\ body # <<>>
  BY DEF FramingAssumption, Octet
<1>2. Head(body) \in Octet /\ Tail(body) \in Seq(Octet)
  BY <1>1, HeadTailProperties
<1>3. Serialize(body, n) = Joined(Couple(Head(body), 1000 + n), Tail(body))
  BY Zenon DEF Serialize, Joined, Couple
<1>4. Serialize(body, n) = Framed(n, Head(body), Tail(body))
  BY <1>3, Zenon DEF Framed
<1> QED
  BY <1>2, <1>4 DEF IsFrame

\* It has its number in the second place.
LEMMA FrameHasNumber ==
  ASSUME NEW raw, NEW n \in Nat, IsFrame(raw, n)
  PROVE  raw \in Seq(Nat) /\ Len(raw) >= 2 /\ raw[2] = 1000 + n
<1>1. PICK head \in Octet, tail \in Seq(Octet) : raw = Joined(Couple(head, 1000 + n), tail)
  BY DEF IsFrame, Framed
<1>2. PICK s : s = Couple(head, 1000 + n)
  OBVIOUS
<1>3. s \in Seq(Nat) /\ Len(s) = 2 /\ s[2] = 1000 + n
  BY <1>2 DEF Octet, Couple
<1>4. tail \in Seq(Nat) /\ Len(tail) \in Nat
  <2>1. Octet \subseteq Nat
    BY DEF Octet
  <2> QED
    BY <2>1, SeqMonotonic, LenProperties
<1>5. /\ Joined(s, tail) \in Seq(Nat)
      /\ Len(Joined(s, tail)) = Len(s) + Len(tail)
      /\ \A i \in 1..(Len(s) + Len(tail)) :
           Joined(s, tail)[i] = IF i <= Len(s) THEN s[i] ELSE tail[i - Len(s)]
  <2>1. s \in Seq(Nat) /\ tail \in Seq(Nat)
    BY <1>3, <1>4
  <2> QED
    BY ONLY <2>1, JoinedProperties
<1>6. 2 \in 1..(Len(s) + Len(tail)) /\ 2 <= Len(s) /\ Len(s) + Len(tail) >= 2
  BY <1>3, <1>4
<1>7. Joined(s, tail)[2] = s[2]
  BY <1>5, <1>6
<1>8. raw = Joined(s, tail)
  BY <1>1, <1>2
<1> QED
  BY <1>3, <1>5, <1>6, <1>7, <1>8

\* On the wire nothing else is beyond the bytes.
HasNumberAt(d, n, k) ==
  \A i \in 1..Len(d) : IF i = k THEN d[i] = 1000 + n ELSE d[i] \in Octet

\* Such a place exists.
HasNumberOnce(d, n) == \E k \in Nat : HasNumberAt(d, n, k)

\* Escaping a frame leaves its number in one place.
LEMMA NumberIsOnce ==
  ASSUME NEW raw, NEW n \in Nat, IsFrame(raw, n)
  PROVE  HasNumberOnce(EscapeEncode(raw), n)
<1>1. PICK head \in Octet, tail \in Seq(Octet) : raw = Joined(Couple(head, 1000 + n), tail)
  BY DEF IsFrame, Framed
<1>2. PICK d1, d2, d3 : /\ d1 = Escaped(head) /\ d2 = Escaped(1000 + n)
                        /\ d3 = EscapeEncode(tail)
  OBVIOUS
<1>3. head \in Nat /\ 1000 + n \in Nat /\ tail \in Seq(Nat) /\ Octet \subseteq Nat
  <2>1. Octet \subseteq Nat
    BY DEF Octet
  <2>2. head \in Nat /\ 1000 + n \in Nat
    BY DEF Octet
  <2>3. tail \in Seq(Nat)
    BY <2>1, SeqMonotonic
  <2> QED
    BY <2>1, <2>2, <2>3
<1>4. d2 = <<1000 + n>>
  BY <1>2 DEF Escaped, EscapeCharacter, FrameSeparator
<1>5. d1 \in Seq(Octet)
  <2>1. EscapeCharacter \in Octet /\ 0 \in Octet /\ 1 \in Octet
    BY DEF Octet, EscapeCharacter
  <2>2. EscapedEscape \in Seq(Octet) /\ EscapedSeparator \in Seq(Octet) /\ <<head>> \in Seq(Octet)
    BY <2>1, SmallSequences DEF EscapedEscape, EscapedSeparator
  <2> QED
    BY <1>2, <2>2 DEF Escaped
<1>6. d3 \in Seq(Octet)
  <2>1. EscapeCharacter \in Octet /\ 0 \in Octet /\ 1 \in Octet
    BY DEF Octet, EscapeCharacter
  <2>2. EscapedEscape \in Seq(Octet) /\ EscapedSeparator \in Seq(Octet)
    BY <2>1, SmallSequences DEF EscapedEscape, EscapedSeparator
  <2>3. ReplaceByte(tail, EscapeCharacter, EscapedEscape) \in Seq(Octet)
    BY <2>2, ReplaceByteType
  <2> QED
    BY <1>2, <2>2, <2>3, ReplaceByteType DEF EscapeEncode
<1>7. EscapeEncode(raw) = Joined(Joined(d1, d2), d3)
  <2>1. PICK s, t : s = <<head>> /\ t = Couple(head, 1000 + n)
    OBVIOUS
  <2>2. s \in Seq(Nat) /\ t \in Seq(Nat) /\ t = Append(s, 1000 + n)
    BY <1>3, <2>1 DEF Couple
  <2>3. EscapeEncode(t) = Joined(EscapeEncode(s), Escaped(1000 + n))
    <3>1. s \in Seq(Nat) /\ 1000 + n \in Nat
      BY <1>3, <2>2
    <3>2. EscapeEncode(Append(s, 1000 + n)) = Joined(EscapeEncode(s), Escaped(1000 + n))
      BY ONLY <3>1, EncodeAppend
    <3> QED
      BY <2>2, <3>2
  <2>4. EscapeEncode(s) = d1
    BY <1>2, <1>3, <2>1, EncodeOne
  <2>5. EscapeEncode(Joined(t, tail)) = Joined(EscapeEncode(t), EscapeEncode(tail))
    <3>1. t \in Seq(Nat) /\ tail \in Seq(Nat)
      BY <1>3, <2>2
    <3> QED
      BY ONLY <3>1, EncodeConcat
  <2> QED
    BY <1>1, <1>2, <2>1, <2>3, <2>4, <2>5
<1>8. PICK m \in Nat, l \in Nat : m = Len(d1) /\ l = Len(d3)
  BY <1>5, <1>6, LenProperties
<1>9. d1 \in Seq(Nat) /\ d2 \in Seq(Nat) /\ d3 \in Seq(Nat) /\ Len(d2) = 1 /\ d2[1] = 1000 + n
  <2>1. d1 \in Seq(Nat) /\ d3 \in Seq(Nat)
    BY <1>3, <1>5, <1>6, SeqMonotonic
  <2> QED
    BY <1>3, <1>4, <2>1
<1>10. PICK c, d : c = Joined(d1, d2) /\ d = Joined(c, d3)
  OBVIOUS
<1>11. /\ c \in Seq(Nat) /\ Len(c) = m + 1
       /\ \A i \in 1..(m + 1) : c[i] = IF i <= m THEN d1[i] ELSE d2[i - m]
  <2>1. d1 \in Seq(Nat) /\ d2 \in Seq(Nat)
    BY <1>9
  <2>2. /\ Joined(d1, d2) \in Seq(Nat)
        /\ Len(Joined(d1, d2)) = Len(d1) + Len(d2)
        /\ \A i \in 1..(Len(d1) + Len(d2)) :
             Joined(d1, d2)[i] = IF i <= Len(d1) THEN d1[i] ELSE d2[i - Len(d1)]
    BY ONLY <2>1, JoinedProperties
  <2> QED
    BY <1>8, <1>9, <1>10, <2>2
<1>12. /\ Len(d) = (m + 1) + l
       /\ \A i \in 1..((m + 1) + l) : d[i] = IF i <= m + 1 THEN c[i] ELSE d3[i - (m + 1)]
  <2>1. c \in Seq(Nat) /\ d3 \in Seq(Nat)
    BY <1>9, <1>11
  <2>2. /\ Len(Joined(c, d3)) = Len(c) + Len(d3)
        /\ \A i \in 1..(Len(c) + Len(d3)) :
             Joined(c, d3)[i] = IF i <= Len(c) THEN c[i] ELSE d3[i - Len(c)]
    BY ONLY <2>1, JoinedProperties
  <2> QED
    BY <1>8, <1>10, <1>11, <2>2
<1>13. ASSUME NEW i \in 1..((m + 1) + l)
       PROVE  IF i = m + 1 THEN d[i] = 1000 + n ELSE d[i] \in Octet
  <2>1. CASE i <= m
    <3>1. i \in 1..m /\ i \in 1..(m + 1) /\ i <= m + 1 /\ i # m + 1
      BY <2>1
    <3>2. d[i] = d1[i]
      BY <1>11, <1>12, <2>1, <3>1
    <3>3. d1[i] \in Octet
      BY <1>5, <1>8, <3>1, ElementOfSeq
    <3> QED
      BY <3>1, <3>2, <3>3
  <2>2. CASE i = m + 1
    <3>1. i \in 1..(m + 1) /\ i <= m + 1 /\ ~(i <= m) /\ i - m = 1
      BY <2>2
    <3>2. d[i] = c[i] /\ c[i] = d2[i - m]
      BY <1>11, <1>12, <3>1
    <3> QED
      BY <1>9, <2>2, <3>1, <3>2
  <2>3. CASE ~(i <= m) /\ i # m + 1
    <3>1. ~(i <= m + 1) /\ i - (m + 1) \in 1..l
      BY <2>3
    <3>2. PICK j \in 1..l : j = i - (m + 1)
      BY <3>1
    <3>3. d[i] = d3[j]
      BY <1>12, <3>1, <3>2
    <3>4. d3[j] \in Octet
      BY <1>6, <1>8, ElementOfSeq
    <3> QED
      BY <2>3, <3>3, <3>4
  <2> QED
    BY <2>1, <2>2, <2>3
<1>14. EscapeEncode(raw) = d /\ m + 1 \in Nat
  BY <1>7, <1>10
<1>15. HasNumberOnce(d, n)
  <2>1. \A i \in 1..Len(d) : IF i = m + 1 THEN d[i] = 1000 + n ELSE d[i] \in Octet
    <3>1. Len(d) = (m + 1) + l
      BY <1>12
    <3> QED
      BY <1>13, <3>1, Zenon
  <2>2. HasNumberAt(d, n, m + 1)
    BY <2>1, Zenon DEF HasNumberAt
  <2> QED
    BY <1>14, <2>2 DEF HasNumberOnce
<1> QED
  BY <1>14, <1>15

\* Data that holds a frame has its number, ...
LEMMA HeldNumber ==
  ASSUME NEW data \in Seq(Nat), NEW n \in DOMAIN frames, n \in Nat,
         IsFrame(frames[n].raw, n), Holds(EscapeDecode(data), n)
  PROVE  \E i \in 1..Len(data) : data[i] = 1000 + n
<1>1. PICK number \in Nat : number = 1000 + n
  OBVIOUS
<1>2. number # EscapeCharacter /\ number # FrameSeparator
  BY <1>1 DEF EscapeCharacter, FrameSeparator
<1> SUFFICES ASSUME \A i \in 1..Len(data) : data[i] # number
             PROVE  FALSE
  BY <1>1
<1> DEFINE X == Nat \ {number}
<1>3. data \in Seq(X)
  <2>1. data = [i \in 1..Len(data) |-> data[i]] /\ Len(data) \in Nat
    BY LenProperties
  <2>2. \A i \in 1..Len(data) : data[i] \in X
    BY ElementOfSeq
  <2> HIDE DEF X
  <2>3. PICK l \in Nat : l = Len(data)
    BY <2>1
  <2>4. \A i \in 1..l : data[i] \in X
    BY <2>2, <2>3
  <2>5. data = [i \in 1..l |-> data[i]]
    BY <2>1, <2>3
  <2> QED
    BY <2>4, <2>5, IsASeq
<1>4. EscapeCharacter \in X /\ FrameSeparator \in X
  BY <1>2 DEF EscapeCharacter, FrameSeparator
<1>5. EscapeDecode(data) \in Seq(X)
  <2> HIDE DEF X
  <2>1. ReplacePair(data, EscapedSeparator, FrameSeparator) \in Seq(X)
    BY <1>3, <1>4, ReplacePairType
  <2> QED
    BY <1>4, <2>1, ReplacePairType DEF EscapeDecode
<1>6. PICK raw, t : raw = frames[n].raw /\ t = EscapeDecode(data)
  OBVIOUS
<1>7. raw \in Seq(Nat) /\ Len(raw) >= 2 /\ raw[2] = number
  BY <1>1, <1>6, FrameHasNumber
<1>8. Len(raw) <= Len(t) /\ SubSeq(raw, 1, Len(raw)) = SubSeq(t, 1, Len(raw))
  BY <1>6 DEF Holds, IsPrefix
<1>9. Len(raw) \in Nat /\ Len(t) \in Nat
  BY <1>5, <1>6, <1>7, LenProperties
<1>10. t[2] = raw[2] /\ t[2] \in X
  <2> HIDE DEF X
  <2>1. PICK l \in Nat : l = Len(raw)
    BY <1>9
  <2>2. \A i \in 1..l : raw[i] \in Nat
    BY <1>7, <2>1, ElementOfSeq
  <2>3. \A i \in 1..l : t[i] \in X
    BY <1>5, <1>6, <1>8, <1>9, <2>1, ElementOfSeq
  <2>4. \A i \in 1..((l - 1) + 1) : SubSeq(raw, 1, l)[i] = raw[(1 + i) - 1]
    BY <2>2, SubSeqProperties
  <2>5. \A i \in 1..((l - 1) + 1) : SubSeq(t, 1, l)[i] = t[(1 + i) - 1]
    BY <2>3, SubSeqProperties
  <2>6. 2 \in 1..((l - 1) + 1) /\ (1 + 2) - 1 = 2 /\ 2 \in 1..l
    BY <1>7, <2>1
  <2> QED
    BY <1>8, <2>1, <2>3, <2>4, <2>5, <2>6
<1> QED
  BY <1>1, <1>7, <1>10

\* ... and a frame that was escaped holds no other.
LEMMA EncodedHolds ==
  ASSUME NEW n \in DOMAIN frames, n \in Nat, DOMAIN frames \subseteq Nat,
         \A m \in DOMAIN frames : IsFrame(frames[m].raw, m)
  PROVE  /\ IsValid(EscapeEncode(frames[n].raw))
         /\ NumberOf(EscapeEncode(frames[n].raw)) = n
<1>1. PICK raw, data : raw = frames[n].raw /\ data = EscapeEncode(raw)
  OBVIOUS
<1>2. raw \in Seq(Nat) /\ Len(raw) >= 2 /\ raw[2] = 1000 + n
  BY <1>1, FrameHasNumber
<1>3. ~ IsBroken(data) /\ EscapeDecode(data) = raw
  BY <1>1, <1>2, EncodedIsNotBroken, DecodeUndoesEncode
<1>4. Holds(raw, n)
  BY <1>1 DEF Holds, IsPrefix
<1>5. ASSUME NEW m \in DOMAIN frames, Holds(raw, m)
      PROVE  m = n
  <2>1. PICK other : other = frames[m].raw
    OBVIOUS
  <2>2. m \in Nat /\ other \in Seq(Nat) /\ Len(other) >= 2 /\ other[2] = 1000 + m
    BY <2>1, FrameHasNumber
  <2>3. Len(other) <= Len(raw) /\ SubSeq(other, 1, Len(other)) = SubSeq(raw, 1, Len(other))
    BY <1>5, <2>1 DEF Holds, IsPrefix
  <2>4. PICK l \in Nat, k \in Nat : l = Len(other) /\ k = Len(raw)
    BY <1>2, <2>2, LenProperties
  <2>5. \A i \in 1..l : other[i] \in Nat /\ raw[i] \in Nat
    BY <1>2, <2>2, <2>3, <2>4, ElementOfSeq
  <2>6. /\ \A i \in 1..((l - 1) + 1) : SubSeq(other, 1, l)[i] = other[(1 + i) - 1]
        /\ \A i \in 1..((l - 1) + 1) : SubSeq(raw, 1, l)[i] = raw[(1 + i) - 1]
    BY <2>5, SubSeqProperties
  <2>7. 2 \in 1..((l - 1) + 1) /\ (1 + 2) - 1 = 2
    BY <2>2, <2>4
  <2>8. other[2] = raw[2]
    BY <2>3, <2>4, <2>6, <2>7
  <2> QED
    BY <1>2, <2>2, <2>8
<1>6. IsValid(data)
  BY <1>3, <1>4 DEF IsValid
<1>7. NumberOf(data) = n
  BY <1>3, <1>4, <1>5 DEF NumberOf
<1> QED
  BY <1>1, <1>6, <1>7

\* The frames that were written.
FramesOK ==
  /\ frames \in Seq([raw : Seq(Nat), whole : BOOLEAN])
  /\ \A n \in DOMAIN frames : IsFrame(frames[n].raw, n)

\* The frames are numbered from one.
LEMMA FramesAreNumbered ==
  ASSUME FramesOK
  PROVE  /\ Len(frames) \in Nat
         /\ DOMAIN frames = 1..Len(frames)
         /\ DOMAIN frames \subseteq Nat
         /\ \A n \in 1..Len(frames) : /\ n \in Nat
                                      /\ frames[n].raw \in Seq(Nat)
                                      /\ frames[n].whole \in BOOLEAN
                                      /\ IsFrame(frames[n].raw, n)
<1>1. Len(frames) \in Nat /\ DOMAIN frames = 1..Len(frames)
  BY LenProperties DEF FramesOK
<1>2. \A n \in 1..Len(frames) : frames[n] \in [raw : Seq(Nat), whole : BOOLEAN]
  BY ElementOfSeq DEF FramesOK
<1>3. \A n \in 1..Len(frames) : frames[n].raw \in Seq(Nat) /\ frames[n].whole \in BOOLEAN
  BY <1>2
<1>4. ASSUME NEW n \in 1..Len(frames) PROVE n \in Nat /\ IsFrame(frames[n].raw, n)
  <2>1. n \in DOMAIN frames /\ n \in Nat
    BY <1>1
  <2> QED
    BY <2>1 DEF FramesOK
<1>5. DOMAIN frames \subseteq Nat
  BY <1>1
<1> QED
  BY <1>1, <1>3, <1>4, <1>5

\* What is on the wire.
LEMMA WireEnds ==
  ASSUME NEW raw \in Seq(Nat)
  PROVE  /\ OnTheWire(raw) \in Seq(Nat)
         /\ Len(EscapeEncode(raw)) \in Nat
         /\ Len(OnTheWire(raw)) = Len(EscapeEncode(raw)) + 1
         /\ OnTheWire(raw)[Len(EscapeEncode(raw)) + 1] = FrameSeparator
         /\ \A i \in 1..Len(EscapeEncode(raw)) : /\ OnTheWire(raw)[i] = EscapeEncode(raw)[i]
                                                 /\ OnTheWire(raw)[i] # FrameSeparator
<1>1. PICK d, w : d = EscapeEncode(raw) /\ w = OnTheWire(raw)
  OBVIOUS
<1>2. d \in Seq(Nat) /\ Len(d) \in Nat /\ FrameSeparator \in Nat
  BY <1>1, EncodeType, LenProperties DEF FrameSeparator
<1>3. w = Append(d, FrameSeparator)
  BY <1>1 DEF OnTheWire
<1>4. /\ w \in Seq(Nat) /\ Len(w) = Len(d) + 1 /\ w[Len(d) + 1] = FrameSeparator
      /\ \A i \in 1..Len(d) : w[i] = d[i]
  BY <1>2, <1>3, AppendProperties
<1>5. \A i \in 1..Len(d) : d[i] # FrameSeparator
  BY <1>1, EncodeHasNoSeparator
<1> QED
  BY <1>1, <1>2, <1>4, <1>5

-----------------------------------------------------------------------------
(* What the actions do, byte by byte. *)

\* The frame that Write() adds, raw and on the wire.
NewRaw(body)  == Serialize(body, Len(frames) + 1)
NewWire(body) == OnTheWire(NewRaw(body))

\* A frame is written, or a part of it.
Written(body, length) ==
  /\ frames' = Append(frames, [raw |-> NewRaw(body), whole |-> length = Len(NewWire(body))])
  /\ stream' = Joined(stream, SubSeq(NewWire(body), 1, length))
  /\ UNCHANGED <<writer, gathered, reading, received>>

\* The first bytes of a frame are added to the stream.
StreamGrows(wire, length) ==
  /\ stream' \in Seq(Nat)
  /\ Len(stream') = Len(stream) + length
  /\ \A i \in 1..(Len(stream) + length) :
       stream'[i] = IF i <= Len(stream) THEN stream[i] ELSE wire[i - Len(stream)]

\* Write() writes a part of a frame, ...
LEMMA WriteMeans ==
  ASSUME FramingAssumption, FramingTypeOK, FramesOK, NEW body \in Body, Write(body)
  PROVE  \E length \in 1..Len(NewWire(body)) : Written(body, length)
BY DEF Write, Written, NewRaw, NewWire, Joined

\* ... which adds a frame and the bytes of the part.
LEMMA WrittenMeans ==
  ASSUME FramingAssumption, FramingTypeOK, FramesOK,
         NEW body \in Body, NEW length \in 1..Len(NewWire(body)), Written(body, length)
  PROVE  /\ NewRaw(body) \in Seq(Nat) /\ IsFrame(NewRaw(body), Len(frames) + 1)
         /\ FramesOK'
         /\ Len(frames') = Len(frames) + 1
         /\ \A n \in 1..Len(frames) : frames'[n] = frames[n]
         /\ frames'[Len(frames) + 1].raw = NewRaw(body)
         /\ frames'[Len(frames) + 1].whole <=> length = Len(NewWire(body))
         /\ StreamGrows(NewWire(body), length)
<1>1. PICK n \in Nat : n = Len(frames)
  BY FramesAreNumbered
<1>2. IsFrame(NewRaw(body), n + 1) /\ NewRaw(body) \in Seq(Nat)
  <2>1. n + 1 \in Nat
    OBVIOUS
  <2>2. IsFrame(Serialize(body, n + 1), n + 1)
    BY <2>1, SerializeIsFrame
  <2> QED
    BY <1>1, <2>1, <2>2, FrameHasNumber DEF NewRaw
<1>3. PICK frame : frame = [raw |-> NewRaw(body), whole |-> length = Len(NewWire(body))]
  OBVIOUS
<1>4. /\ frame \in [raw : Seq(Nat), whole : BOOLEAN]
      /\ frame.raw = NewRaw(body)
      /\ frame.whole <=> length = Len(NewWire(body))
  BY <1>2, <1>3
<1>5. frames' = Append(frames, frame)
  BY <1>3 DEF Written
<1>6. /\ frames' \in Seq([raw : Seq(Nat), whole : BOOLEAN])
      /\ Len(frames') = n + 1
      /\ frames'[n + 1] = frame
      /\ \A i \in 1..n : frames'[i] = frames[i]
  <2>1. frames \in Seq([raw : Seq(Nat), whole : BOOLEAN])
    BY DEF FramesOK
  <2> QED
    BY <1>1, <1>4, <1>5, <2>1, AppendProperties
<1>7. FramesOK'
  <2>1. DOMAIN frames' = 1..(n + 1)
    BY <1>6, LenProperties
  <2>2. \A i \in 1..n : IsFrame(frames'[i].raw, i)
    BY <1>1, <1>6, FramesAreNumbered
  <2>3. IsFrame(frames'[n + 1].raw, n + 1)
    <3>1. frames'[n + 1].raw = NewRaw(body)
      BY <1>4, <1>6
    <3> QED
      BY <1>2, <3>1
  <2>4. \A i \in 1..(n + 1) : i \in 1..n \/ i = n + 1
    OBVIOUS
  <2>5. \A i \in DOMAIN frames' : IsFrame(frames'[i].raw, i)
    BY <2>1, <2>2, <2>3, <2>4
  <2> QED
    BY <1>6, <2>5 DEF FramesOK
<1>8. StreamGrows(NewWire(body), length)
  <2>1. PICK w, c : w = NewWire(body) /\ c = SubSeq(w, 1, length)
    OBVIOUS
  <2>2. w \in Seq(Nat) /\ Len(w) \in Nat /\ length \in 1..Len(w) /\ stream \in Seq(Nat)
    BY <1>2, <2>1, WireEnds, LenProperties DEF NewWire, FramingTypeOK
  <2>3. c \in Seq(Nat) /\ Len(c) = length /\ \A i \in 1..length : c[i] = w[i]
    <3>1. \A i \in 1..length : w[i] \in Nat
      BY <2>2, ElementOfSeq
    <3>2. /\ SubSeq(w, 1, length) \in Seq(Nat)
          /\ Len(SubSeq(w, 1, length)) = IF 1 <= length THEN length - 1 + 1 ELSE 0
          /\ \A i \in 1..(length - 1 + 1) : SubSeq(w, 1, length)[i] = w[1 + i - 1]
      BY <2>2, <3>1, SubSeqProperties
    <3>3. length - 1 + 1 = length /\ 1 <= length /\ \A i \in 1..length : 1 + i - 1 = i
      BY <2>2
    <3> QED
      BY <2>1, <3>2, <3>3
  <2>4. stream' = Joined(stream, c)
    BY <2>1 DEF Written
  <2>5. /\ stream' \in Seq(Nat) /\ Len(stream') = Len(stream) + length
        /\ \A i \in 1..(Len(stream) + length) :
             stream'[i] = IF i <= Len(stream) THEN stream[i] ELSE c[i - Len(stream)]
    <3>1. stream \in Seq(Nat) /\ c \in Seq(Nat)
      BY <2>2, <2>3
    <3>2. /\ Joined(stream, c) \in Seq(Nat)
          /\ Len(Joined(stream, c)) = Len(stream) + Len(c)
          /\ \A i \in 1..(Len(stream) + Len(c)) :
               Joined(stream, c)[i] = IF i <= Len(stream) THEN stream[i] ELSE c[i - Len(stream)]
      BY ONLY <3>1, JoinedProperties
    <3> QED
      BY <2>3, <2>4, <3>2
  <2>6. PICK m \in Nat : m = Len(stream)
    BY <2>2, LenProperties
  <2>7. \A i \in 1..(m + length) : ~(i <= m) => i - m \in 1..length
    BY <2>2
  <2>8. \A i \in 1..(m + length) : stream'[i] = IF i <= m THEN stream[i] ELSE w[i - m]
    BY <2>3, <2>5, <2>6, <2>7
  <2> QED
    BY <2>1, <2>5, <2>6, <2>8 DEF StreamGrows
<1>9. /\ frames'[n + 1].raw = NewRaw(body)
      /\ frames'[n + 1].whole <=> length = Len(NewWire(body))
  BY <1>4, <1>6
<1>10. IsFrame(NewRaw(body), Len(frames) + 1)
  BY <1>1, <1>2
<1>11. /\ Len(frames') = Len(frames) + 1
       /\ \A i \in 1..Len(frames) : frames'[i] = frames[i]
  BY <1>1, <1>6
<1> QED
  BY <1>1, <1>2, <1>7, <1>8, <1>9, <1>10, <1>11

\* The first bytes of the stream are read.
StreamShrinks(k) ==
  /\ k \in 1..Len(stream)
  /\ stream' \in Seq(Nat)
  /\ Len(stream') = Len(stream) - k
  /\ \A i \in 1..(Len(stream) - k) : stream'[i] = stream[k + i]

\* What ReceiveFrame reads.
FrameRead(data, k) ==
  /\ StreamShrinks(k)
  /\ stream[k] = FrameSeparator
  /\ \A i \in 1..(k - 1) : stream[i] # FrameSeparator
  /\ data \in Seq(Nat) /\ Len(data) = k - 1
  /\ \A i \in 1..(k - 1) : data[i] = stream[i]
  /\ AcceptFrame(data)

\* ReceiveFrame takes the bytes before the first separator.
LEMMA ReceiveFrameMeans ==
  ASSUME FramingTypeOK, ReceiveFrame
  PROVE  \E data \in Seq(Nat), k \in 1..Len(stream) : FrameRead(data, k)
<1> DEFINE ends == {i \in DOMAIN stream : stream[i] = FrameSeparator}
           k == CHOOSE i \in ends : \A j \in ends : i <= j
           data == SubSeq(stream, 1, k - 1)
<1>1. PICK n \in Nat : n = Len(stream) /\ DOMAIN stream = 1..n /\ stream \in Seq(Nat)
  BY LenProperties DEF FramingTypeOK
<1>2. k \in ends /\ \A j \in ends : k <= j
  <2>1. ends # {} /\ ends \subseteq Nat
    BY <1>1 DEF ReceiveFrame
  <2>2. \E i \in ends : \A j \in ends : i <= j
    <3> HIDE DEF ends
    <3>1. PICK x \in ends : TRUE
      BY <2>1
    <3>2. \A x1, y1 \in ends : x1 <= y1 \/ y1 <= x1
      BY <2>1
    <3>3. ends \subseteq 1..n /\ IsFiniteSet(1..n)
      BY <1>1, FS_Interval DEF ends
    <3>4. IsFiniteSet(ends)
      BY <3>3, FS_Subset
    <3>5. Min(ends) \in ends /\ \A y \in ends : Min(ends) <= y
      <4>1. ends \in SUBSET Int
        BY <2>1
      <4> QED
        BY <2>1, <3>4, <4>1, Extrema
    <3> QED
      BY <3>5
  <2> HIDE DEF ends
  <2> QED
    BY <2>2
<1>3. k \in 1..n /\ stream[k] = FrameSeparator /\ \A i \in 1..(k - 1) : stream[i] # FrameSeparator
  <2>1. k \in 1..n /\ stream[k] = FrameSeparator
    BY <1>1, <1>2
  <2>2. \A i \in 1..(k - 1) : i \in 1..n /\ ~(k <= i)
    BY <2>1
  <2>3. \A i \in 1..(k - 1) : i \notin ends
    <3> HIDE DEF ends, k
    <3> QED
      BY <1>2, <2>2
  <2>4. \A i \in 1..(k - 1) : stream[i] # FrameSeparator
    BY <1>1, <2>2, <2>3
  <2> QED
    BY <2>1, <2>4
<1>4. AcceptFrame(data) /\ stream' = SubSeq(stream, k + 1, n)
  BY <1>1 DEF ReceiveFrame
<1> HIDE DEF k
<1>5. \A i \in 1..n : stream[i] \in Nat
  BY <1>1, ElementOfSeq
<1>6. data \in Seq(Nat) /\ Len(data) = k - 1 /\ \A i \in 1..(k - 1) : data[i] = stream[i]
  <2>1. PICK l \in Nat : l = k - 1
    BY <1>3
  <2>2. l <= n
    BY <1>3, <2>1
  <2>3. \A i \in 1..l : stream[i] \in Nat
    BY <1>5, <2>2
  <2>4. /\ SubSeq(stream, 1, l) \in Seq(Nat)
        /\ Len(SubSeq(stream, 1, l)) = IF 1 <= l THEN l - 1 + 1 ELSE 0
        /\ \A i \in 1..(l - 1 + 1) : SubSeq(stream, 1, l)[i] = stream[1 + i - 1]
    BY <2>3, SubSeqProperties
  <2>5. l - 1 + 1 = l /\ (~(1 <= l) => l = 0) /\ \A i \in 1..l : 1 + i - 1 = i
    OBVIOUS
  <2>6. Len(SubSeq(stream, 1, l)) = l /\ \A i \in 1..l : SubSeq(stream, 1, l)[i] = stream[i]
    BY <2>4, <2>5
  <2> QED
    BY <2>1, <2>4, <2>6
<1>7. StreamShrinks(k)
  <2>1. PICK l \in Nat : l = k + 1
    BY <1>3
  <2>2. \A i \in l..n : stream[i] \in Nat
    BY <1>5, <2>1, <1>3
  <2>3. /\ SubSeq(stream, l, n) \in Seq(Nat)
        /\ Len(SubSeq(stream, l, n)) = IF l <= n THEN n - l + 1 ELSE 0
        /\ \A i \in 1..(n - l + 1) : SubSeq(stream, l, n)[i] = stream[l + i - 1]
    BY <2>2, SubSeqProperties
  <2>4. /\ n - l + 1 = n - k /\ (~(l <= n) => n - k = 0)
        /\ \A i \in 1..(n - k) : l + i - 1 = k + i
    BY <1>3, <2>1
  <2>5. /\ stream' \in Seq(Nat) /\ Len(stream') = n - k
        /\ \A i \in 1..(n - k) : stream'[i] = stream[k + i]
    BY <1>4, <2>1, <2>3, <2>4
  <2> QED
    BY <1>1, <1>3, <2>5 DEF StreamShrinks
<1>8. FrameRead(data, k)
  BY <1>3, <1>4, <1>6, <1>7 DEF FrameRead
<1> QED
  BY <1>1, <1>3, <1>6, <1>8

\* ReceiveByte takes the first byte.
LEMMA ReceiveByteMeans ==
  ASSUME FramingTypeOK, ReceiveByte
  PROVE  StreamShrinks(1) /\ Head(stream) = stream[1] /\ stream[1] \in Nat
<1>1. stream \in Seq(Nat) /\ stream # <<>> /\ stream' = Tail(stream)
  BY DEF FramingTypeOK, ReceiveByte
<1>2. PICK n \in Nat : n = Len(stream) /\ n > 0
  BY <1>1, LenProperties, EmptySeq
<1>3. /\ Tail(stream) \in Seq(Nat)
      /\ Len(Tail(stream)) = n - 1
      /\ \A i \in 1..Len(Tail(stream)) : Tail(stream)[i] = stream[i + 1]
  BY <1>1, <1>2, HeadTailProperties
<1>4. \A i \in 1..(n - 1) : i + 1 = 1 + i
  OBVIOUS
<1>5. StreamShrinks(1)
  BY <1>1, <1>2, <1>3, <1>4 DEF StreamShrinks
<1>6. Head(stream) = stream[1] /\ stream[1] \in Nat
  <2>1. 1 \in 1..n
    BY <1>2
  <2> QED
    BY <1>1, <1>2, <2>1, ElementOfSeq
<1> QED
  BY <1>5, <1>6

\* What is accepted is a frame whose number is in the data.
Accepts(data, n) ==
  /\ received' = Append(received, n)
  /\ \E i \in 1..Len(data) : data[i] = 1000 + n

\* AcceptFrame() accepts no frame or one.
LEMMA AcceptMeans ==
  ASSUME FramingTypeOK, FramesOK, NEW data \in Seq(Nat), AcceptFrame(data)
  PROVE  \/ received' = received
         \/ \E n \in DOMAIN frames : Accepts(data, n)
<1>1. CASE IsValid(data)
  <2>1. PICK n : n = NumberOf(data)
    OBVIOUS
  <2>2. n \in DOMAIN frames /\ Holds(EscapeDecode(data), n)
    BY <1>1, <2>1 DEF IsValid, NumberOf
  <2>3. n \in Nat /\ IsFrame(frames[n].raw, n)
    BY <2>2, FramesAreNumbered
  <2>4. \E i \in 1..Len(data) : data[i] = 1000 + n
    BY <2>2, <2>3, HeldNumber
  <2>5. received' = Append(received, n)
    BY <1>1, <2>1 DEF AcceptFrame
  <2>6. Accepts(data, n)
    BY <2>4, <2>5 DEF Accepts
  <2> QED
    BY <2>2, <2>6
<1>2. CASE ~ IsValid(data)
  BY <1>2 DEF AcceptFrame
<1> QED
  BY <1>1, <1>2

\* What is accepted is the number of a frame.
LEMMA AcceptType ==
  ASSUME FramingTypeOK, FramesOK, NEW data \in Seq(Nat), AcceptFrame(data)
  PROVE  received' \in Seq(DOMAIN frames)
<1>1. received \in Seq(DOMAIN frames)
  BY DEF FramingTypeOK
<1>2. ASSUME NEW n \in DOMAIN frames, Accepts(data, n)
      PROVE  received' \in Seq(DOMAIN frames)
  BY <1>1, <1>2, AppendProperties DEF Accepts
<1> QED
  BY <1>1, <1>2, AcceptMeans

-----------------------------------------------------------------------------
(* Numbers on the wire are in order. *)

\* The numbers in bytes are those of frames that were written, ...
Numbered(s, limit) == \A i \in 1..Len(s) : s[i] > 1000 => s[i] <= 1000 + limit

\* ... grow from one to the next, ...
Ordered(s) == \A i, j \in 1..Len(s) : i < j /\ s[i] > 1000 /\ s[j] > 1000 => s[i] < s[j]

\* ... are all below those in other bytes, ...
Before(s, t) ==
  \A i \in 1..Len(s), j \in 1..Len(t) : s[i] > 1000 /\ t[j] > 1000 => s[i] < t[j]

\* ... and are all above those of the frames that were accepted, ...
Passed(r, s) == \A k \in 1..Len(r), i \in 1..Len(s) : s[i] > 1000 => 1000 + r[k] < s[i]

\* ... which grow as well.
InOrder(r) == \A i, j \in DOMAIN r : i < j => r[i] < r[j]

\* The numbers in what is gathered come before those in the stream.
OrderInv ==
  /\ writer = "client" => gathered = <<>>
  /\ Numbered(stream, Len(frames)) /\ Numbered(gathered, Len(frames))
  /\ Ordered(stream) /\ Ordered(gathered) /\ Before(gathered, stream)
  /\ Passed(received, stream) /\ Passed(received, gathered)
  /\ InOrder(received)

\* A frame that is accepted comes after those that were.
LEMMA AcceptKeepsOrder ==
  ASSUME FramingTypeOK, FramesOK, NEW data \in Seq(Nat), NEW rest \in Seq(Nat),
         AcceptFrame(data), InOrder(received), Passed(received, data), Passed(received, rest),
         Before(data, rest)
  PROVE  InOrder(received') /\ Passed(received', rest)
<1>1. CASE received' = received
  BY <1>1
<1>2. ASSUME NEW n \in DOMAIN frames, Accepts(data, n)
      PROVE  InOrder(received') /\ Passed(received', rest)
  <2>1. n \in Nat /\ n > 0
    <3>1. Len(frames) \in Nat /\ n \in 1..Len(frames)
      BY FramesAreNumbered
    <3> QED
      BY <3>1
  <2>2. received \in Seq(Nat)
    <3>1. DOMAIN frames \subseteq Nat /\ received \in Seq(DOMAIN frames)
      BY FramesAreNumbered DEF FramingTypeOK
    <3> QED
      BY <3>1, SeqMonotonic
  <2>3. PICK m \in Nat : m = Len(received)
    BY <2>2, LenProperties
  <2> DEFINE r == received'
  <2> HIDE DEF r
  <2>4. r \in Seq(Nat) /\ Len(r) = m + 1 /\ r[m + 1] = n /\ \A i \in 1..m : r[i] = received[i]
    BY <1>2, <2>1, <2>2, <2>3, AppendProperties DEF Accepts, r
  <2>5. PICK i \in 1..Len(data) : data[i] = 1000 + n
    BY <1>2 DEF Accepts
  <2>6. data[i] > 1000
    BY <2>1, <2>5
  <2>7. \A k \in 1..m : 1000 + received[k] < 1000 + n /\ received[k] \in Nat
    <3> SUFFICES ASSUME NEW k \in 1..m
                 PROVE  1000 + received[k] < 1000 + n /\ received[k] \in Nat
      OBVIOUS
    <3>1. 1000 + received[k] < data[i]
      BY <2>3, <2>6 DEF Passed
    <3>2. received[k] \in Nat
      BY <2>2, <2>3, ElementOfSeq
    <3> QED
      BY <2>5, <3>1, <3>2
  <2>8. InOrder(r)
    <3> SUFFICES ASSUME NEW x \in 1..(m + 1), NEW y \in 1..(m + 1), x < y
                 PROVE  r[x] < r[y]
      BY <2>4, LenProperties DEF InOrder
    <3>1. x \in 1..m
      OBVIOUS
    <3>2. CASE y \in 1..m
      <4>1. x \in DOMAIN received /\ y \in DOMAIN received
        BY <2>2, <2>3, <3>1, <3>2, LenProperties
      <4>2. received[x] < received[y]
        BY <4>1 DEF InOrder
      <4> QED
        BY <2>4, <3>1, <3>2, <4>2
    <3>3. CASE y = m + 1
      <4>1. r[x] = received[x] /\ r[y] = n
        BY <2>4, <3>1, <3>3
      <4>2. 1000 + received[x] < 1000 + n /\ received[x] \in Nat
        BY <2>7, <3>1
      <4> QED
        BY <2>1, <4>1, <4>2
    <3> QED
      BY <3>2, <3>3
  <2>9. Passed(r, rest)
    <3> SUFFICES ASSUME NEW k \in 1..(m + 1), NEW j \in 1..Len(rest), rest[j] > 1000
                 PROVE  1000 + r[k] < rest[j]
      BY <2>4 DEF Passed
    <3>1. CASE k \in 1..m
      BY <2>3, <2>4, <3>1 DEF Passed
    <3>2. CASE k = m + 1
      <4>1. data[i] < rest[j]
        BY <2>6 DEF Before
      <4> QED
        BY <2>4, <2>5, <3>2, <4>1
    <3> QED
      BY <3>1, <3>2
  <2> QED
    BY <2>8, <2>9 DEF r
<1> QED
  BY <1>1, <1>2, AcceptMeans

\* A frame that is written has a number that comes after all others.
LEMMA WriteKeepsOrder ==
  ASSUME FramingAssumption, FramingTypeOK, FramesOK, OrderInv, NEW body \in Body, Write(body)
  PROVE  OrderInv'
<1>1. PICK length \in 1..Len(NewWire(body)) : Written(body, length)
  BY WriteMeans
<1>2. UNCHANGED <<writer, gathered, reading, received>>
  BY <1>1 DEF Written
<1>3. PICK n \in Nat, m \in Nat : n = Len(frames) /\ m = Len(stream)
  BY FramesAreNumbered, LenProperties DEF FramingTypeOK
<1>4. PICK w, raw : w = NewWire(body) /\ raw = NewRaw(body)
  OBVIOUS
<1>5. /\ raw \in Seq(Nat) /\ IsFrame(raw, n + 1) /\ Len(frames') = n + 1
      /\ stream' \in Seq(Nat) /\ Len(stream') = m + length
      /\ \A i \in 1..(m + length) : stream'[i] = IF i <= m THEN stream[i] ELSE w[i - m]
  <2>1. StreamGrows(w, length)
    BY <1>1, <1>4, WrittenMeans
  <2>2. /\ stream' \in Seq(Nat) /\ Len(stream') = m + length
        /\ \A i \in 1..(m + length) : stream'[i] = IF i <= m THEN stream[i] ELSE w[i - m]
    BY <1>3, <2>1 DEF StreamGrows
  <2>3. raw \in Seq(Nat) /\ IsFrame(raw, n + 1) /\ Len(frames') = n + 1
    BY <1>1, <1>3, <1>4, WrittenMeans
  <2> QED
    BY <2>2, <2>3
<1>6. PICK l \in Nat : l = Len(w) /\ length \in 1..l
  BY <1>1, <1>4, <1>5, WireEnds, LenProperties DEF NewWire
<1>6a. PICK k \in Nat : k = Len(EscapeEncode(raw))
  BY <1>5, WireEnds
<1>6b. PICK at \in Nat : HasNumberAt(EscapeEncode(raw), n + 1, at)
  <2>1. n + 1 \in Nat
    OBVIOUS
  <2> QED
    BY <1>5, <2>1, NumberIsOnce DEF HasNumberOnce
<1>7. \A i \in 1..l : w[i] \in Nat /\ (w[i] > 1000 => i = at /\ w[i] = 1000 + (n + 1))
  <2>1. PICK d : d = EscapeEncode(raw)
    OBVIOUS
  <2>2. \A i \in 1..k : IF i = at THEN d[i] = 1000 + (n + 1) ELSE d[i] \in Octet
    BY <1>6a, <1>6b, <2>1 DEF HasNumberAt
  <2>3. /\ w \in Seq(Nat) /\ l = k + 1 /\ w[k + 1] = FrameSeparator
        /\ \A i \in 1..k : w[i] = d[i]
    BY <1>4, <1>5, <1>6, <1>6a, <2>1, WireEnds DEF NewWire, NewRaw
  <2>4. \A i \in 1..l : w[i] \in Nat
    BY <1>6, <2>3, ElementOfSeq
  <2>5. \A i \in 1..l : w[i] > 1000 => i = at /\ w[i] = 1000 + (n + 1)
    <3> SUFFICES ASSUME NEW i \in 1..l, w[i] > 1000 PROVE i = at /\ w[i] = 1000 + (n + 1)
      OBVIOUS
    <3>1. i # k + 1
      BY <2>3 DEF FrameSeparator
    <3>2. i \in 1..k /\ w[i] = d[i]
      BY <2>3, <3>1
    <3>3. IF i = at THEN d[i] = 1000 + (n + 1) ELSE d[i] \in Octet
      BY <2>2, <3>2
    <3>4. \A x \in Octet : ~ (x > 1000)
      BY DEF Octet
    <3>5. d[i] > 1000
      BY <3>2
    <3> QED
      BY <3>2, <3>3, <3>4, <3>5
  <2> QED
    BY <2>4, <2>5
<1>8. \A i \in 1..m : stream[i] \in Nat
  BY <1>3, ElementOfSeq DEF FramingTypeOK
<1>9. \A i \in 1..(m + length) :
        /\ i <= m => i \in 1..m /\ stream'[i] = stream[i]
        /\ ~(i <= m) => i - m \in 1..l /\ stream'[i] = w[i - m]
  <2> SUFFICES ASSUME NEW i \in 1..(m + length)
               PROVE  /\ i <= m => i \in 1..m /\ stream'[i] = stream[i]
                      /\ ~(i <= m) => i - m \in 1..l /\ stream'[i] = w[i - m]
    OBVIOUS
  <2>1. stream'[i] = IF i <= m THEN stream[i] ELSE w[i - m]
    BY <1>5
  <2>2. /\ i <= m => i \in 1..m
        /\ ~(i <= m) => i - m \in 1..l
    BY <1>6
  <2> QED
    BY <2>1, <2>2
<1>10. \A i \in 1..(m + length) : ~(i <= m) /\ stream'[i] > 1000 =>
         i = m + at /\ stream'[i] = 1000 + (n + 1)
  <2> SUFFICES ASSUME NEW i \in 1..(m + length), ~(i <= m), stream'[i] > 1000
               PROVE  i = m + at /\ stream'[i] = 1000 + (n + 1)
    OBVIOUS
  <2>1. PICK j \in 1..l : j = i - m
    BY <1>9
  <2>2. stream'[i] = w[j]
    BY <1>9, <2>1
  <2>3. j = at /\ w[j] = 1000 + (n + 1)
    BY <1>7, <2>2
  <2> QED
    BY <2>1, <2>2, <2>3
<1>11. Numbered(stream, n) /\ Numbered(gathered, n) /\ Ordered(stream) /\ Before(gathered, stream)
       /\ Passed(received, stream)
  BY <1>3 DEF OrderInv
<1>12. Numbered(stream', n + 1)
  <2> SUFFICES ASSUME NEW i \in 1..(m + length), stream'[i] > 1000
               PROVE  stream'[i] <= 1000 + (n + 1)
    BY <1>5 DEF Numbered
  <2>1. CASE i <= m
    <3>1. stream[i] <= 1000 + n /\ stream[i] \in Nat
      BY <1>3, <1>8, <1>9, <1>11, <2>1 DEF Numbered
    <3> QED
      BY <1>9, <2>1, <3>1
  <2>2. CASE ~(i <= m)
    BY <1>10, <2>2
  <2> QED
    BY <2>1, <2>2
<1>13. \A i \in 1..Len(gathered) : gathered[i] \in Nat
  BY ElementOfSeq DEF FramingTypeOK
<1>14. Numbered(gathered, n + 1)
  BY <1>11, <1>13 DEF Numbered
<1>15. Ordered(stream')
  <2> SUFFICES ASSUME NEW i \in 1..(m + length), NEW j \in 1..(m + length),
                      i < j, stream'[i] > 1000, stream'[j] > 1000
               PROVE  stream'[i] < stream'[j]
    BY <1>5 DEF Ordered
  <2>1. CASE j <= m
    BY <1>3, <1>9, <1>11, <2>1 DEF Ordered
  <2>2. CASE i <= m /\ ~(j <= m)
    <3>1. stream'[j] = 1000 + (n + 1)
      BY <1>10, <2>2
    <3>2. stream[i] <= 1000 + n /\ stream[i] \in Nat /\ stream'[i] = stream[i]
      BY <1>3, <1>8, <1>9, <1>11, <2>2 DEF Numbered
    <3> QED
      BY <3>1, <3>2
  <2>3. CASE ~(i <= m) /\ ~(j <= m)
    <3>1. i = m + at /\ j = m + at
      BY <1>10, <2>3
    <3> QED
      BY <3>1
  <2> QED
    BY <2>1, <2>2, <2>3
<1>16. Before(gathered, stream')
  <2> SUFFICES ASSUME NEW i \in 1..Len(gathered), NEW j \in 1..(m + length),
                      gathered[i] > 1000, stream'[j] > 1000
               PROVE  gathered[i] < stream'[j]
    BY <1>5 DEF Before
  <2>1. CASE j <= m
    BY <1>3, <1>9, <1>11, <2>1 DEF Before
  <2>2. CASE ~(j <= m)
    <3>1. stream'[j] = 1000 + (n + 1)
      BY <1>10, <2>2
    <3>2. gathered[i] <= 1000 + n
      BY <1>11 DEF Numbered
    <3> QED
      BY <1>13, <3>1, <3>2
  <2> QED
    BY <2>1, <2>2
<1>17. Passed(received, stream')
  <2> SUFFICES ASSUME NEW r \in 1..Len(received), NEW j \in 1..(m + length), stream'[j] > 1000
               PROVE  1000 + received[r] < stream'[j]
    BY <1>5 DEF Passed
  <2>1. CASE j <= m
    BY <1>3, <1>9, <1>11, <2>1 DEF Passed
  <2>2. CASE ~(j <= m)
    <3>1. stream'[j] = 1000 + (n + 1)
      BY <1>10, <2>2
    <3>2. received[r] \in DOMAIN frames
      BY ElementOfSeq DEF FramingTypeOK
    <3>3. received[r] \in 1..n
      BY <1>3, <3>2, FramesAreNumbered
    <3> QED
      BY <3>1, <3>3
  <2> QED
    BY <2>1, <2>2
<1>18. /\ writer' = "client" => gathered' = <<>>
       /\ gathered' = gathered /\ received' = received
  BY <1>2 DEF OrderInv
<1>19. Len(frames') = n + 1
  BY <1>5
<1>20. Ordered(gathered) /\ Passed(received, gathered) /\ InOrder(received)
  BY DEF OrderInv
<1>21. Numbered(stream', Len(frames')) /\ Numbered(gathered', Len(frames'))
  BY <1>12, <1>14, <1>18, <1>19
<1>22. Before(gathered', stream') /\ Passed(received', stream') /\ Passed(received', gathered')
       /\ Ordered(gathered') /\ InOrder(received')
  BY <1>16, <1>17, <1>18, <1>20
<1> QED
  BY <1>15, <1>18, <1>21, <1>22 DEF OrderInv

\* What is left of the stream is in order, and after what was received.
LEMMA ShrinkKeepsOrder ==
  ASSUME FramingTypeOK, OrderInv, NEW k \in Nat, StreamShrinks(k)
  PROVE  /\ Numbered(stream', Len(frames)) /\ Ordered(stream')
         /\ Before(gathered, stream') /\ Passed(received, stream')
<1>1. PICK m \in Nat : m = Len(stream) /\ k \in 1..m
  BY LenProperties DEF FramingTypeOK, StreamShrinks
<1>2. PICK l \in Nat : l = m - k
  BY <1>1
<1>3. /\ Len(stream') = l
      /\ \A i \in 1..l : k + i \in 1..m /\ stream'[i] = stream[k + i]
  BY <1>1, <1>2 DEF StreamShrinks
<1>4. Numbered(stream, Len(frames)) /\ Ordered(stream) /\ Before(gathered, stream)
      /\ Passed(received, stream)
  BY DEF OrderInv
<1>5. Numbered(stream', Len(frames))
  BY <1>1, <1>3, <1>4 DEF Numbered
<1>6. Ordered(stream')
  <2> SUFFICES ASSUME NEW i \in 1..l, NEW j \in 1..l, i < j, stream'[i] > 1000, stream'[j] > 1000
               PROVE  stream'[i] < stream'[j]
    BY <1>3 DEF Ordered
  <2>1. PICK a \in 1..m : a = k + i
    BY <1>3
  <2>2. PICK b \in 1..m : b = k + j
    BY <1>3
  <2>3. a < b /\ stream'[i] = stream[a] /\ stream'[j] = stream[b]
    BY <1>1, <1>3, <2>1, <2>2
  <2> QED
    BY <1>1, <1>4, <2>3 DEF Ordered
<1>7. Before(gathered, stream')
  <2> SUFFICES ASSUME NEW i \in 1..Len(gathered), NEW j \in 1..l,
                      gathered[i] > 1000, stream'[j] > 1000
               PROVE  gathered[i] < stream'[j]
    BY <1>3 DEF Before
  <2>1. PICK a \in 1..m : a = k + j /\ stream'[j] = stream[a]
    BY <1>3
  <2> QED
    BY <1>1, <1>4, <2>1 DEF Before
<1>8. Passed(received, stream')
  <2> SUFFICES ASSUME NEW i \in 1..Len(received), NEW j \in 1..l, stream'[j] > 1000
               PROVE  1000 + received[i] < stream'[j]
    BY <1>3 DEF Passed
  <2>1. PICK a \in 1..m : a = k + j /\ stream'[j] = stream[a]
    BY <1>3
  <2> QED
    BY <1>1, <1>4, <2>1 DEF Passed
<1> QED
  BY <1>5, <1>6, <1>7, <1>8

\* Reading up to a separator keeps the order.
LEMMA ReceiveFrameKeepsOrder ==
  ASSUME FramingTypeOK, FramesOK, OrderInv, ReceiveFrame
  PROVE  OrderInv'
<1>1. PICK data \in Seq(Nat), k \in 1..Len(stream) : FrameRead(data, k)
  BY ReceiveFrameMeans
<1>2. PICK m \in Nat : m = Len(stream) /\ k \in 1..m
  BY LenProperties DEF FramingTypeOK
<1>3. UNCHANGED <<writer, frames, gathered>> /\ gathered = <<>>
  BY DEF ReceiveFrame, OrderInv
<1>4. /\ Numbered(stream', Len(frames)) /\ Ordered(stream')
      /\ Before(gathered, stream') /\ Passed(received, stream')
  BY <1>1, <1>2, ShrinkKeepsOrder DEF FrameRead
<1>5. PICK rest \in Seq(Nat) : rest = stream'
  BY <1>1 DEF FrameRead, StreamShrinks
<1>6. PICK l \in Nat : l = m - k
  <2>1. m - k \in Nat
    BY <1>2
  <2> QED
    BY <2>1
<1>7. /\ Len(data) = k - 1 /\ Len(rest) = l
      /\ \A i \in 1..(k - 1) : i \in 1..m /\ data[i] = stream[i]
      /\ \A i \in 1..l : k + i \in 1..m /\ rest[i] = stream[k + i]
  BY <1>1, <1>2, <1>5, <1>6 DEF FrameRead, StreamShrinks
<1>8. Ordered(stream) /\ Passed(received, stream) /\ InOrder(received)
  BY DEF OrderInv
<1>9. Passed(received, data)
  BY <1>2, <1>7, <1>8 DEF Passed
<1>10. Before(data, rest)
  <2> SUFFICES ASSUME NEW i \in 1..(k - 1), NEW j \in 1..l, data[i] > 1000, rest[j] > 1000
               PROVE  data[i] < rest[j]
    BY <1>7 DEF Before
  <2>1. PICK b \in 1..m : b = k + j /\ rest[j] = stream[b]
    BY <1>7
  <2>2. i \in 1..m /\ i < b /\ data[i] = stream[i]
    BY <1>2, <1>7, <2>1
  <2> QED
    BY <1>2, <1>8, <2>1, <2>2 DEF Ordered
<1>11. InOrder(received') /\ Passed(received', rest)
  BY <1>1, <1>4, <1>5, <1>8, <1>9, <1>10, AcceptKeepsOrder DEF FrameRead
<1>12. gathered' = <<>> /\ Len(gathered') = 0
  BY <1>3
<1>13. /\ Numbered(gathered', Len(frames')) /\ Ordered(gathered') /\ Before(gathered', stream')
       /\ Passed(received', gathered')
  BY <1>12 DEF Numbered, Ordered, Before, Passed
<1> QED
  BY <1>3, <1>4, <1>5, <1>11, <1>12, <1>13 DEF OrderInv

\* Reading a byte keeps the order.
LEMMA ReceiveByteKeepsOrder ==
  ASSUME FramingAssumption, FramingTypeOK, FramesOK, OrderInv, ReceiveByte
  PROVE  OrderInv'
<1>1. StreamShrinks(1) /\ Head(stream) = stream[1] /\ stream[1] \in Nat
  BY ReceiveByteMeans
<1>2. PICK m \in Nat : m = Len(stream) /\ 1 \in 1..m
  BY <1>1, LenProperties DEF FramingTypeOK, StreamShrinks
<1>3. UNCHANGED <<writer, frames, reading>> /\ writer = "middleman" /\ writer' # "client"
  BY DEF ReceiveByte
<1>4. /\ Numbered(stream', Len(frames)) /\ Ordered(stream')
      /\ Before(gathered, stream') /\ Passed(received, stream')
  BY <1>1, ShrinkKeepsOrder
<1>5. /\ Numbered(gathered, Len(frames)) /\ Ordered(gathered) /\ Before(gathered, stream)
      /\ Numbered(stream, Len(frames)) /\ Ordered(stream)
      /\ Passed(received, stream) /\ Passed(received, gathered) /\ InOrder(received)
  BY DEF OrderInv
<1>6. gathered \in Seq(Nat)
  BY DEF FramingTypeOK
<1>7. CASE stream[1] = FrameSeparator
  <2>1. /\ gathered' = <<>>
        /\ AcceptFrame(gathered) \/ received' = received
    BY <1>1, <1>7 DEF ReceiveByte, Rest
  <2>2. PICK rest \in Seq(Nat) : rest = stream'
    BY <1>1 DEF StreamShrinks
  <2>3. PICK data \in Seq(Nat) : data = gathered
    BY <1>6
  <2>4. InOrder(received') /\ Passed(received', rest)
    <3>1. CASE AcceptFrame(data)
      BY <1>4, <1>5, <2>2, <2>3, <3>1, AcceptKeepsOrder
    <3>2. CASE received' = received
      BY <1>4, <1>5, <2>2, <3>2
    <3> QED
      BY <2>1, <2>3, <3>1, <3>2
  <2>5. Len(gathered') = 0
    BY <2>1
  <2>6. /\ Numbered(gathered', Len(frames')) /\ Ordered(gathered') /\ Before(gathered', stream')
        /\ Passed(received', gathered')
    BY <2>5 DEF Numbered, Ordered, Before, Passed
  <2> QED
    BY <1>3, <1>4, <2>2, <2>4, <2>6 DEF OrderInv
<1>8. CASE stream[1] # FrameSeparator
  <2>1. gathered' = Gather(stream[1]) /\ received' = received
    BY <1>1, <1>8 DEF ReceiveByte
  <2>2. CASE gathered' = gathered
    BY <1>3, <1>4, <1>5, <2>1, <2>2 DEF OrderInv
  <2>3. CASE gathered' = Append(gathered, stream[1])
    <3>1. PICK n \in Nat : n = Len(gathered)
      BY <1>6, LenProperties
    <3>2. PICK g : g = gathered'
      OBVIOUS
    <3>3. Len(g) = n + 1 /\ g[n + 1] = stream[1] /\ \A i \in 1..n : g[i] = gathered[i]
      BY <1>1, <1>6, <2>3, <3>1, <3>2, AppendProperties
    <3>4. \A i \in 1..(n + 1) : i \in 1..n \/ i = n + 1
      OBVIOUS
    <3>5. Numbered(g, Len(frames))
      BY <1>2, <1>5, <3>1, <3>3, <3>4 DEF Numbered
    <3>6. Ordered(g)
      <4> SUFFICES ASSUME NEW i \in 1..(n + 1), NEW j \in 1..(n + 1), i < j, g[i] > 1000, g[j] > 1000
                   PROVE  g[i] < g[j]
        BY <3>3 DEF Ordered
      <4>1. i \in 1..n /\ g[i] = gathered[i]
        BY <3>3
      <4>2. CASE j \in 1..n
        BY <1>5, <3>1, <3>3, <4>1, <4>2 DEF Ordered
      <4>3. CASE j = n + 1
        BY <1>2, <1>5, <3>1, <3>3, <4>1, <4>3 DEF Before
      <4> QED
        BY <4>2, <4>3
    <3>7. Before(g, stream')
      <4>1. PICK l \in Nat : l = m - 1
        BY <1>2
      <4>2. Len(stream') = l /\ \A j \in 1..l : 1 + j \in 1..m /\ stream'[j] = stream[1 + j]
        BY <1>1, <1>2, <4>1 DEF StreamShrinks
      <4> SUFFICES ASSUME NEW i \in 1..(n + 1), NEW j \in 1..l, g[i] > 1000, stream'[j] > 1000
                   PROVE  g[i] < stream'[j]
        BY <3>3, <4>2 DEF Before
      <4>3. CASE i \in 1..n
        BY <1>4, <3>1, <3>3, <4>2, <4>3 DEF Before
      <4>4. CASE i = n + 1
        <5>1. PICK b \in 1..m : b = 1 + j /\ stream'[j] = stream[b] /\ 1 < b
          BY <4>2
        <5> QED
          BY <1>2, <1>5, <3>3, <4>4, <5>1 DEF Ordered
      <4> QED
        BY <4>3, <4>4
    <3>8. Passed(received, g)
      BY <1>2, <1>5, <3>1, <3>3, <3>4 DEF Passed
    <3> QED
      BY <1>3, <1>4, <1>5, <2>1, <3>2, <3>5, <3>6, <3>7, <3>8 DEF OrderInv
  <2> QED
    BY <2>1, <2>2, <2>3 DEF Gather
<1> QED
  BY <1>7, <1>8

-----------------------------------------------------------------------------
(* Whole frames arrive. *)

\* A frame is the next on the way: what is gathered is its beginning, ...
IsNext(g, s, w) ==
  /\ Len(w) <= Len(g) + Len(s)
  /\ \A i \in 1..Len(w) : w[i] = IF i <= Len(g) THEN g[i] ELSE s[i - Len(g)]

\* ... or it comes after a separator.
ComesAfter(s, w, p) ==
  /\ p \in 1..Len(s)
  /\ s[p] = FrameSeparator
  /\ p + Len(w) <= Len(s)
  /\ \A i \in 1..Len(w) : w[i] = s[p + i]

\* A frame was accepted.
IsReceived(n) == \E i \in DOMAIN received : received[i] = n

\* A frame was accepted, or all of it is still to be read.
IsOnTheWay(n) ==
  \/ IsReceived(n)
  \/ IsNext(gathered, stream, OnTheWire(frames[n].raw))
  \/ \E p \in Nat : ComesAfter(stream, OnTheWire(frames[n].raw), p)

\* The condition of WholeFramesArrive.
Arrives(n) ==
  /\ frames[n].whole
  /\ StartsAfterSeparator(n)
  /\ Fits(EscapeEncode(frames[n].raw))

\* The bytes that are not read end with a separator, if there are any.
EndsClean ==
  \/ stream = <<>> /\ gathered = <<>>
  \/ Len(stream) > 0 /\ stream[Len(stream)] = FrameSeparator

\* What is gathered has no separator; after a whole frame the stream ends with one.
WholeInv ==
  /\ \A i \in 1..Len(gathered) : gathered[i] # FrameSeparator
  /\ frames = <<>> \/ frames[Len(frames)].whole => EndsClean
  /\ \A n \in 1..Len(frames) : Arrives(n) => IsOnTheWay(n)

\* What was received stays so.
LEMMA ReceivedStays ==
  ASSUME FramingTypeOK, FramesOK, NEW data \in Seq(Nat), AcceptFrame(data), NEW n, IsReceived(n)
  PROVE  IsReceived(n)'
<1>1. PICK i \in DOMAIN received : received[i] = n
  BY DEF IsReceived
<1>2. CASE received' = received
  BY <1>2 DEF IsReceived
<1>3. ASSUME NEW m \in DOMAIN frames, Accepts(data, m)
      PROVE  IsReceived(n)'
  <2>1. received' = Append(received, m) /\ received \in Seq(DOMAIN frames)
    BY <1>3 DEF Accepts, FramingTypeOK
  <2>2. PICK l \in Nat : l = Len(received) /\ DOMAIN received = 1..l
    BY <2>1, LenProperties
  <2>3. /\ received' \in Seq(DOMAIN frames) /\ Len(received') = l + 1
        /\ \A j \in 1..l : received'[j] = received[j]
    BY <2>1, <2>2, AppendProperties
  <2>4. i \in DOMAIN received' /\ received'[i] = n
    BY <1>1, <2>2, <2>3, LenProperties
  <2> QED
    BY <2>4 DEF IsReceived
<1> QED
  BY <1>2, <1>3, AcceptMeans

\* A whole frame between separators is accepted.
LEMMA WholeIsReceived ==
  ASSUME FramingTypeOK, FramesOK, NEW n \in 1..Len(frames), NEW data,
         data = EscapeEncode(frames[n].raw), AcceptFrame(data)
  PROVE  IsReceived(n)'
<1>1. n \in DOMAIN frames /\ n \in Nat /\ DOMAIN frames \subseteq Nat
  BY FramesAreNumbered
<1>2. \A m \in DOMAIN frames : IsFrame(frames[m].raw, m)
  BY DEF FramesOK
<1>3. IsValid(data) /\ NumberOf(data) = n
  BY <1>1, <1>2, EncodedHolds
<1>4. received' = Append(received, n)
  BY <1>3 DEF AcceptFrame
<1>5. received \in Seq(DOMAIN frames)
  BY DEF FramingTypeOK
<1>6. PICK l \in Nat : l = Len(received)
  BY <1>5, LenProperties
<1>7. received' \in Seq(DOMAIN frames) /\ Len(received') = l + 1 /\ received'[l + 1] = n
  BY <1>1, <1>4, <1>5, <1>6, AppendProperties
<1>8. l + 1 \in DOMAIN received'
  BY <1>7, LenProperties
<1> QED
  BY <1>7, <1>8 DEF IsReceived

\* The next frame ends at the next separator.
LEMMA NextEnds ==
  ASSUME NEW g \in Seq(Nat), NEW s \in Seq(Nat), NEW raw \in Seq(Nat), NEW k \in 1..Len(s),
         IsNext(g, s, OnTheWire(raw)),
         \A i \in 1..Len(g) : g[i] # FrameSeparator,
         s[k] = FrameSeparator, \A i \in 1..(k - 1) : s[i] # FrameSeparator
  PROVE  /\ Len(EscapeEncode(raw)) = Len(g) + (k - 1)
         /\ \A i \in 1..Len(g) : EscapeEncode(raw)[i] = g[i]
         /\ \A i \in 1..(Len(g) + (k - 1)) : ~(i <= Len(g)) => EscapeEncode(raw)[i] = s[i - Len(g)]
<1>1. PICK d, w : d = EscapeEncode(raw) /\ w = OnTheWire(raw)
  OBVIOUS
<1>2. PICK l \in Nat : l = Len(d)
  BY <1>1, WireEnds
<1>3. /\ Len(w) = l + 1 /\ w[l + 1] = FrameSeparator
      /\ \A i \in 1..l : w[i] = d[i] /\ w[i] # FrameSeparator
  BY <1>1, <1>2, WireEnds
<1>4. PICK a \in Nat : a = Len(g)
  BY LenProperties
<1>5. PICK m \in Nat : m = Len(s) /\ k \in 1..m
  BY LenProperties
<1>6. /\ l + 1 <= a + m
      /\ \A i \in 1..(l + 1) : w[i] = IF i <= a THEN g[i] ELSE s[i - a]
  BY <1>1, <1>3, <1>4, <1>5 DEF IsNext
<1>7. ~(l + 1 <= a)
  <2> SUFFICES ASSUME l + 1 <= a PROVE FALSE
    OBVIOUS
  <2>1. l + 1 \in 1..a /\ l + 1 \in 1..(l + 1)
    OBVIOUS
  <2>2. w[l + 1] = g[l + 1]
    BY <1>6, <2>1
  <2> QED
    BY <1>3, <1>4, <2>1, <2>2
<1>8. s[(l + 1) - a] = FrameSeparator /\ (l + 1) - a \in 1..m
  <2>1. l + 1 \in 1..(l + 1)
    OBVIOUS
  <2> QED
    BY <1>3, <1>6, <1>7, <2>1
<1>9. k <= (l + 1) - a
  <2> SUFFICES ASSUME ~(k <= (l + 1) - a) PROVE FALSE
    OBVIOUS
  <2>1. PICK j \in 1..m : j = (l + 1) - a
    BY <1>8
  <2>2. j \in 1..(k - 1)
    BY <1>5, <2>1
  <2> QED
    BY <1>8, <2>1, <2>2
<1>10. ~(k < (l + 1) - a)
  <2> SUFFICES ASSUME k < (l + 1) - a PROVE FALSE
    OBVIOUS
  <2>1. PICK j \in Nat : j = a + k
    BY <1>5
  <2>2. j \in 1..l /\ j \in 1..(l + 1) /\ ~(j <= a) /\ j - a = k
    BY <1>5, <2>1
  <2>3. w[j] = s[k]
    BY <1>6, <2>2
  <2> QED
    BY <1>3, <2>2, <2>3
<1>11. l = a + (k - 1)
  BY <1>5, <1>7, <1>9, <1>10
<1>12. \A i \in 1..a : d[i] = g[i]
  <2> SUFFICES ASSUME NEW i \in 1..a PROVE d[i] = g[i]
    OBVIOUS
  <2>1. i \in 1..l /\ i \in 1..(l + 1) /\ i <= a
    BY <1>5, <1>11
  <2> QED
    BY <1>3, <1>6, <2>1
<1>13. \A i \in 1..(a + (k - 1)) : ~(i <= a) => d[i] = s[i - a]
  <2> SUFFICES ASSUME NEW i \in 1..(a + (k - 1)), ~(i <= a) PROVE d[i] = s[i - a]
    OBVIOUS
  <2>1. i \in 1..l /\ i \in 1..(l + 1)
    BY <1>5, <1>11
  <2> QED
    BY <1>3, <1>6, <2>1
<1> QED
  BY <1>1, <1>2, <1>4, <1>11, <1>12, <1>13

\* A frame that comes later stays where it is, when the stream is read up to a separator
\* or only bytes before it are.
LEMMA LaterStays ==
  ASSUME FramingTypeOK, NEW w \in Seq(Nat), NEW p \in Nat, NEW k \in Nat,
         ComesAfter(stream, w, p), StreamShrinks(k), k <= p
  PROVE  /\ k < p => ComesAfter(stream', w, p - k)
         /\ k = p => IsNext(<<>>, stream', w)
<1>1. PICK m \in Nat : m = Len(stream)
  BY LenProperties DEF FramingTypeOK
<1>2. PICK n \in Nat : n = Len(w)
  BY LenProperties
<1>3. PICK l \in Nat : l = m - k
  <2>1. k \in 1..m
    BY <1>1 DEF StreamShrinks
  <2>2. m - k \in Nat
    BY <2>1
  <2> QED
    BY <2>2
<1>4. k \in 1..m /\ Len(stream') = l /\ \A i \in 1..l : stream'[i] = stream[k + i]
  BY <1>1, <1>3 DEF StreamShrinks
<1>5. /\ p \in 1..m /\ stream[p] = FrameSeparator /\ p + n <= m
      /\ \A i \in 1..n : w[i] = stream[p + i]
  BY <1>1, <1>2 DEF ComesAfter
<1>6. CASE k < p
  <2>1. PICK q \in Nat : q = p - k
    BY <1>6
  <2>2. q \in 1..l /\ q + n <= l /\ k + q = p
    BY <1>3, <1>4, <1>5, <1>6, <2>1
  <2>3. stream'[q] = FrameSeparator
    BY <1>4, <1>5, <2>2
  <2>4. \A i \in 1..n : w[i] = stream'[q + i]
    <3> SUFFICES ASSUME NEW i \in 1..n PROVE w[i] = stream'[q + i]
      OBVIOUS
    <3>1. PICK j \in 1..l : j = q + i
      BY <2>2
    <3>2. k + j = p + i
      BY <2>2, <3>1
    <3> QED
      BY <1>4, <1>5, <3>1, <3>2
  <2>5. ComesAfter(stream', w, q)
    BY <1>2, <1>4, <2>2, <2>3, <2>4 DEF ComesAfter
  <2> QED
    BY <1>6, <2>1, <2>5
<1>7. CASE k = p
  <2>1. PICK g : g = <<>>
    OBVIOUS
  <2>2. Len(g) = 0
    BY <2>1
  <2>3. n <= l
    BY <1>3, <1>5, <1>7
  <2>4. \A i \in 1..n : i \in 1..l /\ ~(i <= 0) /\ i - 0 = i /\ w[i] = stream'[i]
    <3> SUFFICES ASSUME NEW i \in 1..n
                 PROVE  i \in 1..l /\ ~(i <= 0) /\ i - 0 = i /\ w[i] = stream'[i]
      OBVIOUS
    <3>1. i \in 1..l /\ ~(i <= 0) /\ i - 0 = i
      BY <2>3
    <3>2. stream'[i] = stream[k + i] /\ w[i] = stream[p + i]
      BY <1>4, <1>5, <3>1
    <3> QED
      BY <1>7, <3>1, <3>2
  <2>5. \A i \in 1..n : w[i] = IF i <= Len(g) THEN g[i] ELSE stream'[i - Len(g)]
    BY <2>2, <2>4
  <2>6. n <= Len(g) + Len(stream')
    BY <1>4, <2>2, <2>3
  <2>7. IsNext(g, stream', w)
    BY <1>2, <2>5, <2>6 DEF IsNext
  <2> QED
    BY <1>6, <1>7, <2>1, <2>7
<1> QED
  BY <1>6, <1>7

\* What ends in a separator still does, or is empty.
LEMMA ShrinkEndsClean ==
  ASSUME FramingTypeOK, NEW k \in Nat, StreamShrinks(k),
         Len(stream) > 0, stream[Len(stream)] = FrameSeparator
  PROVE  stream' = <<>> \/ (Len(stream') > 0 /\ stream'[Len(stream')] = FrameSeparator)
<1>1. PICK m \in Nat : m = Len(stream) /\ k \in 1..m
  BY LenProperties DEF FramingTypeOK, StreamShrinks
<1>2. PICK l \in Nat : l = m - k
  <2>1. m - k \in Nat
    BY <1>1
  <2> QED
    BY <2>1
<1>3. stream' \in Seq(Nat) /\ Len(stream') = l /\ \A i \in 1..l : stream'[i] = stream[k + i]
  BY <1>1, <1>2 DEF StreamShrinks
<1>4. CASE l = 0
  BY <1>3, <1>4, EmptySeq
<1>5. CASE l > 0
  <2>1. l \in 1..l /\ k + l = m
    BY <1>1, <1>2, <1>5
  <2>2. stream'[l] = stream[k + l]
    BY <1>3, <2>1
  <2> QED
    BY <1>1, <1>3, <1>5, <2>1, <2>2
<1> QED
  BY <1>4, <1>5

\* Reading up to a separator loses no whole frame.
LEMMA ReceiveFrameKeepsWhole ==
  ASSUME FramingTypeOK, FramesOK, OrderInv, WholeInv, ReceiveFrame
  PROVE  WholeInv'
<1>1. PICK data \in Seq(Nat), k \in 1..Len(stream) : FrameRead(data, k)
  BY ReceiveFrameMeans
<1>2. PICK m \in Nat : m = Len(stream) /\ k \in 1..m /\ k \in Nat
  BY LenProperties DEF FramingTypeOK
<1>3. UNCHANGED <<writer, frames, gathered>> /\ gathered = <<>> /\ Len(gathered) = 0
  BY DEF ReceiveFrame, OrderInv
<1>4. /\ StreamShrinks(k) /\ AcceptFrame(data)
      /\ stream[k] = FrameSeparator /\ \A i \in 1..(k - 1) : stream[i] # FrameSeparator
      /\ Len(data) = k - 1 /\ \A i \in 1..(k - 1) : data[i] = stream[i]
  BY <1>1 DEF FrameRead
<1>5. \A i \in 1..Len(gathered') : gathered'[i] # FrameSeparator
  BY <1>3
<1>6. ASSUME frames' = <<>> \/ frames'[Len(frames')].whole
      PROVE  EndsClean'
  <2>1. EndsClean
    BY <1>3, <1>6 DEF WholeInv
  <2>2. stream # <<>>
    BY <1>2
  <2>3. Len(stream) > 0 /\ stream[Len(stream)] = FrameSeparator
    BY <2>1, <2>2 DEF EndsClean
  <2>4. stream' = <<>> \/ (Len(stream') > 0 /\ stream'[Len(stream')] = FrameSeparator)
    BY <1>2, <1>4, <2>3, ShrinkEndsClean
  <2> QED
    BY <1>3, <2>4 DEF EndsClean
<1>7. ASSUME NEW n \in 1..Len(frames), Arrives(n)
      PROVE  IsOnTheWay(n)'
  <2>0. IsOnTheWay(n)
    BY <1>7 DEF WholeInv
  <2>1. PICK raw \in Seq(Nat) : raw = frames[n].raw
    BY FramesAreNumbered
  <2>2. OnTheWire(raw) \in Seq(Nat)
    BY WireEnds
  <2>3. CASE IsReceived(n)
    BY <1>4, <2>3, ReceivedStays DEF IsOnTheWay
  <2>4. CASE IsNext(gathered, stream, OnTheWire(raw))
    <3>1. PICK g \in Seq(Nat), s \in Seq(Nat) : g = gathered /\ s = stream
      BY DEF FramingTypeOK
    <3>2. /\ IsNext(g, s, OnTheWire(raw)) /\ k \in 1..Len(s)
          /\ \A i \in 1..Len(g) : g[i] # FrameSeparator
          /\ s[k] = FrameSeparator /\ \A i \in 1..(k - 1) : s[i] # FrameSeparator
      BY <1>2, <1>3, <1>4, <2>4, <3>1
    <3>3. PICK d : d = EscapeEncode(raw)
      OBVIOUS
    <3>4. /\ Len(d) = Len(g) + (k - 1)
          /\ \A i \in 1..(Len(g) + (k - 1)) : ~(i <= Len(g)) => d[i] = s[i - Len(g)]
      BY <3>2, <3>3, NextEnds
    <3>5. /\ Len(g) = 0 /\ 0 + (k - 1) = k - 1
          /\ \A i \in 1..(k - 1) : ~(i <= 0) /\ i - 0 = i
      BY <1>2, <1>3, <3>1
    <3>6. Len(d) = k - 1 /\ \A i \in 1..(k - 1) : d[i] = s[i]
      BY <3>4, <3>5
    <3>7. d = data
      <4>1. d \in Seq(Nat) /\ data \in Seq(Nat) /\ Len(d) = Len(data)
        BY <1>4, <3>3, <3>6, EncodeType
      <4>2. \A i \in 1..Len(d) : d[i] = data[i]
        BY <1>4, <3>1, <3>6
      <4> QED
        BY <4>1, <4>2, SeqEqual
    <3>8. IsReceived(n)'
      BY <1>4, <2>1, <3>3, <3>7, WholeIsReceived
    <3> QED
      BY <3>8 DEF IsOnTheWay
  <2>5. ASSUME NEW p \in Nat, ComesAfter(stream, OnTheWire(raw), p)
        PROVE  IsOnTheWay(n)'
    <3>1. p \in 1..m /\ stream[p] = FrameSeparator
      BY <1>2, <2>5 DEF ComesAfter
    <3>2. k <= p
      <4> SUFFICES ASSUME ~(k <= p) PROVE FALSE
        OBVIOUS
      <4>1. p \in 1..(k - 1)
        BY <1>2, <3>1
      <4> QED
        BY <1>4, <3>1, <4>1
    <3>3. /\ k < p => ComesAfter(stream', OnTheWire(raw), p - k)
          /\ k = p => IsNext(<<>>, stream', OnTheWire(raw))
      BY <1>2, <1>4, <2>2, <2>5, <3>2, LaterStays
    <3>4. CASE k < p
      <4>1. PICK q \in Nat : q = p - k
        BY <1>2, <3>4
      <4>2. ComesAfter(stream', OnTheWire(frames'[n].raw), q)
        BY <1>3, <2>1, <3>3, <3>4, <4>1
      <4> QED
        BY <4>2 DEF IsOnTheWay
    <3>5. CASE k = p
      <4>1. IsNext(gathered', stream', OnTheWire(frames'[n].raw))
        BY <1>3, <2>1, <3>3, <3>5
      <4> QED
        BY <4>1 DEF IsOnTheWay
    <3> QED
      BY <1>2, <3>2, <3>4, <3>5
  <2> QED
    BY <2>0, <2>1, <2>3, <2>4, <2>5 DEF IsOnTheWay
<1>8. ASSUME NEW n \in 1..Len(frames'), Arrives(n)'
      PROVE  IsOnTheWay(n)'
  <2>1. n \in 1..Len(frames) /\ Arrives(n)
    BY <1>3, <1>8 DEF Arrives, StartsAfterSeparator
  <2> QED
    BY <1>7, <2>1
<1> QED
  BY <1>5, <1>6, <1>8 DEF WholeInv

\* Reading a byte loses no whole frame.
LEMMA ReceiveByteKeepsWhole ==
  ASSUME FramingAssumption, FramingTypeOK, FramesOK, OrderInv, WholeInv, ReceiveByte
  PROVE  WholeInv'
<1>1. StreamShrinks(1) /\ Head(stream) = stream[1] /\ stream[1] \in Nat
  BY ReceiveByteMeans
<1>2. PICK m \in Nat : m = Len(stream) /\ 1 \in 1..m
  BY <1>1, LenProperties DEF FramingTypeOK, StreamShrinks
<1>3. UNCHANGED <<writer, frames, reading>>
  BY DEF ReceiveByte
<1>4. \A i \in 1..Len(gathered) : gathered[i] # FrameSeparator
  BY DEF WholeInv
<1>5. PICK a \in Nat : a = Len(gathered) /\ gathered \in Seq(Nat)
  BY LenProperties DEF FramingTypeOK
<1>6. CASE stream[1] = FrameSeparator
  <2>1. /\ gathered' = <<>>
        /\ IF Fits(gathered) THEN AcceptFrame(gathered) ELSE UNCHANGED received
    BY <1>1, <1>6 DEF ReceiveByte, Rest
  <2>2. \A i \in 1..Len(gathered') : gathered'[i] # FrameSeparator
    BY <2>1
  <2>3. ASSUME frames' = <<>> \/ frames'[Len(frames')].whole
        PROVE  EndsClean'
    <3>1. EndsClean
      BY <1>3, <2>3 DEF WholeInv
    <3>2. stream # <<>>
      BY <1>2
    <3>3. Len(stream) > 0 /\ stream[Len(stream)] = FrameSeparator
      BY <3>1, <3>2 DEF EndsClean
    <3>4. stream' = <<>> \/ (Len(stream') > 0 /\ stream'[Len(stream')] = FrameSeparator)
      BY <1>1, <3>3, ShrinkEndsClean
    <3> QED
      BY <2>1, <3>4 DEF EndsClean
  <2>4. ASSUME NEW n \in 1..Len(frames), Arrives(n)
        PROVE  IsOnTheWay(n)'
    <3>0. IsOnTheWay(n)
      BY <2>4 DEF WholeInv
    <3>1. PICK raw \in Seq(Nat) : raw = frames[n].raw
      BY FramesAreNumbered
    <3>2. OnTheWire(raw) \in Seq(Nat)
      BY WireEnds
    <3>3. CASE IsReceived(n)
      <4>1. CASE Fits(gathered)
        BY <1>5, <2>1, <3>3, <4>1, ReceivedStays DEF IsOnTheWay
      <4>2. CASE ~ Fits(gathered)
        BY <2>1, <3>3, <4>2 DEF IsOnTheWay, IsReceived
      <4> QED
        BY <4>1, <4>2
    <3>4. CASE IsNext(gathered, stream, OnTheWire(raw))
      <4>1. PICK g \in Seq(Nat), s \in Seq(Nat) : g = gathered /\ s = stream
        BY DEF FramingTypeOK
      <4>2. PICK k \in Nat : k = 1
        OBVIOUS
      <4>3. /\ IsNext(g, s, OnTheWire(raw)) /\ k \in 1..Len(s)
            /\ \A i \in 1..Len(g) : g[i] # FrameSeparator
            /\ s[k] = FrameSeparator /\ \A i \in 1..(k - 1) : s[i] # FrameSeparator
        BY <1>2, <1>4, <1>6, <3>4, <4>1, <4>2
      <4>4. PICK d : d = EscapeEncode(raw)
        OBVIOUS
      <4>5. /\ Len(d) = Len(g) + (k - 1)
            /\ \A i \in 1..Len(g) : d[i] = g[i]
        BY <4>3, <4>4, NextEnds
      <4>6. Len(d) = Len(g)
        BY <1>5, <4>1, <4>2, <4>5
      <4>7. d = g
        <5>1. d \in Seq(Nat)
          BY <4>4, EncodeType
        <5> QED
          BY <4>5, <4>6, <5>1, SeqEqual
      <4>8. Fits(gathered)
        BY <2>4, <3>1, <4>1, <4>4, <4>7 DEF Arrives
      <4>9. IsReceived(n)'
        BY <2>1, <3>1, <4>1, <4>4, <4>7, <4>8, WholeIsReceived
      <4> QED
        BY <4>9 DEF IsOnTheWay
    <3>5. ASSUME NEW p \in Nat, ComesAfter(stream, OnTheWire(raw), p)
          PROVE  IsOnTheWay(n)'
      <4>1. p \in 1..m
        BY <1>2, <3>5 DEF ComesAfter
      <4>2. PICK k \in Nat : k = 1
        OBVIOUS
      <4>3. k <= p
        BY <4>1, <4>2
      <4>4. /\ k < p => ComesAfter(stream', OnTheWire(raw), p - k)
            /\ k = p => IsNext(<<>>, stream', OnTheWire(raw))
        BY <1>1, <3>2, <3>5, <4>2, <4>3, LaterStays
      <4>5. CASE k < p
        <5>1. PICK q \in Nat : q = p - k
          BY <4>5
        <5>2. ComesAfter(stream', OnTheWire(frames'[n].raw), q)
          BY <1>3, <3>1, <4>4, <4>5, <5>1
        <5> QED
          BY <5>2 DEF IsOnTheWay
      <4>6. CASE k = p
        <5>1. IsNext(gathered', stream', OnTheWire(frames'[n].raw))
          BY <1>3, <2>1, <3>1, <4>4, <4>6
        <5> QED
          BY <5>1 DEF IsOnTheWay
      <4> QED
        BY <4>3, <4>5, <4>6
    <3> QED
      BY <3>0, <3>1, <3>3, <3>4, <3>5 DEF IsOnTheWay
  <2>5. ASSUME NEW n \in 1..Len(frames'), Arrives(n)'
        PROVE  IsOnTheWay(n)'
    <3>1. n \in 1..Len(frames) /\ Arrives(n)
      BY <1>3, <2>5 DEF Arrives, StartsAfterSeparator
    <3> QED
      BY <2>4, <3>1
  <2> QED
    BY <2>2, <2>3, <2>5 DEF WholeInv
<1>7. CASE stream[1] # FrameSeparator
  <2>1. gathered' = Gather(stream[1]) /\ received' = received
    BY <1>1, <1>7 DEF ReceiveByte
  <2>2. \/ gathered' = gathered /\ MaximumLength < a
        \/ gathered' = Append(gathered, stream[1])
    BY <1>5, <2>1 DEF Gather
  <2>3. \A i \in 1..Len(gathered') : gathered'[i] # FrameSeparator
    <3>1. CASE gathered' = gathered
      BY <1>4, <3>1
    <3>2. CASE gathered' = Append(gathered, stream[1])
      <4>1. /\ Len(gathered') = a + 1 /\ gathered'[a + 1] = stream[1]
            /\ \A i \in 1..a : gathered'[i] = gathered[i]
        BY <1>1, <1>5, <3>2, AppendProperties
      <4>2. \A i \in 1..(a + 1) : i \in 1..a \/ i = a + 1
        OBVIOUS
      <4> QED
        BY <1>4, <1>5, <1>7, <4>1, <4>2
    <3> QED
      BY <2>2, <3>1, <3>2
  <2>4. ASSUME frames' = <<>> \/ frames'[Len(frames')].whole
        PROVE  EndsClean'
    <3>1. EndsClean
      BY <1>3, <2>4 DEF WholeInv
    <3>2. stream # <<>>
      BY <1>2
    <3>3. Len(stream) > 0 /\ stream[Len(stream)] = FrameSeparator
      BY <3>1, <3>2 DEF EndsClean
    <3>4. stream' = <<>> \/ (Len(stream') > 0 /\ stream'[Len(stream')] = FrameSeparator)
      BY <1>1, <3>3, ShrinkEndsClean
    <3>5. stream' # <<>>
      <4>1. m # 1
        BY <1>2, <1>7, <3>3
      <4>2. Len(stream') = m - 1
        BY <1>1, <1>2 DEF StreamShrinks
      <4> QED
        BY <1>2, <4>1, <4>2
    <3> QED
      BY <3>4, <3>5 DEF EndsClean
  <2>5. ASSUME NEW n \in 1..Len(frames), Arrives(n)
        PROVE  IsOnTheWay(n)'
    <3>0. IsOnTheWay(n)
      BY <2>5 DEF WholeInv
    <3>1. PICK raw \in Seq(Nat) : raw = frames[n].raw
      BY FramesAreNumbered
    <3>2. OnTheWire(raw) \in Seq(Nat)
      BY WireEnds
    <3>3. CASE IsReceived(n)
      BY <2>1, <3>3 DEF IsOnTheWay, IsReceived
    <3>4. CASE IsNext(gathered, stream, OnTheWire(raw))
      <4>1. PICK d, w : d = EscapeEncode(raw) /\ w = OnTheWire(raw)
        OBVIOUS
      <4>2. PICK l \in Nat : l = Len(d)
        BY <4>1, WireEnds
      <4>3. Len(w) = l + 1 /\ w[l + 1] = FrameSeparator
        BY <4>1, <4>2, WireEnds
      <4>4. /\ l + 1 <= a + m
            /\ \A i \in 1..(l + 1) : w[i] = IF i <= a THEN gathered[i] ELSE stream[i - a]
        BY <1>2, <1>5, <3>4, <4>1, <4>3 DEF IsNext
      <4>5. a < l
        <5>1. CASE l + 1 <= a
          <6>1. l + 1 \in 1..a /\ l + 1 \in 1..(l + 1)
            BY <5>1
          <6>2. w[l + 1] = gathered[l + 1]
            BY <4>4, <5>1, <6>1
          <6> QED
            BY <1>4, <1>5, <4>3, <6>1, <6>2
        <5>2. CASE l = a
          <6>1. l + 1 \in 1..(l + 1) /\ ~(l + 1 <= a) /\ (l + 1) - a = 1
            BY <5>2
          <6>2. w[l + 1] = stream[1]
            BY <4>4, <6>1
          <6> QED
            BY <1>7, <4>3, <6>2
        <5> QED
          BY <5>1, <5>2
      <4>6. l <= MaximumLength /\ MaximumLength \in Nat
        BY <2>5, <3>1, <4>1, <4>2 DEF Arrives, Fits, FramingAssumption
      <4>7. gathered' = Append(gathered, stream[1])
        BY <2>2, <4>5, <4>6
      <4>8. PICK g, s : g = gathered' /\ s = stream'
        OBVIOUS
      <4>9. Len(g) = a + 1 /\ g[a + 1] = stream[1] /\ \A i \in 1..a : g[i] = gathered[i]
        BY <1>1, <1>5, <4>7, <4>8, AppendProperties
      <4>10. Len(s) = m - 1 /\ \A i \in 1..(m - 1) : s[i] = stream[1 + i]
        BY <1>1, <1>2, <4>8 DEF StreamShrinks
      <4>11. ASSUME NEW i \in 1..(l + 1)
             PROVE  w[i] = IF i <= a + 1 THEN g[i] ELSE s[i - (a + 1)]
        <5>1. CASE i <= a
          <6>1. i \in 1..a /\ i <= a + 1
            BY <5>1
          <6> QED
            BY <4>4, <4>9, <5>1, <6>1
        <5>2. CASE i = a + 1
          <6>1. ~(i <= a) /\ i - a = 1 /\ i <= a + 1
            BY <5>2
          <6> QED
            BY <4>4, <4>9, <5>2, <6>1
        <5>3. CASE ~(i <= a + 1)
          <6>1. PICK j \in Nat : j = i - (a + 1)
            BY <5>3
          <6>2. ~(i <= a) /\ j \in 1..(m - 1) /\ i - a = 1 + j
            BY <4>4, <5>3, <6>1
          <6>3. w[i] = stream[1 + j] /\ s[j] = stream[1 + j]
            BY <4>4, <4>10, <6>2
          <6> QED
            BY <5>3, <6>1, <6>3
        <5> QED
          BY <5>1, <5>2, <5>3
      <4>12. Len(w) <= Len(g) + Len(s)
        BY <1>2, <4>3, <4>4, <4>9, <4>10
      <4>13. IsNext(g, s, w)
        BY <4>3, <4>9, <4>11, <4>12 DEF IsNext
      <4>14. IsNext(gathered', stream', OnTheWire(frames'[n].raw))
        BY <1>3, <3>1, <4>1, <4>8, <4>13
      <4> QED
        BY <4>14 DEF IsOnTheWay
    <3>5. ASSUME NEW p \in Nat, ComesAfter(stream, OnTheWire(raw), p)
          PROVE  IsOnTheWay(n)'
      <4>1. p \in 1..m /\ stream[p] = FrameSeparator
        BY <1>2, <3>5 DEF ComesAfter
      <4>2. PICK k \in Nat : k = 1
        OBVIOUS
      <4>3. k < p /\ k <= p
        BY <1>7, <4>1, <4>2
      <4>4. ComesAfter(stream', OnTheWire(raw), p - k)
        BY <1>1, <3>2, <3>5, <4>2, <4>3, LaterStays
      <4>5. PICK q \in Nat : q = p - k
        BY <4>3
      <4>6. ComesAfter(stream', OnTheWire(frames'[n].raw), q)
        BY <1>3, <3>1, <4>4, <4>5
      <4> QED
        BY <4>6 DEF IsOnTheWay
    <3> QED
      BY <3>0, <3>1, <3>3, <3>4, <3>5 DEF IsOnTheWay
  <2>6. ASSUME NEW n \in 1..Len(frames'), Arrives(n)'
        PROVE  IsOnTheWay(n)'
    <3>1. n \in 1..Len(frames) /\ Arrives(n)
      BY <1>3, <2>6 DEF Arrives, StartsAfterSeparator
    <3> QED
      BY <2>5, <3>1
  <2> QED
    BY <2>3, <2>4, <2>6 DEF WholeInv
<1> QED
  BY <1>6, <1>7

\* What was received is received after a step that adds frames only.
LEMMA ComesStill ==
  ASSUME FramingTypeOK, NEW w \in Seq(Nat), NEW v \in Seq(Nat), NEW length \in Nat,
         StreamGrows(v, length)
  PROVE  /\ IsNext(gathered, stream, w) => IsNext(gathered, stream', w)
         /\ \A p \in Nat : ComesAfter(stream, w, p) => ComesAfter(stream', w, p)
<1>1. PICK m \in Nat : m = Len(stream)
  BY LenProperties DEF FramingTypeOK
<1>2. PICK n \in Nat : n = Len(w)
  BY LenProperties
<1>3. PICK a \in Nat : a = Len(gathered)
  BY LenProperties DEF FramingTypeOK
<1>4. Len(stream') = m + length /\ \A i \in 1..m : stream'[i] = stream[i]
  <2>1. /\ Len(stream') = m + length
        /\ \A i \in 1..(m + length) : i <= m => stream'[i] = stream[i]
    BY <1>1 DEF StreamGrows
  <2>2. \A i \in 1..m : i \in 1..(m + length) /\ i <= m
    OBVIOUS
  <2> QED
    BY <2>1, <2>2
<1>5. ASSUME IsNext(gathered, stream, w)
      PROVE  IsNext(gathered, stream', w)
  <2>1. n <= a + m /\ \A i \in 1..n : w[i] = IF i <= a THEN gathered[i] ELSE stream[i - a]
    BY <1>1, <1>2, <1>3, <1>5 DEF IsNext
  <2>2. \A i \in 1..n : ~(i <= a) => i - a \in 1..m
    BY <2>1
  <2>3. \A i \in 1..n : w[i] = IF i <= a THEN gathered[i] ELSE stream'[i - a]
    BY <1>4, <2>1, <2>2
  <2>4. n <= a + Len(stream')
    BY <1>4, <2>1
  <2> QED
    BY <1>2, <1>3, <2>3, <2>4 DEF IsNext
<1>6. ASSUME NEW p \in Nat, ComesAfter(stream, w, p)
      PROVE  ComesAfter(stream', w, p)
  <2>1. /\ p \in 1..m /\ stream[p] = FrameSeparator /\ p + n <= m
        /\ \A i \in 1..n : w[i] = stream[p + i]
    BY <1>1, <1>2, <1>6 DEF ComesAfter
  <2>2. p \in 1..(m + length) /\ stream'[p] = FrameSeparator /\ p + n <= m + length
    BY <1>4, <2>1
  <2>3. \A i \in 1..n : w[i] = stream'[p + i]
    <3> SUFFICES ASSUME NEW i \in 1..n PROVE w[i] = stream'[p + i]
      OBVIOUS
    <3>1. PICK j \in 1..m : j = p + i
      BY <2>1
    <3> QED
      BY <1>4, <2>1, <3>1
  <2> QED
    BY <1>2, <1>4, <2>2, <2>3 DEF ComesAfter
<1> QED
  BY <1>5, <1>6

\* The new frame is the next one, or comes after a separator.
LEMMA NewIsOnTheWay ==
  ASSUME FramingTypeOK, NEW w \in Seq(Nat), StreamGrows(w, Len(w)), EndsClean,
         Len(w) > 0
  PROVE  IsNext(gathered, stream', w) \/ ComesAfter(stream', w, Len(stream))
<1>1. PICK m \in Nat : m = Len(stream)
  BY LenProperties DEF FramingTypeOK
<1>2. PICK n \in Nat : n = Len(w) /\ n > 0
  BY LenProperties
<1>3. /\ Len(stream') = m + n
      /\ \A i \in 1..(m + n) : stream'[i] = IF i <= m THEN stream[i] ELSE w[i - m]
  BY <1>1, <1>2 DEF StreamGrows
<1>4. CASE stream = <<>> /\ gathered = <<>>
  <2>1. m = 0 /\ Len(gathered) = 0
    BY <1>1, <1>4
  <2>2. \A i \in 1..n : i \in 1..(m + n) /\ ~(i <= m) /\ ~(i <= Len(gathered))
                        /\ i - m = i /\ i - Len(gathered) = i
    BY <2>1
  <2>3. \A i \in 1..n : w[i] = IF i <= Len(gathered) THEN gathered[i] ELSE stream'[i - Len(gathered)]
    BY <1>3, <2>2
  <2>4. n <= Len(gathered) + Len(stream')
    BY <1>3, <2>1
  <2> QED
    BY <1>2, <2>3, <2>4 DEF IsNext
<1>5. CASE Len(stream) > 0 /\ stream[Len(stream)] = FrameSeparator
  <2>1. m \in 1..m /\ m \in 1..(m + n) /\ m <= m /\ stream[m] = FrameSeparator
    BY <1>1, <1>5
  <2>2. m \in 1..Len(stream') /\ stream'[m] = FrameSeparator
    BY <1>3, <2>1
  <2>3. \A i \in 1..n : w[i] = stream'[m + i]
    <3> SUFFICES ASSUME NEW i \in 1..n PROVE w[i] = stream'[m + i]
      OBVIOUS
    <3>1. PICK j \in 1..(m + n) : j = m + i
      OBVIOUS
    <3>2. ~(j <= m) /\ j - m = i
      BY <3>1
    <3> QED
      BY <1>3, <3>1, <3>2
  <2>4. m + n <= Len(stream')
    BY <1>3
  <2> QED
    BY <1>1, <1>2, <2>2, <2>3, <2>4 DEF ComesAfter
<1> QED
  BY <1>4, <1>5 DEF EndsClean

\* A frame that is written to its end arrives, if the frame before it was.
LEMMA WriteKeepsWhole ==
  ASSUME FramingAssumption, FramingTypeOK, FramesOK, WholeInv, NEW body \in Body, Write(body)
  PROVE  WholeInv'
<1>1. PICK length \in 1..Len(NewWire(body)) : Written(body, length)
  BY WriteMeans
<1>2. UNCHANGED <<writer, gathered, reading, received>>
  BY <1>1 DEF Written
<1>3. PICK n \in Nat, m \in Nat : n = Len(frames) /\ m = Len(stream)
  BY FramesAreNumbered, LenProperties DEF FramingTypeOK
<1>4. PICK w, raw : w = NewWire(body) /\ raw = NewRaw(body)
  OBVIOUS
<1>5. /\ raw \in Seq(Nat) /\ Len(frames') = n + 1
      /\ \A k \in 1..n : frames'[k] = frames[k]
      /\ frames'[n + 1].raw = raw
      /\ frames'[n + 1].whole <=> length = Len(w)
      /\ StreamGrows(w, length)
  <2>1. /\ raw \in Seq(Nat) /\ Len(frames') = n + 1
        /\ \A k \in 1..n : frames'[k] = frames[k]
    BY <1>1, <1>3, <1>4, WrittenMeans
  <2>2. frames'[n + 1].raw = raw
    BY <1>1, <1>3, <1>4, WrittenMeans
  <2>3. frames'[n + 1].whole <=> length = Len(w)
    BY <1>1, <1>3, <1>4, WrittenMeans
  <2>4. StreamGrows(w, length)
    BY <1>1, <1>4, WrittenMeans
  <2> QED
    BY <2>1, <2>2, <2>3, <2>4
<1>6. w = OnTheWire(raw) /\ w \in Seq(Nat)
  BY <1>4, <1>5, WireEnds DEF NewWire, NewRaw
<1>7. PICK l \in Nat : l = Len(w) /\ l > 0 /\ w[l] = FrameSeparator /\ length \in 1..l
  <2>1. PICK k \in Nat : k = Len(EscapeEncode(raw))
    BY <1>5, WireEnds
  <2>2. Len(w) = k + 1 /\ w[k + 1] = FrameSeparator
    BY <1>5, <1>6, <2>1, WireEnds
  <2>3. PICK l \in Nat : l = k + 1
    OBVIOUS
  <2>4. length \in 1..l
    BY <1>1, <1>4, <2>2, <2>3
  <2> QED
    BY <2>2, <2>3, <2>4
<1>8. \A i \in 1..Len(gathered') : gathered'[i] # FrameSeparator
  BY <1>2 DEF WholeInv
<1>9. ASSUME frames' = <<>> \/ frames'[Len(frames')].whole
      PROVE  EndsClean'
  <2>1. frames' # <<>>
    BY <1>5
  <2>2. length = l
    BY <1>5, <1>7, <1>9, <2>1
  <2>3. /\ Len(stream') = m + l
        /\ \A i \in 1..(m + l) : stream'[i] = IF i <= m THEN stream[i] ELSE w[i - m]
    BY <1>3, <1>5, <2>2 DEF StreamGrows
  <2>4. m + l \in 1..(m + l) /\ ~(m + l <= m) /\ (m + l) - m = l
    BY <1>7
  <2>5. stream'[m + l] = FrameSeparator
    BY <1>7, <2>3, <2>4
  <2> QED
    BY <1>7, <2>3, <2>5 DEF EndsClean
<1>10. ASSUME NEW k \in 1..n, Arrives(k)'
       PROVE  IsOnTheWay(k)'
  <2>1. frames'[k] = frames[k] /\ frames[k].raw \in Seq(Nat)
    BY <1>3, <1>5, FramesAreNumbered
  <2>2. Arrives(k)
    <3>1. frames[k].whole /\ Fits(EscapeEncode(frames[k].raw))
      BY <1>10, <2>1 DEF Arrives
    <3>2. k = 1 \/ frames'[k - 1].whole
      BY <1>10 DEF Arrives, StartsAfterSeparator
    <3>3. k # 1 => k - 1 \in 1..n
      OBVIOUS
    <3>4. k = 1 \/ frames[k - 1].whole
      BY <1>5, <3>2, <3>3
    <3> QED
      BY <3>1, <3>4 DEF Arrives, StartsAfterSeparator
  <2>3. PICK v \in Seq(Nat) : v = OnTheWire(frames[k].raw)
    BY <2>1, WireEnds
  <2>4. /\ IsNext(gathered, stream, v) => IsNext(gathered, stream', v)
        /\ \A p \in Nat : ComesAfter(stream, v, p) => ComesAfter(stream', v, p)
    <3>1. length \in Nat
      BY <1>7
    <3> QED
      BY <1>5, <1>6, <3>1, ComesStill
  <2>5. \/ IsReceived(k)
        \/ IsNext(gathered, stream, v)
        \/ \E p \in Nat : ComesAfter(stream, v, p)
    BY <1>3, <2>2, <2>3 DEF WholeInv, IsOnTheWay
  <2>6. IsReceived(k) => IsReceived(k)'
    BY <1>2 DEF IsReceived
  <2>7. v = OnTheWire(frames'[k].raw) /\ gathered' = gathered
    BY <1>2, <2>1, <2>3
  <2> QED
    BY <2>4, <2>5, <2>6, <2>7 DEF IsOnTheWay
<1>11. ASSUME Arrives(n + 1)'
       PROVE  IsOnTheWay(n + 1)'
  <2>1. length = l
    BY <1>5, <1>7, <1>11 DEF Arrives
  <2>2. n + 1 = 1 \/ frames'[(n + 1) - 1].whole
    BY <1>11 DEF Arrives, StartsAfterSeparator
  <2>3. frames = <<>> \/ frames[n].whole
    <3>1. CASE n = 0
      BY <1>3, <3>1, EmptySeq DEF FramesOK
    <3>2. CASE n # 0
      <4>1. n \in 1..n /\ n + 1 # 1 /\ (n + 1) - 1 = n
        BY <3>2
      <4> QED
        BY <1>5, <2>2, <4>1
    <3> QED
      BY <3>1, <3>2
  <2>4. EndsClean
    BY <1>3, <2>3 DEF WholeInv
  <2>5. IsNext(gathered, stream', w) \/ ComesAfter(stream', w, Len(stream))
    <3>1. StreamGrows(w, Len(w)) /\ Len(w) > 0
      BY <1>5, <1>7, <2>1
    <3> QED
      BY <1>6, <2>4, <3>1, NewIsOnTheWay
  <2>6. IsNext(gathered', stream', w) \/ ComesAfter(stream', w, m)
    BY <1>2, <1>3, <2>5
  <2>7. w = OnTheWire(frames'[n + 1].raw)
    BY <1>5, <1>6
  <2> QED
    BY <2>6, <2>7 DEF IsOnTheWay
<1>12. \A k \in 1..Len(frames') : Arrives(k)' => IsOnTheWay(k)'
  <2>1. \A k \in 1..(n + 1) : k \in 1..n \/ k = n + 1
    OBVIOUS
  <2>2. Len(frames') = n + 1
    BY <1>5
  <2> QED
    BY <1>10, <1>11, <2>1, <2>2
<1> QED
  BY <1>8, <1>9, <1>12 DEF WholeInv

-----------------------------------------------------------------------------
(* Every step. *)

\* The inductive invariant.
FramingInv ==
  /\ FramingTypeOK
  /\ FramesOK
  /\ OrderInv
  /\ WholeInv

\* It holds at first, ...
LEMMA FramingInitInv ==
  ASSUME FramingAssumption, FramingInit
  PROVE  FramingInv
<1>1. FramingTypeOK
  <2>1. Len(gathered) = 0 /\ MaximumLength \in Nat /\ DOMAIN frames = {}
    BY DEF FramingInit, FramingAssumption
  <2>2. stream \in Seq(Nat) /\ gathered \in Seq(Nat) /\ received \in Seq(DOMAIN frames)
    BY EmptySeq DEF FramingInit
  <2> QED
    BY <2>1, <2>2 DEF FramingTypeOK, FramingInit
<1>2. FramesOK
  BY EmptySeq DEF FramesOK, FramingInit
<1>3. Len(stream) = 0 /\ Len(gathered) = 0 /\ Len(received) = 0 /\ Len(frames) = 0
  BY DEF FramingInit
<1>4. InOrder(received)
  BY DEF InOrder, FramingInit
<1>5. OrderInv
  <2>1. /\ Numbered(stream, Len(frames)) /\ Numbered(gathered, Len(frames))
        /\ Ordered(stream) /\ Ordered(gathered) /\ Before(gathered, stream)
        /\ Passed(received, stream) /\ Passed(received, gathered)
    BY <1>3 DEF Numbered, Ordered, Before, Passed
  <2> QED
    BY <1>4, <2>1 DEF OrderInv, FramingInit
<1>6. WholeInv
  BY <1>3 DEF WholeInv, EndsClean, FramingInit
<1> QED
  BY <1>1, <1>2, <1>5, <1>6 DEF FramingInv

\* ... and after every step.
LEMMA FramingStepInv ==
  ASSUME FramingAssumption, FramingInv, [FramingNext]_framingVars
  PROVE  FramingInv'
<1> USE DEF FramingInv
<1>1. ASSUME NEW body \in Body, Write(body)
      PROVE  FramingInv'
  <2>1. PICK length \in 1..Len(NewWire(body)) : Written(body, length)
    BY <1>1, WriteMeans
  <2>2. /\ UNCHANGED <<writer, gathered, reading, received>>
        /\ FramesOK'
        /\ Len(frames') = Len(frames) + 1
        /\ StreamGrows(NewWire(body), length)
    BY <2>1, WrittenMeans DEF Written
  <2>3. DOMAIN frames \subseteq DOMAIN frames'
    <3>1. PICK n \in Nat : n = Len(frames) /\ DOMAIN frames = 1..n
      BY FramesAreNumbered
    <3>2. Len(frames') = n + 1 /\ DOMAIN frames' = 1..(n + 1)
      BY <2>2, <3>1, LenProperties DEF FramesOK
    <3> QED
      BY <3>1, <3>2
  <2>4. received' \in Seq(DOMAIN frames')
    <3>1. received \in Seq(DOMAIN frames)
      BY DEF FramingTypeOK
    <3> QED
      BY <2>2, <2>3, <3>1, SeqMonotonic
  <2>5. \A n \in DOMAIN frames' : frames'[n].whole \in BOOLEAN
    <3>1. \A n \in DOMAIN frames' : frames'[n] \in [raw : Seq(Nat), whole : BOOLEAN]
      <4>1. frames' \in Seq([raw : Seq(Nat), whole : BOOLEAN])
        BY <2>2 DEF FramesOK
      <4> QED
        BY <4>1, ElementOfSeq, LenProperties
    <3> QED
      BY <3>1
  <2>6. stream' \in Seq(Nat)
    BY <2>2 DEF StreamGrows
  <2>7. FramingTypeOK'
    BY <2>2, <2>4, <2>5, <2>6 DEF FramingTypeOK
  <2> QED
    BY <1>1, <2>2, <2>7, WriteKeepsOrder, WriteKeepsWhole
<1>2. ASSUME ReceiveFrame
      PROVE  FramingInv'
  <2>1. PICK data \in Seq(Nat), k \in 1..Len(stream) : FrameRead(data, k)
    BY <1>2, ReceiveFrameMeans
  <2>2. stream' \in Seq(Nat)
    BY <2>1 DEF FrameRead, StreamShrinks
  <2>3. received' \in Seq(DOMAIN frames)
    BY <2>1, AcceptType DEF FrameRead
  <2>4. UNCHANGED <<writer, frames, gathered, reading>>
    BY <1>2 DEF ReceiveFrame
  <2>5. FramingTypeOK'
    BY <2>2, <2>3, <2>4 DEF FramingTypeOK
  <2>6. FramesOK'
    BY <2>4 DEF FramesOK
  <2> QED
    BY <1>2, <2>5, <2>6, ReceiveFrameKeepsOrder, ReceiveFrameKeepsWhole
<1>3. ASSUME Overrun
      PROVE  FramingInv'
  <2>1. reading' = FALSE /\ UNCHANGED <<writer, frames, stream, gathered, received>>
    BY <1>3 DEF Overrun
  <2>2. FramingTypeOK' /\ FramesOK'
    BY <2>1 DEF FramingTypeOK, FramesOK
  <2>3. OrderInv'
    BY <2>1 DEF OrderInv, Numbered, Ordered, Before, Passed, InOrder
  <2>4. WholeInv'
    BY <2>1 DEF WholeInv, EndsClean, Arrives, StartsAfterSeparator, IsOnTheWay, IsReceived
  <2> QED
    BY <2>2, <2>3, <2>4
<1>4. ASSUME ReceiveByte
      PROVE  FramingInv'
  <2>1. StreamShrinks(1) /\ Head(stream) = stream[1] /\ stream[1] \in Nat
    BY <1>4, ReceiveByteMeans
  <2>2. stream' \in Seq(Nat) /\ UNCHANGED <<writer, frames, reading>>
    BY <1>4, <2>1 DEF StreamShrinks, ReceiveByte
  <2>3. PICK a \in Nat : a = Len(gathered) /\ gathered \in Seq(Nat) /\ a <= MaximumLength + 1
    BY LenProperties DEF FramingTypeOK
  <2>4. MaximumLength \in Nat
    BY DEF FramingAssumption
  <2>5. /\ gathered' \in Seq(Nat) /\ Len(gathered') <= MaximumLength + 1
        /\ received' \in Seq(DOMAIN frames)
    <3>1. CASE stream[1] = FrameSeparator
      <4>1. /\ gathered' = <<>>
            /\ IF Fits(gathered) THEN AcceptFrame(gathered) ELSE UNCHANGED received
        BY <1>4, <2>1, <3>1 DEF ReceiveByte, Rest
      <4>2. gathered' \in Seq(Nat) /\ Len(gathered') <= MaximumLength + 1
        <5>1. Len(gathered') = 0
          BY <4>1
        <5> QED
          BY <2>4, <4>1, <5>1, EmptySeq
      <4>3. CASE Fits(gathered)
        BY <2>3, <4>1, <4>2, <4>3, AcceptType
      <4>4. CASE ~ Fits(gathered)
        BY <4>1, <4>2, <4>4 DEF FramingTypeOK
      <4> QED
        BY <4>3, <4>4
    <3>2. CASE stream[1] # FrameSeparator
      <4>1. gathered' = Gather(stream[1]) /\ received' = received
        BY <1>4, <2>1, <3>2 DEF ReceiveByte
      <4>2. gathered' = gathered \/ (a <= MaximumLength /\ gathered' = Append(gathered, stream[1]))
        BY <2>3, <2>4, <4>1 DEF Gather
      <4>3. /\ Append(gathered, stream[1]) \in Seq(Nat)
            /\ Len(Append(gathered, stream[1])) = a + 1
        BY <2>1, <2>3, AppendProperties
      <4>4. gathered' \in Seq(Nat) /\ Len(gathered') <= MaximumLength + 1
        BY <2>3, <2>4, <4>2, <4>3
      <4> QED
        BY <4>1, <4>4 DEF FramingTypeOK
    <3> QED
      BY <3>1, <3>2
  <2>6. FramingTypeOK'
    BY <2>2, <2>5 DEF FramingTypeOK
  <2>7. FramesOK'
    BY <2>2 DEF FramesOK
  <2> QED
    BY <1>4, <2>6, <2>7, ReceiveByteKeepsOrder, ReceiveByteKeepsWhole
<1>5. ASSUME UNCHANGED framingVars
      PROVE  FramingInv'
  <2>1. UNCHANGED <<writer, frames, stream, gathered, reading, received>>
    BY <1>5 DEF framingVars
  <2>2. FramingTypeOK' /\ FramesOK'
    BY <2>1 DEF FramingTypeOK, FramesOK
  <2>3. OrderInv'
    BY <2>1 DEF OrderInv, Numbered, Ordered, Before, Passed, InOrder
  <2>4. WholeInv'
    BY <2>1 DEF WholeInv, EndsClean, Arrives, StartsAfterSeparator, IsOnTheWay, IsReceived
  <2> QED
    BY <2>2, <2>3, <2>4
<1> QED
  BY <1>1, <1>2, <1>3, <1>4, <1>5 DEF FramingNext

\* When all bytes are read, what was on the way is received.
LEMMA NothingIsOnTheWay ==
  ASSUME FramingInv, stream = <<>>, gathered = <<>>, NEW n \in DOMAIN frames, Arrives(n)
  PROVE  IsReceived(n)
<1>1. n \in 1..Len(frames) /\ frames[n].raw \in Seq(Nat)
  BY FramesAreNumbered DEF FramingInv
<1>2. IsOnTheWay(n)
  BY <1>1 DEF FramingInv, WholeInv
<1>3. PICK w : w = OnTheWire(frames[n].raw)
  OBVIOUS
<1>4. PICK l \in Nat : Len(w) = l + 1
  BY <1>1, <1>3, WireEnds
<1>5. Len(stream) = 0 /\ Len(gathered) = 0
  OBVIOUS
<1>6. ~ IsNext(gathered, stream, w)
  BY <1>4, <1>5 DEF IsNext
<1>7. ASSUME NEW p \in Nat, ComesAfter(stream, w, p)
      PROVE  FALSE
  BY <1>5, <1>7 DEF ComesAfter
<1> QED
  BY <1>2, <1>3, <1>6, <1>7 DEF IsOnTheWay

\* The frames of a stream, their order and what is on the way keep their form, however the
\* bytes of the frames are cut.
THEOREM FramesKeepTheirForm == FramingSpec => []FramingInv
<1>1. FramingInit => FramingInv
  BY FramingInitInv, FramingAssumption
<1>2. FramingInv /\ [FramingNext]_framingVars => FramingInv'
  BY FramingStepInv, FramingAssumption
<1> QED
  BY <1>1, <1>2, PTL DEF FramingSpec

\* The types of a stream; the bytes that MiddleMan gathers stay one above the limit at most.
THEOREM StreamTypesAreKept == FramingSpec => []FramingTypeOK
<1>1. FramingInv => FramingTypeOK
  BY DEF FramingInv
<1> QED
  BY <1>1, FramesKeepTheirForm, PTL

\* Frames are accepted in the order in which they were sent, and none twice.
THEOREM FramesStayInOrder == FramingSpec => []FramesComeInOrder
<1>1. FramingInv => FramesComeInOrder
  BY DEF FramingInv, OrderInv, InOrder, FramesComeInOrder
<1> QED
  BY <1>1, FramesKeepTheirForm, PTL

\* A frame that was sent to its end, after one that was, and is within the limit, is
\* received when all bytes are read.
THEOREM EveryWholeFrameArrives == FramingSpec => []WholeFramesArrive
<1>1. FramingInv => WholeFramesArrive
  BY NothingIsOnTheWay DEF WholeFramesArrive, Arrives, IsReceived
<1> QED
  BY <1>1, FramesKeepTheirForm, PTL
=============================================================================
