-------------------------- MODULE Bankster_proofs ---------------------------
(***************************************************************************)
(* Bankster keeps to the life of a claim that the core relies on, in all   *)
(* interleavings of its operations, with every abort; this does not depend *)
(* on what the amounts add up to.                                          *)
(*                                                                         *)
(* Then the types, which need that the sums of amounts are numbers, and    *)
(* the ledgers: what the table says of a payment and what was handed to    *)
(* SCI agree, for claims (ClaimLedger) and for settlements                 *)
(* (SettlementLedger).  Deposits_proofs rests on both.                     *)
(***************************************************************************)
EXTENDS Bankster, Sums

\* The shape of the data: as much of the types as the proof needs.
Shape ==
  /\ claims = [k \in ClaimKey |-> [amount |-> claims[k].amount, tx |-> claims[k].tx]]
  /\ at = [w \in Worker |-> at[w]]
  /\ \E S : chain \in Seq(S)
  /\ \E S : blocks \in Seq(S)

IsFinalizing(step) == step.op \in {"lock_claim", "pay_claim", "save_claim"}

\* A claim that is being paid is there, and has no transaction yet.
FinalizedIsOpen ==
  \A w \in Worker : IsFinalizing(at[w]) =>
    /\ at[w].key \in ClaimKey
    /\ Status[at[w].key] = "open"
    /\ at[w].op = "save_claim" => at[w].tx \in Nat \ {NULL}

\* A claim is paid by one worker.
OneFinalizer ==
  \A v, w \in Worker :
    v # w /\ IsFinalizing(at[v]) /\ IsFinalizing(at[w]) => at[v].key # at[w].key

Inv == Shape /\ FinalizedIsOpen /\ OneFinalizer

-----------------------------------------------------------------------------
\* What a sequence is made of may grow.
LEMMA Appended ==
  ASSUME NEW s, \E S : s \in Seq(S), NEW x
  PROVE  /\ \E S : Append(s, x) \in Seq(S)
         /\ Len(s) \in Nat
<1>1. PICK S : s \in Seq(S)
  OBVIOUS
<1>2. s \in Seq(S \union {x})
  BY <1>1
<1>3. Append(s, x) \in Seq(S \union {x})
  BY <1>2
<1> QED
  BY <1>1, <1>3

\* A status is one of three.
LEMMA StatusOf ==
  ASSUME NEW k \in ClaimKey
  PROVE  /\ Status[k] = "none" <=> ~ Exists(k)
         /\ Status[k] = "open" <=> Exists(k) /\ claims[k].tx = NULL
         /\ Status[k] = "sent" <=> Exists(k) /\ claims[k].tx # NULL
BY DEF Status

\* A step of a worker that starts no payment and changes no claim being paid keeps Inv.
LEMMA OtherStep ==
  ASSUME Inv, NEW w \in Worker, NEW step, Step(w, step), ~ IsFinalizing(step),
         Shape',
         \A k \in ClaimKey : Status[k] = "open" => Status'[k] = "open"
                             \/ (IsFinalizing(at[w]) /\ at[w].key = k)
  PROVE  Inv'
<1>1. \A v \in Worker : at'[v] = IF v = w THEN step ELSE at[v]
  BY DEF Inv, Shape, Step
<1>2. FinalizedIsOpen'
  BY <1>1 DEF Inv, FinalizedIsOpen, OneFinalizer, IsFinalizing
<1>3. OneFinalizer'
  BY <1>1 DEF Inv, OneFinalizer, IsFinalizing
<1> QED
  BY <1>2, <1>3 DEF Inv

-----------------------------------------------------------------------------
\* The steps that do not touch the claims of subtasks.
Quiet(w) ==
  \/ \E s \in Subtask, use \in UseCase : AskForDeposits(w, s, use)
  \/ CheckRequestor(w) \/ CheckProvider(w)
  \/ \E acceptances \in SUBSET Subtask : AskForSettledDeposit(w, acceptances)
  \/ LockSettlement(w) \/ PaySettlement(w) \/ SaveSettlement(w)
  \/ Abort(w)

LEMMA SameStatus ==
  ASSUME claims' = claims
  PROVE  Status' = Status
BY DEF Status, Exists

\* A step that changes no claim, and by which no payment of one begins.
LEMMA QuietStep ==
  ASSUME Inv, NEW w \in Worker, Quiet(w)
  PROVE  Inv' /\ Status' = Status
<1>1. claims' = claims
  BY DEF Quiet, AskForDeposits, CheckRequestor, CheckProvider, AskForSettledDeposit,
         LockSettlement, PaySettlement, SaveSettlement, Abort, table
<1>2. PICK step : Step(w, step) /\ ~ IsFinalizing(step)
  <2>1. CASE \E s \in Subtask, use \in UseCase : AskForDeposits(w, s, use)
    BY <2>1 DEF AskForDeposits, IsFinalizing
  <2>2. CASE CheckRequestor(w)
    BY <2>2 DEF CheckRequestor, IsFinalizing, Idle
  <2>3. CASE CheckProvider(w)
    BY <2>3 DEF CheckProvider, IsFinalizing, Idle
  <2>4. CASE \E acceptances \in SUBSET Subtask : AskForSettledDeposit(w, acceptances)
    BY <2>4 DEF AskForSettledDeposit, IsFinalizing
  <2>5. CASE LockSettlement(w)
    BY <2>5 DEF LockSettlement, IsFinalizing, Idle
  <2>6. CASE PaySettlement(w)
    BY <2>6 DEF PaySettlement, IsFinalizing
  <2>7. CASE SaveSettlement(w) \/ Abort(w)
    BY <2>7 DEF SaveSettlement, Abort, IsFinalizing, Idle
  <2> QED
    BY <2>1, <2>2, <2>3, <2>4, <2>5, <2>6, <2>7 DEF Quiet
<1>3. blocks' = blocks
  BY DEF Quiet, AskForDeposits, CheckRequestor, CheckProvider, AskForSettledDeposit,
         LockSettlement, PaySettlement, SaveSettlement, Abort, ether
<1>4. \E S : chain' \in Seq(S)
  <2>1. CASE PaySettlement(w)
    <3>1. \E x : chain' = Append(chain, x)
      BY <2>1 DEF PaySettlement
    <3> QED
      BY <3>1, Appended DEF Inv, Shape
  <2>2. CASE ~ PaySettlement(w)
    <3>1. chain' = chain
      BY <2>2 DEF Quiet, AskForDeposits, CheckRequestor, CheckProvider, AskForSettledDeposit,
                  LockSettlement, SaveSettlement, Abort, ether
    <3> QED
      BY <3>1 DEF Inv, Shape
  <2> QED
    BY <2>1, <2>2
<1>5. Shape'
  <2>1. at' = [v \in Worker |-> at'[v]]
    BY <1>2 DEF Step, Inv, Shape
  <2> QED
    BY <1>1, <1>3, <1>4, <2>1 DEF Inv, Shape
<1>6. Status' = Status
  BY <1>1, SameStatus
<1> QED
  BY <1>2, <1>5, <1>6, OtherStep

\* The network, the requestors and the clock.
LEMMA EnvironmentStep ==
  ASSUME Inv, Confirm \/ Tick \/ \E s \in Subtask : Transfer(s)
  PROVE  Inv' /\ Status' = Status
<1>1. UNCHANGED <<claims, chain, at>>
  BY DEF Confirm, Tick, Transfer, table, ether
<1>2. \E S : blocks' \in Seq(S)
  <2>1. CASE Confirm
    <3>1. \E x : blocks' = Append(blocks, x)
      BY <2>1 DEF Confirm
    <3> QED
      BY <3>1, Appended DEF Inv, Shape
  <2>2. CASE ~ Confirm
    BY <2>2 DEF Tick, Transfer, ether, Inv, Shape
  <2> QED
    BY <2>1, <2>2
<1>3. Status' = Status
  BY <1>1, SameStatus
<1>4. Shape'
  BY <1>1, <1>2 DEF Inv, Shape
<1>5. FinalizedIsOpen' /\ OneFinalizer'
  BY <1>1, <1>3 DEF Inv, FinalizedIsOpen, OneFinalizer, IsFinalizing
<1> QED
  BY <1>3, <1>4, <1>5 DEF Inv

-----------------------------------------------------------------------------
\* finalize_payment() begins: nobody else is paying this claim.
LEMMA AskForPayersDepositStep ==
  ASSUME Inv, NEW w \in Worker, NEW k \in ClaimKey, AskForPayersDeposit(w, k)
  PROVE  Inv' /\ Status' = Status
<1> DEFINE step == [op |-> "lock_claim", key |-> k, funds |-> deposit[PayerOf(k)]]
<1>1. UNCHANGED <<claims, chain, blocks>> /\ Status' = Status
  BY SameStatus DEF AskForPayersDeposit, table, ether
<1>2. \A v \in Worker : at'[v] = IF v = w THEN step ELSE at[v]
  BY DEF AskForPayersDeposit, Inv, Shape, Step
<1>3. Shape'
  BY <1>1 DEF AskForPayersDeposit, Step, Inv, Shape
<1>4. Status[k] = "open"
  BY StatusOf DEF AskForPayersDeposit
<1>5. step.key = k /\ step.op = "lock_claim"
  OBVIOUS
<1>6. FinalizedIsOpen'
  <2>1. SUFFICES ASSUME NEW v \in Worker, IsFinalizing(at'[v])
                 PROVE  /\ at'[v].key \in ClaimKey
                        /\ Status'[at'[v].key] = "open"
                        /\ at'[v].op = "save_claim" => at'[v].tx \in Nat \ {NULL}
    BY DEF FinalizedIsOpen, IsFinalizing
  <2>2. CASE v = w
    BY <1>1, <1>2, <1>4, <1>5, <2>2
  <2>3. CASE v # w
    BY <1>1, <1>2, <2>1, <2>3 DEF Inv, FinalizedIsOpen
  <2> QED
    BY <2>2, <2>3
<1>7. OneFinalizer'
  <2>1. \A v \in Worker : IsFinalizing(at[v]) => at[v].key # k
    BY DEF AskForPayersDeposit, Finalizing, IsFinalizing
  <2> QED
    BY <1>2, <1>5, <2>1 DEF Inv, OneFinalizer, IsFinalizing
<1> QED
  BY <1>1, <1>3, <1>6, <1>7 DEF Inv

\* The payment is handed to SCI.
LEMMA PayClaimStep ==
  ASSUME Inv, NEW w \in Worker, PayClaim(w)
  PROVE  Inv' /\ Status' = Status
<1> DEFINE k == at[w].key
           step == [op |-> "save_claim", key |-> k, tx |-> Len(chain) + 1]
<1>1. UNCHANGED <<claims, blocks>> /\ Status' = Status
  BY SameStatus DEF PayClaim, table
<1>2. \A v \in Worker : at'[v] = IF v = w THEN step ELSE at[v]
  BY DEF PayClaim, Inv, Shape, Step
<1>3. /\ \E S : chain' \in Seq(S)
      /\ Len(chain) \in Nat
  <2>1. \E x : chain' = Append(chain, x)
    BY DEF PayClaim
  <2> QED
    BY <2>1, Appended DEF Inv, Shape
<1>4. Shape'
  BY <1>1, <1>3 DEF PayClaim, Step, Inv, Shape
<1>5. IsFinalizing(at[w]) /\ k \in ClaimKey /\ Status[k] = "open"
  BY DEF PayClaim, IsFinalizing, Inv, FinalizedIsOpen
<1>6. step.key = k /\ step.op = "save_claim" /\ step.tx \in Nat \ {NULL}
  BY <1>3 DEF NULL
<1>7. FinalizedIsOpen'
  <2>1. SUFFICES ASSUME NEW v \in Worker, IsFinalizing(at'[v])
                 PROVE  /\ at'[v].key \in ClaimKey
                        /\ Status'[at'[v].key] = "open"
                        /\ at'[v].op = "save_claim" => at'[v].tx \in Nat \ {NULL}
    BY DEF FinalizedIsOpen, IsFinalizing, NULL
  <2>2. CASE v = w
    BY <1>1, <1>2, <1>5, <1>6, <2>2
  <2>3. CASE v # w
    BY <1>1, <1>2, <2>1, <2>3 DEF Inv, FinalizedIsOpen
  <2> QED
    BY <2>2, <2>3
<1>8. OneFinalizer'
  BY <1>2, <1>5, <1>6 DEF Inv, OneFinalizer, IsFinalizing
<1> QED
  BY <1>1, <1>4, <1>7, <1>8 DEF Inv

-----------------------------------------------------------------------------
\* The steps that change claims: each is a step of a claim's life.
LEMMA OneClaimChanges ==
  ASSUME Inv, NEW k \in ClaimKey, NEW amount, NEW tx,
         claims' = [claims EXCEPT ![k] = [amount |-> amount, tx |-> tx]]
  PROVE  /\ claims' = [j \in ClaimKey |-> [amount |-> claims'[j].amount, tx |-> claims'[j].tx]]
         /\ claims'[k] = [amount |-> amount, tx |-> tx]
         /\ \A j \in ClaimKey : j # k => Status'[j] = Status[j]
         /\ Status' = [Status EXCEPT ![k] = Status'[k]]
<1>1. \A j \in ClaimKey : claims'[j] = IF j = k THEN [amount |-> amount, tx |-> tx]
                                       ELSE claims[j]
  BY DEF Inv, Shape
<1>2. claims' = [j \in ClaimKey |-> claims'[j]]
  BY DEF Inv, Shape
<1>3. \A j \in ClaimKey : claims'[j] = [amount |-> claims'[j].amount, tx |-> claims'[j].tx]
  BY <1>1 DEF Inv, Shape
<1>4. claims' = [j \in ClaimKey |-> [amount |-> claims'[j].amount, tx |-> claims'[j].tx]]
  BY <1>2, <1>3
<1>5. \A j \in ClaimKey : j # k => Status'[j] = Status[j]
  BY <1>1 DEF Status, Exists
<1>6. Status' = [Status EXCEPT ![k] = Status'[k]]
  BY <1>5 DEF Status
<1> QED
  BY <1>1, <1>4, <1>5, <1>6

\* The claim is given up, or lowered and paid: whatever its amount becomes, not to nothing.
LEMMA LockClaimStep ==
  ASSUME Inv, NEW w \in Worker, LockClaim(w)
  PROVE  Inv' /\ (Status' = Status \/ \E k \in ClaimKey : Claims!GiveUp(k))
<1>1. PICK k : k = at[w].key
  OBVIOUS
<1>2. k \in ClaimKey /\ Status[k] = "open" /\ IsFinalizing(at[w])
  BY <1>1 DEF LockClaim, IsFinalizing, Inv, FinalizedIsOpen
<1>3. UNCHANGED <<chain, blocks>>
  BY DEF LockClaim, ether
<1>4. PICK available : available = AvailableFunds(k, at[w].funds)
  OBVIOUS
<1>5. CASE NothingLeft(available)
  <2>1. claims' = [claims EXCEPT ![k] = [amount |-> 0, tx |-> NULL]] /\ Step(w, Idle)
    BY <1>1, <1>4, <1>5 DEF LockClaim, NoClaim
  <2>2. /\ claims' = [j \in ClaimKey |-> [amount |-> claims'[j].amount, tx |-> claims'[j].tx]]
        /\ claims'[k] = NoClaim
        /\ \A j \in ClaimKey : j # k => Status'[j] = Status[j]
        /\ Status' = [Status EXCEPT ![k] = Status'[k]]
    BY <1>2, <2>1, OneClaimChanges DEF NoClaim
  <2>3. Status'[k] = "none"
    BY <1>2, <2>2 DEF Status, Exists
  <2>4. Claims!GiveUp(k)
    BY <1>2, <2>2, <2>3 DEF Claims!GiveUp
  <2>5. Shape'
    BY <1>3, <2>1, <2>2 DEF Step, Inv, Shape
  <2>6. ~ IsFinalizing(Idle)
    BY DEF IsFinalizing, Idle
  <2>7. \A j \in ClaimKey : Status[j] = "open" => Status'[j] = "open"
                            \/ (IsFinalizing(at[w]) /\ at[w].key = j)
    BY <1>1, <1>2, <2>2
  <2>8. Inv'
    BY <2>1, <2>5, <2>6, <2>7, OtherStep
  <2> QED
    BY <1>2, <2>4, <2>8
<1>6. CASE ~ NothingLeft(available)
  <2> DEFINE step == [op |-> "pay_claim", key |-> k]
  <2>1. PICK amount : amount = IF available < claims[k].amount THEN available
                               ELSE claims[k].amount
    OBVIOUS
  <2>2. Exists(k) /\ claims[k].tx = NULL
    BY <1>2, StatusOf
  <2>3. claims[k] = [amount |-> claims[k].amount, tx |-> NULL]
    BY <1>2, <2>2 DEF Inv, Shape
  <2>4. claims' = [claims EXCEPT ![k].amount = amount] /\ Step(w, step)
    BY <1>1, <1>4, <1>6, <2>1 DEF LockClaim
  <2>5. claims' = [claims EXCEPT ![k] = [amount |-> amount, tx |-> NULL]]
    <3>1. PICK old : claims[k] = [amount |-> old, tx |-> NULL]
      BY <2>3
    <3>2. [claims[k] EXCEPT !.amount = amount] = [amount |-> amount, tx |-> NULL]
      BY <3>1
    <3> QED
      BY <2>4, <3>2
  <2>6. claims[k].amount # 0
    BY <2>2, <2>3 DEF Exists, NoClaim
  <2>7. amount # 0
    BY <1>6, <2>1, <2>6 DEF NothingLeft
  <2>8. /\ claims' = [j \in ClaimKey |-> [amount |-> claims'[j].amount, tx |-> claims'[j].tx]]
        /\ claims'[k] = [amount |-> amount, tx |-> NULL]
        /\ \A j \in ClaimKey : j # k => Status'[j] = Status[j]
        /\ Status' = [Status EXCEPT ![k] = Status'[k]]
    BY <1>2, <2>5, OneClaimChanges
  <2>9. Status'[k] = "open"
    <3>1. claims'[k] # NoClaim /\ claims'[k].tx = NULL
      BY <2>7, <2>8 DEF NoClaim
    <3> QED
      BY <1>2, <3>1 DEF Status, Exists
  <2>10. Status' = Status
    BY <1>2, <2>8, <2>9 DEF Status
  <2>11. \A v \in Worker : at'[v] = IF v = w THEN step ELSE at[v]
    BY <2>4 DEF Inv, Shape, Step
  <2>12. Shape'
    BY <1>3, <2>4, <2>8 DEF Step, Inv, Shape
  <2>13. step.key = k /\ step.op = "pay_claim"
    OBVIOUS
  <2>14. FinalizedIsOpen'
    <3>1. SUFFICES ASSUME NEW v \in Worker, IsFinalizing(at'[v])
                   PROVE  /\ at'[v].key \in ClaimKey
                          /\ Status'[at'[v].key] = "open"
                          /\ at'[v].op = "save_claim" => at'[v].tx \in Nat \ {NULL}
      BY DEF FinalizedIsOpen, IsFinalizing, NULL
    <3>2. CASE v = w
      BY <1>2, <2>10, <2>11, <2>13, <3>2
    <3>3. CASE v # w
      BY <2>10, <2>11, <3>1, <3>3 DEF Inv, FinalizedIsOpen
    <3> QED
      BY <3>2, <3>3
  <2>15. OneFinalizer'
    BY <1>1, <1>2, <2>11, <2>13 DEF Inv, OneFinalizer, IsFinalizing
  <2> QED
    BY <2>10, <2>12, <2>14, <2>15 DEF Inv
<1> QED
  BY <1>5, <1>6

\* The claim has its transaction.
LEMMA SaveClaimStep ==
  ASSUME Inv, NEW w \in Worker, SaveClaim(w)
  PROVE  Inv' /\ \E k \in ClaimKey : Claims!Pay(k)
<1>1. PICK k, tx : k = at[w].key /\ tx = at[w].tx
  OBVIOUS
<1>2. k \in ClaimKey /\ Status[k] = "open" /\ IsFinalizing(at[w]) /\ tx \in Nat \ {NULL}
  BY <1>1 DEF SaveClaim, IsFinalizing, Inv, FinalizedIsOpen
<1>3. PICK amount : amount = claims[k].amount
  OBVIOUS
<1>4. claims[k] = [amount |-> amount, tx |-> NULL]
  BY <1>2, <1>3, StatusOf DEF Inv, Shape
<1>5. claims' = [claims EXCEPT ![k].tx = tx] /\ Step(w, Idle) /\ UNCHANGED <<chain, blocks>>
  BY <1>1 DEF SaveClaim, ether
<1>6. claims' = [claims EXCEPT ![k] = [amount |-> amount, tx |-> tx]]
  <2>1. [claims[k] EXCEPT !.tx = tx] = [amount |-> amount, tx |-> tx]
    BY <1>4
  <2> QED
    BY <1>5, <2>1
<1>7. /\ claims' = [j \in ClaimKey |-> [amount |-> claims'[j].amount, tx |-> claims'[j].tx]]
      /\ claims'[k] = [amount |-> amount, tx |-> tx]
      /\ \A j \in ClaimKey : j # k => Status'[j] = Status[j]
      /\ Status' = [Status EXCEPT ![k] = Status'[k]]
  BY <1>2, <1>6, OneClaimChanges
<1>8. Status'[k] = "sent"
  <2>1. claims'[k] # NoClaim /\ claims'[k].tx # NULL
    BY <1>2, <1>7 DEF NoClaim
  <2> QED
    BY <1>2, <2>1 DEF Status, Exists
<1>9. Claims!Pay(k)
  BY <1>2, <1>7, <1>8 DEF Claims!Pay
<1>10. Shape'
  BY <1>5, <1>7 DEF Step, Inv, Shape
<1>11. ~ IsFinalizing(Idle)
  BY DEF IsFinalizing, Idle
<1>12. \A j \in ClaimKey : Status[j] = "open" => Status'[j] = "open"
                           \/ (IsFinalizing(at[w]) /\ at[w].key = j)
  BY <1>1, <1>2, <1>7
<1>13. Inv'
  BY <1>5, <1>10, <1>11, <1>12, OtherStep
<1> QED
  BY <1>2, <1>9, <1>13

-----------------------------------------------------------------------------
\* A confirmed transaction is one: its hash is not NULL.
LEMMA DiscardClaimStep ==
  ASSUME Inv, NEW w \in Worker, NEW k \in ClaimKey, DiscardClaim(w, k)
  PROVE  Inv' /\ (Status' = Status \/ Claims!Free(k))
<1>1. UNCHANGED <<chain, blocks, at>>
      /\ claims' = [claims EXCEPT ![k] = [amount |-> 0, tx |-> NULL]]
  BY DEF DiscardClaim, ether, NoClaim
<1>2. claims[k].tx # NULL
  BY DEF DiscardClaim, Confirmed, Inv, Shape, NULL
<1>3. /\ claims' = [j \in ClaimKey |-> [amount |-> claims'[j].amount, tx |-> claims'[j].tx]]
      /\ claims'[k] = NoClaim
      /\ \A j \in ClaimKey : j # k => Status'[j] = Status[j]
      /\ Status' = [Status EXCEPT ![k] = Status'[k]]
  BY <1>1, OneClaimChanges DEF NoClaim
<1>4. Status'[k] = "none"
  BY <1>3 DEF Status, Exists
<1>5. Status[k] # "open"
  BY <1>2, StatusOf
<1>6. Status' = Status \/ Claims!Free(k)
  <2>1. CASE Exists(k)
    <3>1. Status[k] = "sent"
      BY <1>2, <2>1, StatusOf
    <3> QED
      BY <1>3, <1>4, <3>1 DEF Claims!Free
  <2>2. CASE ~ Exists(k)
    <3>1. Status[k] = "none"
      BY <2>2, StatusOf
    <3> QED
      BY <1>3, <1>4, <3>1 DEF Status
  <2> QED
    BY <2>1, <2>2
<1>7. Shape'
  BY <1>1, <1>3 DEF Inv, Shape
<1>8. FinalizedIsOpen'
  <2>1. \A j \in ClaimKey : Status[j] = "open" => Status'[j] = "open"
    BY <1>3, <1>5
  <2> QED
    BY <1>1, <2>1 DEF Inv, FinalizedIsOpen, IsFinalizing
<1>9. OneFinalizer'
  BY <1>1 DEF Inv, OneFinalizer, IsFinalizing
<1> QED
  BY <1>6, <1>7, <1>8, <1>9 DEF Inv

\* No claim is made for nothing.
LEMMA AmountOfClaim ==
  ASSUME NEW s \in Subtask, NEW use \in UseCase, NEW k \in ClaimsOf(s, use)
  PROVE  k \in ClaimKey /\ AmountOf(k) # 0
<1>1. CASE k = <<s, use, "requestor">>
  BY <1>1, BanksterAssumption DEF ClaimKey, Payer, AmountOf
<1>2. CASE k = <<s, use, "provider">> /\ ProviderIsCharged
  BY <1>2, BanksterAssumption DEF ClaimKey, Payer, AmountOf
<1> QED
  BY <1>1, <1>2 DEF ClaimsOf

\* The claims of a use case are made together, or not at all.
LEMMA InsertClaimsStep ==
  ASSUME Inv, NEW w \in Worker, InsertClaims(w),
         NEW s \in Subtask, NEW use \in UseCase,
         at[w].subtask = s, at[w].use = use
  PROVE  Inv' /\ (Status' = Status \/ Claims!Make(s, use))
<1>1. UNCHANGED <<chain, blocks>> /\ Step(w, Idle)
  BY DEF InsertClaims, ether
<1>2. PICK new : new = ClaimsOf(s, use)
  OBVIOUS
<1>3. NewClaims(at[w]) = new
  BY <1>2 DEF NewClaims
<1>4. ~ IsFinalizing(Idle)
  BY DEF IsFinalizing, Idle
<1>5. at' = [v \in Worker |-> at'[v]]
  BY <1>1 DEF Step, Inv, Shape
<1>6. CASE \E k \in new : Exists(k)
  <2>1. claims' = claims /\ Status' = Status
    BY <1>3, <1>6, SameStatus DEF InsertClaims
  <2>2. Shape'
    BY <1>1, <1>5, <2>1 DEF Inv, Shape
  <2> QED
    BY <1>1, <1>4, <2>1, <2>2, OtherStep
<1>7. CASE ~ \E k \in new : Exists(k)
  <2>1. claims' = [k \in ClaimKey |-> IF k \in new THEN [amount |-> AmountOf(k), tx |-> NULL]
                                      ELSE claims[k]]
    BY <1>3, <1>7 DEF InsertClaims
  <2>2. \A k \in new : k \in ClaimKey /\ AmountOf(k) # 0
    BY <1>2, AmountOfClaim
  <2>3. \A k \in ClaimKey : Status'[k] = IF k \in new THEN "open" ELSE Status[k]
    <3>1. SUFFICES ASSUME NEW k \in ClaimKey
                   PROVE  Status'[k] = IF k \in new THEN "open" ELSE Status[k]
      OBVIOUS
    <3>2. CASE k \in new
      <4>1. claims'[k] = [amount |-> AmountOf(k), tx |-> NULL]
        BY <2>1, <3>2
      <4>2. claims'[k] # NoClaim /\ claims'[k].tx = NULL
        BY <2>2, <3>2, <4>1 DEF NoClaim
      <4> QED
        BY <3>2, <4>2 DEF Status, Exists
    <3>3. CASE k \notin new
      <4>1. claims'[k] = claims[k]
        BY <2>1, <3>3
      <4> QED
        BY <3>3, <4>1 DEF Status, Exists
    <3> QED
      BY <3>2, <3>3
  <2>4. \A k \in new : Status[k] = "none"
    BY <1>7, <2>2, StatusOf
  <2>5. Status' = [k \in ClaimKey |-> Status'[k]]
    BY DEF Status
  <2>6. Status' = [k \in ClaimKey |-> IF k \in new THEN "open" ELSE Status[k]]
    BY <2>3, <2>5
  <2>7. Claims!Make(s, use)
    BY <1>2, <2>4, <2>6 DEF Claims!Make, Claims!ClaimsOf, ClaimsOf, Claims!ClaimKey, ClaimKey,
                            Claims!UseCase, UseCase, Claims!Payer, Payer
  <2>8. \A k \in ClaimKey : claims'[k] = [amount |-> claims'[k].amount, tx |-> claims'[k].tx]
    <3>1. SUFFICES ASSUME NEW k \in ClaimKey
                   PROVE  claims'[k] = [amount |-> claims'[k].amount, tx |-> claims'[k].tx]
      OBVIOUS
    <3>2. CASE k \in new
      BY <2>1, <3>2
    <3>3. CASE k \notin new
      BY <2>1, <3>3 DEF Inv, Shape
    <3> QED
      BY <3>2, <3>3
  <2>9. claims' = [k \in ClaimKey |-> [amount |-> claims'[k].amount, tx |-> claims'[k].tx]]
    BY <2>1, <2>8
  <2>10. Shape'
    BY <1>1, <1>5, <2>9 DEF Inv, Shape
  <2>11. Inv'
    BY <1>1, <1>4, <2>3, <2>10, OtherStep
  <2> QED
    BY <2>7, <2>11
<1> QED
  BY <1>6, <1>7

-----------------------------------------------------------------------------
\* A worker that claims deposits does so for a subtask and a use case.
IsClaiming(step) == step.op \in {"check_requestor", "check_provider", "insert"}

ClaimedIsOffered ==
  \A w \in Worker : IsClaiming(at[w]) => at[w].subtask \in Subtask /\ at[w].use \in UseCase

\* A worker claims for a subtask and a use case.
LEMMA ClaimedStep ==
  ASSUME Inv, ClaimedIsOffered, [Next]_vars
  PROVE  ClaimedIsOffered'
<1>1. CASE at' = at
  BY <1>1 DEF ClaimedIsOffered, IsClaiming
<1>2. CASE \E w \in Worker : \E step :
             Step(w, step) /\ (IsClaiming(step) => step.subtask \in Subtask /\ step.use \in UseCase)
  <2>1. PICK w \in Worker :
          \E step : Step(w, step) /\ (IsClaiming(step) => step.subtask \in Subtask
                                                          /\ step.use \in UseCase)
    BY <1>2
  <2>2. PICK step : Step(w, step) /\ (IsClaiming(step) => step.subtask \in Subtask
                                                          /\ step.use \in UseCase)
    BY <2>1
  <2>3. \A v \in Worker : at'[v] = IF v = w THEN step ELSE at[v]
    BY <2>2 DEF Inv, Shape, Step
  <2> QED
    BY <2>2, <2>3 DEF ClaimedIsOffered, IsClaiming
<1>3. ASSUME NEW w \in Worker,
             \/ \E s \in Subtask, use \in UseCase : AskForDeposits(w, s, use)
             \/ CheckRequestor(w)
             \/ CheckProvider(w)
      PROVE  \E step : Step(w, step) /\ (IsClaiming(step) => step.subtask \in Subtask
                                                             /\ step.use \in UseCase)
  <2>1. CASE \E s \in Subtask, use \in UseCase : AskForDeposits(w, s, use)
    BY <2>1 DEF AskForDeposits
  <2>2. CASE CheckRequestor(w)
    BY <2>2 DEF CheckRequestor, ClaimedIsOffered, IsClaiming, Idle
  <2>3. CASE CheckProvider(w)
    BY <2>3 DEF CheckProvider, ClaimedIsOffered, IsClaiming, Idle
  <2> QED
    BY <1>3, <2>1, <2>2, <2>3
<1>4. ASSUME NEW w \in Worker,
             \/ InsertClaims(w)
             \/ \E k \in ClaimKey : AskForPayersDeposit(w, k)
             \/ LockClaim(w) \/ PayClaim(w) \/ SaveClaim(w)
             \/ \E acceptances \in SUBSET Subtask : AskForSettledDeposit(w, acceptances)
             \/ LockSettlement(w) \/ PaySettlement(w) \/ SaveSettlement(w)
             \/ Abort(w)
      PROVE  \E step : Step(w, step) /\ ~ IsClaiming(step)
  <2>1. CASE InsertClaims(w) \/ SaveClaim(w) \/ SaveSettlement(w) \/ Abort(w)
    BY <2>1 DEF InsertClaims, SaveClaim, SaveSettlement, Abort, IsClaiming, Idle
  <2>2. CASE \E k \in ClaimKey : AskForPayersDeposit(w, k)
    BY <2>2 DEF AskForPayersDeposit, IsClaiming
  <2>3. CASE LockClaim(w)
    BY <2>3 DEF LockClaim, IsClaiming, Idle
  <2>4. CASE PayClaim(w)
    BY <2>4 DEF PayClaim, IsClaiming
  <2>5. CASE \E acceptances \in SUBSET Subtask : AskForSettledDeposit(w, acceptances)
    BY <2>5 DEF AskForSettledDeposit, IsClaiming
  <2>6. CASE LockSettlement(w)
    BY <2>6 DEF LockSettlement, IsClaiming, Idle
  <2>7. CASE PaySettlement(w)
    BY <2>7 DEF PaySettlement, IsClaiming
  <2> QED
    BY <1>4, <2>1, <2>2, <2>3, <2>4, <2>5, <2>6, <2>7
<1>5. CASE UNCHANGED vars
  BY <1>1, <1>5 DEF vars
<1>6. CASE Confirm \/ Tick \/ \E s \in Subtask : Transfer(s)
  BY <1>1, <1>6 DEF Confirm, Tick, Transfer
<1>7. CASE \E w \in Worker, k \in ClaimKey : DiscardClaim(w, k)
  BY <1>1, <1>7 DEF DiscardClaim
<1> QED
  BY <1>2, <1>3, <1>4, <1>5, <1>6, <1>7 DEF Next

-----------------------------------------------------------------------------
\* Before anything happened no claim exists and nobody is paying.
LEMMA Start ==
  ASSUME Init
  PROVE  Inv /\ ClaimedIsOffered /\ Claims!Init
<1>1. \A k \in ClaimKey : claims[k] = NoClaim
  BY DEF Init
<1>2. claims = [k \in ClaimKey |-> [amount |-> claims[k].amount, tx |-> claims[k].tx]]
  BY DEF Init, NoClaim
<1>3. \A w \in Worker : ~ IsFinalizing(at[w]) /\ ~ IsClaiming(at[w])
  BY DEF Init, Idle, IsFinalizing, IsClaiming
<1>4. <<>> \in Seq({})
  OBVIOUS
<1>5. Shape
  BY <1>2, <1>4 DEF Init, Shape
<1>6. Claims!Init
  BY <1>1 DEF Claims!Init, Status, Exists, Claims!ClaimKey, ClaimKey,
              Claims!UseCase, UseCase, Claims!Payer, Payer
<1> QED
  BY <1>3, <1>5, <1>6 DEF Inv, FinalizedIsOpen, OneFinalizer, ClaimedIsOffered

\* Every step keeps the invariant, and is a step of a claim's life or none.
LEMMA EveryStep ==
  ASSUME Inv, ClaimedIsOffered, [Next]_vars
  PROVE  Inv' /\ [Claims!Next]_Status
<1>1. CASE UNCHANGED vars
  <2>1. UNCHANGED <<claims, chain, blocks, at>> /\ Status' = Status
    BY <1>1, SameStatus DEF vars, table, ether
  <2> QED
    BY <2>1 DEF Inv, Shape, FinalizedIsOpen, OneFinalizer, IsFinalizing
<1>2. CASE Confirm \/ Tick \/ \E s \in Subtask : Transfer(s)
  BY <1>2, EnvironmentStep
<1>3. ASSUME NEW w \in Worker, Quiet(w) PROVE Inv' /\ [Claims!Next]_Status
  BY <1>3, QuietStep
<1>4. ASSUME NEW w \in Worker, InsertClaims(w) PROVE Inv' /\ [Claims!Next]_Status
  <2>1. PICK s \in Subtask : s = at[w].subtask
    BY <1>4 DEF ClaimedIsOffered, IsClaiming, InsertClaims
  <2>2. PICK use \in UseCase : use = at[w].use
    BY <1>4 DEF ClaimedIsOffered, IsClaiming, InsertClaims
  <2>3. Inv' /\ (Status' = Status \/ Claims!Make(s, use))
    BY <1>4, <2>1, <2>2, InsertClaimsStep
  <2> QED
    BY <2>3 DEF Claims!Next, Claims!UseCase, UseCase
<1>5. ASSUME NEW w \in Worker, NEW k \in ClaimKey, AskForPayersDeposit(w, k)
      PROVE  Inv' /\ [Claims!Next]_Status
  BY <1>5, AskForPayersDepositStep
<1>6. ASSUME NEW w \in Worker, NEW k \in ClaimKey, DiscardClaim(w, k)
      PROVE  Inv' /\ [Claims!Next]_Status
  <2>1. Inv' /\ (Status' = Status \/ Claims!Free(k))
    BY <1>6, DiscardClaimStep
  <2> QED
    BY <2>1 DEF Claims!Next, Claims!ClaimKey, ClaimKey, Claims!UseCase, UseCase,
                Claims!Payer, Payer
<1>7. ASSUME NEW w \in Worker, LockClaim(w) PROVE Inv' /\ [Claims!Next]_Status
  <2>1. Inv' /\ (Status' = Status \/ \E k \in ClaimKey : Claims!GiveUp(k))
    BY <1>7, LockClaimStep
  <2> QED
    BY <2>1 DEF Claims!Next, Claims!ClaimKey, ClaimKey, Claims!UseCase, UseCase,
                Claims!Payer, Payer
<1>8. ASSUME NEW w \in Worker, PayClaim(w) PROVE Inv' /\ [Claims!Next]_Status
  BY <1>8, PayClaimStep
<1>9. ASSUME NEW w \in Worker, SaveClaim(w) PROVE Inv' /\ [Claims!Next]_Status
  <2>1. Inv' /\ \E k \in ClaimKey : Claims!Pay(k)
    BY <1>9, SaveClaimStep
  <2> QED
    BY <2>1 DEF Claims!Next, Claims!ClaimKey, ClaimKey, Claims!UseCase, UseCase,
                Claims!Payer, Payer
<1> QED
  BY <1>1, <1>2, <1>3, <1>4, <1>5, <1>6, <1>7, <1>8, <1>9 DEF Next, Quiet

\* A claim is made with the others of its use case, paid or given up once, and freed when
\* its payment is confirmed, in every interleaving of Bankster's operations, with every
\* abort and for any numbers of accounts, subtasks and workers (claim_deposit,
\* finalize_payment, discard_claim, settle_overdue_acceptances).
THEOREM ClaimsAreImplemented == Spec => ImplementsClaims
<1>1. Init => Inv /\ ClaimedIsOffered /\ Claims!Init
  BY Start
<1>2. Inv /\ ClaimedIsOffered /\ [Next]_vars => Inv' /\ [Claims!Next]_Status
  BY EveryStep
<1>3. Inv /\ ClaimedIsOffered /\ [Next]_vars => ClaimedIsOffered'
  BY ClaimedStep
<1> QED
  BY <1>1, <1>2, <1>3, PTL DEF Spec, ImplementsClaims, Claims!Spec

-----------------------------------------------------------------------------
(* The types. *)

\* What a step is about, by its name.
LEMMA StepFields ==
  ASSUME NEW c \in StepRecord
  PROVE  /\ c.op = "check_requestor" =>
              c.subtask \in Subtask /\ c.use \in UseCase /\ c.funds \in Nat /\ c.next \in Nat
         /\ c.op = "check_provider" =>
              c.subtask \in Subtask /\ c.use \in UseCase /\ c.funds \in Nat
         /\ c.op = "insert" => c.subtask \in Subtask /\ c.use \in UseCase
         /\ c.op = "lock_claim" => c.key \in ClaimKey /\ c.funds \in Nat
         /\ c.op = "pay_claim" => c.key \in ClaimKey
         /\ c.op = "save_claim" => c.key \in ClaimKey /\ c.tx \in Nat
         /\ c.op = "settle" => /\ c.pair \in Account \X Account
                               /\ c.acceptances \in SUBSET Subtask /\ c.funds \in Nat
         /\ c.op = "pay_settlement" => c.row \in Nat
         /\ c.op = "save_settlement" => c.row \in Nat /\ c.tx \in Nat
<1>1. CASE c = Idle
  BY <1>1 DEF Idle
<1>2. CASE c \in [op : {"check_requestor"}, subtask : Subtask, use : UseCase,
                  funds : Nat, next : Nat]
  BY <1>2
<1>3. CASE c \in [op : {"check_provider"}, subtask : Subtask, use : UseCase, funds : Nat]
  BY <1>3
<1>4. CASE c \in [op : {"insert"}, subtask : Subtask, use : UseCase]
  BY <1>4
<1>5. CASE c \in [op : {"lock_claim"}, key : ClaimKey, funds : Nat]
  BY <1>5
<1>6. CASE c \in [op : {"pay_claim"}, key : ClaimKey]
  BY <1>6
<1>7. CASE c \in [op : {"save_claim"}, key : ClaimKey, tx : Nat]
  BY <1>7
<1>8. CASE c \in [op : {"settle"}, pair : Account \X Account, acceptances : SUBSET Subtask,
                  funds : Nat]
  BY <1>8
<1>9. CASE c \in [op : {"pay_settlement"}, row : Nat]
  BY <1>9
<1>10. CASE c \in [op : {"save_settlement"}, row : Nat, tx : Nat]
  BY <1>10
<1> QED
  BY <1>1, <1>2, <1>3, <1>4, <1>5, <1>6, <1>7, <1>8, <1>9, <1>10 DEF StepRecord

\* What is assumed of the constants, and follows at once.
LEMMA Constants ==
  /\ IsFiniteSet(Subtask)
  /\ RequestorOf \in [Subtask -> Account] /\ ProviderOf \in [Subtask -> Account]
  /\ Price \in [Subtask -> Nat] /\ \A s \in Subtask : Price[s] > 0
  /\ PaymentTs \in [Subtask -> Nat] /\ VerificationCost \in Nat
  /\ PaymentDueTime \in Nat \ {0} /\ ConfirmationTime \in Nat \ {0}
  /\ Funds \in [Account -> Nat]
  /\ IsFiniteSet(ClaimKey)
  /\ \A k \in ClaimKey : PayerOf(k) \in Account /\ AmountOf(k) \in Nat
<1>1. IsFiniteSet(UseCase) /\ IsFiniteSet(Payer)
  BY Two DEF UseCase, Payer
<1>2. IsFiniteSet(ClaimKey)
  <2> DEFINE nested == (Subtask \X UseCase) \X Payer
             f == [k \in ClaimKey |-> <<<<k[1], k[2]>>, k[3]>>]
  <2>1. IsFiniteSet(Subtask \X UseCase)
    BY <1>1, FS_Product, BanksterAssumption
  <2>2. IsFiniteSet(nested)
    BY <1>1, <2>1, FS_Product
  <2>3. f \in Injection(ClaimKey, nested)
    <3>1. f \in [ClaimKey -> nested]
      BY DEF ClaimKey
    <3>2. \A j, k \in ClaimKey : f[j] = f[k] => j = k
      BY DEF ClaimKey
    <3> QED
      BY <3>1, <3>2 DEF Injection, IsInjective
  <2> QED
    BY <2>2, <2>3, FS_Injection
<1>3. \A k \in ClaimKey : k[1] \in Subtask
  BY DEF ClaimKey
<1>4. \A k \in ClaimKey : PayerOf(k) \in Account /\ AmountOf(k) \in Nat
  BY <1>3, BanksterAssumption DEF PayerOf, AmountOf
<1>5. Price \in [Subtask -> Nat] /\ \A s \in Subtask : Price[s] > 0
  <2>1. \A s \in Subtask : Price[s] \in Nat \ {0}
    BY BanksterAssumption
  <2> QED
    BY <2>1, BanksterAssumption
<1> QED
  BY <1>2, <1>4, <1>5, BanksterAssumption

\* A list has finitely many places, and one more when something is appended.
LEMMA Places ==
  ASSUME NEW S, NEW s \in Seq(S)
  PROVE  /\ Len(s) \in Nat /\ DOMAIN s = 1..Len(s) /\ IsFiniteSet(DOMAIN s)
         /\ \A i \in DOMAIN s : s[i] \in S
BY FS_Interval

LEMMA Grown ==
  ASSUME NEW S, NEW s \in Seq(S), NEW x, NEW t, t = Append(s, x)
  PROVE  /\ Len(t) = Len(s) + 1 /\ DOMAIN t = DOMAIN s \union {Len(s) + 1}
         /\ Len(s) + 1 \notin DOMAIN s /\ t[Len(s) + 1] = x
         /\ \A i \in DOMAIN s : t[i] = s[i]
<1>1. t \in Seq(S \union {x})
  OBVIOUS
<1> QED
  BY <1>1

\* What the lists are made of.
Row   == [payer : Account, payee : Account, amount : Nat, tx : Nat, closure : Nat]
Tx    == [kind : {"claim"}, key : ClaimKey, payer : Account, amount : Nat]
         \union [kind : {"settlement"}, row : Nat, payer : Account, amount : Nat]
Block == [ts : Nat, moved : Nat]

\* The rows, the transactions and the blocks.
LEMMA ListsAreTyped ==
  ASSUME TypeOK
  PROVE  /\ settlements \in Seq(Row) /\ chain \in Seq(Tx) /\ blocks \in Seq(Block)
         /\ \A j \in DOMAIN settlements : settlements[j] \in Row
         /\ \A i \in DOMAIN chain : chain[i] \in Tx
         /\ \A i \in Confirmed : blocks[i] \in Block
<1>1. settlements \in Seq(Row) /\ chain \in Seq(Tx) /\ blocks \in Seq(Block)
  BY DEF TypeOK, Row, Tx, Block
<1> QED
  BY <1>1, Places DEF Confirmed

\* The types of the variables, and what the steps of an operation rely on besides them.
TypeInv ==
  /\ TypeOK
  /\ IsFiniteSet(transfers)
  /\ \A w \in Worker : at[w].op = "settle" =>
       at[w].acceptances # {} /\ \A s \in at[w].acceptances : Pair(s) = at[w].pair
  /\ \A w \in Worker : Settling(w) => at[w].row \in DOMAIN settlements

\* The sums are numbers.
LEMMA ColumnsAreTyped ==
  ASSUME TypeOK
  PROVE  /\ \A k \in ClaimKey : claims[k].amount \in Nat /\ Claimed[k] = claims[k].amount
         /\ \A j \in DOMAIN settlements :
              settlements[j].amount \in Nat /\ Settled[j] = settlements[j].amount
         /\ \A i \in DOMAIN chain : chain[i].amount \in Nat /\ Sent[i] = chain[i].amount
         /\ \A i \in Confirmed : blocks[i].moved \in Nat /\ Moved[i] = blocks[i].moved
         /\ IsFiniteSet(DOMAIN settlements) /\ IsFiniteSet(DOMAIN chain) /\ IsFiniteSet(Confirmed)
<1>1. \A k \in ClaimKey : claims[k].amount \in Nat /\ Claimed[k] = claims[k].amount
  BY DEF TypeOK, Claim, Claimed
<1>2. \A j \in DOMAIN settlements :
         settlements[j].amount \in Nat /\ Settled[j] = settlements[j].amount
  <2>1. \A j \in DOMAIN settlements : settlements[j].amount \in Nat
    BY ListsAreTyped DEF Row
  <2> QED
    BY <2>1 DEF Settled
<1>3. \A i \in DOMAIN chain : chain[i].amount \in Nat /\ Sent[i] = chain[i].amount
  <2>1. \A i \in DOMAIN chain : chain[i].amount \in Nat
    BY ListsAreTyped DEF Tx
  <2> QED
    BY <2>1 DEF Sent
<1>4. \A i \in Confirmed : blocks[i].moved \in Nat /\ Moved[i] = blocks[i].moved
  <2>1. \A i \in DOMAIN blocks : blocks[i].moved \in Nat
    BY ListsAreTyped DEF Block, Confirmed
  <2> QED
    BY <2>1 DEF Moved, Confirmed
<1>5. IsFiniteSet(DOMAIN settlements) /\ IsFiniteSet(DOMAIN chain) /\ IsFiniteSet(Confirmed)
  BY ListsAreTyped, Places DEF Confirmed
<1> QED
  BY <1>1, <1>2, <1>3, <1>4, <1>5

\* So are the sums over parts of them.
LEMMA ClaimsAreNumbers ==
  ASSUME TypeOK
  PROVE  /\ \A K \in SUBSET ClaimKey :
              IsFiniteSet(K) /\ SumFunctionOnSet(Claimed, K) \in Nat
         /\ \A J \in SUBSET DOMAIN settlements :
              IsFiniteSet(J) /\ SumFunctionOnSet(Settled, J) \in Nat
         /\ \A I \in SUBSET Confirmed :
              IsFiniteSet(I) /\ SumFunctionOnSet(Moved, I) \in Nat
         /\ \A I \in SUBSET DOMAIN chain :
              IsFiniteSet(I) /\ SumFunctionOnSet(Sent, I) \in Nat
         /\ \A a : SumOfExistingClaims(a) \in Nat
<1>1. \A K \in SUBSET ClaimKey : IsFiniteSet(K) /\ SumFunctionOnSet(Claimed, K) \in Nat
  BY Constants, ColumnsAreTyped, FS_Subset, SumNat
<1>2. \A J \in SUBSET DOMAIN settlements : IsFiniteSet(J) /\ SumFunctionOnSet(Settled, J) \in Nat
  BY ColumnsAreTyped, FS_Subset, SumNat
<1>3. \A I \in SUBSET Confirmed : IsFiniteSet(I) /\ SumFunctionOnSet(Moved, I) \in Nat
  BY ColumnsAreTyped, FS_Subset, SumNat
<1>4. \A I \in SUBSET DOMAIN chain : IsFiniteSet(I) /\ SumFunctionOnSet(Sent, I) \in Nat
  BY ColumnsAreTyped, FS_Subset, SumNat
<1>5. \A a : Against(a) \in SUBSET ClaimKey /\ SettlementsOf(a) \in SUBSET DOMAIN settlements
  BY DEF Against, SettlementsOf
<1>6. \A a : SumOfExistingClaims(a) \in Nat
  BY <1>1, <1>2, <1>5 DEF SumOfExistingClaims
<1> QED
  BY <1>1, <1>2, <1>3, <1>4, <1>6

\* The price of a set of subtasks is a number.
LEMMA PricesAreNumbers ==
  ASSUME NEW A \in SUBSET Subtask
  PROVE  IsFiniteSet(A) /\ SumFunctionOnSet(Price, A) \in Nat
BY Constants, FS_Subset, SumNat

\* The amounts that settle_overdue_acceptances() computes are numbers, and it pays neither more
\* than what is pending nor more than there is.
LEMMA PayableIsNumber ==
  ASSUME TypeInv, NEW pair, NEW A \in SUBSET Subtask, NEW funds \in Nat
  PROVE  /\ \A t0 : AmountPaid(pair, t0) \in Nat
         /\ AmountPending(pair, A) \in Int
         /\ RequestorPayableAmount(pair, A, funds) \in Int
         /\ RequestorPayableAmount(pair, A, funds) <= AmountPending(pair, A)
         /\ RequestorPayableAmount(pair, A, funds) <= funds - SumOfExistingClaims(pair[1])
<1>1. \A t0 : AmountPaid(pair, t0) \in Nat
  <2> SUFFICES ASSUME NEW t0 PROVE AmountPaid(pair, t0) \in Nat
    OBVIOUS
  <2>1. SettlementEvents(pair, t0) \in SUBSET Confirmed
    BY DEF SettlementEvents
  <2>2. Unconfirmed(pair, t0) \in SUBSET DOMAIN settlements
    BY DEF Unconfirmed, AlreadySatisfied
  <2>3. BatchTransfers(pair, t0) \in SUBSET transfers
    BY DEF BatchTransfers
  <2>4. IsFiniteSet(BatchTransfers(pair, t0))
    BY <2>3, FS_Subset DEF TypeInv
  <2>5. \A t \in BatchTransfers(pair, t0) : [u \in transfers |-> Price[u.subtask]][t] \in Nat
    BY <2>3, Constants DEF TypeInv, TypeOK
  <2>6. SumFunctionOnSet([u \in transfers |-> Price[u.subtask]], BatchTransfers(pair, t0)) \in Nat
    BY <2>4, <2>5, SumNat
  <2> QED
    BY <2>1, <2>2, <2>6, ClaimsAreNumbers DEF AmountPaid, TypeInv
<1>2. AmountPending(pair, A) \in Int
  BY <1>1, PricesAreNumbers DEF AmountPending
<1>3. SumOfExistingClaims(pair[1]) \in Int
  BY ClaimsAreNumbers DEF TypeInv
<1>4. \A a, b \in Int : Min({a, b}) \in Int /\ Min({a, b}) <= a /\ Min({a, b}) <= b
  BY MinOfTwo
<1> QED
  <2> DEFINE a == AmountPending(pair, A)
             b == funds - SumOfExistingClaims(pair[1])
  <2>1. a \in Int /\ b \in Int
    BY <1>2, <1>3
  <2>2. RequestorPayableAmount(pair, A, funds) = Min({a, b})
    BY DEF RequestorPayableAmount
  <2> HIDE DEF a, b
  <2>3. Min({a, b}) \in Int /\ Min({a, b}) <= a /\ Min({a, b}) <= b
    BY <1>4, <2>1
  <2> USE DEF a, b
  <2> QED
    BY <1>1, <1>2, <2>2, <2>3

-----------------------------------------------------------------------------
\* A worker takes a step.
LEMMA StepTaken ==
  ASSUME TypeOK, NEW w \in Worker, NEW step, Step(w, step)
  PROVE  \A v \in Worker : at'[v] = IF v = w THEN step ELSE at[v]
BY DEF TypeOK, Step

\* It keeps to the types, when what it begins does and no settlement is removed.
LEMMA StepIsTyped ==
  ASSUME TypeInv, NEW w \in Worker, NEW step \in StepRecord, Step(w, step),
         DOMAIN settlements \subseteq DOMAIN settlements',
         step.op = "settle" =>
           step.acceptances # {} /\ \A s \in step.acceptances : Pair(s) = step.pair,
         step.op \in {"pay_settlement", "save_settlement"} => step.row \in DOMAIN settlements'
  PROVE  /\ at' \in [Worker -> StepRecord]
         /\ \A v \in Worker : at'[v].op = "settle" =>
              at'[v].acceptances # {} /\ \A s \in at'[v].acceptances : Pair(s) = at'[v].pair
         /\ \A v \in Worker : Settling(v)' => at'[v].row \in DOMAIN settlements'
<1>1. \A v \in Worker : at'[v] = IF v = w THEN step ELSE at[v]
  BY StepTaken DEF TypeInv
<1>2. at' \in [Worker -> StepRecord]
  BY DEF TypeInv, TypeOK, Step
<1>3. \A v \in Worker : at'[v].op = "settle" =>
        at'[v].acceptances # {} /\ \A s \in at'[v].acceptances : Pair(s) = at'[v].pair
  BY <1>1 DEF TypeInv
<1>4. \A v \in Worker : Settling(v)' => at'[v].row \in DOMAIN settlements'
  BY <1>1 DEF TypeInv, Settling
<1> QED
  BY <1>2, <1>3, <1>4

\* The steps of claim_deposit().
LEMMA AskForDepositsTyped ==
  ASSUME TypeInv, NEW w \in Worker, NEW s \in Subtask, NEW use \in UseCase,
         AskForDeposits(w, s, use)
  PROVE  TypeInv'
<1> DEFINE step == [op |-> "check_requestor", subtask |-> s, use |-> use,
                    funds |-> deposit[RequestorOf[s]], next |-> deposit[ProviderOf[s]]]
<1>1. step \in StepRecord
  BY Constants DEF TypeInv, TypeOK, StepRecord
<1>2. Step(w, step) /\ UNCHANGED <<now, table, ether, watched>>
  BY DEF AskForDeposits
<1>3. step.op = "check_requestor"
  OBVIOUS
<1> HIDE DEF step
<1> QED
  BY <1>1, <1>2, <1>3, StepIsTyped DEF TypeInv, TypeOK, table, ether

LEMMA CheckTyped ==
  ASSUME TypeInv, NEW w \in Worker, CheckRequestor(w) \/ CheckProvider(w)
  PROVE  TypeInv'
<1>1. UNCHANGED <<now, table, ether, watched>>
  BY DEF CheckRequestor, CheckProvider
<1>2. at[w] \in StepRecord
  BY DEF TypeInv, TypeOK
<1>3. at[w].op \in {"check_requestor", "check_provider"}
  BY DEF CheckRequestor, CheckProvider
<1>4. at[w].subtask \in Subtask /\ at[w].use \in UseCase
      /\ (at[w].op = "check_requestor" => at[w].next \in Nat)
  BY <1>2, <1>3, StepFields
<1>5. \E step \in StepRecord : /\ Step(w, step)
                               /\ step.op \in {"idle", "check_provider", "insert"}
  <2> DEFINE idle == Idle
             check == [op |-> "check_provider", subtask |-> at[w].subtask, use |-> at[w].use,
                       funds |-> at[w].next]
             insert == [op |-> "insert", subtask |-> at[w].subtask, use |-> at[w].use]
  <2>1. idle \in StepRecord /\ idle.op = "idle"
    BY DEF StepRecord, Idle
  <2>2. at[w].op = "check_requestor" => check \in StepRecord /\ check.op = "check_provider"
    BY <1>4 DEF StepRecord
  <2>3. insert \in StepRecord /\ insert.op = "insert"
    BY <1>4 DEF StepRecord
  <2>4. Step(w, idle) \/ Step(w, insert) \/ (at[w].op = "check_requestor" /\ Step(w, check))
    BY DEF CheckRequestor, CheckProvider
  <2> HIDE DEF idle, check, insert
  <2> QED
    BY <2>1, <2>2, <2>3, <2>4
<1> QED
  BY <1>1, <1>5, StepIsTyped DEF TypeInv, TypeOK, table, ether

\* An operation is over.
LEMMA IdleIsTyped ==
  ASSUME TypeInv, NEW w \in Worker, Step(w, Idle), DOMAIN settlements' = DOMAIN settlements
  PROVE  /\ at' \in [Worker -> StepRecord]
         /\ \A v \in Worker : at'[v].op = "settle" =>
              at'[v].acceptances # {} /\ \A s \in at'[v].acceptances : Pair(s) = at'[v].pair
         /\ \A v \in Worker : Settling(v)' => at'[v].row \in DOMAIN settlements'
<1>1. Idle \in StepRecord /\ Idle.op = "idle"
  BY DEF StepRecord, Idle
<1> QED
  BY <1>1, StepIsTyped

LEMMA InsertClaimsTyped ==
  ASSUME TypeInv, NEW w \in Worker, InsertClaims(w)
  PROVE  TypeInv'
<1>1. Step(w, Idle) /\ UNCHANGED <<now, settlements, ether, watched>>
  BY DEF InsertClaims
<1>2. claims' \in [ClaimKey -> Claim]
  <2>1. \A k \in ClaimKey : [amount |-> AmountOf(k), tx |-> NULL] \in Claim
    BY Constants DEF Claim, NULL
  <2> QED
    BY <2>1 DEF InsertClaims, TypeInv, TypeOK
<1> QED
  BY <1>1, <1>2, IdleIsTyped DEF TypeInv, TypeOK, ether

\* The steps of finalize_payment() and discard_claim().
LEMMA AskForPayersDepositTyped ==
  ASSUME TypeInv, NEW w \in Worker, NEW k \in ClaimKey, AskForPayersDeposit(w, k)
  PROVE  TypeInv'
<1> DEFINE step == [op |-> "lock_claim", key |-> k, funds |-> deposit[PayerOf(k)]]
<1>1. step \in StepRecord
  BY Constants DEF TypeInv, TypeOK, StepRecord
<1>2. Step(w, step) /\ UNCHANGED <<now, table, ether, watched>>
  BY DEF AskForPayersDeposit
<1>3. step.op = "lock_claim"
  OBVIOUS
<1> HIDE DEF step
<1> QED
  BY <1>1, <1>2, <1>3, StepIsTyped DEF TypeInv, TypeOK, table, ether

\* A row that is not there has the type of one.
LEMMA NoClaimIsClaim == NoClaim \in Claim
BY DEF NoClaim, Claim, NULL

\* What there is left is positive when it becomes the amount.
LEMMA LockClaimTyped ==
  ASSUME TypeInv, NEW w \in Worker, LockClaim(w)
  PROVE  TypeInv'
<1> DEFINE k == at[w].key
           available == AvailableFunds(k, at[w].funds)
<1>1. UNCHANGED <<now, settlements, ether, watched>> /\ at[w].op = "lock_claim"
  BY DEF LockClaim
<1>2. k \in ClaimKey /\ at[w].funds \in Nat
  BY <1>1, StepFields DEF TypeInv, TypeOK
<1>3. available \in Int
  BY <1>2, ClaimsAreNumbers, ColumnsAreTyped DEF AvailableFunds, TypeInv
<1>4. claims \in [ClaimKey -> Claim]
  BY DEF TypeInv, TypeOK
<1>5. CASE NothingLeft(available)
  <2>1. claims' \in [ClaimKey -> Claim] /\ Step(w, Idle)
    BY <1>2, <1>4, <1>5, NoClaimIsClaim DEF LockClaim
  <2> QED
    BY <1>1, <2>1, IdleIsTyped DEF TypeInv, TypeOK, ether
<1>6. CASE ~ NothingLeft(available)
  <2> DEFINE step == [op |-> "pay_claim", key |-> k]
  <2>1. step \in StepRecord /\ step.op = "pay_claim"
    BY <1>2 DEF StepRecord
  <2>2. Step(w, step)
    BY <1>6 DEF LockClaim
  <2>3. claims' \in [ClaimKey -> Claim]
    <3>1. PICK amount : /\ amount = IF available < claims[k].amount THEN available
                                    ELSE claims[k].amount
                        /\ claims' = [claims EXCEPT ![k].amount = amount]
      BY <1>6 DEF LockClaim
    <3>2. amount \in Nat
      BY <1>2, <1>3, <1>4, <1>6, <3>1 DEF NothingLeft, Claim
    <3>3. [claims[k] EXCEPT !.amount = amount] \in Claim
      BY <1>2, <1>4, <3>2 DEF Claim
    <3> QED
      BY <1>2, <1>4, <3>1, <3>3
  <2> HIDE DEF step
  <2> QED
    BY <1>1, <2>1, <2>2, <2>3, StepIsTyped DEF TypeInv, TypeOK, ether
<1> QED
  BY <1>5, <1>6

LEMMA PayClaimTyped ==
  ASSUME TypeInv, NEW w \in Worker, PayClaim(w)
  PROVE  TypeInv'
<1> DEFINE k == at[w].key
           step == [op |-> "save_claim", key |-> k, tx |-> Len(chain) + 1]
           new == [kind |-> "claim", key |-> k, payer |-> PayerOf(k), amount |-> claims[k].amount]
<1>1. /\ UNCHANGED <<now, table, deposit, blocks, transfers, watched>>
      /\ at[w].op = "pay_claim" /\ chain' = Append(chain, new) /\ Step(w, step)
  BY DEF PayClaim
<1>2. k \in ClaimKey
  BY <1>1, StepFields DEF TypeInv, TypeOK
<1>3. new \in Tx
  BY <1>2, Constants, ColumnsAreTyped DEF Tx, TypeInv
<1>4. chain \in Seq(Tx) /\ Len(chain) \in Nat
  BY ListsAreTyped, Places DEF TypeInv
<1>5. chain' \in Seq(Tx)
  BY <1>1, <1>3, <1>4
<1>6. step \in StepRecord /\ step.op = "save_claim"
  BY <1>2, <1>4 DEF StepRecord
<1> HIDE DEF step, new
<1> QED
  BY <1>1, <1>5, <1>6, StepIsTyped DEF TypeInv, TypeOK, table, Tx

LEMMA SaveClaimTyped ==
  ASSUME TypeInv, NEW w \in Worker, SaveClaim(w)
  PROVE  TypeInv'
<1> DEFINE k == at[w].key
<1>1. /\ UNCHANGED <<now, settlements, ether>> /\ at[w].op = "save_claim" /\ Step(w, Idle)
      /\ claims' = [claims EXCEPT ![k].tx = at[w].tx]
      /\ watched' = [watched EXCEPT ![w] = @ \union {k}]
  BY DEF SaveClaim
<1>2. k \in ClaimKey /\ at[w].tx \in Nat
  BY <1>1, StepFields DEF TypeInv, TypeOK
<1>3. claims' \in [ClaimKey -> Claim]
  <2>1. claims \in [ClaimKey -> Claim]
    BY DEF TypeInv, TypeOK
  <2>2. [claims[k] EXCEPT !.tx = at[w].tx] \in Claim
    BY <1>2, <2>1 DEF Claim
  <2> QED
    BY <1>1, <1>2, <2>1, <2>2
<1>4. watched' \in [Worker -> SUBSET ClaimKey]
  BY <1>1, <1>2 DEF TypeInv, TypeOK
<1> QED
  BY <1>1, <1>3, <1>4, IdleIsTyped DEF TypeInv, TypeOK, ether

LEMMA DiscardClaimTyped ==
  ASSUME TypeInv, NEW w \in Worker, NEW k \in ClaimKey, DiscardClaim(w, k)
  PROVE  TypeInv'
<1>1. UNCHANGED <<now, settlements, ether, at>>
  BY DEF DiscardClaim
<1>2. claims' \in [ClaimKey -> Claim] /\ watched' \in [Worker -> SUBSET ClaimKey]
  BY NoClaimIsClaim DEF DiscardClaim, TypeInv, TypeOK
<1> QED
  BY <1>1, <1>2 DEF TypeInv, TypeOK, ether, Settling

\* The steps of settle_overdue_acceptances().
LEMMA AskForSettledDepositTyped ==
  ASSUME TypeInv, NEW w \in Worker, NEW A \in SUBSET Subtask, AskForSettledDeposit(w, A)
  PROVE  TypeInv'
<1>1. PICK s \in A : Step(w, [op |-> "settle", pair |-> Pair(s), acceptances |-> A,
                              funds |-> deposit[RequestorOf[s]]])
  BY DEF AskForSettledDeposit
<1> DEFINE step == [op |-> "settle", pair |-> Pair(s), acceptances |-> A,
                    funds |-> deposit[RequestorOf[s]]]
<1>2. UNCHANGED <<now, table, ether, watched>> /\ A # {} /\ \A t \in A : Pair(t) = Pair(s)
  BY DEF AskForSettledDeposit
<1>3. Pair(s) \in Account \X Account /\ deposit[RequestorOf[s]] \in Nat
  BY Constants DEF Pair, TypeInv, TypeOK
<1>4. step \in StepRecord
  BY <1>3 DEF StepRecord
<1>5. step.op = "settle" /\ step.acceptances = A /\ step.pair = Pair(s)
  OBVIOUS
<1> HIDE DEF step
<1>6. Step(w, step)
  BY <1>1 DEF step
<1> QED
  BY <1>2, <1>4, <1>5, <1>6, StepIsTyped DEF TypeInv, TypeOK, table, ether

\* The youngest and the oldest of some acceptances.
LEMMA Ages ==
  ASSUME NEW A \in SUBSET Subtask, A # {}
  PROVE  /\ OldestTs(A) \in Nat /\ YoungestTs(A) \in Nat
         /\ \A s \in A : OldestTs(A) <= PaymentTs[s] /\ PaymentTs[s] <= YoungestTs(A)
         /\ OldestTs(A) <= YoungestTs(A)
         /\ \E s \in A : PaymentTs[s] = OldestTs(A)
<1> DEFINE T == {PaymentTs[s] : s \in A}
<1>1. IsFiniteSet(A)
  BY PricesAreNumbers
<1>2. IsFiniteSet(T)
  <2> DEFINE f == [s \in A |-> PaymentTs[s]]
  <2>1. f \in Surjection(A, T)
    BY DEF Surjection
  <2> HIDE DEF f, T
  <2> QED
    BY <1>1, <2>1, FS_Surjection
<1>3. /\ T \in SUBSET Nat /\ T # {} /\ \A s \in A : PaymentTs[s] \in T
      /\ \A x \in T : \E s \in A : PaymentTs[s] = x
  BY Constants
<1>4. Max(T) \in T /\ Min(T) \in T /\ \A x \in T : Min(T) <= x /\ x <= Max(T)
  <2> HIDE DEF T
  <2>1. T \in SUBSET Int
    BY <1>3
  <2> QED BY <1>2, <1>3, <2>1, Extrema
<1>5. OldestTs(A) = Min(T) /\ YoungestTs(A) = Max(T)
  BY DEF OldestTs, YoungestTs
<1> HIDE DEF T
<1> QED
  BY <1>3, <1>4, <1>5

LEMMA LockSettlementTyped ==
  ASSUME TypeInv, NEW w \in Worker, LockSettlement(w)
  PROVE  TypeInv'
<1> DEFINE c == at[w]
           payable == RequestorPayableAmount(c.pair, c.acceptances, c.funds)
<1>1. UNCHANGED <<now, claims, ether, watched>> /\ c.op = "settle"
  BY DEF LockSettlement
<1>2. c.pair \in Account \X Account /\ c.acceptances \in SUBSET Subtask /\ c.funds \in Nat
      /\ c.acceptances # {}
  BY <1>1, StepFields DEF TypeInv, TypeOK
<1>3. payable \in Int
  BY <1>2, PayableIsNumber
<1>4. CASE Step(w, Idle) /\ UNCHANGED settlements
  BY <1>1, <1>4, IdleIsTyped DEF TypeInv, TypeOK, ether
<1>5. CASE ~ (Step(w, Idle) /\ UNCHANGED settlements)
  <2> DEFINE new == [payer |-> c.pair[1], payee |-> c.pair[2], amount |-> payable, tx |-> NULL,
                     closure |-> YoungestTs(c.acceptances)]
             step == [op |-> "pay_settlement", row |-> Len(settlements) + 1]
  <2>1. /\ settlements' = Append(settlements, new) /\ Step(w, step) /\ ~ NothingLeft(payable)
    BY <1>5 DEF LockSettlement
  <2>2. new \in Row
    <3>1. YoungestTs(c.acceptances) \in Nat
      BY <1>2, Ages
    <3>2. payable \in Nat
      BY <1>3, <2>1 DEF NothingLeft
    <3> QED
      BY <1>2, <3>1, <3>2 DEF Row, NULL
  <2> HIDE DEF new
  <2>3. settlements \in Seq(Row) /\ Len(settlements) \in Nat
    BY ListsAreTyped, Places DEF TypeInv
  <2>4. /\ settlements' \in Seq(Row)
        /\ DOMAIN settlements' = DOMAIN settlements \union {Len(settlements) + 1}
    BY <2>1, <2>2, <2>3, Grown
  <2>5. step \in StepRecord /\ step.op = "pay_settlement" /\ step.row \in DOMAIN settlements'
    BY <2>3, <2>4 DEF StepRecord
  <2> HIDE DEF step
  <2> QED
    BY <1>1, <2>1, <2>4, <2>5, StepIsTyped DEF TypeInv, TypeOK, ether, Row
<1> QED
  BY <1>4, <1>5

LEMMA PaySettlementTyped ==
  ASSUME TypeInv, NEW w \in Worker, PaySettlement(w)
  PROVE  TypeInv'
<1> DEFINE j == at[w].row
           payer == settlements[j].payer
           step == [op |-> "save_settlement", row |-> j, tx |-> Len(chain) + 1]
           new == [kind |-> "settlement", row |-> j, payer |-> payer,
                   amount |-> Min({settlements[j].amount, deposit[payer]})]
<1>1. /\ UNCHANGED <<now, table, deposit, blocks, transfers, watched>>
      /\ at[w].op = "pay_settlement" /\ chain' = Append(chain, new) /\ Step(w, step)
  BY DEF PaySettlement
<1>2. j \in DOMAIN settlements /\ j \in Nat
  <2>1. Settling(w)
    BY <1>1 DEF Settling
  <2>2. DOMAIN settlements \subseteq Nat
    BY ListsAreTyped, Places DEF TypeInv
  <2> QED
    BY <2>1, <2>2 DEF TypeInv
<1>3. settlements[j].amount \in Nat /\ payer \in Account
  BY <1>2, ListsAreTyped DEF TypeInv, Row
<1>4. new \in Tx
  <2>1. deposit[payer] \in Nat
    BY <1>3 DEF TypeInv, TypeOK
  <2>2. Min({settlements[j].amount, deposit[payer]}) \in Nat
    BY <1>3, <2>1, MinOfTwo
  <2> QED
    BY <1>2, <1>3, <2>2 DEF Tx
<1>5. chain \in Seq(Tx) /\ Len(chain) \in Nat
  BY ListsAreTyped, Places DEF TypeInv
<1>6. chain' \in Seq(Tx)
  BY <1>1, <1>4, <1>5
<1>7. step \in StepRecord /\ step.op = "save_settlement" /\ step.row \in DOMAIN settlements
  BY <1>2, <1>5 DEF StepRecord
<1> HIDE DEF step, new
<1> QED
  BY <1>1, <1>6, <1>7, StepIsTyped DEF TypeInv, TypeOK, table, Tx

LEMMA SaveSettlementTyped ==
  ASSUME TypeInv, NEW w \in Worker, SaveSettlement(w)
  PROVE  TypeInv'
<1> DEFINE j == at[w].row
<1>1. /\ UNCHANGED <<now, claims, ether, watched>> /\ at[w].op = "save_settlement"
      /\ Step(w, Idle) /\ settlements' = [settlements EXCEPT ![j].tx = at[w].tx]
  BY DEF SaveSettlement
<1>2. at[w].tx \in Nat
  BY <1>1, StepFields DEF TypeInv, TypeOK
<1>3. settlements \in Seq(Row) /\ j \in DOMAIN settlements /\ settlements[j] \in Row
  <2>1. Settling(w)
    BY <1>1 DEF Settling
  <2> QED
    BY <2>1, ListsAreTyped DEF TypeInv
<1>4. [settlements[j] EXCEPT !.tx = at[w].tx] \in Row
  BY <1>2, <1>3 DEF Row
<1>5. settlements' \in Seq(Row) /\ DOMAIN settlements' = DOMAIN settlements
  BY <1>1, <1>3, <1>4
<1> QED
  BY <1>1, <1>5, IdleIsTyped DEF TypeInv, TypeOK, ether, Row

\* What happens besides the operations.
LEMMA AbortTyped ==
  ASSUME TypeInv, NEW w \in Worker, Abort(w)
  PROVE  TypeInv'
<1>1. UNCHANGED <<now, table, ether>> /\ Step(w, Idle)
  BY DEF Abort
<1>2. watched' \in [Worker -> SUBSET ClaimKey]
  BY DEF Abort, TypeInv, TypeOK
<1> QED
  BY <1>1, <1>2, IdleIsTyped DEF TypeInv, TypeOK, table, ether

LEMMA ConfirmTyped ==
  ASSUME TypeInv, Confirm
  PROVE  TypeInv'
<1> DEFINE i == Len(blocks) + 1
           payer == chain[i].payer
           moved == Min({chain[i].amount, deposit[payer]})
<1>1. /\ UNCHANGED <<now, table, chain, transfers, watched, at>> /\ i \in DOMAIN chain
      /\ blocks' = Append(blocks, [ts |-> now, moved |-> moved])
      /\ deposit' = [deposit EXCEPT ![payer] = @ - moved]
  BY DEF Confirm
<1>2. chain[i].amount \in Nat /\ payer \in Account
  <2>1. chain[i] \in Tx
    BY <1>1, ListsAreTyped DEF TypeInv
  <2> HIDE DEF i
  <2> QED
    BY <2>1 DEF Tx
<1>3. deposit[payer] \in Nat
  BY <1>2 DEF TypeInv, TypeOK
<1>4. moved \in Nat /\ moved <= deposit[payer]
  BY <1>2, <1>3, MinOfTwo
<1>5. [ts |-> now, moved |-> moved] \in Block
  BY <1>4 DEF Block, TypeInv, TypeOK
<1>6. blocks' \in Seq(Block)
  BY <1>1, <1>5, ListsAreTyped DEF TypeInv
<1> HIDE DEF moved, i
<1>7. deposit' \in [Account -> Nat]
  BY <1>1, <1>2, <1>3, <1>4 DEF TypeInv, TypeOK
<1> QED
  BY <1>1, <1>6, <1>7 DEF TypeInv, TypeOK, table, Block, Settling

LEMMA TransferTyped ==
  ASSUME TypeInv, NEW s \in Subtask, Transfer(s)
  PROVE  TypeInv'
<1>1. /\ UNCHANGED <<now, table, deposit, chain, blocks, watched, at>>
      /\ transfers' = transfers \union {[subtask |-> s, ts |-> now]}
  BY DEF Transfer
<1>2. IsFiniteSet(transfers')
  BY <1>1, FS_AddElement DEF TypeInv
<1>3. transfers' \in SUBSET [subtask : Subtask, ts : Nat]
  BY <1>1 DEF TypeInv, TypeOK
<1> QED
  BY <1>1, <1>2, <1>3 DEF TypeInv, TypeOK, table, Settling

\* Every step keeps the types.
LEMMA TypeStep ==
  ASSUME TypeInv, [Next]_vars
  PROVE  TypeInv'
<1>1. CASE UNCHANGED vars
  BY <1>1 DEF vars, table, ether, TypeInv, TypeOK, Settling
<1>2. CASE Tick
  BY <1>2 DEF Tick, table, ether, TypeInv, TypeOK, Settling
<1>3. CASE Confirm \/ \E s \in Subtask : Transfer(s)
  BY <1>3, ConfirmTyped, TransferTyped
<1>4. ASSUME NEW w \in Worker,
             \/ \E s \in Subtask, use \in UseCase : AskForDeposits(w, s, use)
             \/ CheckRequestor(w) \/ CheckProvider(w) \/ InsertClaims(w)
      PROVE  TypeInv'
  BY <1>4, AskForDepositsTyped, CheckTyped, InsertClaimsTyped
<1>5. ASSUME NEW w \in Worker,
             \/ \E k \in ClaimKey : AskForPayersDeposit(w, k) \/ DiscardClaim(w, k)
             \/ LockClaim(w) \/ PayClaim(w) \/ SaveClaim(w)
      PROVE  TypeInv'
  BY <1>5, AskForPayersDepositTyped, DiscardClaimTyped, LockClaimTyped, PayClaimTyped,
     SaveClaimTyped
<1>6. ASSUME NEW w \in Worker,
             \/ \E acceptances \in SUBSET Subtask : AskForSettledDeposit(w, acceptances)
             \/ LockSettlement(w) \/ PaySettlement(w) \/ SaveSettlement(w)
             \/ Abort(w)
      PROVE  TypeInv'
  BY <1>6, AskForSettledDepositTyped, LockSettlementTyped, PaySettlementTyped,
     SaveSettlementTyped, AbortTyped
<1> QED
  BY <1>1, <1>2, <1>3, <1>4, <1>5, <1>6 DEF Next

\* They hold at first.
LEMMA TypeStart ==
  ASSUME Init
  PROVE  TypeInv
<1>1. Idle \in StepRecord /\ Idle.op = "idle"
  BY DEF StepRecord, Idle
<1>2. claims \in [ClaimKey -> Claim]
  BY NoClaimIsClaim DEF Init
<1>3. TypeOK
  BY <1>1, <1>2, Constants DEF Init, TypeOK
<1>4. IsFiniteSet(transfers)
  BY FS_EmptySet DEF Init
<1>5. \A w \in Worker : at[w].op = "idle"
  BY <1>1 DEF Init
<1> QED
  BY <1>3, <1>4, <1>5 DEF TypeInv, Settling

\* The variables keep their types; above all no amount and no deposit is negative, though
\* claims may exceed the deposit and what is left for one of them may be negative.
THEOREM TypesAreKept == Spec => []TypeOK
<1>1. Init => TypeInv
  BY TypeStart
<1>2. TypeInv /\ [Next]_vars => TypeInv'
  BY TypeStep
<1>3. TypeInv => TypeOK
  BY DEF TypeInv
<1> QED
  BY <1>1, <1>2, <1>3, PTL DEF Spec

-----------------------------------------------------------------------------
(* The payments. *)

\* A claim is paid by one transaction, out of its payer's deposit.  The transaction takes
\* no more than the claim says, and as long as it is not confirmed the claim is there and
\* says exactly that.
ClaimLedger ==
  /\ \A w \in Worker : at[w].op \in {"lock_claim", "pay_claim"} => PaymentsOf(at[w].key) = {}
  /\ \A w \in Worker : at[w].op = "save_claim" => at[w].tx \in PaymentsOf(at[w].key)
  /\ \A k \in ClaimKey : claims[k].tx # NULL => claims[k].tx \in PaymentsOf(k)
  /\ \A k \in ClaimKey : claims[k].amount <= AmountOf(k)
  /\ \A k \in ClaimKey : \A i \in PaymentsOf(k) :
       /\ PaymentsOf(k) = {i}
       /\ chain[i].payer = PayerOf(k)
       /\ chain[i].amount <= AmountOf(k)
       /\ Exists(k) => chain[i].amount <= claims[k].amount
       /\ i \notin Confirmed => Exists(k) /\ chain[i].amount = claims[k].amount

\* So is a settlement.
SettlementLedger ==
  /\ Confirmed \subseteq DOMAIN chain
  /\ \A i \in SettlementsSent :
       /\ chain[i].row \in DOMAIN settlements
       /\ chain[i].payer = settlements[chain[i].row].payer
       /\ chain[i].amount <= settlements[chain[i].row].amount
  /\ \A i, j \in SettlementsSent : chain[i].row = chain[j].row => i = j
  /\ \A j \in DOMAIN settlements : settlements[j].tx # NULL =>
       settlements[j].tx \in SettlementsSent /\ chain[settlements[j].tx].row = j
  /\ \A w \in Worker : at[w].op = "pay_settlement" =>
       /\ settlements[at[w].row].tx = NULL
       /\ \A i \in SettlementsSent : chain[i].row # at[w].row
  /\ \A w \in Worker : at[w].op = "save_settlement" =>
       at[w].tx \in SettlementsSent /\ chain[at[w].tx].row = at[w].row
  /\ \A v, w \in Worker : v # w /\ Settling(v) /\ Settling(w) => at[v].row # at[w].row

\* Payments are found in the chain, at places other than NULL.
LEMMA PaymentsArePlaces ==
  ASSUME TypeOK
  PROVE  /\ \A k \in ClaimKey : \A i \in PaymentsOf(k) :
              i \in DOMAIN chain /\ i \in Nat \ {0} /\ chain[i].amount \in Nat
         /\ \A i \in SettlementsSent :
              i \in DOMAIN chain /\ i \in Nat \ {0} /\ chain[i].amount \in Nat
         /\ \A k \in ClaimKey : claims[k].amount \in Nat /\ claims[k].tx \in Nat
         /\ \A i \in Confirmed : i \in Nat \ {0}
<1>1. \A i \in DOMAIN chain : i \in Nat \ {0}
  BY ListsAreTyped, Places
<1>2. \A i \in Confirmed : i \in Nat \ {0}
  BY ListsAreTyped, Places DEF Confirmed
<1> QED
  BY <1>1, <1>2, ColumnsAreTyped DEF PaymentsOf, SettlementsSent, TypeOK, Claim

\* A claim's payments stay as they are when nothing is sent, or something else.
LEMMA SamePayments ==
  ASSUME UNCHANGED chain
  PROVE  /\ \A k : PaymentsOf(k)' = PaymentsOf(k)
         /\ SettlementsSent' = SettlementsSent
BY DEF PaymentsOf, SettlementsSent

\* A transaction is added to the payments that it is for, and to no others.
LEMMA PaymentSent ==
  ASSUME TypeOK, NEW new \in Tx, chain' = Append(chain, new)
  PROVE  LET n == Len(chain) + 1 IN
         /\ chain'[n] = new /\ n \notin DOMAIN chain /\ n \notin {NULL}
         /\ \A i \in DOMAIN chain : chain'[i] = chain[i]
         /\ DOMAIN chain' = DOMAIN chain \union {n}
         /\ \A k : PaymentsOf(k)' = IF new.kind = "claim" /\ new.key = k
                                    THEN PaymentsOf(k) \union {n} ELSE PaymentsOf(k)
         /\ SettlementsSent' = IF new.kind = "settlement"
                               THEN SettlementsSent \union {n} ELSE SettlementsSent
<1> DEFINE n == Len(chain) + 1
<1>1. /\ DOMAIN chain' = DOMAIN chain \union {n} /\ n \notin DOMAIN chain /\ chain'[n] = new
      /\ \A i \in DOMAIN chain : chain'[i] = chain[i]
  BY ListsAreTyped, Grown
<1>2. n # NULL
  BY ListsAreTyped, Places DEF NULL
<1> HIDE DEF n
<1>3. \A k : PaymentsOf(k)' = IF new.kind = "claim" /\ new.key = k
                              THEN PaymentsOf(k) \union {n} ELSE PaymentsOf(k)
  <2> SUFFICES ASSUME NEW k
               PROVE  PaymentsOf(k)' = IF new.kind = "claim" /\ new.key = k
                                       THEN PaymentsOf(k) \union {n} ELSE PaymentsOf(k)
    OBVIOUS
  <2> QED
    BY <1>1 DEF PaymentsOf
<1>4. SettlementsSent' = IF new.kind = "settlement"
                         THEN SettlementsSent \union {n} ELSE SettlementsSent
  BY <1>1 DEF SettlementsSent
<1> QED
  BY <1>1, <1>2, <1>3, <1>4 DEF n

\* The transactions that are sent.
LEMMA SettlementIsTx ==
  ASSUME TypeInv, NEW w \in Worker, PaySettlement(w)
  PROVE  \E new \in Tx : /\ chain' = Append(chain, new)
                         /\ new.kind = "settlement" /\ new.row = at[w].row
                         /\ new.payer = settlements[at[w].row].payer
                         /\ new.amount = IF settlements[at[w].row].amount <= deposit[new.payer]
                                         THEN settlements[at[w].row].amount
                                         ELSE deposit[new.payer]
<1> DEFINE j == at[w].row
           payer == settlements[j].payer
           new == [kind |-> "settlement", row |-> j, payer |-> payer,
                   amount |-> Min({settlements[j].amount, deposit[payer]})]
<1>1. at[w].op = "pay_settlement" /\ chain' = Append(chain, new)
  BY DEF PaySettlement
<1>2. j \in DOMAIN settlements /\ j \in Nat
  <2>1. Settling(w)
    BY <1>1 DEF Settling
  <2>2. DOMAIN settlements \subseteq Nat
    BY ListsAreTyped, Places DEF TypeInv
  <2> QED
    BY <2>1, <2>2 DEF TypeInv
<1>3. settlements[j].amount \in Nat /\ payer \in Account
  BY <1>2, ListsAreTyped DEF TypeInv, Row
<1>4. deposit[payer] \in Nat
  BY <1>3 DEF TypeInv, TypeOK
<1>5. Min({settlements[j].amount, deposit[payer]})
        = IF settlements[j].amount <= deposit[payer] THEN settlements[j].amount
          ELSE deposit[payer]
  BY <1>3, <1>4, MinOfTwo
<1>6. new \in Tx
  BY <1>2, <1>3, <1>4, <1>5 DEF Tx
<1>7. /\ new.kind = "settlement" /\ new.row = j /\ new.payer = payer
      /\ new.amount = Min({settlements[j].amount, deposit[payer]})
  OBVIOUS
<1> HIDE DEF new
<1> QED
  BY <1>1, <1>5, <1>6, <1>7

\* The transaction that pays a claim.
LEMMA ClaimIsTx ==
  ASSUME TypeInv, NEW w \in Worker, PayClaim(w)
  PROVE  \E new \in Tx : /\ chain' = Append(chain, new)
                         /\ new.kind = "claim" /\ new.key = at[w].key
                         /\ new.payer = PayerOf(at[w].key)
                         /\ new.amount = claims[at[w].key].amount
<1> DEFINE k == at[w].key
           new == [kind |-> "claim", key |-> k, payer |-> PayerOf(k), amount |-> claims[k].amount]
<1>1. at[w].op = "pay_claim" /\ chain' = Append(chain, new)
  BY DEF PayClaim
<1>2. k \in ClaimKey
  BY <1>1, StepFields DEF TypeInv, TypeOK
<1>3. new \in Tx
  BY <1>2, Constants, ColumnsAreTyped DEF Tx, TypeInv
<1> QED
  BY <1>1, <1>3

\* Neither claims nor their payments change, and nobody begins to pay one.
LEMMA ClaimLedgerKept ==
  ASSUME ClaimLedger, UNCHANGED claims, Confirmed \subseteq Confirmed',
         \A k \in ClaimKey : PaymentsOf(k)' = PaymentsOf(k),
         \A k \in ClaimKey : \A i \in PaymentsOf(k) : chain'[i] = chain[i],
         \A v \in Worker : at'[v] = at[v] \/ ~ IsFinalizing(at'[v]),
         \A v \in Worker : IsFinalizing(at'[v]) => at'[v].key \in ClaimKey
  PROVE  ClaimLedger'
<1>1. \A v \in Worker : at'[v].op \in {"lock_claim", "pay_claim"} =>
                           (PaymentsOf(at[v].key))' = {}
  <2> SUFFICES ASSUME NEW v \in Worker, at'[v].op \in {"lock_claim", "pay_claim"}
               PROVE  (PaymentsOf(at[v].key))' = {}
    OBVIOUS
  <2>1. at'[v] = at[v] /\ at'[v].key \in ClaimKey
    BY DEF IsFinalizing
  <2> QED
    BY <2>1 DEF ClaimLedger
<1>2. \A v \in Worker : at'[v].op = "save_claim" => at'[v].tx \in (PaymentsOf(at[v].key))'
  <2> SUFFICES ASSUME NEW v \in Worker, at'[v].op = "save_claim"
               PROVE  at'[v].tx \in (PaymentsOf(at[v].key))'
    OBVIOUS
  <2>1. at'[v] = at[v] /\ at'[v].key \in ClaimKey
    BY DEF IsFinalizing
  <2> QED
    BY <2>1 DEF ClaimLedger
<1>3. \A k \in ClaimKey : claims'[k].tx # NULL => claims'[k].tx \in PaymentsOf(k)'
  BY DEF ClaimLedger
<1>4. \A k \in ClaimKey : claims'[k].amount <= AmountOf(k)
  BY DEF ClaimLedger
<1>5. \A k \in ClaimKey : \A i \in PaymentsOf(k)' :
        /\ PaymentsOf(k)' = {i}
        /\ chain'[i].payer = PayerOf(k)
        /\ chain'[i].amount <= AmountOf(k)
        /\ Exists(k)' => chain'[i].amount <= claims'[k].amount
        /\ i \notin Confirmed' => Exists(k)' /\ chain'[i].amount = claims'[k].amount
  BY DEF ClaimLedger, Exists
<1> QED
  BY <1>1, <1>2, <1>3, <1>4, <1>5 DEF ClaimLedger

Ready == Inv /\ ClaimedIsOffered /\ TypeInv

\* The claim that a worker pays is there.
LEMMA FinalizingKey ==
  ASSUME Ready, NEW v \in Worker, IsFinalizing(at[v])
  PROVE  /\ at[v].key \in ClaimKey
         /\ Exists(at[v].key) /\ claims[at[v].key].tx = NULL
BY StatusOf DEF Ready, Inv, FinalizedIsOpen

\* The steps that neither change a claim nor pay one.
LEMMA QuietClaims ==
  ASSUME Ready, ClaimLedger,
         \/ UNCHANGED vars \/ Confirm \/ Tick \/ \E s \in Subtask : Transfer(s)
         \/ \E w \in Worker : Quiet(w)
  PROVE  ClaimLedger'
<1> SUFFICES /\ UNCHANGED claims /\ Confirmed \subseteq Confirmed'
             /\ \A k \in ClaimKey : PaymentsOf(k)' = PaymentsOf(k)
             /\ \A k \in ClaimKey : \A i \in PaymentsOf(k) : chain'[i] = chain[i]
             /\ \A v \in Worker : at'[v] = at[v] \/ ~ IsFinalizing(at'[v])
             /\ \A v \in Worker : IsFinalizing(at'[v]) => at'[v].key \in ClaimKey
  BY ClaimLedgerKept
<1>1. UNCHANGED claims
  BY DEF vars, Confirm, Tick, Transfer, Quiet, AskForDeposits, CheckRequestor, CheckProvider,
         AskForSettledDeposit, LockSettlement, PaySettlement, SaveSettlement, Abort, table
<1>2. \A v \in Worker : at'[v] = at[v] \/ ~ IsFinalizing(at'[v])
  <2>1. CASE UNCHANGED at
    BY <2>1
  <2>2. ASSUME NEW w \in Worker, Quiet(w)
        PROVE  \A v \in Worker : at'[v] = at[v] \/ ~ IsFinalizing(at'[v])
    <3>1. PICK step : Step(w, step) /\ ~ IsFinalizing(step)
      <4>1. CASE \E s \in Subtask, use \in UseCase : AskForDeposits(w, s, use)
        BY <4>1 DEF AskForDeposits, IsFinalizing
      <4>2. CASE CheckRequestor(w) \/ CheckProvider(w)
        BY <4>2 DEF CheckRequestor, CheckProvider, IsFinalizing, Idle
      <4>3. CASE \E acceptances \in SUBSET Subtask : AskForSettledDeposit(w, acceptances)
        BY <4>3 DEF AskForSettledDeposit, IsFinalizing
      <4>4. CASE LockSettlement(w) \/ PaySettlement(w)
        BY <4>4 DEF LockSettlement, PaySettlement, IsFinalizing, Idle
      <4>5. CASE SaveSettlement(w) \/ Abort(w)
        BY <4>5 DEF SaveSettlement, Abort, IsFinalizing, Idle
      <4> QED
        BY <2>2, <4>1, <4>2, <4>3, <4>4, <4>5 DEF Quiet
    <3> QED
      BY <3>1, StepTaken DEF Ready, TypeInv
  <2> QED
    BY <2>1, <2>2 DEF vars, Confirm, Tick, Transfer
<1>3. \A v \in Worker : IsFinalizing(at'[v]) => at'[v].key \in ClaimKey
  BY <1>2, FinalizingKey
<1>4. Confirmed \subseteq Confirmed'
  <2>1. CASE Confirm
    <3>1. PICK x : blocks' = Append(blocks, x)
      BY <2>1 DEF Confirm
    <3> QED
      BY <3>1, ListsAreTyped, Grown DEF Confirmed, Ready, TypeInv
  <2>2. CASE ~ Confirm
    BY <2>2 DEF vars, Tick, Transfer, Quiet, AskForDeposits, CheckRequestor, CheckProvider,
         AskForSettledDeposit, LockSettlement, PaySettlement, SaveSettlement, Abort, ether,
         Confirmed
  <2> QED
    BY <2>1, <2>2
<1>5. /\ \A k \in ClaimKey : PaymentsOf(k)' = PaymentsOf(k)
      /\ \A k \in ClaimKey : \A i \in PaymentsOf(k) : chain'[i] = chain[i]
  <2>1. ASSUME NEW w \in Worker, PaySettlement(w)
        PROVE  /\ \A k \in ClaimKey : PaymentsOf(k)' = PaymentsOf(k)
               /\ \A k \in ClaimKey : \A i \in PaymentsOf(k) : chain'[i] = chain[i]
    <3>1. PICK new \in Tx : chain' = Append(chain, new) /\ new.kind = "settlement"
      BY <2>1, SettlementIsTx DEF Ready
    <3>2. PaymentsOf(1) = PaymentsOf(1) /\ new.kind # "claim"
      BY <3>1
    <3> QED
      BY <3>1, <3>2, PaymentSent DEF PaymentsOf, Ready, TypeInv
  <2>2. CASE UNCHANGED chain
    BY <2>2, SamePayments
  <2> QED
    BY <2>1, <2>2 DEF vars, Confirm, Tick, Transfer, Quiet, AskForDeposits, CheckRequestor,
         CheckProvider, AskForSettledDeposit, LockSettlement, SaveSettlement, Abort, ether
<1> QED
  BY <1>1, <1>2, <1>3, <1>4, <1>5

\* A claim is made when nothing was sent for it.
LEMMA InsertClaimsLedger ==
  ASSUME Ready, ClaimLedger, NEW w \in Worker, InsertClaims(w)
  PROVE  ClaimLedger'
<1>1. UNCHANGED <<settlements, ether, watched>> /\ Step(w, Idle)
  BY DEF InsertClaims
<1>2. \A v \in Worker : at'[v] = at[v] \/ ~ IsFinalizing(at'[v])
  BY <1>1, StepTaken DEF Ready, TypeInv, IsFinalizing, Idle
<1>3. \A v \in Worker : IsFinalizing(at'[v]) => at'[v].key \in ClaimKey
  BY <1>2, FinalizingKey
<1>4. /\ UNCHANGED chain /\ Confirmed' = Confirmed
      /\ \A k : PaymentsOf(k)' = PaymentsOf(k)
  BY <1>1, SamePayments DEF ether, Confirmed
<1>5. CASE UNCHANGED claims
  BY <1>2, <1>3, <1>4, <1>5, ClaimLedgerKept
<1>6. CASE ~ UNCHANGED claims
  <2> DEFINE new == NewClaims(at[w])
  <2>1. /\ \A k \in new : ~ Exists(k)
        /\ claims' = [k \in ClaimKey |-> IF k \in new THEN [amount |-> AmountOf(k), tx |-> NULL]
                                         ELSE claims[k]]
    BY <1>6 DEF InsertClaims
  <2> HIDE DEF new
  <2>2. \A v \in Worker : IsFinalizing(at'[v]) => at'[v] = at[v] /\ at[v].key \notin new
    BY <1>2, <2>1, FinalizingKey
  <2>3. \A v \in Worker : at'[v].op \in {"lock_claim", "pay_claim"} =>
                             (PaymentsOf(at[v].key))' = {}
    BY <1>4, <2>2 DEF ClaimLedger, IsFinalizing
  <2>4. \A v \in Worker : at'[v].op = "save_claim" => at'[v].tx \in (PaymentsOf(at[v].key))'
    BY <1>4, <2>2 DEF ClaimLedger, IsFinalizing
  <2>5. \A k \in ClaimKey : claims'[k].tx # NULL => claims'[k].tx \in PaymentsOf(k)'
    BY <1>4, <2>1 DEF ClaimLedger
  <2>6. \A k \in ClaimKey : claims'[k].amount <= AmountOf(k)
    BY <2>1, Constants DEF ClaimLedger
  <2>7. ASSUME NEW k \in ClaimKey, NEW i \in PaymentsOf(k)'
        PROVE  /\ PaymentsOf(k)' = {i}
               /\ chain'[i].payer = PayerOf(k)
               /\ chain'[i].amount <= AmountOf(k)
               /\ Exists(k)' => chain'[i].amount <= claims'[k].amount
               /\ i \notin Confirmed' => Exists(k)' /\ chain'[i].amount = claims'[k].amount
    <3>1. i \in PaymentsOf(k) /\ chain'[i] = chain[i]
      BY <1>4
    <3>2. CASE k \in new
      <4>1. claims'[k].amount = AmountOf(k) /\ ~ Exists(k)
        BY <2>1, <3>2
      <4> QED
        BY <1>4, <3>1, <4>1 DEF ClaimLedger
    <3>3. CASE k \notin new
      <4>1. claims'[k] = claims[k] /\ Exists(k)' = Exists(k)
        BY <2>1, <3>3 DEF Exists
      <4> QED
        BY <1>4, <3>1, <4>1 DEF ClaimLedger
    <3> QED
      BY <3>2, <3>3
  <2> QED
    BY <2>3, <2>4, <2>5, <2>6, <2>7 DEF ClaimLedger
<1> QED
  BY <1>5, <1>6

\* One claim changes, for which nothing was sent that is not confirmed.
LEMMA OneClaimsLedger ==
  ASSUME Ready, ClaimLedger, NEW k \in ClaimKey, NEW new, UNCHANGED <<chain, blocks>>,
         claims' = [claims EXCEPT ![k] = new],
         new.amount <= AmountOf(k),
         new.tx # NULL => new.tx \in PaymentsOf(k),
         \A i \in PaymentsOf(k) :
           /\ new # NoClaim => chain[i].amount <= new.amount
           /\ i \notin Confirmed => new # NoClaim /\ chain[i].amount = new.amount,
         \A v \in Worker : at'[v] = at[v] \/ ~ IsFinalizing(at'[v])
           \/ (at'[v] = [op |-> "pay_claim", key |-> k] /\ PaymentsOf(k) = {})
  PROVE  ClaimLedger'
<1>1. /\ UNCHANGED chain /\ Confirmed' = Confirmed
      /\ \A j : PaymentsOf(j)' = PaymentsOf(j)
  BY SamePayments DEF Confirmed
<1>2. \A j \in ClaimKey : claims'[j] = IF j = k THEN new ELSE claims[j]
  BY DEF Ready, TypeInv, TypeOK
<1>3. \A v \in Worker : at'[v].op \in {"lock_claim", "pay_claim"} =>
                           (PaymentsOf(at[v].key))' = {}
  BY <1>1 DEF ClaimLedger, IsFinalizing
<1>4. \A v \in Worker : at'[v].op = "save_claim" => at'[v].tx \in (PaymentsOf(at[v].key))'
  BY <1>1 DEF ClaimLedger, IsFinalizing
<1>5. \A j \in ClaimKey : claims'[j].tx # NULL => claims'[j].tx \in PaymentsOf(j)'
  BY <1>1, <1>2 DEF ClaimLedger
<1>6. \A j \in ClaimKey : claims'[j].amount <= AmountOf(j)
  BY <1>2 DEF ClaimLedger
<1>7. ASSUME NEW j \in ClaimKey, NEW i \in PaymentsOf(j)'
      PROVE  /\ PaymentsOf(j)' = {i}
             /\ chain'[i].payer = PayerOf(j)
             /\ chain'[i].amount <= AmountOf(j)
             /\ Exists(j)' => chain'[i].amount <= claims'[j].amount
             /\ i \notin Confirmed' => Exists(j)' /\ chain'[i].amount = claims'[j].amount
  <2>1. i \in PaymentsOf(j) /\ chain'[i] = chain[i]
    BY <1>1
  <2>2. CASE j = k
    <3>1. claims'[j] = new /\ Exists(j)' = (new # NoClaim)
      BY <1>2, <2>2 DEF Exists
    <3> QED
      BY <1>1, <2>1, <2>2, <3>1 DEF ClaimLedger
  <2>3. CASE j # k
    <3>1. claims'[j] = claims[j] /\ Exists(j)' = Exists(j)
      BY <1>2, <2>3 DEF Exists
    <3> QED
      BY <1>1, <2>1, <3>1 DEF ClaimLedger
  <2> QED
    BY <2>2, <2>3
<1> QED
  BY <1>3, <1>4, <1>5, <1>6, <1>7 DEF ClaimLedger

\* A claim is taken up when nothing was sent for it.
LEMMA AskForPayersDepositLedger ==
  ASSUME Ready, ClaimLedger, NEW w \in Worker, NEW k \in ClaimKey, AskForPayersDeposit(w, k)
  PROVE  ClaimLedger'
<1> DEFINE step == [op |-> "lock_claim", key |-> k, funds |-> deposit[PayerOf(k)]]
<1>1. UNCHANGED <<now, table, ether, watched>> /\ Step(w, step) /\ PaymentsOf(k) = {}
  BY DEF AskForPayersDeposit
<1>2. step.op = "lock_claim" /\ step.key = k
  OBVIOUS
<1> HIDE DEF step
<1>3. \A v \in Worker : at'[v] = IF v = w THEN step ELSE at[v]
  BY <1>1, StepTaken DEF Ready, TypeInv
<1>4. /\ UNCHANGED <<chain, claims>> /\ Confirmed' = Confirmed
      /\ \A j : PaymentsOf(j)' = PaymentsOf(j)
  BY <1>1, SamePayments DEF ether, table, Confirmed
<1>5. \A v \in Worker : at'[v].op \in {"lock_claim", "pay_claim"} =>
                           (PaymentsOf(at[v].key))' = {}
  BY <1>1, <1>2, <1>3, <1>4 DEF ClaimLedger
<1>6. \A v \in Worker : at'[v].op = "save_claim" => at'[v].tx \in (PaymentsOf(at[v].key))'
  BY <1>2, <1>3, <1>4 DEF ClaimLedger
<1>7. \A j \in ClaimKey : Exists(j)' = Exists(j)
  BY <1>4 DEF Exists
<1>8. \A j \in ClaimKey : claims'[j].tx # NULL => claims'[j].tx \in PaymentsOf(j)'
  BY <1>4 DEF ClaimLedger
<1>9. \A j \in ClaimKey : claims'[j].amount <= AmountOf(j)
  BY <1>4 DEF ClaimLedger
<1>10. \A j \in ClaimKey : \A i \in PaymentsOf(j)' :
        /\ PaymentsOf(j)' = {i}
        /\ chain'[i].payer = PayerOf(j)
        /\ chain'[i].amount <= AmountOf(j)
        /\ Exists(j)' => chain'[i].amount <= claims'[j].amount
        /\ i \notin Confirmed' => Exists(j)' /\ chain'[i].amount = claims'[j].amount
  BY <1>4, <1>7 DEF ClaimLedger
<1> QED
  BY <1>5, <1>6, <1>8, <1>9, <1>10 DEF ClaimLedger

\* A claim is lowered before it is paid.
LEMMA LockClaimLedger ==
  ASSUME Ready, ClaimLedger, NEW w \in Worker, LockClaim(w)
  PROVE  ClaimLedger'
<1> DEFINE k == at[w].key
           available == AvailableFunds(k, at[w].funds)
<1>1. UNCHANGED <<now, settlements, ether, watched>> /\ at[w].op = "lock_claim"
  BY DEF LockClaim
<1>2. k \in ClaimKey /\ at[w].funds \in Nat /\ claims[k].tx = NULL /\ PaymentsOf(k) = {}
  <2>1. k \in ClaimKey /\ at[w].funds \in Nat
    BY <1>1, StepFields DEF Ready, TypeInv, TypeOK
  <2>2. claims[k].tx = NULL
    BY <1>1, FinalizingKey DEF IsFinalizing
  <2> QED
    BY <1>1, <2>1, <2>2 DEF ClaimLedger
<1>3. available \in Int
  BY <1>2, ClaimsAreNumbers, ColumnsAreTyped DEF AvailableFunds, Ready, TypeInv
<1>4. PICK old \in Nat : claims[k] = [amount |-> old, tx |-> NULL] /\ old <= AmountOf(k)
  <2>1. claims[k] \in Claim
    BY <1>2 DEF Ready, TypeInv, TypeOK
  <2>2. claims[k].amount <= AmountOf(k)
    BY <1>2 DEF ClaimLedger
  <2> QED
    BY <1>2, <2>1, <2>2 DEF Claim
<1>5. AmountOf(k) \in Nat
  BY <1>2, Constants
<1>6. CASE NothingLeft(available)
  <2>1. claims' = [claims EXCEPT ![k] = NoClaim] /\ Step(w, Idle)
    BY <1>6 DEF LockClaim
  <2>2. \A v \in Worker : at'[v] = at[v] \/ ~ IsFinalizing(at'[v])
    BY <2>1, StepTaken DEF Ready, TypeInv, IsFinalizing, Idle
  <2>3. NoClaim.amount <= AmountOf(k) /\ NoClaim.tx = NULL
    BY <1>5 DEF NoClaim
  <2> HIDE DEF k
  <2> QED
    BY <1>1, <1>2, <2>1, <2>2, <2>3, OneClaimsLedger DEF ether
<1>7. CASE ~ NothingLeft(available)
  <2> DEFINE amount == IF available < claims[k].amount THEN available ELSE claims[k].amount
             new == [amount |-> amount, tx |-> NULL]
  <2>1. claims' = [claims EXCEPT ![k].amount = amount] /\ Step(w, [op |-> "pay_claim", key |-> k])
    BY <1>7 DEF LockClaim
  <2>2. [claims[k] EXCEPT !.amount = amount] = new
    BY <1>4
  <2>3. claims' = [claims EXCEPT ![k] = new]
    BY <2>1, <2>2
  <2>4. new.amount <= AmountOf(k) /\ new.tx = NULL
    BY <1>3, <1>4, <1>5
  <2>5. \A v \in Worker : at'[v] = at[v] \/ at'[v] = [op |-> "pay_claim", key |-> k]
    BY <2>1, StepTaken DEF Ready, TypeInv
  <2> HIDE DEF k, new
  <2> QED
    BY <1>1, <1>2, <2>3, <2>4, <2>5, OneClaimsLedger DEF ether
<1> QED
  BY <1>6, <1>7

\* The hash that is saved is that of the payment for the claim.
LEMMA SaveClaimLedger ==
  ASSUME Ready, ClaimLedger, NEW w \in Worker, SaveClaim(w)
  PROVE  ClaimLedger'
<1>0. PICK k, tx : k = at[w].key /\ tx = at[w].tx
  OBVIOUS
<1>1. /\ UNCHANGED <<now, settlements, ether>> /\ at[w].op = "save_claim" /\ Step(w, Idle)
      /\ claims' = [claims EXCEPT ![k].tx = tx]
  BY <1>0 DEF SaveClaim
<1>2. k \in ClaimKey /\ tx \in PaymentsOf(k) /\ tx # NULL /\ Exists(k)
  BY <1>0, <1>1, FinalizingKey, PaymentsArePlaces DEF ClaimLedger, IsFinalizing, Ready, TypeInv, NULL
<1>3. PICK amount \in Nat : /\ amount = claims[k].amount
                            /\ [claims[k] EXCEPT !.tx = tx] = [amount |-> amount, tx |-> tx]
  <2>1. claims[k] \in Claim
    BY <1>2 DEF Ready, TypeInv, TypeOK
  <2>2. PICK amount \in Nat, old \in Nat : claims[k] = [amount |-> amount, tx |-> old]
    BY <2>1 DEF Claim
  <2> QED
    BY <2>2
<1> DEFINE new == [amount |-> amount, tx |-> tx]
<1>4. claims' = [claims EXCEPT ![k] = new]
  BY <1>1, <1>3
<1>5. new.amount = claims[k].amount /\ new.tx = tx /\ new # NoClaim
  BY <1>2, <1>3 DEF NoClaim
<1>6. \A v \in Worker : at'[v] = at[v] \/ ~ IsFinalizing(at'[v])
  BY <1>1, StepTaken DEF Ready, TypeInv, IsFinalizing, Idle
<1>7. new.amount <= AmountOf(k)
  BY <1>2, <1>5 DEF ClaimLedger
<1> HIDE DEF new
<1>8. \A i \in PaymentsOf(k) :
           /\ new # NoClaim => chain[i].amount <= new.amount
           /\ i \notin Confirmed => new # NoClaim /\ chain[i].amount = new.amount
  BY <1>2, <1>5 DEF ClaimLedger
<1> QED
  BY <1>1, <1>2, <1>4, <1>5, <1>6, <1>7, <1>8, OneClaimsLedger DEF ether

\* The payment of a claim that is discarded is confirmed.
LEMMA DiscardClaimLedger ==
  ASSUME Ready, ClaimLedger, NEW w \in Worker, NEW k \in ClaimKey, DiscardClaim(w, k)
  PROVE  ClaimLedger'
<1>1. UNCHANGED <<settlements, ether, at>> /\ claims' = [claims EXCEPT ![k] = NoClaim]
  BY DEF DiscardClaim
<1>2. claims[k].tx \in Confirmed /\ claims[k].tx # NULL
  BY PaymentsArePlaces DEF DiscardClaim, Ready, TypeInv, NULL
<1>3. PaymentsOf(k) = {claims[k].tx}
  BY <1>2 DEF ClaimLedger
<1>4. NoClaim.amount <= AmountOf(k) /\ NoClaim.tx = NULL
  BY Constants DEF NoClaim
<1> QED
  BY <1>1, <1>2, <1>3, <1>4, OneClaimsLedger DEF ether

\* The payment is the first for its claim, and of its amount.
LEMMA PayClaimLedger ==
  ASSUME Ready, ClaimLedger, NEW w \in Worker, PayClaim(w)
  PROVE  ClaimLedger'
<1>0. PICK k, n : k = at[w].key /\ n = Len(chain) + 1
  OBVIOUS
<1> DEFINE step == [op |-> "save_claim", key |-> k, tx |-> n]
<1>1. /\ UNCHANGED <<now, table, deposit, blocks, transfers, watched>>
      /\ at[w].op = "pay_claim" /\ Step(w, step)
  BY <1>0 DEF PayClaim
<1>2. k \in ClaimKey /\ Exists(k) /\ claims[k].tx = NULL /\ PaymentsOf(k) = {}
  BY <1>0, <1>1, FinalizingKey DEF ClaimLedger, IsFinalizing
<1>3. PICK new \in Tx : /\ chain' = Append(chain, new)
                        /\ new.kind = "claim" /\ new.key = k
                        /\ new.payer = PayerOf(k) /\ new.amount = claims[k].amount
  BY <1>0, ClaimIsTx DEF Ready
<1>4. /\ chain'[n] = new /\ n \notin DOMAIN chain
      /\ \A i \in DOMAIN chain : chain'[i] = chain[i]
      /\ \A j : PaymentsOf(j)' = IF j = k THEN PaymentsOf(k) \union {n} ELSE PaymentsOf(j)
  BY <1>0, <1>3, PaymentSent DEF Ready, TypeInv
<1>5. step.op = "save_claim" /\ step.key = k /\ step.tx = n
  OBVIOUS
<1> HIDE DEF step
<1>6. \A v \in Worker : at'[v] = IF v = w THEN step ELSE at[v]
  BY <1>1, StepTaken DEF Ready, TypeInv
<1>7. Confirmed' = Confirmed /\ UNCHANGED claims /\ \A j : Exists(j)' = Exists(j)
  BY <1>1 DEF Confirmed, table, Exists
<1>8. PaymentsOf(k)' = {n} /\ \A j : j # k => PaymentsOf(j)' = PaymentsOf(j)
  BY <1>2, <1>4
<1>9. ASSUME NEW v \in Worker, v # w, IsFinalizing(at'[v])
      PROVE  at'[v] = at[v] /\ at[v].key # k /\ (PaymentsOf(at[v].key))' = PaymentsOf(at[v].key)
  <2>1. at'[v] = at[v]
    BY <1>6, <1>9
  <2>2. at[v].key # k
    BY <1>0, <1>1, <1>9, <2>1 DEF Ready, Inv, OneFinalizer, IsFinalizing
  <2>3. PICK j : j = at[v].key
    OBVIOUS
  <2>4. PaymentsOf(j)' = PaymentsOf(j) /\ at'[v].key = j
    BY <1>8, <2>1, <2>2, <2>3
  <2> QED
    BY <2>1, <2>2, <2>3, <2>4
<1>10. \A v \in Worker : at'[v].op \in {"lock_claim", "pay_claim"} =>
                           (PaymentsOf(at[v].key))' = {}
  BY <1>5, <1>6, <1>9 DEF ClaimLedger, IsFinalizing
<1>11. \A v \in Worker : at'[v].op = "save_claim" => at'[v].tx \in (PaymentsOf(at[v].key))'
  <2> SUFFICES ASSUME NEW v \in Worker, at'[v].op = "save_claim"
               PROVE  at'[v].tx \in (PaymentsOf(at[v].key))'
    OBVIOUS
  <2>1. CASE v = w
    BY <1>5, <1>6, <1>8, <2>1
  <2>2. CASE v # w
    BY <1>9, <2>2 DEF ClaimLedger, IsFinalizing
  <2> QED
    BY <2>1, <2>2
<1>12. ASSUME NEW j \in ClaimKey
       PROVE  claims'[j].tx # NULL => claims'[j].tx \in PaymentsOf(j)'
  BY <1>2, <1>7, <1>8 DEF ClaimLedger
<1>13. \A j \in ClaimKey : claims'[j].amount <= AmountOf(j)
  BY <1>7 DEF ClaimLedger
<1>14. ASSUME NEW j \in ClaimKey, NEW i \in PaymentsOf(j)'
       PROVE  /\ PaymentsOf(j)' = {i}
              /\ chain'[i].payer = PayerOf(j)
              /\ chain'[i].amount <= AmountOf(j)
              /\ Exists(j)' => chain'[i].amount <= claims'[j].amount
              /\ i \notin Confirmed' => Exists(j)' /\ chain'[i].amount = claims'[j].amount
  <2>1. CASE j = k
    <3>1. i = n /\ chain'[i] = new /\ claims[k].amount \in Nat
      BY <1>2, <1>4, <1>8, <2>1, PaymentsArePlaces DEF Ready, TypeInv
    <3> QED
      BY <1>2, <1>3, <1>7, <1>8, <2>1, <3>1 DEF ClaimLedger
  <2>2. CASE j # k
    <3>1. i \in PaymentsOf(j) /\ chain'[i] = chain[i]
      BY <1>4, <1>8, <2>2, PaymentsArePlaces DEF Ready, TypeInv
    <3> QED
      BY <1>7, <1>8, <2>2, <3>1 DEF ClaimLedger
  <2> QED
    BY <2>1, <2>2
<1> QED
  BY <1>10, <1>11, <1>12, <1>13, <1>14 DEF ClaimLedger

\* Every step keeps the ledger of claims.
LEMMA ClaimLedgerStep ==
  ASSUME Ready, ClaimLedger, [Next]_vars
  PROVE  ClaimLedger'
<1>1. CASE UNCHANGED vars \/ Confirm \/ Tick \/ \E s \in Subtask : Transfer(s)
  BY <1>1, QuietClaims
<1>2. ASSUME NEW w \in Worker, Quiet(w) PROVE ClaimLedger'
  BY <1>2, QuietClaims
<1>3. ASSUME NEW w \in Worker, InsertClaims(w) \/ LockClaim(w) \/ PayClaim(w) \/ SaveClaim(w)
      PROVE  ClaimLedger'
  BY <1>3, InsertClaimsLedger, LockClaimLedger, PayClaimLedger, SaveClaimLedger
<1>4. ASSUME NEW w \in Worker, NEW k \in ClaimKey,
             AskForPayersDeposit(w, k) \/ DiscardClaim(w, k)
      PROVE  ClaimLedger'
  BY <1>4, AskForPayersDepositLedger, DiscardClaimLedger
<1> QED
  BY <1>1, <1>2, <1>3, <1>4 DEF Next, Quiet

-----------------------------------------------------------------------------
\* The steps that neither make nor pay a settlement.
LEMMA SettlementLedgerKept ==
  ASSUME SettlementLedger, UNCHANGED settlements, SettlementsSent' = SettlementsSent,
         \A i \in SettlementsSent : chain'[i] = chain[i],
         Confirmed' \subseteq DOMAIN chain',
         \A v \in Worker : at'[v] = at[v] \/ ~ Settling(v)'
  PROVE  SettlementLedger'
<1>1. \A i \in SettlementsSent' :
       /\ chain'[i].row \in DOMAIN settlements'
       /\ chain'[i].payer = settlements'[chain'[i].row].payer
       /\ chain'[i].amount <= settlements'[chain'[i].row].amount
  BY DEF SettlementLedger
<1>2. \A i, j \in SettlementsSent' : chain'[i].row = chain'[j].row => i = j
  BY DEF SettlementLedger
<1>3. \A j \in DOMAIN settlements' : settlements'[j].tx # NULL =>
       settlements'[j].tx \in SettlementsSent' /\ chain'[settlements'[j].tx].row = j
  BY DEF SettlementLedger
<1>4. \A w \in Worker : at'[w].op = "pay_settlement" =>
       /\ settlements'[at'[w].row].tx = NULL
       /\ \A i \in SettlementsSent' : chain'[i].row # at'[w].row
  BY DEF SettlementLedger, Settling
<1>5. \A w \in Worker : at'[w].op = "save_settlement" =>
       at'[w].tx \in SettlementsSent' /\ chain'[at'[w].tx].row = at'[w].row
  BY DEF SettlementLedger, Settling
<1>6. \A v, w \in Worker : v # w /\ Settling(v)' /\ Settling(w)' => at'[v].row # at'[w].row
  BY DEF SettlementLedger, Settling
<1> QED
  BY <1>1, <1>2, <1>3, <1>4, <1>5, <1>6 DEF SettlementLedger

\* The steps of a worker that are not about settlements.
NotSettling(w) ==
  \/ \E s \in Subtask, use \in UseCase : AskForDeposits(w, s, use)
  \/ CheckRequestor(w) \/ CheckProvider(w) \/ InsertClaims(w)
  \/ \E k \in ClaimKey : AskForPayersDeposit(w, k) \/ DiscardClaim(w, k)
  \/ LockClaim(w) \/ PayClaim(w) \/ SaveClaim(w)
  \/ \E acceptances \in SUBSET Subtask : AskForSettledDeposit(w, acceptances)
  \/ Abort(w)

\* An operation that does not settle changes no settlement and no worker that does.
LEMMA NotSettlingIsAStep ==
  ASSUME TypeOK, NEW w \in Worker, NotSettling(w)
  PROVE  /\ UNCHANGED <<now, deposit, settlements, blocks, transfers>>
         /\ \A v \in Worker : at'[v] = at[v] \/ (v = w /\ ~ Settling(v)')
<1>1. CASE \E k \in ClaimKey : DiscardClaim(w, k)
  BY <1>1 DEF DiscardClaim, ether
<1>2. CASE ~ \E k \in ClaimKey : DiscardClaim(w, k)
  <2>1. \E step : Step(w, step) /\ step.op \notin {"pay_settlement", "save_settlement"}
    <3>1. CASE \E s \in Subtask, use \in UseCase : AskForDeposits(w, s, use)
      BY <3>1 DEF AskForDeposits
    <3>2. CASE CheckRequestor(w)
      BY <3>2 DEF CheckRequestor, Idle
    <3>3. CASE CheckProvider(w)
      BY <3>3 DEF CheckProvider, Idle
    <3>4. CASE InsertClaims(w) \/ SaveClaim(w) \/ Abort(w)
      BY <3>4 DEF InsertClaims, SaveClaim, Abort, Idle
    <3>5. CASE \E k \in ClaimKey : AskForPayersDeposit(w, k)
      BY <3>5 DEF AskForPayersDeposit
    <3>6. CASE LockClaim(w)
      BY <3>6 DEF LockClaim, Idle
    <3>7. CASE PayClaim(w)
      BY <3>7 DEF PayClaim
    <3>8. CASE \E acceptances \in SUBSET Subtask : AskForSettledDeposit(w, acceptances)
      BY <3>8 DEF AskForSettledDeposit
    <3> QED
      BY <1>2, <3>1, <3>2, <3>3, <3>4, <3>5, <3>6, <3>7, <3>8 DEF NotSettling
  <2>2. UNCHANGED <<now, deposit, settlements, blocks, transfers>>
    BY <1>2 DEF NotSettling, AskForDeposits, CheckRequestor, CheckProvider, InsertClaims,
            AskForPayersDeposit, LockClaim, PayClaim, SaveClaim, AskForSettledDeposit, Abort,
            table, ether
  <2> QED
    BY <2>1, <2>2, StepTaken DEF Settling
<1> QED
  BY <1>1, <1>2

\* It sends nothing but the payment of a claim.
LEMMA OnlyPaymentsAreSent ==
  ASSUME NEW w \in Worker, NotSettling(w)
  PROVE  UNCHANGED chain \/ PayClaim(w)
BY DEF NotSettling, AskForDeposits, CheckRequestor, CheckProvider, InsertClaims,
       AskForPayersDeposit, LockClaim, DiscardClaim, SaveClaim, AskForSettledDeposit, Abort, ether

\* A block confirms the next of the transactions that were sent.
LEMMA BlockMined ==
  ASSUME TypeInv, Confirm
  PROVE  LET n == Len(blocks) + 1
             payer == chain[n].payer
         IN /\ Confirmed' = Confirmed \union {n}
            /\ n \notin Confirmed /\ n \in DOMAIN chain
            /\ payer \in Account /\ chain[n].amount \in Nat /\ deposit[payer] \in Nat
            /\ \A i \in Confirmed : blocks'[i] = blocks[i]
            /\ blocks'[n].moved = IF chain[n].amount <= deposit[payer] THEN chain[n].amount
                                  ELSE deposit[payer]
            /\ deposit' = [deposit EXCEPT ![payer] = @ - blocks'[n].moved]
<1>1. PICK n : n = Len(blocks) + 1
  OBVIOUS
<1>2. PICK payer : payer = chain[n].payer
  OBVIOUS
<1>3. PICK moved : moved = Min({chain[n].amount, deposit[payer]})
  OBVIOUS
<1>4. /\ n \in DOMAIN chain /\ blocks' = Append(blocks, [ts |-> now, moved |-> moved])
      /\ deposit' = [deposit EXCEPT ![payer] = @ - moved]
  BY <1>1, <1>2, <1>3 DEF Confirm
<1>5. chain[n].amount \in Nat /\ payer \in Account
  <2>1. chain[n] \in Tx
    BY <1>4, ListsAreTyped DEF TypeInv
  <2> QED
    BY <1>2, <2>1 DEF Tx
<1>6. deposit[payer] \in Nat
  BY <1>5 DEF TypeInv, TypeOK
<1>7. moved = IF chain[n].amount <= deposit[payer] THEN chain[n].amount ELSE deposit[payer]
  BY <1>3, <1>5, <1>6, MinOfTwo
<1>8. /\ DOMAIN blocks' = DOMAIN blocks \union {n} /\ n \notin DOMAIN blocks
      /\ blocks'[n] = [ts |-> now, moved |-> moved]
      /\ \A i \in DOMAIN blocks : blocks'[i] = blocks[i]
  BY <1>1, <1>4, ListsAreTyped, Grown DEF TypeInv
<1>9. blocks'[n].moved = moved
  BY <1>8
<1> QED
  BY <1>1, <1>2, <1>4, <1>5, <1>6, <1>7, <1>8, <1>9 DEF Confirmed

\* Whatever does not settle keeps the ledger of settlements.
LEMMA QuietSettlements ==
  ASSUME Ready, SettlementLedger,
         \/ UNCHANGED vars \/ Confirm \/ Tick \/ \E s \in Subtask : Transfer(s)
         \/ \E w \in Worker : NotSettling(w)
  PROVE  SettlementLedger'
<1>1. CASE UNCHANGED vars \/ Tick \/ \E s \in Subtask : Transfer(s)
  <2>1. UNCHANGED <<settlements, chain, at, blocks>>
    BY <1>1 DEF vars, Tick, Transfer, table, ether
  <2>2. SettlementsSent' = SettlementsSent /\ Confirmed' = Confirmed
    BY <2>1 DEF SettlementsSent, Confirmed
  <2>3. Confirmed' \subseteq DOMAIN chain'
    BY <2>1, <2>2 DEF SettlementLedger
  <2> QED
    BY <2>1, <2>2, <2>3, SettlementLedgerKept
<1>2. CASE Confirm
  <2>1. UNCHANGED <<settlements, chain, at>>
    BY <1>2 DEF Confirm, table
  <2>2. SettlementsSent' = SettlementsSent
    BY <2>1 DEF SettlementsSent
  <2>3. Confirmed' \subseteq DOMAIN chain'
    BY <1>2, <2>1, BlockMined DEF SettlementLedger, Ready
  <2> QED
    BY <2>1, <2>2, <2>3, SettlementLedgerKept
<1>3. ASSUME NEW w \in Worker, NotSettling(w)
      PROVE  SettlementLedger'
  <2>1. /\ UNCHANGED <<settlements, blocks>>
        /\ \A v \in Worker : at'[v] = at[v] \/ ~ Settling(v)'
    BY <1>3, NotSettlingIsAStep DEF Ready, TypeInv
  <2>2. CASE UNCHANGED chain
    <3>1. SettlementsSent' = SettlementsSent /\ Confirmed' \subseteq DOMAIN chain'
      BY <2>1, <2>2 DEF SettlementsSent, SettlementLedger, Confirmed
    <3> QED
      BY <2>1, <2>2, <3>1, SettlementLedgerKept
  <2>3. CASE PayClaim(w)
    <3>1. PICK new \in Tx : chain' = Append(chain, new) /\ new.kind = "claim"
      BY <2>3, ClaimIsTx DEF Ready
    <3>2. /\ SettlementsSent' = SettlementsSent
          /\ DOMAIN chain \subseteq DOMAIN chain'
          /\ \A i \in DOMAIN chain : chain'[i] = chain[i]
      BY <3>1, PaymentSent DEF Ready, TypeInv
    <3>3. /\ \A i \in SettlementsSent : chain'[i] = chain[i]
          /\ Confirmed' \subseteq DOMAIN chain'
      BY <2>1, <3>2 DEF SettlementsSent, SettlementLedger, Confirmed
    <3> QED
      BY <2>1, <3>2, <3>3, SettlementLedgerKept
  <2> QED
    BY <1>3, <2>2, <2>3, OnlyPaymentsAreSent
<1> QED
  BY <1>1, <1>2, <1>3

\* The row that is made.
IsRowMade(w, new, n) ==
  /\ n = Len(settlements) + 1 /\ n \notin DOMAIN settlements
  /\ settlements' = Append(settlements, new)
  /\ settlements'[n] = new /\ DOMAIN settlements' = DOMAIN settlements \union {n}
  /\ \A j \in DOMAIN settlements : settlements'[j] = settlements[j]
  /\ <<new.payer, new.payee>> = at[w].pair /\ new.tx = NULL
  /\ new.closure = YoungestTs(at[w].acceptances)
  /\ new.amount = RequestorPayableAmount(at[w].pair, at[w].acceptances, at[w].funds)
  /\ new.amount > 0
  /\ ~ Mismatch(at[w].pair, OldestTs(at[w].acceptances))
  /\ \A v \in Worker : at'[v] = IF v = w THEN [op |-> "pay_settlement", row |-> n] ELSE at[v]

\* The settlement that is decided on: its row, and the worker that pays it.
LEMMA RowMade ==
  ASSUME TypeInv, NEW w \in Worker, LockSettlement(w), ~ UNCHANGED settlements
  PROVE  /\ at[w].op = "settle" /\ at[w].acceptances # {} /\ at[w].funds \in Nat
         /\ at[w].pair \in Account \X Account /\ at[w].acceptances \in SUBSET Subtask
         /\ \E new \in Row, n \in Nat \ {0} : IsRowMade(w, new, n)
<1> DEFINE c == at[w]
           payable == RequestorPayableAmount(c.pair, c.acceptances, c.funds)
<1>1. c.op = "settle"
  BY DEF LockSettlement
<1>2. c.pair \in Account \X Account /\ c.acceptances \in SUBSET Subtask /\ c.funds \in Nat
      /\ c.acceptances # {}
  BY <1>1, StepFields DEF TypeInv, TypeOK
<1>3. payable \in Int
  BY <1>2, PayableIsNumber
<1> DEFINE new == [payer |-> c.pair[1], payee |-> c.pair[2], amount |-> payable, tx |-> NULL,
                   closure |-> YoungestTs(c.acceptances)]
           n == Len(settlements) + 1
<1>4. /\ settlements' = Append(settlements, new) /\ ~ NothingLeft(payable)
      /\ Step(w, [op |-> "pay_settlement", row |-> n])
      /\ ~ Mismatch(c.pair, OldestTs(c.acceptances))
  BY DEF LockSettlement
<1>5. payable > 0 /\ payable \in Nat
  BY <1>3, <1>4 DEF NothingLeft
<1>6. new \in Row
  <2>1. YoungestTs(c.acceptances) \in Nat
    BY <1>2, Ages
  <2> QED
    BY <1>2, <1>5, <2>1 DEF Row, NULL
<1>7. /\ <<new.payer, new.payee>> = c.pair /\ new.tx = NULL /\ new.amount = payable
      /\ new.closure = YoungestTs(c.acceptances)
  BY <1>2
<1>8. settlements \in Seq(Row) /\ Len(settlements) \in Nat
  BY ListsAreTyped, Places DEF TypeInv
<1> HIDE DEF new
<1>9. /\ n \notin DOMAIN settlements
      /\ settlements'[n] = new /\ DOMAIN settlements' = DOMAIN settlements \union {n}
      /\ \A j \in DOMAIN settlements : settlements'[j] = settlements[j]
  BY <1>4, <1>8, Grown
<1>10. n \in Nat \ {0}
  BY <1>8
<1>11. \A v \in Worker : at'[v] = IF v = w THEN [op |-> "pay_settlement", row |-> n] ELSE at[v]
  BY <1>4, StepTaken DEF TypeInv
<1>12. IsRowMade(w, new, n)
  BY <1>4, <1>5, <1>7, <1>9, <1>11 DEF IsRowMade
<1> HIDE DEF n
<1> QED
  BY <1>1, <1>2, <1>6, <1>10, <1>12

\* The settlement that a worker pays is there.
LEMMA SettlingRow ==
  ASSUME TypeInv, NEW v \in Worker, at[v].op \in {"pay_settlement", "save_settlement"}
  PROVE  Settling(v) /\ at[v].row \in DOMAIN settlements
BY DEF TypeInv, Settling

\* Nothing was sent for a new settlement.
LEMMA LockSettlementLedger ==
  ASSUME Ready, SettlementLedger, NEW w \in Worker, LockSettlement(w)
  PROVE  SettlementLedger'
<1>1. UNCHANGED <<chain, blocks>> /\ SettlementsSent' = SettlementsSent /\ Confirmed' = Confirmed
  BY DEF LockSettlement, ether, SettlementsSent, Confirmed
<1>2. Confirmed' \subseteq DOMAIN chain'
  BY <1>1 DEF SettlementLedger
<1>3. CASE UNCHANGED settlements
  <2>1. \A v \in Worker : at'[v] = at[v] \/ ~ Settling(v)'
    <3>1. CASE Step(w, Idle)
      BY <3>1, StepTaken DEF Ready, TypeInv, Settling, Idle
    <3>2. CASE ~ Step(w, Idle)
      <4>1. PICK row : settlements' = Append(settlements, row)
        BY <3>2 DEF LockSettlement
      <4>2. Len(settlements') = Len(settlements) + 1 /\ Len(settlements) \in Nat
        BY <4>1, Grown, ListsAreTyped, Places DEF Ready, TypeInv
      <4> QED
        BY <1>3, <4>2
    <3> QED
      BY <3>1, <3>2
  <2> QED
    BY <1>1, <1>2, <1>3, <2>1, SettlementLedgerKept
<1>4. CASE ~ UNCHANGED settlements
  <2>0. PICK new \in Row, n \in Nat : IsRowMade(w, new, n)
    BY <1>4, RowMade DEF Ready
  <2>1.    /\ n \notin DOMAIN settlements
           /\ settlements'[n] = new /\ DOMAIN settlements' = DOMAIN settlements \union {n}
           /\ \A j \in DOMAIN settlements : settlements'[j] = settlements[j]
           /\ new.tx = NULL
           /\ \A v \in Worker : at'[v] = IF v = w THEN [op |-> "pay_settlement", row |-> n]
                                         ELSE at[v]
    BY <2>0 DEF IsRowMade
  <2>2. \A i \in SettlementsSent : chain[i].row \in DOMAIN settlements /\ chain[i].row # n
    BY <2>1 DEF SettlementLedger
  <2>3. \A i \in SettlementsSent' :
          /\ chain'[i].row \in DOMAIN settlements'
          /\ chain'[i].payer = settlements'[chain'[i].row].payer
          /\ chain'[i].amount <= settlements'[chain'[i].row].amount
    BY <1>1, <2>1, <2>2 DEF SettlementLedger
  <2>4. \A i, j \in SettlementsSent' : chain'[i].row = chain'[j].row => i = j
    BY <1>1 DEF SettlementLedger
  <2>5. \A j \in DOMAIN settlements' : settlements'[j].tx # NULL =>
          settlements'[j].tx \in SettlementsSent' /\ chain'[settlements'[j].tx].row = j
    BY <1>1, <2>1 DEF SettlementLedger
  <2>6. \A v \in Worker : Settling(v)' =>
          \/ v = w /\ at'[v].op = "pay_settlement" /\ at'[v].row = n
          \/ v # w /\ at'[v] = at[v] /\ Settling(v) /\ at[v].row \in DOMAIN settlements
    BY <2>1, SettlingRow DEF Settling, Ready
  <2>7. \A v \in Worker : at'[v].op = "pay_settlement" =>
          /\ settlements'[at'[v].row].tx = NULL
          /\ \A i \in SettlementsSent' : chain'[i].row # at'[v].row
    <3> SUFFICES ASSUME NEW v \in Worker, at'[v].op = "pay_settlement"
                 PROVE  /\ settlements'[at'[v].row].tx = NULL
                        /\ \A i \in SettlementsSent' : chain'[i].row # at'[v].row
      OBVIOUS
    <3>1. CASE at'[v].row = n
      BY <1>1, <2>1, <2>2, <3>1
    <3>2. CASE at'[v].row # n
      <4>1. at'[v] = at[v] /\ at[v].row \in DOMAIN settlements
        BY <2>6, <3>2 DEF Settling
      <4> QED
        BY <1>1, <2>1, <4>1 DEF SettlementLedger
    <3> QED
      BY <3>1, <3>2
  <2>8. \A v \in Worker : at'[v].op = "save_settlement" =>
          at'[v].tx \in SettlementsSent' /\ chain'[at'[v].tx].row = at'[v].row
    BY <1>1, <2>1 DEF SettlementLedger
  <2>9. \A u, v \in Worker : u # v /\ Settling(u)' /\ Settling(v)' => at'[u].row # at'[v].row
    BY <2>1, <2>6 DEF SettlementLedger
  <2> QED
    BY <1>2, <2>3, <2>4, <2>5, <2>7, <2>8, <2>9 DEF SettlementLedger
<1> QED
  BY <1>3, <1>4

\* The payment is the first for its settlement.
LEMMA PaySettlementLedger ==
  ASSUME Ready, SettlementLedger, NEW w \in Worker, PaySettlement(w)
  PROVE  SettlementLedger'
<1>0. PICK j, n : j = at[w].row /\ n = Len(chain) + 1
  OBVIOUS
<1>1. /\ UNCHANGED <<settlements, blocks>> /\ at[w].op = "pay_settlement"
      /\ Step(w, [op |-> "save_settlement", row |-> j, tx |-> n])
  BY <1>0 DEF PaySettlement, table
<1>2. j \in DOMAIN settlements /\ Settling(w)
  BY <1>0, <1>1, SettlingRow DEF Ready
<1>3. PICK new \in Tx : /\ chain' = Append(chain, new)
                        /\ new.kind = "settlement" /\ new.row = j
                        /\ new.payer = settlements[j].payer
                        /\ new.amount <= settlements[j].amount
  <2>1. PICK new \in Tx : /\ chain' = Append(chain, new)
                          /\ new.kind = "settlement" /\ new.row = j
                          /\ new.payer = settlements[j].payer
                          /\ new.amount = IF settlements[j].amount <= deposit[new.payer]
                                          THEN settlements[j].amount ELSE deposit[new.payer]
    BY <1>0, SettlementIsTx DEF Ready
  <2>2. settlements[j].amount \in Nat /\ settlements[j].payer \in Account
    BY <1>2, ListsAreTyped DEF Ready, TypeInv, Row
  <2>3. deposit[new.payer] \in Nat
    BY <2>1, <2>2 DEF Ready, TypeInv, TypeOK
  <2>4. new.amount <= settlements[j].amount
    BY <2>1, <2>2, <2>3
  <2> QED
    BY <2>1, <2>4
<1>4. /\ chain'[n] = new /\ n \notin DOMAIN chain
      /\ \A i \in DOMAIN chain : chain'[i] = chain[i]
      /\ DOMAIN chain' = DOMAIN chain \union {n}
      /\ SettlementsSent' = SettlementsSent \union {n}
  BY <1>0, <1>3, PaymentSent DEF Ready, TypeInv
<1>5. \A i \in SettlementsSent : i # n /\ chain'[i] = chain[i] /\ chain[i].row # j
  BY <1>0, <1>1, <1>4 DEF SettlementLedger, SettlementsSent
<1>15. \A i \in SettlementsSent' :
         \/ i = n /\ chain'[i] = new /\ chain'[i].row = j
         \/ i \in SettlementsSent /\ chain'[i] = chain[i] /\ chain[i].row # j
  BY <1>3, <1>4, <1>5
<1>6. \A v \in Worker : at'[v] = IF v = w THEN [op |-> "save_settlement", row |-> j, tx |-> n]
                                 ELSE at[v]
  BY <1>1, StepTaken DEF Ready, TypeInv
<1>7. Confirmed' \subseteq DOMAIN chain'
  BY <1>1, <1>4 DEF Confirmed, SettlementLedger
<1>8. ASSUME NEW i \in SettlementsSent'
      PROVE  /\ chain'[i].row \in DOMAIN settlements'
             /\ chain'[i].payer = settlements'[chain'[i].row].payer
             /\ chain'[i].amount <= settlements'[chain'[i].row].amount
  <2>1. CASE i = n
    BY <1>1, <1>2, <1>3, <1>4, <2>1
  <2>2. CASE i # n
    <3>1. i \in SettlementsSent /\ chain'[i] = chain[i]
      BY <1>15, <2>2
    <3> QED
      BY <1>1, <3>1 DEF SettlementLedger
  <2> QED
    BY <2>1, <2>2
<1>9. \A i, k \in SettlementsSent' : chain'[i].row = chain'[k].row => i = k
  BY <1>15 DEF SettlementLedger
<1>10. \A k \in DOMAIN settlements' : settlements'[k].tx # NULL =>
         settlements'[k].tx \in SettlementsSent' /\ chain'[settlements'[k].tx].row = k
  BY <1>1, <1>4, <1>5 DEF SettlementLedger
<1>11. \A v \in Worker : v # w /\ Settling(v) => at[v].row # j
  BY <1>0, <1>2 DEF SettlementLedger
<1>12. \A v \in Worker : at'[v].op = "pay_settlement" =>
         /\ settlements'[at'[v].row].tx = NULL
         /\ \A i \in SettlementsSent' : chain'[i].row # at'[v].row
  <2> SUFFICES ASSUME NEW v \in Worker, at'[v].op = "pay_settlement"
               PROVE  /\ settlements'[at'[v].row].tx = NULL
                      /\ \A i \in SettlementsSent' : chain'[i].row # at'[v].row
    OBVIOUS
  <2>1. v # w /\ at'[v] = at[v] /\ Settling(v)
    BY <1>6 DEF Settling
  <2>2. at[v].row # j
    BY <1>11, <2>1
  <2>3. \A i \in SettlementsSent : chain[i].row # at[v].row
    BY <2>1 DEF SettlementLedger
  <2>4. settlements[at[v].row].tx = NULL
    BY <2>1 DEF SettlementLedger
  <2> QED
    BY <1>1, <1>15, <2>1, <2>2, <2>3, <2>4
<1>13. \A v \in Worker : at'[v].op = "save_settlement" =>
         at'[v].tx \in SettlementsSent' /\ chain'[at'[v].tx].row = at'[v].row
  <2> SUFFICES ASSUME NEW v \in Worker, at'[v].op = "save_settlement"
               PROVE  at'[v].tx \in SettlementsSent' /\ chain'[at'[v].tx].row = at'[v].row
    OBVIOUS
  <2>1. CASE v = w
    BY <1>3, <1>4, <1>6, <2>1
  <2>2. CASE v # w
    <3>1. at'[v] = at[v] /\ at[v].tx \in SettlementsSent /\ chain[at[v].tx].row = at[v].row
      BY <1>6, <2>2 DEF SettlementLedger
    <3> QED
      BY <1>4, <1>5, <3>1
  <2> QED
    BY <2>1, <2>2
<1>14. \A u, v \in Worker : u # v /\ Settling(u)' /\ Settling(v)' => at'[u].row # at'[v].row
  <2>1. \A v \in Worker : at'[v].row = at[v].row /\ (Settling(v)' = Settling(v))
    BY <1>0, <1>1, <1>6 DEF Settling
  <2> QED
    BY <2>1 DEF SettlementLedger
<1> QED
  BY <1>7, <1>8, <1>9, <1>10, <1>12, <1>13, <1>14 DEF SettlementLedger

\* The hash that is saved is that of the payment for the settlement.
LEMMA SaveSettlementLedger ==
  ASSUME Ready, SettlementLedger, NEW w \in Worker, SaveSettlement(w)
  PROVE  SettlementLedger'
<1>0. PICK j, tx : j = at[w].row /\ tx = at[w].tx
  OBVIOUS
<1>1. /\ UNCHANGED <<chain, blocks>> /\ at[w].op = "save_settlement" /\ Step(w, Idle)
      /\ settlements' = [settlements EXCEPT ![j].tx = tx]
  BY <1>0 DEF SaveSettlement, ether
<1>2. j \in DOMAIN settlements /\ Settling(w)
  BY <1>0, <1>1, SettlingRow DEF Ready
<1>3. SettlementsSent' = SettlementsSent /\ Confirmed' = Confirmed
  BY <1>1 DEF SettlementsSent, Confirmed
<1>4. tx \in SettlementsSent /\ chain[tx].row = j
  BY <1>0, <1>1 DEF SettlementLedger
<1>5. /\ DOMAIN settlements' = DOMAIN settlements
      /\ settlements'[j] = [settlements[j] EXCEPT !.tx = tx]
      /\ \A k \in DOMAIN settlements : k # j => settlements'[k] = settlements[k]
  BY <1>1, <1>2, ListsAreTyped, Places DEF Ready, TypeInv
<1>6. settlements[j] \in Row
  BY <1>2, ListsAreTyped DEF Ready, TypeInv
<1>7. /\ settlements'[j].tx = tx /\ settlements'[j].payer = settlements[j].payer
      /\ settlements'[j].amount = settlements[j].amount
  BY <1>5, <1>6 DEF Row
<1>8. \A v \in Worker : at'[v] = IF v = w THEN Idle ELSE at[v]
  BY <1>1, StepTaken DEF Ready, TypeInv
<1>9. Confirmed' \subseteq DOMAIN chain'
  BY <1>1, <1>3 DEF SettlementLedger
<1>10. ASSUME NEW i \in SettlementsSent'
       PROVE  /\ chain'[i].row \in DOMAIN settlements'
              /\ chain'[i].payer = settlements'[chain'[i].row].payer
              /\ chain'[i].amount <= settlements'[chain'[i].row].amount
  <2>1. PICK k : k = chain[i].row /\ chain'[i].row = k
    BY <1>1
  <2>2. k \in DOMAIN settlements /\ chain[i].payer = settlements[k].payer
        /\ chain[i].amount <= settlements[k].amount
    BY <1>3, <2>1 DEF SettlementLedger
  <2>3. settlements'[k].payer = settlements[k].payer /\ settlements'[k].amount = settlements[k].amount
    BY <1>5, <1>7, <2>2
  <2> QED
    BY <1>1, <1>5, <2>1, <2>2, <2>3
<1>11. \A i, k \in SettlementsSent' : chain'[i].row = chain'[k].row => i = k
  BY <1>1, <1>3 DEF SettlementLedger
<1>12. \A k \in DOMAIN settlements' : settlements'[k].tx # NULL =>
         settlements'[k].tx \in SettlementsSent' /\ chain'[settlements'[k].tx].row = k
  BY <1>1, <1>3, <1>4, <1>5, <1>7 DEF SettlementLedger
<1>13. \A v \in Worker : Settling(v)' =>
         v # w /\ at'[v] = at[v] /\ Settling(v) /\ at[v].row # j /\ at[v].row \in DOMAIN settlements
  BY <1>0, <1>2, <1>8, SettlingRow DEF SettlementLedger, Settling, Idle, Ready
<1>14. \A v \in Worker : at'[v].op = "pay_settlement" =>
         /\ settlements'[at'[v].row].tx = NULL
         /\ \A i \in SettlementsSent' : chain'[i].row # at'[v].row
  <2> SUFFICES ASSUME NEW v \in Worker, at'[v].op = "pay_settlement"
               PROVE  /\ settlements'[at'[v].row].tx = NULL
                      /\ \A i \in SettlementsSent' : chain'[i].row # at'[v].row
    OBVIOUS
  <2>1. at'[v] = at[v] /\ at[v].row # j /\ at[v].row \in DOMAIN settlements
    BY <1>13 DEF Settling
  <2> QED
    BY <1>1, <1>3, <1>5, <2>1 DEF SettlementLedger
<1>15. \A v \in Worker : at'[v].op = "save_settlement" =>
         at'[v].tx \in SettlementsSent' /\ chain'[at'[v].tx].row = at'[v].row
  BY <1>1, <1>3, <1>13 DEF SettlementLedger, Settling
<1>16. \A u, v \in Worker : u # v /\ Settling(u)' /\ Settling(v)' => at'[u].row # at'[v].row
  BY <1>13 DEF SettlementLedger
<1> QED
  BY <1>9, <1>10, <1>11, <1>12, <1>14, <1>15, <1>16 DEF SettlementLedger

\* Every step keeps the ledger of settlements.
LEMMA SettlementLedgerStep ==
  ASSUME Ready, SettlementLedger, [Next]_vars
  PROVE  SettlementLedger'
<1>1. CASE UNCHANGED vars \/ Confirm \/ Tick \/ \E s \in Subtask : Transfer(s)
  BY <1>1, QuietSettlements
<1>2. ASSUME NEW w \in Worker, NotSettling(w) PROVE SettlementLedger'
  BY <1>2, QuietSettlements
<1>3. ASSUME NEW w \in Worker, LockSettlement(w) \/ PaySettlement(w) \/ SaveSettlement(w)
      PROVE  SettlementLedger'
  BY <1>3, LockSettlementLedger, PaySettlementLedger, SaveSettlementLedger
<1> QED
  BY <1>1, <1>2, <1>3 DEF Next, NotSettling

\* The invariant of the payments.
Ledger == Ready /\ ClaimLedger /\ SettlementLedger

\* Nothing was sent at first.
LEMMA LedgerStart ==
  ASSUME Init
  PROVE  Ledger
<1>1. Ready
  BY Start, TypeStart DEF Ready
<1>2. DOMAIN chain = {} /\ DOMAIN blocks = {} /\ DOMAIN settlements = {}
  BY DEF Init
<1>3. /\ \A w \in Worker : at[w].op = "idle"
      /\ \A k \in ClaimKey : claims[k].amount = 0 /\ claims[k].tx = NULL
  BY DEF Init, Idle, NoClaim
<1>4. ClaimLedger
  BY <1>2, <1>3, Constants DEF ClaimLedger, PaymentsOf
<1>5. SettlementLedger
  BY <1>2, <1>3 DEF SettlementLedger, SettlementsSent, Confirmed, Settling
<1> QED
  BY <1>1, <1>4, <1>5 DEF Ledger

\* Every step keeps the ledgers.
LEMMA LedgerStep ==
  ASSUME Ledger, [Next]_vars
  PROVE  Ledger'
<1>1. Ready'
  BY EveryStep, ClaimedStep, TypeStep DEF Ledger, Ready
<1> QED
  BY <1>1, ClaimLedgerStep, SettlementLedgerStep DEF Ledger
=============================================================================
