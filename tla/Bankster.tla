------------------------------ MODULE Bankster ------------------------------
(***************************************************************************)
(* Bankster (core/payments/bankster.py): it claims deposits, pays claims   *)
(* out of them and settles overdue acceptances.                            *)
(*                                                                         *)
(* A worker goes through an operation in steps: a question to SCI, a       *)
(* database transaction, a payment handed to SCI.  claim_deposit() takes   *)
(* its locks with query sets that nobody evaluates, so each of its sums is *)
(* a step of its own; the other operations really lock the DepositAccount. *)
(*                                                                         *)
(* SCI, the Ethereum client and the deposit contract are external.  SCI    *)
(* sends all transactions from one account, so they are confirmed in the   *)
(* order of their nonces; a transaction's hash is its place in that order. *)
(* The contract moves the amount it was asked for or what there is left.   *)
(* Deposits stay locked: clients neither withdraw nor add to them.         *)
(***************************************************************************)
EXTENDS ClaimModel, Integers, Sequences, FiniteSetsExt

CONSTANTS
  Account,           \* the DepositAccounts, each with its Ethereum address
  Worker,
  RequestorOf,       \* [Subtask -> Account]
  ProviderOf,        \* [Subtask -> Account]
  Price,             \* [Subtask -> Nat], TaskToCompute.price
  PaymentTs,         \* [Subtask -> Nat], SubtaskResultsAccepted.payment_ts
  VerificationCost,  \* settings.ADDITIONAL_VERIFICATION_COST
  PaymentDueTime,    \* settings.PAYMENT_DUE_TIME
  ConfirmationTime,  \* how long a payment is too young for get_list_of_payments()
  Funds,             \* [Account -> Nat], the deposits at the start
  UseCaseOffered,    \* bound: the use cases that the core claims deposits for
  AccountSettled,    \* bound: the providers that ask for settlements
  SubtaskPaid,       \* bound: the subtasks that their requestor may pay for by itself
  AbortPossible,     \* bound: whether operations may be cut short
  MaxTime            \* bound: the last instant of the clock

ASSUME BanksterAssumption ==
  /\ IsFiniteSet(Subtask)
  /\ RequestorOf \in [Subtask -> Account]
  /\ ProviderOf \in [Subtask -> Account]
  /\ \A s \in Subtask : RequestorOf[s] # ProviderOf[s]
  /\ Price \in [Subtask -> Nat \ {0}]
  /\ PaymentTs \in [Subtask -> Nat]
  /\ VerificationCost \in Nat
  /\ ProviderIsCharged <=> VerificationCost > 0
  /\ PaymentDueTime \in Nat \ {0}
  /\ ConfirmationTime \in Nat \ {0}
  /\ Funds \in [Account -> Nat]
  /\ UseCaseOffered \subseteq Subtask \X UseCase
  /\ AccountSettled \subseteq Account
  /\ SubtaskPaid \subseteq Subtask
  /\ AbortPossible \in BOOLEAN
  /\ MaxTime \in Nat

VARIABLES
  now,          \* the clock
  deposit,      \* what the contract holds for each account
  claims,       \* the DepositClaims of FORCED_ACCEPTANCE and ADDITIONAL_VERIFICATION
  settlements,  \* the DepositClaims of FORCED_PAYMENT; nothing ever removes one
  chain,        \* the transactions handed to SCI
  blocks,       \* when the first of them were confirmed, and what they moved
  transfers,    \* the batch transfers of the requestors: which subtask, in which block
  watched,      \* the claims whose confirmation a worker process waits for
  at            \* the step each worker is at

table == <<claims, settlements>>
ether == <<deposit, chain, blocks, transfers>>
vars  == <<now, table, ether, watched, at>>

-----------------------------------------------------------------------------
NULL == 0

\* A row of the table: amount and tx_hash.  No row has amount 0 (DepositClaim.clean).
NoClaim == [amount |-> 0, tx |-> NULL]
Exists(k) == claims[k] # NoClaim

PayerOf(k) == IF k[3] = "requestor" THEN RequestorOf[k[1]] ELSE ProviderOf[k[1]]

AmountOf(k) == IF k[3] = "requestor" THEN Price[k[1]] ELSE VerificationCost

Against(a) == {k \in ClaimKey : Exists(k) /\ PayerOf(k) = a}

SettlementsOf(a) == {j \in DOMAIN settlements : settlements[j].payer = a}

\* The column amount of the table, of what was sent, and of what it moved.
Claimed == [k \in ClaimKey |-> claims[k].amount]
Settled == [j \in DOMAIN settlements |-> settlements[j].amount]
Sent    == [i \in DOMAIN chain |-> chain[i].amount]
Moved   == [i \in DOMAIN blocks |-> blocks[i].moved]

\* The aggregate over DepositClaim that all three operations compute.
SumOfExistingClaims(a) ==
  SumFunctionOnSet(Claimed, Against(a)) + SumFunctionOnSet(Settled, SettlementsOf(a))

Confirmed == DOMAIN blocks

\* What was sent for a subtask's claim, and for a settlement.
PaymentsOf(k) == {i \in DOMAIN chain : chain[i].kind = "claim" /\ chain[i].key = k}
SettlementsSent == {i \in DOMAIN chain : chain[i].kind = "settlement"}

\* Mutant: an overdrawn deposit is not noticed.
ExactlyNothingLeft(amount) == amount = 0

NothingLeft(amount) == amount <= 0

Idle == [op |-> "idle"]

Step(w, step) == at' = [at EXCEPT ![w] = step]

Init ==
  /\ now = 0
  /\ deposit = Funds
  /\ claims = [k \in ClaimKey |-> NoClaim]
  /\ settlements = <<>>
  /\ chain = <<>>
  /\ blocks = <<>>
  /\ transfers = {}
  /\ watched = [w \in Worker |-> {}]
  /\ at = [w \in Worker |-> Idle]

-----------------------------------------------------------------------------
(* claim_deposit(). *)

\* SCI is asked for both deposits.  The bounds: the core claims once for a use case, and
\* a second request comes while the first one is being served, if at all.
AskForDeposits(w, s, use) ==
  /\ at[w] = Idle
  /\ <<s, use>> \in UseCaseOffered
  /\ \A k \in ClaimsOf(s, use) : ~ Exists(k) /\ PaymentsOf(k) = {}
  /\ Step(w, [op |-> "check_requestor", subtask |-> s, use |-> use,
              funds |-> deposit[RequestorOf[s]], next |-> deposit[ProviderOf[s]]])
  /\ UNCHANGED <<now, table, ether, watched>>

\* The requestor's claims may exceed the deposit, as long as they did not before.
CheckRequestor(w) ==
  LET c == at[w]  k == <<c.subtask, c.use, "requestor">> IN
  /\ c.op = "check_requestor"
  /\ \/ /\ c.funds <= SumOfExistingClaims(PayerOf(k))
        /\ Step(w, Idle)
     \/ /\ c.funds > SumOfExistingClaims(PayerOf(k))
        /\ ClaimsOf(c.subtask, c.use) = {k}
        /\ Step(w, [op |-> "insert", subtask |-> c.subtask, use |-> c.use])
     \/ /\ c.funds > SumOfExistingClaims(PayerOf(k))
        /\ ClaimsOf(c.subtask, c.use) # {k}
        /\ Step(w, [op |-> "check_provider", subtask |-> c.subtask, use |-> c.use,
                    funds |-> c.next])
  /\ UNCHANGED <<now, table, ether, watched>>

\* Mutant: the new claim is left out of the obligations.
ExistingObligations(a) == SumOfExistingClaims(a)

ProviderObligations(a) == SumOfExistingClaims(a) + VerificationCost

CheckProvider(w) ==
  LET c == at[w]  a == ProviderOf[c.subtask] IN
  /\ c.op = "check_provider"
  /\ \/ c.funds <= ProviderObligations(a) /\ Step(w, Idle)
     \/ /\ c.funds > ProviderObligations(a)
        /\ Step(w, [op |-> "insert", subtask |-> c.subtask, use |-> c.use])
  /\ UNCHANGED <<now, table, ether, watched>>

\* Mutant: the provider's claim is forgotten.
RequestorsClaim(c) == {<<c.subtask, c.use, "requestor">>}

NewClaims(c) == ClaimsOf(c.subtask, c.use)

\* The commit.  unique_together refuses it when one of the claims is there already.
InsertClaims(w) ==
  LET c == at[w]  new == NewClaims(c) IN
  /\ c.op = "insert"
  /\ claims' = IF \E k \in new : Exists(k) THEN claims
               ELSE [k \in ClaimKey |->
                       IF k \in new THEN [amount |-> AmountOf(k), tx |-> NULL] ELSE claims[k]]
  /\ Step(w, Idle)
  /\ UNCHANGED <<now, settlements, ether, watched>>

-----------------------------------------------------------------------------
(* finalize_payment().  Its caller sees to it that it is called once for a  *)
(* claim (ControlCluster: PaidAtMostOnce).                                  *)
Finalizing(v, k) == at[v].op \in {"lock_claim", "pay_claim", "save_claim"} /\ at[v].key = k

AskForPayersDeposit(w, k) ==
  /\ at[w] = Idle
  /\ Exists(k) /\ claims[k].tx = NULL
  /\ PaymentsOf(k) = {} /\ \A v \in Worker : ~ Finalizing(v, k)
  /\ Step(w, [op |-> "lock_claim", key |-> k, funds |-> deposit[PayerOf(k)]])
  /\ UNCHANGED <<now, table, ether, watched>>

\* Mutant: the other claims are forgotten.
WholeDeposit(k, funds) == funds

\* What the deposit holds beyond the other claims against it.
AvailableFunds(k, funds) ==
  funds - (SumOfExistingClaims(PayerOf(k)) - claims[k].amount)

LockClaim(w) ==
  LET k == at[w].key
      available == AvailableFunds(k, at[w].funds)
  IN /\ at[w].op = "lock_claim"
     /\ \/ /\ NothingLeft(available)
           /\ claims' = [claims EXCEPT ![k] = NoClaim]
           /\ Step(w, Idle)
        \/ /\ ~ NothingLeft(available)
           /\ claims' = [claims EXCEPT ![k].amount = IF available < @ THEN available ELSE @]
           /\ Step(w, [op |-> "pay_claim", key |-> k])
     /\ UNCHANGED <<now, settlements, ether, watched>>

\* force_subtask_payment() or cover_additional_verification_cost().
PayClaim(w) ==
  LET k == at[w].key IN
  /\ at[w].op = "pay_claim"
  /\ chain' = Append(chain, [kind |-> "claim", key |-> k,
                             payer |-> PayerOf(k), amount |-> claims[k].amount])
  /\ Step(w, [op |-> "save_claim", key |-> k, tx |-> Len(chain) + 1])
  /\ UNCHANGED <<now, table, deposit, blocks, transfers, watched>>

\* The hash is saved and the process waits for the confirmation.  A crash between
\* the two is one right after them.
SaveClaim(w) ==
  LET k == at[w].key IN
  /\ at[w].op = "save_claim"
  /\ claims' = [claims EXCEPT ![k].tx = at[w].tx]
  /\ watched' = [watched EXCEPT ![w] = @ \union {k}]
  /\ Step(w, Idle)
  /\ UNCHANGED <<now, settlements, ether>>

\* discard_claim(), called by SCI in the process that sent the transaction.
DiscardClaim(w, k) ==
  /\ k \in watched[w]
  /\ claims[k].tx \in Confirmed
  /\ claims' = [claims EXCEPT ![k] = NoClaim]
  /\ watched' = [watched EXCEPT ![w] = @ \ {k}]
  /\ UNCHANGED <<now, settlements, ether, at>>

-----------------------------------------------------------------------------
(* settle_overdue_acceptances().  A provider brings acceptances of one      *)
(* requestor, whichever it likes of those that are overdue.                *)
Pair(s) == <<RequestorOf[s], ProviderOf[s]>>

OldestTs(acceptances)   == Min({PaymentTs[s] : s \in acceptances})
YoungestTs(acceptances) == Max({PaymentTs[s] : s \in acceptances})

\* validate_list_of_transaction_timestamp().
Overdue(acceptances) == YoungestTs(acceptances) <= now - PaymentDueTime

AskForSettledDeposit(w, acceptances) ==
  /\ at[w] = Idle
  /\ acceptances # {}
  /\ \A s, t \in acceptances : Pair(s) = Pair(t)
  /\ \A s \in acceptances : ProviderOf[s] \in AccountSettled
  /\ Overdue(acceptances)
  /\ \E s \in acceptances :
       Step(w, [op |-> "settle", pair |-> Pair(s), acceptances |-> acceptances,
                funds |-> deposit[RequestorOf[s]]])
  /\ UNCHANGED <<now, table, ether, watched>>

\* get_list_of_payments() stops REQUIRED_CONFS blocks before the last confirmed one.
IsShown(ts) == ts + ConfirmationTime <= now

\* get_list_of_payments(): in a block that is younger than T0, and old enough.
SettlementEvents(pair, t0) ==
  {i \in Confirmed : /\ chain[i].kind = "settlement"
                     /\ settlements[chain[i].row].payer = pair[1]
                     /\ settlements[chain[i].row].payee = pair[2]
                     /\ blocks[i].ts > t0
                     /\ IsShown(blocks[i].ts)}

BatchTransfers(pair, t0) ==
  {t \in transfers : Pair(t.subtask) = pair /\ t.ts > t0 /\ IsShown(t.ts)}

\* Mutant: only settlements that were closed after T0.
SatisfiedSince(pair, t0) ==
  {j \in DOMAIN settlements : /\ settlements[j].payer = pair[1]
                              /\ settlements[j].payee = pair[2]
                              /\ settlements[j].closure > t0
                              /\ settlements[j].tx # NULL}

\* get_already_satisfied_claims(): settlements that have a hash.
AlreadySatisfied(pair, t0) ==
  {j \in DOMAIN settlements : /\ settlements[j].payer = pair[1]
                              /\ settlements[j].payee = pair[2]
                              /\ settlements[j].closure >= t0
                              /\ settlements[j].tx # NULL}

\* BanksterTransactionMismatchError: a settlement and its event differ.  (They have the
\* closure time that both were given.)
Mismatch(pair, t0) ==
  \E j \in AlreadySatisfied(pair, t0) :
    /\ settlements[j].tx \in SettlementEvents(pair, t0)
    /\ settlements[j].amount # blocks[settlements[j].tx].moved

\* find_unconfirmed_settlement_payments().
Unconfirmed(pair, t0) ==
  {j \in AlreadySatisfied(pair, t0) : settlements[j].tx \notin SettlementEvents(pair, t0)}

AmountPaid(pair, t0) ==
  SumFunctionOnSet(Moved, SettlementEvents(pair, t0))
  + SumFunctionOnSet(Settled, Unconfirmed(pair, t0))
  + SumFunctionOnSet([t \in transfers |-> Price[t.subtask]], BatchTransfers(pair, t0))

\* get_provider_payment_info().
AmountPending(pair, acceptances) ==
  SumFunctionOnSet(Price, acceptances) - AmountPaid(pair, OldestTs(acceptances))

\* Mutant: existing claims do not lower what can be paid.
PayableFromDeposit(pair, acceptances, funds) ==
  Min({AmountPending(pair, acceptances), funds})

RequestorPayableAmount(pair, acceptances, funds) ==
  Min({AmountPending(pair, acceptances), funds - SumOfExistingClaims(pair[1])})

LockSettlement(w) ==
  LET c == at[w]
      payable == RequestorPayableAmount(c.pair, c.acceptances, c.funds)
  IN /\ c.op = "settle"
     /\ \/ /\ Mismatch(c.pair, OldestTs(c.acceptances)) \/ NothingLeft(payable)
           /\ Step(w, Idle)
           /\ UNCHANGED settlements
        \/ /\ ~ NothingLeft(payable) /\ ~ Mismatch(c.pair, OldestTs(c.acceptances))
           /\ settlements' = Append(settlements,
                [payer |-> c.pair[1], payee |-> c.pair[2], amount |-> payable, tx |-> NULL,
                 closure |-> YoungestTs(c.acceptances)])
           /\ Step(w, [op |-> "pay_settlement", row |-> Len(settlements) + 1])
     /\ UNCHANGED <<now, claims, ether, watched>>

\* make_settlement_payment() lowers the amount to the deposit, and nobody is told.
PaySettlement(w) ==
  LET j == at[w].row
      payer == settlements[j].payer
  IN /\ at[w].op = "pay_settlement"
     /\ chain' = Append(chain, [kind |-> "settlement", row |-> j, payer |-> payer,
                                amount |-> Min({settlements[j].amount, deposit[payer]})])
     /\ Step(w, [op |-> "save_settlement", row |-> j, tx |-> Len(chain) + 1])
     /\ UNCHANGED <<now, table, deposit, blocks, transfers, watched>>

SaveSettlement(w) ==
  /\ at[w].op = "save_settlement"
  /\ settlements' = [settlements EXCEPT ![at[w].row].tx = at[w].tx]
  /\ Step(w, Idle)
  /\ UNCHANGED <<now, claims, ether, watched>>

-----------------------------------------------------------------------------
(* The environment. *)

\* An operation is cut short: SCI raises an exception, or the process dies and
\* with it the callbacks it was waiting to run.
Abort(w) ==
  /\ AbortPossible
  /\ at[w] # Idle
  /\ Step(w, Idle)
  /\ \/ UNCHANGED watched
     \/ watched' = [watched EXCEPT ![w] = {}]
  /\ UNCHANGED <<now, table, ether>>

\* The next transaction is mined and has the confirmations it needs.
Confirm ==
  LET i == Len(blocks) + 1
      moved == Min({chain[i].amount, deposit[chain[i].payer]})
  IN /\ i \in DOMAIN chain
     /\ blocks' = Append(blocks, [ts |-> now, moved |-> moved])
     /\ deposit' = [deposit EXCEPT ![chain[i].payer] = @ - moved]
     /\ UNCHANGED <<now, table, chain, transfers, watched, at>>

\* The requestor pays for a subtask by itself, at any time after it accepted the
\* results; this is the block that the transfer is in.
Transfer(s) ==
  /\ s \in SubtaskPaid
  /\ now > PaymentTs[s]
  /\ \A t \in transfers : t.subtask # s
  /\ transfers' = transfers \union {[subtask |-> s, ts |-> now]}
  /\ UNCHANGED <<now, table, deposit, chain, blocks, watched, at>>

Tick ==
  /\ now < MaxTime
  /\ now' = now + 1
  /\ UNCHANGED <<table, ether, watched, at>>

Next ==
  \/ \E w \in Worker :
       \/ \E s \in Subtask, use \in UseCase : AskForDeposits(w, s, use)
       \/ CheckRequestor(w) \/ CheckProvider(w) \/ InsertClaims(w)
       \/ \E k \in ClaimKey : AskForPayersDeposit(w, k) \/ DiscardClaim(w, k)
       \/ LockClaim(w) \/ PayClaim(w) \/ SaveClaim(w)
       \/ \E acceptances \in SUBSET Subtask : AskForSettledDeposit(w, acceptances)
       \/ LockSettlement(w) \/ PaySettlement(w) \/ SaveSettlement(w)
       \/ Abort(w)
  \/ Confirm
  \/ \E s \in Subtask : Transfer(s)
  \/ Tick

Spec == Init /\ [][Next]_vars

-----------------------------------------------------------------------------
(* The behaviours in which nobody gets between the parts of an operation    *)
(* and no payment of the requestor crosses a settlement: Spec without the   *)
(* races that the rows of the hazards list name.                            *)

\* What was moved for claims against a that are still in the table.
StillClaimed(a) ==
  SumFunctionOnSet(Moved, {i \in Confirmed : /\ chain[i].payer = a
                                             /\ chain[i].kind = "claim" => Exists(chain[i].key)})

\* The deposits that a worker was told and has not compared with the claims yet.
Told(w) ==
  LET c == at[w] IN
  CASE c.op = "check_requestor" -> {<<RequestorOf[c.subtask], c.funds>>,
                                    <<ProviderOf[c.subtask], c.next>>}
    [] c.op = "check_provider"  -> {<<ProviderOf[c.subtask], c.funds>>}
    [] c.op = "lock_claim"      -> {<<PayerOf(c.key), c.funds>>}
    [] c.op = "settle"          -> {<<c.pair[1], c.funds>>}
    [] OTHER                    -> {}

\* No claim is paid, confirmed and discarded between the question for the deposit
\* and the sum of the claims.
DepositsAreFresh ==
  \A w \in Worker : \A t \in Told(w) : t[2] <= deposit[t[1]] + StillClaimed(t[1])

\* The locks of claim_deposit() lock: no claim against the two accounts comes or goes
\* between its sums and its commit.
LocksAreTaken ==
  \A w \in Worker :
    at[w].op \in {"check_provider", "insert"} /\ at'[w] = at[w] =>
      \A a \in {RequestorOf[at[w].subtask], ProviderOf[at[w].subtask]} :
        SumOfExistingClaims(a)' = SumOfExistingClaims(a)

Settling(w) == at[w].op \in {"pay_settlement", "save_settlement"}

PairOf(j) == <<settlements[j].payer, settlements[j].payee>>

\* The settlements of a pair follow each other, and none is sent without being saved.
SettlementsAreSaved ==
  /\ \A v, w \in Worker :
       v # w /\ Settling(v) /\ Settling(w) => PairOf(at[v].row) # PairOf(at[w].row)
  /\ \A i \in SettlementsSent :
       settlements[chain[i].row].tx = NULL =>
         \E w \in Worker : at[w].op = "save_settlement" /\ at[w].row = chain[i].row

\* A settlement of the subtask's acceptance, or of later ones, is in the table.
SettledUpTo(s) ==
  \E j \in DOMAIN settlements : /\ PairOf(j) = Pair(s)
                                /\ settlements[j].closure >= PaymentTs[s]

\* No settlement meets a transfer that it cannot see: neither is one made while a transfer
\* is too young, nor does the requestor pay once there is one.
TransfersAreShown == \A t \in transfers : SettledUpTo(t.subtask) => IsShown(t.ts)

\* The requestors pay so early that the transfer is seen before a settlement may be asked for.
TransfersAreTimely ==
  \A t \in transfers : t.ts + ConfirmationTime <= PaymentTs[t.subtask] + PaymentDueTime

OrderlyNext ==
  /\ Next
  /\ SettlementsAreSaved' /\ TransfersAreShown'
  /\ LocksAreTaken /\ DepositsAreFresh'

OrderlySpec == Init /\ [][OrderlyNext]_vars

-----------------------------------------------------------------------------
(* Properties. *)

Claim == [amount : Nat, tx : Nat]

StepRecord ==
  {Idle}
  \union [op : {"check_requestor"}, subtask : Subtask, use : UseCase, funds : Nat, next : Nat]
  \union [op : {"check_provider"}, subtask : Subtask, use : UseCase, funds : Nat]
  \union [op : {"insert"}, subtask : Subtask, use : UseCase]
  \union [op : {"lock_claim"}, key : ClaimKey, funds : Nat]
  \union [op : {"pay_claim"}, key : ClaimKey]
  \union [op : {"save_claim"}, key : ClaimKey, tx : Nat]
  \union [op : {"settle"}, pair : Account \X Account, acceptances : SUBSET Subtask, funds : Nat]
  \union [op : {"pay_settlement"}, row : Nat]
  \union [op : {"save_settlement"}, row : Nat, tx : Nat]

\* The types of the variables.
TypeOK ==
  /\ now \in Nat
  /\ deposit \in [Account -> Nat]
  /\ claims \in [ClaimKey -> Claim]
  /\ settlements \in Seq([payer : Account, payee : Account, amount : Nat, tx : Nat,
                          closure : Nat])
  /\ chain \in Seq([kind : {"claim"}, key : ClaimKey, payer : Account, amount : Nat]
                   \union [kind : {"settlement"}, row : Nat, payer : Account, amount : Nat])
  /\ blocks \in Seq([ts : Nat, moved : Nat])
  /\ transfers \in SUBSET [subtask : Subtask, ts : Nat]
  /\ watched \in [Worker -> SUBSET ClaimKey]
  /\ at \in [Worker -> StepRecord]

\* The claims live as the core expects.
Status ==
  [k \in ClaimKey |-> IF ~ Exists(k) THEN "none"
                      ELSE IF claims[k].tx = NULL THEN "open" ELSE "sent"]

Claims == INSTANCE ClaimLifecycle WITH status <- Status

\* A claim is made with the others of its use case, paid or given up once, and freed when
\* its payment is confirmed (bankster.py, claim_deposit, finalize_payment, discard_claim).
ImplementsClaims == Claims!Spec

\* What Bankster has told SCI to pay out of a deposit, and is not confirmed yet, never
\* exceeds the deposit, whichever claims and settlements against it cross
\* (bankster.py, finalize_payment and settle_overdue_acceptances).
SentIsCovered ==
  \A a \in Account :
    SumFunctionOnSet(Sent, {i \in DOMAIN chain \ Confirmed : chain[i].payer = a}) <= deposit[a]

\* A claim that is paid and not discarded yet: what it took out of the deposit is
\* subtracted from the deposit once more.
StillCounted(j) == Exists(j) /\ PaymentsOf(j) \intersect Confirmed # {}

\* A provider may be a requestor as well, whose settlements take what is left.
OnlyProvider(a) == \A s \in Subtask : RequestorOf[s] # a

\* The verification that was claimed from a provider who is no requestor is paid for in
\* full: the claim keeps its amount until its payment is confirmed, unless another claim
\* against the same deposit is counted twice (bankster.py, claim_deposit and
\* finalize_payment).
ProviderPaysInFull ==
  [][\A k \in ClaimKey :
       k[3] = "provider" /\ OnlyProvider(PayerOf(k)) /\ claims'[k].amount # claims[k].amount
       => \/ claims'[k].amount = VerificationCost
          \/ claims[k].tx \in Confirmed
          \/ \E j \in ClaimKey \ {k} : PayerOf(j) = PayerOf(k) /\ StillCounted(j)]_vars

\* The database and the blockchain agree on every settlement, so that no pair of clients
\* is refused settlements for good (bankster.py, BanksterTransactionMismatchError).
SettlementsMatchChain ==
  \A i \in SettlementsSent \intersect Confirmed :
    settlements[chain[i].row].amount = blocks[i].moved

\* Up to any instant, a provider does not get more by settlements and the requestor's own
\* transfers than the prices of the results accepted until then, whichever lists of
\* acceptances it brings, how often, and in which order, unless a transfer that is too young
\* to be seen crosses a settlement (settle_overdue_acceptances and get_list_of_payments).
ProviderIsNotOverpaid ==
  \A p \in {Pair(s) : s \in Subtask}, t \in {PaymentTs[s] : s \in Subtask} :
    LET accepted == {s \in Subtask : Pair(s) = p /\ PaymentTs[s] <= t} IN
    SumFunctionOnSet(Sent, {i \in SettlementsSent :
                              /\ PairOf(chain[i].row) = p
                              /\ settlements[chain[i].row].closure <= t})
    + SumFunctionOnSet(Price, {s \in accepted : \E tr \in transfers : tr.subtask = s})
    <= SumFunctionOnSet(Price, accepted)
=============================================================================
