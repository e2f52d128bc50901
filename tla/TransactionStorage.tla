------------------------- MODULE TransactionStorage -------------------------
(***************************************************************************)
(* DatabaseTransactionsStorage (core/payments/storage.py): the nonces of   *)
(* Concent's Ethereum account and the transactions that are not confirmed. *)
(*                                                                         *)
(* Every process of the control cluster has a PaymentInterface of its own, *)
(* and all of them share the tables.  An action is a database transaction; *)
(* signing, which takes a while, happens inside of one, so the lock of the *)
(* GlobalTransactionState row is a variable.                               *)
(*                                                                         *)
(* golem_sci calls the storage: init() at its start, set_nonce_...() for a *)
(* transaction that it then sends, revert_last_tx() when the network does  *)
(* not take it, remove_tx() when it is confirmed.  It is external, and so  *)
(* is the network, which mines the account's transactions in the order of  *)
(* their nonces.                                                           *)
(***************************************************************************)
EXTENDS Integers, FiniteSets

CONSTANTS
  Worker,            \* the processes
  NoWorker,
  MaxMined,          \* bound: the transactions mined before the tables are used
  MaxTransactions,   \* bound: the transactions that are signed
  RefusalPossible,   \* bound: whether the network may refuse a transaction
  CrashPossible      \* bound: whether processes may end

ASSUME StorageAssumption ==
  /\ NoWorker \notin Worker
  /\ MaxMined \in Nat
  /\ MaxTransactions \in Nat
  /\ RefusalPossible \in BOOLEAN
  /\ CrashPossible \in BOOLEAN

VARIABLES
  counter,  \* GlobalTransactionState.nonce, NoState when there is no row
  pending,  \* the rows of PendingEthereumTransaction
  lock,     \* whose database transaction holds the row's lock
  step,     \* where each process is
  signed,   \* how many transactions were signed
  sent,     \* the transactions the network has accepted
  mined     \* how many transactions of the account are mined

storageVars == <<counter, pending, lock, step, signed, sent, mined>>

-----------------------------------------------------------------------------
NoState == -1

\* Two transactions differ even if they have the same nonce.
Transaction == [id : Nat, nonce : Nat]

WithNonce(n) == {t \in pending : t.nonce = n}

Goto(w, s) == step' = [step EXCEPT ![w] = s]

Out   == [op |-> "out"]
Ready == [op |-> "ready"]

IsFree == lock = NoWorker

\* The account was used before, and the table may be missing or behind.
StorageInit ==
  /\ mined \in 0..MaxMined
  /\ counter \in {NoState} \union 0..mined
  /\ pending = {}
  /\ lock = NoWorker
  /\ step = [w \in Worker |-> Out]
  /\ signed = 0
  /\ sent = {}

-----------------------------------------------------------------------------
(* init(). *)

\* The network is asked for its nonce.
AskNonce(w) ==
  /\ step[w] = Out
  /\ Goto(w, [op |-> "init", network |-> mined])
  /\ UNCHANGED <<counter, pending, lock, signed, sent, mined>>

\* _is_storage_initialized() and the comparison.
CompareNonces(w) ==
  LET network == step[w].network IN
  /\ step[w].op = "init"
  /\ \/ counter = NoState /\ Goto(w, [op |-> "create", network |-> network])
     \/ counter # NoState /\ IsFree /\ counter < network
        /\ Goto(w, [op |-> "raise", network |-> network])
     \/ counter # NoState /\ IsFree /\ counter >= network /\ Goto(w, Ready)
  /\ UNCHANGED <<counter, pending, lock, signed, sent, mined>>

\* _init_with_nonce(): full_clean() refuses a second row.
CheckUniqueness(w) ==
  /\ step[w].op = "create"
  /\ \/ counter # NoState /\ Goto(w, Out)
     \/ counter = NoState /\ Goto(w, [op |-> "insert", network |-> step[w].network])
  /\ UNCHANGED <<counter, pending, lock, signed, sent, mined>>

\* save() of an object with a primary key updates the row if there is one by now, or
\* fails if the row comes while it is being inserted.
InsertState(w) ==
  /\ step[w].op = "insert"
  /\ IsFree
  /\ \/ counter' = step[w].network /\ Goto(w, Ready)
     \/ counter # NoState /\ Goto(w, Out) /\ UNCHANGED counter
  /\ UNCHANGED <<pending, lock, signed, sent, mined>>

RaiseNonce(w) ==
  /\ step[w].op = "raise"
  /\ IsFree
  /\ counter' = step[w].network
  /\ Goto(w, Ready)
  /\ UNCHANGED <<pending, lock, signed, sent, mined>>

-----------------------------------------------------------------------------
(* set_nonce_sign_and_save_tx(). *)

GetNonce(w) ==
  /\ step[w] = Ready
  /\ IsFree
  /\ signed < MaxTransactions
  /\ Goto(w, [op |-> "lock", nonce |-> counter])
  /\ UNCHANGED <<counter, pending, lock, signed, sent, mined>>

LockState(w) ==
  /\ step[w].op = "lock"
  /\ IsFree
  /\ lock' = w
  /\ Goto(w, [op |-> "sign", nonce |-> step[w].nonce])
  /\ UNCHANGED <<counter, pending, signed, sent, mined>>

\* Mutants: the nonce is not advanced, or the wrong way.
SameNonce == counter
NextNonce == counter + 1

SignAndSave(w) ==
  LET tx == [id |-> signed, nonce |-> step[w].nonce] IN
  /\ step[w].op = "sign"
  /\ pending' = pending \union {tx}
  /\ counter' = NextNonce
  /\ signed' = signed + 1
  /\ lock' = NoWorker
  /\ Goto(w, [op |-> "send", tx |-> tx])
  /\ UNCHANGED <<sent, mined>>

\* The callback raises an exception, and the database transaction is rolled back.
SigningFails(w) ==
  /\ step[w].op = "sign"
  /\ lock' = NoWorker
  /\ Goto(w, Ready)
  /\ UNCHANGED <<counter, pending, signed, sent, mined>>

-----------------------------------------------------------------------------
(* What golem_sci does next. *)

Send(w) ==
  /\ step[w].op = "send"
  /\ sent' = sent \union {step[w].tx}
  /\ Goto(w, Ready)
  /\ UNCHANGED <<counter, pending, lock, signed, mined>>

\* "We don't try to send invalid transactions."
Refuse(w) ==
  /\ RefusalPossible
  /\ step[w].op = "send"
  /\ step[w].tx \notin sent
  /\ Goto(w, [op |-> "revert", tx |-> step[w].tx])
  /\ UNCHANGED <<counter, pending, lock, signed, sent, mined>>

\* Mutant: the nonce of the removed transaction is not given back.
KeptNonce == counter

PreviousNonce == counter - 1

\* revert_last_tx(): the last transaction, whoever added it.  get() fails on two.
RevertLastTx(w) ==
  LET last == WithNonce(counter - 1) IN
  /\ step[w].op = "revert"
  /\ IsFree
  /\ Goto(w, Ready)
  /\ \/ Cardinality(last) = 1 /\ pending' = pending \ last /\ counter' = PreviousNonce
     \/ Cardinality(last) # 1 /\ UNCHANGED <<pending, counter>>
  /\ UNCHANGED <<lock, signed, sent, mined>>

\* A transaction found by get_all_tx() is sent, unless it is one the network refuses.
Resend(w, t) ==
  /\ step[w] = Ready
  /\ t \in pending \ sent
  /\ \A v \in Worker : step[v].op = "revert" => step[v].tx # t
  /\ sent' = sent \union {t}
  /\ UNCHANGED <<counter, pending, lock, step, signed, mined>>

Mine ==
  /\ \E t \in sent : t.nonce = mined
  /\ mined' = mined + 1
  /\ UNCHANGED <<counter, pending, lock, step, signed, sent>>

\* Mutant: one too early.
KnownNonces == 0..mined

ConfirmedNonces == 0..(mined - 1)

\* remove_tx().
RemoveTx(w, n) ==
  /\ step[w] = Ready
  /\ IsFree
  /\ n \in ConfirmedNonces
  /\ Cardinality(WithNonce(n)) = 1
  /\ pending' = pending \ WithNonce(n)
  /\ UNCHANGED <<counter, lock, step, signed, sent, mined>>

Crash(w) ==
  /\ CrashPossible
  /\ step[w] # Out
  /\ Goto(w, Out)
  /\ lock' = IF lock = w THEN NoWorker ELSE lock
  /\ UNCHANGED <<counter, pending, signed, sent, mined>>

StorageNext ==
  \/ \E w \in Worker :
       \/ AskNonce(w) \/ CompareNonces(w) \/ CheckUniqueness(w) \/ InsertState(w) \/ RaiseNonce(w)
       \/ GetNonce(w) \/ LockState(w) \/ SignAndSave(w) \/ SigningFails(w)
       \/ Send(w) \/ Refuse(w) \/ RevertLastTx(w)
       \/ \E t \in pending : Resend(w, t) \/ RemoveTx(w, t.nonce)
       \/ Crash(w)
  \/ Mine

StorageSpec == StorageInit /\ [][StorageNext]_storageVars

-----------------------------------------------------------------------------
(* The behaviours in which what a process has found out about the row still *)
(* holds when it writes the row, as it would if it kept the lock.           *)
StillHolds(w) ==
  LET s == step[w] IN
  /\ s.op = "insert" => counter = NoState
  /\ s.op = "raise" => counter < s.network
  /\ s.op \in {"lock", "sign"} => s.nonce = counter
  /\ s.op = "revert" => s.tx.nonce = counter - 1

ChecksHold == \A w \in Worker : StillHolds(w)

SerialSpec == StorageInit /\ [][StorageNext /\ ChecksHold']_storageVars

-----------------------------------------------------------------------------
(* Properties. *)

StepRecord ==
  {Out, Ready}
  \union [op : {"init", "create", "insert", "raise"}, network : Nat]
  \union [op : {"lock", "sign"}, nonce : Nat]
  \union [op : {"send", "revert"}, tx : Transaction]

\* The types of the variables.
StorageTypeOK ==
  /\ counter \in Nat \union {NoState}
  /\ pending \in SUBSET Transaction
  /\ lock \in Worker \union {NoWorker}
  /\ step \in [Worker -> StepRecord]
  /\ signed \in Nat
  /\ sent \in SUBSET Transaction
  /\ mined \in Nat

\* "Sets the next nonce for the transaction" (storage.py, set_nonce_sign_and_save_tx): of two
\* transactions with one nonce the network mines one, and the other payment is lost.
NoncesDiffer ==
  \A t, u \in pending \union sent : t.nonce = u.nonce => t = u

\* No transaction waits for one that nobody has: between what is mined and the next nonce
\* there is a transaction for every nonce (storage.py, revert_last_tx and remove_tx).
NoncesHaveNoGap ==
  \A n \in mined..(counter - 1) : \E t \in pending : t.nonce = n

\* A start of a process never hands out again what another process has used
\* (storage.py, init).
CounterIsUnused ==
  \A t \in pending \union sent : t.nonce < counter
=============================================================================
