-------------------------- MODULE Deposits_proofs ---------------------------
(***************************************************************************)
(* What the deposits pay for, when no commit falls between the sums of two *)
(* aggregates of one operation and no settlement crosses a transfer that   *)
(* is too young to be seen (OrderlySpec).                                  *)
(*                                                                         *)
(* None of the four properties is inductive.                               *)
(*  - The deposit covers what is decided and not confirmed (CoverInv):     *)
(*    hence a transaction moves exactly what it was sent for.              *)
(*  - What is decided for a provider stays within what was accepted up to  *)
(*    every instant, not only up to the accepted ones (OverInv): an        *)
(*    operation that settles from T0 on leaves to earlier ones what is     *)
(*    before.                                                              *)
(*  - The claims against a provider are covered by its deposit together    *)
(*    with what claims that are still in the table took out of it          *)
(*    (ProviderInv).                                                       *)
(*                                                                         *)
(* The last section is about every behaviour of Spec: a settlement closes  *)
(* at acceptances that were due when it was asked for (SettledIsDue), so   *)
(* it crosses no transfer that was deep enough by then.                    *)
(***************************************************************************)
EXTENDS Bankster_proofs

-----------------------------------------------------------------------------
(* What the deposits cover. *)

\* What is decided or sent, and not confirmed.
IsPending(k) ==
  \/ \E w \in Worker : at[w].op = "pay_claim" /\ at[w].key = k
  \/ PaymentsOf(k) \ Confirmed # {}

RowIsPending(j) ==
  \/ \E w \in Worker : at[w].op = "pay_settlement" /\ at[w].row = j
  \/ \E i \in SettlementsSent \ Confirmed : chain[i].row = j

Pending(a)     == {k \in ClaimKey : PayerOf(k) = a /\ IsPending(k)}
PendingRows(a) == {j \in SettlementsOf(a) : RowIsPending(j)}

Committed(a) ==
  SumFunctionOnSet(Claimed, Pending(a)) + SumFunctionOnSet(Settled, PendingRows(a))

\* The deposit covers what is pending, so that nobody lowers an amount on the way.
CoverInv ==
  /\ \A a \in Account : Committed(a) <= deposit[a]
  /\ \A i \in SettlementsSent : chain[i].amount = settlements[chain[i].row].amount
  /\ \A i \in Confirmed : blocks[i].moved = chain[i].amount

\* What is committed is a number.
LEMMA CommittedIsSum ==
  ASSUME TypeOK, NEW a
  PROVE  /\ IsFiniteSet(Pending(a)) /\ IsFiniteSet(PendingRows(a))
         /\ Pending(a) \subseteq ClaimKey /\ PendingRows(a) \subseteq DOMAIN settlements
         /\ SumFunctionOnSet(Claimed, Pending(a)) \in Nat
         /\ SumFunctionOnSet(Settled, PendingRows(a)) \in Nat
         /\ Committed(a) \in Nat
<1>1. Pending(a) \in SUBSET ClaimKey /\ PendingRows(a) \in SUBSET DOMAIN settlements
  BY DEF Pending, PendingRows, SettlementsOf
<1> QED
  BY <1>1, ClaimsAreNumbers DEF Committed

\* The amounts after a step.
LEMMA NextAmounts ==
  /\ \A k \in ClaimKey : (Claimed')[k] = claims'[k].amount
  /\ \A j \in DOMAIN settlements' : (Settled')[j] = settlements'[j].amount
BY DEF Claimed, Settled

\* K and J are pending no more.
LEMMA CommittedShrinks ==
  ASSUME TypeOK, NEW a, NEW K \in SUBSET Pending(a), NEW J \in SUBSET PendingRows(a),
         \A k \in Pending(a)' : k \in Pending(a) \ K /\ claims'[k].amount = claims[k].amount,
         \A j \in PendingRows(a)' :
           j \in PendingRows(a) \ J /\ settlements'[j].amount = settlements[j].amount
  PROVE  /\ SumFunctionOnSet(Claimed, K) \in Nat /\ SumFunctionOnSet(Settled, J) \in Nat
         /\ Committed(a)' \in Nat
         /\ Committed(a)' + SumFunctionOnSet(Claimed, K) + SumFunctionOnSet(Settled, J)
              <= Committed(a)
<1>1. PICK P, R, c, s : P = Pending(a)' /\ R = PendingRows(a)' /\ c = Claimed' /\ s = Settled'
  OBVIOUS
<1>2. Committed(a)' = SumFunctionOnSet(c, P) + SumFunctionOnSet(s, R)
  BY <1>1 DEF Committed
<1>3. /\ SumFunctionOnSet(c, P) \in Nat /\ SumFunctionOnSet(Claimed, K) \in Nat
      /\ SumFunctionOnSet(c, P) + SumFunctionOnSet(Claimed, K)
           <= SumFunctionOnSet(Claimed, Pending(a))
  <2>1. P \in SUBSET (Pending(a) \ K)
    BY <1>1
  <2>2. \A k \in Pending(a) : k \in ClaimKey /\ Claimed[k] = claims[k].amount /\ Claimed[k] \in Nat
    BY CommittedIsSum, ColumnsAreTyped
  <2>3. \A k \in P : c[k] = Claimed[k]
    BY <1>1, <2>1, <2>2, NextAmounts
  <2> QED
    BY <2>1, <2>2, <2>3, CommittedIsSum, SumShrinks
<1>4. /\ SumFunctionOnSet(s, R) \in Nat /\ SumFunctionOnSet(Settled, J) \in Nat
      /\ SumFunctionOnSet(s, R) + SumFunctionOnSet(Settled, J)
           <= SumFunctionOnSet(Settled, PendingRows(a))
  <2>1. R \in SUBSET (PendingRows(a) \ J)
    BY <1>1
  <2>2. \A j \in PendingRows(a) : Settled[j] = settlements[j].amount /\ Settled[j] \in Nat
    BY CommittedIsSum, ColumnsAreTyped
  <2>3. \A j \in R : j \in DOMAIN settlements'
    BY <1>1 DEF PendingRows, SettlementsOf
  <2>4. \A j \in R : s[j] = Settled[j]
    BY <1>1, <2>1, <2>2, <2>3, NextAmounts
  <2> QED
    BY <2>1, <2>2, <2>4, CommittedIsSum, SumShrinks
<1> QED
  BY <1>2, <1>3, <1>4, CommittedIsSum DEF Committed

\* When nothing of it changes but that something may leave.
LEMMA CommittedKept ==
  ASSUME TypeOK, NEW a,
         \A k \in Pending(a)' : k \in Pending(a) /\ claims'[k].amount = claims[k].amount,
         \A j \in PendingRows(a)' :
           j \in PendingRows(a) /\ settlements'[j].amount = settlements[j].amount
  PROVE  Committed(a)' \in Nat /\ Committed(a)' <= Committed(a)
<1>1. /\ SumFunctionOnSet(Claimed, {}) \in Nat /\ SumFunctionOnSet(Settled, {}) \in Nat
      /\ Committed(a)' \in Nat
      /\ Committed(a)' + SumFunctionOnSet(Claimed, {}) + SumFunctionOnSet(Settled, {})
           <= Committed(a)
  BY CommittedShrinks
<1> QED
  BY <1>1, CommittedIsSum

\* When a claim is added, or a settlement.
LEMMA CommittedToClaim ==
  ASSUME TypeOK, NEW a, NEW c \in ClaimKey, claims'[c].amount \in Nat,
         \A k \in Pending(a)' :
           k = c \/ (k \in Pending(a) /\ claims'[k].amount = claims[k].amount),
         \A j \in PendingRows(a)' :
           j \in PendingRows(a) /\ settlements'[j].amount = settlements[j].amount
  PROVE  Committed(a)' \in Nat /\ Committed(a)' <= Committed(a) + claims'[c].amount
<1>1. PICK P, R, f, g : P = Pending(a)' /\ R = PendingRows(a)' /\ f = Claimed' /\ g = Settled'
  OBVIOUS
<1>2. Committed(a)' = SumFunctionOnSet(f, P) + SumFunctionOnSet(g, R)
  BY <1>1 DEF Committed
<1>3. /\ SumFunctionOnSet(f, P) \in Nat
      /\ SumFunctionOnSet(f, P) <= SumFunctionOnSet(Claimed, Pending(a)) + claims'[c].amount
  <2>1. P \in SUBSET (Pending(a) \union {c})
    BY <1>1
  <2>2. \A k \in Pending(a) : k \in ClaimKey /\ Claimed[k] = claims[k].amount /\ Claimed[k] \in Nat
    BY CommittedIsSum, ColumnsAreTyped
  <2>3. f[c] = claims'[c].amount /\ \A k \in P : k # c => f[k] = Claimed[k]
    BY <1>1, <2>1, <2>2, NextAmounts
  <2>4. /\ SumFunctionOnSet(f, P) \in Nat
        /\ SumFunctionOnSet(f, P) <= SumFunctionOnSet(Claimed, Pending(a)) + f[c]
    BY <2>1, <2>2, <2>3, CommittedIsSum, SumGrows
  <2> QED
    BY <2>3, <2>4
<1>4. /\ SumFunctionOnSet(g, R) \in Nat
      /\ SumFunctionOnSet(g, R) <= SumFunctionOnSet(Settled, PendingRows(a))
  <2>1. R \in SUBSET (PendingRows(a) \ {})
    BY <1>1
  <2>2. \A j \in PendingRows(a) : Settled[j] = settlements[j].amount /\ Settled[j] \in Nat
    BY CommittedIsSum, ColumnsAreTyped
  <2>3. \A j \in R : j \in DOMAIN settlements'
    BY <1>1 DEF PendingRows, SettlementsOf
  <2>4. \A j \in R : g[j] = Settled[j]
    BY <1>1, <2>1, <2>2, <2>3, NextAmounts
  <2>5. /\ SumFunctionOnSet(g, R) \in Nat /\ SumFunctionOnSet(Settled, {}) \in Nat
        /\ SumFunctionOnSet(g, R) + SumFunctionOnSet(Settled, {})
             <= SumFunctionOnSet(Settled, PendingRows(a))
    BY <2>1, <2>2, <2>4, CommittedIsSum, SumShrinks
  <2> QED
    BY <2>5, CommittedIsSum
<1> QED
  BY <1>2, <1>3, <1>4, CommittedIsSum DEF Committed

\* What is committed grows by no more than the settlement that a step decides.
LEMMA CommittedToRow ==
  ASSUME TypeOK, NEW a, NEW n \in DOMAIN settlements', settlements'[n].amount \in Nat,
         \A k \in Pending(a)' : k \in Pending(a) /\ claims'[k].amount = claims[k].amount,
         \A j \in PendingRows(a)' :
           j = n \/ (j \in PendingRows(a) /\ settlements'[j].amount = settlements[j].amount)
  PROVE  Committed(a)' \in Nat /\ Committed(a)' <= Committed(a) + settlements'[n].amount
<1>1. PICK P, R, f, g : P = Pending(a)' /\ R = PendingRows(a)' /\ f = Claimed' /\ g = Settled'
  OBVIOUS
<1>2. Committed(a)' = SumFunctionOnSet(f, P) + SumFunctionOnSet(g, R)
  BY <1>1 DEF Committed
<1>3. /\ SumFunctionOnSet(f, P) \in Nat
      /\ SumFunctionOnSet(f, P) <= SumFunctionOnSet(Claimed, Pending(a))
  <2>1. P \in SUBSET (Pending(a) \ {})
    BY <1>1
  <2>2. \A k \in Pending(a) : k \in ClaimKey /\ Claimed[k] = claims[k].amount /\ Claimed[k] \in Nat
    BY CommittedIsSum, ColumnsAreTyped
  <2>3. \A k \in P : f[k] = Claimed[k]
    BY <1>1, <2>1, <2>2, NextAmounts
  <2>4. /\ SumFunctionOnSet(f, P) \in Nat /\ SumFunctionOnSet(Claimed, {}) \in Nat
        /\ SumFunctionOnSet(f, P) + SumFunctionOnSet(Claimed, {})
             <= SumFunctionOnSet(Claimed, Pending(a))
    BY <2>1, <2>2, <2>3, CommittedIsSum, SumShrinks
  <2> QED
    BY <2>4, CommittedIsSum
<1>4. /\ SumFunctionOnSet(g, R) \in Nat
      /\ SumFunctionOnSet(g, R)
           <= SumFunctionOnSet(Settled, PendingRows(a)) + settlements'[n].amount
  <2>1. R \in SUBSET (PendingRows(a) \union {n})
    BY <1>1
  <2>2. \A j \in PendingRows(a) : Settled[j] = settlements[j].amount /\ Settled[j] \in Nat
    BY CommittedIsSum, ColumnsAreTyped
  <2>3. \A j \in R : j \in DOMAIN settlements'
    BY <1>1 DEF PendingRows, SettlementsOf
  <2>4. g[n] = settlements'[n].amount /\ \A j \in R : j # n => g[j] = Settled[j]
    BY <1>1, <2>1, <2>2, <2>3, NextAmounts
  <2>5. /\ SumFunctionOnSet(g, R) \in Nat
        /\ SumFunctionOnSet(g, R) <= SumFunctionOnSet(Settled, PendingRows(a)) + g[n]
    BY <2>1, <2>2, <2>4, CommittedIsSum, SumGrows
  <2> QED
    BY <2>4, <2>5
<1> QED
  BY <1>2, <1>3, <1>4, CommittedIsSum DEF Committed

\* What is pending is there.
LEMMA PendingIsThere ==
  ASSUME Ledger
  PROVE  /\ \A k \in ClaimKey : IsPending(k) => Exists(k)
         /\ \A a : Pending(a) \subseteq Against(a)
<1>1. ASSUME NEW k \in ClaimKey, IsPending(k) PROVE Exists(k)
  <2>1. CASE \E w \in Worker : at[w].op = "pay_claim" /\ at[w].key = k
    BY <2>1, FinalizingKey DEF IsFinalizing, Ledger
  <2>2. CASE PaymentsOf(k) \ Confirmed # {}
    BY <2>2 DEF Ledger, ClaimLedger
  <2> QED
    BY <1>1, <2>1, <2>2 DEF IsPending
<1> QED
  BY <1>1 DEF Pending, Against

\* A claim that was paid, and a settlement, is pending no more.
LEMMA ConfirmedIsDone ==
  ASSUME Ledger, NEW i \in Confirmed
  PROVE  /\ i \in DOMAIN chain
         /\ chain[i].kind = "claim" =>
              /\ chain[i].key \in ClaimKey /\ i \in PaymentsOf(chain[i].key)
              /\ ~ IsPending(chain[i].key) /\ chain[i].payer = PayerOf(chain[i].key)
         /\ chain[i].kind # "claim" =>
              /\ i \in SettlementsSent /\ chain[i].row \in DOMAIN settlements
              /\ ~ RowIsPending(chain[i].row)
              /\ chain[i].payer = settlements[chain[i].row].payer
<1>1. i \in DOMAIN chain /\ chain[i] \in Tx
  BY ListsAreTyped DEF Ledger, SettlementLedger, Ready, TypeInv
<1>2. CASE chain[i].kind = "claim"
  <2>1. PICK k : k = chain[i].key /\ k \in ClaimKey
    BY <1>1, <1>2 DEF Tx
  <2>2. i \in PaymentsOf(k)
    BY <1>1, <1>2, <2>1 DEF PaymentsOf
  <2>3. PaymentsOf(k) = {i} /\ chain[i].payer = PayerOf(k)
    BY <2>1, <2>2 DEF Ledger, ClaimLedger
  <2>4. \A w \in Worker : at[w].op = "pay_claim" => at[w].key # k
    BY <2>3 DEF Ledger, ClaimLedger
  <2> QED
    BY <1>1, <1>2, <2>1, <2>2, <2>3, <2>4 DEF IsPending
<1>3. CASE chain[i].kind # "claim"
  <2>1. chain[i].kind = "settlement"
    BY <1>1, <1>3 DEF Tx
  <2>2. i \in SettlementsSent
    BY <1>1, <2>1 DEF SettlementsSent
  <2>3. PICK j : j = chain[i].row
    OBVIOUS
  <2>4. j \in DOMAIN settlements /\ chain[i].payer = settlements[j].payer
    BY <2>2, <2>3 DEF Ledger, SettlementLedger
  <2>5. ~ RowIsPending(j)
    BY <2>2, <2>3 DEF Ledger, SettlementLedger, RowIsPending
  <2> QED
    BY <1>1, <1>3, <2>2, <2>3, <2>4, <2>5
<1> QED
  BY <1>2, <1>3

\* What was moved for settlements, and for claims that are still there.
PaidClaims(a) ==
  {i \in Confirmed : chain[i].payer = a /\ chain[i].kind = "claim" /\ Exists(chain[i].key)}

PaidRows(a) == {i \in Confirmed : chain[i].payer = a /\ chain[i].kind # "claim"}

\* What the payments in the table moved: that of the claims and that of the settlements.
LEMMA StillClaimedIsSum ==
  ASSUME TypeOK, NEW a
  PROVE  /\ PaidClaims(a) \subseteq Confirmed /\ PaidRows(a) \subseteq Confirmed
         /\ IsFiniteSet(PaidClaims(a)) /\ IsFiniteSet(PaidRows(a))
         /\ SumFunctionOnSet(Moved, PaidClaims(a)) \in Nat
         /\ SumFunctionOnSet(Moved, PaidRows(a)) \in Nat
         /\ StillClaimed(a) = SumFunctionOnSet(Moved, PaidClaims(a))
                              + SumFunctionOnSet(Moved, PaidRows(a))
<1>1. PaidClaims(a) \in SUBSET Confirmed /\ PaidRows(a) \in SUBSET Confirmed
  BY DEF PaidClaims, PaidRows
<1>2. /\ IsFiniteSet(PaidClaims(a)) /\ IsFiniteSet(PaidRows(a))
      /\ SumFunctionOnSet(Moved, PaidClaims(a)) \in Nat
      /\ SumFunctionOnSet(Moved, PaidRows(a)) \in Nat
  BY <1>1, ClaimsAreNumbers
<1>3. /\ PaidClaims(a) \intersect PaidRows(a) = {}
      /\ \A i \in PaidClaims(a) \union PaidRows(a) : Moved[i] \in Int
  BY <1>1, ColumnsAreTyped DEF PaidClaims, PaidRows
<1>4. {i \in Confirmed : /\ chain[i].payer = a
                         /\ chain[i].kind = "claim" => Exists(chain[i].key)}
        = PaidClaims(a) \union PaidRows(a)
  BY DEF PaidClaims, PaidRows
<1>5. SumFunctionOnSet(Moved, PaidClaims(a) \union PaidRows(a))
        = SumFunctionOnSet(Moved, PaidClaims(a)) + SumFunctionOnSet(Moved, PaidRows(a))
  BY <1>2, <1>3, SumUnion
<1> QED
  BY <1>1, <1>2, <1>4, <1>5 DEF StillClaimed

\* The claims in K, which nothing was decided about, what is pending and what was already
\* moved but is still counted make up the sum of the claims, or less.
LEMMA ClaimsOverlap ==
  ASSUME Ledger, \A i \in Confirmed : blocks[i].moved = chain[i].amount, NEW a,
         NEW K \in SUBSET Against(a), \A k \in K : ~ IsPending(k) /\ PaymentsOf(k) = {}
  PROVE  Committed(a) + StillClaimed(a) + SumFunctionOnSet(Claimed, K) <= SumOfExistingClaims(a)
<1>1. TypeOK
  BY DEF Ledger, Ready, TypeInv
<1>2. /\ Against(a) \in SUBSET ClaimKey /\ SettlementsOf(a) \in SUBSET DOMAIN settlements
      /\ IsFiniteSet(Against(a)) /\ IsFiniteSet(SettlementsOf(a)) /\ IsFiniteSet(K)
  <2>1. Against(a) \in SUBSET ClaimKey /\ SettlementsOf(a) \in SUBSET DOMAIN settlements
    BY DEF Against, SettlementsOf
  <2> QED
    BY <1>1, <2>1, ClaimsAreNumbers, FS_Subset
<1>3. /\ \A k \in ClaimKey : Claimed[k] \in Nat /\ Claimed[k] = claims[k].amount
      /\ \A j \in DOMAIN settlements : Settled[j] \in Nat /\ Settled[j] = settlements[j].amount
      /\ \A i \in Confirmed : Moved[i] \in Nat /\ Moved[i] = chain[i].amount
  BY <1>1, ColumnsAreTyped
<1>4. PICK P, R : P = Pending(a) /\ R = PendingRows(a)
  OBVIOUS
<1>5. P \in SUBSET Against(a) /\ K \in SUBSET (Against(a) \ P) /\ R \in SUBSET SettlementsOf(a)
  BY <1>4, PendingIsThere DEF Pending, PendingRows
<1>6. PICK C, S : C = (Against(a) \ P) \ K /\ S = SettlementsOf(a) \ R
  OBVIOUS
<1>7. IsFiniteSet(C) /\ IsFiniteSet(S) /\ C \subseteq ClaimKey /\ S \subseteq DOMAIN settlements
  BY <1>2, <1>6, FS_Subset
<1>8. SumFunctionOnSet(Moved, PaidClaims(a)) <= SumFunctionOnSet(Claimed, C)
  <2> DEFINE h == [i \in DOMAIN chain |-> chain[i].key]
  <2>1. ASSUME NEW i \in PaidClaims(a)
        PROVE  h[i] \in C /\ Moved[i] \in Nat /\ Moved[i] <= Claimed[h[i]] /\ i \in PaymentsOf(h[i])
               /\ h[i] \in ClaimKey
    <3>1. i \in Confirmed /\ chain[i].payer = a /\ chain[i].kind = "claim" /\ Exists(chain[i].key)
      BY DEF PaidClaims
    <3>2. PICK k : k = chain[i].key
      OBVIOUS
    <3>3. /\ i \in DOMAIN chain /\ k \in ClaimKey /\ i \in PaymentsOf(k) /\ ~ IsPending(k)
          /\ PayerOf(k) = a
      BY <3>1, <3>2, ConfirmedIsDone
    <3>4. k \in C
      BY <1>4, <1>6, <3>1, <3>2, <3>3 DEF Against, Pending
    <3>5. chain[i].amount <= claims[k].amount
      BY <3>1, <3>2, <3>3 DEF Ledger, ClaimLedger
    <3>6. h[i] = k
      BY <3>2, <3>3
    <3> QED
      BY <1>3, <3>1, <3>3, <3>4, <3>5, <3>6
  <2>2. \A x, y \in PaidClaims(a) : h[x] = h[y] => x = y
    BY <2>1 DEF Ledger, ClaimLedger
  <2> HIDE DEF h
  <2>3. IsFiniteSet(PaidClaims(a))
    BY <1>1, StillClaimedIsSum
  <2>4. \A k \in C : Claimed[k] \in Nat
    BY <1>3, <1>7
  <2> QED
    BY <1>7, <2>1, <2>2, <2>3, <2>4, SumMatched
<1>9. SumFunctionOnSet(Moved, PaidRows(a)) <= SumFunctionOnSet(Settled, S)
  <2> DEFINE h == [i \in DOMAIN chain |-> chain[i].row]
  <2>1. ASSUME NEW i \in PaidRows(a)
        PROVE  h[i] \in S /\ Moved[i] \in Nat /\ Moved[i] <= Settled[h[i]] /\ h[i] = chain[i].row
               /\ i \in SettlementsSent
    <3>1. i \in Confirmed /\ chain[i].payer = a /\ chain[i].kind # "claim"
      BY DEF PaidRows
    <3>2. PICK j : j = chain[i].row
      OBVIOUS
    <3>3. /\ i \in DOMAIN chain /\ i \in SettlementsSent /\ j \in DOMAIN settlements
          /\ ~ RowIsPending(j) /\ settlements[j].payer = a
      BY <3>1, <3>2, ConfirmedIsDone
    <3>4. j \in S
      BY <1>4, <1>6, <3>3 DEF SettlementsOf, PendingRows
    <3>5. chain[i].amount <= settlements[j].amount
      BY <3>2, <3>3 DEF Ledger, SettlementLedger
    <3>6. h[i] = j
      BY <3>2, <3>3
    <3> QED
      BY <1>3, <3>1, <3>2, <3>3, <3>4, <3>5, <3>6
  <2>2. \A x, y \in PaidRows(a) : h[x] = h[y] => x = y
    <3> SUFFICES ASSUME NEW x \in PaidRows(a), NEW y \in PaidRows(a), h[x] = h[y]
                 PROVE  x = y
      OBVIOUS
    <3>1. /\ x \in SettlementsSent /\ y \in SettlementsSent
          /\ chain[x].row = chain[y].row
      <4> HIDE DEF h
      <4> QED BY <2>1
    <3>2. \A i, j \in SettlementsSent : chain[i].row = chain[j].row => i = j
      BY DEF Ledger, SettlementLedger
    <3> QED
      BY <3>1, <3>2
  <2> HIDE DEF h
  <2>3. IsFiniteSet(PaidRows(a))
    BY <1>1, StillClaimedIsSum
  <2>4. \A j \in S : Settled[j] \in Nat
    BY <1>3, <1>7
  <2> QED
    BY <1>7, <2>1, <2>2, <2>3, <2>4, SumMatched
<1>10. SumFunctionOnSet(Claimed, Against(a))
         = SumFunctionOnSet(Claimed, P) + SumFunctionOnSet(Claimed, K) + SumFunctionOnSet(Claimed, C)
       /\ SumFunctionOnSet(Claimed, P) \in Nat /\ SumFunctionOnSet(Claimed, K) \in Nat
       /\ SumFunctionOnSet(Claimed, C) \in Nat
  <2>1. \A k \in Against(a) : Claimed[k] \in Int
    BY <1>2, <1>3
  <2>2. SumFunctionOnSet(Claimed, Against(a))
          = SumFunctionOnSet(Claimed, P) + SumFunctionOnSet(Claimed, Against(a) \ P)
    BY <1>2, <1>5, <2>1, SumSplit
  <2>3. SumFunctionOnSet(Claimed, Against(a) \ P)
          = SumFunctionOnSet(Claimed, K) + SumFunctionOnSet(Claimed, (Against(a) \ P) \ K)
    <3>1. IsFiniteSet(Against(a) \ P) /\ \A k \in Against(a) \ P : Claimed[k] \in Int
      BY <1>2, <2>1, FS_Subset
    <3> QED
      BY <1>5, <3>1, SumSplit
  <2>4. /\ SumFunctionOnSet(Claimed, P) \in Nat /\ SumFunctionOnSet(Claimed, K) \in Nat
        /\ SumFunctionOnSet(Claimed, C) \in Nat
    BY <1>1, <1>2, <1>5, <1>7, ClaimsAreNumbers
  <2>5. SumFunctionOnSet(Claimed, Against(a) \ P)
          = SumFunctionOnSet(Claimed, K) + SumFunctionOnSet(Claimed, C)
    BY <1>6, <2>3
  <2> QED
    BY <2>2, <2>4, <2>5
<1>11. SumFunctionOnSet(Settled, SettlementsOf(a))
         = SumFunctionOnSet(Settled, R) + SumFunctionOnSet(Settled, S)
       /\ SumFunctionOnSet(Settled, R) \in Nat /\ SumFunctionOnSet(Settled, S) \in Nat
  <2>1. \A j \in SettlementsOf(a) : Settled[j] \in Int
    BY <1>2, <1>3
  <2>2. SumFunctionOnSet(Settled, SettlementsOf(a))
          = SumFunctionOnSet(Settled, R) + SumFunctionOnSet(Settled, SettlementsOf(a) \ R)
    BY <1>2, <1>5, <2>1, SumSplit
  <2>3. SumFunctionOnSet(Settled, R) \in Nat /\ SumFunctionOnSet(Settled, S) \in Nat
    BY <1>1, <1>2, <1>5, <1>7, ClaimsAreNumbers
  <2> QED
    BY <1>6, <2>2, <2>3
<1>12. /\ Committed(a) = SumFunctionOnSet(Claimed, P) + SumFunctionOnSet(Settled, R)
       /\ SumOfExistingClaims(a) = SumFunctionOnSet(Claimed, Against(a))
                                   + SumFunctionOnSet(Settled, SettlementsOf(a))
       /\ StillClaimed(a) = SumFunctionOnSet(Moved, PaidClaims(a))
                            + SumFunctionOnSet(Moved, PaidRows(a))
       /\ SumFunctionOnSet(Moved, PaidClaims(a)) \in Nat
       /\ SumFunctionOnSet(Moved, PaidRows(a)) \in Nat
  BY <1>1, <1>4, StillClaimedIsSum DEF Committed, SumOfExistingClaims
<1> QED
  BY <1>8, <1>9, <1>10, <1>11, <1>12

\* Nothing is sent or confirmed.
LEMMA CoverKept ==
  ASSUME Ledger, CoverInv, UNCHANGED <<deposit, chain, blocks>>,
         \A j \in DOMAIN settlements : settlements'[j].amount = settlements[j].amount,
         \A a \in Account : Committed(a)' <= deposit[a]
  PROVE  CoverInv'
<1>1. SettlementsSent' = SettlementsSent /\ Confirmed' = Confirmed
  BY DEF SettlementsSent, Confirmed
<1>2. \A i \in SettlementsSent' : chain'[i].amount = settlements'[chain'[i].row].amount
  BY <1>1 DEF CoverInv, Ledger, SettlementLedger
<1>3. \A i \in Confirmed' : blocks'[i].moved = chain'[i].amount
  BY <1>1 DEF CoverInv
<1> QED
  BY <1>2, <1>3 DEF CoverInv

\* No worker decides on a payment.
LEMMA PendingKept ==
  ASSUME UNCHANGED <<chain, blocks>>,
         \A v \in Worker : at'[v] = at[v] \/ at'[v].op \notin {"pay_claim", "pay_settlement"}
  PROVE  /\ \A k : IsPending(k)' => IsPending(k)
         /\ \A j : RowIsPending(j)' => RowIsPending(j)
<1>1. \A k : PaymentsOf(k)' = PaymentsOf(k)
  BY SamePayments
<1>2. SettlementsSent' = SettlementsSent /\ Confirmed' = Confirmed
  BY DEF SettlementsSent, Confirmed
<1>3. ASSUME NEW k, IsPending(k)' PROVE IsPending(k)
  BY <1>1, <1>2, <1>3 DEF IsPending
<1>4. ASSUME NEW j, RowIsPending(j)' PROVE RowIsPending(j)
  BY <1>2, <1>4 DEF RowIsPending
<1> QED
  BY <1>3, <1>4

\* A step that decides nothing, and changes no amount that is pending, keeps CoverInv.
LEMMA QuietCover ==
  ASSUME Ledger, CoverInv, UNCHANGED <<deposit, chain, blocks>>,
         \A v \in Worker : at'[v] = at[v] \/ at'[v].op \notin {"pay_claim", "pay_settlement"},
         \A k \in ClaimKey : IsPending(k) => claims'[k].amount = claims[k].amount,
         DOMAIN settlements' = DOMAIN settlements,
         \A j \in DOMAIN settlements : /\ settlements'[j].payer = settlements[j].payer
                                       /\ settlements'[j].amount = settlements[j].amount
  PROVE  CoverInv'
<1>0. TypeOK
  BY DEF Ledger, Ready, TypeInv
<1>1. ASSUME NEW a \in Account
      PROVE  Committed(a)' <= deposit[a]
  <2>1. \A k \in Pending(a)' : k \in Pending(a) /\ claims'[k].amount = claims[k].amount
    BY PendingKept DEF Pending
  <2>2. \A j \in PendingRows(a)' :
          j \in PendingRows(a) /\ settlements'[j].amount = settlements[j].amount
    BY PendingKept DEF PendingRows, SettlementsOf
  <2>3. Committed(a)' \in Nat /\ Committed(a)' <= Committed(a)
    BY <1>0, <2>1, <2>2, CommittedKept
  <2>5. Committed(a) <= deposit[a] /\ deposit[a] \in Nat
    BY <1>0 DEF CoverInv, TypeOK
  <2> QED
    BY <1>0, <2>3, <2>5, CommittedIsSum
<1> QED
  BY <1>1, CoverKept

\* The steps that decide on nothing and send nothing.
LEMMA OtherCover ==
  ASSUME Ledger, CoverInv,
         \/ UNCHANGED vars \/ Tick \/ \E s \in Subtask : Transfer(s)
         \/ \E w \in Worker :
              \/ \E s \in Subtask, use \in UseCase : AskForDeposits(w, s, use)
              \/ CheckRequestor(w) \/ CheckProvider(w)
              \/ \E k \in ClaimKey : AskForPayersDeposit(w, k)
              \/ \E acceptances \in SUBSET Subtask : AskForSettledDeposit(w, acceptances)
              \/ Abort(w)
  PROVE  CoverInv'
<1>1. UNCHANGED <<deposit, chain, blocks, claims, settlements>>
  BY DEF vars, Tick, Transfer, AskForDeposits, CheckRequestor, CheckProvider,
         AskForPayersDeposit, AskForSettledDeposit, Abort, table, ether
<1>2. \A v \in Worker : at'[v] = at[v] \/ at'[v].op \notin {"pay_claim", "pay_settlement"}
  <2>1. CASE UNCHANGED at
    BY <2>1
  <2>2. ASSUME NEW w \in Worker, NEW step, Step(w, step),
               step.op \notin {"pay_claim", "pay_settlement"}
        PROVE  \A v \in Worker : at'[v] = at[v]
                                 \/ at'[v].op \notin {"pay_claim", "pay_settlement"}
    BY <2>2, StepTaken DEF Ledger, Ready, TypeInv
  <2>3. ASSUME NEW w \in Worker
        PROVE  /\ \A s \in Subtask, use \in UseCase : AskForDeposits(w, s, use) =>
                    \E step : Step(w, step) /\ step.op \notin {"pay_claim", "pay_settlement"}
               /\ CheckRequestor(w) =>
                    \E step : Step(w, step) /\ step.op \notin {"pay_claim", "pay_settlement"}
               /\ CheckProvider(w) =>
                    \E step : Step(w, step) /\ step.op \notin {"pay_claim", "pay_settlement"}
               /\ \A k \in ClaimKey : AskForPayersDeposit(w, k) =>
                    \E step : Step(w, step) /\ step.op \notin {"pay_claim", "pay_settlement"}
               /\ \A A \in SUBSET Subtask : AskForSettledDeposit(w, A) =>
                    \E step : Step(w, step) /\ step.op \notin {"pay_claim", "pay_settlement"}
               /\ Abort(w) =>
                    \E step : Step(w, step) /\ step.op \notin {"pay_claim", "pay_settlement"}
    <3>1. \A s \in Subtask, use \in UseCase : AskForDeposits(w, s, use) =>
            \E step : Step(w, step) /\ step.op \notin {"pay_claim", "pay_settlement"}
      BY DEF AskForDeposits
    <3>2. CheckRequestor(w) =>
            \E step : Step(w, step) /\ step.op \notin {"pay_claim", "pay_settlement"}
      BY DEF CheckRequestor, Idle
    <3>3. CheckProvider(w) =>
            \E step : Step(w, step) /\ step.op \notin {"pay_claim", "pay_settlement"}
      BY DEF CheckProvider, Idle
    <3>4. \A k \in ClaimKey : AskForPayersDeposit(w, k) =>
            \E step : Step(w, step) /\ step.op \notin {"pay_claim", "pay_settlement"}
      BY DEF AskForPayersDeposit
    <3>5. \A A \in SUBSET Subtask : AskForSettledDeposit(w, A) =>
            \E step : Step(w, step) /\ step.op \notin {"pay_claim", "pay_settlement"}
      BY DEF AskForSettledDeposit
    <3>6. Abort(w) =>
            \E step : Step(w, step) /\ step.op \notin {"pay_claim", "pay_settlement"}
      BY DEF Abort, Idle
    <3> QED
      BY <3>1, <3>2, <3>3, <3>4, <3>5, <3>6
  <2>4. CASE UNCHANGED vars \/ Tick \/ \E s \in Subtask : Transfer(s)
    BY <2>1, <2>4 DEF vars, Tick, Transfer
  <2> QED
    BY <2>2, <2>3, <2>4
<1> QED
  BY <1>1, <1>2, QuietCover

\* New claims are not pending yet.
LEMMA InsertClaimsCover ==
  ASSUME Ledger, CoverInv, NEW w \in Worker, InsertClaims(w)
  PROVE  CoverInv'
<1>1. UNCHANGED <<deposit, chain, blocks, settlements>> /\ Step(w, Idle)
  BY DEF InsertClaims, ether
<1>2. \A v \in Worker : at'[v] = at[v] \/ at'[v].op \notin {"pay_claim", "pay_settlement"}
  BY <1>1, StepTaken DEF Ledger, Ready, TypeInv, Idle
<1>3. ASSUME NEW k \in ClaimKey, IsPending(k)
      PROVE  claims'[k].amount = claims[k].amount
  <2>1. Exists(k)
    BY <1>3, PendingIsThere
  <2> QED
    BY <2>1 DEF InsertClaims
<1> QED
  BY <1>1, <1>2, <1>3, QuietCover

\* The hash of a transaction changes no amount.
LEMMA SaveClaimCover ==
  ASSUME Ledger, CoverInv, NEW w \in Worker, SaveClaim(w)
  PROVE  CoverInv'
<1>1. /\ UNCHANGED <<deposit, chain, blocks, settlements>> /\ Step(w, Idle)
      /\ claims' = [claims EXCEPT ![at[w].key].tx = at[w].tx]
  BY DEF SaveClaim, ether
<1>2. \A v \in Worker : at'[v] = at[v] \/ at'[v].op \notin {"pay_claim", "pay_settlement"}
  BY <1>1, StepTaken DEF Ledger, Ready, TypeInv, Idle
<1>3. ASSUME NEW k \in ClaimKey
      PROVE  claims'[k].amount = claims[k].amount
  <2>1. claims \in [ClaimKey -> Claim]
    BY DEF Ledger, Ready, TypeInv, TypeOK
  <2>2. claims'[k] = claims[k] \/ claims'[k] = [claims[k] EXCEPT !.tx = at[w].tx]
    BY <1>1, <2>1
  <2> QED
    BY <2>1, <2>2 DEF Claim
<1> QED
  BY <1>1, <1>2, <1>3, QuietCover

\* A claim is discarded when its payment is confirmed, and then it is not pending.
LEMMA DiscardClaimCover ==
  ASSUME Ledger, CoverInv, NEW w \in Worker, NEW k \in ClaimKey, DiscardClaim(w, k)
  PROVE  CoverInv'
<1>1. /\ UNCHANGED <<deposit, chain, blocks, settlements, at>>
      /\ claims' = [claims EXCEPT ![k] = NoClaim] /\ claims[k].tx \in Confirmed
  BY DEF DiscardClaim, ether
<1>2. ASSUME NEW j \in ClaimKey, IsPending(j)
      PROVE  claims'[j].amount = claims[j].amount
  <2>1. claims[k].tx # NULL
    BY <1>1, PaymentsArePlaces DEF Ledger, Ready, TypeInv, NULL
  <2>2. claims[k].tx \in PaymentsOf(k)
    BY <2>1 DEF Ledger, ClaimLedger
  <2>3. PICK i : i = claims[k].tx
    OBVIOUS
  <2>4. i \in DOMAIN chain /\ chain[i].kind = "claim" /\ chain[i].key = k
    BY <2>2, <2>3 DEF PaymentsOf
  <2>5. ~ IsPending(k)
    BY <1>1, <2>3, <2>4, ConfirmedIsDone
  <2> QED
    BY <1>1, <1>2, <2>5 DEF Ledger, Ready, TypeInv, TypeOK
<1> QED
  BY <1>1, <1>2, QuietCover

\* A claim takes what the deposit holds beyond the other claims, or less.
LEMMA LockClaimCover ==
  ASSUME Ledger, CoverInv, DepositsAreFresh, NEW w \in Worker, LockClaim(w)
  PROVE  CoverInv'
<1>0. TypeOK /\ TypeOK'
  <2>1. TypeOK'
    BY LockClaimTyped DEF Ledger, Ready, TypeInv
  <2> QED
    BY <2>1 DEF Ledger, Ready, TypeInv
<1>1. PICK k, a, funds, available :
        /\ k = at[w].key /\ a = PayerOf(k) /\ funds = at[w].funds
        /\ available = AvailableFunds(k, funds)
  OBVIOUS
<1>2. UNCHANGED <<deposit, chain, blocks, settlements>> /\ at[w].op = "lock_claim"
  BY DEF LockClaim, ether
<1>3. /\ k \in ClaimKey /\ funds \in Nat /\ Exists(k) /\ PaymentsOf(k) = {} /\ a \in Account
  <2>1. k \in ClaimKey /\ Exists(k)
    BY <1>1, <1>2, FinalizingKey DEF IsFinalizing, Ledger
  <2>2. funds \in Nat
    BY <1>0, <1>1, <1>2, StepFields DEF TypeOK
  <2> QED
    BY <1>1, <1>2, <2>1, <2>2, Constants DEF Ledger, ClaimLedger
<1>4. ~ IsPending(k)
  BY <1>1, <1>2, <1>3 DEF IsPending, Ledger, Ready, Inv, OneFinalizer, IsFinalizing
<1>5. \A j \in ClaimKey : j # k => claims'[j] = claims[j]
  BY <1>0, <1>1 DEF LockClaim, TypeOK
<1>6. CASE NothingLeft(available)
  <2>1. Step(w, Idle)
    BY <1>1, <1>6 DEF LockClaim
  <2>2. \A v \in Worker : at'[v] = at[v] \/ at'[v].op \notin {"pay_claim", "pay_settlement"}
    BY <1>0, <2>1, StepTaken DEF Idle
  <2>3. \A j \in ClaimKey : IsPending(j) => claims'[j].amount = claims[j].amount
    BY <1>4, <1>5
  <2> QED
    BY <1>2, <2>2, <2>3, QuietCover
<1>7. CASE ~ NothingLeft(available)
  <2>1. PICK step : step = [op |-> "pay_claim", key |-> k]
    OBVIOUS
  <2>2. /\ Step(w, step)
        /\ claims' = [claims EXCEPT ![k].amount = IF available < @ THEN available ELSE @]
    BY <1>1, <1>7, <2>1 DEF LockClaim
  <2>3. \A v \in Worker : at'[v] = IF v = w THEN step ELSE at[v]
    BY <1>0, <2>2, StepTaken
  <2>4. available = funds - (SumOfExistingClaims(a) - claims[k].amount)
    BY <1>1 DEF AvailableFunds
  <2>5. /\ SumOfExistingClaims(a) \in Nat /\ claims[k].amount \in Nat
        /\ claims'[k].amount \in Nat
    BY <1>0, <1>3, ClaimsAreNumbers DEF TypeOK, Claim
  <2>6. claims'[k].amount <= available
    <3>1. claims'[k].amount = IF available < claims[k].amount THEN available
                              ELSE claims[k].amount
      <4>1. claims[k] \in Claim /\ claims \in [ClaimKey -> Claim]
        BY <1>0, <1>3 DEF TypeOK
      <4> QED
        BY <1>3, <2>2, <4>1 DEF Claim
    <3> QED
      BY <1>3, <2>4, <2>5, <3>1
  <2>7. funds <= deposit[a] + StillClaimed(a)
    <3>1. <<a, funds>> \in Told(w)
      BY <1>1, <1>2 DEF Told
    <3>2. <<a, funds>>[2] <= deposit[<<a, funds>>[1]] + StillClaimed(<<a, funds>>[1])
      BY <3>1 DEF DepositsAreFresh
    <3> QED
      BY <3>2
  <2>8. Committed(a) + StillClaimed(a) + claims[k].amount <= SumOfExistingClaims(a)
    <3>1. {k} \in SUBSET Against(a) /\ \A j \in {k} : ~ IsPending(j) /\ PaymentsOf(j) = {}
      BY <1>1, <1>3, <1>4 DEF Against
    <3>2. \A i \in Confirmed : blocks[i].moved = chain[i].amount
      BY DEF CoverInv
    <3>3. Committed(a) + StillClaimed(a) + SumFunctionOnSet(Claimed, {k})
            <= SumOfExistingClaims(a)
      BY <3>1, <3>2, ClaimsOverlap
    <3>4. SumFunctionOnSet(Claimed, {k}) = claims[k].amount
      <4>1. Claimed[k] \in Int /\ Claimed[k] = claims[k].amount
        BY <1>0, <1>3, ColumnsAreTyped
      <4>2. SumFunctionOnSet(Claimed, {k}) = Claimed[k]
        BY <4>1, SumOne
      <4> QED
        BY <4>1, <4>2
    <3> QED
      BY <3>3, <3>4
  <2>9. StillClaimed(a) \in Nat /\ Committed(a) \in Nat /\ deposit[a] \in Nat
    BY <1>0, <1>3, StillClaimedIsSum, CommittedIsSum DEF TypeOK
  <2>10. Committed(a) + claims'[k].amount <= deposit[a]
    BY <1>3, <2>4, <2>5, <2>6, <2>7, <2>8, <2>9
  <2>11. /\ \A j : IsPending(j)' => IsPending(j) \/ j = k
         /\ \A j : RowIsPending(j)' => RowIsPending(j)
    <3>1. SettlementsSent' = SettlementsSent /\ Confirmed' = Confirmed
          /\ \A j : PaymentsOf(j)' = PaymentsOf(j)
      BY <1>2, SamePayments DEF SettlementsSent, Confirmed
    <3>2. step.op = "pay_claim" /\ step.key = k
      BY <2>1
    <3>3. ASSUME NEW j, IsPending(j)' PROVE IsPending(j) \/ j = k
      BY <2>3, <3>1, <3>2, <3>3 DEF IsPending
    <3>4. ASSUME NEW j, RowIsPending(j)' PROVE RowIsPending(j)
      BY <1>2, <2>3, <3>1, <3>2, <3>4 DEF RowIsPending
    <3> QED
      BY <3>3, <3>4
  <2>12. ASSUME NEW b \in Account
         PROVE  Committed(b)' <= deposit[b]
    <3>1. \A j \in PendingRows(b)' :
            j \in PendingRows(b) /\ settlements'[j].amount = settlements[j].amount
      BY <1>2, <2>11 DEF PendingRows, SettlementsOf
    <3>2. CASE b = a
      <4>1. \A j \in Pending(b)' :
              j = k \/ (j \in Pending(b) /\ claims'[j].amount = claims[j].amount)
        BY <1>5, <2>11 DEF Pending
      <4>2. Committed(b)' \in Nat /\ Committed(b)' <= Committed(b) + claims'[k].amount
        BY <1>0, <1>3, <2>5, <3>1, <4>1, CommittedToClaim
      <4> QED
        BY <2>5, <2>9, <2>10, <3>2, <4>2
    <3>3. CASE b # a
      <4>1. \A j \in Pending(b)' : j \in Pending(b) /\ claims'[j].amount = claims[j].amount
        BY <1>1, <1>5, <2>11, <3>3 DEF Pending
      <4>2. Committed(b)' \in Nat /\ Committed(b)' <= Committed(b)
        BY <1>0, <3>1, <4>1, CommittedKept
      <4>3. Committed(b) <= deposit[b] /\ deposit[b] \in Nat /\ Committed(b) \in Nat
        BY <1>0, CommittedIsSum DEF CoverInv, TypeOK
      <4> QED
        BY <4>2, <4>3
    <3> QED
      BY <3>2, <3>3
  <2> QED
    BY <1>2, <2>12, CoverKept
<1> QED
  BY <1>6, <1>7

\* What is decided is sent: it stays pending.
LEMMA PayClaimCover ==
  ASSUME Ledger, CoverInv, NEW w \in Worker, PayClaim(w)
  PROVE  CoverInv'
<1>0. TypeOK
  BY DEF Ledger, Ready, TypeInv
<1>1. PICK k, n, step : /\ k = at[w].key /\ n = Len(chain) + 1
                        /\ step = [op |-> "save_claim", key |-> k, tx |-> n]
  OBVIOUS
<1>2. UNCHANGED <<deposit, blocks, claims, settlements>> /\ at[w].op = "pay_claim" /\ Step(w, step)
  BY <1>1 DEF PayClaim, table
<1>3. PICK new \in Tx : chain' = Append(chain, new) /\ new.kind = "claim" /\ new.key = k
  BY <1>1, ClaimIsTx DEF Ledger, Ready
<1>4. /\ \A i \in DOMAIN chain : chain'[i] = chain[i]
      /\ \A j : PaymentsOf(j)' = IF j = k THEN PaymentsOf(k) \union {n} ELSE PaymentsOf(j)
      /\ SettlementsSent' = SettlementsSent
  BY <1>0, <1>1, <1>3, PaymentSent
<1>5. \A v \in Worker : at'[v] = IF v = w THEN step ELSE at[v]
  BY <1>0, <1>2, StepTaken
<1>6. Confirmed' = Confirmed /\ Confirmed \subseteq DOMAIN chain
      /\ SettlementsSent \subseteq DOMAIN chain
  BY <1>2 DEF Confirmed, Ledger, SettlementLedger, SettlementsSent
<1>7. IsPending(k)
  BY <1>1, <1>2 DEF IsPending
<1>8. ASSUME NEW j, IsPending(j)' PROVE IsPending(j)
  <2>1. CASE j = k
    BY <1>7, <2>1
  <2>2. CASE j # k
    BY <1>1, <1>4, <1>5, <1>6, <1>8, <2>2 DEF IsPending
  <2> QED
    BY <2>1, <2>2
<1>9. ASSUME NEW j, RowIsPending(j)' PROVE RowIsPending(j)
  BY <1>1, <1>4, <1>5, <1>6, <1>9 DEF RowIsPending
<1>10. ASSUME NEW a \in Account
       PROVE  Committed(a)' <= deposit'[a]
  <2>1. \A j \in Pending(a)' : j \in Pending(a) /\ claims'[j].amount = claims[j].amount
    BY <1>2, <1>8 DEF Pending
  <2>2. \A j \in PendingRows(a)' :
          j \in PendingRows(a) /\ settlements'[j].amount = settlements[j].amount
    BY <1>2, <1>9 DEF PendingRows, SettlementsOf
  <2>3. Committed(a)' \in Nat /\ Committed(a)' <= Committed(a)
    BY <1>0, <2>1, <2>2, CommittedKept
  <2>4. Committed(a) <= deposit[a] /\ deposit[a] \in Nat /\ Committed(a) \in Nat
    BY <1>0, CommittedIsSum DEF CoverInv, TypeOK
  <2> QED
    BY <1>2, <2>3, <2>4
<1>11. \A i \in SettlementsSent' : chain'[i].amount = settlements'[chain'[i].row].amount
  BY <1>2, <1>4, <1>6 DEF CoverInv
<1>12. \A i \in Confirmed' : blocks'[i].moved = chain'[i].amount
  BY <1>2, <1>4, <1>6 DEF CoverInv
<1> QED
  BY <1>10, <1>11, <1>12 DEF CoverInv

\* A settlement takes what the deposit holds beyond all the claims.
LEMMA LockSettlementCover ==
  ASSUME Ledger, CoverInv, DepositsAreFresh, NEW w \in Worker, LockSettlement(w)
  PROVE  CoverInv'
<1>0. TypeOK
  BY DEF Ledger, Ready, TypeInv
<1>1. UNCHANGED <<deposit, chain, blocks, claims>> /\ at[w].op = "settle"
  BY DEF LockSettlement, ether
<1>2. CASE UNCHANGED settlements
  <2>1. \A v \in Worker : at'[v] = at[v] \/ at'[v].op \notin {"pay_claim", "pay_settlement"}
    <3>1. Step(w, Idle)
      <4>1. ASSUME ~ Step(w, Idle) PROVE FALSE
        <5>1. PICK row : settlements' = Append(settlements, row)
          BY <4>1 DEF LockSettlement
        <5>2. Len(settlements') = Len(settlements) + 1 /\ Len(settlements) \in Nat
          BY <1>0, <5>1, Grown, ListsAreTyped, Places
        <5> QED
          BY <1>2, <5>2
      <4> QED
        BY <4>1
    <3> QED
      BY <1>0, <3>1, StepTaken DEF Idle
  <2> QED
    BY <1>1, <1>2, <2>1, QuietCover
<1>3. CASE ~ UNCHANGED settlements
  <2>1. /\ at[w].pair \in Account \X Account /\ at[w].acceptances \in SUBSET Subtask
        /\ at[w].funds \in Nat
        /\ \E new \in Row, n \in Nat : IsRowMade(w, new, n)
    BY <1>3, RowMade DEF Ledger, Ready
  <2>2. PICK new \in Row, n \in Nat : IsRowMade(w, new, n)
    BY <2>1
  <2>3. PICK a, funds : a = at[w].pair[1] /\ funds = at[w].funds /\ a \in Account /\ funds \in Nat
    BY <2>1
  <2>4. /\ n \notin DOMAIN settlements
        /\ settlements'[n] = new /\ DOMAIN settlements' = DOMAIN settlements \union {n}
        /\ \A j \in DOMAIN settlements : settlements'[j] = settlements[j]
        /\ \A v \in Worker : at'[v] = IF v = w THEN [op |-> "pay_settlement", row |-> n]
                                      ELSE at[v]
    BY <2>2 DEF IsRowMade
  <2>5. new.payer = a /\ new.amount \in Nat
    <3>1. <<new.payer, new.payee>> = at[w].pair
      BY <2>2 DEF IsRowMade
    <3> QED
      BY <2>3, <3>1 DEF Row
  <2>6. new.amount <= funds - SumOfExistingClaims(a)
    <3>1. PICK pair, A : pair = at[w].pair /\ A = at[w].acceptances /\ A \in SUBSET Subtask
      BY <2>1
    <3>2. RequestorPayableAmount(pair, A, funds) <= funds - SumOfExistingClaims(pair[1])
      BY <2>3, <3>1, PayableIsNumber DEF Ledger, Ready
    <3>3. new.amount = RequestorPayableAmount(pair, A, funds) /\ pair[1] = a
      BY <2>2, <2>3, <3>1 DEF IsRowMade
    <3> QED
      BY <3>2, <3>3
  <2>7. funds <= deposit[a] + StillClaimed(a)
    <3>1. <<a, funds>> \in Told(w)
      BY <1>1, <2>3 DEF Told
    <3>2. <<a, funds>>[2] <= deposit[<<a, funds>>[1]] + StillClaimed(<<a, funds>>[1])
      BY <3>1 DEF DepositsAreFresh
    <3> QED
      BY <3>2
  <2>8. Committed(a) + StillClaimed(a) <= SumOfExistingClaims(a)
    <3>1. {} \in SUBSET Against(a) /\ \A j \in {} : ~ IsPending(j) /\ PaymentsOf(j) = {}
      OBVIOUS
    <3>2. \A i \in Confirmed : blocks[i].moved = chain[i].amount
      BY DEF CoverInv
    <3>3. Committed(a) + StillClaimed(a) + SumFunctionOnSet(Claimed, {})
            <= SumOfExistingClaims(a)
      BY <3>1, <3>2, ClaimsOverlap
    <3> QED
      BY <1>0, <3>3, SumEmpty, CommittedIsSum, StillClaimedIsSum
  <2>9. /\ StillClaimed(a) \in Nat /\ Committed(a) \in Nat /\ deposit[a] \in Nat
        /\ SumOfExistingClaims(a) \in Nat
    BY <1>0, <2>3, StillClaimedIsSum, CommittedIsSum, ClaimsAreNumbers DEF TypeOK
  <2>10. Committed(a) + new.amount <= deposit[a]
    BY <2>3, <2>5, <2>6, <2>7, <2>8, <2>9
  <2>11. /\ \A j : IsPending(j)' => IsPending(j)
         /\ \A j : RowIsPending(j)' => RowIsPending(j) \/ j = n
    <3>1. SettlementsSent' = SettlementsSent /\ Confirmed' = Confirmed
          /\ \A j : PaymentsOf(j)' = PaymentsOf(j)
      BY <1>1, SamePayments DEF SettlementsSent, Confirmed
    <3>2. PICK step : step = [op |-> "pay_settlement", row |-> n]
      OBVIOUS
    <3>3. /\ step.op = "pay_settlement" /\ step.row = n
          /\ \A v \in Worker : at'[v] = IF v = w THEN step ELSE at[v]
      BY <2>4, <3>2
    <3>4. ASSUME NEW j, IsPending(j)' PROVE IsPending(j)
      BY <3>1, <3>3, <3>4 DEF IsPending
    <3>5. ASSUME NEW j, RowIsPending(j)' PROVE RowIsPending(j) \/ j = n
      BY <1>1, <3>1, <3>3, <3>5 DEF RowIsPending
    <3> QED
      BY <3>4, <3>5
  <2>12. ASSUME NEW b \in Account
         PROVE  Committed(b)' <= deposit[b]
    <3>1. \A k \in Pending(b)' : k \in Pending(b) /\ claims'[k].amount = claims[k].amount
      BY <1>1, <2>11 DEF Pending
    <3>2. CASE b = a
      <4>1. \A j \in PendingRows(b)' :
              j = n \/ (j \in PendingRows(b) /\ settlements'[j].amount = settlements[j].amount)
        BY <2>4, <2>11 DEF PendingRows, SettlementsOf
      <4>2. n \in DOMAIN settlements' /\ settlements'[n].amount \in Nat
        BY <2>4, <2>5
      <4>3. Committed(b)' \in Nat /\ Committed(b)' <= Committed(b) + settlements'[n].amount
        BY <1>0, <3>1, <4>1, <4>2, CommittedToRow
      <4> QED
        BY <2>4, <2>5, <2>9, <2>10, <3>2, <4>3
    <3>3. CASE b # a
      <4>1. \A j \in PendingRows(b)' :
              j \in PendingRows(b) /\ settlements'[j].amount = settlements[j].amount
        BY <2>4, <2>5, <2>11, <3>3 DEF PendingRows, SettlementsOf
      <4>2. Committed(b)' \in Nat /\ Committed(b)' <= Committed(b)
        BY <1>0, <3>1, <4>1, CommittedKept
      <4>3. Committed(b) <= deposit[b] /\ deposit[b] \in Nat /\ Committed(b) \in Nat
        BY <1>0, CommittedIsSum DEF CoverInv, TypeOK
      <4> QED
        BY <4>2, <4>3
    <3> QED
      BY <3>2, <3>3
  <2>13. \A j \in DOMAIN settlements : settlements'[j].amount = settlements[j].amount
    BY <2>4
  <2> QED
    BY <1>1, <2>12, <2>13, CoverKept
<1> QED
  BY <1>2, <1>3

\* A member of a sum of numbers is no larger than the sum.
LEMMA PendingIsCovered ==
  ASSUME Ledger, CoverInv
  PROVE  /\ \A a \in Account : \A k \in Pending(a) : claims[k].amount <= deposit[a]
         /\ \A a \in Account : \A j \in PendingRows(a) : settlements[j].amount <= deposit[a]
<1>0. TypeOK
  BY DEF Ledger, Ready, TypeInv
<1>1. ASSUME NEW a \in Account
      PROVE  /\ Committed(a) <= deposit[a] /\ deposit[a] \in Nat
             /\ Committed(a) = SumFunctionOnSet(Claimed, Pending(a))
                               + SumFunctionOnSet(Settled, PendingRows(a))
             /\ SumFunctionOnSet(Claimed, Pending(a)) \in Nat
             /\ SumFunctionOnSet(Settled, PendingRows(a)) \in Nat
  BY <1>0, CommittedIsSum DEF CoverInv, TypeOK, Committed
<1>2. ASSUME NEW a \in Account, NEW k \in Pending(a)
      PROVE  claims[k].amount <= deposit[a]
  <2>1. \A j \in Pending(a) : Claimed[j] \in Nat /\ Claimed[j] = claims[j].amount
    BY <1>0, CommittedIsSum, ColumnsAreTyped
  <2>2. Claimed[k] <= SumFunctionOnSet(Claimed, Pending(a))
    BY <1>0, <2>1, CommittedIsSum, SumMember
  <2> QED
    BY <1>1, <2>1, <2>2
<1>3. ASSUME NEW a \in Account, NEW k \in PendingRows(a)
      PROVE  settlements[k].amount <= deposit[a]
  <2>1. \A j \in PendingRows(a) : Settled[j] \in Nat /\ Settled[j] = settlements[j].amount
    BY <1>0, CommittedIsSum, ColumnsAreTyped
  <2>2. Settled[k] <= SumFunctionOnSet(Settled, PendingRows(a))
    BY <1>0, <2>1, CommittedIsSum, SumMember
  <2> QED
    BY <1>1, <2>1, <2>2
<1> QED
  BY <1>2, <1>3

\* A settlement is sent: its amount is not lowered.
LEMMA PaySettlementCover ==
  ASSUME Ledger, CoverInv, NEW w \in Worker, PaySettlement(w)
  PROVE  CoverInv'
<1>0. TypeOK
  BY DEF Ledger, Ready, TypeInv
<1>1. PICK j, n, step : /\ j = at[w].row /\ n = Len(chain) + 1
                        /\ step = [op |-> "save_settlement", row |-> j, tx |-> n]
  OBVIOUS
<1>2. /\ UNCHANGED <<deposit, blocks, claims, settlements>> /\ at[w].op = "pay_settlement"
      /\ Step(w, step)
  BY <1>1 DEF PaySettlement, table
<1>3. PICK new \in Tx : /\ chain' = Append(chain, new)
                        /\ new.kind = "settlement" /\ new.row = j
                        /\ new.payer = settlements[j].payer
                        /\ new.amount = IF settlements[j].amount <= deposit[new.payer]
                                        THEN settlements[j].amount ELSE deposit[new.payer]
  BY <1>1, SettlementIsTx DEF Ledger, Ready
<1>4. /\ \A i \in DOMAIN chain : chain'[i] = chain[i]
      /\ chain'[n] = new
      /\ \A k : PaymentsOf(k)' = PaymentsOf(k)
      /\ SettlementsSent' = SettlementsSent \union {n}
  <2>1. new.kind # "claim"
    BY <1>3
  <2> QED
    BY <1>0, <1>1, <1>3, <2>1, PaymentSent
<1>5. \A v \in Worker : at'[v] = IF v = w THEN step ELSE at[v]
  BY <1>0, <1>2, StepTaken
<1>6. Confirmed' = Confirmed /\ Confirmed \subseteq DOMAIN chain
      /\ SettlementsSent \subseteq DOMAIN chain
  BY <1>2 DEF Confirmed, Ledger, SettlementLedger, SettlementsSent
<1>7. RowIsPending(j) /\ j \in DOMAIN settlements
  BY <1>1, <1>2, SettlingRow DEF RowIsPending, Ledger, Ready
<1>8. ASSUME NEW k, IsPending(k)' PROVE IsPending(k)
  BY <1>1, <1>4, <1>5, <1>6, <1>8 DEF IsPending
<1>9. ASSUME NEW k, RowIsPending(k)' PROVE RowIsPending(k)
  <2>1. CASE k = j
    BY <1>7, <2>1
  <2>2. CASE k # j
    <3>1. new.row # k
      BY <1>3, <2>2
    <3> QED
      BY <1>1, <1>4, <1>5, <1>6, <1>9, <3>1 DEF RowIsPending
  <2> QED
    BY <2>1, <2>2
<1>10. ASSUME NEW a \in Account
       PROVE  Committed(a)' <= deposit'[a]
  <2>1. \A k \in Pending(a)' : k \in Pending(a) /\ claims'[k].amount = claims[k].amount
    BY <1>2, <1>8 DEF Pending
  <2>2. \A k \in PendingRows(a)' :
          k \in PendingRows(a) /\ settlements'[k].amount = settlements[k].amount
    BY <1>2, <1>9 DEF PendingRows, SettlementsOf
  <2>3. Committed(a)' \in Nat /\ Committed(a)' <= Committed(a)
    BY <1>0, <2>1, <2>2, CommittedKept
  <2>4. Committed(a) <= deposit[a] /\ deposit[a] \in Nat /\ Committed(a) \in Nat
    BY <1>0, CommittedIsSum DEF CoverInv, TypeOK
  <2> QED
    BY <1>2, <2>3, <2>4
<1>11. new.amount = settlements[j].amount
  <2>1. settlements[j].payer \in Account
    BY <1>0, <1>7, ListsAreTyped DEF Row
  <2>2. j \in PendingRows(settlements[j].payer)
    BY <1>7 DEF PendingRows, SettlementsOf
  <2>3. settlements[j].amount <= deposit[new.payer]
    BY <1>3, <2>1, <2>2, PendingIsCovered
  <2> QED
    BY <1>3, <2>3
<1>12. ASSUME NEW i \in SettlementsSent'
       PROVE  chain'[i].amount = settlements'[chain'[i].row].amount
  <2>1. CASE i = n
    BY <1>2, <1>3, <1>4, <1>11, <2>1
  <2>2. CASE i # n
    BY <1>2, <1>4, <1>6, <2>2 DEF CoverInv
  <2> QED
    BY <2>1, <2>2
<1>13. \A i \in Confirmed' : blocks'[i].moved = chain'[i].amount
  BY <1>2, <1>4, <1>6 DEF CoverInv
<1> QED
  BY <1>10, <1>12, <1>13 DEF CoverInv

\* Nor does the hash of a settlement.
LEMMA SaveSettlementCover ==
  ASSUME Ledger, CoverInv, NEW w \in Worker, SaveSettlement(w)
  PROVE  CoverInv'
<1>1. PICK j, tx : j = at[w].row /\ tx = at[w].tx
  OBVIOUS
<1>2. /\ UNCHANGED <<deposit, chain, blocks, claims>> /\ at[w].op = "save_settlement"
      /\ Step(w, Idle) /\ settlements' = [settlements EXCEPT ![j].tx = tx]
  BY <1>1 DEF SaveSettlement, ether
<1>3. \A v \in Worker : at'[v] = at[v] \/ at'[v].op \notin {"pay_claim", "pay_settlement"}
  BY <1>2, StepTaken DEF Ledger, Ready, TypeInv, Idle
<1>4. /\ DOMAIN settlements' = DOMAIN settlements
      /\ \A k \in DOMAIN settlements : settlements'[k] \in {settlements[k],
                                                            [settlements[k] EXCEPT !.tx = tx]}
  BY <1>2, ListsAreTyped, Places DEF Ledger, Ready, TypeInv
<1>5. ASSUME NEW k \in DOMAIN settlements
      PROVE  /\ settlements'[k].payer = settlements[k].payer
             /\ settlements'[k].amount = settlements[k].amount
  <2>1. settlements[k] \in Row
    BY ListsAreTyped DEF Ledger, Ready, TypeInv
  <2> QED
    BY <1>4, <2>1 DEF Row
<1> QED
  BY <1>2, <1>3, <1>4, <1>5, QuietCover

\* A confirmed transaction moves all of its amount, and leaves what is pending.
LEMMA ConfirmCover ==
  ASSUME Ledger, CoverInv, Confirm
  PROVE  CoverInv'
<1>0. TypeOK /\ TypeInv
  BY DEF Ledger, Ready, TypeInv
<1>1. PICK n, a, amount, moved :
        n = Len(blocks) + 1 /\ a = chain[n].payer /\ amount = chain[n].amount
        /\ moved = blocks'[n].moved
  OBVIOUS
<1>2. /\ Confirmed' = Confirmed \union {n} /\ n \notin Confirmed /\ n \in DOMAIN chain
      /\ a \in Account /\ amount \in Nat /\ deposit[a] \in Nat
      /\ \A i \in Confirmed : blocks'[i] = blocks[i]
      /\ moved = IF amount <= deposit[a] THEN amount ELSE deposit[a]
      /\ deposit' = [deposit EXCEPT ![a] = @ - moved]
  BY <1>0, <1>1, BlockMined
<1>3. UNCHANGED <<claims, settlements, chain, at>> /\ SettlementsSent' = SettlementsSent
      /\ \A k : PaymentsOf(k)' = PaymentsOf(k)
  <2>1. UNCHANGED <<claims, settlements, chain, at>>
    BY DEF Confirm, table
  <2> QED
    BY <2>1, SamePayments
<1>4. /\ \A k : IsPending(k)' => IsPending(k)
      /\ \A j : RowIsPending(j)' => RowIsPending(j)
  BY <1>2, <1>3 DEF IsPending, RowIsPending
<1>5. \E K \in SUBSET Pending(a), J \in SUBSET PendingRows(a) :
        /\ SumFunctionOnSet(Claimed, K) + SumFunctionOnSet(Settled, J) = amount
        /\ \A k \in K : ~ IsPending(k)'
        /\ \A j \in J : ~ RowIsPending(j)'
  <2>1. chain[n] \in Tx
    BY <1>0, <1>2, ListsAreTyped
  <2>2. CASE chain[n].kind = "claim"
    <3>1. PICK k \in ClaimKey : k = chain[n].key
      BY <2>1, <2>2 DEF Tx
    <3>2. n \in PaymentsOf(k)
      BY <1>2, <2>2, <3>1 DEF PaymentsOf
    <3>3. PaymentsOf(k) = {n} /\ a = PayerOf(k) /\ amount = claims[k].amount
      BY <1>1, <1>2, <3>2 DEF Ledger, ClaimLedger
    <3>4. k \in Pending(a)
      BY <1>2, <3>3 DEF Pending, IsPending
    <3>5. ~ IsPending(k)'
      <4>1. \A w \in Worker : at[w].op = "pay_claim" => at[w].key # k
        BY <3>3 DEF Ledger, ClaimLedger
      <4> QED
        BY <1>2, <1>3, <3>3, <4>1 DEF IsPending
    <3>6. SumFunctionOnSet(Claimed, {k}) = amount
      <4>1. Claimed[k] \in Int /\ Claimed[k] = amount
        BY <1>0, <3>3, ColumnsAreTyped
      <4>2. SumFunctionOnSet(Claimed, {k}) = Claimed[k]
        BY <4>1, SumOne
      <4> QED
        BY <4>1, <4>2
    <3>7. SumFunctionOnSet(Claimed, {k}) + SumFunctionOnSet(Settled, {}) = amount
      BY <1>2, <3>6, SumEmpty
    <3> QED
      BY <3>4, <3>5, <3>7
  <2>3. CASE chain[n].kind # "claim"
    <3>1. n \in SettlementsSent
      BY <1>2, <2>1, <2>3 DEF Tx, SettlementsSent
    <3>2. PICK j : j = chain[n].row
      OBVIOUS
    <3>3. /\ j \in DOMAIN settlements /\ settlements[j].payer = a
          /\ amount = settlements[j].amount
      BY <1>1, <3>1, <3>2 DEF Ledger, SettlementLedger, CoverInv
    <3>4. j \in PendingRows(a)
      BY <1>2, <3>1, <3>2, <3>3 DEF PendingRows, SettlementsOf, RowIsPending
    <3>5. ~ RowIsPending(j)'
      <4>1. \A w \in Worker : at[w].op = "pay_settlement" => at[w].row # j
        BY <3>1, <3>2 DEF Ledger, SettlementLedger
      <4>2. \A i \in SettlementsSent : chain[i].row = j => i = n
        BY <3>1, <3>2 DEF Ledger, SettlementLedger
      <4> QED
        BY <1>2, <1>3, <4>1, <4>2 DEF RowIsPending
    <3>6. SumFunctionOnSet(Settled, {j}) = amount
      <4>1. Settled[j] \in Int /\ Settled[j] = amount
        BY <1>0, <3>3, ColumnsAreTyped
      <4>2. SumFunctionOnSet(Settled, {j}) = Settled[j]
        BY <4>1, SumOne
      <4> QED
        BY <4>1, <4>2
    <3>7. SumFunctionOnSet(Claimed, {}) + SumFunctionOnSet(Settled, {j}) = amount
      BY <1>2, <3>6, SumEmpty
    <3> QED
      BY <3>4, <3>5, <3>7
  <2> QED
    BY <2>2, <2>3
<1>6. PICK K \in SUBSET Pending(a), J \in SUBSET PendingRows(a) :
        /\ SumFunctionOnSet(Claimed, K) + SumFunctionOnSet(Settled, J) = amount
        /\ \A k \in K : ~ IsPending(k)'
        /\ \A j \in J : ~ RowIsPending(j)'
  BY <1>5
<1>7. /\ Committed(a)' \in Nat /\ Committed(a)' + amount <= Committed(a)
  <2>1. \A k \in Pending(a)' : k \in Pending(a) \ K /\ claims'[k].amount = claims[k].amount
    BY <1>3, <1>4, <1>6 DEF Pending
  <2>2. \A j \in PendingRows(a)' :
          j \in PendingRows(a) \ J /\ settlements'[j].amount = settlements[j].amount
    BY <1>3, <1>4, <1>6 DEF PendingRows, SettlementsOf
  <2>3. /\ SumFunctionOnSet(Claimed, K) \in Nat /\ SumFunctionOnSet(Settled, J) \in Nat
        /\ Committed(a)' \in Nat
        /\ Committed(a)' + SumFunctionOnSet(Claimed, K) + SumFunctionOnSet(Settled, J)
             <= Committed(a)
    BY <1>0, <2>1, <2>2, CommittedShrinks
  <2> QED
    BY <1>0, <1>6, <2>3, CommittedIsSum
<1>8. Committed(a) <= deposit[a] /\ Committed(a) \in Nat
  BY <1>0, <1>2, CommittedIsSum DEF CoverInv
<1>9. moved = amount
  BY <1>2, <1>7, <1>8
<1>10. ASSUME NEW b \in Account
       PROVE  Committed(b)' <= deposit'[b]
  <2>1. CASE b = a
    <3>1. deposit'[a] = deposit[a] - amount
      BY <1>0, <1>2, <1>9 DEF TypeOK
    <3> QED
      BY <1>2, <1>7, <1>8, <2>1, <3>1
  <2>2. CASE b # a
    <3>1. \A k \in Pending(b)' : k \in Pending(b) /\ claims'[k].amount = claims[k].amount
      BY <1>3, <1>4 DEF Pending
    <3>2. \A j \in PendingRows(b)' :
            j \in PendingRows(b) /\ settlements'[j].amount = settlements[j].amount
      BY <1>3, <1>4 DEF PendingRows, SettlementsOf
    <3>3. Committed(b)' \in Nat /\ Committed(b)' <= Committed(b)
      BY <1>0, <3>1, <3>2, CommittedKept
    <3>4. Committed(b) <= deposit[b] /\ deposit[b] \in Nat /\ Committed(b) \in Nat
      BY <1>0, CommittedIsSum DEF CoverInv, TypeOK
    <3>5. deposit'[b] = deposit[b]
      BY <1>0, <1>2, <2>2 DEF TypeOK
    <3> QED
      BY <3>3, <3>4, <3>5
  <2> QED
    BY <2>1, <2>2
<1>11. \A i \in SettlementsSent' : chain'[i].amount = settlements'[chain'[i].row].amount
  BY <1>3 DEF CoverInv
<1>12. \A i \in Confirmed' : blocks'[i].moved = chain'[i].amount
  BY <1>1, <1>2, <1>3, <1>9 DEF CoverInv
<1> QED
  BY <1>10, <1>11, <1>12 DEF CoverInv

\* Every step that leaves the funds that were read fresh keeps CoverInv.
LEMMA CoverStep ==
  ASSUME Ledger, CoverInv, DepositsAreFresh, [Next]_vars
  PROVE  CoverInv'
<1>1. CASE UNCHANGED vars \/ Tick \/ \E s \in Subtask : Transfer(s)
  BY <1>1, OtherCover
<1>2. CASE Confirm
  BY <1>2, ConfirmCover
<1>3. ASSUME NEW w \in Worker,
              \/ \E s \in Subtask, use \in UseCase : AskForDeposits(w, s, use)
              \/ CheckRequestor(w) \/ CheckProvider(w)
              \/ \E k \in ClaimKey : AskForPayersDeposit(w, k)
              \/ \E acceptances \in SUBSET Subtask : AskForSettledDeposit(w, acceptances)
              \/ Abort(w)
      PROVE  CoverInv'
  BY <1>3, OtherCover
<1>4. ASSUME NEW w \in Worker,
             \/ InsertClaims(w) \/ LockClaim(w) \/ PayClaim(w) \/ SaveClaim(w)
             \/ \E k \in ClaimKey : DiscardClaim(w, k)
      PROVE  CoverInv'
  BY <1>4, InsertClaimsCover, LockClaimCover, PayClaimCover, SaveClaimCover, DiscardClaimCover
<1>5. ASSUME NEW w \in Worker, LockSettlement(w) \/ PaySettlement(w) \/ SaveSettlement(w)
      PROVE  CoverInv'
  BY <1>5, LockSettlementCover, PaySettlementCover, SaveSettlementCover
<1> QED
  BY <1>1, <1>2, <1>3, <1>4, <1>5 DEF Next

\* The invariant of the behaviours in which nobody gets between the parts of an operation.
Orderly == Ledger /\ DepositsAreFresh /\ CoverInv

\* Nothing is decided at first.
LEMMA OrderlyStart ==
  ASSUME Init
  PROVE  Orderly
<1>1. Ledger
  BY LedgerStart
<1>2. DOMAIN chain = {} /\ DOMAIN blocks = {} /\ DOMAIN settlements = {}
  BY DEF Init
<1>3. \A w \in Worker : at[w].op = "idle"
  BY DEF Init, Idle
<1>4. DepositsAreFresh
  BY <1>3 DEF DepositsAreFresh, Told
<1>5. ASSUME NEW a \in Account
      PROVE  Committed(a) <= deposit[a]
  <2>1. Pending(a) = {} /\ PendingRows(a) = {}
    BY <1>2, <1>3 DEF Pending, IsPending, PaymentsOf, PendingRows, SettlementsOf
  <2>2. Committed(a) = 0
    BY <2>1, SumEmpty DEF Committed
  <2>3. deposit[a] \in Nat
    BY <1>1 DEF Ledger, Ready, TypeInv, TypeOK
  <2> QED
    BY <2>2, <2>3
<1>6. CoverInv
  BY <1>2, <1>5 DEF CoverInv, SettlementsSent, Confirmed
<1> QED
  BY <1>1, <1>4, <1>6 DEF Orderly

\* Every step of OrderlySpec keeps the invariant.
LEMMA OrderlyStep ==
  ASSUME Orderly, [OrderlyNext]_vars
  PROVE  Orderly'
<1>1. [Next]_vars
  BY DEF OrderlyNext
<1>2. DepositsAreFresh'
  <2>1. CASE OrderlyNext
    BY <2>1 DEF OrderlyNext
  <2>2. CASE UNCHANGED vars
    BY <2>2 DEF vars, table, ether, Orderly, DepositsAreFresh, Told, PayerOf, StillClaimed,
                Confirmed, Moved, Exists
  <2> QED
    BY <2>1, <2>2
<1> QED
  BY <1>1, <1>2, LedgerStep, CoverStep DEF Orderly

\* What is sent and not confirmed is pending.
LEMMA SentIsPending ==
  ASSUME Orderly
  PROVE  SentIsCovered
<1>0. TypeOK /\ Ledger /\ CoverInv
  BY DEF Orderly, Ledger, Ready, TypeInv
<1> SUFFICES ASSUME NEW a \in Account
             PROVE  SumFunctionOnSet(Sent, {i \in DOMAIN chain \ Confirmed : chain[i].payer = a})
                      <= deposit[a]
  BY DEF SentIsCovered
<1> DEFINE C == {i \in DOMAIN chain \ Confirmed : chain[i].payer = a /\ chain[i].kind = "claim"}
           S == {i \in DOMAIN chain \ Confirmed : chain[i].payer = a /\ chain[i].kind # "claim"}
<1>1. /\ C \in SUBSET DOMAIN chain /\ S \in SUBSET DOMAIN chain /\ C \intersect S = {}
      /\ {i \in DOMAIN chain \ Confirmed : chain[i].payer = a} = C \union S
  OBVIOUS
<1>2. IsFiniteSet(C) /\ IsFiniteSet(S)
  BY <1>0, <1>1, ClaimsAreNumbers
<1>3. \A i \in DOMAIN chain : Sent[i] \in Nat /\ Sent[i] = chain[i].amount
  BY <1>0, ColumnsAreTyped
<1>4. SumFunctionOnSet(Sent, C) <= SumFunctionOnSet(Claimed, Pending(a))
  <2> DEFINE h == [i \in DOMAIN chain |-> chain[i].key]
  <2>1. ASSUME NEW i \in C
        PROVE  /\ h[i] \in Pending(a) /\ Sent[i] \in Nat /\ Sent[i] <= Claimed[h[i]]
               /\ h[i] \in ClaimKey /\ i \in PaymentsOf(h[i])
    <3>1. PICK k : k = chain[i].key /\ h[i] = k
      OBVIOUS
    <3>2. k \in ClaimKey
      BY <1>0, <3>1, ListsAreTyped DEF Tx
    <3>3. i \in PaymentsOf(k) /\ i \notin Confirmed
      BY <3>1 DEF PaymentsOf
    <3>4. chain[i].payer = PayerOf(k) /\ chain[i].amount = claims[k].amount
      BY <1>0, <3>2, <3>3 DEF Ledger, ClaimLedger
    <3>5. k \in Pending(a)
      BY <3>2, <3>3, <3>4 DEF Pending, IsPending
    <3>6. Claimed[k] = claims[k].amount /\ claims[k].amount \in Nat
      BY <1>0, <3>2, ColumnsAreTyped
    <3> QED
      BY <1>3, <3>1, <3>2, <3>3, <3>4, <3>5, <3>6
  <2> HIDE DEF h, C
  <2>2. \A x, y \in C : h[x] = h[y] => x = y
    BY <1>0, <2>1 DEF Ledger, ClaimLedger
  <2>3. IsFiniteSet(Pending(a)) /\ \A k \in Pending(a) : Claimed[k] \in Nat
    BY <1>0, CommittedIsSum, ColumnsAreTyped
  <2> QED
    BY <1>2, <2>1, <2>2, <2>3, SumMatched
<1>5. SumFunctionOnSet(Sent, S) <= SumFunctionOnSet(Settled, PendingRows(a))
  <2> DEFINE h == [i \in DOMAIN chain |-> chain[i].row]
  <2>1. ASSUME NEW i \in S
        PROVE  /\ h[i] \in PendingRows(a) /\ Sent[i] \in Nat /\ Sent[i] <= Settled[h[i]]
               /\ i \in SettlementsSent /\ h[i] = chain[i].row
    <3>1. PICK j : j = chain[i].row /\ h[i] = j
      OBVIOUS
    <3>2. i \in SettlementsSent
      BY <1>0, ListsAreTyped DEF Tx, SettlementsSent
    <3>3. j \in DOMAIN settlements /\ settlements[j].payer = a /\ chain[i].amount = settlements[j].amount
      BY <1>0, <3>1, <3>2 DEF Ledger, SettlementLedger, CoverInv
    <3>4. j \in PendingRows(a)
      BY <3>1, <3>2, <3>3 DEF PendingRows, SettlementsOf, RowIsPending
    <3>5. Settled[j] = settlements[j].amount /\ settlements[j].amount \in Nat
      BY <1>0, <3>3, ColumnsAreTyped
    <3> QED
      BY <1>3, <3>1, <3>2, <3>3, <3>4, <3>5
  <2> HIDE DEF h, S
  <2>2. \A x, y \in S : h[x] = h[y] => x = y
    <3> SUFFICES ASSUME NEW x \in S, NEW y \in S, h[x] = h[y]
                 PROVE  x = y
      OBVIOUS
    <3>1. x \in SettlementsSent /\ y \in SettlementsSent /\ chain[x].row = chain[y].row
      BY <2>1
    <3>2. \A i, j \in SettlementsSent : chain[i].row = chain[j].row => i = j
      BY <1>0 DEF Ledger, SettlementLedger
    <3> QED
      BY <3>1, <3>2
  <2>3. IsFiniteSet(PendingRows(a)) /\ \A k \in PendingRows(a) : Settled[k] \in Nat
    BY <1>0, CommittedIsSum, ColumnsAreTyped
  <2> QED
    BY <1>2, <2>1, <2>2, <2>3, SumMatched
<1> HIDE DEF C, S
<1>6. SumFunctionOnSet(Sent, C \union S) = SumFunctionOnSet(Sent, C) + SumFunctionOnSet(Sent, S)
  <2>1. \A i \in C \union S : Sent[i] \in Int
    BY <1>1, <1>3
  <2> QED
    BY <1>1, <1>2, <2>1, SumUnion
<1>7. SumFunctionOnSet(Sent, C) \in Nat /\ SumFunctionOnSet(Sent, S) \in Nat
  BY <1>0, <1>1, ClaimsAreNumbers
<1>8. Committed(a) <= deposit[a] /\ deposit[a] \in Nat
      /\ Committed(a) = SumFunctionOnSet(Claimed, Pending(a))
                        + SumFunctionOnSet(Settled, PendingRows(a))
      /\ SumFunctionOnSet(Claimed, Pending(a)) \in Nat
      /\ SumFunctionOnSet(Settled, PendingRows(a)) \in Nat
  BY <1>0, CommittedIsSum DEF CoverInv, TypeOK, Committed
<1>9. SumFunctionOnSet(Sent, C \union S) <= deposit[a]
  BY <1>4, <1>5, <1>6, <1>7, <1>8
<1> QED
  BY <1>1, <1>9

\* As long as nobody gets between the parts of an operation, what Bankster has told SCI to
\* pay out of a deposit, and is not confirmed yet, never exceeds the deposit (bankster.py,
\* finalize_payment and settle_overdue_acceptances).
THEOREM DepositsCoverWhatIsSent == OrderlySpec => []SentIsCovered
<1>1. Init => Orderly
  BY OrderlyStart
<1>2. Orderly /\ [OrderlyNext]_vars => Orderly'
  BY OrderlyStep
<1>3. Orderly => SentIsCovered
  BY SentIsPending
<1> QED
  BY <1>1, <1>2, <1>3, PTL DEF OrderlySpec

\* As long as nobody gets between the parts of an operation, the database and the
\* blockchain agree on every settlement (bankster.py, BanksterTransactionMismatchError).
THEOREM SettlementsAreMatched == OrderlySpec => []SettlementsMatchChain
<1>1. Init => Orderly
  BY OrderlyStart
<1>2. Orderly /\ [OrderlyNext]_vars => Orderly'
  BY OrderlyStep
<1>3. Orderly => SettlementsMatchChain
  BY DEF Orderly, CoverInv, SettlementsMatchChain
<1> QED
  BY <1>1, <1>2, <1>3, PTL DEF OrderlySpec

-----------------------------------------------------------------------------
(* No provider gets more than was accepted. *)

\* What is decided for a pair: the settlements that are on their way or sent, and the
\* subtasks that the requestor paid for by itself, up to an instant.
RowIsLive(j) ==
  \/ \E w \in Worker : at[w].op = "pay_settlement" /\ at[w].row = j
  \/ \E i \in SettlementsSent : chain[i].row = j

LiveRows(p, t) ==
  {j \in DOMAIN settlements : PairOf(j) = p /\ settlements[j].closure <= t /\ RowIsLive(j)}

Accepted(p, t) == {s \in Subtask : Pair(s) = p /\ PaymentTs[s] <= t}

PaidDirectly(p, t) == {s \in Accepted(p, t) : \E tr \in transfers : tr.subtask = s}

NotOverpaid(p, t) ==
  SumFunctionOnSet(Settled, LiveRows(p, t)) + SumFunctionOnSet(Price, PaidDirectly(p, t))
    <= SumFunctionOnSet(Price, Accepted(p, t))

\* At every instant, and not only at those of an acceptance: an operation that settles
\* from T0 on relies on what was decided before T0.
OverInv ==
  /\ \A tr \in transfers : tr.ts > PaymentTs[tr.subtask]
  /\ \A p \in Account \X Account, t \in Int : NotOverpaid(p, t)

\* The sums of the invariant are numbers.
LEMMA PaidIsSum ==
  ASSUME TypeOK, NEW p, NEW t
  PROVE  /\ LiveRows(p, t) \in SUBSET DOMAIN settlements
         /\ PaidDirectly(p, t) \in SUBSET Accepted(p, t) /\ Accepted(p, t) \in SUBSET Subtask
         /\ PaidDirectly(p, t) \in SUBSET Subtask
         /\ IsFiniteSet(LiveRows(p, t))
         /\ SumFunctionOnSet(Settled, LiveRows(p, t)) \in Nat
         /\ SumFunctionOnSet(Price, PaidDirectly(p, t)) \in Nat
         /\ SumFunctionOnSet(Price, Accepted(p, t)) \in Nat
<1>1. LiveRows(p, t) \in SUBSET DOMAIN settlements
  BY DEF LiveRows
<1>2. /\ PaidDirectly(p, t) \in SUBSET Accepted(p, t) /\ Accepted(p, t) \in SUBSET Subtask
      /\ PaidDirectly(p, t) \in SUBSET Subtask
  BY DEF PaidDirectly, Accepted
<1> QED
  BY <1>1, <1>2, ClaimsAreNumbers, PricesAreNumbers

\* A settlement that is left as it is, or dropped, leaves room.
LEMMA OverKept ==
  ASSUME TypeOK, OverInv, UNCHANGED transfers,
         \A j \in DOMAIN settlements' : RowIsLive(j)' =>
           /\ j \in DOMAIN settlements /\ RowIsLive(j)
           /\ PairOf(j)' = PairOf(j) /\ settlements'[j].closure = settlements[j].closure
           /\ settlements'[j].amount = settlements[j].amount
  PROVE  OverInv'
<1>1. \A tr \in transfers' : tr.ts > PaymentTs[tr.subtask]
  BY DEF OverInv
<1>2. ASSUME NEW p \in Account \X Account, NEW t \in Int
      PROVE  NotOverpaid(p, t)'
  <2>1. PICK L, c : L = LiveRows(p, t)' /\ c = Settled'
    OBVIOUS
  <2>2. L \in SUBSET (LiveRows(p, t) \ {})
    BY <2>1 DEF LiveRows
  <2>3. \A j \in L : c[j] = Settled[j]
    <3>1. \A j \in L : j \in DOMAIN settlements' /\ RowIsLive(j)'
      BY <2>1 DEF LiveRows
    <3>2. c = [j \in DOMAIN settlements' |-> settlements'[j].amount]
      BY <2>1 DEF Settled
    <3> QED
      BY <3>1, <3>2 DEF Settled
  <2>4. \A j \in LiveRows(p, t) : Settled[j] \in Nat
    BY ColumnsAreTyped, PaidIsSum
  <2>5. /\ SumFunctionOnSet(c, L) \in Nat /\ SumFunctionOnSet(Settled, {}) \in Nat
        /\ SumFunctionOnSet(c, L) + SumFunctionOnSet(Settled, {})
             <= SumFunctionOnSet(Settled, LiveRows(p, t))
    BY <2>2, <2>3, <2>4, PaidIsSum, SumShrinks
  <2>6. PaidDirectly(p, t)' = PaidDirectly(p, t)
    BY DEF PaidDirectly, Accepted
  <2>7. /\ SumFunctionOnSet(Settled, LiveRows(p, t)) + SumFunctionOnSet(Price, PaidDirectly(p, t))
             <= SumFunctionOnSet(Price, Accepted(p, t))
        /\ SumFunctionOnSet(Settled, LiveRows(p, t)) \in Nat
        /\ SumFunctionOnSet(Price, PaidDirectly(p, t)) \in Nat
        /\ SumFunctionOnSet(Price, Accepted(p, t)) \in Nat
    BY PaidIsSum DEF OverInv, NotOverpaid
  <2>8. SumFunctionOnSet(c, L) + SumFunctionOnSet(Price, PaidDirectly(p, t))
          <= SumFunctionOnSet(Price, Accepted(p, t))
    BY <2>5, <2>7
  <2> QED
    BY <2>1, <2>6, <2>8 DEF NotOverpaid, Accepted
<1> QED
  BY <1>1, <1>2 DEF OverInv

\* The steps that decide nothing.
LEMMA QuietOver ==
  ASSUME Ready, OverInv,
         \/ UNCHANGED vars \/ Confirm \/ Tick
         \/ \E w \in Worker : NotSettling(w)
  PROVE  OverInv'
<1>0. TypeOK /\ TypeInv
  BY DEF Ready, TypeInv
<1>1. UNCHANGED <<settlements, transfers>>
  BY <1>0, NotSettlingIsAStep DEF vars, table, ether, Confirm, Tick
<1>2. \A v \in Worker : at'[v] = at[v] \/ at'[v].op # "pay_settlement"
  <2>1. CASE UNCHANGED at
    BY <2>1
  <2>2. CASE \E w \in Worker : NotSettling(w)
    BY <1>0, <2>2, NotSettlingIsAStep DEF Settling
  <2> QED
    BY <2>1, <2>2 DEF vars, Confirm, Tick
<1>3. SettlementsSent' = SettlementsSent /\ \A i \in SettlementsSent : chain'[i] = chain[i]
  <2>1. CASE UNCHANGED chain
    BY <2>1, SamePayments
  <2>2. ASSUME NEW w \in Worker, PayClaim(w)
        PROVE  SettlementsSent' = SettlementsSent
               /\ \A i \in SettlementsSent : chain'[i] = chain[i]
    <3>1. PICK new \in Tx : chain' = Append(chain, new) /\ new.kind = "claim"
      BY <1>0, <2>2, ClaimIsTx
    <3> QED
      BY <1>0, <3>1, PaymentSent DEF SettlementsSent
  <2> QED
    BY <2>1, <2>2, OnlyPaymentsAreSent DEF vars, ether, Confirm, Tick
<1>4. \A j : RowIsLive(j)' => RowIsLive(j)
  BY <1>2, <1>3 DEF RowIsLive
<1>5. \A j \in DOMAIN settlements' : PairOf(j)' = PairOf(j)
  BY <1>1 DEF PairOf
<1> QED
  BY <1>0, <1>1, <1>4, <1>5, OverKept

\* A settlement that is sent was decided before.
LEMMA PaySettlementOver ==
  ASSUME Ledger, OverInv, NEW w \in Worker, PaySettlement(w)
  PROVE  OverInv'
<1>0. TypeOK /\ TypeInv /\ Ready
  BY DEF Ledger, Ready, TypeInv
<1>1. PICK j, n : j = at[w].row /\ n = Len(chain) + 1
  OBVIOUS
<1>2. /\ UNCHANGED <<settlements, transfers>> /\ at[w].op = "pay_settlement"
      /\ Step(w, [op |-> "save_settlement", row |-> j, tx |-> n])
  BY <1>1 DEF PaySettlement, table
<1>3. \A v \in Worker : at'[v] = IF v = w THEN [op |-> "save_settlement", row |-> j, tx |-> n]
                                 ELSE at[v]
  BY <1>0, <1>2, StepTaken
<1>4. PICK new \in Tx : chain' = Append(chain, new) /\ new.kind = "settlement" /\ new.row = j
  BY <1>0, <1>1, SettlementIsTx
<1>5. /\ SettlementsSent' = SettlementsSent \union {n} /\ chain'[n] = new
      /\ \A i \in SettlementsSent : chain'[i] = chain[i]
  BY <1>0, <1>1, <1>4, PaymentSent DEF SettlementsSent
<1>6. RowIsLive(j)
  BY <1>1, <1>2 DEF RowIsLive
<1>7. \A i \in SettlementsSent' : chain'[i].row = j \/ (i \in SettlementsSent /\ chain'[i] = chain[i])
  BY <1>4, <1>5
<1>8. \A k : RowIsLive(k)' => RowIsLive(k)
  BY <1>3, <1>6, <1>7 DEF RowIsLive
<1>9. \A k \in DOMAIN settlements' : PairOf(k)' = PairOf(k)
  BY <1>2 DEF PairOf
<1> QED
  BY <1>0, <1>2, <1>8, <1>9, OverKept

\* A settlement whose hash is saved was sent before.
LEMMA SaveSettlementOver ==
  ASSUME Ledger, OverInv, NEW w \in Worker, SaveSettlement(w)
  PROVE  OverInv'
<1>0. TypeOK /\ TypeInv /\ Ready
  BY DEF Ledger, Ready, TypeInv
<1>1. PICK j, tx : j = at[w].row /\ tx = at[w].tx
  OBVIOUS
<1>2. /\ UNCHANGED <<chain, transfers>> /\ at[w].op = "save_settlement" /\ Step(w, Idle)
      /\ settlements' = [settlements EXCEPT ![j].tx = tx]
  BY <1>1 DEF SaveSettlement, ether
<1>3. j \in DOMAIN settlements
  BY <1>0, <1>1, <1>2, SettlingRow
<1>4. /\ DOMAIN settlements' = DOMAIN settlements
      /\ settlements'[j] = [settlements[j] EXCEPT !.tx = tx]
      /\ \A k \in DOMAIN settlements : k # j => settlements'[k] = settlements[k]
  BY <1>0, <1>2, <1>3, ListsAreTyped, Places
<1>5. settlements[j] \in Row
  BY <1>0, <1>3, ListsAreTyped
<1>6. /\ settlements'[j].payer = settlements[j].payer
      /\ settlements'[j].payee = settlements[j].payee
      /\ settlements'[j].amount = settlements[j].amount
      /\ settlements'[j].closure = settlements[j].closure
  BY <1>4, <1>5 DEF Row
<1>7. \A k \in DOMAIN settlements' :
        /\ k \in DOMAIN settlements
        /\ settlements'[k].payer = settlements[k].payer
        /\ settlements'[k].payee = settlements[k].payee
        /\ settlements'[k].amount = settlements[k].amount
        /\ settlements'[k].closure = settlements[k].closure
  BY <1>4, <1>6
<1>8. \A k \in DOMAIN settlements' : PairOf(k)' = PairOf(k)
  BY <1>7 DEF PairOf
<1>9. \A v \in Worker : at'[v] = at[v] \/ at'[v] = Idle
  BY <1>0, <1>2, StepTaken
<1>10. SettlementsSent' = SettlementsSent
  BY <1>2, SamePayments
<1>11. \A k : RowIsLive(k)' => RowIsLive(k)
  BY <1>2, <1>9, <1>10 DEF RowIsLive, Idle
<1> QED
  BY <1>0, <1>2, <1>7, <1>8, <1>11, OverKept

\* The prices of what was accepted up to an instant, and after it.
LEMMA AcceptedInTwo ==
  ASSUME NEW p, NEW t \in Int, NEW t0 \in Int, t0 <= t, NEW X \in SUBSET Accepted(p, t),
         X \intersect Accepted(p, t0) = {}
  PROVE  /\ SumFunctionOnSet(Price, X) \in Nat
         /\ SumFunctionOnSet(Price, Accepted(p, t0)) \in Nat
         /\ SumFunctionOnSet(Price, Accepted(p, t)) \in Nat
         /\ SumFunctionOnSet(Price, Accepted(p, t0)) + SumFunctionOnSet(Price, X)
              <= SumFunctionOnSet(Price, Accepted(p, t))
<1>1. \A s \in Subtask : PaymentTs[s] \in Nat /\ Price[s] \in Nat
  BY Constants
<1>2. /\ Accepted(p, t0) \in SUBSET Accepted(p, t)
      /\ Accepted(p, t) \in SUBSET Subtask /\ X \in SUBSET Subtask
      /\ Accepted(p, t0) \in SUBSET Subtask
  BY <1>1 DEF Accepted
<1>3. /\ IsFiniteSet(Accepted(p, t0)) /\ IsFiniteSet(X) /\ IsFiniteSet(Accepted(p, t))
      /\ SumFunctionOnSet(Price, X) \in Nat
      /\ SumFunctionOnSet(Price, Accepted(p, t0)) \in Nat
      /\ SumFunctionOnSet(Price, Accepted(p, t)) \in Nat
  BY <1>2, PricesAreNumbers
<1>4. SumFunctionOnSet(Price, Accepted(p, t0) \union X)
        = SumFunctionOnSet(Price, Accepted(p, t0)) + SumFunctionOnSet(Price, X)
  <2>1. \A s \in Accepted(p, t0) \union X : Price[s] \in Int
    <3>1. (Accepted(p, t0) \union X) \subseteq Subtask /\ \A s \in Subtask : Price[s] \in Int
      BY <1>1, <1>2
    <3> QED
      BY <3>1
  <2> QED
    BY <1>3, <2>1, SumUnion
<1>5. SumFunctionOnSet(Price, Accepted(p, t0) \union X) <= SumFunctionOnSet(Price, Accepted(p, t))
  <2>1. Accepted(p, t0) \union X \in SUBSET Accepted(p, t)
    BY <1>2
  <2>2. \A s \in Accepted(p, t) : Price[s] \in Nat
    BY <1>1, <1>2
  <2> QED
    BY <1>3, <2>1, <2>2, SumSubset
<1> QED
  BY <1>3, <1>4, <1>5

\* What was paid directly up to an instant, and after it.
LEMMA PaidInTwo ==
  ASSUME NEW P \in SUBSET Subtask, NEW Q \in SUBSET Subtask, NEW X \in SUBSET Subtask,
         P \subseteq Q \union X
  PROVE  /\ SumFunctionOnSet(Price, P) \in Nat
         /\ SumFunctionOnSet(Price, Q) \in Nat
         /\ SumFunctionOnSet(Price, X) \in Nat
         /\ SumFunctionOnSet(Price, P) <= SumFunctionOnSet(Price, Q) + SumFunctionOnSet(Price, X)
<1>1. /\ SumFunctionOnSet(Price, P) \in Nat
      /\ SumFunctionOnSet(Price, Q) \in Nat
      /\ SumFunctionOnSet(Price, X) \in Nat
      /\ SumFunctionOnSet(Price, X \ Q) \in Nat
      /\ IsFiniteSet(Q) /\ IsFiniteSet(X) /\ IsFiniteSet(X \ Q) /\ IsFiniteSet(Q \union (X \ Q))
  BY PricesAreNumbers
<1>2. \A s \in Subtask : Price[s] \in Nat
  BY Constants
<1>3. SumFunctionOnSet(Price, P) <= SumFunctionOnSet(Price, Q \union (X \ Q))
  <2>1. P \in SUBSET (Q \union (X \ Q)) /\ \A s \in Q \union (X \ Q) : Price[s] \in Nat
    BY <1>2
  <2> QED
    BY <1>1, <2>1, SumSubset
<1>4. SumFunctionOnSet(Price, Q \union (X \ Q))
        = SumFunctionOnSet(Price, Q) + SumFunctionOnSet(Price, X \ Q)
  <2>1. \A s \in Q \union (X \ Q) : Price[s] \in Int
    <3>1. \A s \in Subtask : Price[s] \in Int
      <4>1. Nat \subseteq Int
        OBVIOUS
      <4> QED
        BY <1>2, <4>1, Zenon
    <3>2. (Q \union (X \ Q)) \subseteq Subtask
      OBVIOUS
    <3> QED
      BY <3>1, <3>2
  <2> QED
    BY <1>1, <2>1, SumUnion
<1>5. SumFunctionOnSet(Price, X \ Q) <= SumFunctionOnSet(Price, X)
  <2>1. X \ Q \in SUBSET X /\ \A s \in X : Price[s] \in Nat
    BY <1>2
  <2> QED
    BY <1>1, <2>1, SumSubset
<1> QED
  BY <1>1, <1>3, <1>4, <1>5

\* Results that are accepted later have room for their own payments.
LEMMA RoomForLater ==
  ASSUME NEW p, NEW t0 \in Int, NEW t \in Int, t0 <= t, NEW sum \in Nat,
         NEW P \in SUBSET Accepted(p, t),
         sum + SumFunctionOnSet(Price, P \intersect Accepted(p, t0))
           <= SumFunctionOnSet(Price, Accepted(p, t0))
  PROVE  sum + SumFunctionOnSet(Price, P) <= SumFunctionOnSet(Price, Accepted(p, t))
<1> DEFINE Q == P \intersect Accepted(p, t0)
           X == P \ Accepted(p, t0)
<1>1. P \in SUBSET Subtask /\ Q \in SUBSET Subtask /\ X \in SUBSET Subtask
      /\ P \subseteq Q \union X
  BY DEF Accepted
<1>2. X \in SUBSET Accepted(p, t) /\ X \intersect Accepted(p, t0) = {}
  OBVIOUS
<1>3. sum + SumFunctionOnSet(Price, Q) <= SumFunctionOnSet(Price, Accepted(p, t0))
  OBVIOUS
<1> HIDE DEF Q, X
<1>4. /\ SumFunctionOnSet(Price, P) \in Nat
      /\ SumFunctionOnSet(Price, Q) \in Nat
      /\ SumFunctionOnSet(Price, X) \in Nat
      /\ SumFunctionOnSet(Price, P) <= SumFunctionOnSet(Price, Q) + SumFunctionOnSet(Price, X)
  BY <1>1, PaidInTwo
<1>5. /\ SumFunctionOnSet(Price, Accepted(p, t0)) \in Nat
      /\ SumFunctionOnSet(Price, Accepted(p, t)) \in Nat
      /\ SumFunctionOnSet(Price, Accepted(p, t0)) + SumFunctionOnSet(Price, X)
           <= SumFunctionOnSet(Price, Accepted(p, t))
  BY <1>2, AcceptedInTwo
<1> QED
  BY <1>3, <1>4, <1>5

\* A requestor pays by itself for what no settlement covers: the transfer is too young.
LEMMA TransferOver ==
  ASSUME Ready, OverInv, NEW s \in Subtask, Transfer(s), TransfersAreShown'
  PROVE  OverInv'
<1>0. TypeOK /\ TypeInv
  BY DEF Ready, TypeInv
<1>1. /\ UNCHANGED <<now, settlements, chain, at>> /\ SettlementsSent' = SettlementsSent
      /\ now > PaymentTs[s]
      /\ transfers' = transfers \union {[subtask |-> s, ts |-> now]}
  BY SamePayments DEF Transfer, table
<1>1a. ~ SettledUpTo(s)
  <2>1. PICK tr \in transfers' : tr.subtask = s /\ tr.ts = now
    <3>1. [subtask |-> s, ts |-> now] \in transfers'
      BY <1>1
    <3> QED
      BY ONLY <3>1
  <2>2. ~ (tr.ts + ConfirmationTime <= now')
    BY <1>0, <1>1, <2>1, Constants DEF TypeOK
  <2>3. ~ SettledUpTo(s)'
    BY <2>1, <2>2 DEF TransfersAreShown, IsShown
  <2> QED
    BY <1>1, <2>3 DEF SettledUpTo, PairOf
<1>2. \A tr \in transfers' : tr.ts > PaymentTs[tr.subtask]
  BY <1>1 DEF OverInv
<1>3. PaymentTs[s] \in Nat /\ PaymentTs[s] - 1 \in Int
  BY Constants
<1>4. ASSUME NEW p \in Account \X Account, NEW t \in Int
      PROVE  NotOverpaid(p, t)'
  <2>1. LiveRows(p, t)' = LiveRows(p, t) /\ Settled' = Settled
    BY <1>1 DEF LiveRows, RowIsLive, PairOf, Settled
  <2>2. PICK P : P = PaidDirectly(p, t)'
    OBVIOUS
  <2>3. P = {u \in Accepted(p, t) : \E tr \in transfers' : tr.subtask = u}
    BY <2>2 DEF PaidDirectly, Accepted
  <2>4. CASE p = Pair(s) /\ PaymentTs[s] <= t
    <3>1. PICK t0 \in Int : t0 = PaymentTs[s] - 1
      BY <1>3
    <3>2. LiveRows(p, t) = LiveRows(p, t0)
      <4>1. \A j \in DOMAIN settlements : settlements[j].closure \in Nat
        BY <1>0, ListsAreTyped DEF Row
      <4>2. \A j \in DOMAIN settlements : PairOf(j) = p => settlements[j].closure < PaymentTs[s]
        BY <1>1a, <1>3, <2>4, <4>1 DEF SettledUpTo
      <4> QED
        BY <1>3, <2>4, <3>1, <4>1, <4>2 DEF LiveRows
    <3>3. P \in SUBSET Accepted(p, t)
      BY <2>3
    <3>4. P \intersect Accepted(p, t0) = PaidDirectly(p, t0)
      <4>1. s \notin Accepted(p, t0)
        BY <1>3, <3>1 DEF Accepted
      <4>2. Accepted(p, t0) \subseteq Accepted(p, t)
        BY <1>3, <2>4, <3>1, Constants DEF Accepted
      <4> QED
        BY <1>1, <2>3, <4>1, <4>2 DEF PaidDirectly
    <3>5. t0 <= t
      BY <1>3, <2>4, <3>1
    <3>6. /\ SumFunctionOnSet(Settled, LiveRows(p, t0)) \in Nat
          /\ SumFunctionOnSet(Settled, LiveRows(p, t0))
               + SumFunctionOnSet(Price, P \intersect Accepted(p, t0))
               <= SumFunctionOnSet(Price, Accepted(p, t0))
      BY <1>0, <3>4, PaidIsSum DEF OverInv, NotOverpaid
    <3>7. SumFunctionOnSet(Settled, LiveRows(p, t0)) + SumFunctionOnSet(Price, P)
            <= SumFunctionOnSet(Price, Accepted(p, t))
      BY <3>3, <3>5, <3>6, RoomForLater
    <3> QED
      BY <2>1, <2>2, <3>2, <3>7 DEF NotOverpaid, Accepted
  <2>5. CASE ~ (p = Pair(s) /\ PaymentTs[s] <= t)
    <3>1. s \notin Accepted(p, t)
      BY <2>5 DEF Accepted
    <3>2. P = PaidDirectly(p, t)
      BY <1>1, <2>3, <3>1 DEF PaidDirectly
    <3>3. NotOverpaid(p, t)
      BY DEF OverInv
    <3> QED
      BY <2>1, <2>2, <3>2, <3>3 DEF NotOverpaid, Accepted
  <2> QED
    BY <2>4, <2>5
<1> QED
  BY <1>2, <1>4 DEF OverInv

\* What is decided for a pair from an instant on.
LiveSince(p, t0) ==
  {j \in DOMAIN settlements : PairOf(j) = p /\ settlements[j].closure >= t0 /\ RowIsLive(j)}

PaidSince(p, t0, t) == {s \in PaidDirectly(p, t) : PaymentTs[s] >= t0}

\* Nothing was transferred for results that were accepted until then, and is too young.
ShownUpTo(p, t) == \A tr \in transfers : tr.subtask \in Accepted(p, t) => IsShown(tr.ts)

\* When a settlement is made, those of the pair that are on their way have a hash: the
\* settlements of a pair follow each other, and none is sent without being saved.
LEMMA LiveIsSaved ==
  ASSUME Ledger, NEW w \in Worker, LockSettlement(w), ~ UNCHANGED settlements,
         SettlementsAreSaved'
  PROVE  \A j \in DOMAIN settlements :
           PairOf(j) = at[w].pair /\ RowIsLive(j) => settlements[j].tx # NULL
<1>0. TypeOK /\ TypeInv /\ Ready
  BY DEF Ledger, Ready, TypeInv
<1>1. PICK new \in Row, n \in Nat \ {0} : IsRowMade(w, new, n)
  BY <1>0, RowMade
<1>2. /\ settlements'[n] = new
      /\ \A j \in DOMAIN settlements : settlements'[j] = settlements[j]
      /\ <<new.payer, new.payee>> = at[w].pair
      /\ \A v \in Worker : at'[v] = IF v = w THEN [op |-> "pay_settlement", row |-> n] ELSE at[v]
  BY <1>1 DEF IsRowMade
<1>3. UNCHANGED chain /\ at[w].op = "settle" /\ SettlementsSent' = SettlementsSent
  BY SamePayments DEF LockSettlement, ether
<1>4. SUFFICES ASSUME NEW j \in DOMAIN settlements, PairOf(j) = at[w].pair, RowIsLive(j),
                      settlements[j].tx = NULL
               PROVE  FALSE
  OBVIOUS
<1>5. PICK v \in Worker : Settling(v)' /\ at'[v].row = j /\ v # w
  <2>1. CASE \E v \in Worker : at[v].op = "pay_settlement" /\ at[v].row = j
    <3>1. PICK v \in Worker : at[v].op = "pay_settlement" /\ at[v].row = j
      BY <2>1
    <3> QED
      BY <1>2, <1>3, <3>1 DEF Settling
  <2>2. CASE \E i \in SettlementsSent : chain[i].row = j
    <3>1. PICK i \in SettlementsSent : chain[i].row = j
      BY <2>2
    <3>2. settlements'[chain'[i].row].tx = NULL
      BY <1>2, <1>3, <1>4, <3>1
    <3>3. \E v \in Worker : at'[v].op = "save_settlement" /\ at'[v].row = chain'[i].row
      BY <1>3, <3>2 DEF SettlementsAreSaved
    <3>4. PICK v \in Worker : at'[v].op = "save_settlement" /\ at'[v].row = j
      BY <1>3, <3>1, <3>3
    <3> QED
      BY <1>2, <3>4 DEF Settling
  <2> QED
    BY <1>4, <2>1, <2>2 DEF RowIsLive
<1>6. Settling(w)' /\ at'[w].row = n
  BY <1>2 DEF Settling
<1>7. PairOf(at[v].row)' # PairOf(at[w].row)'
  BY <1>5, <1>6 DEF SettlementsAreSaved
<1>8. PairOf(at[v].row)' = PairOf(j) /\ PairOf(at[w].row)' = at[w].pair
  BY <1>2, <1>5, <1>6 DEF PairOf
<1> QED
  BY <1>4, <1>7, <1>8

\* The settlements that are counted as paid include those on their way.
LEMMA RowsArePaid ==
  ASSUME Ledger, NEW p \in Account \X Account, NEW t0 \in Nat, ~ Mismatch(p, t0),
         \A j \in DOMAIN settlements : PairOf(j) = p /\ RowIsLive(j) => settlements[j].tx # NULL
  PROVE  /\ SumFunctionOnSet(Settled, LiveSince(p, t0)) \in Nat
         /\ SumFunctionOnSet(Moved, SettlementEvents(p, t0)) \in Nat
         /\ SumFunctionOnSet(Settled, Unconfirmed(p, t0)) \in Nat
         /\ SumFunctionOnSet(Settled, LiveSince(p, t0))
              <= SumFunctionOnSet(Moved, SettlementEvents(p, t0))
                 + SumFunctionOnSet(Settled, Unconfirmed(p, t0))
<1>0. TypeOK
  BY DEF Ledger, Ready, TypeInv
<1> DEFINE L == LiveSince(p, t0)
           E == SettlementEvents(p, t0)
           U == Unconfirmed(p, t0)
<1>1. /\ L \in SUBSET DOMAIN settlements /\ U \in SUBSET DOMAIN settlements
      /\ E \in SUBSET Confirmed /\ (L \ U) \in SUBSET DOMAIN settlements
  BY DEF LiveSince, Unconfirmed, AlreadySatisfied, SettlementEvents
<1>2. /\ SumFunctionOnSet(Settled, L) \in Nat
      /\ SumFunctionOnSet(Settled, U) \in Nat
      /\ SumFunctionOnSet(Settled, L \ U) \in Nat
      /\ SumFunctionOnSet(Settled, L \intersect U) \in Nat
      /\ SumFunctionOnSet(Moved, E) \in Nat
      /\ IsFiniteSet(L) /\ IsFiniteSet(U) /\ IsFiniteSet(E) /\ IsFiniteSet(L \ U)
  BY <1>0, <1>1, ClaimsAreNumbers
<1>3. \A j \in DOMAIN settlements :
        Settled[j] \in Nat /\ Settled[j] \in Int /\ Settled[j] = settlements[j].amount
  BY <1>0, ColumnsAreTyped
<1>4. L \subseteq AlreadySatisfied(p, t0)
  BY DEF LiveSince, AlreadySatisfied, PairOf
<1>5. SumFunctionOnSet(Settled, L \ U) <= SumFunctionOnSet(Moved, E)
  <2> DEFINE h == [j \in DOMAIN settlements |-> settlements[j].tx]
  <2>1. ASSUME NEW j \in L \ U
        PROVE  /\ h[j] \in E /\ Settled[j] \in Nat /\ Settled[j] <= Moved[h[j]]
               /\ chain[h[j]].row = j
    <3>1. PICK i : i = settlements[j].tx /\ h[j] = i
      BY <1>1
    <3>2. i \in E
      BY <1>4, <3>1 DEF Unconfirmed
    <3>3. settlements[j].amount = blocks[i].moved
      BY <1>4, <3>1, <3>2 DEF Mismatch
    <3>4. Moved[i] = blocks[i].moved
      BY <1>1, <3>2 DEF Moved, Confirmed
    <3>5. chain[i].row = j
      BY <1>1, <1>4, <3>1 DEF Ledger, SettlementLedger, AlreadySatisfied
    <3> QED
      BY <1>1, <1>3, <3>1, <3>2, <3>3, <3>4, <3>5
  <2> HIDE DEF h, L, U, E
  <2>2. \A x, y \in L \ U : h[x] = h[y] => x = y
    BY <2>1
  <2>3. \A x \in E : Moved[x] \in Nat
    BY <1>0, <1>1, ColumnsAreTyped
  <2> QED
    BY <1>2, <2>1, <2>2, <2>3, SumMatched
<1>6. SumFunctionOnSet(Settled, L \intersect U) <= SumFunctionOnSet(Settled, U)
  <2>1. L \intersect U \in SUBSET U /\ \A j \in U : Settled[j] \in Nat
    BY <1>1, <1>3
  <2> QED
    BY <1>2, <2>1, SumSubset
<1>7. SumFunctionOnSet(Settled, L)
        = SumFunctionOnSet(Settled, L \intersect U) + SumFunctionOnSet(Settled, L \ U)
  <2>1. L \intersect U \in SUBSET L /\ L \ (L \intersect U) = L \ U
    OBVIOUS
  <2>2. \A j \in L : Settled[j] \in Int
    BY <1>1, <1>3
  <2> HIDE DEF L, U
  <2>3. SumFunctionOnSet(Settled, L)
        = SumFunctionOnSet(Settled, L \intersect U)
          + SumFunctionOnSet(Settled, L \ (L \intersect U))
    BY <1>2, <2>1, <2>2, SumSplit
  <2> QED
    BY <2>1, <2>3
<1> QED
  BY <1>2, <1>5, <1>6, <1>7

\* The transfers that are counted as paid include those for results accepted since then, up
\* to an instant until which all of them are shown.
LEMMA TransfersArePaid ==
  ASSUME TypeInv, OverInv, NEW p \in Account \X Account, NEW t0 \in Nat, NEW t \in Int,
         ShownUpTo(p, t)
  PROVE  LET prices == [tr \in transfers |-> Price[tr.subtask]] IN
         /\ PaidSince(p, t0, t) \in SUBSET Subtask
         /\ SumFunctionOnSet(Price, PaidSince(p, t0, t)) \in Nat
         /\ SumFunctionOnSet(prices, BatchTransfers(p, t0)) \in Nat
         /\ SumFunctionOnSet(Price, PaidSince(p, t0, t))
              <= SumFunctionOnSet(prices, BatchTransfers(p, t0))
<1>0. TypeOK /\ IsFiniteSet(transfers)
  BY DEF TypeInv
<1> DEFINE prices == [tr \in transfers |-> Price[tr.subtask]]
           D == PaidSince(p, t0, t)
           B == BatchTransfers(p, t0)
           h == [s \in Subtask |-> CHOOSE tr \in transfers : tr.subtask = s]
<1>1. D \in SUBSET Subtask /\ B \in SUBSET transfers
  BY DEF PaidSince, PaidDirectly, Accepted, BatchTransfers
<1>2. IsFiniteSet(D) /\ IsFiniteSet(B) /\ SumFunctionOnSet(Price, D) \in Nat
  BY <1>0, <1>1, PricesAreNumbers, FS_Subset
<1>3. \A tr \in transfers : tr.subtask \in Subtask /\ tr.ts \in Nat
  BY <1>0 DEF TypeOK
<1>4. \A tr \in transfers : prices[tr] = Price[tr.subtask] /\ prices[tr] \in Nat
  <2>1. \A s \in Subtask : Price[s] \in Nat
    BY Constants
  <2> QED
    BY <1>3, <2>1
<1>5. ASSUME NEW s \in D
      PROVE  /\ h[s] \in B /\ Price[s] \in Nat /\ Price[s] <= prices[h[s]]
             /\ h[s].subtask = s
  <2>1. h[s] \in transfers /\ h[s].subtask = s
    BY <1>1 DEF PaidSince, PaidDirectly
  <2>2. h[s].ts > t0
    <3>1. PaymentTs[s] \in Nat
      BY <1>1, Constants
    <3>2. PaymentTs[s] >= t0
      BY DEF PaidSince
    <3>3. h[s].ts > PaymentTs[s]
      BY <2>1 DEF OverInv
    <3> HIDE DEF h
    <3>4. h[s].ts \in Nat
      BY <1>3, <2>1
    <3> QED
      BY <3>1, <3>2, <3>3, <3>4
  <2>3. h[s] \in B
    <3>1. Pair(s) = p /\ s \in Accepted(p, t)
      BY DEF PaidSince, PaidDirectly, Accepted
    <3> HIDE DEF h
    <3>2. IsShown(h[s].ts)
      BY <2>1, <3>1 DEF ShownUpTo
    <3> QED
      BY <2>1, <2>2, <3>1, <3>2 DEF BatchTransfers
  <2>4. Price[s] \in Nat /\ Price[s] <= Price[s]
    BY <1>1, Constants
  <2> HIDE DEF h, prices
  <2>5. prices[h[s]] = Price[s]
    BY <1>4, <2>1
  <2> QED
    BY <2>1, <2>3, <2>4, <2>5
<1> HIDE DEF h, prices, D, B
<1>6. \A x, y \in D : h[x] = h[y] => x = y
  BY <1>5
<1>7. \A x \in B : prices[x] \in Nat
  BY <1>1, <1>4
<1>8. SumFunctionOnSet(Price, D) <= SumFunctionOnSet(prices, B)
  BY <1>2, <1>5, <1>6, <1>7, SumMatched
<1>9. SumFunctionOnSet(prices, B) \in Nat
  BY <1>2, <1>7, SumNat
<1> QED
  BY <1>1, <1>2, <1>8, <1>9 DEF D, B, prices

\* What is decided for a pair up to an instant was decided before T0, or is counted as
\* paid by the operation that settles from T0 on.
LEMMA DecidedIsPaid ==
  ASSUME Ledger, OverInv, NEW p \in Account \X Account, NEW t0 \in Nat, NEW t \in Int,
         t0 <= t, ~ Mismatch(p, t0), ShownUpTo(p, t),
         \A j \in DOMAIN settlements : PairOf(j) = p /\ RowIsLive(j) => settlements[j].tx # NULL
  PROVE  SumFunctionOnSet(Settled, LiveRows(p, t)) + SumFunctionOnSet(Price, PaidDirectly(p, t))
           <= SumFunctionOnSet(Price, Accepted(p, t0 - 1)) + AmountPaid(p, t0)
<1>0. TypeOK /\ TypeInv
  BY DEF Ledger, Ready, TypeInv
<1> DEFINE prices == [tr \in transfers |-> Price[tr.subtask]]
<1>1. PICK b \in Int : b = t0 - 1
  OBVIOUS
<1>2. /\ SumFunctionOnSet(Settled, LiveSince(p, t0)) \in Nat
      /\ SumFunctionOnSet(Moved, SettlementEvents(p, t0)) \in Nat
      /\ SumFunctionOnSet(Settled, Unconfirmed(p, t0)) \in Nat
      /\ SumFunctionOnSet(Settled, LiveSince(p, t0))
           <= SumFunctionOnSet(Moved, SettlementEvents(p, t0))
              + SumFunctionOnSet(Settled, Unconfirmed(p, t0))
  BY RowsArePaid
<1>3. /\ PaidSince(p, t0, t) \in SUBSET Subtask
      /\ SumFunctionOnSet(Price, PaidSince(p, t0, t)) \in Nat
      /\ SumFunctionOnSet(prices, BatchTransfers(p, t0)) \in Nat
      /\ SumFunctionOnSet(Price, PaidSince(p, t0, t))
           <= SumFunctionOnSet(prices, BatchTransfers(p, t0))
  BY <1>0, TransfersArePaid
<1>4. AmountPaid(p, t0) = SumFunctionOnSet(Moved, SettlementEvents(p, t0))
                          + SumFunctionOnSet(Settled, Unconfirmed(p, t0))
                          + SumFunctionOnSet(prices, BatchTransfers(p, t0))
  BY DEF AmountPaid
<1> HIDE DEF prices
<1>5. \A j \in DOMAIN settlements :
        /\ settlements[j].closure \in Nat
        /\ Settled[j] \in Nat /\ Settled[j] = settlements[j].amount
  BY <1>0, ColumnsAreTyped, ListsAreTyped DEF Row
<1>6. /\ SumFunctionOnSet(Settled, LiveRows(p, t)) \in Nat
      /\ SumFunctionOnSet(Settled, LiveRows(p, t))
           <= SumFunctionOnSet(Settled, LiveRows(p, b))
              + SumFunctionOnSet(Settled, LiveSince(p, t0))
  <2> DEFINE L == LiveRows(p, t)
             N == L \ LiveRows(p, b)
  <2>1. LiveRows(p, b) \in SUBSET L
    BY <1>1, <1>5 DEF LiveRows
  <2>2. N \in SUBSET LiveSince(p, t0)
    <3>1. \A j \in DOMAIN settlements : settlements[j].closure <= b \/ settlements[j].closure >= t0
      BY <1>1, <1>5
    <3> QED
      BY <3>1 DEF LiveRows, LiveSince
  <2>3. LiveSince(p, t0) \in SUBSET DOMAIN settlements /\ L \in SUBSET DOMAIN settlements
        /\ N \in SUBSET DOMAIN settlements
    BY DEF LiveRows, LiveSince
  <2>4. /\ IsFiniteSet(L) /\ IsFiniteSet(LiveSince(p, t0))
        /\ SumFunctionOnSet(Settled, L) \in Nat
        /\ SumFunctionOnSet(Settled, LiveSince(p, t0)) \in Nat
        /\ SumFunctionOnSet(Settled, N) \in Nat
        /\ SumFunctionOnSet(Settled, LiveRows(p, b)) \in Nat
    BY <1>0, <2>3, ClaimsAreNumbers, PaidIsSum
  <2>5. SumFunctionOnSet(Settled, N) <= SumFunctionOnSet(Settled, LiveSince(p, t0))
    <3>1. \A j \in LiveSince(p, t0) : Settled[j] \in Nat
      BY <1>5, <2>3
    <3> HIDE DEF N, L
    <3> QED
      BY <2>2, <2>4, <3>1, SumSubset
  <2>6. SumFunctionOnSet(Settled, L)
          = SumFunctionOnSet(Settled, LiveRows(p, b)) + SumFunctionOnSet(Settled, N)
    <3>1. \A j \in L : Settled[j] \in Int
      BY <1>5, <2>3
    <3> HIDE DEF L
    <3> QED
      BY <2>1, <2>4, <3>1, SumSplit
  <2> QED
    BY <2>4, <2>5, <2>6
<1>7. /\ SumFunctionOnSet(Price, PaidDirectly(p, t)) \in Nat
      /\ SumFunctionOnSet(Price, PaidDirectly(p, t))
           <= SumFunctionOnSet(Price, PaidDirectly(p, b))
              + SumFunctionOnSet(Price, PaidSince(p, t0, t))
  <2>1. PaidDirectly(p, t) \subseteq PaidDirectly(p, b) \union PaidSince(p, t0, t)
    <3>1. ASSUME NEW s \in Subtask
          PROVE  PaymentTs[s] <= b \/ PaymentTs[s] >= t0
      <4>1. PICK ts \in Nat : ts = PaymentTs[s]
        BY Constants
      <4>2. ts <= b \/ ts >= t0
        BY <1>1
      <4> QED
        BY <4>1, <4>2
    <3> QED
      BY <3>1 DEF PaidDirectly, PaidSince, Accepted
  <2>2. PaidDirectly(p, t) \in SUBSET Subtask /\ PaidDirectly(p, b) \in SUBSET Subtask
    BY <1>0, PaidIsSum
  <2> QED
    BY <1>3, <2>1, <2>2, PaidInTwo
<1>8. /\ SumFunctionOnSet(Settled, LiveRows(p, b)) + SumFunctionOnSet(Price, PaidDirectly(p, b))
           <= SumFunctionOnSet(Price, Accepted(p, b))
      /\ SumFunctionOnSet(Settled, LiveRows(p, b)) \in Nat
      /\ SumFunctionOnSet(Price, PaidDirectly(p, b)) \in Nat
      /\ SumFunctionOnSet(Price, Accepted(p, b)) \in Nat
  BY <1>0, PaidIsSum DEF OverInv, NotOverpaid
<1>9. SumFunctionOnSet(Settled, LiveRows(p, t)) + SumFunctionOnSet(Price, PaidDirectly(p, t))
        <= SumFunctionOnSet(Price, Accepted(p, b)) + AmountPaid(p, t0)
  BY <1>2, <1>3, <1>4, <1>6, <1>7, <1>8
<1> QED
  BY <1>1, <1>9

\* A new settlement takes what is left of the prices of its acceptances.
LEMMA LockSettlementOver ==
  ASSUME Ledger, OverInv, NEW w \in Worker, LockSettlement(w), SettlementsAreSaved',
         TransfersAreShown'
  PROVE  OverInv'
<1>0. TypeOK /\ TypeInv /\ Ready
  BY DEF Ledger, Ready, TypeInv
<1>1. UNCHANGED <<now, chain, transfers>> /\ SettlementsSent' = SettlementsSent
  BY SamePayments DEF LockSettlement, ether
<1>2. CASE UNCHANGED settlements
  <2>1. \A v \in Worker : at'[v] = at[v] \/ at'[v].op # "pay_settlement"
    <3>1. CASE Step(w, Idle)
      BY <1>0, <3>1, StepTaken DEF Idle
    <3>2. CASE ~ Step(w, Idle)
      <4>1. PICK row : settlements' = Append(settlements, row)
        BY <3>2 DEF LockSettlement
      <4>2. Len(settlements') = Len(settlements) + 1 /\ Len(settlements) \in Nat
        BY <1>0, <4>1, Grown, ListsAreTyped, Places
      <4> QED
        BY <1>2, <4>2
    <3> QED
      BY <3>1, <3>2
  <2>2. \A j : RowIsLive(j)' => RowIsLive(j)
    BY <1>1, <2>1 DEF RowIsLive
  <2>3. \A j \in DOMAIN settlements' : PairOf(j)' = PairOf(j)
    BY <1>2 DEF PairOf
  <2> QED
    BY <1>0, <1>1, <1>2, <2>2, <2>3, OverKept
<1>3. CASE ~ UNCHANGED settlements
  <2>0. PICK new \in Row, n \in Nat \ {0} : IsRowMade(w, new, n)
    BY <1>0, <1>3, RowMade
  <2>1a. PICK q \in Account \X Account, A \in SUBSET Subtask, funds \in Nat :
          /\ q = at[w].pair /\ A = at[w].acceptances /\ funds = at[w].funds /\ A # {}
          /\ \A s \in A : Pair(s) = q
    BY <1>0, <1>3, RowMade DEF TypeInv
  <2>1b. PICK t0 : t0 = OldestTs(A)
    OBVIOUS
  <2>1. /\ q = at[w].pair /\ A = at[w].acceptances /\ funds = at[w].funds /\ A # {}
        /\ \A s \in A : Pair(s) = q
        /\ t0 = OldestTs(A)
    BY <2>1a, <2>1b
  <2>2. /\ n \notin DOMAIN settlements
        /\ settlements'[n] = new /\ DOMAIN settlements' = DOMAIN settlements \union {n}
        /\ \A j \in DOMAIN settlements : settlements'[j] = settlements[j]
        /\ <<new.payer, new.payee>> = q
        /\ new.closure = YoungestTs(A) /\ new.amount = RequestorPayableAmount(q, A, funds)
        /\ ~ Mismatch(q, t0)
        /\ \A v \in Worker : at'[v] = IF v = w THEN [op |-> "pay_settlement", row |-> n]
                                      ELSE at[v]
    BY <2>0, <2>1 DEF IsRowMade
  <2>3. /\ t0 \in Nat /\ new.closure \in Nat /\ t0 <= new.closure /\ new.amount \in Nat
        /\ \A s \in A : t0 <= PaymentTs[s] /\ PaymentTs[s] <= new.closure
        /\ \A s \in A : PaymentTs[s] \in Nat
    BY <2>1, <2>2, Ages, Constants DEF Row
  <2>4. /\ SumFunctionOnSet(Price, A) \in Nat /\ AmountPaid(q, t0) \in Nat
        /\ new.amount <= SumFunctionOnSet(Price, A) - AmountPaid(q, t0)
    <3>1. new.amount <= AmountPending(q, A) /\ AmountPaid(q, t0) \in Nat
      <4>1. /\ AmountPaid(q, t0) \in Nat
            /\ RequestorPayableAmount(q, A, funds) <= AmountPending(q, A)
        BY <1>0, PayableIsNumber
      <4> QED
        BY <2>2, <4>1
    <3>2. AmountPending(q, A) = SumFunctionOnSet(Price, A) - AmountPaid(q, t0)
      BY <2>1 DEF AmountPending
    <3> QED
      BY <3>1, <3>2, PricesAreNumbers
  <2>5. \A j \in DOMAIN settlements : PairOf(j) = q /\ RowIsLive(j) => settlements[j].tx # NULL
    BY <1>3, <2>1, LiveIsSaved
  <2>6. \A j \in DOMAIN settlements' : RowIsLive(j)' => j = n \/ RowIsLive(j)
    BY <1>1, <2>2 DEF RowIsLive
  <2>7. /\ PairOf(n)' = q
        /\ \A j \in DOMAIN settlements : PairOf(j)' = PairOf(j)
    BY <2>2 DEF PairOf
  <2>8. \A tr \in transfers' : tr.ts > PaymentTs[tr.subtask]
    BY <1>1 DEF OverInv
  <2>9. ASSUME NEW p \in Account \X Account, NEW t \in Int,
               p = q /\ new.closure <= t => ShownUpTo(p, t)
        PROVE  NotOverpaid(p, t)' /\ SumFunctionOnSet(Settled, LiveRows(p, t))' \in Nat
    <3>1. PICK L, c : L = LiveRows(p, t)' /\ c = Settled'
      OBVIOUS
    <3>2. /\ \A j \in L : \/ j = n /\ p = q /\ new.closure <= t
                          \/ j # n /\ j \in LiveRows(p, t)
      <4>1. \A j \in L : /\ j \in DOMAIN settlements' /\ RowIsLive(j)'
                         /\ PairOf(j)' = p /\ settlements'[j].closure <= t
        BY <3>1 DEF LiveRows
      <4> QED
        BY <2>2, <2>6, <2>7, <4>1 DEF LiveRows
    <3>3. /\ c[n] = new.amount
          /\ \A j \in DOMAIN settlements : c[j] = Settled[j]
      <4>1. c = [j \in DOMAIN settlements' |-> settlements'[j].amount]
        BY <3>1 DEF Settled
      <4> QED
        BY <2>2, <4>1 DEF Settled
    <3>4. LiveRows(p, t) \in SUBSET DOMAIN settlements /\ IsFiniteSet(LiveRows(p, t))
          /\ \A j \in LiveRows(p, t) : Settled[j] \in Nat
      BY <1>0, ColumnsAreTyped, PaidIsSum
    <3>5. PaidDirectly(p, t)' = PaidDirectly(p, t)
      BY <1>1 DEF PaidDirectly, Accepted
    <3>6. /\ SumFunctionOnSet(Settled, LiveRows(p, t)) \in Nat
          /\ SumFunctionOnSet(Price, PaidDirectly(p, t)) \in Nat
          /\ SumFunctionOnSet(Price, Accepted(p, t)) \in Nat
      BY <1>0, PaidIsSum
    <3>7. CASE p = q /\ new.closure <= t
      <4>1. /\ SumFunctionOnSet(c, L) \in Nat
            /\ SumFunctionOnSet(c, L) <= SumFunctionOnSet(Settled, LiveRows(p, t)) + c[n]
        <5>1. L \in SUBSET (LiveRows(p, t) \union {n}) /\ \A j \in L : j # n => c[j] = Settled[j]
          BY <3>2, <3>3, <3>4
        <5>2. c[n] \in Nat
          BY <2>3, <3>3
        <5> QED
          BY <3>4, <5>1, <5>2, SumGrows
      <4>2. PICK b \in Int : b = t0 - 1 /\ b <= t /\ t0 <= t
        BY <2>3, <3>7
      <4>3. SumFunctionOnSet(Settled, LiveRows(p, t))
              + SumFunctionOnSet(Price, PaidDirectly(p, t))
              <= SumFunctionOnSet(Price, Accepted(p, t0 - 1)) + AmountPaid(p, t0)
        BY <2>2, <2>3, <2>5, <2>9, <3>7, <4>2, DecidedIsPaid
      <4>4. A \in SUBSET Accepted(p, t) /\ A \intersect Accepted(p, b) = {}
        <5>1. \A s \in A : PaymentTs[s] <= t /\ ~ (PaymentTs[s] <= b)
          BY <2>3, <3>7, <4>2
        <5> QED
          BY <2>1, <3>7, <5>1 DEF Accepted
      <4>5. /\ SumFunctionOnSet(Price, Accepted(p, b)) \in Nat
            /\ SumFunctionOnSet(Price, Accepted(p, b)) + SumFunctionOnSet(Price, A)
                 <= SumFunctionOnSet(Price, Accepted(p, t))
        BY <4>2, <4>4, AcceptedInTwo
      <4>6. SumFunctionOnSet(Settled, LiveRows(p, t))
              + SumFunctionOnSet(Price, PaidDirectly(p, t))
              <= SumFunctionOnSet(Price, Accepted(p, b)) + AmountPaid(q, t0)
        BY <3>7, <4>2, <4>3
      <4>7. SumFunctionOnSet(c, L) + SumFunctionOnSet(Price, PaidDirectly(p, t))
              <= SumFunctionOnSet(Price, Accepted(p, t))
        BY <2>3, <2>4, <3>3, <3>6, <4>1, <4>5, <4>6
      <4> QED
        BY <3>1, <3>5, <4>1, <4>7 DEF NotOverpaid, Accepted
    <3>8. CASE ~ (p = q /\ new.closure <= t)
      <4>1. L \in SUBSET (LiveRows(p, t) \ {}) /\ \A j \in L : c[j] = Settled[j]
        BY <3>2, <3>3, <3>4, <3>8
      <4>2. /\ SumFunctionOnSet(c, L) \in Nat /\ SumFunctionOnSet(Settled, {}) \in Nat
            /\ SumFunctionOnSet(c, L) + SumFunctionOnSet(Settled, {})
                 <= SumFunctionOnSet(Settled, LiveRows(p, t))
        BY <3>4, <4>1, SumShrinks
      <4>3. NotOverpaid(p, t)
        BY DEF OverInv
      <4>4. SumFunctionOnSet(c, L) + SumFunctionOnSet(Price, PaidDirectly(p, t))
              <= SumFunctionOnSet(Price, Accepted(p, t))
        BY <3>6, <4>2, <4>3 DEF NotOverpaid
      <4> QED
        BY <3>1, <3>5, <4>2, <4>4 DEF NotOverpaid, Accepted
    <3> QED
      BY <3>7, <3>8
  <2>10. ASSUME NEW p \in Account \X Account, NEW t \in Int, p = q, ~ ShownUpTo(p, t)
         PROVE  NotOverpaid(p, t)'
    <3> DEFINE U == {s \in Accepted(p, t) :
                       \E tr \in transfers : tr.subtask = s /\ ~ IsShown(tr.ts)}
    <3>1. U \in SUBSET Subtask /\ U # {}
      BY <2>10 DEF ShownUpTo, Accepted
    <3>2. PICK u \in Subtask : u \in U /\ \A s \in U : PaymentTs[u] <= PaymentTs[s]
      <4> HIDE DEF U
      <4> QED
        BY <3>1, Ages
    <3>3. PICK t1 \in Int : t1 = PaymentTs[u] - 1
      BY Constants
    <3>4. Pair(u) = p /\ PaymentTs[u] <= t /\ PaymentTs[u] \in Nat
      BY <3>2, Constants DEF Accepted
    <3>5. ~ SettledUpTo(u)'
      BY <1>1, <3>2 DEF TransfersAreShown, IsShown
    <3>6. \A j \in DOMAIN settlements' : PairOf(j)' = p => settlements'[j].closure <= t1
      <4>1. \A j \in DOMAIN settlements' : settlements'[j].closure \in Nat
        BY <1>0, <2>2, <2>3, ListsAreTyped DEF Row
      <4>2. ASSUME NEW j \in DOMAIN settlements', PairOf(j)' = p
            PROVE  ~ (settlements'[j].closure >= PaymentTs[u])
        BY <3>4, <3>5, <4>2 DEF SettledUpTo, Pair
      <4> QED
        BY <3>3, <3>4, <4>1, <4>2
    <3>7. t1 <= t
      BY <3>3, <3>4
    <3>8. ShownUpTo(p, t1)
      <4> SUFFICES ASSUME NEW tr \in transfers, tr.subtask \in Accepted(p, t1)
                   PROVE  IsShown(tr.ts)
        BY DEF ShownUpTo
      <4>1. /\ PaymentTs[tr.subtask] \in Nat /\ PaymentTs[tr.subtask] <= t1
            /\ tr.subtask \in Subtask /\ Pair(tr.subtask) = p
        BY Constants DEF Accepted
      <4>2. PaymentTs[tr.subtask] <= t /\ ~ (PaymentTs[u] <= PaymentTs[tr.subtask])
        BY <3>3, <3>4, <3>7, <4>1
      <4>3. tr.subtask \in Accepted(p, t) /\ tr.subtask \notin U
        BY <3>2, <4>1, <4>2 DEF Accepted
      <4> QED
        BY <4>3
    <3>9. NotOverpaid(p, t1)' /\ SumFunctionOnSet(Settled, LiveRows(p, t1))' \in Nat
      BY <2>9, <3>8
    <3>10. LiveRows(p, t)' = LiveRows(p, t1)'
      <4>1. \A j \in DOMAIN settlements' :
              PairOf(j)' = p => settlements'[j].closure <= t1 /\ settlements'[j].closure <= t
        <5>1. \A j \in DOMAIN settlements' : settlements'[j].closure \in Nat
          BY <1>0, <2>2, <2>3, ListsAreTyped DEF Row
        <5> QED
          BY <3>6, <3>7, <5>1
      <4> QED
        BY <4>1 DEF LiveRows
    <3>11. PICK sum, P : sum = SumFunctionOnSet(Settled, LiveRows(p, t1))' /\ P = PaidDirectly(p, t)'
      OBVIOUS
    <3>12. /\ P \in SUBSET Accepted(p, t)
           /\ P \intersect Accepted(p, t1) = PaidDirectly(p, t1)'
      <4>1. Accepted(p, t1) \subseteq Accepted(p, t)
        BY <3>7, Constants DEF Accepted
      <4> QED
        BY <3>11, <4>1 DEF PaidDirectly, Accepted
    <3>13. sum \in Nat /\ sum + SumFunctionOnSet(Price, P \intersect Accepted(p, t1))
                            <= SumFunctionOnSet(Price, Accepted(p, t1))
      BY <3>9, <3>11, <3>12 DEF NotOverpaid, Accepted
    <3>14. sum + SumFunctionOnSet(Price, P) <= SumFunctionOnSet(Price, Accepted(p, t))
      BY <3>7, <3>12, <3>13, RoomForLater
    <3> QED
      BY <3>10, <3>11, <3>14 DEF NotOverpaid, Accepted
  <2>11. \A p \in Account \X Account, t \in Int : NotOverpaid(p, t)'
    BY <2>9, <2>10
  <2> QED
    BY <2>8, <2>11 DEF OverInv
<1> QED
  BY <1>2, <1>3

\* Every step of OrderlySpec keeps OverInv.
LEMMA OverStep ==
  ASSUME Ledger, OverInv, [OrderlyNext]_vars
  PROVE  OverInv'
<1>0. Ready
  BY DEF Ledger
<1>1. CASE UNCHANGED vars \/ Confirm \/ Tick
  BY <1>0, <1>1, QuietOver
<1>2. ASSUME NEW s \in Subtask, Transfer(s), TransfersAreShown' PROVE OverInv'
  BY <1>0, <1>2, TransferOver
<1>3. ASSUME NEW w \in Worker, NotSettling(w) PROVE OverInv'
  BY <1>0, <1>3, QuietOver
<1>4. ASSUME NEW w \in Worker, LockSettlement(w), SettlementsAreSaved', TransfersAreShown'
      PROVE  OverInv'
  BY <1>4, LockSettlementOver
<1>5. ASSUME NEW w \in Worker, PaySettlement(w) \/ SaveSettlement(w) PROVE OverInv'
  BY <1>5, PaySettlementOver, SaveSettlementOver
<1> QED
  BY <1>1, <1>2, <1>3, <1>4, <1>5 DEF OrderlyNext, Next, NotSettling

\* Nothing is decided or transferred at first.
LEMMA OverStart ==
  ASSUME Init
  PROVE  OverInv
<1>1. TypeOK
  BY LedgerStart DEF Ledger, Ready, TypeInv
<1>2. transfers = {} /\ DOMAIN settlements = {}
  BY DEF Init
<1>3. ASSUME NEW p, NEW t
      PROVE  NotOverpaid(p, t)
  <2>1. LiveRows(p, t) = {} /\ PaidDirectly(p, t) = {}
    BY <1>2 DEF LiveRows, PaidDirectly
  <2>2. SumFunctionOnSet(Settled, {}) = 0 /\ SumFunctionOnSet(Price, {}) = 0
    BY SumEmpty
  <2>3. SumFunctionOnSet(Price, Accepted(p, t)) \in Nat
    BY <1>1, PaidIsSum
  <2> QED
    BY <2>1, <2>2, <2>3 DEF NotOverpaid
<1> QED
  BY <1>2, <1>3 DEF OverInv

\* What is sent was decided.
LEMMA SentIsLive ==
  ASSUME Ledger, OverInv
  PROVE  ProviderIsNotOverpaid
<1>0. TypeOK
  BY DEF Ledger, Ready, TypeInv
<1> SUFFICES ASSUME NEW u \in Subtask, NEW s \in Subtask
             PROVE  LET p == Pair(u)  t == PaymentTs[s]
                        sent == {i \in SettlementsSent :
                                   /\ PairOf(chain[i].row) = p
                                   /\ settlements[chain[i].row].closure <= t}
                    IN SumFunctionOnSet(Sent, sent) + SumFunctionOnSet(Price, PaidDirectly(p, t))
                         <= SumFunctionOnSet(Price, Accepted(p, t))
  BY DEF ProviderIsNotOverpaid, PaidDirectly, Accepted
<1>1. PICK p \in Account \X Account, t \in Int : p = Pair(u) /\ t = PaymentTs[s]
  <2>1. Pair(u) \in Account \X Account
    BY Constants DEF Pair
  <2>2. PaymentTs[s] \in Int
    BY Constants
  <2> QED
    BY <2>1, <2>2
<1> DEFINE S == {i \in SettlementsSent :
                   /\ PairOf(chain[i].row) = p /\ settlements[chain[i].row].closure <= t}
           h == [i \in DOMAIN chain |-> chain[i].row]
<1>2. S \in SUBSET SettlementsSent /\ S \in SUBSET DOMAIN chain
  BY DEF SettlementsSent
<1>3. IsFiniteSet(S) /\ SumFunctionOnSet(Sent, S) \in Nat
  BY <1>0, <1>2, ClaimsAreNumbers
<1>4. ASSUME NEW i \in S
      PROVE  /\ h[i] \in LiveRows(p, t) /\ Sent[i] \in Nat /\ Sent[i] <= Settled[h[i]]
             /\ i \in SettlementsSent /\ h[i] = chain[i].row
  <2>1. PICK j : j = chain[i].row /\ h[i] = j
    BY <1>2
  <2>2. /\ j \in DOMAIN settlements /\ chain[i].amount <= settlements[j].amount
    BY <1>2, <2>1 DEF Ledger, SettlementLedger
  <2>3. j \in LiveRows(p, t)
    BY <2>1, <2>2 DEF LiveRows, RowIsLive
  <2>4. Settled[j] = settlements[j].amount /\ Sent[i] = chain[i].amount /\ Sent[i] \in Nat
    BY <1>0, <1>2, <2>2, ColumnsAreTyped
  <2> QED
    BY <1>2, <2>1, <2>2, <2>3, <2>4
<1> HIDE DEF h, S
<1>5. \A x, y \in S : h[x] = h[y] => x = y
  <2> SUFFICES ASSUME NEW x \in S, NEW y \in S, h[x] = h[y]
               PROVE  x = y
    OBVIOUS
  <2>1. x \in SettlementsSent /\ y \in SettlementsSent /\ chain[x].row = chain[y].row
    BY <1>4
  <2>2. \A i, j \in SettlementsSent : chain[i].row = chain[j].row => i = j
    BY DEF Ledger, SettlementLedger
  <2> QED
    BY <2>1, <2>2
<1>6. IsFiniteSet(LiveRows(p, t)) /\ \A j \in LiveRows(p, t) : Settled[j] \in Nat
  BY <1>0, PaidIsSum, ColumnsAreTyped
<1>7. SumFunctionOnSet(Sent, S) <= SumFunctionOnSet(Settled, LiveRows(p, t))
  BY <1>3, <1>4, <1>5, <1>6, SumMatched
<1>8. /\ SumFunctionOnSet(Settled, LiveRows(p, t)) + SumFunctionOnSet(Price, PaidDirectly(p, t))
           <= SumFunctionOnSet(Price, Accepted(p, t))
      /\ SumFunctionOnSet(Settled, LiveRows(p, t)) \in Nat
      /\ SumFunctionOnSet(Price, PaidDirectly(p, t)) \in Nat
      /\ SumFunctionOnSet(Price, Accepted(p, t)) \in Nat
  BY <1>0, PaidIsSum DEF OverInv, NotOverpaid
<1>9. SumFunctionOnSet(Sent, S) + SumFunctionOnSet(Price, PaidDirectly(p, t))
        <= SumFunctionOnSet(Price, Accepted(p, t))
  BY <1>3, <1>7, <1>8
<1> QED
  BY <1>1, <1>9 DEF S

\* As long as the settlements of a pair follow each other, a provider does not get more by
\* settlements and the requestor's own transfers than the prices of the results accepted
\* until then, unless a settlement crosses a transfer that is too young to be seen
\* (bankster.py, settle_overdue_acceptances; sci_backend.py, get_list_of_payments).
THEOREM ProvidersAreNotOverpaid == OrderlySpec => []ProviderIsNotOverpaid
<1>1. Init => Ledger /\ OverInv
  BY LedgerStart, OverStart
<1>2. Ledger /\ OverInv /\ [OrderlyNext]_vars => Ledger' /\ OverInv'
  BY LedgerStep, OverStep DEF OrderlyNext
<1>3. Ledger /\ OverInv => ProviderIsNotOverpaid
  BY SentIsLive
<1> QED
  BY <1>1, <1>2, <1>3, PTL DEF OrderlySpec

-----------------------------------------------------------------------------
(* Who pays in time crosses no settlement. *)

\* A settlement is asked for when the last of its acceptances is overdue, so the row that
\* comes of it is of results that were to be paid for by now.
SettledIsDue ==
  /\ \A j \in DOMAIN settlements : settlements[j].closure + PaymentDueTime <= now
  /\ \A w \in Worker :
       at[w].op = "settle" => YoungestTs(at[w].acceptances) + PaymentDueTime <= now

\* As time passes nothing becomes less due.
LEMMA DueKept ==
  ASSUME TypeInv, SettledIsDue, now' \in Nat, now <= now',
         \A v \in Worker : at'[v].op = "settle" =>
           at'[v] = at[v] \/ YoungestTs(at'[v].acceptances) + PaymentDueTime <= now',
         \A j \in DOMAIN settlements' :
           \/ j \in DOMAIN settlements /\ settlements'[j].closure = settlements[j].closure
           \/ settlements'[j].closure + PaymentDueTime <= now'
  PROVE  SettledIsDue'
<1>1. now \in Nat /\ PaymentDueTime \in Nat
  BY Constants DEF TypeInv, TypeOK
<1>2. ASSUME NEW v \in Worker, at'[v].op = "settle"
      PROVE  YoungestTs(at'[v].acceptances) + PaymentDueTime <= now'
  <2>1. CASE at'[v] = at[v]
    <3>1. PICK A \in SUBSET Subtask : A = at[v].acceptances /\ A # {}
      BY <1>2, <2>1, StepFields DEF TypeInv, TypeOK
    <3>2. PICK y \in Nat : y = YoungestTs(A)
      BY <3>1, Ages
    <3>3. y + PaymentDueTime <= now
      BY <1>2, <2>1, <3>1, <3>2 DEF SettledIsDue
    <3>4. y + PaymentDueTime <= now'
      BY <1>1, <3>3
    <3> QED
      BY <2>1, <3>1, <3>2, <3>4
  <2> QED
    BY <1>2, <2>1
<1>3. ASSUME NEW j \in DOMAIN settlements'
      PROVE  settlements'[j].closure + PaymentDueTime <= now'
  <2>1. CASE j \in DOMAIN settlements /\ settlements'[j].closure = settlements[j].closure
    <3>1. PICK y \in Nat : y = settlements[j].closure
      BY <2>1, ListsAreTyped DEF TypeInv, Row
    <3>2. y + PaymentDueTime <= now
      BY <2>1, <3>1 DEF SettledIsDue
    <3>3. y + PaymentDueTime <= now'
      BY <1>1, <3>2
    <3> QED
      BY <2>1, <3>1, <3>3
  <2> QED
    BY <2>1
<1> QED
  BY <1>2, <1>3 DEF SettledIsDue

\* The steps of a worker that neither ask for a settlement nor make one.
LEMMA OtherStepsAreDue ==
  ASSUME TypeInv, SettledIsDue, NEW w \in Worker,
         \/ \E s \in Subtask, use \in UseCase : AskForDeposits(w, s, use)
         \/ CheckRequestor(w) \/ CheckProvider(w) \/ InsertClaims(w)
         \/ \E k \in ClaimKey : AskForPayersDeposit(w, k)
         \/ LockClaim(w) \/ PayClaim(w) \/ SaveClaim(w)
         \/ PaySettlement(w) \/ Abort(w)
  PROVE  SettledIsDue'
<1>1. UNCHANGED <<now, settlements>>
  BY DEF AskForDeposits, CheckRequestor, CheckProvider, InsertClaims, AskForPayersDeposit,
         LockClaim, PayClaim, SaveClaim, PaySettlement, Abort, table, ether
<1>2. \E step : Step(w, step) /\ step.op # "settle"
  <2>1. CASE \E s \in Subtask, use \in UseCase : AskForDeposits(w, s, use)
    BY <2>1 DEF AskForDeposits
  <2>2. CASE CheckRequestor(w)
    BY <2>2 DEF CheckRequestor, Idle
  <2>3. CASE CheckProvider(w)
    BY <2>3 DEF CheckProvider, Idle
  <2>4. CASE InsertClaims(w) \/ SaveClaim(w) \/ Abort(w)
    BY <2>4 DEF InsertClaims, SaveClaim, Abort, Idle
  <2>5. CASE \E k \in ClaimKey : AskForPayersDeposit(w, k)
    BY <2>5 DEF AskForPayersDeposit
  <2>6. CASE LockClaim(w)
    BY <2>6 DEF LockClaim, Idle
  <2>7. CASE PayClaim(w)
    BY <2>7 DEF PayClaim
  <2>8. CASE PaySettlement(w)
    BY <2>8 DEF PaySettlement
  <2> QED
    BY <2>1, <2>2, <2>3, <2>4, <2>5, <2>6, <2>7, <2>8
<1>3. \A v \in Worker : at'[v] = at[v] \/ at'[v].op # "settle"
  BY <1>2, StepTaken DEF TypeInv
<1>4. now \in Nat
  BY DEF TypeInv, TypeOK
<1> QED
  BY <1>1, <1>3, <1>4, DueKept

\* The steps of the environment, and those that leave the worker where it is.
LEMMA EnvironmentIsDue ==
  ASSUME TypeInv, SettledIsDue,
         \/ UNCHANGED vars \/ Confirm \/ Tick \/ \E s \in Subtask : Transfer(s)
         \/ \E w \in Worker, k \in ClaimKey : DiscardClaim(w, k)
  PROVE  SettledIsDue'
<1>1. UNCHANGED <<at, settlements>> /\ now' \in {now, now + 1}
  BY DEF vars, Confirm, Tick, Transfer, DiscardClaim, table, ether
<1>2. now \in Nat
  BY DEF TypeInv, TypeOK
<1>3. now' \in Nat /\ now <= now'
  BY <1>1, <1>2
<1> QED
  BY <1>1, <1>3, DueKept

\* Only overdue acceptances are settled.
LEMMA AskForSettledDepositIsDue ==
  ASSUME TypeInv, SettledIsDue, NEW w \in Worker, NEW A \in SUBSET Subtask,
         AskForSettledDeposit(w, A)
  PROVE  SettledIsDue'
<1>1. PICK step : Step(w, step) /\ step.acceptances = A
  BY DEF AskForSettledDeposit
<1>2. UNCHANGED <<now, settlements>> /\ A # {} /\ YoungestTs(A) <= now - PaymentDueTime
  BY DEF AskForSettledDeposit, Overdue, table
<1>3. now \in Nat /\ PaymentDueTime \in Nat
  BY Constants DEF TypeInv, TypeOK
<1>4. YoungestTs(A) + PaymentDueTime <= now
  <2>1. PICK y \in Nat : y = YoungestTs(A)
    BY <1>2, Ages
  <2>2. y + PaymentDueTime <= now
    BY <1>2, <1>3, <2>1
  <2> QED
    BY <2>1, <2>2
<1>5. \A v \in Worker : at'[v] = at[v] \/ at'[v].acceptances = A
  BY <1>1, StepTaken DEF TypeInv
<1> QED
  BY <1>2, <1>3, <1>4, <1>5, DueKept

\* The new settlement is of the acceptances that the worker was asked to settle.
LEMMA LockSettlementIsDue ==
  ASSUME TypeInv, SettledIsDue, NEW w \in Worker, LockSettlement(w)
  PROVE  SettledIsDue'
<1>1. now' = now /\ now \in Nat /\ at[w].op = "settle"
  BY DEF LockSettlement, ether, TypeInv, TypeOK
<1>2. \A v \in Worker : at'[v] = at[v] \/ at'[v].op # "settle"
  <2>1. \E step : Step(w, step) /\ step.op # "settle"
    BY DEF LockSettlement, Idle
  <2> QED
    BY <2>1, StepTaken DEF TypeInv
<1>3. CASE UNCHANGED settlements
  BY <1>1, <1>2, <1>3, DueKept
<1>4. CASE ~ UNCHANGED settlements
  <2>1. PICK new \in Row, n \in Nat \ {0} : IsRowMade(w, new, n)
    BY <1>4, RowMade
  <2>2. /\ settlements'[n] = new /\ DOMAIN settlements' = DOMAIN settlements \union {n}
        /\ \A j \in DOMAIN settlements : settlements'[j] = settlements[j]
        /\ new.closure = YoungestTs(at[w].acceptances)
    BY <2>1 DEF IsRowMade
  <2>3. new.closure + PaymentDueTime <= now
    BY <1>1, <2>2 DEF SettledIsDue
  <2>4. \A j \in DOMAIN settlements' :
          \/ j \in DOMAIN settlements /\ settlements'[j].closure = settlements[j].closure
          \/ settlements'[j].closure + PaymentDueTime <= now'
    BY <1>1, <2>2, <2>3
  <2> QED
    BY <1>1, <1>2, <2>4, DueKept
<1> QED
  BY <1>3, <1>4

\* A hash is saved and nothing else.
LEMMA SaveSettlementIsDue ==
  ASSUME TypeInv, SettledIsDue, NEW w \in Worker, SaveSettlement(w)
  PROVE  SettledIsDue'
<1>1. PICK j, tx : j = at[w].row /\ tx = at[w].tx
  OBVIOUS
<1>2. /\ now' = now /\ now \in Nat /\ at[w].op = "save_settlement" /\ Step(w, Idle)
      /\ settlements' = [settlements EXCEPT ![j].tx = tx]
  BY <1>1 DEF SaveSettlement, ether, TypeInv, TypeOK
<1>3. j \in DOMAIN settlements
  BY <1>1, <1>2, SettlingRow
<1>4. /\ DOMAIN settlements' = DOMAIN settlements
      /\ settlements'[j] = [settlements[j] EXCEPT !.tx = tx]
      /\ \A k \in DOMAIN settlements : k # j => settlements'[k] = settlements[k]
  BY <1>2, <1>3, ListsAreTyped, Places DEF TypeInv
<1>5. settlements[j] \in Row
  BY <1>3, ListsAreTyped DEF TypeInv
<1>6. settlements'[j].closure = settlements[j].closure
  BY <1>4, <1>5 DEF Row
<1>7. \A v \in Worker : at'[v] = at[v] \/ at'[v].op # "settle"
  BY <1>2, StepTaken DEF TypeInv, Idle
<1> QED
  BY <1>2, <1>4, <1>6, <1>7, DueKept

\* Every step keeps SettledIsDue.
LEMMA DueStep ==
  ASSUME TypeInv, SettledIsDue, [Next]_vars
  PROVE  SettledIsDue'
<1>1. CASE UNCHANGED vars \/ Confirm \/ Tick \/ \E s \in Subtask : Transfer(s)
  BY <1>1, EnvironmentIsDue
<1>2. ASSUME NEW w \in Worker,
             \/ \E s \in Subtask, use \in UseCase : AskForDeposits(w, s, use)
             \/ CheckRequestor(w) \/ CheckProvider(w) \/ InsertClaims(w)
             \/ \E k \in ClaimKey : AskForPayersDeposit(w, k)
             \/ LockClaim(w) \/ PayClaim(w) \/ SaveClaim(w)
             \/ PaySettlement(w) \/ Abort(w)
      PROVE  SettledIsDue'
  BY <1>2, OtherStepsAreDue
<1>3. ASSUME NEW w \in Worker, NEW k \in ClaimKey, DiscardClaim(w, k) PROVE SettledIsDue'
  BY <1>3, EnvironmentIsDue
<1>4. ASSUME NEW w \in Worker, NEW A \in SUBSET Subtask, AskForSettledDeposit(w, A)
      PROVE  SettledIsDue'
  BY <1>4, AskForSettledDepositIsDue
<1>5. ASSUME NEW w \in Worker, LockSettlement(w) \/ SaveSettlement(w) PROVE SettledIsDue'
  BY <1>5, LockSettlementIsDue, SaveSettlementIsDue
<1> QED
  BY <1>1, <1>2, <1>3, <1>4, <1>5 DEF Next

\* A transfer in time is shown when the results it is for can be settled.
LEMMA TimelyIsShown ==
  ASSUME TypeInv, SettledIsDue, TransfersAreTimely
  PROVE  TransfersAreShown
<1> SUFFICES ASSUME NEW tr \in transfers, SettledUpTo(tr.subtask)
             PROVE  IsShown(tr.ts)
  BY DEF TransfersAreShown
<1>1. PICK j \in DOMAIN settlements : settlements[j].closure >= PaymentTs[tr.subtask]
  BY DEF SettledUpTo
<1>2. PICK c \in Nat, ts \in Nat, due \in Nat :
        c = settlements[j].closure /\ ts = tr.ts /\ due = PaymentTs[tr.subtask]
  BY ListsAreTyped, Constants DEF TypeInv, TypeOK, Row
<1>3. /\ c + PaymentDueTime <= now /\ c >= due
      /\ ts + ConfirmationTime <= due + PaymentDueTime
  BY <1>1, <1>2 DEF SettledIsDue, TransfersAreTimely
<1>4. now \in Nat /\ PaymentDueTime \in Nat /\ ConfirmationTime \in Nat
  BY Constants DEF TypeInv, TypeOK
<1>5. ts + ConfirmationTime <= now
  BY <1>3, <1>4
<1> QED
  BY <1>2, <1>5 DEF IsShown

\* As long as the requestors' transfers are deep enough when the results are due, no
\* settlement crosses one, whatever else happens: what ProvidersAreNotOverpaid assumes of the
\* transfers holds for requestors that pay in time (bankster.py, settle_overdue_acceptances,
\* and sci_backend.py, get_list_of_payments).
THEOREM TimelyTransfersAreShown == Spec => [](TransfersAreTimely => TransfersAreShown)
<1>1. Init => TypeInv /\ SettledIsDue
  <2>1. ASSUME Init PROVE SettledIsDue
    <3>1. DOMAIN settlements = {} /\ \A w \in Worker : at[w].op = "idle"
      BY <2>1 DEF Init, Idle
    <3> QED
      BY <3>1 DEF SettledIsDue
  <2> QED
    BY <2>1, TypeStart
<1>2. TypeInv /\ SettledIsDue /\ [Next]_vars => TypeInv' /\ SettledIsDue'
  BY TypeStep, DueStep
<1>3. TypeInv /\ SettledIsDue => (TransfersAreTimely => TransfersAreShown)
  BY TimelyIsShown
<1> QED
  BY <1>1, <1>2, <1>3, PTL DEF Spec

-----------------------------------------------------------------------------
(* A provider pays for the verification in full. *)

\* What the deposit held before the payments that are still in the table were confirmed.
Counted(a) == {i \in Confirmed : /\ chain[i].payer = a
                                 /\ chain[i].kind = "claim" => Exists(chain[i].key)}

Room(a) == deposit[a] + StillClaimed(a)

\* The deposit that finalize_payment() was told is not less than what there is.
FundsAreOld ==
  \A w \in Worker : at[w].op = "lock_claim" => deposit[PayerOf(at[w].key)] <= at[w].funds

\* Settlements are paid out of the deposits of requestors.
RequestorsSettle ==
  \A j \in DOMAIN settlements : \E s \in Subtask : settlements[j].payer = RequestorOf[s]

\* The claims against a provider are covered, and those about to be made too.
ClaimsAreCovered ==
  \A a \in Account : OnlyProvider(a) => SumOfExistingClaims(a) <= Room(a)

NewClaimsAreCovered ==
  \A w \in Worker, a \in Account :
    /\ at[w].op = "insert" /\ <<at[w].subtask, at[w].use, "provider">> \in NewClaims(at[w])
    /\ a = ProviderOf[at[w].subtask] /\ OnlyProvider(a)
    => ProviderObligations(a) <= Room(a)

ProviderInv == FundsAreOld /\ RequestorsSettle /\ ClaimsAreCovered /\ NewClaimsAreCovered

\* The amounts are numbers.
LEMMA RoomIsNumber ==
  ASSUME TypeOK, NEW a \in Account
  PROVE  /\ StillClaimed(a) = SumFunctionOnSet(Moved, Counted(a))
         /\ IsFiniteSet(Counted(a)) /\ \A i \in Counted(a) : Moved[i] \in Nat
         /\ StillClaimed(a) \in Nat /\ deposit[a] \in Nat /\ Room(a) \in Nat
         /\ SumOfExistingClaims(a) \in Nat
<1>1. StillClaimed(a) = SumFunctionOnSet(Moved, Counted(a))
  BY DEF StillClaimed, Counted
<1>2. Counted(a) \in SUBSET Confirmed
  BY DEF Counted
<1>3. deposit[a] \in Nat
  BY DEF TypeOK
<1>4. StillClaimed(a) \in Nat
  BY <1>1, <1>2, ClaimsAreNumbers
<1> QED
  BY <1>1, <1>2, <1>3, <1>4, ClaimsAreNumbers, ColumnsAreTyped DEF Room

\* No settlement is paid out of the deposit of one who is only a provider.
LEMMA NoSettlement ==
  ASSUME RequestorsSettle, NEW a, OnlyProvider(a)
  PROVE  /\ SettlementsOf(a) = {}
         /\ SumOfExistingClaims(a) = SumFunctionOnSet(Claimed, Against(a))
                                     + SumFunctionOnSet(Settled, {})
         /\ SumFunctionOnSet(Settled, {}) = 0
<1>1. SettlementsOf(a) = {}
  BY DEF SettlementsOf, RequestorsSettle, OnlyProvider
<1> QED
  BY <1>1, SumEmpty DEF SumOfExistingClaims

\* The claims against a provider that stay or go take no more than before.
LEMMA ObligationsShrink ==
  ASSUME TypeOK, RequestorsSettle, RequestorsSettle', NEW a \in Account, OnlyProvider(a),
         \A k \in Against(a)' : /\ k \in Against(a) /\ claims'[k].amount \in Nat
                                /\ claims'[k].amount <= claims[k].amount
  PROVE  /\ SumOfExistingClaims(a)' \in Nat
         /\ SumOfExistingClaims(a)' <= SumOfExistingClaims(a)
<1>1. PICK K, c, f, n : /\ K = Against(a)' /\ c = Claimed' /\ f = Settled'
                        /\ n = SumOfExistingClaims(a)'
  OBVIOUS
<1>2. n = SumFunctionOnSet(c, K)
  <2>1. SettlementsOf(a)' = {}
    BY DEF SettlementsOf, RequestorsSettle, OnlyProvider
  <2>2. n = SumFunctionOnSet(c, K) + SumFunctionOnSet(f, {})
    BY <1>1, <2>1 DEF SumOfExistingClaims
  <2>3. SumFunctionOnSet(f, {}) = 0
    BY SumEmpty
  <2>4. \A k \in K : c[k] \in Nat
    BY <1>1 DEF Claimed, Against
  <2>5. IsFiniteSet(K)
    <3>1. K \in SUBSET ClaimKey
      BY <1>1 DEF Against
    <3> QED
      BY <3>1, ClaimsAreNumbers
  <2>6. SumFunctionOnSet(c, K) \in Nat
    BY <2>4, <2>5, SumNat
  <2> QED
    BY <2>2, <2>3, <2>6
<1>3. K \in SUBSET Against(a) /\ Against(a) \in SUBSET ClaimKey /\ K \in SUBSET ClaimKey
  BY <1>1 DEF Against
<1>4. /\ IsFiniteSet(K) /\ IsFiniteSet(Against(a)) /\ SumFunctionOnSet(Claimed, K) \in Nat
      /\ SumFunctionOnSet(Claimed, Against(a)) \in Nat
  BY <1>3, ClaimsAreNumbers
<1>5. \A k \in K : c[k] \in Int /\ c[k] \in Nat /\ Claimed[k] \in Int /\ c[k] <= Claimed[k]
  <2>1. \A k \in K : c[k] = claims'[k].amount /\ c[k] \in Nat /\ c[k] <= claims[k].amount
    BY <1>1, <1>3 DEF Claimed
  <2>2. \A k \in K : Claimed[k] = claims[k].amount /\ Claimed[k] \in Nat
    BY <1>3, ColumnsAreTyped
  <2> QED
    BY <2>1, <2>2
<1>6. \A k \in Against(a) : Claimed[k] \in Nat
  BY <1>3, ColumnsAreTyped
<1>7. SumFunctionOnSet(c, K) <= SumFunctionOnSet(Claimed, K)
  BY <1>4, <1>5, SumMonotone
<1>8. SumFunctionOnSet(Claimed, K) <= SumFunctionOnSet(Claimed, Against(a))
  BY <1>3, <1>4, <1>6, SumSubset
<1>9. SumFunctionOnSet(c, K) \in Nat
  BY <1>4, <1>5, SumNat
<1>10. SumOfExistingClaims(a) = SumFunctionOnSet(Claimed, Against(a))
  BY <1>4, NoSettlement
<1> QED
  BY <1>1, <1>2, <1>4, <1>7, <1>8, <1>9, <1>10

\* The room stays as long as no claim that is paid goes.
LEMMA RoomStays ==
  ASSUME TypeOK, TypeOK', NEW a \in Account, deposit'[a] = deposit[a],
         \A i \in Confirmed : i \in Confirmed' /\ blocks'[i] = blocks[i],
         \A i \in Counted(a) :
           /\ chain'[i] = chain[i]
           /\ chain[i].kind = "claim" => Exists(chain[i].key)'
  PROVE  Room(a)' \in Nat /\ Room(a) <= Room(a)'
<1>1. PICK C, m : C = Counted(a)' /\ m = Moved'
  OBVIOUS
<1>2. Counted(a) \in SUBSET C
  BY <1>1 DEF Counted
<1>3. C \in SUBSET Confirmed' /\ Counted(a) \in SUBSET Confirmed
  BY <1>1 DEF Counted
<1>4. IsFiniteSet(C) /\ \A i \in C : m[i] \in Nat /\ m[i] = blocks'[i].moved
  <2>1. blocks' \in Seq(Block)
    BY DEF TypeOK, Block
  <2>2. IsFiniteSet(DOMAIN blocks') /\ \A i \in DOMAIN blocks' : blocks'[i] \in Block
    BY <2>1, Places
  <2> QED
    BY <1>1, <1>3, <2>2, FS_Subset DEF Block, Confirmed, Moved
<1>5. IsFiniteSet(Counted(a)) /\ \A i \in Counted(a) : Moved[i] \in Nat /\ m[i] = Moved[i]
  <2>1. \A i \in Counted(a) : Moved[i] = blocks[i].moved
    BY <1>3 DEF Moved, Confirmed
  <2> QED
    BY <1>2, <1>3, <1>4, <2>1, RoomIsNumber
<1>6. /\ SumFunctionOnSet(m, C) \in Nat
      /\ SumFunctionOnSet(m, Counted(a)) <= SumFunctionOnSet(m, C)
  BY <1>2, <1>4, SumNat, SumSubset
<1>7. SumFunctionOnSet(Moved, Counted(a)) = SumFunctionOnSet(m, Counted(a))
  <2>1. \A i \in Counted(a) : Moved[i] \in Int /\ m[i] = Moved[i]
    BY <1>5
  <2> QED
    BY <1>5, <2>1, SumEqual
<1>8. StillClaimed(a)' = SumFunctionOnSet(m, C)
  BY <1>1 DEF StillClaimed, Counted
<1>9. Room(a)' = deposit[a] + SumFunctionOnSet(m, C)
  BY <1>8 DEF Room
<1>10. Room(a) = deposit[a] + SumFunctionOnSet(m, Counted(a)) /\ deposit[a] \in Nat
       /\ SumFunctionOnSet(m, Counted(a)) \in Nat
  BY <1>7, RoomIsNumber DEF Room
<1> QED
  BY <1>6, <1>9, <1>10

\* Who is told a deposit to pay from, and who is about to make claims, was not before.
LEMMA NewSteps ==
  ASSUME TypeOK, [Next]_vars, NEW v \in Worker, at'[v] # at[v]
  PROVE  /\ at'[v].op = "lock_claim" => \E k \in ClaimKey : AskForPayersDeposit(v, k)
         /\ at'[v].op = "insert" => CheckRequestor(v) \/ CheckProvider(v)
<1>1. \A w \in Worker : \A step : Step(w, step) => v = w /\ at'[v] = step
  BY StepTaken
<1>2. ASSUME NEW w \in Worker, NEW s \in Subtask, NEW use \in UseCase, AskForDeposits(w, s, use)
      PROVE  at'[v].op \notin {"lock_claim", "insert"}
  BY <1>1, <1>2 DEF AskForDeposits
<1>3. ASSUME NEW w \in Worker, CheckRequestor(w)
      PROVE  at'[v].op # "lock_claim" /\ v = w
  BY <1>1, <1>3 DEF CheckRequestor, Idle
<1>4. ASSUME NEW w \in Worker, CheckProvider(w)
      PROVE  at'[v].op # "lock_claim" /\ v = w
  BY <1>1, <1>4 DEF CheckProvider, Idle
<1>5. ASSUME NEW w \in Worker,
             InsertClaims(w) \/ SaveClaim(w) \/ SaveSettlement(w) \/ Abort(w)
      PROVE  at'[v].op \notin {"lock_claim", "insert"}
  BY <1>1, <1>5 DEF InsertClaims, SaveClaim, SaveSettlement, Abort, Idle
<1>6. ASSUME NEW w \in Worker, NEW k \in ClaimKey, AskForPayersDeposit(w, k)
      PROVE  at'[v].op # "insert" /\ v = w
  BY <1>1, <1>6 DEF AskForPayersDeposit
<1>7. ASSUME NEW w \in Worker, LockClaim(w) \/ PayClaim(w)
      PROVE  at'[v].op \notin {"lock_claim", "insert"}
  BY <1>1, <1>7 DEF LockClaim, PayClaim, Idle
<1>8. ASSUME NEW w \in Worker, NEW A \in SUBSET Subtask, AskForSettledDeposit(w, A)
      PROVE  at'[v].op \notin {"lock_claim", "insert"}
  BY <1>1, <1>8 DEF AskForSettledDeposit
<1>9. ASSUME NEW w \in Worker, LockSettlement(w) \/ PaySettlement(w)
      PROVE  at'[v].op \notin {"lock_claim", "insert"}
  BY <1>1, <1>9 DEF LockSettlement, PaySettlement, Idle
<1>10. ~ (Confirm \/ Tick \/ UNCHANGED vars) /\ \A s \in Subtask : ~ Transfer(s)
  BY DEF Confirm, Tick, Transfer, vars
<1>11. \A w \in Worker, k \in ClaimKey : ~ DiscardClaim(w, k)
  BY DEF DiscardClaim
<1> QED
  BY <1>2, <1>3, <1>4, <1>5, <1>6, <1>7, <1>8, <1>9, <1>10, <1>11 DEF Next

\* The deposits only go down.
LEMMA FundsStep ==
  ASSUME Ledger, FundsAreOld, [Next]_vars
  PROVE  FundsAreOld'
<1>0. TypeOK /\ TypeInv /\ Ready
  BY DEF Ledger, Ready, TypeInv
<1>1. \A a \in Account : deposit'[a] <= deposit[a] /\ deposit[a] \in Nat /\ deposit'[a] \in Int
  <2>1. CASE UNCHANGED deposit
    BY <1>0, <2>1 DEF TypeOK
  <2>2. CASE Confirm
    <3>1. PICK p, n, m : p = chain[n].payer /\ n = Len(blocks) + 1 /\ m = blocks'[n].moved
      OBVIOUS
    <3>2. /\ p \in Account /\ chain[n].amount \in Nat /\ deposit[p] \in Nat
          /\ m = IF chain[n].amount <= deposit[p] THEN chain[n].amount ELSE deposit[p]
          /\ deposit' = [deposit EXCEPT ![p] = @ - m]
      BY <1>0, <2>2, <3>1, BlockMined
    <3>3. m \in Nat
      BY <3>2
    <3>4. \A a \in Account : deposit'[a] = IF a = p THEN deposit[a] - m ELSE deposit[a]
      BY <1>0, <3>2 DEF TypeOK
    <3> QED
      BY <1>0, <3>3, <3>4 DEF TypeOK
  <2>3. UNCHANGED deposit \/ Confirm
    BY DEF Next, vars, ether, AskForDeposits, CheckRequestor, CheckProvider, InsertClaims,
           AskForPayersDeposit, DiscardClaim, LockClaim, PayClaim, SaveClaim,
           AskForSettledDeposit, LockSettlement, PaySettlement, SaveSettlement, Abort,
           Transfer, Tick
  <2> QED
    BY <2>1, <2>2, <2>3
<1>2. ASSUME NEW v \in Worker, at'[v].op = "lock_claim"
      PROVE  /\ at'[v].key \in ClaimKey /\ at'[v].funds \in Nat
             /\ deposit[PayerOf(at'[v].key)] <= at'[v].funds
  <2>1. CASE at'[v] = at[v]
    <3>1. at[v] \in StepRecord
      BY <1>0 DEF TypeOK
    <3>2. at[v].key \in ClaimKey /\ at[v].funds \in Nat
      BY <1>2, <2>1, <3>1, StepFields
    <3> QED
      BY <1>2, <2>1, <3>2 DEF FundsAreOld
  <2>2. CASE at'[v] # at[v]
    <3>1. PICK k \in ClaimKey : AskForPayersDeposit(v, k)
      BY <1>0, <1>2, <2>2, NewSteps
    <3>2. Step(v, [op |-> "lock_claim", key |-> k, funds |-> deposit[PayerOf(k)]])
      BY <3>1 DEF AskForPayersDeposit
    <3>3. at'[v] = [op |-> "lock_claim", key |-> k, funds |-> deposit[PayerOf(k)]]
      BY <1>0, <3>2, StepTaken
    <3>4. at'[v].key = k /\ at'[v].funds = deposit[PayerOf(k)]
      BY <3>3
    <3>5. deposit[PayerOf(k)] \in Nat
      BY <1>1, Constants
    <3> QED
      BY <3>4, <3>5
  <2> QED
    BY <2>1, <2>2
<1> SUFFICES ASSUME NEW v \in Worker, at'[v].op = "lock_claim"
             PROVE  deposit'[PayerOf(at'[v].key)] <= at'[v].funds
  BY DEF FundsAreOld, PayerOf
<1>3. PICK a \in Account, f \in Nat : a = PayerOf(at'[v].key) /\ f = at'[v].funds
  BY <1>2, Constants
<1>4. deposit[a] <= f /\ deposit'[a] <= deposit[a] /\ deposit[a] \in Nat /\ deposit'[a] \in Int
  BY <1>1, <1>2, <1>3
<1> QED
  BY <1>3, <1>4

\* A settlement is asked for with the acceptances of a requestor.
LEMMA RequestorsSettleStep ==
  ASSUME Ledger, RequestorsSettle, [Next]_vars
  PROVE  RequestorsSettle'
<1>0. TypeOK /\ TypeInv /\ Ready
  BY DEF Ledger, Ready, TypeInv
<1>1. CASE UNCHANGED settlements
  BY <1>1 DEF RequestorsSettle
<1>2. ASSUME NEW w \in Worker, LockSettlement(w), ~ UNCHANGED settlements
      PROVE  RequestorsSettle'
  <2>1. PICK new \in Row, n \in Nat \ {0} : IsRowMade(w, new, n)
    BY <1>0, <1>2, RowMade
  <2>2. /\ settlements'[n] = new /\ DOMAIN settlements' = DOMAIN settlements \union {n}
        /\ \A j \in DOMAIN settlements : settlements'[j] = settlements[j]
        /\ <<new.payer, new.payee>> = at[w].pair
    BY <2>1 DEF IsRowMade
  <2>3. PICK s \in Subtask : Pair(s) = at[w].pair
    <3>1. at[w].op = "settle" /\ at[w].acceptances # {} /\ at[w].acceptances \in SUBSET Subtask
      BY <1>0, <1>2, RowMade
    <3> QED
      BY <1>0, <3>1 DEF TypeInv
  <2>4. new.payer = RequestorOf[s]
    BY <2>2, <2>3 DEF Pair
  <2> QED
    BY <2>2, <2>4 DEF RequestorsSettle
<1>3. ASSUME NEW w \in Worker, SaveSettlement(w)
      PROVE  RequestorsSettle'
  <2>1. PICK j, tx : j = at[w].row /\ tx = at[w].tx
    OBVIOUS
  <2>2. at[w].op = "save_settlement" /\ settlements' = [settlements EXCEPT ![j].tx = tx]
    BY <1>3, <2>1 DEF SaveSettlement
  <2>3. j \in DOMAIN settlements
    BY <1>0, <2>1, <2>2, SettlingRow
  <2>4. /\ DOMAIN settlements' = DOMAIN settlements
        /\ settlements'[j] = [settlements[j] EXCEPT !.tx = tx]
        /\ \A k \in DOMAIN settlements : k # j => settlements'[k] = settlements[k]
    BY <1>0, <2>2, <2>3, ListsAreTyped, Places
  <2>5. settlements[j] \in Row
    BY <1>0, <2>3, ListsAreTyped
  <2>6. settlements'[j].payer = settlements[j].payer
    BY <2>4, <2>5 DEF Row
  <2> QED
    BY <2>4, <2>6 DEF RequestorsSettle
<1>4. UNCHANGED settlements \/ \E w \in Worker : LockSettlement(w) \/ SaveSettlement(w)
  BY DEF Next, vars, table, AskForDeposits, CheckRequestor, CheckProvider, InsertClaims,
         AskForPayersDeposit, DiscardClaim, LockClaim, PayClaim, SaveClaim,
         AskForSettledDeposit, PaySettlement, Abort, Transfer, Tick, Confirm
<1> QED
  BY <1>1, <1>2, <1>3, <1>4

\* What is left for a provider after a step in which its claims do not grow.
LEMMA StillFits ==
  ASSUME TypeOK, ClaimsAreCovered, NEW a \in Account, OnlyProvider(a),
         SumOfExistingClaims(a)' \in Nat, SumOfExistingClaims(a)' <= SumOfExistingClaims(a),
         Room(a)' \in Nat, Room(a) <= Room(a)'
  PROVE  /\ SumOfExistingClaims(a)' <= Room(a)'
         /\ SumOfExistingClaims(a)' = SumOfExistingClaims(a) => Room(a) <= Room(a)'
<1>1. SumOfExistingClaims(a) \in Nat /\ Room(a) \in Nat
      /\ SumOfExistingClaims(a) <= Room(a)
  BY RoomIsNumber DEF ClaimsAreCovered
<1> QED
  BY <1>1

\* A claim that keeps its place takes what it took.
LEMMA SameClaims ==
  ASSUME TypeOK, NEW a, \A k \in ClaimKey : claims'[k] = claims[k]
  PROVE  \A k \in Against(a)' : /\ k \in Against(a) /\ claims'[k].amount \in Nat
                                /\ claims'[k].amount <= claims[k].amount
<1>1. \A k \in ClaimKey : claims[k].amount \in Nat /\ claims[k].amount <= claims[k].amount
  BY ColumnsAreTyped
<1> QED
  BY <1>1 DEF Against, Exists, PayerOf

\* Neither the claims nor the deposits nor what was confirmed change.
LEMMA SameClaimsFit ==
  ASSUME Ledger, Ledger', ProviderInv, RequestorsSettle', NEW a \in Account, OnlyProvider(a),
         UNCHANGED <<claims, deposit, blocks>>,
         \A i \in Confirmed : chain'[i] = chain[i]
  PROVE  /\ SumOfExistingClaims(a)' <= Room(a)'
         /\ SumOfExistingClaims(a)' = SumOfExistingClaims(a) => Room(a) <= Room(a)'
<1>0. TypeOK /\ TypeOK'
  BY DEF Ledger, Ready, TypeInv
<1>1. \A k \in Against(a)' : /\ k \in Against(a) /\ claims'[k].amount \in Nat
                             /\ claims'[k].amount <= claims[k].amount
  BY <1>0, SameClaims
<1>2. SumOfExistingClaims(a)' \in Nat /\ SumOfExistingClaims(a)' <= SumOfExistingClaims(a)
  BY <1>0, <1>1, ObligationsShrink DEF ProviderInv
<1>3. Room(a)' \in Nat /\ Room(a) <= Room(a)'
  <2>1. \A i \in Confirmed : i \in Confirmed' /\ blocks'[i] = blocks[i]
    BY DEF Confirmed
  <2>2. \A i \in Counted(a) : /\ chain'[i] = chain[i]
                              /\ chain[i].kind = "claim" => Exists(chain[i].key)'
    BY DEF Counted, Exists
  <2> QED
    BY <1>0, <2>1, <2>2, RoomStays
<1> QED
  BY <1>0, <1>2, <1>3, StillFits DEF ProviderInv

\* The steps that change neither a claim nor a block.
LEMMA QuietFits ==
  ASSUME Ledger, Ledger', ProviderInv, RequestorsSettle', NEW a \in Account, OnlyProvider(a),
         \/ UNCHANGED vars \/ Tick \/ \E s \in Subtask : Transfer(s)
         \/ \E w \in Worker :
              \/ \E s \in Subtask, use \in UseCase : AskForDeposits(w, s, use)
              \/ CheckRequestor(w) \/ CheckProvider(w)
              \/ \E k \in ClaimKey : AskForPayersDeposit(w, k)
              \/ PayClaim(w)
              \/ \E acceptances \in SUBSET Subtask : AskForSettledDeposit(w, acceptances)
              \/ LockSettlement(w) \/ PaySettlement(w) \/ SaveSettlement(w)
              \/ Abort(w)
  PROVE  /\ SumOfExistingClaims(a)' <= Room(a)'
         /\ SumOfExistingClaims(a)' = SumOfExistingClaims(a) => Room(a) <= Room(a)'
<1>0. TypeOK /\ TypeInv /\ TypeOK'
  BY DEF Ledger, Ready, TypeInv
<1>1. UNCHANGED <<claims, deposit, blocks>>
  BY DEF vars, table, ether, Tick, Transfer, AskForDeposits, CheckRequestor, CheckProvider,
         AskForPayersDeposit, PayClaim, AskForSettledDeposit, LockSettlement, PaySettlement,
         SaveSettlement, Abort
<1>2. \A i \in DOMAIN chain : chain'[i] = chain[i]
  <2>1. ASSUME NEW w \in Worker, PayClaim(w)
        PROVE  \A i \in DOMAIN chain : chain'[i] = chain[i]
    BY <1>0, <2>1, ClaimIsTx, PaymentSent
  <2>2. ASSUME NEW w \in Worker, PaySettlement(w)
        PROVE  \A i \in DOMAIN chain : chain'[i] = chain[i]
    BY <1>0, <2>2, SettlementIsTx, PaymentSent
  <2>3. UNCHANGED chain \/ \E w \in Worker : PayClaim(w) \/ PaySettlement(w)
    BY DEF vars, table, ether, Tick, Transfer, AskForDeposits, CheckRequestor, CheckProvider,
           AskForPayersDeposit, AskForSettledDeposit, LockSettlement, SaveSettlement, Abort
  <2> QED
    BY <2>1, <2>2, <2>3
<1>3. Confirmed \subseteq DOMAIN chain
  BY DEF Ledger, SettlementLedger
<1> QED
  BY <1>1, <1>2, <1>3, SameClaimsFit

\* finalize_payment() gives up or lowers a claim that is not paid.
LEMMA LockClaimFits ==
  ASSUME Ledger, Ledger', ProviderInv, RequestorsSettle', NEW a \in Account, OnlyProvider(a),
         NEW w \in Worker, LockClaim(w)
  PROVE  /\ SumOfExistingClaims(a)' <= Room(a)'
         /\ SumOfExistingClaims(a)' = SumOfExistingClaims(a) => Room(a) <= Room(a)'
<1>0. TypeOK /\ TypeInv /\ TypeOK' /\ Ready
  BY DEF Ledger, Ready, TypeInv
<1>1. PICK k, available : k = at[w].key /\ available = AvailableFunds(k, at[w].funds)
  OBVIOUS
<1>2. /\ at[w].op = "lock_claim" /\ UNCHANGED <<chain, blocks, deposit>>
      /\ \/ claims' = [claims EXCEPT ![k] = NoClaim]
         \/ claims' = [claims EXCEPT ![k].amount = IF available < @ THEN available ELSE @]
  BY <1>1 DEF LockClaim, ether
<1>3. k \in ClaimKey /\ Exists(k) /\ PaymentsOf(k) = {}
  BY <1>0, <1>1, <1>2, FinalizingKey DEF IsFinalizing, Ledger, ClaimLedger
<1>4. \A j \in ClaimKey : j # k => claims'[j] = claims[j]
  BY <1>0, <1>2, <1>3 DEF TypeOK
<1>5. claims'[k] = NoClaim \/ (claims'[k].amount \in Nat /\ claims'[k].amount <= claims[k].amount)
  <2>1. claims[k] \in Claim /\ claims'[k] \in Claim
    BY <1>0, <1>3 DEF TypeOK
  <2>2. PICK n \in Nat, tx \in Nat : claims[k] = [amount |-> n, tx |-> tx]
    BY <2>1 DEF Claim
  <2>3. CASE claims' = [claims EXCEPT ![k] = NoClaim]
    BY <1>0, <1>3, <2>3 DEF TypeOK
  <2>4. CASE claims' = [claims EXCEPT ![k].amount = IF available < @ THEN available ELSE @]
    <3>1. claims'[k].amount = IF available < n THEN available ELSE n
      BY <1>0, <1>3, <2>2, <2>4 DEF TypeOK
    <3>2. claims'[k].amount \in Nat
      BY <2>1 DEF Claim
    <3> QED
      BY <2>2, <3>1, <3>2
  <2> QED
    BY <1>2, <2>3, <2>4
<1>6. \A j \in Against(a)' : /\ j \in Against(a) /\ claims'[j].amount \in Nat
                             /\ claims'[j].amount <= claims[j].amount
  <2>1. \A j \in ClaimKey : claims[j].amount \in Nat /\ claims[j].amount <= claims[j].amount
    BY <1>0, ColumnsAreTyped
  <2> QED
    BY <1>3, <1>4, <1>5, <2>1 DEF Against, Exists, PayerOf
<1>7. SumOfExistingClaims(a)' \in Nat /\ SumOfExistingClaims(a)' <= SumOfExistingClaims(a)
  BY <1>0, <1>6, ObligationsShrink DEF ProviderInv
<1>8. Room(a)' \in Nat /\ Room(a) <= Room(a)'
  <2>1. \A i \in Confirmed : i \in Confirmed' /\ blocks'[i] = blocks[i]
    BY <1>2 DEF Confirmed
  <2>2. ASSUME NEW i \in Counted(a), chain[i].kind = "claim"
        PROVE  Exists(chain[i].key)'
    <3>1. i \in DOMAIN chain /\ Exists(chain[i].key)
      BY <2>2 DEF Counted, Ledger, SettlementLedger
    <3>2. chain[i].key \in ClaimKey
      BY <1>0, <2>2, <3>1, ListsAreTyped DEF Tx
    <3>3. chain[i].key # k
      BY <1>3, <2>2, <3>1 DEF PaymentsOf
    <3> QED
      BY <1>2, <1>4, <3>1, <3>2, <3>3 DEF Exists
  <2> QED
    BY <1>0, <1>2, <2>1, <2>2, RoomStays
<1> QED
  BY <1>0, <1>7, <1>8, StillFits DEF ProviderInv

\* The hash of a transaction changes no amount.
LEMMA SaveClaimFits ==
  ASSUME Ledger, Ledger', ProviderInv, RequestorsSettle', NEW a \in Account, OnlyProvider(a),
         NEW w \in Worker, SaveClaim(w)
  PROVE  /\ SumOfExistingClaims(a)' <= Room(a)'
         /\ SumOfExistingClaims(a)' = SumOfExistingClaims(a) => Room(a) <= Room(a)'
<1>0. TypeOK /\ TypeInv /\ TypeOK' /\ Ready
  BY DEF Ledger, Ready, TypeInv
<1>1. PICK k, tx : k = at[w].key /\ tx = at[w].tx
  OBVIOUS
<1>2. /\ at[w].op = "save_claim" /\ UNCHANGED <<chain, blocks, deposit>>
      /\ claims' = [claims EXCEPT ![k].tx = tx]
  BY <1>1 DEF SaveClaim, ether
<1>3. k \in ClaimKey /\ Exists(k) /\ tx # NULL
  BY <1>0, <1>1, <1>2, FinalizingKey
     DEF IsFinalizing, Ready, Inv, FinalizedIsOpen, NULL
<1>4. \A j \in ClaimKey : j # k => claims'[j] = claims[j]
  BY <1>0, <1>2, <1>3 DEF TypeOK
<1>5. claims[k] \in Claim /\ claims'[k] \in Claim
  BY <1>0, <1>3 DEF TypeOK
<1>6. claims'[k].amount = claims[k].amount /\ claims'[k].tx = tx
  <2>1. PICK n \in Nat, m \in Nat : claims[k] = [amount |-> n, tx |-> m]
    BY <1>5 DEF Claim
  <2> QED
    BY <1>0, <1>2, <1>3, <2>1 DEF TypeOK
<1>7. \A j \in ClaimKey : Exists(j)' <=> Exists(j)
  BY <1>3, <1>4, <1>6 DEF Exists, NoClaim
<1>8. \A j \in Against(a)' : /\ j \in Against(a) /\ claims'[j].amount \in Nat
                             /\ claims'[j].amount <= claims[j].amount
  <2>1. \A j \in ClaimKey : claims[j].amount \in Nat /\ claims[j].amount <= claims[j].amount
    BY <1>0, ColumnsAreTyped
  <2> QED
    BY <1>4, <1>6, <1>7, <2>1 DEF Against, PayerOf
<1>9. SumOfExistingClaims(a)' \in Nat /\ SumOfExistingClaims(a)' <= SumOfExistingClaims(a)
  BY <1>0, <1>8, ObligationsShrink DEF ProviderInv
<1>10. Room(a)' \in Nat /\ Room(a) <= Room(a)'
  <2>1. \A i \in Confirmed : i \in Confirmed' /\ blocks'[i] = blocks[i]
    BY <1>2 DEF Confirmed
  <2>2. ASSUME NEW i \in Counted(a), chain[i].kind = "claim"
        PROVE  Exists(chain[i].key)'
    <3>1. i \in DOMAIN chain /\ Exists(chain[i].key)
      BY <2>2 DEF Counted, Ledger, SettlementLedger
    <3>2. chain[i].key \in ClaimKey
      BY <1>0, <2>2, <3>1, ListsAreTyped DEF Tx
    <3>3. PICK j \in ClaimKey : j = chain[i].key
      BY <3>2
    <3>4. Exists(j)' /\ chain'[i].key = j
      BY <1>2, <1>7, <3>1, <3>3
    <3> QED
      BY <3>4 DEF Exists
  <2> QED
    BY <1>0, <1>2, <2>1, <2>2, RoomStays
<1> QED
  BY <1>0, <1>9, <1>10, StillFits DEF ProviderInv

\* claim_deposit() adds the provider's claim, which its check left room for.
LEMMA InsertClaimsFit ==
  ASSUME Ledger, Ledger', ProviderInv, RequestorsSettle', NEW a \in Account, OnlyProvider(a),
         NEW w \in Worker, InsertClaims(w)
  PROVE  /\ SumOfExistingClaims(a)' <= Room(a)'
         /\ SumOfExistingClaims(a)' = SumOfExistingClaims(a) => Room(a) <= Room(a)'
<1>0. TypeOK /\ TypeInv /\ TypeOK'
  BY DEF Ledger, Ready, TypeInv
<1>1. PICK s, use, new : s = at[w].subtask /\ use = at[w].use /\ new = NewClaims(at[w])
  OBVIOUS
<1>2. s \in Subtask /\ use \in UseCase /\ at[w].op = "insert"
      /\ UNCHANGED <<deposit, chain, blocks, settlements>>
  <2>1. at[w] \in StepRecord
    BY <1>0 DEF TypeOK
  <2> QED
    BY <1>1, <2>1, StepFields DEF InsertClaims, ether
<1>3. CASE \E k \in new : Exists(k)
  <2>1. UNCHANGED claims
    BY <1>1, <1>3 DEF InsertClaims
  <2> QED
    BY <1>2, <2>1, SameClaimsFit
<1>4. CASE ~ \E k \in new : Exists(k)
  <2>1. \A k \in ClaimKey :
          claims'[k] = IF k \in new THEN [amount |-> AmountOf(k), tx |-> NULL] ELSE claims[k]
    BY <1>1, <1>4 DEF InsertClaims
  <2>2. Room(a)' \in Nat /\ Room(a) <= Room(a)'
    <3>1. \A i \in Confirmed : i \in Confirmed' /\ blocks'[i] = blocks[i]
      BY <1>2 DEF Confirmed
    <3>2. ASSUME NEW i \in Counted(a), chain[i].kind = "claim"
          PROVE  Exists(chain[i].key)'
      <4>1. i \in DOMAIN chain /\ Exists(chain[i].key)
        BY <3>2 DEF Counted, Ledger, SettlementLedger
      <4>2. PICK j \in ClaimKey : j = chain[i].key
        BY <1>0, <3>2, <4>1, ListsAreTyped DEF Tx
      <4>3. j \notin new
        BY <1>4, <4>1, <4>2
      <4> QED
        BY <1>2, <2>1, <4>1, <4>2, <4>3 DEF Exists
    <3> QED
      BY <1>0, <1>2, <3>1, <3>2, RoomStays
  <2> DEFINE pk == <<s, use, "provider">>
  <2>3. \A k \in new : k = <<s, use, "requestor">> \/ k = pk
    BY <1>1 DEF NewClaims, ClaimsOf
  <2>4. RequestorOf[s] # a
    BY <1>2 DEF OnlyProvider
  <2>5. pk \in ClaimKey /\ PayerOf(pk) = ProviderOf[s] /\ AmountOf(pk) = VerificationCost
        /\ PayerOf(<<s, use, "requestor">>) = RequestorOf[s]
    BY <1>2 DEF ClaimKey, Payer, PayerOf, AmountOf
  <2>6. \A k \in ClaimKey : claims[k].amount \in Nat /\ claims[k].amount <= claims[k].amount
    BY <1>0, ColumnsAreTyped
  <2> HIDE DEF pk
  <2>7. CASE pk \in new /\ ProviderOf[s] = a
    <3>1. ProviderObligations(a) <= Room(a)
      BY <1>1, <1>2, <2>7 DEF ProviderInv, NewClaimsAreCovered, pk
    <3>2. PICK K, c, f : K = Against(a)' /\ c = Claimed' /\ f = Settled'
      OBVIOUS
    <3>3. K \in SUBSET (Against(a) \union {pk})
      <4>1. \A k \in ClaimKey : k \in K => Exists(k)' /\ PayerOf(k) = a
        BY <3>2 DEF Against, PayerOf
      <4>2. K \subseteq ClaimKey
        BY <3>2 DEF Against
      <4> QED
        BY <2>1, <2>3, <2>4, <2>5, <4>1, <4>2 DEF Against, Exists
    <3>4. c = [k \in ClaimKey |-> claims'[k].amount]
      BY <3>2 DEF Claimed
    <3>5. c[pk] = VerificationCost /\ c[pk] \in Nat
      <4>1. claims'[pk] = [amount |-> VerificationCost, tx |-> NULL]
        BY <2>1, <2>5, <2>7
      <4>2. c[pk] = claims'[pk].amount
        BY <2>5, <3>4
      <4> QED
        BY <4>1, <4>2, Constants
    <3>6. \A k \in K : k # pk => c[k] = Claimed[k]
      <4>1. \A k \in Against(a) : k # pk => k \notin new
        BY <2>3, <2>4, <2>5 DEF Against
      <4>2. \A k \in Against(a) : k \in ClaimKey
        BY DEF Against
      <4> QED
        BY <2>1, <3>3, <3>4, <4>1, <4>2 DEF Claimed
    <3>0. Against(a) \in SUBSET ClaimKey
      BY DEF Against
    <3>7. IsFiniteSet(Against(a)) /\ \A k \in Against(a) : Claimed[k] \in Nat
      BY <1>0, <3>0, ClaimsAreNumbers, ColumnsAreTyped
    <3>13. SumFunctionOnSet(Claimed, Against(a)) \in Nat
      BY <1>0, <3>0, ClaimsAreNumbers
    <3>8. /\ SumFunctionOnSet(c, K) \in Nat
          /\ SumFunctionOnSet(c, K) <= SumFunctionOnSet(Claimed, Against(a)) + c[pk]
      BY <3>3, <3>5, <3>6, <3>7, SumGrows
    <3>9. SumOfExistingClaims(a) = SumFunctionOnSet(Claimed, Against(a))
      <4>1. /\ SumOfExistingClaims(a) = SumFunctionOnSet(Claimed, Against(a))
                                       + SumFunctionOnSet(Settled, {})
            /\ SumFunctionOnSet(Settled, {}) = 0
        BY NoSettlement DEF ProviderInv
      <4> QED
        BY <3>13, <4>1
    <3>10. SumOfExistingClaims(a)' = SumFunctionOnSet(c, K)
      <4>1. SettlementsOf(a)' = {}
        BY DEF SettlementsOf, RequestorsSettle, OnlyProvider
      <4>2. SumFunctionOnSet(f, {}) = 0
        BY SumEmpty
      <4>3. SumOfExistingClaims(a)' = SumFunctionOnSet(c, K) + SumFunctionOnSet(f, {})
        BY <3>2, <4>1 DEF SumOfExistingClaims
      <4> QED
        BY <3>8, <4>2, <4>3
    <3>11. SumOfExistingClaims(a)' <= Room(a)
      <4>1. Room(a) \in Nat
        BY <1>0, RoomIsNumber
      <4>2. SumFunctionOnSet(Claimed, Against(a)) + VerificationCost <= Room(a)
        BY <3>1, <3>9 DEF ProviderObligations
      <4>4. SumFunctionOnSet(c, K)
              <= SumFunctionOnSet(Claimed, Against(a)) + VerificationCost
        BY <3>5, <3>8
      <4>5. SumFunctionOnSet(c, K) <= Room(a)
        BY <3>8, <3>13, <4>1, <4>2, <4>4, Constants
      <4> QED
        BY <3>10, <4>5
    <3>12. Room(a) \in Nat /\ SumOfExistingClaims(a)' \in Nat
      BY <1>0, <3>8, <3>10, RoomIsNumber
    <3> QED
      BY <2>2, <3>11, <3>12
  <2>8. CASE ~ (pk \in new /\ ProviderOf[s] = a)
    <3>1. \A k \in new : PayerOf(k) # a
      BY <2>3, <2>4, <2>5, <2>8
    <3>2. \A k \in Against(a)' : /\ k \in Against(a) /\ claims'[k].amount \in Nat
                                 /\ claims'[k].amount <= claims[k].amount
      <4>1. \A k \in Against(a)' : k \in ClaimKey /\ PayerOf(k) = a /\ Exists(k)'
        BY DEF Against, PayerOf
      <4> QED
        BY <2>1, <2>6, <3>1, <4>1 DEF Against, Exists
    <3>3. SumOfExistingClaims(a)' \in Nat /\ SumOfExistingClaims(a)' <= SumOfExistingClaims(a)
      BY <1>0, <3>2, ObligationsShrink DEF ProviderInv
    <3> QED
      BY <1>0, <2>2, <3>3, StillFits DEF ProviderInv
  <2> QED
    BY <2>7, <2>8
<1> QED
  BY <1>3, <1>4

\* discard_claim() takes as much from both sides.
LEMMA DiscardClaimFits ==
  ASSUME Ledger, Ledger', CoverInv, ProviderInv, RequestorsSettle',
         NEW a \in Account, OnlyProvider(a),
         NEW w \in Worker, NEW k \in ClaimKey, DiscardClaim(w, k)
  PROVE  /\ SumOfExistingClaims(a)' <= Room(a)'
         /\ SumOfExistingClaims(a)' = SumOfExistingClaims(a) => Room(a) <= Room(a)'
<1>0. TypeOK /\ TypeInv /\ TypeOK'
  BY DEF Ledger, Ready, TypeInv
<1>1. PICK i : i = claims[k].tx
  OBVIOUS
<1>2. /\ UNCHANGED <<deposit, chain, blocks>>
      /\ claims' = [claims EXCEPT ![k] = NoClaim] /\ i \in Confirmed
  BY <1>1 DEF DiscardClaim, ether
<1>3. i # NULL
  BY <1>0, <1>2, PaymentsArePlaces DEF NULL
<1>4. i \in PaymentsOf(k) /\ Exists(k)
  BY <1>1, <1>3 DEF Ledger, ClaimLedger, Exists, NoClaim
<1>5. /\ PaymentsOf(k) = {i} /\ chain[i].payer = PayerOf(k)
      /\ chain[i].amount <= claims[k].amount /\ blocks[i].moved = chain[i].amount
      /\ chain[i].kind = "claim" /\ chain[i].key = k
  BY <1>2, <1>4 DEF Ledger, ClaimLedger, CoverInv, PaymentsOf
<1>6. \A j \in ClaimKey : claims'[j] = IF j = k THEN NoClaim ELSE claims[j]
  BY <1>0, <1>2 DEF TypeOK
<1>7. \A j \in ClaimKey : claims[j].amount \in Nat /\ claims[j].amount <= claims[j].amount
  BY <1>0, ColumnsAreTyped
<1>8. \A j \in Against(a)' : j \in Against(a) /\ j # k /\ claims'[j] = claims[j]
  <2>1. \A j \in Against(a)' : j \in ClaimKey /\ PayerOf(j) = a /\ Exists(j)'
    BY DEF Against, PayerOf
  <2> QED
    BY <1>6, <2>1 DEF Against, Exists
<1>9. \A x \in DOMAIN chain : chain[x].kind = "claim" => chain[x].key \in ClaimKey
  BY <1>0, ListsAreTyped DEF Tx
<1>10. \A x \in Counted(a) : x \in DOMAIN chain /\ x \in Confirmed
  BY DEF Counted, Ledger, SettlementLedger
<1>11. CASE PayerOf(k) # a
  <2>1. SumOfExistingClaims(a)' \in Nat /\ SumOfExistingClaims(a)' <= SumOfExistingClaims(a)
    <3>1. \A j \in Against(a)' : /\ j \in Against(a) /\ claims'[j].amount \in Nat
                                 /\ claims'[j].amount <= claims[j].amount
      BY <1>7, <1>8 DEF Against
    <3> QED
      BY <1>0, <3>1, ObligationsShrink DEF ProviderInv
  <2>2. Room(a)' \in Nat /\ Room(a) <= Room(a)'
    <3>1. \A x \in Confirmed : x \in Confirmed' /\ blocks'[x] = blocks[x]
      BY <1>2 DEF Confirmed
    <3>2. ASSUME NEW x \in Counted(a), chain[x].kind = "claim"
          PROVE  Exists(chain[x].key)'
      <4>1. PICK j \in ClaimKey : j = chain[x].key
        BY <1>9, <1>10, <3>2
      <4>2. Exists(j) /\ chain[x].payer = a /\ x \in PaymentsOf(j)
        BY <1>10, <3>2, <4>1 DEF Counted, PaymentsOf
      <4>3. chain[x].payer = PayerOf(j)
        BY <4>2 DEF Ledger, ClaimLedger
      <4>4. j # k
        BY <1>11, <4>2, <4>3
      <4> QED
        BY <1>2, <1>6, <4>1, <4>2, <4>4 DEF Exists
    <3> QED
      BY <1>0, <1>2, <3>1, <3>2, RoomStays
  <2> QED
    BY <1>0, <2>1, <2>2, StillFits DEF ProviderInv
<1>12. CASE PayerOf(k) = a
  <2>1. PICK amount \in Nat, moved \in Nat :
          amount = claims[k].amount /\ moved = Moved[i] /\ moved <= amount
    <3>1. Moved[i] \in Nat /\ Moved[i] = blocks[i].moved
      BY <1>0, <1>2, ColumnsAreTyped
    <3> QED
      BY <1>5, <1>7, <3>1
  <2>2. PICK K, c, f, C, m : /\ K = Against(a)' /\ c = Claimed' /\ f = Settled'
                             /\ C = Counted(a)' /\ m = Moved'
    OBVIOUS
  <2>3. Against(a) \in SUBSET ClaimKey /\ k \in Against(a)
    BY <1>4, <1>12 DEF Against
  <2>4. /\ IsFiniteSet(Against(a)) /\ SumFunctionOnSet(Claimed, Against(a)) \in Nat
        /\ \A j \in Against(a) : Claimed[j] \in Nat
        /\ Claimed[k] = amount
    BY <1>0, <2>1, <2>3, ClaimsAreNumbers, ColumnsAreTyped
  <2>5. K \in SUBSET (Against(a) \ {k}) /\ \A j \in K : c[j] = Claimed[j]
    <3>1. c = [j \in ClaimKey |-> claims'[j].amount]
      BY <2>2 DEF Claimed
    <3> QED
      BY <1>8, <2>2, <2>3, <3>1 DEF Claimed
  <2>6. SumFunctionOnSet(Claimed, {k}) = amount
    BY <2>1, <2>4, SumOne
  <2>7. /\ SumFunctionOnSet(c, K) \in Nat
        /\ SumFunctionOnSet(c, K) + SumFunctionOnSet(Claimed, {k})
             <= SumFunctionOnSet(Claimed, Against(a))
    <3>1. {k} \in SUBSET Against(a)
      BY <2>3
    <3> QED
      BY <2>4, <2>5, <3>1, SumShrinks
  <2>8. SumOfExistingClaims(a) = SumFunctionOnSet(Claimed, Against(a))
    BY <2>4, NoSettlement DEF ProviderInv
  <2>9. SumOfExistingClaims(a)' = SumFunctionOnSet(c, K)
    <3>1. SettlementsOf(a)' = {}
      BY DEF SettlementsOf, RequestorsSettle, OnlyProvider
    <3>2. SumFunctionOnSet(f, {}) = 0
      BY SumEmpty
    <3>3. SumOfExistingClaims(a)' = SumFunctionOnSet(c, K) + SumFunctionOnSet(f, {})
      BY <2>2, <3>1 DEF SumOfExistingClaims
    <3> QED
      BY <2>7, <3>2, <3>3
  <2>10. i \in Counted(a) /\ IsFiniteSet(Counted(a))
         /\ \A x \in Counted(a) : Moved[x] \in Nat /\ Moved[x] \in Int
    <3>1. i \in Counted(a)
      BY <1>2, <1>4, <1>5, <1>12 DEF Counted
    <3> QED
      BY <1>0, <3>1, RoomIsNumber
  <2>11. Counted(a) \ {i} \in SUBSET C /\ C \in SUBSET Confirmed /\ m = Moved
    <3>1. ASSUME NEW x \in Counted(a) \ {i}, chain[x].kind = "claim"
          PROVE  Exists(chain[x].key)'
      <4>1. PICK j \in ClaimKey : j = chain[x].key
        BY <1>9, <1>10, <3>1
      <4>2. Exists(j) /\ x \in PaymentsOf(j)
        BY <1>10, <3>1, <4>1 DEF Counted, PaymentsOf
      <4>3. j # k
        BY <1>5, <4>2
      <4> QED
        BY <1>2, <1>6, <4>1, <4>2, <4>3 DEF Exists
    <3>2. \A x \in Counted(a) \ {i} : x \in C
      BY <1>2, <2>2, <3>1 DEF Counted, Confirmed
    <3> QED
      BY <1>2, <2>2, <3>2 DEF Counted, Confirmed, Moved
  <2>12. /\ SumFunctionOnSet(Moved, Counted(a))
              = moved + SumFunctionOnSet(Moved, Counted(a) \ {i})
    BY <2>1, <2>10, SumTakeOut
  <2>13. /\ SumFunctionOnSet(Moved, C) \in Nat
         /\ SumFunctionOnSet(Moved, Counted(a) \ {i}) \in Nat
         /\ SumFunctionOnSet(Moved, Counted(a) \ {i}) <= SumFunctionOnSet(Moved, C)
    <3>1. IsFiniteSet(C) /\ SumFunctionOnSet(Moved, C) \in Nat
          /\ \A x \in C : Moved[x] \in Nat
      BY <1>0, <2>11, ClaimsAreNumbers, ColumnsAreTyped
    <3>2. Counted(a) \ {i} \in SUBSET Confirmed
      BY <1>10
    <3>3. SumFunctionOnSet(Moved, Counted(a) \ {i}) \in Nat
      BY <1>0, <3>2, ClaimsAreNumbers
    <3> QED
      BY <2>11, <3>1, <3>3, SumSubset
  <2>14. Room(a)' = deposit[a] + SumFunctionOnSet(Moved, C)
    <3>1. StillClaimed(a)' = SumFunctionOnSet(m, C)
      BY <2>2 DEF StillClaimed, Counted
    <3> QED
      BY <1>2, <2>11, <3>1 DEF Room
  <2>15. /\ Room(a) = deposit[a] + SumFunctionOnSet(Moved, Counted(a))
         /\ deposit[a] \in Nat /\ SumOfExistingClaims(a) <= Room(a)
    BY <1>0, RoomIsNumber DEF Room, ProviderInv, ClaimsAreCovered
  <2> QED
    BY <2>1, <2>4, <2>6, <2>7, <2>8, <2>9, <2>12, <2>13, <2>14, <2>15
<1> QED
  BY <1>11, <1>12

\* What leaves the deposit stays counted: the claim that was paid is still there.
LEMMA ConfirmFits ==
  ASSUME Ledger, Ledger', ProviderInv, RequestorsSettle', NEW a \in Account, OnlyProvider(a),
         Confirm
  PROVE  /\ SumOfExistingClaims(a)' <= Room(a)'
         /\ SumOfExistingClaims(a)' = SumOfExistingClaims(a) => Room(a) <= Room(a)'
<1>0. TypeOK /\ TypeInv /\ TypeOK'
  BY DEF Ledger, Ready, TypeInv
<1>1. PICK n, p, amount, moved :
        n = Len(blocks) + 1 /\ p = chain[n].payer /\ amount = chain[n].amount
        /\ moved = blocks'[n].moved
  OBVIOUS
<1>2. /\ Confirmed' = Confirmed \union {n} /\ n \notin Confirmed /\ n \in DOMAIN chain
      /\ p \in Account /\ amount \in Nat /\ deposit[p] \in Nat
      /\ \A i \in Confirmed : blocks'[i] = blocks[i]
      /\ moved = IF amount <= deposit[p] THEN amount ELSE deposit[p]
      /\ deposit' = [deposit EXCEPT ![p] = @ - moved]
  BY <1>0, <1>1, BlockMined
<1>3. UNCHANGED <<claims, chain>>
  BY DEF Confirm, table
<1>4. SumOfExistingClaims(a)' \in Nat /\ SumOfExistingClaims(a)' <= SumOfExistingClaims(a)
  <2>1. \A k \in Against(a)' : /\ k \in Against(a) /\ claims'[k].amount \in Nat
                               /\ claims'[k].amount <= claims[k].amount
    BY <1>0, <1>3, SameClaims
  <2> QED
    BY <1>0, <2>1, ObligationsShrink DEF ProviderInv
<1>5. CASE p # a
  <2>1. deposit'[a] = deposit[a]
    BY <1>0, <1>2, <1>5 DEF TypeOK
  <2>2. \A i \in Counted(a) : /\ chain'[i] = chain[i]
                              /\ chain[i].kind = "claim" => Exists(chain[i].key)'
    BY <1>3 DEF Counted, Exists
  <2>3. Room(a)' \in Nat /\ Room(a) <= Room(a)'
    BY <1>0, <1>2, <2>1, <2>2, RoomStays
  <2> QED
    BY <1>0, <1>4, <2>3, StillFits DEF ProviderInv
<1>6. CASE p = a
  <2>1. PICK C, m : C = Counted(a)' /\ m = Moved'
    OBVIOUS
  <2>2. chain[n].kind = "claim" => Exists(chain[n].key)
    <3>1. SUFFICES ASSUME chain[n].kind = "claim"
                   PROVE  Exists(chain[n].key)
      OBVIOUS
    <3>2. PICK k \in ClaimKey : k = chain[n].key
      BY <1>0, <1>2, <3>1, ListsAreTyped DEF Tx
    <3>3. n \in PaymentsOf(k)
      BY <1>2, <3>1, <3>2 DEF PaymentsOf
    <3> QED
      BY <1>2, <3>2, <3>3 DEF Ledger, ClaimLedger
  <2>3. C = Counted(a) \union {n} /\ n \notin Counted(a)
    BY <1>1, <1>2, <1>3, <1>6, <2>1, <2>2 DEF Counted, Exists
  <2>4. Counted(a) \in SUBSET Confirmed
    BY DEF Counted
  <2>5. moved \in Nat
    BY <1>2
  <2>6. /\ m[n] = moved
        /\ \A i \in Counted(a) : m[i] = Moved[i] /\ Moved[i] \in Int /\ m[i] \in Int
    <3>1. m = [i \in Confirmed' |-> blocks'[i].moved]
      BY <2>1 DEF Moved, Confirmed
    <3>2. m[n] = moved /\ \A i \in Counted(a) : m[i] = blocks[i].moved
      BY <1>1, <1>2, <2>4, <3>1
    <3>3. \A i \in Counted(a) : Moved[i] = blocks[i].moved /\ Moved[i] \in Nat
      BY <1>0, <2>4, ColumnsAreTyped
    <3>4. \A i \in Counted(a) : Moved[i] \in Int
      BY <3>3
    <3> QED
      BY <3>2, <3>3, <3>4
  <2>7. IsFiniteSet(Counted(a)) /\ SumFunctionOnSet(Moved, Counted(a)) \in Nat
    BY <1>0, <2>4, ClaimsAreNumbers
  <2>8. SumFunctionOnSet(m, C) = SumFunctionOnSet(m, Counted(a)) + m[n]
    <3>1. \A i \in Counted(a) \union {n} : m[i] \in Int
      BY <2>5, <2>6
    <3> QED
      BY <2>3, <2>7, <3>1, SumAdd
  <2>9. SumFunctionOnSet(Moved, Counted(a)) = SumFunctionOnSet(m, Counted(a))
    BY <2>6, <2>7, SumEqual
  <2>10. Room(a)' = deposit'[a] + SumFunctionOnSet(m, C)
    <3>1. StillClaimed(a)' = SumFunctionOnSet(m, C)
      BY <2>1 DEF StillClaimed, Counted
    <3> QED
      BY <3>1 DEF Room
  <2>11. deposit'[a] = deposit[a] - moved /\ deposit[a] \in Nat
    BY <1>0, <1>2, <1>6 DEF TypeOK
  <2>12. Room(a) = deposit[a] + SumFunctionOnSet(Moved, Counted(a)) /\ Room(a) \in Nat
    BY <1>0, RoomIsNumber DEF Room
  <2>13. Room(a)' = Room(a)
    BY <2>5, <2>6, <2>7, <2>8, <2>9, <2>10, <2>11, <2>12
  <2>14. Room(a)' \in Nat /\ Room(a) <= Room(a)'
    BY <2>12, <2>13
  <2> QED
    BY <1>0, <1>4, <2>14, StillFits DEF ProviderInv
<1> QED
  BY <1>5, <1>6

\* The claims against a provider are covered after every step, and none leaves less room.
LEMMA EveryStepFits ==
  ASSUME Ledger, Ledger', CoverInv, ProviderInv, RequestorsSettle',
         NEW a \in Account, OnlyProvider(a), [Next]_vars
  PROVE  /\ SumOfExistingClaims(a)' <= Room(a)'
         /\ SumOfExistingClaims(a)' = SumOfExistingClaims(a) => Room(a) <= Room(a)'
<1> DEFINE Fits == /\ SumOfExistingClaims(a)' <= Room(a)'
                   /\ SumOfExistingClaims(a)' = SumOfExistingClaims(a) => Room(a) <= Room(a)'
<1>1. CASE UNCHANGED vars \/ Tick \/ \E s \in Subtask : Transfer(s)
  BY <1>1, QuietFits
<1>2. CASE Confirm
  BY <1>2, ConfirmFits
<1>3. ASSUME NEW w \in Worker,
             \/ \E s \in Subtask, use \in UseCase : AskForDeposits(w, s, use)
             \/ CheckRequestor(w) \/ CheckProvider(w)
             \/ \E k \in ClaimKey : AskForPayersDeposit(w, k)
             \/ PayClaim(w)
             \/ \E acceptances \in SUBSET Subtask : AskForSettledDeposit(w, acceptances)
             \/ LockSettlement(w) \/ PaySettlement(w) \/ SaveSettlement(w)
             \/ Abort(w)
      PROVE  Fits
  BY <1>3, QuietFits
<1>4. ASSUME NEW w \in Worker,
             \/ InsertClaims(w) \/ LockClaim(w) \/ SaveClaim(w)
             \/ \E k \in ClaimKey : DiscardClaim(w, k)
      PROVE  Fits
  BY <1>4, InsertClaimsFit, LockClaimFits, SaveClaimFits, DiscardClaimFits
<1> HIDE DEF Fits
<1>5. Fits
  <2>1. CASE UNCHANGED vars \/ Tick \/ Confirm \/ \E s \in Subtask : Transfer(s)
    BY <1>1, <1>2, <2>1 DEF Fits
  <2> QED
    BY <1>3, <1>4, <2>1 DEF Next
<1> QED
  BY <1>5 DEF Fits

\* The locks of claim_deposit() keep what its check of the provider's deposit found.
LEMMA NewClaimsStep ==
  ASSUME Orderly, ProviderInv, [OrderlyNext]_vars, Ledger', RequestorsSettle'
  PROVE  NewClaimsAreCovered'
<1>0. TypeOK /\ TypeInv /\ TypeOK' /\ Ledger /\ CoverInv /\ [Next]_vars
  BY DEF Orderly, Ledger, Ready, TypeInv, OrderlyNext
<1> SUFFICES ASSUME NEW v \in Worker, NEW a \in Account, at'[v].op = "insert",
                    <<at'[v].subtask, at'[v].use, "provider">> \in NewClaims(at'[v]),
                    a = ProviderOf[at'[v].subtask], OnlyProvider(a)
             PROVE  ProviderObligations(a)' <= Room(a)'
  BY DEF NewClaimsAreCovered, OnlyProvider, NewClaims
<1>3. SumOfExistingClaims(a)' = SumOfExistingClaims(a) => Room(a) <= Room(a)'
  BY <1>0, EveryStepFits
<1>4. /\ SumOfExistingClaims(a) \in Nat /\ Room(a) \in Nat /\ VerificationCost \in Nat
      /\ Room(a)' \in Int
  <2>1. deposit'[a] \in Nat
    BY <1>0 DEF TypeOK
  <2>2. StillClaimed(a)' \in Nat
    <3>1. PICK C, m : C = Counted(a)' /\ m = Moved'
      OBVIOUS
    <3>2. blocks' \in Seq(Block)
      BY <1>0 DEF TypeOK, Block
    <3>3. IsFiniteSet(DOMAIN blocks') /\ \A i \in DOMAIN blocks' : blocks'[i] \in Block
      BY <3>2, Places
    <3>4. C \in SUBSET DOMAIN blocks'
      BY <3>1 DEF Counted, Confirmed
    <3>5. \A i \in C : m[i] \in Nat
      BY <3>1, <3>3, <3>4 DEF Moved, Confirmed, Block
    <3>6. SumFunctionOnSet(m, C) \in Nat
      BY <3>3, <3>4, <3>5, FS_Subset, SumNat
    <3> QED
      BY <3>1, <3>6 DEF StillClaimed, Counted
  <2>3. Room(a)' \in Int
    BY <2>1, <2>2 DEF Room
  <2> QED
    BY <1>0, <2>3, RoomIsNumber, Constants
<1>5. SumOfExistingClaims(a)' = SumOfExistingClaims(a)
      /\ SumOfExistingClaims(a) + VerificationCost <= Room(a)
  <2>1. CASE at'[v] = at[v]
    <3>1. SumOfExistingClaims(a)' = SumOfExistingClaims(a)
      <4>1. CASE UNCHANGED vars
        BY <4>1 DEF vars, table, SumOfExistingClaims, Against, SettlementsOf, Claimed, Settled,
                    Exists, PayerOf
      <4>2. CASE OrderlyNext
        <5>1. at[v].op \in {"check_provider", "insert"} /\ at'[v] = at[v]
          BY <2>1
        <5>2. a \in {RequestorOf[at[v].subtask], ProviderOf[at[v].subtask]}
          BY <2>1
        <5> QED
          BY <4>2, <5>1, <5>2 DEF OrderlyNext, LocksAreTaken
      <4> QED
        BY <4>1, <4>2
    <3>2. ProviderObligations(a) <= Room(a)
      BY <2>1 DEF ProviderInv, NewClaimsAreCovered
    <3> QED
      BY <3>1, <3>2 DEF ProviderObligations
  <2>2. CASE at'[v] # at[v]
    <3>1. CASE CheckProvider(v)
      <4>1. PICK funds : funds = at[v].funds
        OBVIOUS
      <4>2. /\ at[v].op = "check_provider" /\ UNCHANGED <<claims, settlements>>
            /\ a = ProviderOf[at[v].subtask]
            /\ funds > ProviderObligations(a)
        <5>1. UNCHANGED <<claims, settlements>>
          BY <3>1 DEF CheckProvider, table
        <5>2. ~ Step(v, Idle)
          BY <1>0, StepTaken DEF Idle
        <5>3. Step(v, [op |-> "insert", subtask |-> at[v].subtask, use |-> at[v].use])
              /\ funds > ProviderObligations(ProviderOf[at[v].subtask])
              /\ at[v].op = "check_provider"
          BY <3>1, <4>1, <5>2 DEF CheckProvider
        <5>4. at'[v].subtask = at[v].subtask
          BY <1>0, <5>3, StepTaken
        <5> QED
          BY <5>1, <5>3, <5>4
      <4>3. funds <= Room(a)
        BY <4>1, <4>2 DEF Orderly, DepositsAreFresh, Told, Room
      <4>4. funds \in Nat
        <5>1. at[v] \in StepRecord
          BY <1>0 DEF TypeOK
        <5> QED
          BY <4>1, <4>2, <5>1, StepFields
      <4>5. SumOfExistingClaims(a)' = SumOfExistingClaims(a)
        BY <4>2 DEF SumOfExistingClaims, Against, SettlementsOf, Claimed, Settled, Exists,
                    PayerOf
      <4>6. funds > SumOfExistingClaims(a) + VerificationCost
        BY <4>2 DEF ProviderObligations
      <4> QED
        BY <1>4, <4>3, <4>4, <4>5, <4>6
    <3>2. CASE CheckRequestor(v)
      <4>1. PICK t, u : t = at[v].subtask /\ u = at[v].use
        OBVIOUS
      <4>2. Step(v, [op |-> "insert", subtask |-> t, use |-> u])
            /\ ClaimsOf(t, u) = {<<t, u, "requestor">>}
        <5>1. ~ Step(v, Idle)
          BY <1>0, StepTaken DEF Idle
        <5>2. ~ Step(v, [op |-> "check_provider", subtask |-> t, use |-> u,
                         funds |-> at[v].next])
          BY <1>0, StepTaken
        <5> QED
          BY <3>2, <4>1, <5>1, <5>2 DEF CheckRequestor
      <4>3. at'[v].subtask = t /\ at'[v].use = u
        BY <1>0, <4>2, StepTaken
      <4>4. <<t, u, "provider">> \in ClaimsOf(t, u)
        BY <4>3 DEF NewClaims
      <4> QED
        BY <4>2, <4>4
    <3> QED
      BY <1>0, <2>2, <3>1, <3>2, NewSteps
  <2> QED
    BY <2>1, <2>2
<1>6. ProviderObligations(a)' = SumOfExistingClaims(a) + VerificationCost
  BY <1>5 DEF ProviderObligations
<1> QED
  BY <1>3, <1>4, <1>5, <1>6

\* Every step of OrderlySpec keeps ProviderInv.
LEMMA ProviderStep ==
  ASSUME Orderly, ProviderInv, [OrderlyNext]_vars, Ledger'
  PROVE  ProviderInv'
<1>0. TypeOK /\ Ledger /\ CoverInv /\ [Next]_vars
  BY DEF Orderly, Ledger, Ready, TypeInv, OrderlyNext
<1>1. FundsAreOld' /\ RequestorsSettle'
  BY <1>0, FundsStep, RequestorsSettleStep DEF ProviderInv
<1>2. ClaimsAreCovered'
  BY <1>0, <1>1, EveryStepFits DEF ClaimsAreCovered, OnlyProvider
<1>3. NewClaimsAreCovered'
  BY <1>1, NewClaimsStep
<1> QED
  BY <1>1, <1>2, <1>3 DEF ProviderInv

\* Nothing is claimed at first.
LEMMA ProviderStart ==
  ASSUME Init
  PROVE  ProviderInv
<1>1. TypeOK
  BY LedgerStart DEF Ledger, Ready, TypeInv
<1>2. DOMAIN settlements = {} /\ \A w \in Worker : at[w].op = "idle"
  BY DEF Init, Idle
<1>3. FundsAreOld /\ RequestorsSettle /\ NewClaimsAreCovered
  BY <1>2 DEF FundsAreOld, RequestorsSettle, NewClaimsAreCovered
<1>4. ASSUME NEW a \in Account
      PROVE  SumOfExistingClaims(a) <= Room(a)
  <2>1. Against(a) = {} /\ SettlementsOf(a) = {}
    BY <1>2 DEF Init, Against, Exists, SettlementsOf
  <2>2. SumFunctionOnSet(Claimed, {}) = 0 /\ SumFunctionOnSet(Settled, {}) = 0
    BY SumEmpty
  <2>3. SumOfExistingClaims(a) = 0
    BY <2>1, <2>2 DEF SumOfExistingClaims
  <2>4. Room(a) \in Nat
    BY <1>1, RoomIsNumber
  <2> QED
    BY <2>3, <2>4
<1> QED
  BY <1>3, <1>4 DEF ProviderInv, ClaimsAreCovered

\* As long as no other claim is counted twice, the deposit covers the claim to be paid.
LEMMA LockClaimInFull ==
  ASSUME Ledger, ProviderInv, NEW w \in Worker, LockClaim(w), NEW k \in ClaimKey,
         OnlyProvider(PayerOf(k)), claims'[k].amount # claims[k].amount,
         \A j \in ClaimKey \ {k} : ~ (PayerOf(j) = PayerOf(k) /\ StillCounted(j))
  PROVE  FALSE
<1>0. TypeOK /\ TypeInv /\ Ready
  BY DEF Ledger, Ready, TypeInv
<1>1. PICK funds, a, available : /\ funds = at[w].funds /\ a = PayerOf(k)
                                 /\ available = AvailableFunds(at[w].key, funds)
  OBVIOUS
<1>2. /\ at[w].op = "lock_claim"
      /\ \/ NothingLeft(available) /\ claims' = [claims EXCEPT ![at[w].key] = NoClaim]
         \/ claims' = [claims EXCEPT ![at[w].key].amount = IF available < @ THEN available ELSE @]
  BY <1>1 DEF LockClaim
<1>3. k = at[w].key
  <2>1. at[w].key \in ClaimKey
    BY <1>0, <1>2, FinalizingKey DEF IsFinalizing
  <2> QED
    BY <1>0, <1>2, <2>1 DEF TypeOK
<1>4. Exists(k) /\ PaymentsOf(k) = {}
  BY <1>0, <1>2, <1>3, FinalizingKey DEF IsFinalizing, Ledger, ClaimLedger
<1>5. a \in Account /\ funds \in Nat
  <2>1. at[w] \in StepRecord
    BY <1>0 DEF TypeOK
  <2> QED
    BY <1>1, <1>2, <2>1, StepFields, Constants
<1>6. Counted(a) = {}
  <2>1. SUFFICES ASSUME NEW i \in Counted(a)
                 PROVE  FALSE
    OBVIOUS
  <2>2. i \in Confirmed /\ i \in DOMAIN chain /\ chain[i].payer = a
    BY DEF Counted, Ledger, SettlementLedger
  <2>3. chain[i] \in Tx
    BY <1>0, <2>2, ListsAreTyped
  <2>4. CASE chain[i].kind = "claim"
    <3>1. PICK j \in ClaimKey : j = chain[i].key
      BY <2>3, <2>4 DEF Tx
    <3>2. i \in PaymentsOf(j) /\ Exists(j)
      BY <2>2, <2>4, <3>1 DEF PaymentsOf, Counted
    <3>3. PayerOf(j) = a
      BY <2>2, <3>2 DEF Ledger, ClaimLedger
    <3>4. j # k
      BY <1>4, <3>2
    <3>5. StillCounted(j)
      BY <2>2, <3>2 DEF StillCounted
    <3> QED
      BY <1>1, <3>3, <3>4, <3>5
  <2>5. CASE chain[i].kind # "claim"
    <3>1. i \in SettlementsSent
      BY <2>2, <2>3, <2>5 DEF Tx, SettlementsSent
    <3>2. chain[i].row \in SettlementsOf(a)
      BY <2>2, <3>1 DEF Ledger, SettlementLedger, SettlementsOf
    <3>3. SettlementsOf(a) = {}
      BY <1>1, NoSettlement DEF ProviderInv
    <3> QED
      BY <3>2, <3>3
  <2> QED
    BY <2>4, <2>5
<1>7. Room(a) = deposit[a] /\ deposit[a] \in Nat
  <2>1. StillClaimed(a) = 0
    BY <1>0, <1>5, <1>6, RoomIsNumber, SumEmpty
  <2> QED
    BY <1>0, <1>5, <2>1, RoomIsNumber DEF Room
<1>8. SumOfExistingClaims(a) <= deposit[a] /\ deposit[a] <= funds
      /\ SumOfExistingClaims(a) \in Nat
  <2>1. SumOfExistingClaims(a) <= Room(a)
    BY <1>1, <1>5 DEF ProviderInv, ClaimsAreCovered
  <2>2. deposit[a] <= funds
    BY <1>1, <1>2, <1>3 DEF ProviderInv, FundsAreOld
  <2> QED
    BY <1>0, <1>5, <1>7, <2>1, <2>2, RoomIsNumber
<1>9. PICK n \in Nat, tx \in Nat : claims[k] = [amount |-> n, tx |-> tx]
  BY <1>0 DEF TypeOK, Claim
<1>10. available \in Int /\ n <= available
  <2>1. available = funds - (SumOfExistingClaims(a) - n)
    BY <1>1, <1>3, <1>9 DEF AvailableFunds
  <2> QED
    BY <1>5, <1>7, <1>8, <1>9, <2>1
<1>11. CASE NothingLeft(available) /\ claims' = [claims EXCEPT ![k] = NoClaim]
  <2>1. n = 0
    BY <1>10, <1>11 DEF NothingLeft
  <2>2. claims'[k] = NoClaim
    BY <1>0, <1>11 DEF TypeOK
  <2> QED
    BY <1>9, <2>1, <2>2 DEF NoClaim
<1>12. CASE claims' = [claims EXCEPT ![k].amount = IF available < @ THEN available ELSE @]
  <2>1. claims'[k].amount = IF available < n THEN available ELSE n
    BY <1>0, <1>9, <1>12 DEF TypeOK
  <2> QED
    BY <1>9, <1>10, <2>1
<1> QED
  BY <1>2, <1>3, <1>11, <1>12

\* A step changes the amount of a provider's claim only as ProviderPaysInFull says.
LEMMA StepInFull ==
  ASSUME Ledger, ProviderInv, [Next]_vars, NEW k \in ClaimKey, k[3] = "provider",
         OnlyProvider(PayerOf(k)), claims'[k].amount # claims[k].amount
  PROVE  \/ claims'[k].amount = VerificationCost
         \/ claims[k].tx \in Confirmed
         \/ \E j \in ClaimKey \ {k} : PayerOf(j) = PayerOf(k) /\ StillCounted(j)
<1>0. TypeOK
  BY DEF Ledger, Ready, TypeInv
<1>1. claims' # claims
  OBVIOUS
<1>2. ASSUME NEW w \in Worker, InsertClaims(w)
      PROVE  claims'[k].amount = VerificationCost
  <2>1. claims'[k] = [amount |-> AmountOf(k), tx |-> NULL]
    BY <1>2 DEF InsertClaims
  <2> QED
    BY <2>1 DEF AmountOf
<1>3. ASSUME NEW w \in Worker, LockClaim(w)
      PROVE  \E j \in ClaimKey \ {k} : PayerOf(j) = PayerOf(k) /\ StillCounted(j)
  BY <1>3, LockClaimInFull
<1>4. ASSUME NEW w \in Worker, SaveClaim(w)
      PROVE  FALSE
  <2>1. claims' = [claims EXCEPT ![at[w].key].tx = at[w].tx]
    BY <1>4 DEF SaveClaim
  <2>2. claims'[k] = claims[k] \/ claims'[k] = [claims[k] EXCEPT !.tx = at[w].tx]
    BY <1>0, <2>1 DEF TypeOK
  <2>3. claims[k] \in Claim
    BY <1>0 DEF TypeOK
  <2> QED
    BY <2>2, <2>3 DEF Claim
<1>5. ASSUME NEW w \in Worker, NEW j \in ClaimKey, DiscardClaim(w, j)
      PROVE  claims[k].tx \in Confirmed
  <2>1. claims' = [claims EXCEPT ![j] = NoClaim] /\ claims[j].tx \in Confirmed
    BY <1>5 DEF DiscardClaim
  <2>2. j = k
    BY <1>0, <2>1 DEF TypeOK
  <2> QED
    BY <2>1, <2>2
<1>6. \E w \in Worker : \/ InsertClaims(w) \/ LockClaim(w) \/ SaveClaim(w)
                        \/ \E j \in ClaimKey : DiscardClaim(w, j)
  BY <1>1 DEF Next, vars, table, ether, AskForDeposits, CheckRequestor, CheckProvider,
              AskForPayersDeposit, PayClaim, AskForSettledDeposit, LockSettlement,
              PaySettlement, SaveSettlement, Abort, Transfer, Tick, Confirm
<1> QED
  BY <1>2, <1>3, <1>4, <1>5, <1>6

\* As long as nobody gets between the parts of an operation, the verification that was
\* claimed from a provider is paid for in full, unless another claim against the same
\* deposit is counted twice (bankster.py, claim_deposit and finalize_payment).
THEOREM ProvidersPayInFull == OrderlySpec => ProviderPaysInFull
<1>1. Init => Orderly /\ ProviderInv
  BY OrderlyStart, ProviderStart
<1>2. Orderly /\ ProviderInv /\ [OrderlyNext]_vars => Orderly' /\ ProviderInv'
  BY OrderlyStep, ProviderStep DEF Orderly
<1>3. ASSUME Orderly, ProviderInv, [OrderlyNext]_vars
      PROVE  [\A k \in ClaimKey :
                k[3] = "provider" /\ OnlyProvider(PayerOf(k))
                /\ claims'[k].amount # claims[k].amount
                => \/ claims'[k].amount = VerificationCost
                   \/ claims[k].tx \in Confirmed
                   \/ \E j \in ClaimKey \ {k} : PayerOf(j) = PayerOf(k) /\ StillCounted(j)]_vars
  BY <1>3, StepInFull DEF Orderly, OrderlyNext
<1> QED
  BY <1>1, <1>2, <1>3, PTL DEF OrderlySpec, ProviderPaysInFull
=============================================================================
