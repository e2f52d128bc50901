----------------------------- MODULE MCBankster -----------------------------
(* Instances of Bankster for TLC. *)
EXTENDS Bankster, TLC

CONSTANTS s1, s2, alice, bob, w1, w2

Workers == Permutations(Worker)

\* Alice's two subtasks, computed by bob.
AliceAsks == [s \in Subtask |-> alice]
BobComputes == [s \in Subtask |-> bob]

Prices == [s \in Subtask |-> IF s = s1 THEN 1 ELSE 3]
Timestamps == [s \in Subtask |-> IF s = s1 THEN 0 ELSE 1]

\* Alice cannot pay for all that is asked of her, bob can for one verification.
Deposits == [a \in Account |-> IF a = alice THEN 2 ELSE 3]

BothVerified == Subtask \X {"ADDITIONAL_VERIFICATION"}
=============================================================================
