--------------------------- MODULE ClaimLifecycle ---------------------------
(***************************************************************************)
(* What the rest of Concent may assume of a deposit claim: it is made, and *)
(* then paid or given up; it is freed when its payment is confirmed.  The  *)
(* claims of one use case are made together.                               *)
(***************************************************************************)
EXTENDS ClaimModel

VARIABLE status

TypeOK == status \in [ClaimKey -> ClaimStatus]

Init == status = [k \in ClaimKey |-> "none"]

Make(s, use) ==
  /\ \A k \in ClaimsOf(s, use) : status[k] = "none"
  /\ status' = [k \in ClaimKey |-> IF k \in ClaimsOf(s, use) THEN "open" ELSE status[k]]

Pay(k) == status[k] = "open" /\ status' = [status EXCEPT ![k] = "sent"]

GiveUp(k) == status[k] = "open" /\ status' = [status EXCEPT ![k] = "none"]

Free(k) == status[k] = "sent" /\ status' = [status EXCEPT ![k] = "none"]

Next ==
  \/ \E s \in Subtask, use \in UseCase : Make(s, use)
  \/ \E k \in ClaimKey : Pay(k) \/ GiveUp(k) \/ Free(k)

Spec == Init /\ [][Next]_status
=============================================================================
