-------------------------- MODULE VerificationOrder --------------------------
(***************************************************************************)
(* What the verifier promises about the order of a subtask: it is taken    *)
(* once the files are there, and has one verdict at most.  It may be lost  *)
(* with the process, or end in an exception that is no verdict.            *)
(***************************************************************************)

VARIABLE status

Init == status = "none"

Order == status = "none" /\ status' = "ordered"
Take == status = "ordered" /\ status' = "taken"
Decide(verdict) == status = "taken" /\ status' = verdict
Lose == status = "taken" /\ status' = "lost"

Next ==
  \/ Order
  \/ Take
  \/ \E verdict \in {"MATCH", "MISMATCH", "ERROR"} : Decide(verdict)
  \/ Lose

Spec == Init /\ [][Next]_status
=============================================================================
