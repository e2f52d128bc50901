------------------------------- MODULE Signing -------------------------------
(***************************************************************************)
(* What sci_callback() promises to its caller: it returns a transaction    *)
(* that the signing service has signed, and exactly the one it was given,  *)
(* or it raises an exception; and the service signs nothing that was not   *)
(* asked for.                                                              *)
(***************************************************************************)
EXTENDS SigningModel

VARIABLES
  outcome,    \* of each call
  signatures  \* the calls whose transaction the service has signed

Init == outcome = [c \in Call |-> "idle"] /\ signatures = {}

Ask(c) ==
  /\ outcome[c] = "idle"
  /\ outcome' = [outcome EXCEPT ![c] = "waiting"]
  /\ UNCHANGED signatures

\* The caller may have given up meanwhile.
Sign(c) ==
  /\ outcome[c] # "idle"
  /\ signatures' = signatures \union {c}
  /\ UNCHANGED outcome

Return(c) ==
  /\ outcome[c] = "waiting"
  /\ c \in signatures
  /\ outcome' = [outcome EXCEPT ![c] = "returned"]
  /\ UNCHANGED signatures

Raise(c) ==
  /\ outcome[c] = "waiting"
  /\ outcome' = [outcome EXCEPT ![c] = "raised"]
  /\ UNCHANGED signatures

Next == \E c \in Call : Ask(c) \/ Sign(c) \/ Return(c) \/ Raise(c)

Spec == Init /\ [][Next]_<<outcome, signatures>>
=============================================================================
