---------------------------- MODULE SigningModel ----------------------------
(***************************************************************************)
(* What Concent, MiddleMan and the signing service tell each other.        *)
(*                                                                         *)
(* A call is one call of sci_callback(), with the transaction it wants to  *)
(* have signed; no two calls want the same.  Every attempt of a call opens *)
(* a connection of its own, so the call and the number of the attempt      *)
(* stand for MiddleMan's connection_id.  The request id that Concent gives *)
(* a frame comes back with the response to that connection, and is not     *)
(* modelled.                                                               *)
(***************************************************************************)
EXTENDS Integers, Sequences

CONSTANTS
  Call,
  MaxAttempts,   \* [Call -> Nat], the attempts for which there is time (SCI_CALLBACK_RETRIES_TIME)
  MaxLinks       \* bound: the connections that the signing service opens

ASSUME SigningAssumption == MaxAttempts \in [Call -> Nat \ {0}] /\ MaxLinks \in Nat

Connection == UNION {{c} \X (1..MaxAttempts[c]) : c \in Call}

\* The connections of the signing service, in the order in which they are made.
Link == 1..MaxLinks

\* SignedTransaction and TransactionRejected, with the call whose transaction is meant.
Payload == [kind : {"signed", "rejected"}, call : Call]
Signed(c) == [kind |-> "signed", call |-> c]
Rejected(c) == [kind |-> "rejected", call |-> c]
=============================================================================
