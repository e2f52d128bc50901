----------------------------- MODULE SciCallback -----------------------------
(***************************************************************************)
(* sci_callback() in the processes of Concent: it sends one transaction to *)
(* MiddleMan and waits for the answer.  After a timeout it sends it again  *)
(* over a new connection, as long as there is time.                        *)
(***************************************************************************)
EXTENDS SigningModel

VARIABLE calls

CallStage == {"idle", "waiting", "returned", "raised"}

SciInit == calls = [c \in Call |-> [stage |-> "idle", attempt |-> 0]]

\* The call holds this connection open.
HoldsOpen(k) == calls[k[1]] = [stage |-> "waiting", attempt |-> k[2]]

BeginCall(c) ==
  /\ calls[c].stage = "idle"
  /\ calls' = [calls EXCEPT ![c] = [stage |-> "waiting", attempt |-> 1]]

TimesOut(c) == calls[c].stage = "waiting"

\* retry_middleman_connection_if_not_pass_timeout().
RetryCall(c) ==
  /\ TimesOut(c)
  /\ calls[c].attempt < MaxAttempts[c]
  /\ calls' = [calls EXCEPT ![c].attempt = @ + 1]

\* How many attempts there is time for differs, since a worker may be stopped in the middle.
GiveUp(c) ==
  /\ TimesOut(c)
  /\ calls' = [calls EXCEPT ![c].stage = "raised"]

\* The connection is closed or refused: that is no timeout, and not tried again.
SeeDisconnection(c) ==
  /\ calls[c].stage = "waiting"
  /\ calls' = [calls EXCEPT ![c].stage = "raised"]

\* Mutant: the data of the transaction is not compared.
IsSignedTransaction(payload, c) == payload.kind = "signed"

\* deserialize_response_and_handle_errors() and verify_data_and_signature().
IsExpected(payload, c) == payload = Signed(c)

ReceiveAnswer(c, payload) ==
  /\ calls[c].stage = "waiting"
  /\ calls' = [calls EXCEPT ![c].stage = IF IsExpected(payload, c) THEN "returned" ELSE "raised"]
=============================================================================
