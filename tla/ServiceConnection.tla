------------------------- MODULE ServiceConnection -------------------------
(***************************************************************************)
(* How the signing service comes to its connection with MiddleMan, loses   *)
(* it, tries again and gives up (signing_service.py, run() and below).     *)
(*                                                                         *)
(* The delay before an attempt follows from the number of failures and is  *)
(* left out.  Nothing is sent in this module; SigningPath and              *)
(* SigningService say what is done over the connection.                    *)
(***************************************************************************)
EXTENDS Naturals

CONSTANT MaxFailures  \* maximum_reconnection_attempts

ASSUME ConnectionAssumption == MaxFailures \in Nat

VARIABLE service  \* the process, and its reconnection_counter

Phase == {"down", "authenticating", "connected", "stopped"}

ConnectionInit == service = [phase |-> "down", failures |-> 0]

\* The connection is made, and the challenge is waited for.
OpenSocket ==
  /\ service.phase = "down"
  /\ service' = [service EXCEPT !.phase = "authenticating"]

\* The challenge has come, and the reply is sent; whether it is accepted is not waited for.
Authenticate ==
  /\ service.phase = "authenticating"
  /\ service' = [phase |-> "connected", failures |-> 0]

\* Mutant: a failure is not counted.
Forgive == service.failures

CountFailure == service.failures + 1

\* A socket error: nobody listens, no challenge comes, or the connection is broken or closed.
Fail ==
  /\ service.phase # "stopped"
  /\ service' = IF CountFailure > MaxFailures
                  THEN [phase |-> "stopped", failures |-> 0]
                  ELSE [phase |-> "down", failures |-> CountFailure]

\* SIGTERM between two connections, Ctrl-C or a crash.
Stop ==
  /\ service.phase # "stopped"
  /\ service' = [phase |-> "stopped", failures |-> 0]

Start ==
  /\ service.phase = "stopped"
  /\ service' = [service EXCEPT !.phase = "down"]

\* The type of service.
ConnectionTypeOK == service \in [phase : Phase, failures : Nat]
=============================================================================
