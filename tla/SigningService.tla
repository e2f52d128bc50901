--------------------------- MODULE SigningService ---------------------------
(***************************************************************************)
(* The signing service (signing_service/) and its daily limit: the values  *)
(* of the transactions that it signs on a day.                             *)
(*                                                                         *)
(* The sum of the day is kept in memory and in a file per day.  It is read *)
(* from the file with every new connection, and when the day has changed.  *)
(* Keys, notifications and the frames are left out.                        *)
(***************************************************************************)
EXTENDS ServiceConnection

CONSTANTS
  Value,       \* the values of transactions, TransactionSigningRequest.value
  DailyLimit,  \* MAXIMUM_DAILY_THRESHOLD
  MaxDay,      \* bound: the last day
  MaxTotal     \* bound: once this was signed on a day, nothing more is

ASSUME ServiceAssumption ==
  /\ Value \subseteq Nat
  /\ DailyLimit \in Nat
  /\ MaxDay \in Nat \ {0}
  /\ MaxTotal \in Nat

Day == 1..MaxDay

VARIABLES
  day,
  file,      \* the sum in the file of each day; a file that is missing or empty counts as 0
  counted,   \* signing_service_daily_transaction_sum_so_far
  fileName,  \* daily_transactions_limit_file_name
  total,     \* history: the values of the signed transactions that were sent, per day
  lasts,     \* history: the last value that each connection of a day counted, summed up;
             \* from 0 again when the file of the day is torn
  latest     \* history: the last value that this connection counted today

memory  == <<counted, fileName>>
history == <<total, lasts, latest>>
vars    == <<service, day, file, memory, history>>

Init ==
  /\ ConnectionInit
  /\ day = 1
  /\ file = [d \in Day |-> 0]
  /\ counted = 0
  /\ fileName = 1
  /\ total = [d \in Day |-> 0]
  /\ lasts = [d \in Day |-> 0]
  /\ latest = 0

-----------------------------------------------------------------------------
(* The connection. *)

Connect == OpenSocket /\ UNCHANGED <<day, file, memory, history>>

\* _connect() goes on with the sum of the day, but fileName may be that of an earlier day.
Accept ==
  /\ Authenticate
  /\ counted' = file[day]
  /\ latest' = 0
  /\ UNCHANGED <<day, file, fileName, total, lasts>>

LoseConnection == Fail /\ UNCHANGED <<day, file, memory, history>>

StopService == Stop /\ UNCHANGED <<day, file, memory, history>>

StartService ==
  /\ Start
  /\ counted' = 0
  /\ fileName' = day
  /\ UNCHANGED <<day, file, history>>

-----------------------------------------------------------------------------
(* A request, in _handle_connection(). *)

\* _update_daily_transactions_limit_file_name().
SumSoFar == IF fileName = day THEN counted ELSE file[day]

UpdateFileName == counted' = SumSoFar /\ fileName' = day

\* Mutant: the transaction itself is not counted.
ExceedsBefore(value) == SumSoFar > DailyLimit

Exceeds(value) == SumSoFar + value > DailyLimit

IsAllowed(value) == service.phase = "connected" /\ ~Exceeds(value)

\* The transaction cannot be built or signed, or the limit would be exceeded.
RejectTransaction ==
  /\ service.phase = "connected"
  /\ UpdateFileName
  /\ UNCHANGED <<service, day, file, history>>

\* _add_payload_value_to_daily_transactions_sum() looks at the clock again, and it may be
\* midnight by then.  The sum in memory is not changed.
WriteSum(value) ==
  /\ day' \in {day, day + 1} \intersect Day
  /\ file' = [file EXCEPT ![day'] = SumSoFar + value]

\* The histories, which the code does not have.
Remember(value) ==
  /\ lasts' = [lasts EXCEPT ![day] = @ - latest + value]
  /\ latest' = IF day' = day THEN value ELSE 0

SignTransaction(value) ==
  /\ IsAllowed(value)
  /\ UpdateFileName
  /\ WriteSum(value)
  /\ Remember(value)
  /\ total[day] < MaxTotal
  /\ total' = [total EXCEPT ![day] = @ + value]
  /\ UNCHANGED service

\* The response cannot be sent any more.
LoseResponse(value) ==
  /\ IsAllowed(value)
  /\ Fail \/ Stop
  /\ UpdateFileName
  /\ WriteSum(value)
  /\ Remember(value)
  /\ UNCHANGED total

\* A crash between the truncation of the file and the write.
TearFile(value) ==
  /\ IsAllowed(value)
  /\ Stop
  /\ UpdateFileName
  /\ file' = [file EXCEPT ![day] = 0]
  /\ lasts' = [lasts EXCEPT ![day] = 0]
  /\ latest' = 0
  /\ UNCHANGED <<day, total>>

-----------------------------------------------------------------------------
PassMidnight ==
  /\ day < MaxDay
  /\ day' = day + 1
  /\ latest' = 0
  /\ UNCHANGED <<service, file, memory, total, lasts>>

\* The steps that sign nothing.
QuietStep ==
  \/ Connect
  \/ Accept
  \/ LoseConnection
  \/ StopService
  \/ StartService
  \/ RejectTransaction
  \/ PassMidnight

Next ==
  \/ QuietStep
  \/ \E value \in Value : SignTransaction(value) \/ LoseResponse(value) \/ TearFile(value)

Spec == Init /\ [][Next]_vars

\* The loop of run() goes on until there is a connection: connecting and the challenge have
\* timeouts.
TryToConnect == Connect \/ Accept \/ (service.phase # "connected" /\ LoseConnection)

FairSpec == Spec /\ WF_vars(TryToConnect)

-----------------------------------------------------------------------------
\* The types of what the signing service keeps.
ServiceTypeOK ==
  /\ ConnectionTypeOK
  /\ day \in Day
  /\ file \in [Day -> Nat]
  /\ counted \in Nat
  /\ fileName \in Day
  /\ total \in [Day -> Nat]
  /\ lasts \in [Day -> Nat]
  /\ latest \in Nat

\* What is signed on a day stays within the limit.  It does not, when a connection signs
\* more than one transaction: the sum in memory stays what it was.
LimitHolds == \A d \in Day : total[d] <= DailyLimit

\* Of what every connection of a day signed the last transaction is counted: together they
\* stay within the limit, over lost connections and responses, restarts and midnight, from
\* where the file was last torn (signing_service.py, _connect() and _handle_connection()).
LatestAreLimited == \A d \in Day : lasts[d] <= DailyLimit

\* The service gets its connection, or gives up.
ServiceDecides ==
  service.phase \in {"down", "authenticating"} ~> service.phase \in {"connected", "stopped"}
=============================================================================
