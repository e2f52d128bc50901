-------------------------- MODULE ControlCluster --------------------------
(***************************************************************************)
(* The control cluster of Concent: the send/ and receive/ endpoints and    *)
(* the Celery tasks of the core application, all working on the control    *)
(* database.                                                               *)
(*                                                                         *)
(* A worker is an HTTP or a Celery worker process.  One action is one      *)
(* database transaction (the code runs every view with                     *)
(* non_atomic_requests and opens each transaction with non_nesting_atomic),*)
(* so whatever the code does between two transactions can be interleaved   *)
(* with the transactions of the other workers, and a crash between them    *)
(* loses the rest of the request.  Row locks taken by select_for_update()  *)
(* and evaluated in the same transaction are the atomicity of the action;  *)
(* the receive/ endpoint evaluates no lock and saves the copies it read.   *)
(*                                                                         *)
(* Bankster is seen through what the subtasks need of it: whether a claim  *)
(* exists, and whether its payment was sent.  Amounts are in Bankster.tla. *)
(***************************************************************************)
EXTENDS SubtaskModel, ClaimModel, Sequences, FiniteSets

CONSTANTS
  Client, Worker,
  RequestorOf,        \* [Subtask -> Client]
  ProviderOf,         \* [Subtask -> Client]
  TaskDeadline,       \* [Subtask -> Nat], compute_task_def['deadline']
  CMT,                \* settings.CONCENT_MESSAGING_TIME
  FAT,                \* settings.FORCE_ACCEPTANCE_TIME
  AVCT,               \* settings.ADDITIONAL_VERIFICATION_CALL_TIME
  MDT,                \* [Package -> Nat], calculate_maximum_download_time
  SVT,                \* [Package -> Nat], calculate_subtask_verification_time
  CVT,                \* [Subtask -> Nat], calculate_concent_verification_time
  MessageKind,        \* bound: the messages clients send in this instance
  CrashPossible,      \* bound: whether workers may die
  ShutdownPossible,   \* bound: whether an administrator may start a soft shutdown
  MaxForcePayments,   \* bound: payments recorded by ForcePayment
  MaxTime             \* bound: the last instant of the clock

Kinds ==
  {"ForceReportComputedTask", "AckReportComputedTask", "RejectReportComputedTask",
   "ForceGetTaskResult", "ForceSubtaskResults", "ForceSubtaskResultsResponse",
   "ForcePayment", "SubtaskResultsVerify"}

ASSUME ControlAssumption ==
  /\ RequestorOf \in [Subtask -> Client]
  /\ ProviderOf \in [Subtask -> Client]
  /\ \A s \in Subtask : RequestorOf[s] # ProviderOf[s]
  /\ TaskDeadline \in [Subtask -> Nat]
  /\ {CMT, FAT, AVCT} \subseteq Nat
  /\ MDT \in [Package -> Nat]
  /\ SVT \in [Package -> Nat]
  /\ CVT \in [Subtask -> Nat]
  /\ {CrashPossible, ShutdownPossible} \subseteq BOOLEAN
  /\ MessageKind \subseteq Kinds
  /\ {MaxForcePayments, MaxTime} \subseteq Nat

VARIABLES
  now,             \* the clock
  row,             \* the Subtask table
  mail,            \* the PendingResponse table, in creation order, by client
  claim,           \* the DepositClaim table: "none", "open" (no tx_hash) or "sent"
  paid,            \* how many payments SCI was asked for, by claim
  asked,           \* the tasks queued for the storage cluster, by subtask
  softShutdown,    \* config.SOFT_SHUTDOWN_MODE
  completionMail,  \* whether the administrators were told that the shutdown is complete
  pc,              \* where each worker is
  job,             \* the request each worker is serving
  copies,          \* the Subtask objects a receive/ request read and has not processed yet
  todo             \* the on_commit callbacks a worker still has to run

controlVars == <<row, mail, claim, paid, asked, completionMail>>
workerVars  == <<pc, job, copies, todo>>
vars == <<now, row, mail, claim, paid, asked, softShutdown, completionMail,
          pc, job, copies, todo>>

-----------------------------------------------------------------------------
(* Deposit claims. *)

\* on_commit callbacks: pay the claim out, or delete it.  "paying" is a
\* finalize_payment() that has read the claim and not yet paid it.
Callback == [act : {"finalize", "paying", "delete"}, key : ClaimKey]

\* Mutant: the callback deletes the claim that it should pay out.
FinalizeDeletes(s, use, payer) == [act |-> "delete", key |-> <<s, use, payer>>]

Finalize(s, use, payer) == [act |-> "finalize", key |-> <<s, use, payer>>]
Delete(s, use, payer)   == [act |-> "delete", key |-> <<s, use, payer>>]

FinalizeBoth(s) == <<Finalize(s, "ADDITIONAL_VERIFICATION", "requestor"),
                     Finalize(s, "ADDITIONAL_VERIFICATION", "provider")>>

\* Mutant: the two claims are swapped.
RefundProvider(s) == <<Delete(s, "ADDITIONAL_VERIFICATION", "provider"),
                       Finalize(s, "ADDITIONAL_VERIFICATION", "requestor")>>

\* The verification failed: the requestor gets his funds back, the provider pays for it.
RefundRequestor(s) == <<Delete(s, "ADDITIONAL_VERIFICATION", "requestor"),
                        Finalize(s, "ADDITIONAL_VERIFICATION", "provider")>>

-----------------------------------------------------------------------------
(* Pending responses. *)

SubtaskResponse ==
  {"ForceReportComputedTask", "ForceReportComputedTaskResponse",
   "VerdictReportComputedTask", "ForceGetTaskResultFailed",
   "ForceGetTaskResultUpload", "ForceGetTaskResultDownload",
   "ForceSubtaskResults", "SubtaskResultsSettled",
   "ForceSubtaskResultsResponse", "SubtaskResultsRejected"}

ResponseType == SubtaskResponse \union {"ForcePaymentCommitted"}

Letter == [type : ResponseType, subtask : Subtask, delivered : BOOLEAN]

Letters(s, types) ==
  [i \in DOMAIN types |-> [type |-> types[i], subtask |-> s, delivered |-> FALSE]]

\* store_pending_message() for the provider and for the requestor of s.
Post(s, toProvider, toRequestor) ==
  mail' = [mail EXCEPT ![ProviderOf[s]]  = @ \o Letters(s, toProvider),
                       ![RequestorOf[s]] = @ \o Letters(s, toRequestor)]

\* Whether handle_messages_from_database() can build the response from the
\* subtask as it is now: a related message it needs may be missing.
Deliverable(type, r) ==
  CASE type \in {"ForceGetTaskResultUpload", "ForceGetTaskResultDownload"} ->
         "force_get_task_result" \in r.messages
    [] type = "ForceSubtaskResults" ->
         "ack_report_computed_task" \in r.messages
    [] type = "ForceSubtaskResultsResponse" ->
         ("subtask_results_accepted" \in r.messages) # ("subtask_results_rejected" \in r.messages)
    [] OTHER -> TRUE

-----------------------------------------------------------------------------
(* Client messages.  Only the fields the handlers branch on are kept: the   *)
(* size class of the nested ReportComputedTask, the verdict, and the       *)
(* timestamp of SubtaskResultsRejected.                                    *)

Choice == {"none", "accepted", "rejected", "SubtaskTimeLimitExceeded", "GotMessageTaskFailure"}

Message == [op : Kinds, subtask : Subtask, package : Package, choice : Choice, ts : Nat]

Msg(op, s, p, choice, ts) ==
  [op |-> op, subtask |-> s, package |-> p, choice |-> choice, ts |-> ts]

Incoming(s) ==
  {Msg(op, s, p, "none", 0) :
     op \in {"ForceReportComputedTask", "AckReportComputedTask", "ForceGetTaskResult",
             "ForceSubtaskResults"}, p \in Package}
  \union
  {Msg("RejectReportComputedTask", s, NoRow.package, c, 0) :
     c \in {"SubtaskTimeLimitExceeded", "GotMessageTaskFailure"}}
  \union
  {Msg("ForceSubtaskResultsResponse", s, NoRow.package, c, 0) : c \in {"accepted", "rejected"}}
  \union
  {Msg("ForcePayment", s, NoRow.package, "none", 0)}
  \union
  {Msg("SubtaskResultsVerify", s, p, "none", t) : p \in Package, t \in 0..now}

Sender(m) ==
  IF m.op \in {"AckReportComputedTask", "RejectReportComputedTask", "ForceGetTaskResult",
               "ForceSubtaskResultsResponse"}
  THEN RequestorOf[m.subtask] ELSE ProviderOf[m.subtask]

(* The requests a worker serves: a client message, a receive/ call, a       *)
(* Celery task, or nothing.                                                *)
Idle       == [op |-> "idle"]
Receive(c) == [op |-> "receive", client |-> c]
Task(s)    == [op |-> "task", subtask |-> s]

Request == Message \union {Idle} \union {Receive(c) : c \in Client} \union {Task(s) : s \in Subtask}

Stage == {"idle", "handle", "claim", "store", "delay", "sweep", "finish"}

NoCopies == [s \in Subtask |-> NoRow]

-----------------------------------------------------------------------------
TypeOK ==
  /\ now \in Nat
  /\ row \in [Subtask -> Row]
  /\ mail \in [Client -> Seq(Letter)]
  /\ claim \in [ClaimKey -> ClaimStatus]
  /\ paid \in [ClaimKey -> Nat]
  /\ asked \in [Subtask -> SUBSET {"result_transfer_request", "blender_verification_request",
                                   "upload_acknowledged"}]
  /\ softShutdown \in BOOLEAN
  /\ completionMail \in BOOLEAN
  /\ pc \in [Worker -> Stage]
  /\ job \in [Worker -> Request]
  /\ copies \in [Worker -> [Subtask -> Row]]
  /\ todo \in [Worker -> Seq(Callback)]

Init ==
  /\ now = 0
  /\ row = [s \in Subtask |-> NoRow]
  /\ mail = [c \in Client |-> <<>>]
  /\ claim = [k \in ClaimKey |-> "none"]
  /\ paid = [k \in ClaimKey |-> 0]
  /\ asked = [s \in Subtask |-> {}]
  /\ softShutdown = FALSE
  /\ completionMail = FALSE
  /\ pc = [w \in Worker |-> "idle"]
  /\ job = [w \in Worker |-> Idle]
  /\ copies = [w \in Worker |-> NoCopies]
  /\ todo = [w \in Worker |-> <<>>]

\* The request of w ends, with a response or with an exception: the objects it
\* holds are gone, and so are callbacks that have not run.
End(w) ==
  /\ pc' = [pc EXCEPT ![w] = "idle"]
  /\ job' = [job EXCEPT ![w] = Idle]
  /\ copies' = [copies EXCEPT ![w] = NoCopies]
  /\ todo' = [todo EXCEPT ![w] = <<>>]

Goto(w, stage) ==
  /\ pc' = [pc EXCEPT ![w] = stage]
  /\ UNCHANGED <<job, copies, todo>>

\* A Celery task commits and goes on with its on_commit callbacks.
Commit(w, s, stage, callbacks) ==
  /\ pc' = [pc EXCEPT ![w] = stage]
  /\ job' = [job EXCEPT ![w] = Task(s)]
  /\ todo' = [todo EXCEPT ![w] = callbacks]
  /\ UNCHANGED copies

Save(s, r) == row' = [row EXCEPT ![s] = r]

\* update_and_return_updated_subtask(): the only save that looks whether a soft
\* shutdown is complete.
SaveUpdated(s, r) ==
  /\ Save(s, r)
  /\ completionMail' = (completionMail \/
       (softShutdown /\ \A t \in Subtask : row'[t].state \notin ActiveStates))

-----------------------------------------------------------------------------
(* Timeouts. *)

\* Mutant: the deadline is not compared with the clock.
AlwaysUp(r) == r.state \in ActiveStates

TimeIsUp(r) == r.state \in ActiveStates /\ r.deadline <= now

TimeoutState(st) ==
  CASE st = "FORCING_REPORT"             -> "REPORTED"
    [] st = "FORCING_RESULT_TRANSFER"    -> "FAILED"
    [] st = "FORCING_ACCEPTANCE"         -> "ACCEPTED"
    [] st = "VERIFICATION_FILE_TRANSFER" -> "FAILED"
    [] st = "ADDITIONAL_VERIFICATION"    -> "ACCEPTED"

\* Mutants: the deadline is not reset; the object is saved as it was read.
KeepDeadline(r, st) == [r EXCEPT !.state = st]
KeepState(r, st) == r

ToPassive(r, st) == WithState(r, st, NULL)

\* _update_timed_out_subtask(): r is the Subtask object, which is saved whole.
\* full_clean() cannot refuse it (SavedRowsAreClean).
UpdateTimedOutSubtask(w, s, r) ==
  /\ Save(s, ToPassive(r, TimeoutState(r.state)))
  /\ CASE r.state = "FORCING_REPORT" ->
            /\ Post(s, <<"ForceReportComputedTaskResponse">>, <<"VerdictReportComputedTask">>)
            /\ UNCHANGED todo
       [] r.state = "FORCING_RESULT_TRANSFER" ->
            /\ Post(s, <<>>, <<"ForceGetTaskResultFailed">>)
            /\ UNCHANGED todo
       [] r.state = "FORCING_ACCEPTANCE" ->
            /\ Post(s, <<"SubtaskResultsSettled">>, <<"SubtaskResultsSettled">>)
            /\ todo' = [todo EXCEPT ![w] = <<Finalize(s, "FORCED_ACCEPTANCE", "requestor")>>]
       [] r.state = "VERIFICATION_FILE_TRANSFER" ->
            /\ Post(s, <<"SubtaskResultsRejected">>, <<"SubtaskResultsRejected">>)
            /\ UNCHANGED todo
       [] r.state = "ADDITIONAL_VERIFICATION" ->
            /\ Post(s, <<"SubtaskResultsSettled">>, <<"SubtaskResultsSettled">>)
            /\ todo' = [todo EXCEPT ![w] = FinalizeBoth(s)]

\* verify_file_status(): only a requestor's call notices that the result is in.
FileIsUploaded(s, r, c) ==
  r.state = "FORCING_RESULT_TRANSFER" /\ RequestorOf[s] = c /\ r.uploaded

VerifyFileStatus(s, r) ==
  /\ Save(s, ToPassive(r, "RESULT_UPLOADED"))
  /\ Post(s, <<>>, <<"ForceGetTaskResultDownload">>)
  /\ UNCHANGED todo

-----------------------------------------------------------------------------
(* send/: the message is preceded by the timeout of its subtask, in a       *)
(* transaction of its own that locks the row.                              *)

PreProcess(w, m) ==
  LET s == m.subtask
      r == row[s]
  IN \/ /\ ~ TimeIsUp(r)
        /\ UNCHANGED <<row, mail, todo>>
     \/ /\ TimeIsUp(r)
        /\ FileIsUploaded(s, r, Sender(m))
        /\ VerifyFileStatus(s, r)
     \/ /\ TimeIsUp(r)
        /\ ~ FileIsUploaded(s, r, Sender(m))
        /\ UpdateTimedOutSubtask(w, s, r)

Send(w) ==
  /\ pc[w] = "idle"
  /\ \E s \in Subtask : \E m \in Incoming(s) :
       /\ m.op \in MessageKind
       /\ PreProcess(w, m)
       /\ pc' = [pc EXCEPT ![w] = "handle"]
       /\ job' = [job EXCEPT ![w] = m]
  /\ UNCHANGED <<now, claim, paid, asked, softShutdown, completionMail, copies>>

\* The instants the handlers compute from the message.
ResultTransferDeadline(m) == TaskDeadline[m.subtask] + 2 * MDT[m.package] + 3 * CMT
VerificationDeadline(m)   == TaskDeadline[m.subtask] + SVT[m.package]
AcceptanceDeadline(m)     == VerificationDeadline(m) + FAT
UploadDeadline(m)         == m.ts + AVCT + MDT[m.package]

(* What each handler asks before it changes anything: the message is in time *)
(* and the subtask in a state that allows it.                               *)
MayForceReport(m, r) == r.state = Unknown /\ now <= TaskDeadline[m.subtask]

MayAcknowledge(m, r) ==
  r.state = "FORCING_REPORT" /\ now <= TaskDeadline[m.subtask] + CMT

\* SubtaskTimeLimitExceeded is not looked at the clock for.
MayReject(m, r) ==
  /\ r.state = "FORCING_REPORT"
  /\ m.choice = "SubtaskTimeLimitExceeded" \/ now <= TaskDeadline[m.subtask] + CMT

MayForceGetTaskResult(m, r) ==
  /\ now <= TaskDeadline[m.subtask] + 2 * CMT + MDT[m.package]
  /\ IsStateTransitionPossible("FORCING_RESULT_TRANSFER", r.state)
  /\ r.state # Unknown => PackageFits(r, m.package)

MayForceAcceptance(m, r) ==
  /\ VerificationDeadline(m) < now /\ now <= AcceptanceDeadline(m)
  /\ IsStateTransitionPossible("FORCING_ACCEPTANCE", r.state)

MayRespond(m, r) ==
  /\ r.state = "FORCING_ACCEPTANCE"
  /\ r.messages \intersect {"subtask_results_accepted", "subtask_results_rejected"} = {}

MayVerify(m, r) ==
  /\ now <= UploadDeadline(m)
  /\ IsStateTransitionPossible("VERIFICATION_FILE_TRANSFER", r.state)

\* handle_message() chooses the handler by the type of the message.
Applies(m, r) ==
  CASE m.op = "ForceReportComputedTask"     -> MayForceReport(m, r)
    [] m.op = "AckReportComputedTask"       -> MayAcknowledge(m, r)
    [] m.op = "RejectReportComputedTask"    -> MayReject(m, r)
    [] m.op = "ForceGetTaskResult"          -> MayForceGetTaskResult(m, r)
    [] m.op = "ForceSubtaskResults"         -> MayForceAcceptance(m, r)
    [] m.op = "ForceSubtaskResultsResponse" -> MayRespond(m, r)
    [] m.op = "ForcePayment"                -> ~ softShutdown
    [] m.op = "SubtaskResultsVerify"        -> MayVerify(m, r)

StoreOrUpdate(r, st, deadline, p, new) ==
  IF r.state = Unknown THEN Stored(st, deadline, p, new) ELSE Updated(r, st, deadline, p, new)

\* The row the handler saves: the arguments it passes to store_subtask() or to
\* update_and_return_updated_subtask().
Result(m, r) ==
  CASE m.op = "ForceReportComputedTask" ->
         Stored("FORCING_REPORT", TaskDeadline[m.subtask] + CMT, m.package, {})
    [] m.op = "AckReportComputedTask" ->
         Updated(r, "REPORTED", NULL, m.package, {"ack_report_computed_task"})
    [] m.op = "RejectReportComputedTask" ->
         Updated(r, IF m.choice = "SubtaskTimeLimitExceeded" THEN "REPORTED" ELSE "FAILED",
                 NULL, r.package, {"reject_report_computed_task"})
    [] m.op = "ForceGetTaskResult" ->
         StoreOrUpdate(r, "FORCING_RESULT_TRANSFER", ResultTransferDeadline(m), m.package,
                       {"force_get_task_result"})
    [] m.op = "ForceSubtaskResults" ->
         StoreOrUpdate(r, "FORCING_ACCEPTANCE", AcceptanceDeadline(m) + CMT, m.package,
                       {"ack_report_computed_task"})
    [] m.op = "ForceSubtaskResultsResponse" ->
         IF m.choice = "accepted"
         THEN Updated(r, "ACCEPTED", NULL, r.package, {"subtask_results_accepted"})
         ELSE Updated(r, "REJECTED", NULL, r.package, {"subtask_results_rejected"})
    [] m.op = "SubtaskResultsVerify" ->
         StoreOrUpdate(r, "VERIFICATION_FILE_TRANSFER", UploadDeadline(m), m.package,
                       {"subtask_results_rejected", "subtask_results_verify"})
    [] OTHER -> r

\* full_clean() accepts what the handler saves.
Saves(m, r) == Clean(r.state, Result(m, r), softShutdown)

\* What the handlers that open their transaction at once accept.
Accepts(m, r) ==
  /\ Applies(m, r)
  /\ m.op \notin {"ForceSubtaskResults", "SubtaskResultsVerify", "ForcePayment"} => Saves(m, r)

\* The second transaction of the handlers that claim a deposit first: nothing
\* but full_clean() looks at the state again.
StoreAccepts(m, r) ==
  /\ r.state # Unknown => PackageFits(r, m.package)
  /\ Saves(m, r)

Handling(w, kind) == pc[w] = "handle" /\ todo[w] = <<>> /\ job[w].op = kind

Refuse(w) ==
  /\ \/ /\ pc[w] = "handle" /\ todo[w] = <<>>
        /\ ~ Accepts(job[w], row[job[w].subtask])
     \/ /\ pc[w] = "store"
        /\ ~ StoreAccepts(job[w], row[job[w].subtask])
  /\ End(w)
  /\ UNCHANGED <<now, softShutdown, controlVars>>

ForceReportComputedTask(w) ==
  LET m == job[w]  s == m.subtask IN
  /\ Handling(w, "ForceReportComputedTask")
  /\ Accepts(m, row[s])
  /\ Save(s, Result(m, row[s]))
  /\ Post(s, <<>>, <<"ForceReportComputedTask">>)
  /\ End(w)
  /\ UNCHANGED <<now, claim, paid, asked, softShutdown, completionMail>>

AckReportComputedTask(w) ==
  LET m == job[w]  s == m.subtask IN
  /\ Handling(w, "AckReportComputedTask")
  /\ Accepts(m, row[s])
  /\ SaveUpdated(s, Result(m, row[s]))
  /\ Post(s, <<"ForceReportComputedTaskResponse">>, <<>>)
  /\ End(w)
  /\ UNCHANGED <<now, claim, paid, asked, softShutdown>>

RejectReportComputedTask(w) ==
  LET m == job[w]  s == m.subtask IN
  /\ Handling(w, "RejectReportComputedTask")
  /\ Accepts(m, row[s])
  /\ SaveUpdated(s, Result(m, row[s]))
  /\ Post(s, <<"ForceReportComputedTaskResponse">>,
          IF m.choice = "SubtaskTimeLimitExceeded" THEN <<"VerdictReportComputedTask">> ELSE <<>>)
  /\ End(w)
  /\ UNCHANGED <<now, claim, paid, asked, softShutdown>>

\* store_subtask() does not look for the end of a soft shutdown, the update does.
SaveStoredOrUpdated(s, r) ==
  \/ row[s].state = Unknown /\ Save(s, r) /\ UNCHANGED completionMail
  \/ row[s].state # Unknown /\ SaveUpdated(s, r)

ForceGetTaskResult(w) ==
  LET m == job[w]  s == m.subtask IN
  /\ Handling(w, "ForceGetTaskResult")
  /\ Accepts(m, row[s])
  /\ SaveStoredOrUpdated(s, Result(m, row[s]))
  /\ Post(s, <<"ForceGetTaskResultUpload">>, <<>>)
  /\ Goto(w, "delay")
  /\ UNCHANGED <<now, claim, paid, asked, softShutdown>>

\* ForceSubtaskResults and SubtaskResultsVerify: the state is read without a lock...
CheckBeforeClaim(w) ==
  /\ \E kind \in {"ForceSubtaskResults", "SubtaskResultsVerify"} : Handling(w, kind)
  /\ Accepts(job[w], row[job[w].subtask])
  /\ Goto(w, "claim")
  /\ UNCHANGED <<now, softShutdown, controlVars>>

\* Mutant: the use cases are swapped.
OtherUseCaseOf(m) ==
  IF m.op = "ForceSubtaskResults" THEN "ADDITIONAL_VERIFICATION" ELSE "FORCED_ACCEPTANCE"

UseCaseOf(m) ==
  IF m.op = "ForceSubtaskResults" THEN "FORCED_ACCEPTANCE" ELSE "ADDITIONAL_VERIFICATION"

\* ... bankster.claim_deposit() in a transaction of its own; a claim that exists
\* already makes full_clean() fail and the transaction is rolled back ...
ClaimDeposit(w) ==
  LET new == ClaimsOf(job[w].subtask, UseCaseOf(job[w])) IN
  /\ pc[w] = "claim"
  /\ \A k \in new : claim[k] = "none"
  /\ claim' = [k \in ClaimKey |-> IF k \in new THEN "open" ELSE claim[k]]
  /\ Goto(w, "store")
  /\ UNCHANGED <<now, row, mail, paid, asked, softShutdown, completionMail>>

\* ... a deposit may be too small, or a claim already there ...
ClaimRefused(w) ==
  /\ pc[w] = "claim"
  /\ End(w)
  /\ UNCHANGED <<now, softShutdown, controlVars>>

\* ... and the row is locked, read again and saved, in a third transaction.
StoreForceSubtaskResults(w) ==
  LET m == job[w]  s == m.subtask IN
  /\ pc[w] = "store" /\ m.op = "ForceSubtaskResults"
  /\ StoreAccepts(m, row[s])
  /\ SaveStoredOrUpdated(s, Result(m, row[s]))
  /\ Post(s, <<>>, <<"ForceSubtaskResults">>)
  /\ End(w)
  /\ UNCHANGED <<now, claim, paid, asked, softShutdown>>

StoreSubtaskResultsVerify(w) ==
  LET m == job[w]  s == m.subtask IN
  /\ pc[w] = "store" /\ m.op = "SubtaskResultsVerify"
  /\ StoreAccepts(m, row[s])
  /\ SaveStoredOrUpdated(s, Result(m, row[s]))
  /\ Goto(w, "delay")
  /\ UNCHANGED <<now, mail, claim, paid, asked, softShutdown>>

\* discard_claim() removes a claim only when its payment was sent.
Discarded(k) == IF claim[k] = "sent" THEN [claim EXCEPT ![k] = "none"] ELSE claim

\* The claim is looked up by the provider's address.
ForceSubtaskResultsResponse(w) ==
  LET m == job[w]  s == m.subtask IN
  /\ Handling(w, "ForceSubtaskResultsResponse")
  /\ Accepts(m, row[s])
  /\ claim' = Discarded(<<s, "FORCED_ACCEPTANCE", "provider">>)
  /\ SaveUpdated(s, Result(m, row[s]))
  /\ Post(s, <<"ForceSubtaskResultsResponse">>, <<>>)
  /\ End(w)
  /\ UNCHANGED <<now, paid, asked, softShutdown>>

Payments(c) == {i \in DOMAIN mail[c] : mail[c][i].type = "ForcePaymentCommitted"}

\* bankster.settle_overdue_acceptances() is in Bankster.tla; what is left of it
\* here is that it may refuse, and the message to the requestor.
ForcePayment(w) ==
  LET m == job[w]  s == m.subtask IN
  /\ Handling(w, "ForcePayment")
  /\ Accepts(m, row[s])
  /\ \/ UNCHANGED mail
     \/ /\ Cardinality(Payments(RequestorOf[s])) < MaxForcePayments
        /\ Post(s, <<>>, <<"ForcePaymentCommitted">>)
  /\ End(w)
  /\ UNCHANGED <<now, row, claim, paid, asked, softShutdown, completionMail>>

\* The .delay() call that follows the commit.
TaskFor(req) ==
  CASE req.op = "ForceGetTaskResult"   -> "result_transfer_request"
    [] req.op = "SubtaskResultsVerify" -> "blender_verification_request"
    [] OTHER                           -> "upload_acknowledged"

Delay(w) ==
  /\ pc[w] = "delay"
  /\ asked' = [asked EXCEPT ![job[w].subtask] = @ \union {TaskFor(job[w])}]
  /\ End(w)
  /\ UNCHANGED <<now, row, mail, claim, paid, softShutdown, completionMail>>

-----------------------------------------------------------------------------
(* receive/: the client's active subtasks are read once, then processed one *)
(* by one; the lock in update_all_timed_out_subtasks_of_a_client() is a     *)
(* query set nobody evaluates, so the copies may be old when they are saved.*)

\* Mutant: a subtask that waits for files is not looked at.
SweptUnlessUploading(c, s) ==
  /\ c \in {RequestorOf[s], ProviderOf[s]}
  /\ row[s].state \in ActiveStates \ {"VERIFICATION_FILE_TRANSFER"}

SweptFor(c, s) == c \in {RequestorOf[s], ProviderOf[s]} /\ row[s].state \in ActiveStates

StartReceive(w, c) ==
  /\ pc[w] = "idle"
  /\ pc' = [pc EXCEPT ![w] = "sweep"]
  /\ job' = [job EXCEPT ![w] = Receive(c)]
  /\ copies' = [copies EXCEPT ![w] =
       [s \in Subtask |-> IF SweptFor(c, s) THEN row[s] ELSE NoRow]]
  /\ UNCHANGED <<now, softShutdown, todo, controlVars>>

SweepSubtask(w, s) ==
  LET r == copies[w][s] IN
  /\ pc[w] = "sweep" /\ todo[w] = <<>>
  /\ r.state # Unknown
  /\ \/ FileIsUploaded(s, r, job[w].client) /\ VerifyFileStatus(s, r)
     \/ /\ ~ FileIsUploaded(s, r, job[w].client)
        /\ TimeIsUp(r)
        /\ UpdateTimedOutSubtask(w, s, r)
     \/ /\ ~ FileIsUploaded(s, r, job[w].client)
        /\ ~ TimeIsUp(r)
        /\ UNCHANGED <<row, mail, todo>>
  /\ copies' = [copies EXCEPT ![w][s] = NoRow]
  /\ UNCHANGED <<now, claim, paid, asked, softShutdown, completionMail, pc, job>>

\* handle_messages_from_database(): the oldest undelivered payment response and
\* the oldest undelivered subtask response; of the two, the newer one.
Undelivered(c, types) ==
  {i \in DOMAIN mail[c] : mail[c][i].type \in types /\ ~ mail[c][i].delivered}

Oldest(I) == CHOOSE i \in I : \A j \in I : i <= j

NextLetter(c) ==
  LET payments  == Undelivered(c, {"ForcePaymentCommitted"})
      responses == Undelivered(c, SubtaskResponse)
  IN IF payments # {} /\ responses # {}
     THEN IF Oldest(payments) > Oldest(responses) THEN Oldest(payments) ELSE Oldest(responses)
     ELSE Oldest(payments \union responses)

Deliver(w) ==
  LET c == job[w].client IN
  /\ pc[w] = "sweep" /\ todo[w] = <<>> /\ copies[w] = NoCopies
  /\ \/ /\ Undelivered(c, ResponseType) # {}
        /\ LET i == NextLetter(c) IN
             IF Deliverable(mail[c][i].type, row[mail[c][i].subtask])
             THEN mail' = [mail EXCEPT ![c][i].delivered = TRUE]
             ELSE UNCHANGED mail
     \/ Undelivered(c, ResponseType) = {} /\ UNCHANGED mail
  /\ End(w)
  /\ UNCHANGED <<now, row, claim, paid, asked, softShutdown, completionMail>>

-----------------------------------------------------------------------------
(* Celery tasks called by the storage cluster and the verifier.  They may   *)
(* come late, more than once or never.  A nowait lock that is taken makes   *)
(* the task come later or never, which is one of those cases.               *)

UploadFinished(w, s) ==
  LET r == row[s] IN
  /\ pc[w] = "idle"
  /\ "blender_verification_request" \in asked[s]
  /\ r.state = "VERIFICATION_FILE_TRANSFER"
  /\ \/ /\ r.deadline < now
        /\ Save(s, ToPassive(r, "FAILED"))
        /\ Post(s, <<"SubtaskResultsSettled">>, <<"SubtaskResultsSettled">>)
        /\ Commit(w, s, "finish", FinalizeBoth(s))
     \/ /\ r.deadline >= now
        /\ LET new == WithState(r, "ADDITIONAL_VERIFICATION", r.deadline + CVT[s]) IN
             /\ Clean(r.state, new, softShutdown)
             /\ Save(s, new)
        /\ Commit(w, s, "delay", <<>>)
        /\ UNCHANGED mail
  /\ UNCHANGED <<now, claim, paid, asked, softShutdown, completionMail>>

Settle(w, s) ==
  /\ Save(s, ToPassive(row[s], "ACCEPTED"))
  /\ Post(s, <<"SubtaskResultsSettled">>, <<"SubtaskResultsSettled">>)
  /\ Commit(w, s, "finish", FinalizeBoth(s))

VerificationResult(w, s, result) ==
  /\ pc[w] = "idle"
  /\ "upload_acknowledged" \in asked[s]
  /\ row[s].state = "ADDITIONAL_VERIFICATION"
  /\ \/ /\ row[s].deadline < now \/ result \in {"MATCH", "ERROR"}
        /\ Settle(w, s)
     \/ /\ row[s].deadline >= now /\ result = "MISMATCH"
        /\ Save(s, ToPassive(row[s], "FAILED"))
        /\ Post(s, <<"SubtaskResultsRejected">>, <<"SubtaskResultsRejected">>)
        /\ Commit(w, s, "finish", RefundRequestor(s))
  /\ UNCHANGED <<now, claim, paid, asked, softShutdown, completionMail>>

ResultUploadFinished(s) ==
  LET new == [row[s] EXCEPT !.uploaded = TRUE] IN
  /\ "result_transfer_request" \in asked[s]
  /\ row[s].state \notin {"REPORTED", "FORCING_REPORT"}
  /\ Clean(row[s].state, new, softShutdown)
  /\ Save(s, new)
  /\ UNCHANGED <<now, mail, claim, paid, asked, softShutdown, completionMail, workerVars>>

-----------------------------------------------------------------------------
(* on_commit callbacks. *)

\* The first callback is done; a Celery task with nothing left to do ends.
Done(w) ==
  IF pc[w] = "finish" /\ Tail(todo[w]) = <<>>
  THEN End(w)
  ELSE todo' = [todo EXCEPT ![w] = Tail(@)] /\ UNCHANGED <<pc, job, copies>>

\* delete_deposit_claim(), then discard_claim().
DeleteDepositClaim(w) ==
  /\ todo[w] # <<>> /\ Head(todo[w]).act = "delete"
  /\ claim' = Discarded(Head(todo[w]).key)
  /\ Done(w)
  /\ UNCHANGED <<now, row, mail, paid, asked, softShutdown, completionMail>>

\* finalize_deposit_claim() reads the claim, and finalize_payment() asserts that
\* it has no transaction yet: the request fails if it has.
ReadClaim(w) ==
  /\ todo[w] # <<>> /\ Head(todo[w]).act = "finalize"
  /\ CASE claim[Head(todo[w]).key] = "none" -> Done(w)
       [] claim[Head(todo[w]).key] = "sent" -> End(w)
       [] claim[Head(todo[w]).key] = "open" ->
            /\ todo' = [todo EXCEPT ![w] =
                          <<[act |-> "paying", key |-> Head(@).key]>> \o Tail(@)]
            /\ UNCHANGED <<pc, job, copies>>
  /\ UNCHANGED <<now, softShutdown, controlVars>>

\* The rest of finalize_payment(): nothing is left in the deposit and the claim is
\* removed, or SCI is asked for the payment and the claim is saved with its hash.
PayClaim(w) ==
  LET k == Head(todo[w]).key IN
  /\ todo[w] # <<>> /\ Head(todo[w]).act = "paying"
  /\ \/ /\ claim' = [claim EXCEPT ![k] = "none"]
        /\ UNCHANGED paid
     \/ /\ claim' = [claim EXCEPT ![k] = "sent"]
        /\ paid' = [paid EXCEPT ![k] = @ + 1]
  /\ Done(w)
  /\ UNCHANGED <<now, row, mail, asked, softShutdown, completionMail>>

\* The transaction is confirmed on the blockchain and SCI calls discard_claim().
ConfirmPayment(k) ==
  /\ claim[k] = "sent"
  /\ claim' = Discarded(k)
  /\ UNCHANGED <<now, row, mail, paid, asked, softShutdown, completionMail, workerVars>>

-----------------------------------------------------------------------------
(* The environment. *)

Tick ==
  /\ now < MaxTime
  /\ now' = now + 1
  /\ UNCHANGED <<softShutdown, controlVars, workerVars>>

Crash(w) ==
  /\ CrashPossible
  /\ pc[w] # "idle"
  /\ End(w)
  /\ UNCHANGED <<now, softShutdown, controlVars>>

StartSoftShutdown ==
  /\ ShutdownPossible /\ ~ softShutdown
  /\ softShutdown' = TRUE
  /\ UNCHANGED <<now, controlVars, workerVars>>

\* What a worker does with the request it has, as opposed to taking a new one.
Proceed(w) ==
  \/ Refuse(w)
  \/ ForceReportComputedTask(w) \/ AckReportComputedTask(w) \/ RejectReportComputedTask(w)
  \/ ForceGetTaskResult(w)
  \/ CheckBeforeClaim(w) \/ ClaimDeposit(w) \/ ClaimRefused(w)
  \/ StoreForceSubtaskResults(w) \/ StoreSubtaskResultsVerify(w)
  \/ ForceSubtaskResultsResponse(w) \/ ForcePayment(w)
  \/ Delay(w)
  \/ \E s \in Subtask : SweepSubtask(w, s)
  \/ Deliver(w)
  \/ DeleteDepositClaim(w) \/ ReadClaim(w) \/ PayClaim(w)

Next ==
  \/ \E w \in Worker :
       \/ Send(w)
       \/ \E c \in Client : StartReceive(w, c)
       \/ \E s \in Subtask :
            \/ UploadFinished(w, s)
            \/ \E result \in {"MATCH", "MISMATCH", "ERROR"} : VerificationResult(w, s, result)
       \/ Proceed(w)
       \/ Crash(w)
  \/ \E s \in Subtask : ResultUploadFinished(s)
  \/ \E k \in ClaimKey : ConfirmPayment(k)
  \/ Tick
  \/ StartSoftShutdown

Spec == Init /\ [][Next]_vars

-----------------------------------------------------------------------------
(* The behaviours in which a receive/ request saves what it read: no row     *)
(* changes, and no second request reads it, while a request holds a copy of *)
(* it.  This is what the lock in update_all_timed_out_subtasks_of_a_client()*)
(* would give if it were taken when the subtasks are read.                  *)
Holds(w, s) == copies[w][s].state # Unknown

FreshCopies ==
  \A w \in Worker, s \in Subtask :
    Holds(w, s) => /\ copies[w][s] = row[s]
                   /\ \A v \in Worker \ {w} : ~ Holds(v, s)

RaceFreeNext == Next /\ FreshCopies'

RaceFreeSpec == Init /\ [][RaceFreeNext]_vars

\* Workers finish the requests they take, the clock goes on, and clients come
\* back to fetch their messages: nothing else makes Concent look at a deadline.
Fairness ==
  /\ \A w \in Worker : WF_vars(Proceed(w))
  /\ WF_vars(Tick)
  /\ \A c \in Client : SF_vars(\E w \in Worker : StartReceive(w, c))

FairSpec == Spec /\ Fairness

-----------------------------------------------------------------------------
(* Properties. *)

\* The table implements the lifecycle that the model promises.
StateColumn == [s \in Subtask |-> row[s].state]

Lifecycle == INSTANCE SubtaskLifecycle WITH state <- StateColumn

\* Subtasks move only along POSSIBLE_TRANSITIONS_TO, one in a step: clean() checks
\* each save against the state its object was read in, the rule is about the state
\* in the table (models.py, Subtask.POSSIBLE_TRANSITIONS_TO).
ImplementsLifecycle == Lifecycle!Spec

Claims == INSTANCE ClaimLifecycle WITH status <- claim

\* The core and Bankster agree on the life of a claim: the claims of a use case are made
\* together, each is paid or given up once, and freed when it was paid (bankster.py).
ImplementsClaims == Claims!Spec

\* Whatever the handlers, the tasks and the timeouts do, and even when an old copy
\* is saved, the rows in the table satisfy the rules that clean() enforces on the
\* object being saved (models.py, Subtask.clean).
SavedRowsAreClean ==
  \A s \in Subtask :
    /\ DeadlineMatchesState(row[s])
    /\ row[s].state # Unknown => AckOrReject(row[s]) /\ MessagesMatchState(row[s])

\* Concent never waits in a state whose timeout pays from a deposit without
\* holding the claims for it: the claim is made before the state is entered, in
\* another transaction, and may only go after the state is left.
ActiveStateIsBacked ==
  \A s \in Subtask :
    /\ row[s].state = "FORCING_ACCEPTANCE"
         => \A k \in ClaimsOf(s, "FORCED_ACCEPTANCE") : claim[k] = "open"
    /\ row[s].state \in {"VERIFICATION_FILE_TRANSFER", "ADDITIONAL_VERIFICATION"}
         => \A k \in ClaimsOf(s, "ADDITIONAL_VERIFICATION") : claim[k] = "open"

\* A claim is paid at most once, whichever of the timeout, the late upload, the
\* verification result and the two clients' receive/ calls ends the use case.
PaidAtMostOnce == \A k \in ClaimKey : paid[k] <= 1

Posted(c, s, types) == {i \in DOMAIN mail[c] : mail[c][i].subtask = s /\ mail[c][i].type \in types}

\* Each client is given at most one verdict on the results of a subtask, settled or
\* rejected, although five different transactions can give it.
OneVerdict ==
  \A s \in Subtask, c \in Client :
    Cardinality(Posted(c, s, {"SubtaskResultsSettled", "SubtaskResultsRejected"})) <= 1

\* A requestor who is told that the results were rejected does not pay for them out
\* of the claim made for the verification.
RejectedIsNotCharged ==
  \A s \in Subtask :
    Posted(RequestorOf[s], s, {"SubtaskResultsRejected"}) # {}
      => paid[<<s, "ADDITIONAL_VERIFICATION", "requestor">>] = 0

\* Every undelivered response can be built from the subtask as it is now: a response
\* that cannot be built fails at each receive/ call and blocks the ones behind it.
MailIsDeliverable ==
  \A c \in Client : \A i \in Undelivered(c, ResponseType) :
    Deliverable(mail[c][i].type, row[mail[c][i].subtask])

\* A client's silence is held against it only once the deadline has come: a state that
\* waits for a client (ADDITIONAL_VERIFICATION waits for the verifier) is left for the
\* state of its timeout, with no new message from the client, only from then on.
SilenceHasUntilDeadline ==
  [][\A s \in Subtask :
       /\ row[s].state \in ActiveStates \ {"ADDITIONAL_VERIFICATION"}
       /\ row'[s].state = TimeoutState(row[s].state)
       /\ row'[s].messages = row[s].messages
       => row[s].deadline <= now]_vars

\* A deadline that has come is noticed, as long as the clients keep calling receive/: the
\* subtask becomes passive, or gets a new deadline because the files came just in time.
TimeoutsAreProcessed == \A s \in Subtask : TimeIsUp(row[s]) ~> ~ TimeIsUp(row[s])

\* A client that keeps calling receive/ empties its mailbox again and again: no response,
\* of a payment or of a subtask, is held back for ever by another one.
MailIsDelivered == \A c \in Client : []<>(Undelivered(c, ResponseType) = {})

\* The use case whose claim pays for the settled results of s.
SettledBy(s) ==
  IF "subtask_results_verify" \in row[s].messages THEN "ADDITIONAL_VERIFICATION"
                                                  ELSE "FORCED_ACCEPTANCE"

\* When the provider has been told that the results are settled, the claim against the
\* requestor that pays for them is paid out or given up: it does not stay open for ever.
SettledIsPaidFor ==
  \A s \in Subtask :
    Posted(ProviderOf[s], s, {"SubtaskResultsSettled"}) # {}
      ~> claim[<<s, SettledBy(s), "requestor">>] # "open"
=============================================================================
