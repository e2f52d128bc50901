------------------------------ MODULE Conductor ------------------------------
(***************************************************************************)
(* The storage cluster: the conductor (concent_api/conductor), which finds *)
(* out when all files of a subtask are uploaded, and the verifier          *)
(* (concent_api/verifier).                                                 *)
(*                                                                         *)
(* nginx reports each uploaded file to report_upload(); the core asks for  *)
(* a verification, or for the transfer of a result, through Celery.  The   *)
(* two may come in any order and at the same time, and each is a database  *)
(* transaction at the isolation level read committed.  An action is a part *)
(* of a transaction that reads, or its commit: what it writes is seen by   *)
(* nobody else before.  The core and nginx are external.                   *)
(*                                                                         *)
(* Every subtask has a source file and a result file of its own.           *)
(***************************************************************************)
EXTENDS Integers, Sequences, FiniteSets

CONSTANTS
  Subtask,
  Worker,      \* the processes of the conductor, web and Celery workers
  NULL,
  MaxReports   \* bound: the reports of a file

ASSUME ConductorAssumption ==
  /\ NULL \notin [finished : BOOLEAN, acknowledged : BOOLEAN] \union [finished : BOOLEAN]
  /\ MaxReports \in Nat

VARIABLES
  request,   \* VerificationRequest: upload_finished and upload_acknowledged
  transfer,  \* ResultTransferRequest: upload_finished
  reports,   \* how many UploadReports of a file have a verification_request or have none
  step,      \* where each process is
  orders,    \* the blender_verification_orders in the queue
  verifier,  \* where the verifier is
  sent,      \* how many Celery calls of each kind were made
  lost       \* history: the calls that died with a process

vars == <<request, transfer, reports, step, orders, verifier, sent, lost>>

-----------------------------------------------------------------------------
File == Subtask \X {"source", "result"}
SubtaskOf(f) == f[1]
IsResult(f) == f[2] = "result"
Other(f) == <<f[1], IF f[2] = "source" THEN "result" ELSE "source">>
Source(s) == <<s, "source">>
Result(s) == <<s, "result">>

Call == {"upload_finished", "result_upload_finished", "blender_verification_order",
         "verification_result"} \X Subtask

IsReported(f) == reports[f].linked + reports[f].unlinked > 0
IsLinked(f) == reports[f].linked > 0

Idle == [op |-> "idle"]
Goto(w, s) == step' = [step EXCEPT ![w] = s]

\* on_commit() callbacks, in the order in which they were registered.
Callbacks(w, calls) == Goto(w, [op |-> "callbacks", calls |-> calls])

\* report_upload() keeps the lock of the VerificationRequest that it has found.
LockedBy(w, s) ==
  /\ step[w].op \in {"find", "check", "commit"}
  /\ SubtaskOf(step[w].file) = s
  /\ step[w].found

IsFree(s) == \A w \in Worker : ~LockedBy(w, s)

Init ==
  /\ request = [s \in Subtask |-> NULL]
  /\ transfer = [s \in Subtask |-> NULL]
  /\ reports = [f \in File |-> [linked |-> 0, unlinked |-> 0]]
  /\ step = [w \in Worker |-> Idle]
  /\ orders = [s \in Subtask |-> 0]
  /\ verifier = Idle
  /\ sent = [c \in Call |-> 0]
  /\ lost = {}

-----------------------------------------------------------------------------
(* report_upload(). *)

FindRequest(w, f) ==
  /\ step[w] = Idle
  /\ reports[f].linked + reports[f].unlinked < MaxReports
  /\ IsFree(SubtaskOf(f))
  /\ Goto(w, [op |-> "find", file |-> f, found |-> request[SubtaskOf(f)] # NULL])
  /\ UNCHANGED <<request, transfer, reports, orders, verifier, sent, lost>>

\* Mutant: every report of a file of a complete request finishes it.
AllReported(f) == IsLinked(Other(f))

\* The report being written is the first of its file.
AllExpected(f) == IsLinked(Other(f)) /\ ~IsLinked(f)

NeedsCall(f) ==
  /\ IsResult(f)
  /\ transfer[SubtaskOf(f)] # NULL
  /\ ~transfer[SubtaskOf(f)].finished

\* The reports are counted and the ResultTransferRequest is read; update_upload_report()
\* goes on if there is one.
FindTransferRequest(w) ==
  LET f == step[w].file
      complete == step[w].found /\ AllExpected(f)
      call == NeedsCall(f)
  IN
  /\ step[w].op = "find"
  /\ Goto(w, [op |-> IF call THEN "check" ELSE "commit", file |-> f,
              found |-> step[w].found, complete |-> complete, call |-> call])
  /\ UNCHANGED <<request, transfer, reports, orders, verifier, sent, lost>>

\* "It should not happen": a transfer and an unfinished verification of one file.
IsInitiated(s) == request[s] # NULL /\ ~request[s].finished

CheckRequest(w) ==
  LET s == SubtaskOf(step[w].file) IN
  /\ step[w].op = "check"
  /\ IF IsInitiated(s) /\ ~step[w].complete
       THEN Goto(w, Idle)
       ELSE Goto(w, [step[w] EXCEPT !.op = "commit"])
  /\ UNCHANGED <<request, transfer, reports, orders, verifier, sent, lost>>

\* Mutant: on_commit() is forgotten.
NoCall(condition, kind, s) == <<>>

CallIf(condition, kind, s) == IF condition THEN << <<kind, s>> >> ELSE <<>>

CommitReport(w) ==
  LET f == step[w].file
      s == SubtaskOf(f)
      complete == step[w].complete
      call == step[w].call
  IN
  /\ step[w].op = "commit"
  /\ reports' = IF step[w].found
                  THEN [reports EXCEPT ![f].linked = @ + 1]
                  ELSE [reports EXCEPT ![f].unlinked = @ + 1]
  /\ request' = IF complete THEN [request EXCEPT ![s].finished = TRUE] ELSE request
  /\ transfer' = IF call THEN [transfer EXCEPT ![s].finished = TRUE] ELSE transfer
  /\ Callbacks(w, CallIf(complete, "upload_finished", s)
                  \o CallIf(call, "result_upload_finished", s))
  /\ UNCHANGED <<orders, verifier, sent, lost>>

-----------------------------------------------------------------------------
(* blender_verification_request(). *)

\* The request is inserted, and the reports of the source file are linked with it.
LinkSource(w, s) ==
  /\ step[w] = Idle
  /\ request[s] = NULL
  /\ Goto(w, [op |-> "link", subtask |-> s, source |-> reports[Source(s)].unlinked])
  /\ UNCHANGED <<request, transfer, reports, orders, verifier, sent, lost>>

LinkResult(w) ==
  LET s == step[w].subtask IN
  /\ step[w].op = "link"
  /\ Goto(w, [op |-> "request", subtask |-> s, source |-> step[w].source,
              result |-> reports[Result(s)].unlinked])
  /\ UNCHANGED <<request, transfer, reports, orders, verifier, sent, lost>>

Link(f, n) == [linked |-> reports[f].linked + n, unlinked |-> reports[f].unlinked - n]

\* Mutant: one file is enough.
AnyFile(source, result) == source > 0 \/ result > 0

AllFiles(source, result) == source > 0 /\ result > 0

UniquePath(s) == request[s] = NULL

\* Of two requests for a subtask one fails.
CommitRequest(w) ==
  LET s == step[w].subtask
      complete == AllFiles(step[w].source, step[w].result)
  IN
  /\ step[w].op = "request"
  /\ UniquePath(s)
  /\ request' = [request EXCEPT ![s] = [finished |-> complete, acknowledged |-> FALSE]]
  /\ reports' = [reports EXCEPT ![Source(s)] = Link(Source(s), step[w].source),
                                ![Result(s)] = Link(Result(s), step[w].result)]
  /\ Callbacks(w, CallIf(complete, "upload_finished", s))
  /\ UNCHANGED <<transfer, orders, verifier, sent, lost>>

-----------------------------------------------------------------------------
(* result_transfer_request(). *)

StartTransfer(w, s) ==
  LET call == IsReported(Result(s)) IN
  /\ step[w] = Idle
  /\ transfer[s] = NULL
  /\ Goto(w, [op |-> IF call THEN "checkTransfer" ELSE "transfer", subtask |-> s, call |-> call])
  /\ UNCHANGED <<request, transfer, reports, orders, verifier, sent, lost>>

CheckTransfer(w) ==
  /\ step[w].op = "checkTransfer"
  /\ IF IsInitiated(step[w].subtask)
       THEN Goto(w, Idle)
       ELSE Goto(w, [step[w] EXCEPT !.op = "transfer"])
  /\ UNCHANGED <<request, transfer, reports, orders, verifier, sent, lost>>

CommitTransfer(w) ==
  LET s == step[w].subtask IN
  /\ step[w].op = "transfer"
  /\ transfer[s] = NULL
  /\ transfer' = [transfer EXCEPT ![s] = [finished |-> step[w].call]]
  /\ Callbacks(w, CallIf(step[w].call, "result_upload_finished", s))
  /\ UNCHANGED <<request, reports, orders, verifier, sent, lost>>

-----------------------------------------------------------------------------
(* upload_acknowledged(), which the core calls after upload_finished(). *)

\* Mutant: a second acknowledgement is not refused.
Requested(s) == request[s] # NULL

IsNotAcknowledged(s) == request[s] # NULL /\ ~request[s].acknowledged

UploadAcknowledged(w, s) ==
  /\ step[w] = Idle
  /\ sent[<<"upload_finished", s>>] > 0
  /\ IsFree(s)
  /\ IsNotAcknowledged(s)
  /\ request' = [request EXCEPT ![s].acknowledged = TRUE]
  /\ Callbacks(w, << <<"blender_verification_order", s>> >>)
  /\ UNCHANGED <<transfer, reports, orders, verifier, sent, lost>>

-----------------------------------------------------------------------------
(* The end of a transaction. *)

Delay(w) ==
  LET call == Head(step[w].calls) IN
  /\ step[w].op = "callbacks"
  /\ step[w].calls # <<>>
  /\ sent' = [sent EXCEPT ![call] = @ + 1]
  /\ orders' = IF call[1] = "blender_verification_order"
                 THEN [orders EXCEPT ![call[2]] = @ + 1] ELSE orders
  /\ Callbacks(w, Tail(step[w].calls))
  /\ UNCHANGED <<request, transfer, reports, verifier, lost>>

Done(w) ==
  /\ step[w].op = "callbacks"
  /\ step[w].calls = <<>>
  /\ Goto(w, Idle)
  /\ UNCHANGED <<request, transfer, reports, orders, verifier, sent, lost>>

\* An exception (of full_clean(), or of a unique path) or the death of the process.
Rollback(w) ==
  /\ step[w].op \notin {"idle", "callbacks"}
  /\ Goto(w, Idle)
  /\ UNCHANGED <<request, transfer, reports, orders, verifier, sent, lost>>

LoseCallbacks(w) ==
  /\ step[w].op = "callbacks"
  /\ step[w].calls # <<>>
  /\ lost' = lost \union {step[w].calls[i] : i \in 1..Len(step[w].calls)}
  /\ Goto(w, Idle)
  /\ UNCHANGED <<request, transfer, reports, orders, verifier, sent>>

-----------------------------------------------------------------------------
(* blender_verification_order(): the stages and the verdicts of those that fail. *)

Stages == <<"download", "validate", "unpack", "count", "frames", "render", "upload",
            "compare", "minimum">>

Failures ==
  [download |-> {"ERROR"}, validate |-> {"MISMATCH", "ERROR"}, unpack |-> {"ERROR"},
   count |-> {"MISMATCH"}, frames |-> {"MISMATCH"}, render |-> {"ERROR"}, upload |-> {"ERROR"},
   compare |-> {"MISMATCH", "ERROR"}, minimum |-> {"MISMATCH"}]

TakeOrder(s) ==
  /\ verifier = Idle
  /\ orders[s] > 0
  /\ orders' = [orders EXCEPT ![s] = @ - 1]
  /\ verifier' = [op |-> "verify", subtask |-> s, stage |-> 1]
  /\ UNCHANGED <<request, transfer, reports, step, sent, lost>>

Pass ==
  /\ verifier.op = "verify"
  /\ verifier.stage < Len(Stages)
  /\ verifier' = [verifier EXCEPT !.stage = @ + 1]
  /\ UNCHANGED <<request, transfer, reports, step, orders, sent, lost>>

AllMatch == verifier.stage = Len(Stages)

\* The verdict is sent by the last stage, or by handle_verification_results().
Verdict(verdict) ==
  /\ verifier.op = "verify"
  /\ \/ verdict \in Failures[Stages[verifier.stage]]
     \/ verdict = "MATCH" /\ AllMatch
  /\ sent' = [sent EXCEPT ![<<"verification_result", verifier.subtask>>] = @ + 1]
  /\ verifier' = Idle
  /\ UNCHANGED <<request, transfer, reports, step, orders, lost>>

\* Any other exception ends the task without a verdict.
Abandon ==
  /\ verifier.op = "verify"
  /\ verifier' = Idle
  /\ lost' = lost \union {<<"verification_result", verifier.subtask>>}
  /\ UNCHANGED <<request, transfer, reports, step, orders, sent>>

Next ==
  \/ \E w \in Worker :
       \/ \E f \in File : FindRequest(w, f)
       \/ \E s \in Subtask : LinkSource(w, s) \/ StartTransfer(w, s) \/ UploadAcknowledged(w, s)
       \/ FindTransferRequest(w) \/ CheckRequest(w) \/ CommitReport(w)
       \/ LinkResult(w) \/ CommitRequest(w)
       \/ CheckTransfer(w) \/ CommitTransfer(w)
       \/ Delay(w) \/ Done(w) \/ Rollback(w) \/ LoseCallbacks(w)
  \/ \E s \in Subtask : TakeOrder(s)
  \/ Pass
  \/ \E verdict \in {"MATCH", "MISMATCH", "ERROR"} : Verdict(verdict)
  \/ Abandon

Spec == Init /\ [][Next]_vars

\* A process that has committed runs the callbacks, and the verifier goes on with an order.
FairSpec ==
  /\ Spec
  /\ \A w \in Worker : WF_vars(Delay(w))
  /\ \A s \in Subtask : SF_vars(TakeOrder(s))
  /\ WF_vars(Pass \/ Verdict("MATCH"))

-----------------------------------------------------------------------------
(* Properties. *)

StepRecord ==
  {Idle}
  \union [op : {"find"}, file : File, found : BOOLEAN]
  \union [op : {"check", "commit"}, file : File, found : BOOLEAN, complete : BOOLEAN,
          call : BOOLEAN]
  \union [op : {"link"}, subtask : Subtask, source : Nat]
  \union [op : {"request"}, subtask : Subtask, source : Nat, result : Nat]
  \union [op : {"checkTransfer", "transfer"}, subtask : Subtask, call : BOOLEAN]
  \union [op : {"callbacks"}, calls : Seq(Call)]

\* The types of the variables.
TypeOK ==
  /\ request \in [Subtask -> [finished : BOOLEAN, acknowledged : BOOLEAN] \union {NULL}]
  /\ transfer \in [Subtask -> [finished : BOOLEAN] \union {NULL}]
  /\ reports \in [File -> [linked : Nat, unlinked : Nat]]
  /\ step \in [Worker -> StepRecord]
  /\ orders \in [Subtask -> Nat]
  /\ verifier \in {Idle} \union [op : {"verify"}, subtask : Subtask, stage : 1..Len(Stages)]
  /\ sent \in [Call -> Nat]
  /\ lost \in SUBSET Call

\* upload_finished is set exactly when a report of each file is linked with the request,
\* whatever comes first (conductor/views.py, report_upload; conductor/tasks.py,
\* blender_verification_request).
FinishedMeansAllFiles ==
  \A s \in Subtask :
    request[s] # NULL =>
      (request[s].finished <=> IsLinked(Source(s)) /\ IsLinked(Result(s)))

\* The core is told once that the files of a subtask are there, and a subtask is verified
\* once and only then, however often files are reported and acknowledgements come.
VerifiedOnce ==
  \A s \in Subtask :
    /\ sent[<<"upload_finished", s>>] <= 1
    /\ sent[<<"verification_result", s>>] <= 1
    /\ sent[<<"verification_result", s>>] + orders[s] > 0 => request[s].finished

\* When the files of a request are there the core is told, unless the process dies.
UploadIsAnnounced ==
  \A s \in Subtask :
    LET call == <<"upload_finished", s>> IN
    (request[s] # NULL /\ request[s].finished) ~> (sent[call] > 0 \/ call \in lost)
=============================================================================
