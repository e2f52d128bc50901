------------------------ MODULE ControlCluster_proofs ------------------------
(***************************************************************************)
(* Theorems about ControlCluster, for every set of subtasks, clients and   *)
(* workers and every value of the other constants.                         *)
(***************************************************************************)
EXTENDS ControlCluster, FiniteSetTheorems, TLAPS

-----------------------------------------------------------------------------
(* The inductive invariant. *)

\* What clean() checks of an object, apart from the transition.
RowOK(r) ==
  /\ DeadlineMatchesState(r)
  /\ r.state # Unknown => AckOrReject(r) /\ MessagesMatchState(r)

\* A worker serves a request of the kind that its stage is for.
JobOK ==
  \A w \in Worker :
    /\ pc[w] \in {"handle", "claim", "store"} => job[w] \in Message
    /\ pc[w] = "delay" => job[w] \in Message \union {Task(s) : s \in Subtask}
    /\ pc[w] = "sweep" => job[w] \in {Receive(c) : c \in Client}

\* The copies of a receive/ request are as clean as the rows they were read from:
\* saving them, however late, cannot put a row into the table that is not.
CopiesAreClean == \A w \in Worker, s \in Subtask : RowOK(copies[w][s])

IndInv == TypeOK /\ JobOK /\ SavedRowsAreClean /\ CopiesAreClean

-----------------------------------------------------------------------------
(* Operators on rows. *)

LEMMA NoRowFacts == NoRow \in Row /\ RowOK(NoRow) /\ NoRow.state = Unknown
<1>1. NoRow.package \in Package
  BY PackageAssumption DEF NoRow
<1>2. Unknown \notin ActiveStates
  BY DEF Unknown, ActiveStates
<1> QED
  BY <1>1, <1>2 DEF NoRow, Row, RowOK, DeadlineMatchesState, NULL

LEMMA NoCopiesFacts == NoCopies \in [Subtask -> Row] /\ \A s \in Subtask : RowOK(NoCopies[s])
  BY NoRowFacts DEF NoCopies

LEMMA PassiveRow ==
  ASSUME NEW r \in Row, NEW st \in PassiveStates
  PROVE  LET q == ToPassive(r, st) IN
           q \in Row /\ q.state = st /\ q.deadline = NULL /\ q.messages = r.messages
  BY DEF ToPassive, WithState, Updated, Row, SubtaskState, NULL

\* A timeout keeps a row typed and clean.
LEMMA TimedOutRow ==
  ASSUME NEW r \in Row, RowOK(r), r.state \in ActiveStates
  PROVE  /\ ToPassive(r, TimeoutState(r.state)) \in Row
         /\ RowOK(ToPassive(r, TimeoutState(r.state)))
<1> DEFINE t == TimeoutState(r.state)
           q == ToPassive(r, t)
<1>1. t \in {"REPORTED", "FAILED", "ACCEPTED"}
  BY DEF TimeoutState, ActiveStates
<1>2. q \in Row /\ q.state = t /\ q.deadline = NULL /\ q.messages = r.messages
  BY <1>1, PassiveRow DEF PassiveStates
<1>3. DeadlineMatchesState(q)
  BY <1>1, <1>2 DEF DeadlineMatchesState, ActiveStates
<1>4. AckOrReject(q)
  BY <1>2 DEF RowOK, AckOrReject, ActiveStates, Unknown
<1>5. MessagesMatchState(q)
  <2>1. CASE r.state = "FORCING_REPORT"
    <3>1. r.messages = {}
      <4>1. Unset(r.state) \intersect r.messages = {}
        BY <2>1 DEF RowOK, MessagesMatchState, Unknown
      <4>2. Unset(r.state) = RelatedMessage /\ r.messages \subseteq RelatedMessage
        BY <2>1 DEF Unset, Row
      <4> QED BY <4>1, <4>2
    <3>2. t = "REPORTED"
      BY <2>1 DEF TimeoutState
    <3> QED BY <1>2, <3>1, <3>2 DEF MessagesMatchState, Required
  <2>2. CASE r.state # "FORCING_REPORT"
    <3>1. t \in {"FAILED", "ACCEPTED"}
      BY <2>2 DEF TimeoutState, ActiveStates
    <3> QED BY <1>2, <3>1 DEF MessagesMatchState, Required, Unset
  <2> QED BY <2>1, <2>2
<1> QED BY <1>2, <1>3, <1>4, <1>5 DEF RowOK

\* So does noticing that the result is uploaded.
LEMMA UploadedRow ==
  ASSUME NEW r \in Row, RowOK(r), r.state = "FORCING_RESULT_TRANSFER"
  PROVE  /\ ToPassive(r, "RESULT_UPLOADED") \in Row
         /\ RowOK(ToPassive(r, "RESULT_UPLOADED"))
<1> DEFINE q == ToPassive(r, "RESULT_UPLOADED")
<1>1. q \in Row /\ q.state = "RESULT_UPLOADED" /\ q.deadline = NULL /\ q.messages = r.messages
  BY PassiveRow DEF PassiveStates
<1>2. AckOrReject(r) /\ MessagesMatchState(r)
  BY DEF RowOK, Unknown
<1> QED
  BY <1>1, <1>2 DEF RowOK, DeadlineMatchesState, ActiveStates, AckOrReject, MessagesMatchState,
                    Required, Unset

\* What clean() lets through satisfies RowOK.
LEMMA CleanRow ==
  ASSUME NEW loaded, NEW r, Clean(loaded, r, softShutdown) PROVE RowOK(r)
  BY DEF Clean, RowOK

-----------------------------------------------------------------------------
(* Messages, claims, callbacks and pending responses. *)

LEMMA UpdatedType ==
  ASSUME NEW r \in Row, NEW st \in SubtaskState, NEW d \in Int, NEW p \in Package,
         NEW new \in SUBSET RelatedMessage
  PROVE  Updated(r, st, d, p, new) \in Row
  BY DEF Updated, Row

LEMMA StoredType ==
  ASSUME NEW st \in SubtaskState, NEW d \in Int, NEW p \in Package,
         NEW new \in SUBSET RelatedMessage
  PROVE  Stored(st, d, p, new) \in Row
  BY DEF Stored, Row

LEMMA MessageFields ==
  ASSUME NEW m \in Message
  PROVE  /\ m.op \in Kinds /\ m.subtask \in Subtask /\ m.package \in Package
         /\ m.choice \in Choice /\ m.ts \in Nat
  BY DEF Message

LEMMA IncomingType ==
  ASSUME now \in Nat, NEW s \in Subtask, NEW m \in Incoming(s)
  PROVE  m \in Message /\ m.subtask = s
<1>1. NoRow.package \in Package
  BY NoRowFacts DEF Row
<1>2. PICK op \in Kinds, p \in Package, c \in Choice, t \in Nat : m = Msg(op, s, p, c, t)
  BY <1>1 DEF Incoming, Kinds, Choice
<1> QED
  BY <1>2 DEF Msg, Message

\* The instants that the handlers compute are numbers.
LEMMA DeadlineTypes ==
  ASSUME NEW m \in Message
  PROVE  /\ TaskDeadline[m.subtask] + CMT \in Int
         /\ ResultTransferDeadline(m) \in Int
         /\ AcceptanceDeadline(m) + CMT \in Int
         /\ UploadDeadline(m) \in Int
<1>1. /\ TaskDeadline[m.subtask] \in Nat /\ MDT[m.package] \in Nat /\ SVT[m.package] \in Nat
      /\ CMT \in Nat /\ FAT \in Nat /\ AVCT \in Nat /\ m.ts \in Nat
  BY MessageFields, ControlAssumption
<1> QED
  BY <1>1 DEF ResultTransferDeadline, AcceptanceDeadline, VerificationDeadline, UploadDeadline

LEMMA ResultType ==
  ASSUME NEW m \in Message, NEW r \in Row
  PROVE  Result(m, r) \in Row
<1> USE MessageFields, DeadlineTypes, UpdatedType, StoredType
<1>1. NULL \in Int /\ r.package \in Package
  BY DEF NULL, Row
<1>2. ActiveStates \subseteq SubtaskState /\ PassiveStates \subseteq SubtaskState
  BY DEF SubtaskState
<1>3. ASSUME NEW st \in SubtaskState, NEW d \in Int, NEW new \in SUBSET RelatedMessage
      PROVE  StoreOrUpdate(r, st, d, m.package, new) \in Row
  BY <1>3 DEF StoreOrUpdate
<1>4. CASE m.op = "ForceReportComputedTask"
  BY <1>4, <1>2 DEF Result, ActiveStates
<1>5. CASE m.op = "AckReportComputedTask"
  BY <1>5, <1>1, <1>2 DEF Result, PassiveStates, RelatedMessage
<1>6. CASE m.op = "RejectReportComputedTask"
  BY <1>6, <1>1, <1>2 DEF Result, PassiveStates, RelatedMessage
<1>7. CASE m.op = "ForceGetTaskResult"
  BY <1>7, <1>2, <1>3 DEF Result, ActiveStates, RelatedMessage
<1>8. CASE m.op = "ForceSubtaskResults"
  BY <1>8, <1>2, <1>3 DEF Result, ActiveStates, RelatedMessage
<1>9. CASE m.op = "ForceSubtaskResultsResponse"
  BY <1>9, <1>1, <1>2 DEF Result, PassiveStates, RelatedMessage
<1>10. CASE m.op = "SubtaskResultsVerify"
  BY <1>10, <1>2, <1>3 DEF Result, ActiveStates, RelatedMessage
<1>11. CASE m.op = "ForcePayment"
  BY <1>11 DEF Result
<1> QED
  BY <1>4, <1>5, <1>6, <1>7, <1>8, <1>9, <1>10, <1>11 DEF Kinds

LEMMA CallbackTypes ==
  ASSUME NEW s \in Subtask
  PROVE  /\ <<Finalize(s, "FORCED_ACCEPTANCE", "requestor")>> \in Seq(Callback)
         /\ FinalizeBoth(s) \in Seq(Callback)
         /\ RefundRequestor(s) \in Seq(Callback)
  BY DEF Finalize, Delete, FinalizeBoth, RefundRequestor, Callback, ClaimKey, UseCase, Payer

LEMMA LettersType ==
  ASSUME NEW s \in Subtask, NEW types \in Seq(ResponseType)
  PROVE  Letters(s, types) \in Seq(Letter)
<1>1. \A i \in 1..Len(types) : types[i] \in ResponseType
  OBVIOUS
<1>2. Letters(s, types) \in [1..Len(types) -> Letter]
  BY <1>1 DEF Letters, Letter
<1> QED
  BY <1>2

LEMMA PostType ==
  ASSUME mail \in [Client -> Seq(Letter)], NEW s \in Subtask,
         NEW P \in Seq(ResponseType), NEW R \in Seq(ResponseType), Post(s, P, R)
  PROVE  mail' \in [Client -> Seq(Letter)]
<1>1. ProviderOf[s] \in Client /\ RequestorOf[s] \in Client
  BY ControlAssumption
<1>2. /\ mail[ProviderOf[s]] \o Letters(s, P) \in Seq(Letter)
      /\ mail[RequestorOf[s]] \o Letters(s, R) \in Seq(Letter)
  BY <1>1, LettersType
<1> QED
  BY <1>1, <1>2 DEF Post

-----------------------------------------------------------------------------
(* The parts that the actions are made of. *)

WorkersOK ==
  /\ pc \in [Worker -> Stage] /\ job \in [Worker -> Request]
  /\ copies \in [Worker -> [Subtask -> Row]] /\ todo \in [Worker -> Seq(Callback)]
  /\ JobOK /\ CopiesAreClean

TableOK == row \in [Subtask -> Row] /\ SavedRowsAreClean

DataOK ==
  /\ now \in Nat
  /\ mail \in [Client -> Seq(Letter)]
  /\ claim \in [ClaimKey -> ClaimStatus] /\ paid \in [ClaimKey -> Nat]
  /\ asked \in [Subtask -> SUBSET {"result_transfer_request", "blender_verification_request",
                                   "upload_acknowledged"}]
  /\ softShutdown \in BOOLEAN /\ completionMail \in BOOLEAN

LEMMA IndInvParts == IndInv <=> WorkersOK /\ TableOK /\ DataOK
  BY DEF IndInv, TypeOK, WorkersOK, TableOK, DataOK

LEMMA IndInvPartsNext ==
  ASSUME WorkersOK', TableOK', DataOK' PROVE IndInv'
  BY DEF IndInv, TypeOK, WorkersOK, TableOK, DataOK

LEMMA TableUnchanged == ASSUME TableOK, UNCHANGED row PROVE TableOK'
  BY DEF TableOK, SavedRowsAreClean

LEMMA WorkersUnchanged == ASSUME WorkersOK, UNCHANGED workerVars PROVE WorkersOK'
  BY DEF WorkersOK, workerVars, JobOK, CopiesAreClean

LEMMA RequestTypes ==
  /\ Idle \in Request
  /\ Message \subseteq Request
  /\ \A s \in Subtask : Task(s) \in Request /\ Task(s).subtask = s
  /\ \A c \in Client : Receive(c) \in Request /\ Receive(c).client = c
  BY DEF Request, Task, Receive

LEMMA EndStep ==
  ASSUME WorkersOK, NEW w \in Worker, End(w) PROVE WorkersOK'
<1>1. pc' \in [Worker -> Stage] /\ job' \in [Worker -> Request]
  BY RequestTypes DEF WorkersOK, End, Stage
<1>2. copies' \in [Worker -> [Subtask -> Row]] /\ todo' \in [Worker -> Seq(Callback)]
  BY NoCopiesFacts DEF WorkersOK, End
<1>3. JobOK'
  BY DEF WorkersOK, End, JobOK
<1>4. CopiesAreClean'
  BY NoCopiesFacts DEF WorkersOK, End, CopiesAreClean
<1> QED
  BY <1>1, <1>2, <1>3, <1>4 DEF WorkersOK

LEMMA GotoStep ==
  ASSUME WorkersOK, NEW w \in Worker, NEW stage \in {"claim", "store", "delay"},
         job[w] \in Message, Goto(w, stage)
  PROVE  WorkersOK'
<1>1. pc' \in [Worker -> Stage] /\ UNCHANGED <<job, copies, todo>>
  BY DEF WorkersOK, Goto, Stage
<1>2. JobOK'
  BY <1>1 DEF WorkersOK, Goto, JobOK
<1> QED
  BY <1>1, <1>2 DEF WorkersOK, CopiesAreClean

LEMMA CommitStep ==
  ASSUME WorkersOK, NEW w \in Worker, NEW s \in Subtask, NEW stage \in {"delay", "finish"},
         NEW callbacks \in Seq(Callback), Commit(w, s, stage, callbacks)
  PROVE  WorkersOK'
<1>1. pc' \in [Worker -> Stage] /\ job' \in [Worker -> Request] /\ copies' = copies
  BY RequestTypes DEF WorkersOK, Commit, Stage
<1>2. todo' \in [Worker -> Seq(Callback)]
  BY DEF WorkersOK, Commit
<1>3. JobOK'
  BY DEF WorkersOK, Commit, JobOK
<1> QED
  BY <1>1, <1>2, <1>3 DEF WorkersOK, CopiesAreClean

LEMMA DoneStep ==
  ASSUME WorkersOK, NEW w \in Worker, todo[w] # <<>>, Done(w) PROVE WorkersOK'
<1>1. CASE pc[w] = "finish" /\ Tail(todo[w]) = <<>>
  BY <1>1, EndStep DEF Done
<1>2. CASE ~ (pc[w] = "finish" /\ Tail(todo[w]) = <<>>)
  <2>1. todo[w] \in Seq(Callback) /\ Tail(todo[w]) \in Seq(Callback)
    BY DEF WorkersOK
  <2>2. todo' = [todo EXCEPT ![w] = Tail(todo[w])] /\ UNCHANGED <<pc, job, copies>>
    BY <1>2 DEF Done
  <2> QED
    BY <2>1, <2>2 DEF WorkersOK, JobOK, CopiesAreClean
<1> QED
  BY <1>1, <1>2

LEMMA SaveStep ==
  ASSUME TableOK, NEW s \in Subtask, NEW r \in Row, RowOK(r), Save(s, r) PROVE TableOK'
<1>1. row' = [row EXCEPT ![s] = r] /\ row' \in [Subtask -> Row]
  BY DEF TableOK, Save
<1>2. \A t \in Subtask : RowOK(row'[t])
  BY <1>1 DEF TableOK, SavedRowsAreClean, RowOK
<1> QED
  BY <1>1, <1>2 DEF TableOK, SavedRowsAreClean, RowOK

\* The process of a timeout, from the row itself or from a copy of it.
LEMMA TimeoutStep ==
  ASSUME IndInv, NEW w \in Worker, NEW s \in Subtask, NEW r \in Row, RowOK(r),
         r.state \in ActiveStates, UpdateTimedOutSubtask(w, s, r)
  PROVE  /\ TableOK' /\ mail' \in [Client -> Seq(Letter)]
         /\ todo' \in [Worker -> Seq(Callback)]
<1>1. TableOK'
  BY TimedOutRow, SaveStep, IndInvParts DEF UpdateTimedOutSubtask
<1>2. /\ mail \in [Client -> Seq(Letter)]
      /\ todo \in [Worker -> Seq(Callback)]
  BY DEF IndInv, TypeOK
<1>3. \E P, R \in Seq(ResponseType) : Post(s, P, R)
  <2>1. \A a \in ResponseType : <<a>> \in Seq(ResponseType)
    OBVIOUS
  <2>2. {"ForceReportComputedTaskResponse", "VerdictReportComputedTask",
         "ForceGetTaskResultFailed", "SubtaskResultsSettled", "SubtaskResultsRejected"}
          \subseteq ResponseType /\ <<>> \in Seq(ResponseType)
    BY DEF ResponseType, SubtaskResponse
  <2> QED
    BY <2>1, <2>2 DEF UpdateTimedOutSubtask, ActiveStates
<1>4. mail' \in [Client -> Seq(Letter)]
  BY <1>2, <1>3, PostType
<1>5. todo' \in [Worker -> Seq(Callback)]
  <2>1. \/ UNCHANGED todo
        \/ todo' = [todo EXCEPT ![w] = <<Finalize(s, "FORCED_ACCEPTANCE", "requestor")>>]
        \/ todo' = [todo EXCEPT ![w] = FinalizeBoth(s)]
    BY DEF UpdateTimedOutSubtask, ActiveStates
  <2> QED
    BY <1>2, <2>1, CallbackTypes
<1> QED
  BY <1>1, <1>4, <1>5

LEMMA UploadStep ==
  ASSUME IndInv, NEW s \in Subtask, NEW r \in Row, RowOK(r), NEW c,
         FileIsUploaded(s, r, c), VerifyFileStatus(s, r)
  PROVE  TableOK' /\ mail' \in [Client -> Seq(Letter)] /\ UNCHANGED todo
<1>1. TableOK'
  BY UploadedRow, SaveStep, IndInvParts DEF FileIsUploaded, VerifyFileStatus
<1>2. <<>> \in Seq(ResponseType) /\ <<"ForceGetTaskResultDownload">> \in Seq(ResponseType)
  BY DEF ResponseType, SubtaskResponse
<1>3. mail' \in [Client -> Seq(Letter)]
  BY <1>2, PostType DEF IndInv, TypeOK, VerifyFileStatus
<1> QED
  BY <1>1, <1>3 DEF VerifyFileStatus

-----------------------------------------------------------------------------
(* Each action keeps the invariant. *)

LEMMA SendStep == ASSUME IndInv, NEW w \in Worker, Send(w) PROVE IndInv'
<1>1. PICK s \in Subtask : \E msg \in Incoming(s) :
        PreProcess(w, msg) /\ pc' = [pc EXCEPT ![w] = "handle"] /\ job' = [job EXCEPT ![w] = msg]
  BY DEF Send
<1>1b. PICK m \in Incoming(s) :
        PreProcess(w, m) /\ pc' = [pc EXCEPT ![w] = "handle"] /\ job' = [job EXCEPT ![w] = m]
  BY <1>1
<1>2. m \in Message /\ m.subtask = s
  BY IncomingType DEF IndInv, TypeOK
<1>3. row[s] \in Row /\ RowOK(row[s])
  BY DEF IndInv, TypeOK, SavedRowsAreClean, RowOK
<1>4. TableOK' /\ mail' \in [Client -> Seq(Letter)] /\ todo' \in [Worker -> Seq(Callback)]
  <2>1. CASE UNCHANGED <<row, mail, todo>>
    BY <2>1 DEF IndInv, TypeOK, TableOK, SavedRowsAreClean
  <2>2. CASE FileIsUploaded(s, row[s], Sender(m)) /\ VerifyFileStatus(s, row[s])
    <3>1. TableOK' /\ mail' \in [Client -> Seq(Letter)] /\ UNCHANGED todo
      BY <1>3, <2>2, UploadStep
    <3> QED
      BY <3>1 DEF IndInv, TypeOK
  <2>3. CASE TimeIsUp(row[s]) /\ UpdateTimedOutSubtask(w, s, row[s])
    BY <1>3, <2>3, TimeoutStep DEF TimeIsUp
  <2> QED
    BY <1>1b, <1>2, <2>1, <2>2, <2>3 DEF PreProcess
<1>5. WorkersOK'
  <2>1. pc' \in [Worker -> Stage] /\ job' \in [Worker -> Request] /\ UNCHANGED copies
    BY <1>1b, <1>2, RequestTypes DEF Send, IndInv, TypeOK, Stage
  <2>2. JobOK'
    BY <1>1b, <1>2 DEF IndInv, TypeOK, JobOK
  <2> QED
    BY <1>4, <2>1, <2>2 DEF WorkersOK, IndInv, TypeOK, CopiesAreClean
<1> QED
  BY <1>4, <1>5, IndInvParts, IndInvPartsNext DEF Send, DataOK

\* What the handlers that are let through save is a clean row.
LEMMA SavedResult ==
  ASSUME IndInv, NEW m \in Message, Saves(m, row[m.subtask])
  PROVE  /\ row[m.subtask] \in Row
         /\ Result(m, row[m.subtask]) \in Row /\ RowOK(Result(m, row[m.subtask]))
<1>1. row[m.subtask] \in Row
  BY MessageFields DEF IndInv, TypeOK
<1> QED
  BY <1>1, ResultType, CleanRow DEF Saves

LEMMA SaveUpdatedStep ==
  ASSUME IndInv, NEW s \in Subtask, NEW r \in Row, RowOK(r), SaveUpdated(s, r)
  PROVE  TableOK' /\ completionMail' \in BOOLEAN
<1>1. TableOK'
  BY SaveStep, IndInvParts DEF SaveUpdated
<1>2. completionMail' \in BOOLEAN
  BY DEF SaveUpdated, IndInv, TypeOK
<1> QED
  BY <1>1, <1>2

LEMMA SaveEitherStep ==
  ASSUME IndInv, NEW s \in Subtask, NEW r \in Row, RowOK(r), SaveStoredOrUpdated(s, r)
  PROVE  TableOK' /\ completionMail' \in BOOLEAN
  BY SaveStep, SaveUpdatedStep, IndInvParts DEF SaveStoredOrUpdated, DataOK

LEMMA PostTypes ==
  /\ <<>> \in Seq(ResponseType)
  /\ \A a \in ResponseType : <<a>> \in Seq(ResponseType)
  /\ {"ForceReportComputedTask", "ForceReportComputedTaskResponse",
      "VerdictReportComputedTask", "ForceGetTaskResultUpload", "ForceSubtaskResults",
      "ForceSubtaskResultsResponse", "SubtaskResultsSettled", "SubtaskResultsRejected",
      "ForcePaymentCommitted"} \subseteq ResponseType
  BY DEF ResponseType, SubtaskResponse

\* A worker that handles a message has one.
LEMMA Handled ==
  ASSUME IndInv, NEW w \in Worker, pc[w] \in {"handle", "claim", "store"}
  PROVE  job[w] \in Message /\ job[w].subtask \in Subtask
  BY MessageFields DEF IndInv, JobOK

LEMMA DiscardedType ==
  ASSUME claim \in [ClaimKey -> ClaimStatus], NEW k
  PROVE  Discarded(k) \in [ClaimKey -> ClaimStatus]
  BY DEF Discarded, ClaimStatus

LEMMA RefuseStep == ASSUME IndInv, NEW w \in Worker, Refuse(w) PROVE IndInv'
<1>1. WorkersOK'
  BY EndStep, IndInvParts DEF Refuse
<1> QED
  BY <1>1, TableUnchanged, IndInvParts, IndInvPartsNext DEF Refuse, controlVars, DataOK

LEMMA ReportingSteps ==
  ASSUME IndInv, NEW w \in Worker,
         \/ ForceReportComputedTask(w) \/ AckReportComputedTask(w)
         \/ RejectReportComputedTask(w) \/ ForceGetTaskResult(w)
  PROVE  IndInv'
<1> DEFINE m == job[w]
           s == m.subtask
<1>1. m \in Message /\ s \in Subtask
  BY Handled DEF ForceReportComputedTask, AckReportComputedTask, RejectReportComputedTask,
                 ForceGetTaskResult, Handling
<1>2. m.op \notin {"ForceSubtaskResults", "SubtaskResultsVerify", "ForcePayment"}
  BY DEF ForceReportComputedTask, AckReportComputedTask, RejectReportComputedTask,
         ForceGetTaskResult, Handling
<1>3. Saves(m, row[s])
  BY <1>2 DEF ForceReportComputedTask, AckReportComputedTask, RejectReportComputedTask,
         ForceGetTaskResult, Accepts
<1>4. Result(m, row[s]) \in Row /\ RowOK(Result(m, row[s]))
  BY <1>1, <1>3, SavedResult
<1>5. WorkersOK'
  BY <1>1, EndStep, GotoStep, IndInvParts
  DEF ForceReportComputedTask, AckReportComputedTask, RejectReportComputedTask, ForceGetTaskResult
<1>6. TableOK' /\ completionMail' \in BOOLEAN
  <2>1. CASE ForceReportComputedTask(w)
    BY <1>1, <1>4, <2>1, SaveStep, IndInvParts DEF ForceReportComputedTask, DataOK
  <2>2. CASE AckReportComputedTask(w) \/ RejectReportComputedTask(w)
    BY <1>1, <1>4, <2>2, SaveUpdatedStep DEF AckReportComputedTask, RejectReportComputedTask
  <2>3. CASE ForceGetTaskResult(w)
    BY <1>1, <1>4, <2>3, SaveEitherStep DEF ForceGetTaskResult
  <2> QED
    BY <2>1, <2>2, <2>3
<1>7. \E P, R \in Seq(ResponseType) : Post(s, P, R)
  BY PostTypes
  DEF ForceReportComputedTask, AckReportComputedTask, RejectReportComputedTask, ForceGetTaskResult
<1>8. mail' \in [Client -> Seq(Letter)]
  BY <1>1, <1>7, PostType, IndInvParts DEF DataOK
<1>9. DataOK'
  BY <1>6, <1>8, IndInvParts
  DEF ForceReportComputedTask, AckReportComputedTask, RejectReportComputedTask, ForceGetTaskResult,
      DataOK
<1> QED
  BY <1>5, <1>6, <1>9, IndInvPartsNext

\* CheckBeforeClaim, ClaimDeposit and ClaimRefused: a claim is made before the state changes.
LEMMA ClaimingSteps ==
  ASSUME IndInv, NEW w \in Worker, CheckBeforeClaim(w) \/ ClaimDeposit(w) \/ ClaimRefused(w)
  PROVE  IndInv'
<1>1. WorkersOK /\ TableOK /\ DataOK
  BY IndInvParts
<1>2. TableOK'
  BY <1>1, TableUnchanged DEF CheckBeforeClaim, ClaimDeposit, ClaimRefused, controlVars
<1>3. WorkersOK'
  BY <1>1, Handled, EndStep, GotoStep
  DEF CheckBeforeClaim, ClaimDeposit, ClaimRefused, Handling
<1>4. DataOK'
  BY <1>1 DEF CheckBeforeClaim, ClaimDeposit, ClaimRefused, controlVars, DataOK, ClaimStatus
<1> QED
  BY <1>2, <1>3, <1>4, IndInvPartsNext

LEMMA StoringSteps ==
  ASSUME IndInv, NEW w \in Worker, StoreForceSubtaskResults(w) \/ StoreSubtaskResultsVerify(w)
  PROVE  IndInv'
<1> DEFINE m == job[w]
           s == m.subtask
<1>1. m \in Message /\ s \in Subtask
  BY Handled DEF StoreForceSubtaskResults, StoreSubtaskResultsVerify
<1>2. Result(m, row[s]) \in Row /\ RowOK(Result(m, row[s]))
  BY <1>1, SavedResult DEF StoreForceSubtaskResults, StoreSubtaskResultsVerify, StoreAccepts
<1>3. TableOK' /\ completionMail' \in BOOLEAN
  BY <1>1, <1>2, SaveEitherStep DEF StoreForceSubtaskResults, StoreSubtaskResultsVerify
<1>4. WorkersOK'
  BY <1>1, EndStep, GotoStep, IndInvParts DEF StoreForceSubtaskResults, StoreSubtaskResultsVerify
<1>5. mail' \in [Client -> Seq(Letter)]
  BY <1>1, PostTypes, PostType, IndInvParts
  DEF DataOK, StoreForceSubtaskResults, StoreSubtaskResultsVerify
<1>6. DataOK'
  BY <1>3, <1>5, IndInvParts DEF StoreForceSubtaskResults, StoreSubtaskResultsVerify, DataOK
<1> QED
  BY <1>3, <1>4, <1>6, IndInvPartsNext

LEMMA AnswerStep == ASSUME IndInv, NEW w \in Worker, ForceSubtaskResultsResponse(w) PROVE IndInv'
<1> DEFINE m == job[w]
           s == m.subtask
<1>1. m \in Message /\ s \in Subtask
  BY Handled DEF ForceSubtaskResultsResponse, Handling
<1>2. Saves(m, row[s])
  BY DEF ForceSubtaskResultsResponse, Handling, Accepts
<1>3. TableOK' /\ completionMail' \in BOOLEAN
  BY <1>1, <1>2, SavedResult, SaveUpdatedStep DEF ForceSubtaskResultsResponse
<1>4. WorkersOK'
  BY EndStep, IndInvParts DEF ForceSubtaskResultsResponse
<1>5. mail' \in [Client -> Seq(Letter)]
  BY <1>1, PostTypes, PostType, IndInvParts DEF DataOK, ForceSubtaskResultsResponse
<1>6. DataOK'
  BY <1>3, <1>5, IndInvParts, DiscardedType DEF ForceSubtaskResultsResponse, DataOK
<1> QED
  BY <1>3, <1>4, <1>6, IndInvPartsNext

LEMMA ForcePaymentStep == ASSUME IndInv, NEW w \in Worker, ForcePayment(w) PROVE IndInv'
<1>1. job[w].subtask \in Subtask
  BY Handled DEF ForcePayment, Handling
<1>2. mail' \in [Client -> Seq(Letter)]
  BY <1>1, PostTypes, PostType, IndInvParts DEF DataOK, ForcePayment
<1>3. WorkersOK' /\ TableOK'
  BY EndStep, TableUnchanged, IndInvParts DEF ForcePayment
<1>4. DataOK'
  BY <1>2, IndInvParts DEF ForcePayment, DataOK
<1> QED
  BY <1>3, <1>4, IndInvPartsNext

LEMMA DelayStep == ASSUME IndInv, NEW w \in Worker, Delay(w) PROVE IndInv'
<1>1. job[w].subtask \in Subtask
  BY MessageFields, RequestTypes DEF IndInv, JobOK, Delay
<1>2. WorkersOK' /\ TableOK'
  BY EndStep, TableUnchanged, IndInvParts DEF Delay
<1>3. TaskFor(job[w]) \in {"result_transfer_request", "blender_verification_request",
                           "upload_acknowledged"}
  BY DEF TaskFor
<1>4. DataOK'
  BY <1>1, <1>3, IndInvParts DEF Delay, DataOK
<1> QED
  BY <1>2, <1>4, IndInvPartsNext

LEMMA StartReceiveStep ==
  ASSUME IndInv, NEW w \in Worker, NEW c \in Client, StartReceive(w, c) PROVE IndInv'
<1> DEFINE read == [s \in Subtask |-> IF SweptFor(c, s) THEN row[s] ELSE NoRow]
<1>1. WorkersOK /\ TableOK /\ DataOK
  BY IndInvParts
<1>2. read \in [Subtask -> Row] /\ \A s \in Subtask : RowOK(read[s])
  BY <1>1, NoRowFacts DEF TableOK, SavedRowsAreClean, RowOK
<1>3. copies' = [copies EXCEPT ![w] = read]
  BY DEF StartReceive
<1>4. copies' \in [Worker -> [Subtask -> Row]] /\ CopiesAreClean'
  BY <1>1, <1>2, <1>3 DEF WorkersOK, CopiesAreClean
<1>5. pc' \in [Worker -> Stage] /\ job' \in [Worker -> Request] /\ JobOK'
  BY <1>1, RequestTypes DEF StartReceive, WorkersOK, JobOK, Stage
<1>6. WorkersOK'
  BY <1>1, <1>4, <1>5 DEF WorkersOK, StartReceive
<1>7. TableOK' /\ DataOK'
  BY <1>1, TableUnchanged DEF StartReceive, controlVars, DataOK
<1> QED
  BY <1>6, <1>7, IndInvPartsNext

LEMMA SweepStep ==
  ASSUME IndInv, NEW w \in Worker, NEW s \in Subtask, SweepSubtask(w, s) PROVE IndInv'
<1> DEFINE r == copies[w][s]
           c == job[w].client
<1>1. WorkersOK /\ TableOK /\ DataOK
  BY IndInvParts
<1>2. r \in Row /\ RowOK(r)
  BY <1>1 DEF WorkersOK, CopiesAreClean
<1>3. TableOK' /\ mail' \in [Client -> Seq(Letter)] /\ todo' \in [Worker -> Seq(Callback)]
  <2>1. CASE FileIsUploaded(s, r, c) /\ VerifyFileStatus(s, r)
    <3>1. TableOK' /\ mail' \in [Client -> Seq(Letter)] /\ UNCHANGED todo
      BY <1>2, <2>1, UploadStep
    <3> QED
      BY <1>1, <3>1 DEF WorkersOK
  <2>2. CASE TimeIsUp(r) /\ UpdateTimedOutSubtask(w, s, r)
    BY <1>2, <2>2, TimeoutStep DEF TimeIsUp
  <2>3. CASE UNCHANGED <<row, mail, todo>>
    BY <1>1, <2>3, TableUnchanged DEF DataOK, WorkersOK
  <2> QED
    BY <2>1, <2>2, <2>3 DEF SweepSubtask
<1>4. copies' = [copies EXCEPT ![w][s] = NoRow] /\ UNCHANGED <<pc, job>>
  BY DEF SweepSubtask
<1>5. copies' \in [Worker -> [Subtask -> Row]] /\ CopiesAreClean'
  BY <1>1, <1>4, NoRowFacts DEF WorkersOK, CopiesAreClean
<1>6. WorkersOK'
  BY <1>1, <1>3, <1>4, <1>5 DEF WorkersOK, JobOK
<1>7. DataOK'
  BY <1>1, <1>3 DEF SweepSubtask, DataOK
<1> QED
  BY <1>3, <1>6, <1>7, IndInvPartsNext

LEMMA DeliverStep == ASSUME IndInv, NEW w \in Worker, Deliver(w) PROVE IndInv'
<1> DEFINE c == job[w].client
           i == NextLetter(c)
<1>1. WorkersOK /\ TableOK /\ DataOK
  BY IndInvParts
<1>2. c \in Client
  BY <1>1, RequestTypes DEF WorkersOK, JobOK, Deliver
<1>3. mail' = [mail EXCEPT ![c][i].delivered = TRUE] \/ UNCHANGED mail
  BY DEF Deliver
<1>4. mail' \in [Client -> Seq(Letter)]
  <2>1. [mail[c] EXCEPT ![i].delivered = TRUE] \in Seq(Letter)
    <3>1. mail[c] \in Seq(Letter)
      BY <1>1, <1>2 DEF DataOK
    <3>2. CASE i \in DOMAIN mail[c]
      <4>1. mail[c][i] \in Letter
        BY <3>1, <3>2
      <4>2. [mail[c][i] EXCEPT !.delivered = TRUE] \in Letter
        BY <4>1 DEF Letter
      <4> QED
        BY <3>1, <3>2, <4>2
    <3>3. CASE i \notin DOMAIN mail[c]
      <4> DEFINE q == [mail[c] EXCEPT ![i].delivered = TRUE]
      <4>1. \A j \in DOMAIN mail[c] : j # i
        BY <3>3
      <4>2. q = [j \in DOMAIN mail[c] |-> mail[c][j]]
        BY <4>1, Zenon
      <4> HIDE DEF q
      <4>3. q \in [1..Len(mail[c]) -> Letter]
        BY <3>1, <4>2
      <4> QED
        BY <3>1, <4>3 DEF q
    <3> QED
      BY <3>2, <3>3
  <2> QED
    BY <1>1, <1>2, <1>3, <2>1 DEF DataOK
<1>5. WorkersOK' /\ TableOK'
  BY <1>1, EndStep, TableUnchanged DEF Deliver
<1>6. DataOK'
  BY <1>1, <1>4 DEF Deliver, DataOK
<1> QED
  BY <1>5, <1>6, IndInvPartsNext

\* What a verification ends with, from either of its two states.
LEMMA EndOfVerification ==
  ASSUME NEW r \in Row, RowOK(r), NEW st \in {"ACCEPTED", "FAILED"},
         r.state \in {"VERIFICATION_FILE_TRANSFER", "ADDITIONAL_VERIFICATION"}
  PROVE  ToPassive(r, st) \in Row /\ RowOK(ToPassive(r, st))
<1>1. /\ ToPassive(r, st) \in Row /\ ToPassive(r, st).state = st
      /\ ToPassive(r, st).deadline = NULL /\ ToPassive(r, st).messages = r.messages
  BY PassiveRow DEF PassiveStates
<1>2. AckOrReject(r)
  BY DEF RowOK, Unknown
<1> QED
  BY <1>1, <1>2
  DEF RowOK, DeadlineMatchesState, ActiveStates, AckOrReject, MessagesMatchState, Required, Unset

LEMMA UploadFinishedStep ==
  ASSUME IndInv, NEW w \in Worker, NEW s \in Subtask, UploadFinished(w, s) PROVE IndInv'
<1> DEFINE r == row[s]
           new == WithState(r, "ADDITIONAL_VERIFICATION", r.deadline + CVT[s])
<1>1. WorkersOK /\ TableOK /\ DataOK
  BY IndInvParts
<1>2. r \in Row /\ RowOK(r) /\ r.state = "VERIFICATION_FILE_TRANSFER"
  BY <1>1 DEF UploadFinished, TableOK, SavedRowsAreClean, RowOK
<1>3. new \in Row
  <2>1. r.deadline + CVT[s] \in Int /\ r.package \in Package
    BY <1>2, ControlAssumption DEF Row
  <2> QED
    BY <1>2, <2>1, UpdatedType DEF WithState, SubtaskState, ActiveStates
<1>4. TableOK'
  <2>1. CASE Save(s, ToPassive(r, "FAILED"))
    BY <1>1, <1>2, <2>1, EndOfVerification, SaveStep
  <2>2. CASE Clean(r.state, new, softShutdown) /\ Save(s, new)
    BY <1>1, <1>3, <2>2, CleanRow, SaveStep
  <2> QED
    BY <2>1, <2>2 DEF UploadFinished
<1>5. WorkersOK'
  BY <1>1, CallbackTypes, CommitStep, <<>> \in Seq(Callback) DEF UploadFinished
<1>6. mail' \in [Client -> Seq(Letter)]
  BY <1>1, PostTypes, PostType DEF DataOK, UploadFinished
<1>7. DataOK'
  BY <1>1, <1>6 DEF UploadFinished, DataOK
<1> QED
  BY <1>4, <1>5, <1>7, IndInvPartsNext

LEMMA VerificationResultStep ==
  ASSUME IndInv, NEW w \in Worker, NEW s \in Subtask, NEW result, VerificationResult(w, s, result)
  PROVE  IndInv'
<1>1. WorkersOK /\ TableOK /\ DataOK
  BY IndInvParts
<1>2. row[s] \in Row /\ RowOK(row[s]) /\ row[s].state = "ADDITIONAL_VERIFICATION"
  BY <1>1 DEF VerificationResult, TableOK, SavedRowsAreClean, RowOK
<1>3. TableOK'
  BY <1>1, <1>2, EndOfVerification, SaveStep DEF VerificationResult, Settle
<1>4. WorkersOK'
  BY <1>1, CallbackTypes, CommitStep DEF VerificationResult, Settle
<1>5. mail' \in [Client -> Seq(Letter)]
  BY <1>1, PostTypes, PostType DEF DataOK, VerificationResult, Settle
<1>6. DataOK'
  BY <1>1, <1>5 DEF VerificationResult, DataOK
<1> QED
  BY <1>3, <1>4, <1>6, IndInvPartsNext

LEMMA ResultUploadFinishedStep ==
  ASSUME IndInv, NEW s \in Subtask, ResultUploadFinished(s) PROVE IndInv'
<1> DEFINE new == [row[s] EXCEPT !.uploaded = TRUE]
<1>1. WorkersOK /\ TableOK /\ DataOK
  BY IndInvParts
<1>2. new \in Row
  BY <1>1 DEF TableOK, Row
<1>3. TableOK' /\ WorkersOK'
  BY <1>1, <1>2, CleanRow, SaveStep, WorkersUnchanged DEF ResultUploadFinished
<1>4. DataOK'
  BY <1>1 DEF ResultUploadFinished, DataOK
<1> QED
  BY <1>3, <1>4, IndInvPartsNext

LEMMA CallbackSteps ==
  ASSUME IndInv, NEW w \in Worker, DeleteDepositClaim(w) \/ ReadClaim(w) \/ PayClaim(w)
  PROVE  IndInv'
<1> DEFINE k == Head(todo[w]).key
<1>1. WorkersOK /\ TableOK /\ DataOK
  BY IndInvParts
<1>2. /\ todo[w] # <<>> /\ todo[w] \in Seq(Callback)
      /\ Head(todo[w]) \in Callback /\ Tail(todo[w]) \in Seq(Callback)
  <2>1. todo[w] # <<>>
    BY DEF DeleteDepositClaim, ReadClaim, PayClaim
  <2>2. todo[w] \in Seq(Callback)
    BY <1>1 DEF WorkersOK
  <2> QED
    BY <2>1, <2>2
<1>3. k \in ClaimKey
  BY <1>2 DEF Callback
<1>4. TableOK'
  BY <1>1, TableUnchanged DEF DeleteDepositClaim, ReadClaim, PayClaim, controlVars
<1>5. WorkersOK'
  <2>1. CASE Done(w)
    BY <1>1, <1>2, <2>1, DoneStep
  <2>2. CASE End(w)
    BY <1>1, <2>2, EndStep
  <2>3. CASE /\ todo' = [todo EXCEPT ![w] = <<[act |-> "paying", key |-> k]>> \o Tail(todo[w])]
             /\ UNCHANGED <<pc, job, copies>>
    <3>1. <<[act |-> "paying", key |-> k]>> \o Tail(todo[w]) \in Seq(Callback)
      BY <1>2, <1>3 DEF Callback
    <3> QED
      BY <1>1, <2>3, <3>1 DEF WorkersOK, JobOK, CopiesAreClean
  <2>4. claim[k] \in {"none", "open", "sent"}
    BY <1>1, <1>3 DEF DataOK, ClaimStatus
  <2>5. CASE ReadClaim(w)
    <3>1. CASE claim[k] = "none"
      BY <2>1, <2>5, <3>1 DEF ReadClaim
    <3>2. CASE claim[k] = "sent"
      BY <2>2, <2>5, <3>2 DEF ReadClaim
    <3>3. CASE claim[k] = "open"
      BY <2>3, <2>5, <3>3 DEF ReadClaim
    <3> QED
      BY <2>4, <3>1, <3>2, <3>3
  <2> QED
    BY <2>1, <2>5 DEF DeleteDepositClaim, PayClaim
<1>6. DataOK'
  <2>1. CASE DeleteDepositClaim(w)
    BY <1>1, <2>1, DiscardedType DEF DeleteDepositClaim, DataOK
  <2>2. CASE ReadClaim(w)
    BY <1>1, <2>2 DEF ReadClaim, controlVars, DataOK
  <2>3. CASE PayClaim(w)
    <3>1. claim' \in [ClaimKey -> ClaimStatus]
      BY <1>1, <2>3 DEF PayClaim, DataOK, ClaimStatus
    <3>2. paid' \in [ClaimKey -> Nat]
      <4>1. UNCHANGED paid \/ paid' = [paid EXCEPT ![k] = paid[k] + 1]
        BY <2>3 DEF PayClaim
      <4>2. paid \in [ClaimKey -> Nat] /\ paid[k] + 1 \in Nat
        BY <1>1, <1>3 DEF DataOK
      <4> QED
        BY <4>1, <4>2
    <3> QED
      BY <1>1, <2>3, <3>1, <3>2 DEF PayClaim, DataOK
  <2> QED
    BY <2>1, <2>2, <2>3
<1> QED
  BY <1>4, <1>5, <1>6, IndInvPartsNext

LEMMA EnvironmentSteps ==
  ASSUME IndInv,
         \/ Tick \/ StartSoftShutdown
         \/ \E w \in Worker : Crash(w)
         \/ \E k \in ClaimKey : ConfirmPayment(k)
  PROVE  IndInv'
<1>1. WorkersOK /\ TableOK /\ DataOK
  BY IndInvParts
<1>2. TableOK'
  BY <1>1, TableUnchanged DEF Tick, StartSoftShutdown, Crash, ConfirmPayment, controlVars
<1>3. WorkersOK'
  BY <1>1, EndStep, WorkersUnchanged DEF Tick, StartSoftShutdown, Crash, ConfirmPayment
<1>4. DataOK'
  <2>1. CASE Tick
    BY <1>1, <2>1 DEF Tick, controlVars, DataOK
  <2>2. CASE StartSoftShutdown
    BY <1>1, <2>2 DEF StartSoftShutdown, controlVars, DataOK
  <2>3. CASE \E w \in Worker : Crash(w)
    BY <1>1, <2>3 DEF Crash, controlVars, DataOK
  <2>4. CASE \E k \in ClaimKey : ConfirmPayment(k)
    BY <1>1, <2>4, DiscardedType DEF ConfirmPayment, DataOK
  <2> QED
    BY <2>1, <2>2, <2>3, <2>4
<1> QED
  BY <1>2, <1>3, <1>4, IndInvPartsNext

LEMMA ProceedStep == ASSUME IndInv, NEW w \in Worker, Proceed(w) PROVE IndInv'
<1>1. CASE \/ Refuse(w)
           \/ ForceReportComputedTask(w) \/ AckReportComputedTask(w)
           \/ RejectReportComputedTask(w) \/ ForceGetTaskResult(w)
  BY <1>1, RefuseStep, ReportingSteps
<1>2. CASE CheckBeforeClaim(w) \/ ClaimDeposit(w) \/ ClaimRefused(w)
  BY <1>2, ClaimingSteps
<1>3. CASE StoreForceSubtaskResults(w) \/ StoreSubtaskResultsVerify(w)
  BY <1>3, StoringSteps
<1>4. CASE ForceSubtaskResultsResponse(w) \/ ForcePayment(w) \/ Delay(w) \/ Deliver(w)
  BY <1>4, AnswerStep, ForcePaymentStep, DelayStep, DeliverStep
<1>5. CASE \E s \in Subtask : SweepSubtask(w, s)
  BY <1>5, SweepStep
<1>6. CASE DeleteDepositClaim(w) \/ ReadClaim(w) \/ PayClaim(w)
  BY <1>6, CallbackSteps
<1> QED
  BY <1>1, <1>2, <1>3, <1>4, <1>5, <1>6 DEF Proceed

LEMMA InitIndInv == ASSUME Init PROVE IndInv
<1>1. WorkersOK
  BY NoCopiesFacts, RequestTypes DEF Init, WorkersOK, JobOK, CopiesAreClean, Stage
<1>2. TableOK
  BY NoRowFacts DEF Init, TableOK, SavedRowsAreClean, RowOK
<1>3. DataOK
  <2>1. <<>> \in Seq(Letter)
    OBVIOUS
  <2>2. mail \in [Client -> Seq(Letter)]
    BY <2>1 DEF Init
  <2>3. claim \in [ClaimKey -> ClaimStatus] /\ paid \in [ClaimKey -> Nat]
    BY DEF Init, ClaimStatus
  <2> QED
    BY <2>2, <2>3 DEF Init, DataOK
<1> QED
  BY <1>1, <1>2, <1>3, IndInvParts

LEMMA NextIndInv == ASSUME IndInv, [Next]_vars PROVE IndInv'
<1>1. CASE Next
  BY <1>1, SendStep, StartReceiveStep, UploadFinishedStep, VerificationResultStep, ProceedStep,
     ResultUploadFinishedStep, EnvironmentSteps DEF Next
<1>2. CASE UNCHANGED vars
  <2>1. UNCHANGED row /\ UNCHANGED workerVars
    BY <1>2 DEF vars, workerVars
  <2>2. TableOK' /\ WorkersOK'
    BY <2>1, IndInvParts, TableUnchanged, WorkersUnchanged
  <2>3. DataOK'
    BY <1>2, IndInvParts DEF vars, DataOK
  <2> QED
    BY <2>2, <2>3, IndInvPartsNext
<1> QED
  BY <1>1, <1>2

LEMMA Invariance == Spec => []IndInv
  BY InitIndInv, NextIndInv, PTL DEF Spec

\* Every variable keeps its type.
THEOREM TypeCorrectness == Spec => []TypeOK
<1>1. IndInv => TypeOK
  BY DEF IndInv
<1> QED
  BY <1>1, Invariance, PTL

\* The rows in the table satisfy the rules of clean() about deadlines and related
\* messages, although receive/ saves copies that other requests have overtaken and
\* clean() is never asked about the row it overwrites.
THEOREM TableIsClean == Spec => []SavedRowsAreClean
<1>1. IndInv => SavedRowsAreClean
  BY DEF IndInv
<1> QED
  BY <1>1, Invariance, PTL

-----------------------------------------------------------------------------
(* When no row changes under a copy, the table implements SubtaskLifecycle. *)

LEMMA SameRule ==
  ASSUME NEW st \in SubtaskState, NEW from
  PROVE  /\ Lifecycle!SubtaskState = SubtaskState
         /\ Lifecycle!IsStateTransitionPossible(st, from) <=> IsStateTransitionPossible(st, from)
<1>1. Lifecycle!SubtaskState = SubtaskState
  BY DEF Lifecycle!SubtaskState, SubtaskState, Lifecycle!ActiveStates, ActiveStates,
         Lifecycle!PassiveStates, PassiveStates
<1>2. Lifecycle!PossibleTransitionsTo = PossibleTransitionsTo
  BY <1>1, Zenon DEF Lifecycle!PossibleTransitionsTo, PossibleTransitionsTo, Lifecycle!Unknown, Unknown
<1> QED
  BY <1>1, <1>2 DEF Lifecycle!IsStateTransitionPossible, IsStateTransitionPossible

\* The step of one row along the rule, or with its state kept.
Moves(r, q) ==
  \/ q.state = r.state
  \/ q.state \in SubtaskState /\ IsStateTransitionPossible(q.state, r.state)

LEMMA SavedMove ==
  ASSUME TableOK, NEW s \in Subtask, NEW q \in Row, Moves(row[s], q), Save(s, q)
  PROVE  [Lifecycle!Next]_StateColumn
<1>1. row \in [Subtask -> Row] /\ row' = [row EXCEPT ![s] = q]
  BY DEF TableOK, Save
<1>2. StateColumn' = [StateColumn EXCEPT ![s] = q.state]
  BY <1>1 DEF StateColumn
<1>3. StateColumn[s] = row[s].state
  BY DEF StateColumn
<1>4. CASE q.state = row[s].state
  BY <1>2, <1>3, <1>4 DEF StateColumn
<1>5. CASE q.state \in SubtaskState /\ IsStateTransitionPossible(q.state, row[s].state)
  <2>1. Lifecycle!Move(s, q.state)
    BY <1>2, <1>3, <1>5, SameRule DEF Lifecycle!Move
  <2> QED
    BY <1>5, <2>1, SameRule DEF Lifecycle!Next
<1> QED
  BY <1>4, <1>5 DEF Moves

LEMMA NoMove == ASSUME UNCHANGED row PROVE [Lifecycle!Next]_StateColumn
  BY DEF StateColumn

LEMMA TimeoutMoves ==
  ASSUME NEW r \in Row, r.state \in ActiveStates
  PROVE  Moves(r, ToPassive(r, TimeoutState(r.state)))
<1>1. TimeoutState(r.state) \in PassiveStates
  BY DEF TimeoutState, ActiveStates, PassiveStates
<1>2. IsStateTransitionPossible(TimeoutState(r.state), r.state)
  BY DEF IsStateTransitionPossible, PossibleTransitionsTo, TimeoutState, ActiveStates,
         PassiveStates, SubtaskState
<1>3. ToPassive(r, TimeoutState(r.state)).state = TimeoutState(r.state)
  BY <1>1, PassiveRow
<1> QED
  BY <1>1, <1>2, <1>3 DEF Moves, SubtaskState

LEMMA UploadMoves ==
  ASSUME NEW r \in Row, r.state = "FORCING_RESULT_TRANSFER"
  PROVE  Moves(r, ToPassive(r, "RESULT_UPLOADED"))
<1>1. ToPassive(r, "RESULT_UPLOADED").state = "RESULT_UPLOADED"
  BY PassiveRow DEF PassiveStates
<1>2. IsStateTransitionPossible("RESULT_UPLOADED", r.state)
  BY DEF IsStateTransitionPossible, PossibleTransitionsTo, SubtaskState, PassiveStates
<1> QED
  BY <1>1, <1>2 DEF Moves, SubtaskState, PassiveStates

\* The state that each handler saves.
LEMMA ResultState ==
  ASSUME NEW m \in Message, NEW r, m.op # "ForcePayment"
  PROVE  LET st == Result(m, r).state IN
           /\ st \in SubtaskState
           /\ m.op = "ForceReportComputedTask" => st = "FORCING_REPORT"
           /\ m.op = "ForceGetTaskResult" => st = "FORCING_RESULT_TRANSFER"
           /\ m.op = "ForceSubtaskResults" => st = "FORCING_ACCEPTANCE"
           /\ m.op = "SubtaskResultsVerify" => st = "VERIFICATION_FILE_TRANSFER"
<1>1. m.op \in Kinds
  BY MessageFields
<1>2. ASSUME NEW st, NEW d, NEW p, NEW new
      PROVE  /\ Stored(st, d, p, new).state = st
             /\ Updated(r, st, d, p, new).state = st
             /\ StoreOrUpdate(r, st, d, p, new).state = st
  BY DEF Stored, Updated, StoreOrUpdate
<1>3. CASE m.op = "ForceReportComputedTask"
  BY <1>2, <1>3 DEF Result, SubtaskState, ActiveStates
<1>4. CASE m.op = "AckReportComputedTask"
  BY <1>2, <1>4 DEF Result, SubtaskState, PassiveStates
<1>5. CASE m.op = "RejectReportComputedTask"
  BY <1>2, <1>5 DEF Result, SubtaskState, PassiveStates
<1>6. CASE m.op = "ForceGetTaskResult"
  BY <1>2, <1>6 DEF Result, SubtaskState, ActiveStates
<1>7. CASE m.op = "ForceSubtaskResults"
  BY <1>2, <1>7 DEF Result, SubtaskState, ActiveStates
<1>8. CASE m.op = "ForceSubtaskResultsResponse"
  BY <1>2, <1>8 DEF Result, SubtaskState, PassiveStates
<1>9. CASE m.op = "SubtaskResultsVerify"
  BY <1>2, <1>9 DEF Result, SubtaskState, ActiveStates
<1> QED
  BY <1>1, <1>3, <1>4, <1>5, <1>6, <1>7, <1>8, <1>9 DEF Kinds

\* clean() lets an object that was not in the table through whatever its state is:
\* there it is the handler that follows the rule.
LEMMA HandlerMoves ==
  ASSUME NEW m \in Message, NEW r \in Row, Saves(m, r), m.op # "ForcePayment",
         Applies(m, r) \/ m.op \in {"ForceSubtaskResults", "SubtaskResultsVerify"}
  PROVE  Moves(r, Result(m, r))
<1> DEFINE st == Result(m, r).state
<1>1. st \in SubtaskState
  BY ResultState
<1>2. CASE r.state # Unknown
  BY <1>1, <1>2 DEF Saves, Clean, Moves
<1>3. CASE r.state = Unknown
  <2>1. m.op \in {"ForceReportComputedTask", "ForceGetTaskResult", "ForceSubtaskResults",
                  "SubtaskResultsVerify"}
    <3>1. m.op \in Kinds
      BY MessageFields
    <3>2. m.op \notin {"AckReportComputedTask", "RejectReportComputedTask",
                       "ForceSubtaskResultsResponse"}
      BY <1>3 DEF Applies, MayAcknowledge, MayReject, MayRespond, Unknown
    <3> QED
      BY <3>1, <3>2 DEF Kinds
  <2>2. st \in {"FORCING_REPORT", "FORCING_RESULT_TRANSFER", "FORCING_ACCEPTANCE",
                "VERIFICATION_FILE_TRANSFER"}
    BY <2>1, ResultState
  <2>3. IsStateTransitionPossible(st, r.state)
    BY <1>1, <1>3, <2>2 DEF IsStateTransitionPossible, PossibleTransitionsTo
  <2> QED
    BY <1>1, <2>3 DEF Moves
<1> QED
  BY <1>2, <1>3

LEMMA TaskMoves ==
  ASSUME NEW r \in Row
  PROVE  /\ r.state = "VERIFICATION_FILE_TRANSFER" => Moves(r, ToPassive(r, "FAILED"))
         /\ r.state = "VERIFICATION_FILE_TRANSFER"
              => \A d \in Int : Moves(r, WithState(r, "ADDITIONAL_VERIFICATION", d))
         /\ r.state = "ADDITIONAL_VERIFICATION"
              => Moves(r, ToPassive(r, "ACCEPTED")) /\ Moves(r, ToPassive(r, "FAILED"))
<1>1. \A st \in SubtaskState, d \in Int : WithState(r, st, d).state = st
  BY DEF WithState, Updated
<1>2. /\ ToPassive(r, "FAILED").state = "FAILED"
      /\ ToPassive(r, "ACCEPTED").state = "ACCEPTED"
  BY PassiveRow DEF PassiveStates
<1>3. {"FAILED", "ACCEPTED", "ADDITIONAL_VERIFICATION"} \subseteq SubtaskState
  BY DEF SubtaskState, ActiveStates, PassiveStates
<1>4. /\ IsStateTransitionPossible("FAILED", "VERIFICATION_FILE_TRANSFER")
      /\ IsStateTransitionPossible("ADDITIONAL_VERIFICATION", "VERIFICATION_FILE_TRANSFER")
      /\ IsStateTransitionPossible("ACCEPTED", "ADDITIONAL_VERIFICATION")
      /\ IsStateTransitionPossible("FAILED", "ADDITIONAL_VERIFICATION")
  BY <1>3 DEF IsStateTransitionPossible, PossibleTransitionsTo
<1> QED
  BY <1>1, <1>2, <1>3, <1>4 DEF Moves

\* What a receive/ request may still save is what is in the table.
SafeCopies == \A w \in Worker, s \in Subtask : Holds(w, s) => copies[w][s] = row[s]

LEMMA ProceedRefines ==
  ASSUME IndInv, SafeCopies, NEW w \in Worker, Proceed(w)
  PROVE  [Lifecycle!Next]_StateColumn
<1> DEFINE m == job[w]
<1>1. TableOK /\ WorkersOK /\ DataOK
  BY IndInvParts
<1>2. CASE \/ Refuse(w) \/ CheckBeforeClaim(w) \/ ClaimDeposit(w) \/ ClaimRefused(w)
           \/ ForcePayment(w) \/ Delay(w) \/ Deliver(w)
           \/ DeleteDepositClaim(w) \/ ReadClaim(w) \/ PayClaim(w)
  BY <1>2, NoMove
  DEF Refuse, CheckBeforeClaim, ClaimDeposit, ClaimRefused, ForcePayment, Delay, Deliver,
      DeleteDepositClaim, ReadClaim, PayClaim, controlVars
<1>3. CASE \/ ForceReportComputedTask(w) \/ AckReportComputedTask(w)
           \/ RejectReportComputedTask(w) \/ ForceGetTaskResult(w)
           \/ StoreForceSubtaskResults(w) \/ StoreSubtaskResultsVerify(w)
           \/ ForceSubtaskResultsResponse(w)
  <2>1. m \in Message /\ m.subtask \in Subtask
    BY <1>3, Handled
    DEF ForceReportComputedTask, AckReportComputedTask, RejectReportComputedTask,
        ForceGetTaskResult, ForceSubtaskResultsResponse, Handling,
        StoreForceSubtaskResults, StoreSubtaskResultsVerify
  <2>2. /\ Saves(m, row[m.subtask]) /\ m.op # "ForcePayment"
        /\ Applies(m, row[m.subtask]) \/ m.op \in {"ForceSubtaskResults", "SubtaskResultsVerify"}
    BY <1>3
    DEF ForceReportComputedTask, AckReportComputedTask, RejectReportComputedTask,
        ForceGetTaskResult, ForceSubtaskResultsResponse, Handling, Accepts,
        StoreForceSubtaskResults, StoreSubtaskResultsVerify, StoreAccepts
  <2>3. Save(m.subtask, Result(m, row[m.subtask]))
    BY <1>3
    DEF ForceReportComputedTask, AckReportComputedTask, RejectReportComputedTask,
        ForceGetTaskResult, ForceSubtaskResultsResponse, SaveUpdated, SaveStoredOrUpdated,
        StoreForceSubtaskResults, StoreSubtaskResultsVerify
  <2>4. Result(m, row[m.subtask]) \in Row /\ row[m.subtask] \in Row
    BY <2>1, <2>2, SavedResult
  <2>5. Moves(row[m.subtask], Result(m, row[m.subtask]))
    BY <2>1, <2>2, <2>4, HandlerMoves
  <2> QED
    BY <1>1, <2>1, <2>3, <2>4, <2>5, SavedMove
<1>4. ASSUME NEW s \in Subtask, SweepSubtask(w, s)
      PROVE  [Lifecycle!Next]_StateColumn
  <2>1. copies[w][s] = row[s] /\ row[s] \in Row /\ RowOK(row[s])
    BY <1>1, <1>4 DEF SweepSubtask, SafeCopies, Holds, TableOK, SavedRowsAreClean, RowOK
  <2>2. CASE FileIsUploaded(s, row[s], m.client) /\ VerifyFileStatus(s, row[s])
    BY <1>1, <2>1, <2>2, UploadMoves, UploadedRow, SavedMove DEF FileIsUploaded, VerifyFileStatus
  <2>3. CASE TimeIsUp(row[s]) /\ UpdateTimedOutSubtask(w, s, row[s])
    BY <1>1, <2>1, <2>3, TimeoutMoves, TimedOutRow, SavedMove DEF TimeIsUp, UpdateTimedOutSubtask
  <2>4. CASE UNCHANGED row
    BY <2>4, NoMove
  <2> QED
    BY <1>4, <2>1, <2>2, <2>3, <2>4 DEF SweepSubtask
<1> QED
  BY <1>2, <1>3, <1>4 DEF Proceed

LEMMA NextRefines ==
  ASSUME IndInv, SafeCopies, [Next]_vars
  PROVE  [Lifecycle!Next]_StateColumn
<1>1. TableOK /\ WorkersOK /\ DataOK
  BY IndInvParts
<1>2. ASSUME NEW w \in Worker, Send(w) PROVE [Lifecycle!Next]_StateColumn
  <2>1. PICK s \in Subtask : \E m \in Incoming(s) : PreProcess(w, m)
    BY <1>2 DEF Send
  <2>2. PICK m \in Incoming(s) : PreProcess(w, m)
    BY <2>1
  <2>3. m.subtask = s /\ row[s] \in Row /\ RowOK(row[s])
    BY <1>1, IncomingType DEF DataOK, TableOK, SavedRowsAreClean, RowOK
  <2>4. CASE UNCHANGED row
    BY <2>4, NoMove
  <2>5. CASE FileIsUploaded(s, row[s], Sender(m)) /\ VerifyFileStatus(s, row[s])
    BY <1>1, <2>3, <2>5, UploadMoves, UploadedRow, SavedMove DEF FileIsUploaded, VerifyFileStatus
  <2>6. CASE TimeIsUp(row[s]) /\ UpdateTimedOutSubtask(w, s, row[s])
    BY <1>1, <2>3, <2>6, TimeoutMoves, TimedOutRow, SavedMove DEF TimeIsUp, UpdateTimedOutSubtask
  <2> QED
    BY <2>2, <2>3, <2>4, <2>5, <2>6 DEF PreProcess
<1>3. ASSUME NEW w \in Worker, NEW s \in Subtask, UploadFinished(w, s)
      PROVE  [Lifecycle!Next]_StateColumn
  <2> DEFINE r == row[s]
             new == WithState(r, "ADDITIONAL_VERIFICATION", r.deadline + CVT[s])
  <2>1. r \in Row /\ RowOK(r) /\ r.state = "VERIFICATION_FILE_TRANSFER"
    BY <1>1, <1>3 DEF UploadFinished, TableOK, SavedRowsAreClean, RowOK
  <2>2. CASE Save(s, ToPassive(r, "FAILED"))
    BY <1>1, <2>1, <2>2, TaskMoves, EndOfVerification, SavedMove
  <2>3. CASE Save(s, new)
    <3>1. r.deadline + CVT[s] \in Int /\ r.package \in Package
      BY <2>1, ControlAssumption DEF Row
    <3>2. new \in Row
      BY <2>1, <3>1, UpdatedType DEF WithState, SubtaskState, ActiveStates
    <3> QED
      BY <1>1, <2>1, <2>3, <3>1, <3>2, TaskMoves, SavedMove
  <2> QED
    BY <1>3, <2>2, <2>3 DEF UploadFinished
<1>4. ASSUME NEW w \in Worker, NEW s \in Subtask, NEW result, VerificationResult(w, s, result)
      PROVE  [Lifecycle!Next]_StateColumn
  <2>1. row[s] \in Row /\ RowOK(row[s]) /\ row[s].state = "ADDITIONAL_VERIFICATION"
    BY <1>1, <1>4 DEF VerificationResult, TableOK, SavedRowsAreClean, RowOK
  <2>2. Save(s, ToPassive(row[s], "ACCEPTED")) \/ Save(s, ToPassive(row[s], "FAILED"))
    BY <1>4 DEF VerificationResult, Settle
  <2> QED
    BY <1>1, <2>1, <2>2, TaskMoves, EndOfVerification, SavedMove
<1>5. ASSUME NEW s \in Subtask, ResultUploadFinished(s)
      PROVE  [Lifecycle!Next]_StateColumn
  <2> DEFINE new == [row[s] EXCEPT !.uploaded = TRUE]
  <2>1. new \in Row /\ new.state = row[s].state
    BY <1>1 DEF TableOK, Row
  <2> QED
    BY <1>1, <1>5, <2>1, SavedMove DEF ResultUploadFinished, Moves
<1>6. CASE UNCHANGED row
  BY <1>6, NoMove
<1>7. CASE UNCHANGED vars
  BY <1>7, NoMove DEF vars
<1>8. ASSUME Next PROVE [Lifecycle!Next]_StateColumn
  <2>1. CASE \/ Tick \/ StartSoftShutdown \/ \E k \in ClaimKey : ConfirmPayment(k)
             \/ \E w \in Worker : Crash(w) \/ \E c \in Client : StartReceive(w, c)
    BY <1>6, <2>1 DEF Tick, StartSoftShutdown, ConfirmPayment, Crash, StartReceive, controlVars
  <2> QED
    BY <1>2, <1>3, <1>4, <1>5, <1>8, <2>1, ProceedRefines DEF Next
<1> QED
  BY <1>7, <1>8

LEMMA CopiesStaySafe == SafeCopies /\ [RaceFreeNext]_vars => SafeCopies'
<1>1. FreshCopies' => SafeCopies'
  BY DEF FreshCopies, SafeCopies
<1>2. SafeCopies /\ UNCHANGED vars => SafeCopies'
  BY DEF SafeCopies, Holds, vars
<1> QED
  BY <1>1, <1>2 DEF RaceFreeNext

\* The rule of POSSIBLE_TRANSITIONS_TO holds of the table, and not only of the objects
\* that are saved, as long as no row changes while a receive/ request holds a copy of it:
\* the lock that the code means to take there is all that is missing.
THEOREM TableRefinesLifecycle == RaceFreeSpec => ImplementsLifecycle
<1>1. Init => Lifecycle!Init
  BY NoRowFacts DEF Init, Lifecycle!Init, StateColumn, Lifecycle!Unknown, Unknown
<1>2. Init => SafeCopies
  BY NoRowFacts DEF Init, SafeCopies, Holds, NoCopies
<1>3. SafeCopies /\ [RaceFreeNext]_vars => SafeCopies'
  BY CopiesStaySafe
<1>4. [RaceFreeNext]_vars => [Next]_vars
  BY DEF RaceFreeNext
<1>5. IndInv /\ SafeCopies /\ [Next]_vars => [Lifecycle!Next]_StateColumn
  BY NextRefines
<1> QED
  BY <1>1, <1>2, <1>3, <1>4, <1>5, InitIndInv, NextIndInv, PTL
  DEF RaceFreeSpec, ImplementsLifecycle, Lifecycle!Spec

\* Under the same condition a verdict is final: no late message, upload, verification
\* result or timeout takes a subtask out of ACCEPTED or FAILED.
THEOREM VerdictsAreFinal == RaceFreeSpec => Lifecycle!FinalIsFinal
<1> DEFINE Final == \A s \in Subtask :
                      StateColumn[s] \in Lifecycle!FinalStates => StateColumn'[s] = StateColumn[s]
<1>1. [Lifecycle!Next]_StateColumn => [Final]_StateColumn
  <2> SUFFICES ASSUME NEW t \in Subtask, NEW st \in SubtaskState, Lifecycle!Move(t, st)
               PROVE  Final
    BY SameRule, "ACCEPTED" \in SubtaskState DEF Lifecycle!Next, SubtaskState, PassiveStates
  <2>1. StateColumn[t] \notin Lifecycle!FinalStates
    BY SameRule DEF Lifecycle!Move, Lifecycle!FinalStates, IsStateTransitionPossible,
       PossibleTransitionsTo, SubtaskState, ActiveStates, PassiveStates, Unknown
  <2>2. StateColumn' = [StateColumn EXCEPT ![t] = st]
    BY DEF Lifecycle!Move
  <2> QED
    BY <2>1, <2>2 DEF StateColumn
<1> QED
  BY <1>1, TableRefinesLifecycle, PTL
  DEF ImplementsLifecycle, Lifecycle!Spec, Lifecycle!FinalIsFinal

-----------------------------------------------------------------------------
(* When no row changes under a copy, claims are paid once and verdicts are *)
(* given once.  Both follow from where a payment or a verdict comes from:  *)
(* the step that takes a subtask to a final state, which happens once.     *)

IsFinal(s) == row[s].state \in {"ACCEPTED", "FAILED"}

Verdict == {"SubtaskResultsSettled", "SubtaskResultsRejected"}

\* The callback i of w has a claim to pay out.
ToPay(w, i) == i \in DOMAIN todo[w] /\ todo[w][i].act \in {"finalize", "paying"}

\* A payment is under way only when its subtask is final and the claim was not paid, and
\* what has been read of the claim still holds.
PaymentsAreDue ==
  \A w \in Worker, i \in Nat : ToPay(w, i) =>
    LET k == todo[w][i].key IN
      /\ IsFinal(k[1]) /\ paid[k] = 0
      /\ todo[w][i].act = "paying" => claim[k] = "open"

\* One callback pays a claim.
OnePayer ==
  \A w, v \in Worker, i, j \in Nat :
    ToPay(w, i) /\ ToPay(v, j) /\ todo[w][i].key = todo[v][j].key => w = v /\ i = j

PaidIsFinal ==
  \A k \in ClaimKey : paid[k] \in {0, 1} /\ (paid[k] = 1 \/ claim[k] = "sent" => IsFinal(k[1]))

\* The states in which a timeout or the verifier may pay out the claims of a use case.
Waits(st, use) ==
  \/ use = "FORCED_ACCEPTANCE" /\ st = "FORCING_ACCEPTANCE"
  \/ use = "ADDITIONAL_VERIFICATION"
       /\ st \in {"VERIFICATION_FILE_TRANSFER", "ADDITIONAL_VERIFICATION"}

Backed(s, use) == \A k \in ClaimsOf(s, use) : claim[k] = "open"

WaitingIsBacked ==
  \A s \in Subtask, use \in UseCase : Waits(row[s].state, use) => Backed(s, use)

\* w has made the claims of s and not yet saved the row.
Stores(w, s, use) == pc[w] = "store" /\ job[w].subtask = s /\ UseCaseOf(job[w]) = use

StoringIsBacked ==
  \A w \in Worker, s \in Subtask, use \in UseCase :
    Stores(w, s, use) /\ ~ IsFinal(s) => Backed(s, use)

IsVerdict(c, i) == i \in DOMAIN mail[c] /\ mail[c][i].type \in Verdict

VerdictsEnd == \A c \in Client, i \in Nat : IsVerdict(c, i) => IsFinal(mail[c][i].subtask)

OneLetter ==
  \A c \in Client, i, j \in Nat :
    IsVerdict(c, i) /\ IsVerdict(c, j) /\ mail[c][i].subtask = mail[c][j].subtask => i = j

ChargeOf(s) == <<s, "ADDITIONAL_VERIFICATION", "requestor">>

\* After a rejection nothing charges the requestor for the verification.
RejectedIsFree ==
  \A c \in Client, i \in Nat :
    IsVerdict(c, i) /\ mail[c][i].type = "SubtaskResultsRejected" =>
      LET k == ChargeOf(mail[c][i].subtask) IN
        /\ paid[k] = 0
        /\ \A w \in Worker, j \in Nat : ToPay(w, j) => todo[w][j].key # k

PayInv == PaymentsAreDue /\ OnePayer /\ PaidIsFinal /\ WaitingIsBacked /\ StoringIsBacked
VerdictInv == VerdictsEnd /\ OneLetter /\ RejectedIsFree

-----------------------------------------------------------------------------
(* What a step may do to the callbacks, the claims and the letters. *)

FinalStays == \A s \in Subtask : IsFinal(s) => IsFinal(s)'

\* The callbacks of each worker are those it had, but perhaps for the first or for all.
PaysSame ==
  \A w \in Worker : \E d \in {0, 1} : \A i \in Nat :
    ToPay(w, i)' => ToPay(w, i + d) /\ todo'[w][i] = todo[w][i + d]

VerdictsSame ==
  \A c \in Client, i \in Nat :
    IsVerdict(c, i)' => /\ IsVerdict(c, i)
                        /\ mail'[c][i].type = mail[c][i].type
                        /\ mail'[c][i].subtask = mail[c][i].subtask

\* Only a claim that was paid goes.
ClaimsSame ==
  /\ paid' = paid
  /\ \A k \in ClaimKey : claim'[k] = claim[k] \/ (claim[k] = "sent" /\ claim'[k] = "none")

\* A subtask begins to wait only after the claims for it were made.
WaitsAfterClaim ==
  \A s \in Subtask, use \in UseCase :
    Waits(row'[s].state, use) =>
      \/ Waits(row[s].state, use)
      \/ ~ IsFinal(s) /\ \E w \in Worker : Stores(w, s, use)

StoresSame ==
  \A w \in Worker, s \in Subtask, use \in UseCase : Stores(w, s, use)' => Stores(w, s, use)

Quiet == PaysSame /\ VerdictsSame /\ ClaimsSame /\ WaitsAfterClaim /\ StoresSame

\* New callbacks of w, for s alone.
PaysNew(w, s, type) ==
  /\ \A v \in Worker \ {w} : todo'[v] = todo[v]
  /\ \/ todo'[w] = todo[w]
     \/ /\ \A i \in Nat : ToPay(w, i)' =>
             /\ todo'[w][i].act = "finalize" /\ todo'[w][i].key[1] = s
             /\ type = "SubtaskResultsRejected" => todo'[w][i].key # ChargeOf(s)
        /\ \A i, j \in Nat :
             ToPay(w, i)' /\ ToPay(w, j)' /\ todo'[w][i].key = todo'[w][j].key => i = j

VerdictGiven(s, type) ==
  \A c \in Client, i \in Nat :
    IsVerdict(c, i)' =>
      \/ /\ IsVerdict(c, i)
         /\ mail'[c][i].type = mail[c][i].type /\ mail'[c][i].subtask = mail[c][i].subtask
      \/ /\ i = Len(mail[c]) + 1
         /\ mail'[c][i].type = type /\ mail'[c][i].subtask = s

\* s ends.
Ends(s) ==
  /\ ~ IsFinal(s) /\ IsFinal(s)'
  /\ ClaimsSame /\ WaitsAfterClaim /\ StoresSame
  /\ \E w \in Worker, type \in Verdict : PaysNew(w, s, type) /\ VerdictGiven(s, type)

LEMMA PayTypes ==
  ASSUME IndInv, NEW w \in Worker, NEW i, ToPay(w, i)
  PROVE  /\ todo[w][i] \in Callback
         /\ todo[w][i].key \in ClaimKey /\ todo[w][i].key[1] \in Subtask
<1>1. todo[w] \in Seq(Callback)
  BY DEF IndInv, TypeOK
<1>2. todo[w][i] \in Callback
  BY <1>1 DEF ToPay
<1>3. todo[w][i].key \in ClaimKey
  BY <1>2 DEF Callback
<1>4. \A k \in ClaimKey : k[1] \in Subtask
  BY DEF ClaimKey
<1> QED
  BY <1>2, <1>3, <1>4

LEMMA PayTypesNext ==
  ASSUME IndInv', NEW w \in Worker, NEW i, ToPay(w, i)'
  PROVE  todo'[w][i].key \in ClaimKey
<1>1. todo'[w] \in Seq(Callback)
  BY DEF IndInv, TypeOK
<1>2. todo'[w][i] \in Callback
  BY <1>1 DEF ToPay
<1> QED
  BY <1>2 DEF Callback

LEMMA VerdictTypes ==
  ASSUME IndInv, NEW c \in Client, NEW i, IsVerdict(c, i)
  PROVE  /\ mail[c] \in Seq(Letter) /\ mail[c][i].subtask \in Subtask
         /\ i \in 1..Len(mail[c])
<1>1. mail[c] \in Seq(Letter)
  BY DEF IndInv, TypeOK
<1>2. mail[c][i] \in Letter
  BY <1>1 DEF IsVerdict
<1> QED
  BY <1>1, <1>2 DEF Letter, IsVerdict

LEMMA ClaimKeys ==
  ASSUME NEW s \in Subtask, NEW use \in UseCase
  PROVE  ClaimsOf(s, use) \subseteq ClaimKey /\ \A k \in ClaimsOf(s, use) : k[1] = s
  BY DEF ClaimsOf, ClaimKey, UseCase, Payer

LEMMA BackedStays ==
  ASSUME ClaimsSame, NEW s \in Subtask, NEW use \in UseCase, Backed(s, use)
  PROVE  Backed(s, use)'
  BY ClaimKeys DEF ClaimsSame, Backed

\* As long as claims only go when they were paid, what waits is backed.
LEMMA BackingKept ==
  ASSUME PayInv, FinalStays, ClaimsSame, WaitsAfterClaim, StoresSame
  PROVE  WaitingIsBacked' /\ StoringIsBacked'
<1>1. ASSUME NEW s \in Subtask, NEW use \in UseCase, Waits(row'[s].state, use)
      PROVE  Backed(s, use)'
  <2>1. Backed(s, use)
    BY <1>1 DEF WaitsAfterClaim, PayInv, WaitingIsBacked, StoringIsBacked
  <2> QED
    BY <2>1, BackedStays
<1>2. ASSUME NEW w \in Worker, NEW s \in Subtask, NEW use \in UseCase,
             Stores(w, s, use)', ~ IsFinal(s)'
      PROVE  Backed(s, use)'
  <2>1. Backed(s, use)
    BY <1>2 DEF StoresSame, FinalStays, PayInv, StoringIsBacked
  <2> QED
    BY <2>1, BackedStays
<1> QED
  BY <1>1, <1>2 DEF WaitingIsBacked, StoringIsBacked

LEMMA PaidStaysFinal ==
  ASSUME PayInv, FinalStays, ClaimsSame PROVE PaidIsFinal'
<1> SUFFICES ASSUME NEW k \in ClaimKey
             PROVE  /\ paid'[k] \in {0, 1}
                    /\ paid'[k] = 1 \/ claim'[k] = "sent" => IsFinal(k[1])'
  BY DEF PaidIsFinal
<1>1. k[1] \in Subtask
  BY DEF ClaimKey
<1> QED
  BY <1>1 DEF PayInv, PaidIsFinal, FinalStays, ClaimsSame

LEMMA OnePayerKept ==
  ASSUME OnePayer, PaysSame PROVE OnePayer'
<1> SUFFICES ASSUME NEW w \in Worker, NEW v \in Worker, NEW i \in Nat, NEW j \in Nat,
                    ToPay(w, i)', ToPay(v, j)', todo'[w][i].key = todo'[v][j].key
             PROVE  w = v /\ i = j
  BY DEF OnePayer
<1>1. PICK d \in {0, 1} : \A n \in Nat :
        ToPay(w, n)' => ToPay(w, n + d) /\ todo'[w][n] = todo[w][n + d]
  BY DEF PaysSame
<1>2. PICK e \in {0, 1} : \A n \in Nat :
        ToPay(v, n)' => ToPay(v, n + e) /\ todo'[v][n] = todo[v][n + e]
  BY DEF PaysSame
<1>3. i + d \in Nat /\ j + e \in Nat /\ j + d \in Nat
  OBVIOUS
<1>4. w = v
  BY <1>1, <1>2, <1>3 DEF OnePayer
<1>5. i + d = j + d
  BY <1>1, <1>3, <1>4 DEF OnePayer
<1> QED
  BY <1>4, <1>5

LEMMA QuietKeeps ==
  ASSUME IndInv, PayInv, VerdictInv, FinalStays, Quiet
  PROVE  PayInv' /\ VerdictInv'
<1>1. PaymentsAreDue'
  <2> SUFFICES ASSUME NEW w \in Worker, NEW i \in Nat, ToPay(w, i)'
               PROVE  LET k == todo'[w][i].key IN
                        /\ row'[k[1]].state \in {"ACCEPTED", "FAILED"} /\ paid'[k] = 0
                        /\ todo'[w][i].act = "paying" => claim'[k] = "open"
    BY DEF PaymentsAreDue, IsFinal
  <2>1. PICK j \in Nat : ToPay(w, j) /\ todo'[w][i] = todo[w][j]
    BY DEF Quiet, PaysSame
  <2>2. todo[w][j].key \in ClaimKey /\ todo[w][j].key[1] \in Subtask
    BY <2>1, PayTypes
  <2> QED
    BY <2>1, <2>2 DEF PayInv, PaymentsAreDue, FinalStays, IsFinal, Quiet, ClaimsSame
<1>2. OnePayer'
  BY OnePayerKept DEF Quiet, PayInv
<1>3. PaidIsFinal' /\ WaitingIsBacked' /\ StoringIsBacked'
  BY PaidStaysFinal, BackingKept DEF Quiet
<1>4. VerdictsEnd'
  BY VerdictTypes DEF Quiet, VerdictsSame, VerdictInv, VerdictsEnd, FinalStays
<1>5. OneLetter'
  BY DEF Quiet, VerdictsSame, VerdictInv, OneLetter
<1>6. RejectedIsFree'
  <2> SUFFICES ASSUME NEW c \in Client, NEW i \in Nat, IsVerdict(c, i)',
                      mail'[c][i].type = "SubtaskResultsRejected"
               PROVE  LET k == ChargeOf(mail'[c][i].subtask) IN
                        /\ paid'[k] = 0
                        /\ \A w \in Worker, j \in Nat : ToPay(w, j)' => todo'[w][j].key # k
    BY DEF RejectedIsFree, ChargeOf
  <2> DEFINE k == ChargeOf(mail[c][i].subtask)
  <2>1. /\ IsVerdict(c, i) /\ mail[c][i].type = "SubtaskResultsRejected"
        /\ mail'[c][i].subtask = mail[c][i].subtask
    BY DEF Quiet, VerdictsSame
  <2>2. /\ paid[k] = 0
        /\ \A w \in Worker, j \in Nat : ToPay(w, j) => todo[w][j].key # k
    BY <2>1 DEF VerdictInv, RejectedIsFree
  <2>3. ASSUME NEW w \in Worker, NEW j \in Nat, ToPay(w, j)' PROVE todo'[w][j].key # k
    <3>1. PICK n \in Nat : ToPay(w, n) /\ todo'[w][j] = todo[w][n]
      BY <2>3 DEF Quiet, PaysSame
    <3> QED
      BY <2>2, <3>1
  <2> QED
    BY <2>1, <2>2, <2>3 DEF Quiet, ClaimsSame
<1> QED
  BY <1>1, <1>2, <1>3, <1>4, <1>5, <1>6 DEF PayInv, VerdictInv

LEMMA EndKeeps ==
  ASSUME IndInv, IndInv', PayInv, VerdictInv, FinalStays, NEW s \in Subtask, Ends(s)
  PROVE  PayInv' /\ VerdictInv'
<1>1. PICK w \in Worker, type \in Verdict : PaysNew(w, s, type) /\ VerdictGiven(s, type)
  BY DEF Ends
\* Nothing of s was paid or under way.
<1>2. /\ \A k \in ClaimKey : k[1] = s => paid[k] = 0
      /\ \A v \in Worker, i \in Nat : ToPay(v, i) => todo[v][i].key[1] # s
      /\ \A c \in Client, i \in Nat : IsVerdict(c, i) => mail[c][i].subtask # s
  BY DEF Ends, PayInv, PaidIsFinal, PaymentsAreDue, VerdictInv, VerdictsEnd
<1>3. ASSUME NEW v \in Worker, NEW i \in Nat, ToPay(v, i)'
      PROVE  \/ ToPay(v, i) /\ todo'[v][i] = todo[v][i]
             \/ /\ v = w /\ todo'[v][i].act = "finalize" /\ todo'[v][i].key[1] = s
                /\ type = "SubtaskResultsRejected" => todo'[v][i].key # ChargeOf(s)
                /\ \A j \in Nat :
                     ToPay(v, j)' /\ todo'[v][i].key = todo'[v][j].key => i = j
  BY <1>1, <1>3 DEF PaysNew, ToPay
<1>4. \A v \in Worker, i \in Nat : ToPay(v, i)' => todo'[v][i].key \in ClaimKey
  BY PayTypesNext
<1>5. PaymentsAreDue'
  <2> SUFFICES ASSUME NEW v \in Worker, NEW i \in Nat, ToPay(v, i)'
               PROVE  LET k == todo'[v][i].key IN
                        /\ row'[k[1]].state \in {"ACCEPTED", "FAILED"} /\ paid'[k] = 0
                        /\ todo'[v][i].act = "paying" => claim'[k] = "open"
    BY DEF PaymentsAreDue, IsFinal
  <2>1. todo'[v][i].key \in ClaimKey /\ todo'[v][i].key[1] \in Subtask
    BY <1>4 DEF ClaimKey
  <2>2. CASE ToPay(v, i) /\ todo'[v][i] = todo[v][i]
    BY <2>1, <2>2 DEF PayInv, PaymentsAreDue, FinalStays, IsFinal, Ends, ClaimsSame
  <2>3. CASE todo'[v][i].act = "finalize" /\ todo'[v][i].key[1] = s
    BY <1>2, <2>1, <2>3 DEF Ends, IsFinal, ClaimsSame
  <2> QED
    BY <1>3, <2>2, <2>3
<1>6. OnePayer'
  <2> SUFFICES ASSUME NEW v \in Worker, NEW u \in Worker, NEW i \in Nat, NEW j \in Nat,
                      ToPay(v, i)', ToPay(u, j)', todo'[v][i].key = todo'[u][j].key
               PROVE  v = u /\ i = j
    BY DEF OnePayer
  <2>1. CASE todo'[v][i].key[1] = s
    BY <1>2, <1>3, <2>1
  <2>2. CASE todo'[v][i].key[1] # s
    BY <1>3, <2>2 DEF PayInv, OnePayer
  <2> QED
    BY <2>1, <2>2
<1>7. PaidIsFinal' /\ WaitingIsBacked' /\ StoringIsBacked'
  BY PaidStaysFinal, BackingKept DEF Ends
<1>8. VerdictsEnd'
  BY <1>1, VerdictTypes DEF VerdictGiven, VerdictInv, VerdictsEnd, FinalStays, Ends
<1>9. OneLetter'
  <2> SUFFICES ASSUME NEW c \in Client, NEW i \in Nat, NEW j \in Nat,
                      IsVerdict(c, i)', IsVerdict(c, j)', mail'[c][i].subtask = mail'[c][j].subtask
               PROVE  i = j
    BY DEF OneLetter
  <2> QED
    BY <1>1, <1>2 DEF VerdictGiven, VerdictInv, OneLetter
<1>10. RejectedIsFree'
  <2> SUFFICES ASSUME NEW c \in Client, NEW i \in Nat, IsVerdict(c, i)',
                      mail'[c][i].type = "SubtaskResultsRejected"
               PROVE  LET k == ChargeOf(mail'[c][i].subtask) IN
                        /\ paid'[k] = 0
                        /\ \A v \in Worker, j \in Nat : ToPay(v, j)' => todo'[v][j].key # k
    BY DEF RejectedIsFree, ChargeOf
  <2> DEFINE t == mail'[c][i].subtask
  <2>1. CASE IsVerdict(c, i) /\ mail[c][i].type = mail'[c][i].type /\ mail[c][i].subtask = t
    <3>1. /\ t # s /\ ChargeOf(t)[1] = t /\ paid[ChargeOf(t)] = 0
          /\ \A v \in Worker, j \in Nat : ToPay(v, j) => todo[v][j].key # ChargeOf(t)
      BY <1>2, <2>1 DEF VerdictInv, RejectedIsFree, ChargeOf
    <3> QED
      BY <1>3, <3>1 DEF Ends, ClaimsSame
  <2>2. CASE t = s /\ type = "SubtaskResultsRejected"
    <3>1. ChargeOf(s) \in ClaimKey /\ ChargeOf(s)[1] = s
      BY DEF ChargeOf, ClaimKey, UseCase, Payer
    <3> QED
      BY <1>2, <1>3, <2>2, <3>1 DEF Ends, ClaimsSame
  <2> QED
    BY <1>1, <2>1, <2>2 DEF VerdictGiven
<1> QED
  BY <1>5, <1>6, <1>7, <1>8, <1>9, <1>10 DEF PayInv, VerdictInv

-----------------------------------------------------------------------------
(* Claims are made and paid. *)

\* The stage of one worker changes, and not to "store".
LEMMA OneWorkerMoves ==
  ASSUME IndInv, NEW w \in Worker, pc'[w] # "store",
         \A v \in Worker \ {w} : pc'[v] = pc[v] /\ job'[v] = job[v]
  PROVE  StoresSame
  BY DEF StoresSame, Stores, UseCaseOf

LEMMA NoWorkerMoves ==
  ASSUME UNCHANGED <<pc, job>> PROVE StoresSame
  BY DEF StoresSame, Stores, UseCaseOf

LEMMA NoCallbackMoves ==
  ASSUME UNCHANGED todo PROVE PaysSame
<1> SUFFICES ASSUME NEW w \in Worker
             PROVE  \A i \in Nat : ToPay(w, i)' => ToPay(w, i + 0) /\ todo'[w][i] = todo[w][i + 0]
  BY DEF PaysSame
<1> QED
  BY DEF ToPay

LEMMA EndEffect ==
  ASSUME IndInv, NEW w \in Worker, End(w) PROVE PaysSame /\ StoresSame
<1>1. /\ pc' = [pc EXCEPT ![w] = "idle"] /\ job' = [job EXCEPT ![w] = Idle]
      /\ todo' = [todo EXCEPT ![w] = <<>>]
      /\ pc \in [Worker -> Stage] /\ job \in [Worker -> Request]
      /\ todo \in [Worker -> Seq(Callback)]
  BY DEF End, IndInv, TypeOK
<1>2. StoresSame
  BY <1>1, OneWorkerMoves
<1>3. ASSUME NEW v \in Worker
      PROVE  \A i \in Nat : ToPay(v, i)' => ToPay(v, i + 0) /\ todo'[v][i] = todo[v][i + 0]
  BY <1>1 DEF ToPay
<1> QED
  BY <1>2, <1>3 DEF PaysSame

LEMMA GotoEffect ==
  ASSUME IndInv, NEW w \in Worker, NEW stage, stage # "store", Goto(w, stage)
  PROVE  PaysSame /\ StoresSame
<1>1. pc' = [pc EXCEPT ![w] = stage] /\ UNCHANGED <<job, todo>> /\ pc \in [Worker -> Stage]
  BY DEF Goto, IndInv, TypeOK
<1>2. StoresSame
  BY <1>1, OneWorkerMoves
<1> QED
  BY <1>1, <1>2, NoCallbackMoves

\* The first callback of w is gone, and perhaps the rest with it.
LEMMA DoneEffect ==
  ASSUME IndInv, NEW w \in Worker, todo[w] # <<>>, Done(w)
  PROVE  /\ PaysSame /\ StoresSame
         /\ \A v \in Worker, i \in Nat : ToPay(v, i)' =>
              \E j \in Nat : ToPay(v, j) /\ todo'[v][i] = todo[v][j] /\ (v = w => j # 1)
<1>1. todo \in [Worker -> Seq(Callback)] /\ todo[w] \in Seq(Callback)
  BY DEF IndInv, TypeOK
<1>2. \/ End(w)
      \/ todo' = [todo EXCEPT ![w] = Tail(todo[w])] /\ UNCHANGED <<pc, job>>
  BY DEF Done
<1>3. StoresSame
  BY <1>2, EndEffect, NoWorkerMoves
<1>4. ASSUME NEW i \in Nat, ToPay(w, i)'
      PROVE  i + 1 \in Nat /\ i + 1 # 1 /\ ToPay(w, i + 1) /\ todo'[w][i] = todo[w][i + 1]
  <2>1. CASE End(w)
    BY <1>1, <1>4, <2>1 DEF End, ToPay
  <2>2. CASE todo'[w] = Tail(todo[w])
    <3>1. i \in 1..Len(Tail(todo[w]))
      BY <1>1, <1>4, <2>2 DEF ToPay
    <3>2. i + 1 \in 1..Len(todo[w]) /\ Tail(todo[w])[i] = todo[w][i + 1]
      BY <1>1, <3>1
    <3> QED
      BY <1>1, <1>4, <2>2, <3>1, <3>2 DEF ToPay
  <2> QED
    BY <1>1, <1>2, <2>1, <2>2
<1>5. ASSUME NEW v \in Worker \ {w}, NEW i \in Nat, ToPay(v, i)'
      PROVE  ToPay(v, i) /\ todo'[v][i] = todo[v][i] /\ i + 0 = i
  BY <1>1, <1>2, <1>5 DEF End, ToPay
<1>6. PaysSame
  <2>1. ASSUME NEW v \in Worker
        PROVE  \E d \in {0, 1} : \A i \in Nat :
                 ToPay(v, i)' => ToPay(v, i + d) /\ todo'[v][i] = todo[v][i + d]
    <3>1. CASE v = w
      BY <1>4, <3>1
    <3>2. CASE v # w
      BY <1>5, <3>2
    <3> QED
      BY <3>1, <3>2
  <2> QED
    BY <2>1 DEF PaysSame
<1> QED
  BY <1>3, <1>4, <1>5, <1>6

LEMMA ClaimDepositKeeps ==
  ASSUME IndInv, PayInv, VerdictInv, NEW w \in Worker, ClaimDeposit(w)
  PROVE  PayInv' /\ VerdictInv'
<1> DEFINE s == job[w].subtask
           use == UseCaseOf(job[w])
<1>1. s \in Subtask /\ use \in UseCase
  BY Handled DEF ClaimDeposit, UseCaseOf, UseCase
<1>2. /\ UNCHANGED <<row, mail, paid, todo, job>> /\ pc' = [pc EXCEPT ![w] = "store"]
      /\ \A k \in ClaimsOf(s, use) : claim[k] = "none"
      /\ claim' = [k \in ClaimKey |-> IF k \in ClaimsOf(s, use) THEN "open" ELSE claim[k]]
      /\ pc \in [Worker -> Stage]
  BY DEF ClaimDeposit, Goto, IndInv, TypeOK
<1>3. \A k \in ClaimKey : claim[k] # "none" => claim'[k] = claim[k]
  BY <1>2
<1>4. ASSUME NEW t \in Subtask, NEW u \in UseCase, Backed(t, u) PROVE Backed(t, u)'
  BY <1>3, <1>4, ClaimKeys DEF Backed
<1>5. PaymentsAreDue'
  BY <1>2, <1>3, PayTypes DEF PayInv, PaymentsAreDue, ToPay, IsFinal
<1>6. OnePayer'
  BY <1>2 DEF PayInv, OnePayer, ToPay
<1>7. PaidIsFinal'
  BY <1>2 DEF PayInv, PaidIsFinal, IsFinal
<1>8. WaitingIsBacked'
  BY <1>2, <1>4 DEF PayInv, WaitingIsBacked
<1>9. StoringIsBacked'
  <2> SUFFICES ASSUME NEW v \in Worker, NEW t \in Subtask, NEW u \in UseCase,
                      Stores(v, t, u)', ~ IsFinal(t)'
               PROVE  Backed(t, u)'
    BY DEF StoringIsBacked
  <2>1. CASE v = w
    <3>1. t = s /\ u = use
      BY <1>2, <2>1 DEF Stores, UseCaseOf
    <3> QED
      BY <1>1, <1>2, <3>1, ClaimKeys DEF Backed
  <2>2. CASE v # w
    BY <1>2, <1>4, <2>2 DEF Stores, UseCaseOf, PayInv, StoringIsBacked, IsFinal
  <2> QED
    BY <2>1, <2>2
<1>10. VerdictInv'
  BY <1>2 DEF VerdictInv, VerdictsEnd, OneLetter, RejectedIsFree, IsVerdict, IsFinal, ToPay
<1> QED
  BY <1>5, <1>6, <1>7, <1>8, <1>9, <1>10 DEF PayInv

\* The first callback of w, if it pays.
LEMMA FirstCallback ==
  ASSUME IndInv, NEW w \in Worker, todo[w] # <<>>, Head(todo[w]).act \in {"finalize", "paying"}
  PROVE  /\ 1 \in Nat /\ ToPay(w, 1) /\ todo[w][1] = Head(todo[w])
         /\ Head(todo[w]).key \in ClaimKey
<1>1. todo[w] \in Seq(Callback)
  BY DEF IndInv, TypeOK
<1>2. 1 \in DOMAIN todo[w] /\ todo[w][1] = Head(todo[w])
  BY <1>1
<1>3. ToPay(w, 1)
  BY <1>2 DEF ToPay
<1> QED
  BY <1>2, <1>3, PayTypes

\* A claim without hash is read.
LEMMA ReadOpenKeeps ==
  ASSUME IndInv, PayInv, VerdictInv, NEW w \in Worker, ReadClaim(w),
         claim[Head(todo[w]).key] = "open"
  PROVE  PayInv' /\ VerdictInv'
<1> DEFINE k == Head(todo[w]).key
<1>1. /\ todo \in [Worker -> Seq(Callback)] /\ todo[w] \in Seq(Callback) /\ todo[w] # <<>>
      /\ Head(todo[w]).act = "finalize"
  BY DEF ReadClaim, IndInv, TypeOK
<1>2. /\ todo' = [todo EXCEPT ![w] = <<[act |-> "paying", key |-> k]>> \o Tail(todo[w])]
      /\ UNCHANGED <<row, mail, claim, paid, pc, job>>
  BY DEF ReadClaim, controlVars
<1>3. ToPay(w, 1) /\ todo[w][1].key = k
  BY <1>1, FirstCallback
<1>4. ASSUME NEW v \in Worker, NEW i \in Nat, ToPay(v, i)'
      PROVE  /\ ToPay(v, i) /\ todo'[v][i].key = todo[v][i].key
             /\ todo'[v][i].act = "paying"
                  => todo[v][i].act = "paying" \/ claim[todo[v][i].key] = "open"
  <2> DEFINE q == <<[act |-> "paying", key |-> k]>> \o Tail(todo[w])
  <2>1. CASE v # w
    BY <1>1, <1>2, <1>4, <2>1 DEF ToPay
  <2>2. CASE v = w
    <3>1. todo'[w] = q
      BY <1>1, <1>2
    <3>2. /\ Len(q) = Len(todo[w]) /\ DOMAIN q = 1..Len(todo[w])
          /\ q[1] = [act |-> "paying", key |-> k]
          /\ \A n \in 2..Len(todo[w]) : q[n] = todo[w][n]
      BY <1>1
    <3>3. i \in 1..Len(todo[w])
      BY <1>4, <2>2, <3>1, <3>2 DEF ToPay
    <3>4. CASE i = 1
      BY <1>3, <2>2, <3>1, <3>2, <3>4
    <3>5. CASE i # 1
      <4>1. q[i] = todo[w][i]
        BY <3>2, <3>3, <3>5
      <4>2. i \in DOMAIN todo[w]
        BY <1>1, <3>3
      <4> QED
        BY <1>4, <2>2, <3>1, <4>1, <4>2 DEF ToPay
    <3> QED
      BY <3>4, <3>5
  <2> QED
    BY <2>1, <2>2
<1>5. PaymentsAreDue'
  <2> SUFFICES ASSUME NEW v \in Worker, NEW i \in Nat, ToPay(v, i)'
               PROVE  LET l == todo'[v][i].key IN
                        /\ row'[l[1]].state \in {"ACCEPTED", "FAILED"} /\ paid'[l] = 0
                        /\ todo'[v][i].act = "paying" => claim'[l] = "open"
    BY DEF PaymentsAreDue, IsFinal
  <2> DEFINE l == todo[v][i].key
  <2>1. /\ ToPay(v, i) /\ todo'[v][i].key = l
        /\ todo'[v][i].act = "paying" => todo[v][i].act = "paying" \/ claim[l] = "open"
    BY <1>4
  <2>2. /\ row[l[1]].state \in {"ACCEPTED", "FAILED"} /\ paid[l] = 0
        /\ todo[v][i].act = "paying" => claim[l] = "open"
    BY <2>1 DEF PayInv, PaymentsAreDue, IsFinal
  <2>3. row' = row /\ paid' = paid /\ claim' = claim
    BY <1>2
  <2> HIDE DEF l
  <2> QED
    BY <2>1, <2>2, <2>3
<1>6. OnePayer'
  <2> SUFFICES ASSUME NEW v \in Worker, NEW u \in Worker, NEW i \in Nat, NEW j \in Nat,
                      ToPay(v, i)', ToPay(u, j)', todo'[v][i].key = todo'[u][j].key
               PROVE  v = u /\ i = j
    BY DEF OnePayer
  <2>1. ToPay(v, i) /\ todo'[v][i].key = todo[v][i].key
    BY <1>4
  <2>2. ToPay(u, j) /\ todo'[u][j].key = todo[u][j].key
    BY <1>4
  <2> QED
    BY <2>1, <2>2 DEF PayInv, OnePayer
<1>7. PaidIsFinal' /\ WaitingIsBacked' /\ StoringIsBacked'
  BY <1>2 DEF PayInv, PaidIsFinal, WaitingIsBacked, StoringIsBacked, IsFinal, Backed, Stores,
              UseCaseOf
<1>8. VerdictInv'
  <2>1. VerdictsEnd' /\ OneLetter'
    BY <1>2 DEF VerdictInv, VerdictsEnd, OneLetter, IsVerdict, IsFinal
  <2>2. ASSUME NEW l PROVE (\A v \in Worker, i \in Nat : ToPay(v, i) => todo[v][i].key # l)
                             => \A v \in Worker, i \in Nat : ToPay(v, i)' => todo'[v][i].key # l
    BY <1>4
  <2>3. RejectedIsFree'
    BY <1>2, <2>2 DEF VerdictInv, RejectedIsFree, IsVerdict, ChargeOf
  <2> QED
    BY <2>1, <2>3 DEF VerdictInv
<1> QED
  BY <1>5, <1>6, <1>7, <1>8 DEF PayInv

\* What the worker that pays a claim knows of it.
LEMMA PayerKnows ==
  ASSUME IndInv, PayInv, NEW w \in Worker, PayClaim(w)
  PROVE  LET k == Head(todo[w]).key IN
           /\ k \in ClaimKey /\ IsFinal(k[1]) /\ paid[k] = 0 /\ claim[k] = "open"
           /\ ToPay(w, 1) /\ todo[w][1].key = k
<1>1. todo[w] # <<>> /\ Head(todo[w]).act = "paying"
  BY DEF PayClaim
<1> QED
  BY <1>1, FirstCallback DEF PayInv, PaymentsAreDue

LEMMA PayClaimKeeps ==
  ASSUME IndInv, PayInv, VerdictInv, NEW w \in Worker, PayClaim(w)
  PROVE  PayInv' /\ VerdictInv'
<1> DEFINE k == Head(todo[w]).key
<1>1. /\ k \in ClaimKey /\ IsFinal(k[1]) /\ paid[k] = 0 /\ claim[k] = "open"
      /\ 1 \in Nat /\ ToPay(w, 1) /\ todo[w][1].key = k
  BY PayerKnows
<1>2. /\ todo[w] # <<>> /\ Done(w) /\ UNCHANGED <<row, mail>>
      /\ claim \in [ClaimKey -> ClaimStatus] /\ paid \in [ClaimKey -> Nat]
      /\ \/ claim' = [claim EXCEPT ![k] = "none"] /\ UNCHANGED paid
         \/ claim' = [claim EXCEPT ![k] = "sent"] /\ paid' = [paid EXCEPT ![k] = paid[k] + 1]
  BY DEF PayClaim, IndInv, TypeOK
<1>3. /\ \A l \in ClaimKey \ {k} : claim'[l] = claim[l] /\ paid'[l] = paid[l]
      /\ paid'[k] \in {0, 1}
  BY <1>1, <1>2
<1>4. PaysSame /\ StoresSame
  BY <1>2, DoneEffect
\* Nobody else pays this claim.
<1>5. ASSUME NEW v \in Worker, NEW i \in Nat, ToPay(v, i)'
      PROVE  \E j \in Nat : ToPay(v, j) /\ todo'[v][i] = todo[v][j] /\ todo[v][j].key # k
  <2>1. PICK j \in Nat : ToPay(v, j) /\ todo'[v][i] = todo[v][j] /\ (v = w => j # 1)
    BY <1>2, <1>5, DoneEffect
  <2> QED
    BY <1>1, <2>1 DEF PayInv, OnePayer
<1>6. PaymentsAreDue'
  <2> SUFFICES ASSUME NEW v \in Worker, NEW i \in Nat, ToPay(v, i)'
               PROVE  LET l == todo'[v][i].key IN
                        /\ row'[l[1]].state \in {"ACCEPTED", "FAILED"} /\ paid'[l] = 0
                        /\ todo'[v][i].act = "paying" => claim'[l] = "open"
    BY DEF PaymentsAreDue, IsFinal
  <2>1. PICK j \in Nat : ToPay(v, j) /\ todo'[v][i] = todo[v][j] /\ todo[v][j].key # k
    BY <1>5
  <2>2. todo[v][j].key \in ClaimKey \ {k}
    BY <2>1, PayTypes
  <2> QED
    BY <1>2, <1>3, <2>1, <2>2 DEF PayInv, PaymentsAreDue, IsFinal
<1>7. OnePayer'
  BY <1>4, OnePayerKept DEF PayInv
<1>8. PaidIsFinal'
  BY <1>1, <1>2, <1>3 DEF PayInv, PaidIsFinal, IsFinal
<1>9. ASSUME NEW s \in Subtask, NEW use \in UseCase, ~ IsFinal(s), Backed(s, use)
      PROVE  Backed(s, use)'
  BY <1>1, <1>3, <1>9, ClaimKeys DEF Backed
<1>10. WaitingIsBacked'
  BY <1>2, <1>9 DEF PayInv, WaitingIsBacked, Waits, IsFinal
<1>11. StoringIsBacked'
  <2> SUFFICES ASSUME NEW v \in Worker, NEW t \in Subtask, NEW u \in UseCase,
                      Stores(v, t, u)', ~ IsFinal(t)'
               PROVE  Backed(t, u)'
    BY DEF StoringIsBacked
  <2>1. Stores(v, t, u) /\ ~ IsFinal(t)
    BY <1>2, <1>4 DEF StoresSame, IsFinal
  <2> QED
    BY <1>9, <2>1 DEF PayInv, StoringIsBacked
<1>12. VerdictsEnd' /\ OneLetter'
  BY <1>2 DEF VerdictInv, VerdictsEnd, OneLetter, IsVerdict, IsFinal
<1>13. RejectedIsFree'
  <2> SUFFICES ASSUME NEW c \in Client, NEW i \in Nat, IsVerdict(c, i),
                      mail[c][i].type = "SubtaskResultsRejected"
               PROVE  LET l == ChargeOf(mail[c][i].subtask) IN
                        /\ paid'[l] = 0
                        /\ \A v \in Worker, j \in Nat : ToPay(v, j)' => todo'[v][j].key # l
    BY <1>2 DEF RejectedIsFree, ChargeOf, IsVerdict
  <2> DEFINE l == ChargeOf(mail[c][i].subtask)
  <2>1. /\ paid[l] = 0
        /\ \A v \in Worker, j \in Nat : ToPay(v, j) => todo[v][j].key # l
    BY DEF VerdictInv, RejectedIsFree
  <2>2. l \in ClaimKey
    BY VerdictTypes DEF ChargeOf, ClaimKey, UseCase, Payer
  <2>3. l # k
    BY <1>1, <2>1
  <2> QED
    BY <1>3, <1>5, <2>1, <2>2, <2>3
<1> QED
  BY <1>6, <1>7, <1>8, <1>10, <1>11, <1>12, <1>13 DEF PayInv, VerdictInv

-----------------------------------------------------------------------------
(* What each of the other actions does to them. *)

LEMMA FinalStaysStep ==
  ASSUME IndInv, SafeCopies, [Next]_vars PROVE FinalStays
<1>1. [Lifecycle!Next]_StateColumn
  BY NextRefines
<1>2. CASE StateColumn' = StateColumn
  BY <1>2 DEF StateColumn, FinalStays, IsFinal
<1>3. ASSUME NEW t \in Subtask, NEW st \in SubtaskState, Lifecycle!Move(t, st)
      PROVE  FinalStays
  <2>1. StateColumn[t] \notin {"ACCEPTED", "FAILED"}
    BY <1>3, SameRule DEF Lifecycle!Move, IsStateTransitionPossible, PossibleTransitionsTo,
       SubtaskState, ActiveStates, PassiveStates, Unknown
  <2>2. StateColumn' = [StateColumn EXCEPT ![t] = st]
    BY <1>3 DEF Lifecycle!Move
  <2> QED
    BY <2>1, <2>2 DEF StateColumn, FinalStays, IsFinal
<1> QED
  BY <1>1, <1>2, <1>3, SameRule, "ACCEPTED" \in SubtaskState
  DEF Lifecycle!Next, SubtaskState, PassiveStates

LEMMA ClaimsUnchanged == ASSUME UNCHANGED <<claim, paid>> PROVE ClaimsSame
  BY DEF ClaimsSame

LEMMA DiscardedEffect ==
  ASSUME IndInv, NEW k, claim' = Discarded(k), UNCHANGED paid PROVE ClaimsSame
  BY DEF ClaimsSame, Discarded, IndInv, TypeOK

LEMMA RowsUnchanged == ASSUME UNCHANGED row PROVE WaitsAfterClaim
  BY DEF WaitsAfterClaim

LEMMA SavedWaits ==
  ASSUME IndInv, NEW s \in Subtask, NEW q \in Row, Save(s, q),
         \A use \in UseCase : Waits(q.state, use) =>
           \/ Waits(row[s].state, use)
           \/ ~ IsFinal(s) /\ \E w \in Worker : Stores(w, s, use)
  PROVE  WaitsAfterClaim
<1>1. row' = [row EXCEPT ![s] = q] /\ row \in [Subtask -> Row]
  BY DEF Save, IndInv, TypeOK
<1> QED
  BY <1>1 DEF WaitsAfterClaim

\* A passive state waits for nothing.
LEMMA SavedPassive ==
  ASSUME IndInv, NEW s \in Subtask, NEW q \in Row, Save(s, q),
         q.state \in PassiveStates \union {"FORCING_REPORT", "FORCING_RESULT_TRANSFER"}
  PROVE  WaitsAfterClaim
<1>1. \A use \in UseCase : ~ Waits(q.state, use)
  BY DEF Waits, PassiveStates
<1> QED
  BY <1>1, SavedWaits

LEMMA MailUnchanged == ASSUME UNCHANGED mail PROVE VerdictsSame
  BY DEF VerdictsSame, IsVerdict

\* One letter each at most is put at the end.
LEMMA PostShape ==
  ASSUME IndInv, NEW s \in Subtask, NEW P \in Seq(ResponseType), NEW R \in Seq(ResponseType),
         Len(P) <= 1, Len(R) <= 1, Post(s, P, R), NEW c \in Client, NEW i \in DOMAIN mail'[c]
  PROVE  \/ i \in DOMAIN mail[c] /\ mail'[c][i] = mail[c][i]
         \/ /\ i = Len(mail[c]) + 1 /\ mail'[c][i].subtask = s
            /\ \/ Len(P) = 1 /\ mail'[c][i].type = P[1]
               \/ Len(R) = 1 /\ mail'[c][i].type = R[1]
<1>1. /\ mail \in [Client -> Seq(Letter)] /\ mail[c] \in Seq(Letter)
      /\ ProviderOf[s] \in Client /\ RequestorOf[s] \in Client
      /\ RequestorOf[s] # ProviderOf[s]
  BY ControlAssumption DEF IndInv, TypeOK
<1>2. \/ mail'[c] = mail[c]
      \/ mail'[c] = mail[c] \o Letters(s, P)
      \/ mail'[c] = mail[c] \o Letters(s, R)
  BY <1>1 DEF Post
<1>3. ASSUME NEW Q \in {P, R}, mail'[c] = mail[c] \o Letters(s, Q)
      PROVE  \/ i \in DOMAIN mail[c] /\ mail'[c][i] = mail[c][i]
             \/ /\ i = Len(mail[c]) + 1 /\ mail'[c][i].subtask = s
                /\ Len(Q) = 1 /\ mail'[c][i].type = Q[1]
  <2>1. Letters(s, Q) \in Seq(Letter) /\ Q \in Seq(ResponseType) /\ Len(Q) \in {0, 1}
    <3>1. Q = P \/ Q = R
      BY Zenon
    <3>2. Q \in Seq(ResponseType) /\ Len(Q) <= 1
      BY <3>1
    <3>3. Letters(s, Q) \in Seq(Letter)
      BY <3>2, LettersType
    <3>4. Len(Q) \in Nat
      BY <3>2
    <3>5. \A n \in Nat : n <= 1 => n \in {0, 1}
      OBVIOUS
    <3> QED
      BY <3>2, <3>3, <3>4, <3>5
  <2>2. Len(Letters(s, Q)) = Len(Q)
    BY <2>1 DEF Letters
  <2>3. i \in 1..(Len(mail[c]) + Len(Q))
    BY <1>1, <1>3, <2>1, <2>2
  <2>4. CASE i <= Len(mail[c])
    BY <1>1, <1>3, <2>1, <2>3, <2>4
  <2>5. CASE i > Len(mail[c])
    <3>1. Len(Q) = 1 /\ i = Len(mail[c]) + 1
      BY <1>1, <2>1, <2>3, <2>5
    <3>2. mail'[c][i] = Letters(s, Q)[1]
      BY <1>1, <1>3, <2>1, <2>2, <3>1
    <3>3. Letters(s, Q)[1] = [type |-> Q[1], subtask |-> s, delivered |-> FALSE]
      BY <2>1, <3>1 DEF Letters
    <3> QED
      BY <3>1, <3>2, <3>3
  <2> QED
    BY <1>1, <2>3, <2>4, <2>5
<1>4. CASE mail'[c] = mail[c]
  BY <1>4
<1> QED
  BY <1>2, <1>3, <1>4

Notice == ResponseType \ Verdict

LEMMA NoticePosted ==
  ASSUME IndInv, NEW s \in Subtask, NEW P, NEW R, Post(s, P, R),
         P = <<>> \/ \E t \in Notice : P = <<t>>,
         R = <<>> \/ \E t \in Notice : R = <<t>>
  PROVE  VerdictsSame
<1>1. ASSUME NEW Q, Q = <<>> \/ \E t \in Notice : Q = <<t>>
      PROVE  Q \in Seq(ResponseType) /\ Len(Q) <= 1 /\ (Len(Q) = 1 => Q[1] \in Notice)
  <2>1. CASE Q = <<>>
    BY <2>1, PostTypes
  <2>2. ASSUME NEW t \in Notice, Q = <<t>>
        PROVE  Q \in Seq(ResponseType) /\ Len(Q) <= 1 /\ (Len(Q) = 1 => Q[1] \in Notice)
    BY <2>2, PostTypes DEF Notice
  <2> QED
    BY <1>1, <2>1, <2>2
<1>2. /\ P \in Seq(ResponseType) /\ Len(P) <= 1 /\ (Len(P) = 1 => P[1] \in Notice)
      /\ R \in Seq(ResponseType) /\ Len(R) <= 1 /\ (Len(R) = 1 => R[1] \in Notice)
  BY <1>1
<1>3. ASSUME NEW c \in Client, NEW i \in Nat, IsVerdict(c, i)'
      PROVE  i \in DOMAIN mail[c] /\ mail'[c][i] = mail[c][i]
  <2>1. i \in DOMAIN mail'[c] /\ mail'[c][i].type \in Verdict
    BY <1>3 DEF IsVerdict
  <2>2. mail'[c][i].type \notin Notice
    BY <2>1 DEF Notice
  <2> QED
    BY <1>2, <2>1, <2>2, PostShape
<1> QED
  BY <1>3 DEF VerdictsSame, IsVerdict

LEMMA NoticeTypes ==
  {"ForceReportComputedTask", "ForceReportComputedTaskResponse", "VerdictReportComputedTask",
   "ForceGetTaskResultUpload", "ForceGetTaskResultFailed", "ForceGetTaskResultDownload",
   "ForceSubtaskResults", "ForceSubtaskResultsResponse", "ForcePaymentCommitted"}
    \subseteq Notice
  BY DEF Notice, ResponseType, SubtaskResponse, Verdict

LEMMA VerdictPosted ==
  ASSUME IndInv, NEW s \in Subtask, NEW type \in Verdict, Post(s, <<type>>, <<type>>)
  PROVE  VerdictGiven(s, type)
<1>1. <<type>> \in Seq(ResponseType) /\ Len(<<type>>) = 1 /\ <<type>>[1] = type
  BY PostTypes DEF Verdict
<1>2. ASSUME NEW c \in Client, NEW i \in Nat, IsVerdict(c, i)'
      PROVE  \/ i \in DOMAIN mail[c] /\ mail'[c][i] = mail[c][i]
             \/ i = Len(mail[c]) + 1 /\ mail'[c][i].type = type /\ mail'[c][i].subtask = s
  <2>1. i \in DOMAIN mail'[c]
    BY <1>2 DEF IsVerdict
  <2> DEFINE P == <<type>>
  <2>2. P \in Seq(ResponseType) /\ Len(P) <= 1 /\ P[1] = type /\ Post(s, P, P)
    BY <1>1
  <2> HIDE DEF P
  <2>3. \/ i \in DOMAIN mail[c] /\ mail'[c][i] = mail[c][i]
        \/ /\ i = Len(mail[c]) + 1 /\ mail'[c][i].subtask = s
           /\ Len(P) = 1 /\ mail'[c][i].type = P[1]
    BY <2>1, <2>2, PostShape
  <2> QED
    BY <2>2, <2>3
<1> QED
  BY <1>2 DEF VerdictGiven, IsVerdict

\* The callbacks that an end of s may register.
LEMMA CallbacksRegistered ==
  ASSUME IndInv, NEW w \in Worker, NEW s \in Subtask, NEW type \in Verdict,
         \/ UNCHANGED todo
         \/ /\ type = "SubtaskResultsSettled"
            /\ \/ todo' = [todo EXCEPT ![w] = <<Finalize(s, "FORCED_ACCEPTANCE", "requestor")>>]
               \/ todo' = [todo EXCEPT ![w] = FinalizeBoth(s)]
         \/ todo' = [todo EXCEPT ![w] = RefundRequestor(s)]
  PROVE  PaysNew(w, s, type)
<1>1. todo \in [Worker -> Seq(Callback)]
  BY DEF IndInv, TypeOK
<1>2. \A v \in Worker \ {w} : todo'[v] = todo[v]
  BY <1>1
<1>3. CASE UNCHANGED todo
  BY <1>2, <1>3 DEF PaysNew
<1>4. CASE /\ type = "SubtaskResultsSettled"
           /\ todo' = [todo EXCEPT ![w] = <<Finalize(s, "FORCED_ACCEPTANCE", "requestor")>>]
  <2>1. \A i \in Nat : ToPay(w, i)' =>
          i = 1 /\ todo'[w][i] = Finalize(s, "FORCED_ACCEPTANCE", "requestor")
    BY <1>1, <1>4 DEF ToPay
  <2> QED
    BY <1>2, <1>4, <2>1 DEF PaysNew, Finalize
<1>5. CASE type = "SubtaskResultsSettled" /\ todo' = [todo EXCEPT ![w] = FinalizeBoth(s)]
  <2>1. \A i \in Nat : ToPay(w, i)' =>
          \/ i = 1 /\ todo'[w][i] = Finalize(s, "ADDITIONAL_VERIFICATION", "requestor")
          \/ i = 2 /\ todo'[w][i] = Finalize(s, "ADDITIONAL_VERIFICATION", "provider")
    BY <1>1, <1>5 DEF ToPay, FinalizeBoth
  <2> QED
    BY <1>2, <1>5, <2>1 DEF PaysNew, Finalize
<1>6. CASE todo' = [todo EXCEPT ![w] = RefundRequestor(s)]
  <2>1. \A i \in Nat : ToPay(w, i)' =>
          i = 2 /\ todo'[w][i] = Finalize(s, "ADDITIONAL_VERIFICATION", "provider")
    BY <1>1, <1>6 DEF ToPay, RefundRequestor, Delete
  <2> QED
    BY <1>2, <2>1 DEF PaysNew, Finalize, ChargeOf
<1> QED
  BY <1>3, <1>4, <1>5, <1>6

LEMMA EndOf ==
  ASSUME IndInv, NEW w \in Worker, NEW s \in Subtask, NEW st \in {"ACCEPTED", "FAILED"},
         ~ IsFinal(s), Save(s, ToPassive(row[s], st)), UNCHANGED <<claim, paid>>, StoresSame,
         NEW type \in Verdict, Post(s, <<type>>, <<type>>), PaysNew(w, s, type)
  PROVE  Ends(s)
<1>1. row[s] \in Row /\ row \in [Subtask -> Row]
  BY DEF IndInv, TypeOK
<1>2. ToPassive(row[s], st) \in Row /\ ToPassive(row[s], st).state = st
  BY <1>1, PassiveRow DEF PassiveStates
<1>3. IsFinal(s)'
  BY <1>1, <1>2 DEF Save, IsFinal
<1>4. WaitsAfterClaim
  BY <1>2, SavedPassive DEF PassiveStates
<1> QED
  BY <1>3, <1>4, ClaimsUnchanged, VerdictPosted DEF Ends

\* A timeout: of the five states it may end, three are settled or rejected.
LEMMA TimeoutEffect ==
  ASSUME IndInv, NEW w \in Worker, NEW s \in Subtask, row[s].state \in ActiveStates,
         UpdateTimedOutSubtask(w, s, row[s]), UNCHANGED <<claim, paid>>, StoresSame
  PROVE  Quiet \/ Ends(s)
<1> DEFINE st == row[s].state
           q == ToPassive(row[s], TimeoutState(st))
<1>1. row[s] \in Row
  BY DEF IndInv, TypeOK
<1>2. TimeoutState(st) \in PassiveStates
  BY DEF TimeoutState, ActiveStates, PassiveStates
<1>3. q \in Row /\ q.state \in PassiveStates /\ Save(s, q)
  BY <1>1, <1>2, PassiveRow DEF UpdateTimedOutSubtask
<1>4. WaitsAfterClaim /\ ClaimsSame
  BY <1>3, SavedPassive, ClaimsUnchanged
<1>5. ~ IsFinal(s)
  BY DEF IsFinal, ActiveStates
<1>6. CASE st \in {"FORCING_REPORT", "FORCING_RESULT_TRANSFER"}
  <2>1. /\ UNCHANGED todo
        /\ \/ Post(s, <<"ForceReportComputedTaskResponse">>, <<"VerdictReportComputedTask">>)
           \/ Post(s, <<>>, <<"ForceGetTaskResultFailed">>)
    BY <1>6 DEF UpdateTimedOutSubtask
  <2> QED
    BY <1>4, <2>1, NoCallbackMoves, NoticePosted, NoticeTypes DEF Quiet
<1>7. CASE st = "FORCING_ACCEPTANCE"
  <2>1. /\ Post(s, <<"SubtaskResultsSettled">>, <<"SubtaskResultsSettled">>)
        /\ todo' = [todo EXCEPT ![w] = <<Finalize(s, "FORCED_ACCEPTANCE", "requestor")>>]
        /\ Save(s, ToPassive(row[s], "ACCEPTED"))
    BY <1>7 DEF UpdateTimedOutSubtask, TimeoutState
  <2> QED
    BY <1>5, <2>1, CallbacksRegistered, EndOf DEF Verdict
<1>8. CASE st = "VERIFICATION_FILE_TRANSFER"
  <2>1. /\ Post(s, <<"SubtaskResultsRejected">>, <<"SubtaskResultsRejected">>)
        /\ UNCHANGED todo
        /\ Save(s, ToPassive(row[s], "FAILED"))
    BY <1>8 DEF UpdateTimedOutSubtask, TimeoutState
  <2> QED
    BY <1>5, <2>1, CallbacksRegistered, EndOf DEF Verdict
<1>9. CASE st = "ADDITIONAL_VERIFICATION"
  <2>1. /\ Post(s, <<"SubtaskResultsSettled">>, <<"SubtaskResultsSettled">>)
        /\ todo' = [todo EXCEPT ![w] = FinalizeBoth(s)]
        /\ Save(s, ToPassive(row[s], "ACCEPTED"))
    BY <1>9 DEF UpdateTimedOutSubtask, TimeoutState
  <2> QED
    BY <1>5, <2>1, CallbacksRegistered, EndOf DEF Verdict
<1> QED
  BY <1>6, <1>7, <1>8, <1>9 DEF ActiveStates

LEMMA UploadEffect ==
  ASSUME IndInv, NEW s \in Subtask, VerifyFileStatus(s, row[s]), UNCHANGED <<claim, paid>>,
         StoresSame
  PROVE  Quiet
<1>1. /\ ToPassive(row[s], "RESULT_UPLOADED") \in Row
      /\ ToPassive(row[s], "RESULT_UPLOADED").state \in PassiveStates
  BY PassiveRow DEF IndInv, TypeOK, PassiveStates
<1>2. WaitsAfterClaim
  BY <1>1, SavedPassive DEF VerifyFileStatus
<1>3. VerdictsSame /\ PaysSame
  BY NoticePosted, NoticeTypes, NoCallbackMoves DEF VerifyFileStatus
<1> QED
  BY <1>2, <1>3, ClaimsUnchanged DEF Quiet

\* The handlers that save no state in which a claim may be paid.
LEMMA ReportingEffect ==
  ASSUME IndInv, NEW w \in Worker,
         \/ ForceReportComputedTask(w) \/ AckReportComputedTask(w)
         \/ RejectReportComputedTask(w) \/ ForceGetTaskResult(w)
         \/ ForceSubtaskResultsResponse(w)
  PROVE  Quiet
<1> DEFINE m == job[w]
           s == m.subtask
           q == Result(m, row[s])
<1>1. /\ m \in Message /\ s \in Subtask /\ m.op \in Kinds
      /\ m.op \notin {"ForceSubtaskResults", "SubtaskResultsVerify", "ForcePayment"}
  BY Handled, MessageFields
  DEF ForceReportComputedTask, AckReportComputedTask, RejectReportComputedTask,
      ForceGetTaskResult, ForceSubtaskResultsResponse, Handling
<1>2. Saves(m, row[s])
  BY <1>1 DEF ForceReportComputedTask, AckReportComputedTask, RejectReportComputedTask,
     ForceGetTaskResult, ForceSubtaskResultsResponse, Accepts
<1>3. q \in Row
  BY <1>1, <1>2, SavedResult
<1>4. q.state \in PassiveStates \union {"FORCING_REPORT", "FORCING_RESULT_TRANSFER"}
  <2>1. CASE m.op \in {"ForceReportComputedTask", "ForceGetTaskResult"}
    BY <1>1, <2>1, ResultState
  <2>2. CASE m.op \in {"AckReportComputedTask", "RejectReportComputedTask",
                       "ForceSubtaskResultsResponse"}
    BY <2>2 DEF Result, Updated, PassiveStates
  <2> QED
    BY <1>1, <2>1, <2>2 DEF Kinds
<1>5. Save(s, q)
  BY DEF ForceReportComputedTask, AckReportComputedTask, RejectReportComputedTask,
     ForceGetTaskResult, ForceSubtaskResultsResponse, SaveUpdated, SaveStoredOrUpdated
<1>6. WaitsAfterClaim
  BY <1>1, <1>3, <1>4, <1>5, SavedPassive
<1>7. VerdictsSame
  <2>1. \/ Post(s, <<>>, <<"ForceReportComputedTask">>)
        \/ Post(s, <<"ForceReportComputedTaskResponse">>, <<>>)
        \/ Post(s, <<"ForceReportComputedTaskResponse">>, <<"VerdictReportComputedTask">>)
        \/ Post(s, <<"ForceGetTaskResultUpload">>, <<>>)
        \/ Post(s, <<"ForceSubtaskResultsResponse">>, <<>>)
    BY DEF ForceReportComputedTask, AckReportComputedTask, RejectReportComputedTask,
       ForceGetTaskResult, ForceSubtaskResultsResponse
  <2> QED
    BY <1>1, <2>1, NoticePosted, NoticeTypes
<1>8. PaysSame /\ StoresSame
  BY EndEffect, GotoEffect
  DEF ForceReportComputedTask, AckReportComputedTask, RejectReportComputedTask,
      ForceGetTaskResult, ForceSubtaskResultsResponse
<1>9. ClaimsSame
  BY ClaimsUnchanged, DiscardedEffect
  DEF ForceReportComputedTask, AckReportComputedTask, RejectReportComputedTask,
      ForceGetTaskResult, ForceSubtaskResultsResponse
<1> QED
  BY <1>6, <1>7, <1>8, <1>9 DEF Quiet

\* The row is saved by the worker that has made the claims for it.
LEMMA StoringEffect ==
  ASSUME IndInv, NEW w \in Worker, StoreForceSubtaskResults(w) \/ StoreSubtaskResultsVerify(w)
  PROVE  Quiet
<1> DEFINE m == job[w]
           s == m.subtask
           r == row[s]
           q == Result(m, r)
<1>1. /\ m \in Message /\ s \in Subtask
      /\ m.op \in {"ForceSubtaskResults", "SubtaskResultsVerify"}
      /\ pc[w] = "store"
  BY Handled DEF StoreForceSubtaskResults, StoreSubtaskResultsVerify
<1>2. Saves(m, r) /\ Save(s, q)
  BY DEF StoreForceSubtaskResults, StoreSubtaskResultsVerify, StoreAccepts,
         SaveStoredOrUpdated, SaveUpdated
<1>3. r \in Row /\ q \in Row
  BY <1>1, <1>2, SavedResult
<1>4. Moves(r, q)
  BY <1>1, <1>2, <1>3, HandlerMoves
<1>5. /\ m.op = "ForceSubtaskResults" => q.state = "FORCING_ACCEPTANCE"
      /\ m.op = "SubtaskResultsVerify" => q.state = "VERIFICATION_FILE_TRANSFER"
  BY <1>1, ResultState
<1>6. \A use \in UseCase : Waits(q.state, use) => Stores(w, s, use)
  BY <1>1, <1>5 DEF Waits, Stores, UseCaseOf
<1>7. q.state # r.state => ~ IsFinal(s)
  BY <1>1, <1>4, <1>5
  DEF Moves, IsFinal, IsStateTransitionPossible, PossibleTransitionsTo, Unknown
<1>8. WaitsAfterClaim
  BY <1>1, <1>2, <1>3, <1>6, <1>7, SavedWaits
<1>9. VerdictsSame
  BY <1>1, NoticePosted, NoticeTypes, MailUnchanged
  DEF StoreForceSubtaskResults, StoreSubtaskResultsVerify
<1>10. PaysSame /\ StoresSame /\ ClaimsSame
  BY EndEffect, GotoEffect, ClaimsUnchanged DEF StoreForceSubtaskResults, StoreSubtaskResultsVerify
<1> QED
  BY <1>8, <1>9, <1>10 DEF Quiet

\* Steps of a worker that leave the table as it is.
LEMMA OtherEffect ==
  ASSUME IndInv, NEW w \in Worker,
         \/ Refuse(w) \/ CheckBeforeClaim(w) \/ ClaimRefused(w) \/ ForcePayment(w)
         \/ Delay(w) \/ Deliver(w) \/ DeleteDepositClaim(w) \/ Crash(w)
  PROVE  Quiet
<1>1. WaitsAfterClaim
  BY RowsUnchanged
  DEF Refuse, CheckBeforeClaim, ClaimRefused, ForcePayment, Delay, Deliver, DeleteDepositClaim,
      Crash, controlVars
<1>2. PaysSame /\ StoresSame
  BY EndEffect, GotoEffect, DoneEffect
  DEF Refuse, CheckBeforeClaim, ClaimRefused, ForcePayment, Delay, Deliver, DeleteDepositClaim,
      Crash
<1>3. ClaimsSame
  BY ClaimsUnchanged, DiscardedEffect
  DEF Refuse, CheckBeforeClaim, ClaimRefused, ForcePayment, Delay, Deliver, DeleteDepositClaim,
      Crash, controlVars
<1>4. VerdictsSame
  <2>1. CASE UNCHANGED mail
    BY <2>1, MailUnchanged
  <2>2. CASE ForcePayment(w)
    <3>1. job[w].subtask \in Subtask
      BY <2>2, Handled DEF ForcePayment, Handling
    <3> QED
      BY <2>2, <3>1, MailUnchanged, NoticePosted, NoticeTypes DEF ForcePayment
  <2>3. CASE Deliver(w)
    <3>1. /\ mail \in [Client -> Seq(Letter)]
          /\ \/ UNCHANGED mail
             \/ mail' = [mail EXCEPT ![job[w].client][NextLetter(job[w].client)].delivered = TRUE]
      BY <2>3 DEF Deliver, IndInv, TypeOK
    <3>2. ASSUME NEW c \in Client, NEW i \in Nat, i \in DOMAIN mail'[c]
          PROVE  /\ i \in DOMAIN mail[c]
                 /\ mail'[c][i].type = mail[c][i].type /\ mail'[c][i].subtask = mail[c][i].subtask
      <4>1. CASE mail'[c] = mail[c]
        BY <3>2, <4>1
      <4>2. CASE mail'[c] = [mail[c] EXCEPT ![NextLetter(c)].delivered = TRUE]
        <5>1. DOMAIN mail'[c] = DOMAIN mail[c]
          BY <4>2
        <5>2. mail[c] \in Seq(Letter) /\ i \in DOMAIN mail[c]
          BY <3>1, <3>2, <5>1
        <5>3. mail'[c][i] = mail[c][i] \/ mail'[c][i] = [mail[c][i] EXCEPT !.delivered = TRUE]
          BY <4>2, <5>2
        <5>4. mail[c][i] \in Letter
          BY <5>2
        <5> QED
          BY <5>2, <5>3, <5>4 DEF Letter
      <4> QED
        BY <3>1, <4>1, <4>2
    <3> QED
      BY <3>2 DEF VerdictsSame, IsVerdict
  <2> QED
    BY <2>1, <2>2, <2>3
    DEF Refuse, CheckBeforeClaim, ClaimRefused, Delay, DeleteDepositClaim, Crash, controlVars
<1> QED
  BY <1>1, <1>2, <1>3, <1>4 DEF Quiet

LEMMA SweepEffect ==
  ASSUME IndInv, SafeCopies, NEW w \in Worker, NEW s \in Subtask, SweepSubtask(w, s)
  PROVE  Quiet \/ Ends(s)
<1>1. copies[w][s] = row[s] /\ UNCHANGED <<claim, paid, pc, job>>
  BY DEF SweepSubtask, SafeCopies, Holds
<1>2. StoresSame
  BY <1>1, NoWorkerMoves
<1>3. CASE VerifyFileStatus(s, row[s])
  BY <1>1, <1>2, <1>3, UploadEffect
<1>4. CASE TimeIsUp(row[s]) /\ UpdateTimedOutSubtask(w, s, row[s])
  BY <1>1, <1>2, <1>4, TimeoutEffect DEF TimeIsUp
<1>5. CASE UNCHANGED <<row, mail, todo>>
  BY <1>1, <1>2, <1>5, RowsUnchanged, MailUnchanged, NoCallbackMoves, ClaimsUnchanged DEF Quiet
<1> QED
  BY <1>1, <1>3, <1>4, <1>5 DEF SweepSubtask

LEMMA SendEffect ==
  ASSUME IndInv, NEW w \in Worker, Send(w)
  PROVE  Quiet \/ \E s \in Subtask : Ends(s)
<1>1. PICK s \in Subtask : \E msg \in Incoming(s) :
        PreProcess(w, msg) /\ pc' = [pc EXCEPT ![w] = "handle"] /\ job' = [job EXCEPT ![w] = msg]
  BY DEF Send
<1>2. PICK m \in Incoming(s) :
        PreProcess(w, m) /\ pc' = [pc EXCEPT ![w] = "handle"] /\ job' = [job EXCEPT ![w] = m]
  BY <1>1
<1>3. m.subtask = s
  BY IncomingType DEF IndInv, TypeOK
<1>4. UNCHANGED <<claim, paid>> /\ pc \in [Worker -> Stage]
  BY DEF Send, IndInv, TypeOK
<1>5. StoresSame
  BY <1>2, <1>4, OneWorkerMoves
<1>6. CASE VerifyFileStatus(s, row[s])
  BY <1>4, <1>5, <1>6, UploadEffect
<1>7. CASE TimeIsUp(row[s]) /\ UpdateTimedOutSubtask(w, s, row[s])
  BY <1>4, <1>5, <1>7, TimeoutEffect DEF TimeIsUp
<1>8. CASE UNCHANGED <<row, mail, todo>>
  BY <1>4, <1>5, <1>8, RowsUnchanged, MailUnchanged, NoCallbackMoves, ClaimsUnchanged DEF Quiet
<1> QED
  BY <1>2, <1>3, <1>6, <1>7, <1>8 DEF PreProcess

LEMMA CommitEffect ==
  ASSUME IndInv, NEW w \in Worker, NEW s, NEW stage \in {"delay", "finish"}, NEW callbacks,
         Commit(w, s, stage, callbacks)
  PROVE  StoresSame /\ todo' = [todo EXCEPT ![w] = callbacks]
<1>1. /\ pc' = [pc EXCEPT ![w] = stage] /\ pc \in [Worker -> Stage]
      /\ job' = [job EXCEPT ![w] = Task(s)]
  BY DEF Commit, IndInv, TypeOK
<1> QED
  BY <1>1, OneWorkerMoves DEF Commit

LEMMA UploadFinishedEffect ==
  ASSUME IndInv, NEW w \in Worker, NEW s \in Subtask, UploadFinished(w, s)
  PROVE  Quiet \/ Ends(s)
<1> DEFINE r == row[s]
           new == WithState(r, "ADDITIONAL_VERIFICATION", r.deadline + CVT[s])
<1>1. r \in Row /\ r.state = "VERIFICATION_FILE_TRANSFER" /\ UNCHANGED <<claim, paid>>
  BY DEF UploadFinished, IndInv, TypeOK
<1>2. ~ IsFinal(s)
  BY <1>1 DEF IsFinal
<1>3. CASE /\ Save(s, ToPassive(r, "FAILED"))
           /\ Post(s, <<"SubtaskResultsSettled">>, <<"SubtaskResultsSettled">>)
           /\ Commit(w, s, "finish", FinalizeBoth(s))
  <2>1. StoresSame /\ todo' = [todo EXCEPT ![w] = FinalizeBoth(s)]
    BY <1>3, CommitEffect
  <2> QED
    BY <1>1, <1>2, <1>3, <2>1, CallbacksRegistered, EndOf DEF Verdict
<1>4. CASE Save(s, new) /\ Commit(w, s, "delay", <<>>) /\ UNCHANGED mail
  <2>1. StoresSame /\ todo' = [todo EXCEPT ![w] = <<>>]
    BY <1>4, CommitEffect
  <2>2. new \in Row /\ new.state = "ADDITIONAL_VERIFICATION"
    <3>1. r.deadline + CVT[s] \in Int /\ r.package \in Package
      BY <1>1, ControlAssumption DEF Row
    <3> QED
      BY <1>1, <3>1, UpdatedType DEF WithState, Updated, SubtaskState, ActiveStates
  <2>3. WaitsAfterClaim
    BY <1>1, <1>4, <2>2, SavedWaits DEF Waits
  <2>4. PaysSame
    <3>1. todo \in [Worker -> Seq(Callback)]
      BY DEF IndInv, TypeOK
    <3>2. ASSUME NEW v \in Worker
          PROVE  \A i \in Nat : ToPay(v, i)' => ToPay(v, i + 0) /\ todo'[v][i] = todo[v][i + 0]
      BY <2>1, <3>1 DEF ToPay
    <3> QED
      BY <3>2 DEF PaysSame
  <2> QED
    BY <1>1, <1>4, <2>1, <2>3, <2>4, ClaimsUnchanged, MailUnchanged DEF Quiet
<1> QED
  BY <1>3, <1>4 DEF UploadFinished

LEMMA VerificationResultEffect ==
  ASSUME IndInv, NEW w \in Worker, NEW s \in Subtask, NEW result, VerificationResult(w, s, result)
  PROVE  Ends(s)
<1>1. row[s].state = "ADDITIONAL_VERIFICATION" /\ UNCHANGED <<claim, paid>>
  BY DEF VerificationResult
<1>2. ~ IsFinal(s)
  BY <1>1 DEF IsFinal
<1>3. CASE Settle(w, s)
  <2>1. StoresSame /\ todo' = [todo EXCEPT ![w] = FinalizeBoth(s)]
    BY <1>3, CommitEffect DEF Settle
  <2> QED
    BY <1>1, <1>2, <1>3, <2>1, CallbacksRegistered, EndOf DEF Settle, Verdict
<1>4. CASE /\ Save(s, ToPassive(row[s], "FAILED"))
           /\ Post(s, <<"SubtaskResultsRejected">>, <<"SubtaskResultsRejected">>)
           /\ Commit(w, s, "finish", RefundRequestor(s))
  <2>1. StoresSame /\ todo' = [todo EXCEPT ![w] = RefundRequestor(s)]
    BY <1>4, CommitEffect
  <2> QED
    BY <1>1, <1>2, <1>4, <2>1, CallbacksRegistered, EndOf DEF Verdict
<1> QED
  BY <1>3, <1>4 DEF VerificationResult

LEMMA StartReceiveEffect ==
  ASSUME IndInv, NEW w \in Worker, NEW c \in Client, StartReceive(w, c) PROVE Quiet
<1>1. /\ pc' = [pc EXCEPT ![w] = "sweep"] /\ pc \in [Worker -> Stage]
      /\ job' = [job EXCEPT ![w] = Receive(c)]
      /\ UNCHANGED <<row, mail, claim, paid, todo>>
  BY DEF StartReceive, controlVars, IndInv, TypeOK
<1>2. StoresSame
  BY <1>1, OneWorkerMoves
<1> QED
  BY <1>1, <1>2, RowsUnchanged, MailUnchanged, NoCallbackMoves, ClaimsUnchanged DEF Quiet

LEMMA EnvironmentEffect ==
  ASSUME IndInv,
         \/ Tick \/ StartSoftShutdown
         \/ \E k \in ClaimKey : ConfirmPayment(k)
         \/ \E s \in Subtask : ResultUploadFinished(s)
  PROVE  Quiet
<1>1. UNCHANGED <<mail, paid, pc, job, todo>>
  BY DEF Tick, StartSoftShutdown, ConfirmPayment, ResultUploadFinished, controlVars, workerVars
<1>2. ClaimsSame
  BY <1>1, ClaimsUnchanged, DiscardedEffect
  DEF Tick, StartSoftShutdown, ConfirmPayment, ResultUploadFinished, controlVars
<1>3. WaitsAfterClaim
  <2>1. CASE UNCHANGED row
    BY <2>1, RowsUnchanged
  <2>2. ASSUME NEW s \in Subtask, ResultUploadFinished(s) PROVE WaitsAfterClaim
    <3> DEFINE new == [row[s] EXCEPT !.uploaded = TRUE]
    <3>1. new \in Row /\ new.state = row[s].state
      BY DEF IndInv, TypeOK, Row
    <3> QED
      BY <2>2, <3>1, SavedWaits DEF ResultUploadFinished
  <2> QED
    BY <2>1, <2>2 DEF Tick, StartSoftShutdown, ConfirmPayment, controlVars
<1> QED
  BY <1>1, <1>2, <1>3, NoWorkerMoves, NoCallbackMoves, MailUnchanged DEF Quiet

\* A claim with a hash fails the callback, one that is gone ends it.
LEMMA ReadOtherEffect ==
  ASSUME IndInv, NEW w \in Worker, ReadClaim(w), claim[Head(todo[w]).key] # "open"
  PROVE  Quiet
<1>1. claim[Head(todo[w]).key] \in {"none", "open", "sent"} /\ todo[w] # <<>>
  BY FirstCallback DEF ReadClaim, IndInv, TypeOK, ClaimStatus
<1>2. Done(w) \/ End(w)
  BY <1>1 DEF ReadClaim
<1> QED
  BY <1>1, <1>2, DoneEffect, EndEffect, RowsUnchanged, MailUnchanged, ClaimsUnchanged
  DEF ReadClaim, controlVars, Quiet

-----------------------------------------------------------------------------
LEMMA InitEnd == ASSUME Init PROVE PayInv /\ VerdictInv
<1>1. \A w \in Worker, i \in Nat : ~ ToPay(w, i)
  BY DEF Init, ToPay
<1>2. \A c \in Client, i \in Nat : ~ IsVerdict(c, i)
  BY DEF Init, IsVerdict
<1>3. PaidIsFinal
  BY DEF Init, PaidIsFinal
<1>4. WaitingIsBacked
  BY NoRowFacts DEF Init, WaitingIsBacked, Waits, Unknown
<1>5. StoringIsBacked
  BY DEF Init, StoringIsBacked, Stores
<1> QED
  BY <1>1, <1>2, <1>3, <1>4, <1>5
  DEF PayInv, VerdictInv, PaymentsAreDue, OnePayer, VerdictsEnd, OneLetter, RejectedIsFree

LEMMA NextEnd ==
  ASSUME IndInv, SafeCopies, PayInv, VerdictInv, [Next]_vars
  PROVE  PayInv' /\ VerdictInv'
<1>1. FinalStays /\ IndInv'
  BY FinalStaysStep, NextIndInv
<1>2. CASE Quiet \/ \E s \in Subtask : Ends(s)
  BY <1>1, <1>2, QuietKeeps, EndKeeps
<1>3. CASE UNCHANGED vars
  <2>1. UNCHANGED <<row, mail, claim, paid, todo, pc, job>>
    BY <1>3 DEF vars
  <2> QED
    BY <1>2, <2>1, RowsUnchanged, MailUnchanged, NoCallbackMoves, NoWorkerMoves, ClaimsUnchanged
    DEF Quiet
<1>4. ASSUME NEW w \in Worker, Proceed(w) PROVE PayInv' /\ VerdictInv'
  <2>1. CASE ClaimDeposit(w)
    BY <2>1, ClaimDepositKeeps
  <2>2. CASE PayClaim(w)
    BY <2>2, PayClaimKeeps
  <2>3. CASE ReadClaim(w)
    BY <1>2, <2>3, ReadOpenKeeps, ReadOtherEffect
  <2>4. CASE \E s \in Subtask : SweepSubtask(w, s)
    BY <1>2, <2>4, SweepEffect
  <2> QED
    BY <1>2, <1>4, <2>1, <2>2, <2>3, <2>4, ReportingEffect, StoringEffect, OtherEffect DEF Proceed
<1>5. CASE Next
  BY <1>2, <1>4, <1>5, SendEffect, StartReceiveEffect, UploadFinishedEffect,
     VerificationResultEffect, OtherEffect, EnvironmentEffect DEF Next
<1> QED
  BY <1>3, <1>5

LEMMA EndInvariance == RaceFreeSpec => [](IndInv /\ SafeCopies /\ PayInv /\ VerdictInv)
<1>1. Init => IndInv /\ SafeCopies /\ PayInv /\ VerdictInv
  BY InitIndInv, InitEnd, NoRowFacts DEF Init, SafeCopies, Holds, NoCopies
<1>2. SafeCopies /\ [RaceFreeNext]_vars => SafeCopies'
  BY CopiesStaySafe
<1>3. [RaceFreeNext]_vars => [Next]_vars
  BY DEF RaceFreeNext
<1>4. IndInv /\ SafeCopies /\ PayInv /\ VerdictInv /\ [Next]_vars
        => IndInv' /\ PayInv' /\ VerdictInv'
  BY NextIndInv, NextEnd
<1> QED
  BY <1>1, <1>2, <1>3, <1>4, PTL DEF RaceFreeSpec

\* A claim is paid at most once, by whichever of the timeout, the late upload, the
\* verification result and the two clients' calls ends the use case (message_handlers.py,
\* tasks.py and bankster.py, finalize_payment).
THEOREM ClaimsArePaidOnce == RaceFreeSpec => []PaidAtMostOnce
<1>1. PayInv => PaidAtMostOnce
  BY DEF PayInv, PaidIsFinal, PaidAtMostOnce
<1> QED
  BY <1>1, EndInvariance, PTL

\* Concent holds the claims for every state whose end may pay from a deposit
\* (message_handlers.py, claim_deposit before store_or_update_subtask).
THEOREM WaitingHasClaims == RaceFreeSpec => []ActiveStateIsBacked
<1>1. PayInv => ActiveStateIsBacked
  BY DEF PayInv, WaitingIsBacked, ActiveStateIsBacked, Waits, Backed, UseCase
<1> QED
  BY <1>1, EndInvariance, PTL

\* A requestor who was told that the results are rejected does not pay for them.
THEOREM RejectionIsFree == RaceFreeSpec => []RejectedIsNotCharged
<1>1. IndInv /\ VerdictInv => RejectedIsNotCharged
  <2> SUFFICES ASSUME IndInv, VerdictInv, NEW s \in Subtask,
                      NEW i \in Posted(RequestorOf[s], s, {"SubtaskResultsRejected"})
               PROVE  paid[<<s, "ADDITIONAL_VERIFICATION", "requestor">>] = 0
    BY DEF RejectedIsNotCharged
  <2>1. RequestorOf[s] \in Client /\ mail[RequestorOf[s]] \in Seq(Letter)
    BY ControlAssumption DEF IndInv, TypeOK
  <2>2. i \in Nat /\ IsVerdict(RequestorOf[s], i)
    BY <2>1 DEF Posted, IsVerdict, Verdict
  <2> QED
    BY <2>1, <2>2 DEF Posted, VerdictInv, RejectedIsFree, ChargeOf
<1> QED
  BY <1>1, EndInvariance, PTL

\* Each client gets one verdict on the results of a subtask at most.
THEOREM VerdictsAreGivenOnce == RaceFreeSpec => []OneVerdict
<1>1. IndInv /\ VerdictInv => OneVerdict
  <2> SUFFICES ASSUME IndInv, VerdictInv, NEW s \in Subtask, NEW c \in Client
               PROVE  Cardinality(Posted(c, s, {"SubtaskResultsSettled",
                                                "SubtaskResultsRejected"})) <= 1
    BY DEF OneVerdict
  <2> DEFINE V == Posted(c, s, {"SubtaskResultsSettled", "SubtaskResultsRejected"})
  <2>1. mail[c] \in Seq(Letter)
    BY DEF IndInv, TypeOK
  <2>2. \A i \in V : i \in Nat /\ IsVerdict(c, i) /\ mail[c][i].subtask = s
    BY <2>1 DEF Posted, IsVerdict, Verdict
  <2>3. \A i, j \in V : i = j
    BY <2>2 DEF VerdictInv, OneLetter
  <2> HIDE DEF V
  <2>4. ASSUME V = {} PROVE Cardinality(V) = 0
    BY <2>4, FS_EmptySet
  <2>5. ASSUME NEW i \in V PROVE Cardinality(V) = 1
    <3>1. V = {i}
      BY <2>3, <2>5
    <3> QED
      BY <3>1, FS_Singleton
  <2>6. Cardinality(V) = 0 \/ Cardinality(V) = 1
    BY <2>4, <2>5
  <2>7. Cardinality(V) <= 1
    BY <2>6
  <2> QED
    BY <2>7 DEF V
<1> QED
  BY <1>1, EndInvariance, PTL

LEMMA SameKeys ==
  /\ Claims!ClaimKey = ClaimKey /\ Claims!UseCase = UseCase
  /\ \A s \in Subtask, use \in UseCase : Claims!ClaimsOf(s, use) = ClaimsOf(s, use)
  BY DEF Claims!ClaimKey, ClaimKey, Claims!UseCase, UseCase, Claims!Payer, Payer,
         Claims!ClaimsOf, ClaimsOf

\* The core keeps to the life of a claim that Bankster implements.
THEOREM CoreKeepsToClaims == RaceFreeSpec => ImplementsClaims
<1>1. Init => Claims!Init
  BY SameKeys DEF Init, Claims!Init
<1>2. ASSUME IndInv, SafeCopies, PayInv, [Next]_vars PROVE [Claims!Next]_claim
  <2>1. ASSUME NEW k, claim' = Discarded(k) PROVE [Claims!Next]_claim
    <3>1. CASE k \in ClaimKey
      BY <2>1, <3>1, SameKeys DEF Discarded, Claims!Next, Claims!Free
    <3>2. CASE k \notin ClaimKey
      <4>1. claim' = claim
        BY <1>2, <2>1, <3>2 DEF Discarded, IndInv, TypeOK
      <4> QED
        BY <4>1
    <3> QED
      BY <3>1, <3>2
  <2>2. ASSUME NEW w \in Worker, ClaimDeposit(w) PROVE [Claims!Next]_claim
    <3>1. job[w].subtask \in Subtask /\ UseCaseOf(job[w]) \in UseCase
      BY <1>2, <2>2, Handled DEF ClaimDeposit, UseCaseOf, UseCase
    <3>2. Claims!Make(job[w].subtask, UseCaseOf(job[w]))
      BY <2>2, <3>1, SameKeys DEF ClaimDeposit, Claims!Make
    <3> QED
      BY <3>1, <3>2, SameKeys DEF Claims!Next
  <2>3. ASSUME NEW w \in Worker, PayClaim(w) PROVE [Claims!Next]_claim
    <3> DEFINE k == Head(todo[w]).key
    <3>1. k \in ClaimKey /\ claim[k] = "open"
      BY <1>2, <2>3, PayerKnows
    <3>2. claim' = [claim EXCEPT ![k] = "none"] \/ claim' = [claim EXCEPT ![k] = "sent"]
      BY <2>3 DEF PayClaim
    <3> QED
      BY <3>1, <3>2, SameKeys DEF Claims!Next, Claims!GiveUp, Claims!Pay
  <2>4. CASE UNCHANGED claim
    BY <2>4
  <2> QED
    BY <1>2, <2>1, <2>2, <2>3, <2>4
    DEF Next, Proceed, Send, StartReceive, UploadFinished, VerificationResult, Crash,
        ResultUploadFinished, ConfirmPayment, Tick, StartSoftShutdown, Refuse,
        ForceReportComputedTask, AckReportComputedTask, RejectReportComputedTask,
        ForceGetTaskResult, CheckBeforeClaim, ClaimRefused, StoreForceSubtaskResults,
        StoreSubtaskResultsVerify, ForceSubtaskResultsResponse, ForcePayment, Delay,
        SweepSubtask, Deliver, DeleteDepositClaim, ReadClaim, controlVars, vars
<1>3. [RaceFreeNext]_vars => [Next]_vars
  BY DEF RaceFreeNext
<1> QED
  BY <1>1, <1>2, <1>3, EndInvariance, PTL DEF RaceFreeSpec, ImplementsClaims, Claims!Spec

-----------------------------------------------------------------------------
(* Responses can be built: a related message that was stored stays stored. *)

Accepted == "subtask_results_accepted"
Rejected == "subtask_results_rejected"

\* Results that were accepted were not rejected, and nothing follows.
Sound(r) ==
  /\ r.state = Unknown => r.messages = {}
  /\ Accepted \in r.messages => r.state = "ACCEPTED" /\ Rejected \notin r.messages

LettersDeliverable ==
  \A c \in Client, i \in Nat :
    i \in DOMAIN mail[c] => Deliverable(mail[c][i].type, row[mail[c][i].subtask])

MailInv == (\A s \in Subtask : Sound(row[s])) /\ LettersDeliverable

Grows(r, q) == Sound(q) /\ r.messages \subseteq q.messages

RowsGrow == \A s \in Subtask : Grows(row[s], row'[s])

\* What is in the mailboxes after the step was there, or can be built.
LettersKept ==
  \A c \in Client, i \in Nat : i \in DOMAIN mail'[c] =>
    \/ /\ i \in DOMAIN mail[c]
       /\ mail'[c][i].type = mail[c][i].type /\ mail'[c][i].subtask = mail[c][i].subtask
    \/ Deliverable(mail'[c][i].type, row'[mail'[c][i].subtask])

\* A response that can be built can be built from what the subtask becomes.
LEMMA DeliverableStays ==
  ASSUME NEW r, NEW q, Grows(r, q), Sound(r), NEW type, Deliverable(type, r)
  PROVE  Deliverable(type, q)
  BY DEF Grows, Sound, Deliverable, Accepted, Rejected

LEMMA MailKept ==
  ASSUME IndInv, MailInv, RowsGrow, LettersKept PROVE MailInv'
<1>1. ASSUME NEW c \in Client, NEW i \in Nat, i \in DOMAIN mail'[c]
      PROVE  Deliverable(mail'[c][i].type, row'[mail'[c][i].subtask])
  <2>1. CASE /\ i \in DOMAIN mail[c]
             /\ mail'[c][i].type = mail[c][i].type /\ mail'[c][i].subtask = mail[c][i].subtask
    <3> DEFINE s == mail[c][i].subtask
    <3>1. mail[c] \in Seq(Letter)
      BY DEF IndInv, TypeOK
    <3>2. mail[c][i] \in Letter
      BY <2>1, <3>1
    <3>3. s \in Subtask
      BY <3>2 DEF Letter
    <3>4. Deliverable(mail[c][i].type, row[s]) /\ Sound(row[s]) /\ Grows(row[s], row'[s])
      BY <2>1, <3>3 DEF MailInv, LettersDeliverable, RowsGrow
    <3> HIDE DEF s
    <3>5. Deliverable(mail[c][i].type, row'[s])
      BY <3>4, DeliverableStays
    <3> QED
      BY <2>1, <3>5 DEF s
  <2> QED
    BY <1>1, <2>1 DEF LettersKept
<1>2. \A s \in Subtask : Sound(row'[s])
  BY DEF RowsGrow, Grows
<1>3. LettersDeliverable'
  BY <1>1 DEF LettersDeliverable, Deliverable
<1> QED
  BY <1>2, <1>3 DEF MailInv, Sound

LEMMA RowsStill == ASSUME MailInv, UNCHANGED row PROVE RowsGrow
  BY DEF MailInv, RowsGrow, Grows

LEMMA MailStill == ASSUME UNCHANGED mail PROVE LettersKept
  BY DEF LettersKept

LEMMA SavedGrows ==
  ASSUME IndInv, MailInv, NEW s \in Subtask, NEW q, Grows(row[s], q), Save(s, q)
  PROVE  RowsGrow /\ row'[s] = q
<1>1. row' = [row EXCEPT ![s] = q] /\ row \in [Subtask -> Row]
  BY DEF Save, IndInv, TypeOK
<1> QED
  BY <1>1 DEF MailInv, RowsGrow, Grows

\* Every related message that these responses are built from is always there.
Plain == ResponseType \ {"ForceGetTaskResultUpload", "ForceGetTaskResultDownload",
                         "ForceSubtaskResults", "ForceSubtaskResultsResponse"}

LEMMA PlainTypes ==
  /\ {"ForceReportComputedTask", "ForceReportComputedTaskResponse", "VerdictReportComputedTask",
      "ForceGetTaskResultFailed", "SubtaskResultsSettled", "SubtaskResultsRejected",
      "ForcePaymentCommitted"} \subseteq Plain
  /\ {"ForceGetTaskResultUpload", "ForceGetTaskResultDownload", "ForceSubtaskResults",
      "ForceSubtaskResultsResponse"} \subseteq ResponseType
  /\ \A type \in Plain : type \in ResponseType /\ \A r : Deliverable(type, r)
  BY DEF Plain, ResponseType, SubtaskResponse, Deliverable

\* One letter at most is posted to each client, and it can be built.
LEMMA DeliverablePosted ==
  ASSUME IndInv, NEW s \in Subtask, NEW P, NEW R, Post(s, P, R),
         P = <<>> \/ \E t \in ResponseType : P = <<t>> /\ Deliverable(t, row'[s]),
         R = <<>> \/ \E t \in ResponseType : R = <<t>> /\ Deliverable(t, row'[s])
  PROVE  LettersKept
<1>1. ASSUME NEW Q, Q = <<>> \/ \E t \in ResponseType : Q = <<t>> /\ Deliverable(t, row'[s])
      PROVE  /\ Q \in Seq(ResponseType) /\ Len(Q) <= 1
             /\ Len(Q) = 1 => Deliverable(Q[1], row'[s])
  <2>1. CASE Q = <<>>
    BY <2>1, PostTypes
  <2>2. ASSUME NEW t \in ResponseType, Q = <<t>>, Deliverable(t, row'[s])
        PROVE  /\ Q \in Seq(ResponseType) /\ Len(Q) <= 1
               /\ Len(Q) = 1 => Deliverable(Q[1], row'[s])
    <3>1. Q[1] = t /\ Len(Q) = 1
      BY <2>2
    <3> QED
      BY <2>2, <3>1, PostTypes
  <2> QED
    BY <1>1, <2>1, <2>2
<1>2. /\ P \in Seq(ResponseType) /\ Len(P) <= 1 /\ (Len(P) = 1 => Deliverable(P[1], row'[s]))
      /\ R \in Seq(ResponseType) /\ Len(R) <= 1 /\ (Len(R) = 1 => Deliverable(R[1], row'[s]))
  BY <1>1
<1>3. ASSUME NEW c \in Client, NEW i \in Nat, i \in DOMAIN mail'[c]
      PROVE  \/ i \in DOMAIN mail[c] /\ mail'[c][i] = mail[c][i]
             \/ Deliverable(mail'[c][i].type, row'[mail'[c][i].subtask])
  <2>1. \/ i \in DOMAIN mail[c] /\ mail'[c][i] = mail[c][i]
        \/ /\ mail'[c][i].subtask = s
           /\ \/ Len(P) = 1 /\ mail'[c][i].type = P[1]
              \/ Len(R) = 1 /\ mail'[c][i].type = R[1]
    BY <1>2, <1>3, PostShape
  <2> QED
    BY <1>2, <2>1
<1> QED
  BY <1>3 DEF LettersKept

LEMMA PlainPosted ==
  ASSUME IndInv, NEW s \in Subtask, NEW P, NEW R, Post(s, P, R),
         P = <<>> \/ \E t \in Plain : P = <<t>>,
         R = <<>> \/ \E t \in Plain : R = <<t>>
  PROVE  LettersKept
<1>1. P = <<>> \/ \E t \in ResponseType : P = <<t>> /\ Deliverable(t, row'[s])
  BY PlainTypes
<1>2. R = <<>> \/ \E t \in ResponseType : R = <<t>> /\ Deliverable(t, row'[s])
  BY PlainTypes
<1> QED
  BY <1>1, <1>2, DeliverablePosted

\* A state that is left for a passive one, or for the verification, holds no answer.
LEMMA ActiveGrows ==
  ASSUME NEW r \in Row, Sound(r), r.state \in ActiveStates, NEW q,
         q.messages = r.messages, q.state # Unknown
  PROVE  Grows(r, q)
  BY DEF Sound, Grows, ActiveStates

\* What a handler saves has everything the subtask had.
LEMMA ResultGrows ==
  ASSUME NEW m \in Message, NEW r \in Row, Sound(r), RowOK(r), Saves(m, r), m.op # "ForcePayment",
         Applies(m, r) \/ m.op \in {"ForceSubtaskResults", "SubtaskResultsVerify"}
  PROVE  LET q == Result(m, r) IN
           /\ Grows(r, q)
           /\ m.op = "ForceGetTaskResult" => "force_get_task_result" \in q.messages
           /\ m.op = "ForceSubtaskResults" => "ack_report_computed_task" \in q.messages
           /\ m.op = "ForceSubtaskResultsResponse" =>
                (Accepted \in q.messages) # (Rejected \in q.messages)
<1> DEFINE q == Result(m, r)
<1>1. /\ q.state \in SubtaskState /\ q.state # Unknown
      /\ m.op = "ForceReportComputedTask" => q.state = "FORCING_REPORT"
      /\ m.op = "ForceGetTaskResult" => q.state = "FORCING_RESULT_TRANSFER"
      /\ m.op = "ForceSubtaskResults" => q.state = "FORCING_ACCEPTANCE"
      /\ m.op = "SubtaskResultsVerify" => q.state = "VERIFICATION_FILE_TRANSFER"
  BY ResultState DEF Unknown, SubtaskState, ActiveStates, PassiveStates
<1>2. m.op \in Kinds
  BY MessageFields
<1>3. MessagesMatchState(q)
  BY <1>1 DEF Saves, Clean
<1>4. ASSUME NEW st, NEW d, NEW p, NEW new, r.state = Unknown => r.messages = {}
      PROVE  StoreOrUpdate(r, st, d, p, new).messages = r.messages \union new
  BY <1>4 DEF StoreOrUpdate, Stored, Updated
<1>5. CASE m.op = "ForceReportComputedTask"
  <2>1. r.messages = {} /\ q.messages = {}
    BY <1>5 DEF Applies, MayForceReport, Sound, Result, Stored
  <2> QED
    BY <1>1, <1>5, <2>1 DEF Grows, Sound
<1>6. CASE m.op \in {"AckReportComputedTask", "RejectReportComputedTask"}
  <2>1. r.state = "FORCING_REPORT"
    BY <1>6 DEF Applies, MayAcknowledge, MayReject
  <2>2. Accepted \notin r.messages
    BY <2>1 DEF Sound
  <2>3. \/ q.messages = r.messages \union {"ack_report_computed_task"}
        \/ q.messages = r.messages \union {"reject_report_computed_task"}
    BY <1>6 DEF Result, Updated
  <2> QED
    BY <1>1, <1>6, <2>2, <2>3 DEF Grows, Sound, Accepted
<1>7. CASE m.op = "ForceGetTaskResult"
  <2>1. q.messages = r.messages \union {"force_get_task_result"}
    BY <1>4, <1>7 DEF Result, Sound
  <2>2. Accepted \notin q.messages
    BY <1>1, <1>3, <1>7 DEF MessagesMatchState, Unset, Accepted
  <2> QED
    BY <1>1, <1>7, <2>1, <2>2 DEF Grows, Sound
<1>8. CASE m.op = "ForceSubtaskResults"
  <2>1. q.messages = r.messages \union {"ack_report_computed_task"}
    BY <1>4, <1>8 DEF Result, Sound
  <2>2. Accepted \notin q.messages
    BY <1>1, <1>3, <1>8 DEF MessagesMatchState, Unset, Accepted
  <2> QED
    BY <1>1, <1>8, <2>1, <2>2 DEF Grows, Sound
<1>9. CASE m.op = "SubtaskResultsVerify"
  <2>1. q.messages = r.messages \union {Rejected, "subtask_results_verify"}
    BY <1>4, <1>9 DEF Result, Sound, Rejected
  <2>2. r.state # "ACCEPTED"
    BY <1>1, <1>9 DEF Saves, Clean, IsStateTransitionPossible, PossibleTransitionsTo, Unknown,
       SubtaskState, ActiveStates
  <2>3. Accepted \notin q.messages
    BY <2>1, <2>2 DEF Sound, Accepted, Rejected
  <2> QED
    BY <1>1, <1>9, <2>1, <2>3 DEF Grows, Sound
<1>10. CASE m.op = "ForceSubtaskResultsResponse"
  <2>1. Accepted \notin r.messages /\ Rejected \notin r.messages
    BY <1>10 DEF Applies, MayRespond, Accepted, Rejected
  <2>2. \/ q.messages = r.messages \union {Accepted} /\ q.state = "ACCEPTED"
        \/ q.messages = r.messages \union {Rejected}
    BY <1>10 DEF Result, Updated, Accepted, Rejected
  <2> QED
    BY <1>1, <1>10, <2>1, <2>2 DEF Grows, Sound, Accepted, Rejected
<1> QED
  BY <1>2, <1>5, <1>6, <1>7, <1>8, <1>9, <1>10 DEF Kinds

LEMMA TimeoutMail ==
  ASSUME IndInv, MailInv, NEW w, NEW s \in Subtask, row[s].state \in ActiveStates,
         UpdateTimedOutSubtask(w, s, row[s])
  PROVE  RowsGrow /\ LettersKept
<1> DEFINE q == ToPassive(row[s], TimeoutState(row[s].state))
<1>1. row[s] \in Row /\ Sound(row[s])
  BY DEF IndInv, TypeOK, MailInv
<1>2. TimeoutState(row[s].state) \in PassiveStates
  BY DEF TimeoutState, ActiveStates, PassiveStates
<1>3. q.messages = row[s].messages /\ q.state \in PassiveStates
  BY <1>1, <1>2, PassiveRow
<1>4. Grows(row[s], q)
  <2>1. q.state # Unknown
    BY <1>3 DEF PassiveStates, Unknown
  <2> QED
    BY <1>1, <1>3, <2>1, ActiveGrows
<1>5. Save(s, q)
  BY DEF UpdateTimedOutSubtask
<1>6. \/ Post(s, <<"ForceReportComputedTaskResponse">>, <<"VerdictReportComputedTask">>)
      \/ Post(s, <<>>, <<"ForceGetTaskResultFailed">>)
      \/ Post(s, <<"SubtaskResultsSettled">>, <<"SubtaskResultsSettled">>)
      \/ Post(s, <<"SubtaskResultsRejected">>, <<"SubtaskResultsRejected">>)
  BY DEF UpdateTimedOutSubtask, ActiveStates
<1>7. LettersKept
  BY <1>6, PlainTypes, PlainPosted
<1> QED
  BY <1>4, <1>5, <1>7, SavedGrows

LEMMA UploadMail ==
  ASSUME IndInv, MailInv, NEW s \in Subtask, row[s].state = "FORCING_RESULT_TRANSFER",
         VerifyFileStatus(s, row[s])
  PROVE  RowsGrow /\ LettersKept
<1> DEFINE q == ToPassive(row[s], "RESULT_UPLOADED")
<1>1. row[s] \in Row /\ Sound(row[s]) /\ MessagesMatchState(row[s])
  BY DEF IndInv, TypeOK, MailInv, SavedRowsAreClean, Unknown
<1>2. q.messages = row[s].messages /\ q.state = "RESULT_UPLOADED"
  BY <1>1, PassiveRow DEF PassiveStates
<1>3. Grows(row[s], q)
  BY <1>1, <1>2, ActiveGrows DEF ActiveStates, Unknown
<1>4. RowsGrow /\ row'[s] = q
  BY <1>3, SavedGrows DEF VerifyFileStatus
<1>5. "force_get_task_result" \in q.messages
  BY <1>1, <1>2 DEF MessagesMatchState, Required
<1>6. Deliverable("ForceGetTaskResultDownload", row'[s])
  BY <1>4, <1>5 DEF Deliverable
<1>7. LettersKept
  BY <1>6, PlainTypes, DeliverablePosted DEF VerifyFileStatus
<1> QED
  BY <1>4, <1>7

LEMMA HandlerMail ==
  ASSUME IndInv, MailInv, NEW w \in Worker,
         \/ ForceReportComputedTask(w) \/ AckReportComputedTask(w)
         \/ RejectReportComputedTask(w) \/ ForceGetTaskResult(w)
         \/ StoreForceSubtaskResults(w) \/ StoreSubtaskResultsVerify(w)
         \/ ForceSubtaskResultsResponse(w)
  PROVE  RowsGrow /\ LettersKept
<1> DEFINE m == job[w]
           s == m.subtask
           q == Result(m, row[s])
<1>1. m \in Message /\ s \in Subtask
  BY Handled
  DEF ForceReportComputedTask, AckReportComputedTask, RejectReportComputedTask,
      ForceGetTaskResult, ForceSubtaskResultsResponse, Handling,
      StoreForceSubtaskResults, StoreSubtaskResultsVerify
<1>2. /\ Saves(m, row[s]) /\ m.op # "ForcePayment"
      /\ Applies(m, row[s]) \/ m.op \in {"ForceSubtaskResults", "SubtaskResultsVerify"}
  BY DEF ForceReportComputedTask, AckReportComputedTask, RejectReportComputedTask,
      ForceGetTaskResult, ForceSubtaskResultsResponse, Handling, Accepts,
      StoreForceSubtaskResults, StoreSubtaskResultsVerify, StoreAccepts
<1>3. Save(s, q)
  BY DEF ForceReportComputedTask, AckReportComputedTask, RejectReportComputedTask,
      ForceGetTaskResult, ForceSubtaskResultsResponse, SaveUpdated, SaveStoredOrUpdated,
      StoreForceSubtaskResults, StoreSubtaskResultsVerify
<1>4. row[s] \in Row /\ Sound(row[s]) /\ RowOK(row[s])
  BY <1>1, IndInvParts DEF IndInv, TypeOK, MailInv, TableOK, SavedRowsAreClean, RowOK
<1>5. /\ Grows(row[s], q)
      /\ m.op = "ForceGetTaskResult" => "force_get_task_result" \in q.messages
      /\ m.op = "ForceSubtaskResults" => "ack_report_computed_task" \in q.messages
      /\ m.op = "ForceSubtaskResultsResponse" =>
           (Accepted \in q.messages) # (Rejected \in q.messages)
  BY <1>1, <1>2, <1>4, ResultGrows
<1>6. RowsGrow /\ row'[s] = q
  BY <1>1, <1>3, <1>5, SavedGrows
<1>7. /\ m.op = "ForceGetTaskResult" => Deliverable("ForceGetTaskResultUpload", row'[s])
      /\ m.op = "ForceSubtaskResults" => Deliverable("ForceSubtaskResults", row'[s])
      /\ m.op = "ForceSubtaskResultsResponse" =>
           Deliverable("ForceSubtaskResultsResponse", row'[s])
  BY <1>5, <1>6 DEF Deliverable, Accepted, Rejected
<1>8. \/ UNCHANGED mail
      \/ Post(s, <<>>, <<"ForceReportComputedTask">>)
      \/ Post(s, <<"ForceReportComputedTaskResponse">>, <<>>)
      \/ Post(s, <<"ForceReportComputedTaskResponse">>, <<"VerdictReportComputedTask">>)
      \/ m.op = "ForceGetTaskResult" /\ Post(s, <<"ForceGetTaskResultUpload">>, <<>>)
      \/ m.op = "ForceSubtaskResults" /\ Post(s, <<>>, <<"ForceSubtaskResults">>)
      \/ /\ m.op = "ForceSubtaskResultsResponse"
         /\ Post(s, <<"ForceSubtaskResultsResponse">>, <<>>)
  BY DEF ForceReportComputedTask, AckReportComputedTask, RejectReportComputedTask,
      ForceGetTaskResult, ForceSubtaskResultsResponse, Handling,
      StoreForceSubtaskResults, StoreSubtaskResultsVerify
<1>9. ASSUME NEW P, NEW R, Post(s, P, R),
             P = <<>> \/ \E t \in Plain : P = <<t>>, R = <<>> \/ \E t \in Plain : R = <<t>>
      PROVE  LettersKept
  BY <1>1, <1>9, PlainPosted
<1>10. ASSUME NEW t \in ResponseType, Deliverable(t, row'[s]),
              Post(s, <<t>>, <<>>) \/ Post(s, <<>>, <<t>>)
       PROVE  LettersKept
  BY <1>1, <1>10, DeliverablePosted
<1> QED
  BY <1>6, <1>7, <1>8, <1>9, <1>10, MailStill, PlainTypes

\* Delivering a letter changes neither its type nor its subtask.
LEMMA OtherMail ==
  ASSUME IndInv, MailInv, NEW w \in Worker, ForcePayment(w) \/ Deliver(w)
  PROVE  RowsGrow /\ LettersKept
<1>1. RowsGrow
  BY RowsStill DEF ForcePayment, Deliver
<1>2. CASE ForcePayment(w)
  <2>1. job[w].subtask \in Subtask
    BY <1>2, Handled DEF ForcePayment, Handling
  <2>2. \/ UNCHANGED mail
        \/ Post(job[w].subtask, <<>>, <<"ForcePaymentCommitted">>)
    BY <1>2 DEF ForcePayment
  <2> QED
    BY <1>1, <2>1, <2>2, MailStill, PlainTypes, PlainPosted
<1>3. CASE Deliver(w)
  <2>1. /\ mail \in [Client -> Seq(Letter)]
        /\ \/ UNCHANGED mail
           \/ mail' = [mail EXCEPT ![job[w].client][NextLetter(job[w].client)].delivered = TRUE]
    BY <1>3 DEF Deliver, IndInv, TypeOK
  <2>2. ASSUME NEW c \in Client, NEW i \in Nat, i \in DOMAIN mail'[c]
        PROVE  /\ i \in DOMAIN mail[c]
               /\ mail'[c][i].type = mail[c][i].type /\ mail'[c][i].subtask = mail[c][i].subtask
    <3>1. CASE mail'[c] = mail[c]
      BY <2>2, <3>1
    <3>2. CASE mail'[c] = [mail[c] EXCEPT ![NextLetter(c)].delivered = TRUE]
      <4>1. DOMAIN mail'[c] = DOMAIN mail[c]
        BY <3>2
      <4>2. mail[c] \in Seq(Letter) /\ i \in DOMAIN mail[c]
        BY <2>1, <2>2, <4>1
      <4>3. mail'[c][i] = mail[c][i] \/ mail'[c][i] = [mail[c][i] EXCEPT !.delivered = TRUE]
        BY <3>2, <4>2
      <4>4. mail[c][i] \in Letter
        BY <4>2
      <4> QED
        BY <4>2, <4>3, <4>4 DEF Letter
    <3> QED
      BY <2>1, <3>1, <3>2
  <2> QED
    BY <1>1, <2>2 DEF LettersKept
<1> QED
  BY <1>2, <1>3

LEMMA TaskMail ==
  ASSUME IndInv, MailInv, NEW w \in Worker, NEW s \in Subtask,
         UploadFinished(w, s) \/ \E result \in {"MATCH", "MISMATCH", "ERROR"} :
                                   VerificationResult(w, s, result)
  PROVE  RowsGrow /\ LettersKept
<1> DEFINE r == row[s]
           q == WithState(r, "ADDITIONAL_VERIFICATION", r.deadline + CVT[s])
<1>1. r \in Row /\ Sound(r) /\ r.state \in ActiveStates
  BY DEF IndInv, TypeOK, MailInv, UploadFinished, VerificationResult, ActiveStates
<1>2. ASSUME NEW st \in {"ACCEPTED", "FAILED"}, NEW type \in Verdict,
             Save(s, ToPassive(r, st)), Post(s, <<type>>, <<type>>)
      PROVE  RowsGrow /\ LettersKept
  <2>1. ToPassive(r, st).messages = r.messages /\ ToPassive(r, st).state = st
    BY <1>1, PassiveRow DEF PassiveStates
  <2>2. Grows(r, ToPassive(r, st))
    BY <1>1, <2>1, ActiveGrows DEF Unknown
  <2>3. type \in Plain
    BY PlainTypes DEF Verdict
  <2> QED
    BY <1>2, <2>2, <2>3, SavedGrows, PlainPosted
<1>3. CASE Save(s, q) /\ UNCHANGED mail
  <2>1. q.messages = r.messages /\ q.state = "ADDITIONAL_VERIFICATION"
    BY DEF WithState, Updated
  <2>2. Grows(r, q)
    BY <1>1, <2>1, ActiveGrows DEF Unknown
  <2> QED
    BY <1>3, <2>2, SavedGrows, MailStill
<1> QED
  BY <1>2, <1>3 DEF UploadFinished, VerificationResult, Settle, Verdict

LEMMA InitMail == ASSUME Init PROVE MailInv
<1>1. Sound(NoRow)
  BY DEF Sound, NoRow
<1>2. \A c \in Client : DOMAIN mail[c] = {}
  BY DEF Init
<1> QED
  BY <1>1, <1>2 DEF Init, MailInv, LettersDeliverable

LEMMA NextMail == ASSUME IndInv, SafeCopies, MailInv, [Next]_vars PROVE MailInv'
<1>1. CASE UNCHANGED <<row, mail>>
  BY <1>1, RowsStill, MailStill, MailKept
<1>2. ASSUME NEW s \in Subtask, VerifyFileStatus(s, row[s]), NEW c, FileIsUploaded(s, row[s], c)
      PROVE  MailInv'
  BY <1>2, UploadMail, MailKept DEF FileIsUploaded
<1>3. ASSUME NEW w, NEW s \in Subtask, TimeIsUp(row[s]), UpdateTimedOutSubtask(w, s, row[s])
      PROVE  MailInv'
  BY <1>3, TimeoutMail, MailKept DEF TimeIsUp
<1>4. ASSUME NEW w \in Worker, Send(w) PROVE MailInv'
  <2>1. PICK s \in Subtask : \E m \in Incoming(s) : PreProcess(w, m)
    BY <1>4 DEF Send
  <2>2. PICK m \in Incoming(s) : PreProcess(w, m)
    BY <2>1
  <2>3. m.subtask = s
    BY IncomingType DEF IndInv, TypeOK
  <2> QED
    BY <1>1, <1>2, <1>3, <2>2, <2>3 DEF PreProcess
<1>5. ASSUME NEW w \in Worker, NEW s \in Subtask, SweepSubtask(w, s) PROVE MailInv'
  <2>1. copies[w][s] = row[s]
    BY <1>5 DEF SweepSubtask, SafeCopies, Holds
  <2> QED
    BY <1>1, <1>2, <1>3, <1>5, <2>1 DEF SweepSubtask
<1>6. ASSUME NEW s \in Subtask, ResultUploadFinished(s) PROVE MailInv'
  <2> DEFINE new == [row[s] EXCEPT !.uploaded = TRUE]
  <2>1. row[s] \in Row /\ Sound(row[s])
    BY DEF IndInv, TypeOK, MailInv
  <2>2. new.messages = row[s].messages /\ new.state = row[s].state
    BY <2>1 DEF Row
  <2>3. Grows(row[s], new)
    BY <2>1, <2>2 DEF Grows, Sound
  <2> QED
    BY <1>6, <2>3, SavedGrows, MailStill, MailKept DEF ResultUploadFinished
<1>7. ASSUME NEW w \in Worker, Proceed(w) PROVE MailInv'
  <2>1. CASE \/ Refuse(w) \/ CheckBeforeClaim(w) \/ ClaimDeposit(w) \/ ClaimRefused(w) \/ Delay(w)
             \/ DeleteDepositClaim(w) \/ ReadClaim(w) \/ PayClaim(w)
    BY <1>1, <2>1
    DEF Refuse, CheckBeforeClaim, ClaimDeposit, ClaimRefused, Delay, DeleteDepositClaim, ReadClaim,
        PayClaim, controlVars
  <2> QED
    BY <1>5, <1>7, <2>1, HandlerMail, OtherMail, MailKept DEF Proceed
<1>8. CASE Next
  <2>1. ASSUME NEW w \in Worker,
               Crash(w) \/ \E c \in Client : StartReceive(w, c)
        PROVE  MailInv'
    BY <1>1, <2>1 DEF Crash, StartReceive, controlVars
  <2>2. CASE Tick \/ StartSoftShutdown \/ \E k \in ClaimKey : ConfirmPayment(k)
    BY <1>1, <2>2 DEF Tick, StartSoftShutdown, ConfirmPayment, controlVars
  <2>3. ASSUME NEW w \in Worker, NEW s \in Subtask,
               UploadFinished(w, s) \/ \E result \in {"MATCH", "MISMATCH", "ERROR"} :
                                         VerificationResult(w, s, result)
        PROVE  MailInv'
    BY <2>3, TaskMail, MailKept
  <2> QED
    BY <1>4, <1>6, <1>7, <1>8, <2>1, <2>2, <2>3 DEF Next
<1> QED
  BY <1>1, <1>8 DEF vars

\* Every response that waits in a mailbox can be built from the subtask as it is
\* (handle_messages_from_database in message_handlers.py): none blocks the ones behind it.
THEOREM ResponsesCanBeBuilt == RaceFreeSpec => []MailIsDeliverable
<1>1. Init => IndInv /\ SafeCopies /\ MailInv
  BY InitIndInv, InitMail, NoRowFacts DEF Init, SafeCopies, Holds, NoCopies
<1>2. SafeCopies /\ [RaceFreeNext]_vars => SafeCopies'
  BY CopiesStaySafe
<1>3. [RaceFreeNext]_vars => [Next]_vars
  BY DEF RaceFreeNext
<1>4. IndInv /\ SafeCopies /\ MailInv /\ [Next]_vars => IndInv' /\ MailInv'
  BY NextIndInv, NextMail
<1>5. IndInv /\ MailInv => MailIsDeliverable
  <2> SUFFICES ASSUME IndInv, MailInv, NEW c \in Client, NEW i \in Undelivered(c, ResponseType)
               PROVE  Deliverable(mail[c][i].type, row[mail[c][i].subtask])
    BY DEF MailIsDeliverable
  <2>1. mail[c] \in Seq(Letter)
    BY DEF IndInv, TypeOK
  <2>2. i \in DOMAIN mail[c] /\ i \in Nat
    BY <2>1 DEF Undelivered
  <2> QED
    BY <2>2 DEF MailInv, LettersDeliverable
<1> QED
  BY <1>1, <1>2, <1>3, <1>4, <1>5, PTL DEF RaceFreeSpec

-----------------------------------------------------------------------------
(* A client's silence is held against it only from the deadline on. *)

\* The end of a wait without a message, if it is one, is not early.
InTime(r, q) ==
  /\ r.state \in ActiveStates \ {"ADDITIONAL_VERIFICATION"}
  /\ q.state = TimeoutState(r.state)
  /\ q.messages = r.messages
  => r.deadline <= now

LEMMA StillActive ==
  ASSUME NEW r, NEW q, q.state \notin {"REPORTED", "FAILED", "ACCEPTED"} PROVE InTime(r, q)
  BY DEF InTime, TimeoutState, ActiveStates

LEMMA SavedInTime ==
  ASSUME IndInv, NEW s \in Subtask, NEW q, Save(s, q), InTime(row[s], q)
  PROVE  \A t \in Subtask : InTime(row[t], row'[t])
<1>1. row' = [row EXCEPT ![s] = q] /\ row \in [Subtask -> Row]
  BY DEF Save, IndInv, TypeOK
<1>2. ASSUME NEW t \in Subtask \ {s} PROVE InTime(row[t], row'[t])
  BY <1>1 DEF InTime, TimeoutState, ActiveStates
<1> QED
  BY <1>1, <1>2

LEMMA RowsInTime ==
  ASSUME UNCHANGED row PROVE \A t \in Subtask : InTime(row[t], row'[t])
  BY DEF InTime, TimeoutState, ActiveStates

\* An answer leaves a message that was not there.
LEMMA AnswerInTime ==
  ASSUME NEW m \in Message, NEW r \in Row, RowOK(r), Applies(m, r), m.op # "ForcePayment"
  PROVE  InTime(r, Result(m, r))
<1> DEFINE q == Result(m, r)
<1>1. m.op \in Kinds
  BY MessageFields
<1>2. CASE m.op \in {"ForceReportComputedTask", "ForceGetTaskResult", "ForceSubtaskResults",
                     "SubtaskResultsVerify"}
  <2>1. q.state \in ActiveStates
    BY <1>2, ResultState DEF ActiveStates
  <2> QED
    BY <2>1, StillActive DEF ActiveStates
<1>3. CASE m.op \in {"AckReportComputedTask", "RejectReportComputedTask"}
  <2>1. r.state = "FORCING_REPORT"
    BY <1>3 DEF Applies, MayAcknowledge, MayReject
  <2>2. r.messages \intersect RelatedMessage = {}
    BY <2>1 DEF RowOK, MessagesMatchState, Unset, Unknown
  <2>3. \/ q.messages = r.messages \union {"ack_report_computed_task"}
        \/ q.messages = r.messages \union {"reject_report_computed_task"}
    BY <1>3 DEF Result, Updated
  <2> QED
    BY <2>2, <2>3 DEF InTime, RelatedMessage
<1>4. CASE m.op = "ForceSubtaskResultsResponse"
  <2>1. r.messages \intersect {"subtask_results_accepted", "subtask_results_rejected"} = {}
    BY <1>4 DEF Applies, MayRespond
  <2>2. \/ q.messages = r.messages \union {"subtask_results_accepted"}
        \/ q.messages = r.messages \union {"subtask_results_rejected"}
    BY <1>4 DEF Result, Updated
  <2> QED
    BY <2>1, <2>2 DEF InTime
<1> QED
  BY <1>1, <1>2, <1>3, <1>4 DEF Kinds

LEMMA HandlerInTime ==
  ASSUME IndInv, NEW w \in Worker,
         \/ ForceReportComputedTask(w) \/ AckReportComputedTask(w)
         \/ RejectReportComputedTask(w) \/ ForceGetTaskResult(w)
         \/ StoreForceSubtaskResults(w) \/ StoreSubtaskResultsVerify(w)
         \/ ForceSubtaskResultsResponse(w)
  PROVE  \A t \in Subtask : InTime(row[t], row'[t])
<1> DEFINE m == job[w]
           s == m.subtask
           q == Result(m, row[s])
<1>1. m \in Message /\ s \in Subtask
  BY Handled
  DEF ForceReportComputedTask, AckReportComputedTask, RejectReportComputedTask,
      ForceGetTaskResult, ForceSubtaskResultsResponse, Handling,
      StoreForceSubtaskResults, StoreSubtaskResultsVerify
<1>2. /\ m.op # "ForcePayment"
      /\ Applies(m, row[s]) \/ m.op \in {"ForceSubtaskResults", "SubtaskResultsVerify"}
  BY DEF ForceReportComputedTask, AckReportComputedTask, RejectReportComputedTask,
      ForceGetTaskResult, ForceSubtaskResultsResponse, Handling, Accepts,
      StoreForceSubtaskResults, StoreSubtaskResultsVerify
<1>3. Save(s, q)
  BY DEF ForceReportComputedTask, AckReportComputedTask, RejectReportComputedTask,
      ForceGetTaskResult, ForceSubtaskResultsResponse, SaveUpdated, SaveStoredOrUpdated,
      StoreForceSubtaskResults, StoreSubtaskResultsVerify
<1>4. row[s] \in Row /\ RowOK(row[s])
  BY <1>1 DEF IndInv, TypeOK, SavedRowsAreClean, RowOK
<1>5. CASE Applies(m, row[s])
  BY <1>1, <1>2, <1>3, <1>4, <1>5, AnswerInTime, SavedInTime
<1>6. CASE m.op \in {"ForceSubtaskResults", "SubtaskResultsVerify"}
  <2>1. q.state \in {"FORCING_ACCEPTANCE", "VERIFICATION_FILE_TRANSFER"}
    BY <1>1, <1>6, ResultState
  <2>2. InTime(row[s], q)
    BY <2>1, StillActive
  <2> QED
    BY <1>1, <1>3, <2>2, SavedInTime
<1> QED
  BY <1>2, <1>5, <1>6

LEMMA NextInTime ==
  ASSUME IndInv, SafeCopies, [Next]_vars PROVE \A t \in Subtask : InTime(row[t], row'[t])
<1> DEFINE Goal == \A t \in Subtask : InTime(row[t], row'[t])
<1>1. CASE UNCHANGED row
  BY <1>1, RowsInTime
<1>2. ASSUME NEW s \in Subtask, VerifyFileStatus(s, row[s]) PROVE Goal
  <2>1. ToPassive(row[s], "RESULT_UPLOADED").state = "RESULT_UPLOADED"
    BY DEF ToPassive, WithState, Updated
  <2> QED
    BY <1>2, <2>1, StillActive, SavedInTime DEF VerifyFileStatus
<1>3. ASSUME NEW w, NEW s \in Subtask, TimeIsUp(row[s]), UpdateTimedOutSubtask(w, s, row[s])
      PROVE  Goal
  <2>1. InTime(row[s], ToPassive(row[s], TimeoutState(row[s].state)))
    BY <1>3 DEF TimeIsUp, InTime
  <2> QED
    BY <1>3, <2>1, SavedInTime DEF UpdateTimedOutSubtask
<1>4. ASSUME NEW w \in Worker, Send(w) PROVE Goal
  <2>1. PICK s \in Subtask : \E m \in Incoming(s) : PreProcess(w, m)
    BY <1>4 DEF Send
  <2>2. PICK m \in Incoming(s) : PreProcess(w, m)
    BY <2>1
  <2>3. m.subtask = s
    BY IncomingType DEF IndInv, TypeOK
  <2> QED
    BY <1>1, <1>2, <1>3, <2>2, <2>3 DEF PreProcess
<1>5. ASSUME NEW w \in Worker, NEW s \in Subtask, SweepSubtask(w, s) PROVE Goal
  <2>1. copies[w][s] = row[s]
    BY <1>5 DEF SweepSubtask, SafeCopies, Holds
  <2> QED
    BY <1>1, <1>2, <1>3, <1>5, <2>1 DEF SweepSubtask
<1>6. ASSUME NEW s \in Subtask, ResultUploadFinished(s) PROVE Goal
  <2> DEFINE new == [row[s] EXCEPT !.uploaded = TRUE]
  <2>1. row[s] \in Row
    BY DEF IndInv, TypeOK
  <2>2. new.state = row[s].state
    BY <2>1 DEF Row
  <2>3. InTime(row[s], new)
    BY <2>2 DEF InTime, TimeoutState, ActiveStates
  <2> QED
    BY <1>6, <2>3, SavedInTime DEF ResultUploadFinished
<1>7. ASSUME NEW w \in Worker, NEW s \in Subtask, UploadFinished(w, s) PROVE Goal
  <2> DEFINE r == row[s]
             q == WithState(r, "ADDITIONAL_VERIFICATION", r.deadline + CVT[s])
  <2>1. CASE r.deadline < now /\ Save(s, ToPassive(r, "FAILED"))
    <3>1. r.deadline \in Int /\ now \in Int
      BY DEF IndInv, TypeOK, Row
    <3>2. InTime(r, ToPassive(r, "FAILED"))
      BY <2>1, <3>1 DEF InTime
    <3> QED
      BY <2>1, <3>2, SavedInTime
  <2>2. CASE Save(s, q)
    <3>1. q.state = "ADDITIONAL_VERIFICATION"
      BY DEF WithState, Updated
    <3> QED
      BY <2>2, <3>1, StillActive, SavedInTime
  <2> QED
    BY <1>7, <2>1, <2>2 DEF UploadFinished
<1>8. ASSUME NEW w \in Worker, NEW s \in Subtask, NEW result, VerificationResult(w, s, result)
      PROVE  Goal
  <2>1. PICK q : Save(s, q)
    BY <1>8 DEF VerificationResult, Settle
  <2>2. InTime(row[s], q)
    BY <1>8 DEF VerificationResult, InTime
  <2> QED
    BY <2>1, <2>2, SavedInTime
<1>9. ASSUME NEW w \in Worker, Proceed(w) PROVE Goal
  <2>1. CASE \/ Refuse(w) \/ CheckBeforeClaim(w) \/ ClaimDeposit(w) \/ ClaimRefused(w)
             \/ ForcePayment(w) \/ Delay(w) \/ Deliver(w)
             \/ DeleteDepositClaim(w) \/ ReadClaim(w) \/ PayClaim(w)
    BY <1>1, <2>1
    DEF Refuse, CheckBeforeClaim, ClaimDeposit, ClaimRefused, ForcePayment, Delay, Deliver,
        DeleteDepositClaim, ReadClaim, PayClaim, controlVars
  <2> QED
    BY <1>5, <1>9, <2>1, HandlerInTime DEF Proceed
<1>10. CASE Next
  <2>1. ASSUME NEW w \in Worker, Crash(w) \/ \E c \in Client : StartReceive(w, c) PROVE Goal
    BY <1>1, <2>1 DEF Crash, StartReceive, controlVars
  <2>2. CASE Tick \/ StartSoftShutdown \/ \E k \in ClaimKey : ConfirmPayment(k)
    BY <1>1, <2>2 DEF Tick, StartSoftShutdown, ConfirmPayment, controlVars
  <2> QED
    BY <1>4, <1>6, <1>7, <1>8, <1>9, <1>10, <2>1, <2>2 DEF Next
<1> QED
  BY <1>1, <1>10 DEF vars

\* No timeout comes before the deadline that the client was given
\* (_update_timed_out_subtask and the callers of it in core/subtask_helpers.py).
THEOREM SilenceIsNotHeldEarly == RaceFreeSpec => SilenceHasUntilDeadline
<1>1. Init => IndInv /\ SafeCopies
  BY InitIndInv, NoRowFacts DEF Init, SafeCopies, Holds, NoCopies
<1>2. SafeCopies /\ [RaceFreeNext]_vars => SafeCopies'
  BY CopiesStaySafe
<1>3. [RaceFreeNext]_vars => [Next]_vars
  BY DEF RaceFreeNext
<1>4. IndInv /\ [Next]_vars => IndInv'
  BY NextIndInv
<1>5. IndInv /\ SafeCopies /\ [Next]_vars =>
        [\A s \in Subtask :
           /\ row[s].state \in ActiveStates \ {"ADDITIONAL_VERIFICATION"}
           /\ row'[s].state = TimeoutState(row[s].state)
           /\ row'[s].messages = row[s].messages
           => row[s].deadline <= now]_vars
  BY NextInTime DEF InTime
<1> QED
  BY <1>1, <1>2, <1>3, <1>4, <1>5, PTL DEF RaceFreeSpec, SilenceHasUntilDeadline
=============================================================================
