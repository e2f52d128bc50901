---------------------------- MODULE FileTransfer ----------------------------
(***************************************************************************)
(* The files of one subtask: the deadlines that the core waits until, the  *)
(* tokens that it gives to the clients, and what the gatekeeper makes of   *)
(* them, on one clock.                                                     *)
(*                                                                         *)
(* The core is taken by its states, its deadlines and its tokens; claims,  *)
(* letters without a token and soft shutdowns are ControlCluster's.  The   *)
(* conductor is taken by its two answers (Conductor says when they come),  *)
(* and a request to the gatekeeper that changes nothing is no action.      *)
(***************************************************************************)
EXTENDS TransferTimes, Gatekeeper

CONSTANT MaxTime   \* bound: the clock stops there

ASSUME FileTransferAssumption == MaxTime \in Nat

Subtasks == INSTANCE SubtaskModel WITH Package <- {ResultSize}

NULL == Subtasks!NULL

VARIABLES
  now,
  state,           \* of the subtask
  nextDeadline,    \* of the subtask
  uploaded,        \* result_upload_finished
  pending,         \* the PendingResponses that carry a token
  tokens,          \* history: the tokens that were handed out
  stored,          \* the files in the storage cluster
  asked,           \* what the core has asked the conductor for
  announced,       \* which answers of the conductor have come
  rejectedAt,      \* the timestamp of SubtaskResultsRejected
  blenderDeadline, \* the verification_deadline that the verifier is given
  ordered          \* upload_acknowledged() was called

transferVars == <<now, state, nextDeadline, uploaded, pending, tokens, stored, asked,
                  announced, rejectedAt, blenderDeadline, ordered>>

coreVars == <<state, nextDeadline>>
fileVars == <<uploaded, stored, asked, announced>>
orderVars == <<blenderDeadline, ordered>>

TransferInit ==
  /\ now = 0
  /\ state \in {Subtasks!Unknown, "REPORTED"}
  /\ nextDeadline = NULL
  /\ uploaded = FALSE
  /\ pending = {}
  /\ tokens = {}
  /\ stored = {}
  /\ asked = {}
  /\ announced = {}
  /\ rejectedAt = NULL
  /\ blenderDeadline = NULL
  /\ ordered = FALSE

-----------------------------------------------------------------------------
IsPossible(st) == state \in Subtasks!PossibleTransitionsTo[st]

ToState(st, deadline) == state' = st /\ nextDeadline' = deadline

Sizes == [source |-> SourceSize, result |-> ResultSize]

\* create_file_transfer_token_for_golem_client()
GolemClientToken(client, operation) ==
  CreateFileTransferToken(client, operation, Sizes, TokenExpiration(operation))

\* create_file_transfer_token_for_verification_use_case()
VerificationToken(timestamp) ==
  CreateFileTransferToken("provider", "upload", Sizes, VerificationTokenExpiration(timestamp))

Tick ==
  /\ now < MaxTime
  /\ now' = now + 1
  /\ UNCHANGED <<coreVars, fileVars, orderVars, pending, tokens, rejectedAt>>

-----------------------------------------------------------------------------
(* The handlers of send/.  They time a subtask out first, as receive/ does, *)
(* in a transaction of their own: the time may be up after it.              *)

\* Mutant: the core waits for the result as long as for an acceptance.
WaitLong == TransferDeadline + CMT + ResultTime

WaitForResult == TransferDeadline

ForceGetTaskResult ==
  /\ now <= ForceGetTaskResultDeadline
  /\ IsPossible("FORCING_RESULT_TRANSFER")
  /\ ToState("FORCING_RESULT_TRANSFER", WaitForResult)
  /\ pending' = pending \union {"ForceGetTaskResultUpload"}
  /\ asked' = asked \union {"result_transfer_request"}
  /\ UNCHANGED <<now, orderVars, uploaded, tokens, stored, announced, rejectedAt>>

IsVerificationOver == VerificationDeadline < now

ForceSubtaskResults ==
  /\ IsVerificationOver
  /\ now <= ForcingAcceptanceDeadline
  /\ IsPossible("FORCING_ACCEPTANCE")
  /\ ToState("FORCING_ACCEPTANCE", ForcingAcceptanceDeadline + CMT)
  /\ UNCHANGED <<now, fileVars, orderVars, pending, tokens, rejectedAt>>

ForceSubtaskResultsResponse(st) ==
  /\ state = "FORCING_ACCEPTANCE"
  /\ st \in {"ACCEPTED", "REJECTED"}
  /\ ToState(st, NULL)
  /\ rejectedAt' = IF st = "REJECTED" THEN now ELSE rejectedAt
  /\ UNCHANGED <<now, fileVars, orderVars, pending, tokens>>

\* The requestor tells the provider, without Concent.
SubtaskResultsRejected ==
  /\ rejectedAt = NULL
  /\ rejectedAt' = now
  /\ UNCHANGED <<now, coreVars, fileVars, orderVars, pending, tokens>>

VerifierDeadline(timestamp) == BlenderDeadline(timestamp)

SubtaskResultsVerify ==
  /\ rejectedAt # NULL
  /\ now <= FilesDeadline(rejectedAt)
  /\ IsPossible("VERIFICATION_FILE_TRANSFER")
  /\ ToState("VERIFICATION_FILE_TRANSFER", FilesDeadline(rejectedAt))
  /\ asked' = asked \union {"blender_verification_request"}
  /\ blenderDeadline' = VerifierDeadline(rejectedAt)
  /\ tokens' = tokens \union {VerificationToken(rejectedAt)}
  /\ UNCHANGED <<now, uploaded, pending, stored, announced, rejectedAt, ordered>>

-----------------------------------------------------------------------------
(* receive/: the states are brought up to date, and a response is handed out. *)

\* verify_file_status()
VerifyFileStatus ==
  /\ state = "FORCING_RESULT_TRANSFER"
  /\ uploaded
  /\ ToState("RESULT_UPLOADED", NULL)
  /\ pending' = pending \union {"ForceGetTaskResultDownload"}
  /\ UNCHANGED <<now, fileVars, orderVars, tokens, rejectedAt>>

TimedOutState ==
  IF state \in {"FORCING_RESULT_TRANSFER", "VERIFICATION_FILE_TRANSFER"} THEN "FAILED" ELSE "ACCEPTED"

TimeOut ==
  /\ nextDeadline # NULL
  /\ nextDeadline <= now
  /\ ToState(TimedOutState, NULL)
  /\ UNCHANGED <<now, fileVars, orderVars, pending, tokens, rejectedAt>>

UpdateSubtask(client) ==
  IF client = "requestor" /\ state = "FORCING_RESULT_TRANSFER" /\ uploaded
    THEN VerifyFileStatus
    ELSE TimeOut

HandOutUpload ==
  /\ "ForceGetTaskResultUpload" \in pending
  /\ pending' = pending \ {"ForceGetTaskResultUpload"}
  /\ tokens' = tokens \union {GolemClientToken("provider", "upload")}
  /\ UNCHANGED <<now, coreVars, fileVars, orderVars, rejectedAt>>

HandOutDownload ==
  /\ "ForceGetTaskResultDownload" \in pending
  /\ pending' = pending \ {"ForceGetTaskResultDownload"}
  /\ tokens' = tokens \union {GolemClientToken("requestor", "download")}
  /\ UNCHANGED <<now, coreVars, fileVars, orderVars, rejectedAt>>

-----------------------------------------------------------------------------
(* The storage cluster. *)

\* A client tries a token, perhaps another client's, for a file.
Upload(client, token, path) ==
  /\ token \in tokens
  /\ IsGranted(ProperRequest(client, "upload", token, path), now)
  /\ stored' = stored \union {path}
  /\ UNCHANGED <<now, coreVars, orderVars, uploaded, asked, announced, pending, tokens, rejectedAt>>

\* The task result_upload_finished(), which the conductor calls.
ResultUploadFinished ==
  /\ "result_transfer_request" \in asked
  /\ "result" \in stored
  /\ "result_upload_finished" \notin announced
  /\ announced' = announced \union {"result_upload_finished"}
  /\ uploaded' = (uploaded \/ state \notin {"REPORTED", "FORCING_REPORT"})
  /\ UNCHANGED <<now, coreVars, orderVars, stored, asked, pending, tokens, rejectedAt>>

\* The task upload_finished(), and its call of upload_acknowledged().
UploadFinished ==
  /\ "blender_verification_request" \in asked
  /\ {"source", "result"} \subseteq stored
  /\ "upload_finished" \notin announced
  /\ announced' = announced \union {"upload_finished"}
  /\ IF state = "VERIFICATION_FILE_TRANSFER"
       THEN IF nextDeadline < now
              THEN ToState("FAILED", NULL) /\ UNCHANGED ordered
              ELSE /\ ToState("ADDITIONAL_VERIFICATION", nextDeadline + ConcentVerificationTime)
                   /\ ordered' = TRUE
       ELSE UNCHANGED <<coreVars, ordered>>
  /\ UNCHANGED <<now, uploaded, stored, asked, pending, tokens, rejectedAt, blenderDeadline>>

\* Mutant: an error of the verifier is the provider's fault.
OnlyMatch(verdict) == IF verdict = "MATCH" THEN "ACCEPTED" ELSE "FAILED"

DecidedState(verdict) == IF verdict = "MISMATCH" THEN "FAILED" ELSE "ACCEPTED"

\* The task verification_result().
VerificationResult(verdict) ==
  /\ state = "ADDITIONAL_VERIFICATION"
  /\ ToState(IF nextDeadline < now THEN "ACCEPTED" ELSE DecidedState(verdict), NULL)
  /\ UNCHANGED <<now, fileVars, orderVars, pending, tokens, rejectedAt>>

-----------------------------------------------------------------------------
Verdict == {"MATCH", "MISMATCH", "ERROR"}

\* All but the verdicts.
TransferStep ==
  \/ Tick
  \/ ForceGetTaskResult
  \/ ForceSubtaskResults
  \/ \E st \in {"ACCEPTED", "REJECTED"} : ForceSubtaskResultsResponse(st)
  \/ SubtaskResultsRejected
  \/ SubtaskResultsVerify
  \/ \E client \in {"provider", "requestor"} : UpdateSubtask(client)
  \/ HandOutUpload
  \/ HandOutDownload
  \/ \E client \in Client, token \in tokens, path \in Path : Upload(client, token, path)
  \/ ResultUploadFinished
  \/ UploadFinished

TransferNext == TransferStep \/ \E verdict \in Verdict : VerificationResult(verdict)

TransferSpec == TransferInit /\ [][TransferNext]_transferVars

-----------------------------------------------------------------------------
(* Soft shutdown: what the administrator is shown (core/templatetags/admin_tags.py). *)

IsActive == state \in Subtasks!ActiveStates

HasDownload == state = "RESULT_UPLOADED" /\ DownloadDeadline >= now

\* Mutant: the deadline for the download is not looked at.
NextDeadline == nextDeadline

\* GREATEST passes over a NULL.
LongestLasting == IF nextDeadline > DownloadDeadline THEN nextDeadline ELSE DownloadDeadline

\* get_time_until_concent_can_be_shut_down()
TimeUntilShutdown ==
  IF HasDownload \/ (IsActive /\ nextDeadline >= now) THEN LongestLasting - now ELSE 0

-----------------------------------------------------------------------------
(* Properties. *)

IsInstant(t) == t \in Nat \union {NULL}

\* The types of the variables; a deadline is set in the active states only.
TransferTypeOK ==
  /\ now \in Nat
  /\ state \in Subtasks!SubtaskState \union {Subtasks!Unknown}
  /\ IsInstant(nextDeadline)
  /\ IsActive <=> nextDeadline # NULL
  /\ uploaded \in BOOLEAN
  /\ pending \subseteq {"ForceGetTaskResultUpload", "ForceGetTaskResultDownload"}
  /\ tokens \subseteq Token
  /\ stored \subseteq Path
  /\ asked \subseteq {"result_transfer_request", "blender_verification_request"}
  /\ announced \subseteq {"result_upload_finished", "upload_finished"}
  /\ IsInstant(rejectedAt)
  /\ IsInstant(blenderDeadline)
  /\ ordered \in BOOLEAN

Opens(token, client, operation, path) ==
  IsGranted(ProperRequest(client, operation, token, path), now)

\* As long as the core waits for files, the gatekeeper lets the provider upload them with
\* a token that the core has given it: the core computes its deadline in message_handlers.py
\* and the token's in transfer_operations.py.
UploadIsNotRefused ==
  /\ state \in {"FORCING_RESULT_TRANSFER", "VERIFICATION_FILE_TRANSFER"}
  /\ now <= nextDeadline
  /\ state = "FORCING_RESULT_TRANSFER" => "ForceGetTaskResultUpload" \notin pending
  => \A path \in {"source", "result"} :
       \E token \in tokens : Opens(token, "provider", "upload", path)

\* A requestor that asks before the deadline of the transfer gets a token that leaves it
\* the time for a message and for the download.
DownloadHasTime ==
  [][\A token \in tokens' \ tokens :
       token.operation = "download" /\ now <= TransferDeadline
         => now + CMT + ResultTime <= token.expires]_transferVars

\* While acceptance is being forced the requestor cannot download through Concent any more:
\* the provider cannot ask for it before (handle_send_force_subtask_results()).
AcceptanceFollowsDownload ==
  state = "FORCING_ACCEPTANCE" =>
    \A token \in tokens, path \in Path : ~Opens(token, "requestor", "download", path)

\* The verifier works until the deadline of the core, no longer: one is computed when the
\* provider asks for the verification, the other when the files are there.
VerifierAndCoreAgree == state = "ADDITIONAL_VERIFICATION" => nextDeadline = blenderDeadline

\* The time that an administrator is told to wait covers every download that the requestor
\* may still make, if it does not reject the result.
ShutdownWaitsForDownloads ==
  rejectedAt = NULL =>
    \A token \in tokens, path \in Path :
      Opens(token, "requestor", "download", path) => token.expires <= now + TimeUntilShutdown
=============================================================================
