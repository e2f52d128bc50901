-------------------------- MODULE Verifier_proofs --------------------------
(***************************************************************************)
(* The files of one subtask and the order to verify them, for all times,   *)
(* rates and sizes that the system checks accept, any number of frames and *)
(* any files that may be uploaded or left behind.                          *)
(*                                                                         *)
(* UploadIsNotRefused needs that the token is there which has the deadline *)
(* of the state (DeadlinesInv); ShutdownWaitsForDownloads that a download  *)
(* is offered in RESULT_UPLOADED only, as long as it is possible           *)
(* (DownloadInv); what a verdict means needs to be known of each file from *)
(* the moment it is unpacked (ArchiveInv, FileInv).                        *)
(***************************************************************************)
EXTENDS Verifier, TLAPS, FiniteSetTheorems, WellFoundedInduction

-----------------------------------------------------------------------------
(* Times. *)

LEMMA NullIs == NULL = -1
BY DEF NULL, Subtasks!NULL

LEMMA QuotientIsNatural == \A a \in Nat, b \in Nat \ {0} : a \div b \in Nat
BY SMT

LEMMA ResultTimeType == ResultTime \in Nat \ {0}
<1> DEFINE rate == UploadRate * 1024
<1>1. rate \in Nat \ {0}
  BY TimesAssumption DEF CheckMinimumUploadRate
<1>2. ResultSize + rate - 1 \in Nat
  BY <1>1, TimesAssumption
<1> HIDE DEF rate
<1>3. (ResultSize + rate - 1) \div rate \in Nat
  BY <1>1, <1>2, QuotientIsNatural
<1>4. ResultTime = LeadIn + ((ResultSize + rate - 1) \div rate)
  BY DEF ResultTime, MaximumDownloadTime, rate
<1> QED
  BY <1>3, <1>4, TimesAssumption DEF CheckDownloadLeadinTime

LEMMA Computing == ComputationDeadline - Timestamp \in Nat
BY TimesAssumption

LEMMA ConcentTimeType == ConcentVerificationTime \in Nat
<1> DEFINE work == (ComputationDeadline - Timestamp) * Multiplier
<1>1. work \in Nat
  BY Computing, TimesAssumption DEF CheckAdditionalVerificationTimeMultiplier
<1> HIDE DEF work
<1>2. work \div Threads \in Nat
  BY <1>1, QuotientIsNatural, TimesAssumption
<1> QED
  BY <1>2 DEF ConcentVerificationTime, work

\* How the instants that the core waits for and the expirations of its tokens are related.
LEMMA Instants ==
  /\ CMT \in Nat /\ FAT \in Nat /\ AVCT \in Nat
  /\ TransferDeadline \in Nat /\ VerificationDeadline \in Nat
  /\ ForcingAcceptanceDeadline \in Nat
  /\ TokenExpiration("upload") = TransferDeadline
  /\ TokenExpiration("download") = VerificationDeadline
  /\ DownloadDeadline = VerificationDeadline
  /\ TransferDeadline + CMT + ResultTime <= VerificationDeadline
<1>1. /\ CMT \in Nat /\ FAT \in Nat /\ AVCT \in Nat /\ ComputationDeadline \in Nat
  BY TimesAssumption DEF CheckConcentsTimeSettings, CheckAdditionalVerificationCallTime
<1>2. (ComputationDeadline - Timestamp) \div 2 \in Nat
  BY Computing, QuotientIsNatural
<1> HIDE DEF ResultTime
<1> QED
  BY <1>1, <1>2, ResultTimeType
  DEF TransferDeadline, VerificationDeadline, ForcingAcceptanceDeadline, TokenExpiration,
      DownloadDeadline, SubtaskVerificationTime

LEMMA FilesInstants ==
  ASSUME NEW t \in Nat
  PROVE  /\ FilesDeadline(t) \in Nat
         /\ VerificationTokenExpiration(t) = FilesDeadline(t)
         /\ BlenderDeadline(t) = FilesDeadline(t) + ConcentVerificationTime
         /\ BlenderDeadline(t) \in Nat
BY Instants, ResultTimeType, ConcentTimeType
DEF FilesDeadline, VerificationTokenExpiration, BlenderDeadline

-----------------------------------------------------------------------------
(* Tokens and what they open. *)

LEMMA TokenType ==
  ASSUME NEW client \in Client, NEW operation \in Operation, NEW expires \in Int
  PROVE  CreateFileTransferToken(client, operation, Sizes, expires) \in Token
<1>1. \A path \in DOMAIN Sizes : CreateFileInfo(path, Sizes[path]) \in FileInfo
  BY TimesAssumption DEF Sizes, CreateFileInfo, FileInfo, Path, Category
<1>2. {CreateFileInfo(path, Sizes[path]) : path \in {p \in DOMAIN Sizes : Sizes[p] > 0}}
        \subseteq FileInfo
  BY <1>1
<1> QED
  BY <1>2 DEF CreateFileTransferToken, Token

LEMMA TokenFields ==
  ASSUME NEW client, NEW operation, NEW expires
  PROVE  /\ CreateFileTransferToken(client, operation, Sizes, expires).client = client
         /\ CreateFileTransferToken(client, operation, Sizes, expires).operation = operation
         /\ CreateFileTransferToken(client, operation, Sizes, expires).expires = expires
BY DEF CreateFileTransferToken

\* A token that the core makes is valid and holds each file once.
LEMMA TokenFiles ==
  ASSUME NEW client \in Client, NEW operation \in Operation, NEW expires \in Int,
         NEW path \in Path
  PROVE  LET token == CreateFileTransferToken(client, operation, Sizes, expires) IN
         /\ token.client = client /\ token.operation = operation /\ token.expires = expires
         /\ ValidateFileTransferToken(token)
         /\ Cardinality({file \in token.files : file.path = path}) = 1
<1> DEFINE token == CreateFileTransferToken(client, operation, Sizes, expires)
           source == CreateFileInfo("source", SourceSize)
           result == CreateFileInfo("result", ResultSize)
<1>1. {p \in DOMAIN Sizes : Sizes[p] > 0} = {"source", "result"}
  BY TimesAssumption DEF Sizes
<1>2. token.files = {source, result}
  BY <1>1 DEF CreateFileTransferToken, Sizes
<1>3. /\ source.path = "source" /\ source.category = "resources" /\ source.size = SourceSize
      /\ result.path = "result" /\ result.category = "results" /\ result.size = ResultSize
  BY DEF CreateFileInfo, Category
<1>4. token.client = client /\ token.operation = operation /\ token.expires = expires
  BY DEF CreateFileTransferToken
<1> HIDE DEF token, source, result
<1>5. ValidateFileTransferToken(token)
  BY <1>2, <1>3, TimesAssumption DEF ValidateFileTransferToken
<1>6. {file \in token.files : file.path = path} = {IF path = "source" THEN source ELSE result}
  BY <1>2, <1>3 DEF Path
<1>7. Cardinality({file \in token.files : file.path = path}) = 1
  BY <1>6, FS_Singleton
<1> QED
  BY <1>4, <1>5, <1>7 DEF token

LEMMA TokenOpens ==
  ASSUME NEW client \in Client, NEW operation \in Operation, NEW expires \in Int,
         NEW path \in Path, now <= expires
  PROVE  Opens(CreateFileTransferToken(client, operation, Sizes, expires),
               client, operation, path)
<1> DEFINE token == CreateFileTransferToken(client, operation, Sizes, expires)
<1>1. /\ token.client = client /\ token.operation = operation /\ token.expires = expires
      /\ ValidateFileTransferToken(token)
      /\ Cardinality({file \in token.files : file.path = path}) = 1
  BY TokenFiles
<1> HIDE DEF token
<1> DEFINE request == ProperRequest(client, operation, token, path)
<1>2. /\ request.view = operation /\ request.token = token /\ request.path = path
      /\ request.method = IF operation = "upload" THEN "POST" ELSE "GET"
      /\ request.header = Proper(client, operation)
  BY DEF ProperRequest
<1>3. /\ request.header.supported /\ request.header.authorization = "Golem"
      /\ request.header.content = IF operation = "upload" THEN "octets" ELSE "none"
      /\ request.header.signed = client
  BY <1>2 DEF Proper
<1> HIDE DEF request
<1>4. request.method \in Methods(operation)
  BY <1>2 DEF Methods
<1>5. IsViewable(request)
  BY <1>2, <1>3, <1>4 DEF IsViewable
<1>6. ParseHeaders(request, now)
  BY <1>1, <1>2, <1>3, <1>4 DEF ParseHeaders, FitsClient, IsUnexpired, FitsOperation
<1> QED
  BY <1>5, <1>6 DEF Opens, IsGranted, request, token

\* What opens a download is an unexpired token of that client for a download.
LEMMA OpensDownload ==
  ASSUME NEW token, NEW client \in Client, NEW path, token.operation \in Operation,
         Opens(token, client, "download", path)
  PROVE  token.client = client /\ token.operation = "download" /\ now <= token.expires
<1> DEFINE request == ProperRequest(client, "download", token, path)
<1>1. /\ request.token = token /\ request.method = "GET"
      /\ request.header = Proper(client, "download")
  BY DEF ProperRequest
<1>2. request.header.signed = client
  BY <1>1 DEF Proper
<1> HIDE DEF request
<1>3. FitsClient(request) /\ IsUnexpired(request.token, now) /\ FitsOperation(request)
  BY DEF Opens, IsGranted, ParseHeaders, request
<1> QED
  BY <1>1, <1>2, <1>3 DEF FitsClient, IsUnexpired, FitsOperation, Methods, Operation

-----------------------------------------------------------------------------
(* The invariant of the transfer. *)

UploadToken == GolemClientToken("provider", "upload")
DownloadToken == GolemClientToken("requestor", "download")

\* The deadline of a state, and what the core has handed out when it waits for files.
DeadlinesInv ==
  /\ state = "FORCING_RESULT_TRANSFER" =>
       /\ nextDeadline = TransferDeadline
       /\ "ForceGetTaskResultUpload" \in pending \/ UploadToken \in tokens
  /\ state = "VERIFICATION_FILE_TRANSFER" =>
       /\ rejectedAt \in Nat
       /\ nextDeadline = FilesDeadline(rejectedAt)
       /\ blenderDeadline = BlenderDeadline(rejectedAt)
       /\ VerificationToken(rejectedAt) \in tokens
  /\ state = "FORCING_ACCEPTANCE" => VerificationDeadline < now

TokensInv ==
  \A token \in tokens :
    token \in {UploadToken, DownloadToken} \/ \E t \in Nat : token = VerificationToken(t)

\* A download is offered in RESULT_UPLOADED, which is left when the time for it is over, or
\* because the requestor has rejected the result.
DownloadInv ==
  "ForceGetTaskResultDownload" \in pending \/ DownloadToken \in tokens =>
    \/ state = "RESULT_UPLOADED"
    \/ VerificationDeadline < now
    \/ rejectedAt # NULL

TransferInv ==
  /\ TransferTypeOK
  /\ DeadlinesInv
  /\ TokensInv
  /\ DownloadInv
  /\ VerifierAndCoreAgree

-----------------------------------------------------------------------------
(* Tokens and states. *)

LEMMA Tokens ==
  /\ UploadToken \in Token /\ UploadToken.client = "provider" /\ UploadToken.operation = "upload"
  /\ UploadToken.expires = TransferDeadline
  /\ DownloadToken \in Token /\ DownloadToken.client = "requestor"
  /\ DownloadToken.operation = "download"
  /\ DownloadToken.expires = VerificationDeadline
<1>1. /\ "provider" \in Client /\ "requestor" \in Client
      /\ "upload" \in Operation /\ "download" \in Operation
  BY DEF Client, Operation
<1>2. /\ TokenExpiration("upload") = TransferDeadline /\ TransferDeadline \in Int
      /\ TokenExpiration("download") = VerificationDeadline /\ VerificationDeadline \in Int
  BY Instants
<1>3. /\ UploadToken = CreateFileTransferToken("provider", "upload", Sizes, TransferDeadline)
      /\ DownloadToken
           = CreateFileTransferToken("requestor", "download", Sizes, VerificationDeadline)
  BY <1>2 DEF UploadToken, DownloadToken, GolemClientToken
<1> QED
  BY <1>1, <1>2, <1>3, TokenType, TokenFields

LEMMA VerificationTokens ==
  ASSUME NEW t \in Nat
  PROVE  /\ VerificationToken(t) \in Token
         /\ VerificationToken(t).client = "provider"
         /\ VerificationToken(t).operation = "upload"
         /\ VerificationToken(t)
              = CreateFileTransferToken("provider", "upload", Sizes, FilesDeadline(t))
<1>1. "provider" \in Client /\ "upload" \in Operation
  BY DEF Client, Operation
<1>2. /\ VerificationToken(t)
           = CreateFileTransferToken("provider", "upload", Sizes, FilesDeadline(t))
      /\ FilesDeadline(t) \in Int
  BY FilesInstants DEF VerificationToken
<1> QED
  BY <1>1, <1>2, TokenType, TokenFields

LEMMA DownloadTokens ==
  ASSUME TokensInv, NEW token \in tokens, token.operation = "download"
  PROVE  token = DownloadToken
BY Tokens, VerificationTokens DEF TokensInv

LEMMA States ==
  /\ "FORCING_RESULT_TRANSFER" \in Subtasks!ActiveStates
  /\ "FORCING_ACCEPTANCE" \in Subtasks!ActiveStates
  /\ "VERIFICATION_FILE_TRANSFER" \in Subtasks!ActiveStates
  /\ "ADDITIONAL_VERIFICATION" \in Subtasks!ActiveStates
  /\ \A st \in {"REPORTED", "RESULT_UPLOADED", "ACCEPTED", "REJECTED", "FAILED"} :
       st \in Subtasks!SubtaskState /\ st \notin Subtasks!ActiveStates
  /\ Subtasks!ActiveStates \subseteq Subtasks!SubtaskState
  /\ Subtasks!Unknown \notin Subtasks!SubtaskState
  /\ Subtasks!Unknown = "UNKNOWN"
BY DEF Subtasks!ActiveStates, Subtasks!PassiveStates, Subtasks!SubtaskState, Subtasks!Unknown

LEMMA Transitions ==
  /\ Subtasks!PossibleTransitionsTo["FORCING_RESULT_TRANSFER"] = {"UNKNOWN", "REPORTED"}
  /\ Subtasks!PossibleTransitionsTo["FORCING_ACCEPTANCE"]
       = {"UNKNOWN", "REPORTED", "RESULT_UPLOADED"}
  /\ Subtasks!PossibleTransitionsTo["VERIFICATION_FILE_TRANSFER"]
       = {"UNKNOWN", "REPORTED", "RESULT_UPLOADED", "FORCING_ACCEPTANCE", "REJECTED"}
<1>1. /\ "FORCING_RESULT_TRANSFER" \in Subtasks!SubtaskState
      /\ "FORCING_ACCEPTANCE" \in Subtasks!SubtaskState
      /\ "VERIFICATION_FILE_TRANSFER" \in Subtasks!SubtaskState
  BY States
<1> QED
  BY <1>1, States DEF Subtasks!PossibleTransitionsTo

LEMMA TransferInitial == TransferInit => TransferInv
<1> SUFFICES ASSUME TransferInit PROVE TransferInv
  OBVIOUS
<1>1. state \in {"UNKNOWN", "REPORTED"} /\ nextDeadline = -1 /\ pending = {} /\ tokens = {}
  BY States, NullIs DEF TransferInit
<1>2. TransferTypeOK
  BY <1>1, States, NullIs DEF TransferInit, TransferTypeOK, IsActive, IsInstant
<1>3. DeadlinesInv /\ TokensInv /\ DownloadInv /\ VerifierAndCoreAgree
  BY <1>1 DEF DeadlinesInv, TokensInv, DownloadInv, VerifierAndCoreAgree
<1> QED
  BY <1>2, <1>3 DEF TransferInv

-----------------------------------------------------------------------------
(* Each step keeps the invariant. *)

\* The conjuncts that speak of the subtask follow if it stays as it is, and tokens and
\* responses only come.
LEMMA TickKeeps == TransferInv /\ Tick => TransferInv'
<1> SUFFICES ASSUME TransferInv, Tick PROVE TransferInv'
  OBVIOUS
<1> USE DEF Tick, coreVars, fileVars, orderVars, TransferInv
<1>1. TransferTypeOK' /\ now < now'
  BY DEF TransferTypeOK, IsActive, IsInstant
<1>2. DeadlinesInv' /\ DownloadInv'
  BY <1>1, Instants DEF TransferTypeOK, DeadlinesInv, DownloadInv
<1>3. TokensInv' /\ VerifierAndCoreAgree'
  BY DEF TokensInv, VerifierAndCoreAgree
<1> QED
  BY <1>1, <1>2, <1>3

LEMMA ForceGetTaskResultKeeps == TransferInv /\ ForceGetTaskResult => TransferInv'
<1> SUFFICES ASSUME TransferInv, ForceGetTaskResult PROVE TransferInv'
  OBVIOUS
<1> USE DEF ForceGetTaskResult, orderVars, TransferInv, ToState, WaitForResult
<1>1. state \in {"UNKNOWN", "REPORTED"}
  BY Transitions DEF IsPossible
<1>2. TransferTypeOK'
  BY Instants, States, NullIs DEF TransferTypeOK, IsActive, IsInstant
<1>3. DeadlinesInv' /\ TokensInv' /\ DownloadInv' /\ VerifierAndCoreAgree'
  BY <1>1 DEF DeadlinesInv, TokensInv, DownloadInv, VerifierAndCoreAgree
<1> QED
  BY <1>2, <1>3

LEMMA ForceSubtaskResultsKeeps == TransferInv /\ ForceSubtaskResults => TransferInv'
<1> SUFFICES ASSUME TransferInv, ForceSubtaskResults PROVE TransferInv'
  OBVIOUS
<1> USE DEF ForceSubtaskResults, fileVars, orderVars, TransferInv, ToState
<1>1. ForcingAcceptanceDeadline + CMT \in Nat
  BY Instants
<1>2. TransferTypeOK'
  BY <1>1, States, NullIs DEF TransferTypeOK, IsActive, IsInstant
<1>3. DeadlinesInv' /\ TokensInv' /\ DownloadInv' /\ VerifierAndCoreAgree'
  BY DEF DeadlinesInv, TokensInv, DownloadInv, VerifierAndCoreAgree, IsVerificationOver
<1> QED
  BY <1>2, <1>3

LEMMA ResponseKeeps ==
  ASSUME TransferInv, NEW st \in {"ACCEPTED", "REJECTED"}, ForceSubtaskResultsResponse(st)
  PROVE  TransferInv'
<1> USE DEF ForceSubtaskResultsResponse, fileVars, orderVars, TransferInv, ToState
<1>1. TransferTypeOK'
  BY States, NullIs DEF TransferTypeOK, IsActive, IsInstant
<1>2. DeadlinesInv' /\ TokensInv' /\ DownloadInv' /\ VerifierAndCoreAgree'
  BY DEF DeadlinesInv, TokensInv, DownloadInv, VerifierAndCoreAgree
<1> QED
  BY <1>1, <1>2

LEMMA RejectedKeeps == TransferInv /\ SubtaskResultsRejected => TransferInv'
<1> SUFFICES ASSUME TransferInv, SubtaskResultsRejected PROVE TransferInv'
  OBVIOUS
<1> USE DEF SubtaskResultsRejected, coreVars, fileVars, orderVars, TransferInv
<1>1. TransferTypeOK'
  BY DEF TransferTypeOK, IsActive, IsInstant
<1>2. DeadlinesInv' /\ TokensInv' /\ DownloadInv' /\ VerifierAndCoreAgree'
  BY NullIs
  DEF DeadlinesInv, TokensInv, DownloadInv, VerifierAndCoreAgree, TransferTypeOK, IsInstant
<1> QED
  BY <1>1, <1>2

LEMMA VerifyKeeps == TransferInv /\ SubtaskResultsVerify => TransferInv'
<1> SUFFICES ASSUME TransferInv, SubtaskResultsVerify PROVE TransferInv'
  OBVIOUS
<1> USE DEF SubtaskResultsVerify, TransferInv, ToState, VerifierDeadline
<1>1. rejectedAt \in Nat
  BY DEF TransferTypeOK, IsInstant
<1>2. /\ FilesDeadline(rejectedAt) \in Nat /\ BlenderDeadline(rejectedAt) \in Nat
      /\ VerificationToken(rejectedAt) \in Token
  BY <1>1, FilesInstants, VerificationTokens
<1>3. TransferTypeOK'
  BY <1>1, <1>2, States, NullIs DEF TransferTypeOK, IsActive, IsInstant
<1>4. TokensInv'
  <2>1. UploadToken' = UploadToken /\ DownloadToken' = DownloadToken
    BY DEF UploadToken, DownloadToken, GolemClientToken
  <2> QED
    BY <1>1, <2>1 DEF TokensInv
<1>5. DownloadInv'
  BY <1>1, NullIs DEF DownloadInv
<1>6. DeadlinesInv' /\ VerifierAndCoreAgree'
  BY <1>1 DEF DeadlinesInv, VerifierAndCoreAgree
<1> QED
  BY <1>3, <1>4, <1>5, <1>6

LEMMA VerifyFileStatusKeeps == TransferInv /\ VerifyFileStatus => TransferInv'
<1> SUFFICES ASSUME TransferInv, VerifyFileStatus PROVE TransferInv'
  OBVIOUS
<1> USE DEF VerifyFileStatus, fileVars, orderVars, TransferInv, ToState
<1>1. TransferTypeOK'
  BY States, NullIs DEF TransferTypeOK, IsActive, IsInstant
<1>2. DeadlinesInv' /\ TokensInv' /\ DownloadInv' /\ VerifierAndCoreAgree'
  BY DEF DeadlinesInv, TokensInv, DownloadInv, VerifierAndCoreAgree
<1> QED
  BY <1>1, <1>2

LEMMA TimeOutKeeps == TransferInv /\ TimeOut => TransferInv'
<1> SUFFICES ASSUME TransferInv, TimeOut PROVE TransferInv'
  OBVIOUS
<1> USE DEF TimeOut, fileVars, orderVars, TransferInv, ToState, TimedOutState
<1>1. state # "RESULT_UPLOADED"
  BY States DEF TransferTypeOK, IsActive
<1>2. TransferTypeOK'
  BY States, NullIs DEF TransferTypeOK, IsActive, IsInstant
<1>3. DeadlinesInv' /\ TokensInv' /\ DownloadInv' /\ VerifierAndCoreAgree'
  BY <1>1 DEF DeadlinesInv, TokensInv, DownloadInv, VerifierAndCoreAgree
<1> QED
  BY <1>2, <1>3

LEMMA HandOutUploadKeeps == TransferInv /\ HandOutUpload => TransferInv'
<1> SUFFICES ASSUME TransferInv, HandOutUpload PROVE TransferInv'
  OBVIOUS
<1> USE DEF HandOutUpload, coreVars, fileVars, orderVars, TransferInv
<1>1. tokens' = tokens \union {UploadToken} /\ UploadToken # DownloadToken
  BY Tokens DEF UploadToken
<1>2. TransferTypeOK'
  BY <1>1, Tokens DEF TransferTypeOK, IsActive, IsInstant
<1>3. DeadlinesInv' /\ DownloadInv' /\ VerifierAndCoreAgree'
  BY <1>1 DEF DeadlinesInv, DownloadInv, VerifierAndCoreAgree
<1>4. TokensInv'
  BY <1>1 DEF TokensInv
<1> QED
  BY <1>2, <1>3, <1>4

LEMMA HandOutDownloadKeeps == TransferInv /\ HandOutDownload => TransferInv'
<1> SUFFICES ASSUME TransferInv, HandOutDownload PROVE TransferInv'
  OBVIOUS
<1> USE DEF HandOutDownload, coreVars, fileVars, orderVars, TransferInv
<1>1. tokens' = tokens \union {DownloadToken}
  BY DEF DownloadToken
<1>2. TransferTypeOK'
  BY <1>1, Tokens DEF TransferTypeOK, IsActive, IsInstant
<1>3. DeadlinesInv' /\ DownloadInv' /\ VerifierAndCoreAgree'
  BY <1>1 DEF DeadlinesInv, DownloadInv, VerifierAndCoreAgree
<1>4. TokensInv'
  BY <1>1 DEF TokensInv
<1> QED
  BY <1>2, <1>3, <1>4

LEMMA UploadKeeps ==
  ASSUME TransferInv, NEW client, NEW token, NEW path \in Path, Upload(client, token, path)
  PROVE  TransferInv'
<1> USE DEF Upload, coreVars, orderVars, TransferInv
<1>1. TransferTypeOK'
  BY DEF TransferTypeOK, IsActive, IsInstant
<1>2. DeadlinesInv' /\ DownloadInv' /\ VerifierAndCoreAgree' /\ TokensInv'
  BY DEF DeadlinesInv, DownloadInv, VerifierAndCoreAgree, TokensInv
<1> QED
  BY <1>1, <1>2

LEMMA ResultUploadFinishedKeeps == TransferInv /\ ResultUploadFinished => TransferInv'
<1> SUFFICES ASSUME TransferInv, ResultUploadFinished PROVE TransferInv'
  OBVIOUS
<1> USE DEF ResultUploadFinished, coreVars, orderVars, TransferInv
<1>1. uploaded' \in BOOLEAN
  OBVIOUS
<1>2. TransferTypeOK'
  BY <1>1 DEF TransferTypeOK, IsActive, IsInstant
<1>3. DeadlinesInv' /\ DownloadInv' /\ VerifierAndCoreAgree' /\ TokensInv'
  BY DEF DeadlinesInv, DownloadInv, VerifierAndCoreAgree, TokensInv
<1> QED
  BY <1>2, <1>3

\* Once the files are there the core waits as long as the verifier was told when they were not.
LEMMA UploadFinishedKeeps == TransferInv /\ UploadFinished => TransferInv'
<1> SUFFICES ASSUME TransferInv, UploadFinished PROVE TransferInv'
  OBVIOUS
<1> USE DEF UploadFinished, coreVars, TransferInv, ToState
<1>1. CASE state # "VERIFICATION_FILE_TRANSFER"
  <2>1. TransferTypeOK'
    BY <1>1 DEF TransferTypeOK, IsActive, IsInstant
  <2>2. DeadlinesInv' /\ DownloadInv' /\ VerifierAndCoreAgree' /\ TokensInv'
    BY <1>1 DEF DeadlinesInv, DownloadInv, VerifierAndCoreAgree, TokensInv
  <2> QED
    BY <2>1, <2>2
<1>2. CASE state = "VERIFICATION_FILE_TRANSFER" /\ nextDeadline < now
  <2>1. TransferTypeOK'
    BY <1>2, States, NullIs DEF TransferTypeOK, IsActive, IsInstant
  <2>2. DeadlinesInv' /\ DownloadInv' /\ VerifierAndCoreAgree' /\ TokensInv'
    BY <1>2 DEF DeadlinesInv, DownloadInv, VerifierAndCoreAgree, TokensInv
  <2> QED
    BY <2>1, <2>2
<1>3. CASE state = "VERIFICATION_FILE_TRANSFER" /\ ~(nextDeadline < now)
  <2>1. /\ state' = "ADDITIONAL_VERIFICATION"
        /\ nextDeadline' = nextDeadline + ConcentVerificationTime
        /\ ordered' = TRUE
    BY <1>3
  <2>2. rejectedAt \in Nat /\ nextDeadline = FilesDeadline(rejectedAt)
        /\ blenderDeadline = BlenderDeadline(rejectedAt)
    BY <1>3 DEF DeadlinesInv
  <2>3. nextDeadline' = blenderDeadline /\ blenderDeadline \in Nat
    BY <2>1, <2>2, FilesInstants
  <2>4. TransferTypeOK'
    BY <2>1, <2>3, States, NullIs DEF TransferTypeOK, IsActive, IsInstant
  <2>5. DeadlinesInv' /\ DownloadInv' /\ VerifierAndCoreAgree' /\ TokensInv'
    BY <2>1, <2>3, <1>3 DEF DeadlinesInv, DownloadInv, VerifierAndCoreAgree, TokensInv
  <2> QED
    BY <2>4, <2>5
<1> QED
  BY <1>1, <1>2, <1>3

LEMMA ResultKeeps ==
  ASSUME TransferInv, NEW v, VerificationResult(v)
  PROVE  TransferInv'
<1> USE DEF VerificationResult, fileVars, orderVars, TransferInv, ToState, DecidedState
<1>1. state' \in {"ACCEPTED", "FAILED"}
  OBVIOUS
<1>2. TransferTypeOK'
  BY <1>1, States, NullIs DEF TransferTypeOK, IsActive, IsInstant
<1>3. DeadlinesInv' /\ TokensInv' /\ DownloadInv' /\ VerifierAndCoreAgree'
  BY <1>1 DEF DeadlinesInv, TokensInv, DownloadInv, VerifierAndCoreAgree
<1> QED
  BY <1>2, <1>3

LEMMA TransferKeeps == TransferInv /\ [TransferNext]_transferVars => TransferInv'
<1> SUFFICES ASSUME TransferInv, [TransferNext]_transferVars PROVE TransferInv'
  OBVIOUS
<1>1. CASE TransferStep
  <2>1. CASE \E st \in {"ACCEPTED", "REJECTED"} : ForceSubtaskResultsResponse(st)
    BY <2>1, ResponseKeeps
  <2>2. CASE \E client \in {"provider", "requestor"} : UpdateSubtask(client)
    BY <2>2, VerifyFileStatusKeeps, TimeOutKeeps DEF UpdateSubtask
  <2>3. CASE \E client \in Client, token \in tokens, path \in Path : Upload(client, token, path)
    BY <2>3, UploadKeeps
  <2> QED
    BY <1>1, <2>1, <2>2, <2>3, TickKeeps, ForceGetTaskResultKeeps, ForceSubtaskResultsKeeps,
       RejectedKeeps, VerifyKeeps, HandOutUploadKeeps, HandOutDownloadKeeps,
       ResultUploadFinishedKeeps, UploadFinishedKeeps DEF TransferStep
<1>2. CASE \E v \in Verdict : VerificationResult(v)
  BY <1>2, ResultKeeps
<1>3. CASE UNCHANGED transferVars
  BY <1>3
  DEF transferVars, TransferInv, TransferTypeOK, DeadlinesInv, TokensInv, DownloadInv,
      VerifierAndCoreAgree, IsActive, IsInstant
<1> QED
  BY <1>1, <1>2, <1>3 DEF TransferNext

-----------------------------------------------------------------------------
(* What the invariant means for the properties. *)

LEMMA UploadIsOpen == TransferInv => UploadIsNotRefused
<1> SUFFICES ASSUME TransferInv,
                    state \in {"FORCING_RESULT_TRANSFER", "VERIFICATION_FILE_TRANSFER"},
                    now <= nextDeadline,
                    state = "FORCING_RESULT_TRANSFER" => "ForceGetTaskResultUpload" \notin pending,
                    NEW path \in {"source", "result"}
             PROVE  \E token \in tokens : Opens(token, "provider", "upload", path)
  BY DEF UploadIsNotRefused
<1>1. path \in Path /\ "provider" \in Client /\ "upload" \in Operation
  BY DEF Path, Client, Operation
<1>2. CASE state = "FORCING_RESULT_TRANSFER"
  <2>1. UploadToken \in tokens /\ now <= TransferDeadline
    BY <1>2 DEF TransferInv, DeadlinesInv
  <2>2. UploadToken = CreateFileTransferToken("provider", "upload", Sizes, TransferDeadline)
    BY Instants DEF UploadToken, GolemClientToken
  <2> QED
    BY <1>1, <2>1, <2>2, TokenOpens, Instants
<1>3. CASE state = "VERIFICATION_FILE_TRANSFER"
  <2>1. /\ rejectedAt \in Nat /\ now <= FilesDeadline(rejectedAt)
        /\ VerificationToken(rejectedAt) \in tokens
    BY <1>3 DEF TransferInv, DeadlinesInv
  <2> QED
    BY <1>1, <2>1, VerificationTokens, TokenOpens, FilesInstants
<1> QED
  BY <1>2, <1>3

\* What a requestor may still download with was made for the deadline of the verification.
LEMMA RequestorDownloads ==
  ASSUME TransferInv, NEW token \in tokens, NEW path, Opens(token, "requestor", "download", path)
  PROVE  /\ token = DownloadToken
         /\ token.expires = VerificationDeadline /\ now <= VerificationDeadline
<1>1. token.operation \in Operation /\ "requestor" \in Client
  BY DEF TransferInv, TransferTypeOK, Token, Client
<1>2. token.operation = "download" /\ now <= token.expires
  BY <1>1, OpensDownload
<1> QED
  BY <1>2, DownloadTokens, Tokens DEF TransferInv

LEMMA AcceptanceIsLater == TransferInv => AcceptanceFollowsDownload
<1> SUFFICES ASSUME TransferInv, state = "FORCING_ACCEPTANCE", NEW token \in tokens,
                    NEW path \in Path, Opens(token, "requestor", "download", path)
             PROVE  FALSE
  BY DEF AcceptanceFollowsDownload
<1>1. VerificationDeadline < now /\ now <= VerificationDeadline /\ now \in Nat
  BY RequestorDownloads DEF TransferInv, DeadlinesInv, TransferTypeOK
<1> QED
  BY <1>1, Instants

LEMMA ShutdownWaits == TransferInv => ShutdownWaitsForDownloads
<1> SUFFICES ASSUME TransferInv, rejectedAt = NULL, NEW token \in tokens,
                    NEW path \in Path, Opens(token, "requestor", "download", path)
             PROVE  token.expires <= now + TimeUntilShutdown
  BY DEF ShutdownWaitsForDownloads
<1>1. /\ token = DownloadToken /\ token.expires = VerificationDeadline
      /\ now <= VerificationDeadline
  BY RequestorDownloads
<1>2. now \in Nat /\ IsInstant(nextDeadline) /\ VerificationDeadline \in Nat
      /\ DownloadDeadline = VerificationDeadline
  BY Instants DEF TransferInv, TransferTypeOK
<1>3. state = "RESULT_UPLOADED"
  BY <1>1, <1>2 DEF TransferInv, DownloadInv
<1>4. HasDownload
  BY <1>1, <1>2, <1>3 DEF HasDownload
<1>5. LongestLasting \in Int /\ VerificationDeadline <= LongestLasting
  BY <1>2, NullIs DEF LongestLasting, IsInstant
<1>6. TimeUntilShutdown = LongestLasting - now
  BY <1>4 DEF TimeUntilShutdown
<1> QED
  BY <1>1, <1>2, <1>5, <1>6

LEMMA NewDownloadHasTime ==
  ASSUME TransferInv, [TransferNext]_transferVars, NEW token \in tokens' \ tokens,
         token.operation = "download", now <= TransferDeadline
  PROVE  now + CMT + ResultTime <= token.expires
<1>1. TransferInv'
  BY TransferKeeps
<1>2. /\ UploadToken' = UploadToken /\ DownloadToken' = DownloadToken
      /\ \A t \in Nat : VerificationToken(t)' = VerificationToken(t)
  BY DEF UploadToken, DownloadToken, GolemClientToken, VerificationToken
<1>3. token = DownloadToken
  BY <1>1, <1>2, Tokens, VerificationTokens DEF TransferInv, TokensInv
<1>4. token.expires = VerificationDeadline /\ now \in Nat
  BY <1>3, Tokens DEF TransferInv, TransferTypeOK
<1> QED
  BY <1>4, Instants, ResultTimeType

-----------------------------------------------------------------------------
(* The invariant of the verifier. *)

Unpacked == {"frames", "render", "delete", "upload", "compare"}
Validated == {"unpack"} \union Unpacked

\* How many frames are rendered, or uploaded, at a stage.
FrameInv ==
  /\ stage \in {"idle", "download source", "download result", "validate", "unpack", "frames",
                "done", "lost"} => frame = 0
  /\ stage \in {"render", "upload"} => frame < FrameCount
  /\ stage \in {"delete", "compare"} => frame = FrameCount

\* What is known of the archives and of the names in them.
ArchiveInv ==
  /\ stage \in {"download result", "validate", "unpack", "frames", "render"} =>
       SourceArchive \in {"page", delivery.source}
  /\ stage \in {"validate"} \union Validated => ResultArchive \in {"page", delivery.result}
  /\ stage \in Validated =>
       /\ delivery.source \in {"project", "torn"}
       /\ ResultArchive = delivery.result /\ delivery.result # "broken"
  /\ stage = "unpack" =>
       /\ SourceArchive = delivery.source
       /\ ~IsThereAlready
  /\ stage \in Unpacked => delivery.source = "project" /\ delivery.result # "torn"
  /\ stage \in Unpacked \ {"frames"} => delivery.result # "missing"

Expected(f) == IF f = FrameCount THEN delivery.result ELSE "right"

\* What is known of the files if no relics are there: nothing that is going to be compared
\* is of an earlier order.
FileInv ==
  /\ stage \in {"download source", "download result", "validate", "unpack"} =>
       \A name \in Name \ {Archive("source"), Archive("result")} :
         directory[name] = IF name \in delivery.old THEN "old" ELSE None
  /\ stage \in Unpacked /\ Relics = {} =>
       \A f \in Frame : Expected(f) # "missing" => directory[Image(f)] \in {None, Expected(f)}
  /\ stage \in {"frames", "render"} /\ Relics = {} => directory[Scene] # "old"
  /\ stage = "render" /\ Relics = {} => \A f \in 1..frame : directory[Output(f)] # "old"
  /\ stage \in {"delete", "upload", "compare"} /\ Relics = {} =>
       \A f \in Frame : directory[Output(f)] # "old"

VerdictInv ==
  /\ MatchIsDeserved
  /\ MismatchIsDeserved
  /\ stage # "idle" => ordered
  /\ ordered => state \in {"ADDITIONAL_VERIFICATION", "ACCEPTED", "FAILED"}
  /\ FailureIsByVerdict

VerifierInv ==
  /\ TransferInv
  /\ VerifierTypeOK
  /\ FrameInv
  /\ ArchiveInv
  /\ FileInv
  /\ VerdictInv

-----------------------------------------------------------------------------
(* The names and the contents of files. *)

LEMMA Names ==
  /\ Archive("source") \in Name /\ Archive("result") \in Name /\ Scene \in Name
  /\ Archive("source") # Archive("result")
  /\ Scene # Archive("source") /\ Scene # Archive("result")
  /\ \A f \in Frame : /\ Image(f) \in Name /\ Output(f) \in Name
                      /\ Image(f)[1] = "image" /\ Image(f) # Scene
                      /\ Image(f) \notin {Archive("source"), Archive("result")}
                      /\ Output(f) \notin {Archive("source"), Archive("result")}
                      /\ Output(f) # Scene
  /\ \A f, g \in Frame : /\ Image(f) = Image(g) => f = g
                         /\ Output(f) = Output(g) => f = g
                         /\ Image(f) # Output(g)
BY DEF Name, Archive, Scene, Image, Output

LEMMA FirstFrames == FrameCount \in Frame /\ FrameCount \in Nat /\ 1 <= FrameCount
BY FrameAssumption DEF Frame

LEMMA Kinds ==
  /\ SourceKind \subseteq Content /\ ResultKind \subseteq Content
  /\ "page" \in Content /\ None \in Content /\ "old" \in Content /\ "own" \in Content
  /\ \A kind \in SourceKind \union ResultKind : kind \notin {None, "page", "own", "old"}
  /\ Expected(FrameCount) = delivery.result
BY DEF Content, SourceKind, ResultKind, ImageKind, None, Expected

LEMMA Deliver ==
  /\ NoDelivery \in Delivery
  /\ \A d \in Deliveries : d \in Delivery
  /\ \A d \in Delivery : d.source \in SourceKind /\ d.result \in ResultKind
BY DeliveryAssumption DEF NoDelivery, Delivery, SourceKind, ResultKind, ImageKind

\* The names in the archives, by the contents of the archives.
LEMMA InArchives ==
  /\ Scene \in Entries <=> SourceArchive \in {"project", "torn"}
  /\ \A f \in Frame :
       Image(f) \in Entries <=>
         ResultArchive \notin {"page", "broken"} /\ (f = FrameCount => ResultArchive # "missing")
  /\ \A f \in Frame :
       ImageOf(Image(f)) = IF f = FrameCount THEN ResultArchive ELSE "right"
<1>1. \A f \in Frame : Image(f) = Image(FrameCount) <=> f = FrameCount
  BY Names, FirstFrames
<1>2. \A f \in Frame : ImageOf(Image(f)) = IF f = FrameCount THEN ResultArchive ELSE "right"
  BY <1>1 DEF ImageOf
<1>3. Scene[1] # "image"
  BY DEF Scene
<1>4. Scene \in Entries <=> SourceArchive \in {"project", "torn"}
  BY <1>3, Names DEF Entries
<1>5. \A f \in Frame : Image(f) \in Entries <=>
         ResultArchive \notin {"page", "broken"} /\ (f = FrameCount => ResultArchive # "missing")
  BY <1>2, Names DEF Entries, IsZip
<1> QED
  BY <1>2, <1>4, <1>5

LEMMA EntriesAreNames ==
  /\ Entries \subseteq Name
  /\ \A name \in Entries : name = Scene \/ name[1] = "image"
BY DEF Entries

-----------------------------------------------------------------------------
(* Ending an order. *)

\* After a verdict nothing of the files matters any more.
LEMMA Ended ==
  ASSUME VerifierInv, UNCHANGED transferVars, stage # "idle",
         \E s \in {"done", "lost"} : Leave(s),
         verdict' \in Verdict \union {None}, atFault' \in Content,
         stage' = "done" <=> verdict' # None,
         MatchIsDeserved', MismatchIsDeserved', FailureIsByVerdict'
  PROVE  VerifierInv'
<1>1. /\ stage' \in {"done", "lost"} /\ directory' = Empty /\ tokenExpires' = NULL
      /\ frame' = 0 /\ delivery' = delivery
  BY DEF Leave, Goto
<1>2. TransferInv'
  BY TransferKeeps DEF VerifierInv
<1>3. Empty \in [Name -> Content]
  BY Kinds DEF Empty
<1>4. VerifierTypeOK'
  <2>1. TransferTypeOK' /\ delivery' \in Delivery
    BY <1>1, <1>2 DEF TransferInv, VerifierInv, VerifierTypeOK
  <2>2. stage' \in Stage
    BY <1>1 DEF Stage
  <2>3. IsInstant(tokenExpires)'
    BY <1>1 DEF IsInstant
  <2>4. frame' \in 0..FrameCount
    BY <1>1, FirstFrames
  <2> QED
    BY <1>1, <1>3, <2>1, <2>2, <2>3, <2>4 DEF VerifierTypeOK
<1>5. FrameInv'
  BY <1>1 DEF FrameInv
<1>6. ArchiveInv' /\ FileInv'
  BY <1>1 DEF ArchiveInv, FileInv, Validated, Unpacked
<1>7. /\ (stage # "idle" => ordered)'
      /\ (ordered => state \in {"ADDITIONAL_VERIFICATION", "ACCEPTED", "FAILED"})'
  BY DEF VerifierInv, VerdictInv, transferVars
<1> QED
  BY <1>2, <1>4, <1>5, <1>6, <1>7 DEF VerifierInv, VerdictInv

\* FAILED needs a MISMATCH that was there before: no verdict has been sent so far.
LEMMA NotFailed ==
  ASSUME VerifierInv, stage \notin {"idle", "done"}, UNCHANGED transferVars
  PROVE  FailureIsByVerdict'
<1>1. verdict = None /\ ordered /\ state # "FAILED"
  BY DEF VerifierInv, VerifierTypeOK, VerdictInv, FailureIsByVerdict, None
<1> QED
  BY <1>1 DEF FailureIsByVerdict, transferVars

LEMMA FailKeeps ==
  ASSUME VerifierInv, IsRunning, UNCHANGED transferVars, Fail
  PROVE  VerifierInv'
<1>1. /\ verdict' = "ERROR" /\ atFault' = None /\ Leave("done") /\ stage' = "done"
  BY DEF Fail, Send, Leave, Goto
<1>2. MatchIsDeserved' /\ MismatchIsDeserved' /\ FailureIsByVerdict'
  BY <1>1, NotFailed DEF MatchIsDeserved, MismatchIsDeserved, IsRunning
<1> QED
  BY <1>1, <1>2, Ended, Kinds DEF IsRunning, Verdict, None

LEMMA MismatchKeeps ==
  ASSUME VerifierInv, IsRunning, UNCHANGED transferVars, NEW found \in Content, Mismatch(found),
         found = "page" \/ Relics # {} \/ delivery.source # "project" \/ delivery.result # "right"
  PROVE  VerifierInv'
<1>1. /\ verdict' = "MISMATCH" /\ atFault' = found /\ Leave("done") /\ stage' = "done"
      /\ delivery' = delivery
  BY DEF Mismatch, Send, Leave, Goto
<1>2. MatchIsDeserved' /\ MismatchIsDeserved' /\ FailureIsByVerdict'
  BY <1>1, NotFailed DEF MatchIsDeserved, MismatchIsDeserved, IsRunning, Relics
<1> QED
  BY <1>1, <1>2, Ended DEF IsRunning, Verdict, None

LEMMA AbandonKeeps == VerifierInv /\ Abandon => VerifierInv'
<1> SUFFICES ASSUME VerifierInv, Abandon PROVE VerifierInv'
  OBVIOUS
<1>1. /\ Leave("lost") /\ stage' = "lost" /\ verdict' = verdict /\ atFault' = atFault
      /\ UNCHANGED transferVars /\ IsRunning
  BY DEF Abandon, Leave, Goto
<1>2. verdict = None /\ atFault \in Content
  BY <1>1 DEF VerifierInv, VerifierTypeOK, IsRunning
<1>3. MatchIsDeserved' /\ MismatchIsDeserved' /\ FailureIsByVerdict'
  BY <1>1, <1>2, NotFailed DEF MatchIsDeserved, MismatchIsDeserved, IsRunning, None
<1> QED
  BY <1>1, <1>2, <1>3, Ended DEF IsRunning

-----------------------------------------------------------------------------
(* The transfer goes on while an order is worked on. *)

\* How the core decides once it has ordered a verification.
LEMMA OrderedStays ==
  ASSUME TransferStep \/ Report, ordered,
         state \in {"ADDITIONAL_VERIFICATION", "ACCEPTED", "FAILED"}
  PROVE  /\ ordered'
         /\ state' \in {"ADDITIONAL_VERIFICATION", "ACCEPTED", "FAILED"}
         /\ state' = "FAILED" =>
              state = "FAILED" \/ verdict = "MISMATCH"
<1>1. CASE Report
  BY <1>1 DEF Report, VerificationResult, ToState, DecidedState, orderVars
<1>2. CASE ForceGetTaskResult \/ ForceSubtaskResults \/ SubtaskResultsVerify
  BY <1>2, Transitions DEF ForceGetTaskResult, ForceSubtaskResults, SubtaskResultsVerify, IsPossible
<1>3. CASE \E client \in {"provider", "requestor"} : UpdateSubtask(client)
  BY <1>3 DEF UpdateSubtask, VerifyFileStatus, TimeOut, TimedOutState, ToState, orderVars
<1>4. CASE \E st \in {"ACCEPTED", "REJECTED"} : ForceSubtaskResultsResponse(st)
  BY <1>4 DEF ForceSubtaskResultsResponse
<1>5. CASE UploadFinished
  BY <1>5 DEF UploadFinished, coreVars
<1>6. CASE Tick \/ SubtaskResultsRejected \/ HandOutUpload \/ HandOutDownload
  BY <1>6 DEF Tick, SubtaskResultsRejected, HandOutUpload, HandOutDownload, coreVars, orderVars
<1>7. CASE ResultUploadFinished
           \/ \E client \in Client, token \in tokens, path \in Path : Upload(client, token, path)
  BY <1>7 DEF ResultUploadFinished, Upload, coreVars, orderVars
<1> QED
  BY <1>1, <1>2, <1>3, <1>4, <1>5, <1>6, <1>7 DEF TransferStep

\* The only step that orders a verification.
LEMMA Orders ==
  ASSUME TransferStep \/ Report, ~ordered, ordered'
  PROVE  state' = "ADDITIONAL_VERIFICATION"
<1>1. CASE UploadFinished
  BY <1>1 DEF UploadFinished, ToState
<1>2. CASE ~UploadFinished
  BY <1>2
  DEF Report, TransferStep, Tick, ForceGetTaskResult, ForceSubtaskResults,
      ForceSubtaskResultsResponse, SubtaskResultsRejected, SubtaskResultsVerify, UpdateSubtask,
      VerifyFileStatus, TimeOut, HandOutUpload, HandOutDownload, Upload, ResultUploadFinished,
      VerificationResult, orderVars
<1> QED
  BY <1>1, <1>2

LEMMA CoreKeeps ==
  ASSUME VerifierInv, TransferStep \/ Report, UNCHANGED verifierVars
  PROVE  VerifierInv'
<1> DEFINE Same == /\ stage' = stage /\ tokenExpires' = tokenExpires /\ delivery' = delivery
                   /\ directory' = directory /\ frame' = frame /\ verdict' = verdict
                   /\ atFault' = atFault
<1>1. Same
  BY DEF verifierVars
<1>2. TransferInv'
  <2>1. TransferNext
    BY DEF TransferNext, Report, VerifierInv, VerifierTypeOK
  <2> QED
    BY <2>1, TransferKeeps DEF VerifierInv
<1>3. VerifierTypeOK'
  BY <1>1, <1>2 DEF VerifierInv, VerifierTypeOK, TransferInv, IsInstant
<1>4. FrameInv'
  BY <1>1 DEF VerifierInv, FrameInv
<1>5. ArchiveInv'
  BY <1>1
  DEF VerifierInv, ArchiveInv, SourceArchive, ResultArchive, IsThereAlready, IsTopLevel, Entries,
      ImageOf, IsZip
<1>6. FileInv' /\ MatchIsDeserved' /\ MismatchIsDeserved'
  BY <1>1
  DEF VerifierInv, FileInv, Relics, Expected, VerdictInv, MatchIsDeserved, MismatchIsDeserved
<1>7. /\ (stage # "idle" => ordered)'
      /\ (ordered => state \in {"ADDITIONAL_VERIFICATION", "ACCEPTED", "FAILED"})'
      /\ FailureIsByVerdict'
  <2>1. CASE ordered
    BY <1>1, <2>1, OrderedStays
    DEF VerifierInv, VerdictInv, FailureIsByVerdict
  <2>2. CASE ~ordered
    BY <1>1, <2>2, Orders
    DEF VerifierInv, VerdictInv, FailureIsByVerdict, TransferInv, TransferTypeOK
  <2> QED
    BY <2>1, <2>2
<1> QED
  BY <1>2, <1>3, <1>4, <1>5, <1>6, <1>7 DEF VerifierInv, VerdictInv

-----------------------------------------------------------------------------
(* Each step of the verifier keeps the invariant. *)

\* What a step need not show if no verdict is sent and the core stays as it is.
LEMMA Goes ==
  ASSUME VerifierInv, UNCHANGED <<transferVars, verdict, atFault>>, ordered,
         stage \notin {"done", "lost"}, stage' \notin {"idle", "done"}, stage' \in Stage,
         IsInstant(tokenExpires)', delivery' \in Delivery, directory' \in [Name -> Content],
         frame' \in 0..FrameCount, FrameInv', ArchiveInv', FileInv'
  PROVE  VerifierInv'
<1>1. TransferInv'
  BY TransferKeeps DEF VerifierInv
<1>2. verdict = None /\ verdict' = None /\ atFault' = atFault
  BY DEF VerifierInv, VerifierTypeOK
<1>3. VerifierTypeOK'
  BY <1>1, <1>2 DEF VerifierTypeOK, TransferInv, VerifierInv
<1>4. MatchIsDeserved' /\ MismatchIsDeserved'
  BY <1>2 DEF MatchIsDeserved, MismatchIsDeserved, None
<1>5. /\ (stage # "idle" => ordered)'
      /\ (ordered => state \in {"ADDITIONAL_VERIFICATION", "ACCEPTED", "FAILED"})'
      /\ FailureIsByVerdict'
  BY <1>2 DEF VerifierInv, VerdictInv, FailureIsByVerdict, transferVars
<1> QED
  BY <1>1, <1>3, <1>4, <1>5 DEF VerifierInv, VerdictInv

LEMMA TakeOrderKeeps == VerifierInv /\ TakeOrder => VerifierInv'
<1> SUFFICES ASSUME VerifierInv, TakeOrder PROVE VerifierInv'
  OBVIOUS
<1>1. /\ stage = "idle" /\ ordered /\ stage' = "download source"
      /\ tokenExpires' = now + ResultTime /\ delivery' \in Deliveries
      /\ directory' = [name \in Name |-> IF name \in delivery'.old THEN "old" ELSE None]
      /\ UNCHANGED <<transferVars, frame, verdict, atFault>>
  BY DEF TakeOrder, IsOrdered, Goto
<1>2. frame = 0 /\ frame' = 0 /\ now \in Nat
  BY <1>1 DEF VerifierInv, FrameInv, TransferInv, TransferTypeOK
<1>3. stage' \in Stage
  BY <1>1 DEF Stage
<1>4. IsInstant(tokenExpires)'
  <2>1. now + ResultTime \in Nat
    BY <1>2, ResultTimeType
  <2>2. tokenExpires' \in Nat
    BY <1>1, <2>1
  <2> QED
    BY <2>2 DEF IsInstant
<1>5. delivery' \in Delivery
  BY <1>1, Deliver
<1>6. directory' \in [Name -> Content]
  BY <1>1, Kinds
<1>7. frame' \in 0..FrameCount
  BY <1>2, FirstFrames
<1>8. FrameInv' /\ ArchiveInv' /\ FileInv'
  BY <1>1, <1>2 DEF FrameInv, ArchiveInv, FileInv, Validated, Unpacked
<1> QED
  BY <1>1, <1>3, <1>4, <1>5, <1>6, <1>7, <1>8, Goes

LEMMA ReceivedIs ==
  ASSUME NEW path \in Path
  PROVE  Received(path) \in {"page", IF path = "source" THEN delivery.source ELSE delivery.result}
BY DEF Received

\* A download that works changes its archive only.
LEMMA DownloadedKeeps ==
  ASSUME VerifierInv, NEW path \in Path, NEW next,
         \/ stage = "download source" /\ path = "source" /\ next = "download result"
         \/ stage = "download result" /\ path = "result" /\ next = "validate",
         directory' = [directory EXCEPT ![Archive(path)] = Received(path)], stage' = next,
         UNCHANGED <<transferVars, tokenExpires, delivery, frame, verdict, atFault>>
  PROVE  VerifierInv'
<1> USE DEF VerifierInv
<1>1. directory \in [Name -> Content] /\ delivery \in Delivery /\ ordered
  BY DEF VerifierTypeOK, VerdictInv
<1>2. Archive(path) \in Name /\ Received(path) \in Content
  <2>1. delivery.source \in Content /\ delivery.result \in Content
    BY <1>1, Deliver, Kinds
  <2> QED
    BY <2>1, ReceivedIs, Kinds, Names DEF Path
<1>3. directory' \in [Name -> Content]
  BY <1>1, <1>2
<1>4. FrameInv'
  BY DEF FrameInv
<1>5. ArchiveInv'
  <2>1. CASE path = "source"
    <3>1. SourceArchive' \in {"page", delivery.source}
      BY <1>1, <1>2, <2>1, ReceivedIs DEF SourceArchive
    <3> QED
      BY <2>1, <3>1 DEF ArchiveInv, Validated, Unpacked
  <2>2. CASE path = "result"
    <3>1. ResultArchive' \in {"page", delivery.result} /\ SourceArchive' = SourceArchive
      BY <1>1, <1>2, <2>2, ReceivedIs, Names DEF SourceArchive, ResultArchive
    <3>2. SourceArchive \in {"page", delivery.source}
      BY <2>2 DEF ArchiveInv
    <3> QED
      BY <2>2, <3>1, <3>2 DEF ArchiveInv, Validated, Unpacked
  <2> QED
    BY <2>1, <2>2 DEF Path
<1>6. FileInv'
  <2>1. \A name \in Name \ {Archive("source"), Archive("result")} :
          directory'[name] = directory[name]
    BY <1>1, <1>2 DEF Path
  <2> QED
    BY <2>1 DEF FileInv, Unpacked
<1>7. stage' \in Stage /\ IsInstant(tokenExpires)' /\ frame' \in 0..FrameCount
  BY DEF Stage, VerifierTypeOK, IsInstant
<1> QED
  BY <1>1, <1>3, <1>4, <1>5, <1>6, <1>7, Goes

LEMMA DownloadKeeps == VerifierInv /\ (DownloadSource \/ DownloadResult) => VerifierInv'
<1> SUFFICES ASSUME VerifierInv, NEW path \in Path, NEW next,
                    \/ stage = "download source" /\ path = "source" /\ next = "download result"
                    \/ stage = "download result" /\ path = "result" /\ next = "validate",
                    UNCHANGED transferVars, Download(path, next)
             PROVE  VerifierInv'
  BY DEF DownloadSource, DownloadResult, At, Path
<1>1. CASE directory[Archive(path)] # None
  BY <1>1, FailKeeps DEF Download, IsRunning
<1>2. CASE directory[Archive(path)] = None
  BY <1>2, DownloadedKeeps DEF Download, Goto
<1> QED
  BY <1>1, <1>2

LEMMA FailureKeeps == VerifierInv /\ Failure => VerifierInv'
BY FailKeeps
DEF Failure, DownloadFails, RenderFails, UploadFails, CompareFails, At, IsRunning

LEMMA ArchiveTypes ==
  ASSUME VerifierInv
  PROVE  /\ SourceArchive \in Content /\ ResultArchive \in Content
         /\ delivery \in Delivery
         /\ delivery.source \in SourceKind /\ delivery.result \in ResultKind
BY Names, Deliver DEF VerifierInv, VerifierTypeOK, SourceArchive, ResultArchive

LEMMA ValidateKeeps == VerifierInv /\ ValidateDownloadedArchives => VerifierInv'
<1> SUFFICES ASSUME VerifierInv, ValidateDownloadedArchives PROVE VerifierInv'
  OBVIOUS
<1> USE DEF ValidateDownloadedArchives
<1>1. stage = "validate" /\ UNCHANGED transferVars /\ IsRunning
  BY DEF At, IsRunning
<1>2. /\ SourceArchive \in {"page", delivery.source} /\ SourceArchive \in Content
      /\ ResultArchive \in {"page", delivery.result} /\ ResultArchive \in Content
      /\ delivery.source \in SourceKind /\ delivery.result \in ResultKind
  BY <1>1, ArchiveTypes DEF VerifierInv, ArchiveInv
<1>3. CASE ~IsZip(SourceArchive)
  BY <1>1, <1>2, <1>3, MismatchKeeps DEF IsZip
<1>4. CASE IsZip(SourceArchive) /\ ~IsZip(ResultArchive)
  BY <1>1, <1>2, <1>4, MismatchKeeps DEF IsZip
<1>5. CASE IsZip(SourceArchive) /\ IsZip(ResultArchive) /\ IsThereAlready
  BY <1>1, <1>5, FailKeeps
<1>6. CASE IsZip(SourceArchive) /\ IsZip(ResultArchive) /\ ~IsThereAlready /\ Scene \notin Entries
  <2>1. Mismatch(SourceArchive) /\ delivery.source # "project"
    BY <1>2, <1>6, InArchives DEF IsZip
  <2> QED
    BY <1>1, <1>2, <2>1, MismatchKeeps
<1>7. CASE IsZip(SourceArchive) /\ IsZip(ResultArchive) /\ ~IsThereAlready /\ Scene \in Entries
  <2>1. stage' = "unpack"
        /\ UNCHANGED <<tokenExpires, delivery, directory, frame, verdict, atFault>>
    BY <1>7 DEF Continue, Goto
  <2>2. /\ delivery.source \in {"project", "torn"} /\ SourceArchive = delivery.source
        /\ ResultArchive = delivery.result /\ delivery.result # "broken"
    BY <1>2, <1>7, InArchives DEF IsZip
  <2>3. ArchiveInv'
    <3>1. UNCHANGED <<SourceArchive, ResultArchive, IsThereAlready>>
      BY <2>1
      DEF SourceArchive, ResultArchive, IsThereAlready, IsTopLevel, Entries, ImageOf, IsZip
    <3> QED
      BY <1>7, <2>1, <2>2, <3>1 DEF ArchiveInv, Validated, Unpacked
  <2>4. FrameInv' /\ FileInv'
    BY <1>1, <2>1 DEF VerifierInv, FrameInv, FileInv, Unpacked
  <2>5. /\ stage' \in Stage /\ IsInstant(tokenExpires)' /\ delivery' \in Delivery
        /\ directory' \in [Name -> Content] /\ frame' \in 0..FrameCount /\ ordered
    BY <1>1, <2>1 DEF Stage, VerifierInv, VerifierTypeOK, VerdictInv, IsInstant
  <2> QED
    BY <1>1, <2>1, <2>3, <2>4, <2>5, Goes
<1> QED
  BY <1>3, <1>4, <1>5, <1>6, <1>7

\* A file of an earlier order that an archive holds is a relic if it is not written over.
LEMMA NoRelic ==
  ASSUME VerifierInv, stage = "unpack", Relics = {}, NEW name \in Entries,
         name \in delivery.beyond, name \notin {Archive("source"), Archive("result")}
  PROVE  directory[name] = None
<1>1. name \in Name
  BY EntriesAreNames
<1>2. directory[name] = IF name \in delivery.old THEN "old" ELSE None
  BY <1>1 DEF VerifierInv, FileInv
<1>3. name \notin delivery.nested => directory[name] = None
  BY DEF VerifierInv, ArchiveInv, IsThereAlready, IsTopLevel
<1> QED
  BY <1>2, <1>3 DEF Relics

LEMMA UnpackKeeps == VerifierInv /\ UnpackArchives => VerifierInv'
<1> SUFFICES ASSUME VerifierInv, UnpackArchives PROVE VerifierInv'
  OBVIOUS
<1>1. stage = "unpack" /\ UNCHANGED transferVars /\ IsRunning
  BY DEF UnpackArchives, At, IsRunning
<1>2. /\ SourceArchive = delivery.source /\ delivery.source \in {"project", "torn"}
      /\ ResultArchive = delivery.result /\ delivery.result \in ResultKind
      /\ delivery.result # "broken" /\ delivery \in Delivery
  BY <1>1, ArchiveTypes DEF VerifierInv, ArchiveInv, Validated
<1>3. CASE "torn" \in {SourceArchive, ResultArchive}
  BY <1>1, <1>3, FailKeeps DEF UnpackArchives
<1>4. CASE "torn" \notin {SourceArchive, ResultArchive}
  <2>1. /\ directory' = [name \in Name |->
                           IF name \notin Entries \ delivery.beyond THEN directory[name]
                           ELSE IF name = Scene THEN "own" ELSE ImageOf(name)]
        /\ stage' = "frames"
        /\ UNCHANGED <<transferVars, tokenExpires, delivery, frame, verdict, atFault>>
    BY <1>1, <1>4 DEF UnpackArchives, Goto
  <2>2. directory \in [Name -> Content]
    BY DEF VerifierInv, VerifierTypeOK
  <2>3. \A name \in Name : ImageOf(name) \in Content
    BY <1>2, Kinds DEF ImageOf, ResultKind, ImageKind
  <2>4. directory' \in [Name -> Content]
    BY <2>1, <2>2, <2>3, Kinds
  <2>5. Archive("source") \notin Entries /\ Archive("result") \notin Entries
    <3>1. Archive("source")[1] # "image" /\ Archive("result")[1] # "image"
      BY DEF Archive
    <3> QED
      BY <3>1, EntriesAreNames, Names
  <2>6. SourceArchive' = SourceArchive /\ ResultArchive' = ResultArchive
    BY <2>1, <2>5, Names DEF SourceArchive, ResultArchive
  <2>7. ArchiveInv'
    BY <1>2, <1>4, <2>1, <2>6 DEF ArchiveInv, Validated, Unpacked
  <2>8. \A f \in Frame : Relics = {} /\ Expected(f) # "missing" =>
          directory'[Image(f)] \in {None, Expected(f)}
    <3> SUFFICES ASSUME NEW f \in Frame, Relics = {}, Expected(f) # "missing"
                 PROVE  directory'[Image(f)] \in {None, Expected(f)}
      OBVIOUS
    <3>1. Image(f) \in Entries /\ ImageOf(Image(f)) = Expected(f)
      BY <1>2, InArchives, Kinds DEF Expected
    <3>2. Image(f) \in Name /\ Image(f) # Scene
          /\ Image(f) \notin {Archive("source"), Archive("result")}
      BY Names
    <3>3. CASE Image(f) \in delivery.beyond
      BY <1>1, <2>1, <3>1, <3>2, <3>3, NoRelic
    <3>4. CASE Image(f) \notin delivery.beyond
      BY <2>1, <3>1, <3>2, <3>4
    <3> QED
      BY <3>3, <3>4
  <2>9. Relics = {} => directory'[Scene] # "old"
    <3>1. Scene \in Entries
      BY <1>2, InArchives
    <3>2. CASE Scene \in delivery.beyond
      BY <1>1, <2>1, <3>1, <3>2, NoRelic, Names DEF None
    <3>3. CASE Scene \notin delivery.beyond
      BY <2>1, <3>1, <3>3, Names
    <3> QED
      BY <3>2, <3>3
  <2>10. FileInv'
    <3>1. Relics' = Relics /\ \A f \in Frame : Expected(f)' = Expected(f)
      BY <2>1 DEF Relics, Expected
    <3> QED
      BY <2>1, <2>8, <2>9, <3>1 DEF FileInv, Unpacked
  <2>11. FrameInv'
    BY <1>1, <2>1 DEF VerifierInv, FrameInv
  <2>12. /\ stage' \in Stage /\ IsInstant(tokenExpires)' /\ delivery' \in Delivery
         /\ frame' \in 0..FrameCount /\ ordered
    BY <1>1, <2>1 DEF Stage, VerifierInv, VerifierTypeOK, VerdictInv, IsInstant
  <2> QED
    BY <1>1, <2>1, <2>4, <2>7, <2>10, <2>11, <2>12, Goes
<1> QED
  BY <1>3, <1>4

LEMMA MatchFramesKeeps == VerifierInv /\ MatchFrames => VerifierInv'
<1> SUFFICES ASSUME VerifierInv, MatchFrames PROVE VerifierInv'
  OBVIOUS
<1>1. stage = "frames" /\ UNCHANGED transferVars /\ IsRunning
  BY DEF MatchFrames, At, IsRunning
<1>2. /\ ResultArchive = delivery.result /\ ResultArchive \in Content
      /\ delivery.result \in ResultKind /\ delivery.result \notin {"broken", "torn"}
  BY <1>1, ArchiveTypes DEF VerifierInv, ArchiveInv, Validated, Unpacked
<1>3. delivery.result # "missing" <=> {Image(f) : f \in Frame} \subseteq Entries
  BY <1>2, InArchives, FirstFrames, Kinds
<1>4. CASE ~({Image(f) : f \in Frame} \subseteq Entries)
  BY <1>1, <1>2, <1>3, <1>4, MismatchKeeps DEF MatchFrames
<1>5. CASE {Image(f) : f \in Frame} \subseteq Entries
  <2>1. stage' = "render"
        /\ UNCHANGED <<transferVars, tokenExpires, delivery, directory, frame, verdict, atFault>>
    BY <1>1, <1>5 DEF MatchFrames, Continue, Goto
  <2>2. frame = 0 /\ frame' = 0
    BY <1>1, <2>1 DEF VerifierInv, FrameInv
  <2>3. UNCHANGED <<SourceArchive, ResultArchive, Relics>>
    BY <2>1 DEF SourceArchive, ResultArchive, Relics
  <2>4. ArchiveInv'
    BY <1>1, <1>3, <1>5, <2>1, <2>3 DEF VerifierInv, ArchiveInv, Validated, Unpacked
  <2>5. FrameInv'
    BY <2>1, <2>2, FirstFrames DEF FrameInv
  <2>6. FileInv'
    <3>1. \A f \in Frame : Expected(f)' = Expected(f)
      BY <2>1 DEF Expected
    <3>2. 1..frame' = {}
      BY <2>2
    <3> QED
      BY <1>1, <2>1, <2>3, <3>1, <3>2 DEF VerifierInv, FileInv, Unpacked
  <2>7. /\ stage' \in Stage /\ IsInstant(tokenExpires)' /\ delivery' \in Delivery
        /\ directory' \in [Name -> Content] /\ frame' \in 0..FrameCount /\ ordered
    BY <1>1, <2>1 DEF Stage, VerifierInv, VerifierTypeOK, VerdictInv, IsInstant
  <2> QED
    BY <1>1, <2>1, <2>4, <2>5, <2>6, <2>7, Goes
<1> QED
  BY <1>4, <1>5

LEMMA RenderKeeps == VerifierInv /\ RenderFrame => VerifierInv'
<1> SUFFICES ASSUME VerifierInv, RenderFrame PROVE VerifierInv'
  OBVIOUS
<1>1. /\ stage = "render" /\ frame' = frame + 1
      /\ directory' = [directory EXCEPT ![Output(frame + 1)] = directory[Scene]]
      /\ stage' = IF frame + 1 = FrameCount THEN "delete" ELSE "render"
      /\ UNCHANGED <<transferVars, tokenExpires, delivery, verdict, atFault>>
  BY DEF RenderFrame, At, Goto
<1>2. frame \in Nat /\ frame < FrameCount /\ FrameCount \in Nat /\ frame + 1 \in Frame
  BY <1>1, FirstFrames DEF VerifierInv, VerifierTypeOK, FrameInv, Frame
<1>3. directory \in [Name -> Content] /\ Output(frame + 1) \in Name /\ Scene \in Name
  BY <1>2, Names DEF VerifierInv, VerifierTypeOK
<1>4. directory' \in [Name -> Content]
  BY <1>1, <1>3
<1>5. \A name \in Name : name # Output(frame + 1) => directory'[name] = directory[name]
  BY <1>1, <1>3
<1>6. FrameInv'
  BY <1>1, <1>2 DEF FrameInv
<1>7. ArchiveInv'
  <2>1. SourceArchive' = SourceArchive /\ ResultArchive' = ResultArchive
    BY <1>2, <1>5, Names DEF SourceArchive, ResultArchive
  <2> QED
    BY <1>1, <2>1 DEF VerifierInv, ArchiveInv, Validated, Unpacked
<1>8. FileInv'
  <2>1. Relics' = Relics /\ \A f \in Frame : Expected(f)' = Expected(f)
    BY <1>1 DEF Relics, Expected
  <2>2. directory'[Scene] = directory[Scene]
        /\ \A f \in Frame : directory'[Image(f)] = directory[Image(f)]
    BY <1>2, <1>5, Names
  <2>3. Relics = {} => \A f \in 1..(frame + 1) : directory'[Output(f)] # "old"
    <3> SUFFICES ASSUME Relics = {}, NEW f \in 1..(frame + 1)
                 PROVE  directory'[Output(f)] # "old"
      OBVIOUS
    <3>1. f \in Frame
      BY <1>2 DEF Frame
    <3>2. directory[Scene] # "old" /\ \A g \in 1..frame : directory[Output(g)] # "old"
      BY <1>1 DEF VerifierInv, FileInv
    <3>3. CASE f = frame + 1
      BY <1>1, <1>3, <3>2, <3>3
    <3>4. CASE f # frame + 1
      <4>1. f \in 1..frame
        BY <1>2, <3>4
      <4>2. Output(f) # Output(frame + 1) /\ Output(f) \in Name
        BY <1>2, <3>1, <3>4, Names
      <4> QED
        BY <1>5, <3>2, <4>1, <4>2
    <3> QED
      BY <3>3, <3>4
  <2>4. frame + 1 = FrameCount => 1..(frame + 1) = Frame
    BY DEF Frame
  <2> QED
    BY <1>1, <2>1, <2>2, <2>3, <2>4 DEF VerifierInv, FileInv, Unpacked
<1>9. /\ stage' \in Stage /\ IsInstant(tokenExpires)' /\ delivery' \in Delivery /\ ordered
  BY <1>1 DEF Stage, VerifierInv, VerifierTypeOK, VerdictInv, IsInstant
<1>10. frame' \in 0..FrameCount
  BY <1>1, <1>2
<1> QED
  BY <1>1, <1>4, <1>6, <1>7, <1>8, <1>9, <1>10, Goes

LEMMA DeleteKeeps == VerifierInv /\ DeleteSource => VerifierInv'
<1> SUFFICES ASSUME VerifierInv, DeleteSource PROVE VerifierInv'
  OBVIOUS
<1>1. /\ stage = "delete" /\ stage' = "upload" /\ frame' = 0
      /\ directory' = [directory EXCEPT ![Archive("source")] = None, ![Scene] = None]
      /\ UNCHANGED <<transferVars, tokenExpires, delivery, verdict, atFault>>
  BY DEF DeleteSource, At, Goto
<1>2. directory \in [Name -> Content]
  BY DEF VerifierInv, VerifierTypeOK
<1>3. directory' \in [Name -> Content]
  BY <1>1, <1>2, Kinds
<1>4. /\ directory'[Archive("result")] = directory[Archive("result")]
      /\ \A f \in Frame : directory'[Image(f)] = directory[Image(f)]
      /\ \A f \in Frame : directory'[Output(f)] = directory[Output(f)]
  BY <1>1, <1>2, Names
<1>5. FrameInv'
  BY <1>1, FirstFrames DEF FrameInv
<1>6. ArchiveInv'
  <2>1. ResultArchive' = ResultArchive
    BY <1>4 DEF ResultArchive
  <2> QED
    BY <1>1, <2>1 DEF VerifierInv, ArchiveInv, Validated, Unpacked
<1>7. FileInv'
  <2>1. Relics' = Relics /\ \A f \in Frame : Expected(f)' = Expected(f)
    BY <1>1 DEF Relics, Expected
  <2> QED
    BY <1>1, <1>4, <2>1 DEF VerifierInv, FileInv, Unpacked
<1>8. /\ stage' \in Stage /\ IsInstant(tokenExpires)' /\ delivery' \in Delivery /\ ordered
  BY <1>1 DEF Stage, VerifierInv, VerifierTypeOK, VerdictInv, IsInstant
<1>9. frame' \in 0..FrameCount
  BY <1>1, FirstFrames
<1> QED
  BY <1>1, <1>3, <1>5, <1>6, <1>7, <1>8, <1>9, Goes

LEMMA UploadOutputKeeps == VerifierInv /\ UploadOutput => VerifierInv'
<1> SUFFICES ASSUME VerifierInv, UploadOutput PROVE VerifierInv'
  OBVIOUS
<1>1. /\ stage = "upload" /\ frame' = frame + 1
      /\ stage' = IF frame + 1 = FrameCount THEN "compare" ELSE "upload"
      /\ UNCHANGED <<transferVars, tokenExpires, delivery, directory, verdict, atFault>>
  BY DEF UploadOutput, At, Goto
<1>2. frame \in Nat /\ frame < FrameCount /\ FrameCount \in Nat
  BY <1>1, FirstFrames DEF VerifierInv, VerifierTypeOK, FrameInv
<1>3. FrameInv'
  BY <1>1, <1>2 DEF FrameInv
<1>4. ArchiveInv'
  <2>1. ResultArchive' = ResultArchive
    BY <1>1 DEF ResultArchive
  <2> QED
    BY <1>1, <2>1 DEF VerifierInv, ArchiveInv, Validated, Unpacked
<1>5. FileInv'
  <2>1. Relics' = Relics /\ \A f \in Frame : Expected(f)' = Expected(f)
    BY <1>1 DEF Relics, Expected
  <2> QED
    BY <1>1, <2>1 DEF VerifierInv, FileInv, Unpacked
<1>6. /\ stage' \in Stage /\ IsInstant(tokenExpires)' /\ delivery' \in Delivery
      /\ directory' \in [Name -> Content] /\ ordered
  BY <1>1 DEF Stage, VerifierInv, VerifierTypeOK, VerdictInv, IsInstant
<1>7. frame' \in 0..FrameCount
  BY <1>1, <1>2
<1> QED
  BY <1>1, <1>3, <1>4, <1>5, <1>6, <1>7, Goes

LEMMA MinIsThere ==
  ASSUME NEW S \in SUBSET Frame, S # {}
  PROVE  Min(S) \in S
<1>1. S \subseteq Nat
  BY FirstFrames DEF Frame
<1>2. \E x \in S : \A y \in S : ~(<<y, x>> \in OpToRel(<, Nat))
  BY <1>1, NatLessThanWellFounded, WFMin, Zenon
<1>3. \A x, y \in Nat : <<y, x>> \notin OpToRel(<, Nat) => ~(y < x)
  <2> SUFFICES ASSUME NEW x \in Nat, NEW y \in Nat, y < x
               PROVE  <<y, x>> \in OpToRel(<, Nat)
    BY Zenon
  <2>1. <<y, x>> \in Nat \X Nat /\ <<y, x>>[1] = y /\ <<y, x>>[2] = x
    OBVIOUS
  <2> QED
    BY <2>1, Zenon DEF OpToRel
<1>4. \E x \in S : \A y \in S : x <= y
  <2>1. PICK x \in S : \A y \in S : ~(<<y, x>> \in OpToRel(<, Nat))
    BY <1>2
  <2>2. \A y \in S : ~(y < x)
    BY <1>1, <1>3, <2>1, Zenon
  <2> QED
    BY <1>1, <2>2
<1> QED
  BY <1>4 DEF Min

LEMMA CompareKeeps == VerifierInv /\ Compare => VerifierInv'
<1> SUFFICES ASSUME VerifierInv, Compare PROVE VerifierInv'
  OBVIOUS
<1> DEFINE bad == {f \in Frame : ~IsLoaded(f) \/ directory[Image(f)] = "smaller"}
<1>1. stage = "compare" /\ UNCHANGED transferVars /\ IsRunning
  BY DEF Compare, At, IsRunning
<1>2. /\ delivery.source = "project" /\ delivery.result \notin {"missing", "torn", "broken"}
      /\ delivery.result \in ResultKind
      /\ Relics = {} => \A f \in Frame : /\ directory[Image(f)] \in {None, Expected(f)}
                                         /\ directory[Output(f)] # "old"
  <2>1. delivery.source = "project" /\ delivery.result \notin {"missing", "torn", "broken"}
        /\ delivery.result \in ResultKind
    BY <1>1, ArchiveTypes DEF VerifierInv, ArchiveInv, Validated, Unpacked
  <2>2. \A f \in Frame : Expected(f) # "missing"
    BY <2>1 DEF Expected
  <2> QED
    BY <1>1, <2>1, <2>2 DEF VerifierInv, FileInv, Unpacked
<1>3. \A f \in Frame : Expected(f) \in ResultKind
  BY <1>2 DEF Expected, ResultKind, ImageKind
<1>4. CASE bad # {} /\ ~IsLoaded(Min(bad))
  BY <1>1, <1>4, FailKeeps DEF Compare
<1>5. CASE bad # {} /\ IsLoaded(Min(bad))
  <2>1. Mismatch("smaller")
    BY <1>5 DEF Compare
  <2>2. PICK f \in Frame : directory[Image(f)] = "smaller"
    BY <1>5, MinIsThere
  <2>3. Relics = {} => delivery.result # "right"
    BY <1>2, <2>2 DEF Expected, None
  <2>4. "smaller" \in Content
    BY DEF Content, ResultKind, ImageKind
  <2> QED
    BY <1>1, <2>1, <2>3, <2>4, MismatchKeeps
<1>6. CASE bad = {}
  <2>1. PICK similar \in [Frame -> BOOLEAN] :
          /\ \A f \in Frame : similar[f] \in Similar(f)
          /\ IF \A f \in Frame : similar[f] THEN Send("MATCH", None) ELSE Mismatch("wrong")
    BY <1>6 DEF Compare
  <2>2. Relics = {} =>
          \A f \in Frame : directory[Image(f)] = Expected(f) /\ similar[f] = (Expected(f) = "right")
    <3> SUFFICES ASSUME Relics = {}, NEW f \in Frame
                 PROVE  directory[Image(f)] = Expected(f) /\ similar[f] = (Expected(f) = "right")
      OBVIOUS
    <3>1. IsLoaded(f)
      BY <1>6
    <3>2. directory[Image(f)] = Expected(f)
      BY <1>2, <3>1 DEF IsLoaded
    <3>3. "old" \notin {directory[Image(f)], directory[Output(f)]}
      BY <1>2, <1>3, <3>2, Kinds
    <3>4. similar[f] \in {directory[Image(f)] = "right"}
      BY <2>1, <3>3 DEF Similar
    <3> QED
      BY <3>2, <3>4
  <2>3. CASE \A f \in Frame : similar[f]
    <3>1. Send("MATCH", None) /\ (Relics = {} => delivery.result = "right")
      BY <2>1, <2>2, <2>3, FirstFrames, Kinds
    <3>2. /\ verdict' = "MATCH" /\ atFault' = None /\ Leave("done") /\ stage' = "done"
          /\ delivery' = delivery
      BY <3>1 DEF Send, Leave, Goto
    <3>3. MatchIsDeserved' /\ MismatchIsDeserved' /\ FailureIsByVerdict'
      BY <1>1, <1>2, <3>1, <3>2, NotFailed DEF MatchIsDeserved, MismatchIsDeserved, Relics
    <3> QED
      BY <1>1, <3>2, <3>3, Ended, Kinds DEF Verdict, None
  <2>4. CASE ~ \A f \in Frame : similar[f]
    <3>1. Mismatch("wrong")
      BY <2>1, <2>4
    <3>2. Relics = {} => delivery.result # "right"
      BY <2>2, <2>4 DEF Expected
    <3>3. "wrong" \in Content
      BY DEF Content, ResultKind, ImageKind
    <3> QED
      BY <1>1, <3>1, <3>2, <3>3, MismatchKeeps
  <2> QED
    BY <2>3, <2>4
<1> QED
  BY <1>4, <1>5, <1>6

-----------------------------------------------------------------------------
(* The theorems. *)

LEMMA VerifierInitial == VerifierInit => VerifierInv
<1> SUFFICES ASSUME VerifierInit PROVE VerifierInv
  OBVIOUS
<1>1. /\ TransferInv /\ stage = "idle" /\ tokenExpires = NULL /\ delivery = NoDelivery
      /\ directory = Empty /\ frame = 0 /\ verdict = None /\ atFault = None /\ ordered = FALSE
  BY TransferInitial DEF VerifierInit, TransferInit
<1>2. VerifierTypeOK
  <2>1. Empty \in [Name -> Content]
    BY Kinds DEF Empty
  <2>2. IsInstant(tokenExpires) /\ frame \in 0..FrameCount
    BY <1>1, FirstFrames DEF IsInstant
  <2> QED
    BY <1>1, <2>1, <2>2, Deliver, Kinds DEF VerifierTypeOK, TransferInv, Stage
<1>3. FrameInv /\ ArchiveInv /\ FileInv /\ VerdictInv
  BY <1>1
  DEF FrameInv, ArchiveInv, FileInv, VerdictInv, Validated, Unpacked, MatchIsDeserved,
      MismatchIsDeserved, FailureIsByVerdict, None
<1> QED
  BY <1>1, <1>2, <1>3 DEF VerifierInv

LEMMA VerifierKeeps == VerifierInv /\ [VerifierNext]_allVars => VerifierInv'
<1> SUFFICES ASSUME VerifierInv, [VerifierNext]_allVars PROVE VerifierInv'
  OBVIOUS
<1>1. CASE (TransferStep \/ Report) /\ UNCHANGED verifierVars
  BY <1>1, CoreKeeps
<1>2. CASE Work
  BY <1>2, TakeOrderKeeps, DownloadKeeps, ValidateKeeps, UnpackKeeps, MatchFramesKeeps, DeleteKeeps,
     UploadOutputKeeps, CompareKeeps DEF Work
<1>3. CASE RenderFrame \/ Failure \/ Abandon
  BY <1>3, RenderKeeps, FailureKeeps, AbandonKeeps
<1>4. CASE UNCHANGED allVars
  <2>1. UNCHANGED verifierVars /\ UNCHANGED transferVars
    BY <1>4 DEF allVars
  <2>2. /\ stage' = stage /\ tokenExpires' = tokenExpires /\ delivery' = delivery
        /\ directory' = directory /\ frame' = frame /\ verdict' = verdict
        /\ atFault' = atFault /\ state' = state /\ ordered' = ordered
    BY <2>1 DEF verifierVars, transferVars
  <2>3. TransferInv'
    BY <2>1, TransferKeeps DEF VerifierInv
  <2>4. VerifierTypeOK' /\ FrameInv'
    BY <2>2, <2>3 DEF VerifierInv, VerifierTypeOK, TransferInv, IsInstant, FrameInv
  <2>5. ArchiveInv'
    BY <2>2
    DEF VerifierInv, ArchiveInv, SourceArchive, ResultArchive, IsThereAlready, IsTopLevel,
        Entries, ImageOf, IsZip
  <2>6. FileInv' /\ VerdictInv'
    BY <2>2
    DEF VerifierInv, FileInv, Relics, Expected, VerdictInv, MatchIsDeserved,
        MismatchIsDeserved, FailureIsByVerdict
  <2> QED
    BY <2>3, <2>4, <2>5, <2>6 DEF VerifierInv
<1> QED
  BY <1>1, <1>2, <1>3, <1>4 DEF VerifierNext

\* The instants, tokens, stages and files keep their types, and a deadline is set in the
\* active states only.
THEOREM VerifierIsTyped == VerifierSpec => []VerifierTypeOK
<1>1. VerifierInv => VerifierTypeOK
  BY DEF VerifierInv
<1> QED
  BY <1>1, VerifierInitial, VerifierKeeps, PTL DEF VerifierSpec

\* While the core waits for files the gatekeeper accepts them from the provider, for all times
\* that the settings allow.
THEOREM UploadsAreAccepted == VerifierSpec => []UploadIsNotRefused
<1>1. VerifierInv => UploadIsNotRefused
  BY UploadIsOpen DEF VerifierInv
<1> QED
  BY <1>1, VerifierInitial, VerifierKeeps, PTL DEF VerifierSpec

\* Acceptance is not forced while the requestor may still download the result.
THEOREM AcceptanceWaits == VerifierSpec => []AcceptanceFollowsDownload
<1>1. VerifierInv => AcceptanceFollowsDownload
  BY AcceptanceIsLater DEF VerifierInv
<1> QED
  BY <1>1, VerifierInitial, VerifierKeeps, PTL DEF VerifierSpec

\* The core and the verifier work with one deadline.
THEOREM OneDeadline == VerifierSpec => []VerifierAndCoreAgree
<1>1. VerifierInv => VerifierAndCoreAgree
  BY DEF VerifierInv, TransferInv
<1> QED
  BY <1>1, VerifierInitial, VerifierKeeps, PTL DEF VerifierSpec

\* The time until the shutdown covers the downloads.
THEOREM ShutdownIsLater == VerifierSpec => []ShutdownWaitsForDownloads
<1>1. VerifierInv => ShutdownWaitsForDownloads
  BY ShutdownWaits DEF VerifierInv
<1> QED
  BY <1>1, VerifierInitial, VerifierKeeps, PTL DEF VerifierSpec

\* A download token that the requestor gets in time leaves it time for the download.
THEOREM DownloadsHaveTime == VerifierSpec => DownloadHasTime
<1>1. VerifierInv /\ [VerifierNext]_allVars =>
        [\A token \in tokens' \ tokens :
           token.operation = "download" /\ now <= TransferDeadline
             => now + CMT + ResultTime <= token.expires]_transferVars
  <2> SUFFICES ASSUME VerifierInv, [VerifierNext]_allVars, NEW token \in tokens' \ tokens,
                      token.operation = "download", now <= TransferDeadline
               PROVE  now + CMT + ResultTime <= token.expires
    OBVIOUS
  <2>1. tokens' # tokens
    OBVIOUS
  <2>2. ~UNCHANGED transferVars
    BY <2>1 DEF transferVars
  <2>3. TransferStep \/ Report
    BY <2>2
    DEF VerifierNext, Work, TakeOrder, DownloadSource, DownloadResult, UnpackArchives,
        ValidateDownloadedArchives, MatchFrames, DeleteSource, UploadOutput, Compare, At,
        RenderFrame, Failure, DownloadFails, RenderFails, UploadFails, CompareFails, Abandon,
        allVars
  <2>4. TransferNext
    BY <2>3 DEF TransferNext, Report, VerifierInv, VerifierTypeOK
  <2> QED
    BY <2>4, NewDownloadHasTime DEF VerifierInv
<1> QED
  BY <1>1, VerifierInitial, VerifierKeeps, PTL DEF VerifierSpec, DownloadHasTime

\* A match is the provider's own work, for any number of frames and any files that earlier
\* orders have left, relics excepted.
THEOREM MatchesAreDeserved == VerifierSpec => []MatchIsDeserved
<1>1. VerifierInv => MatchIsDeserved
  BY DEF VerifierInv, VerdictInv
<1> QED
  BY <1>1, VerifierInitial, VerifierKeeps, PTL DEF VerifierSpec

\* A mismatch is the provider's fault, unless the storage has refused a download.
THEOREM MismatchesAreDeserved == VerifierSpec => []MismatchIsDeserved
<1>1. VerifierInv => MismatchIsDeserved
  BY DEF VerifierInv, VerdictInv
<1> QED
  BY <1>1, VerifierInitial, VerifierKeeps, PTL DEF VerifierSpec

\* Once a verification is ordered the subtask fails by a MISMATCH only.
THEOREM FailuresAreVerdicts == VerifierSpec => []FailureIsByVerdict
<1>1. VerifierInv => FailureIsByVerdict
  BY DEF VerifierInv, VerdictInv
<1> QED
  BY <1>1, VerifierInitial, VerifierKeeps, PTL DEF VerifierSpec

-----------------------------------------------------------------------------
(* The refinement. *)

\* What an order's own steps do to its status.
LEMMA OwnSteps ==
  ASSUME Work \/ RenderFrame \/ Failure \/ Abandon, ~TakeOrder
  PROVE  IsRunning /\ stage' # "idle"
<1> USE DEF IsRunning, At, Goto, Leave, Fail, Mismatch, Send, Continue
<1>1. CASE DownloadSource \/ DownloadResult
  BY <1>1 DEF DownloadSource, DownloadResult, Download
<1>2. CASE ValidateDownloadedArchives \/ UnpackArchives \/ MatchFrames
  BY <1>2 DEF ValidateDownloadedArchives, UnpackArchives, MatchFrames
<1>3. CASE DeleteSource \/ UploadOutput \/ RenderFrame
  BY <1>3 DEF DeleteSource, UploadOutput, RenderFrame
<1>4. CASE Compare
  BY <1>4 DEF Compare
<1>5. CASE Failure
  BY <1>5 DEF Failure, DownloadFails, RenderFails, UploadFails, CompareFails
<1>6. CASE Abandon
  BY <1>6 DEF Abandon
<1> QED
  BY <1>1, <1>2, <1>3, <1>4, <1>5, <1>6 DEF Work

LEMMA StepIsPromised ==
  ASSUME VerifierInv, VerifierInv', [VerifierNext]_allVars
  PROVE  [Promise!Next]_OrderStatus
<1> USE DEF Promise!Next
<1>1. CASE (TransferStep \/ Report) /\ UNCHANGED verifierVars
  <2>1. stage' = stage /\ verdict' = verdict
    BY <1>1 DEF verifierVars
  <2>2. CASE stage # "idle"
    BY <2>1, <2>2 DEF OrderStatus
  <2>3. CASE stage = "idle" /\ ordered
    <3>1. ordered'
      BY <1>1, <2>3, OrderedStays DEF VerifierInv, VerdictInv
    <3> QED
      BY <2>1, <2>3, <3>1 DEF OrderStatus
  <2>4. CASE stage = "idle" /\ ~ordered
    BY <2>1, <2>4 DEF OrderStatus, Promise!Order
  <2> QED
    BY <2>2, <2>3, <2>4
<1>2. CASE TakeOrder
  <2>1. OrderStatus = "ordered" /\ OrderStatus' = "taken"
    BY <1>2 DEF TakeOrder, IsOrdered, Goto, OrderStatus
  <2> QED
    BY <2>1 DEF Promise!Take
<1>3. CASE (Work \/ RenderFrame \/ Failure \/ Abandon) /\ ~TakeOrder
  <2>1. IsRunning /\ stage' # "idle"
    BY <1>3, OwnSteps
  <2>2. OrderStatus = "taken"
    BY <2>1 DEF IsRunning, OrderStatus
  <2>3. CASE stage' = "done"
    <3>1. OrderStatus' = verdict'
      BY <2>3 DEF OrderStatus
    <3>2. verdict' \in {"MATCH", "MISMATCH", "ERROR"}
      BY <2>3 DEF VerifierInv, VerifierTypeOK, Verdict
    <3> QED
      BY <2>2, <3>1, <3>2 DEF Promise!Decide
  <2>4. CASE stage' = "lost"
    <3>1. OrderStatus' = "lost"
      BY <2>4 DEF OrderStatus
    <3> QED
      BY <2>2, <3>1 DEF Promise!Lose
  <2>5. CASE stage' \notin {"done", "lost"}
    BY <2>1, <2>2, <2>5 DEF OrderStatus
  <2> QED
    BY <2>3, <2>4, <2>5
<1>4. CASE UNCHANGED allVars
  BY <1>4 DEF allVars, verifierVars, transferVars, OrderStatus
<1> QED
  BY <1>1, <1>2, <1>3, <1>4 DEF VerifierNext

\* An order is taken once the core has the files, and has at most one verdict: every step is
\* one of VerificationOrder, or leaves the status of the order as it is.
THEOREM OrderIsImplemented == VerifierSpec => ImplementsOrder
<1>1. VerifierInit => Promise!Init
  BY DEF VerifierInit, TransferInit, Promise!Init, OrderStatus
<1>2. VerifierInv /\ VerifierInv' /\ [VerifierNext]_allVars => [Promise!Next]_OrderStatus
  BY StepIsPromised
<1> QED
  BY <1>1, <1>2, VerifierInitial, VerifierKeeps, PTL
  DEF VerifierSpec, ImplementsOrder, Promise!Spec
=============================================================================
