--------------------------- MODULE TransferTimes ---------------------------
(***************************************************************************)
(* The times of a file transfer: the settings they are computed from, as   *)
(* the system checks accept them (concent_api/system_check.py), and the    *)
(* functions that compute them (core/utils.py, core/transfer_operations.py,*)
(* core/models.py).  Instants and durations are whole seconds, and sizes   *)
(* are bytes.                                                              *)
(***************************************************************************)
EXTENDS Integers

CONSTANTS
  CMT,                  \* CONCENT_MESSAGING_TIME
  FAT,                  \* FORCE_ACCEPTANCE_TIME
  AVCT,                 \* ADDITIONAL_VERIFICATION_CALL_TIME
  LeadIn,               \* DOWNLOAD_LEADIN_TIME
  UploadRate,           \* MINIMUM_UPLOAD_RATE, in KB/s
  Multiplier,           \* ADDITIONAL_VERIFICATION_TIME_MULTIPLIER
  Threads,              \* BLENDER_THREADS
  SourceSize,           \* TaskToCompute.size
  ResultSize,           \* ReportComputedTask.size
  Timestamp,            \* TaskToCompute.timestamp
  ComputationDeadline   \* compute_task_def['deadline']

CheckMinimumUploadRate == UploadRate \in Nat /\ UploadRate >= 1
CheckDownloadLeadinTime == LeadIn \in Nat
CheckConcentsTimeSettings == CMT \in Nat /\ FAT \in Nat

\* This check is not registered.
CheckAdditionalVerificationCallTime == AVCT \in Nat

\* The check accepts every float.
CheckAdditionalVerificationTimeMultiplier == Multiplier \in Nat

\* The assertions of the functions below ask for a little more than the checks.
ASSUME TimesAssumption ==
  /\ CheckMinimumUploadRate
  /\ CheckDownloadLeadinTime /\ LeadIn > 0
  /\ CheckConcentsTimeSettings
  /\ CheckAdditionalVerificationCallTime
  /\ CheckAdditionalVerificationTimeMultiplier
  /\ Threads \in Nat \ {0}
  /\ SourceSize \in Nat \ {0} /\ ResultSize \in Nat \ {0}
  /\ Timestamp \in Nat /\ ComputationDeadline \in Nat /\ Timestamp <= ComputationDeadline

-----------------------------------------------------------------------------
MaximumDownloadTime(size) ==
  LET bytesPerSecond == UploadRate * 1024
  IN LeadIn + ((size + bytesPerSecond - 1) \div bytesPerSecond)

ResultTime == MaximumDownloadTime(ResultSize)

SubtaskVerificationTime ==
  4 * CMT + 3 * ResultTime + ((ComputationDeadline - Timestamp) \div 2)

ConcentVerificationTime == ((ComputationDeadline - Timestamp) * Multiplier) \div Threads

-----------------------------------------------------------------------------
(* The instants. *)

\* calculate_token_expiration_deadline()
TokenExpiration(operation) ==
  IF operation = "upload"
    THEN ComputationDeadline + 3 * CMT + 2 * ResultTime
    ELSE ComputationDeadline + SubtaskVerificationTime

\* calculate_token_expiration_deadline_for_verification_case()
VerificationTokenExpiration(rejectedAt) == rejectedAt + AVCT + ResultTime

\* SubtaskWithTimingColumnsManager computes the same in SQL, with floats: 'now' is an
\* integer, so what is left of a second does not matter.
DownloadDeadline == ComputationDeadline + SubtaskVerificationTime

\* message_handlers.py
ForceGetTaskResultDeadline == ComputationDeadline + 2 * CMT + ResultTime
TransferDeadline == ComputationDeadline + 2 * ResultTime + 3 * CMT
VerificationDeadline == ComputationDeadline + SubtaskVerificationTime
ForcingAcceptanceDeadline == VerificationDeadline + FAT
FilesDeadline(rejectedAt) == rejectedAt + AVCT + ResultTime
BlenderDeadline(rejectedAt) == FilesDeadline(rejectedAt) + ConcentVerificationTime
=============================================================================
