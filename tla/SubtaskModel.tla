--------------------------- MODULE SubtaskModel ---------------------------
(***************************************************************************)
(* The Subtask table of the control database (core/models.py): its states, *)
(* the tables that say which transitions and which related messages are    *)
(* legal, and Subtask.clean(), which every save() runs first.              *)
(*                                                                         *)
(* A row is abstracted to what the handlers branch on: the state, the      *)
(* deadline, the size class of the stored ReportComputedTask ("package"),  *)
(* the set of optional related messages that are not NULL and the          *)
(* result_upload_finished flag.                                            *)
(***************************************************************************)
EXTENDS Integers

CONSTANT Package           \* size classes of a ReportComputedTask

ASSUME PackageAssumption == Package # {}

ActiveStates ==
  {"FORCING_REPORT", "FORCING_RESULT_TRANSFER", "FORCING_ACCEPTANCE",
   "ADDITIONAL_VERIFICATION", "VERIFICATION_FILE_TRANSFER"}

PassiveStates ==
  {"REPORTED", "RESULT_UPLOADED", "REJECTED", "ACCEPTED", "FAILED"}

SubtaskState == ActiveStates \union PassiveStates

\* The state of a subtask Concent has never been asked about (None in the code).
Unknown == "UNKNOWN"

PossibleTransitionsTo ==
  [st \in SubtaskState |->
     CASE st = "FORCING_REPORT"             -> {Unknown}
       [] st = "REPORTED"                   -> {"FORCING_REPORT"}
       [] st = "FORCING_RESULT_TRANSFER"    -> {Unknown, "REPORTED"}
       [] st = "RESULT_UPLOADED"            -> {"FORCING_RESULT_TRANSFER"}
       [] st = "FORCING_ACCEPTANCE"         -> {Unknown, "REPORTED", "RESULT_UPLOADED"}
       [] st = "REJECTED"                   -> {"FORCING_ACCEPTANCE"}
       [] st = "VERIFICATION_FILE_TRANSFER" -> {Unknown, "REPORTED", "RESULT_UPLOADED",
                                                "FORCING_ACCEPTANCE", "REJECTED"}
       [] st = "ADDITIONAL_VERIFICATION"    -> {"VERIFICATION_FILE_TRANSFER"}
       [] st = "ACCEPTED"                   -> {"FORCING_ACCEPTANCE", "ADDITIONAL_VERIFICATION"}
       [] st = "FAILED"                     -> {"FORCING_REPORT", "FORCING_RESULT_TRANSFER",
                                                "VERIFICATION_FILE_TRANSFER",
                                                "ADDITIONAL_VERIFICATION"}]

\* Mutant: an accepted subtask may be verified again.
VerifyAgainPossible(to, from) ==
  \/ from \in PossibleTransitionsTo[to]
  \/ to = "VERIFICATION_FILE_TRANSFER" /\ from = "ACCEPTED"

IsStateTransitionPossible(to, from) == from \in PossibleTransitionsTo[to]

\* The nullable related messages; task_to_compute, want_to_compute_task and
\* report_computed_task are columns that are always set.
RelatedMessage ==
  {"ack_report_computed_task", "reject_report_computed_task",
   "subtask_results_accepted", "subtask_results_rejected",
   "force_get_task_result", "subtask_results_verify"}

\* The messages that may not be NULL in a state.
Required(st) ==
  CASE st = "REJECTED"                   -> {"subtask_results_rejected"}
    [] st = "FORCING_RESULT_TRANSFER"    -> {"force_get_task_result"}
    [] st = "RESULT_UPLOADED"            -> {"force_get_task_result"}
    [] st = "VERIFICATION_FILE_TRANSFER" -> {"subtask_results_verify"}
    [] OTHER                             -> {}

\* The messages that must be NULL in a state.
Unset(st) ==
  CASE st = "FORCING_REPORT"          -> RelatedMessage
    [] st = "REPORTED"                -> {"subtask_results_accepted", "subtask_results_rejected",
                                          "force_get_task_result"}
    [] st = "FORCING_RESULT_TRANSFER" -> {"subtask_results_accepted", "subtask_results_rejected",
                                          "subtask_results_verify"}
    [] st \in {"RESULT_UPLOADED", "FORCING_ACCEPTANCE"}
                                      -> {"subtask_results_accepted", "subtask_results_rejected"}
    [] OTHER                          -> {}

NULL == -1                 \* a NULL next_deadline

Row == [state    : SubtaskState \union {Unknown},
        deadline : Int,
        package  : Package,
        messages : SUBSET RelatedMessage,
        uploaded : BOOLEAN]

\* A row that is not in the table.
NoRow == [state |-> Unknown, deadline |-> NULL, package |-> CHOOSE p \in Package : TRUE,
          messages |-> {}, uploaded |-> FALSE]

(***************************************************************************)
(* Subtask.clean().  "loaded" is the state the object had when it was read *)
(* from the database (Unknown for an object being added): the transition   *)
(* check compares with that value and not with the table's current one.    *)
(***************************************************************************)
DeadlineMatchesState(r) == (r.state \in ActiveStates) <=> (r.deadline # NULL)

AckOrReject(r) ==
  ~ {"ack_report_computed_task", "reject_report_computed_task"} \subseteq r.messages

MessagesMatchState(r) ==
  /\ Required(r.state) \subseteq r.messages
  /\ Unset(r.state) \intersect r.messages = {}

\* Mutant: the state an object was read in is not compared with the new one.
CleanWithoutTransition(loaded, r, softShutdown) ==
  /\ ~ (softShutdown /\ r.state \in ActiveStates)
  /\ DeadlineMatchesState(r) /\ AckOrReject(r) /\ MessagesMatchState(r)

Clean(loaded, r, softShutdown) ==
  /\ ~ (softShutdown /\ r.state \in ActiveStates)
  /\ DeadlineMatchesState(r)
  /\ loaded \in {Unknown, r.state} \/ IsStateTransitionPossible(r.state, loaded)
  /\ AckOrReject(r)
  /\ MessagesMatchState(r)

(***************************************************************************)
(* What update_and_return_updated_subtask() writes.  set_subtask_messages()*)
(* sets a related message only when the column is NULL, except that a      *)
(* ReportComputedTask may be replaced in FORCING_REPORT; clean() refuses a  *)
(* result_package_size other than the stored ReportComputedTask's.         *)
(***************************************************************************)
PackageFits(r, p) == r.state = "FORCING_REPORT" \/ r.package = p

\* Mutant: the new related messages are not stored.
UpdatedWithoutMessages(r, st, deadline, p, new) ==
  [state |-> st, deadline |-> deadline, package |-> p, messages |-> r.messages,
   uploaded |-> r.uploaded]

Updated(r, st, deadline, p, new) ==
  [state |-> st, deadline |-> deadline, package |-> p, messages |-> r.messages \union new,
   uploaded |-> r.uploaded]

WithState(r, st, deadline) == Updated(r, st, deadline, r.package, {})

Stored(st, deadline, p, new) ==
  [state |-> st, deadline |-> deadline, package |-> p, messages |-> new, uploaded |-> FALSE]
=============================================================================
