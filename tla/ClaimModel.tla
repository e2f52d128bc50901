----------------------------- MODULE ClaimModel -----------------------------
(***************************************************************************)
(* The DepositClaim table (core/models.py) as far as the core and Bankster *)
(* share it: which claims there can be for a subtask.  unique_together     *)
(* makes (subtask, use case, payee) a key, and in these use cases the      *)
(* payee follows from the payer: the requestor pays the provider, the      *)
(* provider pays Concent.                                                  *)
(***************************************************************************)
CONSTANTS
  Subtask,
  ProviderIsCharged   \* settings.ADDITIONAL_VERIFICATION_COST > 0

ASSUME ClaimAssumption == ProviderIsCharged \in BOOLEAN

UseCase == {"FORCED_ACCEPTANCE", "ADDITIONAL_VERIFICATION"}
Payer   == {"requestor", "provider"}

ClaimKey == Subtask \X UseCase \X Payer

\* The claims that claim_deposit() makes for a use case.
ClaimsOf(s, use) ==
  {<<s, use, "requestor">>} \union
  (IF use = "ADDITIONAL_VERIFICATION" /\ ProviderIsCharged
   THEN {<<s, use, "provider">>} ELSE {})

\* No claim, a claim without tx_hash, a claim with tx_hash.
ClaimStatus == {"none", "open", "sent"}
=============================================================================
