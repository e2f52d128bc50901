------------------------- MODULE SubtaskLifecycle -------------------------
(***************************************************************************)
(* What the Subtask model promises (core/models.py: "State transition can  *)
(* happen only by defined rule"): seen from outside, a subtask is a state  *)
(* that moves along POSSIBLE_TRANSITIONS_TO, one subtask at a time.        *)
(***************************************************************************)
EXTENDS SubtaskModel

CONSTANT Subtask

VARIABLE state

TypeOK == state \in [Subtask -> SubtaskState \union {Unknown}]

Init == state = [s \in Subtask |-> Unknown]

Move(s, st) ==
  /\ IsStateTransitionPossible(st, state[s])
  /\ state' = [state EXCEPT ![s] = st]

Next == \E s \in Subtask, st \in SubtaskState : Move(s, st)

Spec == Init /\ [][Next]_state

\* ACCEPTED and FAILED are final: no transition leaves them.
FinalStates == {"ACCEPTED", "FAILED"}

FinalIsFinal == [][\A s \in Subtask : state[s] \in FinalStates => state'[s] = state[s]]_state
=============================================================================
