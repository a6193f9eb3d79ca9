--------------------------- MODULE TokenRotation ---------------------------
(***************************************************************************)
(* What the rotation of a provider's token promises (provider-token-       *)
(* rotation-store.ts): one state per tenant that its operators change one  *)
(* transition at a time. A token that is active, or kept to go back to, is *)
(* given up only by naming it.                                             *)
(***************************************************************************)
CONSTANTS Tenants, None, TokenIds

VARIABLE tokens   \* the rotation state of each tenant, or None

State(active, candidate, retiring) ==
  [status |-> "rotation", active |-> active, candidate |-> candidate, retiring |-> retiring]

Operations == {"stageCandidate", "promoteCandidate", "abortCandidate", "rollbackToRetiring", "finalizeRetiring"}

(***************************************************************************)
(* Otherwise invalidTransition is thrown.                                  *)
(***************************************************************************)
allowed(state, operation, id) ==
  \/ operation = "stageCandidate" /\ state.candidate = None /\ state.retiring = None /\ id # state.active
  \/ operation = "promoteCandidate" /\ state.candidate = id /\ state.retiring = None
  \/ operation = "abortCandidate" /\ state.candidate = id
  \/ operation = "rollbackToRetiring" /\ state.retiring = id /\ state.candidate = None
  \/ operation = "finalizeRetiring" /\ state.retiring = id

next(state, operation, id) ==
  CASE operation = "stageCandidate" -> State(state.active, id, None)
    [] operation \in {"promoteCandidate", "rollbackToRetiring"} -> State(id, None, state.active)
    [] operation \in {"abortCandidate", "finalizeRetiring"} -> State(state.active, None, None)

initialize(t) ==
  /\ tokens[t] = None
  /\ \E id \in TokenIds : tokens' = [tokens EXCEPT ![t] = State(id, None, None)]

mutate(t) ==
  /\ tokens[t] # None
  /\ \E operation \in Operations, id \in TokenIds :
        /\ allowed(tokens[t], operation, id)
        /\ tokens' = [tokens EXCEPT ![t] = next(@, operation, id)]

Init == tokens = [t \in Tenants |-> None]
Next == \E t \in Tenants : initialize(t) \/ mutate(t)
Spec == Init /\ [][Next]_tokens
=============================================================================
