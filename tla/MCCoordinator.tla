--------------------------- MODULE MCCoordinator ---------------------------
(***************************************************************************)
(* The coordinator for TLC: two operators verify each other, and change    *)
(* their descriptors while they are paid.                                  *)
(***************************************************************************)
EXTENDS Coordinator, MCBlockTransition

MCPayoutScore(q, seed, key) == (key + seed[2]) % Cardinality(ServiceKey)

Addresses == Permutations(Binding)

MCCoordinatorNext ==
    CoordinatorStep(CandidateIds, CandidateRecords, CandidateLeases, CandidateReceipts)

MCCoordinatorSpec == HistoryInit /\ [][MCCoordinatorNext]_historyVars

=============================================================================
