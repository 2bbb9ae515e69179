--------------------------- MODULE MCQueueManager ---------------------------
(***************************************************************************)
(* The instance of QueueManager that TLC checks: calls, consumers and      *)
(* Managers are interchangeable.                                           *)
(***************************************************************************)
EXTENDS QueuePromise, TLC

Symmetry == Permutations(Manager) \cup Permutations(Consumer) \cup Permutations(Call)

=============================================================================
