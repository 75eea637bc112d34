------------------------ MODULE EventTransactionsMC ------------------------
(* EventTransactions with its symmetries, for TLC. *)
EXTENDS EventTransactions, TaskStoreProperties, TLC

Symmetry == Permutations(Task) \cup Permutations(Run) \cup Permutations(Worker)
              \cup Permutations(Emitter) \cup Permutations(Upkeeper)
============================================================================
