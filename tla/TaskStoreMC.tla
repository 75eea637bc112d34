----------------------------- MODULE TaskStoreMC -----------------------------
(* TaskStore with its symmetries: ids are interchangeable. *)
EXTENDS TaskStoreProperties, TLC

Symmetry == Permutations(Task) \cup Permutations(Run)
              \cup Permutations(Worker) \cup Permutations(Upkeeper)
==============================================================================
