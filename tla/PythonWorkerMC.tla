--------------------------- MODULE PythonWorkerMC ---------------------------
(* PythonWorker for TLC.  No symmetry: claims are numbers. *)
EXTENDS PythonWorker
=============================================================================
