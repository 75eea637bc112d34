---------------------------- MODULE AsyncWorkerMC ----------------------------
(* AsyncWorker for TLC.  No symmetry: claims are numbers. *)
EXTENDS AsyncWorker
=============================================================================
