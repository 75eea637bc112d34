-------------------------- MODULE WorkerPipelineMC --------------------------
(* WorkerPipeline for TLC.  No symmetry: the runs check liveness. *)
EXTENDS WorkerPipeline
=============================================================================
