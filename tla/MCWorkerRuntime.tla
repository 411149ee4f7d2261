-------------------------- MODULE MCWorkerRuntime --------------------------
(* Instances of WorkerRuntime for TLC.                                      *)
EXTENDS WorkerRuntime
=============================================================================
