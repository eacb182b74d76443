--------------------------- MODULE MCWorkerProcess ---------------------------
(* WorkerProcess with two versions of the target.                           *)
EXTENDS WorkerProcess
=============================================================================
