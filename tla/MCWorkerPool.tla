---------------------------- MODULE MCWorkerPool ----------------------------
(* WorkerPool with three workers and two jobs.                             *)
EXTENDS WorkerPool

CONSTANTS w1, w2, w3, j1, j2
=============================================================================
