-------------------------- MODULE MCWorkerSession ---------------------------
(* One task, with two calls of the host or the operator at a time. *)
EXTENDS WorkerSession
CONSTANTS c1, c2
MCCallers == {c1, c2}
=============================================================================
