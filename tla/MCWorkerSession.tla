-------------------------- MODULE MCWorkerSession --------------------------
(* Instances of WorkerSession: a worker with one resource, or with two. *)
EXTENDS WorkerSession, TLC

CONSTANTS r1, r2

OneResource == <<r1>>
TwoResources == <<r1, r2>>

=============================================================================
