--------------------------- MODULE MCCoordinator ---------------------------
(* Instances of Coordinator: one worker with two boots. *)
EXTENDS Coordinator, TLC

CONSTANTS w1, b1, b2, c1, c2

MCWorkerOf == [b \in {b1, b2} |-> w1]

=============================================================================
