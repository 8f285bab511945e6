----------------------------- MODULE MCPipeline -----------------------------
(* A small instance of Pipeline: two replicas and a piece of telemetry.     *)
EXTENDS Pipeline

CONSTANTS p1, p2

TwoReplicas == {p1, p2}
AllAttempts == Telemetry \X (1..(1 + MaxFaults))
=============================================================================
