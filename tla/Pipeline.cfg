\* Two replicas that lose connections, fail to write and are restarted, and an
\* ingest that loses its connection or gets an error.
CONSTANTS
    p1 = p1
    p2 = p2
    Replicas <- TwoReplicas
    Messages <- AllAttempts
    MaxLosses = 1
    MaxRestarts = 1
    MaxTelemetry = 1
    MaxFaults = 2
SPECIFICATION PipelineSpec
INVARIANTS
    PipelineTypeOK
    HandledByOne
    LossIsExplained
    DuplicatesCostAnOutage
PROPERTIES StartsServing EventuallyStored
\* Everything may have happened.
CHECK_DEADLOCK FALSE
