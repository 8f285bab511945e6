\* Safety: any three packets, one lost connection, one token error, and a
\* cancellation at any moment.
CONSTANTS
    motion = motion
    lapTimes = lapTimes
    Topics <- TwoTopics
    LapTopic = lapTimes
    Ignored = Ignored
    Malformed = Malformed
    BufferCap = 1
    ChanCap = 1
    MaxPackets = 3
    MaxLaps = 2
    MaxDrops = 1
    MaxErrors = 1
SPECIFICATION Spec
INVARIANTS
    TypeOK
    StreamIntact
    ReceivedInOrder
    StopsTogether
\* All goroutines may stop.
CHECK_DEADLOCK FALSE
