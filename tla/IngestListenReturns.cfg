\* Does Listen return when its context is cancelled?
CONSTANTS
    motion = motion
    lapTimes = lapTimes
    Topics <- TwoTopics
    LapTopic = lapTimes
    Ignored = Ignored
    Malformed = Malformed
    BufferCap = 1
    ChanCap = 1
    MaxPackets = 3
    MaxLaps = 2
    MaxDrops = 0
    MaxErrors = 0
SPECIFICATION FairSpec
PROPERTY ListenReturns
\* All goroutines may stop.
CHECK_DEADLOCK FALSE
