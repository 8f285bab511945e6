\* Liveness, and the ways a shutdown can hang.
CONSTANTS
    motion = motion
    lapTimes = lapTimes
    Topics <- TwoTopics
    LapTopic = lapTimes
    Ignored = Ignored
    Malformed = Malformed
    BufferCap = 1
    ChanCap = 1
    MaxPackets = 2
    MaxLaps = 2
    MaxDrops = 1
    MaxErrors = 0
SPECIFICATION FairSpec
PROPERTIES
    EventuallySettled
    StopsOrSticks
\* All goroutines may stop.
CHECK_DEADLOCK FALSE
