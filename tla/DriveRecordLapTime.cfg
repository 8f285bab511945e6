\* Is the lap time of a live row that of its lap?
CONSTANTS
    Player = Player
    Rival = Rival
    RivalDrive <- RivalsDrive
    Times <- SomeTimes
    Minute = 2
    MaxLaps = 2
    MaxCuts = 1
    MaxPackets = 2
    MaxReorders = 1
SPECIFICATION Spec
INVARIANT LapTimeIsCurrent
\* The drive is over and every packet stored.
CHECK_DEADLOCK FALSE
