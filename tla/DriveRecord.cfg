\* A drive of two laps, two packets, one of which may overtake another.
CONSTANTS
    Player = Player
    Rival = Rival
    RivalDrive <- RivalsDrive
    Times <- SomeTimes
    Minute = 2
    MaxLaps = 2
    MaxCuts = 1
    MaxPackets = 2
    MaxReorders = 1
SPECIFICATION Spec
INVARIANTS
    SessionRowsAreTrue
    LapMarkersAreTrue
    LiveRowsFollowTheDrive
    ReadingsKeepTheirPlace
\* The drive is over and every packet stored.
CHECK_DEADLOCK FALSE
