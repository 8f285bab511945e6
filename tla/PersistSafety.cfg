\* Safety, with one database fault and a shutdown at any moment.
CONSTANTS
    vehicle = vehicle
    wheels = wheels
    laps = laps
    v1 = v1
    v2 = v2
    vn = vn
    w1 = w1
    wn = wn
    l1 = l1
    l2 = l2
    x = x
    NoTable = NoTable
    LapTable = laps
    CloseOrder <- MixedOrder
    Deliveries <- MixedDeliveries
    TableOf <- MixedTable
    LapKey <- MixedKey
    VehicleTable = vehicle
    WheelTable = wheels
    Unset <- MixedUnset
    BatchSize = 2
    ChanCap = 1
    MaxFaults = 1
SPECIFICATION Spec
SYMMETRY MixedSymmetry
INVARIANTS
    TypeOK
    NoLeakedLock
    StoredOnceInItsTable
    NothingForgotten
    LossBoundedByFaults
    BatchBound
    CrashOnlyAtShutdown
\* The process ends on a signal or a crash.
CHECK_DEADLOCK FALSE
