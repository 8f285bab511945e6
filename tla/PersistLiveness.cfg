\* Liveness under the fairness of select, channels and writes, and the
\* abstract at-most-once sink the batching layer implements.
CONSTANTS
    vehicle = vehicle
    wheels = wheels
    laps = laps
    v1 = v1
    v2 = v2
    vn = vn
    w1 = w1
    wn = wn
    l1 = l1
    l2 = l2
    x = x
    NoTable = NoTable
    LapTable = laps
    CloseOrder <- SteadyOrder
    Deliveries <- SteadyDeliveries
    TableOf <- SteadyTable
    LapKey <- SteadyKey
    VehicleTable = vehicle
    WheelTable = wheels
    Unset <- SteadyUnset
    BatchSize = 2
    ChanCap = 1
    MaxFaults = 1
SPECIFICATION FairSpec
PROPERTIES
    EventuallySettled
    Terminates
    ImplementsSink
\* The process ends on a signal or a crash.
CHECK_DEADLOCK FALSE
