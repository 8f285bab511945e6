\* One session of two laps: repeated, lost and replayed history packets, a
\* change by the game, its end, a restart of ingest and a lost message.
CONSTANTS
    s1 = s1
    a = a
    b = b
    Sessions <- OneSession
    Values <- TwoValues
    Partial = Partial
    None = None
    MaxLap = 2
    MaxDatagrams = 1
    MaxChanges = 1
    MaxCaptures = 1
    MaxRestarts = 1
    MaxLosses = 1
SPECIFICATION FairSpec
INVARIANTS
    TypeOK
    CacheIsBacked
    RowsWereReported
    StaleRowsCostAChange
PROPERTY LapsEventuallyStored
