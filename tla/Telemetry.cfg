SPECIFICATION FairSpec
CONSTANTS
    Devices = {d1}
    Positions = {z, n, p1, p2}
    NoLon = {z, n}
    Zero = z
    MaxFailures = 3
INVARIANTS
    TypeOK
    SensorOfDevice
    RemadeOnlyAfterFailure
    CacheIsSaved
PROPERTIES
    TellsTheLastFix
    EventuallyCreated
