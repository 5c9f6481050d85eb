SPECIFICATION FairSpec
CONSTANTS
    Devices = {d1, d2}
    MaxSignals = 2
    MaxPieces = 2
INVARIANTS
    TypeOK
    SubscribedUnlessMissed
PROPERTIES
    StopsOnSignal
    CommandsFlowAgain
    PileStopsGrowing
\* The process ends.
CHECK_DEADLOCK FALSE
