SPECIFICATION Spec
CONSTANTS
    Trackers = {t1}
    Probes = {p1}
    Threads = {mqtt, yunba}
    Handlers = {curl}
    Yunba = yunba
    Descriptors = {3, 4, 5}
    NONE = none
    NOBODY = nobody
    MaxFailures = 2
    Deferred = TRUE
INVARIANTS
    TypeOK
    OwnDescriptors
    OnlyVainAcceptsLeak
