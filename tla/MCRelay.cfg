SPECIFICATION Spec
CONSTANTS
    Devices = {d1, d2}
    Slots = {c1, c2, c3}
    NoDev = NoDev
    NoSlot = NoSlot
SYMMETRY Symmetry
INVARIANTS
    TypeOK
    SessionAlwaysLive
    OnlyRacesMisdeliver
    OnlyRacesCrash
PROPERTY PresenceSpec
\* A crash, or the stop, ends the process.
CHECK_DEADLOCK FALSE
