SPECIFICATION Spec
CONSTANTS
    Devices = {d1, d2}
    Slots = {c1, c2}
    Tokens = {t1}
    Numbers = {n1}
    Returned <- AllAlike
    NoDev = NoDev
    NoSlot = NoSlot
    NoToken = NoToken
    Torn = Torn
    Reports = {"LOGIN", "GPS"}
    MaxIn = 1
    MaxOut = 1
SYMMETRY Symmetry
INVARIANTS
    TypeOK
    SessionConsistent
    NoCrossTalk
PROPERTIES
    ServiceSpec
    PresenceSpec
