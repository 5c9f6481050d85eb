SPECIFICATION Spec
CONSTANTS
    Devices <- Imeis
    Conns = {c1, c2}
    Objs = {o1, o2, o3}
    NULL = null
    Torn = torn
    Limit = 2
    MaxRows = 2
    MaxLives = 3
SYMMETRY Symmetry
INVARIANTS
    TypeOK
    BoundToOwn
    OneRowPerMiss
    RestoredAreKnown
    OnlyRacesBreak
PROPERTY NeverReplaced
CHECK_DEADLOCK FALSE
