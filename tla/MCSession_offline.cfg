SPECIFICATION Spec
CONSTANTS
    Devices = {d1}
    Slots = {c1, c2}
    Tokens = {}
    Numbers = {n1}
    Returned <- AllAlike
    NoDev = NoDev
    NoSlot = NoSlot
    NoToken = NoToken
    Torn = Torn
    Reports = {"LOGIN", "GPS"}
    MaxIn = 1
    MaxOut = 1
INVARIANT OfflineMeansGone
