CONSTANTS
    Dashes = {d1}
    None = None
    Parts = 2
    Modulus = 3
    Capacity = 2
    MaxEvents = 2
    MaxBoots = 2
    MaxResets = 1
    MaxLocal = 1
    MaxShort = 1
SPECIFICATION FairSpec
INVARIANTS AckedIsStored StoredOnceInOrder
PROPERTY EventsDelivered
