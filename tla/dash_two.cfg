CONSTANTS
    Dashes = {d1, d2}
    None = None
    Parts = 2
    Modulus = 2
    Capacity = 1
    MaxEvents = 1
    MaxBoots = 1
    MaxResets = 0
    MaxLocal = 0
    MaxShort = 0
SPECIFICATION Spec
INVARIANT AckedIsStored
