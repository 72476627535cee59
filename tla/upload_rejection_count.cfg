CONSTANTS
    MaxRecords = 2
    MaxCrashes = 0
    Capacity = 3
    BatchMaximum = 2
    Slots = 1
    Invalid = {1}
SPECIFICATION Spec
INVARIANT RejectionsAreCounted
