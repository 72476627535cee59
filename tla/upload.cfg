CONSTANTS
    MaxRecords = 4
    MaxCrashes = 1
    Capacity = 3
    BatchMaximum = 2
    Slots = 2
    Invalid = {1, 4}
SPECIFICATION FairSpec
INVARIANTS LeavesOnlyResolved ArchivedOnce RejectedNotRebatched
PROPERTY Drained
