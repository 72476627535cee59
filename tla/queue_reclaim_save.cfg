CONSTANTS
    SegmentMaximum = 2
    CounterMaximum = 3
    MaxRecords = 5
    MaxCrashes = 2
    Faults = {"reclaimSave"}
SPECIFICATION Spec
INVARIANT NoSilentLoss
CHECK_DEADLOCK FALSE
