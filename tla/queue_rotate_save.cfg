CONSTANTS
    SegmentMaximum = 2
    CounterMaximum = 3
    MaxRecords = 5
    MaxCrashes = 2
    Faults = {"rotateSave"}
SPECIFICATION Spec
INVARIANT DropsAreOldest
CHECK_DEADLOCK FALSE
