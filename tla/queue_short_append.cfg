CONSTANTS
    SegmentMaximum = 2
    CounterMaximum = 3
    MaxRecords = 4
    MaxCrashes = 2
    Faults = {"shortAppend"}
SPECIFICATION Spec
INVARIANT OnlyIncompleteQuarantined
CHECK_DEADLOCK FALSE
