CONSTANTS
    SegmentMaximum = 2
    CounterMaximum = 3
    MaxRecords = 5
    MaxCrashes = 2
    Faults = {"mount", "create", "repair", "beginSave", "open", "dropSave", "truncate", "popSave"}
SPECIFICATION Spec
INVARIANTS NoSilentLoss OnlyIncompleteQuarantined
PROPERTY ImplementsDurableFifo
CHECK_DEADLOCK FALSE
