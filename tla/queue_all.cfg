CONSTANTS
    SegmentMaximum = 2
    CounterMaximum = 3
    MaxRecords = 4
    MaxCrashes = 2
    Faults = {"mount", "create", "repair", "beginSave", "open", "shortAppend",
              "dropSave", "truncate", "rotateSave", "popSave", "reclaimSave",
              "metadataLoss", "decay"}
SPECIFICATION Spec
INVARIANTS TypeOK CommittedNotReplayed QuarantineNotOverstated
CHECK_DEADLOCK FALSE
