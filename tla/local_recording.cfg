CONSTANTS
    MaxDay = 2
    FlushRows = 2
    MaxItems = 6
    MaxShort = 2
    MaxResets = 1
SPECIFICATION RecordingSpec
INVARIANTS RowsStayWhole LossBounded
