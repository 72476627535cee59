CONSTANTS
    MaxVersion = 2
    MaxLocal = 1
    MaxFaults = 1
    Deadline = 2
    HealthyFor = 1
    Fresh = 1
    Chunks = 1
    MaxUpdates = 2
SPECIFICATION FairSpec
INVARIANTS BootableImage ReportedIsDurable VersionsAreWhole
PROPERTIES ConfirmedOnlyHealthy ConfigurationConverges PendingResolved
CHECK_DEADLOCK FALSE
