CONSTANTS
    Builds = {TRUE, FALSE}
    MaxEpochs = 3
    MaxFailures = 3
    MaxCrashes = 2
SPECIFICATION FairSpec
INVARIANTS NetworkUsesStored NoFormerOwner WritesAfterErasure
PROPERTY ResetFinishes
