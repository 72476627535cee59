CONSTANTS
    MaxVersions = 2
    MaxFailures = 2
    MaxCrashes = 2
    Unreadable = FALSE
SPECIFICATION FairSpec
INVARIANTS BearerInUse BearerSurvives CandidateWhole PromotedOnlyProved
PROPERTY RotationCompletes
