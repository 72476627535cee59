CONSTANTS
    MaxVersions = 1
    MaxFailures = 1
    MaxCrashes = 1
    Unreadable = TRUE
SPECIFICATION Spec
INVARIANT BearerSurvives
