CONSTANTS
    MaxChallenges = 2
    MaxRotations = 1
    MaxFailures = 0
    MaxCrashes = 0
SPECIFICATION Spec
INVARIANT CredentialSurvives
