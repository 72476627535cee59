CONSTANTS
    MaxChallenges = 2
    MaxRotations = 1
    MaxFailures = 1
    MaxCrashes = 1
SPECIFICATION FairSpec
INVARIANTS CredentialKept SessionKept PromotedOnlyAccepted SavedOfChallenge
PROPERTY SavedIsResolved
