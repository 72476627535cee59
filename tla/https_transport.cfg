CONSTANTS
    MaxRequests = 3
    MaxOutages = 1
SPECIFICATION FairSpec
INVARIANTS ExclusiveBuffers AnswersAreOwn BoundedBypass
PROPERTIES Served Answered
