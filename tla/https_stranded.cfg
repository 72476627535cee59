CONSTANTS
    MaxRequests = 3
    MaxOutages = 0
SPECIFICATION FairSpec
PROPERTY ManagementServed
