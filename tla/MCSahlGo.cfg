SPECIFICATION FairSpec
CONSTANTS
    Profiles <- GoProfiles
    MaxQueued = 1
    MaxEvents = 1
PROPERTY GoWaitsOrSends
CHECK_DEADLOCK FALSE
