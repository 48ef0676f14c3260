SPECIFICATION FairSpec
CONSTANTS
    Profiles <- BodyAwareProfiles
    MaxQueued = 1
    MaxEvents = 1
PROPERTY StoppedHandlerRuns
CHECK_DEADLOCK FALSE
