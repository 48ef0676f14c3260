SPECIFICATION Spec
CONSTANTS
    Profiles <- ObserverProfiles
    MaxQueued = 1
    MaxEvents = 1
INVARIANT MutationsAtMostOnce
CHECK_DEADLOCK FALSE
