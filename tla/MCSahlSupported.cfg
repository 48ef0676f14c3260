SPECIFICATION FairSpec
CONSTANTS
    Profiles <- AllProfiles
    MaxQueued = 2
    MaxEvents = 2
INVARIANTS
    PausedWhileAsync
    HandlerBeforeForward
    MutationsAtMostOnce
    AnsweredUntouched
    HeldHasDecider
PROPERTIES
    ReleaseCarriesAll
    ImplementsOutcome
    HeldIsResolved
    BodyAwareHandlerRuns
    NothingAfterComplete
    DisconnectEndsGoroutine
CHECK_DEADLOCK FALSE
