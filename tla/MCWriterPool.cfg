SPECIFICATION FairSpec
CONSTANTS
    Plans <- SharingPlans
    r1 = r1
    r2 = r2
    r3 = r3
    Requests = {r1, r2, r3}
    Filters = {f1, f2}
    Writers = {w1, w2}
    Outlives = FALSE
    MaxCallouts = 2
    None = None
INVARIANTS
    OwnEffects
    Exclusive
    NoPanic
    CancelledByOwnEnd
    WorkerNeverBlocks
    DoAnswersItsCall
    LoneAppendsAreApplied
    ReleasedIsLast
    DoCanReturn
PROPERTIES
    ImplementsOutcomes
    DoReturns
CHECK_DEADLOCK FALSE
