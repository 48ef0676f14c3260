SPECIFICATION Spec
CONSTANTS
    Plans <- OutlivingPlans
    r1 = r1
    r2 = r2
    r3 = r3
    Requests = {r1, r2, r3}
    Filters = {f1, f2}
    Writers = {w1, w2}
    Outlives = TRUE
    MaxCallouts = 1
    None = None
INVARIANT SafeFromGo
CHECK_DEADLOCK FALSE
