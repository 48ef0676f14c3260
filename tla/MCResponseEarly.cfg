SPECIFICATION Spec
CONSTANTS
    Responses <- EarlyResponses
    MaxServed = 1
    Unset = Unset
INVARIANT CallsAsDocumented
CHECK_DEADLOCK FALSE
