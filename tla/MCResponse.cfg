SPECIFICATION Spec
CONSTANTS
    Responses <- PlainResponses
    MaxServed = 3
    Unset = Unset
INVARIANTS
    OwnResponseOnly
    ObservesWholeBody
    
CHECK_DEADLOCK FALSE
