SPECIFICATION Spec
CONSTANTS
    Messages = {m1, m2}
    Expiring = {m2}
    Capacity = 2
    MaxFaults = 2
    NoMessage = NoMessage
INVARIANTS
    TypeOK
    AckedIsPersisted
    CompletedOnce
CHECK_DEADLOCK FALSE
