SPECIFICATION FairSpec
CONSTANTS
    o1 = o1
    x1 = x1
    x2 = x2
    x3 = x3
    Operations = {o1}
    Contexts = {x1, x2, x3}
    Deliveries <- OneOrTwoContexts
    Correlation <- TheCorrelation
    NoContext = NoContext
    NoMessage = NoMessage
    NoObservation = NoObservation
    Device = "device"
    Worlds <- TheWorlds
    Others = {"A"}
    MaxFaults = 2
INVARIANTS
    TypeOK
    PressIsDecided
    AimIsJustified
    MissedOnlyIfMoved
    EvidenceMatchesDevice
PROPERTIES
    RefusedStaysRefused
    AnsweredAfterRestart
    ImplementsSingleShot
CHECK_DEADLOCK FALSE
