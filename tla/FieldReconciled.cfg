SPECIFICATION Spec
CONSTANTS
    Intents = {i1, i2}
    Operations = {o1, o2}
    Expiring = {i1, i2}
    Fixture = FALSE
    MaxFaults = 1
    NoMessage = NoMessage
    NoOperation = NoOperation
SYMMETRY Alike
INVARIANTS
    TypeOK
    OneDecisionPerOperation
    ShownTerminalIsTrue
    ReconciledByEvidence
    ForwardedOnce
PROPERTIES
    ShownTerminalStable
    ShownRevisionGrows
CHECK_DEADLOCK FALSE
