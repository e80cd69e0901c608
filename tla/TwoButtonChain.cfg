SPECIFICATION FairSpec
CONSTANTS
    ref = ref
    ref2 = ref2
    now = now
    now2 = now2
    i1 = i1
    i2 = i2
    e1 = e1
    e2 = e2
    Observations = {ref, ref2, now, now2}
    Intents = {i1, i2}
    Effects = {e1, e2}
    Scenarios <- AllScenarios
    Device = "device"
    NoMessage = NoMessage
    NoIntent = NoIntent
    NoBundle = NoBundle
    NoContext = NoContext
    NoProof = NoProof
INVARIANTS
    TypeOK
    AdmittedOnEvidence
    ShownIsFirstProof
PROPERTIES
    ChainCompletes
    OneAdmission
    ProofIsFinal
    DivergenceIsRecorded
CHECK_DEADLOCK FALSE
