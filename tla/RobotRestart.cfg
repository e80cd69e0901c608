SPECIFICATION FairSpec
CONSTANTS
    c1 = c1
    c2 = c2
    c3 = c3
    e1 = e1
    e2 = e2
    e3 = e3
    e4 = e4
    a1 = a1
    a2 = a2
    o1 = o1
    o2 = o2
    Services = {s1}
    NoService = NoService
    Assignments = {a1}
    Envelopes = {e1}
    Contracts = {c1}
    Operations = {o1}
    NoContract = NoContract
    ContractOf <- SingleContractOf
    AssignmentOf <- OneAssignmentOf
    OperationOf <- OneOperationOf
    Unsupported = {}
    Devices = {d1}
    NoDevice = NoDevice
    Adapters = {d1}
    Windows = {1, 2}
    LegacyRows = {"NONE"}
    MaxClock = 2
    MaxFaults = 1
PROPERTIES
    AnsweredAfterRestart
    DispatchResolvedAfterRestart
CHECK_DEADLOCK FALSE
