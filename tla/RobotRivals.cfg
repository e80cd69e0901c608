SPECIFICATION Spec
CONSTANTS
    c1 = c1
    c2 = c2
    c3 = c3
    e1 = e1
    e2 = e2
    e3 = e3
    e4 = e4
    a1 = a1
    a2 = a2
    o1 = o1
    o2 = o2
    Services = {s1}
    NoService = NoService
    Assignments = {a1}
    Envelopes = {e1, e2, e3, e4}
    Contracts = {c1, c2, c3}
    Operations = {o1, o2}
    NoContract = NoContract
    ContractOf <- RivalContractOf
    AssignmentOf <- RivalAssignmentOf
    OperationOf <- RivalOperationOf
    Unsupported = {c3}
    Devices = {d1}
    NoDevice = NoDevice
    Adapters = {d1, NoDevice}
    Windows = {1}
    LegacyRows = {"NONE"}
    MaxClock = 2
    MaxFaults = 1
INVARIANTS
    AccountInv
    OneContractPerOperation
    ProcessedIsAnswered
CHECK_DEADLOCK FALSE
