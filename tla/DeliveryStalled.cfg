SPECIFICATION FairSpec
CONSTANTS
    Messages = {m1}
    Expiring = {}
    Capacity = 2
    MaxFaults = 1
    NoMessage = NoMessage
PROPERTIES
    DeliveryIsEventual
CHECK_DEADLOCK FALSE
