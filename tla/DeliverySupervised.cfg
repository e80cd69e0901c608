SPECIFICATION SupervisedSpec
CONSTANTS
    Messages = {m1}
    Expiring = {}
    Capacity = 2
    MaxFaults = 2
    NoMessage = NoMessage
PROPERTIES
    DeliveryIsEventual
CHECK_DEADLOCK FALSE
