\* Data that arrives before the ENet connection is established.
SPECIFICATION Spec
CONSTANTS
    Sockets = {s1}
    MaxMessages = 2
    MaxPackets = 1
PROPERTIES
    OtherDataIsSent
CHECK_DEADLOCK FALSE
