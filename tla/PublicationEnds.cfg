SPECIFICATION FairSpec
CONSTANTS
    Capacity = 1
    MaxNow = 2
    Faults = {}
    Events = {"outage", "stop", "cancel"}
INVARIANTS
    PublicationTypeOK
PROPERTIES
    CatchesUp
    ShutdownEnds
CHECK_DEADLOCK FALSE
