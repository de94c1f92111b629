SPECIFICATION Spec
CONSTANTS
    Capacity = 1
    MaxNow = 3
    Faults = {"recoverable_failure"}
    Events = {"cancel"}
INVARIANTS
    FrontiersProven
    SentIsWhole
    PendingIsOwned
    SendIsObserved
CHECK_DEADLOCK FALSE
