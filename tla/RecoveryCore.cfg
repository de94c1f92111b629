SPECIFICATION Spec
CONSTANTS
    MaxBar = 2
    FirstBars = {1, 2}
    MaxWindows = 1
    MaxCandles = 2
    Lead = 1
    Faults = {"rejected", "failed", "recoverable", "fatal", "storage"}
    AdmittedAtStart = FALSE
INVARIANTS
    RecoveryInv
    FrontierProven
    ReadyIsContinuous
    CheckedIsProven
    LifecycleOwned
    Announced
PROPERTIES
    ReadyEnteredProven
