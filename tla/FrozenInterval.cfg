SPECIFICATION Spec
CONSTANTS
    MaxBar = 4
    FirstBars = {2}
    MaxWindows = 2
    MaxCandles = 2
    Lead = 0
    Faults = {"recoverable"}
    AdmittedAtStart = TRUE
INVARIANTS
    ReadyIsContinuous
