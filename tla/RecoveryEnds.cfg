SPECIFICATION FairSpec
CONSTANTS
    MaxBar = 2
    FirstBars = {1}
    MaxWindows = 1
    MaxCandles = 2
    Lead = 0
    Faults = {"recoverable"}
    AdmittedAtStart = TRUE
PROPERTIES
    RecoveryEnds
