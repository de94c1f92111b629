SPECIFICATION FairSpec
CONSTANTS
    Order <- TwoStreams
    OIStreams = {"hour"}
    MaxNow = 2
    MaxFirst = 1
    MaxCandles = 1
    ProbeBudget = 1
    RepairBudget = 1
    MaxPoints = 1
    OIBudget = 1
    MaxCrashes = 0
    Faults = {"recoverable"}
PROPERTIES
    AllAdmitted
