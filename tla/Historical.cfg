SPECIFICATION Spec
CONSTANTS
    Order <- TwoStreams
    OIStreams = {"hour"}
    MaxNow = 3
    MaxFirst = 1
    MaxCandles = 2
    ProbeBudget = 1
    RepairBudget = 1
    MaxPoints = 1
    OIBudget = 1
    MaxCrashes = 1
    Faults = {"recoverable", "fatal"}
INVARIANTS
    QueueInv
    SearchSkipsNothing
    PassIsLegal
PROPERTIES
    AdmissionIsProven
    IntervalIsFixed
    RetryMeansProgress
