SPECIFICATION FairSpec
CONSTANTS
    Streams = {"minute", "hour"}
    Processes = {"command"}
    Origins = {"empty", "1"}
    MaxNow = 2
    Coverages <- TwoCoverages
    MaxCandles = 1
    MaxWindows = 2
    Faults = {"http", "transient", "fatal"}
    RetryAttempts = 2
    MaxCrashes = 1
    Ranges <- AboveTheBound
    Firsts <- OneLate
INVARIANTS BackfillTypeOK PreparedIsWhole CompleteIsLoaded
PROPERTIES KeepsHistory AllLoaded
