SPECIFICATION FairSpec
CONSTANTS
    Streams = {"minute", "hour"}
    Inner = {"recovery"}
    Outer = {"historical"}
    MaxAttempts = 2
INVARIANTS ServiceTypeOK ReadyIsSubscribed FatalIsTold
PROPERTIES ReconnectBudget ProcessEnds
