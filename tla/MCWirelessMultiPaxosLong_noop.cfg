CONSTANTS
    N = 3
    Initiator = 0
    K = 2
    LogSize = 3
    MaxSlots = 8
    NTxComplete = 1
    RestartMin = 1
    RestartMax = 2
    InjectFailures = FALSE
    StartRound = 255
    MaxRounds = 256
SPECIFICATION LongSpec
INVARIANT NoOpNotChosen
CHECK_DEADLOCK FALSE
