CONSTANTS
    N = 3
    Initiator = 0
    K = 2
    LogSize = 3
    MaxSlots = 8
    MaxRounds = 2
    NTxComplete = 1
    RestartMin = 1
    RestartMax = 2
    InjectFailures = FALSE
SPECIFICATION Spec
INVARIANTS
    TypeOK
    QuorumReadSound
    Agreement
    LeaderMajoritySound
    LogAgreesWithReads
PROPERTY
    ReportedValuesRead
CHECK_DEADLOCK FALSE
