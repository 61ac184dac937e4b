CONSTANTS
    N = 3
    Initiator = 1
    Proposers <- DuelProposers
    ProposerValue <- DuelValue
    MaxSlots = 10
    NTxComplete = 1
    RestartMin = 1
    RestartMax = 2
    MaxRounds = 1
    InjectFailures = FALSE
SPECIFICATION Spec
CHECK_DEADLOCK FALSE




INVARIANT PrepareFlagsSound
