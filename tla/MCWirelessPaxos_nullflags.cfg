\* One round of paxos-app.c with the failure injection of FAILURES_RATE:
\* a node switched OFF before any report of final results.
CONSTANTS
    N = 3
    Initiator = 0
    Proposers <- AppProposers
    ProposerValue <- AppValues
    MaxSlots = 5
    NTxComplete = 1
    RestartMin = 1
    RestartMax = 2
    MaxRounds = 1
    InjectFailures = TRUE
SPECIFICATION Spec
\* the round ends after PAXOS_ROUND_MAX_SLOTS slots: chaos_round returns
CHECK_DEADLOCK FALSE
PROPERTY FinalFlagsReported
