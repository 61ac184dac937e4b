\* One round of paxos-app.c: the initiator is the only proposer, with the
\* failure injection of FAILURES_RATE switching nodes OFF at random.
CONSTANTS
    N = 3
    Initiator = 0
    Proposers <- AppProposers
    ProposerValue <- AppValues
    MaxSlots = 10
    NTxComplete = 1
    RestartMin = 1
    RestartMax = 2
    MaxRounds = 1
    InjectFailures = TRUE
SPECIFICATION Spec
\* the round ends after PAXOS_ROUND_MAX_SLOTS slots: chaos_round returns
CHECK_DEADLOCK FALSE
INVARIANT TypeOK
INVARIANT PrepareFlagsSound
INVARIANT AcceptFlagsSound
INVARIANT QuorumReadSound
INVARIANT ProposerMajoritySound
