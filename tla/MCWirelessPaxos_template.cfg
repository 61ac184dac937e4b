\* Two Synchrotron rounds of paxos-app.c: the initiator proposes 1 in
\* round 1 and 2 in round 2; a node resets its Paxos state before round 2
\* only when round 1 completed at that node.
CONSTANTS
    N = 3
    Initiator = 0
    Proposers <- AppProposers
    ProposerValue <- AppValues
    MaxSlots = 8
    NTxComplete = 1
    RestartMin = 1
    RestartMax = 2
    MaxRounds = 2
    InjectFailures = FALSE
SPECIFICATION Spec
CHECK_DEADLOCK FALSE
INVARIANT PrepareFlagsSound
