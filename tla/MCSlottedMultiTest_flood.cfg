\* slotted-multi-test on every connected topology of 5 nodes, CHAOS_CONCURRENT_TX_COUNT = 2
\* (two transmit groups), two rounds of 10 slots: a 4-hop line needs 8.
CONSTANTS
    N = 5
    Initiator = 0
    ConcurrentTxCount = 2
    MaxSlots = 10
    MaxRounds = 2
    Lossless = TRUE
SPECIFICATION Spec
INVARIANTS
    FloodLatency
CHECK_DEADLOCK FALSE
