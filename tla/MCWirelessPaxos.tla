--------------------------- MODULE MCWirelessPaxos ---------------------------
(* Instances of WirelessPaxos for TLC.  Three nodes (majority = 2), node 0 *)
(* is the Synchrotron initiator as in paxos-app.c.                         *)
EXTENDS WirelessPaxos

\* paxos-app.c: only the initiator proposes, value round_count_local + 1
AppProposers == {0}
AppValues == [p \in AppProposers |-> [r \in 1 .. MaxRounds |-> AppValue(r)]]

\* library use with two competing proposers, node 2 holding the higher ballot
DuelProposers == {0, 2}
DuelValue == [p \in DuelProposers |-> [r \in 1 .. MaxRounds |-> p + 1]]

=============================================================================
