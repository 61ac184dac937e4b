--------------------- MODULE MCWirelessMultiPaxosLong ---------------------
(***************************************************************************)
(* WirelessMultiPaxos after a long failure-free run.  The decree numbers   *)
(* and the app's counters reach the widths of their C types (the uint8_t  *)
(* nullify counter at decree 256, the uint8_t values at 255) only after   *)
(* more than a hundred Synchrotron rounds, beyond what TLC can explore     *)
(* from boot.  This instance starts instead at the end of round StartRound *)
(* of a run in which every round chose its batch at every node: the state *)
(* Steady(StartRound).  From there the full slot model runs as usual.      *)
(*                                                                         *)
(* Steady(j) is a state the code reaches: from boot, TLC reaches Steady(1) *)
(* after the first round, and from every Steady(j), j < 300, it reaches    *)
(* Steady(j + 1) one round later (see README).  The history variables hold *)
(* the accepts and reads of that run.                                      *)
(***************************************************************************)
EXTENDS WirelessMultiPaxos

CONSTANT StartRound   \* Synchrotron rounds completed before the explored ones

ASSUME StartRound \in 1 .. MaxRounds - 1

(* The leader's batch of round j: zeros at boot, then                     *)
(* multipaxos_app_set_new_values_to_propose (chosen + (i + 1) in uint8_t) *)
(* after every successful round.  The closed form is checked against that *)
(* recurrence for every round of the instance.                            *)
BatchValues(j) == [i \in Idx |-> ((j - 1) * (i + 1)) % 256]

ASSUME /\ BatchValues(1) = Zeros(Idx)
       /\ \A j \in 1 .. MaxRounds : BatchValues(j + 1) = NewValues(BatchValues(j))

(* The state at the end of round j of a failure-free run, for the instance *)
(* of the .cfg files (N = 3, the initiator leads): the batch of round j is *)
(* decrees K * (j - 1) + 1 .. K * j; every node accepted, read and         *)
(* reported every batch; node N - 1 relayed last.                          *)
Steady(j) ==
    LET b == Ballot(1, Initiator)
        first == K * (j - 1) + 1
        last == first + K - 1
        Holder(s) == CHOOSE d \in (last - LogSize + 1) .. last : d % LogSize = s
        Value(d) == BatchValues((d - 1) \div K + 1)[(d - 1) % K]
        ring == [s \in Ring |-> IF Holder(s) >= 1 THEN Value(Holder(s)) ELSE 0]
        hdr == [ballot |-> b, phase |-> ACCEPT, round |-> first, max_heard_round |-> 0,
                values |-> BatchValues(j), proposals |-> [i \in Idx |-> IF i = 0 THEN b ELSE 0]]
    IN
    /\ votes = {<<a, d, b, Value(d)>> : a \in Nodes, d \in 1 .. last}
    /\ reads = {<<n, d, Value(d)>> : n \in Nodes, d \in 1 .. last}
    /\ rnd = j
    /\ slot = MaxSlots
    /\ radio = [n \in Nodes |-> IF n = N - 1 THEN "TX" ELSE "RX"]
    /\ local = [n \in Nodes |-> hdr]
    /\ txb = [n \in Nodes |-> WithFlags(hdr, IF n = N - 1 THEN Nodes ELSE Nodes \ {N - 1})]
    /\ acceptor = [n \in Nodes |->
                     [min_proposal |-> b,
                      accepted_proposals |-> [s \in Ring |-> IF Holder(s) >= 1 THEN b ELSE 0],
                      accepted_values |-> ring,
                      last_round_participation |-> last]]
    /\ learner = [n \in Nodes |-> [learned_values |-> ring, last_round |-> last]]
    /\ leader = [n \in Nodes |->
                   IF n = Initiator
                   THEN [proposed_ballot |-> b, proposed_values |-> BatchValues(j),
                         is_leader |-> TRUE, phase |-> ACCEPT, current_round |-> last + 1,
                         got_majority |-> TRUE, do_another_phase_1 |-> FALSE]
                   ELSE [proposed_ballot |-> 0, proposed_values |-> Zeros(Idx),
                         is_leader |-> FALSE, phase |-> INIT, current_round |-> 0,
                         got_majority |-> FALSE, do_another_phase_1 |-> FALSE]]
    /\ agg = [n \in Nodes |-> [ZeroAgg EXCEPT !.rx_min_proposal = b]]
    /\ ctl = [n \in Nodes |-> [complete |-> FALSE, completion_slot |-> 0,
                               tx_count_complete |-> 0, invalid_rx_count |-> 0,
                               got_valid_rx |-> TRUE, values_chosen_this_round |-> TRUE,
                               restart_threshold |-> RestartMin]]
    /\ app = [n \in Nodes |-> [is_proposer |-> n = Initiator,
                               values_to_propose |-> IF n = Initiator THEN BatchValues(j)
                                                     ELSE Zeros(Idx),
                               chosen_values |-> BatchValues(j), success |-> TRUE]]

LongSpec == Steady(StartRound) /\ [][Next]_vars
=============================================================================
