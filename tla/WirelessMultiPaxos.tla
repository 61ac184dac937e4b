------------------------- MODULE WirelessMultiPaxos -------------------------
(***************************************************************************)
(* Successive Synchrotron rounds of Wireless Multi-Paxos                  *)
(* (src/core/net/mac/chaos/lib/multipaxos/multipaxos.c) driven by the     *)
(* round_begin of src/apps/chaos/multipaxos/multipaxos-app.c.              *)
(*                                                                         *)
(* A round is RoundBegin (the app's round_begin and the set-up part of    *)
(* multipaxos_round_begin) followed by slots; the last slot also reports  *)
(* the chosen values to the app.  A slot is one synchronous step of the   *)
(* network, as in WirelessPaxos: transmitters that really send, one       *)
(* packet (or none) per listener, then `process` on every node that is    *)
(* not OFF.  Acceptor log, leader and learner persist across rounds; the  *)
(* TX buffer of a round starts from the header saved at the end of every  *)
(* slot (multipaxos_local) and the own-flag template.                     *)
(*                                                                         *)
(* Decrees ("rounds" in the code) are absolute numbers; the logs are rings *)
(* indexed decree % LogSize.  Flags are sets of node indices.              *)
(***************************************************************************)
EXTENDS Integers, FiniteSets, FiniteSetsExt

CONSTANTS
    N,              \* chaos_node_count
    Initiator,      \* IS_INITIATOR()
    K,              \* MULTIPAXOS_PKT_SIZE
    LogSize,        \* MULTIPAXOS_LOG_SIZE
    MaxSlots,       \* MULTIPAXOS_ROUND_MAX_SLOTS
    MaxRounds,      \* number of Synchrotron rounds explored
    NTxComplete,    \* N_TX_COMPLETE
    RestartMin,     \* CHAOS_RESTART_MIN
    RestartMax,     \* CHAOS_RESTART_MAX
    InjectFailures  \* FAILURES_RATE # 0

Nodes == 0 .. (N - 1)
Idx == 0 .. (K - 1)
Ring == 0 .. (LogSize - 1)

ASSUME /\ N \in 2 .. 8 /\ Initiator \in Nodes
       /\ K \in 1 .. LogSize
       /\ MaxSlots \in 3 .. 255 /\ MaxRounds \in Nat
       /\ RestartMin \in Nat /\ RestartMin < RestartMax
       /\ InjectFailures \in BOOLEAN

\* enum { MULTIPAXOS_INIT = 0, MULTIPAXOS_PREPARE = 1, MULTIPAXOS_ACCEPT }
INIT == 0
PREPARE == 1
ACCEPT == 2

\* MULTIPAXOS_NO_OP
NO_OP == 255

\* ballot_number_t: uint16_t n over the bit fields {id : 8, round : 8}
Ballot(round, id) == round * 256 + id
BallotRound(b) == b \div 256

\* Mutant: an off-by-one majority test.
MajorityWeak(k) == k >= N \div 2
Majority(k) == k > N \div 2

Thresholds == RestartMin .. (RestartMax - 1)
CrashDraws == IF InjectFailures THEN BOOLEAN ELSE {FALSE}
NoNode == -1

Zeros(S) == [i \in S |-> 0]

VARIABLES
    rnd,        \* Synchrotron rounds begun so far
    slot,       \* slot_count of the next slot; MaxSlots when the round is over
    radio,      \* current_state handed to process
    txb,        \* the multipaxos_t in the TX buffer
    local,      \* multipaxos_local.multipaxos header (flags template is {n})
    acceptor,   \* multipaxos_state.acceptor
    leader,     \* multipaxos_state.leader
    learner,    \* multipaxos_state.learner
    agg,        \* rx_min_proposal, rx_accepted_proposals/values, rx_max_heard_round
    ctl,        \* the slot statics of multipaxos.c
    app,        \* the statics of multipaxos-app.c
    votes,      \* history: <<a, d, b, v>> for every accept of v at decree d, ballot b
    reads       \* history: <<n, d, v>> for every quorum read of v at decree d

vars == <<rnd, slot, radio, txb, local, acceptor, leader, learner, agg, ctl,
          app, votes, reads>>

Header == [ballot : Nat, phase : {INIT, PREPARE, ACCEPT}, round : Nat,
           max_heard_round : Nat, values : [Idx -> Nat], proposals : [Idx -> Nat]]

ZeroHeader == [ballot |-> 0, phase |-> INIT, round |-> 0, max_heard_round |-> 0,
               values |-> Zeros(Idx), proposals |-> Zeros(Idx)]

ZeroAgg == [rx_min_proposal |-> 0, rx_accepted_proposals |-> Zeros(Idx),
            rx_accepted_values |-> Zeros(Idx), rx_max_heard_round |-> 0]

WithFlags(h, f) == [ballot |-> h.ballot, phase |-> h.phase, round |-> h.round,
                    max_heard_round |-> h.max_heard_round, values |-> h.values,
                    proposals |-> h.proposals, flags |-> f]

HeaderOf(p) == [ballot |-> p.ballot, phase |-> p.phase, round |-> p.round,
                max_heard_round |-> p.max_heard_round, values |-> p.values,
                proposals |-> p.proposals]
-----------------------------------------------------------------------------
(* Static storage is zero at boot; the first RoundBegin starts round 0.   *)
Init ==
    /\ rnd = 0
    /\ slot = MaxSlots
    /\ radio = [n \in Nodes |-> "OFF"]
    /\ txb = [n \in Nodes |-> WithFlags(ZeroHeader, {})]
    /\ local = [n \in Nodes |-> ZeroHeader]
    /\ acceptor = [n \in Nodes |-> [min_proposal |-> 0, accepted_proposals |-> Zeros(Ring),
                                    accepted_values |-> Zeros(Ring),
                                    last_round_participation |-> 0]]
    /\ leader = [n \in Nodes |-> [proposed_ballot |-> 0, proposed_values |-> Zeros(Idx),
                                  is_leader |-> FALSE, phase |-> INIT, current_round |-> 0,
                                  got_majority |-> FALSE, do_another_phase_1 |-> FALSE]]
    /\ learner = [n \in Nodes |-> [learned_values |-> Zeros(Ring), last_round |-> 0]]
    /\ agg = [n \in Nodes |-> ZeroAgg]
    /\ ctl = [n \in Nodes |-> [complete |-> FALSE, completion_slot |-> 0,
                               tx_count_complete |-> 0, invalid_rx_count |-> 0,
                               got_valid_rx |-> FALSE, values_chosen_this_round |-> FALSE,
                               restart_threshold |-> RestartMin]]
    /\ app = [n \in Nodes |-> [is_proposer |-> FALSE, values_to_propose |-> Zeros(Idx),
                               chosen_values |-> Zeros(Idx), success |-> FALSE]]
    /\ votes = {}
    /\ reads = {}
-----------------------------------------------------------------------------
(***************************************************************************)
(* Between two rounds: the app's round_begin, then multipaxos_round_begin *)
(* up to chaos_round.  The report that follows chaos_round is part of the *)
(* last slot (RoundReport).                                                *)
(***************************************************************************)
LeaderGotMajority(l) == l.is_leader /\ l.got_majority /\ l.phase = ACCEPT

\* Mutant: the report reads the ring one decree early.
ReportShifted(c, l) ==
    [i \in Idx |-> IF c.values_chosen_this_round
                   THEN l.learned_values[(l.last_round - K + i) % LogSize] ELSE 0]

\* multipaxos_report_values_chosen_this_round, stored by the app
Report(c, l) ==
    [i \in Idx |-> IF c.values_chosen_this_round
                   THEN l.learned_values[(l.last_round - K + 1 + i) % LogSize] ELSE 0]

\* multipaxos_app_set_new_values_to_propose: chosen_values[i] + (i + 1)
NewValues(chosen) == [i \in Idx |-> (chosen[i] + i + 1) % 256]

\* multipaxos_set_initial_leader_state
InitialLeaderState(n, l, a, lr) ==
    LET cr == lr.last_round + 1
    IN  [l EXCEPT !.is_leader = TRUE,
                  !.proposed_ballot = Ballot(Max({BallotRound(l.proposed_ballot), 1}), n),
                  !.current_round = IF a.last_round_participation > 0
                                    THEN Max({cr, a.last_round_participation - K + 1})
                                    ELSE cr]

\* multipaxos_round_begin: leader set-up for a node the app designates
LeaderSetup(n, l, a, lr, values) ==
    IF l.is_leader
    THEN IF LeaderGotMajority(l) THEN [l EXCEPT !.proposed_values = values] ELSE l
    ELSE InitialLeaderState(n, l, a, lr)

(* round_begin of multipaxos-app.c for node n: the initiator sets the     *)
(* static is_proposer and, when its leader got a majority, asks for new   *)
(* values to propose.                                                      *)
AppRoundBegin(n, a, l) ==
    IF n = Initiator
    THEN [a EXCEPT !.is_proposer = TRUE,
                   !.values_to_propose = IF LeaderGotMajority(l)
                                         THEN NewValues(a.chosen_values) ELSE @]
    ELSE a

(* After chaos_round: multipaxos_report_values_chosen_this_round into the *)
(* app's multipaxos_chosen_values, and the returned success.              *)
RoundReport(a, c, l) ==
    [a EXCEPT !.chosen_values = Report(c, l), !.success = c.values_chosen_this_round]

RoundBegin ==
    /\ slot = MaxSlots /\ rnd < MaxRounds
    /\ \E thr \in [Nodes -> Thresholds] :
        /\ app' = [n \in Nodes |-> AppRoundBegin(n, app[n], leader[n])]
        /\ leader' = [n \in Nodes |->
                        IF app'[n].is_proposer
                        THEN LeaderSetup(n, leader[n], acceptor[n], learner[n],
                                         app'[n].values_to_propose)
                        ELSE leader[n]]
        /\ ctl' = [n \in Nodes |-> [complete |-> FALSE, completion_slot |-> 0,
                                    tx_count_complete |-> 0, invalid_rx_count |-> 0,
                                    got_valid_rx |-> FALSE,
                                    values_chosen_this_round |-> FALSE,
                                    restart_threshold |-> thr[n]]]
    /\ txb' = [n \in Nodes |-> WithFlags(local[n], {n})]
    /\ radio' = [n \in Nodes |-> "INIT"]
    /\ slot' = 0
    /\ rnd' = rnd + 1
    /\ UNCHANGED <<local, acceptor, learner, agg, votes, reads>>
-----------------------------------------------------------------------------
(***************************************************************************)
(* The callback `process`.  The working record w carries the node's state *)
(* (txb, acc, ldr, lrn, agg, ctl) and the locals tx, rx_delta and          *)
(* n_replies (nrep); `voted` and `read` collect the accepts and quorum     *)
(* reads of the call for the history variables.  When the node transmitted *)
(* in the slot, payload is its own TX buffer (rb = TRUE).                  *)
(***************************************************************************)
Payload(w, rb, rx) == IF rb THEN w.txb ELSE rx

\* LEADER LOGIC - PREPARE PHASE at the start (INITIATE 1/1 and the initiator copy)
LeaderStart(w) ==
    [w EXCEPT !.txb.round = w.ldr.current_round,
              !.ldr.phase = PREPARE,
              !.txb.ballot = w.ldr.proposed_ballot,
              !.txb.phase = PREPARE,
              !.acc.min_proposal = w.ldr.proposed_ballot,
              !.ldr.got_majority = FALSE]

\* Mutant: a resuming leader that does not rewrite the round of its packet.
LeaderResumeKeepRound(w) ==
    [w EXCEPT !.txb.phase = w.ldr.phase,
              !.txb.values = IF w.ldr.got_majority THEN w.ldr.proposed_values ELSE @,
              !.txb.proposals = IF w.ldr.got_majority THEN Zeros(Idx) ELSE @,
              !.ldr.got_majority = FALSE]

\* A leader that proposed before repopulates round, phase and, after a majority, new values
LeaderResume(w) ==
    [w EXCEPT !.txb.round = w.ldr.current_round,
              !.txb.phase = w.ldr.phase,
              !.txb.values = IF w.ldr.got_majority THEN w.ldr.proposed_values ELSE @,
              !.txb.proposals = IF w.ldr.got_majority THEN Zeros(Idx) ELSE @,
              !.ldr.got_majority = FALSE]

\* The leader's packet at a round start: reset flags, then start or resume.
LeaderRound(n, w) ==
    LET w1 == [w EXCEPT !.txb.flags = {n}]
    IN  IF w.ldr.phase = INIT THEN LeaderStart(w1) ELSE LeaderResume(w1)

\* A MULTIPAXOS_INIT packet
Heartbeat(n, w, p) ==
    IF w.ldr.is_leader
    THEN [LeaderRound(n, w) EXCEPT !.tx = TRUE, !.delta = TRUE]
    ELSE IF w.txb.ballot = 0
    THEN LET changed == p.flags # w.txb.flags
             merged == w.txb.flags \cup p.flags
         IN  [w EXCEPT !.txb = WithFlags(HeaderOf(p), merged),
                       !.tx = changed, !.delta = changed,
                       !.ctl.complete = @ \/ merged = Nodes]
    ELSE w

\* Newer: higher ballot, or same ballot and higher round, or same both and no older phase.
IsNewer(p, t) ==
    \/ p.ballot > t.ballot
    \/ p.ballot = t.ballot /\ p.round > t.round
    \/ p.ballot = t.ballot /\ p.round = t.round /\ p.phase >= t.phase

\* ACCEPTOR LOGIC - PREPARE PHASE: promise, and report the log from decree p.round on
AcceptorPrepare(w, p) ==
    LET a == w.acc
        mhr == Max({p.max_heard_round, w.agg.rx_max_heard_round, a.last_round_participation})
        Own(i) == /\ p.round + i <= a.last_round_participation
                  /\ a.accepted_proposals[(p.round + i) % LogSize] > w.agg.rx_accepted_proposals[i]
        ap == [i \in Idx |-> IF Own(i) THEN a.accepted_proposals[(p.round + i) % LogSize]
                             ELSE w.agg.rx_accepted_proposals[i]]
        av == [i \in Idx |-> IF Own(i) THEN a.accepted_values[(p.round + i) % LogSize]
                             ELSE w.agg.rx_accepted_values[i]]
        Teach(i) == p.proposals[i] < ap[i]
    IN  [w EXCEPT !.acc.min_proposal = Max({@, p.ballot}),
                  !.agg.rx_max_heard_round = mhr,
                  !.txb.max_heard_round = mhr,
                  !.txb.proposals = [i \in Idx |-> IF Teach(i) THEN ap[i] ELSE @[i]],
                  !.txb.values = [i \in Idx |-> IF Teach(i) THEN av[i] ELSE @[i]],
                  !.agg.rx_accepted_proposals = [i \in Idx |-> IF Teach(i) THEN ap[i]
                                                               ELSE p.proposals[i]],
                  !.agg.rx_accepted_values = [i \in Idx |-> IF Teach(i) THEN av[i]
                                                            ELSE p.values[i]],
                  !.tx = @ \/ \E i \in Idx : Teach(i),
                  !.delta = @ \/ \E i \in Idx : Teach(i)]

(* The decrees the nullify loop of the ACCEPT phase clears: its counter is *)
(* a uint8_t started at p.round, so it counts down from p.round % 256.     *)
Nullified(p, a) == {j % LogSize : j \in (a.last_round_participation + 1) .. (p.round % 256)}

\* Paxos algorithm: accept when the ballot is not below min_proposal
Accepts(w, p) == p.ballot >= w.acc.min_proposal

\* Mutant: every value of the batch written at the entry of payload->round.
AcceptWindowNoOffset(w, p) ==
    LET a == w.acc
    IN  [w EXCEPT
           !.acc = [min_proposal |-> p.ballot,
                    accepted_proposals |->
                       [j \in Ring |-> IF j = p.round % LogSize THEN p.ballot
                                       ELSE IF j \in Nullified(p, a) THEN 0
                                       ELSE a.accepted_proposals[j]],
                    accepted_values |->
                       [j \in Ring |-> IF j = p.round % LogSize THEN p.values[K - 1]
                                       ELSE IF j \in Nullified(p, a) THEN 0
                                       ELSE a.accepted_values[j]],
                    last_round_participation |->
                       Max({a.last_round_participation, p.round + K - 1})],
           !.voted = {<<p.round + i, p.ballot, p.values[i]>> : i \in Idx}]

\* Accept the window: clear missed decrees, write the batch, advance the high-water mark.
AcceptWindow(w, p) ==
    LET a == w.acc
        Slot(j) == {i \in Idx : (p.round + i) % LogSize = j}
    IN  [w EXCEPT
           !.acc = [min_proposal |-> p.ballot,
                    accepted_proposals |->
                       [j \in Ring |-> IF Slot(j) # {} THEN p.ballot
                                       ELSE IF j \in Nullified(p, a) THEN 0
                                       ELSE a.accepted_proposals[j]],
                    accepted_values |->
                       [j \in Ring |-> IF Slot(j) # {} THEN p.values[CHOOSE i \in Slot(j) : TRUE]
                                       ELSE IF j \in Nullified(p, a) THEN 0
                                       ELSE a.accepted_values[j]],
                    last_round_participation |->
                       Max({a.last_round_participation, p.round + K - 1})],
           !.voted = {<<p.round + i, p.ballot, p.values[i]>> : i \in Idx}]

\* ACCEPTOR LOGIC - ACCEPT PHASE, with the aggregation of the highest min_proposal
AcceptorAccept(w, p) ==
    LET w1 == IF Accepts(w, p) THEN AcceptWindow(w, p) ELSE w
        rmp == Max({w1.acc.min_proposal, w1.agg.rx_min_proposal, p.proposals[0]})
    IN  IF p.proposals[0] < rmp
        THEN [w1 EXCEPT !.agg.rx_min_proposal = rmp, !.txb.proposals[0] = rmp,
                        !.tx = TRUE, !.delta = TRUE]
        ELSE [w1 EXCEPT !.agg.rx_min_proposal = rmp]

(* TRANSMISSION LOGIC: n_replies counts the TX flags before this packet's *)
(* are merged in (or the copied ones on a new phase, before the own flag); *)
(* quorum read and completion.                                            *)
MergeFlags(n, w, p, newPhase, now) ==
    LET nrep == Cardinality(w.txb.flags)
        flags == IF newPhase THEN w.txb.flags \cup {n} ELSE w.txb.flags \cup p.flags
        full == IF newPhase THEN w.txb.flags = Nodes ELSE flags = Nodes
        tx1 == w.tx \/ newPhase \/ p.flags # w.txb.flags
        learn == p.phase = ACCEPT /\ Majority(nrep)
        done == p.phase = ACCEPT /\ full
    IN  [w EXCEPT !.txb.flags = flags,
                  !.nrep = nrep,
                  !.tx = tx1 \/ done,
                  !.delta = @ \/ tx1,
                  !.ctl.values_chosen_this_round = @ \/ learn,
                  !.lrn = IF learn
                          THEN [learned_values |->
                                  [j \in Ring |->
                                     IF \E i \in Idx : (p.round + i) % LogSize = j
                                     THEN p.values[CHOOSE i \in Idx : (p.round + i) % LogSize = j]
                                     ELSE @.learned_values[j]],
                                last_round |-> p.round + K - 1]
                          ELSE @,
                  !.ctl.completion_slot = IF done /\ ~w.ctl.complete THEN now ELSE @,
                  !.ctl.complete = @ \/ done,
                  !.read = IF learn THEN {<<p.round + i, p.values[i]>> : i \in Idx} ELSE {}]

\* BEGIN ACCEPTOR LOGIC ... END ACCEPTOR LOGIC
AcceptorLogic(n, w, rb, rx, now) ==
    LET p == Payload(w, rb, rx)
    IN  IF ~IsNewer(p, w.txb)
        THEN [w EXCEPT !.tx = TRUE]   \* teach the higher ballot
        ELSE LET newPhase == ~(p.ballot = w.txb.ballot /\ p.phase = w.txb.phase
                               /\ p.round = w.txb.round)
                 w1 == IF newPhase THEN [w EXCEPT !.txb = p, !.agg = ZeroAgg] ELSE w
                 w2 == CASE p.phase = PREPARE -> AcceptorPrepare(w1, Payload(w1, rb, rx))
                         [] p.phase = ACCEPT -> AcceptorAccept(w1, Payload(w1, rb, rx))
                         [] OTHER -> w1
             IN  MergeFlags(n, w2, Payload(w2, rb, rx), newPhase, now)

\* NO_OP filling: adopt accepted values, NO_OP below the highest accepted decree.
AdoptValues(l, g, window) ==
    [i \in Idx |-> IF i \notin window THEN l.proposed_values[i]
                   ELSE IF g.rx_accepted_proposals[i] # 0 THEN g.rx_accepted_values[i]
                   ELSE IF \E j \in window : j > i /\ g.rx_accepted_proposals[j] # 0
                   THEN NO_OP
                   ELSE l.proposed_values[i]]

\* Mutant: a phase transition that keeps the previous phase's flags.
UpdatePhaseKeepFlags(n, w, u) ==
    LET l == w.ldr
    IN  [w EXCEPT !.txb.ballot = l.proposed_ballot, !.txb.phase = l.phase, !.agg = ZeroAgg,
                  !.txb.round = IF u = 1 THEN l.current_round ELSE @,
                  !.txb.max_heard_round = IF u = 1 THEN l.current_round ELSE @,
                  !.txb.values = IF u = 1 THEN Zeros(Idx) ELSE l.proposed_values,
                  !.txb.proposals = IF u = 1 THEN Zeros(Idx) ELSE [@ EXCEPT ![0] = 0],
                  !.ldr.proposed_values = IF u = 1 THEN Zeros(Idx) ELSE @,
                  !.ldr.got_majority = FALSE, !.tx = TRUE]

\* LEADER - PHASE TRANSITION: 1 = ACCEPT back to PREPARE, 2 = PREPARE to ACCEPT
UpdatePhase(n, w, u) ==
    LET l == w.ldr
    IN  [w EXCEPT !.txb.ballot = l.proposed_ballot,
                  !.txb.phase = l.phase,
                  !.agg = ZeroAgg,
                  !.txb.round = IF u = 1 THEN l.current_round ELSE @,
                  !.txb.max_heard_round = IF u = 1 THEN l.current_round ELSE @,
                  !.txb.values = IF u = 1 THEN Zeros(Idx) ELSE l.proposed_values,
                  !.txb.proposals = IF u = 1 THEN Zeros(Idx) ELSE [@ EXCEPT ![0] = 0],
                  !.ldr.proposed_values = IF u = 1 THEN Zeros(Idx) ELSE @,
                  !.ldr.got_majority = FALSE,
                  !.txb.flags = {n},
                  !.tx = TRUE]

\* BEGIN LEADER LOGIC ... END LEADER LOGIC, for a leader without a majority yet
LeaderLogic(n, w, p) ==
    LET l == w.ldr
        g == w.agg
        pb == l.proposed_ballot
        mine == p.ballot = pb /\ p.phase = l.phase /\ p.round = l.current_round
        window == 0 .. Min({K - 1, p.max_heard_round - p.round})
        prepLost == \E i \in window : g.rx_accepted_proposals[i] > pb
        prepMaj == ~prepLost /\ Majority(w.nrep)
        accLost == g.rx_min_proposal > pb
        accMaj == ~accLost /\ Majority(w.nrep)
        lost == \/ mine /\ l.phase = PREPARE /\ prepLost
                \/ mine /\ l.phase = ACCEPT /\ accLost
                \/ p.ballot > pb
        l1 == CASE mine /\ l.phase = PREPARE ->
                     [l EXCEPT !.proposed_values = AdoptValues(l, g, window),
                               !.do_another_phase_1 = p.max_heard_round > p.round + K - 1,
                               !.phase = IF prepMaj THEN ACCEPT ELSE @]
                [] mine /\ l.phase = ACCEPT /\ accMaj ->
                     [l EXCEPT !.got_majority = TRUE,
                               !.current_round = @ + K,
                               !.phase = IF l.do_another_phase_1 THEN PREPARE ELSE @]
                [] OTHER -> l
        update == IF mine /\ l.phase = PREPARE /\ prepMaj THEN 2
                  ELSE IF mine /\ l.phase = ACCEPT /\ accMaj /\ l.do_another_phase_1 THEN 1
                  ELSE 0
        w1 == [w EXCEPT !.ldr = [l1 EXCEPT !.is_leader = ~lost],
                        !.tx = @ \/ (~mine /\ p.ballot <= pb),
                        !.delta = @ \/ (mine /\ w.txb.phase # l1.phase)]
    IN  IF ~(l.is_leader /\ ~l.got_majority) THEN w
        ELSE IF update = 0 THEN w1 ELSE UpdatePhase(n, w1, update)

\* Mutant: a restart that leaves invalid_rx_count set.
RestartRxNoReset(w, thr) ==
    [w EXCEPT !.ctl.tx_count_complete = IF w.ctl.complete THEN @ + 1 ELSE @,
              !.ctl.restart_threshold = thr]

\* A listener that heard nothing for more than restart_threshold slots restarts a flood.
RestartRx(w, thr) ==
    [w EXCEPT !.ctl.invalid_rx_count = 0,
              !.ctl.tx_count_complete = IF w.ctl.complete THEN @ + 1 ELSE @,
              !.ctl.restart_threshold = thr]

\* BEGIN SYNCHROTRON STATE LOGIC, the save of the header and failure injection
RadioLogic(n, w, cur, ok, thr, crash, now) ==
    LET c == w.ctl
        r == CASE n = Initiator /\ cur = "INIT" ->
                    [w |-> [IF w.ldr.is_leader THEN LeaderRound(n, w) ELSE w
                              EXCEPT !.ctl.got_valid_rx = TRUE],
                     next |-> "TX"]
               [] cur = "RX" /\ ok ->
                    [w |-> [w EXCEPT !.ctl.invalid_rx_count = 0,
                                     !.ctl.tx_count_complete =
                                        IF w.tx /\ c.complete
                                        THEN IF w.delta THEN 0 ELSE @ + 1 ELSE @],
                     next |-> IF w.tx THEN "TX" ELSE "RX"]
               [] cur = "RX" /\ ~ok /\ c.got_valid_rx ->
                    LET wi == [w EXCEPT !.ctl.invalid_rx_count = @ + 1]
                    IN  IF wi.ctl.invalid_rx_count > c.restart_threshold
                        THEN [w |-> RestartRx(wi, thr), next |-> "TX"]
                        ELSE [w |-> wi, next |-> "RX"]
               [] cur = "TX" /\ ~ok ->
                    [w |-> [w EXCEPT !.ctl.got_valid_rx = TRUE], next |-> "TX"]
               [] cur = "TX" /\ c.tx_count_complete > NTxComplete ->
                    [w |-> w, next |-> "OFF"]
               [] OTHER -> [w |-> w, next |-> "RX"]
    IN  [w |-> [r.w EXCEPT !.loc = HeaderOf(r.w.txb)],
         next |-> IF crash THEN "OFF" ELSE r.next]

\* process: one call of the Synchrotron callback on node n
Process(n, cur, ok, rx, thr, crash, now) ==
    LET w0 == [txb |-> txb[n], acc |-> acceptor[n], ldr |-> leader[n], lrn |-> learner[n],
               agg |-> agg[n], ctl |-> ctl[n], loc |-> local[n],
               tx |-> FALSE, delta |-> FALSE, nrep |-> 0, voted |-> {}, read |-> {}]
        rb == cur = "TX"
        valid == ok /\ (cur = "RX" \/ (cur = "TX" /\ w0.ldr.is_leader))
        w1 == [w0 EXCEPT !.ctl.got_valid_rx = TRUE]
        p1 == Payload(w1, rb, rx)
        w2 == IF ~valid THEN w0
              ELSE IF p1.phase = INIT THEN Heartbeat(n, w1, p1)
              ELSE LET wa == AcceptorLogic(n, w1, rb, rx, now)
                   IN  LeaderLogic(n, wa, Payload(wa, rb, rx))
    IN  RadioLogic(n, w2, cur, ok, thr, crash, now)
-----------------------------------------------------------------------------
(* One slot of chaos_round (outside src/), as in WirelessPaxos: the sent   *)
(* transmissions are heard by listeners with capture, then every node that *)
(* is not OFF runs process.                                                *)
Idle(n) ==
    [w |-> [txb |-> txb[n], acc |-> acceptor[n], ldr |-> leader[n], lrn |-> learner[n],
            agg |-> agg[n], ctl |-> ctl[n], loc |-> local[n],
            tx |-> FALSE, delta |-> FALSE, nrep |-> 0, voted |-> {}, read |-> {}],
     next |-> "OFF"]

SlotStep ==
    /\ slot < MaxSlots
    /\ \E sent \in SUBSET {n \in Nodes : radio[n] = "TX"},
          src \in [Nodes -> Nodes \cup {NoNode}],
          thr \in [Nodes -> Thresholds],
          crash \in [Nodes -> CrashDraws] :
        /\ \A n \in Nodes :
              src[n] \in IF radio[n] = "RX" THEN sent \cup {NoNode} ELSE {NoNode}
        /\ LET Ok(n) == IF radio[n] = "TX" THEN n \in sent ELSE src[n] # NoNode
               Rx(n) == IF src[n] = NoNode THEN txb[n] ELSE txb[src[n]]
               R == [n \in Nodes |->
                       IF radio[n] = "OFF" THEN Idle(n)
                       ELSE Process(n, radio[n], Ok(n), Rx(n), thr[n], crash[n], slot)]
           IN  /\ slot' = slot + 1
               /\ radio' = [n \in Nodes |-> R[n].next]
               /\ txb' = [n \in Nodes |-> R[n].w.txb]
               /\ acceptor' = [n \in Nodes |-> R[n].w.acc]
               /\ leader' = [n \in Nodes |-> R[n].w.ldr]
               /\ learner' = [n \in Nodes |-> R[n].w.lrn]
               /\ agg' = [n \in Nodes |-> R[n].w.agg]
               /\ ctl' = [n \in Nodes |-> R[n].w.ctl]
               /\ local' = [n \in Nodes |-> R[n].w.loc]
               /\ votes' = votes \cup UNION {{<<n, v[1], v[2], v[3]>> : v \in R[n].w.voted} :
                                             n \in Nodes}
               /\ reads' = reads \cup UNION {{<<n, r[1], r[2]>> : r \in R[n].w.read} :
                                             n \in Nodes}
               /\ app' = IF slot + 1 = MaxSlots
                         THEN [n \in Nodes |-> RoundReport(app[n], ctl'[n], learner'[n])]
                         ELSE app
    /\ UNCHANGED rnd

Next == RoundBegin \/ SlotStep

Spec == Init /\ [][Next]_vars
-----------------------------------------------------------------------------
TypeOK ==
    /\ rnd \in 0 .. MaxRounds
    /\ slot \in 0 .. MaxSlots
    /\ radio \in [Nodes -> {"INIT", "RX", "TX", "OFF"}]
    /\ \A n \in Nodes : /\ HeaderOf(txb[n]) \in Header
                        /\ txb[n].flags \subseteq Nodes
                        /\ local[n] \in Header
                        /\ leader[n].phase \in {INIT, PREPARE, ACCEPT}
                        /\ ctl[n].invalid_rx_count <= ctl[n].restart_threshold
                        /\ ctl[n].tx_count_complete <= NTxComplete + 1
    /\ acceptor \in [Nodes -> [min_proposal : Nat, accepted_proposals : [Ring -> Nat],
                               accepted_values : [Ring -> Nat],
                               last_round_participation : Nat]]
    /\ learner \in [Nodes -> [learned_values : [Ring -> Nat], last_round : Nat]]

\* A set of nodes larger than half of the network.
IsQuorum(S) == 2 * Cardinality(S) > N

\* The nodes that accepted value v for decree d at ballot b, in any round.
Voters(d, b, v) == {a \in Nodes : <<a, d, b, v>> \in votes}

(* Quorum read soundness: whenever a node marks decree d learned with v   *)
(* (the n_replies > N/2 test of the TRANSMISSION LOGIC), a majority of     *)
(* nodes has accepted v for d at one ballot, across all rounds so far.     *)
QuorumReadSound ==
    \A r \in reads : \E b \in {v[3] : v \in votes} : IsQuorum(Voters(r[2], b, r[3]))

(* Agreement of the replicated log: two quorum reads of the same decree,  *)
(* by any nodes in any rounds, learn the same value.                       *)
Agreement ==
    \A r1, r2 \in reads : r1[2] = r2[2] => r1[3] = r2[3]

(* The replicated log agrees with what was chosen: an acceptor that took  *)
(* part up to decree d (last_round_participation >= d) and whose ring      *)
(* entry d % LogSize was not since reused by a later decree holds, if the  *)
(* entry is set, the value read by quorum for d.  The ACCEPT phase's       *)
(* nullify loop and batch write into the ring must keep this.              *)
LogAgreesWithReads ==
    \A r \in reads, a \in Nodes :
        LET d == r[2]
            c == acceptor[a]
        IN  d <= c.last_round_participation /\ c.last_round_participation < d + LogSize
            /\ c.accepted_proposals[d % LogSize] # 0
            => c.accepted_values[d % LogSize] = r[3]

(* Leader majority soundness: a leader that counted a majority of ACCEPT  *)
(* flags (n_replies > N/2, got_majority, current_round advanced by K) has  *)
(* a majority of nodes that really accepted one value at its ballot for   *)
(* every decree of the batch it just finished.                             *)
LeaderMajoritySound ==
    \A n \in Nodes :
        LET l == leader[n] IN
        l.is_leader /\ l.got_majority =>
            \A d \in (l.current_round - K) .. (l.current_round - 1) :
                \E v \in {x[4] : x \in votes} : IsQuorum(Voters(d, l.proposed_ballot, v))

(* Reported values are read values: the values that multipaxos_round_begin *)
(* hands to the app after chaos_round (from the learner ring, at          *)
(* last_round - K + 1 + i) are the values the node itself read by quorum   *)
(* for those decrees.                                                      *)
ReportedValuesRead ==
    [][\A n \in Nodes :
          slot' = MaxSlots /\ slot # MaxSlots /\ app'[n].success =>
              \A i \in Idx : <<n, learner'[n].last_round - K + 1 + i,
                                 app'[n].chosen_values[i]>> \in reads']_vars

(* NO_OP is reserved (spec.md section 3: a value the application          *)
(* guarantees never to use): it may enter the log only as NO_OP filling   *)
(* after a PREPARE, which in multipaxos-app.c never finds an accepted     *)
(* value to fill around.  So no decree is read by quorum as NO_OP; a read *)
(* of NO_OP is an application value (the uint8_t counters of              *)
(* multipaxos_app_set_new_values_to_propose) taken for a gap.             *)
NoOpNotChosen ==
    \A r \in reads : r[3] # NO_OP
=============================================================================
