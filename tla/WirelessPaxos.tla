---------------------------- MODULE WirelessPaxos ----------------------------
(***************************************************************************)
(* One Synchrotron round of single-decree Wireless Paxos                   *)
(* (src/core/net/mac/chaos/lib/paxos/paxos.c).                             *)
(*                                                                         *)
(* Every node runs the per-slot callback `process` once per radio slot.    *)
(* A slot is one synchronous step of the whole network: the nodes whose    *)
(* radio is TX broadcast their TX buffer, every listening node receives    *)
(* one of those packets (capture effect) or nothing, and then every node   *)
(* that is not OFF runs `process` on what it got.  `Process` below is the  *)
(* whole callback: acceptor, learner (quorum read), flag merge, proposer   *)
(* and the Synchrotron radio-state logic, in the order of the code.        *)
(*                                                                         *)
(* Flags (a bitset of ceil(N/8) bytes) are a set of node indices; the      *)
(* byte-wise OR is union, bit_count summed over the bytes is Cardinality   *)
(* and `flag_sum >= FLAG_SUM` holds exactly when every node's bit is set.  *)
(* Ballots keep their packed 16-bit form round * 256 + id.                 *)
(***************************************************************************)
EXTENDS Integers, FiniteSets, FiniteSetsExt

CONSTANTS
    N,              \* chaos_node_count
    Initiator,      \* the node for which IS_INITIATOR() holds
    Proposers,      \* nodes that call paxos_round_begin with is_proposer = 1
    ProposerValue,  \* ProposerValue[p][r]: the paxos_value p passes in round r
    MaxSlots,       \* PAXOS_ROUND_MAX_SLOTS
    NTxComplete,    \* N_TX_COMPLETE
    RestartMin,     \* CHAOS_RESTART_MIN
    RestartMax,     \* CHAOS_RESTART_MAX
    InjectFailures, \* FAILURES_RATE # 0: random OFF to emulate node crashes
    MaxRounds       \* the number of Synchrotron rounds explored

Nodes == 0 .. (N - 1)

ASSUME /\ N \in 2 .. 8
       /\ Initiator \in Nodes
       /\ Proposers \subseteq Nodes
       /\ MaxRounds \in 1 .. 255
       /\ ProposerValue \in [Proposers -> [1 .. MaxRounds -> 1 .. 254]]
       /\ MaxSlots \in 3 .. 255
       /\ NTxComplete \in Nat
       /\ RestartMin \in Nat /\ RestartMax \in Nat /\ RestartMin < RestartMax
       /\ InjectFailures \in BOOLEAN

\* enum { PAXOS_INIT = 0, PAXOS_PREPARE = 1, PAXOS_ACCEPT }
PAXOS_INIT == 0
PAXOS_PREPARE == 1
PAXOS_ACCEPT == 2

\* ballot_number_t: the union of uint16_t n and the bit fields {id : 8, round : 8}
Ballot(round, id) == round * 256 + id
BallotRound(b) == b \div 256
BallotId(b) == b % 256

\* Mutant: a majority test that is off by one.
MajorityWeak(k) == k >= N \div 2

\* A majority of flags: n_replies > chaos_node_count / 2
Majority(k) == k > N \div 2

\* restart_threshold = random % (CHAOS_RESTART_MAX - CHAOS_RESTART_MIN) + CHAOS_RESTART_MIN
Thresholds == RestartMin .. (RestartMax - 1)

\* random % (chaos_node_count / 2) == 0 is certain when N / 2 = 1
DampenDraws == IF N \div 2 = 1 THEN {TRUE} ELSE BOOLEAN

CrashDraws == IF InjectFailures THEN BOOLEAN ELSE {FALSE}

NoNode == -1

VARIABLES
    rnd,        \* the Synchrotron round being played (0 before the first)
    slot,       \* slot_count of the slot being played
    radio,      \* radio[n]: current_state handed to process (INIT, RX, TX, OFF)
    txb,        \* txb[n]: the paxos_t in node n's TX buffer
    acceptor,   \* paxos_state.acceptor
    proposer,   \* paxos_state.proposer
    learner,    \* paxos_state.learner.learned_value
    agg,        \* paxos_state.rx_min_proposal, rx_accepted_proposal, rx_accepted_value
    ctl,        \* the slot-local statics: complete, completion_slot, ...
    local,      \* paxos_local.paxos: header (the round's report) and flags
    paxos_flags,\* paxos_flags: FALSE while NULL, TRUE once it points at the TX flags
    votes,      \* history: <<a, b, v>> for every accept of (b, v) by a since a's reset
    reads,      \* history: <<n, b, v, r>> for every quorum read of (b, v) by n in round r
    resets      \* history: the rounds before which some node ran paxos_reset_state

vars == <<rnd, slot, radio, txb, acceptor, proposer, learner, agg, ctl, local,
          paxos_flags, votes, reads, resets>>

Packet == [ballot : Nat, phase : {PAXOS_INIT, PAXOS_PREPARE, PAXOS_ACCEPT},
           value : Nat, proposal : Nat, flags : SUBSET Nodes]

-----------------------------------------------------------------------------
(* Static storage starts zeroed: paxos_state, paxos_local, the slot-local *)
(* statics and paxos_flags (NULL).  paxos_reset_state restores the same    *)
(* zero state of paxos_state and paxos_local.                              *)
ZeroAcceptor == [min_proposal |-> 0, accepted_proposal |-> 0, accepted_value |-> 0]

ZeroProposer == [is_proposer |-> FALSE, phase |-> PAXOS_INIT, proposed_ballot |-> 0,
                 proposed_value |-> 0, got_majority |-> FALSE, loser_timeout |-> 0]

ZeroAgg == [rx_min_proposal |-> 0, rx_accepted_proposal |-> 0, rx_accepted_value |-> 0]

ZeroLocal == [ballot |-> 0, phase |-> PAXOS_INIT, proposal |-> 0, value |-> 0, flags |-> {}]

ZeroCtl(thr) == [complete |-> FALSE, completion_slot |-> 0, tx_count_complete |-> 0,
                 invalid_rx_count |-> 0, got_valid_rx |-> FALSE,
                 value_chosen_this_round |-> FALSE, restart_threshold |-> thr]

\* Boot: no round has run yet; the radio is off until chaos_round starts one.
Init ==
    /\ rnd = 0
    /\ slot = MaxSlots
    /\ radio = [n \in Nodes |-> "OFF"]
    /\ txb = [n \in Nodes |-> ZeroLocal]
    /\ acceptor = [n \in Nodes |-> ZeroAcceptor]
    /\ proposer = [n \in Nodes |-> ZeroProposer]
    /\ learner = [n \in Nodes |-> 0]
    /\ agg = [n \in Nodes |-> ZeroAgg]
    /\ ctl = [n \in Nodes |-> ZeroCtl(0)]
    /\ local = [n \in Nodes |-> ZeroLocal]
    /\ paxos_flags = [n \in Nodes |-> FALSE]
    /\ votes = {}
    /\ reads = {}
    /\ resets = {}

\* paxos-app.c: the initiator proposes paxos_value = round_count_local + 1,
\* one more than the number of the previous round.
AppValue(r) == r

\* paxos-app.c round_begin: paxos_reset_state() when the previous round
\* reached completion at this node (complete = paxos_get_completion_slot()).
AppReset(n) == ctl[n].completion_slot > 0

\* paxos_round_begin up to chaos_round, on the node state s (after the
\* app's optional reset): clear the slot-local statics, draw
\* restart_threshold, initialise a proposer at ballot (1, id) with the
\* caller's value, and OR the own flag into the paxos_local template.
PaxosRoundBegin(n, s, thr) ==
    LET isProposer == n \in Proposers
        v == IF isProposer THEN ProposerValue[n][rnd + 1] ELSE 0
    IN  [s EXCEPT
           !.ctl = ZeroCtl(thr),
           !.prop = IF isProposer
                    THEN [@ EXCEPT !.phase = PAXOS_INIT, !.proposed_ballot = Ballot(1, n),
                                   !.proposed_value = v, !.is_proposer = TRUE]
                    ELSE @,
           !.loc = [@ EXCEPT !.value = IF isProposer THEN v ELSE @,
                             !.flags = @ \cup {n}]]

(* A new Synchrotron round: every node runs the app's round_begin, which   *)
(* resets or keeps the Paxos state and calls paxos_round_begin; chaos_round *)
(* copies paxos_local.paxos (header and flags) into the TX buffer.         *)
RoundBegin ==
    /\ slot = MaxSlots
    /\ rnd < MaxRounds
    /\ \E thr \in [Nodes -> Thresholds] :
         LET S(n) == IF AppReset(n)
                     THEN [acc |-> ZeroAcceptor, prop |-> ZeroProposer, lrn |-> 0,
                           agg |-> ZeroAgg, loc |-> ZeroLocal, ctl |-> ctl[n]]
                     ELSE [acc |-> acceptor[n], prop |-> proposer[n], lrn |-> learner[n],
                           agg |-> agg[n], loc |-> local[n], ctl |-> ctl[n]]
             B == [n \in Nodes |-> PaxosRoundBegin(n, S(n), thr[n])]
         IN  /\ rnd' = rnd + 1
             /\ slot' = 0
             /\ radio' = [n \in Nodes |-> "INIT"]
             /\ txb' = [n \in Nodes |-> B[n].loc]
             /\ acceptor' = [n \in Nodes |-> B[n].acc]
             /\ proposer' = [n \in Nodes |-> B[n].prop]
             /\ learner' = [n \in Nodes |-> B[n].lrn]
             /\ agg' = [n \in Nodes |-> B[n].agg]
             /\ ctl' = [n \in Nodes |-> B[n].ctl]
             /\ local' = [n \in Nodes |-> B[n].loc]
             /\ votes' = {x \in votes : ~AppReset(x[1])}
             /\ resets' = IF \E n \in Nodes : AppReset(n) THEN resets \cup {rnd + 1}
                                                         ELSE resets
             /\ UNCHANGED <<paxos_flags, reads>>
-----------------------------------------------------------------------------
(***************************************************************************)
(* The callback `process`.  A working record w carries the node's state    *)
(* (txb, acc, prop, lrn, agg, ctl, loc) and the callback's locals tx and   *)
(* rx_delta through the stages; `read` collects the quorum read done in    *)
(* this call for the history.  When the node reads back its own TX         *)
(* (rb = TRUE) `payload` aliases the TX buffer, so every read of the       *)
(* payload sees the writes made to the buffer earlier in the call.         *)
(***************************************************************************)
Payload(w, rb, rx) == IF rb THEN w.txb ELSE rx

\* BEGIN PROPOSER - INITIATE PAXOS ALGORITHM (the three copies 1/3, 2/3, 3/3)
StartPrepare(w) ==
    [w EXCEPT !.prop.phase = PAXOS_PREPARE,
              !.txb.ballot = w.prop.proposed_ballot,
              !.txb.phase = PAXOS_PREPARE,
              !.acc.min_proposal = w.prop.proposed_ballot]

\* A PAXOS_INIT heartbeat heard while min_proposal is still 0.
InitHeartbeat(n, w, p) ==
    IF w.prop.is_proposer
    THEN LET w1 == IF w.prop.phase = PAXOS_INIT
                   THEN StartPrepare([w EXCEPT !.txb.flags = w.loc.flags])
                   ELSE w
         IN  [w1 EXCEPT !.tx = TRUE, !.delta = TRUE]
    ELSE \* memcpy of the header, then OR of the flags
         LET changed == p.flags # w.txb.flags
             merged == w.txb.flags \cup p.flags
         IN  [w EXCEPT !.txb = [p EXCEPT !.flags = merged],
                       !.tx = changed, !.delta = changed,
                       !.ctl.complete = @ \/ merged = Nodes]

\* Latest-writer-wins: a higher ballot, or the same ballot and no older phase.
IsNewer(p, t) ==
    \/ p.ballot > t.ballot
    \/ p.ballot = t.ballot /\ p.phase >= t.phase

\* Mutant: the promise (min_proposal := ballot) is not recorded.
AcceptorPrepareNoPromise(w, p) ==
    IF p.proposal < w.agg.rx_accepted_proposal
    THEN [w EXCEPT !.txb.proposal = w.agg.rx_accepted_proposal,
                   !.txb.value = w.agg.rx_accepted_value, !.tx = TRUE, !.delta = TRUE]
    ELSE [w EXCEPT !.agg.rx_accepted_proposal = p.proposal, !.agg.rx_accepted_value = p.value]

\* ACCEPTOR LOGIC - PREPARE PHASE
AcceptorPrepare(w, p) ==
    LET w1 == IF p.ballot > w.acc.min_proposal
              THEN [w EXCEPT !.acc.min_proposal = p.ballot] ELSE w
    IN  IF p.proposal < w1.agg.rx_accepted_proposal
        THEN [w1 EXCEPT !.txb.proposal = w1.agg.rx_accepted_proposal,
                        !.txb.value = w1.agg.rx_accepted_value,
                        !.tx = TRUE, !.delta = TRUE]
        ELSE [w1 EXCEPT !.agg.rx_accepted_proposal = p.proposal,
                        !.agg.rx_accepted_value = p.value]

\* Mutants of the acceptance test: strict, and no test at all.
AcceptsStrict(w, p) == p.ballot > w.acc.min_proposal
AcceptsAlways(w, p) == TRUE

\* Paxos algorithm: accept when the ballot is not below min_proposal
Accepts(w, p) == p.ballot >= w.acc.min_proposal

\* ACCEPTOR LOGIC - ACCEPT PHASE
AcceptorAccept(w, p) ==
    LET w1 == IF Accepts(w, p)
              THEN [w EXCEPT !.acc = [min_proposal |-> p.ballot,
                                      accepted_proposal |-> p.ballot,
                                      accepted_value |-> p.value]]
              ELSE w
        rmp == Max({w1.acc.min_proposal, w1.agg.rx_min_proposal, p.proposal})
        w2 == [w1 EXCEPT !.agg.rx_min_proposal = rmp]
        w3 == IF w2.txb.proposal # rmp
              THEN [w2 EXCEPT !.txb.proposal = rmp, !.tx = TRUE, !.delta = TRUE]
              ELSE w2
    IN  IF w3.acc.accepted_proposal > w3.agg.rx_accepted_proposal
        THEN [w3 EXCEPT !.agg.rx_accepted_proposal = w3.acc.accepted_proposal,
                        !.agg.rx_accepted_value = w3.acc.accepted_value]
        ELSE w3

(* TRANSMISSION LOGIC: flag merge, own flag, PREPARE dampening, quorum     *)
(* read and completion.  n_replies and flag_sum are taken before the own   *)
(* flag is added.                                                          *)
MergeFlags(n, w, p, newPhase, coin, now) ==
    LET flags == IF newPhase THEN w.txb.flags ELSE w.txb.flags \cup p.flags
        nReplies == Cardinality(flags)
        delta == newPhase \/ w.delta \/ p.flags # w.txb.flags
        tx1 == newPhase \/ w.tx \/ delta
        tx2 == IF /\ ~w.prop.is_proposer /\ p.phase = PAXOS_PREPARE
                  /\ Majority(nReplies) /\ tx1
               THEN coin ELSE tx1
        learn == /\ p.phase = PAXOS_ACCEPT /\ p.ballot = p.proposal
                 /\ Majority(nReplies)
        full == p.phase = PAXOS_ACCEPT /\ flags = Nodes
    IN  [w EXCEPT !.txb.flags = flags \cup {n},
                  !.delta = delta,
                  !.tx = tx2 \/ full,
                  !.lrn = IF learn THEN p.value ELSE @,
                  !.ctl.value_chosen_this_round = @ \/ learn,
                  !.ctl.completion_slot = IF full /\ ~w.ctl.complete THEN now ELSE @,
                  !.ctl.complete = @ \/ full,
                  !.read = IF learn THEN {<<p.ballot, p.value>>} ELSE {}]

\* BEGIN ACCEPTOR LOGIC ... END ACCEPTOR LOGIC
AcceptorLogic(n, w, rb, rx, coin, now) ==
    LET p == Payload(w, rb, rx)
    IN  IF ~IsNewer(p, w.txb)
        THEN [w EXCEPT !.tx = TRUE]   \* old ballot: teach the newest data
        ELSE LET newPhase == ~(p.ballot = w.txb.ballot /\ p.phase = w.txb.phase)
                 w1 == IF newPhase THEN [w EXCEPT !.txb = p, !.agg = ZeroAgg] ELSE w
                 w2 == CASE p.phase = PAXOS_PREPARE -> AcceptorPrepare(w1, Payload(w1, rb, rx))
                         [] p.phase = PAXOS_ACCEPT -> AcceptorAccept(w1, Payload(w1, rb, rx))
                         [] OTHER -> w1
             IN  MergeFlags(n, w2, Payload(w2, rb, rx), newPhase, coin, now)

(* BEGIN PROPOSER LOGIC, run while is_proposer && !got_majority: returns   *)
(* the working record with the lost_proposal and update_phase decisions.   *)
ProposerDecide(w, p) ==
    LET pr == w.prop
        pb == pr.proposed_ballot
    IN
    IF pr.loser_timeout > 0
    THEN [w |-> [w EXCEPT !.prop.loser_timeout = @ - 1],
          lost |-> FALSE, update |-> pr.loser_timeout = 1]
    ELSE IF p.ballot = pb /\ p.phase = pr.phase
    THEN LET lostHere ==
                 \/ pr.phase = PAXOS_PREPARE /\ w.agg.rx_accepted_proposal > pb
                 \/ pr.phase = PAXOS_ACCEPT /\ w.agg.rx_min_proposal > pb
             pv == IF pr.phase = PAXOS_PREPARE /\ w.agg.rx_accepted_proposal > 0
                   THEN w.agg.rx_accepted_value ELSE pr.proposed_value
             maj == ~lostHere /\ Majority(Cardinality(w.txb.flags))
             phase == IF maj /\ pr.phase = PAXOS_PREPARE THEN PAXOS_ACCEPT ELSE pr.phase
             gm == maj /\ pr.phase = PAXOS_ACCEPT
         IN  [w |-> [w EXCEPT !.prop.proposed_value = pv, !.prop.phase = phase,
                              !.prop.got_majority = gm],
              lost |-> \/ lostHere
                       \/ phase = PAXOS_ACCEPT /\ w.agg.rx_min_proposal > pb /\ ~gm,
              update |-> maj /\ pr.phase = PAXOS_PREPARE]
    ELSE IF p.ballot = pb  \* our ballot, another phase: propagate
    THEN [w |-> [w EXCEPT !.tx = TRUE], lost |-> FALSE, update |-> FALSE]
    ELSE IF p.ballot > pb
    THEN [w |-> w, lost |-> TRUE, update |-> FALSE]
    ELSE \* smaller ballot: transmit ours, starting the proposal if not yet done
         [w |-> IF pr.phase = PAXOS_INIT THEN StartPrepare([w EXCEPT !.tx = TRUE])
                                         ELSE [w EXCEPT !.tx = TRUE],
          lost |-> FALSE, update |-> FALSE]

\* Mutant: a short random-style backoff that lets the loser compete again this round.
LoseProposalShortBackoff(w) ==
    LET pb == w.prop.proposed_ballot
    IN  [w EXCEPT !.prop.proposed_ballot = Ballot((BallotRound(pb) + 1) % 256, BallotId(pb)),
                  !.prop.proposed_value = IF w.agg.rx_accepted_proposal > 0
                                          THEN w.agg.rx_accepted_value ELSE @,
                  !.prop.phase = PAXOS_PREPARE,
                  !.prop.got_majority = FALSE,
                  !.prop.loser_timeout = 2]

\* competition was lost: next ballot, adopt any reported value, back off
LoseProposal(w) ==
    LET pb == w.prop.proposed_ballot
    IN  [w EXCEPT !.prop.proposed_ballot = Ballot((BallotRound(pb) + 1) % 256, BallotId(pb)),
                  !.prop.proposed_value = IF w.agg.rx_accepted_proposal > 0
                                          THEN w.agg.rx_accepted_value ELSE @,
                  !.prop.phase = PAXOS_PREPARE,
                  !.prop.got_majority = FALSE,
                  !.prop.loser_timeout = (MaxSlots - 1) % 256]

\* Mutant: update_phase keeps the flags of the previous phase.
UpdatePhaseKeepFlags(n, w) ==
    [w EXCEPT !.txb = [ballot |-> w.prop.proposed_ballot, phase |-> w.prop.phase,
                       proposal |-> 0, value |-> w.prop.proposed_value,
                       flags |-> w.txb.flags \cup {n}],
              !.tx = TRUE, !.delta = TRUE]

\* update_phase: write the new phase into the TX buffer with the flags of
\* the paxos_local template ("only my flag")
UpdatePhase(n, w) ==
    [w EXCEPT !.txb = [ballot |-> w.prop.proposed_ballot, phase |-> w.prop.phase,
                       proposal |-> 0, value |-> w.prop.proposed_value, flags |-> w.loc.flags],
              !.tx = TRUE, !.delta = TRUE]

ProposerLogic(n, w, p) ==
    IF ~(w.prop.is_proposer /\ ~w.prop.got_majority) THEN w
    ELSE LET d == ProposerDecide(w, p)
             w1 == IF d.lost THEN LoseProposal(d.w) ELSE d.w
         IN  IF d.update THEN UpdatePhase(n, w1) ELSE w1

\* Mutant: the restart does not clear invalid_rx_count.
RestartRxNoReset(w, thr) ==
    [w EXCEPT !.ctl.tx_count_complete = IF w.ctl.complete THEN @ + 1 ELSE @,
              !.ctl.restart_threshold = thr]

\* Too many silent slots: restart the flood by transmitting, redraw the threshold.
RestartRx(w, thr) ==
    [w EXCEPT !.ctl.invalid_rx_count = 0,
              !.ctl.tx_count_complete = IF w.ctl.complete THEN @ + 1 ELSE @,
              !.ctl.restart_threshold = thr]

(* BEGIN SYNCHROTRON STATE LOGIC and the report of final results: returns  *)
(* the working record and the next radio state.                            *)
RadioLogic(n, w, cur, ok, thr, crash, now) ==
    LET c == w.ctl
        r == IF n = Initiator /\ cur = "INIT"
             THEN [w |-> LET w1 == [w EXCEPT !.ctl.got_valid_rx = TRUE]
                         IN  IF w.prop.is_proposer /\ w.prop.phase = PAXOS_INIT
                             THEN StartPrepare(w1) ELSE w1,
                   next |-> "TX"]
             ELSE IF c.tx_count_complete > NTxComplete
             THEN [w |-> w, next |-> "OFF"]
             ELSE IF cur = "RX" /\ ok
             THEN [w |-> [w EXCEPT !.ctl.invalid_rx_count = 0,
                                   !.ctl.tx_count_complete =
                                       IF w.tx /\ c.complete
                                       THEN IF w.delta THEN 0 ELSE @ + 1
                                       ELSE @],
                   next |-> IF w.tx THEN "TX" ELSE "RX"]
             ELSE IF cur = "RX" /\ ~ok /\ c.got_valid_rx
             THEN IF c.invalid_rx_count + 1 > c.restart_threshold
                  THEN [w |-> RestartRx([w EXCEPT !.ctl.invalid_rx_count = @ + 1], thr),
                        next |-> "TX"]
                  ELSE [w |-> [w EXCEPT !.ctl.invalid_rx_count = @ + 1], next |-> "RX"]
             ELSE IF cur = "TX" /\ ~ok
             THEN [w |-> [w EXCEPT !.ctl.got_valid_rx = TRUE], next |-> "TX"]
             ELSE [w |-> w, next |-> "RX"]
        w2 == r.w
        report == w2.ctl.complete \/ now >= MaxSlots - 1
    IN  [w |-> IF report
               THEN [w2 EXCEPT !.fp = TRUE,
                               !.loc = [@ EXCEPT !.value = w2.acc.accepted_value,
                                                 !.proposal = w2.acc.accepted_proposal,
                                                 !.ballot = w2.acc.min_proposal,
                                                 !.phase = w2.txb.phase],
                               !.prop.phase = IF w2.prop.is_proposer THEN @ ELSE w2.txb.phase]
               ELSE w2,
         next |-> IF crash THEN "OFF" ELSE r.next]

(* The whole callback for node n: cur is current_state, ok is             *)
(* chaos_txrx_success, rx the received packet (meaningful when cur = RX   *)
(* and ok).                                                               *)
Process(n, cur, ok, rx, coin, thr, crash, now) ==
    LET w0 == [txb |-> txb[n], acc |-> acceptor[n], prop |-> proposer[n],
               lrn |-> learner[n], agg |-> agg[n], ctl |-> ctl[n], loc |-> local[n],
               fp |-> paxos_flags[n], tx |-> FALSE, delta |-> FALSE, read |-> {}]
        rb == cur = "TX"
        valid == ok /\ (cur = "RX" \/ (cur = "TX" /\ w0.prop.is_proposer))
        w1 == [w0 EXCEPT !.ctl.got_valid_rx = TRUE]
        p1 == Payload(w1, rb, rx)
        w2 == IF ~valid THEN w0
              ELSE IF p1.phase = PAXOS_INIT /\ w1.acc.min_proposal = 0
              THEN InitHeartbeat(n, w1, p1)
              ELSE LET wa == AcceptorLogic(n, w1, rb, rx, coin, now)
                   IN  ProposerLogic(n, wa, Payload(wa, rb, rx))
    IN  RadioLogic(n, w2, cur, ok, thr, crash, now)

-----------------------------------------------------------------------------
(***************************************************************************)
(* One slot of the Synchrotron scheduler (chaos_round, outside src/): the  *)
(* nodes in TX whose transmission went out (`sent`) are heard; a node in   *)
(* RX receives the packet of one of them or nothing; a node in TX that     *)
(* missed its transmit time gets chaos_txrx_success = 0.  Every node that  *)
(* is not OFF then runs process.  The random draws of process (PREPARE     *)
(* dampening, restart threshold, failure injection) are chosen per node.   *)
(***************************************************************************)
Idle(n) ==
    [w |-> [txb |-> txb[n], acc |-> acceptor[n], prop |-> proposer[n],
            lrn |-> learner[n], agg |-> agg[n], ctl |-> ctl[n], loc |-> local[n],
            fp |-> paxos_flags[n], tx |-> FALSE, delta |-> FALSE, read |-> {}],
     next |-> "OFF"]

(* When chaos_round returns, paxos_round_begin copies the final flags:     *)
(* memcpy(paxos_local.paxos.flags, paxos_flags, len).  paxos_flags points   *)
(* at the TX buffer's flags once a report has run; before that it is NULL  *)
(* and the copy reads whatever lies at address 0, here any set of flags.   *)
RoundEndFlags(w, junk, n) == IF w.fp THEN w.txb.flags ELSE junk[n]

(* The last slot also ends the round: chaos_round returns to               *)
(* paxos_round_begin, which copies the final flags into paxos_local.       *)
SlotStep ==
    /\ slot < MaxSlots
    /\ \E sent \in SUBSET {n \in Nodes : radio[n] = "TX"},
          src \in [Nodes -> Nodes \cup {NoNode}],
          coin \in [Nodes -> DampenDraws],
          thr \in [Nodes -> Thresholds],
          crash \in [Nodes -> CrashDraws] :
        /\ \A n \in Nodes :
              src[n] \in IF radio[n] = "RX" THEN sent \cup {NoNode} ELSE {NoNode}
        /\ LET Ok(n) == IF radio[n] = "TX" THEN n \in sent ELSE src[n] # NoNode
               Rx(n) == IF src[n] = NoNode THEN txb[n] ELSE txb[src[n]]
               R == [n \in Nodes |->
                       IF radio[n] = "OFF" THEN Idle(n)
                       ELSE Process(n, radio[n], Ok(n), Rx(n), coin[n], thr[n], crash[n], slot)]
           IN  /\ slot' = slot + 1
               /\ radio' = [n \in Nodes |-> R[n].next]
               /\ txb' = [n \in Nodes |-> R[n].w.txb]
               /\ acceptor' = [n \in Nodes |-> R[n].w.acc]
               /\ proposer' = [n \in Nodes |-> R[n].w.prop]
               /\ learner' = [n \in Nodes |-> R[n].w.lrn]
               /\ agg' = [n \in Nodes |-> R[n].w.agg]
               /\ ctl' = [n \in Nodes |-> R[n].w.ctl]
               /\ paxos_flags' = [n \in Nodes |-> R[n].w.fp]
               /\ IF slot + 1 < MaxSlots
                  THEN local' = [n \in Nodes |-> R[n].w.loc]
                  ELSE \E junk \in [{n \in Nodes : ~R[n].w.fp} -> SUBSET Nodes] :
                         local' = [n \in Nodes |->
                                     [R[n].w.loc EXCEPT !.flags = RoundEndFlags(R[n].w, junk, n)]]
               /\ rnd' = rnd
               /\ resets' = resets
               /\ votes' = votes \cup
                    {<<n, acceptor'[n].accepted_proposal, acceptor'[n].accepted_value>> :
                        n \in {m \in Nodes : acceptor'[m].accepted_proposal # 0}}
               /\ reads' = reads \cup
                    UNION {{<<n, r[1], r[2], rnd>> : r \in R[n].w.read} : n \in Nodes}

Next == RoundBegin \/ SlotStep

Spec == Init /\ [][Next]_vars

-----------------------------------------------------------------------------
TypeOK ==
    /\ rnd \in 0 .. MaxRounds
    /\ slot \in 0 .. MaxSlots
    /\ local \in [Nodes -> Packet]
    /\ paxos_flags \in [Nodes -> BOOLEAN]
    /\ radio \in [Nodes -> {"INIT", "RX", "TX", "OFF"}]
    /\ \A n \in Nodes : txb[n] \in Packet
    /\ acceptor \in [Nodes -> [min_proposal : Nat, accepted_proposal : Nat,
                               accepted_value : Nat]]
    /\ learner \in [Nodes -> Nat]
    /\ \A n \in Nodes : /\ proposer[n].loser_timeout \in 0 .. 255
                        /\ ctl[n].invalid_rx_count <= ctl[n].restart_threshold
                        /\ ctl[n].tx_count_complete <= NTxComplete + 1

\* A set of nodes larger than half of the network.
IsQuorum(S) == 2 * Cardinality(S) > N

\* The set of nodes that accepted (b, v) at some time in the round.
Voters(b, v) == {a \in Nodes : <<a, b, v>> \in votes}

(* Flag soundness in PREPARE: a flag bit in a PREPARE packet of ballot b, *)
(* in any node's TX buffer, stands for a node that has promised b          *)
(* (min_proposal >= b).  Flags are OR-merged across packets relayed by     *)
(* several nodes and must be reset whenever a buffer takes a new ballot or *)
(* phase, including when a proposer starts its own PREPARE.                *)
PrepareFlagsSound ==
    \A n \in Nodes : \A m \in txb[n].flags :
        txb[n].phase = PAXOS_PREPARE => acceptor[m].min_proposal >= txb[n].ballot

(* Flag soundness in ACCEPT (the aggregation behind the quorum read): in   *)
(* an ACCEPT packet of (b, v), every flagged node has accepted (b, v),     *)
(* except the proposer's own bit in its own buffer between update_phase   *)
(* and the read-back of its first transmission.                            *)
AcceptFlagsSound ==
    \A n \in Nodes : \A m \in txb[n].flags :
        LET p == txb[n] IN
        p.phase = PAXOS_ACCEPT =>
            \/ m \in Voters(p.ballot, p.value)
            \/ m = n /\ n = BallotId(p.ballot)

(* Quorum read: a node that records a learned value after counting more    *)
(* than N/2 flags under an ACCEPT packet with ballot = proposal has seen a *)
(* value that a majority of nodes really accepted at that ballot (and     *)
(* still hold: paxos_reset_state makes an acceptor forget its accepts).    *)
QuorumReadSound ==
    \A r \in reads : r[4] = rnd => IsQuorum(Voters(r[2], r[3]))

(* Agreement of one consensus round (spec.md section 8, invariant 1): two *)
(* quorum reads in the same round, by any nodes at any ballots, yield the  *)
(* same value.  With two proposers it rests on the PREPARE flags being     *)
(* real promises and on the promises reporting every accepted proposal.    *)
Agreement ==
    \A r1, r2 \in reads : r1[4] = r2[4] => r1[3] = r2[3]

(* Promise with report (spec.md section 4.1, Paxos phase 1b): a PREPARE   *)
(* packet of ballot b that carries the flag of an acceptor m which has     *)
(* promised b reports an accepted proposal at least as high as the one m  *)
(* accepted before that promise, so that the proposer adopts its value.   *)
PrepareReportsAccepted ==
    \A n, m \in Nodes :
        LET p == txb[n] IN
        /\ p.phase = PAXOS_PREPARE /\ m \in p.flags
        /\ acceptor[m].min_proposal >= p.ballot
        /\ 0 < acceptor[m].accepted_proposal /\ acceptor[m].accepted_proposal < p.ballot
        => p.proposal >= acceptor[m].accepted_proposal

(* paxos_proposer_got_majority(): a proposer that reports a majority in    *)
(* ACCEPT has its (ballot, value) accepted by a majority.                  *)
ProposerMajoritySound ==
    \A p \in Nodes :
        proposer[p].is_proposer /\ proposer[p].got_majority
            /\ proposer[p].phase = PAXOS_ACCEPT
        => IsQuorum(Voters(proposer[p].proposed_ballot, proposer[p].proposed_value))

(* Retry safety (spec.md section 7: an inconclusive round may be retried   *)
(* next round): while no node runs paxos_reset_state, the rounds continue  *)
(* one consensus instance, so a value read as chosen in one round is the   *)
(* value read in every later round.  paxos_round_begin restarts the        *)
(* proposer at ballot (1, id) with the caller's value every round.         *)
RetryAgreement ==
    \A x, y \in reads :
        x[4] < y[4] /\ ~(\E r \in resets : x[4] < r /\ r <= y[4]) => x[3] = y[3]

(* Defined final flags: when chaos_round returns, paxos_round_begin copies *)
(* the final flags through the paxos_flags pointer, which only the report  *)
(* of final results in process sets (complete, or the last slots).  Every *)
(* node must therefore have reported by the end of its round, also a node *)
(* that failure injection switched OFF early.                             *)
FinalFlagsReported ==
    [][slot # MaxSlots /\ slot' = MaxSlots => \A n \in Nodes : paxos_flags'[n]]_vars

(* No wrap of the ballot's round counter (the 8-bit proposed_ballot.round *)
(* of paxos.c:509): a proposer that loses backs off for                    *)
(* PAXOS_ROUND_MAX_SLOTS - 1 slots, so it loses at most once in a round,  *)
(* and paxos_round_begin starts every round at round 1; the counter stays *)
(* at 2 or below and never reaches the wrap at 256.                         *)
BallotRoundBounded ==
    \A n \in Nodes : proposer[n].is_proposer => BallotRound(proposer[n].proposed_ballot) <= 2

=============================================================================
