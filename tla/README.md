# TLA+ models of Wireless Paxos

This directory holds TLA+ models of the Wireless Paxos and Wireless Multi-Paxos
libraries in `src/core/net/mac/chaos/lib/`, which run on top of the
Synchrotron/Chaos slotted flooding primitive. It also holds the TLC
configurations that check the models. Every definition is translated from the C
source. `PROJECT.json` maps each definition to the lines it models.

## The system

| Part | Source | State | Operations |
|---|---|---|---|
| Paxos per-slot callback | `lib/paxos/paxos.c` `process` | TX buffer (`paxos_t` + flags), `paxos_state` (acceptor, proposer, learner, rx aggregates), slot statics (`complete`, `tx_count_complete`, `invalid_rx_count`, `restart_threshold`, ...) | acceptor PREPARE/ACCEPT, flag merge, quorum read, proposer start (3 copies), lose, update phase, radio next-state, final report |
| Paxos round driver | `paxos.c` `paxos_round_begin`, `paxos_reset_state` | `paxos_local` (report and flag template) | initialise slot statics and proposer, set own flag, run `chaos_round`, copy the final flags back |
| Paxos app | `apps/chaos/paxos/paxos-app.c` | `is_proposer`, `complete`, value counter | initiator proposes `round+1`; reset only after a complete round |
| Multi-Paxos per-slot callback | `lib/multipaxos/multipaxos.c` `process` | log ring of `LOG_SIZE` accepted proposals/values, leader state, `max_heard_round` | iterative PREPARE over the log, ACCEPT of a batch of values, NO_OP filling, leader heartbeat |
| Multi-Paxos app and round driver | `apps/chaos/multipaxos/multipaxos-app.c`, `multipaxos_round_begin` | `is_proposer`, values to propose, chosen values | the initiator leads every round and proposes `chosen + (i + 1)` after a majority; the takeover hook `multipaxos_app_should_node_become_leader` exists but is never called |
| Dynamic join | `node/dynamic/node.c` | `chaos_node_index`, `chaos_node_count`, `stable_initiator` | globals filled in by the join protocol (outside `src/`); initiator-stability helpers nobody calls |
| Timing test | `lib/timing-unit-test/slotted-multi-test/slotted-multi-test.c` | `got_valid_rx` | the initiator floods a packet every round; a node that has it relays it in the slots of its transmit group |
| Chaos scheduler | outside `src/` | radio state per node | one slot: transmitters broadcast, listeners receive one packet (capture) or nothing |

How the parts interact: the app calls `paxos_round_begin` once per Synchrotron
round. That call runs `chaos_round`, which calls `process` once per slot on
every node until the node turns OFF or the round reaches
`PAXOS_ROUND_MAX_SLOTS`. All nodes run the same callback. The proposer logic
runs after the acceptor logic in the same call, and the acceptor logic reads
the packet the node just received. When the node transmitted in the slot, it
reads its own TX buffer instead.

Behaviours that make this code hard:
- The OR-merge of participation flags relayed over several slots.
- Capture, where a listener hears one of several concurrent transmitters.
- A node transmitting in a slot reads back its own buffer.
- Two proposers competing.
- Random TX dampening and restart timeouts.
- Failure injection, where a node switches OFF mid-round.
- State carried from one round to the next.

## Modules

### `WirelessPaxos.tla`: successive rounds of single-decree Wireless Paxos

- **Constants:**
  - `N` is the number of nodes.
  - `Initiator` is the Synchrotron initiator.
  - `Proposers` are the nodes that call `paxos_round_begin` as proposers; `ProposerValue[p][r]` is the value `p` passes in round `r`. For paxos-app.c it is `AppValue(r)`, the app's `round_count_local + 1`.
  - `MaxRounds` is the number of Synchrotron rounds explored.
  - The C defines appear as `MaxSlots`, `NTxComplete` and `RestartMin`/`RestartMax`.
  - `InjectFailures` stands for `FAILURES_RATE`.
- **Variables:** each node has its TX buffer `txb`, `acceptor`, `proposer`, `learner`, the rx aggregates `agg`, the slot statics `ctl`, `paxos_local` (`local`: the reported header and the flag template), `paxos_flags` (NULL or the TX buffer's flags) and its radio state `radio`; `rnd` and `slot` count rounds and slots.
- **History variables:** `votes` holds `<<a, b, v>>` for every accept an acceptor still remembers (`paxos_reset_state` erases a node's entries). `reads` holds `<<n, b, v, r>>` for every quorum read, with its round. `resets` holds the rounds before which some node reset.
- **Init** is the boot state: every static zeroed, no round running.
- **`RoundBegin`** is paxos-app.c `round_begin` on every node: `paxos_reset_state` when the previous round completed at that node (`AppReset`), then `PaxosRoundBegin` (slot statics cleared, restart threshold drawn, a proposer put at ballot (1, id) with the caller's value, which is also written into `paxos_local.paxos.value`, and the own flag OR-ed into the template). `chaos_round` then starts from `paxos_local.paxos` as the TX buffer.
- **`Process`** is the whole callback, split into the code's own stages in their order:
  - `InitHeartbeat` for `PAXOS_INIT` packets;
  - `AcceptorLogic`, which contains `AcceptorPrepare`, `AcceptorAccept` and `MergeFlags` (flag merge, PREPARE dampening, quorum read, completion);
  - `ProposerLogic`, which contains `ProposerDecide`, `LoseProposal` and `UpdatePhase`;
  - `RadioLogic`, which covers the Synchrotron state logic, failure injection and the final report.
  - A working record is threaded through the stages. It models the aliasing of `payload` and `tx_paxos` when the node read back its own transmission.
- **`SlotStep`** is one network slot:
  - A subset of the transmitters really sends.
  - Each listener receives one sent packet or nothing.
  - All nodes that are not OFF then run `Process`.
  - The random draws of `process` are chosen nondeterministically per node: dampening, the new restart threshold and failure injection.
  - The last slot of a round also ends `paxos_round_begin`: `RoundEndFlags` copies the final flags of the TX buffer into the `paxos_local` template (line 758). A node that never reported has a NULL `paxos_flags`; the copy then reads address 0, modelled as an arbitrary flag set.

Abstractions:
- Flags are a set of node indices. Byte-wise OR is union, `bit_count` is `Cardinality`, and `flag_sum >= FLAG_SUM` means every bit is set.
- Values are small integers.
- Statistics, LEDs and printing are left out.

### `WirelessMultiPaxos.tla`: successive rounds of Wireless Multi-Paxos

- **Constants:** `N`, `Initiator`, `K` (`MULTIPAXOS_PKT_SIZE`, decrees per batch), `LogSize` (`MULTIPAXOS_LOG_SIZE`), `MaxSlots`, `MaxRounds` (Synchrotron rounds explored), `NTxComplete`, `RestartMin`/`RestartMax`, `InjectFailures`.
- **Variables:** per node the TX buffer `txb`, the saved header `local` (`multipaxos_local`, line 640), `acceptor` (min proposal, the log ring of accepted proposals/values, `last_round_participation`), `leader`, `learner` (learned ring, `last_round`), the rx aggregates `agg`, the slot statics `ctl` and the app statics `app`; `rnd` and `slot` count rounds and slots. `not_heard_from_leader_since` is left out: only the takeover hook would read it.
- **History variables:** `votes` holds `<<a, d, b, v>>` for every accept of value `v` for decree `d` at ballot `b`; `reads` holds `<<n, d, v>>` for every quorum read.
- **`RoundBegin`** is the app's `round_begin` (`AppRoundBegin`: `IS_INITIATOR()` sets the static `is_proposer`, so the initiator is the leader; after a majority it asks for `chosen + (i + 1)`) followed by the set-up part of `multipaxos_round_begin`: slot statics, new restart threshold, leader set-up (`multipaxos_set_initial_leader_state` or `multipaxos_set_leader_values`), and the TX buffer rebuilt from the saved header plus the own flag (the flags are not part of `sizeof(multipaxos_t)`).
- **`SlotStep`** is one slot as in `WirelessPaxos`; `Process` runs the code's stages in order: `Heartbeat` (INIT packets), `AcceptorLogic` (`AcceptorPrepare` over the log window, `AcceptorAccept` with `Nullified` and `AcceptWindow`, then `MergeFlags` with the quorum read into the learner ring and completion), `LeaderLogic` (`AdoptValues` with NO_OP filling, ACCEPT majority, losing, `UpdatePhase`) and `RadioLogic` (radio state, the header save, failure injection). The last slot of a round also runs `RoundReport`, the report `multipaxos_round_begin` makes after `chaos_round`.
- In the shipped app only the initiator ever leads, and it starts every round with its own PREPARE or ACCEPT packet, so no INIT-phase packet is ever sent and a second leader never appears.
- **Leader takeover is not modelled.** `multipaxos_app_should_node_become_leader` has no caller under `src/`, so no node other than the initiator is ever made leader, and a model that promotes nodes would check a behaviour the code never has.

### `MCWirelessMultiPaxosLong.tla`: Multi-Paxos after a long run

The uint8_t widths of the code are reached only after more than a hundred rounds: the nullify counter of `multipaxos.c:293` wraps at decree 256, and the app's values at 255. TLC cannot explore that far from boot. This instance starts instead from `Steady(StartRound)`, the state at the end of round `StartRound` of a failure-free run (N = 3, the initiator leads, K = 2, a 3-entry ring, 8 slots). In that state:
- every node accepted, read and reported every batch so far, and node N - 1 relayed last;
- the history variables hold exactly those accepts and reads;
- the leader's batch of round j is `BatchValues(j)`, the closed form of the app's recurrence `chosen + (i + 1)` in uint8_t. An `ASSUME` checks it against `NewValues` for every round of the instance. A recursive definition would overflow TLC's stack at a depth of about a hundred.

`Steady(j)` is a state the code reaches. From boot, TLC finds `Steady(1)` at the end of the first round. From `Steady(j)` it finds `Steady(j + 1)` one round later; this was checked for every j from 2 to 300 with `~Steady(j + 1)` as an invariant. By induction every `Steady(j)`, j <= 300, is reachable. From the start state the whole slot model runs as usual (`LongSpec`).

### `SlottedMultiTest.tla`: the slotted multi-transmitter timing test

- **Constants:** `N` (`chaos_node_count`), `Initiator`, `ConcurrentTxCount` (`CHAOS_CONCURRENT_TX_COUNT`), `MaxSlots` (`SLOTTED_MULTI_TEST_ROUND_MAX_SLOTS`), `MaxRounds`, and `Lossless`, a radio assumption: every listener with a transmitting neighbour hears one of them.
- **Variables:** the deployment `links` (chosen in `Init` among all connected graphs, `Topologies`, then fixed), `got_valid_rx` and `radio` per node, `rnd` and `slot`.
- **`RoundBegin`** is `slotted_multi_test_is_pending` (always 1) and `slotted_multi_test_round_begin` on every node: `got_valid_rx` cleared and `chaos_round` entered.
- **`Process`** is the callback: it copies a valid packet heard while listening, and it transmits next in the initiator's first slot, or in slots where `slot_count % concurrent_tx` equals `chaos_node_index % concurrent_tx` once the node holds the packet. `concurrent_tx = chaos_node_count / CHAOS_CONCURRENT_TX_COUNT` is a `uint8_t`. When it is 0 the modulo is undefined, and `UBDraws` draws the test's outcome per node.
- **`SlotStep`** is one slot: a listener hears one of its transmitting neighbours or nothing.
- All transmitters send the initiator's packet or a copy of it, so the payload is left out.

## Runs

| Run | Config | Expect | What it shows |
|---|---|---|---|
| app | `MCWirelessPaxos_app.cfg` | pass | paxos-app.c setting: 3 nodes, the initiator is the only proposer, failure injection on, 10 slots. Flags are sound in PREPARE (`PrepareFlagsSound`) and ACCEPT (`AcceptFlagsSound`). Every quorum read (`QuorumReadSound`) and every proposer majority (`ProposerMajoritySound`) is backed by a real majority of accepts. |
| duel | `MCWirelessPaxos_duel.cfg` | pass | Proposers 0 and 2 and a non-proposing initiator 1, 12 slots. The ACCEPT aggregation, quorum reads and proposer majorities stay sound under competition. A proposer's ballot never goes past round 2 within a Synchrotron round (`BallotRoundBounded`): the loser's timeout keeps it from losing twice, so the 8-bit ballot round of `paxos.c:509` cannot wrap. |
| mp_app | `MCWirelessMultiPaxos_app.cfg` | pass | Two rounds of multipaxos-app.c on 3 nodes, `K = 2`, a 3-entry log ring, 8 slots per round (about 200,000 states, 1.5 minutes). Every quorum read and leader majority is backed by a majority of accepts (`QuorumReadSound`, `LeaderMajoritySound`); reads of a decree agree across rounds (`Agreement`); acceptor log rings hold the chosen value of every decree they still keep (`LogAgreesWithReads`); the app is told exactly the values the node read (`ReportedValuesRead`, an action property). |
| duel_prepare_flags | `MCWirelessPaxos_prepflags.cfg` | violation | The duel. `PrepareFlagsSound` fails: a proposer counts promises made to a lower ballot (finding 1). |
| app_retry | `MCWirelessPaxos_retry.cfg` | violation | Two rounds of paxos-app.c, 8 slots each, no failure injection. `RetryAgreement` fails: with no reset between them, round 2 chooses a different value than round 1 (finding 2). |
| app_template | `MCWirelessPaxos_template.cfg` | violation | Same setting. `PrepareFlagsSound` fails in round 2 through the flag template copied back after round 1 (finding 3). |
| app_null_flags | `MCWirelessPaxos_nullflags.cfg` | violation | One round of paxos-app.c with failure injection. `FinalFlagsReported` (an action property) fails: a node switched OFF before the report of final results reaches the end of the round with a NULL `paxos_flags`, which `paxos.c:758` copies (finding 4). |
| mp_long_nullify | `MCWirelessMultiPaxosLong_nullify.cfg` | violation | From `Steady(127)`, two more rounds. `LogAgreesWithReads` fails: a node that missed the batch of decrees 255-256 does not nullify its ring slot on the next ACCEPT, because the uint8_t nullify counter wraps (finding 5). |
| duel_prepare_report | `MCWirelessPaxos_report.cfg` | violation | The duel, 10 slots. `PrepareReportsAccepted` fails: node 0 accepted (256, 1), then promises 258 and flags the PREPARE packet without reporting what it accepted (finding 7). |
| duel_agreement | `MCWirelessPaxos_agreement.cfg` | violation | The duel, 10 slots. `Agreement` fails: nodes read value 1 at ballot (1, 0) and value 3 at ballot (1, 2) in the same round (findings 1 and 7 together). |
| mp_long_noop | `MCWirelessMultiPaxosLong_noop.cfg` | violation | From `Steady(255)`, one more round. `NoOpNotChosen` fails: the app's uint8_t value `chosen + 1` reaches 255, the reserved NO_OP, and it is chosen (finding 6). |
| flood | `MCSlottedMultiTest_flood.cfg` | pass | The timing test on all 728 connected topologies of 5 nodes, `CHAOS_CONCURRENT_TX_COUNT = 2`, two rounds of 10 slots, lossless links. A node `h` hops from the initiator holds the packet once slot `1 + (h - 1) * concurrent_tx` is over (`FloodLatency`). |

Each property of the passing runs is broken by a mutant of the code listed in
`PROJECT.json`:
- a restart that does not clear `invalid_rx_count`;
- a loser timeout of 2 slots, so the loser competes again in the same round;
- an acceptor that does not record its promise;
- a strict `>` in the accept test;
- an off-by-one majority;
- an `update_phase` that keeps the previous phase's flags;
- in Multi-Paxos also: a resuming leader that does not rewrite the packet's round, a batch written without the per-decree offset, and a report that reads the ring one decree early;
- in the timing test: a group test made before the received packet is taken into account (one slot late).

### Bounds

- **Three nodes** is the smallest network where a majority (2) differs from all nodes and from one node. Relaying through a third node is needed for the merged-flag cases.
- **Slots:**
  - In the app run, the first quorum read appears at slot 5 and completion shortly after. 10 slots cover completion, the final floods (`N_TX_COMPLETE = 1`) and nodes turning OFF.
  - In the duel run, 12 slots cover a full PREPARE/ACCEPT of both proposers.
- **Restart threshold:** `RestartMax = 2` fixes the threshold at 1. The restart path still fires, and a larger range only multiplies the states.
- **Rounds:** the single-decree runs that pass cover one round (`MaxRounds = 1`, started from boot by `RoundBegin`). Two rounds are enough for every cross-round finding, and TLC reaches each in at most 17 steps. A two-round paxos-app run has no passing safety property left to check: the findings break them all.
- **Long runs:** `Steady(127)` plus two rounds puts decrees 255-258 into the explored rounds, past the uint8_t nullify counter; `Steady(255)` plus one round makes the app's next value 255. Each violation is found within 20 seconds. A passing run from a steady start (more than 700 history tuples per state) did not finish in 20 minutes and is not part of the project.
- **Failure injection** is on in the app run. In the duel run it is off, to keep that run within minutes.
- **Multi-Paxos:** round 1 needs all 8 slots for a PREPARE and an ACCEPT of decrees 1-2; round 2 resumes in ACCEPT for decrees 3-4 from the carried-over header, and with a 3-entry ring decree 3 reuses the entry of decree 0 and decree 4 that of decree 1. A third round (needed for the nullify loop to clear missed decrees) and failure injection across two rounds both grow past a million states and are left out; a node that hears nothing in a round exercises the same carried-over state as one switched OFF.

- **Timing test:** 5 nodes admit a 4-hop line, the deepest network, which needs 8 slots with two groups. The 728 connected graphs on 5 nodes cover every deployment of that size. Two rounds check that `got_valid_rx` is cleared between rounds.

### Fairness

The Paxos models check no liveness property. The round is bounded by
`PAXOS_ROUND_MAX_SLOTS` (or `MULTIPAXOS_ROUND_MAX_SLOTS`) whatever happens.
Radio capture and the random draws come with no fairness that the code could
rely on. So a round may legitimately end without a decision, and
`CHECK_DEADLOCK FALSE` says that the system stops after the last slot.

`SlottedMultiTest` checks no liveness property either. With `Lossless` and
`MaxSlots` above the latency bound, a flood that reaches every node follows from
`FloodLatency`; with losses the test has no retry, and the flood may end
incomplete.

## Findings

1. **Stale PREPARE flags** (`paxos.c:495`, INITIATE 2/3; run duel_prepare_flags):
   - A proposer still in `PAXOS_INIT` that hears a lower-ballot packet starts its PREPARE in a TX buffer that the acceptor logic has just overwritten with that packet.
   - Only ballot and phase are rewritten. The flags of the lower ballot stay, so nodes that never promised the higher ballot are counted for it.
   - TLC reaches this in 3 slots.
2. **A retried round replaces a chosen value** (`paxos.c:743`, `746`; run app_retry):
   - In round 1 value 1 is chosen (a node reads it), but no node sees completion, so paxos-app.c resets nobody.
   - `paxos_round_begin` puts the initiator back at ballot (1, 0) and writes the app's new value 2 into `paxos_local.paxos.value`.
   - The initiator's PREPARE (1, 0) and then ACCEPT (1, 0) with value 2 are accepted again, at a ballot equal to the acceptors' promise, and value 2 is read as chosen.
   - `spec.md` section 7 says an inconclusive round may be retried; Paxos safety needs the retry to keep value 1.
3. **Flag template carried across rounds** (`paxos.c:758`; run app_template):
   - After `chaos_round` the final flags are copied into `paxos_local.paxos.flags`, the "only my flag" template of INITIATE 1/3 and `update_phase`.
   - A node that did not see completion does not reset, and starts its next PREPARE flagged by nodes that did reset and promised nothing.
4. **NULL final flags** (`paxos.c:758`; run app_null_flags):
   - Under failure injection a node can switch OFF before it ever reports final results, so `paxos_flags` is still NULL when `chaos_round` returns.
   - `paxos_round_begin` then `memcpy`s from address 0 into the flag template. The model takes an arbitrary flag set.
   - The copy is guarded only by the round having run; nothing checks that the node reported (line 611).
5. **Nullify counter wraps** (`multipaxos.c:293`; run mp_long_nullify):
   - The loop that nullifies log entries the acceptor missed counts in a `uint8_t`, compared with decree numbers of 16 bits.
   - From decree 256 on it never runs, so a node that missed a batch keeps the value of the decree `LogSize` earlier in that ring slot.
   - `spec.md` section 4.2 says missed entries are nullified.
6. **NO_OP chosen** (`multipaxos-app.c:164`; run mp_long_noop):
   - The app's next value is `chosen + (i + 1)` in `uint8_t`. After 255 successful rounds it is 255, `MULTIPAXOS_NO_OP`.
   - `spec.md` section 3 reserves NO_OP for filling gaps, so a real proposal is read as "no operation".
7. **PREPARE does not report the acceptor's own accepted proposal** (`paxos.c:264`; runs duel_prepare_report and duel_agreement):
   - In PREPARE the acceptor forwards only `rx_accepted_proposal`, the highest proposal heard in packets, which line 243 clears on every new ballot.
   - Its own `accepted_proposal` enters the aggregate only in the ACCEPT branch. So an acceptor that accepted (256, 1) promises 258 and sets its flag, while the packet reports nothing.
   - `spec.md` section 4.1 (Paxos phase 1b) says the promise reports the accepted proposal.
   - Together with finding 1 this lets two proposers read different values in one round (duel_agreement; `spec.md` section 8, invariant 1).

Other disagreements TLC showed while the models were built are kept as hazards in `PROJECT.json`, each with a note, but not as runs:
- A proposer put back at ballot (1, id) lowers its own promise when it starts (`paxos.c:500`, with `519` and `743`). `spec.md` section 8 (invariant 3) says `min_proposal` never decreases, and section 4.1 allows the heartbeat start only when `min_proposal` is 0.
- With fewer nodes than `CHAOS_CONCURRENT_TX_COUNT`, `slotted-multi-test.c:65` takes `slot_count % 0`. For outcomes that keep relays silent, the flood misses nodes.

## Not modelled (yet), and the plan

Modules are added in this order:
1. `WirelessPaxos` (done).
2. Successive rounds of `WirelessPaxos` (done): `paxos_round_begin`, the paxos-app reset rule and the final-flags copy. The NULL `paxos_flags` case is reached in one round with failure injection (app_null_flags, finding 4).
3. `WirelessMultiPaxos` (done): the per-slot callback, the log ring, the round driver and the app, over two rounds. In this model the iterative PREPARE (`do_another_phase_1`) and NO_OP filling are written but never enabled: from a fresh network the only PREPARE is the first one, and no acceptor has accepted anything yet.
4. Multi-Paxos leader takeover: not modelled. `multipaxos_app_should_node_become_leader` and `multipaxos_replay_last_consensus` have no caller under `src/`.
5. An abstract consensus specification and a refinement: not kept. A replicated-log abstraction whose only step is "decisions grow and stay single-valued" adds nothing to `Agreement` and `ReportedValuesRead`, which mp_app checks directly. Single-decree Paxos has none either: within one round of the app setting there is a single proposer, and across rounds the code breaks agreement (finding 2).
6. `SlottedMultiTest` (done): the timing test and its flood latency.

Not modelled at all:
- the dynamic-join helper (`node.c`): `chaos_node_index` and `chaos_node_count` are filled in by the join protocol, which is outside `src/`, and are constants of every model; the initiator-stability helpers have no caller;
- radio timing, slot lengths and clock drift;
- the getters of `multipaxos.c` and `paxos.c` (`*_get_*`, `*_got_network_wide_consensus`), which change no state;
- the uint16_t wrap of decree numbers (`multipaxos.c:309`), after about 32768 rounds: decrees are unbounded integers in the model, and the steady-state start would need a history of 65536 decrees;
- statistics and printing.
