-------------------------- MODULE SlottedMultiTest --------------------------
(***************************************************************************)
(* The slotted multi-transmitter timing test                              *)
(* (src/core/net/mac/chaos/lib/timing-unit-test/slotted-multi-test/       *)
(* slotted-multi-test.c): in every Synchrotron round the initiator floods *)
(* one packet; a node that received it relays it in the slots of its      *)
(* group, slot_count % concurrent_tx = chaos_node_index % concurrent_tx,   *)
(* with concurrent_tx = chaos_node_count / CHAOS_CONCURRENT_TX_COUNT.      *)
(*                                                                         *)
(* All transmitters send the initiator's packet or a copy of it, so the   *)
(* payload is abstracted away: a node holds the packet when it is the     *)
(* initiator or got_valid_rx is set.  The network is a connected graph,  *)
(* any of them (links, fixed at boot); a listener hears a transmitting    *)
(* neighbour (capture) or nothing.  With Lossless, every listener with a  *)
(* transmitting neighbour hears one.                                      *)
(***************************************************************************)
EXTENDS Integers, FiniteSets, Relation

CONSTANTS
    N,                  \* chaos_node_count
    Initiator,          \* IS_INITIATOR()
    ConcurrentTxCount,  \* CHAOS_CONCURRENT_TX_COUNT
    MaxSlots,           \* SLOTTED_MULTI_TEST_ROUND_MAX_SLOTS
    MaxRounds,          \* number of Synchrotron rounds explored
    Lossless            \* every listener with a transmitting neighbour receives

Nodes == 0 .. (N - 1)

ASSUME /\ N \in 1 .. 255 /\ Initiator \in Nodes
       /\ ConcurrentTxCount \in 1 .. 255
       /\ MaxSlots \in 1 .. 65535 /\ MaxRounds \in Nat
       /\ Lossless \in BOOLEAN

\* uint8_t concurrent_tx = chaos_node_count / CHAOS_CONCURRENT_TX_COUNT
ConcurrentTx == (N \div ConcurrentTxCount) % 256

(* The group test divides by concurrent_tx, which is 0 when               *)
(* chaos_node_count < CHAOS_CONCURRENT_TX_COUNT: the outcome of that       *)
(* undefined modulo is drawn per node.                                    *)
UBDraws == IF ConcurrentTx = 0 THEN BOOLEAN ELSE {FALSE}

(* The deployments: every connected radio topology of the nodes.        *)
Topologies ==
    {E \in SUBSET {{a, b} : a, b \in Nodes} :
        /\ \A e \in E : Cardinality(e) = 2
        /\ IsConnected([x, y \in Nodes |-> {x, y} \in E], Nodes)}

VARIABLES
    links,          \* the radio links of the deployment
    rnd,            \* Synchrotron rounds begun so far
    slot,           \* slot_count of the next slot; MaxSlots when the round is over
    radio,          \* current_state handed to process
    got_valid_rx    \* the static got_valid_rx of each node

vars == <<links, rnd, slot, radio, got_valid_rx>>

Neighbours(n) == {m \in Nodes : {m, n} \in links}

(* The packet has reached node n in this round.                           *)
Holds(n) == n = Initiator \/ got_valid_rx[n]

Init ==
    /\ links \in Topologies
    /\ rnd = 0
    /\ slot = MaxSlots
    /\ radio = [n \in Nodes |-> "OFF"]
    /\ got_valid_rx = [n \in Nodes |-> FALSE]

(* slotted_multi_test_is_pending is always 1: every Synchrotron round runs *)
(* slotted_multi_test_round_begin on every node, which clears             *)
(* got_valid_rx and enters chaos_round (the initiator with the packet).   *)
RoundBegin ==
    /\ slot = MaxSlots /\ rnd < MaxRounds
    /\ got_valid_rx' = [n \in Nodes |-> FALSE]
    /\ radio' = [n \in Nodes |-> "INIT"]
    /\ slot' = 0
    /\ rnd' = rnd + 1
    /\ UNCHANGED links

\* slot_count % concurrent_tx == chaos_node_index % concurrent_tx
InGroup(n, s, ub) == IF ConcurrentTx = 0 THEN ub ELSE s % ConcurrentTx = n % ConcurrentTx

\* Mutant: the group test made before the received packet is taken into account.
ProcessLateRelay(n, cur, ok, s, ub) ==
    LET got == got_valid_rx[n] \/ (cur = "RX" /\ ok)
        tx == \/ n = Initiator /\ cur = "INIT"
              \/ (n = Initiator \/ got_valid_rx[n]) /\ InGroup(n, s, ub)
    IN  [got |-> got, next |-> IF tx THEN "TX" ELSE "RX"]

(* process: copy a valid packet heard while listening, then transmit next *)
(* in the first slot of the initiator, or in the own group's slots once    *)
(* the node holds the packet.                                             *)
Process(n, cur, ok, s, ub) ==
    LET got == got_valid_rx[n] \/ (cur = "RX" /\ ok)
        tx == \/ n = Initiator /\ cur = "INIT"
              \/ (n = Initiator \/ got) /\ InGroup(n, s, ub)
    IN  [got |-> got, next |-> IF tx THEN "TX" ELSE "RX"]

(* One slot of chaos_round (outside src/): every node in TX sends, every  *)
(* listener hears a transmitting neighbour or nothing, then every node    *)
(* runs process.  The round ends after MaxSlots slots.                    *)
SlotStep ==
    /\ slot < MaxSlots
    /\ LET sent == {n \in Nodes : radio[n] = "TX"}
           reachable == {n \in Nodes : radio[n] = "RX" /\ Neighbours(n) \cap sent # {}}
       IN  \E heard \in SUBSET reachable, ub \in [Nodes -> UBDraws] :
              /\ Lossless => heard = reachable
              /\ LET R == [n \in Nodes |-> Process(n, radio[n], n \in heard, slot, ub[n])]
                 IN  /\ got_valid_rx' = [n \in Nodes |-> R[n].got]
                     /\ radio' = [n \in Nodes |-> R[n].next]
    /\ slot' = slot + 1
    /\ UNCHANGED <<links, rnd>>

Next == RoundBegin \/ SlotStep

Spec == Init /\ [][Next]_vars
-----------------------------------------------------------------------------
(* Hop distance of n from the initiator over the links.                   *)
RECURSIVE Within(_)
Within(k) == IF k = 0 THEN {Initiator}
             ELSE Within(k - 1) \cup UNION {Neighbours(m) : m \in Within(k - 1)}
Hop(n) == CHOOSE k \in 0 .. (N - 1) : n \in Within(k) /\ \A j \in 0 .. (k - 1) : n \notin Within(j)

(* Flood latency of the group schedule: the initiator sends in slot 1 and *)
(* a relay sends within concurrent_tx slots of receiving, so when every    *)
(* link delivers, a node h hops away holds the packet once slot            *)
(* 1 + (h - 1) * concurrent_tx is over.                                    *)
FloodLatency ==
    Lossless /\ rnd > 0 =>
        \A n \in Nodes : Hop(n) > 0 /\ slot > 1 + (Hop(n) - 1) * ConcurrentTx => Holds(n)
=============================================================================
