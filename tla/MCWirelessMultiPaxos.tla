------------------------ MODULE MCWirelessMultiPaxos ------------------------
(* Model-checking instance of WirelessMultiPaxos; the constants are given  *)
(* in the .cfg files.                                                      *)
EXTENDS WirelessMultiPaxos
=============================================================================
