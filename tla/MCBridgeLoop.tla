---------------------------- MODULE MCBridgeLoop ----------------------------
(* Instances of BridgeLoop for TLC. *)
EXTENDS BridgeLoop

Continuous ==
  [mode |-> "Continuous", first |-> "Rx", rx |-> 0, tx |-> 0, guard |-> 0, delay |-> 0]
TddRxFirst ==
  [mode |-> "Tdd", first |-> "Rx", rx |-> 1, tx |-> 3, guard |-> 1, delay |-> 0]
=============================================================================
