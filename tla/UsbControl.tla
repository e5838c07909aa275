------------------------------ MODULE UsbControl ------------------------------
(* USB control transfers as bring-up sees them, and the one register that two   *)
(* bring-up components share.  A transfer is acknowledged, refused, or takes     *)
(* effect while its acknowledgement is lost; the host cannot tell the last two   *)
(* apart.                                                                        *)
EXTENDS Naturals

CONSTANT MaxFaults      \* bound on transfers that go wrong

ASSUME MaxFaultsAssumption == MaxFaults \in Nat

VARIABLES
  faults,     \* transfers that went wrong so far
  txpause     \* REG_TXPAUSE: "run", or "paused" (0x3f, 0xff)

controlVars == <<faults, txpause>>

Acknowledged == UNCHANGED faults

GoesWrong == faults < MaxFaults /\ faults' = faults + 1

(* A step of a `?' chain: the effect and the way on, or an error that leaves   *)
(* the effect undecided.                                                       *)
Try(effect, nothing, goOn, fail) ==
  \/ effect /\ goOn /\ Acknowledged
  \/ effect /\ fail /\ GoesWrong
  \/ nothing /\ fail /\ GoesWrong
=============================================================================
