----------------------------- MODULE RuntimeFlow -----------------------------
(***************************************************************************)
(* The life of one production run: run_production_runtime_flow and           *)
(* run_production_runtime_flow_with_session, on the thread that              *)
(* UserspaceRadioHandle::start spawns, so the external stop flag is used and *)
(* process signals are not (process_signal_stop = false), and both artifact  *)
(* files are configured.  The run                                            *)
(*   - writes the health file in place with fs::write, which truncates and   *)
(*     then writes: a reader may find it torn, and either half may fail;     *)
(*   - opens the adapter and brings it up step by step, each of which may    *)
(*     fail; the bring-up's register sequences are facts in `radio`;         *)
(*   - writes the ready marker, then binds the TX ingress sockets, spawns    *)
(*     their receiver threads and runs the bridge loop (BridgeLoop);         *)
(*   - reports, and drops what it owns.                                      *)
(***************************************************************************)
EXTENDS FiniteSets

CONSTANTS
  Streams,        \* local UDP addresses of the TX streams
  BestEffort,     \* the streams whose criticality is BestEffort
  TxPower,        \* a TX power control input is configured
  Calibrate,      \* the calibration profile runs something
  RxForwards,     \* RX forwards are configured
  Bounded         \* duration_ms or the datagram limit may end the loop

ASSUME FlowAssumption ==
  /\ IsFiniteSet(Streams) /\ BestEffort \subseteq Streams
  /\ {TxPower, Calibrate, RxForwards, Bounded} \subseteq BOOLEAN

VARIABLES
  pc,             \* the step about to execute
  writing,        \* inside fs::write, after the truncation
  file,           \* the health file and the ready marker
  valid,          \* config.validate() and inputs.validate() pass
  binds,          \* tx_bind_addrs of this run
  stop,           \* external_stop_requested
  radio,          \* what bring-up has established on the adapter
  bound,          \* TX ingress sockets this run holds
  receiver,       \* ProductionRuntimeTxIngressReceiver exists
  result,         \* report.result, "none" until there is a report
  sent,           \* history: this run transmitted
  bindFailed,     \* history: binding the TX ingress sockets failed
  orphans,        \* addresses held by receiver threads nobody joins
  taken           \* addresses that other processes hold

flowVars == <<pc, writing, file, valid, binds, stop, radio, bound, receiver,
              result, sent, bindFailed, orphans, taken>>

Ephemeral == "ephemeral"          \* 127.0.0.1:0
Addresses == Streams \cup {Ephemeral}

Facts == {"open", "init", "monitor", "power", "calibrated"}

(* write_production_runtime_service_health and _ready_marker: who writes what. *)
ContentOf ==
  [validating |-> "validating", initializing |-> "initializing",
   revalidating |-> "validating", reinitializing |-> "initializing",
   marker |-> "ready", readyHealth |-> "ready",
   exitPass |-> "exited_pass", exitFail |-> "exited_fail"]

FileOf(step) == IF step = "marker" THEN "ready" ELSE "health"

(* The order of the run.  The session's own validation repeats the first one  *)
(* on the same values and cannot differ from it.                              *)
Then ==
  [validating |-> "validate", validate |-> "initializing", initializing |-> "open",
   open |-> "revalidating", revalidating |-> "reinitializing", reinitializing |-> "init",
   init |-> "monitor", monitor |-> "power", power |-> "calibrate",
   calibrate |-> "repower", repower |-> "kick", kick |-> "marker",
   marker |-> "readyHealth", readyHealth |-> "bind", bind |-> "spawn",
   spawn |-> "forwards", forwards |-> "loop", exitPass |-> "drop", exitFail |-> "drop",
   drop |-> "returned"]

Steps == DOMAIN Then \cup {"loop", "returned"}

Contents == {"absent", "torn"} \cup {ContentOf[s] : s \in DOMAIN ContentOf}

-----------------------------------------------------------------------------
GoOn(step) == pc = step /\ pc' = Then[step] /\ UNCHANGED result

(* production_runtime_flow_report_from_state_with_health(.., Fail, ..). *)
FailWithHealth == pc' = "exitFail" /\ result' = "fail"

(* Mutant: the report survives a failed final health write. *)
WriteFailsIgnored ==
  IF pc = "marker" THEN FailWithHealth
  ELSE pc' = "drop" /\ result' = IF pc = "exitPass" THEN result ELSE "fail"

(* A failed health write returns at once, a failed marker reports first.  A   *)
(* failed final write turns the result into Fail.                             *)
WriteFails ==
  IF pc = "marker" THEN FailWithHealth ELSE pc' = "drop" /\ result' = "fail"

BeginWrite ==
  /\ pc \in DOMAIN ContentOf /\ ~writing
  /\ \/ /\ writing' = TRUE
        /\ file' = [file EXCEPT ![FileOf(pc)] = "torn"]
        /\ UNCHANGED <<pc, result>>
     \/ WriteFails /\ UNCHANGED <<file, writing>>
  /\ UNCHANGED <<valid, binds, stop, radio, bound, receiver, sent, bindFailed, orphans, taken>>

EndWrite ==
  /\ writing /\ writing' = FALSE
  /\ \/ /\ file' = [file EXCEPT ![FileOf(pc)] = ContentOf[pc]]
        /\ GoOn(pc)
     \/ WriteFails /\ UNCHANGED file
  /\ UNCHANGED <<valid, binds, stop, radio, bound, receiver, sent, bindFailed, orphans, taken>>

ValidateStep ==
  /\ pc = "validate"
  /\ IF valid THEN GoOn("validate") ELSE FailWithHealth
  /\ UNCHANGED <<writing, file, valid, binds, stop, radio, bound, receiver, sent,
                 bindFailed, orphans, taken>>

-----------------------------------------------------------------------------
(* Bring-up. *)

BringUp(step, facts) == GoOn(step) /\ radio' = facts /\ UNCHANGED sent

OpenSession == BringUp("open", {"open"})
InitStep == BringUp("init", radio \cup {"init"})
MonitorOpmode == BringUp("monitor", radio \cup {"monitor"})
TxPowerControl == BringUp("power", IF TxPower THEN radio \cup {"power"} ELSE radio)

(* "power" means TX power was programmed since the last calibration, which     *)
(* rewrites the TX path.  The profile fails unless IQK completed, was restored  *)
(* and its result filled in.                                                    *)
CalibrationProfile ==
  BringUp("calibrate", IF Calibrate THEN (radio \ {"power"}) \cup {"calibrated"} ELSE radio)

(* Mutant: TX power is not applied again. *)
TxPowerAgainSkipped == BringUp("repower", radio)

TxPowerAgain ==
  BringUp("repower", IF TxPower /\ Calibrate THEN radio \cup {"power"} ELSE radio)

(* One null-data frame wakes RX DMA. *)
RxStartupKick ==
  /\ GoOn("kick")
  /\ sent' = (sent \/ RxForwards)
  /\ UNCHANGED radio

(* Steps with a disabled feature do nothing and cannot fail.  A failed kick   *)
(* may have put its frame on the air.                                         *)
CanFail ==
  {"open", "init", "monitor"} \cup (IF TxPower THEN {"power"} ELSE {})
  \cup (IF Calibrate THEN {"calibrate"} ELSE {})
  \cup (IF TxPower /\ Calibrate THEN {"repower"} ELSE {})
  \cup (IF RxForwards THEN {"kick"} ELSE {})

BringUpFails ==
  /\ pc \in CanFail
  /\ FailWithHealth
  /\ \/ UNCHANGED sent
     \/ pc = "kick" /\ sent' = TRUE
  /\ UNCHANGED radio

BringUpStep ==
  /\ \/ OpenSession \/ InitStep \/ MonitorOpmode \/ TxPowerControl \/ CalibrationProfile
     \/ TxPowerAgain \/ RxStartupKick \/ BringUpFails
  /\ UNCHANGED <<writing, file, valid, binds, stop, bound, receiver, bindFailed, orphans, taken>>

-----------------------------------------------------------------------------
(* The data plane. *)

(* Addresses that a detached receiver thread still holds; a port of its own     *)
(* choice keeps nobody else from binding port 0.                                *)
Lingering == orphans \ {Ephemeral}

(* UdpSocket::bind finds these addresses in use. *)
Unavailable == taken \cup Lingering

(* Mutant: the sockets are bound with SO_REUSEPORT. *)
BindSocketsShared ==
  \/ GoOn("bind") /\ bound' = binds /\ UNCHANGED <<receiver, bindFailed, orphans>>
  \/ /\ pc = "bind" /\ FailWithHealth /\ bindFailed' = FALSE
     /\ UNCHANGED <<bound, receiver, orphans>>

(* All sockets or none: the vector of those already bound is dropped. *)
BindSockets ==
  \/ /\ binds \cap Unavailable = {}
     /\ GoOn("bind")
     /\ bound' = binds
     /\ UNCHANGED <<receiver, bindFailed, orphans>>
  \/ /\ pc = "bind"                   \* an address in use, or a refused buffer size
     /\ FailWithHealth
     /\ bindFailed' = (binds \cap Unavailable # {})
     /\ UNCHANGED <<bound, receiver, orphans>>

(* A failing set_read_timeout drops the handles of the threads spawned before *)
(* it without stopping them: each ends, and frees its address, only when its  *)
(* next datagram finds the channel closed.                                    *)
SpawnReceivers ==
  \/ /\ GoOn("spawn")
     /\ receiver' = TRUE
     /\ UNCHANGED <<bound, bindFailed, orphans>>
  \/ /\ pc = "spawn"
     /\ FailWithHealth
     /\ bound' = {}
     /\ \E spawned \in SUBSET bound : spawned # bound /\ orphans' = orphans \cup spawned
     /\ UNCHANGED <<receiver, bindFailed>>

OrphanEnds ==
  /\ \E a \in orphans : orphans' = orphans \ {a}
  /\ UNCHANGED <<pc, writing, file, valid, binds, stop, radio, bound, receiver,
                 result, sent, bindFailed, taken>>

CreateForwards ==
  /\ \/ GoOn("forwards")
     \/ pc = "forwards" /\ RxForwards /\ FailWithHealth
  /\ UNCHANGED <<bound, receiver, bindFailed, orphans>>

DataPlaneStep ==
  /\ BindSockets \/ SpawnReceivers \/ CreateForwards
  /\ UNCHANGED <<writing, file, valid, binds, stop, radio, sent, taken>>

(* The bridge loop: frames, and one of the endings of BridgeLoop. *)
LoopTransmits ==
  /\ pc = "loop" /\ sent' = TRUE
  /\ UNCHANGED <<pc, result>>

(* Mutant: the loop never looks at the external stop flag. *)
LoopStopsDeaf ==
  /\ pc = "loop" /\ Bounded
  /\ pc' = "exitPass" /\ result' = "pass"
  /\ UNCHANGED sent

LoopStops ==
  /\ pc = "loop" /\ (stop \/ Bounded)
  /\ pc' = "exitPass" /\ result' = "pass"
  /\ UNCHANGED sent

LoopFails == pc = "loop" /\ FailWithHealth /\ UNCHANGED sent

LoopStep ==
  /\ LoopTransmits \/ LoopStops \/ LoopFails
  /\ UNCHANGED <<writing, file, valid, binds, stop, radio, bound, receiver,
                 bindFailed, orphans, taken>>

(* The end of the flow's scopes: receiver joined, sockets closed, USB released. *)
DropLocals ==
  /\ GoOn("drop")
  /\ radio' = {} /\ receiver' = FALSE /\ bound' = {}
  /\ UNCHANGED <<writing, file, valid, binds, stop, sent, bindFailed, orphans, taken>>

(* The facts a frame on the air relies on, for this configuration. *)
Prepared ==
  {"open", "init", "monitor"} \cup (IF TxPower THEN {"power"} ELSE {})
  \cup (IF Calibrate THEN {"calibrated"} ELSE {})

FlowStep ==
  BeginWrite \/ EndWrite \/ ValidateStep \/ BringUpStep \/ DataPlaneStep
    \/ LoopStep \/ DropLocals
=============================================================================
