------------------------------- MODULE DiagPlans -------------------------------
(* The commands of wfb-radio-diag: what each does, step by step, from its first *)
(* argument check to the report, and which phases its report calls completed.   *)
EXTENDS DiagSteps

WritesRegisters == Acknowledge("i_understand_this_writes_registers")
LibusbOpen == Check("select adapter") \o Claim("claim interface")
MacosOpen == Checks(<<"platform", "vid", "pid">>) \o Claim("open IOUSBHost device")
OpenTransport == In("usb_claim", Claim("open transport"))

-----------------------------------------------------------------------------
(* One layer at a time. *)

RegSmoke == LibusbOpen \o Read("usb", "registers")
MacosRegSmoke == MacosOpen \o Read("usb", "registers")

EfuseArguments ==
  Acknowledge("i_understand_this_writes_control_registers") \o Checks(<<"length", "poll_attempts">>)
EfuseOutput == File("raw") \o File("logical map")
EfuseDump == EfuseArguments \o LibusbOpen \o ReadEfusePhysical \o EfuseOutput
MacosEfuseDump == EfuseArguments \o MacosOpen \o ReadEfusePhysical \o EfuseOutput

LedBlink == FlattenSeq([n \in 1..Repeats |-> LedWrite(TRUE) \o LedWrite(FALSE)])
(* Mutant: the adapter is claimed before the acknowledgement is looked at. *)
LedSmokeClaimsFirst ==
  LibusbOpen \o WritesRegisters \o LedBlink
LedSmoke ==
  WritesRegisters \o Checks(<<"blink_count", "duration">>) \o LibusbOpen
  \o When({"on"}, LedWrite(TRUE)) \o Unless({"on"}, When({"off"}, LedWrite(FALSE)))
  \o Unless({"on", "off"}, LedBlink)

PowerOnSmoke == WritesRegisters \o LibusbOpen \o PowerOnSequence
MacosPowerOnSmoke == WritesRegisters \o MacosOpen \o PowerOnSequence

ExtractFirmware ==
  Check("output exists") \o File("parse source") \o File("parent directory") \o File("image")
  \o File("report")

FirmwareArguments ==
  WritesRegisters \o Check("download_attempts") \o File("firmware") \o Check("firmware pages")
FirmwareSmoke == FirmwareArguments \o LibusbOpen \o FirmwareSequence
MacosFirmwareSmoke == FirmwareArguments \o MacosOpen \o FirmwareSequence

LltSmoke == WritesRegisters \o Check("poll_attempts") \o LibusbOpen \o LltSequence
MacosLltSmoke == WritesRegisters \o Check("poll_attempts") \o MacosOpen \o LltSequence

QueueLayout == Check("queue layout from endpoints")
QueueDmaSmoke == WritesRegisters \o LibusbOpen \o QueueLayout \o QueueDmaSequence
MacosQueueDmaSmoke == QueueLayout \o WritesRegisters \o MacosOpen \o QueueDmaSequence

MacSmoke == WritesRegisters \o LibusbOpen \o MacSequence
MacosMacSmoke == WritesRegisters \o MacosOpen \o MacSequence

BbTables == File("PHY_REG and AGC_TAB source")
BbSmoke == BbTables \o WritesRegisters \o LibusbOpen \o BbSequence
MacosBbSmoke == BbTables \o WritesRegisters \o MacosOpen \o BbSequence

RfTables == File("radioA and radioB source")
RfSmoke == RfTables \o WritesRegisters \o LibusbOpen \o RfSequence
MacosRfSmoke == RfTables \o WritesRegisters \o MacosOpen \o RfSequence

-----------------------------------------------------------------------------
(* The macOS transport. *)

DescriptorReads ==
  Read("usb", "device descriptor") \o Check("device descriptor")
  \o Read("usb", "configuration header") \o Check("total length")
  \o Read("usb", "configuration descriptor") \o Check("configuration descriptor")
DescriptorSmoke == MacosOpen \o DescriptorReads

ReconfiguresUsb == Acknowledge("i_understand_this_may_reconfigure_usb")
InterfaceSmoke == ReconfiguresUsb \o Check("endpoints") \o MacosOpen \o Read("usb", "copied pipes")
BulkInSmoke == ReconfiguresUsb \o Check("length") \o MacosOpen \o BulkIn("one bulk IN request")
BulkOutSmoke ==
  ReconfiguresUsb \o Acknowledge("i_understand_this_submits_bulk_out") \o MacosOpen
  \o BulkOut("zero-length packet")
SessionTransfers ==
  Read("usb", "registers") \o BulkIn("one bulk IN request") \o BulkOut("zero-length packet")
SessionSmoke ==
  ReconfiguresUsb \o Acknowledge("i_understand_this_submits_bulk_out") \o Check("length") \o MacosOpen
  \o SessionTransfers

-----------------------------------------------------------------------------
(* Initialization of the whole chip. *)

InitTablePlan == In("table_plan", BbTables \o RfTables)
InitPreparation ==
  In("argument_validation",
     Check("channel") \o File("firmware") \o WritesRegisters \o Check("firmware pages"))

InitLowerPhases ==
  In("power_on", PowerOnSequence) \o In("firmware", FirmwareSequence) \o In("llt", LltSequence)
InitMacPhases ==
  In("queue_dma", QueueLayout \o QueueDmaSequence) \o In("mac", MacSequence)
InitUpperPhases ==
  In("mac_addr", ProgramEfuseMacId) \o In("bb", BbSequence) \o In("rf", RfSequence)
  \o In("channel", ChannelSequence)
InitLive ==
  InitPreparation \o InitTablePlan \o OpenTransport
  \o InitLowerPhases \o InitMacPhases \o InitUpperPhases

InitAssets ==
  File("firmware") \o Check("firmware pages") \o File("MAC_REG source") \o BbTables \o RfTables

(* run_rtl8812au_same_session_init drives the command's own sequences. *)
FirmwareAndLlt ==
  Unless({"linux_init_order"}, FirmwareSequence \o LltSequence)
  \o When({"linux_init_order"}, LltSequence \o FirmwareSequence)

MacAndRadioPhases ==
  MacTablePlan \o QueueLayout \o QueueDmaSequence \o MacSequence \o ProgramEfuseMacId \o BbSequence
  \o RfSequence
ChannelPhases ==
  RfCalibrationProbe \o ChannelSequence \o RfCalibrationProbe \o TxSchedulerTail \o RfCalibrationProbe
SameSessionInit == PowerOnSequence \o FirmwareAndLlt \o MacAndRadioPhases \o ChannelPhases

IqkDiagnostic ==
  Check("channel") \o WritesRegisters \o InitAssets \o OpenTransport
  \o In("init", SameSessionInit) \o In("iqk_evidence", IqkStandalone)

-----------------------------------------------------------------------------
(* Reception. *)

RxScanArguments ==
  Checks(<<"channel", "forward">>) \o When({"monitor"}, WritesRegisters)
  \o When({"init"}, WritesRegisters \o InitAssets)

RxCapture ==
  File("pcap, frame log and forwards")
  \o FlattenSeq([n \in 1..Repeats |-> BulkIn("bulk IN until the deadline")])

RxOpen == OpenTransport \o Check("bulk IN endpoint")
RxScan ==
  RxScanArguments \o RxOpen
  \o In("init_before_rx", When({"init"}, SameSessionInit))
  \o In("monitor_opmode", When({"monitor"}, MonitorOpmode))
  \o In("bulk_in_loop", RxCapture) \o In("pcap", File("flush"))

-----------------------------------------------------------------------------
(* Transmission on a chip some earlier command initialized. *)

(* Frames go out until one fails; what follows in the list runs all the same. *)
Submit == Failing("keep", BulkOut("frame"))
Submits == FlattenSeq([n \in 1..Repeats |-> Submit])
(* Mutant: a failed frame returns at once. *)
WithIndicationEarlyReturn(submits) ==
  TxActivityLed(TRUE) \o TxStatus \o submits \o TxStatus \o TxActivityLed(FALSE)
WithIndication(submits) ==
  TxActivityLed(TRUE) \o TxStatus \o submits \o AllTheSame("traffic", TxStatus \o TxActivityLed(FALSE))

TxArguments ==
  Checks(<<"channel", "frame", "LED hold", "status delay", "status polls">>)
TxOpen == OpenTransport \o Check("bulk OUT endpoint")
TxOnce ==
  TxArguments \o In("tx_descriptor", Check("descriptor")) \o TxOpen
  \o In("bulk_out", WithIndication(Submit))

TxRepeatArguments == TxArguments \o Checks(<<"count", "interval">>)
TxRepeat ==
  In("repeat_gate", TxRepeatArguments \o Check("descriptor")) \o OpenTransport
  \o In("bulk_out_loop", Check("bulk OUT endpoint") \o WithIndication(Submits))

BridgeTxOnce ==
  In("argument_validation", Checks(<<"channel", "datagram">>))
  \o In("bridge_parse", Checks(<<"parse", "descriptor">>)) \o TxOpen
  \o In("bridge_submit", BulkOut("frame"))

-----------------------------------------------------------------------------
(* Bridge transmission, with the chip prepared in the same session on request. *)

ProfileAuthorization == When({"profile"}, WritesRegisters)

(* Mutant: TX power is not applied again after the profile. *)
PowerThenProfile ==
  In("tx_power_control", When({"power"}, TxPowerControl))
  \o In("tx_calibration_profile", When({"profile"}, CalibrationProfile))

(* TX power goes in before the calibration profile and, because the profile     *)
(* rewrites TX gain, once more after it.                                         *)
PowerAndProfile ==
  In("tx_power_control", When({"power"}, TxPowerControl))
  \o In("tx_calibration_profile", When({"profile"}, CalibrationProfile))
  \o In("tx_power_control", When({"power", "profile"}, TxPowerControl))

PreTxProbe == In("rf_calibration_probe", When({"probe"}, RfCalibrationProbe))
PreTxRfWrite == In("pre_tx_rf_write", When({"rf_write"}, RfRegisterWrite))
PreTxWrites ==
  In("pre_tx_register_write",
     When({"write"}, RegisterWrite("write8, 16, 32") \o RegisterWrite("rmw32")))
PreTxClear == In("clear_txdma_status", When({"clear"}, ClearTxDmaStatus))
PreTxInit == In("init_before_tx", When({"init"}, SameSessionInit))

ListenArguments ==
  In("argument_validation",
     Check("channel") \o ProfileAuthorization \o Checks(<<"max_datagrams", "idle_timeout", "status">>)
     \o When({"init"}, InitAssets))
ListenSocket == In("socket_bind", Checks(<<"bind", "socket buffer", "read timeout">>))
ListenWrites == PreTxInit \o PreTxClear \o PreTxRfWrite \o PreTxWrites
ListenPrepare == ListenWrites \o PowerAndProfile \o PreTxProbe

(* A timeout, a malformed datagram and a rejected descriptor end the command *)
(* without another look at the status registers; a failed submission does not. *)
ListenLoop ==
  FlattenSeq([n \in 1..Repeats |-> Checks(<<"datagram", "parse", "descriptor">>) \o Submit])
BridgeTxListen ==
  ListenArguments \o ListenSocket \o TxOpen \o ListenPrepare
  \o TxStatus \o File("ready")
  \o In("bridge_listen", ListenLoop) \o AllTheSame("traffic", TxStatus)

BridgeRunArguments ==
  In("argument_validation",
     Check("channel") \o ProfileAuthorization
     \o Checks(<<"init_before_tx", "rx_timeout", "tx_burst_limit", "forwards">>) \o InitAssets)
BridgeRunSockets == In("socket_bind", Checks(<<"signal handlers", "bind", "receiver threads">>))
BridgeRunInit ==
  In("init_before_tx", SameSessionInit) \o In("monitor_opmode", MonitorReceiveFilter) \o PreTxClear
BridgeRunPrepare ==
  BridgeRunInit \o PowerAndProfile \o In("rf_calibration_probe", RfCalibrationProbe)
  \o File("pcap, frame log and forwards")
BridgeRunLoop ==
  HeartbeatLed(TRUE) \o Submit \o Failing("keep", BulkIn("bulk IN"))
  \o AllTheSame("traffic", HeartbeatLed(FALSE) \o TxStatus)
BridgeRunOpen == OpenTransport \o Checks(<<"bulk IN", "bulk OUT">>)
BridgeRun ==
  BridgeRunArguments \o BridgeRunSockets \o BridgeRunOpen \o BridgeRunPrepare
  \o TxStatus \o File("ready") \o Check("heartbeat LED")
  \o In("bridge_run", BridgeRunLoop) \o File("flush")

(* runtime_flow runs the bridge and refuses the options of the laboratory. *)
RejectDiagnosticOnly ==
  When({"clear"}, Reject("clear_txdma_status")) \o When({"status"}, Reject("tx_status"))
DiagRuntimeFlow == RejectDiagnosticOnly \o BridgeRun

(* radio_run gives the production flow the phases of this program. *)
RadioRunArguments ==
  Checks(<<"config file", "channel", "validate">>) \o ProfileAuthorization \o InitAssets
RadioRunLowerPhases ==
  PowerOnSequence \o FirmwareAndLlt \o MacTablePlan \o QueueLayout \o QueueDmaSequence
RadioRunUpperPhases ==
  MacSequence \o ProgramEfuseMacId \o BbSequence \o RfSequence \o ChannelSequence \o TxSchedulerTail
RadioRunFlow ==
  MonitorOpmode \o When({"power"}, TxPowerControl) \o When({"profile"}, CalibrationProfile)
  \o When({"power", "profile"}, TxPowerControl) \o File("ready") \o Check("bind")
  \o Failing("drop", BulkOut("frame")) \o BulkIn("bulk IN")
RadioRun ==
  RadioRunArguments \o Claim("open session") \o RadioRunLowerPhases \o RadioRunUpperPhases
  \o RadioRunFlow

BenchArguments ==
  In("argument_validation",
     Check("channel") \o ProfileAuthorization
     \o Checks(<<"count", "payload_len", "marker", "mcs", "status">>) \o When({"init"}, InitAssets))
BenchParse ==
  In("bridge_parse", Checks(<<"channel id", "datagram", "packet override", "parse", "descriptor">>))

BenchAddressing ==
  In("local_mac", When({"local_mac"}, ProgramLocalMac))
  \o In("monitor_opmode", When({"monitor"}, MonitorOpmode))
BenchScheduler ==
  PreTxClear \o In("txdma_offset_check", When({"offset"}, RegisterWrite("TXDMA_OFFSET_CHK")))
  \o In("cr_write", When({"cr"}, Clearing("operator", "CR", {"cr"})))
  \o In("trxdma_ctrl_write", When({"trxdma"}, RegisterWrite("TRXDMA_CTRL")))
BenchTrace ==
  In("pre_tx_trace_register_apply",
     When({"trace"}, TraceApply) \o When({"trace_sequence"}, TraceSequenceApply))
BenchMediaStatus == In("fw_media_status", When({"media_status"}, MediaStatusH2c))

(* The registers written after the frames are written although a frame failed,  *)
(* and their error is the one reported.                                          *)
BenchPostTx ==
  In("post_tx_register_write", AllTheSame("traffic", When({"post"}, PostTxMutations)))

BridgeTxBench ==
  BenchArguments \o BenchParse \o TxOpen
  \o PreTxInit \o BenchAddressing \o BenchScheduler \o BenchTrace \o PreTxRfWrite \o PreTxWrites
  \o PowerAndProfile \o BenchMediaStatus \o PreTxProbe
  \o TxStatus \o In("bridge_submit_loop", Submits) \o BenchPostTx \o AllTheSame("traffic", TxStatus)

-----------------------------------------------------------------------------
(* Commands, their options, and the phases a report of theirs calls completed. *)

SmokePlans ==
  [reg_smoke |-> RegSmoke, macos_reg_smoke |-> MacosRegSmoke,
   efuse_dump |-> EfuseDump, macos_efuse_dump |-> MacosEfuseDump, led_smoke |-> LedSmoke,
   power_on_smoke |-> PowerOnSmoke, macos_power_on_smoke |-> MacosPowerOnSmoke,
   extract_firmware |-> ExtractFirmware,
   firmware_smoke |-> FirmwareSmoke, macos_firmware_smoke |-> MacosFirmwareSmoke,
   llt_smoke |-> LltSmoke, macos_llt_smoke |-> MacosLltSmoke,
   queue_dma_smoke |-> QueueDmaSmoke, macos_queue_dma_smoke |-> MacosQueueDmaSmoke,
   mac_smoke |-> MacSmoke, macos_mac_smoke |-> MacosMacSmoke,
   bb_smoke |-> BbSmoke, macos_bb_smoke |-> MacosBbSmoke,
   rf_smoke |-> RfSmoke, macos_rf_smoke |-> MacosRfSmoke,
   macos_descriptor_smoke |-> DescriptorSmoke, macos_interface_smoke |-> InterfaceSmoke,
   macos_bulk_in_smoke |-> BulkInSmoke, macos_bulk_out_smoke |-> BulkOutSmoke,
   macos_session_smoke |-> SessionSmoke]

RadioPlans ==
  [init |-> InitLive, rtl8812a_iqk_diagnostic |-> IqkDiagnostic, rx_scan |-> RxScan,
   tx_once |-> TxOnce, tx_repeat |-> TxRepeat, bridge_tx_once |-> BridgeTxOnce,
   bridge_tx_listen |-> BridgeTxListen, bridge_run |-> BridgeRun, runtime_flow |-> DiagRuntimeFlow,
   radio_run |-> RadioRun, bridge_tx_bench |-> BridgeTxBench]

Smokes == DOMAIN SmokePlans
Plans ==
  [c \in Smokes \cup DOMAIN RadioPlans |-> IF c \in Smokes THEN SmokePlans[c] ELSE RadioPlans[c]]

Options(c) ==
  CASE c = "led_smoke" -> {"on", "off"}
    [] c \in {"init", "rtl8812a_iqk_diagnostic"} -> {"5GHz"}
    [] c = "rx_scan" -> {"init", "monitor", "5GHz"}
    [] c \in {"tx_once", "tx_repeat"} -> {"led", "status"}
    [] c = "bridge_tx_listen" ->
         {"init", "clear", "rf_write", "write", "power", "profile", "status", "5GHz"}
    [] c \in {"bridge_run", "runtime_flow"} -> {"clear", "power", "profile", "led", "status", "5GHz"}
    [] c = "radio_run" -> {"linux_init_order", "power", "profile", "5GHz"}
    [] c = "bridge_tx_bench" ->
         {"init", "linux_init_order", "local_mac", "monitor", "clear", "offset", "cr", "trxdma",
          "trace", "trace_sequence", "rf_write", "write", "power", "profile", "media_status",
          "post", "status", "5GHz"}
    [] OTHER -> {}

(* The pre-TX probe follows from the options that prepare the chip. *)
WithProbe(o) == IF o \cap {"init", "power", "profile"} = {} THEN o ELSE o \cup {"probe"}

If(o, option, phase) == IF option \in o THEN {phase} ELSE {}

InitPhases ==
  <<"argument_validation", "table_plan", "usb_claim", "power_on", "firmware", "llt", "queue_dma", "mac",
    "mac_addr", "bb", "rf", "channel">>
(* Mutant: the blocked phase is counted too. *)
CompletedThrough(blocked) == {InitPhases[n] : n \in 1..IndexFirstSubSeq(<<blocked>>, InitPhases)}
CompletedBefore(blocked) == {InitPhases[n] : n \in 1..(IndexFirstSubSeq(<<blocked>>, InitPhases) - 1)}

ListenPhases(o) ==
  {"argument_validation", "socket_bind", "usb_claim", "bridge_listen"}
  \cup If(o, "init", "init_before_tx") \cup If(o, "clear", "clear_txdma_status")
  \cup If(o, "write", "pre_tx_register_write") \cup If(o, "rf_write", "pre_tx_rf_write")
  \cup If(o, "power", "tx_power_control") \cup If(o, "profile", "tx_calibration_profile")
  \cup If(o, "probe", "rf_calibration_probe")

BridgeRunPhases(o) ==
  {"argument_validation", "usb_claim", "init_before_tx", "monitor_opmode", "rf_calibration_probe",
   "socket_bind", "bridge_run"}
  \cup If(o, "clear", "clear_txdma_status") \cup If(o, "power", "tx_power_control")
  \cup If(o, "profile", "tx_calibration_profile")

BenchPhases(o) ==
  {"argument_validation", "bridge_parse", "usb_claim", "bridge_submit_loop"}
  \cup If(o, "init", "init_before_tx") \cup If(o, "local_mac", "local_mac")
  \cup If(o, "monitor", "monitor_opmode") \cup If(o, "clear", "clear_txdma_status")
  \cup If(o, "offset", "txdma_offset_check") \cup If(o, "cr", "cr_write")
  \cup If(o, "trxdma", "trxdma_ctrl_write") \cup If(o, "trace", "pre_tx_trace_register_apply")
  \cup If(o, "trace_sequence", "pre_tx_trace_register_apply")
  \cup If(o, "write", "pre_tx_register_write") \cup If(o, "rf_write", "pre_tx_rf_write")
  \cup If(o, "power", "tx_power_control") \cup If(o, "profile", "tx_calibration_profile")
  \cup If(o, "probe", "rf_calibration_probe") \cup If(o, "media_status", "fw_media_status")
  \cup If(o, "post", "post_tx_register_write")

PassPhases(c, o) ==
  CASE c = "init" -> Range(InitPhases)
    [] c = "rtl8812a_iqk_diagnostic" -> {"usb_claim", "init", "iqk_evidence"}
    [] c = "rx_scan" ->
         {"usb_claim", "bulk_in_loop", "pcap"}
         \cup If(o, "init", "init_before_rx") \cup If(o, "monitor", "monitor_opmode")
    [] c = "tx_once" -> {"usb_claim", "tx_descriptor", "bulk_out"}
    [] c = "tx_repeat" -> {"usb_claim", "repeat_gate", "bulk_out_loop"}
    [] c = "bridge_tx_once" -> {"argument_validation", "bridge_parse", "usb_claim", "bridge_submit"}
    [] c = "bridge_tx_listen" -> ListenPhases(o)
    [] c \in {"bridge_run", "runtime_flow"} -> BridgeRunPhases(o)
    [] c = "bridge_tx_bench" -> BenchPhases(o)
    [] OTHER -> {}
================================================================================
