------------------------------- MODULE DiagSteps -------------------------------
(* The steps wfb-radio-diag commands are made of, and the register sequences of  *)
(* the RTL8812AU layers as sequences of steps.  A step is one argument check,    *)
(* file, register helper call or transfer; what it means to the chip is the set  *)
(* of facts it needs, establishes and withdraws:                                 *)
(*   cr    REG_CR block enables          ram    REG_MCUFWDL RAM_DL_SEL           *)
(*   fw    firmware reports itself ready dl     firmware download mode open      *)
(*   llt queue mac bb rf chan tail       the layer's registers are written       *)
(*   bbfunc  REG_SYS_FUNC_EN: BB enabled mark5  REG_CCK_CHECK says 5 GHz         *)
(*   agc   TXAGC holds the power this command was asked for                      *)
(*   cal   the calibration profile asked for is applied                          *)
(*   grant EFUSE access granted          led    TX activity LED lit              *)
(*   page  BB register page C1 selected  hssi   3-wire read settings changed     *)
EXTENDS Naturals, SequencesExt, TLC

CONSTANTS
  DownloadAttempts,     \* firmware download attempts
  EfuseBytes,           \* bytes of EFUSE read
  Repeats               \* frames of a repeated transmission

ASSUME DiagStepConstants ==
  DownloadAttempts \in Nat \ {0} /\ EfuseBytes \in Nat \ {0} /\ Repeats \in Nat \ {0}

Step(do, layer, what) ==
  [do |-> do,           \* "check", "ack", "file", "claim", "read", "write", "in", "out"
   layer |-> layer,     \* whose registers or pipe
   what |-> what,
   needs |-> {},        \* facts the step verifies
   sets |-> {}, clears |-> {},
   fails |-> "end",     \* a failure ends the command, is kept ("keep") until the steps that
                        \* run all the same have run, is dropped ("drop") or silences the
                        \* layer ("quiet")
   after |-> "none",    \* the layer whose kept error does not stop this step
   jump |-> "never", fact |-> "none", skip |-> 0,   \* steps jumped over when it succeeds
   when |-> {}, unless |-> {},      \* options that make it run or not
   phase |-> "none"]

(* Modifiers of a sequence of steps. *)
Each(steps, F(_)) == [i \in 1..Len(steps) |-> F(steps[i])]
When(opts, steps) == Each(steps, LAMBDA s : [s EXCEPT !.when = @ \cup opts])
Unless(opts, steps) == Each(steps, LAMBDA s : [s EXCEPT !.unless = @ \cup opts])
In(phase, steps) == Each(steps, LAMBDA s : [s EXCEPT !.phase = IF @ = "none" THEN phase ELSE @])
Failing(how, steps) == Each(steps, LAMBDA s : [s EXCEPT !.fails = how])
AllTheSame(layer, steps) == Each(steps, LAMBDA s : [s EXCEPT !.after = layer])
Completing(facts, steps) == Front(steps) \o <<[Last(steps) EXCEPT !.sets = @ \cup facts]>>

(* On the host: a run of checks of which the first to fail ends the command is  *)
(* one step.                                                                     *)
Checks(whats) == <<Step("check", "host", whats)>>
Check(what) == Checks(<<what>>)
Reject(what) == <<[Step("check", "host", <<what>>) EXCEPT !.needs = {"never"}]>>
Acknowledge(flag) == <<Step("ack", "host", <<flag>>)>>
File(what) == <<Step("file", "host", <<what>>)>>
Claim(what) == <<Step("claim", "usb", <<what>>)>>

(* On the chip: a register helper reads, writes and reads back, so a failure    *)
(* may come before or after the write took effect; a poll reads until a bit has *)
(* its value or the attempts are used up.  A run of writes whose partial effects *)
(* no fact tells apart is one step.                                             *)
Read(layer, what) == <<Step("read", layer, <<what>>)>>
Preflight(layer, what, facts) == <<[Step("read", layer, <<what>>) EXCEPT !.needs = facts]>>
Poll(layer, what) == Read(layer, what)
Puts(layer, whats) == <<Step("write", layer, whats)>>
Put(layer, what) == Puts(layer, <<what>>)
Setting(layer, what, facts) == <<[Step("write", layer, <<what>>) EXCEPT !.sets = facts]>>
Clearing(layer, what, facts) == <<[Step("write", layer, <<what>>) EXCEPT !.clears = facts]>>
BulkOut(what) == <<Step("out", "traffic", <<what>>)>>
BulkIn(what) == <<Step("in", "traffic", <<what>>)>>

(* A read that decides whether the steps run. *)
IfChipHas(fact, layer, what, steps) ==
  <<[Step("read", layer, <<what>>) EXCEPT
       !.jump = "lacks", !.fact = fact, !.skip = Len(steps)]>> \o steps
(* If the chip has the fact then, otherwise else. *)
Choosing(fact, layer, what, then, else) ==
  IfChipHas(fact, layer, what,
            Front(then) \o <<[Last(then) EXCEPT !.jump = "always", !.skip = Len(else)]>>)
  \o else

-----------------------------------------------------------------------------
(* Layer sequences. *)

PowerStateMachine ==
  Puts("power", <<"APS_FSMCO+1">>) \o Poll("power", "APS_FSMCO+2")
  \o Puts("power", <<"APS_FSMCO+1", "APS_FSMCO+1">>) \o Poll("power", "APS_FSMCO+1")
  \o Puts("power", <<"AFE_XTAL_CTRL", "AFE_PLL_CTRL">>)
PowerOnSequence ==
  PowerStateMachine
  \o Clearing("power", "CR", {"cr"}) \o Read("power", "CR") \o Setting("power", "CR", {"cr"})
  \o Puts("power", <<"RF_CTRL", "RF_CTRL", "RF_B_CTRL", "RF_B_CTRL">>)

Reset8051 ==
  Puts("firmware", <<"RSV_CTRL", "RSV_CTRL+1", "SYS_FUNC_EN+1",
                     "RSV_CTRL", "RSV_CTRL+1", "SYS_FUNC_EN+1">>)

(* Code already running is stopped first. *)
PreflightResetLoadedCode ==
  IfChipHas("ram", "firmware", "MCUFWDL",
            Clearing("firmware", "MCUFWDL", {"ram", "fw", "dl"}) \o Reset8051)

FirmwareData == Puts("firmware", <<"FW_START_ADDRESS blocks", "FW_START_ADDRESS bytes">>)
FirmwarePage == Put("firmware", "MCUFWDL+2") \o FirmwareData
FirmwareImage == FirmwarePage

(* An image transfer that fails returns with the download mode still open; a     *)
(* checksum that never comes is kept until the mode is closed.                   *)
FirmwareAttempt(n) ==
  LET rest == (DownloadAttempts - n) * (Len(FirmwareImage) + 2)
  IN Put("firmware", "MCUFWDL checksum") \o FirmwareImage
     \o <<[Step("read", "firmware", <<"checksum">>) EXCEPT
             !.jump = "always", !.skip = rest,
             !.fails = IF n = DownloadAttempts THEN "keep" ELSE "drop"]>>

FirmwareDisable ==
  AllTheSame("firmware", Failing("keep", Clearing("firmware", "MCUFWDL", {"dl"})))

FirmwareStart ==
  Read("firmware", "MCUFWDL") \o Clearing("firmware", "MCUFWDL", {"fw"})
  \o Completing({"ram"}, Reset8051) \o Completing({"fw"}, Poll("firmware", "WINTINI_RDY"))

FirmwareSequence ==
  PreflightResetLoadedCode \o Setting("firmware", "MCUFWDL", {"dl"}) \o Put("firmware", "MCUFWDL+2")
  \o FlattenSeq([n \in 1..DownloadAttempts |-> FirmwareAttempt(n)])
  \o FirmwareDisable \o FirmwareStart

LltWrite(what) == Put("llt", what) \o Poll("llt", what)

LltSequence ==
  Preflight("llt", "CR", {"cr"})
  \o Completing({"llt"}, LltWrite("list pages") \o LltWrite("end of list") \o LltWrite("ring pages")
                         \o LltWrite("end of ring"))

(* Mutant: only the power-on state is verified. *)
QueuePreflightPowerOnly == Preflight("queue", "CR", {"cr"})
QueuePreflight == Preflight("queue", "CR", {"cr"}) \o Preflight("queue", "MCUFWDL", {"ram", "fw"})

QueueDmaSequence ==
  QueuePreflight
  \o Completing({"queue"},
       Puts("queue", <<"RQPN_NPQ", "RQPN", "BCNQ_BDNY", "MGQ_BDNY", "WMAC_LBK_BF_HD", "TRXFF_BNDY",
                       "TDECTRL+1", "TRXDMA_CTRL", "TRXFF_BNDY+2", "PBP">>))

MacPreflight == Preflight("mac", "CR", {"cr"}) \o Preflight("mac", "MCUFWDL", {"ram", "fw"})

BeaconParameters ==
  Puts("mac", <<"BCN_CTRL", "TBTT_PROHIBIT", "TBTT_PROHIBIT+1", "TBTT_PROHIBIT+2", "DRVERLYINT",
                "BCNDMATIM", "BCNTCFG">>)

UsbReceiveDma ==
  Puts("mac", <<"0xf050", "RXDMA_STATUS", "RXDMA_STATUS+1", "AMPDU_MAX_TIME", "AMPDU_MAX_LENGTH">>)
  \o Read("mac", "USB speed")
UsbBurstPackets ==
  UsbReceiveDma
  \o Puts("mac", <<"RXDMA_PRO", "TDECTRL", "HT_SINGLE_AMPDU", "RX_PKT_LIMIT", "PIFS", "MAX_AGGR_NUM",
                   "FWHW_TXQ_CTRL", "RSV_CTRL", "ARFR">>)

MacReceive ==
  Puts("mac", <<"RX_DRVINFO_SZ", "CR network type", "RCR", "MAR", "MAR+4", "RXFLTMAP1">>)
MacTiming ==
  Puts("mac", <<"RRSR", "SPEC_SIFS", "RETRY_LIMIT", "SIFS", "EDCA", "TXPAUSE", "USTIME">>)
MacRetry == Puts("mac", <<"FWHW_TXQ_CTRL", "ACKTO">>)
MacEnable == Completing({"mac"}, Puts("mac", <<"HWSEQ_CTRL", "BAR_MODE_CTRL", "CR TX/RX enable">>))

MacSequence ==
  MacPreflight \o MacReceive \o MacTiming \o MacRetry \o BeaconParameters \o UsbBurstPackets
  \o MacEnable

MacTablePlan == Put("mac", "MAC_REG table")

BbPreflight == Preflight("bb", "CR", {"cr"}) \o Preflight("bb", "MCUFWDL", {"ram", "fw"})
BbTablePlan(array) == Clearing("bb", array, {"agc", "cal", "page"})
BbCrystalCap == Put("bb", "MAC_PHY_CTRL")

BbSequence ==
  BbPreflight \o Put("bb", "SYS_FUNC_EN") \o Setting("bb", "SYS_FUNC_EN", {"bbfunc"})
  \o Puts("bb", <<"RF_CTRL", "RF_B_CTRL">>)
  \o BbTablePlan("PHY_REG") \o BbTablePlan("AGC_TAB") \o Completing({"bb"}, BbCrystalCap)

RfPreflight == BbPreflight \o Preflight("rf", "SYS_FUNC_EN", {"bbfunc"})
RfTablePlan(array) == Put("rf", array)
RfSequence == RfPreflight \o RfTablePlan("radioA") \o Completing({"rf"}, RfTablePlan("radioB"))

EnsureOfdmCckTx == Put("channel", "OFDMCCKEN")
PwedThresholds == Puts("channel", <<"Pwed_TH", "Pwed_TH">>)
RfeRegs == Check("RFE type") \o Puts("channel", <<"RFE_Pinmux", "RFE_Inv", "ANTSEL_SW">>)
BasicRate == Puts("channel", <<"RRSR", "RRSR+2">>)
BbSwing == Puts("channel", <<"TxScale A", "TxScale B">>)
PollTxPacketEmpty == Poll("channel", "TXPKT_EMPTY")

BandRegs ==
  Puts("channel", <<"OFDMCCKEN", "BWIndication">>) \o PwedThresholds \o Put("channel", "AGC_table")
  \o RfeRegs \o Puts("channel", <<"TxPath", "CCK_RX">>) \o BasicRate

(* The mark that tells the band is written last on the way to 2.4 GHz and first *)
(* on the way to 5 GHz.                                                         *)
SwitchTo2g == BandRegs \o Clearing("channel", "CCK_CHECK", {"mark5"}) \o BbSwing
SwitchTo5g == Setting("channel", "CCK_CHECK", {"mark5"}) \o PollTxPacketEmpty \o BandRegs \o BbSwing

(* A chip that carries the band's mark gets the antenna registers only. *)
SwitchWirelessBand ==
  Unless({"5GHz"}, Choosing("mark5", "channel", "CCK_CHECK", SwitchTo2g, RfeRegs))
  \o When({"5GHz"}, Choosing("mark5", "channel", "CCK_CHECK", RfeRegs, SwitchTo5g))

RfSerialWrite(path) == Put("rf", path)
FixSpur == Unless({"5GHz"}, Put("channel", "RFMOD"))

ChannelBandwidth ==
  Puts("channel", <<"WMAC_TRXPTCL_CTL", "DATA_SC">>) \o Read("channel", "BWIndication+3")
  \o Puts("channel", <<"RFMOD", "ADC_Buf_Clk", "CCAonSec", "L1PeakTH", "CCK_System">>)
  \o RfSerialWrite("CHNLBW A") \o RfSerialWrite("CHNLBW B")

(* TX gain values captured on channel 36 overwrite the TXAGC registers. *)
CapturedTail == When({"5GHz"}, Clearing("channel", "TxAGC", {"agc", "cal"}))

ChannelSequence ==
  Check("bandwidth on channel") \o RfPreflight \o Check("RF base data") \o SwitchWirelessBand
  \o EnsureOfdmCckTx \o Put("channel", "Fc_area")
  \o RfSerialWrite("CHNLBW A") \o FixSpur \o RfSerialWrite("CHNLBW A")
  \o RfSerialWrite("CHNLBW B") \o FixSpur \o RfSerialWrite("CHNLBW B")
  \o Completing({"chan"}, ChannelBandwidth) \o CapturedTail

TxSchedulerTail == Setting("mac", "TX scheduler tail", {"tail"})

-----------------------------------------------------------------------------
(* EFUSE.  A byte that cannot be read is reported after access was revoked; a    *)
(* failure while access is being set up returns at once.                         *)
EfusePowerOn ==
  Setting("efuse", "BURN_GNT", {"grant"}) \o Read("efuse", "SYS_ISO_CTRL")
  \o Puts("efuse", <<"SYS_FUNC_EN", "SYS_CLKR">>)
EfusePowerOff == AllTheSame("efuse", Failing("keep", Clearing("efuse", "BURN_GNT", {"grant"})))
EfuseReadByte == <<[Step("write", "efuse", <<"EFUSE_CTRL">>) EXCEPT !.fails = "keep"]>>
ReadEfusePhysical ==
  EfusePowerOn \o FlattenSeq([n \in 1..EfuseBytes |-> EfuseReadByte]) \o EfusePowerOff

ProgramLocalMac == Put("operator", "MACID")
ProgramEfuseMacId == ReadEfusePhysical \o ProgramLocalMac

-----------------------------------------------------------------------------
(* LED. *)
LedWrite(on) ==
  IF on THEN Setting("led", "LEDCFG", {"led"}) ELSE Clearing("led", "LEDCFG", {"led"})

(* The indication around a transmission: its errors are only reported, and the *)
(* first one ends it.                                                          *)
TxActivityLed(on) == When({"led"}, Failing("quiet", LedWrite(on)))

(* The heartbeat of a bridge run goes on after an error. *)
HeartbeatLed(on) == When({"led"}, Failing("drop", LedWrite(on)))

-----------------------------------------------------------------------------
(* TX power, calibration and the optional preparation of a transmission. *)
RfCalibrationProbe ==
  Read("channel", "RFE registers") \o Read("channel", "IQK registers")
  \o Read("channel", "LCK registers") \o Read("channel", "RF path registers")

TxPowerSource == Check("power mode") \o File("EFUSE power source")
TxPowerControl == TxPowerSource \o Setting("agc", "TxAGC", {"agc"})

(* A calibration profile rewrites the TX path, TX gain included. *)
CalibrationProfile ==
  Clearing("agc", "calibration", {"agc"}) \o Setting("agc", "calibration", {"cal"})
  \o Check("calibration ready for TX")

(* Status registers around a transmission are evidence only; after an error they *)
(* are not looked at again.                                                      *)
TxStatus == When({"status"}, Failing("quiet", Read("status", "TX status")))

MonitorOpmode == Put("operator", "monitor opmode")
MonitorReceiveFilter == Put("operator", "monitor receive filter")
ClearTxDmaStatus == Put("operator", "TXDMA_STATUS")

MediaStatusH2c ==
  Read("firmware", "HMETFR") \o Puts("firmware", <<"HMEBOX_EXT", "HMEBOX">>)
  \o Read("firmware", "HMETFR")

RfSerialRead(path) ==
  Read("bb", path) \o Setting("bb", "HSSIRead", {"hssi"}) \o Read("bb", path)
RfRegisterWrite == Put("operator", "RF registers")
RegisterWrite(what) == Put("operator", what)

TraceApply == Check("address range") \o File("trace") \o RegisterWrite("trace registers")
TraceSequenceApply ==
  Checks(<<"address range", "event range">>) \o File("trace") \o RegisterWrite("trace sequence")
PostTxMutations ==
  RegisterWrite("write8") \o RegisterWrite("write32") \o RegisterWrite("set32")

-----------------------------------------------------------------------------
(* The read-only calibration diagnostic: it selects register page C1 and the     *)
(* 3-wire read settings, and has to put both back.  An error between select and  *)
(* restore returns at once; a restore that did not take is a failed cleanup.     *)
PageC1Probe ==
  Read("bb", "AGC_table") \o Setting("bb", "AGC_table", {"page"}) \o Read("bb", "AGC_table")
  \o Read("bb", "page C1 latches") \o Clearing("bb", "AGC_table", {"page"})
  \o Failing("keep", Read("bb", "AGC_table"))

IqkStandalone ==
  Read("bb", "HSSIRead") \o Read("bb", "MAC/BB backup") \o PageC1Probe
  \o AllTheSame("bb", Read("bb", "AFE backup") \o RfSerialRead("A") \o RfSerialRead("B")
                      \o Read("bb", "IQK registers")
                      \o Failing("keep", Clearing("bb", "HSSIRead", {"hssi"}))
                      \o Read("bb", "HSSIRead"))
================================================================================
