---------------------------- MODULE Initialization ----------------------------
(* Same-session initialization of the RTL8812AU: run_rtl8812au_production_init   *)
(* and its phases.  Every session starts from whatever the adapter kept from the *)
(* one before, which may have failed or been killed between any two transfers.   *)
EXTENDS UsbControl, Sequences, FiniteSets

CONSTANTS
  FwPages,                  \* pages of the firmware image
  MAX_DOWNLOADS,            \* download attempts
  TX_PAGE_BOUNDARY_8812,    \* first page of the ring part of the link table
  LAST_ENTRY,               \* LAST_ENTRY_OF_TX_PKT_BUFFER_8812
  EfuseLength,              \* bytes read from EFUSE
  Configs,                  \* configurations: see ConfigType
  MaxSessions               \* bound on sessions of one behaviour

ConfigType ==
  [order : {"Default", "Linux"}, band : {"2G", "5G"}, endpoints : Nat, channelOk : BOOLEAN,
   authorized : BOOLEAN, channel36 : BOOLEAN, power : BOOLEAN, kick : BOOLEAN]

ASSUME InitConstants ==
  /\ Configs \subseteq ConfigType
  /\ FwPages \in Nat \ {0} /\ MAX_DOWNLOADS \in Nat \ {0} /\ EfuseLength \in Nat \ {0}
  /\ TX_PAGE_BOUNDARY_8812 \in Nat \ {0} /\ LAST_ENTRY \in Nat
  /\ TX_PAGE_BOUNDARY_8812 < LAST_ENTRY /\ MaxSessions \in Nat \ {0}

VARIABLES
  config,     \* the session's configuration
  session,    \* sessions so far
  warm,       \* the adapter kept its power since an earlier session
  status,     \* "running", "failed" or "ready" (RuntimeSameSessionInitReadiness)
  at,         \* position in the phase sequence
  step,       \* next step of the phase
  i,          \* loop index of that step
  attempt,    \* download attempts of this session
  verified,   \* download_result is Ok / no EFUSE byte read failed
  cr,         \* REG_CR: block enables set
  mcu,        \* REG_MCUFWDL bits that are set
  image,      \* what each firmware page holds: "none", "old", "new" or "bad"
  cpu,        \* the code the 8051 executes
  llt,        \* link table
  grant,      \* EFUSE access granted
  bbReady,    \* REG_SYS_FUNC_EN: BB enabled
  bandMark,   \* band REG_CCK_CHECK_8812 stands for
  bandRegs    \* what the band registers hold: "reset", "table" or a band

initVars == <<config, session, warm, status, at, step, i, attempt, verified>>
adapterVars == <<cr, mcu, image, cpu, llt, grant, bbReady, bandMark, bandRegs>>
initializationVars == <<initVars, adapterVars>>

Pages == 1..FwPages
Entries == 0..LAST_ENTRY
EndOfList == LAST_ENTRY + 1          \* 0xff ends the list

Phases(order) ==
  <<"PowerOn", IF order = "Linux" THEN "Llt" ELSE "Firmware",
    IF order = "Linux" THEN "Firmware" ELSE "Llt", "MacTable", "QueueDma", "Mac", "MacAddr", "Bb",
    "Rf", "Channel", "TxSchedulerTail">>

FirstStep ==
  [PowerOn |-> "cr_clear", Firmware |-> "fw_preflight", Llt |-> "llt", MacTable |-> "mac_table",
   QueueDma |-> "queue_dma", Mac |-> "mac", MacAddr |-> "efuse_on", Bb |-> "bb", Rf |-> "rf",
   Channel |-> "chan", TxSchedulerTail |-> "tail"]

InSession == <<config, session, warm>>

GoTo(next, n) ==
  /\ step' = next /\ i' = n
  /\ UNCHANGED <<at, status, attempt, verified>>

Halt(result) ==
  /\ status' = result /\ step' = "none" /\ i' = 0 /\ at' = 0 /\ attempt' = 0 /\ verified' = FALSE

Fail == Halt("failed")

PhaseDone ==
  IF at = Len(Phases(config.order)) THEN Halt("ready")
  ELSE /\ at' = at + 1
       /\ step' = FirstStep[Phases(config.order)[at + 1]]
       /\ i' = 0 /\ attempt' = 0 /\ verified' = FALSE
       /\ UNCHANGED status

Untouched == UNCHANGED <<adapterVars, txpause>>

At(s) == status = "running" /\ step = s /\ UNCHANGED InSession

(* One transfer, or a run of transfers whose partial effects nothing here tells *)
(* apart, that changes the adapter by effect.                                   *)
Do(s, effect, goOn) == At(s) /\ Try(effect, Untouched, goOn, Fail)

(* The error of a failed poll or check. *)
Refuse(s) == At(s) /\ Untouched /\ Acknowledged /\ Fail

Only(changed, var) ==
  /\ changed
  /\ var # "cr" => UNCHANGED cr
  /\ var \notin {"mcu", "cpu"} => UNCHANGED mcu
  /\ var # "image" => UNCHANGED image
  /\ var # "cpu" => UNCHANGED cpu
  /\ var # "llt" => UNCHANGED llt
  /\ var # "grant" => UNCHANGED grant
  /\ var # "bb" => UNCHANGED <<bbReady, bandRegs>>
  /\ var # "mark" => UNCHANGED bandMark
  /\ var # "txpause" => UNCHANGED txpause

-----------------------------------------------------------------------------
(* Power on: REG_CR is cleared, then its block enables are set. *)

PowerOn ==
  \/ Do("cr_clear", Only(cr' = FALSE, "cr"), GoTo("cr_set", 0))
  \/ Do("cr_set", Only(cr' = TRUE, "cr"), PhaseDone)

-----------------------------------------------------------------------------
(* Firmware. *)

(* What the 8051 runs after a reset. *)
Code ==
  IF \A p \in Pages : image[p] = "new" THEN "new"
  ELSE IF \A p \in Pages : image[p] = "old" THEN "old" ELSE "bad"

(* The 8051 starts the downloaded code if MCUFWDL_RDY says there is one, and   *)
(* damaged code may or may not report WINTINI_RDY.                             *)
Reset8051 ==
  IF "RDY" \notin mcu THEN Only(cpu' = "rom" /\ mcu' = mcu, "cpu")
  ELSE Only(/\ cpu' = Code
            /\ \/ mcu' = mcu \cup {"RAM", "WINTINI"}
               \/ Code = "bad" /\ mcu' = mcu \cup {"RAM"}, "cpu")

SetMcu(bits) == Only(mcu' = bits, "mcu")

FwPreflight ==
  IF "RAM" \in mcu THEN Do("fw_preflight", SetMcu({}), GoTo("fw_preset", 0))
  ELSE Do("fw_preflight", Untouched, GoTo("fw_enable", 0))

FwPreflightReset == Do("fw_preset", Reset8051, GoTo("fw_enable", 0))

(* Writing CHKSUM back as 1 clears it, so every read-modify-write does. *)
FwEnable == Do("fw_enable", SetMcu((mcu \ {"CHKSUM"}) \cup {"EN"}), GoTo("fw_begin", 0))

FwBegin ==
  Do("fw_begin", SetMcu(mcu \ {"CHKSUM"}),
     step' = "fw_page" /\ i' = 1 /\ attempt' = attempt + 1 /\ UNCHANGED <<at, status, verified>>)

FwPageGoOn == IF i = FwPages THEN GoTo("fw_checksum", 0) ELSE GoTo("fw_page", i + 1)

(* A page may also arrive damaged: that is what the checksum is for. *)
FwPage ==
  \/ Do("fw_page", Only(image' = [image EXCEPT ![i] = "new"], "image"), FwPageGoOn)
  \/ At("fw_page") /\ GoesWrong /\ FwPageGoOn
     /\ Only(image' = [image EXCEPT ![i] = "bad"], "image")

(* The adapter reports the checksum of an undamaged image.  A failed poll, its  *)
(* transfer errors included, leads to another attempt.                          *)
FwChecksum ==
  /\ At("fw_checksum")
  /\ \/ /\ Code = "new" /\ "EN" \in mcu
        /\ SetMcu(mcu \cup {"CHKSUM"})
        /\ step' = "fw_disable" /\ verified' = TRUE
        /\ Acknowledged
     \/ /\ Untouched
        /\ step' = (IF attempt < MAX_DOWNLOADS THEN "fw_begin" ELSE "fw_disable")
        /\ verified' = FALSE
        /\ IF Code = "new" THEN GoesWrong ELSE Acknowledged
  /\ i' = 0 /\ UNCHANGED <<at, status, attempt>>

(* Mutant: the download error is dropped once download mode is off. *)
FwDisableForgetsError == Do("fw_disable", SetMcu(mcu \ {"EN", "CHKSUM"}), GoTo("fw_ready", 0))

FwDisable ==
  Do("fw_disable", SetMcu(mcu \ {"EN", "CHKSUM"}), IF verified THEN GoTo("fw_ready", 0) ELSE Fail)

FwReady ==
  Do("fw_ready", SetMcu((mcu \ {"WINTINI", "CHKSUM"}) \cup {"RDY"}), GoTo("fw_reset", 0))

FwReset == Do("fw_reset", Reset8051, GoTo("fw_poll", 0))

FwPoll ==
  IF "WINTINI" \in mcu THEN Do("fw_poll", Untouched, PhaseDone) ELSE Refuse("fw_poll")

Firmware ==
  \/ FwPreflight \/ FwPreflightReset \/ FwEnable \/ FwBegin \/ FwPage \/ FwChecksum
  \/ FwDisable \/ FwReady \/ FwReset \/ FwPoll

-----------------------------------------------------------------------------
(* Preflight checks. *)

CrReady == cr
FirmwareReady == CrReady /\ {"RAM", "WINTINI", "RDY"} \subseteq mcu
RfReady == FirmwareReady /\ bbReady

Checked(s, ready, effect, goOn) == IF ready THEN Do(s, effect, goOn) ELSE Refuse(s)

-----------------------------------------------------------------------------
(* Link table: a list of the pages below the boundary, a ring of the others. *)

LltData(page) ==
  IF page = TX_PAGE_BOUNDARY_8812 - 1 THEN EndOfList
  ELSE IF page = LAST_ENTRY THEN TX_PAGE_BOUNDARY_8812 ELSE page + 1

Llt ==
  Checked("llt", i > 0 \/ CrReady, Only(llt' = [llt EXCEPT ![i] = LltData(i)], "llt"),
          IF i = LAST_ENTRY THEN PhaseDone ELSE GoTo("llt", i + 1))

-----------------------------------------------------------------------------
(* The other phases. *)

MacTable == Do("mac_table", Untouched, PhaseDone)

QueueDma == Checked("queue_dma", config.endpoints \in {2, 3, 4} /\ CrReady, Untouched, PhaseDone)

(* MAC programming opens the TX queues, whatever an earlier session left. *)
Mac == Checked("mac", FirmwareReady, Only(txpause' = "run", "txpause"), PhaseDone)

(* A failed byte read still revokes the grant; a power switch that fails after *)
(* its first write does not.                                                   *)
EfuseOn == Do("efuse_on", Only(grant' = TRUE, "grant"), GoTo("efuse_clock", 0))
EfuseClock ==
  Do("efuse_clock", Untouched,
     step' = "efuse_read" /\ i' = 1 /\ verified' = TRUE /\ UNCHANGED <<at, status, attempt>>)

EfuseReadByte ==
  /\ At("efuse_read") /\ Untouched
  /\ \/ /\ Acknowledged
        /\ IF i = EfuseLength THEN GoTo("efuse_off", 0) ELSE GoTo("efuse_read", i + 1)
     \/ /\ GoesWrong
        /\ step' = "efuse_off" /\ i' = 0 /\ verified' = FALSE
        /\ UNCHANGED <<at, status, attempt>>

EfuseOff ==
  Do("efuse_off", Only(grant' = FALSE, "grant"), IF verified THEN GoTo("macid", 0) ELSE Fail)

(* Skipped when EFUSE holds no address. *)
ProgramMacId == Do("macid", Untouched, PhaseDone)

MacAddr == EfuseOn \/ EfuseClock \/ EfuseReadByte \/ EfuseOff \/ ProgramMacId

Bb ==
  Checked("bb", FirmwareReady, Only(bbReady' = TRUE /\ bandRegs' = "table", "bb"), PhaseDone)

Rf == Checked("rf", RfReady, Untouched, PhaseDone)

(* A channel that does not fit the bandwidth is refused before any write.  The *)
(* band switch is skipped when the adapter is marked as on the target band; the *)
(* mark is written before the band registers for 5 GHz and after for 2.4 GHz.   *)
ChannelStart ==
  Checked("chan", config.channelOk /\ RfReady, Untouched,
          IF bandMark = config.band THEN GoTo("chan_rest", 0)
          ELSE IF config.band = "5G" THEN GoTo("band_mark", 0) ELSE GoTo("band_regs", 0))

BandMark ==
  Do("band_mark", Only(bandMark' = config.band, "mark"),
     IF config.band = "5G" THEN GoTo("band_regs", 0) ELSE GoTo("chan_rest", 0))

BandRegs ==
  Do("band_regs", Only(bandRegs' = config.band /\ UNCHANGED bbReady, "bb"),
     IF config.band = "5G" THEN GoTo("chan_rest", 0) ELSE GoTo("band_mark", 0))

ChannelRest == Do("chan_rest", Untouched, PhaseDone)

Channel == ChannelStart \/ BandMark \/ BandRegs \/ ChannelRest

TxSchedulerTail == Do("tail", Untouched, PhaseDone)

-----------------------------------------------------------------------------
ColdAdapter ==
  /\ cr = FALSE /\ mcu = {} /\ image = [p \in Pages |-> "none"] /\ cpu = "rom"
  /\ llt = [e \in Entries |-> EndOfList] /\ grant = FALSE /\ bbReady = FALSE
  /\ bandMark = "2G" /\ bandRegs = "2G" /\ txpause = "run"

PowerCycle ==
  /\ cr' = FALSE /\ mcu' = {} /\ image' = [p \in Pages |-> "none"] /\ cpu' = "rom"
  /\ llt' = [e \in Entries |-> EndOfList] /\ grant' = FALSE /\ bbReady' = FALSE
  /\ bandMark' = "2G" /\ bandRegs' = "2G" /\ txpause' = "run"

(* calibration_decision refuses a profile that writes registers without        *)
(* authorization before the first phase runs.                                  *)
Start(needsAuthorization, c) ==
  IF needsAuthorization /\ ~c.authorized
  THEN status' = "failed" /\ at' = 0 /\ step' = "none"
  ELSE status' = "running" /\ at' = 1 /\ step' = FirstStep["PowerOn"]

Aged(x) == IF x = "new" THEN "old" ELSE x

(* A new session on an adapter that kept its power, or was replugged. *)
NewSession(needsAuthorization) ==
  /\ session < MaxSessions
  /\ session' = session + 1
  /\ Start(needsAuthorization, config)
  /\ i' = 0 /\ attempt' = 0 /\ verified' = FALSE
  /\ \/ /\ warm' = TRUE
        /\ image' = [p \in Pages |-> Aged(image[p])] /\ cpu' = Aged(cpu)
        /\ UNCHANGED <<cr, mcu, llt, grant, bbReady, bandMark, bandRegs, txpause>>
     \/ warm' = FALSE /\ PowerCycle
  /\ UNCHANGED <<config, faults>>

Phase ==
  PowerOn \/ Firmware \/ Llt \/ MacTable \/ QueueDma \/ Mac \/ MacAddr \/ Bb \/ Rf \/ Channel
  \/ TxSchedulerTail

-----------------------------------------------------------------------------
(* Properties. *)

(* Pages met when the link table is followed n times from a page. *)
Follow(from) ==
  LET f[n \in 0..LAST_ENTRY + 1] ==
        IF n = 0 THEN from
        ELSE LET page == f[n - 1] IN IF page = EndOfList THEN EndOfList ELSE llt[page]
  IN f

(* A session is reported ready only with a link table whose list visits every  *)
(* page below the boundary once and ends, and whose ring visits every other     *)
(* page and closes: production_llt_sequence writes it entry by entry, on top of *)
(* what an interrupted session left.                                            *)
LinkTableSplits ==
  status = "ready" =>
    LET B == TX_PAGE_BOUNDARY_8812 IN
    /\ {Follow(0)[n] : n \in 0..B - 1} = 0..B - 1 /\ Follow(0)[B] = EndOfList
    /\ {Follow(B)[n] : n \in 0..LAST_ENTRY - B} = B..LAST_ENTRY
    /\ Follow(B)[LAST_ENTRY - B + 1] = B

(* A session is reported ready only if the 8051 executes the undamaged image of   *)
(* this very session, download mode is closed, EFUSE access revoked and the link  *)
(* table splits, whatever interrupted sessions left on the adapter.  On an        *)
(* adapter powered on for this session, 5 GHz comes with the 5 GHz band           *)
(* registers; an adapter that kept its power may also have kept the band mark of  *)
(* an earlier session, and then the switch is skipped.                            *)
ReadyMeansFresh ==
  status = "ready" =>
    /\ LinkTableSplits
    /\ cpu = "new" /\ "EN" \notin mcu /\ FirmwareReady /\ ~grant
    /\ config.band = "5G" /\ ~warm => bandRegs = "5G"
    /\ bandMark = config.band
=============================================================================
