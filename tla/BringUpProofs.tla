---------------------------- MODULE BringUpProofs ----------------------------
(***************************************************************************)
(* Proofs about bring-up.  Same-session initialization: for every firmware    *)
(* size, link table, EFUSE length, configuration and number of sessions, with *)
(* transfers that fail, take effect unacknowledged, or end with their session.*)
(* Then the register backup and restore of the I/Q calibration, the LC tank   *)
(* calibration, and the gate in front of live TX, for every number of sweeps, *)
(* attempts, faults and sessions.                                             *)
(***************************************************************************)
EXTENDS BringUp, InductionLemmas, TLAPS

-----------------------------------------------------------------------------
(* The inductive invariant: initialization. *)

(* Positions of the phases; the firmware and the link table may swap. *)
FwAt == IF config.order = "Linux" THEN 3 ELSE 2
LltAt == IF config.order = "Linux" THEN 2 ELSE 3

FwSteps ==
  {"fw_preflight", "fw_preset", "fw_enable", "fw_begin", "fw_page", "fw_checksum", "fw_disable",
   "fw_ready", "fw_reset", "fw_poll"}
EfuseSteps == {"efuse_on", "efuse_clock", "efuse_read", "efuse_off", "macid"}
ChannelSteps == {"chan", "band_mark", "band_regs", "chan_rest"}

FirstOf(k) ==
  CASE k = 1     -> "cr_clear"
    [] k = FwAt  -> "fw_preflight"
    [] k = LltAt -> "llt"
    [] k = 4     -> "mac_table"
    [] k = 5     -> "queue_dma"
    [] k = 6     -> "mac"
    [] k = 7     -> "efuse_on"
    [] k = 8     -> "bb"
    [] k = 9     -> "rf"
    [] k = 10    -> "chan"
    [] k = 11    -> "tail"

InitType ==
  /\ config \in Configs /\ status \in {"running", "failed", "ready"}
  /\ at \in Nat /\ i \in Nat
  /\ llt = [e \in Entries |-> llt[e]]

(* The step a session executes belongs to the phase it is in. *)
StepInv ==
  status = "running" =>
    /\ at \in 1..11
    /\ step \in {"cr_clear", "cr_set"} => at = 1
    /\ step \in FwSteps => at = FwAt
    /\ step = "llt" => at = LltAt
    /\ step = "mac_table" => at = 4
    /\ step = "queue_dma" => at = 5
    /\ step = "mac" => at = 6
    /\ step \in EfuseSteps => at = 7
    /\ step = "bb" => at = 8
    /\ step = "rf" => at = 9
    /\ step \in ChannelSteps => at = 10
    /\ step = "tail" => at = 11

(* The session has completed phase number k. *)
Past(k) == status = "ready" \/ (status = "running" /\ at > k)

(* What the phases leave behind, and what they have established on the way. *)
FwGood == cpu = "new" /\ "EN" \notin mcu /\ {"RAM", "WINTINI", "RDY"} \subseteq mcu

FirmwareInv ==
  /\ Past(1) => cr
  /\ Past(FwAt) \/ step = "fw_poll" => FwGood
  /\ step = "fw_disable" /\ verified => Code = "new"
  /\ step \in {"fw_ready", "fw_reset"} => Code = "new" /\ "EN" \notin mcu
  /\ step = "fw_reset" => "RDY" \in mcu

LltWritten(n) == \A e \in Entries : e < n => llt[e] = LltData(e)

LltInv ==
  /\ Past(LltAt) => LltWritten(LAST_ENTRY + 1)
  /\ step = "llt" => i \in Entries /\ LltWritten(i)

GrantInv == Past(7) \/ step = "macid" => ~grant

BandGood == bandMark = config.band /\ (config.band = "5G" /\ ~warm => bandRegs = "5G")

BandInv ==
  /\ Past(10) \/ step = "chan_rest" => BandGood
  /\ step = "band_regs" /\ config.band = "5G" => bandMark = "5G"
  /\ ~warm /\ status = "running" /\ (at < 10 \/ step = "chan") => bandMark = "2G"

SessionInv == InitType /\ StepInv /\ FirmwareInv /\ LltInv /\ GrantInv /\ BandInv

-----------------------------------------------------------------------------
(* The phases in their order. *)

LEMMA PhaseTable ==
  ASSUME NEW k \in 1..11
  PROVE  /\ Len(Phases(config.order)) = 11
         /\ FirstStep[Phases(config.order)[k]] = FirstOf(k)
BY DEF Phases, FirstStep, FirstOf, FwAt, LltAt

(* The end of a phase: the session is ready, or in the first step of the next. *)
LEMMA PhaseEnd ==
  ASSUME InitType, StepInv, status = "running", PhaseDone
  PROVE  \/ at = 11 /\ status' = "ready" /\ step' = "none" /\ at' = 0 /\ i' = 0
         \/ /\ at \in 1..10 /\ status' = "running" /\ at' = at + 1 /\ i' = 0
            /\ step' = FirstOf(at + 1)
<1>1. config \in Configs /\ at \in 1..11
  BY DEF InitType, StepInv
<1>2. CASE at = 11
  BY <1>1, <1>2, PhaseTable DEF PhaseDone, Halt
<1>3. CASE at # 11
  <2>1. at + 1 \in 1..11 /\ at \in 1..10 /\ Len(Phases(config.order)) = 11
    BY <1>1, <1>3, PhaseTable
  <2>2. FirstStep[Phases(config.order)[at + 1]] = FirstOf(at + 1)
    BY <1>1, <2>1, PhaseTable
  <2> QED BY <1>3, <2>1, <2>2 DEF PhaseDone
<1> QED BY <1>2, <1>3

-----------------------------------------------------------------------------
(* Ways a step can end. *)

LEMMA FirmwarePosition == FwAt \in 2..3 /\ LltAt \in 2..3 /\ FwAt # LltAt
BY DEF FwAt, LltAt

(* A failed step ends the session; what it promised no longer matters. *)
LEMMA FailKeeps ==
  ASSUME SessionInv, Fail, config' = config, llt' = [e \in Entries |-> llt'[e]]
  PROVE  SessionInv'
<1>1. status' = "failed" /\ step' = "none" /\ i' = 0 /\ at' = 0
  BY DEF Fail, Halt
<1>2. InitType'
  BY <1>1 DEF SessionInv, InitType
<1>3. StepInv' /\ FirmwareInv' /\ LltInv' /\ GrantInv' /\ BandInv'
  BY <1>1 DEF StepInv, FirmwareInv, LltInv, GrantInv, BandInv, Past
<1> QED BY <1>2, <1>3 DEF SessionInv

(* The end of a phase hands its promise to the phases after it. *)
LEMMA Advance ==
  ASSUME InitType, StepInv, status = "running", PhaseDone, config' = config, warm' = warm,
         llt' = [e \in Entries |-> llt'[e]],
         cr',
         at >= FwAt => FwGood',
         at >= LltAt => LltWritten(LAST_ENTRY + 1)',
         at >= 7 => ~grant',
         at >= 10 => BandGood',
         ~warm /\ at < 10 => bandMark' = "2G"
  PROVE  SessionInv'
<1>0. config \in Configs /\ at \in 1..11 /\ LAST_ENTRY \in Nat
  BY InitConstants DEF InitType, StepInv
<1>1. CASE at = 11 /\ status' = "ready" /\ step' = "none" /\ at' = 0 /\ i' = 0
  <2>1. InitType' /\ StepInv'
    BY <1>0, <1>1 DEF InitType, StepInv
  <2>2. FirmwareInv' /\ LltInv' /\ GrantInv' /\ BandInv'
    BY <1>1, FirmwarePosition DEF FirmwareInv, LltInv, GrantInv, BandInv
  <2> QED BY <2>1, <2>2 DEF SessionInv
<1>2. CASE /\ at \in 1..10 /\ status' = "running" /\ at' = at + 1 /\ i' = 0
           /\ step' = FirstOf(at + 1)
  <2>0. FwAt' = FwAt /\ LltAt' = LltAt
    BY DEF FwAt, LltAt
  <2>1. step' \in {"fw_preflight", "llt", "mac_table", "queue_dma", "mac", "efuse_on", "bb", "rf",
                   "chan", "tail"}
    BY <1>2, FirmwarePosition DEF FirstOf
  <2>p. PICK k \in 2..11 : k = at + 1
    BY <1>2
  <2>2. /\ (step' = "fw_preflight") => at' = FwAt
        /\ (step' = "llt") => at' = LltAt
        /\ (step' = "mac_table") => at' = 4
        /\ (step' = "queue_dma") => at' = 5
        /\ (step' = "mac") => at' = 6
        /\ (step' = "efuse_on") => at' = 7
        /\ (step' = "bb") => at' = 8
        /\ (step' = "rf") => at' = 9
        /\ (step' = "chan") => at' = 10
        /\ (step' = "tail") => at' = 11
    <3>1. CASE k = FwAt
      <4>1. step' = "fw_preflight"
        BY <1>2, <2>p, <3>1, FirmwarePosition DEF FirstOf
      <4> QED BY <1>2, <2>p, <3>1, <4>1
    <3>2. CASE k = LltAt
      <4>1. step' = "llt"
        BY <1>2, <2>p, <3>2, FirmwarePosition DEF FirstOf
      <4> QED BY <1>2, <2>p, <3>2, <4>1
    <3>0. /\ FirstOf(4) = "mac_table" /\ FirstOf(5) = "queue_dma" /\ FirstOf(6) = "mac"
          /\ FirstOf(7) = "efuse_on" /\ FirstOf(8) = "bb" /\ FirstOf(9) = "rf"
          /\ FirstOf(10) = "chan" /\ FirstOf(11) = "tail"
      BY FirmwarePosition DEF FirstOf
    <3>s. step' = FirstOf(k) /\ at' = k
      BY <1>2, <2>p
    <3>3. CASE k \in 4..7
      <4>1. k = 4 \/ k = 5 \/ k = 6 \/ k = 7
        BY <3>3
      <4> QED BY <3>0, <3>s, <4>1
    <3>4. CASE k \in 8..11
      <4>1. k = 8 \/ k = 9 \/ k = 10 \/ k = 11
        BY <3>4
      <4> QED BY <3>0, <3>s, <4>1
    <3>5. k = FwAt \/ k = LltAt \/ k \in 4..7 \/ k \in 8..11
      BY FirmwarePosition
    <3> QED BY <3>1, <3>2, <3>3, <3>4, <3>5
  <2>3. InitType'
    BY <1>0, <1>2 DEF InitType
  <2>4. StepInv'
    BY <1>2, <2>0, <2>1, <2>2 DEF StepInv, FwSteps, EfuseSteps, ChannelSteps
  <2>5. /\ Past(1)' /\ (Past(FwAt)' <=> at >= FwAt) /\ (Past(LltAt)' <=> at >= LltAt)
        /\ (Past(7)' <=> at >= 7) /\ (Past(10)' <=> at >= 10)
    BY <1>0, <1>2, <2>0, FirmwarePosition DEF Past
  <2>6. FirmwareInv'
    BY <2>1, <2>5 DEF FirmwareInv
  <2>7. LltInv'
    <3>1. step' = "llt" => i' \in Entries /\ LltWritten(i)'
      BY <1>0, <1>2 DEF Entries, LltWritten
    <3> QED BY <2>5, <3>1 DEF LltInv
  <2>8. GrantInv'
    BY <2>1, <2>5 DEF GrantInv
  <2>9. BandInv'
    <3>1. ~warm' /\ (at' < 10 \/ step' = "chan") => bandMark' = "2G"
      BY <1>2, <2>2
    <3> QED BY <2>1, <2>5, <3>1 DEF BandInv
  <2> QED BY <2>3, <2>4, <2>6, <2>7, <2>8, <2>9 DEF SessionInv
<1> QED BY <1>1, <1>2, PhaseEnd

(* A phase that touches nothing the later phases rely on. *)
LEMMA PlainAdvance ==
  ASSUME SessionInv, status = "running", PhaseDone, config' = config, warm' = warm,
         at \notin {1, FwAt, LltAt, 7, 10}, UNCHANGED <<cr, mcu, cpu, llt, grant, bandMark>>,
         at = 11 => UNCHANGED bandRegs
  PROVE  SessionInv'
<1>1. InitType /\ StepInv /\ at \in 1..11
  BY DEF SessionInv, StepInv
<1>2. llt' = [e \in Entries |-> llt'[e]]
  BY <1>1 DEF InitType
<1>3. cr' /\ (at >= FwAt => FwGood')
  BY <1>1, FirmwarePosition DEF SessionInv, FirmwareInv, Past, FwGood
<1>4. at >= LltAt => LltWritten(LAST_ENTRY + 1)'
  BY <1>1, FirmwarePosition DEF SessionInv, LltInv, Past, LltWritten
<1>5. at >= 7 => ~grant'
  BY <1>1 DEF SessionInv, GrantInv, Past
<1>6. at >= 10 => BandGood'
  BY <1>1 DEF SessionInv, BandInv, Past, BandGood
<1>7. ~warm /\ at < 10 => bandMark' = "2G"
  BY DEF SessionInv, BandInv
<1> QED BY <1>1, <1>2, <1>3, <1>4, <1>5, <1>6, <1>7, Advance

(* A step to another one of the same phase: what earlier phases left is kept. *)
LEMMA StayKeeps ==
  ASSUME SessionInv, status = "running", status' = "running", at' = at, config' = config,
         warm' = warm
  PROVE  /\ FwAt' = FwAt /\ LltAt' = LltAt /\ at \in 1..11
         /\ Past(1)' = Past(1) /\ Past(FwAt)' = Past(FwAt) /\ Past(LltAt)' = Past(LltAt)
         /\ Past(7)' = Past(7) /\ Past(10)' = Past(10)
BY DEF SessionInv, StepInv, Past, FwAt, LltAt

(* A step to another one of the same phase. *)
LEMMA SamePhase ==
  ASSUME SessionInv, status = "running", status' = "running", at' = at, config' = config,
         i' \in Nat, llt' = [e \in Entries |-> llt'[e]],
         \E group \in {{"cr_clear", "cr_set"}, FwSteps, {"llt"}, EfuseSteps, ChannelSteps} :
           step \in group /\ step' \in group,
         FirmwareInv', LltInv', GrantInv', BandInv'
  PROVE  SessionInv'
<1>1. InitType'
  BY DEF SessionInv, InitType
<1>2. FwAt' = FwAt /\ LltAt' = LltAt
  BY DEF FwAt, LltAt
<1>3. StepInv'
  BY <1>2 DEF SessionInv, StepInv, FwSteps, EfuseSteps, ChannelSteps
<1> QED BY <1>1, <1>3 DEF SessionInv

-----------------------------------------------------------------------------
(* The phases. *)

LEMMA PowerOnStep ==
  ASSUME SessionInv, PowerOn
  PROVE  SessionInv'
<1>0. /\ InitType /\ StepInv /\ status = "running" /\ config' = config /\ warm' = warm
      /\ at = 1 /\ UNCHANGED <<mcu, cpu, image, llt, grant, bandMark, bandRegs>>
  BY DEF PowerOn, Do, At, Try, Only, Untouched, adapterVars, InSession, SessionInv, StepInv
<1>1. llt' = [e \in Entries |-> llt'[e]]
  BY <1>0 DEF InitType
<1>2. CASE Fail
  BY <1>0, <1>1, <1>2, FailKeeps
<1>3. CASE step = "cr_clear" /\ GoTo("cr_set", 0)
  <2>1. step' = "cr_set" /\ i' = 0 /\ at' = at /\ status' = status
    BY <1>3 DEF GoTo
  <2>2. ~Past(1)' /\ ~Past(FwAt)' /\ ~Past(LltAt)' /\ ~Past(7)' /\ ~Past(10)'
    BY <1>0, <2>1 DEF Past, FwAt, LltAt
  <2>3. FirmwareInv' /\ LltInv' /\ GrantInv'
    BY <2>1, <2>2 DEF FirmwareInv, LltInv, GrantInv
  <2>4. BandInv'
    BY <1>0, <2>1, <2>2 DEF SessionInv, BandInv
  <2> QED BY <1>0, <1>1, <1>3, <2>1, <2>3, <2>4, SamePhase
<1>4. CASE cr' = TRUE /\ PhaseDone
  <2>1. ~(at >= FwAt) /\ ~(at >= LltAt)
    BY <1>0, FirmwarePosition
  <2>2. ~warm => bandMark' = "2G"
    BY <1>0 DEF SessionInv, BandInv
  <2> QED BY <1>0, <1>1, <1>4, <2>1, <2>2, Advance
<1> QED
  BY <1>2, <1>3, <1>4 DEF PowerOn, Do, At, Try, Only

(* A step inside the firmware phase: only its own promises are at stake. *)
LEMMA FirmwareStay ==
  ASSUME SessionInv, status = "running", step \in FwSteps, step' \in FwSteps,
         status' = status, at' = at, i' \in Nat, UNCHANGED <<config, warm>>,
         UNCHANGED <<cr, llt, grant, bandMark, bandRegs>>,
         step' = "fw_poll" => FwGood',
         step' = "fw_disable" /\ verified' => Code' = "new",
         step' \in {"fw_ready", "fw_reset"} => Code' = "new" /\ "EN" \notin mcu',
         step' = "fw_reset" => "RDY" \in mcu'
  PROVE  SessionInv'
<1>0. InitType /\ StepInv /\ at = FwAt /\ at \in 2..3
  BY FirmwarePosition DEF SessionInv, StepInv
<1>1. /\ FwAt' = FwAt /\ LltAt' = LltAt /\ Past(1)' = Past(1) /\ ~Past(FwAt)'
      /\ Past(LltAt)' = Past(LltAt) /\ ~Past(7)' /\ ~Past(10)'
  BY <1>0 DEF Past, FwAt, LltAt
<1>2. llt' = [e \in Entries |-> llt'[e]]
  BY <1>0 DEF InitType
<1>3. FirmwareInv'
  BY <1>1 DEF SessionInv, FirmwareInv
<1>4. LltInv'
  BY <1>1 DEF SessionInv, LltInv, LltWritten, FwSteps
<1>5. GrantInv'
  BY <1>1 DEF GrantInv, FwSteps
<1>6. BandInv'
  BY <1>0, <1>1 DEF SessionInv, BandInv, FwSteps
<1> QED BY <1>2, <1>3, <1>4, <1>5, <1>6, SamePhase

(* Every step of the firmware phase runs in the phase and spares the others. *)
LEMMA FirmwareFrame ==
  ASSUME SessionInv, Firmware
  PROVE  /\ status = "running" /\ step \in FwSteps /\ UNCHANGED <<config, warm>>
         /\ UNCHANGED <<cr, llt, grant, bandMark, bandRegs>>
<1> USE DEF Do, At, Try, Only, Untouched, adapterVars, InSession, SetMcu, FwSteps
<1>1. CASE FwPreflight \/ FwPreflightReset \/ FwEnable \/ FwBegin
  BY <1>1 DEF FwPreflight, FwPreflightReset, FwEnable, FwBegin, Reset8051
<1>2. CASE FwPage \/ FwChecksum \/ FwDisable \/ FwReady
  BY <1>2 DEF FwPage, FwChecksum, FwDisable, FwReady
<1>3. CASE FwReset \/ FwPoll
  BY <1>3 DEF FwReset, FwPoll, Reset8051, Refuse
<1> QED BY <1>1, <1>2, <1>3 DEF Firmware

LEMMA FirmwareStep ==
  ASSUME SessionInv, Firmware
  PROVE  SessionInv'
<1>0. /\ status = "running" /\ step \in FwSteps /\ UNCHANGED <<config, warm>>
      /\ UNCHANGED <<cr, llt, grant, bandMark, bandRegs>>
  BY FirmwareFrame
<1>1. /\ InitType /\ StepInv /\ at = FwAt /\ at \in 2..3 /\ i \in Nat
      /\ llt' = [e \in Entries |-> llt'[e]]
  BY <1>0, FirmwarePosition DEF SessionInv, StepInv, InitType
<1>f. CASE Fail
  BY <1>0, <1>1, <1>f, FailKeeps
<1> USE DEF Do, At, Try, GoTo
<1>2. CASE FwPreflight
  BY <1>0, <1>2, <1>f, FirmwareStay DEF FwPreflight, FwSteps
<1>3. CASE FwPreflightReset
  BY <1>0, <1>3, <1>f, FirmwareStay DEF FwPreflightReset, FwSteps
<1>4. CASE FwEnable
  BY <1>0, <1>4, <1>f, FirmwareStay DEF FwEnable, FwSteps
<1>5. CASE FwBegin
  BY <1>0, <1>5, <1>f, FirmwareStay DEF FwBegin, FwSteps
<1>6. CASE FwPage
  <2>1. CASE FwPageGoOn
    <3>1. step' \in {"fw_checksum", "fw_page"} /\ i' \in Nat /\ status' = status /\ at' = at
      BY <1>1, <2>1 DEF FwPageGoOn
    <3> QED BY <1>0, <3>1, FirmwareStay DEF FwSteps
  <2> QED BY <1>6, <1>f, <2>1 DEF FwPage
<1>7. CASE FwChecksum
  <2>1. CASE Code = "new" /\ step' = "fw_disable" /\ UNCHANGED image
    <3>1. Code' = Code
      BY <2>1 DEF Code
    <3>2. i' = 0 /\ status' = status /\ at' = at
      BY <1>7 DEF FwChecksum
    <3> QED BY <1>0, <2>1, <3>1, <3>2, FirmwareStay DEF FwSteps
  <2>2. CASE step' \in {"fw_begin", "fw_disable"} /\ verified' = FALSE
    <3>1. i' = 0 /\ status' = status /\ at' = at
      BY <1>7 DEF FwChecksum
    <3> QED BY <1>0, <2>2, <3>1, FirmwareStay DEF FwSteps
  <2> QED BY <1>7, <2>1, <2>2 DEF FwChecksum, SetMcu, Only
<1>8. CASE FwDisable
  <2>1. CASE verified /\ GoTo("fw_ready", 0) /\ mcu' = mcu \ {"EN", "CHKSUM"} /\ UNCHANGED image
    <3>1. Code' = Code /\ Code = "new"
      BY <1>8, <2>1 DEF Code, FwDisable, SessionInv, FirmwareInv
    <3> QED BY <1>0, <2>1, <3>1, FirmwareStay DEF FwSteps
  <2> QED BY <1>8, <1>f, <2>1 DEF FwDisable, SetMcu, Only
<1>9. CASE FwReady
  <2>1. CASE /\ GoTo("fw_reset", 0) /\ UNCHANGED image
             /\ mcu' = (mcu \ {"WINTINI", "CHKSUM"}) \cup {"RDY"}
    <3>1. Code' = Code /\ Code = "new" /\ "EN" \notin mcu
      BY <1>9, <2>1 DEF Code, FwReady, SessionInv, FirmwareInv
    <3> QED BY <1>0, <2>1, <3>1, FirmwareStay DEF FwSteps
  <2> QED BY <1>9, <1>f, <2>1 DEF FwReady, SetMcu, Only
<1>10. CASE FwReset
  <2>1. CASE GoTo("fw_poll", 0) /\ Reset8051
    <3>1. Code = "new" /\ "EN" \notin mcu /\ "RDY" \in mcu
      BY <1>10 DEF FwReset, SessionInv, FirmwareInv
    <3>2. cpu' = "new" /\ mcu' = mcu \cup {"RAM", "WINTINI"}
      BY <2>1, <3>1 DEF Reset8051, Only
    <3>3. FwGood'
      BY <3>1, <3>2 DEF FwGood
    <3> QED BY <1>0, <2>1, <3>3, FirmwareStay DEF FwSteps
  <2> QED BY <1>10, <1>f, <2>1 DEF FwReset
<1>11. CASE FwPoll
  <2>1. CASE Untouched /\ PhaseDone
    <3>1. cr /\ FwGood
      BY <1>0, <1>1, <1>11 DEF FwPoll, Refuse, SessionInv, FirmwareInv, Past
    <3>2. FwGood' /\ cr'
      BY <2>1, <3>1 DEF FwGood, Untouched, adapterVars
    <3>3. at >= LltAt => LltWritten(LAST_ENTRY + 1)'
      BY <1>0, <1>1, FirmwarePosition DEF SessionInv, LltInv, LltWritten, Past
    <3>4. ~warm => bandMark' = "2G"
      BY <1>0, <1>1 DEF SessionInv, BandInv
    <3> QED BY <1>0, <1>1, <2>1, <3>2, <3>3, <3>4, Advance
  <2> QED BY <1>11, <1>f, <2>1 DEF FwPoll, Refuse
<1> QED
  BY <1>2, <1>3, <1>4, <1>5, <1>6, <1>7, <1>8, <1>9, <1>10, <1>11 DEF Firmware

LEMMA LltStep ==
  ASSUME SessionInv, Llt
  PROVE  SessionInv'
<1>0. /\ status = "running" /\ step = "llt" /\ UNCHANGED <<config, warm>>
      /\ UNCHANGED <<cr, mcu, cpu, image, grant, bandMark, bandRegs>>
  BY DEF Llt, Checked, Refuse, Do, At, Try, Only, Untouched, adapterVars, InSession
<1>1. /\ InitType /\ StepInv /\ at = LltAt /\ at \in 2..3 /\ i \in Entries /\ LltWritten(i)
      /\ LAST_ENTRY \in Nat
  BY <1>0, FirmwarePosition, InitConstants DEF SessionInv, StepInv, LltInv
<1>2. llt' = llt \/ llt' = [llt EXCEPT ![i] = LltData(i)]
  BY DEF Llt, Checked, Refuse, Do, At, Try, Only, Untouched, adapterVars
<1>3. llt' = [e \in Entries |-> llt'[e]]
  BY <1>1, <1>2 DEF InitType
<1>4. CASE Fail
  BY <1>0, <1>3, <1>4, FailKeeps
<1>5. CASE llt' = [llt EXCEPT ![i] = LltData(i)] /\ i = LAST_ENTRY /\ PhaseDone
  <2>1. LltWritten(LAST_ENTRY + 1)'
    BY <1>1, <1>5 DEF LltWritten, Entries, InitType, LltData, EndOfList
  <2>2. cr' /\ (at >= FwAt => FwGood')
    BY <1>0, <1>1, FirmwarePosition DEF SessionInv, FirmwareInv, FwGood, Past
  <2>3. ~warm => bandMark' = "2G"
    BY <1>0, <1>1 DEF SessionInv, BandInv
  <2> QED BY <1>0, <1>1, <1>3, <1>5, <2>1, <2>2, <2>3, Advance
<1>6. CASE llt' = [llt EXCEPT ![i] = LltData(i)] /\ i # LAST_ENTRY /\ GoTo("llt", i + 1)
  <2>1. step' = "llt" /\ i' = i + 1 /\ status' = status /\ at' = at /\ verified' = verified
    BY <1>6 DEF GoTo
  <2>2. i' \in Entries /\ i' \in Nat
    BY <1>1, <1>6, <2>1 DEF Entries
  <2>3. LltWritten(i)'
    BY <1>1, <1>6, <2>1 DEF LltWritten, Entries, InitType, LltData, EndOfList
  <2>4. /\ Past(1)' = Past(1) /\ Past(FwAt)' = Past(FwAt) /\ ~Past(LltAt)' /\ ~Past(7)' /\ ~Past(10)'
    BY <1>0, <1>1, <2>1 DEF Past, FwAt, LltAt
  <2>5. FirmwareInv'
    BY <1>0, <2>1, <2>4 DEF SessionInv, FirmwareInv, FwGood
  <2>6. LltInv' /\ GrantInv'
    BY <2>1, <2>2, <2>3, <2>4 DEF LltInv, GrantInv
  <2>7. BandInv'
    BY <1>0, <1>1, <2>1, <2>4 DEF SessionInv, BandInv
  <2> QED BY <1>0, <1>3, <2>1, <2>2, <2>5, <2>6, <2>7, SamePhase
<1> QED
  BY <1>4, <1>5, <1>6 DEF Llt, Checked, Refuse, Do, At, Try, Only

(* The phases of one step that later phases only need to have run. *)
LEMMA PlainStep ==
  ASSUME SessionInv, MacTable \/ QueueDma \/ Mac \/ Bb \/ Rf \/ TxSchedulerTail
  PROVE  SessionInv'
<1> USE DEF MacTable, QueueDma, Mac, Bb, Rf, TxSchedulerTail, Checked, Refuse, Do, At, Try, Only,
            Untouched, adapterVars, InSession
<1>0. /\ status = "running" /\ UNCHANGED <<config, warm, cr, mcu, cpu, llt, grant, bandMark>>
      /\ step \in {"mac_table", "queue_dma", "mac", "bb", "rf", "tail"}
  OBVIOUS
<1>1. at \in {4, 5, 6, 8, 9, 11} /\ llt' = [e \in Entries |-> llt'[e]]
  BY <1>0 DEF SessionInv, StepInv, InitType
<1>2. at = 11 => UNCHANGED bandRegs
  BY <1>0 DEF SessionInv, StepInv
<1>3. CASE Fail
  BY <1>0, <1>1, <1>3, FailKeeps
<1>4. CASE PhaseDone
  <2>1. at \notin {1, FwAt, LltAt, 7, 10}
    BY <1>1, FirmwarePosition
  <2> QED BY <1>0, <1>2, <1>4, <2>1, PlainAdvance
<1> QED BY <1>3, <1>4

LEMMA MacAddrStep ==
  ASSUME SessionInv, MacAddr
  PROVE  SessionInv'
<1>0. /\ status = "running" /\ UNCHANGED <<config, warm, cr, mcu, cpu, image, llt, bandMark, bandRegs>>
      /\ step \in EfuseSteps
  BY DEF MacAddr, EfuseOn, EfuseClock, EfuseReadByte, EfuseOff, ProgramMacId, Do, At, Try, Only,
         Untouched, adapterVars, InSession, EfuseSteps
<1>1. /\ InitType /\ StepInv /\ at = 7 /\ i \in Nat /\ llt' = [e \in Entries |-> llt'[e]]
  BY <1>0 DEF SessionInv, StepInv, InitType
<1>2. CASE Fail
  BY <1>0, <1>1, <1>2, FailKeeps
<1>3. CASE /\ step' \in EfuseSteps /\ i' \in Nat /\ status' = status /\ at' = at
           /\ (step' = "macid") => ~grant'
  <2>1. /\ Past(1)' = Past(1) /\ Past(FwAt)' = Past(FwAt) /\ Past(LltAt)' = Past(LltAt)
        /\ ~Past(7)' /\ ~Past(10)'
    BY <1>0, <1>1, <1>3 DEF Past, FwAt, LltAt
  <2>2. FirmwareInv'
    BY <1>0, <1>3, <2>1 DEF SessionInv, FirmwareInv, FwGood, EfuseSteps
  <2>3. LltInv' /\ GrantInv'
    BY <1>0, <1>3, <2>1 DEF SessionInv, LltInv, LltWritten, GrantInv, EfuseSteps
  <2>4. BandInv'
    BY <1>0, <1>1, <1>3, <2>1 DEF SessionInv, BandInv, EfuseSteps
  <2> QED BY <1>0, <1>1, <1>3, <2>2, <2>3, <2>4, SamePhase
<1>4. CASE step = "macid" /\ PhaseDone /\ Untouched
  <2>1. cr' /\ FwGood' /\ LltWritten(LAST_ENTRY + 1)'
    BY <1>0, <1>1, FirmwarePosition
       DEF SessionInv, FirmwareInv, FwGood, LltInv, LltWritten, Past
  <2>2. ~grant' /\ (~warm => bandMark' = "2G")
    BY <1>0, <1>1, <1>4 DEF SessionInv, GrantInv, BandInv, Untouched, adapterVars
  <2> QED BY <1>0, <1>1, <1>4, <2>1, <2>2, Advance
<1> USE DEF Do, At, Try, GoTo, EfuseSteps
<1>5. CASE EfuseOn \/ EfuseClock
  BY <1>2, <1>3, <1>5 DEF EfuseOn, EfuseClock
<1>6. CASE EfuseReadByte
  BY <1>1, <1>2, <1>3, <1>6 DEF EfuseReadByte
<1>7. CASE EfuseOff
  BY <1>2, <1>3, <1>7 DEF EfuseOff, Only
<1>8. CASE ProgramMacId
  BY <1>2, <1>4, <1>8 DEF ProgramMacId
<1> QED BY <1>5, <1>6, <1>7, <1>8 DEF MacAddr

LEMMA ChannelStep ==
  ASSUME SessionInv, Channel
  PROVE  SessionInv'
<1>0. /\ status = "running" /\ UNCHANGED <<config, warm, cr, mcu, cpu, image, llt, grant>>
      /\ step \in ChannelSteps
  BY DEF Channel, ChannelStart, BandMark, BandRegs, ChannelRest, Checked, Refuse, Do, At, Try, Only,
         Untouched, adapterVars, InSession, ChannelSteps
<1>1. /\ InitType /\ StepInv /\ at = 10 /\ llt' = [e \in Entries |-> llt'[e]]
      /\ config.band \in {"2G", "5G"}
  BY <1>0, InitConstants DEF SessionInv, StepInv, InitType, ConfigType
<1>2. CASE Fail
  BY <1>0, <1>1, <1>2, FailKeeps
<1>3. CASE /\ step' \in ChannelSteps \ {"chan"} /\ i' = 0 /\ status' = status /\ at' = at
           /\ (step' = "chan_rest") => BandGood'
           /\ (step' = "band_regs") /\ config.band = "5G" => bandMark' = "5G"
  <2>1. /\ Past(1)' = Past(1) /\ Past(FwAt)' = Past(FwAt) /\ Past(LltAt)' = Past(LltAt)
        /\ Past(7)' = Past(7) /\ ~Past(10)'
    BY <1>0, <1>1, <1>3 DEF Past, FwAt, LltAt
  <2>2. FirmwareInv'
    BY <1>0, <1>3, <2>1 DEF SessionInv, FirmwareInv, FwGood, ChannelSteps
  <2>3. LltInv' /\ GrantInv'
    BY <1>0, <1>3, <2>1 DEF SessionInv, LltInv, LltWritten, GrantInv, ChannelSteps
  <2>4. BandInv'
    BY <1>0, <1>1, <1>3, <2>1 DEF BandInv, ChannelSteps
  <2> QED BY <1>0, <1>1, <1>3, <2>2, <2>3, <2>4, SamePhase
<1>4. CASE step = "chan_rest" /\ PhaseDone /\ Untouched
  <2>1. cr' /\ FwGood' /\ LltWritten(LAST_ENTRY + 1)'
    BY <1>0, <1>1, FirmwarePosition
       DEF SessionInv, FirmwareInv, FwGood, LltInv, LltWritten, Past
  <2>2. ~grant' /\ BandGood'
    BY <1>0, <1>1, <1>4 DEF SessionInv, GrantInv, BandInv, Past, BandGood, Untouched, adapterVars
  <2> QED BY <1>0, <1>1, <1>4, <2>1, <2>2, Advance
<1> USE DEF Do, At, Try, GoTo, ChannelSteps
<1>5. CASE ChannelStart
  <2>1. CASE Untouched /\ ~Fail
    <3>1. step = "chan" /\ bandMark' = bandMark /\ bandRegs' = bandRegs
      BY <1>5, <2>1 DEF ChannelStart, Checked, Refuse, Untouched, adapterVars
    <3>2. ~warm => bandMark = "2G"
      BY <1>0, <3>1 DEF SessionInv, BandInv
    <3>3. bandMark = config.band => BandGood'
      BY <1>0, <3>1, <3>2 DEF BandGood
    <3> QED BY <1>1, <1>3, <1>5, <2>1, <3>1, <3>3 DEF ChannelStart, Checked, Refuse
  <2> QED BY <1>2, <1>5, <2>1 DEF ChannelStart, Checked, Refuse
<1>6. CASE BandMark
  <2>1. CASE Only(bandMark' = config.band, "mark") /\ ~Fail
    <3>1. bandMark' = config.band
      BY <2>1 DEF Only
    <3>2. config.band = "2G" => BandGood'
      BY <1>0, <3>1 DEF BandGood
    <3> QED BY <1>1, <1>3, <1>6, <2>1, <3>1, <3>2 DEF BandMark
  <2> QED BY <1>2, <1>6, <2>1 DEF BandMark
<1>7. CASE BandRegs
  <2>1. CASE Only(bandRegs' = config.band /\ UNCHANGED bbReady, "bb") /\ ~Fail
    <3>1. bandRegs' = config.band /\ bandMark' = bandMark
      BY <2>1 DEF Only
    <3>2. config.band = "5G" => BandGood'
      BY <1>0, <1>7, <3>1 DEF BandRegs, BandGood, SessionInv, BandInv
    <3> QED BY <1>1, <1>3, <1>7, <2>1, <3>1, <3>2 DEF BandRegs
  <2> QED BY <1>2, <1>7, <2>1 DEF BandRegs
<1>8. CASE ChannelRest
  BY <1>2, <1>4, <1>8 DEF ChannelRest
<1> QED BY <1>5, <1>6, <1>7, <1>8 DEF Channel

LEMMA PhaseStep ==
  ASSUME SessionInv, Phase
  PROVE  SessionInv'
BY PowerOnStep, FirmwareStep, LltStep, PlainStep, MacAddrStep, ChannelStep DEF Phase

(* A new session promises nothing until its phases have run. *)
LEMMA NewSessionStep ==
  ASSUME SessionInv, NewSession(NeedsAuthorization(profile))
  PROVE  SessionInv'
<1>1. /\ config' = config /\ i' = 0
      /\ \/ status' = "failed" /\ at' = 0 /\ step' = "none"
         \/ status' = "running" /\ at' = 1 /\ step' = "cr_clear"
  BY DEF NewSession, Start, FirstStep
<1>2. llt' = llt \/ llt' = [e \in Entries |-> EndOfList]
  BY DEF NewSession, PowerCycle
<1>3. InitType'
  BY <1>1, <1>2 DEF SessionInv, InitType
<1>4. StepInv'
  BY <1>1 DEF StepInv, FwSteps, EfuseSteps, ChannelSteps
<1>5. ~Past(1)' /\ ~Past(FwAt)' /\ ~Past(LltAt)' /\ ~Past(7)' /\ ~Past(10)'
  BY <1>1 DEF Past, FwAt, LltAt
<1>6. FirmwareInv' /\ LltInv' /\ GrantInv'
  BY <1>1, <1>5 DEF FirmwareInv, LltInv, GrantInv
<1>7. BandInv'
  BY <1>1, <1>5 DEF BandInv, NewSession, PowerCycle
<1> QED BY <1>3, <1>4, <1>6, <1>7 DEF SessionInv

LEMMA SessionSame ==
  ASSUME SessionInv, UNCHANGED initializationVars
  PROVE  SessionInv'
<1> USE DEF initializationVars, initVars, adapterVars
<1>1. FwAt' = FwAt /\ LltAt' = LltAt
  BY DEF FwAt, LltAt
<1>2. /\ Past(1)' = Past(1) /\ Past(FwAt)' = Past(FwAt) /\ Past(LltAt)' = Past(LltAt)
      /\ Past(7)' = Past(7) /\ Past(10)' = Past(10)
  BY <1>1 DEF Past
<1>3. InitType' /\ StepInv'
  BY <1>1 DEF SessionInv, InitType, StepInv
<1>4. FirmwareInv'
  BY <1>2 DEF SessionInv, FirmwareInv, FwGood, Code
<1>5. LltInv' /\ GrantInv' /\ BandInv'
  BY <1>2 DEF SessionInv, LltInv, LltWritten, GrantInv, BandInv, BandGood
<1> QED BY <1>3, <1>4, <1>5 DEF SessionInv

LEMMA SessionStep ==
  ASSUME SessionInv, [Next]_vars
  PROVE  SessionInv'
<1>1. CASE Initialize
  BY <1>1, PhaseStep DEF Initialize
<1>2. CASE Restart
  BY <1>2, NewSessionStep DEF Restart
<1>3. CASE \/ InitDone \/ MonitorOpmode \/ TxPowerControl \/ CalibrationProfile \/ Gate
           \/ TxPowerAgain \/ RxStartupKick \/ UNCHANGED vars
  <2>1. UNCHANGED initializationVars
    BY <1>3 DEF InitDone, MonitorOpmode, TxPowerControl, CalibrationProfile, Gate, TxPowerAgain,
                RxStartupKick, Stage, vars
  <2> QED BY <2>1, SessionSame
<1> QED BY <1>1, <1>2, <1>3 DEF Next

LEMMA SessionInit == Init => SessionInv
<1> SUFFICES ASSUME Init PROVE SessionInv
  OBVIOUS
<1>1. /\ config \in Configs /\ i = 0 /\ llt = [e \in Entries |-> EndOfList] /\ bandMark = "2G"
      /\ \/ status = "failed" /\ at = 0 /\ step = "none"
         \/ status = "running" /\ at = 1 /\ step = "cr_clear"
  BY DEF Init, ColdAdapter, FirstStep
<1>2. InitType /\ StepInv
  BY <1>1 DEF InitType, StepInv, FwSteps, EfuseSteps, ChannelSteps
<1>3. ~Past(1) /\ ~Past(FwAt) /\ ~Past(LltAt) /\ ~Past(7) /\ ~Past(10)
  BY <1>1 DEF Past, FwAt, LltAt
<1>4. FirmwareInv /\ LltInv /\ GrantInv /\ BandInv
  BY <1>1, <1>3 DEF FirmwareInv, LltInv, GrantInv, BandInv
<1> QED BY <1>2, <1>4 DEF SessionInv

LEMMA SessionInvariant == Spec => []SessionInv
BY SessionInit, SessionStep, PTL DEF Spec

-----------------------------------------------------------------------------
(* Following the link table. *)

(* What Follow computes, as a recurrence. *)
LEMMA FollowRecurrence ==
  ASSUME NEW from \in Entries, \A e \in Entries : llt[e] \in 0..EndOfList
  PROVE  /\ Follow(from)[0] = from
         /\ \A n \in 1..LAST_ENTRY + 1 :
              Follow(from)[n] = IF Follow(from)[n - 1] = EndOfList THEN EndOfList
                                ELSE llt[Follow(from)[n - 1]]
<1> DEFINE S == 0..EndOfList
           G == [p \in S |-> IF p = EndOfList THEN EndOfList ELSE llt[p]]
           K == LAST_ENTRY + 1
<1>0. LAST_ENTRY \in Nat /\ K \in Nat /\ from \in S /\ EndOfList \in S
  BY InitConstants DEF Entries, EndOfList
<1>1. G \in [S -> S]
  <2>1. ASSUME NEW p \in S, p # EndOfList PROVE llt[p] \in S
    <3>1. p \in Entries
      BY <1>0, <2>1 DEF Entries, EndOfList
    <3> QED BY <3>1
  <2> QED BY <1>0, <2>1
<1>2. PICK w \in [0..K -> S] : w[0] = from /\ \A n \in 1..K : w[n] = G[w[n - 1]]
  <2> HIDE DEF G, S, K
  <2>1. PICK w : IsWalk(w, K, S, from, G)
    BY <1>0, <1>1, WalkExists
  <2> QED BY <2>1 DEF IsWalk
<1>3. ASSUME NEW n \in 1..K
      PROVE  w[n] = IF w[n - 1] = EndOfList THEN EndOfList ELSE llt[w[n - 1]]
  <2>1. w[n] = G[w[n - 1]] /\ w[n - 1] \in S
    BY <1>0, <1>2
  <2> QED BY <2>1
<1>4. w = [n \in 0..K |-> IF n = 0 THEN from
                          ELSE IF w[n - 1] = EndOfList THEN EndOfList ELSE llt[w[n - 1]]]
  <2>1. ASSUME NEW n \in 0..K
        PROVE  w[n] = IF n = 0 THEN from
                      ELSE IF w[n - 1] = EndOfList THEN EndOfList ELSE llt[w[n - 1]]
    <3>1. CASE n = 0
      BY <1>2, <3>1
    <3>2. CASE n # 0
      <4>1. n \in 1..K
        BY <1>0, <3>2
      <4> QED BY <1>3, <3>2, <4>1
    <3> QED BY <3>1, <3>2
  <2>2. w = [n \in 0..K |-> w[n]]
    BY <1>2
  <2> QED BY <2>1, <2>2
<1> DEFINE f == Follow(from)
<1>5. f = CHOOSE g : g = [n \in 0..K |-> IF n = 0 THEN from
                                         ELSE IF g[n - 1] = EndOfList THEN EndOfList
                                              ELSE llt[g[n - 1]]]
  BY DEF Follow
<1>6. \E g : g = [n \in 0..K |-> IF n = 0 THEN from
                                 ELSE IF g[n - 1] = EndOfList THEN EndOfList ELSE llt[g[n - 1]]]
  BY <1>4
<1>7. f = [n \in 0..K |-> IF n = 0 THEN from
                          ELSE IF f[n - 1] = EndOfList THEN EndOfList ELSE llt[f[n - 1]]]
  <2> HIDE DEF f, K
  <2> QED BY <1>5, <1>6
<1> HIDE DEF f
<1>8. f[0] = from
  BY <1>0, <1>7
<1>9. ASSUME NEW n \in 1..K
      PROVE  f[n] = IF f[n - 1] = EndOfList THEN EndOfList ELSE llt[f[n - 1]]
  <2>1. n \in 0..K /\ n # 0
    BY <1>0
  <2> QED BY <1>7, <2>1
<1> QED BY <1>8, <1>9 DEF f

(* The list part and the ring part of a link table that is written entirely. *)
LEMMA LinkTable ==
  ASSUME LltWritten(LAST_ENTRY + 1)
  PROVE  LinkTableSplits
<1> DEFINE B == TX_PAGE_BOUNDARY_8812
           L == LAST_ENTRY
<1>0. B \in Nat \ {0} /\ L \in Nat /\ B < L
  BY InitConstants
<1>1. ASSUME NEW e \in Entries PROVE llt[e] = LltData(e)
  BY <1>0 DEF LltWritten, Entries
<1>2. ASSUME NEW e \in 0..L PROVE llt[e] = IF e = B - 1 THEN L + 1 ELSE IF e = L THEN B ELSE e + 1
  BY <1>1 DEF LltData, EndOfList, Entries
<1>3. \A e \in Entries : llt[e] \in 0..EndOfList
  BY <1>0, <1>2 DEF Entries, EndOfList
<1>4. 0 \in Entries /\ B \in Entries
  BY <1>0 DEF Entries
<1>5. PICK f : f = Follow(0)
  OBVIOUS
<1>6. PICK r : r = Follow(B)
  OBVIOUS
<1>7. /\ f[0] = 0 /\ r[0] = B
      /\ \A n \in 1..L + 1 : f[n] = IF f[n - 1] = L + 1 THEN L + 1 ELSE llt[f[n - 1]]
      /\ \A n \in 1..L + 1 : r[n] = IF r[n - 1] = L + 1 THEN L + 1 ELSE llt[r[n - 1]]
  BY <1>3, <1>4, <1>5, <1>6, FollowRecurrence DEF EndOfList
<1>8. \A n \in 0..B - 1 : f[n] = n
  <2> DEFINE T == {n \in 0..B - 1 : f[n] = n}
  <2>0. PICK k \in Nat : k = B - 1
    BY <1>0
  <2>1. 0 \in T
    BY <1>0, <1>7
  <2>2. ASSUME NEW n \in 0..k - 1, n \in T PROVE n + 1 \in T
    <3>1. n + 1 \in 1..L + 1 /\ n + 1 \in 0..B - 1 /\ n \in 0..L /\ n # B - 1 /\ n # L
          /\ (n + 1) - 1 = n /\ n # L + 1 /\ f[n] = n
      BY <1>0, <2>0, <2>2
    <3>2. f[n + 1] = llt[n]
      BY <1>7, <3>1
    <3>3. llt[n] = n + 1
      BY <1>2, <3>1
    <3> QED BY <3>1, <3>2, <3>3
  <2> HIDE DEF T
  <2>3. \A n \in 0..k : n \in T
    BY <2>1, <2>2, Reaches
  <2> QED BY <2>0, <2>3 DEF T
<1>9. f[B] = L + 1
  <2>1. B \in 1..L + 1 /\ B - 1 \in 0..B - 1 /\ B - 1 \in 0..L /\ B - 1 # L + 1
    BY <1>0
  <2>2. f[B - 1] = B - 1 /\ llt[B - 1] = L + 1
    BY <1>2, <1>8, <2>1
  <2> QED BY <1>7, <2>1, <2>2
<1>10. \A n \in 0..L - B : r[n] = B + n
  <2> DEFINE T == {n \in 0..L - B : r[n] = B + n}
  <2>0. PICK k \in Nat : k = L - B
    BY <1>0
  <2>1. 0 \in T
    BY <1>0, <1>7
  <2>2. ASSUME NEW n \in 0..k - 1, n \in T PROVE n + 1 \in T
    <3>1. n + 1 \in 1..L + 1 /\ n + 1 \in 0..L - B /\ B + n \in 0..L /\ B + n # B - 1 /\ B + n # L
          /\ (n + 1) - 1 = n /\ B + n # L + 1 /\ r[n] = B + n
      BY <1>0, <2>0, <2>2
    <3>2. r[n + 1] = llt[B + n]
      BY <1>7, <3>1
    <3>3. llt[B + n] = (B + n) + 1
      BY <1>2, <3>1
    <3> QED BY <1>0, <3>1, <3>2, <3>3
  <2> HIDE DEF T
  <2>3. \A n \in 0..k : n \in T
    BY <2>1, <2>2, Reaches
  <2> QED BY <2>0, <2>3 DEF T
<1>11. r[L - B + 1] = B
  <2>1. PICK q \in 1..L + 1 : q = L - B + 1
    BY <1>0
  <2>2. q - 1 \in 0..L - B /\ B + (q - 1) = L /\ L \in 0..L /\ L # L + 1 /\ L # B - 1
    BY <1>0, <2>1
  <2>3. r[q - 1] = L
    BY <1>10, <2>2
  <2>4. llt[L] = B
    BY <1>2, <2>2
  <2> QED BY <1>7, <2>1, <2>2, <2>3, <2>4
<1>12. {f[n] : n \in 0..B - 1} = 0..B - 1
  BY <1>8
<1>13. {r[n] : n \in 0..L - B} = B..L
  <2>1. ASSUME NEW n \in 0..L - B PROVE r[n] \in B..L
    BY <1>0, <1>10
  <2>2. ASSUME NEW p \in B..L PROVE \E n \in 0..L - B : r[n] = p
    <3>1. p - B \in 0..L - B /\ B + (p - B) = p
      BY <1>0
    <3> QED BY <1>10, <3>1
  <2> QED BY <2>1, <2>2
<1> QED BY <1>5, <1>6, <1>9, <1>11, <1>12, <1>13 DEF LinkTableSplits, EndOfList

-----------------------------------------------------------------------------
(* Whatever interrupted sessions left on the adapter, a session that is reported *)
(* ready runs the firmware it downloaded, has closed download mode and EFUSE     *)
(* access, has written the whole link table, and is on its band.                 *)
THEOREM SessionFresh == Spec => []ReadyMeansFresh
<1>1. SessionInv => ReadyMeansFresh
  <2> SUFFICES ASSUME SessionInv, status = "ready" PROVE ReadyMeansFresh
    BY DEF ReadyMeansFresh
  <2>1. cr /\ FwGood /\ LltWritten(LAST_ENTRY + 1) /\ ~grant /\ BandGood
    BY DEF SessionInv, FirmwareInv, LltInv, GrantInv, BandInv, Past
  <2>2. LinkTableSplits
    BY <2>1, LinkTable
  <2> QED BY <2>1, <2>2 DEF ReadyMeansFresh, FwGood, BandGood, FirmwareReady, CrReady
<1> QED BY <1>1, SessionInvariant, PTL

-----------------------------------------------------------------------------
(* The inductive invariant: calibration. *)

Sweeping == {"backup", "restore", "report", "fill"} \cup Destructive
LckStages == {"lck", "lckcont", "lckclean"}
BackupNames == Backed \cup {"page", "txpause", "lck", "chnlbw"}

CalType ==
  /\ reg = [c \in Cells |-> reg[c]]
  /\ bk = [g \in BackupNames |-> bk[g]]
  /\ pos \in Nat \ {0}
  /\ orig = <<AsFound, "C", "run">>

(* Where the flow stands, what the profile runs and what the gate decided. *)
FlowInv ==
  /\ flow \in {"opmode", "power", "profile", "repower", "kick", "live"} => status = "ready"
  /\ flow \in {"init", "opmode", "power"} => stage = "none"
  /\ flow \in {"repower", "kick", "live"} => outcome = "pass"
  /\ stage = "none" => ~unrestored /\ (Past(6) => txpause = "run")

ProfileInv ==
  /\ outcome \in {"none", "pass", "refuse"}
  /\ outcome # "none" <=> stage = "done"
  /\ stage \in Sweeping => profile = "RuntimeIqk"
  /\ stage \in LckStages => profile = "Lck"
  /\ stage = "fill" \/ (outcome = "pass" /\ profile = "RuntimeIqk") =>
       \A s \in DOMAIN stages : stages[s] = "success"

Hssi == <<"hssi", "-">>
Away(g) == <<g, IF Home(g) = "C" THEN "C1" ELSE "C">>

(* Nothing was written into the wrong bank, and LCK's registers are untouched. *)
AwayPre ==
  /\ \A g \in Banked : reg[Away(g)] = "pre"
  /\ reg[<<"lck", "-">>] = "pre" /\ reg[<<"chnlbw", "-">>] = "pre"

AllPre == \A c \in Cells : c # Hssi => reg[c] = "pre"

(* The backup holds what the profile found. *)
BackupGood ==
  /\ \A g \in Backed : g # "hssi" => bk[g] = "pre"
  /\ bk["page"] = "C" /\ bk["txpause"] = "run"

(* The backup before its p-th transfer. *)
BackupAt(p) ==
  /\ AllPre /\ txpause = "run"
  /\ page = IF p \in 7..8 THEN "C1" ELSE "C"
  /\ p > 2 => bk["page"] = "C"
  /\ p > 3 => bk["txpause"] = "run"
  /\ p > 5 => bk["macbb"] = "pre"
  /\ p > 7 => bk["latch"] = "pre"
  /\ p > 9 => bk["afe"] = "pre"
  /\ p > 10 => bk["rfA"] = "pre"
  /\ p > 11 => bk["rfB"] = "pre"

(* A restore without a recorded failure before its p-th transfer. *)
RestoreAt(p) ==
  /\ p \in 2..6 => page = "C"
  /\ p \in 7..8 => page = "C1"
  /\ p \in 9..13 => page = "C"
  /\ p > 2 => reg[HomeCell("rfA")] = bk["rfA"]
  /\ p > 3 => reg[HomeCell("rfB")] = bk["rfB"]
  /\ p > 5 => reg[HomeCell("afe")] = bk["afe"]
  /\ p > 7 => reg[HomeCell("latch")] = bk["latch"]
  /\ p > 10 => reg[HomeCell("macbb")] = bk["macbb"]
  /\ p > 12 => reg[HomeCell("hssi")] = bk["hssi"]
  /\ p > 13 => page = bk["page"]
  /\ p > 14 => txpause = bk["txpause"]

RestoreInv == stage = "restore" /\ restored => RestoreAt(pos)

SetupPage(p) == IF p >= 10 THEN "C1" ELSE "C"
RxPreparePage(p) == IF p = 1 \/ p >= Len(RxPrepareScript) THEN "C1" ELSE "C"

SweepInv ==
  /\ stage = "backup" => BackupAt(pos)
  /\ stage \in Destructive \/ (stage \in {"restore", "report"} /\ restored)
       => AwayPre /\ BackupGood
  /\ stage = "setup" => page = SetupPage(pos)
  /\ stage \in {"txtrigger", "txpoll", "rxtrigger", "rxpoll"} => page = "C1"
  /\ stage = "rxprepare" => page = RxPreparePage(pos)
  /\ stage = "fill" => AllPre /\ txpause = "run" /\ (pos >= 8 => page = "C")

(* The LC tank calibration before its p-th transfer, with and without the pause. *)
OthersPre == \A c \in Cells : c \notin {Hssi, <<"lck", "-">>, <<"chnlbw", "-">>} => reg[c] = "pre"

LckAt(p) ==
  /\ OthersPre /\ page = "C"
  /\ p \notin 7..10 => reg[<<"lck", "-">>] = "pre"
  /\ p \notin 9..12 => reg[<<"chnlbw", "-">>] = "pre"
  /\ p \notin 5..11 => txpause = "run"
  /\ p > 2 => bk["txpause"] = "run"
  /\ p > 5 => bk["lck"] = "pre"
  /\ p > 7 => bk["chnlbw"] = "pre"

LckContAt(p) ==
  /\ OthersPre /\ page = "C" /\ txpause = "run"
  /\ p \notin 6..9 => reg[<<"lck", "-">>] = "pre"
  /\ p \notin 8..10 => reg[<<"chnlbw", "-">>] = "pre"
  /\ p > 4 => bk["lck"] = "pre"
  /\ p > 6 => bk["chnlbw"] = "pre"

LckInv == (stage = "lck" => LckAt(pos)) /\ (stage = "lckcont" => LckContAt(pos))

DoneInv == outcome = "pass" => AllPre /\ page = "C" /\ txpause = "run"

CleanInv == ~unrestored => SweepInv /\ LckInv /\ DoneInv

CalibrationInv ==
  CalType /\ FlowInv /\ ProfileInv /\ RestoreInv /\ RestoredMeansBackup /\ CleanInv

-----------------------------------------------------------------------------
(* What a transfer does. *)

Groups == Banked \cup Unbanked

LEMMA CellFacts ==
  /\ \A g \in Groups : HomeCell(g) \in Cells /\ HomeCell(g)[1] = g
  /\ \A g \in Banked : Away(g) \in Cells /\ Away(g)[1] = g /\ Away(g) # HomeCell(g)
  /\ \A c \in Cells : c[1] \in Groups /\ (c = HomeCell(c[1]) \/ (c[1] \in Banked /\ c = Away(c[1])))
  /\ Hssi = HomeCell("hssi") /\ HomeCell("lck") = <<"lck", "-">>
  /\ HomeCell("chnlbw") = <<"chnlbw", "-">>
BY DEF Groups, Banked, Unbanked, Banks, Cells, HomeCell, Home, Away, Hssi

LEMMA HomeCellsDiffer ==
  ASSUME NEW g \in Groups, NEW h \in Groups, g # h
  PROVE  HomeCell(g) # HomeCell(h)
BY CellFacts

LEMMA HomeNotAway ==
  ASSUME NEW g \in Groups, NEW h \in Banked
  PROVE  HomeCell(g) # Away(h)
BY CellFacts DEF Groups

LEMMA SelectStep ==
  ASSUME NEW b, Effect(Sel(b))
  PROVE  page' = b /\ reg' = reg /\ bk' = bk /\ txpause' = txpause
BY DEF Effect, Sel

LEMMA LookStep ==
  ASSUME Effect(Look)
  PROVE  page' = page /\ reg' = reg /\ bk' = bk /\ txpause' = txpause
BY DEF Effect, Look

LEMMA ReadStep ==
  ASSUME CalType, NEW g \in BackupNames, Effect(Rd(g))
  PROVE  /\ page' = page /\ txpause' = txpause
         /\ \A c \in Cells : c # Hssi => reg'[c] = reg[c]
         /\ \A h \in BackupNames : h # g => bk'[h] = bk[h]
         /\ g = "page" => bk'[g] = page
         /\ g = "txpause" => bk'[g] = txpause
         /\ g \notin {"page", "txpause"} => bk'[g] = reg[Cell(g)]
<1>1. ReadEffect(g)
  BY DEF Effect, Rd
<1>2. DOMAIN reg = Cells /\ DOMAIN bk = BackupNames
  BY DEF CalType
<1> QED BY <1>1, <1>2 DEF ReadEffect, Hssi

(* A write or a restore of a group, in its own bank. *)
LEMMA PutStep ==
  ASSUME CalType, NEW g \in Groups, NEW v, Cell(g) = HomeCell(g), Put(g, v)
  PROVE  /\ reg'[HomeCell(g)] = v
         /\ \A c \in Cells : c # HomeCell(g) => reg'[c] = reg[c]
<1>1. DOMAIN reg = Cells /\ HomeCell(g) \in Cells
  BY CellFacts DEF CalType
<1>2. reg' = [reg EXCEPT ![HomeCell(g)] = v]
  BY DEF Put
<1> QED BY <1>1, <1>2

LEMMA WriteStep ==
  ASSUME CalType, NEW g \in Groups, Cell(g) = HomeCell(g),
         Effect(Wr(g)) \/ Effect(Arm(g))
  PROVE  /\ page' = page /\ txpause' = txpause /\ bk' = bk
         /\ \A c \in Cells : c # HomeCell(g) => reg'[c] = reg[c]
<1>1. WriteEffect(g)
  BY DEF Effect, Wr, Arm
<1>2. g # "txpause" /\ g \notin Filled
  BY DEF Groups, Banked, Unbanked, Filled
<1>3. Put(g, "iqk") /\ page' = page /\ txpause' = txpause /\ bk' = bk
  BY <1>1, <1>2 DEF WriteEffect
<1> QED BY <1>3, PutStep

LEMMA PauseStep ==
  ASSUME Effect(Wr("txpause")) \/ Effect(Arm("txpause"))
  PROVE  page' = page /\ reg' = reg /\ bk' = bk
BY DEF Effect, Wr, Arm, WriteEffect

LEMMA FillStep ==
  ASSUME NEW g \in Filled, Effect(Wr(g))
  PROVE  page' = page /\ reg' = reg /\ bk' = bk /\ txpause' = txpause
BY DEF Effect, Wr, WriteEffect, Filled

LEMMA RestoreStep ==
  ASSUME CalType, NEW g \in Groups, Cell(g) = HomeCell(g),
         Effect(Rs(g)) \/ Effect(Leave(g)) \/ Effect(Take(g))
  PROVE  /\ page' = page /\ txpause' = txpause /\ bk' = bk
         /\ reg'[HomeCell(g)] = bk[g]
         /\ \A c \in Cells : c # HomeCell(g) => reg'[c] = reg[c]
<1>1. RestoreEffect(g)
  BY DEF Effect, Rs, Leave, Take
<1>2. g # "txpause" /\ g # "page"
  BY DEF Groups, Banked, Unbanked
<1>3. Put(g, bk[g]) /\ page' = page /\ txpause' = txpause /\ bk' = bk
  BY <1>1, <1>2 DEF RestoreEffect
<1> QED BY <1>3, PutStep

LEMMA RestorePauseStep ==
  ASSUME Effect(Rs("txpause")) \/ Effect(Take("txpause"))
  PROVE  page' = page /\ reg' = reg /\ bk' = bk /\ txpause' = bk["txpause"]
BY DEF Effect, Rs, Take, RestoreEffect

LEMMA RestorePageStep ==
  ASSUME Effect(Rs("page"))
  PROVE  page' = bk["page"] /\ reg' = reg /\ bk' = bk /\ txpause' = txpause
BY DEF Effect, Rs, RestoreEffect

(* The register file and the backup keep their shape. *)
LEMMA EffectShape ==
  ASSUME CalType, NEW t, t.op \in {"select", "read", "look", "write", "arm", "restore", "leave", "take"},
         Effect(t)
  PROVE  reg' = [c \in Cells |-> reg'[c]] /\ bk' = [g \in BackupNames |-> bk'[g]]
<1>1. reg = [c \in Cells |-> reg[c]] /\ bk = [g \in BackupNames |-> bk[g]]
  BY DEF CalType
<1>2. \/ reg' = reg
      \/ \E c, v : reg' = [reg EXCEPT ![c] = v]
  BY DEF Effect, ReadEffect, WriteEffect, RestoreEffect, Put
<1>3. \/ bk' = bk
      \/ \E g, v : bk' = [bk EXCEPT ![g] = v]
  BY DEF Effect, ReadEffect, WriteEffect, RestoreEffect, Put
<1>4. reg' = [c \in Cells |-> reg'[c]]
  BY <1>1, <1>2
<1>5. bk' = [g \in BackupNames |-> bk'[g]]
  BY <1>1, <1>3
<1> QED BY <1>4, <1>5

-----------------------------------------------------------------------------
(* The backup. *)

(* With every register as found, a read puts what the profile found into the    *)
(* backup; which bank is selected makes no difference.                           *)
LEMMA CleanRead ==
  ASSUME CalType, AllPre, page \in Banks, NEW g \in BackupNames, Effect(Rd(g))
  PROVE  /\ AllPre' /\ page' = page /\ txpause' = txpause
         /\ \A h \in BackupNames : h # g => bk'[h] = bk[h]
         /\ g = "page" => bk'[g] = page
         /\ g = "txpause" => bk'[g] = txpause
         /\ g \notin {"page", "txpause", "hssi"} => bk'[g] = "pre"
<1>1. AllPre'
  BY ReadStep DEF AllPre
<1>2. ASSUME g \notin {"page", "txpause", "hssi"} PROVE bk'[g] = "pre"
  <2>1. Cell(g) \in Cells /\ Cell(g) # Hssi
    BY <1>2 DEF Cell, Cells, Hssi, BackupNames, Backed, Banked, Unbanked
  <2> QED BY <1>2, <2>1, ReadStep DEF AllPre
<1> QED BY <1>1, <1>2, ReadStep

LEMMA BackupStep ==
  ASSUME CalType, NEW p \in 1..11, NEW q, q = p + 1, BackupAt(p), Effect(BackupScript[p])
  PROVE  BackupAt(q)'
<1>0. AllPre /\ page \in Banks
  BY DEF BackupAt, Banks
<1>n. \A g \in {"hssi", "page", "txpause", "macbb", "latch", "afe", "rfA", "rfB"} : g \in BackupNames
  BY DEF BackupNames, Backed, Banked
<1>1. CASE p = 1
  <2>1. Effect(Rd("hssi"))
    BY <1>1 DEF BackupScript
  <2> QED BY <1>0, <1>1, <1>n, <2>1, CleanRead DEF BackupAt
<1>2. CASE p = 2
  <2>1. Effect(Rd("page"))
    BY <1>2 DEF BackupScript
  <2> QED BY <1>0, <1>2, <1>n, <2>1, CleanRead DEF BackupAt
<1>3. CASE p = 3
  <2>1. Effect(Rd("txpause"))
    BY <1>3 DEF BackupScript
  <2> QED BY <1>0, <1>3, <1>n, <2>1, CleanRead DEF BackupAt
<1>4. CASE p = 4
  <2>1. Effect(Sel("C"))
    BY <1>4 DEF BackupScript
  <2> QED BY <1>0, <1>4, <2>1, SelectStep DEF BackupAt, AllPre
<1>5. CASE p = 5
  <2>1. Effect(Rd("macbb"))
    BY <1>5 DEF BackupScript
  <2> QED BY <1>0, <1>5, <1>n, <2>1, CleanRead DEF BackupAt
<1>6. CASE p = 6
  <2>1. Effect(Sel("C1"))
    BY <1>6 DEF BackupScript
  <2> QED BY <1>0, <1>6, <2>1, SelectStep DEF BackupAt, AllPre
<1>7. CASE p = 7
  <2>1. Effect(Rd("latch"))
    BY <1>7 DEF BackupScript
  <2> QED BY <1>0, <1>7, <1>n, <2>1, CleanRead DEF BackupAt
<1>8. CASE p = 8
  <2>1. Effect(Sel("C"))
    BY <1>8 DEF BackupScript
  <2> QED BY <1>0, <1>8, <2>1, SelectStep DEF BackupAt, AllPre
<1>9. CASE p = 9
  <2>1. Effect(Rd("afe"))
    BY <1>9 DEF BackupScript
  <2> QED BY <1>0, <1>9, <1>n, <2>1, CleanRead DEF BackupAt
<1>10. CASE p = 10
  <2>1. Effect(Rd("rfA"))
    BY <1>10 DEF BackupScript
  <2> QED BY <1>0, <1>10, <1>n, <2>1, CleanRead DEF BackupAt
<1>11. CASE p = 11
  <2>1. Effect(Rd("rfB"))
    BY <1>11 DEF BackupScript
  <2> QED BY <1>0, <1>11, <1>n, <2>1, CleanRead DEF BackupAt
<1> QED BY <1>1, <1>2, <1>3, <1>4, <1>5, <1>6, <1>7, <1>8, <1>9, <1>10, <1>11

LEMMA BackupComplete ==
  ASSUME BackupAt(12)
  PROVE  AwayPre /\ BackupGood /\ page = "C"
<1>1. \A g \in Banked : Away(g) # Hssi
  BY DEF Away, Hssi, Banked
<1>2. <<"lck", "-">> \in Cells /\ <<"chnlbw", "-">> \in Cells /\ <<"lck", "-">> # Hssi /\ <<"chnlbw", "-">> # Hssi
  BY DEF Cells, Unbanked, Hssi
<1>3. AwayPre
  BY <1>1, <1>2, CellFacts DEF BackupAt, AwayPre, AllPre
<1>4. BackupGood /\ page = "C"
  BY DEF BackupAt, BackupGood, Backed, Banked
<1> QED BY <1>3, <1>4

-----------------------------------------------------------------------------
(* The destructive stages: every write goes to the bank the group lives in. *)

LEMMA HomeWrite ==
  ASSUME CalType, AwayPre, BackupGood, NEW g \in Backed, Cell(g) = HomeCell(g), Effect(Wr(g))
  PROVE  AwayPre' /\ BackupGood' /\ page' = page
<1>1. g \in Groups /\ g \notin {"lck", "chnlbw"} /\ "lck" \in Groups /\ "chnlbw" \in Groups
  BY DEF Groups, Backed, Banked, Unbanked
<1>2. \A h \in Banked : Away(h) \in Cells /\ Away(h) # HomeCell(g)
  BY <1>1, CellFacts, HomeNotAway
<1>3. /\ <<"lck", "-">> \in Cells /\ <<"chnlbw", "-">> \in Cells
      /\ <<"lck", "-">> # HomeCell(g) /\ <<"chnlbw", "-">> # HomeCell(g)
  BY <1>1, CellFacts
<1>4. AwayPre'
  BY <1>1, <1>2, <1>3, WriteStep DEF AwayPre
<1> QED BY <1>1, <1>4, WriteStep DEF BackupGood

LEMMA SelectKeeps ==
  ASSUME AwayPre, BackupGood, NEW b, Effect(Sel(b))
  PROVE  AwayPre' /\ BackupGood' /\ page' = b
BY SelectStep DEF AwayPre, BackupGood

LEMMA SetupStep ==
  ASSUME CalType, NEW p \in 1..10, NEW q, q = p + 1, AwayPre, BackupGood, page = SetupPage(p),
         Effect(SetupScript[p])
  PROVE  AwayPre' /\ BackupGood' /\ (page = SetupPage(q))'
<1>0. /\ p <= 9 => page = "C" /\ \A g \in {"macbb", "afe", "rfA", "rfB"} : Cell(g) = HomeCell(g) /\ g \in Backed
      /\ p = 10 => page = "C1" /\ Cell("latch") = HomeCell("latch") /\ "latch" \in Backed
      /\ (page = SetupPage(q))' <=> page' = IF p >= 9 THEN "C1" ELSE "C"
  BY DEF SetupPage, Cell, HomeCell, Home, Banked, Backed
<1>1. CASE p \in {1, 4}
  <2>1. Effect(Sel("C"))
    BY <1>1 DEF SetupScript
  <2> QED BY <1>0, <1>1, <2>1, SelectKeeps
<1>2. CASE p = 2
  <2>1. Effect(Wr("txpause"))
    BY <1>2 DEF SetupScript
  <2> QED BY <1>0, <1>2, <2>1, PauseStep DEF AwayPre, BackupGood
<1>3. CASE p \in {3, 8}
  <2>1. Effect(Wr("macbb"))
    BY <1>3 DEF SetupScript
  <2> QED BY <1>0, <1>3, <2>1, HomeWrite
<1>4. CASE p = 5
  <2>1. Effect(Wr("afe"))
    BY <1>4 DEF SetupScript
  <2> QED BY <1>0, <1>4, <2>1, HomeWrite
<1>5. CASE p = 6
  <2>1. Effect(Wr("rfA"))
    BY <1>5 DEF SetupScript
  <2> QED BY <1>0, <1>5, <2>1, HomeWrite
<1>6. CASE p = 7
  <2>1. Effect(Wr("rfB"))
    BY <1>6 DEF SetupScript
  <2> QED BY <1>0, <1>6, <2>1, HomeWrite
<1>7. CASE p = 9
  <2>1. Effect(Sel("C1"))
    BY <1>7 DEF SetupScript
  <2> QED BY <1>0, <1>7, <2>1, SelectKeeps
<1>8. CASE p = 10
  <2>1. Effect(Wr("latch"))
    BY <1>8 DEF SetupScript
  <2> QED BY <1>0, <1>8, <2>1, HomeWrite
<1> QED BY <1>1, <1>2, <1>3, <1>4, <1>5, <1>6, <1>7, <1>8

LEMMA TriggerStep ==
  ASSUME CalType, NEW p, p = 1, AwayPre, BackupGood, page = "C1", Effect(TriggerScript[p])
  PROVE  AwayPre' /\ BackupGood' /\ page' = "C1"
<1>1. Effect(Wr("latch")) /\ "latch" \in Backed /\ Cell("latch") = HomeCell("latch")
  BY DEF TriggerScript, Backed, Banked, Cell, HomeCell, Home
<1> QED BY <1>1, HomeWrite

(* The preparation of the RX one-shot writes one or both RF groups. *)
LEMMA CatFacts ==
  ASSUME NEW S, NEW s \in Seq(S), NEW t \in Seq(S)
  PROVE  /\ s \o t \in Seq(S) /\ Len(s \o t) = Len(s) + Len(t)
         /\ \A k \in 1..Len(s) : (s \o t)[k] = s[k]
         /\ \A k \in Len(s) + 1..Len(s) + Len(t) : (s \o t)[k] = t[k - Len(s)]
OBVIOUS

LEMMA RxPrepareShape ==
  /\ Len(RxPrepareScript) \in 5..7
  /\ RxPrepareScript[1] = Sel("C")
  /\ \A p \in 2..Len(RxPrepareScript) - 2 :
       RxPrepareScript[p] \in {Wr("rfA"), Wr("rfB"), Wr("macbb"), Wr("afe")}
  /\ RxPrepareScript[Len(RxPrepareScript) - 1] = Sel("C1")
  /\ RxPrepareScript[Len(RxPrepareScript)] = Wr("latch")
<1> DEFINE W == {Wr("rfA"), Wr("rfB")}
           All == W \cup {Wr("macbb"), Wr("afe"), Wr("latch"), Sel("C"), Sel("C1")}
           a == IF TxReady("A") THEN <<Wr("rfA")>> ELSE <<>>
           b == IF TxReady("B") THEN <<Wr("rfB")>> ELSE <<>>
           h == <<Sel("C")>>
           u == <<Wr("macbb"), Wr("afe"), Sel("C1"), Wr("latch")>>
<1>1. RxPrepareScript = (h \o (a \o b)) \o u
  BY DEF RxPrepareScript
<1>2. a \in Seq(W) /\ b \in Seq(W) /\ Len(a) \in 0..1 /\ Len(b) \in 0..1
  <2>1. <<>> \in Seq(W) /\ Len(<<>>) = 0
    OBVIOUS
  <2>2. <<Wr("rfA")>> \in Seq(W) /\ Len(<<Wr("rfA")>>) = 1
    OBVIOUS
  <2>3. <<Wr("rfB")>> \in Seq(W) /\ Len(<<Wr("rfB")>>) = 1
    OBVIOUS
  <2> HIDE DEF W
  <2>4. a = <<>> \/ a = <<Wr("rfA")>>
    OBVIOUS
  <2>5. b = <<>> \/ b = <<Wr("rfB")>>
    OBVIOUS
  <2> HIDE DEF a, b
  <2>6. a \in Seq(W) /\ (Len(a) = 0 \/ Len(a) = 1)
    BY <2>1, <2>2, <2>4, Zenon
  <2>7. b \in Seq(W) /\ (Len(b) = 0 \/ Len(b) = 1)
    BY <2>1, <2>3, <2>5, Zenon
  <2> QED BY <2>6, <2>7
<1>3. h \in Seq(All) /\ Len(h) = 1 /\ h[1] = Sel("C")
  OBVIOUS
<1>4. /\ u \in Seq(All) /\ Len(u) = 4
      /\ u[1] = Wr("macbb") /\ u[2] = Wr("afe") /\ u[3] = Sel("C1") /\ u[4] = Wr("latch")
  OBVIOUS
<1> HIDE DEF a, b, h, u
<1>5. PICK r : r = a \o b
  OBVIOUS
<1>6. r \in Seq(W) /\ Len(r) \in 0..2
  BY <1>2, <1>5, CatFacts
<1>7. \A k \in 1..Len(r) : r[k] \in W
  <2> HIDE DEF W
  <2> QED BY <1>6
<1>8. r \in Seq(All)
  <2>1. W \subseteq All
    OBVIOUS
  <2> HIDE DEF W, All
  <2> QED BY <1>6, <2>1
<1> HIDE DEF All
<1>9. PICK v : v = h \o r
  OBVIOUS
<1>10. /\ v \in Seq(All) /\ Len(v) = 1 + Len(r) /\ v[1] = Sel("C")
       /\ \A k \in 2..Len(r) + 1 : v[k] = r[k - 1]
  <2>1. /\ h \o r \in Seq(All) /\ Len(h \o r) = Len(h) + Len(r)
        /\ \A k \in 1..Len(h) : (h \o r)[k] = h[k]
        /\ \A k \in Len(h) + 1..Len(h) + Len(r) : (h \o r)[k] = r[k - Len(h)]
    BY <1>3, <1>8, CatFacts
  <2>2. Len(h) = 1 /\ h[1] = Sel("C") /\ Len(r) \in Nat
    BY <1>3, <1>6
  <2>3. /\ v \in Seq(All) /\ Len(v) = 1 + Len(r)
        /\ \A k \in 1..1 : v[k] = h[k]
        /\ \A k \in 2..1 + Len(r) : v[k] = r[k - 1]
    BY <2>1, <2>2, <1>9
  <2> QED BY <2>2, <2>3
<1>11. PICK x : x = v \o u
  OBVIOUS
<1>12. /\ Len(x) = Len(r) + 5
       /\ \A k \in 1..Len(r) + 1 : x[k] = v[k]
       /\ \A k \in Len(r) + 2..Len(r) + 5 : x[k] = u[k - (Len(r) + 1)]
  <2>1. /\ Len(v \o u) = Len(v) + Len(u)
        /\ \A k \in 1..Len(v) : (v \o u)[k] = v[k]
        /\ \A k \in Len(v) + 1..Len(v) + Len(u) : (v \o u)[k] = u[k - Len(v)]
    <3>1. v \in Seq(All) /\ u \in Seq(All)
      BY <1>4, <1>10
    <3> QED BY <3>1, CatFacts
  <2>2. PICK n \in 0..2 : n = Len(r)
    BY <1>6
  <2>3. Len(v) = n + 1 /\ Len(u) = 4
    BY <1>4, <1>10, <2>2
  <2> QED BY <1>11, <2>1, <2>2, <2>3
<1>13. x = RxPrepareScript
  BY <1>1, <1>5, <1>9, <1>11
<1>14. PICK n \in 0..2 : n = Len(r)
  BY <1>6
<1>15. Len(x) = n + 5 /\ x[1] = Sel("C")
  BY <1>10, <1>12, <1>14
<1>16. x[n + 2] = Wr("macbb") /\ x[n + 3] = Wr("afe") /\ x[n + 4] = Sel("C1") /\ x[n + 5] = Wr("latch")
  BY <1>4, <1>12, <1>14
<1>17. ASSUME NEW p \in 2..n + 3
       PROVE  x[p] \in {Wr("rfA"), Wr("rfB"), Wr("macbb"), Wr("afe")}
  <2>1. CASE p \in 2..n + 1
    <3>1. x[p] = v[p] /\ v[p] = r[p - 1] /\ p - 1 \in 1..Len(r)
      BY <1>10, <1>12, <1>14, <2>1
    <3> QED BY <1>7, <3>1
  <2>2. CASE p \in n + 2..n + 3
    BY <1>16, <2>2
  <2> QED BY <2>1, <2>2
<1> QED BY <1>13, <1>15, <1>16, <1>17

LEMMA RxPrepareStep ==
  ASSUME CalType, NEW n, n = Len(RxPrepareScript), NEW p \in 1..n, AwayPre, BackupGood,
         page = RxPreparePage(p), Effect(RxPrepareScript[p])
  PROVE  AwayPre' /\ BackupGood' /\ page' = IF p >= n - 1 THEN "C1" ELSE "C"
<1>0. /\ n \in 5..7
      /\ p \in 2..n - 1 => page = "C" /\ \A g \in {"macbb", "afe", "rfA", "rfB"} : Cell(g) = HomeCell(g)
      /\ p = n => page = "C1" /\ Cell("latch") = HomeCell("latch")
  BY RxPrepareShape DEF RxPreparePage, Cell, HomeCell, Home, Banked
<1>1. CASE p = 1
  BY <1>0, <1>1, RxPrepareShape, SelectKeeps
<1>2. CASE p \in 2..n - 2
  <2>1. PICK g \in {"rfA", "rfB", "macbb", "afe"} : RxPrepareScript[p] = Wr(g)
    BY <1>2, RxPrepareShape
  <2>2. g \in Backed /\ Cell(g) = HomeCell(g)
    BY <1>0, <1>2 DEF Backed, Banked
  <2> QED BY <1>0, <1>2, <2>1, <2>2, HomeWrite
<1>3. CASE p = n - 1
  <2>1. Effect(Sel("C1"))
    BY <1>3, RxPrepareShape
  <2> QED BY <1>0, <1>3, <2>1, SelectKeeps
<1>4. CASE p = n
  <2>1. Effect(Wr("latch")) /\ "latch" \in Backed
    BY <1>4, RxPrepareShape DEF Backed, Banked
  <2> QED BY <1>0, <1>4, <2>1, HomeWrite
<1> QED BY <1>0, <1>1, <1>2, <1>3, <1>4

-----------------------------------------------------------------------------
(* The restore. *)

(* A restore in the right bank keeps what was restored before, and what was     *)
(* never touched.                                                                *)
LEMMA HomeRestore ==
  ASSUME CalType, NEW g \in Backed, Cell(g) = HomeCell(g), Effect(Rs(g))
  PROVE  /\ page' = page /\ txpause' = txpause /\ bk' = bk
         /\ reg'[HomeCell(g)] = bk[g]
         /\ \A h \in Backed : h # g => reg'[HomeCell(h)] = reg[HomeCell(h)]
         /\ AwayPre => AwayPre'
<1>1. g \in Groups /\ Backed \subseteq Groups /\ g \notin {"lck", "chnlbw"}
  BY DEF Groups, Backed, Banked, Unbanked
<1>2. \A h \in Backed : h # g => HomeCell(h) \in Cells /\ HomeCell(h) # HomeCell(g)
  BY <1>1, CellFacts, HomeCellsDiffer
<1>3. \A h \in Banked : Away(h) \in Cells /\ Away(h) # HomeCell(g)
  BY <1>1, CellFacts, HomeNotAway
<1>4. /\ <<"lck", "-">> \in Cells /\ <<"chnlbw", "-">> \in Cells
      /\ <<"lck", "-">> # HomeCell(g) /\ <<"chnlbw", "-">> # HomeCell(g)
  <2>1. "lck" \in Groups /\ "chnlbw" \in Groups
    BY DEF Groups, Unbanked
  <2> QED BY <1>1, <2>1, CellFacts
<1> QED BY <1>1, <1>2, <1>3, <1>4, RestoreStep DEF AwayPre

LEMMA RestoreTransfer ==
  ASSUME CalType, NEW p \in 1..14, NEW q, q = p + 1, RestoreAt(p), Effect(RestoreScript[p])
  PROVE  RestoreAt(q)' /\ bk' = bk /\ (AwayPre => AwayPre')
<1>0. /\ \A g \in {"rfA", "rfB", "afe", "latch", "macbb", "hssi"} : g \in Backed
      /\ page = "C" => \A g \in {"rfA", "rfB", "afe", "macbb", "hssi"} : Cell(g) = HomeCell(g)
      /\ page = "C1" => Cell("latch") = HomeCell("latch")
  BY DEF Backed, Banked, Cell, HomeCell, Home
<1>1. CASE p \in {1, 4, 8, 11}
  <2>1. Effect(Sel("C"))
    BY <1>1 DEF RestoreScript
  <2> QED BY <1>1, <2>1, SelectStep DEF RestoreAt, AwayPre
<1>2. CASE p = 2
  <2>1. Effect(Rs("rfA"))
    BY <1>2 DEF RestoreScript
  <2> QED BY <1>0, <1>2, <2>1, HomeRestore DEF RestoreAt
<1>3. CASE p = 3
  <2>1. Effect(Rs("rfB"))
    BY <1>3 DEF RestoreScript
  <2> QED BY <1>0, <1>3, <2>1, HomeRestore DEF RestoreAt
<1>4. CASE p = 5
  <2>1. Effect(Rs("afe"))
    BY <1>4 DEF RestoreScript
  <2> QED BY <1>0, <1>4, <2>1, HomeRestore DEF RestoreAt
<1>5. CASE p = 6
  <2>1. Effect(Sel("C1"))
    BY <1>5 DEF RestoreScript
  <2> QED BY <1>5, <2>1, SelectStep DEF RestoreAt, AwayPre
<1>6. CASE p = 7
  <2>1. Effect(Rs("latch"))
    BY <1>6 DEF RestoreScript
  <2> QED BY <1>0, <1>6, <2>1, HomeRestore DEF RestoreAt
<1>7. CASE p \in {9, 14}
  <2>1. Effect(Rs("txpause"))
    BY <1>7 DEF RestoreScript
  <2> QED BY <1>7, <2>1, RestorePauseStep DEF RestoreAt, AwayPre
<1>8. CASE p = 10
  <2>1. Effect(Rs("macbb"))
    BY <1>8 DEF RestoreScript
  <2> QED BY <1>0, <1>8, <2>1, HomeRestore DEF RestoreAt
<1>9. CASE p = 12
  <2>1. Effect(Rs("hssi"))
    BY <1>9 DEF RestoreScript
  <2> QED BY <1>0, <1>9, <2>1, HomeRestore DEF RestoreAt
<1>10. CASE p = 13
  <2>1. Effect(Rs("page"))
    BY <1>10 DEF RestoreScript
  <2> QED BY <1>10, <2>1, RestorePageStep DEF RestoreAt, AwayPre
<1> QED BY <1>1, <1>2, <1>3, <1>4, <1>5, <1>6, <1>7, <1>8, <1>9, <1>10

(* What was restored into untouched banks is what the profile found. *)
LEMMA RestoredClean ==
  ASSUME CalType, AwayPre, BackupGood, \A g \in Backed : reg[HomeCell(g)] = bk[g]
  PROVE  AllPre
<1> SUFFICES ASSUME NEW c \in Cells, c # Hssi PROVE reg[c] = "pre"
  BY DEF AllPre
<1>1. c[1] \in Groups /\ (c = HomeCell(c[1]) \/ (c[1] \in Banked /\ c = Away(c[1])))
  BY CellFacts
<1>2. PICK g \in Groups : g = c[1]
  BY <1>1
<1>3. CASE g \in Banked /\ c = Away(g)
  BY <1>3 DEF AwayPre
<1>4. CASE c = HomeCell(g)
  <2>1. g # "hssi"
    BY <1>4, CellFacts
  <2>2. CASE g \in Backed
    BY <1>4, <2>1, <2>2 DEF BackupGood
  <2>3. CASE g \in {"lck", "chnlbw"}
    BY <1>4, <2>3, CellFacts DEF AwayPre
  <2> QED BY <2>2, <2>3, <1>2, <2>1 DEF Groups, Backed, Unbanked
<1> QED BY <1>1, <1>2, <1>3, <1>4

-----------------------------------------------------------------------------
(* The fill, and the LC tank calibration with and without the pause of TX. *)

LEMMA FillTransfer ==
  ASSUME NEW p \in 1..8, AllPre, txpause = "run", p = 8 => page = "C", Effect(FillScript[p])
  PROVE  AllPre' /\ txpause' = "run" /\ (p >= 7 => page' = "C")
<1>1. CASE p \in {1, 5}
  <2>1. Effect(Sel("C1"))
    BY <1>1 DEF FillScript
  <2> QED BY <1>1, <2>1, SelectStep DEF AllPre
<1>2. CASE p \in {3, 7}
  <2>1. Effect(Sel("C"))
    BY <1>2 DEF FillScript
  <2> QED BY <1>2, <2>1, SelectStep DEF AllPre
<1>3. CASE p \in {2, 4, 6, 8}
  <2>1. PICK g \in Filled : Effect(Wr(g))
    BY <1>3 DEF FillScript, Filled
  <2> QED BY <1>3, <2>1, FillStep DEF AllPre
<1> QED BY <1>1, <1>2, <1>3

LEMMA LckTransfer ==
  ASSUME CalType, NEW p \in 1..14, NEW q, q = p + 1, LckAt(p), Effect(LckScript(TRUE)[p])
  PROVE  LckAt(q)'
<1>0. /\ \A g \in {"txpause", "lck", "chnlbw"} : g \in BackupNames
      /\ \A g \in {"lck", "chnlbw"} : g \in Groups /\ Cell(g) = HomeCell(g) /\ Cell(g) = <<g, "-">>
      /\ <<"lck", "-">> \in Cells /\ <<"chnlbw", "-">> \in Cells
      /\ Hssi # <<"lck", "-">> /\ Hssi # <<"chnlbw", "-">> /\ <<"lck", "-">> # <<"chnlbw", "-">>
  BY DEF BackupNames, Groups, Unbanked, Banked, Cell, HomeCell, Hssi, Cells
<1>1. CASE p = 1
  <2>1. Effect(Look)
    BY <1>1 DEF LckScript
  <2> QED BY <1>1, <2>1, LookStep DEF LckAt, OthersPre
<1>2. CASE p = 2
  <2>1. Effect(Rd("txpause"))
    BY <1>2 DEF LckScript
  <2> QED BY <1>0, <1>2, <2>1, ReadStep DEF LckAt, OthersPre
<1>3. CASE p = 3
  <2>1. Effect(Rd("chnlbw"))
    BY <1>3 DEF LckScript
  <2> QED BY <1>0, <1>3, <2>1, ReadStep DEF LckAt, OthersPre
<1>4. CASE p = 4
  <2>1. Effect(Arm("txpause"))
    BY <1>4 DEF LckScript
  <2> QED BY <1>4, <2>1, PauseStep DEF LckAt, OthersPre
<1>5. CASE p = 5
  <2>1. Effect(Rd("lck"))
    BY <1>5 DEF LckScript
  <2> QED BY <1>0, <1>5, <2>1, ReadStep DEF LckAt, OthersPre
<1>6. CASE p = 6
  <2>1. Effect(Arm("lck"))
    BY <1>6 DEF LckScript
  <2> QED BY <1>0, <1>6, <2>1, WriteStep DEF LckAt, OthersPre
<1>7. CASE p = 7
  <2>1. Effect(Rd("chnlbw"))
    BY <1>7 DEF LckScript
  <2> QED BY <1>0, <1>7, <2>1, ReadStep DEF LckAt, OthersPre
<1>8. CASE p = 8
  <2>1. Effect(Arm("chnlbw"))
    BY <1>8 DEF LckScript
  <2> QED BY <1>0, <1>8, <2>1, WriteStep DEF LckAt, OthersPre
<1>9. CASE p = 9
  <2>1. Effect(Look)
    BY <1>9 DEF LckScript
  <2> QED BY <1>9, <2>1, LookStep DEF LckAt, OthersPre
<1>10. CASE p = 10
  <2>1. Effect(Leave("lck"))
    BY <1>10 DEF LckScript
  <2> QED BY <1>0, <1>10, <2>1, RestoreStep DEF LckAt, OthersPre
<1>11. CASE p = 11
  <2>1. Effect(Take("txpause"))
    BY <1>11 DEF LckScript
  <2> QED BY <1>11, <2>1, RestorePauseStep DEF LckAt, OthersPre
<1>12. CASE p = 12
  <2>1. Effect(Take("chnlbw"))
    BY <1>12 DEF LckScript
  <2> QED BY <1>0, <1>12, <2>1, RestoreStep DEF LckAt, OthersPre
<1>13. CASE p = 13
  <2>1. Effect(Look)
    BY <1>13 DEF LckScript
  <2> QED BY <1>13, <2>1, LookStep DEF LckAt, OthersPre
<1>14. CASE p = 14
  <2>1. Effect(Look)
    BY <1>14 DEF LckScript
  <2> QED BY <1>14, <2>1, LookStep DEF LckAt, OthersPre
<1> QED BY <1>1, <1>2, <1>3, <1>4, <1>5, <1>6, <1>7, <1>8, <1>9, <1>10, <1>11, <1>12, <1>13, <1>14

LEMMA LckContTransfer ==
  ASSUME CalType, NEW p \in 1..12, NEW q, q = p + 1, LckContAt(p), Effect(LckScript(FALSE)[p])
  PROVE  LckContAt(q)'
<1>0. /\ \A g \in {"txpause", "lck", "chnlbw"} : g \in BackupNames
      /\ \A g \in {"lck", "chnlbw"} : g \in Groups /\ Cell(g) = HomeCell(g) /\ Cell(g) = <<g, "-">>
      /\ <<"lck", "-">> \in Cells /\ <<"chnlbw", "-">> \in Cells
      /\ Hssi # <<"lck", "-">> /\ Hssi # <<"chnlbw", "-">> /\ <<"lck", "-">> # <<"chnlbw", "-">>
  BY DEF BackupNames, Groups, Unbanked, Banked, Cell, HomeCell, Hssi, Cells
<1>1. CASE p = 1
  <2>1. Effect(Look)
    BY <1>1 DEF LckScript
  <2> QED BY <1>1, <2>1, LookStep DEF LckContAt, OthersPre
<1>2. CASE p = 2
  <2>1. Effect(Rd("txpause"))
    BY <1>2 DEF LckScript
  <2> QED BY <1>0, <1>2, <2>1, ReadStep DEF LckContAt, OthersPre
<1>3. CASE p = 3
  <2>1. Effect(Rd("chnlbw"))
    BY <1>3 DEF LckScript
  <2> QED BY <1>0, <1>3, <2>1, ReadStep DEF LckContAt, OthersPre
<1>4. CASE p = 4
  <2>1. Effect(Rd("lck"))
    BY <1>4 DEF LckScript
  <2> QED BY <1>0, <1>4, <2>1, ReadStep DEF LckContAt, OthersPre
<1>5. CASE p = 5
  <2>1. Effect(Arm("lck"))
    BY <1>5 DEF LckScript
  <2> QED BY <1>0, <1>5, <2>1, WriteStep DEF LckContAt, OthersPre
<1>6. CASE p = 6
  <2>1. Effect(Rd("chnlbw"))
    BY <1>6 DEF LckScript
  <2> QED BY <1>0, <1>6, <2>1, ReadStep DEF LckContAt, OthersPre
<1>7. CASE p = 7
  <2>1. Effect(Arm("chnlbw"))
    BY <1>7 DEF LckScript
  <2> QED BY <1>0, <1>7, <2>1, WriteStep DEF LckContAt, OthersPre
<1>8. CASE p = 8
  <2>1. Effect(Look)
    BY <1>8 DEF LckScript
  <2> QED BY <1>8, <2>1, LookStep DEF LckContAt, OthersPre
<1>9. CASE p = 9
  <2>1. Effect(Leave("lck"))
    BY <1>9 DEF LckScript
  <2> QED BY <1>0, <1>9, <2>1, RestoreStep DEF LckContAt, OthersPre
<1>10. CASE p = 10
  <2>1. Effect(Take("chnlbw"))
    BY <1>10 DEF LckScript
  <2> QED BY <1>0, <1>10, <2>1, RestoreStep DEF LckContAt, OthersPre
<1>11. CASE p = 11
  <2>1. Effect(Look)
    BY <1>11 DEF LckScript
  <2> QED BY <1>11, <2>1, LookStep DEF LckContAt, OthersPre
<1>12. CASE p = 12
  <2>1. Effect(Look)
    BY <1>12 DEF LckScript
  <2> QED BY <1>12, <2>1, LookStep DEF LckContAt, OthersPre
<1> QED BY <1>1, <1>2, <1>3, <1>4, <1>5, <1>6, <1>7, <1>8, <1>9, <1>10, <1>11, <1>12

LEMMA LckComplete ==
  ASSUME LckAt(15) \/ LckContAt(13)
  PROVE  AllPre /\ page = "C" /\ txpause = "run"
BY DEF LckAt, LckContAt, OthersPre, AllPre

-----------------------------------------------------------------------------
(* Transfers, stage by stage. *)

Scripted ==
  {"backup", "setup", "txtrigger", "rxprepare", "rxtrigger", "restore", "fill", "lck", "lckcont"}

LEMMA ScriptOf ==
  /\ stage = "backup" => Script = BackupScript /\ Len(Script) = 11
  /\ stage = "setup" => Script = SetupScript /\ Len(Script) = 10
  /\ stage \in {"txtrigger", "rxtrigger"} => Script = TriggerScript /\ Len(Script) = 1
  /\ stage = "rxprepare" => Script = RxPrepareScript
  /\ stage = "restore" => Script = RestoreScript /\ Len(Script) = 14
  /\ stage = "fill" => Script = FillScript /\ Len(Script) = 8
  /\ stage = "lck" => Script = LckScript(TRUE) /\ Len(Script) = 14
  /\ stage = "lckcont" => Script = LckScript(FALSE) /\ Len(Script) = 12
  /\ stage \notin Scripted => Len(Script) = 0
<1>1. stage \in {"backup", "setup", "txtrigger", "rxtrigger"} =>
        /\ stage = "backup" => Script = BackupScript /\ Len(Script) = 11
        /\ stage = "setup" => Script = SetupScript /\ Len(Script) = 10
        /\ stage \in {"txtrigger", "rxtrigger"} => Script = TriggerScript /\ Len(Script) = 1
  BY DEF Script, BackupScript, SetupScript, TriggerScript
<1>2. stage = "rxprepare" => Script = RxPrepareScript
  BY DEF Script
<1>3. stage = "restore" => Script = RestoreScript /\ Len(Script) = 14
  BY DEF Script, RestoreScript
<1>4. stage = "fill" => Script = FillScript /\ Len(Script) = 8
  BY DEF Script, FillScript
<1>5. stage = "lck" => Script = LckScript(TRUE) /\ Len(Script) = 14
  BY DEF Script, LckScript
<1>6. stage = "lckcont" => Script = LckScript(FALSE) /\ Len(Script) = 12
  BY DEF Script, LckScript
<1>7. stage \notin Scripted => Len(Script) = 0
  BY DEF Script, Scripted
<1> QED BY <1>1, <1>2, <1>3, <1>4, <1>5, <1>6, <1>7

(* A transfer happens while a script runs, at one of its positions. *)
LEMMA ScriptRuns ==
  ASSUME CalType, Transfer
  PROVE  stage \in Scripted /\ pos \in 1..Len(Script) /\ Len(Script) \in Nat
<1>1. pos <= Len(Script) /\ pos \in Nat \ {0}
  BY DEF Transfer, CalType
<1>2. stage \in Scripted
  BY <1>1, ScriptOf
<1>3. Len(Script) \in Nat
  BY <1>2, ScriptOf, RxPrepareShape DEF Scripted
<1> QED BY <1>1, <1>2, <1>3

Ops == {"select", "read", "look", "write", "arm", "restore", "leave", "take"}

LEMMA ScriptOps ==
  ASSUME CalType, Transfer
  PROVE  Script[pos].op \in Ops
<1> USE DEF Ops, Rd, Sel, Wr, Rs, Look, Arm, Leave, Take
<1>0. stage \in Scripted /\ pos \in 1..Len(Script)
  BY ScriptRuns
<1>1. CASE stage = "backup"
  <2>1. Script = BackupScript /\ pos \in 1..11
    BY <1>0, <1>1, ScriptOf
  <2> QED BY <2>1 DEF BackupScript
<1>2. CASE stage = "setup"
  <2>1. Script = SetupScript /\ pos \in 1..10
    BY <1>0, <1>2, ScriptOf
  <2> QED BY <2>1 DEF SetupScript
<1>3. CASE stage \in {"txtrigger", "rxtrigger"}
  <2>1. Script = TriggerScript /\ pos \in 1..1
    BY <1>0, <1>3, ScriptOf
  <2> QED BY <2>1 DEF TriggerScript
<1>4. CASE stage = "rxprepare"
  <2>1. PICK n \in 5..7 : n = Len(RxPrepareScript)
    BY RxPrepareShape
  <2>2. Script = RxPrepareScript /\ pos \in 1..n
    BY <1>0, <1>4, <2>1, ScriptOf
  <2>3. pos = 1 \/ pos \in 2..n - 2 \/ pos = n - 1 \/ pos = n
    BY <2>2
  <2> QED BY <2>1, <2>2, <2>3, RxPrepareShape
<1>5. CASE stage = "restore"
  <2>1. Script = RestoreScript /\ pos \in 1..14
    BY <1>0, <1>5, ScriptOf
  <2> QED BY <2>1 DEF RestoreScript
<1>6. CASE stage = "fill"
  <2>1. Script = FillScript /\ pos \in 1..8
    BY <1>0, <1>6, ScriptOf
  <2> QED BY <2>1 DEF FillScript
<1>7. CASE stage = "lck"
  <2>1. Script = LckScript(TRUE) /\ pos \in 1..14
    BY <1>0, <1>7, ScriptOf
  <2> QED BY <2>1 DEF LckScript
<1>8. CASE stage = "lckcont"
  <2>1. Script = LckScript(FALSE) /\ pos \in 1..12
    BY <1>0, <1>8, ScriptOf
  <2> QED BY <2>1 DEF LckScript
<1> QED BY <1>0, <1>1, <1>2, <1>3, <1>4, <1>5, <1>6, <1>7, <1>8 DEF Scripted

LEMMA TransferCases ==
  ASSUME Transfer
  PROVE  /\ profile' = profile /\ orig' = orig /\ unrestored' = unrestored /\ sweep' = sweep
         /\ \/ Effect(Script[pos]) /\ GoOn /\ erred' = erred /\ restored' = restored
            \/ (Effect(Script[pos]) \/ NoEffect) /\ AfterFailure
BY DEF Transfer, Try

LEMMA GoOnCases ==
  ASSUME CalType, stage \in Scripted, pos \in 1..Len(Script), Len(Script) \in Nat, GoOn
  PROVE  \/ /\ pos < Len(Script) /\ pos' = pos + 1 /\ stage' = stage
            /\ paths' = paths /\ stages' = stages /\ outcome' = outcome
         \/ pos = Len(Script) /\ AfterScript
BY DEF GoOn

LEMMA TransferType ==
  ASSUME CalType, Transfer
  PROVE  CalType'
<1>1. stage \in Scripted /\ pos \in 1..Len(Script) /\ Len(Script) \in Nat
  BY ScriptRuns
<1>2. reg' = [c \in Cells |-> reg'[c]] /\ bk' = [g \in BackupNames |-> bk'[g]]
  <2>1. CASE Effect(Script[pos])
    BY <2>1, ScriptOps, EffectShape DEF Ops
  <2>2. CASE NoEffect
    BY <2>2 DEF NoEffect, CalType
  <2> QED BY <2>1, <2>2, TransferCases
<1>3. pos' \in Nat \ {0}
  <2>1. ASSUME GoOn PROVE pos' \in Nat \ {0}
    BY <1>1, <2>1, GoOnCases DEF AfterScript, Enter, Decide
  <2>2. ASSUME AfterFailure PROVE pos' \in Nat \ {0}
    BY <2>1, <2>2 DEF AfterFailure, Enter, Decide
  <2> QED BY <2>1, <2>2, TransferCases
<1>4. orig' = <<AsFound, "C", "run">>
  BY TransferCases DEF CalType
<1> QED BY <1>2, <1>3, <1>4 DEF CalType

LEMMA TransferProfile ==
  ASSUME CalType, ProfileInv, outcome = "none", Transfer
  PROVE  ProfileInv' /\ stage' # "none"
<1>1. stage \in Scripted /\ pos \in 1..Len(Script) /\ Len(Script) \in Nat /\ profile' = profile
  BY ScriptRuns, TransferCases
<1>2. CASE GoOn
  <2>1. CASE pos' = pos + 1 /\ stage' = stage /\ stages' = stages /\ outcome' = outcome
    BY <1>1, <2>1 DEF ProfileInv, Scripted
  <2>2. CASE AfterScript
    BY <1>1, <2>2 DEF AfterScript, Enter, Decide, ProfileInv, Scripted, Sweeping, Destructive, LckStages
  <2> QED BY <1>1, <1>2, <2>1, <2>2, GoOnCases
<1>3. CASE AfterFailure /\ ~GoOn
  BY <1>1, <1>3 DEF AfterFailure, Enter, Decide, ProfileInv, Scripted, Sweeping, Destructive, LckStages
<1> QED BY <1>1, <1>2, <1>3, TransferCases

LEMMA TransferRestore ==
  ASSUME CalType, RestoreInv, Transfer
  PROVE  RestoreInv' /\ RestoredMeansBackup'
<1>1. stage \in Scripted /\ pos \in 1..Len(Script) /\ Len(Script) \in Nat
  BY ScriptRuns
<1>2. CASE stage = "restore" /\ restored'
  <2>1. Script = RestoreScript /\ Len(Script) = 14 /\ pos \in 1..14
    BY <1>1, <1>2, ScriptOf
  <2>2. Effect(Script[pos]) /\ GoOn /\ restored
    BY <1>2, TransferCases DEF AfterFailure, NoteRestoreFailure, Destructive
  <2>3. PICK p \in 1..14 : p = pos
    BY <2>1
  <2>4. PICK q \in 2..15 : q = p + 1
    BY <2>3
  <2>5. RestoreAt(p)
    BY <1>2, <2>2, <2>3 DEF RestoreInv
  <2>6. RestoreAt(q)'
    BY <2>1, <2>2, <2>3, <2>4, <2>5, RestoreTransfer
  <2>7. CASE pos < 14 /\ pos' = pos + 1 /\ stage' = "restore"
    <3>1. q = pos'
      BY <2>3, <2>4, <2>7
    <3>2. RestoreAt(pos)'
      BY <2>6, <3>1
    <3> QED BY <2>7, <3>2 DEF RestoreInv, RestoredMeansBackup
  <2>8. CASE pos = 14 /\ AfterScript
    <3>1. stage' = "report" /\ q = 15
      BY <1>2, <2>3, <2>4, <2>8 DEF AfterScript, Enter
    <3>2. RestoreAt(15)'
      BY <2>6, <3>1
    <3>3. (\A g \in Backed : reg[HomeCell(g)] = bk[g])'
      BY <3>2 DEF RestoreAt, Backed, Banked
    <3>4. (page = bk["page"] /\ txpause = bk["txpause"])'
      BY <3>2 DEF RestoreAt
    <3> QED BY <3>1, <3>3, <3>4 DEF RestoreInv, RestoredMeansBackup
  <2> QED BY <1>1, <1>2, <2>1, <2>2, <2>7, <2>8, GoOnCases
<1>3. CASE stage # "restore"
  <2>1. stage' # "report" /\ (stage' = "restore" => pos' = 1)
    <3>1. CASE GoOn
      BY <1>1, <1>3, <3>1, GoOnCases DEF AfterScript, Enter, Decide, Scripted
    <3>2. CASE AfterFailure
      BY <1>3, <3>2 DEF AfterFailure, Enter, Decide
    <3> QED BY <3>1, <3>2, TransferCases
  <2> QED BY <2>1 DEF RestoreInv, RestoredMeansBackup, RestoreAt
<1>4. CASE ~restored'
  BY <1>4 DEF RestoreInv, RestoredMeansBackup
<1> QED BY <1>2, <1>3, <1>4

(* A calibration that ended in a refusal, or is being cleaned up, promises nothing. *)
LEMMA NothingPromised ==
  ASSUME stage' \in {"done", "lckclean"}, outcome' # "pass"
  PROVE  CleanInv'
BY DEF CleanInv, SweepInv, LckInv, DoneInv, Destructive

LEMMA CleanBackup ==
  ASSUME CalType, CleanInv, outcome = "none", stage = "backup", Transfer
  PROVE  CleanInv'
<1> SUFFICES ASSUME ~unrestored PROVE CleanInv'
  BY TransferCases DEF CleanInv
<1>1. Script = BackupScript /\ Len(Script) = 11 /\ pos \in 1..11 /\ BackupAt(pos)
  BY ScriptRuns, ScriptOf DEF CleanInv, SweepInv
<1>2. CASE Effect(Script[pos]) /\ GoOn
  <2>1. PICK p \in 1..11 : p = pos
    BY <1>1
  <2>2. PICK q \in 2..12 : q = p + 1
    BY <2>1
  <2>3. BackupAt(q)'
    BY <1>1, <1>2, <2>1, <2>2, BackupStep
  <2>4. CASE pos < 11 /\ pos' = pos + 1 /\ stage' = stage /\ outcome' = outcome
    <3>1. q = pos'
      BY <2>1, <2>2, <2>4
    <3>2. BackupAt(pos)'
      BY <2>3, <3>1
    <3> QED BY <2>4, <3>2 DEF CleanInv, SweepInv, LckInv, DoneInv, Destructive
  <2>5. CASE pos = 11 /\ AfterScript
    <3>1. q = 12 /\ stage' = "setup" /\ pos' = 1 /\ outcome' = "none"
      BY <2>1, <2>2, <2>5 DEF AfterScript, Enter
    <3>2. BackupAt(12)'
      BY <2>3, <3>1
    <3>3. (AwayPre /\ BackupGood /\ page = "C")'
      BY <3>2, BackupComplete, PTL
    <3> QED BY <3>1, <3>3 DEF CleanInv, SweepInv, LckInv, DoneInv, Destructive, SetupPage
  <2> QED BY <1>1, <1>2, <2>4, <2>5, GoOnCases DEF Scripted
<1>3. CASE AfterFailure
  BY <1>3, NothingPromised DEF AfterFailure, Decide, Enter, Destructive
<1> QED BY <1>2, <1>3, TransferCases

(* A destructive stage that fails, with or without the effect of its last       *)
(* transfer, leaves the backup good and every other bank untouched.              *)
LEMMA CleanAbort ==
  ASSUME stage \in Destructive, AfterFailure, outcome = "none", (AwayPre /\ BackupGood)'
  PROVE  CleanInv'
<1>1. stage' = "restore" /\ outcome' = "none"
  BY DEF AfterFailure, Enter, Destructive
<1> QED BY <1>1 DEF CleanInv, SweepInv, LckInv, DoneInv, Destructive

LEMMA NoEffectKeeps ==
  ASSUME NoEffect, AwayPre, BackupGood
  PROVE  (AwayPre /\ BackupGood)'
BY DEF NoEffect, AwayPre, BackupGood

LEMMA CleanSetup ==
  ASSUME CalType, CleanInv, outcome = "none", stage = "setup", Transfer
  PROVE  CleanInv'
<1> SUFFICES ASSUME ~unrestored PROVE CleanInv'
  BY TransferCases DEF CleanInv
<1>1. /\ Script = SetupScript /\ Len(Script) = 10 /\ pos \in 1..10
      /\ AwayPre /\ BackupGood /\ page = SetupPage(pos)
  BY ScriptRuns, ScriptOf DEF CleanInv, SweepInv, Destructive
<1>2. PICK p \in 1..10 : p = pos
  BY <1>1
<1>3. PICK q \in 2..11 : q = p + 1
  BY <1>2
<1>4. ASSUME Effect(Script[pos]) PROVE AwayPre' /\ BackupGood' /\ (page = SetupPage(q))'
  BY <1>1, <1>2, <1>3, <1>4, SetupStep
<1>5. CASE Effect(Script[pos]) /\ GoOn
  <2>1. CASE pos < 10 /\ pos' = pos + 1 /\ stage' = stage /\ outcome' = outcome
    <3>1. q = pos'
      BY <1>2, <1>3, <2>1
    <3> QED BY <1>4, <1>5, <2>1, <3>1 DEF CleanInv, SweepInv, LckInv, DoneInv, Destructive
  <2>2. CASE pos = 10 /\ AfterScript
    <3>1. q = 11 /\ stage' = "txtrigger" /\ outcome' = "none"
      BY <1>2, <1>3, <2>2 DEF AfterScript, Enter
    <3>2. page' = "C1"
      BY <1>4, <1>5, <3>1 DEF SetupPage
    <3> QED BY <1>4, <1>5, <3>1, <3>2 DEF CleanInv, SweepInv, LckInv, DoneInv, Destructive
  <2> QED BY <1>1, <1>5, <2>1, <2>2, GoOnCases DEF Scripted
<1>6. CASE (Effect(Script[pos]) \/ NoEffect) /\ AfterFailure
  BY <1>1, <1>4, <1>6, NoEffectKeeps, CleanAbort DEF Destructive
<1> QED BY <1>5, <1>6, TransferCases

LEMMA CleanTrigger ==
  ASSUME CalType, CleanInv, outcome = "none", stage \in {"txtrigger", "rxtrigger"}, Transfer
  PROVE  CleanInv'
<1> SUFFICES ASSUME ~unrestored PROVE CleanInv'
  BY TransferCases DEF CleanInv
<1>1. /\ Script = TriggerScript /\ Len(Script) = 1 /\ pos = 1
      /\ AwayPre /\ BackupGood /\ page = "C1"
  <2>1. Script = TriggerScript /\ Len(Script) = 1
    BY ScriptOf
  <2>2. pos = 1
    BY <2>1, ScriptRuns
  <2>3. AwayPre /\ BackupGood /\ page = "C1"
    BY DEF CleanInv, SweepInv, Destructive
  <2> QED BY <2>1, <2>2, <2>3
<1>2. ASSUME Effect(Script[pos]) PROVE AwayPre' /\ BackupGood' /\ page' = "C1"
  BY <1>1, <1>2, TriggerStep
<1>3. CASE Effect(Script[pos]) /\ GoOn
  <2>1. AfterScript
    BY <1>1, <1>3, GoOnCases DEF Scripted
  <2>2. stage' \in {"txpoll", "rxpoll"} /\ outcome' = "none"
    BY <2>1 DEF AfterScript, Enter
  <2> QED BY <1>2, <1>3, <2>2 DEF CleanInv, SweepInv, LckInv, DoneInv, Destructive
<1>4. CASE (Effect(Script[pos]) \/ NoEffect) /\ AfterFailure
  BY <1>1, <1>2, <1>4, NoEffectKeeps, CleanAbort DEF Destructive
<1> QED BY <1>3, <1>4, TransferCases

LEMMA CleanRxPrepare ==
  ASSUME CalType, CleanInv, outcome = "none", stage = "rxprepare", Transfer
  PROVE  CleanInv'
<1> SUFFICES ASSUME ~unrestored PROVE CleanInv'
  BY TransferCases DEF CleanInv
<1>0. PICK n \in 5..7 : n = Len(RxPrepareScript)
  BY RxPrepareShape
<1>1. /\ Script = RxPrepareScript /\ Len(Script) = n /\ pos \in 1..n
      /\ AwayPre /\ BackupGood /\ page = RxPreparePage(pos)
  BY <1>0, ScriptRuns, ScriptOf DEF CleanInv, SweepInv, Destructive
<1>2. PICK p \in 1..n : p = pos
  BY <1>1
<1>3. ASSUME Effect(Script[pos])
      PROVE  AwayPre' /\ BackupGood' /\ page' = IF p >= n - 1 THEN "C1" ELSE "C"
  BY <1>0, <1>1, <1>2, <1>3, RxPrepareStep
<1>4. CASE Effect(Script[pos]) /\ GoOn
  <2>1. CASE pos < n /\ pos' = pos + 1 /\ stage' = stage /\ stages' = stages /\ outcome' = outcome
    <3>1. Len(RxPrepareScript)' = n
      BY <1>0, <2>1 DEF RxPrepareScript, TxReady
    <3>2. (page = RxPreparePage(pos))'
      BY <1>0, <1>2, <1>3, <1>4, <2>1, <3>1 DEF RxPreparePage
    <3> QED BY <1>3, <1>4, <2>1, <3>2 DEF CleanInv, SweepInv, LckInv, DoneInv, Destructive
  <2>2. CASE pos = n /\ AfterScript
    <3>1. stage' \in {"rxtrigger", "restore"} /\ outcome' = "none"
      BY <2>2 DEF AfterScript, Enter
    <3>2. page' = "C1"
      BY <1>0, <1>2, <1>3, <1>4, <2>2
    <3> QED BY <1>3, <1>4, <3>1, <3>2 DEF CleanInv, SweepInv, LckInv, DoneInv, Destructive
  <2> QED BY <1>1, <1>4, <2>1, <2>2, GoOnCases DEF Scripted
<1>5. CASE (Effect(Script[pos]) \/ NoEffect) /\ AfterFailure
  BY <1>1, <1>3, <1>5, NoEffectKeeps, CleanAbort DEF Destructive
<1> QED BY <1>4, <1>5, TransferCases

LEMMA CleanRestore ==
  ASSUME CalType, CleanInv, RestoreInv, outcome = "none", stage = "restore", Transfer
  PROVE  CleanInv'
<1>1. Script = RestoreScript /\ Len(Script) = 14 /\ pos \in 1..14
  <2>1. Script = RestoreScript /\ Len(Script) = 14
    BY ScriptOf
  <2> QED BY <2>1, ScriptRuns
<1>2. GoOn
  BY TransferCases DEF AfterFailure, Destructive
<1>3. stage' \in {"restore", "report"} /\ outcome' = "none"
  BY <1>1, <1>2, GoOnCases DEF Scripted, AfterScript, Enter
<1>4. ASSUME ~unrestored, restored' PROVE (AwayPre /\ BackupGood)'
  <2>1. Effect(Script[pos]) /\ restored
    BY <1>4, TransferCases DEF AfterFailure, NoteRestoreFailure, Destructive
  <2>2. AwayPre /\ BackupGood
    BY <1>4, <2>1 DEF CleanInv, SweepInv
  <2>3. PICK p \in 1..14 : p = pos
    BY <1>1
  <2>4. RestoreAt(p)
    BY <2>1, <2>3 DEF RestoreInv
  <2>5. bk' = bk /\ AwayPre'
    BY <1>1, <2>1, <2>2, <2>3, <2>4, RestoreTransfer
  <2> QED BY <2>2, <2>5 DEF BackupGood
<1>5. unrestored' = unrestored
  BY TransferCases
<1> QED BY <1>3, <1>4, <1>5 DEF CleanInv, SweepInv, LckInv, DoneInv, Destructive

LEMMA CleanFill ==
  ASSUME CalType, CleanInv, outcome = "none", stage = "fill", Transfer
  PROVE  CleanInv'
<1> SUFFICES ASSUME ~unrestored PROVE CleanInv'
  BY TransferCases DEF CleanInv
<1>1. Script = FillScript /\ Len(Script) = 8 /\ pos \in 1..8
  <2>1. Script = FillScript /\ Len(Script) = 8
    BY ScriptOf
  <2> QED BY <2>1, ScriptRuns
<1>2. AllPre /\ txpause = "run" /\ (pos >= 8 => page = "C")
  BY DEF CleanInv, SweepInv
<1>3. CASE Effect(Script[pos]) /\ GoOn
  <2>1. PICK p \in 1..8 : p = pos
    BY <1>1
  <2>2. AllPre' /\ txpause' = "run" /\ (p >= 7 => page' = "C")
    BY <1>1, <1>2, <1>3, <2>1, FillTransfer
  <2>3. CASE pos < 8 /\ pos' = pos + 1 /\ stage' = stage /\ outcome' = outcome
    BY <1>1, <2>1, <2>2, <2>3 DEF CleanInv, SweepInv, LckInv, DoneInv, Destructive
  <2>4. CASE pos = 8 /\ AfterScript
    <3>1. stage' = "done" /\ page' = "C"
      BY <2>1, <2>2, <2>4 DEF AfterScript, Enter, Decide
    <3> QED BY <2>2, <3>1 DEF CleanInv, SweepInv, LckInv, DoneInv, Destructive
  <2> QED BY <1>1, <1>3, <2>3, <2>4, GoOnCases DEF Scripted
<1>4. CASE AfterFailure
  BY <1>4, NothingPromised DEF AfterFailure, Decide, Enter, Destructive
<1> QED BY <1>3, <1>4, TransferCases

LEMMA CleanLck ==
  ASSUME CalType, CleanInv, outcome = "none", stage = "lck", Transfer
  PROVE  CleanInv'
<1> SUFFICES ASSUME ~unrestored PROVE CleanInv'
  BY TransferCases DEF CleanInv
<1>1. Script = LckScript(TRUE) /\ Len(Script) = 14 /\ pos \in 1..14
  <2>1. Script = LckScript(TRUE) /\ Len(Script) = 14
    BY ScriptOf
  <2> QED BY <2>1, ScriptRuns
<1>2. LckAt(pos)
  BY DEF CleanInv, LckInv
<1>3. CASE Effect(Script[pos]) /\ GoOn
  <2>1. PICK p \in 1..14 : p = pos
    BY <1>1
  <2>2. PICK q \in 2..15 : q = p + 1
    BY <2>1
  <2>3. LckAt(q)'
    BY <1>1, <1>2, <1>3, <2>1, <2>2, LckTransfer
  <2>4. CASE pos < 14 /\ pos' = pos + 1 /\ stage' = stage /\ outcome' = outcome
    <3>1. q = pos'
      BY <2>1, <2>2, <2>4
    <3>2. LckAt(pos)'
      BY <2>3, <3>1
    <3> QED BY <2>4, <3>2 DEF CleanInv, SweepInv, LckInv, DoneInv, Destructive
  <2>5. CASE pos = 14 /\ AfterScript
    <3>1. q = 15 /\ stage' = "done"
      BY <2>1, <2>2, <2>5 DEF AfterScript, Enter, Decide
    <3>2. LckAt(15)'
      BY <2>3, <3>1
    <3>3. (AllPre /\ page = "C" /\ txpause = "run")'
      BY <3>2, LckComplete, PTL
    <3> QED BY <3>1, <3>3 DEF CleanInv, SweepInv, LckInv, DoneInv, Destructive
  <2>6. stage \in Scripted /\ Len(Script) = 14 /\ pos \in 1..14
    BY <1>1 DEF Scripted
  <2> QED BY <1>3, <2>4, <2>5, <2>6, GoOnCases
<1>4. CASE AfterFailure
  BY <1>4, NothingPromised DEF AfterFailure, Enter, Destructive
<1> QED BY <1>3, <1>4, TransferCases

LEMMA CleanLckCont ==
  ASSUME CalType, CleanInv, outcome = "none", stage = "lckcont", Transfer
  PROVE  CleanInv'
<1> SUFFICES ASSUME ~unrestored PROVE CleanInv'
  BY TransferCases DEF CleanInv
<1>1. Script = LckScript(FALSE) /\ Len(Script) = 12 /\ pos \in 1..12
  <2>1. Script = LckScript(FALSE) /\ Len(Script) = 12
    BY ScriptOf
  <2> QED BY <2>1, ScriptRuns
<1>2. LckContAt(pos)
  BY DEF CleanInv, LckInv
<1>3. CASE Effect(Script[pos]) /\ GoOn
  <2>1. PICK p \in 1..12 : p = pos
    BY <1>1
  <2>2. PICK q \in 2..13 : q = p + 1
    BY <2>1
  <2>3. LckContAt(q)'
    BY <1>1, <1>2, <1>3, <2>1, <2>2, LckContTransfer
  <2>4. CASE pos < 12 /\ pos' = pos + 1 /\ stage' = stage /\ outcome' = outcome
    <3>1. q = pos'
      BY <2>1, <2>2, <2>4
    <3>2. LckContAt(pos)'
      BY <2>3, <3>1
    <3> QED BY <2>4, <3>2 DEF CleanInv, SweepInv, LckInv, DoneInv, Destructive
  <2>5. CASE pos = 12 /\ AfterScript
    <3>1. q = 13 /\ stage' = "done"
      BY <2>1, <2>2, <2>5 DEF AfterScript, Enter, Decide
    <3>2. LckContAt(13)'
      BY <2>3, <3>1
    <3>3. (AllPre /\ page = "C" /\ txpause = "run")'
      BY <3>2, LckComplete, PTL
    <3> QED BY <3>1, <3>3 DEF CleanInv, SweepInv, LckInv, DoneInv, Destructive
  <2>6. stage \in Scripted /\ Len(Script) = 12 /\ pos \in 1..12
    BY <1>1 DEF Scripted
  <2> QED BY <1>3, <2>4, <2>5, <2>6, GoOnCases
<1>4. CASE AfterFailure
  BY <1>4, NothingPromised DEF AfterFailure, Enter, Destructive
<1> QED BY <1>3, <1>4, TransferCases

LEMMA TransferClean ==
  ASSUME CalType, CleanInv, RestoreInv, outcome = "none", Transfer
  PROVE  CleanInv'
<1>1. stage \in Scripted
  BY ScriptRuns
<1> QED BY <1>1, CleanBackup, CleanSetup, CleanTrigger, CleanRxPrepare, CleanRestore, CleanFill,
           CleanLck, CleanLckCont DEF Scripted

-----------------------------------------------------------------------------
(* The other steps of a profile. *)

LEMMA OneShotStep ==
  ASSUME CalType, ProfileInv, CleanInv, outcome = "none", OneShot
  PROVE  /\ CalType' /\ ProfileInv' /\ RestoreInv' /\ RestoredMeansBackup' /\ CleanInv'
         /\ stage' # "none"
<1>1. PICK kind \in {"tx", "rx"} :
        \E yields \in [Unfinished(kind) -> Candidates \cup {<<>>}] : Round(kind, yields)
  BY DEF OneShot
<1>2. PICK yields \in [Unfinished(kind) -> Candidates \cup {<<>>}] : Round(kind, yields)
  BY <1>1
<1>3. /\ stage \in {"txpoll", "rxpoll"}
      /\ UNCHANGED <<profile, page, reg, txpause, orig, bk, unrestored, sweep, armed>>
  BY <1>1, <1>2 DEF Round, Polling
<1>4. /\ pos' = 1 /\ outcome' = "none"
      /\ stage' \in {"restore", "rxprepare", "txtrigger", "rxtrigger"}
  <2>1. CASE AfterFailure
    BY <1>3, <2>1 DEF AfterFailure, Enter, Destructive
  <2>2. CASE EndRound(kind, RoundResult(kind, yields))
    BY <1>1, <2>2 DEF EndRound, Enter, AfterOneShot, Trigger
  <2> QED BY <1>2, <2>1, <2>2 DEF Round
<1>5. CalType'
  BY <1>3, <1>4 DEF CalType
<1>6. ProfileInv'
  BY <1>3, <1>4 DEF ProfileInv, Sweeping, Destructive, LckStages
<1>7. RestoreInv' /\ RestoredMeansBackup'
  BY <1>4 DEF RestoreInv, RestoreAt, RestoredMeansBackup
<1>8. CleanInv'
  <2>1. ASSUME ~unrestored PROVE AwayPre /\ BackupGood /\ page = "C1"
    BY <1>3, <2>1 DEF CleanInv, SweepInv, Destructive
  <2>2. ASSUME ~unrestored PROVE (AwayPre /\ BackupGood)' /\ page' = "C1"
    BY <1>3, <2>1, <2>2 DEF AwayPre, BackupGood
  <2>3. (RxPreparePage(pos))' = "C1"
    BY <1>4 DEF RxPreparePage
  <2> QED BY <1>3, <1>4, <2>2, <2>3 DEF CleanInv, SweepInv, LckInv, DoneInv, Destructive
<1> QED BY <1>4, <1>5, <1>6, <1>7, <1>8

(* A sweep that restored everything leaves the registers as the profile found   *)
(* them, so that the next one backs up those values again.                       *)
LEMMA ReportStep ==
  ASSUME CalType, ProfileInv, RestoredMeansBackup, CleanInv, outcome = "none", Report
  PROVE  /\ CalType' /\ ProfileInv' /\ RestoreInv' /\ RestoredMeansBackup' /\ CleanInv'
         /\ stage' # "none"
<1>1. /\ stage = "report" /\ UNCHANGED <<profile, page, reg, txpause, orig, armed>>
      /\ unrestored' = (unrestored \/ ~restored) /\ pos' = 1
      /\ bk' = bk \/ bk' = NoBackup
      /\ \/ stage' = "backup" /\ outcome' = outcome
         \/ stage' = "fill" /\ outcome' = outcome /\ Completed /\ stages' = stages
         \/ stage' = "done" /\ outcome' = "refuse"
  BY DEF Report, BeginSweep, Enter, Decide
<1>2. CalType'
  BY <1>1 DEF CalType, NoBackup, BackupNames
<1>3. ProfileInv'
  BY <1>1 DEF ProfileInv, Completed, Sweeping, Destructive, LckStages
<1>4. RestoreInv' /\ RestoredMeansBackup'
  BY <1>1 DEF RestoreInv, RestoredMeansBackup
<1>5. ASSUME ~unrestored' PROVE AllPre /\ page = "C" /\ txpause = "run"
  <2>1. restored /\ ~unrestored
    BY <1>1, <1>5
  <2>2. AwayPre /\ BackupGood
    BY <1>1, <2>1 DEF CleanInv, SweepInv
  <2>3. (\A g \in Backed : reg[HomeCell(g)] = bk[g]) /\ page = bk["page"] /\ txpause = bk["txpause"]
    BY <1>1, <2>1 DEF RestoredMeansBackup
  <2>4. AllPre
    BY <2>2, <2>3, RestoredClean
  <2> QED BY <2>2, <2>3, <2>4 DEF BackupGood
<1>6. ASSUME ~unrestored' PROVE AllPre' /\ page' = "C" /\ txpause' = "run"
  BY <1>1, <1>5, <1>6 DEF AllPre
<1>7. CleanInv'
  BY <1>1, <1>6 DEF CleanInv, SweepInv, BackupAt, LckInv, DoneInv, Destructive
<1> QED BY <1>1, <1>2, <1>3, <1>4, <1>7

LEMMA CleanupStep ==
  ASSUME CalType, ProfileInv, outcome = "none", LckCleanup
  PROVE  /\ CalType' /\ ProfileInv' /\ RestoreInv' /\ RestoredMeansBackup' /\ CleanInv'
         /\ stage' # "none"
<1>1. /\ stage = "lckclean"
      /\ UNCHANGED <<profile, orig, paths, stages, erred, restored, unrestored, sweep>>
  BY DEF LckCleanup
<1>2. CASE armed = {}
  <2>1. stage' = "done" /\ pos' = 1 /\ outcome' = "refuse" /\ reg' = reg /\ bk' = bk
    BY <1>2 DEF LckCleanup, Decide, Enter, NoEffect
  <2>2. CalType'
    BY <1>1, <2>1 DEF CalType
  <2>3. ProfileInv' /\ RestoreInv' /\ RestoredMeansBackup'
    BY <1>1, <2>1 DEF ProfileInv, RestoreInv, RestoredMeansBackup, Sweeping, Destructive, LckStages
  <2> QED BY <2>1, <2>2, <2>3, NothingPromised
<1>3. CASE armed # {}
  <2>1. /\ stage' = stage /\ pos' = pos /\ outcome' = outcome
        /\ \E g : RestoreEffect(g) \/ NoEffect
    BY <1>3 DEF LckCleanup, Try
  <2>2. PICK g : RestoreEffect(g) \/ NoEffect
    BY <2>1
  <2>3. reg' = [c \in Cells |-> reg'[c]] /\ bk' = [h \in BackupNames |-> bk'[h]]
    <3>1. CASE RestoreEffect(g)
      <4>1. Effect(Take(g)) /\ Take(g).op = "take"
        BY <3>1 DEF Effect, Take
      <4> QED BY <4>1, EffectShape
    <3>2. CASE NoEffect
      BY <3>2 DEF NoEffect, CalType
    <3> QED BY <2>2, <3>1, <3>2
  <2>4. CalType'
    BY <1>1, <2>1, <2>3 DEF CalType
  <2>5. ProfileInv' /\ RestoreInv' /\ RestoredMeansBackup'
    BY <1>1, <2>1 DEF ProfileInv, RestoreInv, RestoredMeansBackup, Sweeping, Destructive, LckStages
  <2> QED BY <1>1, <2>1, <2>4, <2>5, NothingPromised
<1> QED BY <1>2, <1>3

(* A profile starts on registers as found, with the queues running. *)
LEMMA StartStep ==
  ASSUME CalType, ProfileInv, outcome = "none", ~unrestored, txpause = "run",
         NEW supported, StartProfile(supported)
  PROVE  /\ CalType' /\ ProfileInv' /\ RestoreInv' /\ RestoredMeansBackup' /\ CleanInv'
         /\ stage' # "none"
<1>1. /\ reg' = AsFound /\ page' = "C" /\ orig' = <<AsFound, "C", "run">> /\ pos' = 1
      /\ txpause' = "run" /\ unrestored' = unrestored /\ profile' = profile
      /\ bk' = bk \/ bk' = NoBackup
  BY DEF StartProfile, LinuxParity, BeginSweep, Decide, Enter
<1>2. \/ stage' = "done" /\ outcome' \in {"pass", "refuse"} /\ profile # "RuntimeIqk"
      \/ stage' \in {"lck", "lckcont"} /\ outcome' = "none" /\ profile = "Lck"
      \/ stage' = "backup" /\ outcome' = "none" /\ profile = "RuntimeIqk"
  BY DEF StartProfile, LinuxParity, BeginSweep, Decide, Enter
<1>3. AllPre' /\ OthersPre'
  BY <1>1 DEF AllPre, OthersPre, AsFound
<1>4. /\ (reg[<<"lck", "-">>] = "pre")' /\ (reg[<<"chnlbw", "-">>] = "pre")'
  BY <1>1 DEF AsFound, Cells, Unbanked
<1>5. CalType'
  BY <1>1 DEF CalType, AsFound, NoBackup, BackupNames
<1>6. ProfileInv'
  BY <1>1, <1>2 DEF ProfileInv, Sweeping, Destructive, LckStages
<1>7. RestoreInv' /\ RestoredMeansBackup'
  BY <1>2 DEF RestoreInv, RestoredMeansBackup
<1>8. BackupAt(1)' /\ LckAt(1)' /\ LckContAt(1)'
  BY <1>1, <1>3, <1>4 DEF BackupAt, LckAt, LckContAt
<1>9. CleanInv'
  BY <1>1, <1>2, <1>3, <1>8 DEF CleanInv, SweepInv, LckInv, DoneInv, Destructive
<1> QED BY <1>2, <1>5, <1>6, <1>7, <1>9

-----------------------------------------------------------------------------
(* The flow around the profile. *)

(* MAC programming opens the TX queues; no other phase touches them. *)
LEMMA PhasePause ==
  ASSUME SessionInv, Phase, Past(6) => txpause = "run"
  PROVE  Past(6)' => txpause' = "run"
<1> USE DEF Do, At, Try, Checked, Refuse, Only, Untouched, SetMcu, GoTo
<1>1. CASE PowerOn
  <2>1. step \in {"cr_clear", "cr_set"} /\ txpause' = txpause /\ status = "running"
        /\ (UNCHANGED <<at, status>> \/ PhaseDone \/ Fail)
    BY <1>1 DEF PowerOn
  <2> QED BY <2>1, PhaseEnd DEF SessionInv, StepInv, Past, Fail, Halt
<1>2. CASE Firmware
  <2>1. step \in FwSteps /\ txpause' = txpause /\ status = "running"
        /\ (UNCHANGED <<at, status>> \/ PhaseDone \/ Fail)
    BY <1>2 DEF Firmware, FwPreflight, FwPreflightReset, FwEnable, FwBegin, FwPage, FwPageGoOn,
                FwChecksum, FwDisable, FwReady, FwReset, FwPoll, Reset8051, FwSteps
  <2> QED BY <2>1, PhaseEnd DEF SessionInv, StepInv, Past, Fail, Halt, FwAt
<1>3. CASE Llt
  <2>1. step = "llt" /\ txpause' = txpause /\ status = "running"
        /\ (UNCHANGED <<at, status>> \/ PhaseDone \/ Fail)
    BY <1>3 DEF Llt
  <2> QED BY <2>1, PhaseEnd DEF SessionInv, StepInv, Past, Fail, Halt, LltAt
<1>4. CASE MacTable \/ QueueDma \/ Bb \/ Rf \/ TxSchedulerTail
  <2>1. step \in {"mac_table", "queue_dma", "bb", "rf", "tail"} /\ txpause' = txpause
        /\ status = "running" /\ (PhaseDone \/ Fail)
    BY <1>4 DEF MacTable, QueueDma, Bb, Rf, TxSchedulerTail
  <2> QED BY <2>1, PhaseEnd DEF SessionInv, StepInv, Past, Fail, Halt
<1>5. CASE Mac
  BY <1>5 DEF Mac, Past, Fail, Halt
<1>6. CASE MacAddr
  <2>1. step \in EfuseSteps /\ txpause' = txpause /\ status = "running"
        /\ (UNCHANGED <<at, status>> \/ PhaseDone \/ Fail)
    BY <1>6 DEF MacAddr, EfuseOn, EfuseClock, EfuseReadByte, EfuseOff, ProgramMacId, EfuseSteps
  <2> QED BY <2>1, PhaseEnd DEF SessionInv, StepInv, Past, Fail, Halt
<1>7. CASE Channel
  <2>1. step \in ChannelSteps /\ txpause' = txpause /\ status = "running"
        /\ (UNCHANGED <<at, status>> \/ PhaseDone \/ Fail)
    BY <1>7 DEF Channel, ChannelStart, BandMark, BandRegs, ChannelRest, ChannelSteps
  <2> QED BY <2>1, PhaseEnd DEF SessionInv, StepInv, Past, Fail, Halt
<1> QED BY <1>1, <1>2, <1>3, <1>4, <1>5, <1>6, <1>7 DEF Phase

(* Before a profile starts nothing is promised of its registers. *)
LEMMA NotStarted ==
  ASSUME stage' = "none", outcome' = "none"
  PROVE  RestoreInv' /\ RestoredMeansBackup' /\ CleanInv'
BY DEF RestoreInv, RestoredMeansBackup, CleanInv, SweepInv, LckInv, DoneInv, Destructive

(* Steps that only move the flow. *)
LEMMA CalibrationSame ==
  ASSUME CalType, ProfileInv, RestoreInv, RestoredMeansBackup, CleanInv,
         UNCHANGED calibrationVars, txpause' = txpause
  PROVE  CalType' /\ ProfileInv' /\ RestoreInv' /\ RestoredMeansBackup' /\ CleanInv'
<1> USE DEF calibrationVars
<1>1. CalType' /\ ProfileInv'
  BY DEF CalType, ProfileInv
<1>2. /\ \A p : RestoreAt(p)' = RestoreAt(p) /\ BackupAt(p)' = BackupAt(p)
      /\ \A p : LckAt(p)' = LckAt(p) /\ LckContAt(p)' = LckContAt(p)
      /\ AwayPre' = AwayPre /\ AllPre' = AllPre /\ BackupGood' = BackupGood
      /\ Len(RxPrepareScript)' = Len(RxPrepareScript)
  BY DEF RestoreAt, BackupAt, LckAt, LckContAt, AwayPre, AllPre, BackupGood, OthersPre,
         RxPrepareScript, TxReady
<1>3. RestoreInv' /\ RestoredMeansBackup'
  BY <1>2 DEF RestoreInv, RestoredMeansBackup
<1>4. SweepInv => SweepInv'
  BY <1>2 DEF SweepInv, SetupPage, RxPreparePage
<1>5. LckInv => LckInv'
  BY <1>2 DEF LckInv
<1>6. DoneInv => DoneInv'
  BY <1>2 DEF DoneInv
<1> QED BY <1>1, <1>3, <1>4, <1>5, <1>6 DEF CleanInv

LEMMA CalibrationStep ==
  ASSUME SessionInv, CalibrationInv, [Next]_vars
  PROVE  CalibrationInv'
<1>0. /\ CalType /\ FlowInv /\ ProfileInv /\ RestoreInv /\ RestoredMeansBackup /\ CleanInv
  BY DEF CalibrationInv
<1>1. CASE Initialize
  <2>1. /\ flow = "init" /\ flow' = flow /\ stage = "none" /\ UNCHANGED calibrationVars /\ Phase
    BY <1>0, <1>1 DEF Initialize, FlowInv
  <2>2. outcome = "none" /\ ~unrestored /\ (Past(6) => txpause = "run")
    BY <1>0, <2>1 DEF ProfileInv, FlowInv
  <2>3. Past(6)' => txpause' = "run"
    BY <2>1, <2>2, PhasePause
  <2>4. CalType' /\ ProfileInv'
    BY <1>0, <2>1 DEF CalType, ProfileInv, calibrationVars
  <2>5. RestoreInv' /\ RestoredMeansBackup' /\ CleanInv'
    BY <2>1, <2>2, NotStarted DEF calibrationVars
  <2>6. FlowInv'
    BY <2>1, <2>2, <2>3 DEF FlowInv, calibrationVars
  <2> QED BY <2>4, <2>5, <2>6 DEF CalibrationInv
<1>2. CASE \/ InitDone \/ MonitorOpmode \/ TxPowerControl \/ Gate \/ TxPowerAgain \/ RxStartupKick
           \/ UNCHANGED vars
  <2>1. UNCHANGED calibrationVars /\ txpause' = txpause /\ UNCHANGED initializationVars
    BY <1>2 DEF InitDone, MonitorOpmode, TxPowerControl, Gate, TxPowerAgain, RxStartupKick, Stage,
                controlVars, vars
  <2>2. CalType' /\ ProfileInv' /\ RestoreInv' /\ RestoredMeansBackup' /\ CleanInv'
    BY <1>0, <2>1, CalibrationSame
  <2>3. /\ stage' = stage /\ outcome' = outcome /\ unrestored' = unrestored /\ status' = status
        /\ Past(6)' = Past(6)
    BY <2>1 DEF calibrationVars, initializationVars, initVars, Past
  <2>4. /\ flow' \in {"opmode", "power", "profile", "repower", "kick", "live"} => status' = "ready"
        /\ flow' \in {"init", "opmode", "power"} => stage' = "none"
        /\ flow' \in {"repower", "kick", "live"} => outcome' = "pass"
    <3>1. CASE InitDone
      BY <1>0, <2>3, <3>1 DEF InitDone, FlowInv
    <3>2. CASE MonitorOpmode
      BY <1>0, <2>3, <3>2 DEF MonitorOpmode, Stage, Try, FlowInv
    <3>3. CASE TxPowerControl
      BY <1>0, <2>3, <3>3 DEF TxPowerControl, Stage, Try, FlowInv
    <3>4. CASE Gate
      BY <1>0, <2>3, <3>4 DEF Gate, AfterGate, FlowInv, ProfileInv
    <3>5. CASE TxPowerAgain
      BY <1>0, <2>3, <3>5 DEF TxPowerAgain, AfterGate, Stage, Try, FlowInv
    <3>6. CASE RxStartupKick
      BY <1>0, <2>3, <3>6 DEF RxStartupKick, Stage, Try, FlowInv
    <3>7. CASE UNCHANGED vars
      BY <1>0, <2>3, <3>7 DEF vars, FlowInv
    <3> QED BY <1>2, <3>1, <3>2, <3>3, <3>4, <3>5, <3>6, <3>7
  <2>5. FlowInv'
    BY <1>0, <2>1, <2>3, <2>4 DEF FlowInv
  <2> QED BY <2>2, <2>5 DEF CalibrationInv
<1>3. CASE CalibrationProfile
  <2>1. /\ flow = "profile" /\ flow' = flow /\ outcome = "none" /\ status = "ready" /\ status' = status
    BY <1>0, <1>3 DEF CalibrationProfile, FlowInv, initializationVars, initVars
  <2>2. /\ CalType' /\ ProfileInv' /\ RestoreInv' /\ RestoredMeansBackup' /\ CleanInv'
        /\ stage' # "none"
    <3>1. CASE StartProfile(config.channel36)
      <4>1. ~unrestored /\ txpause = "run"
        BY <1>0, <2>1, <3>1 DEF StartProfile, FlowInv, Past
      <4> QED BY <1>0, <2>1, <3>1, <4>1, StartStep
    <3>2. CASE Transfer
      BY <1>0, <2>1, <3>2, TransferType, TransferProfile, TransferRestore, TransferClean
    <3>3. CASE OneShot
      BY <1>0, <2>1, <3>3, OneShotStep
    <3>4. CASE Report
      BY <1>0, <2>1, <3>4, ReportStep
    <3>5. CASE LckCleanup
      BY <1>0, <2>1, <3>5, CleanupStep
    <3> QED BY <1>3, <3>1, <3>2, <3>3, <3>4, <3>5 DEF CalibrationProfile, Calibrate
  <2>3. FlowInv'
    BY <2>1, <2>2 DEF FlowInv
  <2> QED BY <2>2, <2>3 DEF CalibrationInv
<1>4. CASE Restart
  <2>1. /\ flow' = "init" /\ profile' = profile /\ ForgetCalibration
        /\ (status' = "failed" \/ (status' = "running" /\ at' = 1))
    BY <1>4 DEF Restart, NewSession, Start
  <2>2. FlowInv'
    BY <2>1 DEF FlowInv, Past, ForgetCalibration
  <2>3. CalType' /\ ProfileInv'
    BY <2>1 DEF ForgetCalibration, CalType, ProfileInv, AsFound, NoBackup, BackupNames, Sweeping,
                Destructive, LckStages
  <2>4. RestoreInv' /\ RestoredMeansBackup' /\ CleanInv'
    BY <2>1, NotStarted DEF ForgetCalibration
  <2> QED BY <2>2, <2>3, <2>4 DEF CalibrationInv
<1> QED BY <1>1, <1>2, <1>3, <1>4 DEF Next

LEMMA CalibrationInit == Init => CalibrationInv
<1> SUFFICES ASSUME Init PROVE CalibrationInv
  OBVIOUS
<1>1. NotCalibrating /\ flow = "init" /\ (status = "failed" \/ (status = "running" /\ at = 1))
  BY DEF Init
<1>2. FlowInv
  BY <1>1 DEF FlowInv, Past, NotCalibrating
<1>3. CalType /\ ProfileInv
  BY <1>1 DEF NotCalibrating, CalType, ProfileInv, AsFound, NoBackup, BackupNames, Sweeping,
              Destructive, LckStages
<1>4. RestoreInv /\ RestoredMeansBackup /\ CleanInv
  BY <1>1 DEF NotCalibrating, RestoreInv, RestoredMeansBackup, CleanInv, SweepInv, LckInv, DoneInv,
              Destructive
<1> QED BY <1>2, <1>3, <1>4 DEF CalibrationInv

LEMMA CalibrationInvariant == Spec => []CalibrationInv
BY CalibrationInit, CalibrationStep, SessionInvariant, PTL DEF Spec

-----------------------------------------------------------------------------
(* Results. *)

(* However its transfers fail, and whatever earlier sweeps left behind, a        *)
(* restore that records no failure has put back every register group, the bank   *)
(* and the TX pause as the sweep's backup read them: the restore goes on after a  *)
(* failed page select, but then it is recorded as failed.                         *)
THEOREM RestoreIsComplete == Spec => []RestoredMeansBackup
BY CalibrationInvariant, PTL DEF CalibrationInv

(* Live traffic starts only on an adapter that this session made ready and past  *)
(* the gate: all four I/Q stages of the sweep succeeded, and unless an earlier    *)
(* sweep of the run failed to restore, no register of the destructive setup is    *)
(* left and the TX queues run.                                                    *)
THEOREM LiveIsCalibrated == Spec => []LiveMeansCalibrated
<1>1. CalibrationInv => LiveMeansCalibrated
  <2> SUFFICES ASSUME CalibrationInv, flow = "live" PROVE LiveMeansCalibrated
    BY DEF LiveMeansCalibrated
  <2>1. status = "ready" /\ outcome = "pass"
    BY DEF CalibrationInv, FlowInv
  <2>2. profile = "RuntimeIqk" => \A s \in DOMAIN stages : stages[s] = "success"
    BY <2>1 DEF CalibrationInv, ProfileInv
  <2>3. ASSUME ~unrestored PROVE Restored /\ txpause = "run"
    <3>1. AllPre /\ page = "C" /\ txpause = "run"
      BY <2>1, <2>3 DEF CalibrationInv, CleanInv, DoneInv
    <3>2. reg = [c \in Cells |-> reg[c]] /\ orig = <<AsFound, "C", "run">>
      BY DEF CalibrationInv, CalType
    <3>3. PICK r : r = [reg EXCEPT ![<<"hssi", "-">>] = "pre"]
      OBVIOUS
    <3>4. r = [c \in Cells |-> r[c]]
      BY <3>2, <3>3
    <3>5. \A c \in Cells : r[c] = "pre"
      BY <3>1, <3>2, <3>3 DEF AllPre, Hssi
    <3>6. r = AsFound
      BY <3>4, <3>5 DEF AsFound
    <3> QED BY <3>1, <3>2, <3>3, <3>6 DEF Restored
  <2> QED BY <2>1, <2>2, <2>3 DEF LiveMeansCalibrated
<1> QED BY <1>1, CalibrationInvariant, PTL

==============================================================================
