-------------------------- MODULE RadioHandleProofs --------------------------
(***************************************************************************)
(* Proofs about a run of the userspace radio and the handle that owns it,    *)
(* for every set of streams, every feature combination and any number of     *)
(* starts and polls.                                                         *)
(***************************************************************************)
EXTENDS RadioHandle, TLAPS

-----------------------------------------------------------------------------
(* The inductive invariant. *)

(* How far bring-up is, exactly, at every step of the run that has not failed. *)
Power == IF TxPower THEN {"power"} ELSE {}
Calibrated == IF Calibrate THEN {"calibrated"} ELSE {}

RadioInv ==
  /\ pc \in {"validating", "validate", "initializing", "open", "returned"} => radio = {}
  /\ pc \in {"revalidating", "reinitializing", "init"} => radio = {"open"}
  /\ pc = "monitor" => radio = {"open", "init"}
  /\ pc = "power" => radio = {"open", "init", "monitor"}
  /\ pc = "calibrate" => radio = {"open", "init", "monitor"} \cup Power
  /\ pc = "repower" => radio = {"open", "init", "monitor"} \cup Calibrated
                                 \cup (IF Calibrate THEN {} ELSE Power)
  /\ pc \in {"kick", "marker", "readyHealth", "bind", "spawn", "forwards", "loop", "exitPass"}
       => radio = Prepared

(* When this run's ready marker can be there, whole or torn. *)
MarkerInv ==
  /\ pc \in {"validating", "validate", "initializing", "open", "revalidating",
             "reinitializing", "init", "monitor", "power", "calibrate", "repower", "kick"}
       => file.ready = "absent"
  /\ pc = "marker" => file.ready = IF writing THEN "torn" ELSE "absent"
  /\ pc \in {"readyHealth", "bind", "spawn", "forwards", "loop", "exitPass"}
       => file.ready = "ready"
  /\ pc \in {"exitFail", "drop"} /\ file.ready # "absent" => radio = Prepared
  /\ pc # "returned" /\ (file.health \in {"ready", "exited_pass"} \/ result = "pass")
       => file.ready = "ready"

(* Report and health file. *)
ReportInv ==
  /\ result = "pass" => pc \in {"exitPass", "drop", "returned"}
  /\ result = "fail" => pc \in {"exitFail", "drop", "returned"}
  /\ pc \in {"exitPass", "exitFail", "drop"} => result # "none"
  /\ result = "pass" /\ pc \in {"drop", "returned"} => file.health = "exited_pass"
  /\ file.health = "exited_pass" => result = "pass" /\ pc \in {"drop", "returned"}

(* What the handle knows. *)
HandleInv ==
  /\ handle = "none" => pc = "returned" /\ call = "idle"
  /\ joined # "none" => handle = "none"
  /\ joined = "stopped" => result = "pass"
  /\ joined = "failed" => result # "pass"

(* Only a writing step is ever inside fs::write. *)
Writers == {"validating", "initializing", "revalidating", "reinitializing", "marker",
            "readyHealth", "exitPass", "exitFail"}

WriteInv == writing => pc \in Writers

(* health() holds a document exactly between its two reads. *)
CallInv == call = "healthReady" <=> content # "absent"

(* What a call has read of the files is still so. *)
ObservedInv ==
  /\ content = "ready" /\ pc # "returned" => file.ready # "absent"
  /\ content = "exited_pass" => file.health = "exited_pass"
  /\ seen = "stopped" => file.health = "exited_pass"
  /\ (waited = "ready" \/ seenReady) /\ pc # "returned" => file.ready # "absent"

(* A returned thread has dropped its locals. *)
CleanInv == pc = "returned" => bound = {} /\ ~receiver /\ ~writing

RunInv == RadioInv /\ MarkerInv /\ ReportInv /\ HandleInv /\ ObservedInv /\ CleanInv

-----------------------------------------------------------------------------
(* The step tables, spelt out for the provers. *)

(* The successor of each step of the run. *)
LEMMA ThenTable ==
  /\ Then["validating"] = "validate" /\ Then["validate"] = "initializing"
  /\ Then["initializing"] = "open" /\ Then["open"] = "revalidating"
  /\ Then["revalidating"] = "reinitializing" /\ Then["reinitializing"] = "init"
  /\ Then["init"] = "monitor" /\ Then["monitor"] = "power" /\ Then["power"] = "calibrate"
  /\ Then["calibrate"] = "repower" /\ Then["repower"] = "kick" /\ Then["kick"] = "marker"
  /\ Then["marker"] = "readyHealth" /\ Then["readyHealth"] = "bind"
  /\ Then["bind"] = "spawn" /\ Then["spawn"] = "forwards" /\ Then["forwards"] = "loop"
  /\ Then["exitPass"] = "drop" /\ Then["exitFail"] = "drop" /\ Then["drop"] = "returned"
BY DEF Then

(* What each writing step writes. *)
LEMMA ContentTable ==
  /\ ContentOf["validating"] = "validating" /\ ContentOf["initializing"] = "initializing"
  /\ ContentOf["revalidating"] = "validating"
  /\ ContentOf["reinitializing"] = "initializing"
  /\ ContentOf["marker"] = "ready" /\ ContentOf["readyHealth"] = "ready"
  /\ ContentOf["exitPass"] = "exited_pass" /\ ContentOf["exitFail"] = "exited_fail"
BY DEF ContentOf

(* The sets the tables range over. *)
LEMMA TableSets ==
  /\ DOMAIN ContentOf = Writers
  /\ Steps = {"validating", "validate", "initializing", "open", "revalidating",
              "reinitializing", "init", "monitor", "power", "calibrate", "repower", "kick",
              "marker", "readyHealth", "bind", "spawn", "forwards", "exitPass", "exitFail",
              "drop", "loop", "returned"}
  /\ Contents = {"absent", "torn", "validating", "initializing", "ready", "exited_pass",
                 "exited_fail"}
<1>1. DOMAIN ContentOf = Writers
  BY DEF ContentOf, Writers
<1>2. Steps = {"validating", "validate", "initializing", "open", "revalidating",
              "reinitializing", "init", "monitor", "power", "calibrate", "repower", "kick",
              "marker", "readyHealth", "bind", "spawn", "forwards", "exitPass", "exitFail",
              "drop", "loop", "returned"}
  BY DEF Steps, Then
<1>3. {ContentOf[s] : s \in Writers} = {"validating", "initializing", "ready", "exited_pass",
                                        "exited_fail"}
  BY ContentTable DEF Writers
<1> QED BY <1>1, <1>2, <1>3 DEF Contents

-----------------------------------------------------------------------------
(* Type correctness, in three parts: Booleans, the run's state, the handle's. *)

BoolType ==
  /\ writing \in BOOLEAN /\ valid \in BOOLEAN /\ stop \in BOOLEAN /\ receiver \in BOOLEAN
  /\ sent \in BOOLEAN /\ bindFailed \in BOOLEAN /\ seenReady \in BOOLEAN

FlowType ==
  /\ pc \in Steps /\ file \in [{"ready", "health"} -> Contents]
  /\ binds \subseteq Addresses /\ bound \subseteq Addresses /\ radio \subseteq Facts
  /\ result \in {"none", "pass", "fail"}
  /\ orphans \subseteq Addresses /\ taken \subseteq Streams
  /\ WriteInv

AppType ==
  /\ runs \in 0..MaxRuns /\ handle \in {"none", "held"} /\ call \in Calls
  /\ polls \in 0..MaxPolls /\ content \in Contents \ {"torn"}
  /\ waited \in {"none", "ready", "exited", "timeout", "torn"}
  /\ seen \in Lifecycles \cup {"none"}
  /\ joined \in {"none", "stopped", "failed"} /\ degraded \subseteq BestEffort
  /\ CallInv

TypeInv == TypeOK /\ WriteInv /\ CallInv

LEMMA TypeParts == BoolType /\ FlowType /\ AppType => TypeInv
BY DEF BoolType, FlowType, AppType, TypeOK, TypeInv

LEMMA PartsOfType == TypeInv => BoolType /\ FlowType /\ AppType
BY DEF BoolType, FlowType, AppType, TypeOK, TypeInv

LEMMA InitType == Init => BoolType /\ FlowType /\ AppType
<1> SUFFICES ASSUME Init PROVE BoolType /\ FlowType /\ AppType
  OBVIOUS
<1> USE DEF Init
<1>1. BoolType
  BY DEF BoolType
<1>2. FlowType
  BY TableSets DEF FlowType, WriteInv
<1>3. AppType
  BY HandleAssumption, TableSets DEF AppType, Calls, CallInv
<1> QED BY <1>1, <1>2, <1>3

(* What fs::write does to the two files at a writing step. *)
LEMMA FileWrite ==
  ASSUME file \in [{"ready", "health"} -> Contents], pc \in Writers, NEW c \in Contents,
         file' = [file EXCEPT ![FileOf(pc)] = c]
  PROVE  /\ file' \in [{"ready", "health"} -> Contents]
         /\ pc = "marker" => file'["ready"] = c /\ file'["health"] = file["health"]
         /\ pc # "marker" => file'["ready"] = file["ready"] /\ file'["health"] = c
BY DEF FileOf

LEMMA BoolTypeStep ==
  ASSUME BoolType, [Next]_vars
  PROVE  BoolType'
<1> USE FlowAssumption DEF BoolType, appVars
<1>1. CASE (BeginWrite \/ EndWrite \/ ValidateStep \/ DropLocals) /\ UNCHANGED appVars
  BY <1>1 DEF BeginWrite, EndWrite, ValidateStep, DropLocals
<1>2. CASE BringUpStep /\ UNCHANGED appVars
  BY <1>2 DEF BringUpStep, OpenSession, InitStep, MonitorOpmode, TxPowerControl,
              CalibrationProfile, TxPowerAgain, RxStartupKick, BringUpFails, BringUp
<1>3. CASE DataPlaneStep /\ UNCHANGED appVars
  BY <1>3 DEF DataPlaneStep, BindSockets, SpawnReceivers, CreateForwards
<1>4. CASE LoopStep /\ UNCHANGED appVars
  BY <1>4 DEF LoopStep, LoopTransmits, LoopStops, LoopFails
<1>5. CASE (OrphanEnds /\ UNCHANGED appVars) \/ AddressTaken \/ AddressReleased \/ RequestStop
  BY <1>5 DEF OrphanEnds, AddressTaken, AddressReleased, RequestStop
<1>6. CASE Start
  BY <1>6 DEF Start, StartThread, StartFails
<1>7. CASE Calling \/ WaitStep \/ JoinStep
  BY <1>7 DEF Calling, WaitCall, HealthCall, WaitStep, JoinStep, flowVars
<1>8. CASE HealthStep
  BY <1>8 DEF HealthStep, HealthFile, HealthReady, HealthNoFile, HealthFinished, Observe,
              flowVars
<1>9. CASE UNCHANGED vars
  BY <1>9 DEF vars, flowVars
<1> QED
  BY <1>1, <1>2, <1>3, <1>4, <1>5, <1>6, <1>7, <1>8, <1>9 DEF Next, FlowStep, Done

LEMMA SameFlowType == FlowType /\ UNCHANGED flowVars => FlowType'
BY DEF FlowType, flowVars, WriteInv

LEMMA SameAppType == AppType /\ UNCHANGED appVars => AppType'
BY DEF AppType, appVars, CallInv

LEMMA FlowTypeStep ==
  ASSUME FlowType, [Next]_vars
  PROVE  FlowType'
<1> USE TableSets, ThenTable DEF FlowType, WriteInv, Writers, GoOn, FailWithHealth
<1>1. CASE BeginWrite
  <2>1. pc \in Writers /\ "torn" \in Contents
    BY <1>1 DEF BeginWrite
  <2>2. file' \in [{"ready", "health"} -> Contents]
    BY <1>1, <2>1, FileWrite DEF BeginWrite
  <2> QED BY <1>1, <2>2 DEF BeginWrite, WriteFails
<1>2. CASE EndWrite
  <2>1. pc \in Writers /\ ContentOf[pc] \in Contents
    BY <1>2 DEF EndWrite, Contents
  <2>2. file' \in [{"ready", "health"} -> Contents]
    BY <1>2, <2>1, FileWrite DEF EndWrite
  <2>3. pc' \in Steps /\ result' \in {"none", "pass", "fail"}
    BY <1>2 DEF EndWrite, WriteFails, Writers
  <2> QED BY <1>2, <2>2, <2>3 DEF EndWrite
<1>3. CASE ValidateStep \/ DropLocals
  BY <1>3 DEF ValidateStep, DropLocals
<1>4. CASE BringUpStep
  BY <1>4 DEF BringUpStep, OpenSession, InitStep, MonitorOpmode, TxPowerControl, Facts,
              CalibrationProfile, TxPowerAgain, RxStartupKick, BringUpFails, BringUp
<1>5. CASE DataPlaneStep
  BY <1>5 DEF DataPlaneStep, BindSockets, SpawnReceivers, CreateForwards
<1>6. CASE LoopStep
  BY <1>6 DEF LoopStep, LoopTransmits, LoopStops, LoopFails
<1>7. CASE OrphanEnds \/ AddressTaken \/ AddressReleased \/ RequestStop
  BY <1>7 DEF OrphanEnds, AddressTaken, AddressReleased, RequestStop
<1>8. CASE Start
  BY <1>8, FlowAssumption DEF Start, StartThread, StartFails, RemoveArtifacts, BindsWithout,
                              Addresses
<1>9. CASE UNCHANGED flowVars
  BY <1>9, SameFlowType
<1> QED
  BY <1>1, <1>2, <1>3, <1>4, <1>5, <1>6, <1>7, <1>8, <1>9
     DEF Next, FlowStep, Done, Calling, WaitStep, HealthStep, JoinStep, vars

LEMMA AppTypeStep ==
  ASSUME FlowType, AppType, [Next]_vars
  PROVE  AppType'
<1> USE HandleAssumption, TableSets DEF AppType, CallInv, Calls, Return, Idle
<1>1. CASE Start
  BY <1>1 DEF Start, StartThread, StartFails
<1>2. CASE Calling
  BY <1>2 DEF Calling, WaitCall, HealthCall
<1>3. CASE WaitStep
  BY <1>3 DEF WaitStep, WaitReadyFile, WaitFinished, WaitSleep
<1>4. CASE HealthStep
  <2>1. CASE HealthFile
    BY <1>4, <2>1 DEF HealthStep, HealthFile, FlowType
  <2>2. CASE HealthReady
    <3>1. LinkLifecycle(content) \in Lifecycles
      BY <2>2 DEF HealthReady, LinkLifecycle, Lifecycles
    <3> QED BY <1>4, <2>2, <3>1 DEF HealthStep, HealthReady, Observe
  <2>3. CASE HealthNoFile \/ HealthFinished
    BY <1>4, <2>3 DEF HealthStep, HealthNoFile, HealthFinished, Observe, Lifecycles
  <2> QED BY <1>4, <2>1, <2>2, <2>3 DEF HealthStep
<1>5. CASE JoinStep
  BY <1>5 DEF JoinStep, JoinCall, JoinReturns
<1>6. CASE UNCHANGED appVars
  BY <1>6, SameAppType
<1> QED
  BY <1>1, <1>2, <1>3, <1>4, <1>5, <1>6
     DEF Next, Done, vars, RequestStop, AddressTaken, AddressReleased

(* Type correctness of the run and its handle. *)
THEOREM TypeCorrect == Spec => []TypeInv
<1>1. Init => TypeInv
  BY InitType, TypeParts
<1>2. TypeInv /\ [Next]_vars => TypeInv'
  <2>1. BoolType /\ FlowType /\ AppType /\ [Next]_vars => BoolType' /\ FlowType' /\ AppType'
    BY BoolTypeStep, FlowTypeStep, AppTypeStep
  <2>2. BoolType' /\ FlowType' /\ AppType' => TypeInv'
    BY DEF BoolType, FlowType, AppType, TypeOK, TypeInv
  <2> QED BY <2>1, <2>2, PartsOfType
<1> QED BY <1>1, <1>2, PTL DEF Spec

-----------------------------------------------------------------------------
(* The invariant is kept by every step. *)

LEMMA InitRunInv == Init => RunInv
<1> SUFFICES ASSUME Init PROVE RunInv
  OBVIOUS
<1>1. file.health \in {"absent", "ready"}
  BY DEF Init
<1> QED BY <1>1 DEF Init, RunInv, RadioInv, MarkerInv, ReportInv, HandleInv, ObservedInv, CleanInv

(* fs::write of either file, its truncation, its end and its failures. *)
LEMMA WriteRunInv ==
  ASSUME TypeInv, RunInv, BeginWrite \/ EndWrite, UNCHANGED appVars
  PROVE  RunInv'
<1> USE TableSets, ThenTable, ContentTable DEF RunInv, GoOn, FailWithHealth, WriteFails, appVars
<1>1. /\ pc \in Writers /\ file \in [{"ready", "health"} -> Contents]
      /\ pc' \in Steps /\ file["ready"] \in Contents /\ file["health"] \in Contents
      /\ result \in {"none", "pass", "fail"}
  BY PartsOfType, FlowTypeStep DEF BeginWrite, EndWrite, FlowType, WriteInv, Next, FlowStep
<1>2. UNCHANGED <<radio, bound, receiver>>
  BY DEF BeginWrite, EndWrite
<1>3. \/ /\ BeginWrite /\ writing' = TRUE /\ ~writing /\ pc' = pc /\ result' = result
         /\ file' = [file EXCEPT ![FileOf(pc)] = "torn"]
      \/ /\ EndWrite /\ writing' = FALSE /\ writing /\ pc' = Then[pc] /\ result' = result
         /\ file' = [file EXCEPT ![FileOf(pc)] = ContentOf[pc]]
      \/ /\ WriteFails /\ file' = file
         /\ (BeginWrite /\ writing' = writing /\ ~writing) \/ (EndWrite /\ writing' = FALSE)
  BY DEF BeginWrite, EndWrite
<1>4. CASE /\ BeginWrite /\ writing' = TRUE /\ ~writing /\ pc' = pc /\ result' = result
           /\ file' = [file EXCEPT ![FileOf(pc)] = "torn"]
  <2>1. /\ pc = "marker" => file'["ready"] = "torn" /\ file'["health"] = file["health"]
        /\ pc # "marker" => file'["ready"] = file["ready"] /\ file'["health"] = "torn"
    BY <1>1, <1>4, FileWrite
  <2>2. RadioInv' /\ CleanInv' /\ HandleInv'
    BY <1>1, <1>2, <1>4 DEF RadioInv, CleanInv, HandleInv, Writers
  <2>3. MarkerInv' /\ ReportInv'
    BY <1>1, <1>2, <1>4, <2>1 DEF MarkerInv, ReportInv, Writers
  <2>4. ObservedInv'
    BY <1>1, <1>4, <2>1 DEF ObservedInv, ReportInv, Writers
  <2> QED BY <2>2, <2>3, <2>4
<1>5. CASE /\ EndWrite /\ writing' = FALSE /\ writing /\ pc' = Then[pc] /\ result' = result
           /\ file' = [file EXCEPT ![FileOf(pc)] = ContentOf[pc]]
  <2>0. ContentOf[pc] \in Contents
    BY <1>1 DEF Writers
  <2>1. /\ pc = "marker" => file'["ready"] = ContentOf[pc] /\ file'["health"] = file["health"]
        /\ pc # "marker" => file'["ready"] = file["ready"] /\ file'["health"] = ContentOf[pc]
    BY <1>1, <1>5, <2>0, FileWrite
  <2>2. RadioInv' /\ CleanInv' /\ HandleInv'
    BY <1>1, <1>2, <1>5 DEF RadioInv, CleanInv, HandleInv, Writers
  <2>3. MarkerInv'
    BY <1>1, <1>2, <1>5, <2>1 DEF MarkerInv, ReportInv, RadioInv, Writers
  <2>4. ReportInv'
    BY <1>1, <1>2, <1>5, <2>1 DEF ReportInv, Writers
  <2>5. ObservedInv'
    BY <1>1, <1>5, <2>1 DEF ObservedInv, ReportInv, Writers
  <2> QED BY <2>2, <2>3, <2>4, <2>5
<1>6. CASE /\ WriteFails /\ file' = file
           /\ (BeginWrite /\ writing' = writing /\ ~writing) \/ (EndWrite /\ writing' = FALSE)
  <2>1. pc' \in {"exitFail", "drop"} /\ result' = "fail"
    BY <1>6
  <2>2. RadioInv' /\ CleanInv' /\ HandleInv' /\ ReportInv'
    BY <1>1, <1>2, <1>6, <2>1 DEF RadioInv, CleanInv, HandleInv, ReportInv, Writers
  <2>3. MarkerInv'
    BY <1>1, <1>2, <1>6, <2>1 DEF MarkerInv, RadioInv, ReportInv, Writers
  <2>4. ObservedInv'
    BY <1>1, <1>6, <2>1 DEF ObservedInv, ReportInv, Writers
  <2> QED BY <2>2, <2>3, <2>4
<1> QED BY <1>3, <1>4, <1>5, <1>6

(* Validation, bring-up and the loop's frames: no file is touched. *)
LEMMA BringUpRunInv ==
  ASSUME TypeInv, RunInv, BringUpStep \/ ValidateStep, UNCHANGED appVars
  PROVE  RunInv'
<1> USE ThenTable, FlowAssumption DEF RunInv, GoOn, FailWithHealth, BringUp, appVars
<1>0. UNCHANGED <<writing, file, bound, receiver>>
  BY DEF BringUpStep, ValidateStep
<1>1. CASE ValidateStep
  BY <1>1 DEF ValidateStep, RadioInv, MarkerInv, ReportInv, HandleInv, ObservedInv, CleanInv
<1>2. CASE OpenSession \/ InitStep \/ MonitorOpmode
  <2>1. RadioInv'
    BY <1>2 DEF OpenSession, InitStep, MonitorOpmode, RadioInv
  <2> QED
    BY <1>0, <1>2, <2>1 DEF OpenSession, InitStep, MonitorOpmode, MarkerInv, ReportInv,
                            HandleInv, ObservedInv, CleanInv
<1>3. CASE TxPowerControl \/ CalibrationProfile \/ TxPowerAgain
  <2>1. RadioInv'
    BY <1>3 DEF TxPowerControl, CalibrationProfile, TxPowerAgain, RadioInv, Power, Calibrated,
                Prepared
  <2> QED
    BY <1>0, <1>3, <2>1 DEF TxPowerControl, CalibrationProfile, TxPowerAgain, MarkerInv,
                            ReportInv, HandleInv, ObservedInv, CleanInv
<1>4. CASE RxStartupKick
  <2>1. ~writing
    BY <1>4 DEF RxStartupKick, TypeInv, WriteInv, Writers
  <2> QED
    BY <1>0, <1>4, <2>1 DEF RxStartupKick, RadioInv, MarkerInv, ReportInv, HandleInv,
                            ObservedInv, CleanInv
<1>5. CASE BringUpFails
  <2>1. pc \in {"open", "init", "monitor", "power", "calibrate", "repower", "kick"}
    BY <1>5 DEF BringUpFails, CanFail
  <2> QED
    BY <1>0, <1>5, <2>1 DEF BringUpFails, RadioInv, MarkerInv, ReportInv, HandleInv,
                            ObservedInv, CleanInv
<1> QED BY <1>1, <1>2, <1>3, <1>4, <1>5 DEF BringUpStep

(* The data plane, the loop and the end of the scopes. *)
LEMMA DataPlaneRunInv ==
  ASSUME TypeInv, RunInv, DataPlaneStep \/ LoopStep \/ DropLocals, UNCHANGED appVars
  PROVE  RunInv'
<1> USE ThenTable DEF RunInv, GoOn, FailWithHealth, appVars
<1>0. UNCHANGED <<writing, file>>
  BY DEF DataPlaneStep, LoopStep, DropLocals
<1>1. CASE DataPlaneStep
  <2>1. /\ pc \in {"bind", "spawn", "forwards"} /\ UNCHANGED radio
        /\ \/ pc' = Then[pc] /\ result' = result
           \/ pc' = "exitFail" /\ result' = "fail"
    BY <1>1 DEF DataPlaneStep, BindSockets, SpawnReceivers, CreateForwards
  <2> QED
    BY <1>0, <2>1 DEF RadioInv, MarkerInv, ReportInv, HandleInv, ObservedInv, CleanInv
<1>2. CASE LoopStep
  BY <1>0, <1>2 DEF LoopStep, LoopTransmits, LoopStops, LoopFails, RadioInv, MarkerInv,
                    ReportInv, HandleInv, ObservedInv, CleanInv
<1>3. CASE DropLocals
  <2>1. ~writing
    BY <1>3 DEF DropLocals, TypeInv, WriteInv, Writers
  <2> QED
    BY <1>0, <1>3, <2>1 DEF DropLocals, RadioInv, MarkerInv, ReportInv, HandleInv, ObservedInv,
                    CleanInv
<1> QED BY <1>1, <1>2, <1>3

(* A start, whose removals make the old files unreadable before the thread runs. *)
LEMMA StartRunInv ==
  ASSUME TypeInv, RunInv, Start
  PROVE  RunInv'
<1> USE DEF RunInv, Start
<1>0. file \in [{"ready", "health"} -> Contents] /\ call = "idle" /\ content = "absent"
  BY DEF TypeInv, TypeOK, CallInv, HandleInv
<1>1. CASE StartThread
  <2>1. file'["ready"] = "absent" /\ file'["health"] = "absent"
    BY <1>1 DEF StartThread, RemoveArtifacts
  <2> QED
    BY <1>0, <1>1, <2>1 DEF StartThread, RadioInv, MarkerInv, ReportInv, HandleInv, ObservedInv,
                            CleanInv
<1>2. CASE StartFails
  <2>1. file'["health"] = file["health"]
    BY <1>0, <1>2 DEF StartFails
  <2> QED
    BY <1>0, <1>2, <2>1 DEF StartFails, RadioInv, MarkerInv, ReportInv, HandleInv, ObservedInv,
                            CleanInv
<1> QED BY <1>1, <1>2

(* The handle's calls, which only read the run. *)
LEMMA CallRunInv ==
  ASSUME TypeInv, RunInv, Calling \/ WaitStep \/ HealthStep \/ JoinStep
  PROVE  RunInv'
<1> USE DEF RunInv, Return, Idle
<1>0. UNCHANGED flowVars /\ RadioInv' /\ MarkerInv' /\ ReportInv' /\ CleanInv'
  BY DEF Calling, WaitStep, HealthStep, JoinStep, flowVars, RadioInv, MarkerInv, ReportInv,
         CleanInv
<1>1. CASE Calling
  BY <1>0, <1>1 DEF Calling, WaitCall, HealthCall, flowVars, HandleInv, ObservedInv
<1>2. CASE WaitStep
  BY <1>0, <1>2 DEF WaitStep, WaitReadyFile, WaitFinished, WaitSleep, flowVars, HandleInv,
                    ObservedInv
<1>3. CASE HealthStep
  <2>0. HandleInv'
    BY <1>0, <1>3 DEF HealthStep, HealthFile, HealthReady, HealthNoFile, HealthFinished,
                      flowVars, HandleInv
  <2>1. CASE HealthFile
    BY <1>0, <1>3, <2>0, <2>1 DEF HealthStep, HealthFile, flowVars, ObservedInv, MarkerInv
  <2>2. CASE HealthReady
    <3>1. /\ LinkLifecycle(content) = "stopped" => content = "exited_pass"
          /\ LinkLifecycle(content) = "ready" => content = "ready"
      BY <2>2, TableSets DEF HealthReady, LinkLifecycle, TypeInv, TypeOK, CallInv
    <3> QED
      BY <1>0, <1>3, <2>0, <2>2, <3>1 DEF HealthStep, HealthReady, Observe, flowVars,
                                          ObservedInv, MarkerInv
  <2>3. CASE HealthNoFile
    BY <1>0, <1>3, <2>0, <2>3 DEF HealthStep, HealthNoFile, Observe, flowVars, ObservedInv
  <2>4. CASE HealthFinished
    BY <1>0, <1>3, <2>0, <2>4 DEF HealthStep, HealthFinished, Observe, flowVars, ObservedInv
  <2> QED BY <1>3, <2>1, <2>2, <2>3, <2>4 DEF HealthStep
<1>4. CASE JoinStep
  BY <1>0, <1>4 DEF JoinStep, JoinCall, JoinReturns, IsFinished, flowVars, HandleInv,
                    ObservedInv
<1> QED BY <1>1, <1>2, <1>3, <1>4

LEMMA RunInvStep == TypeInv /\ RunInv /\ [Next]_vars => RunInv'
<1> SUFFICES ASSUME TypeInv, RunInv, [Next]_vars PROVE RunInv'
  OBVIOUS
<1>1. CASE FlowStep /\ UNCHANGED appVars
  BY <1>1, WriteRunInv, BringUpRunInv, DataPlaneRunInv DEF FlowStep
<1>2. CASE Start
  BY <1>2, StartRunInv
<1>3. CASE Calling \/ WaitStep \/ HealthStep \/ JoinStep
  BY <1>3, CallRunInv
<1>4. CASE \/ (OrphanEnds /\ UNCHANGED appVars) \/ AddressTaken \/ AddressReleased
           \/ RequestStop \/ UNCHANGED vars
  BY <1>4 DEF OrphanEnds, AddressTaken, AddressReleased, RequestStop, vars, flowVars, appVars,
              RunInv, RadioInv, MarkerInv, ReportInv, HandleInv, ObservedInv, CleanInv
<1> QED BY <1>1, <1>2, <1>3, <1>4 DEF Next, Done

(* What RunInv says of every reachable state. *)
LEMMA RunInvariant == Spec => []RunInv
BY InitRunInv, RunInvStep, TypeCorrect, PTL DEF Spec

-----------------------------------------------------------------------------
(* What the handle promises. *)

(* When wait_ready or health() has said ready, this run's adapter is prepared,  *)
(* for every feature combination and any number of restarts over the same files. *)
THEOREM ReadyIsPrepared == Spec => []ReadyMeansPrepared
<1>1. TypeInv /\ RunInv => ReadyMeansPrepared
  <2> SUFFICES ASSUME TypeInv, RunInv, waited = "ready" \/ seenReady, pc # "returned"
               PROVE  Prepared \subseteq radio
    BY DEF ReadyMeansPrepared, IsFinished
  <2>1. file.ready # "absent"
    BY DEF RunInv, ObservedInv
  <2> QED
    BY <2>1, TableSets DEF TypeInv, TypeOK, RunInv, MarkerInv, RadioInv
<1> QED BY <1>1, TypeCorrect, RunInvariant, PTL

(* join's verdict and the health file agree, whatever the last health write did. *)
THEOREM JoinAgrees == Spec => []HealthAndJoinAgree
<1>1. RunInv => HealthAndJoinAgree
  BY DEF RunInv, ReportInv, HandleInv, ObservedInv, HealthAndJoinAgree
<1> QED BY <1>1, RunInvariant, PTL

(* A run that got past its binds listens where no detached thread does. *)
SoleInv ==
  pc \in {"spawn", "forwards", "loop"} \/ result = "pass" => binds \cap Lingering = {}

LEMMA SoleInvStep ==
  ASSUME TypeInv, RunInv, SoleInv, [Next]_vars
  PROVE  SoleInv'
<1> USE ThenTable, TableSets DEF SoleInv, Lingering, GoOn, FailWithHealth
<1>1. CASE UNCHANGED <<binds, orphans>> /\ pc' \notin {"spawn", "forwards", "loop"}
           /\ (result' = result \/ result' # "pass")
  BY <1>1
<1>2. CASE BeginWrite \/ EndWrite
  <2>1. pc \in Writers /\ UNCHANGED <<binds, orphans>>
    BY <1>2, PartsOfType DEF BeginWrite, EndWrite, FlowType, WriteInv
  <2>2. pc' = pc \/ pc' = Then[pc] \/ pc' \in {"exitFail", "drop"}
    BY <1>2 DEF BeginWrite, EndWrite, WriteFails
  <2>3. result' = result \/ result' = "fail"
    BY <1>2 DEF BeginWrite, EndWrite, WriteFails
  <2> QED BY <1>1, <2>1, <2>2, <2>3 DEF Writers
<1>3. CASE ValidateStep \/ BringUpStep \/ DropLocals
  BY <1>1, <1>3 DEF ValidateStep, DropLocals, BringUpStep, OpenSession, InitStep, MonitorOpmode,
     TxPowerControl, CalibrationProfile, TxPowerAgain, RxStartupKick, BringUpFails, BringUp, CanFail
<1>4. CASE DataPlaneStep
  <2>1. CASE BindSockets
    <3>1. binds' = binds /\ orphans' = orphans
      BY <1>4, <2>1 DEF DataPlaneStep, BindSockets
    <3>2. binds \cap Unavailable = {} \/ (pc' = "exitFail" /\ result' = "fail")
      BY <2>1 DEF BindSockets
    <3> QED BY <3>1, <3>2 DEF Unavailable
  <2>2. CASE SpawnReceivers
    BY <1>4, <2>2 DEF DataPlaneStep, SpawnReceivers
  <2>3. CASE CreateForwards
    BY <1>4, <2>3 DEF DataPlaneStep, CreateForwards
  <2> QED BY <1>4, <2>1, <2>2, <2>3 DEF DataPlaneStep
<1>5. CASE LoopStep
  BY <1>5 DEF LoopStep, LoopTransmits, LoopStops, LoopFails
<1>6. CASE OrphanEnds
  BY <1>6 DEF OrphanEnds
<1>7. CASE Start
  BY <1>7 DEF Start, StartThread, StartFails
<1>8. CASE AddressTaken \/ AddressReleased \/ RequestStop \/ UNCHANGED flowVars
  BY <1>8 DEF AddressTaken, AddressReleased, RequestStop, flowVars
<1> QED
  BY <1>2, <1>3, <1>4, <1>5, <1>6, <1>7, <1>8
     DEF Next, FlowStep, Done, Calling, WaitStep, HealthStep, JoinStep, vars

(* A clean stop frees its addresses, for any set of streams, after any history of *)
(* failed runs and detached receiver threads.                                     *)
THEOREM StopFreesAddresses == Spec => []StoppedFreesAddresses
<1>1. Init => SoleInv
  BY DEF Init, SoleInv, Lingering
<1>2. RunInv /\ SoleInv => StoppedFreesAddresses
  BY DEF RunInv, HandleInv, CleanInv, SoleInv, StoppedFreesAddresses
<1> QED BY <1>1, <1>2, SoleInvStep, TypeCorrect, RunInvariant, PTL DEF Spec

-----------------------------------------------------------------------------
(* The run implements LinkContract under ContractPhase. *)

(* A step of a running thread that leaves adapter and marker's readiness alone *)
(* does not move the phase.                                                    *)
LEMMA SamePhase ==
  ASSUME pc # "returned", pc' # "returned", radio' = radio,
         file'["ready"] = "ready" <=> file["ready"] = "ready"
  PROVE  ContractPhase' = ContractPhase
BY DEF ContractPhase

(* fs::write: only the marker's last byte is seen, as Announce. *)
LEMMA WriteImplements ==
  ASSUME TypeInv, RunInv, BeginWrite \/ EndWrite
  PROVE  [Contract!ContractNext]_Contract!contractVars
<1> USE TableSets, ThenTable, ContentTable DEF RunInv, GoOn, FailWithHealth, WriteFails
<1>1. /\ pc \in Writers /\ file \in [{"ready", "health"} -> Contents]
      /\ radio' = radio /\ sent' = sent
  BY PartsOfType DEF BeginWrite, EndWrite, FlowType, WriteInv
<1>2. pc # "returned" /\ pc' # "returned"
  BY <1>1 DEF BeginWrite, EndWrite, Writers
<1>3. CASE pc # "marker" \/ file' = file
  <2>1. file'["ready"] = file["ready"]
    BY <1>1, <1>3 DEF BeginWrite, EndWrite, FileOf
  <2> QED BY <1>1, <1>2, <2>1, SamePhase DEF Contract!contractVars
<1>4. CASE pc = "marker" /\ BeginWrite /\ file' = [file EXCEPT ![FileOf(pc)] = "torn"]
  <2>1. file'["ready"] = "torn" /\ file["ready"] # "ready"
    BY <1>1, <1>4 DEF BeginWrite, FileOf, MarkerInv
  <2> QED BY <1>1, <1>2, <2>1, SamePhase DEF Contract!contractVars
<1>5. CASE pc = "marker" /\ EndWrite /\ file' = [file EXCEPT ![FileOf(pc)] = ContentOf[pc]]
  <2>1. file'["ready"] = "ready" /\ file["ready"] # "ready" /\ radio = Prepared
    BY <1>1, <1>5 DEF EndWrite, FileOf, MarkerInv, RadioInv
  <2>2. ContractPhase = "prepared" /\ ContractPhase' = "ready"
    BY <1>2, <2>1 DEF ContractPhase
  <2> QED BY <1>1, <2>2 DEF Contract!ContractNext, Contract!Announce
<1> QED BY <1>3, <1>4, <1>5 DEF BeginWrite, EndWrite

(* Bring-up: the step that completes the configured facts is Prepare, the kick  *)
(* is the first Transmit.                                                       *)
LEMMA BringUpImplements ==
  ASSUME TypeInv, RunInv, BringUpStep
  PROVE  [Contract!ContractNext]_Contract!contractVars
<1> USE ThenTable, FlowAssumption DEF RunInv, GoOn, FailWithHealth, BringUp
<1>1. file' = file
  BY DEF BringUpStep
<1>2. CASE OpenSession \/ InitStep \/ MonitorOpmode
  <2>1. /\ pc # "returned" /\ pc' # "returned" /\ sent' = sent /\ file["ready"] = "absent"
        /\ ~(Prepared \subseteq radio)
    BY <1>2 DEF OpenSession, InitStep, MonitorOpmode, RadioInv, MarkerInv, Prepared
  <2>2. ContractPhase = "starting" /\ ContractPhase' \in {"starting", "prepared"}
    BY <1>1, <2>1 DEF ContractPhase
  <2> QED BY <2>1, <2>2 DEF Contract!ContractNext, Contract!Prepare, Contract!contractVars
<1>3. CASE TxPowerControl \/ CalibrationProfile \/ TxPowerAgain
  <2>1. /\ pc # "returned" /\ pc' # "returned" /\ sent' = sent /\ file["ready"] = "absent"
        /\ ~(Prepared \subseteq radio) \/ radio' = radio
    BY <1>3 DEF TxPowerControl, CalibrationProfile, TxPowerAgain, RadioInv, MarkerInv, Prepared,
                Power, Calibrated
  <2>2. CASE ~(Prepared \subseteq radio)
    <3>1. ContractPhase = "starting" /\ ContractPhase' \in {"starting", "prepared"}
      BY <1>1, <2>1, <2>2 DEF ContractPhase
    <3> QED BY <2>1, <3>1 DEF Contract!ContractNext, Contract!Prepare, Contract!contractVars
  <2>3. CASE radio' = radio
    BY <1>1, <2>1, <2>3, SamePhase DEF Contract!contractVars
  <2> QED BY <2>1, <2>2, <2>3
<1>4. CASE RxStartupKick \/ BringUpFails
  <2>1. /\ pc # "returned" /\ pc' # "returned" /\ radio' = radio
        /\ sent' = sent \/ (pc = "kick" /\ sent' = TRUE)
    <3>1. RxForwards \in BOOLEAN /\ sent \in BOOLEAN
      BY DEF TypeInv, TypeOK
    <3>2. sent' = (sent \/ RxForwards) => sent' = sent \/ sent' = TRUE
      BY <3>1
    <3> QED BY <1>4, <3>2 DEF RxStartupKick, BringUpFails, CanFail
  <2>2. ContractPhase' = ContractPhase
    BY <1>1, <2>1, SamePhase
  <2>3. pc = "kick" => ContractPhase = "prepared"
    BY DEF ContractPhase, RadioInv, MarkerInv
  <2> QED
    BY <2>1, <2>2, <2>3 DEF Contract!ContractNext, Contract!Transmit, Contract!contractVars
<1> QED BY <1>2, <1>3, <1>4 DEF BringUpStep

(* The data plane, whose frames are Transmit, and the end of the thread. *)
LEMMA DataPlaneImplements ==
  ASSUME TypeInv, RunInv, ValidateStep \/ DataPlaneStep \/ LoopStep \/ DropLocals
  PROVE  [Contract!ContractNext]_Contract!contractVars
<1> USE ThenTable DEF RunInv, GoOn, FailWithHealth
<1>1. CASE ValidateStep \/ DataPlaneStep
  <2>1. UNCHANGED <<file, radio, sent>> /\ pc # "returned" /\ pc' # "returned"
    BY <1>1 DEF ValidateStep, DataPlaneStep, BindSockets, SpawnReceivers, CreateForwards
  <2> QED BY <2>1, SamePhase DEF Contract!contractVars
<1>2. CASE LoopStep
  <2>1. /\ UNCHANGED <<file, radio>> /\ pc = "loop" /\ pc' # "returned"
        /\ sent' = sent \/ sent' = TRUE
    BY <1>2 DEF LoopStep, LoopTransmits, LoopStops, LoopFails
  <2>2. ContractPhase = "ready" /\ ContractPhase' = ContractPhase
    BY <2>1, SamePhase DEF ContractPhase, MarkerInv
  <2> QED BY <2>1, <2>2 DEF Contract!ContractNext, Contract!Transmit, Contract!contractVars
<1>3. CASE DropLocals
  <2>1. pc = "drop" /\ pc' = "returned" /\ result' = result /\ sent' = sent
    BY <1>3 DEF DropLocals
  <2>2. result \in {"pass", "fail"} /\ (result = "pass" => file["ready"] = "ready")
    BY <2>1 DEF TypeInv, TypeOK, ReportInv, MarkerInv
  <2>3. /\ result = "pass" => ContractPhase = "ready" /\ ContractPhase' = "stopped"
        /\ result = "fail" => /\ ContractPhase \in {"starting", "prepared", "ready"}
                              /\ ContractPhase' = "failed"
    BY <2>1, <2>2 DEF ContractPhase
  <2> QED
    BY <2>1, <2>2, <2>3 DEF Contract!ContractNext, Contract!EndWell, Contract!EndBadly,
                            Contract!Ended
<1> QED BY <1>1, <1>2, <1>3

(* A start begins a new run of the contract, or nothing when it fails. *)
LEMMA StartImplements ==
  ASSUME TypeInv, RunInv, Start
  PROVE  [Contract!ContractNext]_Contract!contractVars
<1>1. pc = "returned" /\ radio = {} /\ radio' = radio /\ result \in {"none", "pass", "fail"}
  BY DEF Start, TypeInv, TypeOK, RunInv, HandleInv, RadioInv
<1>2. CASE StartThread
  <2>1. ContractPhase \in {"idle", "stopped", "failed"}
    BY <1>1 DEF ContractPhase
  <2>2. ContractPhase' = "starting"
    BY <1>1, <1>2 DEF StartThread, RemoveArtifacts, ContractPhase, Prepared
  <2> QED
    BY <1>2, <2>1, <2>2 DEF StartThread, Contract!ContractNext, Contract!StartRun,
                            Contract!Ended
<1>3. CASE StartFails
  BY <1>1, <1>3 DEF StartFails, ContractPhase, Contract!contractVars
<1> QED BY <1>2, <1>3 DEF Start

LEMMA StepImplements ==
  TypeInv /\ RunInv /\ [Next]_vars => [Contract!ContractNext]_Contract!contractVars
<1> SUFFICES ASSUME TypeInv, RunInv, [Next]_vars
             PROVE  [Contract!ContractNext]_Contract!contractVars
  OBVIOUS
<1>1. CASE FlowStep
  BY <1>1, WriteImplements, BringUpImplements, DataPlaneImplements DEF FlowStep
<1>2. CASE Start
  BY <1>2, StartImplements
<1>3. CASE \/ Calling \/ WaitStep \/ HealthStep \/ JoinStep \/ OrphanEnds \/ AddressTaken
           \/ AddressReleased \/ RequestStop \/ UNCHANGED vars
  <2>1. UNCHANGED <<pc, file, radio, result, sent>>
    BY <1>3 DEF Calling, WaitStep, HealthStep, JoinStep, OrphanEnds, AddressTaken,
                AddressReleased, RequestStop, vars, flowVars
  <2> QED BY <2>1 DEF ContractPhase, Contract!contractVars
<1> QED BY <1>1, <1>2, <1>3 DEF Next, Done

(* Every run implements the contract: nothing on the air before the adapter is  *)
(* prepared for the configuration at hand, ready announced once, Stopped only    *)
(* after ready.                                                                  *)
THEOREM RunImplementsContract == Spec => ImplementsContract
<1>1. Init => Contract!ContractInit
  BY DEF Init, Contract!ContractInit, ContractPhase
<1> QED
  BY <1>1, StepImplements, TypeCorrect, RunInvariant, PTL
     DEF Spec, ImplementsContract, Contract!ContractSpec
=============================================================================
