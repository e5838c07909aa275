-------------------------------- MODULE BringUp --------------------------------
(* Bring-up of one adapter over several sessions, from the first register write  *)
(* to live traffic: initialization, monitor mode, TX power, the calibration      *)
(* profile and its gate, TX power again and the RX startup kick.  A session may  *)
(* be killed between any two transfers; the adapter then keeps what was written. *)
EXTENDS Initialization, Calibration

VARIABLE flow     \* next stage of the flow, or "live" or "refused"

vars == <<initializationVars, calibrationVars, controlVars, flow>>

Init ==
  /\ config \in Configs /\ profile \in Profiles
  /\ session = 1 /\ warm = FALSE /\ i = 0 /\ attempt = 0 /\ verified = FALSE
  /\ IF NeedsAuthorization(profile) /\ ~config.authorized
     THEN status = "failed" /\ at = 0 /\ step = "none"
     ELSE status = "running" /\ at = 1 /\ step = FirstStep["PowerOn"]
  /\ ColdAdapter /\ NotCalibrating /\ faults = 0 /\ flow = "init"

Initialize == flow = "init" /\ Phase /\ UNCHANGED <<calibrationVars, flow>>

InitDone ==
  /\ flow = "init" /\ status \in {"ready", "failed"}
  /\ flow' = IF status = "ready" THEN "opmode" ELSE "refused"
  /\ UNCHANGED <<initializationVars, calibrationVars, controlVars>>

(* A stage whose writes nothing here tells apart. *)
Stage(name, next) ==
  /\ flow = name
  /\ Try(TRUE, TRUE, flow' = next, flow' = "refused")
  /\ UNCHANGED <<initializationVars, calibrationVars, txpause>>

MonitorOpmode == Stage("opmode", IF config.power THEN "power" ELSE "profile")
TxPowerControl == Stage("power", "profile")

CalibrationProfile ==
  /\ flow = "profile" /\ outcome = "none"
  /\ \/ StartProfile(config.channel36)
     \/ stage # "none" /\ Calibrate
  /\ UNCHANGED <<initializationVars, flow>>

AfterGate == IF config.kick THEN "kick" ELSE "live"

Gate ==
  /\ flow = "profile" /\ outcome # "none"
  /\ flow' = IF outcome = "refuse" THEN "refused"
             ELSE IF config.power /\ profile # "CurrentDefault" THEN "repower" ELSE AfterGate
  /\ UNCHANGED <<initializationVars, calibrationVars, controlVars>>

TxPowerAgain == Stage("repower", AfterGate)
RxStartupKick == Stage("kick", "live")

Restart ==
  /\ NewSession(NeedsAuthorization(profile))
  /\ ForgetCalibration /\ flow' = "init"
  /\ UNCHANGED profile

Next ==
  \/ Initialize \/ InitDone \/ MonitorOpmode \/ TxPowerControl \/ CalibrationProfile \/ Gate
  \/ TxPowerAgain \/ RxStartupKick \/ Restart

(* Every step of a session is a call that returns: transfers time out and polls *)
(* are bounded.                                                                  *)
Fairness ==
  WF_vars(Initialize \/ InitDone \/ MonitorOpmode \/ TxPowerControl \/ CalibrationProfile \/ Gate
          \/ TxPowerAgain \/ RxStartupKick)

Spec == Init /\ [][Next]_vars /\ Fairness

-----------------------------------------------------------------------------
(* Properties. *)

(* Traffic starts only on an adapter whose firmware, link table and EFUSE grant *)
(* this session left as it should, and only past the gate: for the I/Q profile   *)
(* every one of the four stages succeeded.  Unless an earlier sweep of the run    *)
(* failed to restore, the destructive setup is gone and the TX queues run.        *)
LiveMeansCalibrated ==
  flow = "live" =>
    /\ status = "ready" /\ outcome = "pass"
    /\ profile = "RuntimeIqk" => \A s \in DOMAIN stages : stages[s] = "success"
    /\ ~unrestored => Restored /\ txpause = "run"

(* Traffic starts only with the destructive calibration setup undone: the docs   *)
(* say runtime IQK fails closed before live TX when cleanup is not restored.      *)
LiveMeansRestored == flow = "live" => Restored

(* Every session's bring-up ends, live or refused, or the session is replaced. *)
BringUpEnds == [](flow # "live" /\ flow # "refused" => <>(flow \in {"live", "refused"}))
=============================================================================
