----------------------------- MODULE LedHeartbeat -----------------------------
(***************************************************************************)
(* The LED heartbeat (led_heartbeat.rs): state_on and next_toggle_at of     *)
(* LedHeartbeat, the adapter's register REG_LEDCFG0 that its USB writes     *)
(* reach, and the write counters.  A write may fail: then only the counters *)
(* know, and the register keeps what it had.                                *)
(***************************************************************************)
EXTENDS Naturals

CONSTANTS HeartbeatEnabled,   \* LedHeartbeatConfig.enabled
          HalfPeriod          \* LedHeartbeatConfig.half_period_ms

ASSUME HeartbeatAssumption ==
  /\ HeartbeatEnabled \in BOOLEAN
  /\ HalfPeriod \in Nat
  /\ HeartbeatEnabled => HalfPeriod > 0     \* what validate leaves (50..5000)

VARIABLES stateOn,        \* LedHeartbeat.state_on
          nextToggleAt,   \* LedHeartbeat.next_toggle_at
          ledRegister,    \* REG_LEDCFG0 in the adapter
          toggles,        \* LedHeartbeatCounters; attempted is the sum of the two
          lastWrite,      \* history: how the last USB write went
          toggledAt       \* history: when the heartbeat last toggled

hbVars == <<stateOn, nextToggleAt, ledRegister, toggles, lastWrite, toggledAt>>

HbTypeOK ==
  /\ nextToggleAt \in Nat
  /\ ledRegister \in {"on", "off"}
  /\ toggles \in [succeeded : Nat, failed : Nat]
  /\ lastWrite \in {"ok", "failed"}
  /\ toggledAt \in Nat

(* LedHeartbeat::new(config, started); bring-up leaves the LED either way,   *)
(* which matters only to a heartbeat that is enabled.                        *)
HbInit(started) ==
  /\ stateOn = FALSE
  /\ nextToggleAt = started + HalfPeriod
  /\ ledRegister \in IF HeartbeatEnabled THEN {"on", "off"} ELSE {"off"}
  /\ toggles = [succeeded |-> 0, failed |-> 0]
  /\ lastWrite = "ok"
  /\ toggledAt = started

write_register(value) ==
  \/ /\ ledRegister' = value
     /\ toggles' = [toggles EXCEPT !.succeeded = @ + 1]
     /\ lastWrite' = "ok"
  \/ /\ ledRegister' = ledRegister
     /\ toggles' = [toggles EXCEPT !.failed = @ + 1]
     /\ lastWrite' = "failed"

(* Mutant: catch up with the missed toggles. *)
maybe_toggle_catch_up(now) ==
  IF HeartbeatEnabled /\ now >= nextToggleAt
  THEN /\ stateOn' = ~stateOn
       /\ nextToggleAt' = nextToggleAt + HalfPeriod
       /\ write_register(IF stateOn THEN "off" ELSE "on")
       /\ toggledAt' = now
  ELSE UNCHANGED hbVars

(* The next toggle is scheduled from now, not from the previous one. *)
maybe_toggle(now) ==
  IF HeartbeatEnabled /\ now >= nextToggleAt
  THEN /\ stateOn' = ~stateOn
       /\ nextToggleAt' = now + HalfPeriod
       /\ write_register(IF stateOn THEN "off" ELSE "on")
       /\ toggledAt' = now
  ELSE UNCHANGED hbVars

(* Mutant: the LED is left as it is. *)
turn_off_forgotten == UNCHANGED hbVars

turn_off ==
  IF HeartbeatEnabled
  THEN /\ stateOn' = FALSE
       /\ UNCHANGED <<nextToggleAt, toggledAt>>
       /\ write_register("off")
  ELSE UNCHANGED hbVars
=============================================================================
