------------------------------ MODULE DiagCommand ------------------------------
(* wfb-radio-diag commands run one after another on one adapter.  The adapter   *)
(* keeps what a command wrote; a command may fail at any step, be killed between *)
(* any two steps, or be started in any order on whatever the ones before left.   *)
EXTENDS DiagPlans

CONSTANTS MaxCommands, MaxFaults     \* bounds on commands, and on failures and kills

ASSUME DiagBounds == MaxCommands \in Nat /\ MaxFaults \in Nat

VARIABLES
  cmd,        \* the running command or "none"
  opts,       \* its options
  pc, at,     \* position in its plan and the step there; 0 and NoStep when none is left
  failed,     \* phase of the failure to be reported, "" if there is none
  failing,    \* a failure will be reported
  kept,       \* layer of an error that is reported after the steps that run all the same
  quiet,      \* layers silenced by an error that is only recorded
  acked,      \* flags the command found set
  held,       \* the adapter is claimed
  ran,        \* phases with a completed step
  fresh,      \* facts this command established and the adapter still has
  stuck,      \* facts a failed write of this command was to withdraw
  chip,       \* facts that hold of the adapter
  commands, faults

process == <<cmd, opts, pc, at, failed, failing, kept, quiet, acked, held, ran, fresh, stuck>>
vars == <<process, chip, commands, faults>>

NoStep == Step("none", "none", <<>>)

Initialized ==
  {"cr", "ram", "fw", "llt", "queue", "mac", "bbfunc", "bb", "rf", "chan", "tail"}

(* A chip just plugged in, or initialized on either band. *)
Init ==
  /\ cmd = "none" /\ opts = {} /\ pc = 0 /\ at = NoStep /\ failed = "" /\ failing = FALSE
  /\ kept = "none" /\ quiet = {} /\ acked = {} /\ held = FALSE /\ ran = {} /\ fresh = {}
  /\ stuck = {}
  /\ chip \in {{}, Initialized, Initialized \cup {"mark5"}} /\ commands = 0 /\ faults = 0

Runs(step, o, k, q) ==
  /\ step.when \subseteq o /\ step.unless \cap o = {}
  /\ k = "none" \/ step.after = k
  /\ step.layer \notin q

(* On to the first step after position p that runs. *)
Proceed(plan, o, k, q, p) ==
  LET RunsAt(n) == Runs(plan[n], o, k, q)
      next == CHOOSE n \in (p + 1)..Len(plan) :
                RunsAt(n) /\ \A m \in (p + 1)..(n - 1) : ~RunsAt(m)
  IN IF \E n \in (p + 1)..Len(plan) : RunsAt(n)
     THEN pc' = next /\ at' = plan[next]
     ELSE pc' = 0 /\ at' = NoStep

(* None, one, all but one, or all of a command's options. *)
OptionSets(c) ==
  LET all == Options(c)
  IN {{}, all} \cup {{x} : x \in all} \cup {all \ {x} : x \in all}

Start ==
  /\ cmd = "none" /\ commands < MaxCommands
  /\ \E c \in DOMAIN Plans : \E o \in OptionSets(c) :
       /\ cmd' = c /\ opts' = WithProbe(o)
       /\ Proceed(Plans[c], WithProbe(o), "none", {}, 0)
  /\ commands' = commands + 1 /\ chip' = chip \ {"agc", "cal"}
  /\ UNCHANGED <<failed, failing, kept, quiet, acked, held, ran, fresh, stuck, faults>>

Effect(facts) == (facts \ at.clears) \cup at.sets
Jumps ==
  \/ at.jump = "always"
  \/ at.jump = "lacks" /\ at.fact \notin chip

Succeed ==
  /\ pc # 0 /\ at.needs \subseteq chip
  /\ chip' = Effect(chip) /\ fresh' = Effect(fresh)
  /\ acked' = IF at.do = "ack" THEN acked \cup Range(at.what) ELSE acked
  /\ held' = (held \/ at.do = "claim")
  /\ ran' = IF at.phase = "none" THEN ran ELSE ran \cup {at.phase}
  /\ Proceed(Plans[cmd], opts, kept, quiet, IF Jumps THEN pc + at.skip ELSE pc)
  /\ UNCHANGED <<cmd, opts, failed, failing, kept, quiet, stuck, commands, faults>>

(* A preflight that finds a fact missing fails by itself; any other failure is a *)
(* fault, and a transfer that failed may still have had its effect.              *)
CountFault == IF at.needs \subseteq chip THEN faults < MaxFaults /\ faults' = faults + 1
              ELSE UNCHANGED faults

HowItFails ==
  CASE at.fails = "end" -> failing' = TRUE /\ failed' = at.phase /\ UNCHANGED <<kept, quiet>>
    [] at.fails = "keep" ->
         /\ failing' = TRUE /\ UNCHANGED quiet
         /\ IF kept = "none" THEN kept' = at.layer /\ failed' = at.phase ELSE UNCHANGED <<kept, failed>>
    [] at.fails = "drop" -> UNCHANGED <<failing, failed, kept, quiet>>
    [] at.fails = "quiet" ->
         quiet' = quiet \cup {at.layer} /\ UNCHANGED <<failing, failed, kept>>

Fail ==
  /\ pc # 0 /\ CountFault
  /\ \/ UNCHANGED <<chip, fresh>>
     \/ chip' = Effect(chip) /\ fresh' = Effect(fresh)
  /\ stuck' = stuck \cup at.clears
  /\ HowItFails
  /\ IF at.fails = "end" THEN pc' = 0 /\ at' = NoStep
     ELSE Proceed(Plans[cmd], opts, kept', quiet', pc)
  /\ UNCHANGED <<cmd, opts, acked, held, ran, commands>>

Ended ==
  /\ cmd' = "none" /\ opts' = {} /\ pc' = 0 /\ at' = NoStep /\ failed' = "" /\ failing' = FALSE
  /\ kept' = "none" /\ quiet' = {} /\ acked' = {} /\ held' = FALSE /\ ran' = {} /\ fresh' = {}
  /\ stuck' = {}

Reporting == cmd # "none" /\ pc = 0
Report == Reporting /\ Ended /\ UNCHANGED <<chip, commands, faults>>

Kill ==
  /\ pc # 0 /\ faults < MaxFaults
  /\ Ended /\ faults' = faults + 1 /\ UNCHANGED <<chip, commands>>

Replug ==
  /\ cmd = "none" /\ commands < MaxCommands /\ chip' = {}
  /\ UNCHANGED <<process, commands, faults>>

Next == Start \/ Succeed \/ Fail \/ Report \/ Kill \/ Replug

Spec == Init /\ [][Next]_vars

-----------------------------------------------------------------------------
Registers == "i_understand_this_writes_registers"

(* The commands that ask for an acknowledgement, under any options or these.      *)
AsksFirst ==
  \/ cmd \in Smokes \ {"reg_smoke", "macos_reg_smoke", "macos_descriptor_smoke", "extract_firmware"}
  \/ cmd \in {"init", "rtl8812a_iqk_diagnostic"}
  \/ cmd = "rx_scan" /\ opts \cap {"init", "monitor"} # {}

(* The commands that transmit through the driver do not: being called is taken   *)
(* for the authorization, and the flag they still accept is a no-op.             *)
Transmitters ==
  {"tx_once", "tx_repeat", "bridge_tx_once", "bridge_tx_listen", "bridge_run", "runtime_flow",
   "radio_run", "bridge_tx_bench"}

(* A command that asks has found an acknowledgement before it claims the adapter; *)
(* no other command but a transmitter ever writes to a chip without one; a bulk   *)
(* OUT of a smoke test has its own, and a calibration profile needs one in every  *)
(* command, the transmitters included.                                            *)
AcknowledgedFirst ==
  /\ AsksFirst /\ held => acked # {}
  /\ pc # 0 /\ held /\ at.do = "write" => acked # {} \/ cmd \in Transmitters
  /\ pc # 0 /\ cmd \in Smokes /\ at.do = "out" => "i_understand_this_submits_bulk_out" \in acked
  /\ "profile" \in opts /\ held => Registers \in acked

(* What the verification specification requires of repeated transmissions: that  *)
(* each has found an acknowledgement.  tx_repeat asks for none.                  *)
RepeatedTxAcknowledged == pc # 0 /\ cmd = "tx_repeat" /\ at.do = "out" => acked # {}

Below ==
  [llt |-> {"cr"},
   queue |-> {"cr", "ram", "fw"}, mac |-> {"cr", "ram", "fw"}, bb |-> {"cr", "ram", "fw"},
   rf |-> {"cr", "ram", "fw", "bbfunc"}, channel |-> {"cr", "ram", "fw", "bbfunc"}]

(* A layer's registers are written only while the layers below are up, on        *)
(* whatever chip earlier commands, failed or killed anywhere, left behind; and   *)
(* firmware never counts as ready while its download mode is open.               *)
LayersInOrder ==
  /\ pc # 0 /\ at.do = "write" /\ at.layer \in DOMAIN Below => Below[at.layer] \subseteq chip
  /\ ~ {"ram", "fw", "dl"} \subseteq chip

SameSession ==
  "init" \in opts \/ cmd \in {"bridge_run", "runtime_flow", "radio_run", "rtl8812a_iqk_diagnostic"}

(* Traffic starts on a chip prepared as asked for: with initialization asked     *)
(* for, every layer was written by this command, firmware is running, its         *)
(* download mode is closed and EFUSE access revoked; TX gain is the one asked     *)
(* for although the calibration profile rewrote it; the profile was applied.     *)
TrafficOnPreparedChip ==
  pc # 0 /\ at.do \in {"in", "out"} =>
    /\ SameSession =>
         /\ (Initialized \ If(opts, "cr", "cr")) \subseteq fresh \cap chip
         /\ chip \cap {"dl", "grant"} = {}
    /\ "power" \in opts => "agc" \in chip
    /\ "profile" \in opts => "cal" \in chip

(* A report that passes lists the phases that ran, all of them; the report of a  *)
(* failed initialization calls completed exactly the phases before the one that  *)
(* failed.                                                                        *)
ReportsWhatRan ==
  Reporting =>
    /\ ~failing => ran = PassPhases(cmd, opts)
    /\ failing /\ cmd = "init" => ran \ {failed} = CompletedBefore(failed)

(* What a command changed only to look is put back.  Of what it established and  *)
(* the adapter still has: a command that passes leaves neither EFUSE access       *)
(* granted, nor download mode open, nor a register page or the 3-wire read        *)
(* settings changed; when a byte cannot be read or a checksum never comes, access *)
(* or the mode stays on only if the write that was to end it failed as well; the  *)
(* TX indication is off again, after a failed transmission too, unless the        *)
(* indication itself failed.                                                      *)
NothingLeftOn ==
  Reporting =>
    /\ ~failing => fresh \cap {"grant", "dl", "page", "hssi"} = {}
    /\ kept \in {"efuse", "firmware"} => fresh \cap {"grant", "dl"} \subseteq stuck
    /\ cmd \in {"tx_once", "tx_repeat"} /\ "led" \notin quiet => "led" \notin fresh
================================================================================
