----------------------------- MODULE LinkContract -----------------------------
(***************************************************************************)
(* What a run of the userspace radio promises to whoever started it: it      *)
(* transmits nothing before the adapter is prepared, announces readiness     *)
(* once, ends well only after it was ready, and every run ends.  RuntimeFlow *)
(* implements it; LinkSupervisor is built on it.                             *)
(***************************************************************************)

VARIABLES phase,    \* where the run is
          sent      \* has this run transmitted?

contractVars == <<phase, sent>>

Phases == {"idle", "starting", "prepared", "ready", "stopped", "failed"}
Ended == {"idle", "stopped", "failed"}

ContractInit == phase = "idle" /\ sent = FALSE

StartRun == phase \in Ended /\ phase' = "starting" /\ sent' = FALSE
Prepare == phase = "starting" /\ phase' = "prepared" /\ UNCHANGED sent
Announce == phase = "prepared" /\ phase' = "ready" /\ UNCHANGED sent
Transmit == phase \in {"prepared", "ready"} /\ sent' = TRUE /\ UNCHANGED phase
EndWell == phase = "ready" /\ phase' = "stopped" /\ UNCHANGED sent
EndBadly == phase \notin Ended /\ phase' = "failed" /\ UNCHANGED sent

ContractNext ==
  StartRun \/ Prepare \/ Announce \/ Transmit \/ EndWell \/ EndBadly

ContractSpec == ContractInit /\ [][ContractNext]_contractVars
=============================================================================
