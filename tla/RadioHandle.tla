----------------------------- MODULE RadioHandle -----------------------------
(***************************************************************************)
(* UserspaceRadioHandle of wfb-link and the run it owns: the application     *)
(* starts the runtime thread, polls for readiness and health through the two *)
(* artifact files, raises the stop flag and joins, while the thread          *)
(* (RuntimeFlow) rewrites those files and other processes take and release   *)
(* UDP addresses.  One application thread calls the handle; it may start     *)
(* again, with the same configuration and file paths, after a join.          *)
(***************************************************************************)
EXTENDS RuntimeFlow, Naturals

CONSTANTS
  MaxRuns,        \* bound: starts
  MaxPolls        \* wait_ready's timeout, in polls

ASSUME HandleAssumption == MaxRuns \in Nat /\ MaxPolls \in Nat

VARIABLES
  runs,           \* starts so far
  handle,         \* "none", or "held" between start and join
  call,           \* the step of wait_ready(), health() or join() about to execute
  polls,          \* sleeps of the wait_ready in progress
  content,        \* what health() read from the health file
  waited,         \* how this run's last wait_ready returned
  seen,           \* the lifecycle this run's last successful health() returned
  seenReady,      \* and its ready flag
  joined,         \* the lifecycle join reported, "none" until then
  degraded        \* startup_degraded_streams

appVars == <<runs, handle, call, polls, content, waited, seen, seenReady, joined, degraded>>
vars == <<flowVars, appVars>>

Calls == {"idle", "waitReadyFile", "waitFinished", "waitTimeout", "healthFile",
          "healthReady", "healthNoFile", "healthFinished", "join"}
Lifecycles == {"starting", "ready", "stopped", "failed"}

(* join_handle.is_finished() *)
IsFinished == pc = "returned"

(* link_lifecycle_from_health_json *)
LinkLifecycle(health) ==
  CASE health \in {"validating", "initializing"} -> "starting"
    [] health = "ready" -> "ready"
    [] health = "exited_pass" -> "stopped"
    [] health = "exited_fail" -> "failed"

-----------------------------------------------------------------------------
Idle == handle = "held" /\ call = "idle"

(* remove_runtime_tx_bind, for every removed address: with none left the      *)
(* primary bind falls back to an ephemeral port.                              *)
BindsWithout(removed) ==
  IF Streams \subseteq removed THEN {Ephemeral} ELSE Streams \ removed

(* Mutant: the artifacts of an earlier run are kept. *)
RemoveArtifactsNot == UNCHANGED file

(* remove_file_if_exists(ready), then (health). *)
RemoveArtifacts == file' = [ready |-> "absent", health |-> "absent"]

(* UserspaceRadioHandle::start. *)
StartThread ==
  /\ RemoveArtifacts
  /\ degraded' = BestEffort \cap Unavailable
  /\ binds' = BindsWithout(BestEffort \cap Unavailable)
  /\ valid' \in BOOLEAN
  /\ pc' = "validating" /\ writing' = FALSE /\ stop' = FALSE
  /\ result' = "none" /\ sent' = FALSE /\ bindFailed' = FALSE
  /\ handle' = "held"
  /\ waited' = "none" /\ seen' = "none" /\ seenReady' = FALSE /\ joined' = "none"

(* A file that cannot be removed: start returns the error, nothing runs. *)
StartFails ==
  /\ \/ UNCHANGED file
     \/ file' = [file EXCEPT !.ready = "absent"]
  /\ UNCHANGED <<degraded, binds, valid, pc, writing, stop, result, sent, bindFailed,
                 handle, waited, seen, seenReady, joined>>

Start ==
  /\ handle = "none" /\ runs < MaxRuns
  /\ runs' = runs + 1
  /\ StartThread \/ StartFails
  /\ UNCHANGED <<radio, bound, receiver, orphans, taken, call, polls, content>>

-----------------------------------------------------------------------------
(* wait_ready. *)

Return == call' = "idle" /\ polls' = 0

WaitCall ==
  /\ Idle
  /\ call' = "waitReadyFile" /\ waited' = "none" /\ UNCHANGED polls

(* The marker is there and parses; or it is torn, an error only after the     *)
(* timeout; or it is not there.                                               *)
WaitReadyFile ==
  /\ call = "waitReadyFile"
  /\ CASE file.ready = "ready" -> waited' = "ready" /\ Return
       [] file.ready = "torn" /\ polls = MaxPolls -> waited' = "torn" /\ Return
       [] OTHER -> call' = "waitFinished" /\ UNCHANGED <<waited, polls>>

WaitFinished ==
  /\ call = "waitFinished"
  /\ IF IsFinished THEN waited' = "exited" /\ Return
     ELSE call' = "waitTimeout" /\ UNCHANGED <<waited, polls>>

(* Mutant: the elapsed time is never looked at. *)
WaitSleepForever ==
  /\ call = "waitTimeout"
  /\ call' = "waitReadyFile" /\ UNCHANGED <<waited, polls>>

WaitSleep ==
  /\ call = "waitTimeout"
  /\ IF polls = MaxPolls THEN waited' = "timeout" /\ Return
     ELSE call' = "waitReadyFile" /\ polls' = polls + 1 /\ UNCHANGED waited

WaitStep ==
  /\ WaitReadyFile \/ WaitFinished \/ WaitSleep
  /\ UNCHANGED <<flowVars, runs, handle, content, seen, seenReady, joined, degraded>>

(* health.  Its checks read the files one after the other. *)
HealthCall == Idle /\ call' = "healthFile" /\ UNCHANGED <<content, seen, seenReady>>

Observe(lifecycle, ready) ==
  call' = "idle" /\ seen' = lifecycle /\ seenReady' = ready

(* A torn health file is a Json error, returned at once. *)
HealthFile ==
  /\ call = "healthFile"
  /\ CASE file.health = "absent" -> call' = "healthNoFile" /\ UNCHANGED content
       [] file.health = "torn" -> call' = "idle" /\ UNCHANGED content
       [] OTHER -> call' = "healthReady" /\ content' = file.health
  /\ UNCHANGED <<seen, seenReady>>

HealthReady ==
  /\ call = "healthReady"
  /\ LET lifecycle == LinkLifecycle(content) IN
       Observe(lifecycle, lifecycle \in {"ready", "stopped"} \/ file.ready # "absent")
  /\ content' = "absent"

HealthNoFile ==
  /\ call = "healthNoFile"
  /\ CASE file.ready = "absent" -> call' = "healthFinished" /\ UNCHANGED <<seen, seenReady>>
       [] file.ready = "torn" -> call' = "idle" /\ UNCHANGED <<seen, seenReady>>
       [] OTHER -> Observe("ready", TRUE)
  /\ UNCHANGED content

HealthFinished ==
  /\ call = "healthFinished"
  /\ Observe(IF IsFinished THEN "failed" ELSE "starting", FALSE)
  /\ UNCHANGED content

HealthStep ==
  /\ HealthFile \/ HealthReady \/ HealthNoFile \/ HealthFinished
  /\ UNCHANGED <<flowVars, runs, handle, polls, waited, joined, degraded>>

-----------------------------------------------------------------------------
RequestStop ==
  /\ Idle /\ ~stop
  /\ stop' = TRUE
  /\ UNCHANGED <<pc, writing, file, valid, binds, radio, bound, receiver, result, sent,
                 bindFailed, orphans, taken, appVars>>

JoinCall == Idle /\ call' = "join" /\ UNCHANGED <<handle, joined>>

JoinReturns ==
  /\ call = "join" /\ IsFinished
  /\ joined' = IF result = "pass" THEN "stopped" ELSE "failed"
  /\ handle' = "none" /\ call' = "idle"

JoinStep ==
  /\ JoinCall \/ JoinReturns
  /\ UNCHANGED <<flowVars, runs, polls, content, waited, seen, seenReady, degraded>>

Calling ==
  \/ WaitCall /\ UNCHANGED <<flowVars, runs, handle, content, seen, seenReady, joined, degraded>>
  \/ HealthCall /\ UNCHANGED <<flowVars, runs, handle, polls, waited, joined, degraded>>

(* Other processes take and release the streams' addresses. *)
AddressTaken ==
  /\ \E a \in Streams \ (taken \cup bound \cup orphans) : taken' = taken \cup {a}
  /\ UNCHANGED <<pc, writing, file, valid, binds, stop, radio, bound, receiver, result,
                 sent, bindFailed, orphans, appVars>>

AddressReleased ==
  /\ \E a \in taken : taken' = taken \ {a}
  /\ UNCHANGED <<pc, writing, file, valid, binds, stop, radio, bound, receiver, result,
                 sent, bindFailed, orphans, appVars>>

-----------------------------------------------------------------------------
Init ==
  /\ pc = "returned" /\ writing = FALSE /\ valid = TRUE /\ binds = {} /\ stop = FALSE
  /\ file \in [{"ready", "health"} -> {"absent", "ready"}]      \* left by an earlier process
  /\ radio = {} /\ bound = {} /\ receiver = FALSE /\ result = "none"
  /\ sent = FALSE /\ bindFailed = FALSE /\ orphans = {} /\ taken = {}
  /\ runs = 0 /\ handle = "none" /\ call = "idle" /\ polls = 0 /\ content = "absent"
  /\ waited = "none" /\ seen = "none" /\ seenReady = FALSE /\ joined = "none"
  /\ degraded = {}

Done ==
  /\ handle = "none" /\ runs = MaxRuns
  /\ UNCHANGED vars

Next ==
  \/ FlowStep /\ UNCHANGED appVars
  \/ OrphanEnds /\ UNCHANGED appVars
  \/ Start \/ Calling \/ WaitStep \/ HealthStep \/ RequestStop \/ JoinStep
  \/ AddressTaken \/ AddressReleased \/ Done

(* The application's calls run on: neither wait_ready nor health blocks. *)
Spec == Init /\ [][Next]_vars /\ WF_vars(WaitStep \/ HealthStep)

(* The runtime thread is scheduled, its USB transfers and file writes return,  *)
(* and the bridge loop leaves once the stop flag is up, which is               *)
(* BridgeLoop!StopLeadsToReturn.                                               *)
FlowFairness ==
  /\ WF_vars(pc # "loop" /\ FlowStep /\ UNCHANGED appVars)
  /\ WF_vars(stop /\ LoopStops /\ LoopStep /\ UNCHANGED appVars)

-----------------------------------------------------------------------------
(* The variables stay in their ranges: ProductionRuntimeServiceHealth's         *)
(* lifecycles, the results of LinkHandle's methods, the configured addresses.  *)
TypeOK ==
  /\ pc \in Steps /\ writing \in BOOLEAN /\ valid \in BOOLEAN /\ stop \in BOOLEAN
  /\ file \in [{"ready", "health"} -> Contents]
  /\ binds \subseteq Addresses /\ bound \subseteq Addresses
  /\ radio \subseteq Facts /\ receiver \in BOOLEAN
  /\ result \in {"none", "pass", "fail"} /\ sent \in BOOLEAN /\ bindFailed \in BOOLEAN
  /\ orphans \subseteq Addresses /\ taken \subseteq Streams
  /\ runs \in 0..MaxRuns /\ handle \in {"none", "held"} /\ call \in Calls
  /\ polls \in 0..MaxPolls /\ content \in Contents \ {"torn"}
  /\ waited \in {"none", "ready", "exited", "timeout", "torn"}
  /\ seen \in Lifecycles \cup {"none"} /\ seenReady \in BOOLEAN
  /\ joined \in {"none", "stopped", "failed"} /\ degraded \subseteq BestEffort

(* wait_ready and health().ready answer for the run they were asked about: when *)
(* one has said ready, this run's adapter is open, initialised, in monitor mode, *)
(* calibrated and at its configured power, whatever files an earlier run left    *)
(* on the same paths and however the calls interleave with the thread's writes.  *)
ReadyMeansPrepared ==
  (waited = "ready" \/ seenReady) /\ ~IsFinished => Prepared \subseteq radio

(* join, and everything health() said before it, agree with the health file the *)
(* run left behind: Stopped exactly when the file says exited_pass, also when   *)
(* the last health write failed or was cut short.                               *)
HealthAndJoinAgree ==
  /\ joined = "stopped" => file.health = "exited_pass"
  /\ joined = "failed" => file.health # "exited_pass" /\ seen # "stopped"

(* A clean stop frees every address the run listened on: neither it nor a thread *)
(* that an earlier, failed run of this process left in recv_from still reads the  *)
(* streams, so a restart over the same configuration can bind them.              *)
StoppedFreesAddresses ==
  joined = "stopped" => bound = {} /\ binds \cap Lingering = {}

(* The run implements the contract: no frame leaves before the adapter is       *)
(* prepared for this configuration, the RX startup kick included.               *)
ContractPhase ==
  CASE pc = "returned" -> (CASE result = "none" -> "idle"
                             [] result = "pass" -> "stopped"
                             [] result = "fail" -> "failed")
    [] pc # "returned" /\ file.ready = "ready" -> "ready"
    [] OTHER -> IF Prepared \subseteq radio THEN "prepared" ELSE "starting"

Contract == INSTANCE LinkContract WITH phase <- ContractPhase

(* See ContractPhase. *)
ImplementsContract == Contract!ContractSpec

(* wait_ready returns, whatever the runtime thread does or fails to do. *)
WaitReturns == (call \in {"waitReadyFile", "waitFinished", "waitTimeout"}) ~> (call = "idle")

(* A raised stop flag ends the run, also one raised during bring-up, which does *)
(* not look at it.                                                              *)
StopEndsRun == FlowFairness => (stop ~> IsFinished)

(* When wait_ready has returned Ok the local data-plane endpoints are usable. *)
ReadyMeansUsable == waited = "ready" /\ pc \notin {"exitPass", "exitFail", "drop", "returned"}
                      => bound = binds
=============================================================================
