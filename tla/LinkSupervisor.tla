---------------------------- MODULE LinkSupervisor ----------------------------
(***************************************************************************)
(* The handles that own a radio and its helper processes, of the backends    *)
(* ManagedWfbStreamsBackend ("managed": one helper per stream and optionally *)
(* three for a tunnel, each required or best-effort) and                     *)
(* MacosWfbTunnelBackend ("tunnel": all helpers required).  The radio is any *)
(* implementation of LinkContract (RadioHandle is one).  One application     *)
(* thread calls the handle; helpers exit when they like; a SIGTERM may be    *)
(* ignored for longer than the three seconds the code grants, and a helper    *)
(* started through sudo may be out of reach of the final kill as well.        *)
(***************************************************************************)
EXTENDS LinkContract, Naturals

CONSTANTS
  NStreams,        \* helpers of streams, 1..NStreams in spawn order
  NTunnel,         \* helpers of the managed tunnel, spawned after them
  RequiredStreams, \* the stream helpers whose criticality is Required
  UseSudoForTun    \* the TUN helper, the last one spawned, runs as `sudo -n`

Helpers == 1 .. NStreams + NTunnel

ASSUME SupervisorAssumption ==
  /\ NStreams \in Nat /\ NTunnel \in Nat
  /\ RequiredStreams \subseteq 1..NStreams
  /\ UseSudoForTun \in BOOLEAN

VARIABLES
  backend,         \* "managed" or "tunnel"
  tunnelRequired,  \* the managed tunnel's criticality is Required
  radioStop,       \* the radio handle's stop flag
  marker,          \* the radio's ready marker exists
  proc,            \* each helper: "none", "running" or how it exited
  status,          \* ManagedChild::status, "none" until a poll saw the exit
  owned,           \* helpers with terminated_by_owner
  children,        \* the handle's children
  tunnelLost,      \* startup_degradations holds the tunnel sentinel
  step,            \* the application thread's next step
  spawning,        \* the next helper to spawn
  target, after,   \* terminate_child_processes: its argument, where it returns
  started,         \* how start returned
  spawnFailed,     \* history: the helper whose spawn failed, 0 if none
  waited,          \* how wait_ready last returned
  radioSeen, requiredDown,       \* health's intermediate results
  seen, seenDegraded,            \* what health last returned
  joined, joinedDegraded,        \* what join returned
  alone            \* history: helpers that exited before any SIGTERM

radioVars == <<phase, sent, radioStop, marker>>
childVars == <<proc, status, owned, children, alone>>
startVars == <<backend, tunnelRequired, tunnelLost, spawning, started, spawnFailed>>
obsVars == <<waited, radioSeen, requiredDown, seen, seenDegraded, joined, joinedDegraded>>
vars == <<radioVars, childVars, startVars, obsVars, step, target, after>>

Exits == {"exit0", "exit1", "signal"}
Tunnel == 0                           \* MANAGED_TUNNEL_SENTINEL
TunnelHelpers == {h \in Helpers : h > NStreams}

Required(h) ==
  \/ backend = "tunnel"
  \/ h \in RequiredStreams
  \/ h \in TunnelHelpers /\ tunnelRequired

(* ManagedChild::try_wait on the helpers of S. *)
Polled(S) ==
  [h \in Helpers |-> IF h \in S /\ status[h] = "none" /\ proc[h] \in Exits
                     THEN proc[h] ELSE status[h]]

(* ManagedChild::degradation, attributed to the stream or the tunnel. *)
NameOf(h) == IF h \in TunnelHelpers THEN Tunnel ELSE h
Degradations(st) ==
  {NameOf(h) : h \in {c \in children : ~Required(c) /\ st[c] # "none" /\ c \notin owned}}
  \cup (IF tunnelLost THEN {Tunnel} ELSE {})

-----------------------------------------------------------------------------
(* terminate_child_processes *)

Terminate(S, return) == step' = "termSignal" /\ target' = S /\ after' = return

TermReturn == step' = after /\ target' = {} /\ after' = "idle"

(* Mutant: terminated_by_owner is not set. *)
TermSignalUnmarked ==
  /\ step = "termSignal" /\ step' = "termPoll"
  /\ UNCHANGED <<proc, status, owned, target, after>>

(* SIGTERM to every child whose exit was not seen yet, dead or alive. *)
TermSignal ==
  /\ step = "termSignal" /\ step' = "termPoll"
  /\ owned' = owned \cup {h \in target : status[h] = "none"}
  /\ UNCHANGED <<proc, status, target, after>>

(* Poll until every exit is seen or the deadline has passed. *)
TermPoll ==
  /\ step = "termPoll"
  /\ status' = Polled(target)
  /\ IF \A h \in target : status'[h] # "none" THEN TermReturn
     ELSE step' \in {"termPoll", "termKill"} /\ UNCHANGED <<target, after>>
  /\ UNCHANGED <<proc, owned>>

(* Helpers the owner's kill can be refused for: sudo runs as root. *)
BehindSudo ==
  {h \in Helpers : /\ UseSudoForTun /\ h = NStreams + NTunnel
                   /\ backend = "tunnel" \/ h \in TunnelHelpers}

(* The child the last loop is at: the first whose exit was not seen. *)
Unseen == {h \in target : status[h] = "none"}
NextUnseen(h) == h \in Unseen /\ \A k \in Unseen : h <= k

(* Mutant: the kill is left out. *)
TermKillOmitted ==
  /\ step = "termKill" /\ step' = "termWait"
  /\ UNCHANGED <<proc, status, owned, target, after>>

(* kill(), whose error is ignored. *)
TermKill ==
  /\ step = "termKill" /\ step' = "termWait"
  /\ \E h \in Helpers :
       /\ NextUnseen(h)
       /\ \/ proc' = [proc EXCEPT ![h] = IF proc[h] = "running" THEN "signal" ELSE proc[h]]
          \/ h \in BehindSudo /\ UNCHANGED proc
  /\ UNCHANGED <<status, owned, target, after>>

(* Mutant: a try_wait, which does not wait for the exit. *)
TermWaitNot ==
  /\ step = "termWait"
  /\ \E h \in Helpers : NextUnseen(h) /\ status' = Polled({h})
  /\ TermReturn
  /\ UNCHANGED <<proc, owned>>

(* wait(), which has no deadline. *)
TermWait ==
  /\ step = "termWait"
  /\ \E h \in Helpers : /\ NextUnseen(h) /\ proc[h] \in Exits
                        /\ status' = [status EXCEPT ![h] = proc[h]]
  /\ IF \A h \in target : status'[h] # "none" THEN TermReturn
     ELSE step' = "termKill" /\ UNCHANGED <<target, after>>
  /\ UNCHANGED <<proc, owned>>

TermStep ==
  /\ TermSignal \/ TermPoll \/ TermKill \/ TermWait
  /\ UNCHANGED <<radioVars, startVars, obsVars, children, alone>>

-----------------------------------------------------------------------------
(* start *)

(* UserspaceRadioHandle::start succeeds, or its error is returned. *)
Start ==
  /\ step = "idle" /\ started = "none"
  /\ \/ StartRun /\ step' = "spawn" /\ marker' = FALSE /\ UNCHANGED started
     \/ started' = "error" /\ UNCHANGED <<phase, sent, step, marker>>
  /\ UNCHANGED <<childVars, obsVars, radioStop, backend, tunnelRequired, tunnelLost, spawning, spawnFailed,
                 target, after>>

(* The helpers spawned with `?`. *)
Direct == IF backend = "tunnel" THEN Helpers ELSE Helpers \ TunnelHelpers

SpawnOk ==
  /\ proc' = [proc EXCEPT ![spawning] = "running"]
  /\ spawning' = spawning + 1

(* A spawn error leaves start at once: the radio thread and the helpers       *)
(* spawned so far are dropped, which stops none of them.                      *)
SpawnStream ==
  /\ step = "spawn" /\ spawning \in Direct
  /\ \/ SpawnOk /\ children' = children \cup {spawning} /\ UNCHANGED <<step, started, spawnFailed>>
     \/ /\ step' = "idle" /\ started' = "error" /\ spawnFailed' = spawning
        /\ UNCHANGED <<proc, spawning, children>>
  /\ UNCHANGED <<radioVars, obsVars, status, owned, alone, backend, tunnelRequired, tunnelLost, target, after>>

(* spawn_managed_tunnel_children.  Its caller's remove_file_if_exists may fail *)
(* before it, with the same effect as a failed stream spawn.                   *)
SpawnTunnel ==
  /\ step = "spawn" /\ spawning \in Helpers \ Direct
  /\ \/ SpawnOk /\ UNCHANGED <<step, target, after, started, spawnFailed>>
     \/ /\ Terminate({h \in TunnelHelpers : h < spawning}, "tunnelFailed")
        /\ spawnFailed' = spawning
        /\ UNCHANGED <<proc, spawning, started>>
     \/ /\ spawning = NStreams + 1
        /\ step' = "idle" /\ started' = "error"
        /\ UNCHANGED <<proc, spawning, target, after, spawnFailed>>
  /\ UNCHANGED <<radioVars, obsVars, status, owned, children, alone, backend, tunnelRequired, tunnelLost>>

TunnelFailed ==
  /\ step = "tunnelFailed"
  /\ IF tunnelRequired
     THEN /\ radioStop' = TRUE /\ Terminate(children, "startError")
          /\ UNCHANGED <<tunnelLost, started>>
     ELSE /\ tunnelLost' = TRUE /\ step' = "idle" /\ started' = "ok"
          /\ UNCHANGED <<radioStop, target, after>>
  /\ UNCHANGED <<phase, sent, marker, childVars, obsVars, backend, tunnelRequired, spawning, spawnFailed>>

StartReturns ==
  /\ \/ step = "spawn" /\ spawning \notin Helpers /\ children' = Helpers /\ started' = "ok"
     \/ step = "startError" /\ started' = "error" /\ UNCHANGED children
  /\ step' = "idle"
  /\ UNCHANGED <<radioVars, obsVars, proc, status, owned, alone, backend, tunnelRequired, tunnelLost,
                 spawning, spawnFailed, target, after>>

StartStep == SpawnStream \/ SpawnTunnel \/ TunnelFailed \/ StartReturns

-----------------------------------------------------------------------------
(* A call on the handle; the model remembers what the last one returned. *)
Idle == step = "idle" /\ started = "ok" /\ joined = "none"
Forget == waited' = "none" /\ seen' = "none" /\ seenDegraded' = {}

(* Mutant: only the radio is told to stop. *)
ShutdownHalf ==
  /\ radioStop' = TRUE /\ step' = "waitError"
  /\ UNCHANGED <<target, after>>

(* shutdown_after_startup_error *)
Shutdown == radioStop' = TRUE /\ Terminate(children, "waitError")

(* check_children_alive polls in order, up to the first required child that   *)
(* has exited.                                                                *)
DeadRequired == {h \in children : Required(h) /\ proc[h] \in Exits}
CheckPolls == status' = Polled({h \in children : \A d \in DeadRequired : h <= d})

WaitCheck(from, to) ==
  /\ step = from
  /\ CheckPolls
  /\ IF DeadRequired # {} THEN Shutdown /\ UNCHANGED waited
     ELSE /\ step' = to /\ waited' = (IF to = "idle" THEN "ready" ELSE waited)
          /\ UNCHANGED <<radioStop, target, after>>

(* The radio's wait_ready: Ok, an error (the thread has ended, the marker      *)
(* cannot be read), or the timeout, which leaves the link running.             *)
WaitRadio ==
  /\ step = "waitRadio"
  /\ \/ marker /\ step' = "waitCheckAgain" /\ UNCHANGED <<waited, radioStop, target, after>>
     \/ (phase \in Ended \/ ~marker) /\ Shutdown /\ UNCHANGED waited
     \/ step' = "idle" /\ waited' = "timeout" /\ UNCHANGED <<radioStop, target, after>>
  /\ UNCHANGED status

WaitCall ==
  /\ Idle /\ step' = "waitCheck" /\ Forget
  /\ UNCHANGED <<radioVars, childVars, startVars, radioSeen, requiredDown, joined,
                 joinedDegraded, target, after>>

WaitError ==
  /\ step = "waitError" /\ step' = "idle" /\ waited' = "error"
  /\ UNCHANGED <<status, radioStop, target, after>>

WaitStep ==
  /\ \/ WaitCheck("waitCheck", "waitRadio") \/ WaitRadio
     \/ WaitCheck("waitCheckAgain", "idle") \/ WaitError
  /\ UNCHANGED <<phase, sent, marker, startVars, proc, owned, children, alone, radioSeen,
                 requiredDown, seen, seenDegraded, joined, joinedDegraded>>

-----------------------------------------------------------------------------
(* health *)

(* What the radio's health() may say: its file lags behind the run, is ahead   *)
(* of its end, and stays behind when a write failed (RadioHandle).             *)
RadioHealth ==
  CASE phase \in {"starting", "prepared"} -> {"starting", "failed"}
    [] phase = "ready" -> {"starting", "ready", "stopped", "failed"}
    [] phase = "stopped" -> {"stopped", "failed"}
    [] OTHER -> {"starting", "ready", "failed"}

(* An error of the radio's health() is returned as it is. *)
HealthCall ==
  /\ Idle /\ Forget
  /\ step' = "healthReports" /\ radioSeen' \in RadioHealth
  /\ UNCHANGED <<radioVars, childVars, startVars, requiredDown, joined, joinedDegraded,
                 target, after>>

HealthReports ==
  /\ step = "healthReports" /\ step' = "healthDegradations"
  /\ status' = Polled(children)
  /\ requiredDown' = (\E h \in children : Required(h) /\ status'[h] # "none")
  /\ UNCHANGED <<radioSeen, seen, seenDegraded>>

(* The tunnel handle has no best-effort children and calls a dead one          *)
(* Degraded.                                                                   *)
HealthDegradations ==
  /\ step = "healthDegradations" /\ step' = "idle"
  /\ status' = Polled(children)
  /\ seenDegraded' = Degradations(status')
  /\ seen' = CASE requiredDown -> (IF backend = "tunnel" THEN "degraded" ELSE "failed")
               [] ~requiredDown /\ seenDegraded' # {} -> "degraded"
               [] OTHER -> radioSeen
  /\ radioSeen' = "none" /\ requiredDown' = FALSE

HealthStep ==
  /\ HealthReports \/ HealthDegradations
  /\ UNCHANGED <<radioVars, startVars, proc, owned, children, alone, waited, joined,
                 joinedDegraded, target, after>>

-----------------------------------------------------------------------------
(* request_stop and join *)

StopCall ==
  /\ Idle /\ radioStop' = TRUE /\ Terminate(children, "idle") /\ Forget
  /\ UNCHANGED <<phase, sent, marker, childVars, startVars, radioSeen, requiredDown,
                 joined, joinedDegraded>>

(* Mutant: join waits for the radio without telling it to stop. *)
JoinCallSilent ==
  /\ Idle /\ Terminate(children, "joinRadio") /\ Forget
  /\ UNCHANGED <<radioVars, childVars, startVars, radioSeen, requiredDown, joined,
                 joinedDegraded>>

JoinCall ==
  /\ Idle /\ radioStop' = TRUE /\ Terminate(children, "joinRadio") /\ Forget
  /\ UNCHANGED <<phase, sent, marker, childVars, startVars, radioSeen, requiredDown,
                 joined, joinedDegraded>>

ChildFailed == \E h \in children : Required(h) /\ status[h] = "exit1"

(* Mutant: best-effort children count like required ones. *)
JoinLifecycleAny ==
  CASE \E h \in children : status[h] = "exit1" -> "failed"
    [] OTHER -> IF phase = "stopped" THEN "stopped" ELSE "failed"

JoinLifecycle ==
  CASE ChildFailed -> "failed"
    [] ~ChildFailed /\ Degradations(status) # {} -> "degraded"
    [] OTHER -> IF phase = "stopped" THEN "stopped" ELSE "failed"

(* radio_handle.join() blocks until the radio thread has ended. *)
JoinReturns ==
  /\ step = "joinRadio" /\ phase \in Ended
  /\ joined' = JoinLifecycle /\ joinedDegraded' = Degradations(status)
  /\ step' = "idle"
  /\ UNCHANGED <<radioVars, childVars, startVars, waited, radioSeen, requiredDown, seen,
                 seenDegraded, target, after>>

-----------------------------------------------------------------------------
HelperExits ==
  /\ \E h \in Helpers, e \in Exits :
       /\ proc[h] = "running"
       /\ proc' = [proc EXCEPT ![h] = e]
       /\ alone' = IF h \in owned THEN alone ELSE alone \cup {h}
  /\ UNCHANGED <<radioVars, startVars, obsVars, status, owned, children, step, target, after>>

(* The frames of LinkContract!Transmit change nothing the handle can see. *)
RadioStep ==
  /\ Prepare \/ Announce \/ EndWell \/ EndBadly
  /\ marker' = (marker \/ phase' = "ready")
  /\ UNCHANGED <<radioStop, childVars, startVars, obsVars, step, target, after>>

RadioEnds == RadioStep /\ phase' \in Ended

Init ==
  /\ ContractInit /\ radioStop = FALSE /\ marker = FALSE
  /\ backend \in {"managed", "tunnel"} /\ tunnelRequired \in BOOLEAN
  /\ proc = [h \in Helpers |-> "none"] /\ status = [h \in Helpers |-> "none"]
  /\ owned = {} /\ children = {} /\ alone = {} /\ tunnelLost = FALSE
  /\ step = "idle" /\ spawning = 1 /\ target = {} /\ after = "idle"
  /\ started = "none" /\ spawnFailed = 0 /\ waited = "none"
  /\ radioSeen = "none" /\ requiredDown = FALSE
  /\ seen = "none" /\ seenDegraded = {} /\ joined = "none" /\ joinedDegraded = {}

Done ==
  /\ step = "idle" /\ (started = "error" \/ joined # "none")
  /\ UNCHANGED vars

AppStep == StartStep \/ TermStep \/ WaitStep \/ HealthStep \/ JoinReturns

Next ==
  Start \/ AppStep \/ WaitCall \/ HealthCall \/ StopCall \/ JoinCall \/ HelperExits \/ RadioStep \/ Done

(* The application's thread runs on once it is inside a call, and a radio whose *)
(* stop flag is up ends, which is RadioHandle!StopEndsRun.                      *)
Fairness ==
  /\ WF_vars(AppStep)
  /\ WF_vars(radioStop /\ RadioEnds)

Spec == Init /\ [][Next]_vars /\ Fairness

-----------------------------------------------------------------------------
(* ManagedChild::status only ever holds the exit the process really had. *)
TypeOK ==
  /\ phase \in Phases /\ {sent, radioStop, marker, tunnelRequired, tunnelLost, requiredDown} \subseteq BOOLEAN
  /\ backend \in {"managed", "tunnel"}
  /\ proc \in [Helpers -> Exits \cup {"none", "running"}]
  /\ \A h \in Helpers : status[h] \in {"none", proc[h]}
  /\ owned \subseteq Helpers /\ children \subseteq Helpers /\ alone \subseteq Helpers
  /\ seenDegraded \cup joinedDegraded \subseteq Helpers \cup {Tunnel}
  /\ spawning \in 1 .. NStreams + NTunnel + 1
  /\ started \in {"none", "ok", "error"} /\ waited \in {"none", "ready", "timeout", "error"}
  /\ {seen, joined} \subseteq {"none", "starting", "ready", "stopped", "failed", "degraded"}

Running == {h \in Helpers : proc[h] = "running"}

(* When join has returned nothing of the link runs on: the radio thread has     *)
(* ended and every helper is dead, also one that ignored its SIGTERM.           *)
NothingOutlivesJoin == joined # "none" => Running = {} /\ phase \in Ended

(* A wait_ready that fails for any reason but the timeout, and a start that     *)
(* fails on a required tunnel, have told the radio to stop and left no helper   *)
(* running.                                                                     *)
FailedStartupStopsAll ==
  waited = "error" \/ (started = "error" /\ spawnFailed \in TunnelHelpers /\ backend = "managed")
    => radioStop /\ Running = {}

(* degraded_streams never blames a helper the owner itself terminated, whenever *)
(* health and join poll; the tunnel is blamed also for a failed startup.        *)
BlamedDiedAlone ==
  \A n \in seenDegraded \cup joinedDegraded :
    \/ \E h \in alone : NameOf(h) = n
    \/ n = Tunnel /\ spawnFailed \in TunnelHelpers

(* join's verdict: a clean Stopped hides no failed radio and no required helper *)
(* that exited with an error; best-effort helpers alone never make it Failed.   *)
JoinVerdict ==
  /\ joined = "stopped" => phase = "stopped" /\ ~ChildFailed
  /\ joined = "failed" => phase = "failed" \/ ChildFailed

(* The one wait nothing bounds: for a helper behind sudo that runs on. *)
BlockedOnSudo == step = "termWait" /\ \E h \in BehindSudo : NextUnseen(h) /\ proc[h] = "running"

(* join returns, whatever the helpers do with their SIGTERM, unless it waits for  *)
(* ever for a helper that the kill could not reach.                               *)
JoinTerminates == ("joinRadio" \in {after, step}) ~> (joined # "none" \/ []BlockedOnSudo)

(* A best-effort stream that cannot start is reported as degraded instead of    *)
(* failing the whole link.                                                      *)
BestEffortSpawnKeepsLink ==
  started = "error" /\ spawnFailed # 0 => Required(spawnFailed)
=============================================================================
