------------------------- MODULE LinkSupervisorProofs -------------------------
(***************************************************************************)
(* Proofs about the managed-streams and tunnel handles, for any number of    *)
(* stream and tunnel helpers and any choice of the required ones.            *)
(***************************************************************************)
EXTENDS LinkSupervisor, TLAPS

-----------------------------------------------------------------------------
(* The inductive invariant. *)

Terminating == {"termSignal", "termPoll", "termKill", "termWait"}
Calls == {"waitCheck", "waitRadio", "waitCheckAgain", "healthReports", "healthDegradations"}
Stopped == {"startError", "waitError", "joinRadio"}
Returns == {"tunnelFailed", "startError", "waitError", "joinRadio", "idle"}

(* The processes: a seen exit is the real one. *)
ProcInv ==
  /\ proc \in [Helpers -> Exits \cup {"none", "running"}]
  /\ status \in [Helpers -> Exits \cup {"none"}]
  /\ \A h \in Helpers : status[h] # "none" => status[h] = proc[h]
  /\ owned \subseteq Helpers /\ alone \subseteq Helpers

(* Helpers are spawned in order; the handle only ever holds spawned ones. *)
SpawnInv ==
  /\ spawning \in 1 .. NStreams + NTunnel + 1
  /\ \A h \in Helpers : proc[h] # "none" <=> h < spawning
  /\ \A h \in children \cup target : h \in Helpers /\ h < spawning

(* An exit without an owner's SIGTERM is in the history. *)
AloneInv ==
  /\ \A h \in Helpers : proc[h] \in Exits /\ h \notin owned => h \in alone
  /\ step \in {"termPoll", "termKill", "termWait"} => \A h \in target : status[h] = "none" => h \in owned

(* What still runs, and why, at every step of the application's thread. *)
ControlInv ==
  /\ step \in Terminating \cup Calls \cup Returns \cup {"spawn"} /\ after \in Returns
  /\ step = "idle" /\ started = "none" =>
       children = {} /\ spawning = 1 /\ spawnFailed = 0 /\ ~tunnelLost
  /\ step = "spawn" =>
       /\ started = "none" /\ waited = "none" /\ joined = "none"
       /\ children = {h \in Direct : h < spawning}
       /\ spawnFailed = 0 /\ ~tunnelLost
  /\ step \in Terminating /\ after = "tunnelFailed" =>
       /\ started = "none" /\ waited = "none" /\ joined = "none"
       /\ backend = "managed" /\ spawnFailed \in TunnelHelpers
       /\ Running \subseteq children \cup target
  /\ step = "tunnelFailed" =>
       /\ started = "none" /\ waited = "none" /\ joined = "none"
       /\ backend = "managed" /\ spawnFailed \in TunnelHelpers
       /\ Running \subseteq children
  /\ step \in Terminating /\ after # "tunnelFailed" =>
       /\ started = (IF after = "startError" THEN "none" ELSE "ok")
       /\ waited = "none" /\ joined = "none"
       /\ radioStop /\ target = children /\ Running \subseteq children
  /\ step \in Stopped =>
       /\ started = (IF step = "startError" THEN "none" ELSE "ok")
       /\ waited = "none" /\ joined = "none" /\ radioStop /\ Running = {}
  /\ step \in Calls => started = "ok" /\ waited = "none" /\ joined = "none"
  /\ started = "ok" => Running \subseteq children
  /\ tunnelLost => spawnFailed \in TunnelHelpers

(* What the results of the calls stand for. *)
ResultInv ==
  /\ started = "none" => waited = "none" /\ joined = "none"
  /\ started = "error" => waited = "none" /\ joined = "none" /\ step = "idle"
  /\ phase = "idle" => step = "idle" /\ started # "ok"
  /\ started = "error" /\ spawnFailed \in TunnelHelpers /\ backend = "managed"
       => radioStop /\ Running = {}
  /\ waited = "error" => radioStop /\ Running = {}
  /\ joined # "none" => step = "idle" /\ Running = {} /\ phase \in Ended

SupervisorInv == ProcInv /\ SpawnInv /\ AloneInv /\ ControlInv /\ ResultInv

-----------------------------------------------------------------------------
(* Type correctness: the Booleans, and what the calls return. *)

BoolType ==
  /\ sent \in BOOLEAN /\ radioStop \in BOOLEAN /\ marker \in BOOLEAN
  /\ tunnelRequired \in BOOLEAN /\ tunnelLost \in BOOLEAN /\ requiredDown \in BOOLEAN

Lifecycles == {"none", "starting", "ready", "stopped", "failed", "degraded"}

ObsType ==
  /\ phase \in Phases /\ backend \in {"managed", "tunnel"}
  /\ started \in {"none", "ok", "error"} /\ waited \in {"none", "ready", "timeout", "error"}
  /\ radioSeen \in Lifecycles /\ seen \in Lifecycles /\ joined \in Lifecycles
  /\ seenDegraded \subseteq Helpers \cup {Tunnel}
  /\ joinedDegraded \subseteq Helpers \cup {Tunnel}

LEMMA BoolTypeStep ==
  ASSUME BoolType, [Next]_vars
  PROVE  BoolType'
<1> USE DEF BoolType, radioVars, startVars, obsVars
<1>1. CASE Start
  BY <1>1 DEF Start, StartRun
<1>2. CASE StartStep
  BY <1>2 DEF StartStep, SpawnStream, SpawnTunnel, TunnelFailed, StartReturns
<1>3. CASE TermStep
  BY <1>3 DEF TermStep
<1>4. CASE WaitStep
  BY <1>4 DEF WaitStep, WaitCheck, WaitRadio, WaitError, Shutdown
<1>5. CASE HealthStep
  BY <1>5 DEF HealthStep, HealthReports, HealthDegradations
<1>6. CASE JoinReturns \/ WaitCall \/ HealthCall \/ StopCall \/ JoinCall
  BY <1>6 DEF JoinReturns, WaitCall, HealthCall, StopCall, JoinCall
<1>7. CASE HelperExits \/ UNCHANGED vars
  BY <1>7 DEF HelperExits, vars
<1>8. CASE RadioStep
  BY <1>8 DEF RadioStep, Prepare, Announce, EndWell, EndBadly
<1> QED
  BY <1>1, <1>2, <1>3, <1>4, <1>5, <1>6, <1>7, <1>8 DEF Next, AppStep, Done

(* The names of degraded helpers are helpers' or the tunnel's. *)
LEMMA DegradationNames ==
  ASSUME NEW st, children \subseteq Helpers
  PROVE  Degradations(st) \subseteq Helpers \cup {Tunnel}
BY DEF Degradations, NameOf, Tunnel

LEMMA ObsTypeStep ==
  ASSUME ObsType, children \subseteq Helpers, [Next]_vars
  PROVE  ObsType'
<1> USE DEF ObsType, radioVars, startVars, obsVars, Lifecycles, Phases
<1>1. CASE Start
  BY <1>1 DEF Start, StartRun
<1>2. CASE StartStep
  BY <1>2 DEF StartStep, SpawnStream, SpawnTunnel, TunnelFailed, StartReturns
<1>3. CASE TermStep
  BY <1>3 DEF TermStep
<1>4. CASE WaitStep
  BY <1>4 DEF WaitStep, WaitCheck, WaitRadio, WaitError
<1>5. CASE HealthStep
  <2>1. CASE HealthReports
    BY <1>5, <2>1 DEF HealthStep, HealthReports
  <2>2. CASE HealthDegradations
    <3>1. seenDegraded' \subseteq Helpers \cup {Tunnel}
      BY <2>2, DegradationNames DEF HealthDegradations
    <3>2. seen' \in Lifecycles /\ radioSeen' \in Lifecycles
      BY <2>2 DEF HealthDegradations
    <3> QED BY <1>5, <3>1, <3>2 DEF HealthStep
  <2> QED BY <1>5, <2>1, <2>2 DEF HealthStep
<1>6. CASE JoinReturns
  <2>1. joinedDegraded' \subseteq Helpers \cup {Tunnel} /\ joined' \in Lifecycles
    BY <1>6, DegradationNames DEF JoinReturns, JoinLifecycle
  <2> QED BY <1>6, <2>1 DEF JoinReturns
<1>7. CASE WaitCall \/ HealthCall \/ StopCall \/ JoinCall
  BY <1>7 DEF WaitCall, HealthCall, StopCall, JoinCall, Forget, RadioHealth
<1>8. CASE HelperExits \/ UNCHANGED vars
  BY <1>8 DEF HelperExits, vars
<1>9. CASE RadioStep
  BY <1>9 DEF RadioStep, Prepare, Announce, EndWell, EndBadly
<1> QED
  BY <1>1, <1>2, <1>3, <1>4, <1>5, <1>6, <1>7, <1>8, <1>9 DEF Next, AppStep, Done

-----------------------------------------------------------------------------
(* The processes. *)

(* What try_wait on some helpers leaves in ManagedChild::status. *)
LEMMA PolledStatus ==
  ASSUME ProcInv, NEW S
  PROVE  /\ Polled(S) \in [Helpers -> Exits \cup {"none"}]
         /\ \A h \in Helpers : Polled(S)[h] # "none" => Polled(S)[h] = proc[h]
         /\ \A h \in Helpers : status[h] # "none" => Polled(S)[h] = status[h]
BY DEF ProcInv, Polled, Exits

(* A step that polls some helpers and touches no process. *)
LEMMA PollKeepsProc ==
  ASSUME ProcInv, NEW S, status' = Polled(S), UNCHANGED <<proc, owned, alone>>
  PROVE  ProcInv'
BY PolledStatus DEF ProcInv

(* The kill reaches at most one helper, a target whose exit was not seen. *)
LEMMA KillsOne ==
  ASSUME ProcInv, SpawnInv, TermKill
  PROVE  /\ UNCHANGED <<status, owned, target, after>>
         /\ \E h \in target : /\ h \in Helpers /\ status[h] = "none"
                              /\ \/ proc' = proc
                                 \/ proc[h] = "running" /\ proc' = [proc EXCEPT ![h] = "signal"]
<1>1. PICK h \in Helpers :
        /\ NextUnseen(h)
        /\ \/ proc' = [proc EXCEPT ![h] = IF proc[h] = "running" THEN "signal" ELSE proc[h]]
           \/ UNCHANGED proc
  BY DEF TermKill
<1>2. h \in target /\ status[h] = "none"
  BY <1>1 DEF NextUnseen, Unseen
<1>3. proc' = proc \/ (proc[h] = "running" /\ proc' = [proc EXCEPT ![h] = "signal"])
  BY <1>1 DEF ProcInv
<1> QED BY <1>2, <1>3 DEF TermKill

(* wait records the exit of one target, which is the real one. *)
LEMMA WaitSees ==
  ASSUME ProcInv, TermWait
  PROVE  /\ UNCHANGED <<proc, owned>>
         /\ status' \in [Helpers -> Exits \cup {"none"}]
         /\ \A h \in Helpers : status'[h] # "none" => status'[h] = proc[h]
         /\ \A h \in Helpers : status'[h] = "none" => status[h] = "none"
BY DEF TermWait, ProcInv, Exits

LEMMA ProcInvStep ==
  ASSUME ProcInv, SpawnInv, [Next]_vars
  PROVE  ProcInv'
<1> USE DEF childVars
<1>0. UNCHANGED <<proc, status, owned, alone>> => ProcInv'
  BY DEF ProcInv
<1>1. CASE SpawnStream \/ SpawnTunnel
  <2>1. status' = status /\ owned' = owned /\ alone' = alone
    BY <1>1 DEF SpawnStream, SpawnTunnel
  <2>2. CASE SpawnOk /\ spawning \in Helpers
    <3>1. status[spawning] = "none"
      BY <2>2, SupervisorAssumption DEF ProcInv, SpawnInv, Exits, Helpers
    <3> QED BY <2>1, <2>2, <3>1 DEF SpawnOk, ProcInv
  <2>3. CASE proc' = proc
    BY <1>0, <2>1, <2>3
  <2> QED BY <1>1, <2>2, <2>3 DEF SpawnStream, SpawnTunnel, Direct
<1>2. CASE Start \/ TunnelFailed \/ StartReturns
  BY <1>0, <1>2 DEF Start, TunnelFailed, StartReturns
<1>3. CASE TermStep
  <2>1. CASE TermSignal
    BY <1>3, <2>1 DEF TermStep, TermSignal, ProcInv, SpawnInv
  <2>2. CASE TermPoll
    BY <1>3, <2>2, PollKeepsProc DEF TermStep, TermPoll
  <2>3. CASE TermKill
    BY <1>3, <2>3, KillsOne DEF TermStep, ProcInv, Exits
  <2>4. CASE TermWait
    BY <1>3, <2>4, WaitSees DEF TermStep, ProcInv
  <2> QED BY <1>3, <2>1, <2>2, <2>3, <2>4 DEF TermStep
<1>4. CASE WaitStep
  <2>1. UNCHANGED <<proc, owned, alone>>
    BY <1>4 DEF WaitStep
  <2>2. \/ status' = status
        \/ status' = Polled({h \in children : \A d \in DeadRequired : h <= d})
    BY <1>4 DEF WaitStep, WaitCheck, WaitRadio, WaitError, CheckPolls
  <2> QED BY <1>0, <2>1, <2>2, PollKeepsProc
<1>5. CASE HealthStep
  BY <1>5, PollKeepsProc DEF HealthStep, HealthReports, HealthDegradations
<1>6. CASE JoinReturns \/ WaitCall \/ HealthCall \/ StopCall \/ JoinCall
  BY <1>0, <1>6 DEF JoinReturns, WaitCall, HealthCall, StopCall, JoinCall
<1>7. CASE HelperExits
  <2>1. PICK h \in Helpers, e \in Exits :
          /\ proc[h] = "running" /\ proc' = [proc EXCEPT ![h] = e]
          /\ alone' = IF h \in owned THEN alone ELSE alone \cup {h}
    BY <1>7 DEF HelperExits
  <2>2. status' = status /\ owned' = owned
    BY <1>7 DEF HelperExits
  <2> QED BY <2>1, <2>2 DEF ProcInv, Exits
<1>8. CASE RadioStep \/ UNCHANGED vars
  BY <1>0, <1>8 DEF RadioStep, vars
<1> QED
  BY <1>1, <1>2, <1>3, <1>4, <1>5, <1>6, <1>7, <1>8 DEF Next, AppStep, StartStep, Done

-----------------------------------------------------------------------------
(* Helpers are spawned in order and held only once spawned. *)

(* A step that spawns nothing and hands no helper to the owner. *)
LEMMA SpawnKept ==
  ASSUME SpawnInv, UNCHANGED spawning, children' \subseteq children,
         target' \subseteq children \cup target,
         \A h \in Helpers : proc'[h] = "none" <=> proc[h] = "none"
  PROVE  SpawnInv'
BY DEF SpawnInv

LEMMA SpawnInvStep ==
  ASSUME ProcInv, SpawnInv, ControlInv, [Next]_vars
  PROVE  SpawnInv'
<1> USE DEF childVars, startVars
<1>0. UNCHANGED <<spawning, proc, children>> /\ target' \subseteq children \cup target => SpawnInv'
  BY DEF SpawnInv
<1>1. CASE SpawnStream \/ SpawnTunnel
  <2>0. spawning \in Helpers /\ spawning \in Nat /\ NStreams \in Nat /\ NTunnel \in Nat
    BY <1>1, SupervisorAssumption DEF SpawnStream, SpawnTunnel, Direct, Helpers, SpawnInv
  <2>1. CASE SpawnOk
    <3>1. children' \subseteq children \cup {spawning} /\ target' = target
      BY <1>1, <2>1 DEF SpawnStream, SpawnTunnel, SpawnOk, Terminate
    <3>2. \A h \in Helpers : proc'[h] # "none" <=> h < spawning'
      BY <2>0, <2>1 DEF SpawnOk, SpawnInv, ProcInv, Helpers
    <3> QED BY <2>0, <2>1, <3>1, <3>2 DEF SpawnOk, SpawnInv, Helpers
  <2>2. CASE ~SpawnOk
    <3>1. /\ UNCHANGED <<proc, spawning, children>>
          /\ target' = target \/ target' = {h \in TunnelHelpers : h < spawning}
      BY <1>1, <2>2 DEF SpawnStream, SpawnTunnel, Terminate
    <3> QED BY <3>1 DEF SpawnInv, TunnelHelpers
  <2> QED BY <2>1, <2>2
<1>2. CASE Start \/ TunnelFailed
  BY <1>0, <1>2 DEF Start, TunnelFailed, Terminate
<1>3. CASE StartReturns
  <2>1. children' \subseteq children \cup {h \in Helpers : h < spawning}
    BY <1>3, SupervisorAssumption DEF StartReturns, Helpers, SpawnInv
  <2> QED BY <1>3, <2>1 DEF StartReturns, SpawnInv
<1>4. CASE TermStep
  <2>1. UNCHANGED <<spawning, children>> /\ target' \subseteq target
    BY <1>4 DEF TermStep, TermSignal, TermPoll, TermKill, TermWait, TermReturn
  <2>2. \A h \in Helpers : proc'[h] = "none" <=> proc[h] = "none"
    BY <1>4, KillsOne DEF TermStep, TermSignal, TermPoll, TermWait, ProcInv
  <2> QED BY <2>1, <2>2, SpawnKept
<1>5. CASE WaitStep
  BY <1>0, <1>5 DEF WaitStep, WaitCheck, WaitRadio, WaitError, Shutdown, Terminate
<1>6. CASE HealthStep \/ JoinReturns \/ WaitCall \/ HealthCall
  BY <1>0, <1>6 DEF HealthStep, JoinReturns, WaitCall, HealthCall
<1>7. CASE StopCall \/ JoinCall
  BY <1>0, <1>7 DEF StopCall, JoinCall, Terminate
<1>8. CASE HelperExits
  <2>1. PICK h \in Helpers, e \in Exits : proc[h] = "running" /\ proc' = [proc EXCEPT ![h] = e]
    BY <1>8 DEF HelperExits
  <2>2. \A g \in Helpers : proc'[g] = "none" <=> proc[g] = "none"
    BY <2>1 DEF ProcInv, Exits
  <2>3. UNCHANGED <<spawning, children, target>>
    BY <1>8 DEF HelperExits
  <2> QED BY <2>2, <2>3, SpawnKept
<1>9. CASE RadioStep \/ UNCHANGED vars
  BY <1>0, <1>9 DEF RadioStep, vars
<1> QED
  BY <1>1, <1>2, <1>3, <1>4, <1>5, <1>6, <1>7, <1>8, <1>9
     DEF Next, AppStep, StartStep, Done

-----------------------------------------------------------------------------
(* Who died alone. *)

LEMMA AloneInvStep ==
  ASSUME ProcInv, SpawnInv, AloneInv, ControlInv, [Next]_vars
  PROVE  AloneInv'
<1> USE DEF childVars
<1>0. UNCHANGED <<proc, owned, alone>> /\ step' \notin {"termPoll", "termKill", "termWait"} => AloneInv'
  BY DEF AloneInv
<1>1. CASE SpawnStream \/ SpawnTunnel
  <2>1. UNCHANGED <<owned, alone>> /\ step \notin {"termPoll", "termKill", "termWait"}
    BY <1>1 DEF SpawnStream, SpawnTunnel
  <2>2. step' \notin {"termPoll", "termKill", "termWait"}
    BY <1>1 DEF SpawnStream, SpawnTunnel, Terminate
  <2>3. spawning \in Helpers /\ (proc' = proc \/ proc' = [proc EXCEPT ![spawning] = "running"])
    BY <1>1 DEF SpawnStream, SpawnTunnel, SpawnOk, Direct
  <2> QED BY <2>1, <2>2, <2>3 DEF AloneInv, ProcInv, Exits
<1>2. CASE Start \/ TunnelFailed \/ StartReturns
  <2>1. step' \notin {"termPoll", "termKill", "termWait"} /\ UNCHANGED <<proc, owned, alone>>
    BY <1>2 DEF Start, TunnelFailed, StartReturns, Terminate, AloneInv
  <2> QED BY <1>0, <2>1
<1>3. CASE TermStep
  <2>0. alone' = alone
    BY <1>3 DEF TermStep
  <2>1. CASE TermSignal
    BY <2>0, <2>1 DEF TermSignal, AloneInv
  <2>2. CASE TermPoll
    <3>1. step' \in {"termPoll", "termKill", "termWait"} => target' = target
      BY <2>2 DEF TermPoll, TermReturn, ControlInv, Returns
    <3>2. \A h \in target : status'[h] = "none" => status[h] = "none"
      BY <2>2, PolledStatus DEF TermPoll, SpawnInv
    <3> QED BY <2>0, <2>2, <3>1, <3>2 DEF TermPoll, AloneInv, TermReturn
  <2>3. CASE TermKill
    <3>1. \A h \in Helpers : proc'[h] \in Exits => proc[h] \in Exits \/ h \in owned
      BY <2>3, KillsOne DEF TermKill, ProcInv, AloneInv
    <3> QED BY <2>0, <2>3, <3>1 DEF TermKill, AloneInv
  <2>4. CASE TermWait
    <3>1. step' \in {"termPoll", "termKill", "termWait"} => target' = target
      BY <2>4 DEF TermWait, TermReturn, ControlInv, Returns
    <3>2. \A h \in target : status'[h] = "none" => status[h] = "none"
      BY <2>4, WaitSees DEF SpawnInv
    <3> QED BY <2>0, <2>4, <3>1, <3>2 DEF TermWait, AloneInv
  <2> QED BY <1>3, <2>1, <2>2, <2>3, <2>4 DEF TermStep
<1>4. CASE WaitStep
  BY <1>0, <1>4 DEF WaitStep, WaitCheck, WaitRadio, WaitError, Shutdown, Terminate
<1>5. CASE HealthStep \/ JoinReturns
  BY <1>0, <1>5 DEF HealthStep, HealthReports, HealthDegradations, JoinReturns
<1>6. CASE WaitCall \/ HealthCall \/ StopCall \/ JoinCall
  BY <1>0, <1>6 DEF WaitCall, HealthCall, StopCall, JoinCall, Terminate
<1>7. CASE HelperExits
  <2>1. PICK h \in Helpers, e \in Exits :
          /\ proc' = [proc EXCEPT ![h] = e]
          /\ alone' = IF h \in owned THEN alone ELSE alone \cup {h}
    BY <1>7 DEF HelperExits
  <2>2. UNCHANGED <<status, owned, step, target>>
    BY <1>7 DEF HelperExits
  <2> QED BY <2>1, <2>2 DEF AloneInv, ProcInv
<1>8. CASE RadioStep \/ UNCHANGED vars
  BY <1>8 DEF RadioStep, vars, AloneInv
<1> QED
  BY <1>1, <1>2, <1>3, <1>4, <1>5, <1>6, <1>7, <1>8 DEF Next, AppStep, StartStep, Done

-----------------------------------------------------------------------------
(* The control of the application's thread. *)

(* Exits and kills only: no step but a spawn starts a process. *)
LEMMA RunningShrinks ==
  ASSUME ProcInv, SpawnInv, TermStep \/ HelperExits \/ proc' = proc
  PROVE  Running' \subseteq Running
<1>1. CASE HelperExits
  <2>1. PICK h \in Helpers, e \in Exits : proc' = [proc EXCEPT ![h] = e]
    BY <1>1 DEF HelperExits
  <2> QED BY <2>1 DEF Running, ProcInv, Exits
<1>2. CASE TermStep
  BY <1>2, KillsOne DEF TermStep, TermSignal, TermPoll, TermWait, ProcInv, Running
<1>3. CASE proc' = proc
  BY <1>3 DEF Running
<1> QED BY <1>1, <1>2, <1>3

(* terminate_child_processes returns when none of its targets runs. *)
LEMMA TermReturnStopped ==
  ASSUME ProcInv, SpawnInv, TermStep, step' \notin Terminating
  PROVE  step' = after /\ step \in Terminating /\ Running' \cap target = {}
<1> USE DEF Terminating
<1>1. CASE TermSignal
  BY <1>1 DEF TermSignal
<1>2. CASE TermPoll
  <2>1. \A h \in target : status'[h] # "none"
    BY <1>2 DEF TermPoll
  <2>2. \A h \in Helpers : status'[h] # "none" => status'[h] = proc[h] /\ status'[h] \in Exits
    BY <1>2, PolledStatus DEF TermPoll
  <2> QED BY <1>2, <2>1, <2>2 DEF TermPoll, TermReturn, Running, Exits, SpawnInv
<1>3. CASE TermKill
  BY <1>3 DEF TermKill
<1>4. CASE TermWait
  <2>1. \A h \in target : status'[h] # "none"
    BY <1>4 DEF TermWait
  <2>2. \A h \in Helpers : status'[h] # "none" => status'[h] = proc[h] /\ status'[h] \in Exits
    BY <1>4, WaitSees DEF Exits
  <2> QED BY <1>4, <2>1, <2>2 DEF TermWait, TermReturn, Running, Exits, SpawnInv
<1> QED BY <1>1, <1>2, <1>3, <1>4 DEF TermStep

(* What a call of the handle, made when none is in progress, leaves as it was. *)
LEMMA CallControl ==
  ASSUME ProcInv, SpawnInv, ControlInv, ResultInv, ObsType,
         WaitCall \/ HealthCall \/ StopCall \/ JoinCall
  PROVE  ControlInv' /\ ResultInv'
<1> USE DEF radioVars, childVars, startVars, obsVars, Idle, Forget, Terminate, Direct,
            TunnelHelpers, Running, Terminating, Calls, Stopped, Returns
<1>1. CASE WaitCall \/ HealthCall
  BY <1>1 DEF WaitCall, HealthCall, ControlInv, ResultInv
<1>2. CASE StopCall \/ JoinCall
  BY <1>2 DEF StopCall, JoinCall, ControlInv, ResultInv
<1> QED BY <1>1, <1>2

LEMMA TermControl ==
  ASSUME ProcInv, SpawnInv, ControlInv, ResultInv, TermStep
  PROVE  ControlInv' /\ ResultInv'
<1> USE DEF Terminating, Calls, Stopped, Returns
<1>0. UNCHANGED <<radioVars, startVars, obsVars, children, alone>>
  BY DEF TermStep
<1>1. Running' \subseteq Running
  BY RunningShrinks
<1>2. CASE step' \in Terminating
  <2>1. step \in Terminating /\ UNCHANGED <<target, after>>
    BY <1>2 DEF TermStep, TermSignal, TermPoll, TermKill, TermWait, TermReturn, ControlInv
  <2> QED
    BY <1>0, <1>1, <1>2, <2>1 DEF ControlInv, ResultInv, radioVars, startVars, obsVars
<1>3. CASE step' \notin Terminating
  <2>1. step' = after /\ step \in Terminating /\ Running' \cap target = {} /\ after' = "idle"
    BY <1>3, TermReturnStopped DEF TermStep, TermSignal, TermPoll, TermKill, TermWait, TermReturn
  <2>2. Running \subseteq children \cup target /\ after \in Returns /\ after # "tunnelFailed" =>
          Running' = {}
    BY <1>1, <2>1 DEF ControlInv
  <2>3. after = "tunnelFailed" => Running' \subseteq children'
    BY <1>0, <1>1, <2>1 DEF ControlInv
  <2> QED
    BY <1>0, <1>1, <1>3, <2>1, <2>2, <2>3 DEF ControlInv, ResultInv, radioVars, startVars, obsVars
<1> QED BY <1>2, <1>3

LEMMA SpawnControl ==
  ASSUME ProcInv, SpawnInv, ControlInv, ResultInv, ObsType, Start \/ StartStep
  PROVE  ControlInv' /\ ResultInv'
<1> USE DEF Terminating, Calls, Stopped, Returns, radioVars, childVars, startVars, obsVars
<1>1. CASE Start
  <2>1. {h \in Direct : h < 1} = {} /\ 0 \notin TunnelHelpers
    BY SupervisorAssumption DEF Direct, Helpers, TunnelHelpers
  <2>2. /\ children = {h \in Direct : h < spawning} /\ Direct' = Direct
        /\ spawnFailed = 0 /\ ~tunnelLost /\ step = "idle" /\ started = "none"
        /\ waited = "none" /\ joined = "none" /\ Running' = Running
    BY <1>1, <2>1 DEF Start, ControlInv, ResultInv, Direct, Running
  <2>3. CASE StartRun /\ step' = "spawn" /\ UNCHANGED started
    BY <1>1, <2>2, <2>3 DEF Start, StartRun, ControlInv, ResultInv
  <2>4. CASE started' = "error" /\ UNCHANGED <<phase, step>>
    BY <1>1, <2>1, <2>2, <2>4 DEF Start, ControlInv, ResultInv
  <2> QED BY <1>1, <2>3, <2>4 DEF Start
<1>2. CASE SpawnStream
  <2>1. spawning \in Direct /\ spawning \in Helpers
    BY <1>2 DEF SpawnStream, Direct
  <2>2. CASE SpawnOk /\ children' = children \cup {spawning} /\ UNCHANGED <<step, started, spawnFailed>>
    <3>1. children' = {h \in Direct : h < spawning'} /\ Direct' = Direct
      BY <1>2, <2>1, <2>2, SupervisorAssumption
         DEF SpawnStream, SpawnOk, ControlInv, SpawnInv, Direct, Helpers, TunnelHelpers
    <3> QED BY <1>2, <2>2, <3>1 DEF SpawnStream, ControlInv, ResultInv
  <2>3. CASE step' = "idle" /\ started' = "error" /\ spawnFailed' = spawning /\ proc' = proc
    BY <1>2, <2>1, <2>3 DEF SpawnStream, ControlInv, ResultInv, Direct, Running
  <2> QED BY <1>2, <2>2, <2>3 DEF SpawnStream
<1>3. CASE SpawnTunnel
  <2>1. backend = "managed" /\ spawning \in TunnelHelpers /\ Direct = Helpers \ TunnelHelpers
    BY <1>3 DEF SpawnTunnel, Direct, ObsType
  <2>2. CASE SpawnOk /\ UNCHANGED <<step, target, after, started, spawnFailed>>
    <3>1. children' = {h \in Direct : h < spawning'} /\ Direct' = Direct
      BY <1>3, <2>1, <2>2, SupervisorAssumption
         DEF SpawnTunnel, SpawnOk, ControlInv, SpawnInv, Direct, Helpers, TunnelHelpers
    <3> QED BY <1>3, <2>2, <3>1 DEF SpawnTunnel, ControlInv, ResultInv
  <2>3. CASE /\ Terminate({h \in TunnelHelpers : h < spawning}, "tunnelFailed")
             /\ spawnFailed' = spawning /\ UNCHANGED <<proc, spawning, started>>
    <3>1. Running' \subseteq children' \cup target'
      BY <1>3, <2>1, <2>3 DEF SpawnTunnel, Terminate, ControlInv, SpawnInv, Running
    <3> QED BY <1>3, <2>1, <2>3, <3>1 DEF SpawnTunnel, Terminate, ControlInv, ResultInv
  <2>4. CASE /\ step' = "idle" /\ started' = "error"
             /\ UNCHANGED <<proc, spawning, target, after, spawnFailed>>
    <3>1. 0 \notin TunnelHelpers
      BY SupervisorAssumption DEF TunnelHelpers, Helpers
    <3> QED BY <1>3, <2>4, <3>1 DEF SpawnTunnel, ControlInv, ResultInv, Running
  <2> QED BY <1>3, <2>2, <2>3, <2>4 DEF SpawnTunnel
<1>4. CASE TunnelFailed
  BY <1>4 DEF TunnelFailed, Terminate, ControlInv, ResultInv, Running
<1>5. CASE StartReturns
  <2>1. CASE step = "spawn" /\ children' = Helpers /\ started' = "ok"
    <3>1. Running' \subseteq children'
      BY <2>1 DEF Running
    <3> QED BY <1>5, <2>1, <3>1 DEF StartReturns, ControlInv, ResultInv
  <2>2. CASE step = "startError"
    BY <1>5, <2>2 DEF StartReturns, ControlInv, ResultInv, Running
  <2> QED BY <1>5, <2>1, <2>2 DEF StartReturns
<1> QED BY <1>1, <1>2, <1>3, <1>4, <1>5 DEF StartStep

LEMMA WaitControl ==
  ASSUME ProcInv, SpawnInv, ControlInv, ResultInv, WaitStep
  PROVE  ControlInv' /\ ResultInv'
<1> USE DEF Terminating, Calls, Stopped, Returns
<1>1. /\ UNCHANGED <<phase, backend, tunnelRequired, tunnelLost, spawning, started, spawnFailed>>
      /\ UNCHANGED <<proc, children, joined>> /\ Running' = Running
  BY DEF WaitStep, startVars, Running
<1>2. CASE Shutdown /\ waited' = waited /\ step \in Calls
  BY <1>1, <1>2 DEF Shutdown, Terminate, ControlInv, ResultInv
<1>3. CASE /\ step \in Calls /\ step' \in Calls
           /\ UNCHANGED <<waited, radioStop, target, after>>
  BY <1>1, <1>3 DEF ControlInv, ResultInv
<1>4. CASE /\ step \in Calls /\ step' = "idle" /\ waited' \in {"ready", "timeout"}
           /\ UNCHANGED <<radioStop, target, after>>
  BY <1>1, <1>4 DEF ControlInv, ResultInv
<1>5. CASE WaitError
  BY <1>1, <1>5 DEF WaitError, ControlInv, ResultInv
<1> QED BY <1>2, <1>3, <1>4, <1>5 DEF WaitStep, WaitCheck, WaitRadio

LEMMA RestControl ==
  ASSUME ProcInv, SpawnInv, ControlInv, ResultInv, ObsType,
         HealthStep \/ JoinReturns \/ HelperExits \/ RadioStep \/ UNCHANGED vars
  PROVE  ControlInv' /\ ResultInv'
<1> USE DEF Terminating, Calls, Stopped, Returns, radioVars, childVars, startVars, obsVars
<1>0. Running' \subseteq Running /\ Direct' = Direct
  BY RunningShrinks DEF HealthStep, JoinReturns, HelperExits, RadioStep, vars, Direct
<1>1. CASE HealthStep
  BY <1>0, <1>1 DEF HealthStep, HealthReports, HealthDegradations, ControlInv, ResultInv
<1>2. CASE JoinReturns
  BY <1>0, <1>2 DEF JoinReturns, ControlInv, ResultInv
<1>3. CASE HelperExits \/ UNCHANGED vars
  BY <1>0, <1>3 DEF HelperExits, vars, ControlInv, ResultInv
<1>4. CASE RadioStep
  <2>1. phase' \notin {"idle"} /\ (phase \in Ended => phase' \in Ended)
    BY <1>4 DEF RadioStep, Prepare, Announce, EndWell, EndBadly, Ended
  <2> QED BY <1>0, <1>4, <2>1 DEF RadioStep, ControlInv, ResultInv
<1> QED BY <1>1, <1>2, <1>3, <1>4

LEMMA InvStep ==
  SupervisorInv /\ ObsType /\ [Next]_vars => SupervisorInv'
<1> SUFFICES ASSUME SupervisorInv, ObsType, [Next]_vars PROVE SupervisorInv'
  OBVIOUS
<1> USE DEF SupervisorInv
<1>1. ProcInv' /\ SpawnInv' /\ AloneInv'
  BY ProcInvStep, SpawnInvStep, AloneInvStep
<1>2. ControlInv' /\ ResultInv'
  BY CallControl, TermControl, SpawnControl, WaitControl, RestControl DEF Next, AppStep, Done
<1> QED BY <1>1, <1>2

LEMMA InitInv == Init => SupervisorInv /\ ObsType /\ BoolType
<1> SUFFICES ASSUME Init PROVE SupervisorInv /\ ObsType /\ BoolType
  OBVIOUS
<1> USE SupervisorAssumption DEF Init, ContractInit
<1>1. ProcInv /\ SpawnInv /\ AloneInv
  BY DEF ProcInv, SpawnInv, AloneInv, Exits, Helpers
<1>2. Running = {} /\ 0 \notin TunnelHelpers
  BY DEF Running, TunnelHelpers, Helpers
<1>3. ControlInv /\ ResultInv
  BY <1>2 DEF ControlInv, ResultInv, Terminating, Calls, Stopped, Returns
<1>4. ObsType
  BY DEF ObsType, Phases, Lifecycles
<1>5. BoolType
  BY DEF BoolType
<1> QED BY <1>1, <1>3, <1>4, <1>5 DEF SupervisorInv

(* The invariant and the types hold in every reachable state. *)
LEMMA Invariant == Spec => [](SupervisorInv /\ ObsType /\ BoolType)
<1>1. SupervisorInv => children \subseteq Helpers
  BY DEF SupervisorInv, SpawnInv
<1>2. SupervisorInv /\ ObsType /\ BoolType /\ [Next]_vars => (SupervisorInv /\ ObsType /\ BoolType)'
  BY <1>1, InvStep, ObsTypeStep, BoolTypeStep
<1> QED BY <1>2, InitInv, PTL DEF Spec

(* Type correctness of the supervisor, ManagedChild::status included. *)
THEOREM TypeCorrect == Spec => []TypeOK
<1>1. SupervisorInv /\ ObsType /\ BoolType => TypeOK
  BY DEF SupervisorInv, ObsType, BoolType, ProcInv, SpawnInv, TypeOK, Lifecycles, Exits
<1> QED BY <1>1, Invariant, PTL

(* After join no helper runs and the radio has ended, for any number of helpers, *)
(* however long each ignores its SIGTERM and whatever kill is refused.           *)
THEOREM JoinStopsAll == Spec => []NothingOutlivesJoin
<1>1. SupervisorInv => NothingOutlivesJoin
  BY DEF SupervisorInv, ResultInv, NothingOutlivesJoin
<1> QED BY <1>1, Invariant, PTL

(* A failed wait_ready and a start that failed on a required tunnel leave       *)
(* nothing running.                                                             *)
THEOREM FailureStopsAll == Spec => []FailedStartupStopsAll
<1>1. SupervisorInv => FailedStartupStopsAll
  BY DEF SupervisorInv, ResultInv, FailedStartupStopsAll
<1> QED BY <1>1, Invariant, PTL

(* A degradation is blamed on a helper that died alone, or on the tunnel that *)
(* could not be spawned.                                                      *)
LEMMA DegradationsAlone ==
  ASSUME SupervisorInv, NEW st,
         \A h \in Helpers : st[h] # "none" => proc[h] \in Exits
  PROVE  \A n \in Degradations(st) :
           \/ \E h \in alone : NameOf(h) = n
           \/ n = Tunnel /\ spawnFailed \in TunnelHelpers
<1> TAKE n \in Degradations(st)
<1>1. CASE \E c \in children : st[c] # "none" /\ c \notin owned /\ NameOf(c) = n
  <2>1. PICK c \in children : st[c] # "none" /\ c \notin owned /\ NameOf(c) = n
    BY <1>1
  <2>2. c \in alone
    BY <2>1 DEF SupervisorInv, SpawnInv, AloneInv
  <2> QED BY <2>1, <2>2
<1>2. CASE tunnelLost /\ n = Tunnel
  BY <1>2 DEF SupervisorInv, ControlInv
<1> QED BY <1>1, <1>2 DEF Degradations

LEMMA BlameStep ==
  ASSUME SupervisorInv, ObsType, BlamedDiedAlone, [Next]_vars
  PROVE  BlamedDiedAlone'
<1> USE DEF BlamedDiedAlone
<1>1. alone \subseteq alone'
  <2>1. CASE HelperExits
    BY <2>1 DEF HelperExits
  <2> QED
    BY <2>1 DEF Next, AppStep, Done, Start, StartStep, SpawnStream, SpawnTunnel, TunnelFailed,
       StartReturns, TermStep, WaitStep, HealthStep, JoinReturns, WaitCall, HealthCall, StopCall,
       JoinCall, RadioStep, vars, childVars
<1>2. CASE /\ seenDegraded' \subseteq seenDegraded /\ joinedDegraded' = joinedDegraded
           /\ spawnFailed' = spawnFailed
  BY <1>1, <1>2
<1>3. CASE HealthDegradations /\ HealthStep
  <2>1. \A h \in Helpers : status'[h] # "none" => proc[h] \in Exits
    BY <1>3, PolledStatus DEF HealthDegradations, SupervisorInv
  <2>2. seenDegraded' = Degradations(status')
    BY <1>3 DEF HealthDegradations
  <2>3. \A n \in seenDegraded' : \/ \E h \in alone : NameOf(h) = n
                                 \/ n = Tunnel /\ spawnFailed \in TunnelHelpers
    BY <2>1, <2>2, DegradationsAlone
  <2> QED BY <1>1, <1>3, <2>3 DEF HealthStep, startVars
<1>4. CASE JoinReturns
  <2>1. \A h \in Helpers : status[h] # "none" => proc[h] \in Exits
    BY DEF SupervisorInv, ProcInv
  <2>2. joinedDegraded' = Degradations(status)
    BY <1>4 DEF JoinReturns
  <2>3. \A n \in joinedDegraded' : \/ \E h \in alone : NameOf(h) = n
                                   \/ n = Tunnel /\ spawnFailed \in TunnelHelpers
    BY <2>1, <2>2, DegradationsAlone
  <2> QED BY <1>1, <1>4, <2>3 DEF JoinReturns, startVars
<1>5. CASE SpawnStream \/ SpawnTunnel
  <2>1. spawnFailed = 0 /\ 0 \notin TunnelHelpers
    BY <1>5, SupervisorAssumption DEF SpawnStream, SpawnTunnel, SupervisorInv, ControlInv,
                                      TunnelHelpers, Helpers
  <2>2. UNCHANGED <<seenDegraded, joinedDegraded>>
    BY <1>5 DEF SpawnStream, SpawnTunnel, obsVars
  <2> QED BY <1>1, <2>1, <2>2
<1> QED
  BY <1>2, <1>3, <1>4, <1>5 DEF Next, AppStep, Done, Start, StartStep, TunnelFailed,
     StartReturns, TermStep, WaitStep, HealthStep, HealthReports, WaitCall, HealthCall, StopCall,
     JoinCall, Forget, RadioStep, HelperExits, vars, obsVars, startVars

(* health and join never blame a helper the owner terminated, for any mix of     *)
(* required and best-effort helpers.                                             *)
THEOREM BlameIsTrue == Spec => []BlamedDiedAlone
<1>1. Init => BlamedDiedAlone
  BY DEF Init, BlamedDiedAlone
<1> QED BY <1>1, BlameStep, Invariant, PTL DEF Spec

(* Once join has returned, nothing its verdict is made of moves any more. *)
LEMMA JoinedIsFinal ==
  ASSUME SupervisorInv, joined # "none", [Next]_vars
  PROVE  UNCHANGED <<joined, phase, status, children, backend, tunnelRequired>>
<1> USE DEF Idle
<1>0. step = "idle" /\ phase \in Ended /\ started # "none"
  BY DEF SupervisorInv, ResultInv
<1>1. CASE Start \/ StartStep
  BY <1>0, <1>1 DEF Start, StartStep, SpawnStream, SpawnTunnel, TunnelFailed, StartReturns
<1>2. CASE TermStep \/ WaitStep \/ HealthStep \/ JoinReturns
  BY <1>0, <1>2 DEF TermStep, TermSignal, TermPoll, TermKill, TermWait, WaitStep, WaitCheck, WaitRadio,
     WaitError, HealthStep, HealthReports, HealthDegradations, JoinReturns
<1>3. CASE WaitCall \/ HealthCall \/ StopCall \/ JoinCall
  BY <1>3 DEF WaitCall, HealthCall, StopCall, JoinCall
<1>4. CASE RadioStep
  BY <1>0, <1>4 DEF RadioStep, Prepare, Announce, EndWell, EndBadly, Ended
<1>5. CASE HelperExits \/ UNCHANGED vars
  BY <1>5 DEF HelperExits, vars, radioVars, startVars, obsVars, childVars
<1> QED BY <1>1, <1>2, <1>3, <1>4, <1>5 DEF Next, AppStep, Done

LEMMA VerdictStep ==
  ASSUME SupervisorInv, ObsType, JoinVerdict, [Next]_vars
  PROVE  JoinVerdict'
<1> USE DEF JoinVerdict
<1>1. CASE joined # "none"
  <2>1. UNCHANGED <<joined, phase, status, children, backend, tunnelRequired>>
    BY <1>1, JoinedIsFinal
  <2> QED BY <2>1 DEF ChildFailed, Required
<1>2. CASE JoinReturns
  <2>1. ChildFailed' = ChildFailed /\ phase' = phase
    BY <1>2 DEF JoinReturns, ChildFailed, Required, childVars, startVars, radioVars
  <2>2. phase \in {"stopped", "failed"}
    BY <1>2 DEF JoinReturns, SupervisorInv, ResultInv, Ended
  <2> QED BY <1>2, <2>1, <2>2 DEF JoinReturns, JoinLifecycle
<1>3. CASE joined = "none" /\ ~JoinReturns
  <2>1. joined' = "none"
    BY <1>3 DEF Next, AppStep, Done, Start, StartStep, SpawnStream, SpawnTunnel, TunnelFailed,
       StartReturns, TermStep, WaitStep, HealthStep, WaitCall, HealthCall, StopCall, JoinCall,
       RadioStep, HelperExits, vars, obsVars
  <2> QED BY <2>1
<1> QED BY <1>1, <1>2, <1>3

(* join's verdict is right and stays right, for any set of required helpers. *)
THEOREM VerdictIsTrue == Spec => []JoinVerdict
<1>1. Init => JoinVerdict
  BY DEF Init, JoinVerdict
<1> QED BY <1>1, VerdictStep, Invariant, PTL DEF Spec
=============================================================================
