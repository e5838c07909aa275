------------------------------ MODULE BridgeLoop ------------------------------
(***************************************************************************)
(* The running half of the production runtime (wfb-radio-runtime/lib.rs):   *)
(* one receiver thread per TX ingress socket                                *)
(* (spawn_production_tx_ingress_receivers), the unbounded mpsc channel they *)
(* feed, the single-threaded bridge loop that drains it                     *)
(* (run_production_bridge_loop with the callbacks of                        *)
(* run_production_runtime_flow_with_session), the final TX telemetry, and   *)
(* the drop of the receiver that stops and joins the threads.               *)
(*                                                                          *)
(* Time is a clock every step may read (Instant::now()) and that may        *)
(* advance between any two steps; the loop starts at clock 0, so elapsed    *)
(* time and the clock coincide.  It is finer than a millisecond, because a  *)
(* Duration is and a USB timeout is not.  The clock stops at Horizon; a USB *)
(* read whose timeout lies beyond it may time out there.                    *)
(* Counters that nothing reads (iterations, polls, bytes, frame metadata)   *)
(* are left out.                                                            *)
(***************************************************************************)
EXTENDS Integers, Sequences, FiniteSets, AirtimeSchedule, LedHeartbeat

FSE == INSTANCE FiniteSetsExt

CONSTANTS
  Sockets,        \* the bound TX ingress sockets, by report_index
  Milli,          \* clock units in a millisecond
  Duration,       \* config.duration_ms in clock units, 0 for an unbounded run
  RxTimeout,      \* config.rx_timeout_ms in clock units
  TxBurstLimit,   \* config.tx_burst_limit
  TxMinInterval,  \* config.tx_min_interval_us, in clock units
  MaxDatagrams,   \* config.max_datagrams, 0 for no limit
  Schedule,       \* config.airtime_schedule
  MaxIngress,     \* bound: datagrams the network delivers in all
  Horizon         \* bound: the last clock value

(* What plan_production_wfb_loop and the configuration types leave. *)
ASSUME LoopAssumption ==
  /\ IsFiniteSet(Sockets)
  /\ {Duration, TxMinInterval, MaxDatagrams, MaxIngress, Horizon} \subseteq Nat
  /\ {Milli, RxTimeout, TxBurstLimit} \subseteq Nat \ {0}
  /\ Duration % Milli = 0 /\ RxTimeout % Milli = 0
  /\ Schedule \in Schedules /\ Validate(Schedule)

VARIABLES
  clock,            \* monotonic time
  stopRequested,    \* the signal flag or the handle's external stop flag
  \* ---- ingress
  thread,           \* where each receiver thread is
  inHand,           \* the kind of the datagram in a thread's buffer
  queue,            \* the mpsc channel
  ingressStop,      \* ProductionRuntimeTxIngressReceiver.stop
  ingress,          \* the shared atomic counters
  receiverAlive,    \* mpsc::Receiver not yet dropped
  \* ---- loop
  pc,               \* the point of the loop about to execute
  now,              \* Instant read at the start of the iteration
  burst,            \* tx_burst_count
  lastTx,           \* last_tx_processed_at, NoTx for None
  processed,        \* tx_datagrams_processed
  current,          \* the datagram being submitted
  rxDue,            \* when the pending USB read times out, NoTimeout for never
  stopReason,       \* outcome.stop_reason, "error" for Err
  \* ---- telemetry
  txReceived,       \* RuntimeFlowTxTelemetry.datagrams_received
  binds,            \* RuntimeFlowTxTelemetry.tx_binds
  bridge,           \* TxCounters
  submit,           \* TxSubmitCounters
  report,           \* the ingress part of the final TX telemetry
  \* ---- history, for the properties only
  txSinceRx,        \* datagrams taken since the last USB read
  txAfterStop,      \* datagrams taken after stop was requested
  txLate            \* datagrams taken after the deadline

ingressVars == <<thread, inHand, queue, ingressStop, ingress, receiverAlive>>
loopVars == <<pc, now, burst, lastTx, processed, current, rxDue, stopReason>>
telemetryVars == <<txReceived, binds, bridge, submit, report>>
historyVars == <<txSinceRx, txAfterStop, txLate>>
vars == <<clock, stopRequested, ingressVars, loopVars, telemetryVars,
          historyVars, hbVars>>

Kinds == {"frame", "malformed"}     \* what parse and build_tx_packet make of it
Datagrams == [socket : Sockets, kind : Kinds]
NoTx == -1
NoTimeout == -1
NoDatagram == [socket |-> "none", kind |-> "none"]

(* Threads that have counted a datagram and not yet queued it. *)
Holding == {s \in Sockets : thread[s] = "send"}

(* saturating_add(1) on the named counters; the models stay far from u64::MAX. *)
Bump(counters, names) ==
  [c \in DOMAIN counters |-> IF c \in names THEN counters[c] + 1 ELSE counters[c]]

BindNames == {"received", "submitted", "failed", "dropped"}
BridgeNames == {"incoming", "injected", "dropped", "malformed"}
SubmitNames == {"submitted", "failed"}

Unlimited == MaxDatagrams = 0
LoopRunning == stopReason = "none"

-----------------------------------------------------------------------------
(* Receiver threads: `while !stop { recv_from; count; send }`. *)

(* Mutant: the thread never looks at the stop flag. *)
ThreadCheckStopNever(s) ==
  /\ thread[s] = "check"
  /\ thread' = [thread EXCEPT ![s] = "recv"]
  /\ UNCHANGED <<inHand, queue, ingressStop, ingress, receiverAlive>>

ThreadCheckStop(s) ==
  /\ thread[s] = "check"
  /\ thread' = [thread EXCEPT ![s] = IF ingressStop THEN "done" ELSE "recv"]
  /\ UNCHANGED <<inHand, queue, ingressStop, ingress, receiverAlive>>

(* Mutant: the buffer is not copied before the next use. *)
ThreadReceiveUncopied(s) ==
  /\ thread[s] = "recv"
  /\ ingress.received < MaxIngress
  /\ ingress' = [ingress EXCEPT !.received = @ + 1]
  /\ thread' = [thread EXCEPT ![s] = "send"]
  /\ UNCHANGED <<inHand, queue, ingressStop, receiverAlive>>

(* Ok((len, peer)): the datagram is counted before it is queued. *)
ThreadReceive(s) ==
  /\ thread[s] = "recv"
  /\ ingress.received < MaxIngress
  /\ \E kind \in Kinds : inHand' = [inHand EXCEPT ![s] = kind]
  /\ ingress' = [ingress EXCEPT !.received = @ + 1]
  /\ thread' = [thread EXCEPT ![s] = "send"]
  /\ UNCHANGED <<queue, ingressStop, receiverAlive>>

(* Mutant: a bounded channel whose full queue silently drops. *)
ThreadSendLossy(s) ==
  /\ thread[s] = "send"
  /\ queue' = IF Len(queue) < 1 THEN Append(queue, [socket |-> s, kind |-> inHand[s]])
                                ELSE queue
  /\ thread' = [thread EXCEPT ![s] = "check"]
  /\ inHand' = [inHand EXCEPT ![s] = "none"]
  /\ UNCHANGED <<ingress, ingressStop, receiverAlive>>

ThreadSend(s) ==
  /\ thread[s] = "send"
  /\ IF receiverAlive
     THEN /\ queue' = Append(queue, [socket |-> s, kind |-> inHand[s]])
          /\ thread' = [thread EXCEPT ![s] = "check"]
          /\ UNCHANGED ingress
     ELSE /\ ingress' = [ingress EXCEPT !.sendFailed = @ + 1]
          /\ thread' = [thread EXCEPT ![s] = "done"]
          /\ UNCHANGED queue
  /\ inHand' = [inHand EXCEPT ![s] = "none"]
  /\ UNCHANGED <<ingressStop, receiverAlive>>

(* WouldBlock or TimedOut: back to the stop check. *)
ThreadTimeout(s) ==
  /\ thread[s] = "recv"
  /\ thread' = [thread EXCEPT ![s] = "check"]
  /\ UNCHANGED <<inHand, queue, ingressStop, ingress, receiverAlive>>

(* Any other socket error ends this thread, and only this thread. *)
ThreadError(s) ==
  /\ thread[s] = "recv"
  /\ thread' = [thread EXCEPT ![s] = "done"]
  /\ UNCHANGED <<inHand, queue, ingressStop, ingress, receiverAlive>>

ThreadStep(s) ==
  /\ \/ ThreadCheckStop(s)
     \/ ThreadReceive(s)
     \/ ThreadSend(s)
     \/ ThreadTimeout(s)
     \/ ThreadError(s)
  /\ UNCHANGED <<clock, stopRequested, loopVars, telemetryVars, historyVars, hbVars>>

-----------------------------------------------------------------------------
(* The loop.  An iteration is Top, Bounds, Begin, the burst, ArmRx, ReadRx. *)

GoTo(from, to) == pc = from /\ pc' = to

Finish(from, reason) ==
  /\ pc = from /\ pc' = "ledOff"
  /\ stopReason' = reason

StopAtTop ==
  /\ stopRequested
  /\ Finish("top", "signal")
  /\ UNCHANGED <<now, burst, lastTx, processed, current, rxDue>>

PassTop ==
  /\ ~stopRequested
  /\ GoTo("top", "bounds")
  /\ UNCHANGED <<now, burst, lastTx, processed, current, rxDue, stopReason>>

(* Mutant: the limit is one short. *)
BoundReachedEarly ==
  IF Duration # 0 THEN clock >= Duration
                  ELSE ~Unlimited /\ processed + 1 >= MaxDatagrams

(* The datagram limit ends the loop only when no duration does. *)
BoundReached ==
  IF Duration # 0 THEN clock >= Duration
                  ELSE ~Unlimited /\ processed >= MaxDatagrams

CheckBounds ==
  /\ IF BoundReached
     THEN Finish("bounds", IF Duration # 0 THEN "duration_elapsed"
                                           ELSE "tx_datagram_limit")
     ELSE GoTo("bounds", "begin") /\ UNCHANGED stopReason
  /\ UNCHANGED <<now, burst, lastTx, processed, current, rxDue>>

(* Mutant: the burst count is not reset. *)
BeginWithoutReset ==
  /\ GoTo("begin", IF tx_allowed_at_elapsed(Schedule, clock) THEN "burst" ELSE "arm")
  /\ now' = clock
  /\ maybe_toggle(clock)
  /\ UNCHANGED <<burst, lastTx, processed, current, rxDue, stopReason>>

(* The iteration's clock reading, the heartbeat tick and the airtime gate. *)
Begin ==
  /\ GoTo("begin", IF tx_allowed_at_elapsed(Schedule, clock) THEN "burst" ELSE "arm")
  /\ now' = clock
  /\ burst' = 0
  /\ maybe_toggle(clock)
  /\ UNCHANGED <<lastTx, processed, current, rxDue, stopReason>>

(* The while condition and the pacing break: now is the iteration's start,   *)
(* and now.saturating_duration_since(last) is 0 when last is later.          *)
SinceLastTx == IF now >= lastTx THEN now - lastTx ELSE 0
Paced == lastTx # NoTx => SinceLastTx >= TxMinInterval

(* Mutant: no burst limit. *)
MayTryTxNoBurstLimit == (Unlimited \/ processed < MaxDatagrams) /\ Paced

MayTryTx ==
  /\ Unlimited \/ processed < MaxDatagrams
  /\ burst < TxBurstLimit
  /\ Paced

EndBurst ==
  /\ ~MayTryTx \/ queue = <<>>       \* TxEmpty and TxDisconnected both break
  /\ GoTo("burst", "arm")
  /\ UNCHANGED <<now, burst, lastTx, processed, current, rxDue, stopReason>>

(* TryTx: try_recv, and the counters that move before the submission. *)
TakeDatagram ==
  /\ MayTryTx
  /\ queue # <<>>
  /\ GoTo("burst", "submit")
  /\ current' = Head(queue)
  /\ queue' = Tail(queue)
  /\ txReceived' = txReceived + 1
  /\ binds' = [binds EXCEPT ![Head(queue).socket] = Bump(@, {"received"})]
  /\ UNCHANGED <<now, burst, lastTx, processed, rxDue, stopReason>>

(* handle_production_bridge_tx_datagram, and the per-bind outcome.  The      *)
(* session has a bulk OUT endpoint: initialization fails without one.        *)
DropMalformed ==
  /\ current.kind = "malformed"
  /\ bridge' = Bump(bridge, {"incoming", "dropped", "malformed"})
  /\ binds' = [binds EXCEPT ![current.socket] = Bump(@, {"dropped"})]
  /\ UNCHANGED submit

(* Mutant: a failed submission is not counted as dropped by its bind. *)
SubmitBindDropMissed ==
  /\ current.kind = "frame"
  /\ \/ /\ bridge' = Bump(bridge, {"incoming", "injected"})
        /\ submit' = Bump(submit, {"submitted"})
        /\ binds' = [binds EXCEPT ![current.socket] = Bump(@, {"submitted"})]
     \/ /\ bridge' = Bump(bridge, {"incoming", "dropped"})
        /\ submit' = Bump(submit, {"failed"})
        /\ binds' = [binds EXCEPT ![current.socket] = Bump(@, {"failed"})]

Submit ==
  /\ current.kind = "frame"
  /\ \/ /\ bridge' = Bump(bridge, {"incoming", "injected"})
        /\ submit' = Bump(submit, {"submitted"})
        /\ binds' = [binds EXCEPT ![current.socket] = Bump(@, {"submitted"})]
     \/ /\ bridge' = Bump(bridge, {"incoming", "dropped"})
        /\ submit' = Bump(submit, {"failed"})
        /\ binds' = [binds EXCEPT ![current.socket] = Bump(@, {"failed", "dropped"})]

(* TxProcessed, whatever became of the datagram. *)
TxProcessed ==
  /\ GoTo("submit", "burst")
  /\ DropMalformed \/ Submit
  /\ processed' = processed + 1
  /\ burst' = burst + 1
  /\ lastTx' = clock
  /\ current' = NoDatagram
  /\ UNCHANGED <<now, rxDue, stopReason>>

(* The Duration the executor hands to ReadRx.                                 *)
RxWait == IF Duration # 0 /\ Duration - clock < RxTimeout THEN Duration - clock ELSE RxTimeout

(* rusb, external: read_bulk passes as_millis() of the Duration on to libusb, *)
(* to which a timeout of 0 means that the transfer has none.                  *)
WholeMillis(wait) == wait - (wait % Milli)
UsbReadDue(wait) == IF WholeMillis(wait) = 0 THEN NoTimeout ELSE clock + WholeMillis(wait)

(* Mutant: the read is given the whole RX timeout up to the deadline.         *)
ArmRxUnclamped ==
  /\ IF Duration # 0 /\ clock >= Duration
     THEN Finish("arm", "duration_elapsed") /\ UNCHANGED rxDue
     ELSE GoTo("arm", "rx") /\ UNCHANGED stopReason /\ rxDue' = UsbReadDue(RxTimeout)
  /\ now' = 0
  /\ UNCHANGED <<burst, lastTx, processed, current>>

ArmRx ==
  /\ IF Duration # 0 /\ clock >= Duration
     THEN Finish("arm", "duration_elapsed") /\ UNCHANGED rxDue
     ELSE GoTo("arm", "rx") /\ UNCHANGED stopReason /\ rxDue' = UsbReadDue(RxWait)
  /\ now' = 0                        \* not read again in this iteration
  /\ UNCHANGED <<burst, lastTx, processed, current>>

(* RxRead at any time, RxTimeout when the read is due, if it ever is. *)
RxRead ==
  /\ GoTo("rx", "top")
  /\ rxDue' = 0
  /\ UNCHANGED <<now, burst, lastTx, processed, current, stopReason>>

RxTimedOut ==
  /\ rxDue # NoTimeout
  /\ clock >= rxDue \/ clock = Horizon
  /\ GoTo("rx", "top")
  /\ rxDue' = 0
  /\ UNCHANGED <<now, burst, lastTx, processed, current, stopReason>>

(* A USB error other than a timeout ends the loop: cleanly if stop was asked. *)
RxError ==
  /\ Finish("rx", IF stopRequested THEN "signal" ELSE "error")
  /\ rxDue' = 0
  /\ UNCHANGED <<now, burst, lastTx, processed, current>>

-----------------------------------------------------------------------------
(* After the loop: LED off, telemetry, the receiver's drop. *)

TurnOffLed ==
  /\ GoTo("ledOff", "report")
  /\ turn_off

(* Mutant: pending is what was not submitted. *)
TakeReportFromSubmitted ==
  /\ GoTo("report", "drop")
  /\ report' = [received |-> ingress.received, sendFailed |-> ingress.sendFailed,
                pending |-> ingress.received - submit.submitted]

(* apply_production_runtime_tx_ingress_telemetry, with saturating_sub. *)
TakeReport ==
  /\ GoTo("report", "drop")
  /\ report' = [received |-> ingress.received, sendFailed |-> ingress.sendFailed,
                pending |-> IF ingress.received >= txReceived
                            THEN ingress.received - txReceived ELSE 0]

(* Mutant: the threads are joined without being told to stop. *)
DropReceiverWithoutStop ==
  /\ GoTo("drop", "join")
  /\ UNCHANGED ingressStop

DropReceiver ==
  /\ GoTo("drop", "join")
  /\ ingressStop' = TRUE

(* Mutant: the threads are detached. *)
JoinThreadsDetached ==
  /\ GoTo("join", "returned")
  /\ receiverAlive' = FALSE
  /\ queue' = <<>>

JoinThreads ==
  /\ \A s \in Sockets : thread[s] = "done"
  /\ GoTo("join", "returned")
  /\ receiverAlive' = FALSE
  /\ queue' = <<>>

AfterLoop ==
  \/ /\ TurnOffLed
     /\ UNCHANGED <<ingressVars, report>>
  \/ /\ TakeReport
     /\ UNCHANGED <<ingressVars, hbVars>>
  \/ /\ DropReceiver
     /\ UNCHANGED <<thread, inHand, queue, ingress, receiverAlive, report, hbVars>>
  \/ /\ JoinThreads
     /\ UNCHANGED <<thread, inHand, ingressStop, ingress, report, hbVars>>

-----------------------------------------------------------------------------
(* History: what the loop has taken since the last read, stop and deadline. *)
CountTaken ==
  /\ txSinceRx' = txSinceRx + 1
  /\ txAfterStop' = IF stopRequested THEN txAfterStop + 1 ELSE txAfterStop
  /\ txLate' = IF Duration # 0 /\ clock >= Duration THEN txLate + 1 ELSE txLate

LoopStep ==
  \/ /\ StopAtTop \/ PassTop \/ CheckBounds \/ EndBurst \/ RxTimedOut
     /\ UNCHANGED <<ingressVars, telemetryVars, historyVars, hbVars>>
  \/ /\ ArmRx
     /\ txSinceRx' = IF pc' = "rx" THEN 0 ELSE txSinceRx
     /\ UNCHANGED <<ingressVars, telemetryVars, txAfterStop, txLate, hbVars>>
  \/ /\ Begin
     /\ UNCHANGED <<ingressVars, telemetryVars, historyVars>>
  \/ /\ TakeDatagram
     /\ CountTaken
     /\ UNCHANGED <<thread, inHand, ingressStop, ingress, receiverAlive,
                    bridge, submit, report, hbVars>>
  \/ /\ TxProcessed
     /\ UNCHANGED <<ingressVars, txReceived, report, historyVars, hbVars>>
  \/ /\ AfterLoop
     /\ UNCHANGED <<now, burst, lastTx, processed, current, rxDue, stopReason,
                    txReceived, binds, bridge, submit, historyVars>>

MainStep == LoopStep /\ UNCHANGED <<clock, stopRequested>>

(* A frame on the air or a USB error: the read returns before its timeout. *)
ReadReturns ==
  /\ RxRead \/ RxError
  /\ UNCHANGED <<clock, stopRequested, ingressVars, telemetryVars, historyVars, hbVars>>

Tick ==
  /\ clock < Horizon
  /\ clock' = clock + 1
  /\ UNCHANGED <<stopRequested, ingressVars, loopVars, telemetryVars, historyVars, hbVars>>

(* A signal handler or RadioHandle::request_stop. *)
RequestStop ==
  /\ ~stopRequested
  /\ stopRequested' = TRUE
  /\ UNCHANGED <<clock, ingressVars, loopVars, telemetryVars, historyVars, hbVars>>

Done ==
  /\ pc = "returned"
  /\ UNCHANGED vars

-----------------------------------------------------------------------------
Init ==
  /\ clock = 0 /\ stopRequested \in BOOLEAN
  /\ thread = [s \in Sockets |-> "check"]
  /\ inHand = [s \in Sockets |-> "none"]
  /\ queue = <<>> /\ ingressStop = FALSE /\ receiverAlive = TRUE
  /\ ingress = [received |-> 0, sendFailed |-> 0]
  /\ pc = "top" /\ now = 0 /\ burst = 0 /\ lastTx = NoTx /\ processed = 0
  /\ current = NoDatagram /\ rxDue = 0 /\ stopReason = "none"
  /\ txReceived = 0
  /\ binds = [s \in Sockets |-> [c \in BindNames |-> 0]]
  /\ bridge = [c \in BridgeNames |-> 0]
  /\ submit = [c \in SubmitNames |-> 0]
  /\ report = [received |-> 0, sendFailed |-> 0, pending |-> 0]
  /\ txSinceRx = 0 /\ txAfterStop = 0 /\ txLate = 0
  /\ HbInit(0)

Next ==
  \/ \E s \in Sockets : ThreadStep(s)
  \/ MainStep
  \/ ReadReturns
  \/ Tick
  \/ RequestStop
  \/ Done

(* Threads and the loop are scheduled, sockets and the USB reads that have a *)
(* timeout reach it, and time passes.  Nothing is assumed of the network,    *)
(* the operator or the air: a read without a timeout may last for ever.      *)
Fairness ==
  /\ \A s \in Sockets : WF_vars(ThreadStep(s))
  /\ WF_vars(MainStep)
  /\ WF_vars(Tick)

Spec == Init /\ [][Next]_vars /\ Fairness

-----------------------------------------------------------------------------
IngressTypeOK ==
  /\ thread \in [Sockets -> {"check", "recv", "send", "done"}]
  /\ inHand \in [Sockets -> Kinds \cup {"none"}]
  /\ \A s \in Sockets : thread[s] = "send" => inHand[s] \in Kinds
  /\ queue \in Seq(Datagrams)
  /\ ingress \in [received : Nat, sendFailed : Nat]

LoopTypeOK ==
  /\ pc \in {"top", "bounds", "begin", "burst", "submit", "arm", "rx",
             "ledOff", "report", "drop", "join", "returned"}
  /\ now \in 0 .. Horizon
  /\ burst \in Nat /\ processed \in Nat
  /\ lastTx \in {NoTx} \cup 0 .. Horizon
  /\ current \in Datagrams \cup {NoDatagram}
  /\ pc = "submit" => current \in Datagrams
  /\ rxDue \in Nat \cup {NoTimeout}
  /\ stopReason \in {"none", "signal", "duration_elapsed", "tx_datagram_limit", "error"}

TelemetryTypeOK ==
  /\ txReceived \in Nat
  /\ binds \in [Sockets -> [BindNames -> Nat]]
  /\ bridge \in [BridgeNames -> Nat]
  /\ submit \in [SubmitNames -> Nat]
  /\ report \in [received : Nat, sendFailed : Nat, pending : Nat]

HistoryTypeOK == txSinceRx \in Nat /\ txAfterStop \in Nat /\ txLate \in Nat

FlagTypeOK ==
  /\ stopRequested \in BOOLEAN
  /\ ingressStop \in BOOLEAN
  /\ receiverAlive \in BOOLEAN
  /\ stateOn \in BOOLEAN

(* The type of the loop's state (ingress, loop and telemetry structs). *)
TypeOK ==
  /\ clock \in 0 .. Horizon
  /\ FlagTypeOK
  /\ IngressTypeOK
  /\ LoopTypeOK
  /\ TelemetryTypeOK
  /\ HistoryTypeOK
  /\ HbTypeOK

(* Every datagram a thread has counted (ingress_datagrams_received) is in a  *)
(* thread's buffer, in the channel, or taken by the loop: the counter runs   *)
(* ahead of the channel, so the loop can never have taken more than were     *)
(* counted, and none is lost while the receiver lives.                       *)
IngressAccounted ==
  receiverAlive =>
    ingress.received = txReceived + Len(queue) + Cardinality(Holding)

(* ingress_pending_datagrams in the final report is exactly what the run     *)
(* leaves behind: its saturating_sub never saturates, whatever the threads   *)
(* were doing when the counters were read.                                   *)
PendingIsExact ==
  [][TakeReport => report'.pending = Len(queue) + Cardinality(Holding)]_vars

(* The receiver is closed only once every thread has ended, so no thread     *)
(* ever fails to queue a datagram (ingress_queue_send_failed stays 0), and   *)
(* the flow never returns with a receiver thread still running.              *)
NoOrphanThread ==
  /\ ingress.sendFailed = 0
  /\ pc = "returned" => \A s \in Sockets : thread[s] = "done"

(* tx_min_interval: the loop takes a datagram only when at least             *)
(* TxMinInterval has passed since it finished with the previous one, though  *)
(* it compares with the clock read at the start of the iteration.            *)
TxPaced ==
  [][TakeDatagram => lastTx = NoTx \/ clock - lastTx >= TxMinInterval]_vars

(* The executor takes at most tx_burst_limit datagrams before it reads RX.   *)
BurstBounded == txSinceRx <= TxBurstLimit

(* A stop request is honoured within one burst: stop is tested only at the   *)
(* top of an iteration, and no more than tx_burst_limit datagrams are        *)
(* transmitted after it was requested.                                       *)
StopWithinBurst == txAfterStop <= TxBurstLimit

(* The deadline is honoured within one burst: the burst does not test it.    *)
DeadlineWithinBurst == txLate <= TxBurstLimit

(* The one read without a timeout, that of the deadline's last millisecond. *)
InEndlessRead == pc = "rx" /\ rxDue = NoTimeout

(* A USB read with a timeout ends by the deadline, and only a read begun      *)
(* less than a millisecond before the deadline has none.                      *)
ReadWithinDeadline ==
  /\ pc = "rx" /\ Duration # 0 /\ ~InEndlessRead => rxDue <= Duration
  /\ InEndlessRead => Duration # 0 /\ Duration - clock < Milli

(* The reported stop reason is the true one; in particular a run bounded by  *)
(* a duration is never ended by the datagram limit, and the limit is exact.  *)
StopReasonJustified ==
  /\ stopReason = "signal" => stopRequested
  /\ stopReason = "duration_elapsed" => Duration # 0 /\ clock >= Duration
  /\ stopReason = "tx_datagram_limit" => Duration = 0 /\ processed = MaxDatagrams
  /\ MaxDatagrams # 0 => processed <= MaxDatagrams

(* The configured bounds are kept as far as the executor can: at most one    *)
(* burst after a stop request and after the deadline, no timeout past the    *)
(* deadline and none missing before its last millisecond, and a stop reason  *)
(* that names the bound that was reached.                                    *)
BoundsKept ==
  StopWithinBurst /\ DeadlineWithinBurst /\ ReadWithinDeadline /\ StopReasonJustified

SumOverBinds(name) == FSE!MapThenSumSet(LAMBDA s : binds[s][name], Sockets)

(* The three sets of TX counters agree: the totals (TxCounters and           *)
(* TxSubmitCounters) are the sums of the per-bind telemetry, and every       *)
(* datagram taken is being submitted, submitted, or dropped for one cause.   *)
TelemetryAgrees ==
  /\ txReceived = SumOverBinds("received")
  /\ submit["submitted"] = SumOverBinds("submitted")
  /\ submit["failed"] = SumOverBinds("failed")
  /\ bridge["dropped"] = SumOverBinds("dropped")
  /\ bridge["injected"] = submit["submitted"]
  /\ bridge["dropped"] = bridge["malformed"] + submit["failed"]
  /\ bridge["incoming"] = bridge["injected"] + bridge["dropped"]
  /\ processed = bridge["incoming"]
  /\ txReceived = processed + (IF pc = "submit" THEN 1 ELSE 0)

(* When the flow returns a heartbeat LED is off unless the last USB write     *)
(* failed, whatever the loop ended with.                                     *)
LedOffAtReturn ==
  HeartbeatEnabled /\ pc = "returned" /\ ledRegister = "on" => lastWrite = "failed"

(* Heartbeat toggles are at least half a period apart, however late an       *)
(* iteration starts: no catch-up flurry.                                     *)
ToggleSpacing ==
  [][toggledAt' # toggledAt => toggledAt' - toggledAt >= HalfPeriod]_vars

-----------------------------------------------------------------------------
(* A requested stop ends the flow, receiver threads joined.                  *)
StopLeadsToReturn == stopRequested ~> pc = "returned"

(* A run with a duration ends, whatever the traffic and whenever the reads   *)
(* are armed, unless it is caught for ever in the read of the deadline's     *)
(* last millisecond, on a channel where nothing is heard and nothing fails.  *)
DurationLeadsToReturn ==
  Duration # 0 => <>(pc = "returned") \/ <>[]InEndlessRead


(* With no pacing, no datagram limit and continuous airtime every queued     *)
(* datagram is taken unless the loop ends: RX traffic cannot starve TX.      *)
QueueServed ==
  \A n \in 0 .. MaxIngress :
    queue # <<>> /\ txReceived = n ~> txReceived > n \/ ~LoopRunning
=============================================================================
