--------------------------- MODULE BridgeLoopProofs ---------------------------
(***************************************************************************)
(* Proofs about the bridge loop, for every set of sockets, every bound and   *)
(* every configuration the code accepts.                                     *)
(***************************************************************************)
EXTENDS BridgeLoop, FiniteSetTheorems, InductionLemmas, TLAPS

(* LoopAssumption without the remainders, which slow the solver down. *)
LEMMA LoopRanges ==
  /\ IsFiniteSet(Sockets)
  /\ {Duration, TxMinInterval, MaxDatagrams, MaxIngress, Horizon} \subseteq Nat
  /\ {Milli, RxTimeout, TxBurstLimit} \subseteq Nat \ {0}
  /\ Schedule \in Schedules /\ Validate(Schedule)
BY LoopAssumption

(* A timeout of whole milliseconds, and not none, is at least one. *)
LEMMA TimeoutAtLeastMilli == Milli <= RxTimeout
<1>1. /\ Milli \in Nat \ {0} /\ RxTimeout \in Nat \ {0}
      /\ RxTimeout % Milli = 0
  BY LoopAssumption
<1>2. RxTimeout < Milli => RxTimeout % Milli = RxTimeout
  BY <1>1
<1> QED BY <1>1, <1>2

-----------------------------------------------------------------------------
(* Type correctness: what a step leaves alone keeps its type. *)

LEMMA SameIngress == IngressTypeOK /\ UNCHANGED ingressVars => IngressTypeOK'
BY DEF IngressTypeOK, ingressVars

LEMMA SameLoop == LoopTypeOK /\ UNCHANGED loopVars => LoopTypeOK'
BY DEF LoopTypeOK, loopVars

LEMMA SameTelemetry == TelemetryTypeOK /\ UNCHANGED telemetryVars => TelemetryTypeOK'
BY DEF TelemetryTypeOK, telemetryVars

LEMMA SameHistory == HistoryTypeOK /\ UNCHANGED historyVars => HistoryTypeOK'
BY DEF HistoryTypeOK, historyVars

LEMMA SameHeartbeat == HbTypeOK /\ UNCHANGED hbVars => HbTypeOK'
BY DEF HbTypeOK, hbVars

LEMMA InitType == Init => TypeOK
<1> SUFFICES ASSUME Init PROVE TypeOK
  OBVIOUS
<1> USE LoopRanges, HeartbeatAssumption DEF Init
<1>1. IngressTypeOK
  BY DEF IngressTypeOK
<1>2. LoopTypeOK
  BY DEF LoopTypeOK, NoTx
<1>3. TelemetryTypeOK
  BY DEF TelemetryTypeOK
<1>4. HbTypeOK
  BY DEF HbInit, HbTypeOK
<1>5. FlagTypeOK
  BY DEF HbInit, FlagTypeOK
<1> QED BY <1>1, <1>2, <1>3, <1>4, <1>5 DEF TypeOK, HistoryTypeOK

LEMMA FlagType ==
  ASSUME FlagTypeOK, [Next]_vars
  PROVE  FlagTypeOK'
<1> USE DEF FlagTypeOK, vars, ingressVars, loopVars, telemetryVars, historyVars, hbVars
<1>1. ASSUME NEW s \in Sockets, ThreadStep(s) PROVE FlagTypeOK'
  BY <1>1 DEF ThreadStep, ThreadCheckStop, ThreadReceive, ThreadSend, ThreadTimeout, ThreadError
<1>2. CASE MainStep
  BY <1>2 DEF MainStep, LoopStep, Begin, AfterLoop, maybe_toggle, turn_off, TurnOffLed,
              TakeReport, DropReceiver, JoinThreads
<1>3. CASE ReadReturns \/ Tick \/ RequestStop \/ UNCHANGED vars
  BY <1>3 DEF ReadReturns, Tick, RequestStop
<1> QED BY <1>1, <1>2, <1>3 DEF Next, Done

LEMMA ThreadType ==
  ASSUME TypeOK, NEW s \in Sockets, ThreadStep(s)
  PROVE  IngressTypeOK'
<1> USE DEF IngressTypeOK
<1>0. IngressTypeOK
  BY DEF TypeOK
<1>1. CASE ThreadCheckStop(s)
  BY <1>0, <1>1 DEF ThreadCheckStop
<1>2. CASE ThreadReceive(s)
  <2>1. PICK kind \in Kinds : inHand' = [inHand EXCEPT ![s] = kind]
    BY <1>2 DEF ThreadReceive
  <2>2. ingress' \in [received : Nat, sendFailed : Nat] /\ queue' = queue
    BY <1>0, <1>2 DEF ThreadReceive
  <2>3. thread' = [thread EXCEPT ![s] = "send"]
    BY <1>2 DEF ThreadReceive
  <2> QED BY <1>0, <2>1, <2>2, <2>3
<1>3. CASE ThreadSend(s)
  <2>1. inHand' = [inHand EXCEPT ![s] = "none"] /\ inHand[s] \in Kinds
    BY <1>0, <1>3 DEF ThreadSend
  <2>2. CASE receiverAlive
    <3>1. [socket |-> s, kind |-> inHand[s]] \in Datagrams
      BY <2>1 DEF Datagrams
    <3>2. queue' \in Seq(Datagrams) /\ UNCHANGED ingress
      BY <1>0, <1>3, <2>2, <3>1 DEF ThreadSend
    <3>3. thread' = [thread EXCEPT ![s] = "check"]
      BY <1>3, <2>2 DEF ThreadSend
    <3> QED BY <1>0, <2>1, <3>2, <3>3
  <2>3. CASE ~receiverAlive
    <3>1. ingress' \in [received : Nat, sendFailed : Nat] /\ queue' = queue
      BY <1>0, <1>3, <2>3 DEF ThreadSend
    <3>2. thread' = [thread EXCEPT ![s] = "done"]
      BY <1>3, <2>3 DEF ThreadSend
    <3> QED BY <1>0, <2>1, <3>1, <3>2
  <2> QED BY <2>2, <2>3
<1>4. CASE ThreadTimeout(s)
  BY <1>0, <1>4 DEF ThreadTimeout
<1>5. CASE ThreadError(s)
  BY <1>0, <1>5 DEF ThreadError
<1> QED
  BY <1>1, <1>2, <1>3, <1>4, <1>5 DEF ThreadStep

LEMMA ToggleType ==
  ASSUME HbTypeOK, NEW at \in Nat, maybe_toggle(at) \/ turn_off
  PROVE  HbTypeOK'
<1>1. CASE UNCHANGED hbVars
  BY <1>1, SameHeartbeat
<1>2. ASSUME NEW value \in {"on", "off"}, write_register(value)
      PROVE  /\ ledRegister' \in {"on", "off"}
             /\ toggles' \in [succeeded : Nat, failed : Nat]
             /\ lastWrite' \in {"ok", "failed"}
  BY <1>2 DEF write_register, HbTypeOK
<1>3. CASE maybe_toggle(at) /\ ~UNCHANGED hbVars
  <2>1. /\ nextToggleAt' = at + HalfPeriod
        /\ toggledAt' = at
        /\ write_register(IF stateOn THEN "off" ELSE "on")
    BY <1>3 DEF maybe_toggle
  <2>2. (IF stateOn THEN "off" ELSE "on") \in {"on", "off"}
    OBVIOUS
  <2> QED BY <1>2, <2>1, <2>2, HeartbeatAssumption DEF HbTypeOK
<1>4. CASE turn_off /\ ~UNCHANGED hbVars
  <2>1. UNCHANGED <<nextToggleAt, toggledAt>> /\ write_register("off")
    BY <1>4 DEF turn_off
  <2> QED BY <1>2, <2>1 DEF HbTypeOK
<1> QED BY <1>1, <1>3, <1>4

LEMMA BumpType ==
  ASSUME NEW N, NEW c \in [N -> Nat], NEW names
  PROVE  Bump(c, names) \in [N -> Nat]
BY DEF Bump

(* A read with a timeout is due within the wait asked for; one without is    *)
(* asked for less than a millisecond.                                        *)
LEMMA UsbRead ==
  ASSUME clock \in Nat, NEW wait \in Nat
  PROVE  /\ UsbReadDue(wait) \in Nat \cup {NoTimeout}
         /\ UsbReadDue(wait) # NoTimeout => UsbReadDue(wait) <= clock + wait
         /\ UsbReadDue(wait) = NoTimeout => wait < Milli
<1>1. Milli \in Nat \ {0}
  BY LoopRanges
<1>2. wait % Milli \in Nat /\ wait % Milli < Milli
  BY <1>1
<1>3. wait % Milli <= wait
  BY <1>1
<1> QED BY <1>1, <1>2, <1>3 DEF UsbReadDue, WholeMillis, NoTimeout

LEMMA LoopType ==
  ASSUME TypeOK, LoopStep, UNCHANGED <<clock, stopRequested>>
  PROVE  IngressTypeOK' /\ LoopTypeOK' /\ TelemetryTypeOK' /\ HistoryTypeOK' /\ HbTypeOK'
<1> USE DEF GoTo, Finish
<1>0. IngressTypeOK /\ LoopTypeOK /\ TelemetryTypeOK /\ HistoryTypeOK /\ HbTypeOK
      /\ clock \in 0 .. Horizon /\ Horizon \in Nat
  BY LoopRanges DEF TypeOK
<1>1. CASE /\ StopAtTop \/ PassTop \/ CheckBounds \/ EndBurst \/ RxTimedOut
           /\ UNCHANGED <<ingressVars, telemetryVars, historyVars, hbVars>>
  <2>1. LoopTypeOK'
    BY <1>0, <1>1 DEF LoopTypeOK, StopAtTop, PassTop, CheckBounds, EndBurst, RxTimedOut
  <2> QED BY <1>0, <1>1, <2>1, SameIngress, SameTelemetry, SameHistory, SameHeartbeat
<1>2. CASE /\ ArmRx
           /\ txSinceRx' = IF pc' = "rx" THEN 0 ELSE txSinceRx
           /\ UNCHANGED <<ingressVars, telemetryVars, txAfterStop, txLate, hbVars>>
  <2>1. LoopTypeOK'
    <3>1. CASE rxDue' = UsbReadDue(RxWait) /\ pc' = "rx"
      <4>1. RxWait \in Nat
        BY <1>0, <1>2, <3>1, LoopRanges DEF ArmRx, RxWait
      <4> QED BY <1>0, <1>2, <3>1, <4>1, UsbRead DEF LoopTypeOK, ArmRx
    <3>2. CASE rxDue' = rxDue
      BY <1>0, <1>2, <3>2 DEF LoopTypeOK, ArmRx
    <3> QED BY <1>2, <3>1, <3>2 DEF ArmRx
  <2>2. HistoryTypeOK'
    BY <1>0, <1>2 DEF HistoryTypeOK
  <2> QED BY <1>0, <1>2, <2>1, <2>2, SameIngress, SameTelemetry, SameHeartbeat
<1>3. CASE /\ Begin
           /\ UNCHANGED <<ingressVars, telemetryVars, historyVars>>
  <2>1. HbTypeOK'
    BY <1>0, <1>3, ToggleType DEF Begin
  <2>2. LoopTypeOK'
    BY <1>0, <1>3 DEF LoopTypeOK, Begin
  <2> QED BY <1>0, <1>3, <2>1, <2>2, SameIngress, SameTelemetry, SameHistory
<1>4. CASE /\ TakeDatagram
           /\ CountTaken
           /\ UNCHANGED <<thread, inHand, ingressStop, ingress, receiverAlive,
                          bridge, submit, report, hbVars>>
  <2>1. Head(queue) \in Datagrams /\ Tail(queue) \in Seq(Datagrams)
    BY <1>0, <1>4 DEF TakeDatagram, IngressTypeOK
  <2>2. IngressTypeOK'
    BY <1>0, <1>4, <2>1 DEF TakeDatagram, IngressTypeOK
  <2>3. LoopTypeOK'
    BY <1>0, <1>4, <2>1 DEF TakeDatagram, LoopTypeOK
  <2>4. TelemetryTypeOK'
    <3>1. Head(queue).socket \in Sockets
      BY <2>1 DEF Datagrams
    <3>2. binds' \in [Sockets -> [BindNames -> Nat]]
      BY <1>0, <1>4, <3>1, BumpType DEF TakeDatagram, TelemetryTypeOK
    <3> QED BY <1>0, <1>4, <3>2 DEF TakeDatagram, TelemetryTypeOK
  <2>5. HistoryTypeOK'
    BY <1>0, <1>4 DEF CountTaken, HistoryTypeOK
  <2> QED BY <1>0, <1>4, <2>2, <2>3, <2>4, <2>5, SameHeartbeat
<1>5. CASE /\ TxProcessed
           /\ UNCHANGED <<ingressVars, txReceived, report, historyVars, hbVars>>
  <2>1. LoopTypeOK'
    BY <1>0, <1>5 DEF TxProcessed, LoopTypeOK
  <2>2. current \in Datagrams
    BY <1>0, <1>5 DEF TxProcessed, LoopTypeOK
  <2>3. TelemetryTypeOK'
    <3>1. current.socket \in Sockets
      BY <2>2 DEF Datagrams
    <3>2. CASE DropMalformed
      BY <1>0, <1>5, <3>1, <3>2, BumpType DEF DropMalformed, TelemetryTypeOK
    <3>3. CASE Submit
      BY <1>0, <1>5, <3>1, <3>3, BumpType DEF Submit, TelemetryTypeOK
    <3> QED BY <1>5, <3>2, <3>3 DEF TxProcessed
  <2> QED BY <1>0, <1>5, <2>1, <2>3, SameIngress, SameHistory, SameHeartbeat
<1>6. CASE /\ AfterLoop
           /\ UNCHANGED <<now, burst, lastTx, processed, current, rxDue, stopReason,
                          txReceived, binds, bridge, submit, historyVars>>
  <2>1. HbTypeOK'
    BY <1>0, <1>6, ToggleType, SameHeartbeat DEF AfterLoop, TurnOffLed, HbTypeOK
  <2>2. IngressTypeOK'
    <3>1. queue' = queue \/ queue' = <<>>
      BY <1>6 DEF AfterLoop, JoinThreads, ingressVars
    <3>2. UNCHANGED <<thread, inHand, ingress>>
      BY <1>6 DEF AfterLoop, ingressVars
    <3>3. queue \in Seq(Datagrams) /\ << >> \in Seq(Datagrams)
      BY <1>0 DEF IngressTypeOK
    <3>4. queue' \in Seq(Datagrams)
      BY <3>1, <3>3
    <3> QED BY <1>0, <3>2, <3>4 DEF IngressTypeOK
  <2>3. LoopTypeOK'
    BY <1>0, <1>6 DEF AfterLoop, TurnOffLed, TakeReport, DropReceiver, JoinThreads, LoopTypeOK
  <2>4. TelemetryTypeOK'
    <3>1. CASE TakeReport
      BY <1>0, <1>6, <3>1 DEF TakeReport, TelemetryTypeOK, IngressTypeOK
    <3>2. CASE ~TakeReport
      <4>1. UNCHANGED telemetryVars
        BY <1>6, <3>2 DEF AfterLoop, telemetryVars
      <4> QED BY <1>0, <4>1, SameTelemetry
    <3> QED BY <3>1, <3>2
  <2> QED BY <1>0, <1>6, <2>1, <2>2, <2>3, <2>4, SameHistory
<1> QED BY <1>1, <1>2, <1>3, <1>4, <1>5, <1>6 DEF LoopStep

(* Every reachable state of the loop is well typed: in particular a thread   *)
(* that queues a datagram has one, and the loop submits only a datagram it   *)
(* has taken (TryTx, handle_production_bridge_tx_datagram).                  *)
THEOREM TypeCorrect == Spec => []TypeOK
<1>1. TypeOK /\ [Next]_vars => TypeOK'
  <2> SUFFICES ASSUME TypeOK, [Next]_vars PROVE TypeOK'
    OBVIOUS
  <2>0. FlagTypeOK'
    BY FlagType DEF TypeOK
  <2>1. ASSUME NEW s \in Sockets, ThreadStep(s) PROVE TypeOK'
    BY <2>0, <2>1, ThreadType, SameLoop, SameTelemetry, SameHistory, SameHeartbeat
       DEF TypeOK, ThreadStep
  <2>2. CASE MainStep
    BY <2>0, <2>2, LoopType DEF MainStep, TypeOK
  <2>3. CASE ReadReturns
    <3>1. LoopTypeOK'
      BY <2>3 DEF ReadReturns, RxRead, RxError, GoTo, Finish, TypeOK, LoopTypeOK
    <3> QED BY <2>0, <2>3, <3>1, SameIngress, SameTelemetry, SameHistory, SameHeartbeat
               DEF ReadReturns, TypeOK
  <2>4. CASE Tick \/ RequestStop \/ UNCHANGED vars
    <3>1. clock' \in 0 .. Horizon
      BY <2>4, LoopRanges DEF Tick, RequestStop, TypeOK, vars
    <3> QED BY <2>0, <2>4, <3>1, SameIngress, SameLoop, SameTelemetry, SameHistory,
               SameHeartbeat DEF Tick, RequestStop, TypeOK, vars
  <2> QED BY <2>1, <2>2, <2>3, <2>4 DEF Next, Done
<1> QED BY InitType, <1>1, PTL DEF Spec

-----------------------------------------------------------------------------
(* Accounting of the ingress. *)

(* The receiver lives exactly until the flow returns, and by then every      *)
(* thread has ended; so nothing ever fails to be queued.                     *)
ChannelInv ==
  /\ receiverAlive <=> pc # "returned"
  /\ pc = "returned" => \A s \in Sockets : thread[s] = "done"
  /\ ingress.sendFailed = 0

LEMMA ChannelStep ==
  ASSUME TypeOK, ChannelInv, [Next]_vars
  PROVE  ChannelInv'
<1> USE DEF ChannelInv, GoTo, Finish
<1>0. IngressTypeOK /\ LoopTypeOK
  BY DEF TypeOK
<1>1. ASSUME NEW s \in Sockets, ThreadStep(s) PROVE ChannelInv'
  <2>1. UNCHANGED <<pc, receiverAlive>>
    BY <1>1 DEF ThreadStep, loopVars, ThreadCheckStop, ThreadReceive, ThreadSend,
                ThreadTimeout, ThreadError
  <2>2. thread[s] # "done" /\ pc # "returned"
    BY <1>0, <1>1 DEF ThreadStep, ThreadCheckStop, ThreadReceive, ThreadSend, ThreadTimeout,
                      ThreadError
  <2>3. ingress'.sendFailed = ingress.sendFailed
    BY <1>0, <1>1, <2>2 DEF IngressTypeOK, ThreadStep, ThreadCheckStop, ThreadReceive,
                            ThreadSend, ThreadTimeout, ThreadError
  <2> QED BY <2>1, <2>2, <2>3
<1>2. CASE MainStep
  <2>1. UNCHANGED <<thread, ingress>>
    BY <1>2 DEF MainStep, LoopStep, AfterLoop, ingressVars
  <2>2. CASE JoinThreads
    BY <2>1, <2>2 DEF JoinThreads
  <2>3. CASE ~JoinThreads
    <3>1. UNCHANGED receiverAlive
      BY <1>2, <2>3 DEF MainStep, LoopStep, AfterLoop, ingressVars
    <3>2. pc # "returned" /\ pc' # "returned"
      BY <1>2, <2>3 DEF MainStep, LoopStep, AfterLoop, StopAtTop, PassTop, CheckBounds, Begin,
         EndBurst, TakeDatagram, TxProcessed, ArmRx, RxTimedOut, TurnOffLed,
         TakeReport, DropReceiver
    <3> QED BY <2>1, <3>1, <3>2
  <2> QED BY <2>2, <2>3
<1>3. CASE ReadReturns
  BY <1>3 DEF ReadReturns, RxRead, RxError, ingressVars
<1>4. CASE Tick \/ RequestStop \/ UNCHANGED vars
  BY <1>4 DEF Tick, RequestStop, vars, ingressVars, loopVars
<1> QED BY <1>1, <1>2, <1>3, <1>4 DEF Next, Done

(* No thread outlives the flow and no datagram is refused by the channel:    *)
(* Drop for ProductionRuntimeTxIngressReceiver joins before the mpsc         *)
(* receiver goes away.                                                       *)
THEOREM NoOrphan == Spec => []NoOrphanThread
<1>1. Init => ChannelInv
  BY DEF Init, ChannelInv
<1>2. ChannelInv => NoOrphanThread
  BY DEF ChannelInv, NoOrphanThread
<1> QED BY <1>1, <1>2, ChannelStep, TypeCorrect, PTL DEF Spec

LEMMA HoldingFinite ==
  ASSUME IngressTypeOK
  PROVE  /\ IsFiniteSet(Holding) /\ Cardinality(Holding) \in Nat
         /\ \A s \in Sockets : /\ thread[s] # "send" =>
                                    Cardinality(Holding \cup {s}) = Cardinality(Holding) + 1
                               /\ thread[s] = "send" =>
                                    Cardinality(Holding \ {s}) = Cardinality(Holding) - 1
<1>1. IsFiniteSet(Holding)
  BY LoopRanges, FS_Subset DEF Holding
<1>2. ASSUME NEW s \in Sockets, thread[s] # "send"
      PROVE  Cardinality(Holding \cup {s}) = Cardinality(Holding) + 1
  <2>1. s \notin Holding
    BY <1>2 DEF Holding
  <2> QED BY <1>1, <2>1, FS_AddElement
<1>3. ASSUME NEW s \in Sockets, thread[s] = "send"
      PROVE  Cardinality(Holding \ {s}) = Cardinality(Holding) - 1
  <2>1. s \in Holding
    BY <1>3 DEF Holding
  <2> QED BY <1>1, <2>1, FS_RemoveElement
<1> QED BY <1>1, <1>2, <1>3, FS_CardinalityType

LEMMA AccountStep ==
  ASSUME TypeOK, ChannelInv, IngressAccounted, [Next]_vars
  PROVE  IngressAccounted'
<1>0. IngressTypeOK /\ TelemetryTypeOK /\ LoopTypeOK
  BY DEF TypeOK
<1>a. /\ Len(queue) \in Nat /\ Cardinality(Holding) \in Nat
      /\ ingress.received \in Nat /\ txReceived \in Nat
  BY <1>0, HoldingFinite DEF IngressTypeOK, TelemetryTypeOK
<1>1. ASSUME NEW s \in Sockets, ThreadStep(s) PROVE IngressAccounted'
  <2>0. UNCHANGED <<txReceived, receiverAlive>>
    BY <1>1 DEF ThreadStep, telemetryVars, ThreadCheckStop, ThreadReceive, ThreadSend,
                ThreadTimeout, ThreadError
  <2>1. CASE ThreadCheckStop(s) \/ ThreadTimeout(s) \/ ThreadError(s)
    <3>1. Holding' = Holding
      BY <1>0, <2>1 DEF Holding, ThreadCheckStop, ThreadTimeout, ThreadError, IngressTypeOK
    <3>2. UNCHANGED <<queue, ingress>>
      BY <2>1 DEF ThreadCheckStop, ThreadTimeout, ThreadError
    <3> QED BY <2>0, <3>1, <3>2 DEF IngressAccounted
  <2>2. CASE ThreadReceive(s)
    <3>1. Holding' = Holding \cup {s} /\ thread[s] # "send"
      BY <1>0, <2>2 DEF Holding, ThreadReceive, IngressTypeOK
    <3>2. ingress'.received = ingress.received + 1 /\ queue' = queue
      BY <1>0, <2>2 DEF ThreadReceive, IngressTypeOK
    <3>3. Cardinality(Holding') = Cardinality(Holding) + 1
      BY <1>0, <3>1, HoldingFinite
    <3> QED BY <1>a, <2>0, <3>2, <3>3 DEF IngressAccounted
  <2>3. CASE ThreadSend(s) /\ receiverAlive
    <3>1. Holding' = Holding \ {s} /\ thread[s] = "send"
      BY <1>0, <2>3 DEF Holding, ThreadSend, IngressTypeOK
    <3>2. UNCHANGED ingress
      BY <2>3 DEF ThreadSend
    <3>3. Len(queue') = Len(queue) + 1
      BY <1>0, <2>3 DEF ThreadSend, IngressTypeOK
    <3>4. Cardinality(Holding') = Cardinality(Holding) - 1
      BY <1>0, <3>1, HoldingFinite
    <3> QED BY <1>a, <2>0, <3>2, <3>3, <3>4 DEF IngressAccounted
  <2>4. CASE ~receiverAlive
    BY <2>0, <2>4 DEF IngressAccounted
  <2> QED BY <1>1, <2>1, <2>2, <2>3, <2>4 DEF ThreadStep
<1>2. CASE MainStep
  <2>0. UNCHANGED <<thread, ingress>>
    BY <1>2 DEF MainStep, LoopStep, AfterLoop, ingressVars
  <2>1. Holding' = Holding
    BY <2>0 DEF Holding
  <2>2. CASE TakeDatagram
    <3>1. Len(queue') = Len(queue) - 1 /\ txReceived' = txReceived + 1
      BY <1>0, <2>2 DEF TakeDatagram, IngressTypeOK
    <3>2. UNCHANGED receiverAlive
      BY <1>2, <2>2 DEF MainStep, LoopStep, AfterLoop, TakeDatagram, GoTo, ingressVars,
                        JoinThreads
    <3> QED BY <1>a, <2>0, <2>1, <3>1, <3>2 DEF IngressAccounted
  <2>3. CASE JoinThreads
    BY <2>3 DEF JoinThreads, IngressAccounted
  <2>4. CASE ~TakeDatagram /\ ~JoinThreads
    <3>1. UNCHANGED <<queue, receiverAlive, txReceived>>
      BY <1>2, <2>4 DEF MainStep, LoopStep, AfterLoop, ingressVars, telemetryVars
    <3> QED BY <2>0, <2>1, <3>1 DEF IngressAccounted
  <2> QED BY <2>2, <2>3, <2>4
<1>3. CASE ReadReturns \/ Tick \/ RequestStop \/ UNCHANGED vars
  <2>1. UNCHANGED <<queue, receiverAlive, txReceived, thread, ingress>>
    BY <1>3 DEF ReadReturns, Tick, RequestStop, vars, ingressVars, telemetryVars
  <2>2. Holding' = Holding
    BY <2>1 DEF Holding
  <2> QED BY <2>1, <2>2 DEF IngressAccounted
<1> QED BY <1>1, <1>2, <1>3 DEF Next, Done

LEMMA AccountInit == Init => ChannelInv /\ IngressAccounted
<1> SUFFICES ASSUME Init PROVE ChannelInv /\ IngressAccounted
  OBVIOUS
<1>1. Holding = {}
  BY DEF Init, Holding
<1>2. Cardinality(Holding) = 0 /\ Len(<< >>) = 0
  BY <1>1, FS_EmptySet
<1> QED BY <1>2 DEF Init, ChannelInv, IngressAccounted

(* Every counted datagram is in a thread, in the channel or taken by the     *)
(* loop: ingress_datagrams_received can never fall behind                    *)
(* tx.datagrams_received, for any number of sockets and any interleaving.    *)
THEOREM Accounting == Spec => []IngressAccounted
<1>1. TypeOK /\ ChannelInv /\ IngressAccounted /\ [Next]_vars
        => ChannelInv' /\ IngressAccounted'
  BY ChannelStep, AccountStep
<1> QED BY AccountInit, <1>1, TypeCorrect, PTL DEF Spec

(* The final report's pending count is exact: the saturating subtraction of  *)
(* apply_production_runtime_tx_ingress_telemetry never saturates.            *)
THEOREM PendingExact == Spec => PendingIsExact
<1>1. ASSUME TypeOK, ChannelInv, IngressAccounted, TakeReport
      PROVE  report'.pending = Len(queue) + Cardinality(Holding)
  <2>1. IngressTypeOK /\ TelemetryTypeOK
    BY <1>1 DEF TypeOK
  <2>2. /\ Len(queue) \in Nat /\ Cardinality(Holding) \in Nat
        /\ ingress.received \in Nat /\ txReceived \in Nat
    BY <2>1, HoldingFinite DEF IngressTypeOK, TelemetryTypeOK
  <2>3. ingress.received = txReceived + Len(queue) + Cardinality(Holding)
    BY <1>1 DEF ChannelInv, IngressAccounted, TakeReport, GoTo
  <2> QED BY <1>1, <2>2, <2>3 DEF TakeReport
<1>2. TypeOK /\ ChannelInv /\ IngressAccounted /\ [Next]_vars
        => ChannelInv' /\ IngressAccounted'
  BY ChannelStep, AccountStep
<1>3. TypeOK /\ ChannelInv /\ IngressAccounted
        => [TakeReport => report'.pending = Len(queue) + Cardinality(Holding)]_vars
  BY <1>1
<1> QED BY AccountInit, <1>2, <1>3, TypeCorrect, PTL DEF Spec, PendingIsExact

-----------------------------------------------------------------------------
(* Pacing.  The clock reading of the iteration and the time of the last      *)
(* transmission are both in the past.                                        *)
ClockInv == now <= clock /\ lastTx <= clock

LEMMA ClockStep ==
  ASSUME TypeOK, ClockInv, [Next]_vars
  PROVE  ClockInv'
<1>0. clock \in Nat /\ now \in Nat /\ lastTx \in Int
  BY LoopRanges DEF TypeOK, LoopTypeOK, NoTx
<1>1. CASE Tick
  BY <1>0, <1>1 DEF Tick, loopVars, ClockInv
<1>2. CASE MainStep \/ ReadReturns
  <2>1. now' \in {now, clock, 0} /\ lastTx' \in {lastTx, clock} /\ clock' = clock
    BY <1>2 DEF MainStep, ReadReturns, LoopStep, AfterLoop, StopAtTop, PassTop, CheckBounds,
       Begin, EndBurst, TakeDatagram, TxProcessed, ArmRx, RxTimedOut, RxRead, RxError
  <2> QED BY <1>0, <2>1 DEF ClockInv
<1>3. CASE (\E s \in Sockets : ThreadStep(s)) \/ RequestStop \/ UNCHANGED vars
  BY <1>3 DEF ThreadStep, RequestStop, vars, loopVars, ClockInv
<1> QED BY <1>1, <1>2, <1>3 DEF Next, Done

(* Two datagrams are never closer than tx_min_interval, although the loop    *)
(* measures from the clock it read at the start of the iteration.            *)
THEOREM Pacing == Spec => TxPaced
<1>1. Init => ClockInv
  BY DEF Init, ClockInv, NoTx
<1>2. ASSUME TypeOK, ClockInv, TakeDatagram
      PROVE  lastTx = NoTx \/ clock - lastTx >= TxMinInterval
  <2>1. clock \in Nat /\ now \in Nat /\ lastTx \in Int /\ TxMinInterval \in Nat
    BY <1>2, LoopRanges DEF TypeOK, LoopTypeOK, NoTx
  <2> QED BY <1>2, <2>1 DEF TakeDatagram, MayTryTx, Paced, SinceLastTx, ClockInv
<1>3. TypeOK /\ ClockInv
        => [TakeDatagram => lastTx = NoTx \/ clock - lastTx >= TxMinInterval]_vars
  BY <1>2
<1> QED BY <1>1, <1>3, ClockStep, TypeCorrect, PTL DEF Spec, TxPaced

-----------------------------------------------------------------------------
(* Bounds on what the loop still does after a stop request or the deadline.  *)

(* The points of an iteration at which no datagram can have been taken since *)
(* the last read.                                                            *)
BeforeBurst == {"top", "bounds", "begin"}

(* A counter of taken datagrams that started this iteration at zero is       *)
(* bounded by the burst count while the burst lasts.                         *)
WithinBurst(n) ==
  /\ n <= TxBurstLimit
  /\ pc = "burst" => n <= burst
  /\ pc = "submit" => n <= burst + 1

BurstInv ==
  /\ pc \in {"burst", "submit"} => burst <= TxBurstLimit
  /\ pc = "submit" => burst < TxBurstLimit

ReadInv ==
  /\ WithinBurst(txSinceRx)
  /\ pc \in BeforeBurst \cup {"rx"} => txSinceRx = 0

StopInv ==
  /\ WithinBurst(txAfterStop)
  /\ pc \in {"bounds", "begin"} => txAfterStop = 0
  /\ txAfterStop > 0 => stopRequested

LateInv ==
  /\ WithinBurst(txLate)
  /\ pc \in BeforeBurst \cup {"rx"} => txLate = 0
  /\ txLate > 0 => Duration # 0 /\ clock >= Duration

BoundInv == BurstInv /\ ReadInv /\ StopInv /\ LateInv

LEMMA BoundStep ==
  ASSUME TypeOK, BoundInv, [Next]_vars
  PROVE  BoundInv'
<1> USE DEF BoundInv, BurstInv, ReadInv, StopInv, LateInv, WithinBurst, BeforeBurst, GoTo, Finish
<1>0. /\ clock \in Nat /\ burst \in Nat /\ Duration \in Nat
      /\ txSinceRx \in Nat /\ txAfterStop \in Nat /\ txLate \in Nat
      /\ TxBurstLimit \in Nat \ {0}
  BY LoopRanges DEF TypeOK, LoopTypeOK, HistoryTypeOK
<1>1. CASE (\E s \in Sockets : ThreadStep(s)) \/ UNCHANGED vars
  BY <1>1 DEF ThreadStep, vars, loopVars, historyVars
<1>2. CASE Tick \/ RequestStop
  BY <1>0, <1>2 DEF Tick, RequestStop, loopVars, historyVars
<1>3. CASE ReadReturns
  BY <1>0, <1>3 DEF ReadReturns, RxRead, RxError, historyVars
<1>4. CASE MainStep
  <2>1. CASE /\ StopAtTop \/ PassTop \/ CheckBounds \/ EndBurst \/ RxTimedOut
             /\ UNCHANGED <<historyVars, clock, stopRequested>>
    BY <1>0, <2>1 DEF StopAtTop, PassTop, CheckBounds, EndBurst, RxTimedOut, historyVars
  <2>2. CASE /\ ArmRx /\ txSinceRx' = IF pc' = "rx" THEN 0 ELSE txSinceRx
             /\ UNCHANGED <<txAfterStop, txLate, clock, stopRequested>>
    BY <1>0, <2>2 DEF ArmRx
  <2>3. CASE Begin /\ UNCHANGED <<historyVars, clock, stopRequested>>
    BY <1>0, <2>3 DEF Begin, historyVars
  <2>4. CASE TakeDatagram /\ CountTaken /\ UNCHANGED <<clock, stopRequested>>
    BY <1>0, <2>4 DEF TakeDatagram, MayTryTx, CountTaken
  <2>5. CASE TxProcessed /\ UNCHANGED <<historyVars, clock, stopRequested>>
    BY <1>0, <2>5 DEF TxProcessed, historyVars
  <2>6. CASE AfterLoop /\ UNCHANGED <<burst, historyVars, clock, stopRequested>>
    BY <1>0, <2>6 DEF AfterLoop, TurnOffLed, TakeReport, DropReceiver, JoinThreads, historyVars
  <2> QED BY <1>4, <2>1, <2>2, <2>3, <2>4, <2>5, <2>6 DEF MainStep, LoopStep
<1> QED BY <1>1, <1>2, <1>3, <1>4 DEF Next, Done

(* The stop reason is set when the loop is left and is final; the limit is   *)
(* tested before a datagram is taken.                                        *)
InLoop == {"top", "bounds", "begin", "burst", "submit", "arm", "rx"}

ReasonInv ==
  /\ pc \in InLoop => stopReason = "none"
  /\ pc = "submit" /\ MaxDatagrams # 0 => processed < MaxDatagrams
  /\ StopReasonJustified

LEMMA ReasonStep ==
  ASSUME TypeOK, ReasonInv, [Next]_vars
  PROVE  ReasonInv'
<1> USE DEF ReasonInv, StopReasonJustified, InLoop, GoTo, Finish
<1>0. clock \in Nat /\ processed \in Nat /\ Duration \in Nat /\ MaxDatagrams \in Nat
  BY LoopRanges DEF TypeOK, LoopTypeOK
<1>1. CASE (\E s \in Sockets : ThreadStep(s)) \/ UNCHANGED vars
  BY <1>1 DEF ThreadStep, vars, loopVars
<1>2. CASE Tick
  BY <1>0, <1>2 DEF Tick, loopVars
<1>3. CASE RequestStop
  BY <1>3 DEF RequestStop, loopVars
<1>4. CASE ReadReturns
  BY <1>4 DEF ReadReturns, RxRead, RxError
<1>5. CASE MainStep
  <2>0. clock' = clock /\ stopRequested' = stopRequested
    BY <1>5 DEF MainStep
  <2>1. CASE StopAtTop \/ PassTop
    BY <2>0, <2>1 DEF StopAtTop, PassTop
  <2>2. CASE CheckBounds
    BY <1>0, <2>0, <2>2 DEF CheckBounds, BoundReached, Unlimited
  <2>3. CASE Begin \/ EndBurst
    BY <2>0, <2>3 DEF Begin, EndBurst
  <2>4. CASE TakeDatagram
    BY <2>0, <2>4 DEF TakeDatagram, MayTryTx, Unlimited
  <2>5. CASE TxProcessed
    BY <1>0, <2>0, <2>5 DEF TxProcessed
  <2>6. CASE ArmRx
    BY <2>0, <2>6 DEF ArmRx
  <2>7. CASE RxTimedOut
    BY <2>0, <2>7 DEF RxTimedOut
  <2>8. CASE AfterLoop /\ UNCHANGED <<processed, stopReason>>
    BY <2>0, <2>8 DEF AfterLoop, TurnOffLed, TakeReport, DropReceiver, JoinThreads
  <2> QED BY <1>5, <2>1, <2>2, <2>3, <2>4, <2>5, <2>6, <2>7, <2>8 DEF MainStep, LoopStep
<1> QED BY <1>1, <1>2, <1>3, <1>4, <1>5 DEF Next, Done

(* The reported stop reason is the true one and the datagram limit is exact, *)
(* for every configuration.                                                  *)
THEOREM StopReasonTrue == Spec => []StopReasonJustified
<1>1. Init => ReasonInv
  BY LoopRanges DEF Init, ReasonInv, StopReasonJustified
<1>2. ReasonInv => StopReasonJustified
  BY DEF ReasonInv
<1> QED BY <1>1, <1>2, ReasonStep, TypeCorrect, PTL DEF Spec

LEMMA DeadlineStep ==
  ASSUME TypeOK, ReadWithinDeadline, [Next]_vars
  PROVE  ReadWithinDeadline'
<1> USE DEF ReadWithinDeadline, InEndlessRead, GoTo, Finish
<1>0. /\ clock \in Nat /\ Duration \in Nat /\ RxTimeout \in Nat /\ RxTimeout > 0
      /\ Milli \in Nat /\ Milli <= RxTimeout /\ rxDue \in Int
  BY LoopRanges, TimeoutAtLeastMilli DEF TypeOK, LoopTypeOK, NoTimeout
<1>1. CASE (\E s \in Sockets : ThreadStep(s)) \/ UNCHANGED vars \/ Tick \/ RequestStop
  <2>1. pc' = pc /\ rxDue' = rxDue /\ (clock' = clock \/ clock' = clock + 1)
    BY <1>1 DEF ThreadStep, Tick, RequestStop, vars, loopVars
  <2> QED BY <1>0, <2>1
<1>2. CASE ReadReturns
  BY <1>2 DEF ReadReturns, RxRead, RxError
<1>3. CASE MainStep
  <2>1. CASE ArmRx /\ clock' = clock
    <3>1. CASE pc' = "rx"
      <4>1. rxDue' = UsbReadDue(RxWait) /\ ~(Duration # 0 /\ clock >= Duration)
        BY <2>1, <3>1 DEF ArmRx
      <4>2. /\ RxWait \in Nat
            /\ Duration # 0 => clock + RxWait <= Duration
            /\ RxWait < Milli => Duration # 0 /\ Duration - clock < Milli
        BY <1>0, <4>1 DEF RxWait
      <4>3. /\ rxDue' # NoTimeout => rxDue' <= clock + RxWait
            /\ rxDue' = NoTimeout => RxWait < Milli
            /\ rxDue' \in Nat \cup {NoTimeout}
        BY <1>0, <4>1, <4>2, UsbRead
      <4> QED BY <1>0, <2>1, <3>1, <4>2, <4>3 DEF NoTimeout
    <3> QED BY <3>1
  <2>2. CASE \/ StopAtTop \/ PassTop \/ CheckBounds \/ EndBurst \/ RxTimedOut
             \/ Begin \/ TakeDatagram \/ TxProcessed \/ AfterLoop
    <3>1. pc' # "rx"
      BY <2>2 DEF StopAtTop, PassTop, CheckBounds, EndBurst, RxTimedOut, Begin,
         TakeDatagram, TxProcessed, AfterLoop, TurnOffLed, TakeReport, DropReceiver, JoinThreads
    <3> QED BY <3>1
  <2> QED BY <1>3, <2>1, <2>2 DEF MainStep, LoopStep
<1> QED BY <1>1, <1>2, <1>3 DEF Next, Done

(* After a stop request, after the deadline, and between two USB reads the   *)
(* loop takes at most tx_burst_limit datagrams, no timeout lies past the     *)
(* deadline, only a read begun in its last millisecond has none, and the     *)
(* stop reason is true, for any configuration.                               *)
THEOREM BurstBounds == Spec => [](BurstBounded /\ BoundsKept)
<1>1. Init => BoundInv /\ ReadWithinDeadline
  BY LoopRanges DEF Init, BoundInv, BurstInv, ReadInv, StopInv, LateInv, WithinBurst,
                    BeforeBurst, ReadWithinDeadline, InEndlessRead
<1>2. BoundInv /\ ReadWithinDeadline /\ StopReasonJustified => BurstBounded /\ BoundsKept
  BY DEF BoundInv, ReadInv, StopInv, LateInv, WithinBurst, BurstBounded, StopWithinBurst,
         DeadlineWithinBurst, BoundsKept
<1> QED BY <1>1, <1>2, BoundStep, DeadlineStep, StopReasonTrue, TypeCorrect, PTL DEF Spec
-----------------------------------------------------------------------------
(* The LED heartbeat.  A toggle schedules the next one half a period later, and *)
(* the last write of the flow is the one that turns the LED off.                *)
AfterLed == {"report", "drop", "join", "returned"}

LedInv ==
  /\ nextToggleAt = toggledAt + HalfPeriod
  /\ HeartbeatEnabled /\ pc \in AfterLed /\ ledRegister = "on" => lastWrite = "failed"

LEMMA LedStep ==
  ASSUME TypeOK, LedInv, [Next]_vars
  PROVE  /\ LedInv'
         /\ toggledAt' # toggledAt => toggledAt' - toggledAt >= HalfPeriod
<1> USE DEF LedInv, AfterLed, GoTo, Finish
<1>0. clock \in Nat /\ toggledAt \in Nat /\ HalfPeriod \in Nat /\ nextToggleAt \in Nat
  BY LoopRanges, HeartbeatAssumption DEF TypeOK, HbTypeOK
<1>1. CASE /\ UNCHANGED hbVars
           /\ pc' \notin AfterLed \/ (pc \in AfterLed /\ pc' \in AfterLed)
  BY <1>0, <1>1 DEF hbVars
<1>2. CASE \/ \E s \in Sockets : ThreadStep(s)
           \/ ReadReturns \/ Tick \/ RequestStop \/ UNCHANGED vars
  <2>1. UNCHANGED hbVars /\ (pc' = pc \/ pc' \in {"top", "ledOff"})
    BY <1>2 DEF ThreadStep, ReadReturns, RxRead, RxError, Tick, RequestStop, vars, loopVars
  <2> QED BY <1>1, <2>1
<1>3. CASE MainStep
  <2>1. CASE Begin
    <3>1. pc' \notin AfterLed /\ maybe_toggle(clock)
      BY <2>1 DEF Begin
    <3>2. CASE UNCHANGED hbVars
      BY <1>1, <3>1, <3>2
    <3>3. CASE ~UNCHANGED hbVars
      <4>1. nextToggleAt' = clock + HalfPeriod /\ toggledAt' = clock /\ clock >= nextToggleAt
        BY <3>1, <3>3 DEF maybe_toggle
      <4> QED BY <1>0, <3>1, <4>1
    <3> QED BY <3>2, <3>3
  <2>2. CASE TurnOffLed
    <3>1. CASE HeartbeatEnabled
      <4>1. UNCHANGED <<nextToggleAt, toggledAt>> /\ write_register("off")
        BY <2>2, <3>1 DEF TurnOffLed, turn_off
      <4> QED BY <1>0, <4>1 DEF write_register
    <3>2. CASE ~HeartbeatEnabled
      <4>1. UNCHANGED hbVars
        BY <2>2, <3>2 DEF TurnOffLed, turn_off
      <4> QED BY <1>0, <3>2, <4>1 DEF hbVars
    <3> QED BY <3>1, <3>2
  <2>3. CASE /\ \/ StopAtTop \/ PassTop \/ CheckBounds \/ EndBurst \/ RxTimedOut
                \/ ArmRx \/ TakeDatagram \/ TxProcessed \/ TakeReport \/ DropReceiver \/ JoinThreads
             /\ UNCHANGED hbVars
    <3>1. pc' \notin AfterLed \/ (pc \in AfterLed /\ pc' \in AfterLed)
      BY <2>3 DEF StopAtTop, PassTop, CheckBounds, EndBurst, RxTimedOut, ArmRx,
         TakeDatagram, TxProcessed, TakeReport, DropReceiver, JoinThreads
    <3> QED BY <1>1, <2>3, <3>1
  <2> QED BY <1>3, <2>1, <2>2, <2>3 DEF MainStep, LoopStep, AfterLoop
<1> QED BY <1>2, <1>3 DEF Next, Done

LEMMA LedInvariant == Spec => []LedInv
<1>1. Init => LedInv
  BY HeartbeatAssumption DEF Init, HbInit, LedInv, AfterLed
<1> QED BY <1>1, LedStep, TypeCorrect, PTL DEF Spec

(* When the flow returns an enabled heartbeat has left the LED off, unless the  *)
(* write that turns it off failed: turn_off runs on every way out of the loop,  *)
(* for every configuration and clock.                                           *)
THEOREM LedLeftOff == Spec => []LedOffAtReturn
<1>1. LedInv => LedOffAtReturn
  BY DEF LedInv, LedOffAtReturn, AfterLed
<1> QED BY <1>1, LedInvariant, PTL

(* Two toggles are never closer than half a period, however late an iteration   *)
(* starts: maybe_toggle schedules from now.                                     *)
THEOREM TogglesSpaced == Spec => ToggleSpacing
<1>1. TypeOK /\ LedInv /\ [Next]_vars
        => [toggledAt' # toggledAt => toggledAt' - toggledAt >= HalfPeriod]_vars
  BY LedStep
<1> QED BY <1>1, LedInvariant, TypeCorrect, PTL DEF Spec, ToggleSpacing

-----------------------------------------------------------------------------
(* The TX counters.  Every datagram a bind has counted as received was          *)
(* submitted or dropped, or is the one in hand; the drops are the failed        *)
(* submissions and the malformed ones; and the totals, whichever bind a         *)
(* datagram came from, balance in the same way.                                 *)
InHandFrom(s) == IF pc = "submit" /\ current.socket = s THEN 1 ELSE 0

BindsBalance ==
  \A s \in Sockets :
    /\ binds[s]["received"] = binds[s]["submitted"] + binds[s]["dropped"] + InHandFrom(s)
    /\ binds[s]["failed"] <= binds[s]["dropped"]

TotalsBalance ==
  /\ bridge["injected"] = submit["submitted"]
  /\ bridge["dropped"] = bridge["malformed"] + submit["failed"]
  /\ bridge["incoming"] = bridge["injected"] + bridge["dropped"]
  /\ processed = bridge["incoming"]
  /\ txReceived = processed + (IF pc = "submit" THEN 1 ELSE 0)

LEMMA BumpOne ==
  ASSUME NEW N, NEW c \in [N -> Nat], NEW names
  PROVE  /\ \A n \in N : n \in names => Bump(c, names)[n] = c[n] + 1
         /\ \A n \in N : n \notin names => Bump(c, names)[n] = c[n]
BY DEF Bump

LEMMA BalanceStep ==
  ASSUME TypeOK, BindsBalance, TotalsBalance, [Next]_vars
  PROVE  BindsBalance' /\ TotalsBalance'
<1> USE DEF GoTo, Finish
<1>0. /\ binds \in [Sockets -> [BindNames -> Nat]] /\ bridge \in [BridgeNames -> Nat]
      /\ submit \in [SubmitNames -> Nat] /\ processed \in Nat /\ txReceived \in Nat
      /\ queue \in Seq(Datagrams)
      /\ (pc = "submit" => current \in Datagrams)
  BY DEF TypeOK, TelemetryTypeOK, LoopTypeOK, IngressTypeOK
<1>1. CASE /\ UNCHANGED <<txReceived, binds, bridge, submit, processed, current>>
           /\ pc' = pc \/ (pc # "submit" /\ pc' # "submit")
  BY <1>1 DEF BindsBalance, TotalsBalance, InHandFrom
<1>2. CASE TakeDatagram /\ UNCHANGED <<bridge, submit>>
  <2>1. Head(queue) \in Datagrams
    BY <1>0, <1>2 DEF TakeDatagram
  <2>2. PICK h \in Sockets : h = Head(queue).socket
    BY <2>1 DEF Datagrams
  <2>3. /\ pc = "burst" /\ pc' = "submit" /\ current'.socket = h /\ processed' = processed
        /\ txReceived' = txReceived + 1
        /\ binds' = [binds EXCEPT ![h] = Bump(binds[h], {"received"})]
    BY <1>2, <2>2 DEF TakeDatagram
  <2>4. TotalsBalance'
    BY <1>0, <1>2, <2>3 DEF TotalsBalance
  <2>5. ASSUME NEW s \in Sockets
        PROVE  /\ binds'[s]["received"]
                    = binds'[s]["submitted"] + binds'[s]["dropped"] + InHandFrom(s)'
               /\ binds'[s]["failed"] <= binds'[s]["dropped"]
    <3>0. /\ binds[s] \in [BindNames -> Nat]
          /\ binds[s]["received"] = binds[s]["submitted"] + binds[s]["dropped"]
          /\ binds[s]["failed"] <= binds[s]["dropped"]
      BY <1>0, <2>3 DEF BindsBalance, InHandFrom, BindNames
    <3>1. CASE s = h
      <4>1. binds'[s] = Bump(binds[s], {"received"}) /\ InHandFrom(s)' = 1
        BY <1>0, <2>3, <3>1 DEF InHandFrom
      <4> QED BY <3>0, <4>1, BumpOne DEF BindNames
    <3>2. CASE s # h
      <4>1. binds'[s] = binds[s] /\ InHandFrom(s)' = 0
        BY <1>0, <2>3, <3>2 DEF InHandFrom
      <4> QED BY <3>0, <4>1 DEF BindNames
    <3> QED BY <3>1, <3>2
  <2> QED BY <2>4, <2>5 DEF BindsBalance
<1>3. CASE TxProcessed /\ UNCHANGED txReceived
  <2>1. PICK h \in Sockets : h = current.socket
    BY <1>0, <1>3 DEF TxProcessed, Datagrams
  <2>2. /\ pc = "submit" /\ pc' = "burst" /\ processed' = processed + 1
        /\ txReceived' = txReceived /\ current.socket = h
    BY <1>3, <2>1 DEF TxProcessed
  <2>3. PICK names \in {{"dropped"}, {"submitted"}, {"failed", "dropped"}} :
          binds' = [binds EXCEPT ![h] = Bump(binds[h], names)]
    BY <1>3, <2>1 DEF TxProcessed, DropMalformed, Submit
  <2>4. TotalsBalance'
    <3>0. /\ bridge["injected"] \in Nat /\ bridge["dropped"] \in Nat /\ bridge["incoming"] \in Nat
          /\ bridge["malformed"] \in Nat /\ submit["submitted"] \in Nat /\ submit["failed"] \in Nat
          /\ processed \in Nat /\ txReceived \in Nat
      BY <1>0 DEF BridgeNames, SubmitNames
    <3>1. CASE /\ bridge' = Bump(bridge, {"incoming", "dropped", "malformed"})
               /\ submit' = submit
      <4>1. /\ bridge'["injected"] = bridge["injected"] /\ bridge'["dropped"] = bridge["dropped"] + 1
            /\ bridge'["incoming"] = bridge["incoming"] + 1
            /\ bridge'["malformed"] = bridge["malformed"] + 1
        BY <1>0, <3>1 DEF Bump, BridgeNames
      <4>2. submit'["submitted"] = submit["submitted"] /\ submit'["failed"] = submit["failed"]
        BY <3>1
      <4>3. /\ bridge["dropped"] + 1 = (bridge["malformed"] + 1) + submit["failed"]
            /\ bridge["incoming"] + 1 = bridge["injected"] + (bridge["dropped"] + 1)
        BY <3>0 DEF TotalsBalance
      <4>4. processed' = bridge["incoming"] + 1 /\ txReceived' = processed'
        BY <2>2, <3>0 DEF TotalsBalance
      <4> QED BY <2>2, <4>1, <4>2, <4>3, <4>4 DEF TotalsBalance
    <3>2. CASE /\ bridge' = Bump(bridge, {"incoming", "injected"})
               /\ submit' = Bump(submit, {"submitted"})
      <4>1. /\ bridge'["injected"] = bridge["injected"] + 1 /\ bridge'["dropped"] = bridge["dropped"]
            /\ bridge'["incoming"] = bridge["incoming"] + 1
            /\ bridge'["malformed"] = bridge["malformed"]
        BY <1>0, <3>2 DEF Bump, BridgeNames
      <4>2. submit'["submitted"] = submit["submitted"] + 1 /\ submit'["failed"] = submit["failed"]
        BY <1>0, <3>2 DEF Bump, SubmitNames
      <4> QED BY <1>0, <2>2, <3>0, <4>1, <4>2 DEF TotalsBalance
    <3>3. CASE /\ bridge' = Bump(bridge, {"incoming", "dropped"})
               /\ submit' = Bump(submit, {"failed"})
      <4>1. /\ bridge'["injected"] = bridge["injected"] /\ bridge'["dropped"] = bridge["dropped"] + 1
            /\ bridge'["incoming"] = bridge["incoming"] + 1
            /\ bridge'["malformed"] = bridge["malformed"]
        BY <1>0, <3>3 DEF Bump, BridgeNames
      <4>2. submit'["submitted"] = submit["submitted"] /\ submit'["failed"] = submit["failed"] + 1
        BY <1>0, <3>3 DEF Bump, SubmitNames
      <4> QED BY <1>0, <2>2, <3>0, <4>1, <4>2 DEF TotalsBalance
    <3> QED BY <1>3, <3>1, <3>2, <3>3 DEF TxProcessed, DropMalformed, Submit
  <2>5. ASSUME NEW s \in Sockets
        PROVE  /\ binds'[s]["received"]
                    = binds'[s]["submitted"] + binds'[s]["dropped"] + InHandFrom(s)'
               /\ binds'[s]["failed"] <= binds'[s]["dropped"]
    <3>0. /\ binds[s] \in [BindNames -> Nat] /\ InHandFrom(s)' = 0
          /\ binds[s]["received"]
               = binds[s]["submitted"] + binds[s]["dropped"] + (IF s = h THEN 1 ELSE 0)
          /\ binds[s]["failed"] <= binds[s]["dropped"]
      BY <1>0, <2>2 DEF BindsBalance, InHandFrom, BindNames
    <3>1. CASE s = h
      <4>1. binds'[s] = Bump(binds[s], names)
        BY <1>0, <2>3, <3>1
      <4> QED BY <2>3, <3>0, <3>1, <4>1, BumpOne DEF BindNames
    <3>2. CASE s # h
      <4>1. binds'[s] = binds[s]
        BY <1>0, <2>3, <3>2
      <4> QED BY <3>0, <3>2, <4>1 DEF BindNames
    <3> QED BY <3>1, <3>2
  <2> QED BY <2>4, <2>5 DEF BindsBalance
<1>4. CASE \/ \E s \in Sockets : ThreadStep(s)
           \/ ReadReturns \/ Tick \/ RequestStop \/ UNCHANGED vars
  BY <1>1, <1>4 DEF ThreadStep, ReadReturns, RxRead, RxError, Tick, RequestStop, vars, loopVars,
                    telemetryVars
<1>5. CASE MainStep
  <2>1. CASE /\ StopAtTop \/ PassTop \/ CheckBounds \/ EndBurst \/ RxTimedOut
                \/ ArmRx \/ Begin
             /\ UNCHANGED telemetryVars
    BY <1>1, <2>1 DEF StopAtTop, PassTop, CheckBounds, EndBurst, RxTimedOut, ArmRx,
       Begin, telemetryVars
  <2>2. CASE AfterLoop /\ UNCHANGED <<txReceived, binds, bridge, submit, processed, current>>
    BY <1>1, <2>2 DEF AfterLoop, TurnOffLed, TakeReport, DropReceiver, JoinThreads
  <2> QED BY <1>2, <1>3, <1>5, <2>1, <2>2 DEF MainStep, LoopStep
<1> QED BY <1>4, <1>5 DEF Next, Done

(* The per-bind telemetry and the totals each account for every datagram taken, *)
(* for any set of sockets.                                                      *)
THEOREM CountersBalance == Spec => [](BindsBalance /\ TotalsBalance)
<1>1. Init => BindsBalance /\ TotalsBalance
  BY DEF Init, BindsBalance, TotalsBalance, InHandFrom, BindNames, BridgeNames, SubmitNames
<1> QED BY <1>1, BalanceStep, TypeCorrect, PTL DEF Spec

-----------------------------------------------------------------------------
(* The totals are the sums over the binds.  A sum is a fold over the sockets; it   *)
(* grows by one exactly when the counter of one bind does.                         *)
Total(B, name) ==
  LET iter[s \in SUBSET Sockets] ==
        IF s = {} THEN 0 ELSE B[Chosen(s)][name] + iter[s \ {Chosen(s)}]
  IN  iter[Sockets]

LEMMA SumIsTotal ==
  ASSUME NEW name
  PROVE  SumOverBinds(name) = Total(binds, name) /\ SumOverBinds(name)' = Total(binds', name)
BY DEF SumOverBinds, Total, Chosen, FSE!MapThenSumSet, FSE!MapThenFoldSet

Column(B, name) == [s \in Sockets |-> B[s][name]]

LEMMA TotalIsSum ==
  ASSUME NEW B \in [Sockets -> [BindNames -> Nat]], NEW name \in BindNames
  PROVE  /\ Column(B, name) \in [Sockets -> Nat]
         /\ \E w : IsSum(w, Column(B, name), Sockets) /\ Total(B, name) = w[Sockets]
<1>0. IsFiniteSet(Sockets)
  BY LoopRanges
<1>1. Column(B, name) \in [Sockets -> Nat]
  BY DEF Column
<1>2. PICK w : IsSum(w, Column(B, name), Sockets)
  BY <1>0, <1>1, SumExists
<1> DEFINE Is(v) == v = [s \in SUBSET Sockets |->
                           IF s = {} THEN 0 ELSE B[Chosen(s)][name] + v[s \ {Chosen(s)}]]
           iter == CHOOSE v : Is(v)
<1>3. ASSUME NEW v PROVE Is(v) <=> IsSum(v, Column(B, name), Sockets)
  <2>1. \A s \in SUBSET Sockets : s # {} => B[Chosen(s)][name] = Column(B, name)[Chosen(s)]
    BY <1>0, ChosenRemoved DEF Column
  <2> QED BY <2>1 DEF IsSum
<1>4. Is(w)
  BY <1>2, <1>3
<1>5. Is(iter)
  BY <1>4, Zenon
<1>6. Total(B, name) = iter[Sockets]
  BY Zenon DEF Total
<1> HIDE DEF iter, Is
<1>7. IsSum(iter, Column(B, name), Sockets)
  BY <1>3, <1>5
<1> QED BY <1>1, <1>6, <1>7

(* The sums when the counters in names of one bind are bumped. *)
Grown(B, C, names) ==
  \A name \in BindNames : Total(C, name) = Total(B, name) + (IF name \in names THEN 1 ELSE 0)

LEMMA TotalStep ==
  ASSUME NEW B \in [Sockets -> [BindNames -> Nat]], NEW h \in Sockets, NEW names
  PROVE  Grown(B, [B EXCEPT ![h] = Bump(B[h], names)], names)
<1> DEFINE C == [B EXCEPT ![h] = Bump(B[h], names)]
<1> SUFFICES ASSUME NEW name \in BindNames
             PROVE  Total(C, name) = Total(B, name) + (IF name \in names THEN 1 ELSE 0)
  BY Zenon DEF Grown
<1> DEFINE d == IF name \in names THEN 1 ELSE 0
           f == Column(B, name)
           g == Column(C, name)
<1>0. IsFiniteSet(Sockets)
  BY LoopRanges
<1>1. C \in [Sockets -> [BindNames -> Nat]]
  BY DEF Bump
<1>5. d \in Nat
  OBVIOUS
<1>6. g[h] = f[h] + d
  BY DEF Column, Bump
<1>7. \A y \in Sockets : y # h => g[y] = f[y]
  BY DEF Column
<1> HIDE DEF C
<1>2. f \in [Sockets -> Nat] /\ g \in [Sockets -> Nat]
  BY <1>1, TotalIsSum
<1>3. PICK w : IsSum(w, f, Sockets) /\ Total(B, name) = w[Sockets]
  BY TotalIsSum
<1>4. PICK v : IsSum(v, g, Sockets) /\ Total(C, name) = v[Sockets]
  BY <1>1, TotalIsSum
<1> HIDE DEF d, f, g
<1>8. Raised(f, g, Sockets, h, d)
  BY <1>2, <1>5, <1>6, <1>7 DEF Raised
<1>9. v[Sockets] = w[Sockets] + d
  BY <1>0, <1>3, <1>4, <1>8, SumGrows
<1> QED BY <1>3, <1>4, <1>9 DEF d

SumsAgree ==
  /\ txReceived = Total(binds, "received") /\ submit["submitted"] = Total(binds, "submitted")
  /\ submit["failed"] = Total(binds, "failed") /\ bridge["dropped"] = Total(binds, "dropped")

LEMMA SumsStep ==
  ASSUME TypeOK, SumsAgree, [Next]_vars
  PROVE  SumsAgree'
<1> USE DEF GoTo, Finish
<1>0. /\ binds \in [Sockets -> [BindNames -> Nat]] /\ bridge \in [BridgeNames -> Nat]
      /\ submit \in [SubmitNames -> Nat] /\ txReceived \in Nat /\ queue \in Seq(Datagrams)
      /\ (pc = "submit" => current \in Datagrams)
  BY DEF TypeOK, TelemetryTypeOK, LoopTypeOK, IngressTypeOK
<1>n. {"received", "submitted", "failed", "dropped"} \subseteq BindNames
  BY DEF BindNames
<1>1. CASE UNCHANGED <<txReceived, binds, bridge, submit>>
  BY <1>1 DEF SumsAgree
<1>2. CASE TakeDatagram /\ UNCHANGED <<bridge, submit>>
  <2>1. Head(queue) \in Datagrams
    BY <1>0, <1>2 DEF TakeDatagram
  <2>2. PICK h \in Sockets : h = Head(queue).socket
    BY <2>1 DEF Datagrams
  <2>3. /\ txReceived' = txReceived + 1
        /\ binds' = [binds EXCEPT ![h] = Bump(binds[h], {"received"})]
    BY <1>2, <2>2 DEF TakeDatagram
  <2>4. Grown(binds, binds', {"received"})
    BY <1>0, <2>3, TotalStep
  <2>5. /\ Total(binds', "received") = Total(binds, "received") + 1
        /\ Total(binds', "submitted") = Total(binds, "submitted") + 0
        /\ Total(binds', "failed") = Total(binds, "failed") + 0
        /\ Total(binds', "dropped") = Total(binds, "dropped") + 0
    BY <1>n, <2>4 DEF Grown
  <2>6. bridge["dropped"] \in Nat /\ submit["submitted"] \in Nat /\ submit["failed"] \in Nat
    BY <1>0 DEF BridgeNames, SubmitNames
  <2> QED BY <1>0, <1>2, <2>3, <2>5, <2>6 DEF SumsAgree
<1>3. CASE TxProcessed /\ UNCHANGED txReceived
  <2>1. PICK h \in Sockets : h = current.socket
    BY <1>0, <1>3 DEF TxProcessed, Datagrams
  <2>2. bridge["dropped"] \in Nat /\ submit["submitted"] \in Nat /\ submit["failed"] \in Nat
    BY <1>0 DEF BridgeNames, SubmitNames
  <2>3. ASSUME NEW names, binds' = [binds EXCEPT ![h] = Bump(binds[h], names)]
        PROVE  Grown(binds, binds', names)
    BY <1>0, <2>3, TotalStep
  <2>4. CASE /\ binds' = [binds EXCEPT ![h] = Bump(binds[h], {"dropped"})]
             /\ bridge' = Bump(bridge, {"incoming", "dropped", "malformed"}) /\ submit' = submit
    <3>1. bridge'["dropped"] = bridge["dropped"] + 1
      BY <1>0, <2>4 DEF Bump, BridgeNames
    <3>2. /\ Total(binds', "received") = Total(binds, "received") + 0
          /\ Total(binds', "submitted") = Total(binds, "submitted") + 0
          /\ Total(binds', "failed") = Total(binds, "failed") + 0
          /\ Total(binds', "dropped") = Total(binds, "dropped") + 1
      <4>1. Grown(binds, binds', {"dropped"})
        BY <2>3, <2>4
      <4> QED BY <1>n, <4>1 DEF Grown
    <3> QED BY <1>0, <1>3, <2>2, <2>4, <3>1, <3>2 DEF SumsAgree
  <2>5. CASE /\ binds' = [binds EXCEPT ![h] = Bump(binds[h], {"submitted"})]
             /\ bridge' = Bump(bridge, {"incoming", "injected"})
             /\ submit' = Bump(submit, {"submitted"})
    <3>1. /\ bridge'["dropped"] = bridge["dropped"] /\ submit'["failed"] = submit["failed"]
          /\ submit'["submitted"] = submit["submitted"] + 1
      BY <1>0, <2>5 DEF Bump, BridgeNames, SubmitNames
    <3>2. /\ Total(binds', "received") = Total(binds, "received") + 0
          /\ Total(binds', "submitted") = Total(binds, "submitted") + 1
          /\ Total(binds', "failed") = Total(binds, "failed") + 0
          /\ Total(binds', "dropped") = Total(binds, "dropped") + 0
      <4>1. Grown(binds, binds', {"submitted"})
        BY <2>3, <2>5
      <4> QED BY <1>n, <4>1 DEF Grown
    <3> QED BY <1>0, <1>3, <2>2, <3>1, <3>2 DEF SumsAgree
  <2>6. CASE /\ binds' = [binds EXCEPT ![h] = Bump(binds[h], {"failed", "dropped"})]
             /\ bridge' = Bump(bridge, {"incoming", "dropped"})
             /\ submit' = Bump(submit, {"failed"})
    <3>1. /\ bridge'["dropped"] = bridge["dropped"] + 1 /\ submit'["failed"] = submit["failed"] + 1
          /\ submit'["submitted"] = submit["submitted"]
      BY <1>0, <2>6 DEF Bump, BridgeNames, SubmitNames
    <3>2. /\ Total(binds', "received") = Total(binds, "received") + 0
          /\ Total(binds', "submitted") = Total(binds, "submitted") + 0
          /\ Total(binds', "failed") = Total(binds, "failed") + 1
          /\ Total(binds', "dropped") = Total(binds, "dropped") + 1
      <4>1. Grown(binds, binds', {"failed", "dropped"})
        BY <2>3, <2>6
      <4> QED BY <1>n, <4>1 DEF Grown
    <3> QED BY <1>0, <1>3, <2>2, <3>1, <3>2 DEF SumsAgree
  <2> QED BY <1>3, <2>1, <2>4, <2>5, <2>6 DEF TxProcessed, DropMalformed, Submit
<1>4. CASE \/ \E s \in Sockets : ThreadStep(s)
           \/ ReadReturns \/ Tick \/ RequestStop \/ UNCHANGED vars
  BY <1>1, <1>4 DEF ThreadStep, ReadReturns, RxRead, RxError, Tick, RequestStop, vars, loopVars,
                    telemetryVars
<1>5. CASE MainStep
  <2>1. CASE /\ StopAtTop \/ PassTop \/ CheckBounds \/ EndBurst \/ RxTimedOut
                \/ ArmRx \/ Begin
             /\ UNCHANGED telemetryVars
    BY <1>1, <2>1 DEF telemetryVars
  <2>2. CASE AfterLoop /\ UNCHANGED <<txReceived, binds, bridge, submit, processed, current>>
    BY <1>1, <2>2
  <2> QED BY <1>2, <1>3, <1>5, <2>1, <2>2 DEF MainStep, LoopStep
<1> QED BY <1>4, <1>5 DEF Next, Done

(* The three sets of counters never drift apart, whichever way a submission        *)
(* fails: the totals are the sums over the binds, for any set of sockets.          *)
THEOREM TelemetryTrue == Spec => []TelemetryAgrees
<1>1. Init => SumsAgree
  <2> SUFFICES ASSUME Init PROVE SumsAgree
    OBVIOUS
  <2>1. ASSUME NEW name \in BindNames PROVE Total(binds, name) = 0
    <3>1. binds \in [Sockets -> [BindNames -> Nat]] /\ \A s \in Sockets : binds[s][name] = 0
      BY <2>1 DEF Init
    <3>2. Column(binds, name) \in [Sockets -> Nat] /\ \A s \in Sockets : Column(binds, name)[s] = 0
      BY <3>1 DEF Column
    <3>3. PICK w : IsSum(w, Column(binds, name), Sockets) /\ Total(binds, name) = w[Sockets]
      BY <3>1, TotalIsSum
    <3> QED BY <3>2, <3>3, LoopRanges, SumOfZeros
  <2>2. txReceived = 0 /\ submit["submitted"] = 0 /\ submit["failed"] = 0 /\ bridge["dropped"] = 0
    BY DEF Init, BridgeNames, SubmitNames
  <2> QED BY <2>1, <2>2 DEF SumsAgree, BindNames
<1>2. SumsAgree /\ TotalsBalance => TelemetryAgrees
  BY SumIsTotal DEF SumsAgree, TotalsBalance, TelemetryAgrees
<1> QED BY <1>1, <1>2, SumsStep, CountersBalance, TypeCorrect, PTL DEF Spec

=============================================================================
