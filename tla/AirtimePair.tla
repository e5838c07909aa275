----------------------------- MODULE AirtimePair -----------------------------
(***************************************************************************)
(* What the TDD schedule is for: a radio whose schedule starts with RX and   *)
(* its peer, whose schedule starts with TX and has the two windows swapped,  *)
(* share a channel.  Each measures time from the start of its own loop; the  *)
(* two starts differ by at most the guard.  On the first radio only the      *)
(* starts of bridge-loop iterations matter: run_production_bridge_loop reads *)
(* the clock once per iteration and gates TX on that reading, and its        *)
(* iterations are at most MaxGap apart (the RX timeout and the work).        *)
(***************************************************************************)
EXTENDS AirtimeSchedule, Integers, FiniteSets

CONSTANTS WindowMax,   \* bound: windows up to this
          GuardMax,    \* bound: guards up to this
          MaxGap,      \* the longest time between two iteration starts
          Horizon      \* bound: the last instant

ASSUME PairAssumption ==
  /\ {WindowMax, GuardMax, Horizon} \subseteq Nat
  /\ MaxGap \in Nat \ {0}

Mirror(s) == [s EXCEPT !.first = IF @ = "Rx" THEN "Tx" ELSE "Rx", !.rx = s.tx, !.tx = s.rx]

PairSchedules ==
  {s \in [mode : {"Tdd"}, first : {"Rx", "Tx"}, rx : 0 .. WindowMax, tx : 0 .. WindowMax,
          guard : 0 .. GuardMax, delay : 0 .. 1] : Validate(s)}

(* A radio's iterations: its schedule, how much later the peer's loop         *)
(* started, elapsed time at the start of an iteration, and the last iteration *)
(* start at which TX was allowed.                                             *)
Pairs ==
  UNION {{[sched |-> s, skew |-> k, t |-> 0, lastTx |-> s.delay] : k \in -s.guard .. s.guard} :
           s \in PairSchedules}

Iterated(p, gap) ==
  LET now == p.t + gap
  IN [p EXCEPT !.t = now,
               !.lastTx = IF tx_allowed_at_elapsed(p.sched, now) THEN now ELSE @]
-----------------------------------------------------------------------------
(* u64 saturation stays out of reach of any realistic window. *)
Realistic(s) == s.rx + s.tx + 2 * s.guard <= U64Max

(* Two mirrored radios are never allowed to transmit at the same instant,    *)
(* even when their loops started a guard time apart.                         *)
NeverBothTransmit(p) ==
  ~ /\ tx_allowed_at_elapsed(p.sched, p.t)
    /\ p.t - p.skew >= 0
    /\ tx_allowed_at_elapsed(Mirror(p.sched), p.t - p.skew)

(* Every cycle has exactly tdd_tx_window_ms milliseconds of transmission.    *)
TxShareExact(p) ==
  p.t >= p.sched.delay =>
    Cardinality({e \in p.t .. p.t + Cycle(p.sched) - 1 : tx_allowed_at_elapsed(p.sched, e)})
      = p.sched.tx

(* If iterations are never further apart than the TX window is long, the     *)
(* loop never steps over a whole TX window: TX is served once per cycle.     *)
(* Nothing in the configuration's validation asks for that.                  *)
WindowServed(p) ==
  MaxGap <= p.sched.tx /\ p.t > p.sched.delay => p.t - p.lastTx <= Cycle(p.sched)
=============================================================================
