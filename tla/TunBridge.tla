------------------------------- MODULE TunBridge -------------------------------
(* run_tun_bridge_macos: one thread that carries packets from a tun interface to  *)
(* the radio side in aggregates, and datagrams from the radio side to the          *)
(* interface.  Time passes in poll and in the two handlers; the steps between them *)
(* are short.                                                                      *)
EXTENDS Integers, Sequences

CONSTANTS
  RadioMtu,            \* largest aggregate
  AggTimeouts,         \* longest waits of a packet in an aggregate, 0 for none
  KeepaliveInterval,
  Sizes,               \* sizes of packets read from the interface
  MaxPackets, Horizon  \* bounds on packets read and on the clock

ASSUME TunAssumption ==
  /\ RadioMtu \in Nat /\ AggTimeouts \subseteq Nat /\ KeepaliveInterval \in Nat \ {0}
  /\ Sizes \subseteq Nat \ {0} /\ MaxPackets \in Nat /\ Horizon \in Nat

VARIABLES
  aggTimeout,  \* config.agg_timeout
  pc,          \* next step of the loop, or "ended"
  now,         \* the monotonic clock
  stop,        \* SIGNAL_STOP_REQUESTED or the caller's flag
  read,        \* when each packet read from the interface arrived
  parts,       \* the aggregate
  deadline,    \* of the aggregate, or None
  sent,        \* datagrams sent
  nextKeepalive,
  wakeAt,      \* when poll returns at the latest
  ready,       \* descriptors poll found readable
  result       \* what the summary says

vars == <<aggTimeout, pc, now, stop, read, parts, deadline, sent, nextKeepalive, wakeAt,
          ready, result>>

aggregator == <<parts, deadline>>

None == -1
Smaller(a, b) == IF a <= b THEN a ELSE b
Larger(a, b) == IF a >= b THEN a ELSE b

(* A byte buffer: the numbers of the packets in it, and its length. *)
Empty == [packets |-> <<>>, bytes |-> 0]

RecordLen(size) == size + 2
Extended(buffer, p, size) ==
  [packets |-> Append(buffer.packets, p), bytes |-> buffer.bytes + RecordLen(size)]

Init ==
  /\ aggTimeout \in AggTimeouts
  /\ pc = "start" /\ now = 0 /\ stop = FALSE /\ read = <<>> /\ parts = Empty /\ deadline = None
  /\ sent = <<>> /\ nextKeepalive = 0 /\ wakeAt = 0 /\ ready = {} /\ result = "error"

(* Opening and configuring the interface and binding the sockets; what fails   *)
(* ends the bridge with the summary "error".                                   *)
Startup ==
  /\ pc = "start"
  /\ pc' \in {"top", "ended"}
  /\ nextKeepalive' = now + KeepaliveInterval
  /\ UNCHANGED <<aggTimeout, now, stop, read, aggregator, sent, wakeAt, ready, result>>

(* Loop condition and the timeout of poll. *)
Top ==
  /\ pc = "top"
  /\ IF stop THEN pc' = "final" /\ UNCHANGED wakeAt
     ELSE /\ pc' = "poll"
          /\ wakeAt' = Larger(now, IF deadline = None THEN nextKeepalive
                                   ELSE Smaller(nextKeepalive, deadline))
  /\ UNCHANGED <<aggTimeout, now, stop, read, aggregator, sent, nextKeepalive, ready, result>>

(* poll ends with readable descriptors or with none (its timeout, the statistics *)
(* timer, a signal), or fails.                                                    *)
Poll ==
  /\ pc = "poll"
  /\ \/ \E fds \in SUBSET {"tun", "udp"} :
          ready' = fds /\ pc' = IF fds = {} THEN "flush" ELSE "tun"
     \/ pc' = "ended" /\ UNCHANGED ready
  /\ wakeAt' = 0
  /\ UNCHANGED <<aggTimeout, now, stop, read, aggregator, sent, nextKeepalive, result>>

-----------------------------------------------------------------------------
(* Aggregator. *)

(* Mutant: the length field is not counted against the radio MTU. *)
FitsWithoutLength(buffer, size) == buffer.bytes + size <= RadioMtu

Fits(buffer, size) == buffer.bytes + RecordLen(size) <= RadioMtu

(* Mutant: every packet of the aggregate starts the timeout again. *)
DeadlineAfterRefreshed(pending) == now + aggTimeout

DeadlineAfter(pending) == IF pending THEN deadline ELSE now + aggTimeout

(* Aggregator::add of packet p: the messages to send, and what stays. *)
Add(p, size) ==
  LET flushed == parts # Empty /\ ~Fits(parts, size)
      kept == IF flushed THEN Empty ELSE parts
      grown == Extended(kept, p, size)
      first == IF flushed THEN <<parts>> ELSE <<>>
  IN IF aggTimeout = 0
     THEN [out |-> Append(first, grown), parts |-> Empty, deadline |-> None]
     ELSE [out |-> first, parts |-> grown, deadline |-> DeadlineAfter(kept # Empty)]

(* Messages go out one by one; the first that fails ends the bridge. *)
SendAll(messages, next) ==
  \/ sent' = sent \o messages /\ pc' = next
  \/ \E k \in 0..Len(messages) - 1 : sent' = sent \o SubSeq(messages, 1, k) /\ pc' = "ended"

ReadPacket(size) ==
  /\ Len(read) < MaxPackets
  /\ read' = Append(read, now)
  /\ IF RecordLen(size) > RadioMtu
     THEN pc' = "ended" /\ UNCHANGED <<aggregator, sent>>
     ELSE LET a == Add(Len(read) + 1, size)
          IN parts' = a.parts /\ deadline' = a.deadline /\ SendAll(a.out, "udp")

(* A packet; nothing after all (would block); a failed read or a bad header. *)
HandleTun ==
  /\ pc = "tun"
  /\ \/ "tun" \in ready /\ \E size \in Sizes : ReadPacket(size)
     \/ pc' = "udp" /\ UNCHANGED <<read, aggregator, sent>>
     \/ "tun" \in ready /\ pc' = "ended" /\ UNCHANGED <<read, aggregator, sent>>
  /\ UNCHANGED <<aggTimeout, now, stop, nextKeepalive, wakeAt, ready, result>>

(* The records of the peer's datagram are written to the interface up to its end *)
(* or to a torn record, which is counted; a record that is no IP packet or a      *)
(* write that fails ends the bridge.                                               *)
HandleUdp ==
  /\ pc = "udp"
  /\ pc' = "flush" \/ ("udp" \in ready /\ pc' = "ended")
  /\ ready' = {}
  /\ UNCHANGED <<aggTimeout, now, stop, read, aggregator, sent, nextKeepalive, wakeAt, result>>

(* flush_due and the keepalive (an empty datagram), with one reading of the clock. *)
Flush ==
  LET due == deadline # None /\ now >= deadline
      alive == now >= nextKeepalive
  IN /\ pc = "flush"
     /\ parts' = IF due THEN Empty ELSE parts
     /\ deadline' = IF due THEN None ELSE deadline
     /\ \/ SendAll(IF due THEN <<parts>> ELSE <<>>, "top")
        \/ alive /\ SendAll(IF due THEN <<parts>> ELSE <<>>, "ended")
     /\ nextKeepalive' = IF alive /\ pc' = "top" THEN now + KeepaliveInterval ELSE nextKeepalive
     /\ UNCHANGED <<aggTimeout, now, stop, read, wakeAt, ready, result>>

Final ==
  /\ pc = "final" /\ pc' = "ended"
  /\ parts' = Empty /\ deadline' = None
  /\ \/ sent' = (IF parts = Empty THEN sent ELSE Append(sent, parts)) /\ result' = "pass"
     \/ parts # Empty /\ UNCHANGED <<sent, result>>
  /\ UNCHANGED <<aggTimeout, now, stop, read, nextKeepalive, wakeAt, ready>>

RequestStop ==
  /\ pc # "ended" /\ ~stop /\ stop' = TRUE
  /\ UNCHANGED <<aggTimeout, pc, now, read, aggregator, sent, nextKeepalive, wakeAt, ready, result>>

(* poll does not oversleep. *)
Tick ==
  /\ now < Horizon
  /\ pc \in {"tun", "udp"} \/ (pc = "poll" /\ now < wakeAt)
  /\ now' = now + 1
  /\ UNCHANGED <<aggTimeout, pc, stop, read, aggregator, sent, nextKeepalive, wakeAt, ready, result>>

Next ==
  \/ Startup \/ Top \/ Poll \/ HandleTun \/ HandleUdp \/ Flush \/ Final
  \/ RequestStop \/ Tick

Spec == Init /\ [][Next]_vars

-----------------------------------------------------------------------------
(* Properties. *)

(* The packets after number `from` up to number `to`, in the order of reading. *)
Numbers(from, to) == [i \in 1..to - from |-> from + i]

(* The last packet of the k-th datagram. *)
EndOf(k) == IF k = 0 THEN 0 ELSE sent[k].packets[Len(sent[k].packets)]

(* Packets leave once and in the order they were read: each datagram carries on   *)
(* where the one before it ended, and is no larger than the radio MTU.  While the *)
(* bridge runs, the packets not yet sent are those of the aggregate; after a stop  *)
(* that the summary calls "pass" none is missing.                                  *)
TunnelLossless ==
  /\ \A k \in 1..Len(sent) :
       /\ EndOf(k - 1) < EndOf(k) /\ sent[k].packets = Numbers(EndOf(k - 1), EndOf(k))
       /\ sent[k].bytes <= RadioMtu
  /\ EndOf(Len(sent)) <= Len(read)
  /\ pc # "ended" => parts.packets = Numbers(EndOf(Len(sent)), Len(read))
  /\ result = "pass" => EndOf(Len(sent)) = Len(read)

(* The bridge never sleeps with packets in hand past the moment at which the      *)
(* oldest of them is due, however many joined it since, although the timeout of    *)
(* poll is computed from the deadline of the whole aggregate.                      *)
OldestNotLate ==
  pc = "poll" /\ parts # Empty =>
    now <= wakeAt /\ wakeAt <= read[parts.packets[1]] + aggTimeout
=============================================================================
