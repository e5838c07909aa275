--------------------------- MODULE TunBridgeProofs ---------------------------
(***************************************************************************)
(* Proofs about the TUN helper's loop, for every radio MTU, aggregation      *)
(* timeout, keepalive interval and sequence of packets.                      *)
(***************************************************************************)
EXTENDS TunBridge, SequenceTheorems, TLAPS

-----------------------------------------------------------------------------
(* The inductive invariant. *)

Messages == [packets : Seq(Nat), bytes : Nat]

Pcs == {"start", "top", "poll", "tun", "udp", "flush", "final", "ended"}

ClockType ==
  /\ aggTimeout \in Nat /\ now \in Nat /\ nextKeepalive \in Nat /\ wakeAt \in Nat
  /\ pc \in Pcs /\ result \in {"error", "pass"}

AggregateType ==
  /\ read \in Seq(Nat) /\ sent \in Seq(Messages) /\ parts \in Messages
  /\ deadline \in Nat \cup {None}

(* The datagrams sent so far form one run of packet numbers. *)
SentInv ==
  /\ \A k \in 1..Len(sent) :
       /\ sent[k].packets # <<>> /\ sent[k].bytes <= RadioMtu
       /\ EndOf(k - 1) < EndOf(k) /\ sent[k].packets = Numbers(EndOf(k - 1), EndOf(k))
  /\ EndOf(Len(sent)) <= Len(read)

(* The aggregate carries on where they end, and its deadline is its oldest      *)
(* packet's.                                                                    *)
HeldInv ==
  /\ parts.packets = Numbers(EndOf(Len(sent)), Len(read)) /\ parts.bytes <= RadioMtu
  /\ parts.packets = <<>> => parts = Empty
  /\ parts = Empty => deadline = None
  /\ parts # Empty => aggTimeout # 0 /\ deadline = read[parts.packets[1]] + aggTimeout

(* Where the loop stands relative to the deadline. *)
TimeInv ==
  /\ pc = "start" => parts = Empty
  /\ pc = "top" /\ parts # Empty => now < deadline
  /\ pc = "poll" => now <= wakeAt /\ (parts # Empty => wakeAt <= deadline)

BridgeInv ==
  /\ ClockType /\ AggregateType /\ SentInv /\ TimeInv
  /\ pc # "ended" => HeldInv
  /\ result = "pass" => pc = "ended" /\ EndOf(Len(sent)) = Len(read)

-----------------------------------------------------------------------------
(* Lemmas about the operators. *)

(* Runs of packet numbers: length, members, and what appending the next one gives. *)
LEMMA NumbersFacts ==
  ASSUME NEW a \in Nat, NEW b \in Nat, a <= b
  PROVE  /\ Numbers(a, b) \in Seq(Nat) /\ Len(Numbers(a, b)) = b - a
         /\ \A i \in 1..b - a : Numbers(a, b)[i] = a + i
         /\ a = b <=> Numbers(a, b) = <<>>
         /\ Append(Numbers(a, b), b + 1) = Numbers(a, b + 1)
<1>1. b - a \in Nat /\ (b + 1) - a = (b - a) + 1
  OBVIOUS
<1>2. Numbers(a, b) \in Seq(Nat) /\ Len(Numbers(a, b)) = b - a
  BY <1>1 DEF Numbers
<1>3. \A i \in 1..b - a : Numbers(a, b)[i] = a + i
  BY DEF Numbers
<1>4. a = b <=> Numbers(a, b) = <<>>
  BY <1>2
<1>5. /\ Numbers(a, b + 1) \in Seq(Nat) /\ Len(Numbers(a, b + 1)) = (b - a) + 1
      /\ \A i \in 1..(b - a) + 1 : Numbers(a, b + 1)[i] = a + i
  BY <1>1 DEF Numbers
<1>6. /\ Append(Numbers(a, b), b + 1) \in Seq(Nat)
      /\ Len(Append(Numbers(a, b), b + 1)) = (b - a) + 1
      /\ \A i \in 1..(b - a) + 1 : Append(Numbers(a, b), b + 1)[i] = a + i
  <2> DEFINE s == Numbers(a, b)
  <2>1. s \in Seq(Nat) /\ Len(s) = b - a /\ (\A i \in 1..b - a : s[i] = a + i) /\ b + 1 \in Nat
    BY <1>2, <1>3
  <2> HIDE DEF s
  <2>2. Append(s, b + 1) \in Seq(Nat) /\ Len(Append(s, b + 1)) = (b - a) + 1
    BY <2>1
  <2>3. \A i \in 1..b - a : Append(s, b + 1)[i] = a + i
    BY <2>1
  <2>4. Append(s, b + 1)[(b - a) + 1] = a + ((b - a) + 1)
    BY <2>1
  <2>5. \A i \in 1..(b - a) + 1 : Append(s, b + 1)[i] = a + i
    BY <1>1, <2>3, <2>4
  <2> QED BY <2>2, <2>5 DEF s
<1>7. Append(Numbers(a, b), b + 1) = Numbers(a, b + 1)
  <2> DEFINE s == Append(Numbers(a, b), b + 1)
             t == Numbers(a, b + 1)
  <2>1. s \in Seq(Nat) /\ t \in Seq(Nat) /\ Len(s) = Len(t) /\ \A i \in 1..Len(s) : s[i] = t[i]
    BY <1>1, <1>5, <1>6
  <2> HIDE DEF s, t
  <2>2. s = t
    BY <2>1, SeqEqual
  <2> QED BY <2>2 DEF s, t
<1> QED BY <1>2, <1>3, <1>4, <1>7

(* The facts of NumbersFacts one by one, as the proofs below cite them. *)
LEMMA NumbersEmpty ==
  ASSUME NEW a \in Nat, NEW b \in Nat, a <= b
  PROVE  a = b <=> Numbers(a, b) = <<>>
BY NumbersFacts

LEMMA NumbersAppend ==
  ASSUME NEW a \in Nat, NEW b \in Nat, a <= b
  PROVE  Append(Numbers(a, b), b + 1) = Numbers(a, b + 1)
BY NumbersFacts

LEMMA NumbersFirst ==
  ASSUME NEW a \in Nat, NEW b \in Nat, a < b
  PROVE  Numbers(a, b)[1] = a + 1
<1>1. a <= b /\ 1 \in 1..b - a
  OBVIOUS
<1> QED BY <1>1, NumbersFacts

(* Sending no message, or one that the socket takes or refuses. *)
LEMMA SendNone ==
  ASSUME AggregateType, NEW next, SendAll(<<>>, next)
  PROVE  sent' = sent /\ pc' = next
<1>1. sent \o <<>> = sent
  BY DEF AggregateType
<1> QED BY <1>1 DEF SendAll

LEMMA SendOne ==
  ASSUME AggregateType, NEW m \in Messages, NEW next, SendAll(<<m>>, next)
  PROVE  \/ sent' = Append(sent, m) /\ pc' = next
         \/ sent' = sent /\ pc' = "ended"
<1>1. sent \o <<m>> = Append(sent, m) /\ sent \o <<>> = sent
  BY DEF AggregateType
<1>2. Len(<<m>>) - 1 = 0 /\ SubSeq(<<m>>, 1, 0) = <<>>
  OBVIOUS
<1>3. 0..Len(<<m>>) - 1 = {0}
  BY <1>2
<1> QED BY <1>1, <1>2, <1>3 DEF SendAll

(* The last packet sent is a packet number. *)
LEMMA EndOfType ==
  ASSUME AggregateType, SentInv
  PROVE  \A k \in 0..Len(sent) : EndOf(k) \in Nat
<1> SUFFICES ASSUME NEW k \in 0..Len(sent), k # 0 PROVE EndOf(k) \in Nat
  BY DEF EndOf
<1>1. sent[k] \in Messages /\ sent[k].packets # <<>>
  BY DEF AggregateType, SentInv
<1>2. sent[k].packets \in Seq(Nat)
  BY <1>1 DEF Messages
<1>3. Len(sent[k].packets) \in 1..Len(sent[k].packets)
  BY <1>1, <1>2
<1> QED BY <1>2, <1>3 DEF EndOf

(* A datagram that carries on where the last one ended extends the run. *)
LEMMA SentAppend ==
  ASSUME AggregateType, SentInv, NEW m \in Messages, NEW e \in Nat,
         EndOf(Len(sent)) < e, e <= Len(read'), read' \in Seq(Nat),
         m.packets = Numbers(EndOf(Len(sent)), e), m.bytes <= RadioMtu,
         sent' = Append(sent, m)
  PROVE  SentInv' /\ EndOf(Len(sent))' = e
<1>0. PICK n \in Nat : n = Len(sent)
  BY DEF AggregateType
<1>1. n \in Nat /\ Len(sent') = n + 1 /\ sent'[n + 1] = m /\ \A k \in 1..n : sent'[k] = sent[k]
  BY <1>0 DEF AggregateType
<1>2. EndOf(n) \in Nat
  BY <1>0, <1>1, EndOfType
<1>3. m.packets # <<>> /\ m.packets[Len(m.packets)] = e
  <2> DEFINE a == EndOf(n)
  <2>1. a \in Nat /\ a <= e /\ a # e /\ e - a \in 1..e - a /\ a + (e - a) = e
    BY <1>0, <1>2
  <2>2. Numbers(a, e) # <<>> /\ Len(Numbers(a, e)) = e - a /\ Numbers(a, e)[e - a] = a + (e - a)
    BY <2>1, NumbersFacts
  <2> QED BY <1>0, <2>1, <2>2
<1>4. EndOf(n + 1)' = e /\ EndOf(Len(sent))' = e
  <2>1. n + 1 # 0
    BY <1>1
  <2> QED BY <1>1, <1>3, <2>1 DEF EndOf
<1>5. \A k \in 0..n : EndOf(k)' = EndOf(k)
  BY <1>1 DEF EndOf
<1>6. ASSUME NEW k \in 1..n + 1
      PROVE  /\ sent'[k].packets # <<>> /\ sent'[k].bytes <= RadioMtu
             /\ EndOf(k - 1)' < EndOf(k)'
             /\ sent'[k].packets = Numbers(EndOf(k - 1)', EndOf(k)')
  <2>1. CASE k = n + 1
    BY <1>0, <1>1, <1>3, <1>4, <1>5, <2>1
  <2>2. CASE k \in 1..n
    <3>1. k - 1 \in 0..n /\ k \in 0..n
      BY <1>1, <2>2
    <3>2. EndOf(k - 1)' = EndOf(k - 1) /\ EndOf(k)' = EndOf(k)
      BY <1>5, <3>1
    <3> QED BY <1>0, <1>1, <2>2, <3>2 DEF SentInv
  <2> QED BY <1>1, <2>1, <2>2
<1> QED BY <1>1, <1>4, <1>6 DEF SentInv, Numbers

-----------------------------------------------------------------------------
(* Type correctness. *)

LEMMA EmptyMessage == Empty \in Messages /\ Empty.packets = <<>> /\ Empty.bytes = 0
BY DEF Empty, Messages

LEMMA ExtendedMessage ==
  ASSUME NEW m \in Messages, NEW p \in Nat, NEW size \in Nat
  PROVE  /\ Extended(m, p, size) \in Messages
         /\ Extended(m, p, size).packets = Append(m.packets, p)
         /\ Extended(m, p, size).bytes = m.bytes + (size + 2)
         /\ Extended(m, p, size) # Empty
<1>1. Append(m.packets, p) \in Seq(Nat) /\ m.bytes + (size + 2) \in Nat
  BY DEF Messages
<1>2. m.bytes + (size + 2) # 0
  BY DEF Messages
<1> QED BY <1>1, <1>2 DEF Extended, RecordLen, Messages, Empty

(* Aggregator::add: what it returns and keeps, in its three cases. *)
LEMMA AddCases ==
  ASSUME AggregateType, ClockType, HeldInv, NEW p \in Nat, NEW size \in Nat
  PROVE  \/ /\ aggTimeout = 0 /\ parts = Empty
            /\ Add(p, size) = [out |-> <<Extended(Empty, p, size)>>, parts |-> Empty,
                               deadline |-> None]
         \/ /\ aggTimeout # 0 /\ parts # Empty
            /\ Add(p, size) = [out |-> <<parts>>, parts |-> Extended(Empty, p, size),
                               deadline |-> now + aggTimeout]
         \/ /\ aggTimeout # 0 /\ (parts = Empty \/ Fits(parts, size))
            /\ Add(p, size) = [out |-> <<>>, parts |-> Extended(parts, p, size),
                               deadline |-> IF parts = Empty THEN now + aggTimeout ELSE deadline]
<1>1. Append(<<>>, Extended(Empty, p, size)) = <<Extended(Empty, p, size)>>
  OBVIOUS
<1>2. CASE aggTimeout = 0
  <2>1. parts = Empty
    BY <1>2 DEF HeldInv
  <2> QED BY <1>1, <1>2, <2>1 DEF Add
<1>3. CASE aggTimeout # 0 /\ parts # Empty /\ ~Fits(parts, size)
  BY <1>3 DEF Add, DeadlineAfter
<1>4. CASE aggTimeout # 0 /\ (parts = Empty \/ Fits(parts, size))
  BY <1>4 DEF Add, DeadlineAfter
<1> QED BY <1>2, <1>3, <1>4

-----------------------------------------------------------------------------
(* Every step keeps the invariant. *)

(* A step that sends nothing leaves the run of sent packets as it is. *)
LEMMA SentSame ==
  ASSUME AggregateType, SentInv, sent' = sent, read' \in Seq(Nat), Len(read) <= Len(read')
  PROVE  SentInv' /\ EndOf(Len(sent))' = EndOf(Len(sent))
<1>1. \A k \in 0..Len(sent) : EndOf(k)' = EndOf(k)
  BY DEF EndOf
<1>2. EndOf(Len(sent))' = EndOf(Len(sent)) /\ EndOf(Len(sent)) \in Nat /\ Len(sent) \in Nat
  BY EndOfType DEF EndOf, AggregateType
<1>3. Len(read) \in Nat /\ Len(read') \in Nat
  BY DEF AggregateType
<1>4. EndOf(Len(sent))' <= Len(read')
  BY <1>2, <1>3 DEF SentInv
<1>5. ASSUME NEW k \in 1..Len(sent)
      PROVE  /\ sent'[k].packets # <<>> /\ sent'[k].bytes <= RadioMtu
             /\ EndOf(k - 1)' < EndOf(k)'
             /\ sent'[k].packets = Numbers(EndOf(k - 1)', EndOf(k)')
  <2>1. k - 1 \in 0..Len(sent) /\ k \in 0..Len(sent)
    BY <1>2
  <2> QED BY <1>1, <2>1 DEF SentInv
<1> QED BY <1>2, <1>4, <1>5 DEF SentInv, Numbers

(* The aggregate between two steps: where it begins, and when it is empty. *)
LEMMA HeldFacts ==
  ASSUME AggregateType, SentInv, HeldInv
  PROVE  /\ EndOf(Len(sent)) \in Nat /\ Len(read) \in Nat /\ EndOf(Len(sent)) <= Len(read)
         /\ parts = Empty <=> EndOf(Len(sent)) = Len(read)
         /\ parts # Empty => parts.packets[1] = EndOf(Len(sent)) + 1
<1>1. EndOf(Len(sent)) \in Nat /\ Len(read) \in Nat /\ EndOf(Len(sent)) <= Len(read)
  BY EndOfType DEF AggregateType, SentInv
<1>2. parts = Empty <=> parts.packets = <<>>
  BY EmptyMessage DEF HeldInv
<1>3. parts.packets = <<>> <=> EndOf(Len(sent)) = Len(read)
  BY <1>1, NumbersEmpty DEF HeldInv
<1>4. parts # Empty => parts.packets[1] = EndOf(Len(sent)) + 1
  <2> SUFFICES ASSUME parts # Empty PROVE parts.packets[1] = EndOf(Len(sent)) + 1
    OBVIOUS
  <2>1. EndOf(Len(sent)) < Len(read)
    BY <1>1, <1>2, <1>3
  <2> QED BY <1>1, <2>1, NumbersFirst DEF HeldInv
<1> QED BY <1>1, <1>2, <1>3, <1>4

(* A packet that begins a new aggregate. *)
Single(f, r, p, size) ==
  /\ f \in Messages /\ f # Empty
  /\ f.packets = Numbers(r, p) /\ f.packets[1] = p /\ f.packets # <<>>
  /\ f.bytes = size + 2

LEMMA FreshAggregate ==
  ASSUME NEW r \in Nat, NEW p \in Nat, p = r + 1, NEW size \in Nat
  PROVE  Single(Extended(Empty, p, size), r, p, size)
<1>0. r <= r
  OBVIOUS
<1>1. Numbers(r, r) = <<>>
  BY <1>0, NumbersEmpty
<1>2. Append(Numbers(r, r), p) = Numbers(r, p)
  BY <1>0, NumbersAppend
<1>3. Extended(Empty, p, size).packets = Append(<<>>, p)
  BY DEF Extended, Empty
<1>4. Append(<<>>, p)[1] = p /\ Append(<<>>, p) # <<>>
  OBVIOUS
<1>5. Extended(Empty, p, size).bytes = size + 2
  BY DEF Extended, Empty, RecordLen
<1>6. Extended(Empty, p, size) \in Messages /\ Extended(Empty, p, size) # Empty
  <2>1. PICK m \in Messages : m = Empty
    BY EmptyMessage
  <2> QED BY <2>1, ExtendedMessage
<1> QED BY <1>1, <1>2, <1>3, <1>4, <1>5, <1>6 DEF Single

(* Reading one packet from the interface. *)
LEMMA ReadStep ==
  ASSUME BridgeInv, pc = "tun", NEW size \in Sizes, ReadPacket(size),
         UNCHANGED <<aggTimeout, now, nextKeepalive, wakeAt, result>>
  PROVE  BridgeInv'
<1>0. /\ AggregateType /\ ClockType /\ SentInv /\ HeldInv /\ size \in Nat /\ RadioMtu \in Nat
      /\ result = "error"
  BY TunAssumption DEF BridgeInv, ClockType
<1>1. /\ read \in Seq(Nat) /\ sent \in Seq(Messages) /\ parts \in Messages
      /\ deadline \in Nat \cup {None} /\ now \in Nat /\ aggTimeout \in Nat
  BY <1>0 DEF AggregateType, ClockType
<1>r. PICK r \in Nat : r = Len(read)
  BY <1>1
<1>p. PICK p \in Nat : p = r + 1
  OBVIOUS
<1>e. PICK E \in Nat : E = EndOf(Len(sent))
  BY <1>0, HeldFacts
<1>2. /\ E <= r /\ (parts = Empty <=> E = r) /\ (parts # Empty => parts.packets[1] = E + 1)
      /\ parts.packets = Numbers(E, r) /\ parts.bytes <= RadioMtu
  BY <1>0, <1>r, <1>e, HeldFacts DEF HeldInv
<1>3. /\ read' = Append(read, now) /\ read' \in Seq(Nat) /\ Len(read') = p
      /\ read'[p] = now /\ \A i \in 1..r : read'[i] = read[i]
  BY <1>1, <1>r, <1>p DEF ReadPacket
<1>4. sent' = sent => SentInv' /\ EndOf(Len(sent))' = E
  BY <1>0, <1>r, <1>p, <1>e, <1>3, SentSame
<1>5. ASSUME pc' \in {"udp", "ended"}, SentInv', AggregateType', pc' # "ended" => HeldInv'
      PROVE  BridgeInv'
  BY <1>0, <1>5 DEF BridgeInv, ClockType, TimeInv, Pcs
<1>6. CASE RecordLen(size) > RadioMtu
  BY <1>0, <1>3, <1>4, <1>5, <1>6 DEF ReadPacket, aggregator, AggregateType
<1>7. CASE ~(RecordLen(size) > RadioMtu)
  <2>s. size \in Nat /\ p = r + 1
    BY <1>0, <1>p
  <2>f. PICK f \in Messages : f = Extended(Empty, p, size) /\ Single(f, r, p, size)
    <3>1. Single(Extended(Empty, p, size), r, p, size)
      BY <2>s, FreshAggregate
    <3>2. Extended(Empty, p, size) \in Messages
      BY <3>1 DEF Single
    <3> QED BY <3>1, <3>2
  <2>0. size + 2 <= RadioMtu
    BY <1>0, <1>7 DEF RecordLen
  <2>1. /\ parts' = Add(p, size).parts /\ deadline' = Add(p, size).deadline
        /\ SendAll(Add(p, size).out, "udp")
    BY <1>7, <1>r, <1>p DEF ReadPacket
  <2>2. f.packets = Numbers(r, p) /\ f.packets[1] = p /\ f.packets # <<>> /\ f # Empty
        /\ f.bytes <= RadioMtu
    <3>1. f.packets = Numbers(r, p) /\ f.packets[1] = p /\ f.packets # <<>> /\ f # Empty
          /\ f.bytes = size + 2
      BY <2>f DEF Single
    <3> QED BY <2>0, <3>1
  <2>3. CASE /\ aggTimeout = 0 /\ parts = Empty
             /\ Add(p, size) = [out |-> <<f>>, parts |-> Empty, deadline |-> None]
    <3>1. parts' = Empty /\ deadline' = None /\ SendAll(<<f>>, "udp") /\ E = r
      BY <1>2, <2>1, <2>3
    <3>2. \/ sent' = Append(sent, f) /\ pc' = "udp"
          \/ sent' = sent /\ pc' = "ended"
      BY <1>0, <3>1, SendOne
    <3>3. AggregateType'
      <4>1. sent' \in Seq(Messages)
        BY <1>1, <3>2
      <4> QED BY <1>3, <3>1, <4>1, EmptyMessage DEF AggregateType
    <3>4. CASE sent' = sent /\ pc' = "ended"
      BY <1>4, <1>5, <3>3, <3>4
    <3>5. CASE sent' = Append(sent, f) /\ pc' = "udp"
      <4>1. SentInv' /\ EndOf(Len(sent))' = p
        <5>1. /\ AggregateType /\ SentInv /\ read' \in Seq(Nat) /\ sent' = Append(sent, f)
              /\ f.packets = Numbers(EndOf(Len(sent)), p) /\ f.bytes <= RadioMtu
          BY <1>0, <1>e, <1>3, <2>2, <3>1, <3>5
        <5>2. EndOf(Len(sent)) < p /\ p <= Len(read')
          BY <1>p, <1>e, <1>3, <3>1
        <5> QED BY <5>1, <5>2, SentAppend
      <4>2. Numbers(p, p) = <<>>
        BY NumbersEmpty
      <4>3. HeldInv'
        BY <1>0, <1>3, <3>1, <4>1, <4>2, EmptyMessage DEF HeldInv, Numbers
      <4> QED BY <1>5, <3>3, <3>5, <4>1, <4>3
    <3> QED BY <3>2, <3>4, <3>5
  <2>4. CASE /\ aggTimeout # 0 /\ parts # Empty
             /\ Add(p, size) = [out |-> <<parts>>, parts |-> f, deadline |-> now + aggTimeout]
    <3>1. parts' = f /\ deadline' = now + aggTimeout /\ SendAll(<<parts>>, "udp") /\ E < r
      BY <1>2, <2>1, <2>4
    <3>2. \/ sent' = Append(sent, parts) /\ pc' = "udp"
          \/ sent' = sent /\ pc' = "ended"
      BY <1>0, <1>1, <3>1, SendOne
    <3>3. AggregateType'
      <4>1. sent' \in Seq(Messages)
        BY <1>1, <3>2
      <4>2. now + aggTimeout \in Nat
        BY <1>1
      <4> QED BY <1>3, <3>1, <4>1, <4>2 DEF AggregateType
    <3>4. CASE sent' = sent /\ pc' = "ended"
      BY <1>4, <1>5, <3>3, <3>4
    <3>5. CASE sent' = Append(sent, parts) /\ pc' = "udp"
      <4>1. SentInv' /\ EndOf(Len(sent))' = r
        <5>1. /\ AggregateType /\ SentInv /\ read' \in Seq(Nat) /\ sent' = Append(sent, parts)
              /\ parts.packets = Numbers(EndOf(Len(sent)), r) /\ parts.bytes <= RadioMtu
              /\ parts \in Messages
          BY <1>0, <1>1, <1>e, <1>2, <1>3, <3>5
        <5>2. EndOf(Len(sent)) < r /\ r <= Len(read')
          BY <1>p, <1>e, <1>3, <3>1
        <5> QED BY <5>1, <5>2, SentAppend
      <4>2. HeldInv'
        BY <1>0, <1>3, <2>2, <2>4, <3>1, <4>1 DEF HeldInv, Numbers
      <4> QED BY <1>5, <3>3, <3>5, <4>1, <4>2
    <3> QED BY <3>2, <3>4, <3>5
  <2>5. CASE /\ aggTimeout # 0 /\ (parts = Empty \/ Fits(parts, size))
             /\ Add(p, size) = [out |-> <<>>, parts |-> Extended(parts, p, size),
                                deadline |-> IF parts = Empty THEN now + aggTimeout ELSE deadline]
    <3>g. PICK g \in Messages : g = Extended(parts, p, size)
      BY <1>0, <1>1, ExtendedMessage
    <3>1. /\ parts' = g /\ SendAll(<<>>, "udp")
          /\ deadline' = IF parts = Empty THEN now + aggTimeout ELSE deadline
      BY <2>1, <2>5, <3>g
    <3>2. sent' = sent /\ pc' = "udp"
      BY <1>0, <3>1, SendNone
    <3>3. /\ g.packets = Append(parts.packets, p) /\ g # Empty
          /\ g.bytes = parts.bytes + (size + 2)
      <4>1. g # Empty
        BY <1>0, <1>1, <3>g, ExtendedMessage
      <4> QED BY <3>g, <4>1 DEF Extended, RecordLen
    <3>4. AggregateType'
      BY <1>1, <1>3, <3>1, <3>2, <3>3 DEF AggregateType
    <3>5. g.packets = Numbers(E, p) /\ g.packets # <<>> /\ g.packets[1] = E + 1
      <4>1. g.packets = Numbers(E, p)
        BY <1>p, <1>2, <3>3, NumbersAppend
      <4>2. E <= p /\ E # p /\ E < p
        BY <1>p, <1>2
      <4>3. Numbers(E, p) # <<>>
        BY <4>2, NumbersEmpty
      <4>4. Numbers(E, p)[1] = E + 1
        BY <4>2, NumbersFirst
      <4> QED BY <4>1, <4>3, <4>4
    <3>6. g.bytes <= RadioMtu
      BY <1>0, <2>0, <2>5, <3>3, EmptyMessage DEF Fits, RecordLen
    <3>7. deadline' = read'[g.packets[1]] + aggTimeout
      <4>1. CASE parts = Empty
        BY <1>p, <1>2, <1>3, <3>1, <3>5, <4>1
      <4>2. CASE parts # Empty
        <5>1. E + 1 \in 1..r /\ deadline = read[E + 1] + aggTimeout
          BY <1>0, <1>2, <4>2 DEF HeldInv
        <5> QED BY <1>3, <3>1, <3>5, <4>2, <5>1
      <4> QED BY <4>1, <4>2
    <3>8. SentInv' /\ EndOf(Len(sent))' = E
      BY <1>4, <3>2
    <3>9. HeldInv'
      BY <1>0, <1>3, <2>5, <3>1, <3>3, <3>5, <3>6, <3>7, <3>8 DEF HeldInv, Numbers
    <3> QED BY <1>5, <3>2, <3>4, <3>8, <3>9
  <2> QED BY <1>0, <2>f, <2>3, <2>4, <2>5, AddCases
<1> QED BY <1>6, <1>7

(* The steps that neither read nor send a packet. *)
LEMMA QuietStep ==
  ASSUME BridgeInv, UNCHANGED <<aggTimeout, read, parts, deadline, sent>>,
         ClockType', TimeInv',
         result' = result, pc # "ended" \/ pc' = "ended", result = "pass" => pc' = "ended"
  PROVE  BridgeInv'
<1>1. AggregateType /\ SentInv /\ AggregateType' /\ Len(read) <= Len(read)
  BY DEF BridgeInv, AggregateType
<1>2. SentInv' /\ EndOf(Len(sent))' = EndOf(Len(sent))
  BY <1>1, SentSame DEF AggregateType
<1>3. HeldInv => HeldInv'
  BY <1>2 DEF HeldInv, Numbers
<1> QED BY <1>1, <1>2, <1>3 DEF BridgeInv

(* Sending the aggregate, when there is one, and emptying it. *)
LEMMA FlushOut ==
  ASSUME BridgeInv, pc # "ended", parts' = Empty, deadline' = None, read' = read,
         aggTimeout' = aggTimeout,
         \/ parts # Empty /\ sent' = Append(sent, parts)
         \/ parts = Empty /\ sent' = sent
  PROVE  /\ AggregateType' /\ SentInv' /\ HeldInv' /\ EndOf(Len(sent))' = Len(read')
<1>0. AggregateType /\ SentInv /\ HeldInv
  BY DEF BridgeInv
<1>1. /\ read \in Seq(Nat) /\ sent \in Seq(Messages) /\ parts \in Messages
      /\ RadioMtu \in Nat
  BY <1>0, TunAssumption DEF AggregateType
<1>r. PICK r \in Nat : r = Len(read)
  BY <1>1
<1>e. PICK E \in Nat : E = EndOf(Len(sent))
  BY <1>0, HeldFacts
<1>2. /\ E <= r /\ (parts = Empty <=> E = r)
      /\ parts.packets = Numbers(E, r) /\ parts.bytes <= RadioMtu
  BY <1>0, <1>r, <1>e, HeldFacts DEF HeldInv
<1>3. AggregateType'
  <2>1. sent' \in Seq(Messages)
    BY <1>1
  <2> QED BY <1>1, <2>1, EmptyMessage DEF AggregateType
<1>4. SentInv' /\ EndOf(Len(sent))' = r
  <2>1. CASE parts = Empty /\ sent' = sent
    BY <1>0, <1>1, <1>r, <1>e, <1>2, <2>1, SentSame
  <2>2. CASE parts # Empty /\ sent' = Append(sent, parts)
    <3>1. E < r
      BY <1>2, <2>2
    <3> QED BY <1>0, <1>1, <1>r, <1>e, <1>2, <2>2, <3>1, SentAppend
  <2> QED BY <2>1, <2>2
<1>5. Numbers(r, r) = <<>>
  BY NumbersEmpty
<1>6. HeldInv'
  BY <1>1, <1>r, <1>4, <1>5, EmptyMessage DEF HeldInv, Numbers
<1> QED BY <1>r, <1>3, <1>4, <1>6

(* flush_due and the keepalive. *)
LEMMA FlushStep ==
  ASSUME BridgeInv, Flush
  PROVE  BridgeInv'
<1>0. /\ AggregateType /\ SentInv /\ HeldInv /\ ClockType /\ result = "error" /\ pc = "flush"
      /\ parts \in Messages
  BY DEF BridgeInv, Flush, ClockType, AggregateType
<1>1. /\ UNCHANGED <<aggTimeout, now, read, wakeAt, result>>
  BY DEF Flush
<1>2. nextKeepalive' \in Nat
  BY <1>0, TunAssumption DEF Flush, ClockType
<1>3. CASE deadline # None /\ now >= deadline
  <2>1. parts # Empty
    BY <1>0, <1>3 DEF HeldInv
  <2>2. /\ parts' = Empty /\ deadline' = None
        /\ SendAll(<<parts>>, "top") \/ SendAll(<<parts>>, "ended")
    BY <1>3 DEF Flush
  <2>3. \/ sent' = Append(sent, parts) /\ pc' \in {"top", "ended"}
        \/ sent' = sent /\ pc' = "ended"
    BY <1>0, <2>2, SendOne
  <2>4. CASE sent' = Append(sent, parts) /\ pc' \in {"top", "ended"}
    <3>1. AggregateType' /\ SentInv' /\ HeldInv'
      BY <1>0, <1>1, <2>1, <2>2, <2>4, FlushOut
    <3> QED BY <1>0, <1>1, <1>2, <2>2, <2>4, <3>1 DEF BridgeInv, ClockType, TimeInv, Pcs
  <2>5. CASE sent' = sent /\ pc' = "ended"
    <3>1. AggregateType'
      BY <1>0, <1>1, <2>2, <2>5, EmptyMessage DEF AggregateType
    <3>2. SentInv'
      BY <1>0, <1>1, <2>5, SentSame DEF AggregateType
    <3> QED BY <1>0, <1>1, <1>2, <2>5, <3>1, <3>2 DEF BridgeInv, ClockType, TimeInv, Pcs
  <2> QED BY <2>3, <2>4, <2>5
<1>4. CASE ~(deadline # None /\ now >= deadline)
  <2>1. /\ parts' = parts /\ deadline' = deadline
        /\ SendAll(<<>>, "top") \/ SendAll(<<>>, "ended")
    BY <1>4 DEF Flush
  <2>2. sent' = sent /\ pc' \in {"top", "ended"}
    BY <1>0, <2>1, SendNone
  <2>3. ClockType'
    BY <1>0, <1>1, <1>2, <2>2 DEF ClockType, Pcs
  <2>4. ASSUME parts # Empty PROVE now < deadline
    <3>1. PICK E \in Nat : E = EndOf(Len(sent))
      BY <1>0, HeldFacts
    <3>2. E + 1 \in 1..Len(read) /\ parts.packets[1] = E + 1
      BY <1>0, <2>4, <3>1, HeldFacts
    <3>3. read[E + 1] \in Nat /\ now \in Nat /\ aggTimeout \in Nat
      BY <1>0, <3>2 DEF AggregateType, ClockType
    <3>4. deadline = read[E + 1] + aggTimeout
      BY <1>0, <2>4, <3>2 DEF HeldInv
    <3> QED BY <1>4, <3>3, <3>4 DEF None
  <2>5. TimeInv'
    BY <1>1, <2>1, <2>2, <2>4 DEF TimeInv
  <2> QED BY <1>0, <1>1, <2>1, <2>2, <2>3, <2>5, QuietStep
<1> QED BY <1>3, <1>4

(* The last aggregate, after the loop. *)
LEMMA FinalStep ==
  ASSUME BridgeInv, Final
  PROVE  BridgeInv'
<1>0. /\ AggregateType /\ SentInv /\ HeldInv /\ ClockType /\ pc = "final" /\ parts \in Messages
      /\ result = "error"
  BY DEF BridgeInv, Final, ClockType, AggregateType
<1>1. /\ UNCHANGED <<aggTimeout, now, read, nextKeepalive, wakeAt>> /\ pc' = "ended"
      /\ parts' = Empty /\ deadline' = None
  BY DEF Final
<1>2. CASE sent' = (IF parts = Empty THEN sent ELSE Append(sent, parts)) /\ result' = "pass"
  <2>1. AggregateType' /\ SentInv' /\ EndOf(Len(sent))' = Len(read')
    BY <1>0, <1>1, <1>2, FlushOut
  <2> QED BY <1>0, <1>1, <1>2, <2>1 DEF BridgeInv, ClockType, TimeInv, Pcs
<1>3. CASE UNCHANGED <<sent, result>>
  <2>1. AggregateType' /\ SentInv'
    BY <1>0, <1>1, <1>3, EmptyMessage, SentSame DEF AggregateType
  <2> QED BY <1>0, <1>1, <1>3, <2>1 DEF BridgeInv, ClockType, TimeInv, Pcs
<1> QED BY <1>2, <1>3 DEF Final

LEMMA BridgeStep ==
  ASSUME BridgeInv, [Next]_vars
  PROVE  BridgeInv'
<1>0. AggregateType /\ SentInv /\ ClockType /\ TimeInv /\ (pc # "ended" => HeldInv)
  BY DEF BridgeInv
<1>1. CASE Startup
  <2>1. ClockType' /\ TimeInv'
    BY <1>0, <1>1, TunAssumption DEF Startup, ClockType, TimeInv, Pcs, aggregator
  <2> QED BY <1>1, <2>1, QuietStep DEF Startup, aggregator, BridgeInv
<1>2. CASE Top
  <2>1. ClockType' /\ TimeInv'
    BY <1>0, <1>2 DEF Top, ClockType, TimeInv, Pcs, aggregator, AggregateType, HeldInv, Larger,
                      Smaller, None
  <2> QED BY <1>2, <2>1, QuietStep DEF Top, aggregator, BridgeInv
<1>3. CASE Poll
  <2>1. ClockType' /\ TimeInv'
    BY <1>0, <1>3 DEF Poll, ClockType, TimeInv, Pcs, aggregator
  <2> QED BY <1>3, <2>1, QuietStep DEF Poll, aggregator, BridgeInv
<1>4. CASE HandleTun
  <2>1. CASE \E size \in Sizes : ReadPacket(size)
    BY <1>4, <2>1, ReadStep DEF HandleTun
  <2>2. CASE pc' \in {"udp", "ended"} /\ UNCHANGED <<read, aggregator, sent>>
    <3>1. ClockType' /\ TimeInv'
      BY <1>0, <1>4, <2>2 DEF HandleTun, ClockType, TimeInv, Pcs
    <3> QED BY <1>4, <2>2, <3>1, QuietStep DEF HandleTun, aggregator, BridgeInv
  <2> QED BY <1>4, <2>1, <2>2 DEF HandleTun
<1>5. CASE HandleUdp
  <2>1. ClockType' /\ TimeInv'
    BY <1>0, <1>5 DEF HandleUdp, ClockType, TimeInv, Pcs, aggregator
  <2> QED BY <1>5, <2>1, QuietStep DEF HandleUdp, aggregator, BridgeInv
<1>6. CASE RequestStop
  <2>1. ClockType' /\ TimeInv'
    BY <1>0, <1>6 DEF RequestStop, ClockType, TimeInv, aggregator
  <2> QED BY <1>6, <2>1, QuietStep DEF RequestStop, aggregator, BridgeInv
<1>7. CASE Tick
  <2>1. ClockType' /\ TimeInv'
    BY <1>0, <1>7 DEF Tick, ClockType, TimeInv, Pcs, aggregator
  <2> QED BY <1>7, <2>1, QuietStep DEF Tick, aggregator, BridgeInv
<1>8. CASE UNCHANGED vars
  <2>1. ClockType' /\ TimeInv'
    BY <1>0, <1>8 DEF vars, ClockType, TimeInv
  <2> QED BY <1>8, <2>1, QuietStep DEF vars, BridgeInv
<1> QED
  BY <1>1, <1>2, <1>3, <1>4, <1>5, <1>6, <1>7, <1>8, FlushStep, FinalStep DEF Next

LEMMA BridgeInvariant == Spec => []BridgeInv
<1>1. Init => BridgeInv
  <2> SUFFICES ASSUME Init PROVE BridgeInv
    OBVIOUS
  <2> USE DEF Init
  <2>1. ClockType /\ AggregateType /\ TimeInv
    BY TunAssumption, EmptyMessage DEF ClockType, AggregateType, TimeInv, Pcs
  <2>2. EndOf(Len(sent)) = 0 /\ Len(sent) = 0 /\ Len(read) = 0
    BY DEF EndOf
  <2>3. SentInv
    BY <2>2 DEF SentInv
  <2>4. Numbers(0, 0) = <<>>
    BY NumbersEmpty
  <2>5. HeldInv
    BY <2>2, <2>4, EmptyMessage, TunAssumption DEF HeldInv
  <2> QED BY <2>1, <2>3, <2>5 DEF BridgeInv
<1> QED BY <1>1, BridgeStep, PTL DEF Spec

-----------------------------------------------------------------------------
(* Packets leave once, in order, in datagrams the radio MTU holds, and a clean   *)
(* stop leaves none behind, for every MTU, timeout and sequence of packets.      *)
THEOREM TunnelKeepsPackets == Spec => []TunnelLossless
<1>1. BridgeInv => TunnelLossless
  BY DEF BridgeInv, SentInv, HeldInv, TunnelLossless
<1> QED BY <1>1, BridgeInvariant, PTL

(* poll never sleeps past the moment the oldest packet of the aggregate is due,  *)
(* for every aggregation timeout and keepalive interval.                         *)
THEOREM AggregateOnTime == Spec => []OldestNotLate
<1>1. BridgeInv => OldestNotLate
  BY DEF BridgeInv, TimeInv, HeldInv, OldestNotLate
<1> QED BY <1>1, BridgeInvariant, PTL
=============================================================================
