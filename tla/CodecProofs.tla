----------------------------- MODULE CodecProofs -----------------------------
(***************************************************************************)
(* Theorems about the runtime's pure algorithms: the TDD gate of mirrored     *)
(* radios, the choice among I/Q candidates, the walk over a bulk transfer,    *)
(* the decoder of the EFUSE log and the settings of a channel.                *)
(* The lemmas NeverBoth, TxShare, ServedFromInv, SoundSelection, WalkExact    *)
(* and DecodeExact hold for every schedule, every sequence of 11-bit          *)
(* candidates, and every sequence of records or of blocks of any length; the  *)
(* theorems apply them to what the specification of MCCodec can choose.       *)
(***************************************************************************)
EXTENDS MCCodec, InductionLemmas, FiniteSetTheorems, TLAPS

-----------------------------------------------------------------------------
(* Remainders. *)

LEMMA ModRange ==
  ASSUME NEW x \in Int, NEW c \in Nat, c > 0
  PROVE  (x % c) \in 0..c - 1
OBVIOUS

LEMMA DivMod ==
  ASSUME NEW x \in Int, NEW c \in Nat, c > 0
  PROVE  /\ x \div c \in Int
         /\ x = c * (x \div c) + (x % c)
OBVIOUS

LEMMA ModUnique ==
  ASSUME NEW x \in Int, NEW c \in Nat, c > 0, NEW q \in Int, NEW r \in 0..c - 1, x = c * q + r
  PROVE  (x % c) = r
OBVIOUS

(* Going on by at most a cycle wraps at most once. *)
LEMMA ModWrap ==
  ASSUME NEW x \in Int, NEW c \in Nat, c > 0, NEW j \in 0..c
  PROVE  ((x + j) % c) = (IF (x % c) + j < c THEN (x % c) + j ELSE (x % c) + j - c)
<1>1. PICK q \in Int, r \in 0..c - 1 : x = c * q + r /\ (x % c) = r
  BY DivMod, ModRange
<1>2. CASE r + j < c
  <2>1. x + j = c * q + (r + j) /\ r + j \in 0..c - 1 /\ x + j \in Int
    BY <1>1, <1>2
  <2> QED BY <1>1, <1>2, <2>1, ModUnique
<1>3. CASE r + j >= c
  <2>1. PICK v \in Int, w \in 0..c - 1, z \in Int : v = q + 1 /\ w = r + j - c /\ z = x + j
    BY <1>1, <1>3
  <2>2. z = c * v + w
    BY <1>1, <2>1
  <2>3. (z % c) = w
    BY <2>1, <2>2, ModUnique
  <2> QED BY <1>1, <1>3, <2>1, <2>3
<1> QED BY <1>1, <1>2, <1>3

-----------------------------------------------------------------------------
(* The TDD gate of a schedule without saturation. *)

From(s) == IF s.first = "Rx" THEN s.rx + s.guard ELSE 0
Whole(s) == s.rx + s.tx + 2 * s.guard

LEMMA ScheduleType ==
  ASSUME NEW s \in PairSchedules
  PROVE  /\ s.mode = "Tdd" /\ s.first \in {"Rx", "Tx"}
         /\ s.rx \in Nat /\ s.tx \in Nat /\ s.guard \in Nat /\ s.delay \in Nat
         /\ s.rx > 0 /\ s.tx > 0
BY PairAssumption DEF PairSchedules, Validate

LEMMA NoSaturation ==
  ASSUME NEW s \in PairSchedules, Realistic(s)
  PROVE  /\ Cycle(s) = Whole(s)
         /\ TxWindow(s) = [from |-> From(s), to |-> From(s) + s.tx]
         /\ Whole(s) \in Nat /\ From(s) \in Nat
         /\ From(s) + s.tx <= Whole(s) /\ Whole(s) > 1
BY ScheduleType, U64MaxAssumption
   DEF Realistic, Cycle, TxWindow, saturating_add, saturating_mul, Whole, From

LEMMA Gate ==
  ASSUME NEW s \in PairSchedules, Realistic(s), NEW e \in Int
  PROVE  tx_allowed_at_elapsed(s, e) <=>
           /\ e >= s.delay
           /\ From(s) <= ((e - s.delay) % Whole(s))
           /\ ((e - s.delay) % Whole(s)) < From(s) + s.tx
<1>1. Whole(s) # 0
  BY NoSaturation
<1> QED
  BY <1>1, NoSaturation, ScheduleType DEF tx_allowed_at_elapsed, tdd_tx_allowed_at_elapsed

LEMMA MirrorSchedule ==
  ASSUME NEW s \in PairSchedules, Realistic(s)
  PROVE  /\ Mirror(s) \in PairSchedules /\ Realistic(Mirror(s))
         /\ Mirror(s).tx = s.rx /\ Mirror(s).delay = s.delay
         /\ Whole(Mirror(s)) = Whole(s)
         /\ From(Mirror(s)) = IF s.first = "Rx" THEN 0 ELSE s.tx + s.guard
<1>1. s \in [mode : {"Tdd"}, first : {"Rx", "Tx"}, rx : 0 .. WindowMax, tx : 0 .. WindowMax,
             guard : 0 .. GuardMax, delay : 0 .. 1]
  BY DEF PairSchedules
<1>2. /\ Mirror(s).mode = "Tdd" /\ Mirror(s).first = (IF s.first = "Rx" THEN "Tx" ELSE "Rx")
      /\ Mirror(s).rx = s.tx /\ Mirror(s).tx = s.rx
      /\ Mirror(s).guard = s.guard /\ Mirror(s).delay = s.delay
  BY <1>1 DEF Mirror
<1>3. Mirror(s) \in PairSchedules
  BY <1>1, <1>2, ScheduleType DEF Mirror, PairSchedules, Validate
<1> HIDE DEF Mirror
<1> QED BY <1>1, <1>2, <1>3, ScheduleType DEF Realistic, Whole, From

(* A pair of radios as the run drives it. *)
IsPair(p) ==
  /\ p.sched \in PairSchedules
  /\ p.skew \in Int /\ -p.sched.guard <= p.skew /\ p.skew <= p.sched.guard
  /\ p.t \in Nat /\ p.lastTx \in Nat

(* The offsets of the two radios in the cycle differ by the skew, up to a whole  *)
(* cycle; their windows are more than a guard apart.                             *)
LEMMA NeverBoth ==
  ASSUME NEW p, IsPair(p), Realistic(p.sched)
  PROVE  NeverBothTransmit(p)
<1> DEFINE s == p.sched
<1>1. /\ s \in PairSchedules /\ Realistic(s) /\ p.t \in Int
      /\ p.skew \in Int /\ -s.guard <= p.skew /\ p.skew <= s.guard
  BY DEF IsPair
<1>2. PICK rx \in Nat, tx \in Nat, g \in Nat, d \in Nat, c \in Nat, f \in Nat :
        /\ rx = s.rx /\ tx = s.tx /\ g = s.guard /\ d = s.delay /\ c = Whole(s) /\ f = From(s)
        /\ rx > 0 /\ tx > 0
  BY <1>1, ScheduleType, NoSaturation
<1>3. PICK k \in Int, e \in Int : k = p.skew /\ e = p.t
  BY <1>1
<1>4. c = rx + tx + 2 * g /\ -g <= k /\ k <= g /\ c > 0
  BY <1>1, <1>2, <1>3 DEF Whole
<1>5. SUFFICES ASSUME tx_allowed_at_elapsed(s, e), tx_allowed_at_elapsed(Mirror(s), e - k)
               PROVE  FALSE
  BY <1>3 DEF NeverBothTransmit
<1>6. PICK x \in Int, y \in Int : x = e - d /\ y = (e - k) - d
  BY <1>2, <1>3
<1>7. f <= (x % c) /\ (x % c) < f + tx
  BY <1>1, <1>2, <1>3, <1>5, <1>6, Gate
<1>8. PICK f2 \in Nat : /\ f2 = From(Mirror(s)) /\ f2 <= (y % c) /\ (y % c) < f2 + rx
  <2>1. e - k \in Int
    BY <1>3
  <2>2. /\ Mirror(s) \in PairSchedules /\ Realistic(Mirror(s))
        /\ Mirror(s).tx = rx /\ Mirror(s).delay = d /\ Whole(Mirror(s)) = c
    BY <1>1, <1>2, MirrorSchedule
  <2>3. From(Mirror(s)) \in Nat
    BY <2>2, NoSaturation
  <2> QED BY <1>5, <1>6, <2>1, <2>2, <2>3, Gate
<1>9. PICK a \in 0..c - 1, b \in 0..c - 1 : a = (x % c) /\ b = (y % c)
  BY <1>2, <1>4, <1>6, ModRange
<1>10. a - b = k \/ a - b = k + c \/ a - b = k - c
  <2>1. CASE k >= 0
    <3>1. k \in 0..c /\ x = y + k
      BY <1>2, <1>3, <1>4, <1>6, <2>1
    <3>2. ((y + k) % c) = (IF (y % c) + k < c THEN (y % c) + k ELSE (y % c) + k - c)
      BY <1>2, <1>4, <1>6, <3>1, ModWrap
    <3> QED BY <1>2, <1>3, <1>4, <1>9, <3>1, <3>2
  <2>2. CASE k < 0
    <3>1. PICK j \in 0..c : j = -k /\ y = x + j
      BY <1>2, <1>3, <1>4, <1>6, <2>2
    <3>2. ((x + j) % c) = (IF (x % c) + j < c THEN (x % c) + j ELSE (x % c) + j - c)
      BY <1>2, <1>4, <1>6, <3>1, ModWrap
    <3> QED BY <1>2, <1>3, <1>4, <1>9, <3>1, <3>2
  <2> QED BY <1>3, <2>1, <2>2
<1>11. CASE s.first = "Rx"
  <2>1. f = rx + g /\ f2 = 0
    BY <1>1, <1>2, <1>8, <1>11, MirrorSchedule DEF From
  <2> QED BY <1>2, <1>3, <1>4, <1>7, <1>8, <1>9, <1>10, <2>1
<1>12. CASE s.first # "Rx"
  <2>1. f = 0 /\ f2 = tx + g
    BY <1>1, <1>2, <1>8, <1>12, MirrorSchedule DEF From
  <2> QED BY <1>2, <1>3, <1>4, <1>7, <1>8, <1>9, <1>10, <2>1
<1> QED BY <1>11, <1>12

(* Cycle offsets of the instants from x on: each offset once per cycle. *)
LEMMA OffsetOnce ==
  ASSUME NEW x \in Int, NEW c \in Nat, c > 0, NEW o \in 0..c - 1
  PROVE  \E j \in 0..c - 1 : ((x + j) % c) = o
<1>1. PICK a \in 0..c - 1 : a = (x % c)
  BY ModRange
<1>2. PICK j \in 0..c - 1 : j = (IF o >= a THEN o - a ELSE o - a + c)
  <2>1. (IF o >= a THEN o - a ELSE o - a + c) \in 0..c - 1
    BY <1>1
  <2> QED BY <2>1
<1>3. j \in 0..c
  BY <1>2
<1>4. ((x + j) % c) = (IF (x % c) + j < c THEN (x % c) + j ELSE (x % c) + j - c)
  BY <1>3, ModWrap
<1> QED BY <1>1, <1>2, <1>4

LEMMA OffsetDiffers ==
  ASSUME NEW x \in Int, NEW c \in Nat, c > 0, NEW i \in 0..c - 1, NEW j \in 0..c - 1,
         ((x + i) % c) = ((x + j) % c)
  PROVE  i = j
<1>1. PICK a \in 0..c - 1 : a = (x % c)
  BY ModRange
<1>2. i \in 0..c /\ j \in 0..c
  OBVIOUS
<1>3. ((x + i) % c) = (IF a + i < c THEN a + i ELSE a + i - c)
  BY <1>1, <1>2, ModWrap
<1>4. ((x + j) % c) = (IF a + j < c THEN a + j ELSE a + j - c)
  BY <1>1, <1>2, ModWrap
<1> QED BY <1>1, <1>3, <1>4

(* The TX instants of a cycle correspond one to one to the offsets of the window. *)
LEMMA TxShare ==
  ASSUME NEW p, IsPair(p), Realistic(p.sched)
  PROVE  TxShareExact(p)
<1> DEFINE s == p.sched
<1>1. s \in PairSchedules /\ Realistic(s) /\ p.t \in Nat
  BY DEF IsPair
<1>2. PICK tx \in Nat, d \in Nat, c \in Nat, f \in Nat, t \in Nat :
        /\ tx = s.tx /\ d = s.delay /\ c = Whole(s) /\ f = From(s) /\ t = p.t
        /\ tx > 0 /\ f + tx <= c /\ Cycle(s) = c /\ c > 0
  <2>1. s.tx \in Nat /\ s.tx > 0 /\ s.delay \in Nat
    BY <1>1, ScheduleType
  <2>2. Cycle(s) = Whole(s) /\ Whole(s) \in Nat /\ From(s) \in Nat /\ From(s) + s.tx <= Whole(s) /\ Whole(s) > 1
    BY <1>1, NoSaturation
  <2> QED BY <1>1, <2>1, <2>2
<1>3. SUFFICES ASSUME t >= d
               PROVE  Cardinality({e \in t .. t + c - 1 : tx_allowed_at_elapsed(s, e)}) = tx
  BY <1>2 DEF TxShareExact
<1> DEFINE S == {e \in t .. t + c - 1 : tx_allowed_at_elapsed(s, e)}
           O == f .. f + tx - 1
           h == [e \in S |-> (e - d) % c]
<1>4. \A e \in t .. t + c - 1 : e \in S <=> ((e - d) % c) \in O
  <2> TAKE e \in t .. t + c - 1
  <2>1. e \in Int /\ e >= d
    BY <1>3
  <2>2. ((e - d) % c) \in 0..c - 1
    BY <1>2, <2>1, ModRange
  <2>3. tx_allowed_at_elapsed(s, e) <=> f <= ((e - d) % c) /\ ((e - d) % c) < f + tx
    BY <1>1, <1>2, <2>1, Gate
  <2> QED BY <1>2, <2>2, <2>3
<1>5. PICK x \in Int : x = t - d
  OBVIOUS
<1> HIDE DEF S
<1>6. S \subseteq t .. t + c - 1
  BY DEF S
<1>7. ASSUME NEW e1 \in S, NEW e2 \in S, h[e1] = h[e2] PROVE e1 = e2
  <2>1. PICK i \in 0..c - 1, j \in 0..c - 1 : e1 = t + i /\ e2 = t + j
    <3>1. e1 - t \in 0..c - 1 /\ e2 - t \in 0..c - 1 /\ e1 = t + (e1 - t) /\ e2 = t + (e2 - t)
      BY <1>6, <1>7
    <3> QED BY <3>1
  <2>2. e1 - d = x + i /\ e2 - d = x + j
    BY <1>5, <2>1
  <2>3. ((x + i) % c) = ((x + j) % c)
    BY <1>7, <2>2
  <2>4. i = j
    BY <1>2, <1>5, <2>1, <2>3, OffsetDiffers
  <2> QED BY <2>1, <2>4
<1>8. ASSUME NEW o \in O PROVE \E e \in S : h[e] = o
  <2>1. o \in 0..c - 1
    BY <1>2, <1>8
  <2>2. PICK j \in 0..c - 1 : ((x + j) % c) = o
    BY <1>2, <1>5, <2>1, OffsetOnce
  <2>3. t + j \in t .. t + c - 1 /\ (t + j) - d = x + j
    BY <1>5, <2>2
  <2>4. t + j \in S
    BY <1>4, <2>2, <2>3
  <2> QED BY <2>2, <2>3, <2>4
<1>9. h \in [S -> O]
  BY <1>4, <1>6
<1>10. h \in Bijection(S, O)
  <2> HIDE DEF h, O
  <2> QED BY <1>7, <1>8, <1>9 DEF Bijection, Injection, Surjection, IsInjective
<1>11. IsFiniteSet(S)
  <2>1. IsFiniteSet(t .. t + c - 1)
    BY FS_Interval
  <2> QED BY <1>6, <2>1, FS_Subset
<1>12. Cardinality(O) = tx
  <2>1. f \in Int /\ f + tx - 1 \in Int
    OBVIOUS
  <2>2. Cardinality(O) = (IF f > f + tx - 1 THEN 0 ELSE (f + tx - 1) - f + 1)
    BY <2>1, FS_Interval
  <2> QED BY <1>2, <2>2
<1>13. Cardinality(S) = Cardinality(O)
  <2> HIDE DEF h, O
  <2> QED BY <1>10, <1>11, FS_Bijection DEF ExistsBijection
<1> QED BY <1>12, <1>13 DEF S

-----------------------------------------------------------------------------
(* Iterations no further apart than a TX window is long. *)

(* Instants at which a TX window opens. *)
Opens(s, a) == a \in Nat /\ a >= s.delay /\ ((a - s.delay) % Whole(s)) = From(s)

(* No window has opened since TX was last allowed. *)
NoneMissed(p) == \A a \in Nat : Opens(p.sched, a) /\ a > p.lastTx => p.t < a

PairInv(p) ==
  /\ IsPair(p)
  /\ p.lastTx >= p.sched.delay
  /\ Realistic(p.sched) /\ MaxGap <= p.sched.tx => NoneMissed(p)

(* A window opens within a cycle of the last one in which TX was allowed. *)
LEMMA ServedFromInv ==
  ASSUME NEW p, PairInv(p), Realistic(p.sched)
  PROVE  WindowServed(p)
<1> DEFINE s == p.sched
<1>1. s \in PairSchedules /\ Realistic(s) /\ p.t \in Nat /\ p.lastTx \in Nat /\ p.lastTx >= s.delay
  BY DEF PairInv, IsPair
<1>2. PICK d \in Nat, c \in Nat, f \in Nat, l \in Nat :
        /\ d = s.delay /\ c = Whole(s) /\ f = From(s) /\ l = p.lastTx
        /\ f < c /\ Cycle(s) = c /\ c > 0 /\ l >= d
  BY <1>1, ScheduleType, NoSaturation
<1>3. SUFFICES ASSUME MaxGap <= s.tx
               PROVE  p.t - l <= c
  BY <1>2 DEF WindowServed
<1>4. NoneMissed(p)
  BY <1>3 DEF PairInv
<1>5. PICK x \in Int : x = (l - d) + 1
  OBVIOUS
<1>f. f \in 0..c - 1
  BY <1>2
<1>6. PICK j \in 0..c - 1 : ((x + j) % c) = f
  BY <1>2, <1>5, <1>f, OffsetOnce
<1>7. PICK a \in Nat : a = l + 1 + j
  BY <1>6
<1>8. a - d = x + j
  BY <1>5, <1>7
<1>9. Opens(s, a)
  BY <1>2, <1>6, <1>7, <1>8 DEF Opens
<1>10. p.t < a
  BY <1>2, <1>4, <1>7, <1>9 DEF NoneMissed
<1> QED BY <1>1, <1>2, <1>7, <1>10

(* An iteration that steps past the opening of a window lands inside it. *)
LEMMA IterateKeeps ==
  ASSUME NEW p, PairInv(p), NEW gap \in 1..MaxGap,
         p = [sched |-> p.sched, skew |-> p.skew, t |-> p.t, lastTx |-> p.lastTx]
  PROVE  /\ PairInv(Iterated(p, gap))
         /\ Iterated(p, gap) = [sched |-> p.sched, skew |-> p.skew, t |-> Iterated(p, gap).t,
                                lastTx |-> Iterated(p, gap).lastTx]
<1> DEFINE s == p.sched
           q == Iterated(p, gap)
<1>1. s \in PairSchedules /\ p.t \in Nat /\ p.lastTx \in Nat /\ p.lastTx >= s.delay
  BY DEF PairInv, IsPair
<1>2. s.delay \in Nat /\ s.tx \in Nat
  BY <1>1, ScheduleType
<1>3. gap \in Nat /\ gap > 0 /\ gap <= MaxGap /\ MaxGap \in Nat
  BY PairAssumption
<1>4. PICK now \in Nat : now = p.t + gap
  BY <1>1, <1>3
<1>5. q = [sched |-> s, skew |-> p.skew, t |-> now,
           lastTx |-> IF tx_allowed_at_elapsed(s, now) THEN now ELSE p.lastTx]
  <2> DEFINE l == IF tx_allowed_at_elapsed(s, now) THEN now ELSE p.lastTx
  <2>1. q = [p EXCEPT !.t = now, !.lastTx = l]
    BY <1>4 DEF Iterated
  <2> HIDE DEF l, s, q
  <2>2. q = [sched |-> p.sched, skew |-> p.skew, t |-> now, lastTx |-> l]
    BY <2>1
  <2> QED BY <2>2 DEF l, s
<1> HIDE DEF q
<1>6. q.sched = s /\ q.skew = p.skew /\ q.t = now
  BY <1>5
<1>7. q.lastTx = IF tx_allowed_at_elapsed(s, now) THEN now ELSE p.lastTx
  BY <1>5
<1>8. IsPair(q)
  BY <1>1, <1>6, <1>7 DEF PairInv, IsPair
<1>9. tx_allowed_at_elapsed(s, now) => now >= s.delay
  BY <1>1, ScheduleType DEF tx_allowed_at_elapsed, tdd_tx_allowed_at_elapsed
<1>10. q.lastTx >= s.delay
  BY <1>1, <1>7, <1>9
<1>11. ASSUME Realistic(s), MaxGap <= s.tx, NEW a \in Nat, Opens(s, a), a > q.lastTx
       PROVE  now < a
  <2>1. CASE tx_allowed_at_elapsed(s, now)
    BY <1>7, <1>11, <2>1
  <2>2. CASE ~tx_allowed_at_elapsed(s, now)
    <3>1. p.t < a
      BY <1>7, <1>11, <2>2 DEF PairInv, NoneMissed
    <3>2. SUFFICES ASSUME now >= a PROVE FALSE
      BY <1>4
    <3>3. PICK d \in Nat, c \in Nat, f \in Nat, tx \in Nat :
            /\ d = s.delay /\ c = Whole(s) /\ f = From(s) /\ tx = s.tx /\ f + tx <= c /\ c > 0
      BY <1>1, <1>11, ScheduleType, NoSaturation
    <3>4. PICK x \in Int, j \in 0..c : x = a - d /\ j = now - a /\ j < tx
      BY <1>1, <1>3, <1>4, <1>11, <3>1, <3>2, <3>3
    <3>5. (x % c) = f /\ a >= d
      BY <1>11, <3>3, <3>4 DEF Opens
    <3>6. ((x + j) % c) = (IF (x % c) + j < c THEN (x % c) + j ELSE (x % c) + j - c)
      BY <3>3, <3>4, ModWrap
    <3>7. ((x + j) % c) = f + j
      BY <3>3, <3>4, <3>5, <3>6
    <3>8. now - d = x + j /\ now >= d /\ now \in Int
      BY <1>4, <3>2, <3>3, <3>4, <3>5
    <3>9. tx_allowed_at_elapsed(s, now)
      BY <1>1, <1>11, <3>3, <3>4, <3>7, <3>8, Gate
    <3> QED BY <2>2, <3>9
  <2> QED BY <2>1, <2>2
<1>12. Realistic(q.sched) /\ MaxGap <= q.sched.tx => NoneMissed(q)
  BY <1>6, <1>11 DEF NoneMissed
<1>13. PairInv(q)
  BY <1>6, <1>8, <1>10, <1>12 DEF PairInv
<1> QED BY <1>5, <1>6, <1>7, <1>13 DEF q

-----------------------------------------------------------------------------
(* The inputs of the run. *)

Driven(p) ==
  /\ PairInv(p)
  /\ p = [sched |-> p.sched, skew |-> p.skew, t |-> p.t, lastTx |-> p.lastTx]

Inputs ==
  \/ input.kind = "none"
  \/ \E c \in Channels : input = [kind |-> "channel", channel |-> c]
  \/ \E bs \in SeqsTo(Blocks, MaxBlocks) : \E n \in 0..Len(Burnt(bs)) :
       input = [kind |-> "log", blocks |-> bs, length |-> n]
  \/ \E r \in SeqsTo(Records, MaxRecords), j \in Junk : \E b \in Cuts(r) :
       input = [kind |-> "transfer", records |-> r, junk |-> j, bytes |-> b]
  \/ \E cs \in SeqsTo(Values, MaxCands) : input = [kind |-> "cands", cands |-> cs]
  \/ \E p : input = [kind |-> "schedule", pair |-> p] /\ Driven(p)

LEMMA PairsDriven == \A p \in Pairs : Driven(p)
<1> SUFFICES ASSUME NEW p \in Pairs PROVE Driven(p)
  OBVIOUS
<1>1. PICK s \in PairSchedules :
        \E k \in -s.guard .. s.guard : p = [sched |-> s, skew |-> k, t |-> 0, lastTx |-> s.delay]
  BY DEF Pairs
<1>k. PICK k \in -s.guard .. s.guard : p = [sched |-> s, skew |-> k, t |-> 0, lastTx |-> s.delay]
  BY <1>1
<1>2. s.guard \in Nat /\ s.delay \in Nat
  BY ScheduleType
<1>3. p.sched = s /\ p.skew = k /\ p.t = 0 /\ p.lastTx = s.delay
  BY <1>k
<1>4. IsPair(p)
  BY <1>1, <1>k, <1>2, <1>3 DEF IsPair
<1>5. NoneMissed(p)
  BY <1>2, <1>3 DEF NoneMissed
<1> QED BY <1>k, <1>2, <1>3, <1>4, <1>5 DEF Driven, PairInv

(* Every step chooses an input or follows a schedule by one iteration. *)
LEMMA InputsStep == Inputs /\ [Next]_input => Inputs'
<1> SUFFICES ASSUME Inputs, [Next]_input PROVE Inputs'
  OBVIOUS
<1>1. CASE UNCHANGED input
  BY <1>1 DEF Inputs
<1>2. CASE ChooseChannel
  BY <1>2 DEF ChooseChannel, Inputs
<1>3. CASE ChooseTransfer
  BY <1>3 DEF ChooseTransfer, Inputs
<1>4. CASE ChooseLog
  BY <1>4 DEF ChooseLog, Inputs
<1>5. CASE ChooseCands
  BY <1>5 DEF ChooseCands, Inputs
<1>6. CASE ChooseSchedule
  BY <1>6, PairsDriven DEF ChooseSchedule, Inputs
<1>7. CASE Iterate
  <2>1. PICK gap \in 1..MaxGap : input' = [input EXCEPT !.pair = Iterated(@, gap)]
    BY <1>7 DEF Iterate
  <2>2. PICK p : input = [kind |-> "schedule", pair |-> p] /\ Driven(p)
    BY <1>7 DEF Iterate, Inputs
  <2>3. input' = [kind |-> "schedule", pair |-> Iterated(p, gap)]
    BY <2>1, <2>2
  <2>4. PICK q : q = Iterated(p, gap)
    OBVIOUS
  <2>5. Driven(q)
    <3>1. q.sched = p.sched /\ q.skew = p.skew
      BY <2>4 DEF Iterated
    <3> QED BY <2>2, <2>4, <3>1, IterateKeeps DEF Driven
  <2> QED BY <2>3, <2>4, <2>5 DEF Inputs
<1> QED BY <1>1, <1>2, <1>3, <1>4, <1>5, <1>6, <1>7 DEF Next

LEMMA InputsAlways == Spec => []Inputs
<1>1. Init => Inputs
  BY DEF Init, Inputs
<1> QED BY <1>1, InputsStep, PTL DEF Spec

LEMMA ScheduledPair ==
  ASSUME Inputs, Scheduled
  PROVE  PairInv(input.pair) /\ Realistic(input.pair.sched)
BY DEF Inputs, Scheduled, Driven

(* tdd_tx_allowed_at_elapsed divides the cycle: two mirrored radios whose loops   *)
(* started at most a guard apart are never both allowed to transmit, and each is  *)
(* for exactly its TX window in every cycle, for every schedule that does not      *)
(* saturate.                                                                       *)
THEOREM DividesWindows == Spec => []WindowsDivided
<1>1. Inputs => WindowsDivided
  <2> SUFFICES ASSUME Inputs, Scheduled
               PROVE  NeverBothTransmit(input.pair) /\ TxShareExact(input.pair)
    BY DEF WindowsDivided
  <2>1. PairInv(input.pair) /\ Realistic(input.pair.sched)
    BY ScheduledPair
  <2>2. IsPair(input.pair)
    BY <2>1 DEF PairInv
  <2> QED BY <2>1, <2>2, NeverBoth, TxShare
<1> QED BY <1>1, InputsAlways, PTL

(* A bridge loop whose iterations start no further apart than the TX window is     *)
(* long finds TX allowed at least once per cycle, for every schedule.              *)
THEOREM ServesWindows == Spec => []EveryWindowServed
<1>1. Inputs => EveryWindowServed
  <2> SUFFICES ASSUME Inputs, Scheduled
               PROVE  WindowServed(input.pair)
    BY DEF EveryWindowServed
  <2>1. PairInv(input.pair) /\ Realistic(input.pair.sched)
    BY ScheduledPair
  <2> QED BY <2>1, ServedFromInv
<1> QED BY <1>1, InputsAlways, PTL
-----------------------------------------------------------------------------
(* I/Q candidates, for any sequence of pairs of 11-bit components. *)

Component == 0..2047

LEMMA FieldIs == Field = 2048 /\ Field \div 2 = 1024
BY DEF Field

LEMMA SignedIs ==
  ASSUME NEW c \in Component
  PROVE  ToSigned(c) = IF c >= 1024 THEN c - 2048 ELSE c
<1>1. (c % 2048) = c
  BY DEF Component
<1> QED BY <1>1, FieldIs DEF ToSigned, Component

LEMMA SignedRange ==
  ASSUME NEW c \in Component
  PROVE  ToSigned(c) \in Int /\ -1024 <= ToSigned(c) /\ ToSigned(c) < 1024
<1>1. c \in Int /\ 0 <= c /\ c < 2048
  BY DEF Component
<1>2. ToSigned(c) = (IF c >= 1024 THEN c - 2048 ELSE c)
  BY SignedIs
<1> QED BY <1>1, <1>2

(* A distance on the number line, seen in the field. *)
LEMMA ApartIs ==
  ASSUME NEW c \in Component, NEW e \in Component, NEW d \in 0..3
  PROVE  Apart(c, e, d) <=> /\ ToSigned(c) - ToSigned(e) <= d
                            /\ ToSigned(e) - ToSigned(c) <= d
<1>1. /\ c \in Int /\ 0 <= c /\ c < 2048 /\ e \in Int /\ 0 <= e /\ e < 2048
  BY DEF Component
<1>2. ToSigned(c) = (IF c >= 1024 THEN c - 2048 ELSE c) /\ ToSigned(e) = (IF e >= 1024 THEN e - 2048 ELSE e)
  BY SignedIs
<1>3. Apart(c, e, d) <=> \E k \in -d..d : ((c + k) % 2048) = e /\ ((c < 1024) = (c + k < 1024))
  BY FieldIs DEF Apart
<1>4. \A k \in -d..d :
        ((c + k) % 2048) = (IF c + k < 0 THEN c + k + 2048
                            ELSE IF c + k >= 2048 THEN c + k - 2048 ELSE c + k)
  BY <1>1
<1>5. ASSUME NEW k \in -d..d, ((c + k) % 2048) = e, (c < 1024) = (c + k < 1024)
      PROVE  ToSigned(c) - ToSigned(e) <= d /\ ToSigned(e) - ToSigned(c) <= d
  BY <1>1, <1>2, <1>4, <1>5
<1>6. ASSUME ToSigned(c) - ToSigned(e) <= d, ToSigned(e) - ToSigned(c) <= d
      PROVE  \E k \in -d..d : ((c + k) % 2048) = e /\ ((c < 1024) = (c + k < 1024))
  <2>1. PICK k \in -d..d : k = ToSigned(e) - ToSigned(c)
    <3>1. ToSigned(e) - ToSigned(c) \in -d..d
      BY <1>6, SignedRange
    <3> QED BY <3>1
  <2>2. ((c + k) % 2048) = e
    BY <1>1, <1>2, <1>4, <2>1
  <2>3. (c < 1024) = (c + k < 1024)
    BY <1>1, <1>2, <2>1
  <2> QED BY <2>1, <2>2, <2>3
<1> QED BY <1>3, <1>5, <1>6

LEMMA CloseIs ==
  ASSUME NEW c \in Component, NEW e \in Component
  PROVE  Close(c, e) <=> Apart(c, e, 3)
<1>1. ToSigned(c) \in Int /\ ToSigned(e) \in Int
  BY SignedRange
<1>2. 3 \in 0..3
  OBVIOUS
<1>3. Apart(c, e, 3) <=> /\ ToSigned(c) - ToSigned(e) <= 3
                         /\ ToSigned(e) - ToSigned(c) <= 3
  BY <1>2, ApartIs
<1> QED BY <1>1, <1>3 DEF Close, Abs

(* The mean of two close components is one, within two of both: truncation      *)
(* moves it by a half at most.                                                   *)
LEMMA MeanNear ==
  ASSUME NEW c \in Component, NEW e \in Component, Close(c, e)
  PROVE  Mean(c, e) \in Component /\ Apart(Mean(c, e), c, 2) /\ Apart(Mean(c, e), e, 2)
<1>1. PICK a \in Int, b \in Int : a = ToSigned(c) /\ b = ToSigned(e)
  BY SignedRange
<1>2. -1024 <= a /\ a < 1024 /\ -1024 <= b /\ b < 1024
  BY <1>1, SignedRange
<1>3. a - b <= 3 /\ b - a <= 3
  BY <1>1 DEF Close, Abs
<1>4. PICK m \in Int : m = Half(a + b)
  BY DEF Half
<1>5. 2 * m <= a + b + 1 /\ a + b - 1 <= 2 * m
  BY <1>4 DEF Half
<1>6. -1024 <= m /\ m < 1024 /\ m - a <= 2 /\ a - m <= 2 /\ m - b <= 2 /\ b - m <= 2
  BY <1>2, <1>3, <1>5
<1>7. Mean(c, e) = (m % 2048)
  BY <1>1, <1>4, FieldIs DEF Mean, ToComponent
<1>8. PICK v \in Component : v = Mean(c, e) /\ ToSigned(v) = m
  <2>1. (m % 2048) = IF m >= 0 THEN m ELSE m + 2048
    BY <1>6
  <2>2. (m % 2048) \in Component
    BY <1>6, <2>1 DEF Component
  <2>3. PICK v \in Component : v = (m % 2048)
    BY <2>2
  <2>4. ToSigned(v) = (IF v >= 1024 THEN v - 2048 ELSE v)
    BY SignedIs
  <2> QED BY <1>6, <1>7, <2>1, <2>3, <2>4
<1>9. 2 \in 0..3
  OBVIOUS
<1>10. Apart(v, c, 2)
  BY <1>1, <1>6, <1>8, <1>9, ApartIs
<1>11. Apart(v, e, 2)
  BY <1>1, <1>6, <1>8, <1>9, ApartIs
<1> QED BY <1>8, <1>10, <1>11

(* The two loops visit some agreeing pair first, if there is one. *)
LEMMA FirstPairIn ==
  ASSUME NEW P, P \subseteq Nat \X Nat, P # {}
  PROVE  FirstPair(P) \in P
<1> DEFINE A == {p[1] : p \in P}
<1>1. A \subseteq Nat /\ A # {}
  OBVIOUS
<1>2. PICK a \in A : \A x \in A : a <= x
  BY <1>1, LeastNat
<1> DEFINE Q == {p \in P : p[1] = a}
           B == {p[2] : p \in Q}
<1>3. B \subseteq Nat /\ B # {}
  BY <1>2
<1>4. PICK b \in B : \A x \in B : b <= x
  BY <1>3, LeastNat
<1>5. PICK p \in P : p[1] = a /\ p[2] = b
  BY <1>4
<1>6. ASSUME NEW q \in P PROVE p[1] < q[1] \/ (p[1] = q[1] /\ p[2] <= q[2])
  <2>1. q[1] \in A /\ a <= q[1] /\ a \in Nat /\ q[1] \in Nat
    BY <1>1, <1>2
  <2>2. CASE q[1] = a
    <3>1. q[2] \in B
      BY <2>2
    <3> QED BY <1>4, <1>5, <2>2, <3>1
  <2> QED BY <1>5, <2>1, <2>2
<1>7. \E r \in P : \A q \in P : r[1] < q[1] \/ (r[1] = q[1] /\ r[2] <= q[2])
  BY <1>6
<1> QED BY <1>7 DEF FirstPair

LEMMA AgreeIsNear ==
  ASSUME NEW cands \in Seq(Component \X Component)
  PROVE  AgreeingPairs(cands) = NearPairs(cands)
<1>1. ASSUME NEW p \in (1..Len(cands)) \X (1..Len(cands))
      PROVE  Agree(cands[p[1]], cands[p[2]]) <=>
               \A k \in 1..2 : Apart(cands[p[1]][k], cands[p[2]][k], 3)
  <2>1. PICK l \in Component \X Component, r \in Component \X Component :
          l = cands[p[1]] /\ r = cands[p[2]]
    BY <1>1
  <2>2. l[1] \in Component /\ l[2] \in Component /\ r[1] \in Component /\ r[2] \in Component
    BY <2>1
  <2>3. Close(l[1], r[1]) <=> Apart(l[1], r[1], 3)
    BY <2>2, CloseIs
  <2>4. Close(l[2], r[2]) <=> Apart(l[2], r[2], 3)
    BY <2>2, CloseIs
  <2>5. (\A k \in 1..2 : Apart(l[k], r[k], 3)) <=> Apart(l[1], r[1], 3) /\ Apart(l[2], r[2], 3)
    <3>1. \A k \in 1..2 : k = 1 \/ k = 2
      OBVIOUS
    <3> QED BY <3>1
  <2> QED BY <2>1, <2>3, <2>4, <2>5 DEF Agree
<1> QED BY <1>1 DEF AgreeingPairs, NearPairs

(* What the RX fill makes of any component. *)
LEMMA RxFillSmall ==
  ASSUME NEW x \in Component, NEW y \in Component
  PROVE  LET f == RxFill(x, y) IN f[1] <= 273 /\ (f[2] <= 17 \/ f[2] >= 1024 - 17)
<1>0. x \in Int /\ 0 <= x /\ x < 2048 /\ y \in Int /\ 0 <= y /\ y < 2048
  BY DEF Component
<1>a. x \div 2 \in 0..1023
  BY <1>0
<1>b. y \div 2 \in 0..1023
  BY <1>0
<1>c. PICK sx \in 0..1023 : sx = x \div 2
  BY <1>a, Zenon
<1>d. PICK sy \in 0..1023 : sy = y \div 2
  BY <1>b, Zenon
<1>1. sx = x \div 2 /\ sy = y \div 2
  BY <1>c, <1>d
<1>2. (sx % 1024) = sx /\ (sy % 1024) = sy
  OBVIOUS
<1>3. RxFill(x, y) = IF sx >= 274 \/ sy \in 18..1006 THEN <<256, 0>> ELSE <<sx, sy>>
  BY <1>1, <1>2 DEF RxFill
<1>4. CASE sx >= 274 \/ sy \in 18..1006
  BY <1>3, <1>4
<1>5. CASE ~(sx >= 274 \/ sy \in 18..1006)
  BY <1>3, <1>5
<1> QED BY <1>4, <1>5

(* The selection is sound for every sequence of 11-bit candidates. *)
LEMMA SoundSelection ==
  ASSUME NEW cands \in Seq(Component \X Component)
  PROVE  SelectionSound(cands)
<1>1. CASE AgreeingPairs(cands) = {}
  BY <1>1, AgreeIsNear DEF SelectionSound, SelectCandidate
<1>2. CASE AgreeingPairs(cands) # {}
  <2>1. AgreeingPairs(cands) \subseteq Nat \X Nat
    BY DEF AgreeingPairs
  <2>2. PICK p \in AgreeingPairs(cands) : p = FirstPair(AgreeingPairs(cands))
    BY <1>2, <2>1, FirstPairIn
  <2>3. /\ p[1] \in 1..Len(cands) /\ p[2] \in 1..Len(cands)
        /\ Agree(cands[p[1]], cands[p[2]])
    BY <2>2 DEF AgreeingPairs
  <2>4. PICK l \in Component \X Component, r \in Component \X Component :
          l = cands[p[1]] /\ r = cands[p[2]]
    BY <2>3
  <2>5. l[1] \in Component /\ l[2] \in Component /\ r[1] \in Component /\ r[2] \in Component
        /\ Close(l[1], r[1]) /\ Close(l[2], r[2])
    BY <2>3, <2>4 DEF Agree
  <2>6. PICK a \in Component : a = Mean(l[1], r[1]) /\ Apart(a, l[1], 2) /\ Apart(a, r[1], 2)
    BY <2>5, MeanNear
  <2>7. PICK b \in Component : b = Mean(l[2], r[2]) /\ Apart(b, l[2], 2) /\ Apart(b, r[2], 2)
    BY <2>5, MeanNear
  <2>8. SelectCandidate(cands) = <<a, b>>
    BY <1>2, <2>2, <2>4, <2>6, <2>7 DEF SelectCandidate
  <2>9. PICK s : s = SelectCandidate(cands) /\ s # <<>> /\ s[1] = a /\ s[2] = b
    BY <2>8
  <2>10. \A k \in 1..2 : Apart(s[k], cands[p[1]][k], 2) /\ Apart(s[k], cands[p[2]][k], 2)
    <3>1. \A k \in 1..2 : k = 1 \/ k = 2
      OBVIOUS
    <3> QED BY <2>4, <2>6, <2>7, <2>9, <3>1
  <2>11. LET f == RxFill(s[1], s[2]) IN f[1] <= 273 /\ (f[2] <= 17 \/ f[2] >= 1024 - 17)
    BY <2>6, <2>7, <2>9, RxFillSmall
  <2>12. p \in NearPairs(cands) /\ NearPairs(cands) # {}
    BY <2>2, AgreeIsNear
  <2> QED BY <2>9, <2>10, <2>11, <2>12 DEF SelectionSound
<1> QED BY <1>1, <1>2

LEMMA ShortSequences ==
  ASSUME NEW S, NEW n, NEW s \in SeqsTo(S, n)
  PROVE  s \in Seq(S)
BY DEF SeqsTo

(* rtl8812au_iqk_select_candidate chooses exactly when two candidates are near,    *)
(* and its choice is near both, for any number of candidates.                      *)
THEOREM SelectsSoundly == Spec => []CandidatesSelected
<1>1. Inputs => CandidatesSelected
  <2> SUFFICES ASSUME Inputs, input.kind = "cands" PROVE SelectionSound(input.cands)
    BY DEF CandidatesSelected
  <2>1. PICK cs \in SeqsTo(Values, MaxCands) : input = [kind |-> "cands", cands |-> cs]
    BY DEF Inputs
  <2>2. Values \subseteq Component \X Component
    BY DEF Values, Component
  <2>3. cs \in Seq(Values)
    BY ShortSequences
  <2>4. cs \in Seq(Component \X Component)
    BY <2>2, <2>3
  <2> QED BY <2>1, <2>4, SoundSelection
<1> QED BY <1>1, InputsAlways, PTL
-----------------------------------------------------------------------------
(* The walk over a bulk transfer, for any records that the adapter aggregated. *)

Descriptors == [len : Nat, drvinfo : Nat, shift : Nat, crc : BOOLEAN]

LEMMA AlignUpIs ==
  ASSUME NEW n \in Nat
  PROVE  AlignUp(n) \in Nat /\ AlignUp(n) >= n /\ (n > 0 => AlignUp(n) >= 128)
         /\ \E q \in Nat : AlignUp(n) = 128 * q
<1>1. PICK q \in Nat : q = (n + 127) \div 128
  OBVIOUS
<1>2. AlignUp(n) = 128 * q
  BY <1>1 DEF AlignUp, RX_AGGREGATION_ALIGNMENT
<1>3. 128 * q >= n /\ (n > 0 => 128 * q >= 128)
  BY <1>1
<1> QED BY <1>2, <1>3

LEMMA AlignUpShift ==
  ASSUME NEW n \in Nat, NEW q \in Nat
  PROVE  AlignUp(128 * q + n) = 128 * q + AlignUp(n)
<1>1. (128 * q + n + 127) \div 128 = q + ((n + 127) \div 128)
  OBVIOUS
<1>2. (128 * q + n + 128) - 1 = 128 * q + n + 127 /\ (n + 128) - 1 = n + 127
  OBVIOUS
<1> QED BY <1>1, <1>2 DEF AlignUp, RX_AGGREGATION_ALIGNMENT

LEMMA DataEndIs ==
  ASSUME NEW d \in Descriptors
  PROVE  DataEnd(d) \in Nat /\ DataEnd(d) >= 24
BY DEF Descriptors, DataEnd, RX_DESC_SIZE

(* A record with the padding behind it. *)
Slot(records, n) == AlignUp(DataEnd(records[n]))

LEMMA SlotIs ==
  ASSUME NEW records \in Seq(Descriptors), NEW n \in 1..Len(records)
  PROVE  /\ Slot(records, n) \in Nat /\ DataEnd(records[n]) \in Nat
         /\ DataEnd(records[n]) >= 24 /\ Slot(records, n) >= DataEnd(records[n])
<1>1. records[n] \in Descriptors
  OBVIOUS
<1>2. DataEnd(records[n]) \in Nat /\ DataEnd(records[n]) >= 24
  BY <1>1, DataEndIs
<1> QED BY <1>2, AlignUpIs DEF Slot

LEMMA StartsIs ==
  ASSUME NEW records \in Seq(Descriptors)
  PROVE  /\ Starts(records) \in [1..Len(records) + 1 -> Nat]
         /\ Starts(records)[1] = 0
         /\ \A n \in 1..Len(records) : Starts(records)[n + 1] = Starts(records)[n] + Slot(records, n)
<1> DEFINE L == Len(records)
           A(n) == AlignUp(DataEnd(records[n]))
           G == [p \in (1..L) \X Nat |-> p[2] + A(p[1])]
<1>0. L \in Nat
  OBVIOUS
<1>1. \A n \in 1..L : A(n) \in Nat
  BY SlotIs DEF Slot
<1>2. G \in [(1..L) \X Nat -> Nat] /\ \A n \in 1..L, x \in Nat : G[<<n, x>>] = x + A(n)
  BY <1>1
<1>3. PICK w : IsRecursion(w, L, Nat, 0, G)
  <2> HIDE DEF G, L
  <2> QED BY <1>0, <1>2, RecursionExists
<1> HIDE DEF G
<1>4. w \in [0..L -> Nat] /\ w[0] = 0 /\ \A n \in 1..L : w[n] = w[n - 1] + A(n)
  <2>1. ASSUME NEW n \in 1..L PROVE w[n] = w[n - 1] + A(n)
    <3>1. w[n - 1] \in Nat /\ w[n] = G[<<n, w[n - 1]>>]
      BY <1>0, <1>3 DEF IsRecursion
    <3> QED BY <1>2, <3>1
  <2> QED BY <1>3, <2>1 DEF IsRecursion
<1> DEFINE v == [n \in 1..L + 1 |-> w[n - 1]]
<1> HIDE DEF A
<1>5. v = [n \in 1..L + 1 |-> IF n = 1 THEN 0 ELSE v[n - 1] + A(n - 1)]
  <2>1. ASSUME NEW n \in 1..L + 1 PROVE v[n] = IF n = 1 THEN 0 ELSE v[n - 1] + A(n - 1)
    <3>1. CASE n = 1
      BY <1>0, <1>4, <3>1
    <3>2. CASE n # 1
      <4>1. PICK m \in 1..L : m = n - 1
        BY <1>0, <3>2
      <4>2. n = m + 1 /\ m \in 1..L + 1 /\ n \in 1..L + 1
        BY <1>0, <4>1
      <4>3. v[n] = w[m] /\ v[m] = w[m - 1]
        BY <4>1, <4>2
      <4> QED BY <1>4, <3>2, <4>1, <4>3
    <3> QED BY <3>1, <3>2
  <2>2. v = [n \in 1..L + 1 |-> v[n]]
    OBVIOUS
  <2> HIDE DEF v
  <2> QED BY <2>1, <2>2
<1> DEFINE f == Starts(records)
<1>6. f = CHOOSE g : g = [n \in 1..L + 1 |-> IF n = 1 THEN 0 ELSE g[n - 1] + A(n - 1)]
  BY DEF Starts, A
<1>7. f = [n \in 1..L + 1 |-> IF n = 1 THEN 0 ELSE f[n - 1] + A(n - 1)]
  <2> HIDE DEF f, v, L
  <2> QED BY <1>5, <1>6
<1> HIDE DEF f, v
<1>8. f[1] = 0
  BY <1>0, <1>7
<1>9. ASSUME NEW n \in 1..L PROVE f[n + 1] = f[n] + A(n)
  <2>1. PICK m \in 1..L + 1 : m = n + 1
    BY <1>0
  <2>2. m # 1 /\ m - 1 = n
    BY <1>0, <2>1
  <2> QED BY <1>7, <2>1, <2>2
<1>10. \A n \in 0..L : n + 1 \in 1..L + 1 /\ f[n + 1] \in Nat
  <2> DEFINE T == {n \in Nat : f[n + 1] \in Nat}
  <2>1. 0 \in T
    BY <1>8
  <2>2. ASSUME NEW n \in 0..L - 1, n \in T PROVE n + 1 \in T
    <3>1. PICK m \in 1..L : m = n + 1
      BY <1>0
    <3>2. f[m + 1] = f[m] + A(m) /\ A(m) \in Nat /\ f[m] \in Nat
      BY <1>1, <1>9, <2>2, <3>1
    <3>3. f[m + 1] \in Nat /\ m \in Nat
      BY <3>1, <3>2
    <3> QED BY <3>1, <3>3
  <2>3. \A n \in 0..L : n \in T
    <3> HIDE DEF T, L
    <3> QED BY <1>0, <2>1, <2>2, Reaches
  <2> QED BY <1>0, <2>3
<1>11. f \in [1..L + 1 -> Nat]
  <2>1. ASSUME NEW n \in 1..L + 1 PROVE f[n] \in Nat
    <3>1. PICK m \in 0..L : n = m + 1
      <4>1. n - 1 \in 0..L /\ n = (n - 1) + 1
        BY <1>0
      <4> QED BY <4>1
    <3> QED BY <1>10, <3>1
  <2>2. DOMAIN f = 1..L + 1 /\ f = [n \in DOMAIN f |-> f[n]]
    BY <1>7
  <2> QED BY <2>1, <2>2
<1> QED BY <1>8, <1>9, <1>11 DEF f, A, Slot

(* Records lie one behind the other. *)
LEMMA StartsGrow ==
  ASSUME NEW records \in Seq(Descriptors), NEW i \in 1..Len(records) + 1, NEW j \in 1..Len(records) + 1,
         i <= j
  PROVE  Starts(records)[i] <= Starts(records)[j]
<1> DEFINE f == Starts(records)
           L == Len(records)
           T == {m \in Nat : i + m <= L + 1 => f[i] <= f[i + m]}
<1>0. L \in Nat /\ f \in [1..L + 1 -> Nat]
  BY StartsIs
<1>1. 0 \in T
  BY <1>0
<1>2. ASSUME NEW m \in 0..L, m \in T PROVE m + 1 \in T
  <2> SUFFICES ASSUME i + (m + 1) <= L + 1 PROVE f[i] <= f[i + (m + 1)]
    BY <1>0
  <2>1. PICK n \in 1..L : n = i + m
    BY <1>0
  <2>2. f[n + 1] = f[n] + Slot(records, n) /\ Slot(records, n) \in Nat
    BY <2>1, StartsIs, SlotIs
  <2>3. n \in 1..L + 1 /\ n + 1 \in 1..L + 1 /\ n + 1 = i + (m + 1)
    BY <1>0, <2>1
  <2>4. f[i] <= f[n] /\ f[i] \in Nat /\ f[n] \in Nat
    BY <1>0, <1>2, <2>1, <2>3
  <2> HIDE DEF f
  <2>5. f[i] <= f[n + 1]
    BY <2>2, <2>4
  <2> QED BY <2>3, <2>5
<1>3. L + 1 \in Nat /\ \A m \in 0..(L + 1) - 1 : m \in 0..L
  BY <1>0
<1>4. \A m \in 0..L + 1 : m \in T
  <2> HIDE DEF T, L
  <2>1. PICK k \in Nat : k = L + 1
    BY <1>3
  <2>2. \A m \in 0..k - 1 : m \in T => m + 1 \in T
    BY <1>2, <1>3, <2>1
  <2>3. \A m \in 0..k : m \in T
    BY <1>1, <2>2, Reaches
  <2> QED BY <2>1, <2>3
<1>5. PICK m \in 0..L + 1 : m = j - i
  BY <1>0
<1>6. i + m = j /\ j <= L + 1
  BY <1>0, <1>5
<1>7. i + m <= L + 1 => f[i] <= f[i + m]
  BY <1>4, <1>5
<1> QED BY <1>6, <1>7
(* What the walk finds at the offset of a record. *)
LEMMA SeenAtStart ==
  ASSUME NEW records \in Seq(Descriptors), NEW junk, NEW n \in 1..Len(records)
  PROVE  Seen(records, junk, Starts(records)[n]) = records[n]
<1> DEFINE f == Starts(records)
           L == Len(records)
<1>0. L \in Nat /\ f \in [1..L + 1 -> Nat]
  BY StartsIs
<1>1. ASSUME NEW i \in 1..L, NEW j \in 1..L, i < j PROVE f[i] # f[j]
  <2>1. PICK m \in 1..L + 1 : m = i + 1
    BY <1>0
  <2>2. f[m] <= f[j]
    <3>1. m <= j /\ j \in 1..L + 1
      BY <1>0, <1>1, <2>1
    <3> QED BY <2>1, <3>1, StartsGrow
  <2>3. f[m] = f[i] + Slot(records, i)
    BY <2>1, StartsIs
  <2>4. Slot(records, i) \in Nat /\ Slot(records, i) >= 24
    BY SlotIs
  <2>5. f[i] \in Nat /\ f[j] \in Nat
    BY <1>0
  <2> HIDE DEF f
  <2> QED BY <2>2, <2>3, <2>4, <2>5
<1>2. RecordAt(records, f[n]) = {n}
  <2>1. ASSUME NEW k \in 1..L, f[k] = f[n] PROVE k = n
    <3>1. ~(k < n) /\ ~(n < k)
      BY <1>1, <2>1
    <3> QED BY <3>1
  <2> QED BY <2>1 DEF RecordAt
<1>3. (CHOOSE k \in {n} : TRUE) = n
  OBVIOUS
<1> QED BY <1>2, <1>3 DEF Seen

LEMMA SeenType ==
  ASSUME NEW records \in Seq(Descriptors), NEW junk \in Descriptors, NEW offset
  PROVE  Seen(records, junk, offset) \in Descriptors
<1>1. CASE RecordAt(records, offset) = {}
  BY <1>1 DEF Seen
<1>2. CASE RecordAt(records, offset) # {}
  <2>1. PICK n : n = CHOOSE k \in RecordAt(records, offset) : TRUE
    OBVIOUS
  <2>2. n \in RecordAt(records, offset)
    BY <1>2, <2>1
  <2>3. n \in 1..Len(records)
    BY <2>2 DEF RecordAt
  <2> QED BY <1>2, <2>1, <2>3 DEF Seen
<1> QED BY <1>1, <1>2

Outcomes == {"NeedMoreData", "Drop", "Frame"}

LEMMA ParseIs ==
  ASSUME NEW d \in Descriptors, NEW remaining \in Int
  PROVE  /\ Parse(d, remaining).outcome \in Outcomes
         /\ Parse(d, remaining).consumed \in Nat
         /\ Parse(d, remaining).consumed # 0 => Parse(d, remaining).consumed >= 24
<1>1. DataEnd(d) \in Nat /\ DataEnd(d) >= 24
  BY DataEndIs
<1>2. Consumed(DataEnd(d)) \in Nat /\ Consumed(DataEnd(d)) >= 24
  BY <1>1, AlignUpIs DEF Consumed
<1> QED BY <1>2 DEF Parse, Outcomes, RX_DESC_SIZE

(* The four cases of parse_rx_packet. *)
LEMMA ParseCases ==
  ASSUME NEW d \in Descriptors, NEW remaining \in Int
  PROVE  /\ remaining < 24 => Parse(d, remaining) = [outcome |-> "NeedMoreData", consumed |-> 0]
         /\ remaining >= 24 /\ BadLength(d) => Parse(d, remaining) = [outcome |-> "Drop", consumed |-> 24]
         /\ remaining >= 24 /\ ~BadLength(d) /\ DataEnd(d) > remaining =>
              Parse(d, remaining) = [outcome |-> "NeedMoreData", consumed |-> 0]
         /\ remaining >= 24 /\ ~BadLength(d) /\ DataEnd(d) <= remaining =>
              Parse(d, remaining) = [outcome |-> IF Good(d) THEN "Frame" ELSE "Drop",
                                     consumed |-> AlignUp(DataEnd(d))]
<1>1. DataEnd(d) \in Nat
  BY DataEndIs
<1>2. d.len \in Nat /\ d.crc \in BOOLEAN
  BY DEF Descriptors
<1>3. (d.crc \/ d.len < FCS + MIN_HEADER) <=> ~Good(d)
  BY <1>2 DEF Good, FCS, MIN_HEADER
<1>4. ASSUME remaining >= 24, ~BadLength(d), DataEnd(d) <= remaining
      PROVE  Parse(d, remaining) = [outcome |-> IF Good(d) THEN "Frame" ELSE "Drop",
                                    consumed |-> AlignUp(DataEnd(d))]
  <2>1. ~(remaining < RX_DESC_SIZE) /\ ~(DataEnd(d) > remaining)
    BY <1>1, <1>4 DEF RX_DESC_SIZE
  <2>2. Parse(d, remaining) = [outcome |-> IF d.crc \/ d.len < FCS + MIN_HEADER THEN "Drop" ELSE "Frame",
                               consumed |-> Consumed(DataEnd(d))]
    BY <1>4, <2>1 DEF Parse
  <2>3. (IF d.crc \/ d.len < FCS + MIN_HEADER THEN "Drop" ELSE "Frame") = (IF Good(d) THEN "Frame" ELSE "Drop")
    BY <1>3
  <2> QED BY <2>2, <2>3 DEF Consumed
<1>5. ASSUME remaining < 24 PROVE Parse(d, remaining) = [outcome |-> "NeedMoreData", consumed |-> 0]
  BY <1>5 DEF Parse, RX_DESC_SIZE
<1>6. ASSUME remaining >= 24, BadLength(d) PROVE Parse(d, remaining) = [outcome |-> "Drop", consumed |-> 24]
  BY <1>6 DEF Parse, RX_DESC_SIZE
<1>7. ASSUME remaining >= 24, ~BadLength(d), DataEnd(d) > remaining
      PROVE  Parse(d, remaining) = [outcome |-> "NeedMoreData", consumed |-> 0]
  BY <1>7 DEF Parse, RX_DESC_SIZE
<1> QED BY <1>4, <1>5, <1>6, <1>7

WalkStates == [offset : Nat, packets : Seq(Outcomes \X Nat), over : BOOLEAN]

Turn(records, junk, bytes, s) ==
  LET p == Parse(Seen(records, junk, s.offset), bytes - s.offset)
  IN IF s.over THEN s
     ELSE [offset |-> s.offset + p.consumed,
           packets |-> Append(s.packets, <<p.outcome, s.offset>>),
           over |-> p.consumed = 0 \/ s.offset + p.consumed >= bytes]

LEMMA TurnType ==
  ASSUME NEW records \in Seq(Descriptors), NEW junk \in Descriptors, NEW bytes \in Nat,
         NEW s \in WalkStates
  PROVE  Turn(records, junk, bytes, s) \in WalkStates
<1>1. s.offset \in Nat /\ s.packets \in Seq(Outcomes \X Nat)
  BY DEF WalkStates
<1>2. PICK d \in Descriptors : d = Seen(records, junk, s.offset)
  BY SeenType
<1>3. PICK r \in Int : r = bytes - s.offset
  BY <1>1
<1>4. PICK p : p = Parse(d, r) /\ p.outcome \in Outcomes /\ p.consumed \in Nat
  BY ParseIs
<1>5. s.offset + p.consumed \in Nat /\ <<p.outcome, s.offset>> \in Outcomes \X Nat
  BY <1>1, <1>4
<1>6. Append(s.packets, <<p.outcome, s.offset>>) \in Seq(Outcomes \X Nat)
  BY <1>1, <1>5
<1>7. Turn(records, junk, bytes, s) =
        IF s.over THEN s
        ELSE [offset |-> s.offset + p.consumed,
              packets |-> Append(s.packets, <<p.outcome, s.offset>>),
              over |-> p.consumed = 0 \/ s.offset + p.consumed >= bytes]
  BY <1>2, <1>3, <1>4 DEF Turn
<1> QED BY <1>5, <1>6, <1>7 DEF WalkStates

Turns(bytes) == bytes \div RX_DESC_SIZE + 1

IsRxWalk(w, records, junk, bytes) ==
  /\ w \in [0..Turns(bytes) -> WalkStates]
  /\ w[0] = [offset |-> 0, packets |-> <<>>, over |-> bytes = 0]
  /\ \A n \in 1..Turns(bytes) : w[n] = Turn(records, junk, bytes, w[n - 1])
  /\ Walk(records, junk, bytes) = w[Turns(bytes)]

LEMMA WalkIs ==
  ASSUME NEW records \in Seq(Descriptors), NEW junk \in Descriptors, NEW bytes \in Nat
  PROVE  \E w : IsRxWalk(w, records, junk, bytes)
<1> DEFINE K == Turns(bytes)
           a == [offset |-> 0, packets |-> <<>>, over |-> bytes = 0]
           G == [s \in WalkStates |-> Turn(records, junk, bytes, s)]
<1>0. K \in Nat
  BY DEF Turns, RX_DESC_SIZE
<1>1. a \in WalkStates /\ G \in [WalkStates -> WalkStates]
  <2>1. <<>> \in Seq(Outcomes \X Nat) /\ (bytes = 0) \in BOOLEAN
    OBVIOUS
  <2>2. a \in WalkStates
    BY <2>1 DEF WalkStates
  <2>3. G \in [WalkStates -> WalkStates]
    BY TurnType
  <2> QED BY <2>2, <2>3
<1>2. PICK w : IsWalk(w, K, WalkStates, a, G)
  <2> HIDE DEF K, a, G
  <2> QED BY <1>0, <1>1, WalkExists
<1>3. w \in [0..K -> WalkStates] /\ w[0] = a
  BY <1>2 DEF IsWalk
<1>4. ASSUME NEW n \in 1..K PROVE w[n] = Turn(records, junk, bytes, w[n - 1])
  <2>1. n - 1 \in 0..K
    BY <1>0
  <2>2. w[n - 1] \in WalkStates
    BY <1>3, <2>1
  <2>3. w[n] = G[w[n - 1]]
    <3> HIDE DEF G, K, a
    <3> QED BY <1>2 DEF IsWalk
  <2> QED BY <2>2, <2>3
<1> HIDE DEF a, G
<1>5. w = [n \in 0..K |-> IF n = 0 THEN a ELSE Turn(records, junk, bytes, w[n - 1])]
  <2>1. ASSUME NEW n \in 0..K PROVE w[n] = IF n = 0 THEN a ELSE Turn(records, junk, bytes, w[n - 1])
    <3>1. n = 0 \/ n \in 1..K
      BY <1>0
    <3> QED BY <1>0, <1>3, <1>4, <3>1
  <2>2. w = [n \in 0..K |-> w[n]]
    BY <1>3
  <2> QED BY <2>1, <2>2
<1> DEFINE f == CHOOSE g : g = [n \in 0..K |-> IF n = 0 THEN a ELSE Turn(records, junk, bytes, g[n - 1])]
<1>6. Walk(records, junk, bytes) = f[K]
  BY DEF Walk, Turn, Turns, a
<1>7. f = [n \in 0..K |-> IF n = 0 THEN a ELSE Turn(records, junk, bytes, f[n - 1])]
  <2> HIDE DEF K
  <2> QED BY <1>5
<1> HIDE DEF f
<1>8. f[0] = a
  BY <1>0, <1>7
<1>9. ASSUME NEW n \in 1..K PROVE f[n] = Turn(records, junk, bytes, f[n - 1])
  <2>1. n \in 0..K /\ n # 0
    BY <1>0
  <2> QED BY <1>7, <2>1
<1>10. \A n \in 0..K : f[n] \in WalkStates
  <2> DEFINE T == {n \in Nat : f[n] \in WalkStates}
  <2>1. 0 \in T
    BY <1>1, <1>8
  <2>2. ASSUME NEW n \in 0..K - 1, n \in T PROVE n + 1 \in T
    <3>1. PICK m \in 1..K : m = n + 1 /\ m - 1 = n
      BY <1>0
    <3>2. f[m] = Turn(records, junk, bytes, f[n]) /\ f[n] \in WalkStates
      BY <1>9, <2>2, <3>1
    <3>3. f[m] \in WalkStates
      BY <3>2, TurnType
    <3> QED BY <1>0, <3>1, <3>3
  <2>3. \A n \in 0..K : n \in T
    <3> HIDE DEF T, K
    <3> QED BY <1>0, <2>1, <2>2, Reaches
  <2> QED BY <2>3
<1>11. f \in [0..K -> WalkStates]
  <2>1. DOMAIN f = 0..K /\ f = [n \in DOMAIN f |-> f[n]]
    BY <1>7
  <2> QED BY <1>10, <2>1
<1>12. IsRxWalk(f, records, junk, bytes)
  BY <1>6, <1>8, <1>9, <1>11 DEF IsRxWalk, a
<1> QED BY <1>12
(* Packets that are what the first m records should yield. *)
Met(records, k) == <<IF Good(records[k]) THEN "Frame" ELSE "Drop", Starts(records)[k]>>

Right(records, packets, m) == m <= Len(packets) /\ \A k \in 1..m : packets[k] = Met(records, k)

LEMMA RightStays ==
  ASSUME NEW records, NEW packets \in Seq(Outcomes \X Nat), NEW x \in Outcomes \X Nat, NEW m \in Nat,
         Right(records, packets, m)
  PROVE  Right(records, Append(packets, x), m)
<1>1. m <= Len(packets) /\ Len(packets) \in Nat
  BY DEF Right
<1>2. Len(Append(packets, x)) = Len(packets) + 1
  OBVIOUS
<1>3. \A k \in 1..Len(packets) : Append(packets, x)[k] = packets[k]
  OBVIOUS
<1>4. \A k \in 1..m : k \in 1..Len(packets)
  BY <1>1
<1>5. \A k \in 1..m : packets[k] = Met(records, k)
  BY DEF Right
<1>6. \A k \in 1..m : Append(packets, x)[k] = Met(records, k)
  BY <1>3, <1>4, <1>5
<1>7. m <= Len(Append(packets, x))
  BY <1>1, <1>2
<1> QED BY <1>6, <1>7 DEF Right

LEMMA RightGrows ==
  ASSUME NEW records, NEW packets \in Seq(Outcomes \X Nat), NEW x \in Outcomes \X Nat, NEW m \in Nat,
         Right(records, packets, m), Len(packets) = m, NEW n \in Nat, n = m + 1, x = Met(records, n)
  PROVE  Right(records, Append(packets, x), n)
<1>2. Len(Append(packets, x)) = n /\ Append(packets, x)[n] = x
  OBVIOUS
<1>3. Right(records, Append(packets, x), m)
  BY RightStays
<1>4. ASSUME NEW k \in 1..n PROVE Append(packets, x)[k] = Met(records, k)
  <2>1. k = n \/ k \in 1..m
    OBVIOUS
  <2> QED BY <1>2, <1>3, <2>1 DEF Right
<1> QED BY <1>2, <1>4 DEF Right

(* Records that arrived whole are the first ones. *)
LEMMA WholeClosed ==
  ASSUME NEW records \in Seq(Descriptors), NEW bytes \in Nat, NEW k \in WholeBefore(records, bytes),
         NEW j \in 1..k
  PROVE  j \in WholeBefore(records, bytes)
<1> DEFINE f == Starts(records)
           L == Len(records)
<1>0. L \in Nat /\ f \in [1..L + 1 -> Nat]
  BY StartsIs
<1>1. k \in 1..L /\ f[k] + DataEnd(records[k]) <= bytes /\ \A i \in 1..k : ~BadLength(records[i])
  BY DEF WholeBefore
<1>2. CASE j = k
  BY <1>2
<1>3. CASE j # k
  <2>1. j \in 1..L /\ j + 1 \in 1..L + 1 /\ j + 1 <= k /\ k \in 1..L + 1
    BY <1>0, <1>1, <1>3
  <2>2. f[j + 1] = f[j] + Slot(records, j)
    BY <2>1, StartsIs
  <2>3. PICK m \in 1..L + 1 : m = j + 1
    BY <2>1
  <2>4. f[m] <= f[k]
    BY <2>1, <2>3, StartsGrow
  <2>5. Slot(records, j) \in Nat /\ DataEnd(records[j]) \in Nat /\ Slot(records, j) >= DataEnd(records[j])
    BY <2>1, SlotIs
  <2>6. DataEnd(records[k]) \in Nat
    BY <1>1, SlotIs
  <2>7. f[j] \in Nat /\ f[k] \in Nat
    BY <1>0, <2>1
  <2>8. f[j] + DataEnd(records[j]) <= bytes
    <3> HIDE DEF f
    <3> QED BY <1>1, <2>2, <2>3, <2>4, <2>5, <2>6, <2>7
  <2>9. \A i \in 1..j : ~BadLength(records[i])
    BY <1>0, <1>1
  <2> QED BY <2>1, <2>8, <2>9 DEF WholeBefore
<1> QED BY <1>2, <1>3

LEMMA WholeIs ==
  ASSUME NEW records \in Seq(Descriptors), NEW bytes \in Nat, NEW m \in 0..Len(records),
         1..m \subseteq WholeBefore(records, bytes), m + 1 \notin WholeBefore(records, bytes)
  PROVE  WholeBefore(records, bytes) = 1..m
<1>1. ASSUME NEW k \in WholeBefore(records, bytes) PROVE k \in 1..m
  <2>1. k \in 1..Len(records)
    BY DEF WholeBefore
  <2>2. ~(k >= m + 1)
    <3> SUFFICES ASSUME k >= m + 1 PROVE FALSE
      OBVIOUS
    <3>1. PICK j \in 1..k : j = m + 1
      BY <2>1
    <3>2. j \in WholeBefore(records, bytes)
      BY WholeClosed
    <3> QED BY <3>1, <3>2
  <2> QED BY <2>1, <2>2
<1> QED BY <1>1

(* Where the walk can be after n packets: at the next record, having found all   *)
(* before it; at its end, having found all that arrived whole; or past a record  *)
(* with a damaged length.                                                         *)
OnTrack(records, bytes, n, s) ==
  /\ ~s.over /\ n \in 0..Len(records) /\ 1..n \subseteq WholeBefore(records, bytes)
  /\ s.offset = Starts(records)[n + 1] /\ Len(s.packets) = n /\ Right(records, s.packets, n)

AtEnd(records, bytes, s) ==
  /\ s.over
  /\ \E m \in 0..Len(records) :
       /\ WholeBefore(records, bytes) = 1..m /\ Right(records, s.packets, m)
       /\ \/ Len(s.packets) = m
          \/ Len(s.packets) = m + 1 /\ s.packets[m + 1][1] = "NeedMoreData"

Astray(records, bytes, s) ==
  /\ \E m \in 0..Len(records) :
       WholeBefore(records, bytes) = 1..m /\ Right(records, s.packets, m)
  /\ \E k \in 1..Len(records) : BadLength(records[k])

WalkInv(records, bytes, n, s) ==
  /\ ~s.over => s.offset < bytes /\ s.offset >= 24 * n
  /\ OnTrack(records, bytes, n, s) \/ AtEnd(records, bytes, s) \/ Astray(records, bytes, s)

LEMMA WalkBegins ==
  ASSUME NEW records \in Seq(Descriptors), NEW bytes \in Nat, NEW s,
         s = [offset |-> 0, packets |-> <<>>, over |-> bytes = 0]
  PROVE  WalkInv(records, bytes, 0, s)
<1>1. s.offset = 0 /\ s.packets = <<>> /\ s.over = (bytes = 0)
  OBVIOUS
<1>2. Right(records, s.packets, 0) /\ 1..0 = {} /\ 0 \in 0..Len(records) /\ Len(s.packets) = 0
  BY <1>1 DEF Right
<1>3. CASE bytes = 0
  <2>1. ASSUME NEW k \in WholeBefore(records, bytes) PROVE FALSE
    <3>1. k \in 1..Len(records) /\ Starts(records)[k] + DataEnd(records[k]) <= bytes
      BY DEF WholeBefore
    <3>2. DataEnd(records[k]) \in Nat /\ DataEnd(records[k]) >= 24
      BY <3>1, SlotIs
    <3>3. Starts(records)[k] \in Nat
      <4>1. k \in 1..Len(records) + 1
        BY <3>1
      <4> QED BY <4>1, StartsIs
    <3> QED BY <1>3, <3>1, <3>2, <3>3
  <2>2. WholeBefore(records, bytes) = {}
    BY <2>1
  <2> QED BY <1>1, <1>2, <1>3, <2>2 DEF WalkInv, AtEnd
<1>4. CASE bytes # 0
  <2>1. Starts(records)[0 + 1] = 0
    BY StartsIs
  <2>2. OnTrack(records, bytes, 0, s)
    BY <1>1, <1>2, <1>4, <2>1 DEF OnTrack
  <2> QED BY <1>1, <1>4, <2>2 DEF WalkInv
<1> QED BY <1>3, <1>4
(* A turn that is not over appends the packet it parsed. *)
Advances(s, t, p, bytes) ==
  /\ t.offset = s.offset + p.consumed
  /\ t.packets = Append(s.packets, <<p.outcome, s.offset>>)
  /\ t.over <=> (p.consumed = 0 \/ s.offset + p.consumed >= bytes)
  /\ <<p.outcome, s.offset>> \in Outcomes \X Nat
  /\ p.consumed \in Nat /\ (p.consumed # 0 => p.consumed >= 24)

LEMMA TurnOpen ==
  ASSUME NEW records \in Seq(Descriptors), NEW junk \in Descriptors, NEW bytes \in Nat,
         NEW s \in WalkStates, ~s.over
  PROVE  Advances(s, Turn(records, junk, bytes, s),
                  Parse(Seen(records, junk, s.offset), bytes - s.offset), bytes)
<1>1. s.offset \in Nat
  BY DEF WalkStates
<1>2. PICK d \in Descriptors : d = Seen(records, junk, s.offset)
  BY SeenType
<1>3. PICK r \in Int : r = bytes - s.offset
  BY <1>1
<1>4. PICK p : p = Parse(d, r)
  OBVIOUS
<1>5. Turn(records, junk, bytes, s) =
        [offset |-> s.offset + p.consumed,
         packets |-> Append(s.packets, <<p.outcome, s.offset>>),
         over |-> p.consumed = 0 \/ s.offset + p.consumed >= bytes]
  BY <1>2, <1>3, <1>4 DEF Turn
<1>6. p.outcome \in Outcomes /\ p.consumed \in Nat /\ (p.consumed # 0 => p.consumed >= 24)
  BY <1>4, ParseIs
<1>7. PICK t : t = Turn(records, junk, bytes, s)
  OBVIOUS
<1>8. Advances(s, t, p, bytes)
  <2>1. t.offset = s.offset + p.consumed /\ t.packets = Append(s.packets, <<p.outcome, s.offset>>)
    BY <1>5, <1>7
  <2>2. t.over = (p.consumed = 0 \/ s.offset + p.consumed >= bytes)
    <3> DEFINE a == s.offset + p.consumed
               b == Append(s.packets, <<p.outcome, s.offset>>)
               c == p.consumed = 0 \/ s.offset + p.consumed >= bytes
    <3>1. t = [offset |-> a, packets |-> b, over |-> c]
      BY <1>5, <1>7
    <3> HIDE DEF a, b, c
    <3>2. t.over = c
      BY <3>1
    <3> QED BY <3>2 DEF c
  <2>3. <<p.outcome, s.offset>> \in Outcomes \X Nat
    BY <1>1, <1>6
  <2> QED BY <1>6, <2>1, <2>2, <2>3, Zenon DEF Advances
<1> QED BY <1>2, <1>3, <1>4, <1>7, <1>8

LEMMA TrackStep ==
  ASSUME NEW records \in Seq(Descriptors), NEW junk \in Descriptors, NEW bytes \in Nat,
         bytes <= Starts(records)[Len(records) + 1], NEW n \in Nat, NEW s \in WalkStates,
         OnTrack(records, bytes, n, s), s.offset < bytes,
         NEW t, t = Turn(records, junk, bytes, s), NEW n1 \in Nat, n1 = n + 1
  PROVE  OnTrack(records, bytes, n1, t) \/ AtEnd(records, bytes, t) \/ Astray(records, bytes, t)
<1> DEFINE f == Starts(records)
           L == Len(records)
           whole == WholeBefore(records, bytes)
<1>0. L \in Nat /\ f \in [1..L + 1 -> Nat]
  BY StartsIs
<1>1. /\ ~s.over /\ n \in 0..L /\ 1..n \subseteq whole
      /\ s.offset = f[n1] /\ Len(s.packets) = n /\ Right(records, s.packets, n)
  BY DEF OnTrack
<1>2. n < L
  <2>1. n1 \in 1..L + 1 /\ f[n1] < bytes /\ bytes <= f[L + 1] /\ f[n1] \in Nat /\ f[L + 1] \in Nat
    BY <1>0, <1>1
  <2>2. n1 # L + 1
    <3> HIDE DEF f
    <3> QED BY <2>1
  <2> QED BY <1>0, <1>1, <2>2
<1>3. n1 \in 1..L /\ n1 \in 1..L + 1
  BY <1>0, <1>2
<1>4. PICK d \in Descriptors : d = records[n1] /\ d = Seen(records, junk, s.offset)
  <2>1. Seen(records, junk, f[n1]) = records[n1]
    BY <1>3, SeenAtStart
  <2>2. records[n1] \in Descriptors
    BY <1>3
  <2> QED BY <1>1, <2>1, <2>2
<1>5. PICK o \in Nat : o = s.offset /\ o = f[n1] /\ o < bytes
  BY <1>0, <1>1, <1>3
<1>6. PICK r \in Int : r = bytes - o
  OBVIOUS
<1>7. PICK p : p = Parse(d, r)
  OBVIOUS
<1>8. /\ t.offset = o + p.consumed
      /\ t.packets = Append(s.packets, <<p.outcome, o>>)
      /\ t.over <=> (p.consumed = 0 \/ o + p.consumed >= bytes)
      /\ <<p.outcome, o>> \in Outcomes \X Nat
      /\ p.consumed \in Nat
  <2>1. Advances(s, t, p, bytes)
    BY <1>1, <1>4, <1>5, <1>6, <1>7, TurnOpen
  <2> QED BY <1>5, <2>1 DEF Advances
<1>9. s.packets \in Seq(Outcomes \X Nat)
  BY DEF WalkStates
<1>10. Right(records, t.packets, n)
  BY <1>1, <1>8, <1>9, RightStays
<1>11. Len(t.packets) = n1 /\ t.packets[n1] = <<p.outcome, o>>
  BY <1>1, <1>8, <1>9
<1>12. DataEnd(d) \in Nat /\ DataEnd(d) >= 24
  BY DataEndIs
<1>13. ASSUME n1 \notin whole PROVE whole = 1..n
  BY <1>1, <1>13, WholeIs
<1>14. n1 \in whole <=> DataEnd(d) <= r /\ \A k \in 1..n1 : ~BadLength(records[k])
  <2>1. f[n1] + DataEnd(records[n1]) <= bytes <=> DataEnd(d) <= r
    BY <1>4, <1>5, <1>6, <1>12
  <2> QED BY <1>3, <2>1 DEF WholeBefore
<1>15. \A k \in 1..n : ~BadLength(records[k])
  <2> SUFFICES ASSUME NEW k \in 1..n PROVE ~BadLength(records[k])
    OBVIOUS
  <2>1. k \in whole /\ k \in 1..k
    BY <1>1
  <2> QED BY <2>1 DEF WholeBefore
<1>16. n1 \in whole <=> DataEnd(d) <= r /\ ~BadLength(d)
  <2>1. \A k \in 1..n1 : k = n1 \/ k \in 1..n
    OBVIOUS
  <2>2. n1 \in 1..n1
    BY <1>3
  <2> QED BY <1>4, <1>14, <1>15, <2>1, <2>2
<1>17. CASE r < 24 \/ (r >= 24 /\ ~BadLength(d) /\ DataEnd(d) > r)
  <2>1. p = [outcome |-> "NeedMoreData", consumed |-> 0]
    BY <1>7, <1>17, ParseCases
  <2>a. p.consumed = 0 /\ p.outcome = "NeedMoreData"
    BY <2>1
  <2>2. t.over /\ t.packets[n1][1] = "NeedMoreData"
    BY <1>8, <1>11, <2>a
  <2>3. n1 \notin whole
    BY <1>12, <1>16, <1>17
  <2> QED BY <1>1, <1>10, <1>11, <1>13, <2>2, <2>3 DEF AtEnd
<1>18. CASE r >= 24 /\ BadLength(d)
  <2>1. n1 \notin whole
    BY <1>16, <1>18
  <2> QED BY <1>1, <1>3, <1>4, <1>10, <1>13, <1>18, <2>1 DEF Astray
<1>19. CASE r >= 24 /\ ~BadLength(d) /\ DataEnd(d) <= r
  <2>1. p = [outcome |-> IF Good(d) THEN "Frame" ELSE "Drop", consumed |-> AlignUp(DataEnd(d))]
    BY <1>7, <1>19, ParseCases
  <2>2. <<p.outcome, o>> = Met(records, n1)
    BY <1>4, <1>5, <2>1 DEF Met
  <2>3. Right(records, t.packets, n1)
    BY <1>1, <1>8, <1>9, <2>2, RightGrows
  <2>4. n1 \in whole
    BY <1>16, <1>19
  <2>5. 1..n1 \subseteq whole
    <3>1. \A k \in 1..n1 : k = n1 \/ k \in 1..n
      OBVIOUS
    <3> QED BY <1>1, <2>4, <3>1
  <2>6. f[n1 + 1] = o + p.consumed /\ p.consumed >= 24
    <3>1. f[n1 + 1] = f[n1] + Slot(records, n1)
      BY <1>3, StartsIs
    <3>2. Slot(records, n1) = p.consumed
      BY <1>4, <2>1 DEF Slot
    <3>3. Slot(records, n1) \in Nat /\ Slot(records, n1) >= 24
      BY <1>3, SlotIs
    <3> QED BY <1>5, <3>1, <3>2, <3>3
  <2>7. CASE ~t.over
    BY <1>3, <1>8, <1>11, <2>3, <2>5, <2>6, <2>7 DEF OnTrack
  <2>8. CASE t.over
    <3>1. f[n1 + 1] >= bytes
      BY <1>8, <2>6, <2>8
    <3>2. n1 + 1 \notin whole
      <4> SUFFICES ASSUME n1 + 1 \in whole PROVE FALSE
        OBVIOUS
      <4>1. PICK k \in 1..L : k = n1 + 1 /\ f[k] + DataEnd(records[k]) <= bytes
        BY DEF WholeBefore
      <4>2. DataEnd(records[k]) \in Nat /\ DataEnd(records[k]) >= 24
        BY SlotIs
      <4>3. f[k] \in Nat /\ f[k] >= bytes
        BY <1>0, <3>1, <4>1
      <4> QED BY <4>1, <4>2, <4>3
    <3>3. whole = 1..n1
      <4>1. n1 \in 0..L
        BY <1>3
      <4> QED BY <2>5, <3>2, <4>1, WholeIs
    <3>4. n1 \in 0..L
      BY <1>3
    <3> QED BY <1>11, <2>3, <2>8, <3>3, <3>4 DEF AtEnd
  <2> QED BY <2>7, <2>8
<1>20. r < 24 \/ r >= 24
  BY <1>6
<1>21. DataEnd(d) <= r \/ DataEnd(d) > r
  BY <1>6, <1>12
<1> QED BY <1>17, <1>18, <1>19, <1>20, <1>21

LEMMA AstrayStep ==
  ASSUME NEW records \in Seq(Descriptors), NEW junk \in Descriptors, NEW bytes \in Nat,
         NEW s \in WalkStates, Astray(records, bytes, s),
         NEW t, t = Turn(records, junk, bytes, s)
  PROVE  Astray(records, bytes, t)
<1>1. CASE s.over
  BY <1>1 DEF Turn
<1>2. CASE ~s.over
  <2>1. PICK d \in Descriptors : d = Seen(records, junk, s.offset)
    BY SeenType
  <2>2. PICK r \in Int : r = bytes - s.offset
    BY DEF WalkStates
  <2>3. PICK p : p = Parse(d, r)
    OBVIOUS
  <2>a. Advances(s, t, p, bytes)
    BY <1>2, <2>1, <2>2, <2>3, TurnOpen
  <2>4. t.packets = Append(s.packets, <<p.outcome, s.offset>>) /\ <<p.outcome, s.offset>> \in Outcomes \X Nat
    BY <2>a DEF Advances
  <2>5. s.packets \in Seq(Outcomes \X Nat)
    BY DEF WalkStates
  <2>6. PICK m \in 0..Len(records) : WholeBefore(records, bytes) = 1..m /\ Right(records, s.packets, m)
    BY DEF Astray
  <2>7. m \in Nat
    OBVIOUS
  <2>8. Right(records, t.packets, m)
    BY <2>4, <2>5, <2>6, <2>7, RightStays
  <2> QED BY <2>6, <2>8 DEF Astray
<1> QED BY <1>1, <1>2

LEMMA WalkStep ==
  ASSUME NEW records \in Seq(Descriptors), NEW junk \in Descriptors, NEW bytes \in Nat,
         bytes <= Starts(records)[Len(records) + 1], NEW n \in Nat, NEW s \in WalkStates,
         WalkInv(records, bytes, n, s),
         NEW t, t = Turn(records, junk, bytes, s), NEW n1 \in Nat, n1 = n + 1
  PROVE  WalkInv(records, bytes, n1, t)
<1>1. ASSUME ~t.over PROVE t.offset < bytes /\ t.offset >= 24 * n1
  <2>1. ~s.over
    BY <1>1 DEF Turn
  <2>2. PICK o \in Nat : o = s.offset /\ o >= 24 * n
    BY <2>1 DEF WalkInv, WalkStates
  <2>3. PICK d \in Descriptors : d = Seen(records, junk, s.offset)
    BY SeenType
  <2>4. PICK r \in Int : r = bytes - s.offset
    BY <2>2
  <2>5. PICK p : p = Parse(d, r)
    OBVIOUS
  <2>6. /\ t.offset = o + p.consumed
        /\ t.over <=> (p.consumed = 0 \/ o + p.consumed >= bytes)
        /\ p.consumed \in Nat /\ (p.consumed # 0 => p.consumed >= 24)
    <3>1. Advances(s, t, p, bytes)
      BY <2>1, <2>3, <2>4, <2>5, TurnOpen
    <3> QED BY <2>2, <3>1 DEF Advances
  <2>7. p.consumed # 0 /\ ~(o + p.consumed >= bytes)
    BY <1>1, <2>6
  <2> QED BY <2>2, <2>6, <2>7
<1>2. CASE OnTrack(records, bytes, n, s)
  <2>1. ~s.over
    BY <1>2 DEF OnTrack
  <2>2. s.offset < bytes
    BY <2>1 DEF WalkInv
  <2>3. OnTrack(records, bytes, n1, t) \/ AtEnd(records, bytes, t) \/ Astray(records, bytes, t)
    BY <1>2, <2>2, TrackStep
  <2> QED BY <1>1, <2>3 DEF WalkInv
<1>3. CASE AtEnd(records, bytes, s)
  <2>1. t = s
    BY <1>3 DEF AtEnd, Turn
  <2> QED BY <1>1, <1>3, <2>1 DEF WalkInv
<1>4. CASE Astray(records, bytes, s)
  <2>1. Astray(records, bytes, t)
    BY <1>4, AstrayStep
  <2> QED BY <1>1, <2>1 DEF WalkInv
<1> QED BY <1>2, <1>3, <1>4 DEF WalkInv

(* The walk is exact for all records, junk and lengths of the transfer: it ends,  *)
(* since every turn that goes on consumes a descriptor, in one of the places above. *)
LEMMA WalkExact ==
  ASSUME NEW records \in Seq(Descriptors), NEW junk \in Descriptors, NEW bytes \in Nat,
         bytes <= Starts(records)[Len(records) + 1]
  PROVE  RxWalkExact(records, junk, bytes)
<1> DEFINE K == Turns(bytes)
<1>0. K \in Nat /\ 24 * K > bytes
  BY DEF Turns, RX_DESC_SIZE
<1>1. PICK w : IsRxWalk(w, records, junk, bytes)
  BY WalkIs
<1>2. \A n \in 0..K : w[n] \in WalkStates
  BY <1>1 DEF IsRxWalk
<1> DEFINE T == {n \in Nat : WalkInv(records, bytes, n, w[n])}
<1>3. 0 \in T
  BY <1>1, WalkBegins DEF IsRxWalk
<1>4. ASSUME NEW n \in 0..K - 1, n \in T PROVE n + 1 \in T
  <2>1. PICK m \in 1..K : m = n + 1 /\ m - 1 = n
    BY <1>0
  <2>2. w[m] = Turn(records, junk, bytes, w[n])
    BY <1>1, <2>1 DEF IsRxWalk
  <2>3. w[n] \in WalkStates /\ n \in Nat /\ m \in Nat /\ WalkInv(records, bytes, n, w[n])
    BY <1>0, <1>2, <1>4
  <2>4. WalkInv(records, bytes, m, w[m])
    BY <2>1, <2>2, <2>3, WalkStep
  <2> QED BY <2>1, <2>3, <2>4
<1>5. \A n \in 0..K : n \in T
  <2> HIDE DEF T, K
  <2> QED BY <1>0, <1>3, <1>4, Reaches
<1>6. PICK s \in WalkStates : s = Walk(records, junk, bytes) /\ WalkInv(records, bytes, K, s)
  <2>1. K \in 0..K /\ K \in T
    BY <1>0, <1>5
  <2> QED BY <1>1, <1>2, <2>1 DEF IsRxWalk
<1> HIDE DEF T
<1>7. s.over
  <2>1. s.offset \in Nat
    BY DEF WalkStates
  <2> QED BY <1>0, <1>6, <2>1 DEF WalkInv
<1> DEFINE whole == WholeBefore(records, bytes)
<1>8. PICK m \in 0..Len(records) : whole = 1..m /\ Right(records, s.packets, m)
  BY <1>6, <1>7 DEF WalkInv, OnTrack, AtEnd, Astray
<1>9. \A k \in whole : k <= Len(s.packets) /\ s.packets[k] = Met(records, k)
  <2>1. s.packets \in Seq(Outcomes \X Nat)
    BY DEF WalkStates
  <2>2. m <= Len(s.packets) /\ Len(s.packets) \in Nat /\ \A k \in 1..m : s.packets[k] = Met(records, k)
    BY <1>8, <2>1 DEF Right
  <2> QED BY <1>8, <2>2
<1>10. ASSUME \A k \in 1..Len(records) : ~BadLength(records[k])
       PROVE  /\ {k \in 1..Len(s.packets) : s.packets[k][1] = "Frame"} = {k \in whole : Good(records[k])}
              /\ \A k \in 1..Len(s.packets) - 1 : s.packets[k][1] # "NeedMoreData"
  <2>1. AtEnd(records, bytes, s)
    BY <1>6, <1>7, <1>10 DEF WalkInv, OnTrack, Astray
  <2>2. PICK e \in 0..Len(records) :
          /\ whole = 1..e /\ Right(records, s.packets, e)
          /\ \/ Len(s.packets) = e
             \/ Len(s.packets) = e + 1 /\ s.packets[e + 1][1] = "NeedMoreData"
    BY <2>1 DEF AtEnd
  <2>3. \A k \in 1..e : s.packets[k][1] = IF Good(records[k]) THEN "Frame" ELSE "Drop"
    BY <2>2 DEF Right, Met
  <2>4. CASE Len(s.packets) = e
    BY <2>2, <2>3, <2>4
  <2>5. CASE Len(s.packets) = e + 1 /\ s.packets[e + 1][1] = "NeedMoreData"
    <3>1. \A k \in 1..e + 1 : k = e + 1 \/ k \in 1..e
      OBVIOUS
    <3>2. \A k \in 1..e : k \in 1..e + 1
      OBVIOUS
    <3>3. Len(s.packets) - 1 = e
      BY <2>5
    <3> QED BY <2>2, <2>3, <2>5, <3>1, <3>2, <3>3
  <2> QED BY <2>2, <2>4, <2>5
<1> QED BY <1>6, <1>7, <1>9, <1>10 DEF RxWalkExact, Met
LEMMA StartsAligned ==
  ASSUME NEW records \in Seq(Descriptors), NEW n \in 1..Len(records)
  PROVE  \E q \in Nat : Starts(records)[n] = 128 * q
<1> DEFINE f == Starts(records)
           L == Len(records)
           T == {m \in Nat : \E q \in Nat : f[m + 1] = 128 * q}
<1>0. L \in Nat /\ f \in [1..L + 1 -> Nat] /\ f[1] = 0
  BY StartsIs
<1>1. 0 \in T
  BY <1>0
<1>2. ASSUME NEW m \in 0..L - 1, m \in T PROVE m + 1 \in T
  <2>1. PICK q \in Nat : f[m + 1] = 128 * q
    BY <1>2
  <2>2. PICK k \in 1..L : k = m + 1
    BY <1>0
  <2>3. f[k + 1] = f[k] + Slot(records, k)
    BY StartsIs
  <2>4. PICK u \in Nat : Slot(records, k) = 128 * u
    <3>1. records[k] \in Descriptors
      OBVIOUS
    <3>2. DataEnd(records[k]) \in Nat
      BY <3>1, DataEndIs
    <3> QED BY <3>2, AlignUpIs DEF Slot
  <2>5. f[k + 1] = 128 * (q + u) /\ q + u \in Nat
    <3> HIDE DEF f
    <3> QED BY <2>1, <2>2, <2>3, <2>4
  <2> HIDE DEF f
  <2>6. \E v \in Nat : f[k + 1] = 128 * v
    BY <2>5
  <2> QED BY <2>2, <2>6
<1>3. \A m \in 0..L : m \in T
  <2> HIDE DEF T, L
  <2> QED BY <1>0, <1>1, <1>2, Reaches
<1>4. PICK m \in 0..L : n = m + 1
  <2>1. n - 1 \in 0..L /\ n = (n - 1) + 1
    BY <1>0
  <2> QED BY <2>1
<1> QED BY <1>3, <1>4

(* The adapter never sends more than its records. *)
LEMMA CutsWithin ==
  ASSUME NEW records \in Seq(Descriptors), NEW b \in Cuts(records)
  PROVE  b \in Nat /\ b <= Starts(records)[Len(records) + 1]
<1> DEFINE f == Starts(records)
           L == Len(records)
<1>0. L \in Nat /\ f \in [1..L + 1 -> Nat] /\ L + 1 \in 1..L + 1
  BY StartsIs
<1>1. CASE b = 0
  BY <1>0, <1>1
<1>2. CASE b # 0
  <2>1. PICK n, s, e :
          /\ n \in 1..L /\ s = f[n] /\ e = s + DataEnd(records[n])
          /\ b \in {s, s + RX_DESC_SIZE - 1, s + RX_DESC_SIZE, e - 1, e, AlignUp(e)}
    <3> DEFINE C(n) == LET s == Starts(records)[n]
                           e == s + DataEnd(records[n])
                       IN {s, s + RX_DESC_SIZE - 1, s + RX_DESC_SIZE, e - 1, e, AlignUp(e)}
    <3>1. Cuts(records) = {0} \cup UNION {C(n) : n \in 1..Len(records)}
      BY Zenon DEF Cuts
    <3> HIDE DEF C
    <3>2. \E n \in 1..L : b \in C(n)
      BY <1>2, <3>1
    <3>3. PICK n \in 1..L : b \in C(n)
      BY <3>2
    <3>4. PICK s, e : s = Starts(records)[n] /\ e = s + DataEnd(records[n])
      OBVIOUS
    <3>5. C(n) = {s, s + RX_DESC_SIZE - 1, s + RX_DESC_SIZE, e - 1, e, AlignUp(e)}
      BY <3>4 DEF C
    <3>6. b \in {s, s + RX_DESC_SIZE - 1, s + RX_DESC_SIZE, e - 1, e, AlignUp(e)}
      BY <3>3, <3>5, Zenon
    <3> QED BY <3>3, <3>4, <3>6, Zenon
  <2>2. PICK d \in Nat, a \in Nat :
          /\ s \in Nat /\ d = DataEnd(records[n]) /\ a = Slot(records, n) /\ d >= 24 /\ a >= d
    <3>1. s \in Nat
      BY <1>0, <2>1
    <3> QED BY <2>1, <3>1, SlotIs
  <2>3. PICK q \in Nat : s = 128 * q
    BY <2>1, StartsAligned
  <2>4. AlignUp(s + d) = s + a
    <3>1. AlignUp(128 * q + d) = 128 * q + AlignUp(d)
      BY AlignUpShift
    <3> QED BY <2>2, <2>3, <3>1 DEF Slot
  <2>5. e = s + d /\ AlignUp(e) = s + a
    BY <2>1, <2>2, <2>4
  <2>6. b \in Nat /\ b <= s + a
    <3>1. \/ b = s \/ b = s + RX_DESC_SIZE - 1 \/ b = s + RX_DESC_SIZE
          \/ b = e - 1 \/ b = e \/ b = AlignUp(e)
      BY <2>1, Zenon
    <3> QED BY <2>2, <2>5, <3>1 DEF RX_DESC_SIZE
  <2>7. PICK m \in 1..L + 1 : m = n + 1 /\ m <= L + 1
    BY <1>0, <2>1
  <2>8. f[m] = s + a
    BY <2>1, <2>2, <2>7, StartsIs
  <2>9. f[m] <= f[L + 1] /\ f[L + 1] \in Nat
    <3>1. PICK z \in 1..L + 1 : z = L + 1
      BY <1>0
    <3>2. f[m] <= f[z]
      BY <2>7, <3>1, StartsGrow
    <3> QED BY <1>0, <3>1, <3>2
  <2>10. f[m] \in Nat
    BY <1>0
  <2>11. b <= f[L + 1]
    <3> HIDE DEF f
    <3> QED BY <2>6, <2>8, <2>9, <2>10
  <2> QED BY <2>6, <2>11
<1> QED BY <1>1, <1>2

(* read_rx_packets ends, meets every record that arrived whole at its offset and    *)
(* makes a frame of exactly the sound ones, wherever the transfer was cut.          *)
THEOREM WalksTransfers == Spec => []TransferWalked
<1>1. Inputs => TransferWalked
  <2> SUFFICES ASSUME Inputs, input.kind = "transfer"
               PROVE  RxWalkExact(input.records, input.junk, input.bytes)
    BY DEF TransferWalked
  <2>1. PICK r \in SeqsTo(Records, MaxRecords), j \in Junk :
          \E b \in Cuts(r) : input = [kind |-> "transfer", records |-> r, junk |-> j, bytes |-> b]
    BY DEF Inputs
  <2>2. PICK b \in Cuts(r) : input = [kind |-> "transfer", records |-> r, junk |-> j, bytes |-> b]
    BY <2>1
  <2>3. Records \subseteq Descriptors /\ Junk \subseteq Descriptors
    BY DEF Records, Junk, Record, Descriptors
  <2>4. r \in Seq(Records)
    BY ShortSequences
  <2>5. r \in Seq(Descriptors) /\ j \in Descriptors
    BY <2>3, <2>4
  <2>6. b \in Nat /\ b <= Starts(r)[Len(r) + 1]
    BY <2>5, CutsWithin
  <2>7. RxWalkExact(r, j, b)
    BY <2>5, <2>6, WalkExact
  <2>8. input.records = r /\ input.junk = j /\ input.bytes = b
    BY <2>2
  <2> QED BY <2>7, <2>8
<1> QED BY <1>1, InputsAlways, PTL
-----------------------------------------------------------------------------
(* The EFUSE log.  A block that can be burnt: a one byte header cannot enable no word, which *)
(* would read as an erased byte or as the first half of a longer header.                     *)
Burnable ==
  {b \in [section : Nat, enable : 0..15, extended : BOOLEAN, mark : Nat] : b.extended \/ b.enable # 15}

LEMMA FourWords == IsFiniteSet(0..3)
<1>1. 0 \in Int /\ 3 \in Int
  OBVIOUS
<1> QED BY <1>1, FS_Interval, Zenon

LEMMA WordsIs ==
  ASSUME NEW e
  PROVE  /\ Words(e) \subseteq 0..3 /\ IsFiniteSet(Words(e)) /\ Cardinality(Words(e)) \in Nat
         /\ e = 15 => Words(e) = {}
<1>1. Words(e) \subseteq 0..3
  BY DEF Words
<1>2. IsFiniteSet(0..3)
  BY FourWords
<1>3. IsFiniteSet(Words(e))
  BY <1>1, <1>2, FS_Subset
<1>4. ASSUME e = 15, NEW w \in 0..3 PROVE Bit(e, w) # 0
  <2>1. 2^0 = 1 /\ 2^1 = 2 /\ 2^2 = 4 /\ 2^3 = 8
    OBVIOUS
  <2>2. w = 0 \/ w = 1 \/ w = 2 \/ w = 3
    OBVIOUS
  <2>3. (15 \div 1) % 2 = 1 /\ (15 \div 2) % 2 = 1 /\ (15 \div 4) % 2 = 1 /\ (15 \div 8) % 2 = 1
    OBVIOUS
  <2>4. CASE w = 0
    BY <1>4, <2>1, <2>3, <2>4 DEF Bit
  <2>5. CASE w = 1
    BY <1>4, <2>1, <2>3, <2>5 DEF Bit
  <2>6. CASE w = 2
    BY <1>4, <2>1, <2>3, <2>6 DEF Bit
  <2>7. CASE w = 3
    BY <1>4, <2>1, <2>3, <2>7 DEF Bit
  <2> QED BY <2>2, <2>4, <2>5, <2>6, <2>7
<1> QED BY <1>1, <1>3, <1>4, FS_CardinalityType DEF Words

LEMMA BeforeIs ==
  ASSUME NEW W, W \subseteq 0..3
  PROVE  /\ \A w \in W : Before(W, w) \in Nat /\ Before(W, w) + 1 <= Cardinality(W)
         /\ W # {} => \E w \in W : Before(W, w) + 1 = Cardinality(W)
<1>0. IsFiniteSet(W) /\ Cardinality(W) \in Nat
  BY FourWords, FS_Subset, FS_CardinalityType
<1>1. ASSUME NEW w \in W
      PROVE  IsFiniteSet(W \ {w}) /\ Cardinality(W \ {w}) = Cardinality(W) - 1
  BY <1>0, FS_RemoveElement
<1>2. ASSUME NEW w \in W PROVE Before(W, w) \in Nat /\ Before(W, w) + 1 <= Cardinality(W)
  <2>1. {v \in W : v < w} \in SUBSET (W \ {w})
    OBVIOUS
  <2>2. IsFiniteSet({v \in W : v < w}) /\ Cardinality({v \in W : v < w}) <= Cardinality(W \ {w})
    BY <1>1, <2>1, FS_Subset
  <2>3. Cardinality({v \in W : v < w}) \in Nat
    BY <2>2, FS_CardinalityType
  <2> QED BY <1>0, <1>1, <2>2, <2>3 DEF Before
<1>3. ASSUME W # {} PROVE \E w \in W : Before(W, w) + 1 = Cardinality(W)
  <2>1. PICK w \in W : \A v \in W : v <= w
    <3>0. \A v \in W : v = 0 \/ v = 1 \/ v = 2 \/ v = 3
      OBVIOUS
    <3>1. CASE 3 \in W
      BY <3>0, <3>1
    <3>2. CASE 3 \notin W /\ 2 \in W
      BY <3>0, <3>2
    <3>3. CASE 3 \notin W /\ 2 \notin W /\ 1 \in W
      BY <3>0, <3>3
    <3>4. CASE 3 \notin W /\ 2 \notin W /\ 1 \notin W
      <4>1. PICK v \in W : TRUE
        BY <1>3
      <4>2. 0 \in W /\ \A u \in W : u = 0
        BY <3>0, <3>4, <4>1
      <4>3. 0 <= 0
        OBVIOUS
      <4> QED BY <4>2, <4>3, Zenon
    <3> QED BY <3>1, <3>2, <3>3, <3>4
  <2>2. {v \in W : v < w} = W \ {w}
    <3>1. W \subseteq Int
      OBVIOUS
    <3>2. \A v \in W : v < w <=> v # w
      BY <2>1, <3>1
    <3> QED BY <3>2
  <2>3. Cardinality({v \in W : v < w}) = Cardinality(W) - 1
    BY <1>1, <2>2
  <2>4. \A c \in Nat : (c - 1) + 1 = c
    OBVIOUS
  <2>5. Before(W, w) + 1 = Cardinality(W)
    BY <1>0, <2>3, <2>4, Zenon DEF Before
  <2> QED BY <2>5
<1> QED BY <1>2, <1>3

(* Sizes of a block and of its header. *)
HeadSize(b) == Len(Header(b))
BodySize(b) == 2 * Cardinality(Words(b.enable))

LEMMA BlockIs ==
  ASSUME NEW b \in Burnable
  PROVE  /\ Header(b) \in Seq(Nat) /\ Data(b) \in Seq(Nat) /\ HeadSize(b) \in 1..2 /\ BodySize(b) \in Nat
         /\ HeadSize(b) = (IF b.extended THEN 2 ELSE 1) /\ Len(Data(b)) = BodySize(b)
         /\ \A i \in 1..BodySize(b) : Data(b)[i] = b.mark + i
         /\ ~b.extended => Header(b)[1] = b.section * 16 + b.enable
         /\ b.extended => Header(b)[1] = (b.section % 8) * 32 + 15 /\ Header(b)[2] = (b.section \div 8) * 16 + b.enable
<1>0. b.section \in Nat /\ b.enable \in 0..15 /\ b.extended \in BOOLEAN /\ b.mark \in Nat
  BY DEF Burnable
<1>1. Cardinality(Words(b.enable)) \in Nat /\ BodySize(b) \in Nat
  BY WordsIs DEF BodySize
<1>2. Data(b) \in Seq(Nat) /\ Len(Data(b)) = BodySize(b) /\ \A i \in 1..BodySize(b) : Data(b)[i] = b.mark + i
  <2>1. Data(b) = [n \in 1..BodySize(b) |-> b.mark + n]
    BY DEF Data, BodySize
  <2>2. \A n \in 1..BodySize(b) : b.mark + n \in Nat
    BY <1>0, <1>1
  <2> QED BY <1>1, <2>1, <2>2
<1>3. b.section % 8 \in Nat /\ b.section \div 8 \in Nat
  BY <1>0
<1>4. CASE b.extended
  <2>1. Header(b) = <<(b.section % 8) * 32 + 15, (b.section \div 8) * 16 + b.enable>>
    BY <1>4 DEF Header
  <2>2. (b.section % 8) * 32 + 15 \in Nat /\ (b.section \div 8) * 16 + b.enable \in Nat
    BY <1>0, <1>3
  <2> QED BY <1>1, <1>2, <1>4, <2>1, <2>2 DEF HeadSize
<1>5. CASE ~b.extended
  <2>1. Header(b) = <<b.section * 16 + b.enable>>
    BY <1>5 DEF Header
  <2>2. b.section * 16 + b.enable \in Nat
    BY <1>0
  <2> QED BY <1>1, <1>2, <1>5, <2>1, <2>2 DEF HeadSize
<1> QED BY <1>4, <1>5

(* The log after each block. *)
Adds(r, b) == (r \o Header(b)) \o Data(b)
IsLog(r, blocks) ==
  /\ r \in [0..Len(blocks) -> Seq(Nat)] /\ r[0] = <<>>
  /\ \A n \in 1..Len(blocks) : r[n] = Adds(r[n - 1], blocks[n])
  /\ Burnt(blocks) = r[Len(blocks)]

LEMMA AddsType ==
  ASSUME NEW r \in Seq(Nat), NEW b \in Burnable
  PROVE  /\ Adds(r, b) \in Seq(Nat) /\ Len(r) \in Nat
         /\ Len(Adds(r, b)) = Len(r) + HeadSize(b) + BodySize(b)
         /\ \A i \in 1..Len(r) : Adds(r, b)[i] = r[i]
         /\ \A i \in 1..HeadSize(b) : Adds(r, b)[Len(r) + i] = Header(b)[i]
         /\ \A i \in 1..BodySize(b) : Adds(r, b)[Len(r) + HeadSize(b) + i] = Data(b)[i]
<1> DEFINE H == Header(b)
           D == Data(b)
           q == r \o H
<1>1. H \in Seq(Nat) /\ D \in Seq(Nat) /\ Len(H) = HeadSize(b) /\ Len(D) = BodySize(b)
  BY BlockIs DEF HeadSize
<1>n. PICK S : S = Nat
  OBVIOUS
<1> HIDE DEF H, D
<1>s. r \in Seq(S) /\ H \in Seq(S) /\ D \in Seq(S)
  BY <1>1, <1>n
<1>2. /\ q \in Seq(S) /\ Len(q) = Len(r) + Len(H) /\ Len(r) \in Nat /\ Len(H) \in Nat /\ Len(D) \in Nat
      /\ \A i \in 1..Len(r) : q[i] = r[i]
      /\ \A i \in 1..Len(H) : q[Len(r) + i] = H[i]
  BY <1>s
<1> HIDE DEF q
<1>q. q \in Seq(S)
  BY <1>2
<1>3. /\ q \o D \in Seq(S) /\ Len(q \o D) = Len(q) + Len(D)
      /\ \A i \in 1..Len(q) : (q \o D)[i] = q[i]
      /\ \A i \in 1..Len(D) : (q \o D)[Len(q) + i] = D[i]
  BY <1>s, <1>q
<1>4. Adds(r, b) = q \o D
  BY DEF Adds, q, H, D
<1>5. \A i \in 1..Len(r) : i \in 1..Len(q)
  BY <1>2
<1>6. \A i \in 1..Len(H) : Len(r) + i \in 1..Len(q)
  BY <1>2
<1>7. Adds(r, b) \in Seq(Nat)
  BY <1>n, <1>3, <1>4
<1> QED BY <1>1, <1>2, <1>3, <1>4, <1>5, <1>6, <1>7 DEF H, D

LEMMA LogIs ==
  ASSUME NEW blocks \in Seq(Burnable)
  PROVE  \E r : IsLog(r, blocks)
<1> DEFINE L == Len(blocks)
           G == [p \in (1..L) \X Seq(Nat) |-> Adds(p[2], blocks[p[1]])]
<1>0. L \in Nat /\ \A n \in 1..L : blocks[n] \in Burnable
  OBVIOUS
<1>1. G \in [(1..L) \X Seq(Nat) -> Seq(Nat)] /\ \A n \in 1..L, x \in Seq(Nat) : G[<<n, x>>] = Adds(x, blocks[n])
  BY <1>0, AddsType
<1>2. <<>> \in Seq(Nat)
  OBVIOUS
<1>3. PICK w : IsRecursion(w, L, Seq(Nat), <<>>, G)
  <2> HIDE DEF G, L
  <2> QED BY <1>0, <1>1, <1>2, RecursionExists
<1> HIDE DEF G
<1>4. w \in [0..L -> Seq(Nat)] /\ w[0] = <<>> /\ \A n \in 1..L : w[n] = Adds(w[n - 1], blocks[n])
  <2>1. ASSUME NEW n \in 1..L PROVE w[n] = Adds(w[n - 1], blocks[n])
    <3>0. n - 1 \in 0..L
      BY <1>0
    <3>1. w[n - 1] \in Seq(Nat) /\ w[n] = G[<<n, w[n - 1]>>]
      <4> HIDE DEF L
      <4> QED BY <3>0, <1>3 DEF IsRecursion
    <3> QED BY <1>1, <3>1
  <2> QED BY <1>3, <2>1 DEF IsRecursion
<1>5. w = [n \in 0..L |-> IF n = 0 THEN <<>> ELSE Adds(w[n - 1], blocks[n])]
  <2>1. ASSUME NEW n \in 0..L PROVE w[n] = IF n = 0 THEN <<>> ELSE Adds(w[n - 1], blocks[n])
    <3>1. n = 0 \/ n \in 1..L
      BY <1>0
    <3> QED BY <1>0, <1>4, <3>1
  <2>2. w = [n \in 0..L |-> w[n]]
    BY <1>4
  <2> QED BY <2>1, <2>2
<1> DEFINE f == CHOOSE g : g = [n \in 0..L |-> IF n = 0 THEN <<>> ELSE Adds(g[n - 1], blocks[n])]
<1>6. Burnt(blocks) = f[L]
  BY DEF Burnt, Adds
<1>7. f = [n \in 0..L |-> IF n = 0 THEN <<>> ELSE Adds(f[n - 1], blocks[n])]
  <2> HIDE DEF L
  <2> QED BY <1>5
<1> HIDE DEF f
<1>8. f[0] = <<>> /\ \A n \in 1..L : f[n] = Adds(f[n - 1], blocks[n])
  <2>1. 0 \in 0..L /\ \A n \in 1..L : n \in 0..L /\ n # 0
    BY <1>0
  <2> QED BY <1>7, <2>1
<1>9. \A n \in 0..L : f[n] \in Seq(Nat)
  <2> DEFINE T == {n \in Nat : f[n] \in Seq(Nat)}
  <2>1. 0 \in T
    BY <1>8, <1>2
  <2>2. ASSUME NEW n \in 0..L - 1, n \in T PROVE n + 1 \in T
    <3>1. PICK m \in 1..L : m = n + 1 /\ m - 1 = n
      BY <1>0
    <3>2. f[m] = Adds(f[n], blocks[m]) /\ f[n] \in Seq(Nat)
      BY <1>8, <2>2, <3>1
    <3>3. f[m] \in Seq(Nat)
      BY <1>0, <3>2, AddsType
    <3> QED BY <1>0, <3>1, <3>3
  <2>3. \A n \in 0..L : n \in T
    <3> HIDE DEF T, L
    <3> QED BY <1>0, <2>1, <2>2, Reaches
  <2> QED BY <2>3
<1>10. f \in [0..L -> Seq(Nat)]
  <2>1. DOMAIN f = 0..L /\ f = [n \in DOMAIN f |-> f[n]]
    BY <1>7
  <2> QED BY <1>9, <2>1
<1>11. IsLog(f, blocks)
  BY <1>6, <1>8, <1>10 DEF IsLog
<1> QED BY <1>11

(* The log of the first n blocks, and where it ends. *)
Log(blocks, n) == Burnt(SubSeq(blocks, 1, n))
Ends(blocks, n) == Len(Log(blocks, n))

LEMMA LogGrows ==
  ASSUME NEW blocks \in Seq(Burnable)
  PROVE  /\ \A n \in 0..Len(blocks) : Log(blocks, n) \in Seq(Nat) /\ Ends(blocks, n) \in Nat
         /\ Log(blocks, 0) = <<>> /\ Ends(blocks, 0) = 0 /\ Log(blocks, Len(blocks)) = Burnt(blocks)
         /\ \A n \in 1..Len(blocks) : Log(blocks, n) = Adds(Log(blocks, n - 1), blocks[n])
<1> DEFINE L == Len(blocks)
<1>0. L \in Nat /\ \A n \in 1..L : blocks[n] \in Burnable
  OBVIOUS
<1>1. PICK r : IsLog(r, blocks)
  BY LogIs
<1>2. r \in [0..L -> Seq(Nat)] /\ r[0] = <<>> /\ \A n \in 1..L : r[n] = Adds(r[n - 1], blocks[n])
  BY <1>1 DEF IsLog
<1>3. ASSUME NEW n \in 0..L PROVE Log(blocks, n) = r[n]
  <2> DEFINE s == SubSeq(blocks, 1, n)
  <2>1. s \in Seq(Burnable) /\ Len(s) = n /\ \A i \in 1..n : s[i] = blocks[i]
    BY <1>0
  <2> HIDE DEF s
  <2>2. PICK q : IsLog(q, s)
    BY <2>1, LogIs
  <2>3. q \in [0..n -> Seq(Nat)] /\ q[0] = <<>> /\ (\A i \in 1..n : q[i] = Adds(q[i - 1], s[i])) /\ Burnt(s) = q[n]
    BY <2>1, <2>2 DEF IsLog
  <2> DEFINE T == {i \in Nat : q[i] = r[i]}
  <2>4. 0 \in T
    BY <1>2, <2>3
  <2>5. ASSUME NEW i \in 0..n - 1, i \in T PROVE i + 1 \in T
    <3>1. PICK m \in 1..n : m = i + 1 /\ m - 1 = i /\ m \in 1..L
      BY <1>0
    <3>2. q[m] = Adds(q[i], blocks[m]) /\ r[m] = Adds(r[i], blocks[m]) /\ q[i] = r[i]
      BY <1>2, <2>1, <2>3, <2>5, <3>1
    <3> QED BY <1>0, <3>1, <3>2
  <2>6. \A i \in 0..n : i \in T
    <3>1. n \in Nat
      BY <1>0
    <3> HIDE DEF T, L
    <3> QED BY <3>1, <2>4, <2>5, Reaches
  <2>7. q[n] = r[n]
    BY <1>0, <2>6
  <2> QED BY <2>3, <2>7 DEF Log, s
<1>4. \A n \in 1..L : n \in 0..L /\ n - 1 \in 0..L
  BY <1>0
<1>5. /\ \A n \in 0..L : Log(blocks, n) \in Seq(Nat)
      /\ \A n \in 1..L : Log(blocks, n) = Adds(Log(blocks, n - 1), blocks[n])
      /\ Log(blocks, 0) = <<>> /\ Log(blocks, L) = Burnt(blocks)
  <2>1. 0 \in 0..L /\ L \in 0..L
    BY <1>0
  <2>2. Burnt(blocks) = r[L]
    BY <1>1 DEF IsLog
  <2> HIDE DEF L
  <2> QED BY <1>2, <1>3, <1>4, <2>1, <2>2
<1>6. \A s \in Seq(Nat) : Len(s) \in Nat
  OBVIOUS
<1>7. Len(<<>>) = 0
  OBVIOUS
<1> QED BY <1>5, <1>6, <1>7 DEF Ends

LEMMA LogStep ==
  ASSUME NEW blocks \in Seq(Burnable), NEW n \in 1..Len(blocks)
  PROVE  /\ blocks[n] \in Burnable /\ n - 1 \in 0..Len(blocks) /\ n \in 0..Len(blocks)
         /\ Ends(blocks, n - 1) \in Nat /\ Ends(blocks, n) \in Nat
         /\ HeadSize(blocks[n]) \in 1..2 /\ BodySize(blocks[n]) \in Nat
         /\ Ends(blocks, n) = Ends(blocks, n - 1) + HeadSize(blocks[n]) + BodySize(blocks[n])
         /\ \A i \in 1..Ends(blocks, n - 1) : Log(blocks, n)[i] = Log(blocks, n - 1)[i]
         /\ \A i \in 1..HeadSize(blocks[n]) : Log(blocks, n)[Ends(blocks, n - 1) + i] = Header(blocks[n])[i]
         /\ \A i \in 1..BodySize(blocks[n]) :
              Log(blocks, n)[Ends(blocks, n - 1) + HeadSize(blocks[n]) + i] = Data(blocks[n])[i]
<1> DEFINE b == blocks[n]
           p == Log(blocks, n - 1)
<1>1. b \in Burnable /\ n - 1 \in 0..Len(blocks) /\ n \in 0..Len(blocks)
  OBVIOUS
<1>2. p \in Seq(Nat) /\ Log(blocks, n) = Adds(p, b) /\ Ends(blocks, n) \in Nat /\ Ends(blocks, n - 1) \in Nat
  BY <1>1, LogGrows
<1>3. HeadSize(b) \in 1..2 /\ BodySize(b) \in Nat
  BY <1>1, BlockIs
<1>4. Ends(blocks, n - 1) = Len(p) /\ Ends(blocks, n) = Len(Adds(p, b))
  BY <1>2 DEF Ends
<1> HIDE DEF b, p
<1>5. /\ Len(Adds(p, b)) = Len(p) + HeadSize(b) + BodySize(b)
      /\ \A i \in 1..Len(p) : Adds(p, b)[i] = p[i]
      /\ \A i \in 1..HeadSize(b) : Adds(p, b)[Len(p) + i] = Header(b)[i]
      /\ \A i \in 1..BodySize(b) : Adds(p, b)[Len(p) + HeadSize(b) + i] = Data(b)[i]
  BY <1>1, <1>2, AddsType
<1> QED BY <1>1, <1>2, <1>3, <1>4, <1>5 DEF b, p

LEMMA LogPrefix ==
  ASSUME NEW blocks \in Seq(Burnable), NEW m \in 0..Len(blocks), NEW n \in 0..Len(blocks), m <= n
  PROVE  /\ Ends(blocks, m) \in Nat /\ Ends(blocks, n) \in Nat /\ n - m <= Ends(blocks, n) - Ends(blocks, m)
         /\ \A i \in 1..Ends(blocks, m) : Log(blocks, n)[i] = Log(blocks, m)[i]
<1> DEFINE L == Len(blocks)
           E(x) == Ends(blocks, x)
           T == {d \in Nat : m + d <= L =>
                   d <= E(m + d) - E(m) /\ \A i \in 1..E(m) : Log(blocks, m + d)[i] = Log(blocks, m)[i]}
<1>0. L \in Nat /\ m \in Nat /\ n \in Nat /\ \A x \in 0..L : E(x) \in Nat
  BY LogGrows
<1>1. 0 \in T
  <2>1. m + 0 = m /\ 0 <= E(m) - E(m)
    BY <1>0
  <2> HIDE DEF E
  <2> QED BY <2>1
<1>2. ASSUME NEW d \in 0..L - 1, d \in T PROVE d + 1 \in T
  <2>0. d + 1 \in Nat /\ d \in Nat
    BY <1>0
  <2> SUFFICES ASSUME m + (d + 1) <= L
               PROVE  /\ d + 1 <= E(m + (d + 1)) - E(m)
                      /\ \A i \in 1..E(m) : Log(blocks, m + (d + 1))[i] = Log(blocks, m)[i]
    BY <2>0
  <2>1. PICK k \in 1..L : k = m + (d + 1)
    BY <1>0, <2>0
  <2>2. k - 1 = m + d /\ m + d <= L
    BY <1>0, <2>0, <2>1
  <2>3. d <= E(k - 1) - E(m) /\ \A i \in 1..E(m) : Log(blocks, k - 1)[i] = Log(blocks, m)[i]
    BY <1>2, <2>2
  <2>4. /\ E(k - 1) \in Nat /\ E(k) \in Nat /\ E(k - 1) + 1 <= E(k)
        /\ \A i \in 1..E(k - 1) : Log(blocks, k)[i] = Log(blocks, k - 1)[i]
    <3>1. HeadSize(blocks[k]) \in 1..2 /\ BodySize(blocks[k]) \in Nat /\ E(k - 1) \in Nat /\ E(k) \in Nat
          /\ E(k) = E(k - 1) + HeadSize(blocks[k]) + BodySize(blocks[k])
      BY LogStep
    <3>2. \A i \in 1..E(k - 1) : Log(blocks, k)[i] = Log(blocks, k - 1)[i]
      BY LogStep
    <3> HIDE DEF E
    <3> QED BY <3>1, <3>2
  <2> HIDE DEF E
  <2>5. E(m) \in Nat
    BY <1>0
  <2>6. d + 1 <= E(k) - E(m) /\ \A i \in 1..E(m) : i \in 1..E(k - 1)
    BY <2>0, <2>3, <2>4, <2>5
  <2> QED BY <2>1, <2>3, <2>4, <2>6
<1>3. \A d \in 0..L : d \in T
  <2> HIDE DEF T, L
  <2> QED BY <1>0, <1>1, <1>2, Reaches
<1>4. PICK d \in 0..L : d = n - m /\ m + d = n
  BY <1>0
<1>5. d <= E(n) - E(m) /\ \A i \in 1..E(m) : Log(blocks, n)[i] = Log(blocks, m)[i]
  <2>1. n <= L
    OBVIOUS
  <2>2. d \in T
    <3> HIDE DEF T, L
    <3> QED BY <1>3
  <2>3. m + d <= L
    BY <1>4, <2>1
  <2> QED BY <1>4, <2>2, <2>3
<1> QED BY <1>0, <1>4, <1>5

(* Where the bytes of a block stand in the log. *)
LEMMA LogHolds ==
  ASSUME NEW blocks \in Seq(Burnable), NEW n \in 1..Len(blocks)
  PROVE  /\ Burnt(blocks) \in Seq(Nat) /\ Ends(blocks, n) <= Len(Burnt(blocks))
         /\ \A i \in 1..HeadSize(blocks[n]) : Burnt(blocks)[Ends(blocks, n - 1) + i] = Header(blocks[n])[i]
         /\ \A i \in 1..BodySize(blocks[n]) :
              Burnt(blocks)[Ends(blocks, n - 1) + HeadSize(blocks[n]) + i] = blocks[n].mark + i
<1> DEFINE L == Len(blocks)
           b == blocks[n]
           h == HeadSize(b)
           c == BodySize(b)
           e == Ends(blocks, n - 1)
<1>1. L \in 0..L /\ n \in 0..L /\ n <= L /\ b \in Burnable
  OBVIOUS
<1>2. Log(blocks, L) = Burnt(blocks) /\ Burnt(blocks) \in Seq(Nat) /\ Ends(blocks, L) = Len(Burnt(blocks))
  BY <1>1, LogGrows DEF Ends
<1>3. /\ Ends(blocks, n) \in Nat /\ Ends(blocks, L) \in Nat /\ L - n <= Ends(blocks, L) - Ends(blocks, n)
      /\ \A i \in 1..Ends(blocks, n) : Burnt(blocks)[i] = Log(blocks, n)[i]
  BY <1>1, <1>2, LogPrefix
<1>4. /\ e \in Nat /\ h \in 1..2 /\ c \in Nat /\ Ends(blocks, n) = e + h + c
      /\ \A i \in 1..h : Log(blocks, n)[e + i] = Header(b)[i]
      /\ \A i \in 1..c : Log(blocks, n)[e + h + i] = Data(b)[i]
  BY LogStep
<1>5. \A i \in 1..c : Data(b)[i] = b.mark + i
  BY <1>1, BlockIs
<1>6. L - n >= 0
  BY <1>1
<1> HIDE DEF L, b, h, c, e
<1>7. \A i \in 1..h : e + i \in 1..Ends(blocks, n)
  BY <1>4
<1>8. \A i \in 1..c : e + h + i \in 1..Ends(blocks, n)
  BY <1>4
<1>9. Ends(blocks, n) <= Len(Burnt(blocks))
  BY <1>1, <1>2, <1>3, <1>6 DEF L
<1>10. /\ \A i \in 1..h : Burnt(blocks)[e + i] = Header(b)[i]
       /\ \A i \in 1..c : Burnt(blocks)[e + h + i] = b.mark + i
  BY <1>3, <1>4, <1>5, <1>7, <1>8
<1> QED BY <1>2, <1>9, <1>10 DEF b, h, c, e

(* What was burnt last of the blocks in W, in cell k. *)
Cells == (0..MAX_SECTION - 1) \X (0..3)
Latest(W) == CHOOSE n \in W : \A j \in W : j <= n
Value(blocks, W, k) == IF W = {} THEN <<Erased, Erased>> ELSE WordOf(blocks[Latest(W)], k[2])
Upto(blocks, N, k, j) == {n \in Writers(blocks, N, k) : n <= j}

LEMMA LastByteIs ==
  ASSUME NEW blocks \in Seq(Burnable), NEW n \in 1..Len(blocks), NEW w \in Words(blocks[n].enable)
  PROVE  /\ Before(Words(blocks[n].enable), w) \in Nat
         /\ LastByte(blocks, n, w) =
              Ends(blocks, n - 1) + HeadSize(blocks[n]) + 2 * (Before(Words(blocks[n].enable), w) + 1)
         /\ LastByte(blocks, n, w) \in Ends(blocks, n - 1) + HeadSize(blocks[n]) + 2 .. Ends(blocks, n)
<1> DEFINE b == blocks[n]
           W == Words(b.enable)
           B == Before(W, w)
           p == Log(blocks, n - 1)
<1>1. W \subseteq 0..3 /\ Cardinality(W) \in Nat
  BY WordsIs
<1>2. B \in Nat /\ B + 1 <= Cardinality(W)
  BY <1>1, BeforeIs
<1>3. /\ b \in Burnable /\ n - 1 \in 0..Len(blocks) /\ Ends(blocks, n - 1) \in Nat /\ HeadSize(b) \in 1..2
      /\ Ends(blocks, n) = Ends(blocks, n - 1) + HeadSize(b) + BodySize(b)
  BY LogStep
<1>4. p \in Seq(Nat) /\ Header(b) \in Seq(Nat)
  BY <1>3, LogGrows, BlockIs
<1>5. Len(p \o Header(b)) = Ends(blocks, n - 1) + HeadSize(b)
  <2> HIDE DEF p, b
  <2>1. Len(p \o Header(b)) = Len(p) + Len(Header(b))
    BY <1>4
  <2> QED BY <2>1 DEF HeadSize, Ends, p
<1>6. LastByte(blocks, n, w) = Ends(blocks, n - 1) + HeadSize(b) + 2 * (B + 1)
  BY <1>5 DEF LastByte, Log
<1>7. BodySize(b) = 2 * Cardinality(W)
  BY DEF BodySize
<1> HIDE DEF b, W, B
<1> QED BY <1>1, <1>2, <1>3, <1>6, <1>7 DEF b, W, B

(* The last word of a block ends the block. *)
LEMMA LastWord ==
  ASSUME NEW blocks \in Seq(Burnable), NEW n \in 1..Len(blocks), Words(blocks[n].enable) # {}
  PROVE  \E w \in Words(blocks[n].enable) : LastByte(blocks, n, w) = Ends(blocks, n)
<1> DEFINE W == Words(blocks[n].enable)
<1>1. W \subseteq 0..3
  BY WordsIs
<1>2. PICK w \in W : Before(W, w) + 1 = Cardinality(W)
  BY <1>1, BeforeIs
<1>3. LastByte(blocks, n, w) = Ends(blocks, n - 1) + HeadSize(blocks[n]) + 2 * (Before(W, w) + 1)
  BY LastByteIs
<1>4. Ends(blocks, n) = Ends(blocks, n - 1) + HeadSize(blocks[n]) + BodySize(blocks[n])
  BY LogStep
<1>5. BodySize(blocks[n]) = 2 * Cardinality(W)
  BY DEF BodySize
<1> QED BY <1>2, <1>3, <1>4, <1>5

LEMMA LatestIs ==
  ASSUME NEW W, NEW j \in W, W \subseteq Nat, \A n \in W : n <= j
  PROVE  Latest(W) = j
<1>1. \E n \in W : \A i \in W : i <= n
  OBVIOUS
<1>2. Latest(W) \in W /\ \A i \in W : i <= Latest(W)
  BY <1>1 DEF Latest
<1>3. Latest(W) <= j /\ j <= Latest(W) /\ Latest(W) \in Nat /\ j \in Nat
  BY <1>2
<1>4. \A x, y \in Nat : x <= y /\ y <= x => x = y
  OBVIOUS
<1> QED BY <1>3, <1>4, Zenon

(* What one more block adds. *)
LEMMA UptoStep ==
  ASSUME NEW blocks \in Seq(Burnable), NEW N \in Nat, NEW k, NEW j \in 0..Len(blocks) - 1
  PROVE  /\ j + 1 \in Writers(blocks, N, k) =>
              Value(blocks, Upto(blocks, N, k, j + 1), k) = WordOf(blocks[j + 1], k[2])
         /\ j + 1 \notin Writers(blocks, N, k) => Upto(blocks, N, k, j + 1) = Upto(blocks, N, k, j)
<1>0. Writers(blocks, N, k) \subseteq Nat /\ j \in Nat
  BY DEF Writers
<1>1. ASSUME j + 1 \in Writers(blocks, N, k)
      PROVE  Value(blocks, Upto(blocks, N, k, j + 1), k) = WordOf(blocks[j + 1], k[2])
  <2> DEFINE W == Upto(blocks, N, k, j + 1)
  <2>1. j + 1 \in W /\ W \subseteq Nat /\ \A n \in W : n <= j + 1
    BY <1>0, <1>1 DEF Upto
  <2> HIDE DEF W
  <2>2. Latest(W) = j + 1 /\ W # {}
    BY <2>1, LatestIs
  <2> QED BY <2>2 DEF Value, W
<1>2. ASSUME j + 1 \notin Writers(blocks, N, k)
      PROVE  Upto(blocks, N, k, j + 1) = Upto(blocks, N, k, j)
  <2>1. \A n \in Writers(blocks, N, k) : n <= j + 1 <=> n <= j
    BY <1>0, <1>2
  <2> QED BY <2>1 DEF Upto
<1> QED BY <1>1, <1>2

(* Nothing is read of the blocks after the cut. *)
LEMMA UptoCut ==
  ASSUME NEW blocks \in Seq(Burnable), NEW N \in Nat, NEW k, NEW j \in 0..Len(blocks),
         j = Len(blocks) \/ Ends(blocks, j) >= N
  PROVE  Upto(blocks, N, k, j) = Writers(blocks, N, k)
<1>0. Len(blocks) \in Nat /\ j \in Nat
  OBVIOUS
<1>1. ASSUME NEW n \in Writers(blocks, N, k) PROVE n <= j
  <2>1. n \in 1..Len(blocks) /\ k[2] \in Words(blocks[n].enable) /\ LastByte(blocks, n, k[2]) <= N
    BY DEF Writers
  <2>2. CASE j = Len(blocks)
    BY <2>1, <2>2
  <2>3. CASE Ends(blocks, j) >= N
    <3> SUFFICES ASSUME n > j PROVE FALSE
      BY <1>0, <2>1
    <3>1. j <= n - 1 /\ n - 1 \in 0..Len(blocks)
      BY <1>0, <2>1
    <3>2. /\ Ends(blocks, j) \in Nat /\ Ends(blocks, n - 1) \in Nat
          /\ (n - 1) - j <= Ends(blocks, n - 1) - Ends(blocks, j)
      BY <3>1, LogPrefix
    <3>3. HeadSize(blocks[n]) \in 1..2 /\ Ends(blocks, n) \in Nat
      BY <2>1, LogStep
    <3>4. LastByte(blocks, n, k[2]) \in Ends(blocks, n - 1) + HeadSize(blocks[n]) + 2 .. Ends(blocks, n)
      BY <2>1, LastByteIs
    <3>5. Ends(blocks, j) <= Ends(blocks, n - 1)
      BY <3>1, <3>2, <1>0, <2>1
    <3> QED BY <2>1, <2>3, <3>2, <3>3, <3>4, <3>5
  <2> QED BY <2>2, <2>3
<1> QED BY <1>1 DEF Upto

DecodeStates == [map : [Cells -> Nat \X Nat], offset : Nat \ {0}]

(* One block's words, as far as they are there. *)
FirstByte(o, e, w) == o + 2 * Before(Words(e), w)
Behind(o, e) == o + 2 * Cardinality(Words(e))
Here(raw, o, e, w) == w \in Words(e) /\ FirstByte(o, e, w) + 1 <= Len(raw)

Took(raw, s, section, e, u) ==
  /\ u \in DecodeStates
  /\ section >= MAX_SECTION =>
       /\ u.map = s.map
       /\ u.offset = IF Behind(s.offset, e) > Len(raw) THEN Len(raw) + 1 ELSE Behind(s.offset, e)
  /\ ~(section >= MAX_SECTION) =>
       /\ \A k \in Cells :
            u.map[k] = IF k[1] = section /\ Here(raw, s.offset, e, k[2])
                       THEN <<raw[FirstByte(s.offset, e, k[2])], raw[FirstByte(s.offset, e, k[2]) + 1]>>
                       ELSE s.map[k]
       /\ u.offset = IF \A w \in Words(e) : Here(raw, s.offset, e, w) THEN Behind(s.offset, e) ELSE Len(raw) + 1

LEMMA TakeIs ==
  ASSUME NEW raw \in Seq(Nat), NEW s \in DecodeStates, NEW section \in Nat, NEW e,
         NEW u, u = TakeWords(raw, s, section, e)
  PROVE  Took(raw, s, section, e, u)
<1> DEFINE o == s.offset
           n == Len(raw)
           there == {w \in Words(e) : FirstByte(o, e, w) + 1 <= n}
           M == [k \in Cells |-> IF k[1] = section /\ k[2] \in there
                                 THEN <<raw[FirstByte(o, e, k[2])], raw[FirstByte(o, e, k[2]) + 1]>> ELSE s.map[k]]
<1>0. /\ s.map \in [Cells -> Nat \X Nat] /\ o \in Nat \ {0} /\ s = [map |-> s.map, offset |-> o] /\ DOMAIN s.map = Cells
      /\ n \in Nat
  BY DEF DecodeStates
<1>1. Behind(o, e) \in Nat \ {0}
  BY <1>0, WordsIs DEF Behind
<1>2. ASSUME NEW w \in there
      PROVE  raw[FirstByte(o, e, w)] \in Nat /\ raw[FirstByte(o, e, w) + 1] \in Nat
  <2>1. Before(Words(e), w) \in Nat
    BY <1>2, WordsIs, BeforeIs
  <2>2. FirstByte(o, e, w) \in 1..n /\ FirstByte(o, e, w) + 1 \in 1..n
    BY <1>0, <1>2, <2>1 DEF FirstByte
  <2> QED BY <2>2
<1>3. M \in [Cells -> Nat \X Nat]
  <2>1. ASSUME NEW k \in Cells, k[1] = section /\ k[2] \in there
        PROVE  <<raw[FirstByte(o, e, k[2])], raw[FirstByte(o, e, k[2]) + 1]>> \in Nat \X Nat
    BY <1>2, <2>1
  <2>2. \A k \in Cells : s.map[k] \in Nat \X Nat
    BY <1>0
  <2> HIDE DEF there
  <2> QED BY <2>1, <2>2
<1>4. ASSUME section >= MAX_SECTION
      PROVE  u = [map |-> s.map, offset |-> IF Behind(o, e) > n THEN n + 1 ELSE Behind(o, e)]
  <2>1. u = [s EXCEPT !.offset = IF Behind(o, e) > n THEN n + 1 ELSE Behind(o, e)]
    BY <1>4, Zenon DEF TakeWords, Behind
  <2> HIDE DEF o, n
  <2> QED BY <1>0, <2>1
<1>5. ASSUME ~(section >= MAX_SECTION)
      PROVE  u = [map |-> M, offset |-> IF there = Words(e) THEN Behind(o, e) ELSE n + 1]
  <2>1. u = [map |-> [k \in DOMAIN s.map |-> IF k[1] = section /\ k[2] \in there
                                 THEN <<raw[FirstByte(o, e, k[2])], raw[FirstByte(o, e, k[2]) + 1]>> ELSE s.map[k]],
             offset |-> IF there = Words(e) THEN Behind(o, e) ELSE n + 1]
    BY <1>5, Zenon DEF TakeWords, Behind, FirstByte
  <2> QED BY <1>0, <2>1
<1>6. \A w : w \in there <=> Here(raw, o, e, w)
  BY DEF Here
<1>7. there = Words(e) <=> \A w \in Words(e) : Here(raw, o, e, w)
  BY <1>6 DEF Here
<1>8. CASE section >= MAX_SECTION
  <2> HIDE DEF o, n
  <2>1. u.map = s.map /\ u.offset = IF Behind(o, e) > n THEN n + 1 ELSE Behind(o, e)
    BY <1>4, <1>8
  <2>2. u \in DecodeStates
    BY <1>0, <1>1, <1>4, <1>8 DEF DecodeStates
  <2> QED BY <1>8, <2>1, <2>2 DEF o, n, Took
<1>9. CASE ~(section >= MAX_SECTION)
  <2>1. \A k \in Cells : M[k] = IF k[1] = section /\ k[2] \in there
                                 THEN <<raw[FirstByte(o, e, k[2])], raw[FirstByte(o, e, k[2]) + 1]>> ELSE s.map[k]
    BY Zenon
  <2> HIDE DEF M, o, n, there
  <2>2. u.map = M /\ u.offset = IF there = Words(e) THEN Behind(o, e) ELSE n + 1
    BY <1>5, <1>9
  <2>3. u \in DecodeStates
    BY <1>0, <1>1, <1>3, <1>5, <1>9 DEF DecodeStates
  <2>4. \A k \in Cells : u.map[k] = IF k[1] = section /\ Here(raw, o, e, k[2])
                                 THEN <<raw[FirstByte(o, e, k[2])], raw[FirstByte(o, e, k[2]) + 1]>> ELSE s.map[k]
    BY <1>6, <2>1, <2>2, Zenon
  <2>5. u.offset = IF \A w \in Words(e) : Here(raw, o, e, w) THEN Behind(o, e) ELSE n + 1
    BY <1>7, <2>2, Zenon
  <2> QED BY <1>9, <2>3, <2>4, <2>5 DEF o, n, Took
<1> QED BY <1>8, <1>9

(* The decoder has read the first j blocks; or it has ended. *)
UpToDate(blocks, N, j, s) == \A k \in Cells : s.map[k] = Value(blocks, Upto(blocks, N, k, j), k)
OnBlock(blocks, N, j, s) ==
  /\ s \in DecodeStates /\ j \in 0..Len(blocks) /\ s.offset = Ends(blocks, j) + 1 /\ Ends(blocks, j) <= N
  /\ UpToDate(blocks, N, j, s)
Decoded(blocks, N, s) ==
  s \in DecodeStates /\ s.offset > N /\ \A k \in Cells : s.map[k] = Value(blocks, Writers(blocks, N, k), k)

LEMMA CutIs ==
  ASSUME NEW blocks \in Seq(Burnable), NEW N \in 0..Len(Burnt(blocks)), NEW raw, raw = SubSeq(Burnt(blocks), 1, N)
  PROVE  raw \in Seq(Nat) /\ Len(raw) = N /\ N \in Nat /\ \A i \in 1..N : raw[i] = Burnt(blocks)[i]
<1> DEFINE B == Burnt(blocks)
<1>1. B \in Seq(Nat) /\ Len(B) \in Nat
  <2>1. Len(blocks) \in 0..Len(blocks)
    OBVIOUS
  <2>2. B \in Seq(Nat)
    BY <2>1, LogGrows
  <2> HIDE DEF B
  <2> QED BY <2>2
<1>2. PICK S : S = Nat
  OBVIOUS
<1> HIDE DEF B
<1>3. raw = SubSeq(B, 1, N) /\ N \in 0..Len(B) /\ B \in Seq(S)
  BY <1>1, <1>2 DEF B
<1>4. raw \in Seq(S) /\ Len(raw) = N /\ \A i \in 1..N : raw[i] = B[i]
  BY <1>1, <1>3
<1> QED BY <1>1, <1>2, <1>3, <1>4 DEF B

(* Reaching the cut, or the next block. *)
LEMMA ToNext ==
  ASSUME NEW blocks \in Seq(Burnable), NEW N \in Nat, NEW n \in 1..Len(blocks), NEW s \in DecodeStates,
         UpToDate(blocks, N, n, s),
         \/ s.offset = Ends(blocks, n) + 1 /\ Ends(blocks, n) <= N
         \/ s.offset = N + 1 /\ Ends(blocks, n) >= N
  PROVE  OnBlock(blocks, N, n, s) \/ Decoded(blocks, N, s)
<1>1. n \in 0..Len(blocks)
  OBVIOUS
<1>2. CASE s.offset = Ends(blocks, n) + 1 /\ Ends(blocks, n) <= N
  BY <1>1, <1>2 DEF OnBlock
<1>3. CASE s.offset = N + 1 /\ Ends(blocks, n) >= N
  <2>1. \A k : Upto(blocks, N, k, n) = Writers(blocks, N, k)
    BY <1>1, <1>3, UptoCut
  <2>2. s.offset > N
    BY <1>3
  <2> QED BY <2>1, <2>2 DEF Decoded, UpToDate
<1> QED BY <1>2, <1>3

CellTaken(raw, N, blocks, n, o, w) ==
  /\ Here(raw, o, blocks[n].enable, w) <=> LastByte(blocks, n, w) <= N
  /\ Here(raw, o, blocks[n].enable, w) =>
       <<raw[FirstByte(o, blocks[n].enable, w)], raw[FirstByte(o, blocks[n].enable, w) + 1]>> = WordOf(blocks[n], w)

LEMMA TakeCell ==
  ASSUME NEW blocks \in Seq(Burnable), NEW N \in 0..Len(Burnt(blocks)), NEW raw, raw = SubSeq(Burnt(blocks), 1, N),
         NEW n \in 1..Len(blocks), NEW b, b = blocks[n], NEW o, o = Ends(blocks, n - 1) + HeadSize(b) + 1,
         NEW w \in Words(b.enable)
  PROVE  CellTaken(raw, N, blocks, n, o, w)
<1> DEFINE W == Words(b.enable)
           B == Before(W, w)
           e == Ends(blocks, n - 1)
           h == HeadSize(b)
           f == FirstByte(o, b.enable, w)
           last == LastByte(blocks, n, w)
<1>1. raw \in Seq(Nat) /\ Len(raw) = N /\ N \in Nat /\ \A i \in 1..N : raw[i] = Burnt(blocks)[i]
  BY CutIs
<1>2. B \in Nat /\ B + 1 <= Cardinality(W) /\ Cardinality(W) \in Nat
  BY WordsIs, BeforeIs
<1>3. last = e + h + 2 * (B + 1)
  BY LastByteIs
<1>4. e \in Nat /\ h \in 1..2 /\ b \in Burnable
  BY LogStep
<1>5. BodySize(b) = 2 * Cardinality(W) /\ \A i \in 1..BodySize(b) : Burnt(blocks)[e + h + i] = b.mark + i
  BY LogHolds DEF BodySize
<1>6. f = o + 2 * B
  BY DEF FirstByte
<1>7. WordOf(b, w) = <<b.mark + 2 * B + 1, b.mark + 2 * B + 2>>
  BY DEF WordOf
<1>8. Here(raw, o, b.enable, w) <=> f + 1 <= N
  BY <1>1 DEF Here
<1>9. b.mark \in Nat
  BY <1>4 DEF Burnable
<1> HIDE DEF W, B, e, h, f, last
<1>10. o = e + h + 1
  BY DEF e, h
<1>11. f + 1 = last /\ f = e + h + (2 * B + 1) /\ f + 1 = e + h + (2 * B + 2) /\ f \in Nat /\ f >= 1
  <2>1. h \in Nat /\ e \in Nat /\ B \in Nat
    BY <1>2, <1>4
  <2>2. \A x, y, z \in Nat :
          /\ x + y + 1 + 2 * z + 1 = x + y + 2 * (z + 1) /\ x + y + 1 + 2 * z = x + y + (2 * z + 1)
          /\ x + y + 1 + 2 * z + 1 = x + y + (2 * z + 2)
          /\ x + y + 1 + 2 * z \in Nat /\ x + y + 1 + 2 * z >= 1
    OBVIOUS
  <2>3. f = e + h + 1 + 2 * B
    BY <1>6, <1>10
  <2> QED BY <1>3, <2>1, <2>2, <2>3, Zenon
<1>12. 2 * B + 1 \in 1..BodySize(b) /\ 2 * B + 2 \in 1..BodySize(b)
  BY <1>2, <1>5
<1>13. ASSUME f + 1 <= N PROVE <<raw[f], raw[f + 1]>> = WordOf(b, w)
  <2>1. f \in 1..N /\ f + 1 \in 1..N
    BY <1>1, <1>11, <1>13
  <2>2. raw[f] = Burnt(blocks)[f] /\ raw[f + 1] = Burnt(blocks)[f + 1]
    BY <1>1, <2>1
  <2>3. /\ Burnt(blocks)[e + h + (2 * B + 1)] = b.mark + (2 * B + 1)
        /\ Burnt(blocks)[e + h + (2 * B + 2)] = b.mark + (2 * B + 2)
    BY <1>5, <1>12
  <2>4. raw[f] = b.mark + (2 * B + 1) /\ raw[f + 1] = b.mark + (2 * B + 2)
    BY <1>11, <2>2, <2>3
  <2>5. b.mark + (2 * B + 1) = b.mark + 2 * B + 1 /\ b.mark + (2 * B + 2) = b.mark + 2 * B + 2
    BY <1>2, <1>9
  <2> QED BY <1>7, <2>4, <2>5
<1>14. /\ Here(raw, o, b.enable, w) <=> last <= N
       /\ Here(raw, o, b.enable, w) => <<raw[f], raw[f + 1]>> = WordOf(b, w)
  BY <1>8, <1>11, <1>13
<1> QED BY <1>14, Zenon DEF f, last, CellTaken

LEMMA TakeBlock ==
  ASSUME NEW blocks \in Seq(Burnable), NEW N \in 0..Len(Burnt(blocks)), NEW raw, raw = SubSeq(Burnt(blocks), 1, N),
         NEW n \in 1..Len(blocks), NEW b, b = blocks[n], NEW s \in DecodeStates,
         s.offset = Ends(blocks, n - 1) + HeadSize(b) + 1, s.offset <= N + 1, UpToDate(blocks, N, n - 1, s),
         NEW u, u = TakeWords(raw, s, b.section, b.enable)
  PROVE  OnBlock(blocks, N, n, u) \/ Decoded(blocks, N, u)
<1> DEFINE W == Words(b.enable)
           o == s.offset
           e == Ends(blocks, n - 1)
           h == HeadSize(b)
           c == BodySize(b)
           end == Ends(blocks, n)
           f(w) == FirstByte(o, b.enable, w)
<1>1. raw \in Seq(Nat) /\ Len(raw) = N /\ N \in Nat
  BY CutIs
<1>2. e \in Nat /\ h \in 1..2 /\ c \in Nat /\ end \in Nat /\ end = e + h + c /\ b \in Burnable
  BY LogStep
<1>3. b.section \in Nat
  BY <1>2 DEF Burnable
<1>4. /\ u \in DecodeStates
      /\ b.section >= MAX_SECTION =>
           /\ u.map = s.map
           /\ u.offset = IF Behind(o, b.enable) > N THEN N + 1 ELSE Behind(o, b.enable)
      /\ ~(b.section >= MAX_SECTION) =>
           /\ \A k \in Cells :
                u.map[k] = IF k[1] = b.section /\ Here(raw, o, b.enable, k[2])
                           THEN <<raw[f(k[2])], raw[f(k[2]) + 1]>> ELSE s.map[k]
           /\ u.offset = IF \A w \in W : Here(raw, o, b.enable, w) THEN Behind(o, b.enable) ELSE N + 1
  <2>1. Took(raw, s, b.section, b.enable, u)
    BY <1>1, <1>3, TakeIs
  <2>2. Len(raw) = N
    BY <1>1
  <2> QED BY <2>1, <2>2, Zenon DEF Took
<1>5. \A w \in W : /\ Here(raw, o, b.enable, w) <=> LastByte(blocks, n, w) <= N
                   /\ Here(raw, o, b.enable, w) => <<raw[f(w)], raw[f(w) + 1]>> = WordOf(b, w)
  <2>1. ASSUME NEW w \in Words(b.enable) PROVE CellTaken(raw, N, blocks, n, s.offset, w)
    BY TakeCell
  <2> QED BY <2>1, Zenon DEF CellTaken
<1>6. Behind(o, b.enable) = end + 1
  <2>1. c = 2 * Cardinality(W)
    BY DEF BodySize
  <2>2. Behind(o, b.enable) = o + c
    BY <2>1 DEF Behind
  <2> HIDE DEF c, h, e, end, o
  <2>3. o = e + h + 1
    BY DEF o, e, h
  <2> QED BY <1>2, <2>2, <2>3
<1>7. \A w \in W : LastByte(blocks, n, w) \in Int /\ LastByte(blocks, n, w) <= end
  <2>1. \A w \in W : LastByte(blocks, n, w) \in e + h + 2 .. end
    BY LastByteIs
  <2> HIDE DEF c, h, e, end, W
  <2> QED BY <1>2, <2>1
<1>8. W # {} => \E w \in W : LastByte(blocks, n, w) = end
  BY LastWord
<1>9. W = {} => c = 0
  BY FS_EmptySet DEF BodySize
<1>10. ASSUME NEW k \in Cells
       PROVE  n \in Writers(blocks, N, k) <=> k[1] = b.section /\ Here(raw, o, b.enable, k[2])
  <2>1. n \in Writers(blocks, N, k) <=> b.section = k[1] /\ k[2] \in W /\ LastByte(blocks, n, k[2]) <= N
    BY DEF Writers
  <2>2. Here(raw, o, b.enable, k[2]) => k[2] \in W
    BY DEF Here
  <2> HIDE DEF W, o, f
  <2> QED BY <1>5, <2>1, <2>2
<1>11. UpToDate(blocks, N, n, u)
  <2> SUFFICES ASSUME NEW k \in Cells PROVE u.map[k] = Value(blocks, Upto(blocks, N, k, n), k)
    BY DEF UpToDate
  <2>0. PICK j \in 0..Len(blocks) - 1 : j = n - 1 /\ j + 1 = n
    OBVIOUS
  <2>1. /\ n \in Writers(blocks, N, k) => Value(blocks, Upto(blocks, N, k, n), k) = WordOf(b, k[2])
        /\ n \notin Writers(blocks, N, k) => Upto(blocks, N, k, n) = Upto(blocks, N, k, n - 1)
    BY <1>1, <2>0, UptoStep
  <2>2. s.map[k] = Value(blocks, Upto(blocks, N, k, n - 1), k)
    BY DEF UpToDate
  <2>3. k[1] \in 0..MAX_SECTION - 1
    BY DEF Cells, MAX_SECTION
  <2>4. b.section >= MAX_SECTION => k[1] # b.section
    <3>1. \A x \in Nat, y \in 0..63 : x >= 64 => y # x
      OBVIOUS
    <3>2. MAX_SECTION = 64 /\ k[1] \in 0..63
      BY <2>3 DEF MAX_SECTION
    <3> QED BY <1>3, <3>1, <3>2, Zenon
  <2>5. CASE n \in Writers(blocks, N, k)
    <3>1. k[1] = b.section /\ Here(raw, o, b.enable, k[2]) /\ k[2] \in W
      BY <1>10, <2>5 DEF Here
    <3>2. u.map[k] = <<raw[f(k[2])], raw[f(k[2]) + 1]>>
      <4> HIDE DEF W, o, f
      <4> QED BY <1>4, <2>4, <3>1
    <3>3. <<raw[f(k[2])], raw[f(k[2]) + 1]>> = WordOf(b, k[2])
      <4> HIDE DEF W, o, f
      <4> QED BY <1>5, <3>1
    <3> QED BY <2>1, <2>5, <3>2, <3>3
  <2>6. CASE n \notin Writers(blocks, N, k)
    <3>1. u.map[k] = s.map[k]
      <4> HIDE DEF W, o, f
      <4> QED BY <1>4, <1>10, <2>6
    <3> QED BY <2>1, <2>2, <2>6, <3>1
  <2> QED BY <2>5, <2>6
<1>12. o <= N + 1 /\ o = e + h + 1
  OBVIOUS
<1>13. \/ u.offset = end + 1 /\ end <= N
       \/ u.offset = N + 1 /\ end >= N
  <2> HIDE DEF W, o, e, h, c, end, f
  <2>1. CASE b.section >= MAX_SECTION
    <3>1. u.offset = IF end + 1 > N THEN N + 1 ELSE end + 1
      BY <1>4, <1>6, <2>1
    <3> QED BY <1>1, <1>2, <3>1
  <2>2. CASE ~(b.section >= MAX_SECTION) /\ \A w \in W : Here(raw, o, b.enable, w)
    <3>1. u.offset = end + 1
      BY <1>4, <1>6, <2>2
    <3>2. end <= N
      <4>1. CASE W = {}
        <5>1. end = e + h /\ o = end + 1
          BY <1>2, <1>9, <1>12, <4>1
        <5> QED BY <1>1, <1>2, <1>12, <5>1
      <4>2. CASE W # {}
        BY <1>5, <1>8, <2>2, <4>2
      <4> QED BY <4>1, <4>2
    <3> QED BY <3>1, <3>2
  <2>3. CASE ~(b.section >= MAX_SECTION) /\ ~ \A w \in W : Here(raw, o, b.enable, w)
    <3>1. u.offset = N + 1
      BY <1>4, <2>3
    <3>2. PICK w \in W : ~(LastByte(blocks, n, w) <= N)
      BY <1>5, <2>3
    <3>3. end >= N
      BY <1>1, <1>2, <1>7, <3>2
    <3> QED BY <3>1, <3>3
  <2> QED BY <2>1, <2>2, <2>3
<1> QED BY <1>1, <1>4, <1>11, <1>13, ToNext DEF end

LEMMA ShortHeader ==
  ASSUME NEW x \in Nat, NEW e \in 0..15
  PROVE  /\ (x * 16 + e) \div 16 = x /\ (x * 16 + e) % 16 = e
         /\ e # 15 => x * 16 + e # 255 /\ (x * 16 + e) % 32 # 15
OBVIOUS

LEMMA LongHeader ==
  ASSUME NEW x \in Nat
  PROVE  /\ (x % 8) * 32 + 15 # 255 /\ ((x % 8) * 32 + 15) % 32 = 15 /\ ((x % 8) * 32 + 15) \div 32 = x % 8
         /\ (x % 8) + (x \div 8) * 8 = x
<1>1. PICK q \in Nat, r \in 0..7 : q = x \div 8 /\ r = x % 8 /\ x = 8 * q + r
  <2>1. x \div 8 \in Nat /\ x % 8 \in 0..7 /\ x = 8 * (x \div 8) + (x % 8)
    OBVIOUS
  <2> QED BY <2>1
<1>2. r * 32 + 15 # 255 /\ (r * 32 + 15) % 32 = 15 /\ (r * 32 + 15) \div 32 = r
  OBVIOUS
<1>3. r + q * 8 = x
  BY <1>1
<1> QED BY <1>1, <1>2, <1>3

(* The bytes of a header that was read, and what they say. *)
HeaderSays(raw, N, b, o) ==
  /\ ~b.extended => /\ raw[o] # Erased /\ ~IsExtended(raw[o])
                    /\ raw[o] \div 16 = b.section /\ raw[o] % 16 = b.enable
  /\ b.extended => raw[o] # Erased /\ IsExtended(raw[o])
  /\ b.extended /\ o # N => raw[o + 1] % 16 = b.enable /\ ExtendedSection(raw[o], raw[o + 1]) = b.section

LEMMA HeaderRead ==
  ASSUME NEW blocks \in Seq(Burnable), NEW N \in 0..Len(Burnt(blocks)), NEW raw, raw = SubSeq(Burnt(blocks), 1, N),
         NEW n \in 1..Len(blocks), NEW b, b = blocks[n], NEW o, o = Ends(blocks, n - 1) + 1, o <= N
  PROVE  HeaderSays(raw, N, b, o)
<1> DEFINE e == Ends(blocks, n - 1)
<1>1. raw \in Seq(Nat) /\ Len(raw) = N /\ N \in Nat /\ \A i \in 1..N : raw[i] = Burnt(blocks)[i]
  BY CutIs
<1>2. e \in Nat /\ b \in Burnable
  BY LogStep
<1>3. \A i \in 1..HeadSize(b) : Burnt(blocks)[e + i] = Header(b)[i]
  BY LogHolds
<1>4. b.section \in Nat /\ b.enable \in 0..15 /\ b.extended \in BOOLEAN /\ (b.extended \/ b.enable # 15)
  BY <1>2 DEF Burnable
<1>5. /\ HeadSize(b) = (IF b.extended THEN 2 ELSE 1)
      /\ ~b.extended => Header(b)[1] = b.section * 16 + b.enable
      /\ b.extended => Header(b)[1] = (b.section % 8) * 32 + 15 /\ Header(b)[2] = (b.section \div 8) * 16 + b.enable
  BY <1>2, BlockIs
<1> HIDE DEF e
<1>6. o = e + 1 /\ o \in 1..N /\ (o # N => o + 1 \in 1..N)
  BY <1>1, <1>2 DEF e
<1>7. raw[o] = Burnt(blocks)[e + 1] /\ (o # N => raw[o + 1] = Burnt(blocks)[e + 2])
  <2>1. o # N => o + 1 = e + 2
    BY <1>2, <1>6
  <2> QED BY <1>1, <1>6, <2>1
<1>8. raw[o] = Header(b)[1]
  <2>1. 1 \in 1..HeadSize(b)
    BY <1>4, <1>5
  <2> QED BY <1>3, <1>7, <2>1
<1>9. b.extended /\ o # N => raw[o + 1] = Header(b)[2]
  <2>1. b.extended => 2 \in 1..HeadSize(b)
    BY <1>4, <1>5
  <2> QED BY <1>3, <1>7, <2>1
<1>10. ~b.extended => /\ raw[o] # Erased /\ ~IsExtended(raw[o])
                      /\ raw[o] \div 16 = b.section /\ raw[o] % 16 = b.enable
  <2> SUFFICES ASSUME ~b.extended
               PROVE  /\ raw[o] # Erased /\ ~IsExtended(raw[o])
                      /\ raw[o] \div 16 = b.section /\ raw[o] % 16 = b.enable
    OBVIOUS
  <2>1. raw[o] = b.section * 16 + b.enable /\ b.enable # 15
    BY <1>4, <1>5, <1>8
  <2>2. /\ (b.section * 16 + b.enable) \div 16 = b.section /\ (b.section * 16 + b.enable) % 16 = b.enable
        /\ b.section * 16 + b.enable # 255 /\ (b.section * 16 + b.enable) % 32 # 15
    BY <1>4, <2>1, ShortHeader, Zenon
  <2> QED BY <2>1, <2>2, Zenon DEF Erased, IsExtended
<1>11. b.extended => raw[o] # Erased /\ IsExtended(raw[o])
  <2>1. (b.section % 8) * 32 + 15 # 255 /\ ((b.section % 8) * 32 + 15) % 32 = 15
    BY <1>4, LongHeader, Zenon
  <2>2. b.extended => raw[o] = (b.section % 8) * 32 + 15
    BY <1>5, <1>8
  <2>3. Erased = 255 /\ \A h : IsExtended(h) <=> h % 32 = 15
    BY DEF Erased, IsExtended
  <2> QED BY <2>1, <2>2, <2>3, Zenon
<1>12. b.extended /\ o # N => raw[o + 1] % 16 = b.enable /\ ExtendedSection(raw[o], raw[o + 1]) = b.section
  <2> SUFFICES ASSUME b.extended, o # N
               PROVE  raw[o + 1] % 16 = b.enable /\ ExtendedSection(raw[o], raw[o + 1]) = b.section
    OBVIOUS
  <2>1. raw[o] = (b.section % 8) * 32 + 15 /\ raw[o + 1] = (b.section \div 8) * 16 + b.enable
    BY <1>5, <1>8, <1>9
  <2>0. b.section \div 8 \in Nat /\ b.section % 8 \in 0..7
    BY <1>4
  <2>2. ((b.section % 8) * 32 + 15) \div 32 = b.section % 8
    BY <1>4, LongHeader
  <2>3. ((b.section \div 8) * 16 + b.enable) % 16 = b.enable
    BY <1>4, <2>0, ShortHeader
  <2>4. ((b.section \div 8) * 16 + b.enable) \div 16 = b.section \div 8
    BY <1>4, <2>0, ShortHeader
  <2>5. (b.section % 8) + (b.section \div 8) * 8 = b.section
    BY <1>4, LongHeader
  <2> QED BY <2>1, <2>2, <2>3, <2>4, <2>5, Zenon DEF ExtendedSection
<1> QED BY <1>10, <1>11, <1>12 DEF HeaderSays

(* A block without words that were read changes nothing. *)
LEMMA NoWords ==
  ASSUME NEW blocks \in Seq(Burnable), NEW N \in Nat, NEW n \in 1..Len(blocks),
         Words(blocks[n].enable) = {} \/ Ends(blocks, n - 1) + HeadSize(blocks[n]) >= N,
         NEW s, UpToDate(blocks, N, n - 1, s)
  PROVE  UpToDate(blocks, N, n, s)
<1>1. ASSUME NEW k PROVE n \notin Writers(blocks, N, k)
  <2> SUFFICES ASSUME n \in Writers(blocks, N, k) PROVE FALSE
    OBVIOUS
  <2>1. k[2] \in Words(blocks[n].enable) /\ LastByte(blocks, n, k[2]) <= N
    BY DEF Writers
  <2>2. LastByte(blocks, n, k[2]) \in Ends(blocks, n - 1) + HeadSize(blocks[n]) + 2 .. Ends(blocks, n)
    BY <2>1, LastByteIs
  <2>3. Ends(blocks, n - 1) \in Nat /\ HeadSize(blocks[n]) \in 1..2
    BY LogStep
  <2> QED BY <2>1, <2>2, <2>3
<1>2. PICK j \in 0..Len(blocks) - 1 : j = n - 1 /\ j + 1 = n
  OBVIOUS
<1>3. \A k : Upto(blocks, N, k, n) = Upto(blocks, N, k, n - 1)
  BY <1>1, <1>2, UptoStep
<1> QED BY <1>3 DEF UpToDate

(* One turn of the loop reads the next block, or finds the cut. *)
LEMMA DecodeStep ==
  ASSUME NEW blocks \in Seq(Burnable), NEW N \in 0..Len(Burnt(blocks)), NEW raw, raw = SubSeq(Burnt(blocks), 1, N),
         NEW j, NEW s, OnBlock(blocks, N, j, s), s.offset <= N, NEW u, u = DecodeBlock(raw, s)
  PROVE  j + 1 \in 1..Len(blocks) /\ (OnBlock(blocks, N, j + 1, u) \/ Decoded(blocks, N, u))
<1> DEFINE L == Len(blocks)
<1>0. L \in Nat /\ raw \in Seq(Nat) /\ Len(raw) = N /\ N \in Nat
  <2>1. L \in Nat
    OBVIOUS
  <2> QED BY <2>1, CutIs
<1>1. /\ s \in DecodeStates /\ j \in 0..L /\ s.offset = Ends(blocks, j) + 1 /\ UpToDate(blocks, N, j, s)
      /\ Ends(blocks, j) \in Nat
  BY LogGrows DEF OnBlock
<1>2. j # L
  <2> SUFFICES ASSUME j = L PROVE FALSE
    OBVIOUS
  <2>1. Ends(blocks, j) = Len(Burnt(blocks))
    BY LogGrows DEF Ends
  <2>2. N <= Ends(blocks, j)
    BY <1>0, <1>1, <2>1
  <2> QED BY <1>0, <1>1, <2>2
<1>3. PICK n \in 1..L : n = j + 1 /\ n - 1 = j
  BY <1>0, <1>1, <1>2
<1> DEFINE b == blocks[n]
           o == s.offset
           h == HeadSize(b)
           next(d) == [map |-> s.map, offset |-> o + d]
<1>4. o = Ends(blocks, n - 1) + 1 /\ o \in Nat \ {0}
  BY <1>1, <1>3
<1>5. /\ ~b.extended => /\ raw[o] # Erased /\ ~IsExtended(raw[o])
                        /\ raw[o] \div 16 = b.section /\ raw[o] % 16 = b.enable
      /\ b.extended => raw[o] # Erased /\ IsExtended(raw[o])
      /\ b.extended /\ o # N => raw[o + 1] % 16 = b.enable /\ ExtendedSection(raw[o], raw[o + 1]) = b.section
  <2>1. HeaderSays(raw, N, b, o)
    BY <1>4, HeaderRead
  <2> QED BY <2>1 DEF HeaderSays
<1>6. /\ b \in Burnable /\ h = (IF b.extended THEN 2 ELSE 1) /\ b.extended \in BOOLEAN /\ BodySize(b) \in Nat
      /\ Ends(blocks, n) = Ends(blocks, n - 1) + h + BodySize(b) /\ Ends(blocks, n) \in Nat
  <2>1. b \in Burnable
    OBVIOUS
  <2> QED BY <2>1, LogStep, BlockIs DEF Burnable
<1>7. s = [map |-> s.map, offset |-> o] /\ s.map \in [Cells -> Nat \X Nat]
  BY <1>1 DEF DecodeStates
<1>8. ASSUME NEW d \in {1, 2}
      PROVE  /\ next(d) \in DecodeStates /\ next(d).offset = o + d /\ next(d).map = s.map
             /\ [s EXCEPT !.offset = @ + d] = next(d) /\ UpToDate(blocks, N, n - 1, next(d))
  <2>1. o + d \in Nat \ {0}
    BY <1>4
  <2>2. next(d) \in DecodeStates /\ next(d).offset = o + d /\ next(d).map = s.map
    BY <1>7, <2>1 DEF DecodeStates
  <2>3. [s EXCEPT !.offset = @ + d] = next(d)
    <3> HIDE DEF o
    <3>1. s.offset = o
      BY DEF o
    <3> QED BY <1>7, <3>1
  <2>4. UpToDate(blocks, N, n - 1, next(d))
    BY <1>1, <1>3, <2>2 DEF UpToDate
  <2> QED BY <2>2, <2>3, <2>4
<1>9. CASE ~b.extended
  <2>1. u = TakeWords(raw, next(1), b.section, b.enable)
    <3>1. u = TakeWords(raw, [s EXCEPT !.offset = @ + 1], raw[o] \div 16, raw[o] % 16)
      BY <1>5, <1>9, Zenon DEF DecodeBlock
    <3> QED BY <1>5, <1>8, <1>9, <3>1
  <2>2. next(1).offset = Ends(blocks, n - 1) + h + 1 /\ next(1).offset <= N + 1
    <3>1. h = 1 /\ next(1).offset = o + 1
      BY <1>6, <1>8, <1>9
    <3> HIDE DEF next, h
    <3> QED BY <1>0, <1>1, <1>4, <3>1
  <2>3. PICK t : t = next(1)
    OBVIOUS
  <2>4. /\ t \in DecodeStates /\ t.offset = Ends(blocks, n - 1) + HeadSize(b) + 1 /\ t.offset <= N + 1
        /\ UpToDate(blocks, N, n - 1, t) /\ u = TakeWords(raw, t, b.section, b.enable)
    BY <1>8, <2>1, <2>2, <2>3
  <2>5. OnBlock(blocks, N, n, u) \/ Decoded(blocks, N, u)
    BY <2>4, TakeBlock
  <2> QED BY <1>3, <2>5
<1>10. CASE b.extended /\ o = N
  <2>1. u = [s EXCEPT !.offset = Len(raw) + 1]
    BY <1>0, <1>5, <1>10, Zenon DEF DecodeBlock, Ended
  <2>2. u = [map |-> s.map, offset |-> N + 1]
    BY <1>0, <1>7, <2>1
  <2>3. u \in DecodeStates /\ u.offset = N + 1 /\ u.map = s.map
    BY <1>0, <1>7, <2>2 DEF DecodeStates
  <2>4. UpToDate(blocks, N, n - 1, u)
    BY <1>1, <1>3, <2>3 DEF UpToDate
  <2>5. h = 2 /\ Ends(blocks, n - 1) + h >= N /\ Ends(blocks, n) >= N
    BY <1>0, <1>1, <1>3, <1>4, <1>6, <1>10
  <2>6. UpToDate(blocks, N, n, u)
    BY <1>0, <2>4, <2>5, NoWords
  <2>7. OnBlock(blocks, N, n, u) \/ Decoded(blocks, N, u)
    BY <1>0, <2>3, <2>5, <2>6, ToNext
  <2> QED BY <1>3, <2>7
<1>11. CASE b.extended /\ o # N
  <2>0. h = 2 /\ next(2).offset = Ends(blocks, n - 1) + h + 1 /\ next(2).offset <= N + 1
    <3>1. h = 2 /\ next(2).offset = o + 2
      BY <1>6, <1>8, <1>11
    <3>2. o + 2 <= N + 1
      BY <1>0, <1>4, <1>11
    <3>3. o + 2 = Ends(blocks, n - 1) + 2 + 1
      BY <1>1, <1>3, <1>4
    <3> HIDE DEF next, h, o
    <3> QED BY <3>1, <3>2, <3>3
  <2>1. CASE b.enable = 15
    <3>1. u = [s EXCEPT !.offset = @ + 2]
      BY <1>0, <1>5, <1>11, <2>1, Zenon DEF DecodeBlock
    <3>2. u \in DecodeStates /\ u.offset = o + 2 /\ UpToDate(blocks, N, n - 1, u)
      BY <1>8, <3>1
    <3>3. Words(b.enable) = {} /\ BodySize(b) = 0
      BY <2>1, WordsIs, FS_EmptySet DEF BodySize
    <3>4. u.offset = Ends(blocks, n) + 1 /\ Ends(blocks, n) <= N
      <4> HIDE DEF h
      <4> QED BY <1>0, <1>1, <1>3, <1>4, <1>6, <1>11, <2>0, <3>2, <3>3
    <3>5. UpToDate(blocks, N, n, u)
      BY <1>0, <3>2, <3>3, NoWords
    <3>6. OnBlock(blocks, N, n, u) \/ Decoded(blocks, N, u)
      BY <1>0, <3>2, <3>4, <3>5, ToNext
    <3> QED BY <1>3, <3>6
  <2>2. CASE b.enable # 15
    <3>1. u = TakeWords(raw, [s EXCEPT !.offset = @ + 2], ExtendedSection(raw[o], raw[o + 1]), raw[o + 1] % 16)
      BY <1>0, <1>5, <1>11, <2>2, Zenon DEF DecodeBlock
    <3>2. PICK t : t = next(2)
      OBVIOUS
    <3>3. u = TakeWords(raw, t, b.section, b.enable)
      BY <1>5, <1>8, <1>11, <3>1, <3>2
    <3>4. /\ t \in DecodeStates /\ t.offset = Ends(blocks, n - 1) + HeadSize(b) + 1 /\ t.offset <= N + 1
          /\ UpToDate(blocks, N, n - 1, t)
      BY <1>8, <2>0, <3>2
    <3>5. OnBlock(blocks, N, n, u) \/ Decoded(blocks, N, u)
      BY <3>3, <3>4, TakeBlock
    <3> QED BY <1>3, <3>5
  <2> QED BY <2>1, <2>2
<1> QED BY <1>6, <1>9, <1>10, <1>11

DecodeTurn(raw, s) == IF s.offset > Len(raw) THEN s ELSE DecodeBlock(raw, s)

LEMMA DecodeTurnType ==
  ASSUME NEW raw \in Seq(Nat), NEW s \in DecodeStates
  PROVE  DecodeTurn(raw, s) \in DecodeStates
<1> DEFINE o == s.offset
           u == DecodeBlock(raw, s)
           moved(x) == [s EXCEPT !.offset = x]
<1>1. o \in Nat \ {0} /\ Len(raw) \in Nat /\ s = [map |-> s.map, offset |-> o] /\ s.map \in [Cells -> Nat \X Nat]
  BY DEF DecodeStates
<1>2. ASSUME NEW x \in Nat \ {0} PROVE moved(x) \in DecodeStates
  <2>1. moved(x) = [map |-> s.map, offset |-> x]
    <3> HIDE DEF o
    <3> QED BY <1>1
  <2> HIDE DEF moved
  <2> QED BY <1>1, <2>1 DEF DecodeStates
<1>3. ASSUME NEW x \in Nat \ {0}, NEW c \in Nat, NEW e PROVE TakeWords(raw, moved(x), c, e) \in DecodeStates
  <2>1. Took(raw, moved(x), c, e, TakeWords(raw, moved(x), c, e))
    BY <1>2, TakeIs
  <2> QED BY <2>1 DEF Took
<1>4. CASE ~(o > Len(raw))
  <2>1. o \in 1..Len(raw) /\ o + 1 \in Nat \ {0} /\ o + 2 \in Nat \ {0} /\ Len(raw) + 1 \in Nat \ {0}
        /\ (o # Len(raw) => o + 1 \in 1..Len(raw))
    BY <1>1, <1>4
  <2>2. raw[o] \in Nat /\ (o # Len(raw) => raw[o + 1] \in Nat)
    BY <2>1
  <2>3. \A x \in Nat : x \div 16 \in Nat /\ x \div 32 \in Nat
    OBVIOUS
  <2>4. raw[o] \div 16 \in Nat /\ (o # Len(raw) => ExtendedSection(raw[o], raw[o + 1]) \in Nat)
    <3>1. \A x, y \in Nat : x + y * 8 \in Nat
      OBVIOUS
    <3> QED BY <2>2, <2>3, <3>1, Zenon DEF ExtendedSection
  <2> DEFINE c == raw[o] \div 16
             x == ExtendedSection(raw[o], raw[o + 1])
  <2>5. \/ u = moved(Len(raw) + 1)
        \/ u = TakeWords(raw, moved(o + 1), c, raw[o] % 16)
        \/ o # Len(raw) /\ u = moved(o + 2)
        \/ o # Len(raw) /\ u = TakeWords(raw, moved(o + 2), x, raw[o + 1] % 16)
    BY Zenon DEF DecodeBlock, Ended
  <2> HIDE DEF u, moved, o, c, x
  <2>6. u \in DecodeStates
    BY <1>2, <1>3, <2>1, <2>4, <2>5 DEF c, x
  <2> QED BY <1>4, <2>6 DEF DecodeTurn, u, o
<1> QED BY <1>4 DEF DecodeTurn

IsDecode(w, raw) ==
  /\ w \in [0..Len(raw) -> DecodeStates]
  /\ w[0] = [map |-> Blank, offset |-> 1]
  /\ \A n \in 1..Len(raw) : w[n] = DecodeTurn(raw, w[n - 1])
  /\ Decode(raw) = w[Len(raw)].map

LEMMA DecodeIs ==
  ASSUME NEW raw \in Seq(Nat)
  PROVE  \E w : IsDecode(w, raw)
<1> DEFINE K == Len(raw)
           a == [map |-> Blank, offset |-> 1]
           G == [s \in DecodeStates |-> DecodeTurn(raw, s)]
<1>0. K \in Nat
  OBVIOUS
<1>1. a \in DecodeStates /\ G \in [DecodeStates -> DecodeStates]
  <2>1. Blank \in [Cells -> Nat \X Nat]
    BY DEF Blank, Cells, Erased
  <2>2. a \in DecodeStates
    BY <2>1 DEF DecodeStates
  <2>3. G \in [DecodeStates -> DecodeStates]
    BY DecodeTurnType
  <2> QED BY <2>2, <2>3
<1>2. PICK w : IsWalk(w, K, DecodeStates, a, G)
  <2> HIDE DEF K, a, G
  <2> QED BY <1>0, <1>1, WalkExists
<1>3. w \in [0..K -> DecodeStates] /\ w[0] = a
  BY <1>2 DEF IsWalk
<1>4. ASSUME NEW n \in 1..K PROVE w[n] = DecodeTurn(raw, w[n - 1])
  <2>1. n - 1 \in 0..K
    BY <1>0
  <2>2. w[n - 1] \in DecodeStates
    BY <1>3, <2>1
  <2>3. w[n] = G[w[n - 1]]
    <3> HIDE DEF G, K, a
    <3> QED BY <1>2 DEF IsWalk
  <2> QED BY <2>2, <2>3
<1> HIDE DEF a, G
<1>5. w = [n \in 0..K |-> IF n = 0 THEN a ELSE DecodeTurn(raw, w[n - 1])]
  <2>1. ASSUME NEW n \in 0..K PROVE w[n] = IF n = 0 THEN a ELSE DecodeTurn(raw, w[n - 1])
    <3>1. n = 0 \/ n \in 1..K
      BY <1>0
    <3> QED BY <1>0, <1>3, <1>4, <3>1
  <2>2. w = [n \in 0..K |-> w[n]]
    BY <1>3
  <2> QED BY <2>1, <2>2
<1> DEFINE f == CHOOSE g : g = [n \in 0..K |-> IF n = 0 THEN a ELSE DecodeTurn(raw, g[n - 1])]
<1>6. Decode(raw) = f[K].map
  BY DEF Decode, DecodeTurn, a
<1>7. f = [n \in 0..K |-> IF n = 0 THEN a ELSE DecodeTurn(raw, f[n - 1])]
  <2> HIDE DEF K
  <2> QED BY <1>5
<1> HIDE DEF f
<1>8. f[0] = a
  BY <1>0, <1>7
<1>9. ASSUME NEW n \in 1..K PROVE f[n] = DecodeTurn(raw, f[n - 1])
  <2>1. n \in 0..K /\ n # 0
    BY <1>0
  <2> QED BY <1>7, <2>1
<1>10. \A n \in 0..K : f[n] \in DecodeStates
  <2> DEFINE T == {n \in Nat : f[n] \in DecodeStates}
  <2>1. 0 \in T
    BY <1>1, <1>8
  <2>2. ASSUME NEW n \in 0..K - 1, n \in T PROVE n + 1 \in T
    <3>1. PICK m \in 1..K : m = n + 1 /\ m - 1 = n
      BY <1>0
    <3>2. f[m] = DecodeTurn(raw, f[n]) /\ f[n] \in DecodeStates
      BY <1>9, <2>2, <3>1
    <3>3. f[m] \in DecodeStates
      BY <3>2, DecodeTurnType
    <3> QED BY <1>0, <3>1, <3>3
  <2>3. \A n \in 0..K : n \in T
    <3> HIDE DEF T, K
    <3> QED BY <1>0, <2>1, <2>2, Reaches
  <2> QED BY <2>3
<1>11. f \in [0..K -> DecodeStates]
  <2>1. DOMAIN f = 0..K /\ f = [n \in DOMAIN f |-> f[n]]
    BY <1>7
  <2> QED BY <1>10, <2>1
<1>12. IsDecode(f, raw)
  BY <1>6, <1>8, <1>9, <1>11 DEF IsDecode, a
<1> QED BY <1>12

(* The decoder yields what was burnt last, for every log and every cut. *)
LEMMA DecodeExact ==
  ASSUME NEW blocks \in Seq(Burnable), NEW N \in 0..Len(Burnt(blocks))
  PROVE  EfuseDecodeExact(blocks, N)
<1> DEFINE raw == SubSeq(Burnt(blocks), 1, N)
           L == Len(blocks)
<1>1. raw \in Seq(Nat) /\ Len(raw) = N /\ N \in Nat
  BY CutIs
<1>l. L \in Nat
  OBVIOUS
<1> HIDE DEF raw
<1>2. PICK w : IsDecode(w, raw)
  BY <1>1, DecodeIs
<1>3. /\ w \in [0..N -> DecodeStates] /\ w[0] = [map |-> Blank, offset |-> 1]
      /\ (\A n \in 1..N : w[n] = DecodeTurn(raw, w[n - 1])) /\ Decode(raw) = w[N].map
  BY <1>1, <1>2 DEF IsDecode
<1> DEFINE T == {n \in Nat : (\E j \in Nat : j >= n /\ OnBlock(blocks, N, j, w[n])) \/ Decoded(blocks, N, w[n])}
<1>4. 0 \in T
  <2>1. w[0] \in DecodeStates /\ w[0].offset = 1 /\ w[0].map = Blank
    BY <1>1, <1>3
  <2>2. Ends(blocks, 0) = 0 /\ 0 \in 0..L
    BY <1>l, LogGrows
  <2>3. \A k \in Cells : Value(blocks, Upto(blocks, N, k, 0), k) = <<Erased, Erased>> /\ Blank[k] = <<Erased, Erased>>
    <3>1. \A k : Upto(blocks, N, k, 0) = {}
      BY <1>l DEF Upto, Writers
    <3> QED BY <3>1 DEF Value, Blank, Cells
  <2>4. OnBlock(blocks, N, 0, w[0])
    BY <1>1, <2>1, <2>2, <2>3 DEF OnBlock, UpToDate
  <2> QED BY <2>4
<1>5. ASSUME NEW n \in 0..N - 1, n \in T PROVE n + 1 \in T
  <2>0. PICK m \in 1..N : m = n + 1 /\ m - 1 = n /\ n \in Nat /\ m \in Nat
    BY <1>1
  <2>1. w[m] = DecodeTurn(raw, w[n])
    BY <1>3, <2>0
  <2>2. CASE w[n].offset > N
    <3>1. w[m] = w[n]
      BY <1>1, <2>1, <2>2 DEF DecodeTurn
    <3>2. Decoded(blocks, N, w[n])
      <4>1. CASE \E j \in Nat : j >= n /\ OnBlock(blocks, N, j, w[n])
        <5>1. PICK j \in Nat : OnBlock(blocks, N, j, w[n])
          BY <4>1
        <5>2. j \in 0..L /\ Ends(blocks, j) \in Nat /\ w[n].offset = Ends(blocks, j) + 1
          BY <5>1, LogGrows DEF OnBlock
        <5>3. Ends(blocks, j) >= N
          BY <1>1, <2>2, <5>2
        <5>4. \A k : Upto(blocks, N, k, j) = Writers(blocks, N, k)
          BY <1>1, <5>2, <5>3, UptoCut
        <5> QED BY <2>2, <5>1, <5>4 DEF Decoded, OnBlock, UpToDate
      <4> QED BY <1>5, <4>1
    <3> QED BY <2>0, <3>1, <3>2
  <2>3. CASE ~(w[n].offset > N)
    <3>1. w[m] = DecodeBlock(raw, w[n])
      BY <1>1, <2>1, <2>3 DEF DecodeTurn
    <3>2. PICK j \in Nat : j >= n /\ OnBlock(blocks, N, j, w[n])
      BY <1>5, <2>3 DEF Decoded
    <3>3. w[n].offset <= N
      <4>1. w[n].offset \in Nat
        BY <3>2 DEF OnBlock, DecodeStates
      <4> QED BY <1>1, <2>3, <4>1
    <3>4. j + 1 \in 1..L /\ (OnBlock(blocks, N, j + 1, w[m]) \/ Decoded(blocks, N, w[m]))
      BY <3>1, <3>2, <3>3, DecodeStep DEF raw
    <3>5. j + 1 \in Nat /\ j + 1 >= m
      BY <2>0, <3>2
    <3> QED BY <2>0, <3>4, <3>5
  <2> QED BY <2>2, <2>3
<1>6. N \in T
  <2>1. \A n \in 0..N : n \in T
    <3> HIDE DEF T
    <3> QED BY <1>1, <1>4, <1>5, Reaches
  <2> QED BY <1>1, <2>1
<1>7. \A k \in Cells : w[N].map[k] = Value(blocks, Writers(blocks, N, k), k)
  <2>1. CASE \E j \in Nat : j >= N /\ OnBlock(blocks, N, j, w[N])
    <3>1. PICK j \in Nat : j >= N /\ OnBlock(blocks, N, j, w[N])
      BY <2>1
    <3>2. j \in 0..L /\ 0 \in 0..L
      BY <1>l, <3>1 DEF OnBlock
    <3>3. Ends(blocks, 0) = 0 /\ Ends(blocks, j) \in Nat /\ j - 0 <= Ends(blocks, j) - Ends(blocks, 0)
      BY <3>2, LogGrows, LogPrefix
    <3>4. Ends(blocks, j) >= N
      BY <1>1, <3>1, <3>3
    <3>5. \A k : Upto(blocks, N, k, j) = Writers(blocks, N, k)
      BY <1>1, <3>2, <3>4, UptoCut
    <3> QED BY <3>1, <3>5 DEF OnBlock, UpToDate
  <2> QED BY <1>6, <2>1 DEF Decoded
<1>8. DOMAIN w[N].map = Cells
  <2>1. w[N] \in DecodeStates
    BY <1>1, <1>3
  <2> QED BY <2>1 DEF DecodeStates
<1>9. \A k \in DOMAIN Decode(raw) : Decode(raw)[k] = Value(blocks, Writers(blocks, N, k), k)
  BY <1>3, <1>7, <1>8
<1> QED BY <1>9, Zenon DEF EfuseDecodeExact, Value, Latest, raw

(* rtl8812au_decode_efuse_logical_map gives every word of the map the value of the  *)
(* last block that wrote it whole, wherever the dump was cut.                       *)
THEOREM DecodesLogs == Spec => []LogDecoded
<1>1. Inputs => LogDecoded
  <2> SUFFICES ASSUME Inputs, input.kind = "log"
               PROVE  EfuseDecodeExact(input.blocks, input.length)
    BY DEF LogDecoded
  <2>0. PICK bs \in SeqsTo(Blocks, MaxBlocks) : \E n \in 0..Len(Burnt(bs)) :
          input = [kind |-> "log", blocks |-> bs, length |-> n]
    BY DEF Inputs
  <2>1. PICK n \in 0..Len(Burnt(bs)) : input = [kind |-> "log", blocks |-> bs, length |-> n]
    BY <2>0
  <2>2. Blocks \subseteq Burnable
    BY DEF Blocks, Block, Burnable
  <2>3. bs \in Seq(Blocks)
    BY ShortSequences
  <2>4. bs \in Seq(Burnable)
    BY <2>2, <2>3
  <2>5. EfuseDecodeExact(bs, n)
    BY <2>4, DecodeExact
  <2>6. input.blocks = bs /\ input.length = n
    BY <2>1
  <2> QED BY <2>5, <2>6
<1> QED BY <1>1, InputsAlways, PTL
-----------------------------------------------------------------------------
(* Channels and bandwidths.  Every 5 GHz channel but 165 is one of the four of an  *)
(* 80 MHz group; the settings depend on its position there.                         *)

LEMMA NoGroup ==
  ASSUME NEW c \in Channels2 \cup {165}
  PROVE  GroupsOf(c) = {}
BY DEF GroupsOf, Groups, Channels2

LEMMA OneGroup ==
  ASSUME NEW g \in Groups, NEW k \in 0..3
  PROVE  GroupsOf(g + 4 * k) = {g} /\ FirstOf(g + 4 * k) = g /\ Position(g + 4 * k) = k
<1>1. \A h \in Groups : g + 4 * k \in {h, h + 4, h + 8, h + 12} <=> h = g
  BY DEF Groups
<1>2. GroupsOf(g + 4 * k) = {g}
  BY <1>1 DEF GroupsOf
<1>3. FirstOf(g + 4 * k) = g
  BY <1>2 DEF FirstOf
<1>4. g \in Nat
  BY DEF Groups
<1>5. Position(g + 4 * k) = ((g + 4 * k) - g) \div 4
  BY <1>3, Zenon DEF Position
<1>6. (g + 4 * k) - g = 4 * k
  BY <1>4
<1>7. (4 * k) \div 4 = k
  <2>1. k = 0 \/ k = 1 \/ k = 2 \/ k = 3
    OBVIOUS
  <2> QED BY <2>1
<1> QED BY <1>2, <1>3, <1>5, <1>6, <1>7

LEMMA InGroup ==
  ASSUME NEW c \in Channels5 \ {165}
  PROVE  \E g \in Groups, k \in 0..3 : c = g + 4 * k
BY DEF Channels5, Groups

LEMMA WidthsDiffer ==
  /\ 40 # 20 /\ 80 # 20 /\ 80 # 40 /\ 20 # 40
  /\ <<40, 20>> # <<80, 40>> /\ <<40, 20>> # <<80, 20>>
  /\ <<80, 40>> # <<40, 20>> /\ <<80, 20>> # <<40, 20>> /\ <<80, 20>> # <<80, 40>>
OBVIOUS

(* The rule for 40 MHz, once for the registers and once for the TX descriptor. *)
LEMMA Rule40 ==
  ASSUME NEW c \in Channels
  PROVE  PrimaryOf40(c) = TxPrimaryOf40(c) /\ PrimaryOf40(c) \in {0, LOWER20, UPPER20}
<1>1. PrimaryOf40(c) \in {0, LOWER20, UPPER20}
  BY DEF PrimaryOf40
<1>2. CASE c \in Channels5 /\ c % 8 = 4
  <2>1. c % 8 # 0 /\ c \notin 1..7 /\ c \notin 8..13
    BY <1>2 DEF Channels5
  <2>2. TxPrimaryOf40(c) = LOWER20
    BY <1>2, <2>1, Zenon DEF TxPrimaryOf40
  <2> QED BY <1>1, <1>2, <2>2 DEF PrimaryOf40
<1>3. CASE c \in Channels5 /\ c % 8 = 0
  <2>1. c % 8 # 4 /\ c \notin 1..7 /\ c \notin 8..13
    BY <1>3 DEF Channels5
  <2>2. TxPrimaryOf40(c) = UPPER20
    BY <1>3, <2>1, Zenon DEF TxPrimaryOf40
  <2> QED BY <1>1, <1>3, <2>1, <2>2 DEF PrimaryOf40
<1>4. CASE c \in Channels5 /\ c % 8 # 0 /\ c % 8 # 4
  <2>1. c \notin 1..7 /\ c \notin 8..13
    BY <1>4 DEF Channels5
  <2>2. TxPrimaryOf40(c) = 0
    BY <1>4, <2>1, Zenon DEF TxPrimaryOf40
  <2> QED BY <1>1, <1>4, <2>2 DEF PrimaryOf40
<1>5. CASE c \in Channels2
  <2>1. c \notin Channels5
    BY <1>5 DEF Channels2, Channels5
  <2>2. CASE c \in 1..7
    <3>1. c \notin 8..13
      BY <2>2
    <3>2. TxPrimaryOf40(c) = LOWER20
      BY <2>1, <2>2, <3>1, Zenon DEF TxPrimaryOf40
    <3> QED BY <1>1, <2>1, <2>2, <3>2 DEF PrimaryOf40
  <2>3. CASE c \in 8..13
    <3>1. c \notin 1..7
      BY <2>3
    <3>2. TxPrimaryOf40(c) = UPPER20
      BY <2>1, <2>3, <3>1, Zenon DEF TxPrimaryOf40
    <3> QED BY <1>1, <2>1, <2>3, <3>1, <3>2 DEF PrimaryOf40
  <2>4. CASE c \notin 1..7 /\ c \notin 8..13
    <3>2. TxPrimaryOf40(c) = 0
      BY <2>1, <2>4, Zenon DEF TxPrimaryOf40
    <3> QED BY <1>1, <2>1, <2>4, <3>2 DEF PrimaryOf40
  <2> QED BY <2>2, <2>3, <2>4
<1> QED BY <1>2, <1>3, <1>4, <1>5 DEF Channels

LEMMA Consistent40 ==
  ASSUME NEW c \in Channels
  PROVE  /\ DataSc(c, 40) = PrimaryOf40(c)
         /\ ProgrammingNumber(c, 40)
              = IF PrimaryOf40(c) = 0 THEN 0 ELSE IF PrimaryOf40(c) = LOWER20 THEN c + 2 ELSE c - 2
         /\ ProgrammingNumber(c, 40) # 0 =>
              /\ DataSc(c, 40) = TxSc(c, 40, 20)
              /\ c = ProgrammingNumber(c, 40) + OffsetOf(DataSc(c, 40), 40)
<1>1. DataSc(c, 40) = PrimaryOf40(c)
  BY WidthsDiffer, Zenon DEF DataSc
<1>2. TxSc(c, 40, 20) = TxPrimaryOf40(c)
  BY WidthsDiffer, Zenon DEF TxSc
<1>3. ProgrammingNumber(c, 40)
        = IF DataSc(c, 40) = 0 THEN 0 ELSE IF DataSc(c, 40) = LOWER20 THEN c + 2 ELSE c - 2
  BY WidthsDiffer, Zenon DEF ProgrammingNumber
<1>4. OffsetOf(DataSc(c, 40), 40) = IF DataSc(c, 40) = LOWER20 THEN -2 ELSE 2
  BY Zenon DEF OffsetOf
<1>5. c \in Int
  BY DEF Channels, Channels2, Channels5
<1> QED BY <1>1, <1>2, <1>3, <1>4, <1>5, Rule40 DEF LOWER20, UPPER20

Primary80(k) == <<LOWEST20, LOWER20, UPPER20, UPPERST20>>[k + 1]
Half80(k) == IF k < 2 THEN LOWER40 ELSE UPPER40

(* The tables of the TX descriptor, by position in the group. *)
LEMMA Tables80 ==
  ASSUME NEW g \in Groups, NEW k \in 0..3
  PROVE  TxSc(g + 4 * k, 80, 40) = Half80(k) /\ TxSc(g + 4 * k, 80, 20) = Primary80(k)
<1> DEFINE c == g + 4 * k
           lower == {36, 40, 52, 56, 100, 104, 116, 120, 132, 136, 149, 153}
           upper == {44, 48, 60, 64, 108, 112, 124, 128, 140, 144, 157, 161}
           T0 == {36, 52, 100, 116, 132, 149}
           T1 == {40, 56, 104, 120, 136, 153}
           T2 == {44, 60, 108, 124, 140, 157}
           T3 == {48, 64, 112, 128, 144, 161}
<1>1. TxSc(c, 80, 40) = IF c \in lower THEN LOWER40 ELSE IF c \in upper THEN UPPER40 ELSE 0
  BY WidthsDiffer, Zenon DEF TxSc
<1>2. k < 2 => c \in lower
  BY DEF Groups
<1>3. ~(k < 2) => c \notin lower /\ c \in upper
  BY DEF Groups
<1>4. TxSc(c, 80, 40) = Half80(k)
  BY <1>1, <1>2, <1>3 DEF Half80
<1>5. TxSc(c, 80, 20) = CASE c \in T0 -> LOWEST20
                          [] c \in T1 -> LOWER20
                          [] c \in T2 -> UPPER20
                          [] c \in T3 -> UPPERST20
                          [] OTHER -> 0
  BY WidthsDiffer, Zenon DEF TxSc
<1>6. k = 0 => c \in T0 /\ c \notin T1 /\ c \notin T2 /\ c \notin T3
  BY DEF Groups
<1>7. k = 1 => c \notin T0 /\ c \in T1 /\ c \notin T2 /\ c \notin T3
  BY DEF Groups
<1>8. k = 2 => c \notin T0 /\ c \notin T1 /\ c \in T2 /\ c \notin T3
  BY DEF Groups
<1>9. k = 3 => c \notin T0 /\ c \notin T1 /\ c \notin T2 /\ c \in T3
  BY DEF Groups
<1> HIDE DEF c, lower, upper, T0, T1, T2, T3
<1>10. /\ k = 0 => TxSc(c, 80, 20) = LOWEST20
       /\ k = 1 => TxSc(c, 80, 20) = LOWER20
       /\ k = 2 => TxSc(c, 80, 20) = UPPER20
       /\ k = 3 => TxSc(c, 80, 20) = UPPERST20
  BY <1>5, <1>6, <1>7, <1>8, <1>9, Zenon
<1>11. /\ Primary80(0) = LOWEST20 /\ Primary80(1) = LOWER20
       /\ Primary80(2) = UPPER20 /\ Primary80(3) = UPPERST20
  BY DEF Primary80
<1>12. k \in {0, 1, 2, 3}
  OBVIOUS
<1>13. TxSc(c, 80, 20) = Primary80(k)
  BY <1>10, <1>11, <1>12
<1> QED BY <1>4, <1>13 DEF c

LEMMA Offsets80 ==
  /\ OffsetOf(LOWEST20, 80) = -6 /\ OffsetOf(LOWER20, 80) = -2
  /\ OffsetOf(UPPER20, 80) = 2 /\ OffsetOf(UPPERST20, 80) = 6
<1>1. LOWEST20 # LOWER20 /\ LOWEST20 # UPPER20 /\ LOWEST20 # UPPERST20 /\ LOWER20 # UPPER20
      /\ LOWER20 # UPPERST20 /\ UPPER20 # UPPERST20
  BY DEF LOWEST20, LOWER20, UPPER20, UPPERST20
<1> QED BY <1>1, WidthsDiffer, Zenon DEF OffsetOf

Agrees80(c, centre) ==
  /\ ProgrammingNumber(c, 80) = centre
  /\ DataSc(c, 80) = TxSc(c, 80, 40) * 16 + TxSc(c, 80, 20)
  /\ c = centre + OffsetOf(DataSc(c, 80) % 16, 80)

LEMMA Consistent80 ==
  ASSUME NEW g \in Groups, NEW k \in 0..3
  PROVE  Agrees80(g + 4 * k, g + 6)
<1> DEFINE c == g + 4 * k
<1>1. GroupsOf(c) = {g} /\ FirstOf(c) = g /\ Position(c) = k
  BY OneGroup
<1>t. TxSc(c, 80, 40) = Half80(k) /\ TxSc(c, 80, 20) = Primary80(k)
  BY Tables80
<1>c. c = g + 4 * k
  OBVIOUS
<1> HIDE DEF c
<1>2. GroupsOf(c) # {}
  BY <1>1
<1>3. ProgrammingNumber(c, 80) = FirstOf(c) + 6
  BY <1>2, WidthsDiffer, Zenon DEF ProgrammingNumber
<1>4. DataSc(c, 80) = (IF Position(c) < 2 THEN LOWER40 ELSE UPPER40) * 16
                        + <<LOWEST20, LOWER20, UPPER20, UPPERST20>>[Position(c) + 1]
  BY <1>2, WidthsDiffer, Zenon DEF DataSc
<1>5. DataSc(c, 80) = Half80(k) * 16 + Primary80(k)
  BY <1>1, <1>4 DEF Half80, Primary80
<1>6. DataSc(c, 80) = TxSc(c, 80, 40) * 16 + TxSc(c, 80, 20)
  BY <1>5, <1>t
<1>7. (Half80(k) * 16 + Primary80(k)) % 16 = Primary80(k)
  BY DEF Half80, Primary80, LOWER40, UPPER40, LOWEST20, LOWER20, UPPER20, UPPERST20
<1>8. OffsetOf(Primary80(k), 80) = 4 * k - 6
  <2>1. k \in {0, 1, 2, 3}
    OBVIOUS
  <2>2. /\ Primary80(0) = LOWEST20 /\ Primary80(1) = LOWER20
        /\ Primary80(2) = UPPER20 /\ Primary80(3) = UPPERST20
    BY DEF Primary80
  <2>3. CASE k = 0
    BY <2>2, <2>3, Offsets80
  <2>4. CASE k = 1
    BY <2>2, <2>4, Offsets80
  <2>5. CASE k = 2
    BY <2>2, <2>5, Offsets80
  <2>6. CASE k = 3
    BY <2>2, <2>6, Offsets80
  <2> QED BY <2>1, <2>3, <2>4, <2>5, <2>6
<1>9. g \in Nat
  BY DEF Groups
<1>10. OffsetOf(DataSc(c, 80) % 16, 80) = 4 * k - 6
  BY <1>5, <1>7, <1>8
<1>11. c = g + 6 + OffsetOf(DataSc(c, 80) % 16, 80)
  BY <1>c, <1>9, <1>10
<1>12. ProgrammingNumber(c, 80) = g + 6
  BY <1>1, <1>3
<1>13. Agrees80(c, g + 6)
  BY <1>6, <1>11, <1>12 DEF Agrees80
<1> QED BY <1>c, <1>13

(* 20 MHz needs no setting; 40 MHz has one by the rule modulo 8, which the channels *)
(* from 149 up do not fit; 80 MHz has one in a group.                               *)
LEMMA ProgrammableChannel ==
  ASSUME NEW c \in Channels
  PROVE  Programmable(c)
<1>1. c \in Nat \ {0}
  BY DEF Channels, Channels2, Channels5
<1>2. ProgrammingNumber(c, 20) # 0 /\ SupportsBandwidth(c, 20)
  <2>1. ProgrammingNumber(c, 20) = c
    BY WidthsDiffer, Zenon DEF ProgrammingNumber
  <2> QED BY <1>1, <2>1 DEF SupportsBandwidth
<1>3. ProgrammingNumber(c, 40) # 0 <=> SupportsBandwidth(c, 40) /\ c < 149
  <2>1. ProgrammingNumber(c, 40) # 0 <=> PrimaryOf40(c) # 0
    BY <1>1, Consistent40 DEF Channels, Channels2, Channels5, PrimaryOf40, LOWER20, UPPER20
  <2>2. CASE c \in Channels5
    <3>1. PrimaryOf40(c) # 0 <=> c < 149
      BY <2>2 DEF PrimaryOf40, LOWER20, UPPER20, Channels5
    <3>2. c \notin Channels2
      BY <2>2 DEF Channels2, Channels5
    <3> QED BY <2>1, <3>1, <3>2 DEF SupportsBandwidth
  <2>3. CASE c \in Channels2
    <3>1. c \notin Channels5 /\ c < 149
      BY <2>3 DEF Channels2, Channels5
    <3>2. PrimaryOf40(c) # 0 <=> c <= 13
      BY <2>3, <3>1 DEF PrimaryOf40, LOWER20, UPPER20, Channels2
    <3> QED BY <2>1, <2>3, <3>1, <3>2 DEF SupportsBandwidth
  <2> QED BY <2>2, <2>3 DEF Channels
<1>4. ProgrammingNumber(c, 80) # 0 <=> SupportsBandwidth(c, 80)
  <2>1. CASE c \in Channels5 \ {165}
    <3>1. PICK g \in Groups, k \in 0..3 : c = g + 4 * k
      BY <2>1, InGroup
    <3>2. ProgrammingNumber(c, 80) = g + 6 /\ g \in Nat
      BY <3>1, Consistent80 DEF Agrees80, Groups
    <3> QED BY <2>1, <3>2 DEF SupportsBandwidth
  <2>2. CASE c \in Channels2 \cup {165}
    <3>1. GroupsOf(c) = {}
      BY <2>2, NoGroup
    <3>2. ProgrammingNumber(c, 80) = 0
      BY <3>1, WidthsDiffer, Zenon DEF ProgrammingNumber
    <3>3. c \notin Channels5 \ {165}
      BY <2>2 DEF Channels2, Channels5
    <3> QED BY <3>2, <3>3 DEF SupportsBandwidth
  <2> QED BY <2>1, <2>2 DEF Channels
<1> QED BY <1>1, <1>2, <1>3, <1>4 DEF Programmable, Widths

(* Registers and TX descriptor agree on every channel. *)
LEMMA ConsistentPlan ==
  ASSUME NEW c \in Channels
  PROVE  PlanConsistent(c)
<1>p. Programmable(c)
  BY ProgrammableChannel
<1>1. CASE c \in Channels5 \ {165}
  <2>1. PICK g \in Groups, k \in 0..3 : c = g + 4 * k
    BY <1>1, InGroup
  <2>2. Agrees80(c, g + 6)
    BY <2>1, Consistent80
  <2>3. TxSc(c, 80, 40) = Half80(k)
    BY <2>1, Tables80
  <2>4. ProgrammingNumber(c, 40) # 0 =>
          ProgrammingNumber(c, 40) - (g + 6) = (IF Half80(k) = LOWER40 THEN -4 ELSE 4)
    <3>1. g % 8 = 4 \/ g = 149
      BY DEF Groups
    <3>2. CASE g = 149
      <4>1. c % 8 # 0 /\ c % 8 # 4
        BY <2>1, <3>2
      <4> QED BY <1>1, <4>1, Consistent40 DEF PrimaryOf40
    <3>3. CASE g % 8 = 4
      <4>1. (k \in {0, 2} => c % 8 = 4) /\ (k \in {1, 3} => c % 8 = 0) /\ g \in Nat
        BY <2>1, <3>3 DEF Groups
      <4>2. k \in {0, 2} => PrimaryOf40(c) = LOWER20
        BY <1>1, <4>1 DEF PrimaryOf40
      <4>3. k \in {1, 3} => PrimaryOf40(c) = UPPER20
        BY <1>1, <4>1 DEF PrimaryOf40
      <4> QED BY <2>1, <4>1, <4>2, <4>3, Consistent40
              DEF Half80, LOWER40, UPPER40, LOWER20, UPPER20
    <3> QED BY <3>1, <3>2, <3>3
  <2> QED BY <1>p, <2>2, <2>3, <2>4, Consistent40 DEF PlanConsistent, Agrees80
<1>2. CASE c \in Channels2 \cup {165}
  <2>1. GroupsOf(c) = {}
    BY <1>2, NoGroup
  <2>2. ProgrammingNumber(c, 80) = 0
    BY <2>1, WidthsDiffer, Zenon DEF ProgrammingNumber
  <2> QED BY <1>p, <2>2, Consistent40 DEF PlanConsistent
<1> QED BY <1>1, <1>2 DEF Channels

(* production_data_secondary_channel_setting, production_channel_programming_number *)
(* and tx_data_secondary_channel agree on where the primary channel lies, and with  *)
(* supports_bandwidth on what can be programmed, but for 40 MHz from channel 149 up, *)
(* on every channel the code knows.                                                  *)
THEOREM ChannelsAgree == Spec => []ChannelPlanConsistent
<1>1. Inputs => ChannelPlanConsistent
  BY ConsistentPlan DEF Inputs, ChannelPlanConsistent
<1> QED BY <1>1, InputsAlways, PTL
=============================================================================
