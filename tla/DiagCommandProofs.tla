-------------------------- MODULE DiagCommandProofs --------------------------
(***************************************************************************)
(* Proofs about the diagnostic commands: for every command, every set of its  *)
(* options, every number of download attempts, EFUSE bytes and repeated       *)
(* frames, after any number of commands, with any number of failures, kills   *)
(* and replugs anywhere.                                                      *)
(*                                                                           *)
(* A plan is a sequence of steps put together from smaller plans, so the      *)
(* argument is too.  An annotation assigns to each position of a plan what    *)
(* holds there; it fits when every step, however it ends, leads from its      *)
(* annotation to the next one, or to the one where it jumps.  Leads(r, P, a,  *)
(* b) says that P has a fitting annotation from a to b, and composes: Cat for *)
(* \o, and one lemma for each modifier of a plan.  r.kind selects what an     *)
(* annotation speaks about:                                                   *)
(*   "facts"  the state of the chip (LayersUp, TrafficPrepared),              *)
(*   "acks"   the operator's flags found so far (AcknowledgementFirst),       *)
(*   "left"   what is changed only to look (NothingForgotten).                *)
(* The invariant of a running command is then that its annotation holds at    *)
(* its position.                                                              *)
(***************************************************************************)
EXTENDS DiagCommand, InductionLemmas

-----------------------------------------------------------------------------
(* Plans are sequences of steps: records with these fields. *)
Fields == {"do", "layer", "what", "needs", "sets", "clears", "fails", "after", "jump", "fact", "skip",
           "when", "unless", "phase"}
IsStep(s) ==
  /\ DOMAIN s = Fields /\ s = [x \in Fields |-> s[x]]
  /\ s.layer # "none" /\ s.skip \in Nat /\ s.jump \in {"never", "always", "lacks"} /\ s.fails \in {"end", "keep", "drop", "quiet"}
  /\ s.fails = "quiet" => s.layer \in {"led", "status"}
IsPlan(P) == (\E S : P \in Seq(S)) /\ \A i \in 1..Len(P) : IsStep(P[i])

LEMMA PlanCat ==
  ASSUME NEW P, NEW Q, IsPlan(P), IsPlan(Q)
  PROVE  /\ IsPlan(P \o Q)
         /\ Len(P) \in Nat /\ Len(Q) \in Nat /\ Len(P \o Q) = Len(P) + Len(Q)
         /\ \A i \in 1..Len(P) : (P \o Q)[i] = P[i]
         /\ \A i \in 1..Len(Q) : (P \o Q)[Len(P) + i] = Q[i]
<1>1. PICK S : P \in Seq(S)
  BY DEF IsPlan
<1>2. PICK T : Q \in Seq(T)
  BY DEF IsPlan
<1> DEFINE U == S \cup T
<1>3. P \in Seq(U) /\ Q \in Seq(U)
  BY <1>1, <1>2
<1> HIDE DEF U
<1>4. /\ P \o Q \in Seq(U) /\ Len(P) \in Nat /\ Len(Q) \in Nat /\ Len(P \o Q) = Len(P) + Len(Q)
      /\ \A i \in 1..Len(P) : (P \o Q)[i] = P[i]
      /\ \A i \in 1..Len(Q) : (P \o Q)[Len(P) + i] = Q[i]
  BY <1>3
<1>5. \A i \in 1..Len(P \o Q) : IsStep((P \o Q)[i])
  <2> SUFFICES ASSUME NEW i \in 1..Len(P \o Q) PROVE IsStep((P \o Q)[i])
    OBVIOUS
  <2>1. CASE i <= Len(P)
    BY <2>1, <1>4 DEF IsPlan
  <2>2. CASE ~(i <= Len(P))
    <3>1. i - Len(P) \in 1..Len(Q) /\ i = Len(P) + (i - Len(P))
      BY <2>2, <1>4
    <3>2. (P \o Q)[i] = Q[i - Len(P)]
      BY <3>1, <1>4
    <3> QED BY <3>1, <3>2 DEF IsPlan
  <2> QED BY <2>1, <2>2
<1> QED BY <1>4, <1>5 DEF IsPlan

LEMMA OneStep ==
  ASSUME NEW s, IsStep(s)
  PROVE  IsPlan(<<s>>) /\ Len(<<s>>) = 1 /\ <<s>>[1] = s
<1>1. <<s>> \in Seq({s}) /\ Len(<<s>>) = 1 /\ <<s>>[1] = s
  OBVIOUS
<1>2. \A i \in 1..Len(<<s>>) : <<s>>[i] = s
  BY <1>1
<1> QED BY <1>1, <1>2 DEF IsPlan

(* The options ask for the step. *)
Asked(s, o) == s.when \subseteq o /\ s.unless \cap o = {}

(* A step that may be left out although it is asked for. *)
MayBeQuiet(s) == s.layer \in {"led", "status"}
(* After an error of the step the command goes on as if nothing had happened. *)
GoesOn(s) == s.fails \in {"drop", "quiet"}

-----------------------------------------------------------------------------
(* Facts: an annotation names facts of the chip that hold, facts that do not,   *)
(* and facts this command established.                                          *)
Known(on, off, new) == [on |-> on, off |-> off, new |-> new]
NoMoreFacts(a, b) == b.on \subseteq a.on /\ b.off \subseteq a.off /\ b.new \subseteq a.new
(* What holds after a step that succeeds, after one that fails, and after a      *)
(* reading that finds, or does not find, the fact it looks for.                  *)
FactsAfter(s, a) ==
  Known(((a.on \cup s.needs) \ s.clears) \cup s.sets, (a.off \cup s.clears) \ s.sets,
        (a.new \ s.clears) \cup s.sets)
FactsSpoilt(s, a) == Known(a.on \ s.clears, a.off \ s.sets, a.new \ s.clears)
FactsThere(s, a) == Known(a.on \cup (IF s.jump = "lacks" THEN {s.fact} ELSE {}), a.off, a.new)
FactsMissing(s, a) == Known(a.on, a.off \cup (IF s.jump = "lacks" THEN {s.fact} ELSE {}), a.new)

(* What the annotation in front of a step must grant: the layers below, no       *)
(* firmware next to an open download mode, everything asked for before traffic;  *)
(* a kept error of the baseband finds the layers below it still up.              *)
WritesInOrder(s, a) ==
  s.do = "write" /\ s.layer \in DOMAIN Below =>
    Below[s.layer] \subseteq a.on /\ (s.after = "none" \/ (s.after = "bb" /\ s.layer = "bb"))
FirmwareApart(s, a) ==
  s.sets \cap {"ram", "fw", "dl"} # {} =>
    /\ s.after = "none"
    /\ \/ s.sets = {"dl"} /\ "ram" \in a.off
       \/ "dl" \notin s.sets /\ "dl" \in a.off
TrafficReady(r, s, a) ==
  s.do \in {"in", "out"} =>
    s.after = "none" /\ r.new \subseteq a.new /\ r.off \subseteq a.off /\ r.on \subseteq a.on
BaseBandKept(s, a) ==
  /\ s.fails = "keep" /\ s.layer = "bb" => Below["bb"] \subseteq a.on /\ s.clears \cap Below["bb"] = {}
  /\ s.after = "bb" => s.clears \cap Below["bb"] = {}

FactsLocal(r, s, a, b) ==
  /\ Asked(s, r.opts) =>
       /\ WritesInOrder(s, a) /\ FirmwareApart(s, a) /\ TrafficReady(r, s, a) /\ BaseBandKept(s, a)
       /\ s.jump # "always" => NoMoreFacts(FactsAfter(s, FactsThere(s, a)), b)
       /\ GoesOn(s) => NoMoreFacts(FactsSpoilt(s, a), b)
       /\ MayBeQuiet(s) => NoMoreFacts(a, b)
  /\ ~Asked(s, r.opts) => NoMoreFacts(a, b)
FactsLands(s, a, c) == NoMoreFacts(FactsAfter(s, FactsMissing(s, a)), c)

-----------------------------------------------------------------------------
(* What is left on: an annotation names the facts of this command that are       *)
(* certainly gone again, and those a later step still takes back after an error  *)
(* is kept.                                                                      *)
Left(gone, late) == [gone |-> gone, late |-> late]
NoMoreLeft(a, b) == b.gone \subseteq a.gone /\ a.late \subseteq b.late
StaysLate(s, a, b, fact, layer) ==
  fact \in a.late => fact \in b.late \/ (s.after = layer /\ fact \in s.clears)
LeftLocal(r, s, a, b) ==
  /\ Asked(s, r.opts) =>
       /\ s.jump # "always" => b.gone \subseteq (a.gone \cup s.clears) \ s.sets
       /\ GoesOn(s) => b.gone \subseteq a.gone \ s.sets
       /\ MayBeQuiet(s) => b.gone \subseteq a.gone
       /\ s.after \in {"firmware", "efuse"} => s.fails = "keep" /\ s.sets = {} /\ ~MayBeQuiet(s)
       /\ StaysLate(s, a, b, "dl", "firmware") /\ StaysLate(s, a, b, "grant", "efuse")
       /\ s.fails = "keep" /\ s.layer = "firmware" =>
            /\ "grant" \in (a.gone \cup s.clears) \ s.sets
            /\ "dl" \in ((a.gone \cup s.clears) \ s.sets) \cup b.late
       /\ s.fails = "keep" /\ s.layer = "efuse" =>
            /\ "dl" \in (a.gone \cup s.clears) \ s.sets
            /\ "grant" \in ((a.gone \cup s.clears) \ s.sets) \cup b.late
       /\ r.led =>
            /\ "led" \in s.sets => "led" \in b.late
            /\ StaysLate(s, a, b, "led", "traffic")
            /\ "led" \in a.late \ b.late => s.layer = "led" /\ s.fails = "quiet"
            /\ "led" \in a.late \cup s.sets => s.fails # "end"
            /\ s.fails = "keep" => s.layer = "traffic"
  /\ ~Asked(s, r.opts) => NoMoreLeft(a, b)
LeftLands(r, s, a, c) ==
  c.gone \subseteq (a.gone \cup s.clears) \ s.sets /\ s.after \notin {"firmware", "efuse"} /\ ~r.led

-----------------------------------------------------------------------------
(* Acknowledgements: an annotation is a set of flags the operator gave. *)
AcksLocal(r, s, a, b) ==
  /\ Asked(s, r.opts) =>
       /\ s.jump = "never" /\ s.layer \in {"host", "usb", "traffic"}
       /\ s.do = "claim" => s.after = "none" /\ r.claim \subseteq a /\ (r.guarded => a # {})
       /\ s.do = "out" => s.after = "none" /\ r.out \subseteq a
       /\ s.do = "ack" => s.fails = "end"
       /\ b \subseteq a \cup (IF s.do = "ack" THEN Range(s.what) ELSE {})
  /\ ~Asked(s, r.opts) => b \subseteq a

-----------------------------------------------------------------------------
(* The three kinds together: b says no more than a; the step s leads from a to   *)
(* b; the step s, jumping, leads from a to c.                                    *)
Weaker(r, a, b) ==
  /\ r.kind = "facts" => NoMoreFacts(a, b)
  /\ r.kind = "left" => NoMoreLeft(a, b)
  /\ r.kind = "acks" => b \subseteq a
Local(r, s, a, b) ==
  /\ r.kind = "facts" => FactsLocal(r, s, a, b)
  /\ r.kind = "left" => LeftLocal(r, s, a, b)
  /\ r.kind = "acks" => AcksLocal(r, s, a, b)
Lands(r, s, a, c) ==
  /\ r.kind = "facts" => FactsLands(s, a, c)
  /\ r.kind = "left" => LeftLands(r, s, a, c)
  /\ r.kind = "acks" => c \subseteq a

LEMMA WeakerOrder ==
  /\ \A r, a : Weaker(r, a, a)
  /\ \A r, a, b, c : Weaker(r, a, b) /\ Weaker(r, b, c) => Weaker(r, a, c)
BY DEF Weaker, NoMoreFacts, NoMoreLeft

LEMMA FactsMono == \A r, s, a, b, c : NoMoreFacts(b, c) =>
  (FactsLocal(r, s, a, b) => FactsLocal(r, s, a, c)) /\ (FactsLands(s, a, b) => FactsLands(s, a, c))
<1>1. \A x, b, c : NoMoreFacts(b, c) /\ NoMoreFacts(x, b) => NoMoreFacts(x, c)
  BY DEF NoMoreFacts
<1> SUFFICES ASSUME NEW r, NEW s, NEW a, NEW b, NEW c, NoMoreFacts(b, c)
             PROVE  (FactsLocal(r, s, a, b) => FactsLocal(r, s, a, c)) /\ (FactsLands(s, a, b) => FactsLands(s, a, c))
  OBVIOUS
<1>2. \A x : NoMoreFacts(x, b) => NoMoreFacts(x, c)
  BY <1>1
<1> QED BY <1>2, Zenon DEF FactsLocal, FactsLands

LEMMA LeftMono == \A r, s, a, b, c : NoMoreLeft(b, c) =>
  (LeftLocal(r, s, a, b) => LeftLocal(r, s, a, c)) /\ (LeftLands(r, s, a, b) => LeftLands(r, s, a, c))
<1> SUFFICES ASSUME NEW r, NEW s, NEW a, NEW b, NEW c, NoMoreLeft(b, c)
             PROVE  (LeftLocal(r, s, a, b) => LeftLocal(r, s, a, c)) /\ (LeftLands(r, s, a, b) => LeftLands(r, s, a, c))
  OBVIOUS
<1>1. LeftLocal(r, s, a, b) => LeftLocal(r, s, a, c)
  BY DEF NoMoreLeft, LeftLocal, StaysLate
<1>2. LeftLands(r, s, a, b) => LeftLands(r, s, a, c)
  BY DEF NoMoreLeft, LeftLands
<1> QED BY <1>1, <1>2

LEMMA AcksMono == \A r, s, a, b, c : c \subseteq b /\ AcksLocal(r, s, a, b) => AcksLocal(r, s, a, c)
BY DEF AcksLocal

LEMMA LocalMono ==
  ASSUME NEW r, NEW s, NEW a, NEW b, NEW c, Weaker(r, b, c)
  PROVE  (Local(r, s, a, b) => Local(r, s, a, c)) /\ (Lands(r, s, a, b) => Lands(r, s, a, c))
BY FactsMono, LeftMono, AcksMono DEF Weaker, Local, Lands

(* The annotation A fits the plan P. *)
Fitting(r, P, A) ==
  \A i \in 1..Len(P) :
    /\ Local(r, P[i], A[i], A[i + 1])
    /\ Asked(P[i], r.opts) /\ P[i].jump # "never" =>
         i + P[i].skip <= Len(P) /\ Lands(r, P[i], A[i], A[i + 1 + P[i].skip])

(* P leads from a to b. *)
Leads(r, P, a, b) ==
  IsPlan(P) /\ \E A : Weaker(r, a, A[1]) /\ Weaker(r, A[Len(P) + 1], b) /\ Fitting(r, P, A)

LEMMA Cat ==
  ASSUME NEW r, NEW P, NEW Q, NEW a, NEW b, NEW c, Leads(r, P, a, b), Leads(r, Q, b, c)
  PROVE  Leads(r, P \o Q, a, c)
<1>0. IsPlan(P) /\ IsPlan(Q)
  BY DEF Leads
<1>1. PICK A : Weaker(r, a, A[1]) /\ Weaker(r, A[Len(P) + 1], b) /\ Fitting(r, P, A)
  BY DEF Leads
<1>2. PICK B : Weaker(r, b, B[1]) /\ Weaker(r, B[Len(Q) + 1], c) /\ Fitting(r, Q, B)
  BY DEF Leads
<1> DEFINE p == Len(P)
           q == Len(Q)
           C == [i \in 1..p + q + 1 |-> IF i <= p THEN A[i] ELSE B[i - p]]
<1>3. /\ p \in Nat /\ q \in Nat /\ Len(P \o Q) = p + q /\ IsPlan(P \o Q)
      /\ \A i \in 1..p : (P \o Q)[i] = P[i]
      /\ \A i \in 1..q : (P \o Q)[p + i] = Q[i]
  BY <1>0, PlanCat
<1>s. /\ \A i \in 1..p : P[i].skip \in Nat
      /\ \A i \in 1..q : Q[i].skip \in Nat
  BY <1>0 DEF IsPlan, IsStep
<1> HIDE DEF p, q
<1>4. (\A i \in 1..p : C[i] = A[i]) /\ \A i \in 1..p + 1 : Weaker(r, A[i], C[i])
  <2>1. \A i \in 1..p : C[i] = A[i]
    BY <1>3
  <2>2. C[p + 1] = B[1]
    BY <1>3
  <2>3. Weaker(r, A[p + 1], C[p + 1])
    BY <2>2, <1>1, <1>2, WeakerOrder DEF p
  <2>4. \A i \in 1..p + 1 : i \in 1..p \/ i = p + 1
    BY <1>3
  <2> HIDE DEF C
  <2> QED BY <2>1, <2>3, <2>4, WeakerOrder
<1>5. \A i \in 1..q + 1 : C[p + i] = B[i]
  BY <1>3
<1> HIDE DEF C
<1>6. Weaker(r, a, C[1]) /\ Weaker(r, C[p + q + 1], c)
  <2>1. C[p + q + 1] = B[q + 1] /\ 1 \in 1..p + 1
    BY <1>3, <1>5
  <2> QED BY <2>1, <1>1, <1>2, <1>4, WeakerOrder DEF q
<1>7. ASSUME NEW i \in 1..p + q
      PROVE  /\ Local(r, (P \o Q)[i], C[i], C[i + 1])
             /\ Asked((P \o Q)[i], r.opts) /\ (P \o Q)[i].jump # "never" =>
                  /\ i + (P \o Q)[i].skip <= p + q
                  /\ Lands(r, (P \o Q)[i], C[i], C[i + 1 + (P \o Q)[i].skip])
  <2>1. CASE i <= p
    <3>1. i \in 1..p /\ i \in 1..p + 1 /\ i + 1 \in 1..p + 1 /\ (P \o Q)[i] = P[i] 
          /\ C[i] = A[i] /\ Weaker(r, A[i + 1], C[i + 1])
      BY <2>1, <1>3, <1>4
    <3>2. /\ Local(r, P[i], A[i], A[i + 1])
          /\ Asked(P[i], r.opts) /\ P[i].jump # "never" =>
               i + P[i].skip <= p /\ Lands(r, P[i], A[i], A[i + 1 + P[i].skip])
      BY <1>1, <3>1 DEF Fitting, p
    <3>3. i + P[i].skip <= p => Weaker(r, A[i + 1 + P[i].skip], C[i + 1 + P[i].skip]) /\ i + P[i].skip <= p + q
      <4> DEFINE k == i + 1 + P[i].skip
      <4>1. SUFFICES ASSUME i + P[i].skip <= p PROVE Weaker(r, A[k], C[k]) /\ i + P[i].skip <= p + q
        OBVIOUS
      <4>2. P[i].skip \in Nat
        BY <1>s, <3>1
      <4>3. k \in 1..p + 1 /\ i + P[i].skip <= p + q
        BY <4>1, <4>2, <1>3
      <4> QED BY <4>3, <1>4
    <3> QED BY <3>1, <3>2, <3>3, LocalMono
  <2>2. CASE ~(i <= p)
    <3> DEFINE j == i - p
    <3>1. /\ j \in 1..q /\ i = p + j /\ i + 1 = p + (j + 1) /\ j \in 1..q + 1 /\ j + 1 \in 1..q + 1
      BY <2>2, <1>3
    <3> HIDE DEF j
    <3>2. (P \o Q)[i] = Q[j] /\ C[i] = B[j] /\ C[i + 1] = B[j + 1]
      BY <3>1, <1>3, <1>5
    <3>3. /\ Local(r, Q[j], B[j], B[j + 1])
          /\ Asked(Q[j], r.opts) /\ Q[j].jump # "never" =>
               j + Q[j].skip <= q /\ Lands(r, Q[j], B[j], B[j + 1 + Q[j].skip])
      BY <1>2, <3>1 DEF Fitting, q
    <3>4. j + Q[j].skip <= q => C[i + 1 + Q[j].skip] = B[j + 1 + Q[j].skip] /\ i + Q[j].skip <= p + q
      <4> DEFINE k == j + 1 + Q[j].skip
      <4>1. SUFFICES ASSUME j + Q[j].skip <= q
                     PROVE  C[i + 1 + Q[j].skip] = B[k] /\ i + Q[j].skip <= p + q
        OBVIOUS
      <4>2. Q[j].skip \in Nat
        BY <1>s, <3>1
      <4>3. k \in 1..q + 1 /\ i + 1 + Q[j].skip = p + k /\ i + Q[j].skip <= p + q
        <5>1. \A n \in Nat : j + n <= q =>
                 j + 1 + n \in 1..q + 1 /\ i + 1 + n = p + (j + 1 + n) /\ i + n <= p + q
          BY <3>1, <1>3
        <5> QED BY <5>1, <4>1, <4>2, Zenon
      <4> HIDE DEF k
      <4> QED BY <4>3, <1>5
    <3> QED BY <3>2, <3>3, <3>4
  <2> QED BY <2>1, <2>2, <1>3
<1>8. Fitting(r, P \o Q, C)
  BY <1>3, <1>7 DEF Fitting
<1>9. Weaker(r, C[Len(P \o Q) + 1], c)
  BY <1>3, <1>6
<1> QED BY <1>3, <1>6, <1>8, <1>9 DEF Leads

LEMMA OneLeads ==
  ASSUME NEW r, NEW s, NEW a, NEW b, IsStep(s), s.jump = "never", Local(r, s, a, b)
  PROVE  Leads(r, <<s>>, a, b)
<1> DEFINE A == [i \in 1..2 |-> IF i = 1 THEN a ELSE b]
<1>1. IsPlan(<<s>>) /\ Len(<<s>>) = 1 /\ <<s>>[1] = s
  BY OneStep
<1>2. A[1] = a /\ A[2] = b
  OBVIOUS
<1> HIDE DEF A
<1>3. Fitting(r, <<s>>, A)
  BY <1>1, <1>2 DEF Fitting
<1> QED BY <1>1, <1>2, <1>3, WeakerOrder DEF Leads

LEMMA Conseq ==
  ASSUME NEW r, NEW P, NEW a, NEW b, NEW c, NEW d, Leads(r, P, a, b), Weaker(r, c, a), Weaker(r, b, d)
  PROVE  Leads(r, P, c, d)
BY WeakerOrder DEF Leads

(* Where Proceed goes. *)
LEMMA ProceedsTo ==
  ASSUME NEW P, IsPlan(P), NEW o, NEW k, NEW q, NEW p \in Nat, Proceed(P, o, k, q, p)
  PROVE  \/ /\ pc' = 0 /\ at' = NoStep
            /\ \A m \in (p + 1)..Len(P) : ~Runs(P[m], o, k, q)
         \/ /\ pc' \in (p + 1)..Len(P) /\ at' = P[pc'] /\ Runs(P[pc'], o, k, q)
            /\ \A m \in (p + 1)..(pc' - 1) : ~Runs(P[m], o, k, q)
<1> DEFINE R(n) == Runs(P[n], o, k, q)
           X == {n \in (p + 1)..Len(P) : R(n)}
           Is(n) == R(n) /\ \A m \in (p + 1)..(n - 1) : ~R(m)
           next == CHOOSE n \in (p + 1)..Len(P) : Is(n)
<1>0. Len(P) \in Nat
  BY DEF IsPlan
<1>1. /\ (\E n \in (p + 1)..Len(P) : R(n)) => pc' = next /\ at' = P[next]
      /\ ~(\E n \in (p + 1)..Len(P) : R(n)) => pc' = 0 /\ at' = NoStep
  BY Zenon DEF Proceed
<1> HIDE DEF R
<1>2. CASE X = {}
  BY <1>1, <1>2 DEF R
<1>3. CASE X # {}
  <2>1. X \subseteq Nat
    BY <1>0
  <2>2. PICK n \in X : \A y \in X : n <= y
    BY <1>3, <2>1, LeastNat
  <2>3. n \in (p + 1)..Len(P) /\ Is(n)
    BY <1>0, <2>2
  <2> HIDE DEF Is
  <2>4. next \in (p + 1)..Len(P) /\ Is(next)
    BY <2>3
  <2>5. pc' = next /\ at' = P[next]
    BY <1>1, <2>4, <2>3 DEF Is
  <2> QED BY <2>4, <2>5 DEF Is, R
<1> QED BY <1>2, <1>3

(* What a step that does not run leaves alone is still there where Proceed stops. *)
LEMMA Chain ==
  ASSUME NEW P, IsPlan(P), NEW o, NEW k, NEW q, NEW p \in 0..Len(P), Proceed(P, o, k, q, p),
         NEW T, p + 1 \in T, \A n \in (p + 1)..Len(P) : n \in T /\ ~Runs(P[n], o, k, q) => n + 1 \in T
  PROVE  \/ pc' = 0 /\ at' = NoStep /\ Len(P) + 1 \in T
         \/ pc' \in (p + 1)..Len(P) /\ pc' \in T
<1>0. Len(P) \in Nat /\ p \in Nat
  BY DEF IsPlan
<1>1. ASSUME NEW e \in (p + 1)..(Len(P) + 1), \A m \in (p + 1)..(e - 1) : ~Runs(P[m], o, k, q)
      PROVE  e \in T
  <2> DEFINE U == {n \in Nat : p + 1 + n \in T}
             h == e - (p + 1)
  <2>1. h \in Nat /\ 0 \in U
    BY <1>0
  <2>2. \A n \in 0..h - 1 : n \in U => n + 1 \in U
    <3> SUFFICES ASSUME NEW n \in 0..h - 1, n \in U PROVE n + 1 \in U
      OBVIOUS
    <3>1. p + 1 + n \in (p + 1)..(e - 1) /\ p + 1 + n \in (p + 1)..Len(P) /\ p + 1 + (n + 1) = (p + 1 + n) + 1
      BY <1>0
    <3> QED BY <3>1, <1>1
  <2> HIDE DEF U
  <2>3. \A n \in 0..h : n \in U
    BY <2>1, <2>2, Reaches
  <2>4. h \in U
    BY <2>1, <2>3
  <2> QED BY <2>4, <1>0 DEF U
<1>2. \/ /\ pc' = 0 /\ at' = NoStep
         /\ \A m \in (p + 1)..Len(P) : ~Runs(P[m], o, k, q)
      \/ /\ pc' \in (p + 1)..Len(P)
         /\ \A m \in (p + 1)..(pc' - 1) : ~Runs(P[m], o, k, q)
  BY <1>0, ProceedsTo
<1>3. CASE pc' = 0 /\ at' = NoStep /\ \A m \in (p + 1)..Len(P) : ~Runs(P[m], o, k, q)
  <2>1. Len(P) + 1 \in (p + 1)..(Len(P) + 1) /\ (Len(P) + 1) - 1 = Len(P)
    BY <1>0
  <2> QED BY <2>1, <1>1, <1>3
<1>4. CASE pc' \in (p + 1)..Len(P) /\ \A m \in (p + 1)..(pc' - 1) : ~Runs(P[m], o, k, q)
  <2>1. pc' \in (p + 1)..(Len(P) + 1)
    BY <1>0, <1>4
  <2> QED BY <2>1, <1>1, <1>4
<1> QED BY <1>2, <1>3, <1>4

OptionsOf(c) == {WithProbe(o) : o \in OptionSets(c)}

AllPlans == \A c \in DOMAIN Plans : IsPlan(Plans[c])

Idle ==
  /\ pc = 0 /\ kept = "none" /\ quiet = {} /\ fresh = {} /\ acked = {} /\ held = FALSE /\ ran = {}
  /\ failing = FALSE
AtStep ==
  /\ cmd # "none" /\ pc \in 1..Len(Plans[cmd]) /\ at = Plans[cmd][pc]
  /\ Runs(at, opts, kept, quiet) /\ (kept = "none" => failing = FALSE)
(* Between commands nothing runs; a running command is at a step that runs. *)
Stage ==
  /\ cmd = "none" => Idle
  /\ cmd # "none" => cmd \in DOMAIN Plans /\ opts \in OptionsOf(cmd)
  /\ pc # 0 => AtStep
  /\ quiet \subseteq {"led", "status"}
  /\ kept # "none" => failing = TRUE

LEMMA CommandNames == "none" \notin DOMAIN Plans
BY DEF Plans, Smokes, SmokePlans, RadioPlans

LEMMA StageInit == Init => Stage
BY DEF Init, Stage, Idle

(* The step at hand. *)
LEMMA StepAtHand ==
  ASSUME AllPlans, Stage, pc # 0
  PROVE  /\ cmd # "none" /\ cmd \in DOMAIN Plans /\ opts \in OptionsOf(cmd) /\ IsPlan(Plans[cmd]) /\ Len(Plans[cmd]) \in Nat
         /\ pc \in 1..Len(Plans[cmd]) /\ at = Plans[cmd][pc] /\ IsStep(at)
         /\ Runs(at, opts, kept, quiet) /\ (kept = "none" => failing = FALSE)
BY DEF AllPlans, Stage, AtStep, IsPlan

LEMMA FailureCases ==
  ASSUME NEW s, IsStep(s), at = s, HowItFails
  PROVE  \/ at.fails = "end" /\ failing' = TRUE /\ failed' = at.phase /\ kept' = kept /\ quiet' = quiet
         \/ /\ at.fails = "keep" /\ failing' = TRUE /\ quiet' = quiet
            /\ IF kept = "none" THEN kept' = at.layer /\ failed' = at.phase ELSE kept' = kept /\ failed' = failed
         \/ at.fails = "drop" /\ failing' = failing /\ failed' = failed /\ kept' = kept /\ quiet' = quiet
         \/ /\ at.fails = "quiet" /\ at.layer \in {"led", "status"} /\ quiet' = quiet \cup {at.layer}
            /\ failing' = failing /\ failed' = failed /\ kept' = kept
<1>1. at.fails \in {"end", "keep", "drop", "quiet"} /\ (at.fails = "quiet" => at.layer \in {"led", "status"})
  BY DEF IsStep
<1>2. CASE at.fails = "end"
  BY <1>2, Zenon DEF HowItFails
<1>d. /\ "end" # "keep" /\ "end" # "drop" /\ "end" # "quiet" /\ "keep" # "drop" /\ "keep" # "quiet" /\ "drop" # "quiet"
  OBVIOUS
<1>3. CASE at.fails = "keep"
  BY <1>d, <1>3, Zenon DEF HowItFails
<1>4. CASE at.fails = "drop"
  BY <1>d, <1>4, Zenon DEF HowItFails
<1>5. CASE at.fails = "quiet"
  BY <1>1, <1>d, <1>5, Zenon DEF HowItFails
<1> QED BY <1>1, <1>2, <1>3, <1>4, <1>5

LEMMA StageStep == AllPlans /\ Stage /\ [Next]_vars => Stage'
<1> SUFFICES ASSUME AllPlans, Stage, [Next]_vars PROVE Stage'
  OBVIOUS
<1>1. CASE Start
  <2>0. PICK c \in DOMAIN Plans : \E o \in OptionSets(c) :
           cmd' = c /\ opts' = WithProbe(o) /\ Proceed(Plans[c], WithProbe(o), "none", {}, 0)
    BY <1>1, Zenon DEF Start
  <2>1. PICK o \in OptionSets(c) :
           cmd' = c /\ opts' = WithProbe(o) /\ Proceed(Plans[c], WithProbe(o), "none", {}, 0)
    BY <2>0
  <2>2. /\ cmd' # "none" /\ opts' \in OptionsOf(cmd') /\ IsPlan(Plans[c])
        /\ kept' = "none" /\ quiet' = {} /\ failing' = FALSE
    BY <2>1, <1>1, CommandNames DEF Start, Stage, Idle, OptionsOf, AllPlans
  <2>3. pc' # 0 => pc' \in 1..Len(Plans[c]) /\ at' = Plans[c][pc'] /\ Runs(at', WithProbe(o), "none", {})
    BY <2>1, <2>2, ProceedsTo
  <2> QED BY <2>1, <2>2, <2>3 DEF Stage, AtStep
<1>2. CASE Succeed
  <2>1. pc # 0
    BY <1>2 DEF Succeed
  <2> DEFINE p == IF Jumps THEN pc + at.skip ELSE pc
  <2>2. /\ cmd \in DOMAIN Plans /\ IsPlan(Plans[cmd]) /\ Len(Plans[cmd]) \in Nat /\ pc \in 1..Len(Plans[cmd])
        /\ cmd # "none" /\ opts \in OptionsOf(cmd) /\ IsStep(at) /\ (kept = "none" => failing = FALSE)
    BY <2>1, StepAtHand
  <2>3. p \in Nat /\ p >= 1
    BY <2>2 DEF IsStep
  <2>4. /\ Proceed(Plans[cmd], opts, kept, quiet, p)
        /\ UNCHANGED <<cmd, opts, kept, quiet, failing>>
    BY <1>2, Zenon DEF Succeed
  <2> HIDE DEF p
  <2>5. pc' # 0 => pc' \in (p + 1)..Len(Plans[cmd]) /\ at' = Plans[cmd][pc'] /\ Runs(at', opts, kept, quiet)
    BY <2>2, <2>3, <2>4, ProceedsTo
  <2>6. pc' # 0 => pc' \in 1..Len(Plans[cmd])
    BY <2>2, <2>3, <2>5
  <2> QED BY <2>2, <2>4, <2>5, <2>6 DEF Stage, AtStep
<1>3. CASE Fail
  <2>1. pc # 0
    BY <1>3 DEF Fail
  <2>2. /\ cmd \in DOMAIN Plans /\ IsPlan(Plans[cmd]) /\ Len(Plans[cmd]) \in Nat /\ pc \in 1..Len(Plans[cmd])
        /\ cmd # "none" /\ opts \in OptionsOf(cmd) /\ IsStep(at) /\ (kept = "none" => failing = FALSE)
    BY <2>1, StepAtHand
  <2>3. /\ at.fails # "end" => Proceed(Plans[cmd], opts, kept', quiet', pc)
        /\ at.fails = "end" => pc' = 0
        /\ HowItFails /\ UNCHANGED <<cmd, opts>>
    BY <1>3, Zenon DEF Fail
  <2>4. pc' # 0 => pc' \in (pc + 1)..Len(Plans[cmd]) /\ at' = Plans[cmd][pc'] /\ Runs(at', opts, kept', quiet')
    BY <2>2, <2>3, ProceedsTo
  <2>5. pc' # 0 => pc' \in 1..Len(Plans[cmd])
    BY <2>2, <2>4
  <2>6. /\ quiet' \subseteq {"led", "status"} /\ (kept' # "none" => failing' = TRUE)
        /\ (pc' # 0 /\ kept' = "none" => failing' = FALSE)
    <3>1. at.layer # "none"
      BY <2>2 DEF IsStep
    <3> QED BY <3>1, <2>2, <2>3, FailureCases DEF Stage
  <2> QED BY <2>2, <2>3, <2>4, <2>5, <2>6 DEF Stage, AtStep
<1>4. CASE Report \/ Kill
  BY <1>4 DEF Report, Kill, Ended, Stage, Idle
<1>5. CASE Replug
  BY <1>5 DEF Replug, process, Stage, Idle, AtStep, Runs
<1>6. CASE UNCHANGED vars
  BY <1>6 DEF vars, process, Stage, Idle, AtStep, Runs
<1> QED BY <1>1, <1>2, <1>3, <1>4, <1>5, <1>6 DEF Next

Agree(a, h, f) == a.on \subseteq h /\ a.off \cap h = {} /\ a.new \subseteq f
FactsHold(a) == kept = "none" => Agree(a, chip, fresh)

FactsReq(c, o) ==
  LET same == "init" \in o \/ c \in {"bridge_run", "runtime_flow", "radio_run", "rtl8812a_iqk_diagnostic"}
  IN [kind |-> "facts", opts |-> o,
      new |-> IF same THEN Initialized \ If(o, "cr", "cr") ELSE {},
      off |-> IF same THEN {"dl", "grant"} ELSE {},
      on |-> If(o, "power", "agc") \cup If(o, "profile", "cal")]
Nothing == Known({}, {}, {})
FactsOfPlans ==
  \A c \in DOMAIN Plans : \A o \in OptionsOf(c) : Leads(FactsReq(c, o), Plans[c], Nothing, Nothing)

(* The inductive invariant of LayersUp and TrafficPrepared. *)
FactsInv ==
  /\ fresh \subseteq chip
  /\ ~ {"ram", "fw", "dl"} \subseteq chip
  /\ kept = "bb" => Below["bb"] \subseteq chip
  /\ pc # 0 => \E A : Fitting(FactsReq(cmd, opts), Plans[cmd], A) /\ FactsHold(A[pc])

LEMMA AgreeWeaker ==
  ASSUME NEW a, NEW b, NEW h, NEW f, Agree(a, h, f), NoMoreFacts(a, b)
  PROVE  Agree(b, h, f)
BY DEF Agree, NoMoreFacts

LEMMA AgreeAfter ==
  ASSUME NEW s, NEW a, NEW h, NEW f, Agree(a, h, f), s.needs \subseteq h
  PROVE  Agree(FactsAfter(s, a), (h \ s.clears) \cup s.sets, (f \ s.clears) \cup s.sets)
BY DEF Agree, FactsAfter, Known

LEMMA AgreeSpoilt ==
  ASSUME NEW s, NEW a, NEW h, NEW f, Agree(a, h, f), NEW g, NEW e,
         \/ g = h /\ e = f
         \/ g = (h \ s.clears) \cup s.sets /\ e = (f \ s.clears) \cup s.sets
  PROVE  Agree(FactsSpoilt(s, a), g, e)
BY DEF Agree, FactsSpoilt, Known

LEMMA AgreeThere ==
  ASSUME NEW s, NEW a, NEW h, NEW f, Agree(a, h, f)
  PROVE  /\ ~(s.jump = "lacks" /\ s.fact \notin h) => Agree(FactsThere(s, a), h, f)
         /\ (s.jump = "lacks" => s.fact \notin h) => Agree(FactsMissing(s, a), h, f)
BY DEF Agree, FactsThere, FactsMissing, Known

(* A fitting annotation at one position. *)
LEMMA FittingAt ==
  ASSUME NEW c, NEW o, NEW P, NEW A, Fitting(FactsReq(c, o), P, A), NEW i \in 1..Len(P)
  PROVE  /\ FactsLocal(FactsReq(c, o), P[i], A[i], A[i + 1])
         /\ Asked(P[i], o) /\ P[i].jump # "never" =>
              i + P[i].skip <= Len(P) /\ FactsLands(P[i], A[i], A[i + 1 + P[i].skip])
<1>1. FactsReq(c, o).kind = "facts" /\ FactsReq(c, o).opts = o
  BY DEF FactsReq
<1> QED BY <1>1 DEF Fitting, Local, Lands

(* A step that does not run. *)
LEMMA FactsPass ==
  ASSUME NEW c, NEW o, NEW P, NEW A, Fitting(FactsReq(c, o), P, A), NEW i \in 1..Len(P),
         NEW q \in SUBSET {"led", "status"}, ~Runs(P[i], o, "none", q)
  PROVE  NoMoreFacts(A[i], A[i + 1])
<1>1. FactsLocal(FactsReq(c, o), P[i], A[i], A[i + 1])
  BY FittingAt
<1>2. FactsReq(c, o).opts = o
  BY DEF FactsReq
<1>3. ~Asked(P[i], o) \/ MayBeQuiet(P[i])
  BY DEF Runs, Asked, MayBeQuiet
<1> QED BY <1>1, <1>2, <1>3 DEF FactsLocal

(* From a position where the facts hold on to the next step that runs. *)
LEMMA FactsProceed ==
  ASSUME NEW c, NEW o, NEW P, IsPlan(P), NEW A, Fitting(FactsReq(c, o), P, A),
         NEW p \in 0..Len(P), Proceed(P, o, kept', quiet', p),
         kept' = "none" => Agree(A[p + 1], chip', fresh'),
         quiet' \subseteq {"led", "status"}
  PROVE  pc' # 0 => FactsHold(A[pc])'
<1> DEFINE T == {n \in Nat : FactsHold(A[n])'}
<1>0. Len(P) \in Nat
  BY DEF IsPlan
<1>1. p + 1 \in T
  BY <1>0 DEF FactsHold
<1>2. ASSUME NEW n \in (p + 1)..Len(P), n \in T, ~Runs(P[n], o, kept', quiet') PROVE n + 1 \in T
  <2>0. n \in 1..Len(P) /\ n + 1 \in Nat
    BY <1>0
  <2>1. CASE kept' = "none"
    <3>1. NoMoreFacts(A[n], A[n + 1])
      BY <2>0, <1>2, <2>1, FactsPass
    <3>2. Agree(A[n], chip', fresh')
      BY <1>2, <2>1 DEF FactsHold
    <3>3. Agree(A[n + 1], chip', fresh')
      BY <3>1, <3>2, AgreeWeaker
    <3> QED BY <2>0, <3>3 DEF FactsHold
  <2>2. CASE kept' # "none"
    BY <2>0, <2>2 DEF FactsHold
  <2> QED BY <2>1, <2>2
<1> HIDE DEF T
<1>3. \/ pc' = 0
      \/ pc' \in T
  BY <1>1, <1>2, Chain
<1> QED BY <1>3 DEF T

(* The chip after a step that ran, successfully or not. *)
LEMMA FirmwareStaysApart ==
  ASSUME NEW s, NEW a, NEW h, NEW k, FirmwareApart(s, a), ~ {"ram", "fw", "dl"} \subseteq h,
         k = "none" \/ s.after = k, k = "none" => a.off \cap h = {},
         NEW g \in {h, (h \ s.clears) \cup s.sets}
  PROVE  ~ {"ram", "fw", "dl"} \subseteq g
<1>1. CASE s.sets \cap {"ram", "fw", "dl"} = {}
  BY <1>1
<1>2. CASE s.sets \cap {"ram", "fw", "dl"} # {}
  <2>1. a.off \cap h = {}
    BY <1>2 DEF FirmwareApart
  <2>2. CASE s.sets = {"dl"} /\ "ram" \in a.off
    BY <2>1, <2>2
  <2>3. CASE "dl" \notin s.sets /\ "dl" \in a.off
    BY <2>1, <2>3
  <2> QED BY <1>2, <2>2, <2>3 DEF FirmwareApart
<1> QED BY <1>1, <1>2

LEMMA FactsStart ==
  ASSUME FactsOfPlans, AllPlans, Stage, FactsInv, Start PROVE FactsInv'
<1>0. PICK c \in DOMAIN Plans : \E o \in OptionSets(c) :
         cmd' = c /\ opts' = WithProbe(o) /\ Proceed(Plans[c], WithProbe(o), "none", {}, 0)
  BY Zenon DEF Start
<1>1. PICK o \in OptionSets(c) :
         cmd' = c /\ opts' = WithProbe(o) /\ Proceed(Plans[c], WithProbe(o), "none", {}, 0)
  BY <1>0
<1>2. /\ kept' = "none" /\ quiet' = {} /\ fresh' = {} /\ chip' = chip \ {"agc", "cal"}
      /\ opts' \in OptionsOf(c) /\ IsPlan(Plans[c])
  BY <1>1 DEF Start, Stage, Idle, OptionsOf, AllPlans
<1>3. Leads(FactsReq(c, opts'), Plans[c], Nothing, Nothing)
  BY <1>2 DEF FactsOfPlans
<1>4. PICK A : Weaker(FactsReq(c, opts'), Nothing, A[1]) /\ Fitting(FactsReq(c, opts'), Plans[c], A)
  BY <1>3 DEF Leads
<1>5. NoMoreFacts(Nothing, A[1])
  BY <1>4 DEF Weaker, FactsReq
<1>6. Agree(A[1], chip', fresh')
  <2>1. Agree(Nothing, chip', fresh')
    BY DEF Agree, Nothing, Known
  <2> QED BY <2>1, <1>5, AgreeWeaker
<1>7. pc' # 0 => FactsHold(A[pc])'
  <2>1. (kept' = "none" => Agree(A[0 + 1], chip', fresh')) /\ 0 \in 0..Len(Plans[c]) /\ Proceed(Plans[c], opts', kept', quiet', 0)
    BY <1>1, <1>2, <1>6 DEF IsPlan
  <2> QED BY <2>1, <1>2, <1>4, FactsProceed
<1>8. pc' # 0 => Fitting(FactsReq(cmd', opts'), Plans[cmd'], A) /\ FactsHold(A[pc])'
  BY <1>1, <1>4, <1>7
<1> QED BY <1>2, <1>8 DEF FactsInv

LEMMA FactsSucceed ==
  ASSUME AllPlans, Stage, FactsInv, Succeed PROVE FactsInv'
<1> DEFINE P == Plans[cmd]
           r == FactsReq(cmd, opts)
<1>1. pc # 0 /\ at.needs \subseteq chip
  BY DEF Succeed
<1>2. /\ IsPlan(P) /\ Len(P) \in Nat /\ pc \in 1..Len(P) /\ at = P[pc] /\ IsStep(at)
      /\ Runs(at, opts, kept, quiet)
  BY <1>1, StepAtHand
<1>3. PICK A : Fitting(r, P, A) /\ FactsHold(A[pc])
  BY <1>1 DEF FactsInv
<1>4. /\ chip' = (chip \ at.clears) \cup at.sets /\ fresh' = (fresh \ at.clears) \cup at.sets
      /\ UNCHANGED <<cmd, opts, kept, quiet>>
      /\ Proceed(P, opts, kept, quiet, IF Jumps THEN pc + at.skip ELSE pc)
  BY Zenon DEF Succeed, Effect
<1>5. /\ FactsLocal(r, at, A[pc], A[pc + 1]) /\ Asked(at, opts) /\ r.opts = opts
      /\ at.jump # "never" => pc + at.skip <= Len(P) /\ FactsLands(at, A[pc], A[pc + 1 + at.skip])
  <2>1. Asked(at, opts) /\ r.opts = opts
    BY <1>2 DEF Runs, Asked, FactsReq
  <2> QED BY <1>2, <1>3, <2>1, FittingAt
<1> HIDE DEF r
<1>6. fresh' \subseteq chip'
  BY <1>4 DEF FactsInv
<1>7. ~ {"ram", "fw", "dl"} \subseteq chip'
  <2>1. /\ FirmwareApart(at, A[pc]) /\ ~ {"ram", "fw", "dl"} \subseteq chip
        /\ kept = "none" \/ at.after = kept
        /\ kept = "none" => A[pc].off \cap chip = {}
        /\ chip' \in {chip, (chip \ at.clears) \cup at.sets}
    BY <1>2, <1>3, <1>4, <1>5 DEF FactsLocal, FactsInv, Runs, FactsHold, Agree
  <2> QED BY <2>1, FirmwareStaysApart
<1>8. kept' = "bb" => Below["bb"] \subseteq chip'
  <2>1. SUFFICES ASSUME kept = "bb" PROVE Below["bb"] \subseteq chip'
    BY <1>4
  <2>2. at.clears \cap Below["bb"] = {}
    BY <2>1, <1>2, <1>5 DEF Runs, FactsLocal, BaseBandKept
  <2> QED BY <2>1, <2>2, <1>4 DEF FactsInv
<1>9. pc' # 0 => FactsHold(A[pc])'
  <2>q. quiet' \subseteq {"led", "status"}
    BY <1>4 DEF Stage
  <2>1. CASE Jumps
    <3>1. at.jump # "never" /\ (at.jump = "lacks" => at.fact \notin chip)
      BY <2>1 DEF Jumps
    <3>2. pc + at.skip \in 0..Len(P) /\ (pc + at.skip) + 1 = pc + 1 + at.skip
      <4>1. at.skip \in Nat
        BY <1>2 DEF IsStep
      <4>2. \A n \in Nat : pc + n <= Len(P) => pc + n \in 0..Len(P) /\ (pc + n) + 1 = pc + 1 + n
        BY <1>2
      <4> QED BY <4>1, <4>2, <3>1, <1>5, Zenon
    <3>3. ASSUME kept' = "none" PROVE Agree(A[pc + 1 + at.skip], chip', fresh')
      <4>1. kept = "none"
        BY <1>4, <3>3
      <4>2. Agree(FactsMissing(at, A[pc]), chip, fresh)
        BY <4>1, <3>1, <1>3, AgreeThere DEF FactsHold
      <4>3. Agree(FactsAfter(at, FactsMissing(at, A[pc])), chip', fresh')
        BY <4>2, <1>1, <1>4, AgreeAfter
      <4>4. NoMoreFacts(FactsAfter(at, FactsMissing(at, A[pc])), A[pc + 1 + at.skip])
        BY <3>1, <1>5 DEF FactsLands
      <4> QED BY <4>3, <4>4, AgreeWeaker
    <3>4. Proceed(P, opts, kept', quiet', pc + at.skip)
      BY <1>4, <2>1
    <3> QED BY <3>2, <3>3, <3>4, <1>2, <1>3, <2>q, FactsProceed DEF r
  <2>2. CASE ~Jumps
    <3>1. at.jump # "always" /\ ~(at.jump = "lacks" /\ at.fact \notin chip)
      BY <2>2 DEF Jumps
    <3>2. pc \in 0..Len(P)
      BY <1>2
    <3>3. ASSUME kept' = "none" PROVE Agree(A[pc + 1], chip', fresh')
      <4>1. kept = "none"
        BY <1>4, <3>3
      <4>2. Agree(FactsThere(at, A[pc]), chip, fresh)
        BY <4>1, <3>1, <1>3, AgreeThere DEF FactsHold
      <4>3. Agree(FactsAfter(at, FactsThere(at, A[pc])), chip', fresh')
        BY <4>2, <1>1, <1>4, AgreeAfter
      <4>4. NoMoreFacts(FactsAfter(at, FactsThere(at, A[pc])), A[pc + 1])
        BY <3>1, <1>5 DEF FactsLocal
      <4> QED BY <4>3, <4>4, AgreeWeaker
    <3>4. Proceed(P, opts, kept', quiet', pc)
      BY <1>4, <2>2
    <3> QED BY <3>2, <3>3, <3>4, <1>2, <1>3, <2>q, FactsProceed DEF r
  <2> QED BY <2>1, <2>2
<1>10. Fitting(FactsReq(cmd', opts'), Plans[cmd'], A)
  BY <1>3, <1>4 DEF r
<1> QED BY <1>6, <1>7, <1>8, <1>9, <1>10 DEF FactsInv

LEMMA FactsFail ==
  ASSUME AllPlans, Stage, FactsInv, Fail PROVE FactsInv'
<1> DEFINE P == Plans[cmd]
           r == FactsReq(cmd, opts)
<1>1. pc # 0
  BY DEF Fail
<1>2. /\ IsPlan(P) /\ Len(P) \in Nat /\ pc \in 1..Len(P) /\ at = P[pc] /\ IsStep(at)
      /\ Runs(at, opts, kept, quiet)
  BY <1>1, StepAtHand
<1>3. PICK A : Fitting(r, P, A) /\ FactsHold(A[pc])
  BY <1>1 DEF FactsInv
<1>4. /\ \/ chip' = chip /\ fresh' = fresh
         \/ chip' = (chip \ at.clears) \cup at.sets /\ fresh' = (fresh \ at.clears) \cup at.sets
      /\ UNCHANGED <<cmd, opts>> /\ HowItFails
      /\ at.fails = "end" => pc' = 0
      /\ at.fails # "end" => Proceed(P, opts, kept', quiet', pc)
  BY Zenon DEF Fail, Effect
<1>5. FactsLocal(r, at, A[pc], A[pc + 1]) /\ Asked(at, opts) /\ r.opts = opts
  <2>1. Asked(at, opts) /\ r.opts = opts
    BY <1>2 DEF Runs, Asked, FactsReq
  <2> QED BY <1>2, <1>3, <2>1, FittingAt
<1> HIDE DEF r
<1>f. /\ kept' = kept \/ (kept = "none" /\ at.fails = "keep" /\ kept' = at.layer)
      /\ at.fails # "end" /\ kept' = "none" => kept = "none" /\ GoesOn(at)
      /\ quiet' \subseteq {"led", "status"}
  <2>1. at.layer # "none"
    BY <1>2 DEF IsStep
  <2>2. quiet \subseteq {"led", "status"}
    BY DEF Stage
  <2>3. IsStep(at) /\ HowItFails
    BY <1>2, <1>4
  <2>4. \/ at.fails = "end" /\ kept' = kept /\ quiet' = quiet
        \/ at.fails = "keep" /\ quiet' = quiet /\ kept' = IF kept = "none" THEN at.layer ELSE kept
        \/ at.fails = "drop" /\ kept' = kept /\ quiet' = quiet
        \/ at.fails = "quiet" /\ at.layer \in {"led", "status"} /\ quiet' = quiet \cup {at.layer} /\ kept' = kept
    BY <2>3, FailureCases
  <2>6. quiet' \subseteq {"led", "status"}
    BY <2>2, <2>4
  <2>7. kept' = kept \/ (kept = "none" /\ at.fails = "keep" /\ kept' = at.layer)
    BY <2>4
  <2>8. at.fails # "end" /\ kept' = "none" => kept = "none" /\ GoesOn(at)
    BY <2>1, <2>4 DEF GoesOn
  <2> QED BY <2>6, <2>7, <2>8
<1>6. fresh' \subseteq chip'
  BY <1>4 DEF FactsInv
<1>7. ~ {"ram", "fw", "dl"} \subseteq chip'
  <2>1. /\ FirmwareApart(at, A[pc]) /\ ~ {"ram", "fw", "dl"} \subseteq chip
        /\ kept = "none" \/ at.after = kept
        /\ kept = "none" => A[pc].off \cap chip = {}
        /\ chip' \in {chip, (chip \ at.clears) \cup at.sets}
    BY <1>2, <1>3, <1>4, <1>5 DEF FactsLocal, FactsInv, Runs, FactsHold, Agree
  <2> QED BY <2>1, FirmwareStaysApart
<1>8. kept' = "bb" => Below["bb"] \subseteq chip'
  <2>1. SUFFICES ASSUME kept' = "bb" PROVE Below["bb"] \subseteq chip'
    OBVIOUS
  <2>2. at.clears \cap Below["bb"] = {} /\ Below["bb"] \subseteq chip
    <3>1. BaseBandKept(at, A[pc])
      BY <1>5 DEF FactsLocal
    <3>2. CASE kept = "bb"
      BY <3>1, <3>2, <1>2 DEF Runs, BaseBandKept, FactsInv
    <3>3. CASE kept = "none" /\ at.fails = "keep" /\ at.layer = "bb"
      BY <3>1, <3>3, <1>3 DEF BaseBandKept, FactsHold, Agree
    <3> QED BY <3>2, <3>3, <1>f, <2>1
  <2> QED BY <2>2, <1>4
<1>9. pc' # 0 => FactsHold(A[pc])'
  <2>1. SUFFICES ASSUME at.fails # "end" PROVE pc' # 0 => FactsHold(A[pc])'
    BY <1>4
  <2>2. pc \in 0..Len(P)
    BY <1>2
  <2>3. ASSUME kept' = "none" PROVE Agree(A[pc + 1], chip', fresh')
    <3>2. kept = "none" /\ GoesOn(at)
      BY <2>3, <2>1, <1>f
    <3>3. Agree(FactsSpoilt(at, A[pc]), chip', fresh')
      BY <3>2, <1>3, <1>4, AgreeSpoilt DEF FactsHold
    <3>4. NoMoreFacts(FactsSpoilt(at, A[pc]), A[pc + 1])
      BY <3>2, <1>5 DEF FactsLocal
    <3> QED BY <3>3, <3>4, AgreeWeaker
  <2>4. Proceed(P, opts, kept', quiet', pc)
    BY <1>4, <2>1
  <2> QED BY <2>2, <2>3, <2>4, <1>2, <1>3, <1>f, FactsProceed DEF r
<1>10. Fitting(FactsReq(cmd', opts'), Plans[cmd'], A)
  BY <1>3, <1>4 DEF r
<1> QED BY <1>6, <1>7, <1>8, <1>9, <1>10 DEF FactsInv

LEMMA FactsInit == Init => FactsInv
BY DEF Init, FactsInv, Initialized

LEMMA FactsStep == FactsOfPlans /\ AllPlans /\ Stage /\ FactsInv /\ [Next]_vars => FactsInv'
<1> SUFFICES ASSUME FactsOfPlans, AllPlans, Stage, FactsInv, [Next]_vars PROVE FactsInv'
  OBVIOUS
<1>1. CASE Report \/ Kill
  BY <1>1 DEF Report, Kill, Ended, FactsInv
<1>2. CASE Replug
  BY <1>2 DEF Replug, process, Stage, Idle, FactsInv
<1>3. CASE UNCHANGED vars
  BY <1>3 DEF vars, process, FactsInv, FactsHold
<1> QED BY <1>1, <1>2, <1>3, FactsStart, FactsSucceed, FactsFail DEF Next

LEMMA FactsGive == AllPlans /\ Stage /\ FactsInv => LayersInOrder /\ TrafficOnPreparedChip
<1> SUFFICES ASSUME AllPlans, Stage, FactsInv PROVE LayersInOrder /\ TrafficOnPreparedChip
  OBVIOUS
<1>0. CASE pc = 0
  BY <1>0 DEF LayersInOrder, TrafficOnPreparedChip, FactsInv
<1>1. CASE pc # 0
  <2> DEFINE P == Plans[cmd]
             r == FactsReq(cmd, opts)
  <2>2. pc \in 1..Len(P) /\ at = P[pc] /\ Runs(at, opts, kept, quiet)
    BY <1>1, StepAtHand
  <2>3. PICK A : Fitting(r, P, A) /\ FactsHold(A[pc])
    BY <1>1 DEF FactsInv
  <2>4. FactsLocal(r, at, A[pc], A[pc + 1]) /\ Asked(at, opts) /\ r.opts = opts
    <3>1. Asked(at, opts) /\ r.opts = opts
      BY <2>2 DEF Runs, Asked, FactsReq
    <3> QED BY <2>2, <2>3, <3>1, FittingAt
  <2>5. WritesInOrder(at, A[pc]) /\ TrafficReady(r, at, A[pc])
    BY <2>4 DEF FactsLocal
  <2>6. LayersInOrder
    <3>1. ASSUME at.do = "write", at.layer \in DOMAIN Below PROVE Below[at.layer] \subseteq chip
      BY <3>1, <2>2, <2>3, <2>5 DEF WritesInOrder, FactsHold, Agree, Runs, FactsInv
    <3> QED BY <3>1 DEF LayersInOrder, FactsInv
  <2>7. TrafficOnPreparedChip
    <3>1. SUFFICES ASSUME at.do \in {"in", "out"}
                   PROVE  /\ SameSession =>
                               /\ (Initialized \ If(opts, "cr", "cr")) \subseteq fresh \cap chip
                               /\ chip \cap {"dl", "grant"} = {}
                          /\ "power" \in opts => "agc" \in chip
                          /\ "profile" \in opts => "cal" \in chip
      BY DEF TrafficOnPreparedChip
    <3>2. Agree(A[pc], chip, fresh) /\ fresh \subseteq chip
      BY <3>1, <2>2, <2>3, <2>5 DEF TrafficReady, Runs, FactsHold, FactsInv
    <3>3. r.new \subseteq fresh \cap chip /\ r.off \cap chip = {} /\ r.on \subseteq chip
      BY <3>1, <3>2, <2>5 DEF TrafficReady, Agree
    <3>4. SameSession => r.new = Initialized \ If(opts, "cr", "cr") /\ r.off = {"dl", "grant"}
      BY DEF r, FactsReq, SameSession
    <3>5. r.on = If(opts, "power", "agc") \cup If(opts, "profile", "cal")
      BY DEF r, FactsReq
    <3> HIDE DEF r
    <3> QED BY <3>3, <3>4, <3>5 DEF If
  <2> QED BY <2>6, <2>7
<1> QED BY <1>0, <1>1

-----------------------------------------------------------------------------
(* Steps and their fields. *)
Shaped(s) == DOMAIN s = Fields /\ s = [x \in Fields |-> s[x]]
(* t is s with another value in one field. *)
Changed(s, t, f, v) == Shaped(t) /\ t[f] = v /\ \A g \in Fields \ {f} : t[g] = s[g]

LEMMA FieldChanged ==
  ASSUME NEW s, Shaped(s), NEW v
  PROVE  /\ Changed(s, [s EXCEPT !.needs = v], "needs", v)
         /\ Changed(s, [s EXCEPT !.sets = v], "sets", v)
         /\ Changed(s, [s EXCEPT !.clears = v], "clears", v)
         /\ Changed(s, [s EXCEPT !.fails = v], "fails", v)
         /\ Changed(s, [s EXCEPT !.after = v], "after", v)
         /\ Changed(s, [s EXCEPT !.when = v], "when", v)
         /\ Changed(s, [s EXCEPT !.unless = v], "unless", v)
         /\ Changed(s, [s EXCEPT !.phase = v], "phase", v)
         /\ Changed(s, [s EXCEPT !.jump = v], "jump", v)
         /\ Changed(s, [s EXCEPT !.fact = v], "fact", v)
         /\ Changed(s, [s EXCEPT !.skip = v], "skip", v)
<1> DEFINE t(f) == [s EXCEPT ![f] = v]
<1>1. ASSUME NEW f \in Fields PROVE Changed(s, t(f), f, v)
  BY Zenon DEF Shaped, Changed
<1>2. /\ "needs" \in Fields /\ "sets" \in Fields /\ "clears" \in Fields /\ "fails" \in Fields
      /\ "after" \in Fields /\ "when" \in Fields /\ "unless" \in Fields /\ "phase" \in Fields
      /\ "jump" \in Fields /\ "fact" \in Fields /\ "skip" \in Fields
  BY DEF Fields
<1> QED BY <1>1, <1>2, Zenon

LEMMA IsShaped == \A s : IsStep(s) => Shaped(s)
BY DEF IsStep, Shaped

(* The attributes of a step built by the constructors. *)
Looks(s, do, layer, needs, sets, clears, fails, after) ==
  /\ IsStep(s) /\ s.do = do /\ s.layer = layer /\ s.needs = needs /\ s.sets = sets /\ s.clears = clears
  /\ s.fails = fails /\ s.after = after
  /\ s.jump = "never" /\ s.when = {} /\ s.unless = {} /\ s.phase = "none"

LEMMA LooksStep ==
  ASSUME NEW d, NEW l, NEW w, l # "none"
  PROVE  Looks(Step(d, l, w), d, l, {}, {}, {}, "end", "none") /\ Step(d, l, w).what = w
<1> DEFINE s == Step(d, l, w)
<1>1. DOMAIN s = Fields /\ s = [x \in Fields |-> s[x]]
  BY Zenon DEF Step, Fields
<1>2. /\ s.do = d /\ s.layer = l /\ s.what = w /\ s.needs = {} /\ s.sets = {} /\ s.clears = {}
      /\ s.fails = "end" /\ s.after = "none" /\ s.jump = "never" /\ s.skip = 0 /\ s.when = {} /\ s.unless = {}
      /\ s.phase = "none"
  BY DEF Step
<1> HIDE DEF s
<1>3. Looks(s, d, l, {}, {}, {}, "end", "none") /\ s.what = w
  BY <1>1, <1>2 DEF Looks, IsStep
<1> QED BY <1>3 DEF s

LEMMA LooksWith ==
  ASSUME NEW s, NEW d, NEW l, NEW n, NEW S, NEW C, NEW f, NEW e, Looks(s, d, l, n, S, C, f, e), NEW v
  PROVE  /\ Looks([s EXCEPT !.needs = v], d, l, v, S, C, f, e)
         /\ Looks([s EXCEPT !.sets = v], d, l, n, v, C, f, e)
         /\ Looks([s EXCEPT !.clears = v], d, l, n, S, v, f, e)
         /\ Looks([s EXCEPT !.after = v], d, l, n, S, C, f, v)
         /\ v \in {"end", "keep", "drop"} \/ (v = "quiet" /\ l \in {"led", "status"}) =>
              Looks([s EXCEPT !.fails = v], d, l, n, S, C, v, e)
<1>0. Shaped(s)
  BY IsShaped DEF Looks
<1>1. ASSUME NEW t, Changed(s, t, "needs", v) PROVE Looks(t, d, l, v, S, C, f, e)
  BY <1>1 DEF Looks, IsStep, Changed, Shaped, Fields
<1>2. ASSUME NEW t, Changed(s, t, "sets", v) PROVE Looks(t, d, l, n, v, C, f, e)
  BY <1>2 DEF Looks, IsStep, Changed, Shaped, Fields
<1>3. ASSUME NEW t, Changed(s, t, "clears", v) PROVE Looks(t, d, l, n, S, v, f, e)
  BY <1>3 DEF Looks, IsStep, Changed, Shaped, Fields
<1>4. ASSUME NEW t, Changed(s, t, "after", v) PROVE Looks(t, d, l, n, S, C, f, v)
  BY <1>4 DEF Looks, IsStep, Changed, Shaped, Fields
<1>5. ASSUME NEW t, Changed(s, t, "fails", v),
             v \in {"end", "keep", "drop"} \/ (v = "quiet" /\ l \in {"led", "status"})
      PROVE Looks(t, d, l, n, S, C, v, e)
  BY <1>5 DEF Looks, IsStep, Changed, Shaped, Fields
<1> QED BY <1>0, <1>1, <1>2, <1>3, <1>4, <1>5, FieldChanged

-----------------------------------------------------------------------------
(* Steps that differ in options and phase only. *)
Alike(s, t) ==
  /\ s.do = t.do /\ s.layer = t.layer /\ s.what = t.what /\ s.needs = t.needs /\ s.sets = t.sets
  /\ s.clears = t.clears /\ s.fails = t.fails /\ s.after = t.after
  /\ s.jump = t.jump /\ s.fact = t.fact /\ s.skip = t.skip

LEMMA OptionChanged ==
  ASSUME NEW s, IsStep(s), NEW t, NEW v, NEW f \in {"when", "unless", "phase"}, Changed(s, t, f, v)
  PROVE  /\ IsStep(t) /\ Alike(s, t)
         /\ f = "when" => t.when = v /\ t.unless = s.unless /\ t.phase = s.phase
         /\ f = "unless" => t.when = s.when /\ t.unless = v /\ t.phase = s.phase
         /\ f = "phase" => t.when = s.when /\ t.unless = s.unless /\ t.phase = v
<1>1. \A g \in {"do", "layer", "what", "needs", "sets", "clears", "fails", "after", "jump", "fact", "skip"} :
        t[g] = s[g]
  BY DEF Changed, Fields
<1>2. Alike(s, t)
  BY <1>1 DEF Alike
<1>3. Shaped(t)
  BY DEF Changed
<1>4. IsStep(t)
  BY <1>2, <1>3 DEF IsStep, Shaped, Alike
<1>5. CASE f = "when"
  BY <1>2, <1>4, <1>5 DEF Changed, Fields
<1>6. CASE f = "unless"
  BY <1>2, <1>4, <1>6 DEF Changed, Fields
<1>7. CASE f = "phase"
  BY <1>2, <1>4, <1>7 DEF Changed, Fields
<1> QED BY <1>5, <1>6, <1>7

LEMMA LocalAlike ==
  ASSUME NEW r, NEW s, NEW t, NEW a, NEW b, Alike(s, t), Asked(s, r.opts) <=> Asked(t, r.opts)
  PROVE  (Local(r, s, a, b) => Local(r, t, a, b)) /\ (Lands(r, s, a, b) => Lands(r, t, a, b))
<1>1. FactsLocal(r, s, a, b) => FactsLocal(r, t, a, b)
  BY DEF FactsLocal, Alike, WritesInOrder, FirmwareApart, TrafficReady, BaseBandKept, FactsAfter, FactsThere,
         FactsSpoilt, GoesOn, MayBeQuiet
<1>2. FactsLands(s, a, b) => FactsLands(t, a, b)
  BY DEF FactsLands, Alike, FactsAfter, FactsMissing
<1>3. LeftLocal(r, s, a, b) => LeftLocal(r, t, a, b)
  BY DEF LeftLocal, Alike, StaysLate, GoesOn, MayBeQuiet
<1>4. LeftLands(r, s, a, b) => LeftLands(r, t, a, b)
  BY DEF LeftLands, Alike
<1>5. AcksLocal(r, s, a, b) => AcksLocal(r, t, a, b)
  BY DEF AcksLocal, Alike
<1> QED BY <1>1, <1>2, <1>3, <1>4, <1>5 DEF Local, Lands

LEMMA LocalNotAsked ==
  ASSUME NEW r, NEW s, NEW a, ~Asked(s, r.opts)
  PROVE  Local(r, s, a, a)
BY DEF Local, FactsLocal, LeftLocal, AcksLocal, NoMoreFacts, NoMoreLeft

-----------------------------------------------------------------------------
(* Modifiers of whole sequences. *)
Recasts(P, Q) == IsPlan(Q) /\ Len(Q) = Len(P) /\ \A i \in 1..Len(P) : Alike(P[i], Q[i])

LEMMA WhenPlan ==
  ASSUME NEW P, IsPlan(P), NEW o
  PROVE  /\ Recasts(P, When(o, P))
         /\ \A i \in 1..Len(P) :
              /\ When(o, P)[i].when = P[i].when \cup o /\ When(o, P)[i].unless = P[i].unless
              /\ When(o, P)[i].phase = P[i].phase
<1> DEFINE F(s) == [s EXCEPT !.when = s.when \cup o]
           Q == When(o, P)
<1>0. Len(P) \in Nat
  BY DEF IsPlan
<1>1. Q = [i \in 1..Len(P) |-> F(P[i])]
  BY Zenon DEF When, Each
<1>2. \A s : IsStep(s) => Changed(s, F(s), "when", s.when \cup o)
  BY FieldChanged, IsShaped
<1> HIDE DEF F, Q
<1>3. Q \in Seq({F(P[i]) : i \in 1..Len(P)}) /\ Len(Q) = Len(P) /\ \A i \in 1..Len(P) : Q[i] = F(P[i])
  BY <1>0, <1>1
<1>4. ASSUME NEW i \in 1..Len(P)
      PROVE /\ IsStep(Q[i]) /\ Alike(P[i], Q[i]) /\ Q[i].when = P[i].when \cup o
            /\ Q[i].unless = P[i].unless /\ Q[i].phase = P[i].phase
  <2>1. IsStep(P[i]) /\ Changed(P[i], Q[i], "when", P[i].when \cup o)
    BY <1>2, <1>3 DEF IsPlan
  <2> QED BY <2>1, OptionChanged
<1>5. IsPlan(Q)
  BY <1>3, <1>4 DEF IsPlan
<1> QED BY <1>3, <1>4, <1>5 DEF Recasts, Q

LEMMA UnlessPlan ==
  ASSUME NEW P, IsPlan(P), NEW o
  PROVE  /\ Recasts(P, Unless(o, P))
         /\ \A i \in 1..Len(P) :
              /\ Unless(o, P)[i].when = P[i].when /\ Unless(o, P)[i].unless = P[i].unless \cup o
              /\ Unless(o, P)[i].phase = P[i].phase
<1> DEFINE F(s) == [s EXCEPT !.unless = s.unless \cup o]
           Q == Unless(o, P)
<1>0. Len(P) \in Nat
  BY DEF IsPlan
<1>1. Q = [i \in 1..Len(P) |-> F(P[i])]
  BY Zenon DEF Unless, Each
<1>2. \A s : IsStep(s) => Changed(s, F(s), "unless", s.unless \cup o)
  BY FieldChanged, IsShaped
<1> HIDE DEF F, Q
<1>3. Q \in Seq({F(P[i]) : i \in 1..Len(P)}) /\ Len(Q) = Len(P) /\ \A i \in 1..Len(P) : Q[i] = F(P[i])
  BY <1>0, <1>1
<1>4. ASSUME NEW i \in 1..Len(P)
      PROVE /\ IsStep(Q[i]) /\ Alike(P[i], Q[i]) /\ Q[i].unless = P[i].unless \cup o
            /\ Q[i].when = P[i].when /\ Q[i].phase = P[i].phase
  <2>1. IsStep(P[i]) /\ Changed(P[i], Q[i], "unless", P[i].unless \cup o)
    BY <1>2, <1>3 DEF IsPlan
  <2> QED BY <2>1, OptionChanged
<1>5. IsPlan(Q)
  BY <1>3, <1>4 DEF IsPlan
<1> QED BY <1>3, <1>4, <1>5 DEF Recasts, Q

LEMMA InPlan ==
  ASSUME NEW P, IsPlan(P), NEW h
  PROVE  /\ Recasts(P, In(h, P))
         /\ \A i \in 1..Len(P) :
              /\ In(h, P)[i].when = P[i].when /\ In(h, P)[i].unless = P[i].unless
              /\ In(h, P)[i].phase = IF P[i].phase = "none" THEN h ELSE P[i].phase
<1> DEFINE F(s) == [s EXCEPT !.phase = IF s.phase = "none" THEN h ELSE s.phase]
           Q == In(h, P)
<1>0. Len(P) \in Nat
  BY DEF IsPlan
<1>1. Q = [i \in 1..Len(P) |-> F(P[i])]
  BY Zenon DEF In, Each
<1>2. \A s : IsStep(s) => Changed(s, F(s), "phase", IF s.phase = "none" THEN h ELSE s.phase)
  BY FieldChanged, IsShaped
<1> HIDE DEF F, Q
<1>3. Q \in Seq({F(P[i]) : i \in 1..Len(P)}) /\ Len(Q) = Len(P) /\ \A i \in 1..Len(P) : Q[i] = F(P[i])
  BY <1>0, <1>1
<1>4. ASSUME NEW i \in 1..Len(P)
      PROVE /\ IsStep(Q[i]) /\ Alike(P[i], Q[i]) /\ Q[i].unless = P[i].unless
            /\ Q[i].when = P[i].when /\ Q[i].phase = IF P[i].phase = "none" THEN h ELSE P[i].phase
  <2>1. IsStep(P[i]) /\ Changed(P[i], Q[i], "phase", IF P[i].phase = "none" THEN h ELSE P[i].phase)
    BY <1>2, <1>3 DEF IsPlan
  <2> QED BY <2>1, OptionChanged
<1>5. IsPlan(Q)
  BY <1>3, <1>4 DEF IsPlan
<1> QED BY <1>3, <1>4, <1>5 DEF Recasts, Q

SameAsked(r, s, t) == Asked(s, r.opts) <=> Asked(t, r.opts)

LEMMA RecastLeads ==
  ASSUME NEW r, NEW P, NEW Q, NEW a, NEW b, Leads(r, P, a, b), Recasts(P, Q),
         \A i \in 1..Len(P) : SameAsked(r, P[i], Q[i])
  PROVE  Leads(r, Q, a, b)
<1>1. PICK A : Weaker(r, a, A[1]) /\ Weaker(r, A[Len(P) + 1], b) /\ Fitting(r, P, A)
  BY DEF Leads
<1>2. ASSUME NEW i \in 1..Len(P)
      PROVE  /\ Local(r, Q[i], A[i], A[i + 1])
             /\ Asked(Q[i], r.opts) /\ Q[i].jump # "never" =>
                  i + Q[i].skip <= Len(Q) /\ Lands(r, Q[i], A[i], A[i + 1 + Q[i].skip])
  <2>1. Alike(P[i], Q[i]) /\ SameAsked(r, P[i], Q[i]) /\ Len(Q) = Len(P)
    BY DEF Recasts
  <2>2. P[i].jump = Q[i].jump /\ P[i].skip = Q[i].skip
    BY <2>1 DEF Alike
  <2>3. /\ Local(r, P[i], A[i], A[i + 1])
        /\ Asked(P[i], r.opts) /\ P[i].jump # "never" =>
             i + P[i].skip <= Len(P) /\ Lands(r, P[i], A[i], A[i + 1 + P[i].skip])
    BY <1>1 DEF Fitting
  <2>4. \A x, y : (Local(r, P[i], x, y) => Local(r, Q[i], x, y)) /\ (Lands(r, P[i], x, y) => Lands(r, Q[i], x, y))
    BY <2>1, LocalAlike DEF SameAsked
  <2>5. Asked(P[i], r.opts) <=> Asked(Q[i], r.opts)
    BY <2>1 DEF SameAsked
  <2> QED BY <2>1, <2>2, <2>3, <2>4, <2>5
<1>3. Fitting(r, Q, A) /\ Weaker(r, A[Len(Q) + 1], b)
  BY <1>1, <1>2 DEF Fitting, Recasts
<1> QED BY <1>1, <1>3 DEF Leads, Recasts

LEMMA NeverAsked ==
  ASSUME NEW r, NEW Q, NEW a, IsPlan(Q), \A i \in 1..Len(Q) : ~Asked(Q[i], r.opts)
  PROVE  Leads(r, Q, a, a)
<1> DEFINE A == [i \in 1..Len(Q) + 1 |-> a]
<1>0. Len(Q) \in Nat
  BY DEF IsPlan
<1>1. A[1] = a /\ A[Len(Q) + 1] = a /\ \A i \in 1..Len(Q) : A[i] = a /\ A[i + 1] = a
  BY <1>0
<1> HIDE DEF A
<1>2. Fitting(r, Q, A)
  BY <1>1, LocalNotAsked DEF Fitting
<1> QED BY <1>1, <1>2, WeakerOrder DEF Leads

LEMMA WhenLeads ==
  ASSUME NEW r, NEW P, NEW a, NEW b, NEW o
  PROVE  /\ o \subseteq r.opts /\ Leads(r, P, a, b) => Leads(r, When(o, P), a, b)
         /\ ~(o \subseteq r.opts) /\ IsPlan(P) => Leads(r, When(o, P), a, a)
<1>1. ASSUME o \subseteq r.opts, Leads(r, P, a, b) PROVE Leads(r, When(o, P), a, b)
  <2>1. IsPlan(P)
    BY <1>1 DEF Leads
  <2>2. \A i \in 1..Len(P) : SameAsked(r, P[i], When(o, P)[i])
    BY <2>1, <1>1, WhenPlan DEF SameAsked, Asked
  <2> QED BY <2>1, <2>2, <1>1, WhenPlan, RecastLeads
<1>2. ASSUME ~(o \subseteq r.opts), IsPlan(P) PROVE Leads(r, When(o, P), a, a)
  <2>1. IsPlan(When(o, P)) /\ Len(When(o, P)) = Len(P)
    BY <1>2, WhenPlan DEF Recasts
  <2>2. \A i \in 1..Len(P) : ~Asked(When(o, P)[i], r.opts)
    BY <1>2, WhenPlan DEF Asked
  <2> QED BY <2>1, <2>2, NeverAsked
<1> QED BY <1>1, <1>2

LEMMA UnlessLeads ==
  ASSUME NEW r, NEW P, NEW a, NEW b, NEW o
  PROVE  /\ o \cap r.opts = {} /\ Leads(r, P, a, b) => Leads(r, Unless(o, P), a, b)
         /\ o \cap r.opts # {} /\ IsPlan(P) => Leads(r, Unless(o, P), a, a)
<1>1. ASSUME o \cap r.opts = {}, Leads(r, P, a, b) PROVE Leads(r, Unless(o, P), a, b)
  <2>1. IsPlan(P)
    BY <1>1 DEF Leads
  <2>2. \A i \in 1..Len(P) : SameAsked(r, P[i], Unless(o, P)[i])
    BY <2>1, <1>1, UnlessPlan DEF SameAsked, Asked
  <2> QED BY <2>1, <2>2, <1>1, UnlessPlan, RecastLeads
<1>2. ASSUME o \cap r.opts # {}, IsPlan(P) PROVE Leads(r, Unless(o, P), a, a)
  <2>1. IsPlan(Unless(o, P)) /\ Len(Unless(o, P)) = Len(P)
    BY <1>2, UnlessPlan DEF Recasts
  <2>2. \A i \in 1..Len(P) : ~Asked(Unless(o, P)[i], r.opts)
    BY <1>2, UnlessPlan DEF Asked
  <2> QED BY <2>1, <2>2, NeverAsked
<1> QED BY <1>1, <1>2

LEMMA InLeads ==
  ASSUME NEW r, NEW P, NEW a, NEW b, NEW h, Leads(r, P, a, b)
  PROVE  Leads(r, In(h, P), a, b)
<1>1. IsPlan(P)
  BY DEF Leads
<1>2. \A i \in 1..Len(P) : SameAsked(r, P[i], In(h, P)[i])
  BY <1>1, InPlan DEF SameAsked, Asked
<1> QED BY <1>1, <1>2, InPlan, RecastLeads

(* A modifier of one step. *)
LEMMA OneChanged ==
  ASSUME NEW s, NEW how, NEW layer, NEW facts
  PROVE  /\ Failing(how, <<s>>) = <<[s EXCEPT !.fails = how]>>
         /\ AllTheSame(layer, <<s>>) = <<[s EXCEPT !.after = layer]>>
         /\ Completing(facts, <<s>>) = <<[s EXCEPT !.sets = @ \cup facts]>>
<1>1. Len(<<s>>) = 1 /\ <<s>>[1] = s /\ Front(<<s>>) = << >>
  BY DEF Front
<1> DEFINE F(x) == [x EXCEPT !.fails = how]
           G(x) == [x EXCEPT !.after = layer]
           H(x) == [x EXCEPT !.sets = @ \cup facts]
<1>2. Failing(how, <<s>>) = [i \in 1..1 |-> F(<<s>>[i])]
  BY <1>1, Zenon DEF Failing, Each
<1>3. AllTheSame(layer, <<s>>) = [i \in 1..1 |-> G(<<s>>[i])]
  BY <1>1, Zenon DEF AllTheSame, Each
<1>4. Completing(facts, <<s>>) = << >> \o <<H(s)>>
  BY <1>1, Zenon DEF Completing, Last
<1> HIDE DEF F, G, H
<1>5. Failing(how, <<s>>) = <<F(s)>>
  BY <1>1, <1>2
<1>6. AllTheSame(layer, <<s>>) = <<G(s)>>
  BY <1>1, <1>3
<1>7. Completing(facts, <<s>>) = <<H(s)>>
  BY <1>4
<1> QED BY <1>5, <1>6, <1>7, Zenon DEF F, G, H

LEMMA CompletingLast ==
  ASSUME NEW Q, IsPlan(Q), NEW s, IsStep(s), NEW facts
  PROVE  Completing(facts, Q \o <<s>>) = Q \o <<[s EXCEPT !.sets = @ \cup facts]>>
<1>1. PICK S : Q \in Seq(S)
  BY DEF IsPlan
<1>2. Q \in Seq(S \cup {s}) /\ <<s>> \in Seq(S \cup {s})
  BY <1>1
<1>3. /\ Len(Q \o <<s>>) = Len(Q) + 1 /\ (Q \o <<s>>)[Len(Q) + 1] = s
      /\ Front(Q \o <<s>>) = Q
  BY <1>2 DEF Front
<1>4. Last(Q \o <<s>>) = s
  BY <1>3 DEF Last
<1> QED BY <1>3, <1>4, Zenon DEF Completing

LEMMA CatAssoc ==
  ASSUME NEW P, NEW Q, NEW R, IsPlan(P), IsPlan(Q), IsPlan(R)
  PROVE  P \o (Q \o R) = (P \o Q) \o R
<1>1. PICK S : P \in Seq(S)
  BY DEF IsPlan
<1>2. PICK T : Q \in Seq(T)
  BY DEF IsPlan
<1>3. PICK U : R \in Seq(U)
  BY DEF IsPlan
<1> QED BY <1>1, <1>2, <1>3

(* A read that jumps over a sequence. *)
LEMMA JumpLeads ==
  ASSUME NEW r, NEW s, NEW P, NEW a, NEW b, NEW c, IsStep(s), s.jump # "never", s.skip = Len(P),
         Leads(r, P, b, c), Local(r, s, a, b), Lands(r, s, a, c)
  PROVE  Leads(r, <<s>> \o P, a, c)
<1> DEFINE p == Len(P)
           Q == <<s>> \o P
<1>0. IsPlan(P)
  BY DEF Leads
<1>1. PICK B : Weaker(r, b, B[1]) /\ Weaker(r, B[p + 1], c) /\ Fitting(r, P, B)
  BY DEF Leads
<1>2. /\ p \in Nat /\ IsPlan(Q) /\ Len(Q) = p + 1 /\ Q[1] = s
      /\ \A i \in 1..p : Q[i + 1] = P[i]
  <2>1. IsPlan(<<s>>) /\ Len(<<s>>) = 1 /\ <<s>>[1] = s
    BY OneStep
  <2>2. /\ IsPlan(Q) /\ p \in Nat /\ Len(Q) = 1 + p /\ Q[1] = s /\ \A i \in 1..p : Q[1 + i] = P[i]
    BY <2>1, <1>0, PlanCat
  <2> QED BY <2>2
<1>s. \A i \in 1..p : P[i].skip \in Nat
  BY <1>0 DEF IsPlan, IsStep
<1> DEFINE A == [i \in 1..p + 2 |-> IF i = 1 THEN a ELSE IF i = p + 2 THEN c ELSE B[i - 1]]
<1>l. \A i \in 1..p :
        /\ Local(r, P[i], B[i], B[i + 1])
        /\ Asked(P[i], r.opts) /\ P[i].jump # "never" =>
             i + P[i].skip <= p /\ Lands(r, P[i], B[i], B[i + 1 + P[i].skip])
  BY <1>1 DEF Fitting
<1> HIDE DEF p, Q
<1>3. A[1] = a /\ A[p + 2] = c /\ (\A i \in 1..p : A[i + 1] = B[i])
  BY <1>2
<1>4. \A i \in 1..p + 1 : Weaker(r, B[i], A[i + 1])
  <2>1. Weaker(r, B[p + 1], A[(p + 1) + 1])
    BY <1>1, <1>2, <1>3
  <2>2. \A i \in 1..p : Weaker(r, B[i], A[i + 1])
    BY <1>3, WeakerOrder
  <2>3. \A i \in 1..p + 1 : i \in 1..p \/ i = p + 1
    BY <1>2
  <2> QED BY <2>1, <2>2, <2>3
<1> HIDE DEF A
<1>5. /\ Local(r, Q[1], A[1], A[1 + 1])
      /\ 1 + Q[1].skip <= p + 1 /\ Lands(r, Q[1], A[1], A[1 + 1 + Q[1].skip])
  <2>1. Weaker(r, b, A[1 + 1])
    BY <1>1, <1>2, <1>4, WeakerOrder
  <2>2. Q[1].skip = p /\ 1 + 1 + p = p + 2
    BY <1>2 DEF p
  <2> QED BY <2>1, <2>2, <1>2, <1>3, LocalMono
<1>6. ASSUME NEW i \in 1..p
      PROVE  /\ Local(r, Q[i + 1], A[i + 1], A[(i + 1) + 1])
             /\ Asked(Q[i + 1], r.opts) /\ Q[i + 1].jump # "never" =>
                  /\ (i + 1) + Q[i + 1].skip <= p + 1
                  /\ Lands(r, Q[i + 1], A[i + 1], A[(i + 1) + 1 + Q[i + 1].skip])
  <2>1. Q[i + 1] = P[i] /\ A[i + 1] = B[i] /\ Weaker(r, B[i + 1], A[(i + 1) + 1])
    BY <1>2, <1>3, <1>4
  <2>2. ASSUME i + P[i].skip <= p
        PROVE  /\ (i + 1) + P[i].skip <= p + 1
               /\ Weaker(r, B[i + 1 + P[i].skip], A[(i + 1) + 1 + P[i].skip])
    <3>1. \A n \in Nat : i + n <= p => /\ (i + 1) + n <= p + 1 /\ i + 1 + n \in 1..p + 1
                                       /\ (i + 1) + 1 + n = (i + 1 + n) + 1
      BY <1>2
    <3>2. P[i].skip \in Nat
      BY <1>s
    <3>3. /\ (i + 1) + P[i].skip <= p + 1 /\ i + 1 + P[i].skip \in 1..p + 1
          /\ (i + 1) + 1 + P[i].skip = (i + 1 + P[i].skip) + 1
      BY <3>1, <3>2, <2>2, Zenon
    <3> QED BY <3>3, <1>4
  <2> QED BY <2>1, <2>2, <1>l, LocalMono
<1>7. ASSUME NEW j \in 1..p + 1
      PROVE  /\ Local(r, Q[j], A[j], A[j + 1])
             /\ Asked(Q[j], r.opts) /\ Q[j].jump # "never" =>
                  j + Q[j].skip <= p + 1 /\ Lands(r, Q[j], A[j], A[j + 1 + Q[j].skip])
  <2>1. CASE j = 1
    BY <2>1, <1>5
  <2>2. CASE j # 1
    <3>1. j - 1 \in 1..p /\ (j - 1) + 1 = j
      BY <2>2, <1>2
    <3> QED BY <3>1, <1>6
  <2> QED BY <2>1, <2>2
<1>8. Fitting(r, Q, A)
  BY <1>2, <1>7 DEF Fitting
<1>9. Weaker(r, a, A[1]) /\ Weaker(r, A[Len(Q) + 1], c)
  <2>1. Len(Q) + 1 = p + 2
    BY <1>2
  <2> QED BY <2>1, <1>3, WeakerOrder
<1> QED BY <1>2, <1>8, <1>9 DEF Leads, Q

(* The annotation A fits one position of a plan. *)
FitsAt(r, Q, A, i, n) ==
  /\ Local(r, Q[i], A[i], A[i + 1])
  /\ Asked(Q[i], r.opts) /\ Q[i].jump # "never" =>
       i + Q[i].skip <= n /\ Lands(r, Q[i], A[i], A[i + 1 + Q[i].skip])

(* A fitting annotation, moved by d and weakened. *)
Moved(r, P, B, Q, A, d, n) ==
  /\ IsPlan(P) /\ Fitting(r, P, B) /\ d \in Nat /\ n \in Nat /\ d + Len(P) <= n
  /\ \A i \in 1..Len(P) : Q[d + i] = P[i] /\ A[d + i] = B[i]
  /\ \A i \in 1..(Len(P) + 1) : Weaker(r, B[i], A[d + i])

LEMMA MovedFits ==
  ASSUME NEW r, NEW P, NEW B, NEW Q, NEW A, NEW d, NEW n, Moved(r, P, B, Q, A, d, n)
  PROVE  \A i \in 1..Len(P) : FitsAt(r, Q, A, d + i, n)
<1> USE DEF Moved
<1> SUFFICES ASSUME NEW i \in 1..Len(P) PROVE FitsAt(r, Q, A, d + i, n)
  OBVIOUS
<1>0. Len(P) \in Nat /\ d \in Nat /\ n \in Nat /\ d + Len(P) <= n
  BY DEF IsPlan
<1>1. /\ Local(r, P[i], B[i], B[i + 1])
      /\ Asked(P[i], r.opts) /\ P[i].jump # "never" =>
           i + P[i].skip <= Len(P) /\ Lands(r, P[i], B[i], B[i + 1 + P[i].skip])
  BY DEF Fitting
<1>2. Weaker(r, B[i + 1], A[(d + i) + 1])
  <2>1. i + 1 \in 1..(Len(P) + 1) /\ (d + i) + 1 = d + (i + 1)
    BY <1>0
  <2> QED BY <2>1
<1>3. ASSUME i + P[i].skip <= Len(P)
      PROVE  (d + i) + P[i].skip <= n /\ Weaker(r, B[i + 1 + P[i].skip], A[(d + i) + 1 + P[i].skip])
  <2>1. P[i].skip \in Nat
    BY DEF IsPlan, IsStep
  <2>2. \A k \in Nat : i + k <= Len(P) => /\ (d + i) + k <= n /\ i + 1 + k \in 1..(Len(P) + 1)
                                          /\ (d + i) + 1 + k = d + (i + 1 + k)
    BY <1>0
  <2>3. /\ (d + i) + P[i].skip <= n /\ i + 1 + P[i].skip \in 1..(Len(P) + 1)
        /\ (d + i) + 1 + P[i].skip = d + (i + 1 + P[i].skip)
    BY <2>1, <2>2, <1>3, Zenon
  <2> QED BY <2>3
<1>4. Q[d + i] = P[i] /\ A[d + i] = B[i]
  OBVIOUS
<1> QED BY <1>1, <1>2, <1>3, <1>4, LocalMono DEF FitsAt

(* One of two sequences. *)
LEMMA ChooseLeads ==
  ASSUME NEW r, NEW s, NEW T, NEW t, NEW E, NEW a, NEW b, NEW m, NEW e, NEW c,
         IsStep(s), s.jump # "never", s.skip = Len(T) + 1, Local(r, s, a, b), Lands(r, s, a, e),
         Leads(r, T, b, m),
         IsStep(t), t.jump # "never", t.skip = Len(E), Local(r, t, m, e), Lands(r, t, m, c),
         Leads(r, E, e, c)
  PROVE  Leads(r, (<<s>> \o (T \o <<t>>)) \o E, a, c)
<1> DEFINE p == Len(T)
           q == Len(E)
           Q == (<<s>> \o (T \o <<t>>)) \o E
           n == p + q + 2
<1>0. IsPlan(T) /\ IsPlan(E) /\ IsPlan(<<s>>) /\ IsPlan(<<t>>)
  BY OneStep DEF Leads
<1>1. PICK B : Weaker(r, b, B[1]) /\ Weaker(r, B[p + 1], m) /\ Fitting(r, T, B)
  BY DEF Leads
<1>2. PICK C : Weaker(r, e, C[1]) /\ Weaker(r, C[q + 1], c) /\ Fitting(r, E, C)
  BY DEF Leads
<1>3. /\ p \in Nat /\ q \in Nat /\ IsPlan(Q) /\ Len(Q) = n
      /\ Q[1] = s /\ (\A i \in 1..p : Q[1 + i] = T[i]) /\ Q[p + 2] = t /\ \A i \in 1..q : Q[(p + 2) + i] = E[i]
  <2> DEFINE Y == T \o <<t>>
             X == <<s>> \o Y
  <2>1. Len(<<s>>) = 1 /\ <<s>>[1] = s /\ Len(<<t>>) = 1 /\ <<t>>[1] = t
    OBVIOUS
  <2>2. /\ p \in Nat /\ IsPlan(Y) /\ Len(Y) = p + 1 /\ Y[p + 1] = t /\ \A i \in 1..p : Y[i] = T[i]
    BY <2>1, <1>0, PlanCat
  <2> HIDE DEF Y
  <2>3. IsPlan(X) /\ Len(X) = 1 + (p + 1) /\ X[1] = s /\ \A i \in 1..(p + 1) : X[1 + i] = Y[i]
    BY <2>1, <2>2, <1>0, PlanCat
  <2> HIDE DEF X
  <2>4. /\ q \in Nat /\ IsPlan(X \o E) /\ Len(X \o E) = 1 + (p + 1) + q
        /\ (\A i \in 1..(1 + (p + 1)) : (X \o E)[i] = X[i]) /\ \A i \in 1..q : (X \o E)[(1 + (p + 1)) + i] = E[i]
    BY <2>3, <1>0, PlanCat
  <2>5. Q = X \o E
    BY DEF X, Y
  <2> HIDE DEF p, q, Q
  <2>6. Len(Q) = p + q + 2 /\ Q[1] = s
    BY <2>2, <2>3, <2>4, <2>5
  <2>7. \A i \in 1..p : Q[1 + i] = T[i]
    BY <2>2, <2>3, <2>4, <2>5
  <2>8. Q[p + 2] = t
    <3>1. p + 2 = 1 + (p + 1) /\ p + 2 \in 1..(1 + (p + 1)) /\ p + 1 \in 1..(p + 1)
      BY <2>2
    <3> QED BY <3>1, <2>2, <2>3, <2>4, <2>5
  <2>9. \A i \in 1..q : Q[(p + 2) + i] = E[i]
    <3>1. p + 2 = 1 + (p + 1)
      BY <2>2
    <3> QED BY <3>1, <2>4, <2>5
  <2> QED BY <2>2, <2>4, <2>5, <2>6, <2>7, <2>8, <2>9
<1> DEFINE A == [i \in 1..(n + 1) |->
                   IF i = 1 THEN a ELSE IF i <= p + 1 THEN B[i - 1] ELSE IF i = p + 2 THEN m
                   ELSE IF i = n + 1 THEN c ELSE C[i - (p + 2)]]
<1> HIDE DEF Q, p, q
<1>4. /\ A[1] = a /\ (\A i \in 1..p : A[1 + i] = B[i]) /\ A[p + 2] = m
      /\ (\A i \in 1..q : A[(p + 2) + i] = C[i]) /\ A[n + 1] = c /\ (p + 2) + (q + 1) = n + 1
      /\ 1 + (p + 1) = p + 2
  BY <1>3
<1> HIDE DEF A
<1>5. \A i \in 1..(p + 1) : Weaker(r, B[i], A[1 + i])
  <2>1. \A i \in 1..(p + 1) : i \in 1..p \/ i = p + 1
    BY <1>3
  <2>2. Weaker(r, B[p + 1], A[1 + (p + 1)])
    BY <1>1, <1>4
  <2>3. \A i \in 1..p : Weaker(r, B[i], A[1 + i])
    BY <1>4, WeakerOrder
  <2> QED BY <2>1, <2>2, <2>3
<1>6. \A i \in 1..(q + 1) : Weaker(r, C[i], A[(p + 2) + i])
  <2>1. \A i \in 1..(q + 1) : i \in 1..q \/ i = q + 1
    BY <1>3
  <2>2. Weaker(r, C[q + 1], A[(p + 2) + (q + 1)])
    BY <1>2, <1>4
  <2>3. \A i \in 1..q : Weaker(r, C[i], A[(p + 2) + i])
    BY <1>4, WeakerOrder
  <2> QED BY <2>1, <2>2, <2>3
<1>7. FitsAt(r, Q, A, 1, n)
  <2>1. Weaker(r, b, A[1 + 1]) /\ Weaker(r, e, A[(p + 2) + 1])
    <3>1. 1 \in 1..(p + 1) /\ 1 \in 1..(q + 1)
      BY <1>3
    <3> QED BY <3>1, <1>1, <1>2, <1>5, <1>6, WeakerOrder
  <2>2. Q[1] = s /\ s.skip = p + 1 /\ 1 + (p + 1) <= n /\ 1 + 1 + (p + 1) = (p + 2) + 1
    BY <1>3 DEF p
  <2> QED BY <2>1, <2>2, <1>4, LocalMono DEF FitsAt
<1>8. \A i \in 1..p : FitsAt(r, Q, A, 1 + i, n)
  <2>1. 1 + p <= n /\ n \in Nat /\ 1 \in Nat /\ p = Len(T)
    BY <1>3 DEF p
  <2> HIDE DEF n
  <2>2. Moved(r, T, B, Q, A, 1, n)
    BY <2>1, <1>0, <1>1, <1>3, <1>4, <1>5 DEF Moved
  <2> QED BY <2>1, <2>2, MovedFits
<1>9. FitsAt(r, Q, A, p + 2, n)
  <2>1. Weaker(r, e, A[(p + 2) + 1]) /\ t.skip = q /\ (p + 2) + q <= n /\ (p + 2) + 1 + q = n + 1
    <3>1. 1 \in 1..(q + 1)
      BY <1>3
    <3> QED BY <3>1, <1>2, <1>3, <1>6, WeakerOrder DEF q
  <2> QED BY <2>1, <1>3, <1>4, LocalMono DEF FitsAt
<1>10. \A i \in 1..q : FitsAt(r, Q, A, (p + 2) + i, n)
  <2>1. (p + 2) + q <= n /\ n \in Nat /\ p + 2 \in Nat /\ q = Len(E)
    BY <1>3 DEF q
  <2> HIDE DEF n
  <2>2. Moved(r, E, C, Q, A, p + 2, n)
    BY <2>1, <1>0, <1>2, <1>3, <1>4, <1>6 DEF Moved
  <2> QED BY <2>1, <2>2, MovedFits
<1>11. ASSUME NEW j \in 1..n PROVE FitsAt(r, Q, A, j, n)
  <2>1. CASE j = 1
    BY <2>1, <1>7
  <2>2. CASE j > 1 /\ j <= p + 1
    <3>1. j - 1 \in 1..p /\ 1 + (j - 1) = j
      BY <2>2, <1>3
    <3> QED BY <3>1, <1>8
  <2>3. CASE j = p + 2
    BY <2>3, <1>9
  <2>4. CASE j > p + 2
    <3>1. j - (p + 2) \in 1..q /\ (p + 2) + (j - (p + 2)) = j
      BY <2>4, <1>3
    <3> QED BY <3>1, <1>10
  <2> QED BY <2>1, <2>2, <2>3, <2>4, <1>3
<1>12. Fitting(r, Q, A)
  BY <1>3, <1>11 DEF Fitting, FitsAt
<1>13. Weaker(r, a, A[1]) /\ Weaker(r, A[Len(Q) + 1], c)
  BY <1>3, <1>4, WeakerOrder
<1> QED BY <1>3, <1>12, <1>13 DEF Leads, Q

-----------------------------------------------------------------------------
(* Loops. *)
Blocks(f, k) ==
  k \in Nat \ {0} /\ f = [n \in 1..k |-> f[n]] /\ \A n \in 1..k : IsPlan(f[n])

Joined(g, f, k) == g[1] = f[1] /\ \A n \in 2..k : g[n] = g[n - 1] \o f[n]

LEMMA PlanSeq ==
  ASSUME NEW P, IsPlan(P), NEW U, \A i \in 1..Len(P) : P[i] \in U
  PROVE  P \in Seq(U)
<1>1. PICK S : P \in Seq(S)
  BY DEF IsPlan
<1> QED BY <1>1

LEMMA Flattened ==
  ASSUME NEW f, NEW k, Blocks(f, k)
  PROVE  \E g : Joined(g, f, k) /\ FlattenSeq(f) = g[k]
<1>0. k \in Nat \ {0} /\ f = [n \in 1..k |-> f[n]] /\ \A n \in 1..k : IsPlan(f[n])
  BY DEF Blocks
<1> DEFINE U == UNION {{f[n][i] : i \in 1..Len(f[n])} : n \in 1..k}
           W == Seq(U)
           G == [p \in (1..k) \X W |-> p[2] \o f[p[1]]]
<1>1. ASSUME NEW n \in 1..k PROVE f[n] \in W
  <2>1. \A i \in 1..Len(f[n]) : f[n][i] \in U
    OBVIOUS
  <2>2. IsPlan(f[n])
    BY <1>0
  <2> HIDE DEF U
  <2> QED BY <2>1, <2>2, PlanSeq
<1> HIDE DEF U
<1>2. << >> \in W
  OBVIOUS
<1>3. G \in [(1..k) \X W -> W]
  BY <1>1
<1>4. \A n \in 1..k, x \in W : G[<<n, x>>] = x \o f[n]
  OBVIOUS
<1> HIDE DEF G, W
<1>5. PICK w : IsRecursion(w, k, W, << >>, G)
  BY <1>0, <1>2, <1>3, RecursionExists
<1>6. w[0] = << >> /\ (\A n \in 0..k : w[n] \in W) /\ \A n \in 1..k : w[n] = w[n - 1] \o f[n]
  BY <1>0, <1>4, <1>5 DEF IsRecursion
<1> DEFINE Is(v) == v = [i \in 1..k |-> IF i = 1 THEN f[i] ELSE v[i - 1] \o f[i]]
           h == [i \in 1..k |-> w[i]]
           flatten == CHOOSE v : Is(v)
<1>7. Is(h)
  <2>1. ASSUME NEW i \in 1..k PROVE w[i] = IF i = 1 THEN f[i] ELSE h[i - 1] \o f[i]
    <3>1. CASE i = 1
      <4>1. f[1] \in Seq(U)
        BY <1>0, <1>1 DEF W
      <4>2. w[1] = << >> \o f[1]
        <5>1. 1 \in 1..k /\ 1 - 1 = 0
          BY <1>0
        <5>2. w[1] = w[1 - 1] \o f[1]
          BY <5>1, <1>6
        <5> QED BY <5>1, <5>2, <1>6
      <4>3. w[1] = f[1]
        BY <4>1, <4>2
      <4> QED BY <3>1, <4>3
    <3>2. CASE i # 1
      <4>1. i - 1 \in 1..k
        BY <1>0, <3>2
      <4> QED BY <4>1, <3>2, <1>6
    <3> QED BY <3>1, <3>2
  <2> QED BY <2>1
<1> HIDE DEF Is
<1>8. Is(flatten)
  BY <1>7
<1>9. Len(f) = k
  <2> DEFINE x(n) == f[n]
  <2>1. f = [n \in 1..k |-> x(n)]
    BY <1>0
  <2> HIDE DEF x
  <2> QED BY <1>0, <2>1
<1>10. FlattenSeq(f) = flatten[k]
  <2>1. Len(f) # 0
    BY <1>0, <1>9
  <2>2. FlattenSeq(f) = (CHOOSE v : v = [i \in 1..Len(f) |-> IF i = 1 THEN f[i] ELSE v[i - 1] \o f[i]])[Len(f)]
    BY <2>1, Zenon DEF FlattenSeq
  <2> QED BY <2>2, <1>9, Zenon DEF Is
<1> HIDE DEF flatten
<1>11. Joined(flatten, f, k)
  <2> DEFINE y(i) == IF i = 1 THEN f[i] ELSE flatten[i - 1] \o f[i]
  <2>1. flatten = [i \in 1..k |-> y(i)]
    BY <1>8, Zenon DEF Is
  <2> HIDE DEF y
  <2>2. \A i \in 1..k : flatten[i] = y(i)
    BY <2>1
  <2>3. 1 \in 1..k /\ \A i \in 2..k : i \in 1..k /\ i # 1
    BY <1>0
  <2> QED BY <2>2, <2>3 DEF y, Joined
<1> QED BY <1>10, <1>11

LEMMA FlattenLeads ==
  ASSUME NEW r, NEW a, NEW f, NEW k, Blocks(f, k), \A n \in 1..k : Leads(r, f[n], a, a)
  PROVE  Leads(r, FlattenSeq(f), a, a)
<1>0. k \in Nat \ {0}
  BY DEF Blocks
<1>1. PICK g : Joined(g, f, k) /\ FlattenSeq(f) = g[k]
  BY Flattened
<1> DEFINE T == {n \in Nat : Leads(r, g[n + 1], a, a)}
<1>2. 0 \in T
  BY <1>0, <1>1 DEF Joined
<1>3. \A n \in 0..(k - 1) - 1 : n \in T => n + 1 \in T
  <2> SUFFICES ASSUME NEW n \in 0..(k - 1) - 1, n \in T PROVE n + 1 \in T
    OBVIOUS
  <2>1. (n + 1) + 1 \in 2..k /\ (n + 1) + 1 \in 1..k /\ ((n + 1) + 1) - 1 = n + 1 /\ n + 1 \in Nat
    BY <1>0
  <2>2. g[(n + 1) + 1] = g[n + 1] \o f[(n + 1) + 1]
    BY <2>1, <1>1 DEF Joined
  <2>3. Leads(r, g[n + 1], a, a) /\ Leads(r, f[(n + 1) + 1], a, a)
    BY <2>1
  <2> QED BY <2>1, <2>2, <2>3, Cat
<1> HIDE DEF T
<1>4. \A n \in 0..k - 1 : n \in T
  BY <1>0, <1>2, <1>3, Reaches
<1>5. k - 1 \in T /\ (k - 1) + 1 = k
  BY <1>0, <1>4
<1> QED BY <1>1, <1>5 DEF T

(* One annotation everywhere. *)
EvenAt(r, Q, a, i) ==
  /\ Local(r, Q[i], a, a)
  /\ Asked(Q[i], r.opts) /\ Q[i].jump # "never" => i + Q[i].skip <= Len(Q) /\ Lands(r, Q[i], a, a)

LEMMA EvenLeads ==
  ASSUME NEW r, NEW Q, NEW a, IsPlan(Q), \A i \in 1..Len(Q) : EvenAt(r, Q, a, i)
  PROVE  Leads(r, Q, a, a)
<1> DEFINE A == [i \in 1..Len(Q) + 1 |-> a]
<1>0. Len(Q) \in Nat
  BY DEF IsPlan
<1>1. A[1] = a /\ A[Len(Q) + 1] = a /\ \A i \in 1..Len(Q) : A[i] = a /\ A[i + 1] = a
  BY <1>0
<1>2. ASSUME NEW i \in 1..Len(Q), i + Q[i].skip <= Len(Q) PROVE A[i + 1 + Q[i].skip] = a
  <2>1. Q[i].skip \in Nat
    BY DEF IsPlan, IsStep
  <2>2. \A n \in Nat : i + n <= Len(Q) => i + 1 + n \in 1..Len(Q) + 1
    BY <1>0
  <2>3. i + 1 + Q[i].skip \in 1..Len(Q) + 1
    BY <2>1, <2>2, <1>2, Zenon
  <2> QED BY <2>3
<1> HIDE DEF A
<1>3. Fitting(r, Q, A)
  BY <1>1, <1>2 DEF Fitting, EvenAt
<1> QED BY <1>1, <1>3, WeakerOrder DEF Leads

(* The firmware attempts: blocks of four steps, the last of which may jump behind the last block. *)
FirmwareAttempts == FlattenSeq([n \in 1..DownloadAttempts |-> FirmwareAttempt(n)])

Checksum(n) ==
  [Step("read", "firmware", <<"checksum">>) EXCEPT
     !.jump = "always", !.skip = (DownloadAttempts - n) * 4,
     !.fails = IF n = DownloadAttempts THEN "keep" ELSE "drop"]

-----------------------------------------------------------------------------
(* What each constructor does to the facts. *)
Adds(a, F) == Known(a.on \cup F, a.off \ F, a.new \cup F)
Dels(a, F) == Known(a.on \ F, a.off \cup F, a.new \ F)
Seen(a, F) == Known(a.on \cup F, a.off, a.new)
Lost(a, F) == Known(a.on \ F, a.off \ F, a.new \ F)
Up(layer, a) == layer \in DOMAIN Below => Below[layer] \subseteq a.on
Ready(r, a) == r.new \subseteq a.new /\ r.off \subseteq a.off /\ r.on \subseteq a.on
OfFacts(r) == r.kind = "facts"

LEMMA OneFacts ==
  ASSUME NEW r, OfFacts(r), NEW s, IsStep(s), s.jump = "never", NEW a, NEW b, FactsLocal(r, s, a, b)
  PROVE  Leads(r, <<s>>, a, b)
BY OneLeads DEF OfFacts, Local

LEMMA HostFacts ==
  ASSUME NEW r, OfFacts(r), NEW w, NEW a
  PROVE  /\ Leads(r, Checks(w), a, a) /\ Leads(r, Check(w), a, a) /\ Leads(r, Reject(w), a, a)
         /\ Leads(r, Acknowledge(w), a, a) /\ Leads(r, File(w), a, a) /\ Leads(r, Claim(w), a, a)
<1>1. ASSUME NEW d \in {"check", "ack", "file", "claim"}, NEW l \in {"host", "usb"}, NEW v, NEW n
      PROVE  Leads(r, <<Step(d, l, v)>>, a, a) /\ Leads(r, <<[Step(d, l, v) EXCEPT !.needs = n]>>, a, a)
  <2>1. Looks(Step(d, l, v), d, l, {}, {}, {}, "end", "none")
    BY LooksStep
  <2>2. Looks([Step(d, l, v) EXCEPT !.needs = n], d, l, n, {}, {}, "end", "none")
    BY <2>1, LooksWith
  <2>3. ASSUME NEW s, NEW m, Looks(s, d, l, m, {}, {}, "end", "none") PROVE Leads(r, <<s>>, a, a)
    <3>1. FactsLocal(r, s, a, a)
      BY <2>3 DEF Looks, FactsLocal, WritesInOrder, FirmwareApart, TrafficReady, BaseBandKept, GoesOn, MayBeQuiet,
         NoMoreFacts, FactsAfter, FactsThere, Known
    <3> QED BY <3>1, <2>3, OneFacts DEF Looks
  <2> QED BY <2>1, <2>2, <2>3
<1> QED BY <1>1 DEF Checks, Check, Reject, Acknowledge, File, Claim

LEMMA BelowIs ==
  /\ DOMAIN Below = {"llt", "queue", "mac", "bb", "rf", "channel"}
  /\ Below["llt"] = {"cr"} /\ Below["queue"] = {"cr", "ram", "fw"} /\ Below["mac"] = {"cr", "ram", "fw"}
  /\ Below["bb"] = {"cr", "ram", "fw"} /\ Below["rf"] = {"cr", "ram", "fw", "bbfunc"}
  /\ Below["channel"] = {"cr", "ram", "fw", "bbfunc"}
BY DEF Below

(* A register step whose failure ends the command or is kept. *)
LEMMA StepFacts ==
  ASSUME NEW r, OfFacts(r), NEW s, NEW d, NEW l, NEW n, NEW S, NEW C, NEW f, NEW e, NEW a,
         Looks(s, d, l, n, S, C, f, e), d \in {"read", "write"}, l \notin {"led", "status"},
         d = "write" => Up(l, a), f \in {"end", "keep"}, l = "bb" => f = "end",
         e = "none" \/ (S = {} /\ l \notin DOMAIN Below /\ e # "bb"),
         S \cap {"ram", "fw", "dl"} # {} =>
           (S = {"dl"} /\ "ram" \in a.off) \/ ("dl" \notin S /\ "dl" \in a.off)
  PROVE  Leads(r, <<s>>, a, Known(((a.on \cup n) \ C) \cup S, (a.off \cup C) \ S, (a.new \ C) \cup S))
<1> DEFINE b == Known(((a.on \cup n) \ C) \cup S, (a.off \cup C) \ S, (a.new \ C) \cup S)
<1>0. /\ s.do = d /\ s.layer = l /\ s.needs = n /\ s.sets = S /\ s.clears = C /\ s.fails = f /\ s.after = e
      /\ s.jump = "never" /\ s.when = {} /\ s.unless = {} /\ IsStep(s)
  BY DEF Looks
<1>1. Asked(s, r.opts)
  BY <1>0 DEF Asked
<1>2. WritesInOrder(s, a)
  BY <1>0 DEF WritesInOrder, Up
<1>3. FirmwareApart(s, a)
  BY <1>0 DEF FirmwareApart
<1>4. TrafficReady(r, s, a) /\ BaseBandKept(s, a)
  BY <1>0 DEF TrafficReady, BaseBandKept
<1>5. NoMoreFacts(FactsAfter(s, FactsThere(s, a)), b)
  BY <1>0 DEF NoMoreFacts, FactsAfter, FactsThere, Known
<1>6. ~GoesOn(s) /\ ~MayBeQuiet(s)
  BY <1>0 DEF GoesOn, MayBeQuiet
<1> HIDE DEF b
<1>7. FactsLocal(r, s, a, b)
  BY <1>1, <1>2, <1>3, <1>4, <1>5, <1>6 DEF FactsLocal
<1>8. Leads(r, <<s>>, a, b)
  BY <1>0, <1>7, OneFacts
<1> QED BY <1>8 DEF b

LEMMA SameFacts ==
  ASSUME NEW r, OfFacts(r), NEW P, NEW a, NEW b, NEW c, Leads(r, P, a, b), NoMoreFacts(b, c)
  PROVE  Leads(r, P, a, c)
<1>1. Weaker(r, a, a) /\ Weaker(r, b, c)
  BY WeakerOrder DEF OfFacts, Weaker
<1> QED BY <1>1, Conseq

LEMMA ReadFacts ==
  ASSUME NEW r, OfFacts(r), NEW l, l \notin {"none", "led", "status"}, NEW w, NEW F, NEW a
  PROVE  /\ Leads(r, Read(l, w), a, a) /\ Leads(r, Poll(l, w), a, a)
         /\ Leads(r, Preflight(l, w, F), a, Seen(a, F))
<1>1. Looks(Step("read", l, <<w>>), "read", l, {}, {}, {}, "end", "none")
  BY LooksStep
<1>2. Looks([Step("read", l, <<w>>) EXCEPT !.needs = F], "read", l, F, {}, {}, "end", "none")
  BY <1>1, LooksWith
<1>3. ASSUME NEW s, NEW n, Looks(s, "read", l, n, {}, {}, "end", "none") PROVE Leads(r, <<s>>, a, Seen(a, n))
  <2>1. Leads(r, <<s>>, a, Known(((a.on \cup n) \ {}) \cup {}, (a.off \cup {}) \ {}, (a.new \ {}) \cup {}))
    <3>1. {} \cap {"ram", "fw", "dl"} = {} /\ "read" # "write"
      OBVIOUS
    <3> QED BY <3>1, <1>3, StepFacts
  <2>2. NoMoreFacts(Known(((a.on \cup n) \ {}) \cup {}, (a.off \cup {}) \ {}, (a.new \ {}) \cup {}), Seen(a, n))
    BY DEF NoMoreFacts, Known, Seen
  <2> QED BY <2>1, <2>2, SameFacts
<1>4. NoMoreFacts(Seen(a, {}), a)
  BY DEF NoMoreFacts, Known, Seen
<1>5. Leads(r, Read(l, w), a, a)
  BY <1>1, <1>3, <1>4, SameFacts DEF Read
<1> QED BY <1>2, <1>3, <1>5 DEF Poll, Preflight

FirmwareSafe(F, a) ==
  F \cap {"ram", "fw", "dl"} # {} => (F = {"dl"} /\ "ram" \in a.off) \/ ("dl" \notin F /\ "dl" \in a.off)

LEMMA WriteFacts ==
  ASSUME NEW r, OfFacts(r), NEW l, l \notin {"none", "led", "status"}, NEW w, NEW F, NEW a, Up(l, a)
  PROVE  /\ Leads(r, Puts(l, w), a, a) /\ Leads(r, Put(l, w), a, a)
         /\ Leads(r, Clearing(l, w, F), a, Dels(a, F))
         /\ FirmwareSafe(F, a) => Leads(r, Setting(l, w, F), a, Adds(a, F))
         /\ FirmwareSafe(F, a) => Leads(r, Completing(F, Puts(l, w)), a, Adds(a, F))
<1>1. ASSUME NEW v PROVE Looks(Step("write", l, v), "write", l, {}, {}, {}, "end", "none")
  BY LooksStep
<1>2. ASSUME NEW v, NEW s, NEW S, NEW C, Looks(s, "write", l, {}, S, C, "end", "none"), FirmwareSafe(S, a)
      PROVE  Leads(r, <<s>>, a, Known(((a.on \cup {}) \ C) \cup S, (a.off \cup C) \ S, (a.new \ C) \cup S))
  BY <1>2, StepFacts DEF FirmwareSafe
<1>3. FirmwareSafe({}, a)
  BY DEF FirmwareSafe
<1>4. /\ NoMoreFacts(Known(((a.on \cup {}) \ {}) \cup {}, (a.off \cup {}) \ {}, (a.new \ {}) \cup {}), a)
      /\ NoMoreFacts(Known(((a.on \cup {}) \ {}) \cup F, (a.off \cup {}) \ F, (a.new \ {}) \cup F), Adds(a, F))
      /\ NoMoreFacts(Known(((a.on \cup {}) \ F) \cup {}, (a.off \cup F) \ {}, (a.new \ F) \cup {}), Dels(a, F))
  BY DEF NoMoreFacts, Known, Adds, Dels
<1>5. ASSUME NEW v PROVE Leads(r, <<Step("write", l, v)>>, a, a)
  BY <1>1, <1>2, <1>3, <1>4, SameFacts
<1>6. Leads(r, Clearing(l, w, F), a, Dels(a, F))
  <2>1. Looks([Step("write", l, <<w>>) EXCEPT !.clears = F], "write", l, {}, {}, F, "end", "none")
    BY <1>1, LooksWith
  <2> QED BY <2>1, <1>2, <1>3, <1>4, SameFacts DEF Clearing
<1>7. ASSUME NEW v, FirmwareSafe(F, a) PROVE Leads(r, <<[Step("write", l, v) EXCEPT !.sets = F]>>, a, Adds(a, F))
  <2>1. Looks([Step("write", l, v) EXCEPT !.sets = F], "write", l, {}, F, {}, "end", "none")
    BY <1>1, LooksWith
  <2> QED BY <2>1, <1>2, <1>4, <1>7, SameFacts
<1>8. Completing(F, Puts(l, w)) = <<[Step("write", l, w) EXCEPT !.sets = F]>>
  <2>1. Completing(F, Puts(l, w)) = <<[Step("write", l, w) EXCEPT !.sets = Step("write", l, w).sets \cup F]>>
    BY OneChanged, Zenon DEF Puts
  <2>2. Step("write", l, w).sets \cup F = F
    BY <1>1 DEF Looks
  <2> QED BY <2>1, <2>2, Zenon
<1> QED BY <1>5, <1>6, <1>7, <1>8 DEF Puts, Put, Setting

-----------------------------------------------------------------------------
(* Longer compositions. *)
LEMMA Cat3 ==
  ASSUME NEW r, NEW P, NEW Q, NEW R, NEW a, NEW b, NEW c, NEW d,
         Leads(r, P, a, b), Leads(r, Q, b, c), Leads(r, R, c, d)
  PROVE  Leads(r, P \o Q \o R, a, d)
<1>1. Leads(r, P \o Q, a, c)
  BY Cat
<1> QED BY <1>1, Cat

LEMMA Cat4 ==
  ASSUME NEW r, NEW P, NEW Q, NEW R, NEW S, NEW a, NEW b, NEW c, NEW d, NEW e,
         Leads(r, P, a, b), Leads(r, Q, b, c), Leads(r, R, c, d), Leads(r, S, d, e)
  PROVE  Leads(r, P \o Q \o R \o S, a, e)
<1>1. Leads(r, P \o Q \o R, a, d)
  BY Cat3
<1> QED BY <1>1, Cat

LEMMA Cat5 ==
  ASSUME NEW r, NEW P, NEW Q, NEW R, NEW S, NEW T, NEW a, NEW b, NEW c, NEW d, NEW e, NEW f,
         Leads(r, P, a, b), Leads(r, Q, b, c), Leads(r, R, c, d), Leads(r, S, d, e), Leads(r, T, e, f)
  PROVE  Leads(r, P \o Q \o R \o S \o T, a, f)
<1>1. Leads(r, P \o Q \o R \o S, a, e)
  BY Cat4
<1> QED BY <1>1, Cat

LEMMA Cat6 ==
  ASSUME NEW r, NEW P, NEW Q, NEW R, NEW S, NEW T, NEW U, NEW a, NEW b, NEW c, NEW d, NEW e, NEW f, NEW g,
         Leads(r, P, a, b), Leads(r, Q, b, c), Leads(r, R, c, d), Leads(r, S, d, e), Leads(r, T, e, f),
         Leads(r, U, f, g)
  PROVE  Leads(r, P \o Q \o R \o S \o T \o U, a, g)
<1>1. Leads(r, P \o Q \o R \o S \o T, a, f)
  BY Cat5
<1> QED BY <1>1, Cat

LEMMA CompletingTail ==
  ASSUME NEW X, NEW P, NEW s, NEW facts, IsPlan(X), IsPlan(P), IsStep(s)
  PROVE  Completing(facts, X \o (P \o <<s>>)) = (X \o P) \o <<[s EXCEPT !.sets = @ \cup facts]>>
<1>1. IsPlan(<<s>>) /\ IsPlan(X \o P)
  BY OneStep, PlanCat
<1>2. X \o (P \o <<s>>) = (X \o P) \o <<s>>
  BY <1>1, CatAssoc
<1>3. Completing(facts, (X \o P) \o <<s>>) = (X \o P) \o <<[s EXCEPT !.sets = @ \cup facts]>>
  BY <1>1, CompletingLast
<1> QED BY <1>2, <1>3, Zenon

(* The last read or write of a sequence establishes facts. *)
LEMMA LastReadFacts ==
  ASSUME NEW r, OfFacts(r), NEW l, l \notin {"none", "led", "status"}, NEW w, NEW F, NEW a, FirmwareSafe(F, a)
  PROVE  Leads(r, <<[Step("read", l, <<w>>) EXCEPT !.sets = @ \cup F]>>, a, Adds(a, F))
<1> DEFINE s == Step("read", l, <<w>>)
           t == [s EXCEPT !.sets = s.sets \cup F]
<1>1. Looks(s, "read", l, {}, {}, {}, "end", "none")
  BY LooksStep
<1>2. s.sets \cup F = F
  BY <1>1 DEF Looks
<1>3. Looks(t, "read", l, {}, F, {}, "end", "none")
  <2> HIDE DEF s
  <2>1. Looks([s EXCEPT !.sets = F], "read", l, {}, F, {}, "end", "none")
    BY <1>1, LooksWith
  <2>2. t = [s EXCEPT !.sets = F]
    BY <1>2, Zenon
  <2> QED BY <2>1, <2>2, Zenon
<1> HIDE DEF t
<1>4. Leads(r, <<t>>, a, Known(((a.on \cup {}) \ {}) \cup F, (a.off \cup {}) \ F, (a.new \ {}) \cup F))
  <2>1. "read" # "write"
    OBVIOUS
  <2> QED BY <2>1, <1>3, StepFacts DEF FirmwareSafe
<1>5. NoMoreFacts(Known(((a.on \cup {}) \ {}) \cup F, (a.off \cup {}) \ F, (a.new \ {}) \cup F), Adds(a, F))
  BY DEF NoMoreFacts, Known, Adds
<1>6. Leads(r, <<t>>, a, Adds(a, F))
  BY <1>4, <1>5, SameFacts
<1> QED BY <1>6, Zenon DEF t, s

LEMMA PutsUp ==
  \A a : \A l \in {"power", "firmware", "efuse", "operator", "agc"} : Up(l, a) /\ l \notin {"none", "led", "status"}
BY BelowIs DEF Up

LEMMA PowerFacts ==
  ASSUME NEW r, OfFacts(r), NEW a
  PROVE  Leads(r, PowerOnSequence, a, Adds(a, {"cr"}))
<1>0. \A x : Up("power", x)
  BY PutsUp
<1>1. Leads(r, PowerStateMachine, a, a)
  <2>1. \A w : Leads(r, Puts("power", w), a, a) /\ Leads(r, Poll("power", w), a, a)
    BY <1>0, WriteFacts, ReadFacts
  <2> QED BY <2>1, Cat5 DEF PowerStateMachine
<1> DEFINE b == Dels(a, {"cr"})
           c == Adds(b, {"cr"})
<1>2. Leads(r, Clearing("power", "CR", {"cr"}), a, b) /\ Leads(r, Read("power", "CR"), b, b)
  BY <1>0, WriteFacts, ReadFacts
<1>3. Leads(r, Setting("power", "CR", {"cr"}), b, c)
  <2>1. FirmwareSafe({"cr"}, b)
    BY DEF FirmwareSafe
  <2> QED BY <2>1, <1>0, WriteFacts
<1>4. Leads(r, Puts("power", <<"RF_CTRL", "RF_CTRL", "RF_B_CTRL", "RF_B_CTRL">>), c, c)
  BY <1>0, WriteFacts
<1>5. Leads(r, PowerOnSequence, a, c)
  BY <1>1, <1>2, <1>3, <1>4, Cat5 DEF PowerOnSequence
<1>6. NoMoreFacts(c, Adds(a, {"cr"}))
  BY DEF NoMoreFacts, Adds, Dels, Known
<1> QED BY <1>5, <1>6, SameFacts

(* A read that may jump. *)
JumpRead(l, w, j, f, k) == [Step("read", l, <<w>>) EXCEPT !.jump = j, !.fact = f, !.skip = k]

Jumping(t, l, j, f, k) ==
  /\ IsStep(t) /\ t.do = "read" /\ t.layer = l /\ t.needs = {} /\ t.sets = {} /\ t.clears = {}
  /\ t.fails = "end" /\ t.after = "none" /\ t.jump = j /\ t.fact = f /\ t.skip = k
  /\ t.when = {} /\ t.unless = {} /\ t.phase = "none"

LEMMA JumpLooks ==
  ASSUME NEW l, l # "none", NEW w, NEW j \in {"lacks", "always"}, NEW f, NEW k \in Nat
  PROVE  Jumping(JumpRead(l, w, j, f, k), l, j, f, k)
<1> DEFINE s == Step("read", l, <<w>>)
           t1 == [s EXCEPT !.jump = j]
           t2 == [t1 EXCEPT !.fact = f]
           t3 == [t2 EXCEPT !.skip = k]
           t == JumpRead(l, w, j, f, k)
<1>1. Looks(s, "read", l, {}, {}, {}, "end", "none") /\ Shaped(s)
  BY LooksStep, IsShaped DEF Looks
<1> HIDE DEF s
<1>2. Changed(s, t1, "jump", j)
  BY <1>1, FieldChanged
<1>3. Changed(t1, t2, "fact", f)
  <2> HIDE DEF t1
  <2>1. Shaped(t1)
    BY <1>2 DEF Changed
  <2> QED BY <2>1, FieldChanged
<1>4. Changed(t2, t3, "skip", k)
  <2> HIDE DEF t2
  <2>1. Shaped(t2)
    BY <1>3 DEF Changed
  <2> QED BY <2>1, FieldChanged
<1>5. t = t3
  BY Zenon DEF JumpRead, s
<1> HIDE DEF t1, t2, t3, t
<1>6. Changed(t2, t, "skip", k)
  BY <1>4, <1>5
<1>7. Shaped(t) /\ t.jump = j /\ t.fact = f /\ t.skip = k
  BY <1>2, <1>3, <1>6 DEF Changed, Fields
<1>8. \A g \in Fields \ {"jump", "fact", "skip"} : t[g] = s[g]
  BY <1>2, <1>3, <1>6 DEF Changed
<1>9. /\ t.do = "read" /\ t.layer = l /\ t.needs = {} /\ t.sets = {} /\ t.clears = {}
      /\ t.fails = "end" /\ t.after = "none" /\ t.when = {} /\ t.unless = {} /\ t.phase = "none"
  BY <1>1, <1>8 DEF Looks, Fields
<1>10. IsStep(t)
  BY <1>7, <1>9 DEF IsStep, Shaped
<1>11. Jumping(t, l, j, f, k)
  BY <1>7, <1>9, <1>10 DEF Jumping
<1> QED BY <1>11 DEF t

(* The steps after a read that looks for a fact. *)
LEMMA IfFacts ==
  ASSUME NEW r, OfFacts(r), NEW f, NEW l, l \notin {"none", "led", "status"}, NEW w, NEW P, NEW a, NEW c,
         Leads(r, P, Known(a.on \cup {f}, a.off, a.new), c),
         NoMoreFacts(Known(a.on, a.off \cup {f}, a.new), c)
  PROVE  Leads(r, IfChipHas(f, l, w, P), a, c)
<1> DEFINE s == JumpRead(l, w, "lacks", f, Len(P))
           b == Known(a.on \cup {f}, a.off, a.new)
<1>0. Len(P) \in Nat
  BY DEF Leads, IsPlan
<1>j. Jumping(s, l, "lacks", f, Len(P))
  BY <1>0, JumpLooks
<1>2. IfChipHas(f, l, w, P) = <<s>> \o P
  BY Zenon DEF IfChipHas, JumpRead
<1> HIDE DEF s
<1>1. /\ IsStep(s) /\ s.do = "read" /\ s.layer = l /\ s.needs = {} /\ s.sets = {} /\ s.clears = {}
      /\ s.fails = "end" /\ s.after = "none" /\ s.jump = "lacks" /\ s.fact = f /\ s.skip = Len(P)
  BY <1>j DEF Jumping
<1>3. FactsLocal(r, s, a, b)
  <2>1. WritesInOrder(s, a) /\ FirmwareApart(s, a) /\ TrafficReady(r, s, a) /\ BaseBandKept(s, a)
    BY <1>1 DEF WritesInOrder, FirmwareApart, TrafficReady, BaseBandKept
  <2>2. NoMoreFacts(FactsAfter(s, FactsThere(s, a)), b) 
    BY <1>1 DEF NoMoreFacts, FactsAfter, FactsThere, Known
  <2>3. ~GoesOn(s) /\ ~MayBeQuiet(s) 
    BY <1>1 DEF GoesOn, MayBeQuiet
  <2>4. Asked(s, r.opts)
    BY <1>j DEF Asked, Jumping
  <2> HIDE DEF b
  <2> QED BY <2>1, <2>2, <2>3, <2>4 DEF FactsLocal
<1>4. FactsLands(s, a, c)
  BY <1>1 DEF FactsLands, NoMoreFacts, FactsAfter, FactsMissing, Known
<1>5. Local(r, s, a, b) /\ Lands(r, s, a, c)
  BY <1>3, <1>4 DEF Local, Lands, OfFacts
<1>6. s.jump # "never"
  BY <1>1
<1> HIDE DEF b
<1>7. Leads(r, P, b, c)
  BY DEF b
<1>8. Leads(r, <<s>> \o P, a, c)
  BY <1>1, <1>5, <1>6, <1>7, JumpLeads
<1> QED BY <1>2, <1>8, Zenon

LEMMA ResetFacts ==
  ASSUME NEW r, OfFacts(r), NEW a
  PROVE  Leads(r, PreflightResetLoadedCode, a,
               Known(a.on \ {"ram", "fw", "dl"}, a.off \cup {"ram"}, a.new \ {"ram", "fw", "dl"}))
<1> DEFINE F == {"ram", "fw", "dl"}
           b == Known(a.on \cup {"ram"}, a.off, a.new)
           c == Known(a.on \ F, a.off \cup {"ram"}, a.new \ F)
<1>0. \A x : Up("firmware", x)
  BY PutsUp
<1>1. Leads(r, Clearing("firmware", "MCUFWDL", F), b, Dels(b, F)) /\ Leads(r, Reset8051, Dels(b, F), Dels(b, F))
  <2> HIDE DEF F, b
  <2> QED BY <1>0, WriteFacts DEF Reset8051
<1>2. Leads(r, Clearing("firmware", "MCUFWDL", F) \o Reset8051, b, Dels(b, F))
  BY <1>1, Cat
<1>3. NoMoreFacts(Dels(b, F), c) /\ NoMoreFacts(Known(a.on, a.off \cup {"ram"}, a.new), c)
  BY DEF NoMoreFacts, Dels, Known
<1>4. Leads(r, Clearing("firmware", "MCUFWDL", F) \o Reset8051, b, c)
  BY <1>2, <1>3, SameFacts
<1>5. Leads(r, PreflightResetLoadedCode, a, c)
  <2> HIDE DEF c
  <2> QED BY <1>3, <1>4, IfFacts DEF PreflightResetLoadedCode
<1> QED BY <1>5

LEMMA ChecksumLooks ==
  ASSUME NEW n \in 1..DownloadAttempts
  PROVE  LET t == Checksum(n)
         IN /\ IsStep(t) /\ t.do = "read" /\ t.layer = "firmware" /\ t.needs = {} /\ t.sets = {} /\ t.clears = {}
            /\ t.fails \in {"keep", "drop"} /\ t.after = "none" /\ t.jump = "always" /\ t.fact = "none"
            /\ t.skip = (DownloadAttempts - n) * 4
            /\ t.when = {} /\ t.unless = {} /\ t.phase = "none"
<1> DEFINE s == Step("read", "firmware", <<"checksum">>)
           k == (DownloadAttempts - n) * 4
           f == IF n = DownloadAttempts THEN "keep" ELSE "drop"
           t1 == [s EXCEPT !.jump = "always"]
           t2 == [t1 EXCEPT !.skip = k]
           t3 == [t2 EXCEPT !.fails = f]
           t == Checksum(n)
<1>0. k \in Nat /\ f \in {"keep", "drop"}
  BY DiagStepConstants
<1>1. Looks(s, "read", "firmware", {}, {}, {}, "end", "none") /\ Shaped(s) /\ s.fact = "none"
  <2>1. Looks(s, "read", "firmware", {}, {}, {}, "end", "none")
    BY LooksStep
  <2>2. s.fact = "none"
    BY DEF Step
  <2> QED BY <2>1, <2>2, IsShaped DEF Looks
<1>5. t = t3
  BY Zenon DEF Checksum
<1> HIDE DEF s, k, f
<1>2. Changed(s, t1, "jump", "always")
  BY <1>1, FieldChanged
<1>3. Changed(t1, t2, "skip", k)
  <2> HIDE DEF t1
  <2>1. Shaped(t1)
    BY <1>2 DEF Changed
  <2> QED BY <2>1, FieldChanged
<1>4. Changed(t2, t3, "fails", f)
  <2> HIDE DEF t2
  <2>1. Shaped(t2)
    BY <1>3 DEF Changed
  <2> QED BY <2>1, FieldChanged
<1> HIDE DEF t1, t2, t3, t
<1>6. Changed(t2, t, "fails", f)
  BY <1>4, <1>5
<1>7. Shaped(t) /\ t.jump = "always" /\ t.skip = k /\ t.fails = f
  BY <1>2, <1>3, <1>6 DEF Changed, Fields
<1>8. \A g \in Fields \ {"jump", "fails", "skip"} : t[g] = s[g]
  BY <1>2, <1>3, <1>6 DEF Changed
<1>9. /\ t.do = "read" /\ t.layer = "firmware" /\ t.needs = {} /\ t.sets = {} /\ t.clears = {}
      /\ t.after = "none" /\ t.when = {} /\ t.unless = {} /\ t.phase = "none" /\ t.fact = "none"
  BY <1>1, <1>8 DEF Looks, Fields
<1>10. IsStep(t)
  BY <1>0, <1>7, <1>9 DEF IsStep, Shaped
<1> QED BY <1>0, <1>7, <1>9, <1>10 DEF t, k

IsWrite(s) == \E w : s = Step("write", "firmware", w)

LEMMA AttemptIs ==
  ASSUME NEW n \in 1..DownloadAttempts
  PROVE  LET P == FirmwareAttempt(n)
         IN /\ IsPlan(P) /\ Len(P) = 4 /\ P[4] = Checksum(n) /\ \A i \in 1..3 : IsWrite(P[i])
<1> DEFINE W(w) == Step("write", "firmware", w)
           t == Checksum(n)
<1>1. FirmwareImage = <<W(<<"MCUFWDL+2">>)>> \o <<W(<<"FW_START_ADDRESS blocks", "FW_START_ADDRESS bytes">>)>>
  BY Zenon DEF FirmwareImage, FirmwarePage, FirmwareData, Put, Puts
<1>2. IsStep(t) /\ \A w : IsStep(W(w))
  BY ChecksumLooks, LooksStep DEF Looks
<1>3. Len(FirmwareImage) + 2 = 4
  <2> DEFINE u == W(<<"MCUFWDL+2">>)
             v == W(<<"FW_START_ADDRESS blocks", "FW_START_ADDRESS bytes">>)
  <2>1. FirmwareImage = <<u>> \o <<v>>
    BY <1>1
  <2> HIDE DEF u, v
  <2> QED BY <2>1
<1>4. FirmwareAttempt(n) = (<<W(<<"MCUFWDL checksum">>)>> \o FirmwareImage) \o <<t>>
  <2>1. \A k : k = Len(FirmwareImage) + 2 =>
          FirmwareAttempt(n) = (<<W(<<"MCUFWDL checksum">>)>> \o FirmwareImage)
             \o <<[Step("read", "firmware", <<"checksum">>) EXCEPT
                     !.jump = "always", !.skip = (DownloadAttempts - n) * k,
                     !.fails = IF n = DownloadAttempts THEN "keep" ELSE "drop"]>>
    BY Zenon DEF FirmwareAttempt, Put, Puts
  <2> QED BY <2>1, <1>3, Zenon DEF Checksum
<1>5. \A w : IsWrite(W(w))
  BY DEF IsWrite
<1> DEFINE x == W(<<"MCUFWDL checksum">>)
           y == W(<<"MCUFWDL+2">>)
           z == W(<<"FW_START_ADDRESS blocks", "FW_START_ADDRESS bytes">>)
           P == FirmwareAttempt(n)
<1>6. P = (<<x>> \o (<<y>> \o <<z>>)) \o <<t>>
  BY <1>1, <1>4, Zenon
<1>7. IsWrite(x) /\ IsWrite(y) /\ IsWrite(z) /\ IsStep(x) /\ IsStep(y) /\ IsStep(z)
  BY <1>2, <1>5
<1> HIDE DEF x, y, z, t, W, P
<1>8. P \in Seq({x, y, z, t}) /\ Len(P) = 4 /\ P[1] = x /\ P[2] = y /\ P[3] = z /\ P[4] = t
  BY <1>6
<1>9. \A i \in 1..4 : IsStep(P[i])
  BY <1>8, <1>7, <1>2
<1>10. IsPlan(P) /\ \A i \in 1..3 : IsWrite(P[i])
  BY <1>7, <1>8, <1>9 DEF IsPlan
<1> QED BY <1>8, <1>10 DEF P, t

AttemptAt(s, i) == IsWrite(s) \/ \E m \in 1..DownloadAttempts : i = 4 * m /\ s = Checksum(m)
AttemptsUpTo(P, n) == IsPlan(P) /\ Len(P) = 4 * n /\ \A i \in 1..4 * n : AttemptAt(P[i], i)

LEMMA AttemptsAre == AttemptsUpTo(FirmwareAttempts, DownloadAttempts)
<1> DEFINE k == DownloadAttempts
           f == [n \in 1..k |-> FirmwareAttempt(n)]
<1>0. k \in Nat \ {0}
  BY DiagStepConstants
<1>1. \A n \in 1..k : /\ f[n] = FirmwareAttempt(n) /\ IsPlan(f[n]) /\ Len(f[n]) = 4 /\ f[n][4] = Checksum(n)
                      /\ \A i \in 1..3 : IsWrite(f[n][i])
  BY AttemptIs
<1>2. Blocks(f, k)
  <2> DEFINE F(n) == FirmwareAttempt(n)
  <2>1. f = [n \in 1..k |-> f[n]]
    <3> HIDE DEF F
    <3> QED OBVIOUS
  <2> HIDE DEF f
  <2> QED BY <1>0, <1>1, <2>1 DEF Blocks
<1> HIDE DEF f
<1>3. PICK g : Joined(g, f, k) /\ FlattenSeq(f) = g[k]
  BY <1>2, Flattened
<1> DEFINE T == {n \in Nat : AttemptsUpTo(g[n + 1], n + 1)}
<1>4. ASSUME NEW n \in 1..k, NEW i \in 1..4 PROVE AttemptAt(f[n][i], 4 * (n - 1) + i)
  <2>1. CASE i = 4
    <3>1. 4 * (n - 1) + i = 4 * n
      BY <2>1, <1>0
    <3> QED BY <3>1, <2>1, <1>1 DEF AttemptAt
  <2>2. CASE i # 4
    <3>1. i \in 1..3
      BY <2>2
    <3> QED BY <3>1, <1>1 DEF AttemptAt
  <2> QED BY <2>1, <2>2
<1>5. 0 \in T
  <2>1. g[1] = f[1] /\ 1 \in 1..k
    BY <1>0, <1>3 DEF Joined
  <2>2. \A i \in 1..4 : AttemptAt(f[1][i], i)
    <3> SUFFICES ASSUME NEW i \in 1..4 PROVE AttemptAt(f[1][i], i)
      OBVIOUS
    <3>1. 4 * (1 - 1) + i = i
      OBVIOUS
    <3> QED BY <3>1, <2>1, <1>4
  <2>3. AttemptsUpTo(g[1], 1)
    BY <2>1, <2>2, <1>1 DEF AttemptsUpTo
  <2> QED BY <2>3
<1>6. \A n \in 0..(k - 1) - 1 : n \in T => n + 1 \in T
  <2> SUFFICES ASSUME NEW n \in 0..(k - 1) - 1, n \in T PROVE n + 1 \in T
    OBVIOUS
  <2> DEFINE m == n + 1
  <2>1. m + 1 \in 2..k /\ m + 1 \in 1..k /\ (m + 1) - 1 = m /\ m \in Nat
    BY <1>0
  <2>2. AttemptsUpTo(g[m], m)
    OBVIOUS
  <2> HIDE DEF m
  <2>3. g[m + 1] = g[m] \o f[m + 1]
    BY <2>1, <1>3 DEF Joined
  <2>4. IsPlan(g[m]) /\ Len(g[m]) = 4 * m /\ IsPlan(f[m + 1]) /\ Len(f[m + 1]) = 4
    BY <2>1, <2>2, <1>1 DEF AttemptsUpTo
  <2>5. /\ IsPlan(g[m + 1]) /\ Len(g[m + 1]) = 4 * m + 4
        /\ \A i \in 1..4 * m : g[m + 1][i] = g[m][i]
        /\ \A i \in 1..4 : g[m + 1][4 * m + i] = f[m + 1][i]
    <3> DEFINE G == g[m]
               H == f[m + 1]
    <3>0. IsPlan(G) /\ IsPlan(H)
      BY <2>4
    <3> HIDE DEF G, H
    <3>1. /\ IsPlan(G \o H) /\ Len(G \o H) = Len(G) + Len(H)
          /\ \A i \in 1..Len(G) : (G \o H)[i] = G[i]
          /\ \A i \in 1..Len(H) : (G \o H)[Len(G) + i] = H[i]
      BY <3>0, PlanCat
    <3> QED BY <3>1, <2>3, <2>4 DEF G, H
  <2>6. ASSUME NEW i \in 1..4 * (m + 1) PROVE AttemptAt(g[m + 1][i], i)
    <3>1. CASE i <= 4 * m
      <4>1. i \in 1..4 * m
        BY <3>1, <2>1
      <4> QED BY <4>1, <2>2, <2>5 DEF AttemptsUpTo
    <3>2. CASE ~(i <= 4 * m)
      <4> DEFINE j == i - 4 * m
      <4>1. j \in 1..4 /\ i = 4 * m + j /\ 4 * ((m + 1) - 1) + j = i
        BY <3>2, <2>1
      <4> HIDE DEF j
      <4>2. g[m + 1][i] = f[m + 1][j]
        BY <4>1, <2>5
      <4>3. AttemptAt(f[m + 1][j], 4 * ((m + 1) - 1) + j)
        BY <4>1, <2>1, <1>4
      <4> QED BY <4>1, <4>2, <4>3
    <3> QED BY <3>1, <3>2, <2>1
  <2>7. AttemptsUpTo(g[m + 1], m + 1)
    BY <2>1, <2>5, <2>6 DEF AttemptsUpTo
  <2> QED BY <2>1, <2>7 DEF m
<1> HIDE DEF T
<1>7. \A n \in 0..k - 1 : n \in T
  BY <1>0, <1>5, <1>6, Reaches
<1>8. k - 1 \in T /\ (k - 1) + 1 = k
  BY <1>0, <1>7
<1>9. AttemptsUpTo(g[k], k)
  BY <1>8 DEF T
<1>10. FirmwareAttempts = FlattenSeq(f)
  BY Zenon DEF FirmwareAttempts, f
<1> QED BY <1>3, <1>9, <1>10

LEMMA AttemptsLead ==
  ASSUME NEW r, NEW a, \A w : Local(r, Step("write", "firmware", w), a, a),
         \A n \in 1..DownloadAttempts : Local(r, Checksum(n), a, a) /\ Lands(r, Checksum(n), a, a)
  PROVE  Leads(r, FirmwareAttempts, a, a)
<1> DEFINE P == FirmwareAttempts
           k == DownloadAttempts
<1>0. k \in Nat \ {0}
  BY DiagStepConstants
<1>1. IsPlan(P) /\ Len(P) = 4 * k /\ \A i \in 1..4 * k : AttemptAt(P[i], i)
  BY AttemptsAre DEF AttemptsUpTo
<1>2. ASSUME NEW i \in 1..Len(P) PROVE EvenAt(r, P, a, i)
  <2>1. AttemptAt(P[i], i)
    BY <1>1
  <2>2. CASE IsWrite(P[i])
    <3>1. PICK w : P[i] = Step("write", "firmware", w)
      BY <2>2 DEF IsWrite
    <3>2. P[i].jump = "never"
      BY <3>1, LooksStep DEF Looks
    <3> QED BY <3>1, <3>2 DEF EvenAt
  <2>3. CASE ~IsWrite(P[i])
    <3>1. PICK m \in 1..k : i = 4 * m /\ P[i] = Checksum(m)
      BY <2>1, <2>3 DEF AttemptAt
    <3>2. P[i].skip = (k - m) * 4
      BY <3>1, ChecksumLooks
    <3>3. 4 * m + (k - m) * 4 = 4 * k
      BY <1>0, <3>1
    <3>4. i + P[i].skip = 4 * k /\ Len(P) = 4 * k /\ 4 * k \in Nat
      BY <3>1, <3>2, <3>3, <1>1, <1>0
    <3>5. i + P[i].skip <= Len(P)
      BY <3>4
    <3> QED BY <3>1, <3>5 DEF EvenAt
  <2> QED BY <2>2, <2>3
<1> HIDE DEF P
<1>3. Leads(r, P, a, a)
  BY <1>1, <1>2, EvenLeads
<1> QED BY <1>3 DEF P

LEMMA AttemptsFacts ==
  ASSUME NEW r, OfFacts(r), NEW a
  PROVE  Leads(r, FirmwareAttempts, a, a)
<1>1. ASSUME NEW s, s.layer = "firmware", s.do \in {"read", "write"}, s.needs = {}, s.sets = {}, s.clears = {},
             s.after = "none", s.jump \in {"never", "always"}
      PROVE  FactsLocal(r, s, a, a) /\ FactsLands(s, a, a)
  <2>1. WritesInOrder(s, a) /\ FirmwareApart(s, a) /\ TrafficReady(r, s, a) /\ BaseBandKept(s, a)
    BY <1>1, BelowIs DEF WritesInOrder, FirmwareApart, TrafficReady, BaseBandKept
  <2>2. /\ NoMoreFacts(FactsAfter(s, FactsThere(s, a)), a) /\ NoMoreFacts(FactsAfter(s, FactsMissing(s, a)), a)
        /\ NoMoreFacts(FactsSpoilt(s, a), a) /\ NoMoreFacts(a, a)
    BY <1>1 DEF NoMoreFacts, FactsAfter, FactsThere, FactsMissing, FactsSpoilt, Known
  <2> QED BY <2>1, <2>2 DEF FactsLocal, FactsLands
<1>2. \A w : FactsLocal(r, Step("write", "firmware", w), a, a)
  BY <1>1, LooksStep DEF Looks
<1>3. \A n \in 1..DownloadAttempts : FactsLocal(r, Checksum(n), a, a) /\ FactsLands(Checksum(n), a, a)
  BY <1>1, ChecksumLooks
<1> QED BY <1>2, <1>3, AttemptsLead DEF Local, Lands, OfFacts

(* The write that closes the download mode, and the one that revokes EFUSE access. *)
LEMMA DisableStep ==
  ASSUME NEW l, l # "none", NEW w, NEW F
  PROVE  \E u : /\ AllTheSame(l, Failing("keep", Clearing(l, w, F))) = <<u>>
               /\ Looks(u, "write", l, {}, {}, F, "keep", l)
<1> DEFINE s == [Step("write", l, <<w>>) EXCEPT !.clears = F]
           t == [s EXCEPT !.fails = "keep"]
           u == [t EXCEPT !.after = l]
<1>1. Looks(Step("write", l, <<w>>), "write", l, {}, {}, {}, "end", "none")
  BY LooksStep
<1>2. Looks(s, "write", l, {}, {}, F, "end", "none")
  BY <1>1, LooksWith
<1>3. AllTheSame(l, Failing("keep", Clearing(l, w, F))) = <<u>>
  <2>1. Clearing(l, w, F) = <<s>>
    BY Zenon DEF Clearing
  <2> HIDE DEF s
  <2>2. Failing("keep", <<s>>) = <<t>>
    BY OneChanged
  <2> HIDE DEF t
  <2>3. AllTheSame(l, <<t>>) = <<u>>
    BY OneChanged
  <2> QED BY <2>1, <2>2, <2>3, Zenon
<1> HIDE DEF s
<1>4. Looks(t, "write", l, {}, {}, F, "keep", "none")
  BY <1>2, LooksWith
<1> HIDE DEF t
<1>5. Looks(u, "write", l, {}, {}, F, "keep", l)
  BY <1>4, LooksWith
<1> QED BY <1>3, <1>5

LEMMA DisableFacts ==
  ASSUME NEW r, OfFacts(r), NEW a, NEW l \in {"firmware", "efuse"}, NEW w, NEW F
  PROVE  Leads(r, AllTheSame(l, Failing("keep", Clearing(l, w, F))), a, Dels(a, F))
<1>5. PICK u : /\ AllTheSame(l, Failing("keep", Clearing(l, w, F))) = <<u>>
               /\ Looks(u, "write", l, {}, {}, F, "keep", l)
  BY DisableStep
<1>6. Leads(r, <<u>>, a, Known(((a.on \cup {}) \ F) \cup {}, (a.off \cup F) \ {}, (a.new \ F) \cup {}))
  <2>1. {} \cap {"ram", "fw", "dl"} = {} /\ l \notin DOMAIN Below /\ l # "bb" /\ Up(l, a) /\ l \notin {"led", "status"}
    BY BelowIs DEF Up
  <2> QED BY <2>1, <1>5, StepFacts
<1>7. NoMoreFacts(Known(((a.on \cup {}) \ F) \cup {}, (a.off \cup F) \ {}, (a.new \ F) \cup {}), Dels(a, F))
  BY DEF NoMoreFacts, Known, Dels
<1> QED BY <1>5, <1>6, <1>7, SameFacts

LEMMA FirmwareStartFacts ==
  ASSUME NEW r, OfFacts(r), NEW a, "dl" \in a.off
  PROVE  Leads(r, FirmwareStart, a, Adds(a, {"ram", "fw"}))
<1> DEFINE b == Dels(a, {"fw"})
           c == Adds(b, {"ram"})
           d == Adds(c, {"fw"})
<1>0. \A x : Up("firmware", x)
  BY PutsUp
<1>1. Leads(r, Read("firmware", "MCUFWDL"), a, a) /\ Leads(r, Clearing("firmware", "MCUFWDL", {"fw"}), a, b)
  BY <1>0, ReadFacts, WriteFacts
<1>2. "dl" \in b.off /\ "dl" \in c.off
  BY DEF Adds, Dels, Known
<1>3. FirmwareSafe({"ram"}, b) /\ FirmwareSafe({"fw"}, c)
  BY <1>2 DEF FirmwareSafe
<1>4. NoMoreFacts(d, Adds(a, {"ram", "fw"}))
  BY DEF NoMoreFacts, Adds, Dels, Known
<1> HIDE DEF b, c, d
<1>5. Leads(r, Completing({"ram"}, Reset8051), b, c)
  BY <1>0, <1>3, WriteFacts DEF Reset8051, c
<1>6. Leads(r, Completing({"fw"}, Poll("firmware", "WINTINI_RDY")), c, d)
  <2>1. Completing({"fw"}, Poll("firmware", "WINTINI_RDY")) =
          <<[Step("read", "firmware", <<"WINTINI_RDY">>) EXCEPT !.sets = @ \cup {"fw"}]>>
    BY OneChanged, Zenon DEF Poll, Read
  <2>2. Leads(r, <<[Step("read", "firmware", <<"WINTINI_RDY">>) EXCEPT !.sets = @ \cup {"fw"}]>>, c, Adds(c, {"fw"}))
    BY <1>3, LastReadFacts
  <2> QED BY <2>1, <2>2, Zenon DEF d
<1>7. Leads(r, FirmwareStart, a, d)
  BY <1>1, <1>5, <1>6, Cat4 DEF FirmwareStart
<1> QED BY <1>4, <1>7, SameFacts

LEMMA FirmwareFacts ==
  ASSUME NEW r, OfFacts(r), NEW a
  PROVE  Leads(r, FirmwareSequence, a, Adds(Dels(a, {"dl"}), {"ram", "fw"}))
<1> DEFINE b == Known(a.on \ {"ram", "fw", "dl"}, a.off \cup {"ram"}, a.new \ {"ram", "fw", "dl"})
           c == Adds(b, {"dl"})
           d == Dels(c, {"dl"})
           e == Adds(d, {"ram", "fw"})
<1>0. \A x : Up("firmware", x)
  BY PutsUp
<1>1. "ram" \in b.off /\ "dl" \in d.off
  BY DEF Adds, Dels, Known
<1>2. FirmwareSafe({"dl"}, b)
  BY <1>1 DEF FirmwareSafe
<1>3. NoMoreFacts(e, Adds(Dels(a, {"dl"}), {"ram", "fw"}))
  BY DEF NoMoreFacts, Adds, Dels, Known
<1>4. Leads(r, PreflightResetLoadedCode, a, b)
  BY ResetFacts
<1> HIDE DEF b, c, d, e
<1>5. Leads(r, Setting("firmware", "MCUFWDL", {"dl"}), b, c) /\ Leads(r, Put("firmware", "MCUFWDL+2"), c, c)
  BY <1>0, <1>2, WriteFacts DEF c
<1>6. Leads(r, FirmwareAttempts, c, c)
  BY AttemptsFacts
<1>7. Leads(r, FirmwareDisable, c, d)
  BY DisableFacts DEF FirmwareDisable, d
<1>8. Leads(r, FirmwareStart, d, e)
  BY <1>1, FirmwareStartFacts DEF e
<1>9. Leads(r, FirmwareSequence, a, e)
  BY <1>4, <1>5, <1>6, <1>7, <1>8, Cat6 DEF FirmwareSequence, FirmwareAttempts
<1> QED BY <1>3, <1>9, SameFacts

FwUp == {"cr", "ram", "fw"}

LEMMA UpIs ==
  /\ \A a : Up("llt", a) <=> "cr" \in a.on
  /\ \A a : \A l \in {"queue", "mac", "bb"} : Up(l, a) <=> FwUp \subseteq a.on
  /\ \A a : \A l \in {"rf", "channel"} : Up(l, a) <=> FwUp \cup {"bbfunc"} \subseteq a.on
BY BelowIs DEF Up, FwUp

LEMMA LltFacts ==
  ASSUME NEW r, OfFacts(r), NEW a
  PROVE  Leads(r, LltSequence, a, Adds(Seen(a, {"cr"}), {"llt"}))
<1> DEFINE b == Seen(a, {"cr"})
           c == Adds(b, {"llt"})
           s == Step("read", "llt", <<"end of ring">>)
           P == Put("llt", "end of ring")
           X == LltWrite("list pages") \o LltWrite("end of list") \o LltWrite("ring pages")
<1>1. Up("llt", b)
  BY UpIs DEF Seen, Known
<1>2. FirmwareSafe({"llt"}, b)
  BY DEF FirmwareSafe
<1> HIDE DEF b
<1>3. Leads(r, Preflight("llt", "CR", {"cr"}), a, b)
  BY ReadFacts DEF b
<1>4. \A w : Leads(r, Put("llt", w), b, b) /\ Leads(r, Poll("llt", w), b, b)
  BY <1>1, ReadFacts, WriteFacts
<1>5. \A w : Leads(r, LltWrite(w), b, b)
  BY <1>4, Cat DEF LltWrite
<1>6. Leads(r, X, b, b)
  BY <1>5, Cat3
<1>7. IsStep(s)
  BY LooksStep DEF Looks
<1>8. LltWrite("end of ring") = P \o <<s>>
  BY Zenon DEF LltWrite, Poll, Read
<1>9. Leads(r, <<[s EXCEPT !.sets = @ \cup {"llt"}]>>, b, c)
  BY <1>2, LastReadFacts
<1>10. Leads(r, P, b, b)
  BY <1>4
<1> HIDE DEF s, P, X, c
<1>11. Leads(r, (X \o P) \o <<[s EXCEPT !.sets = @ \cup {"llt"}]>>, b, c)
  <2> DEFINE t == [s EXCEPT !.sets = @ \cup {"llt"}]
  <2>1. Leads(r, <<t>>, b, c)
    BY <1>9
  <2> HIDE DEF t
  <2>2. Leads(r, X \o P \o <<t>>, b, c)
    BY <2>1, <1>6, <1>10, Cat3
  <2> QED BY <2>2 DEF t
<1>12. Completing({"llt"}, X \o (P \o <<s>>)) = (X \o P) \o <<[s EXCEPT !.sets = @ \cup {"llt"}]>>
  BY <1>6, <1>7, <1>10, CompletingTail DEF Leads
<1>13. LltSequence = Preflight("llt", "CR", {"cr"}) \o Completing({"llt"}, X \o (P \o <<s>>))
  BY <1>8, Zenon DEF LltSequence, X
<1>14. Leads(r, Completing({"llt"}, X \o (P \o <<s>>)), b, c)
  BY <1>11, <1>12, Zenon
<1>15. Leads(r, LltSequence, a, c)
  BY <1>3, <1>13, <1>14, Cat
<1> QED BY <1>15 DEF b, c

(* A layer that finds the firmware running. *)
LEMMA PreflightFacts ==
  ASSUME NEW r, OfFacts(r), NEW a, NEW l \in {"queue", "mac", "bb"}
  PROVE  Leads(r, Preflight(l, "CR", {"cr"}) \o Preflight(l, "MCUFWDL", {"ram", "fw"}), a, Seen(a, FwUp))
<1> DEFINE b == Seen(a, {"cr"})
           c == Seen(b, {"ram", "fw"})
<1>1. Leads(r, Preflight(l, "CR", {"cr"}), a, b) /\ Leads(r, Preflight(l, "MCUFWDL", {"ram", "fw"}), b, c)
  BY ReadFacts
<1>2. NoMoreFacts(c, Seen(a, FwUp))
  BY DEF NoMoreFacts, Seen, Known, FwUp
<1> HIDE DEF b, c
<1> QED BY <1>1, <1>2, Cat, SameFacts

LEMMA QueueFacts ==
  ASSUME NEW r, OfFacts(r), NEW a
  PROVE  Leads(r, QueueDmaSequence, a, Adds(Seen(a, FwUp), {"queue"}))
<1> DEFINE b == Seen(a, FwUp)
<1>1. Up("queue", b)
  BY UpIs DEF Seen, Known
<1>2. FirmwareSafe({"queue"}, b)
  BY DEF FirmwareSafe
<1>3. Leads(r, QueuePreflight, a, b)
  BY PreflightFacts DEF QueuePreflight
<1> HIDE DEF b
<1>4. \A w : Leads(r, Completing({"queue"}, Puts("queue", w)), b, Adds(b, {"queue"}))
  BY <1>1, <1>2, WriteFacts
<1>5. Leads(r, QueueDmaSequence, a, Adds(b, {"queue"}))
  BY <1>3, <1>4, Cat DEF QueueDmaSequence
<1> QED BY <1>5 DEF b

LEMMA MacFacts ==
  ASSUME NEW r, OfFacts(r), NEW a
  PROVE  Leads(r, MacSequence, a, Adds(Seen(a, FwUp), {"mac"}))
<1> DEFINE b == Seen(a, FwUp)
<1>1. Up("mac", b)
  BY UpIs DEF Seen, Known
<1>2. FirmwareSafe({"mac"}, b)
  BY DEF FirmwareSafe
<1>3. Leads(r, MacPreflight, a, b)
  BY PreflightFacts DEF MacPreflight
<1> HIDE DEF b
<1>4. \A w : /\ Leads(r, Puts("mac", w), b, b) /\ Leads(r, Read("mac", w), b, b)
             /\ Leads(r, Completing({"mac"}, Puts("mac", w)), b, Adds(b, {"mac"}))
  BY <1>1, <1>2, WriteFacts, ReadFacts
<1>5. Leads(r, MacReceive, b, b) /\ Leads(r, MacTiming, b, b) /\ Leads(r, MacRetry, b, b)
  BY <1>4 DEF MacReceive, MacTiming, MacRetry
<1>6. Leads(r, BeaconParameters, b, b)
  BY <1>4 DEF BeaconParameters
<1>7. Leads(r, UsbReceiveDma, b, b)
  BY <1>4, Cat DEF UsbReceiveDma
<1>8. Leads(r, UsbBurstPackets, b, b)
  BY <1>4, <1>7, Cat DEF UsbBurstPackets
<1>9. Leads(r, MacEnable, b, Adds(b, {"mac"}))
  BY <1>4 DEF MacEnable
<1>10. Leads(r, MacPreflight \o MacReceive \o MacTiming \o MacRetry \o BeaconParameters \o UsbBurstPackets, a, b)
  BY <1>3, <1>5, <1>6, <1>8, Cat6
<1>11. Leads(r, MacSequence, a, Adds(b, {"mac"}))
  BY <1>9, <1>10, Cat DEF MacSequence
<1> QED BY <1>11 DEF b

LEMMA BbFacts ==
  ASSUME NEW r, OfFacts(r), NEW a
  PROVE  Leads(r, BbSequence, a, Adds(Dels(Seen(a, FwUp), {"agc", "cal", "page"}), {"bbfunc", "bb"}))
<1> DEFINE b == Seen(a, FwUp)
           c == Adds(b, {"bbfunc"})
           d == Dels(c, {"agc", "cal", "page"})
           e == Dels(d, {"agc", "cal", "page"})
           f == Adds(e, {"bb"})
<1>1. Up("bb", b) /\ Up("bb", c) /\ Up("bb", d) /\ Up("bb", e)
  BY UpIs DEF Seen, Adds, Dels, Known, FwUp
<1>2. FirmwareSafe({"bbfunc"}, b) /\ FirmwareSafe({"bb"}, e)
  BY DEF FirmwareSafe
<1>3. NoMoreFacts(f, Adds(Dels(Seen(a, FwUp), {"agc", "cal", "page"}), {"bbfunc", "bb"}))
  BY DEF NoMoreFacts, Seen, Adds, Dels, Known
<1>4. Leads(r, BbPreflight, a, b)
  BY PreflightFacts DEF BbPreflight
<1> HIDE DEF b, c, d, e, f
<1>5. Leads(r, Put("bb", "SYS_FUNC_EN"), b, b) /\ Leads(r, Setting("bb", "SYS_FUNC_EN", {"bbfunc"}), b, c)
  BY <1>1, <1>2, WriteFacts DEF c
<1>6. Leads(r, Puts("bb", <<"RF_CTRL", "RF_B_CTRL">>), c, c)
  BY <1>1, WriteFacts
<1>7. Leads(r, BbTablePlan("PHY_REG"), c, d) /\ Leads(r, BbTablePlan("AGC_TAB"), d, e)
  BY <1>1, WriteFacts DEF BbTablePlan, d, e
<1>8. Leads(r, Completing({"bb"}, BbCrystalCap), e, f)
  BY <1>1, <1>2, WriteFacts DEF BbCrystalCap, Put, f
<1>9. Leads(r, BbPreflight \o Put("bb", "SYS_FUNC_EN") \o Setting("bb", "SYS_FUNC_EN", {"bbfunc"})
               \o Puts("bb", <<"RF_CTRL", "RF_B_CTRL">>), a, c)
  BY <1>4, <1>5, <1>6, Cat4
<1>10. Leads(r, BbSequence, a, f)
  BY <1>9, <1>7, <1>8, Cat4 DEF BbSequence
<1> QED BY <1>3, <1>10, SameFacts

RfUp == {"cr", "ram", "fw", "bbfunc"}

LEMMA RfPreflightFacts ==
  ASSUME NEW r, OfFacts(r), NEW a
  PROVE  Leads(r, RfPreflight, a, Seen(a, RfUp))
<1> DEFINE b == Seen(a, FwUp)
           c == Seen(b, {"bbfunc"})
<1>1. Leads(r, BbPreflight, a, b)
  BY PreflightFacts DEF BbPreflight
<1>2. Leads(r, Preflight("rf", "SYS_FUNC_EN", {"bbfunc"}), b, c)
  BY ReadFacts
<1>3. NoMoreFacts(c, Seen(a, RfUp))
  BY DEF NoMoreFacts, Seen, Known, FwUp, RfUp
<1> HIDE DEF b, c
<1>4. Leads(r, RfPreflight, a, c)
  BY <1>1, <1>2, Cat DEF RfPreflight
<1> QED BY <1>3, <1>4, SameFacts

LEMMA RfFacts ==
  ASSUME NEW r, OfFacts(r), NEW a
  PROVE  Leads(r, RfSequence, a, Adds(Seen(a, RfUp), {"rf"}))
<1> DEFINE b == Seen(a, RfUp)
<1>1. Up("rf", b)
  BY UpIs DEF Seen, Known, RfUp, FwUp
<1>2. FirmwareSafe({"rf"}, b)
  BY DEF FirmwareSafe
<1>3. Leads(r, RfPreflight, a, b)
  BY RfPreflightFacts
<1> HIDE DEF b
<1>4. Leads(r, RfTablePlan("radioA"), b, b) /\ Leads(r, Completing({"rf"}, RfTablePlan("radioB")), b, Adds(b, {"rf"}))
  BY <1>1, <1>2, WriteFacts DEF RfTablePlan, Put
<1>5. Leads(r, RfSequence, a, Adds(b, {"rf"}))
  BY <1>3, <1>4, Cat3 DEF RfSequence
<1> QED BY <1>5 DEF b

(* Options around a sequence that changes nothing. *)
LEMMA EvenOption ==
  ASSUME NEW r, NEW P, NEW a, NEW o, Leads(r, P, a, a)
  PROVE  Leads(r, When(o, P), a, a) /\ Leads(r, Unless(o, P), a, a)
<1>1. IsPlan(P)
  BY DEF Leads
<1>2. Leads(r, When(o, P), a, a)
  <2>1. CASE o \subseteq r.opts
    BY <2>1, WhenLeads
  <2>2. CASE ~(o \subseteq r.opts)
    BY <2>2, <1>1, WhenLeads
  <2> QED BY <2>1, <2>2
<1>3. Leads(r, Unless(o, P), a, a)
  <2>1. CASE o \cap r.opts = {}
    BY <2>1, UnlessLeads
  <2>2. CASE o \cap r.opts # {}
    BY <2>2, <1>1, UnlessLeads
  <2> QED BY <2>1, <2>2
<1> QED BY <1>2, <1>3

(* An option that loses something. *)
LEMMA OptionFacts ==
  ASSUME NEW r, OfFacts(r), NEW P, NEW a, NEW b, NEW o, Leads(r, P, a, b), NoMoreFacts(a, b)
  PROVE  Leads(r, When(o, P), a, b) /\ Leads(r, Unless(o, P), a, b)
<1>1. IsPlan(P)
  BY DEF Leads
<1>2. Leads(r, When(o, P), a, b)
  <2>1. CASE o \subseteq r.opts
    BY <2>1, WhenLeads
  <2>2. CASE ~(o \subseteq r.opts)
    BY <2>2, <1>1, WhenLeads, SameFacts
  <2> QED BY <2>1, <2>2
<1>3. Leads(r, Unless(o, P), a, b)
  <2>1. CASE o \cap r.opts = {}
    BY <2>1, UnlessLeads
  <2>2. CASE o \cap r.opts # {}
    BY <2>2, <1>1, UnlessLeads, SameFacts
  <2> QED BY <2>1, <2>2
<1> QED BY <1>2, <1>3

(* The last step of the first alternative jumps over the second. *)
JumpOver(t, s, k) ==
  /\ IsStep(t) /\ t.jump = "always" /\ t.skip = k
  /\ \A g \in Fields \ {"jump", "skip"} : t[g] = s[g]

Hop(s, k) == [s EXCEPT !.jump = "always", !.skip = k]

LEMMA JumpOverLooks ==
  ASSUME NEW s, IsStep(s), NEW k \in Nat
  PROVE  JumpOver(Hop(s, k), s, k)
<1> DEFINE t1 == [s EXCEPT !.jump = "always"]
           t2 == [t1 EXCEPT !.skip = k]
           t == [s EXCEPT !.jump = "always", !.skip = k]
<1>0. Shaped(s)
  BY IsShaped
<1>1. Changed(s, t1, "jump", "always")
  BY <1>0, FieldChanged
<1>2. t = t2
  BY Zenon
<1>3. Changed(t1, t2, "skip", k)
  <2> HIDE DEF t1
  <2>1. Shaped(t1)
    BY <1>1 DEF Changed
  <2> QED BY <2>1, FieldChanged
<1> HIDE DEF t1, t2, t
<1>4. Changed(t1, t, "skip", k)
  BY <1>2, <1>3
<1>5. Shaped(t) /\ t.jump = "always" /\ t.skip = k /\ \A g \in Fields \ {"jump", "skip"} : t[g] = s[g]
  BY <1>1, <1>4 DEF Changed, Fields
<1>6. t.layer = s.layer /\ t.fails = s.fails
  BY <1>5 DEF Fields
<1>7. JumpOver(t, s, k)
  BY <1>5, <1>6 DEF JumpOver, IsStep, Shaped
<1> QED BY <1>7, Zenon DEF t, Hop

LEMMA ChoosingIs ==
  ASSUME NEW f, NEW l, NEW w, NEW T, IsPlan(T), NEW s, IsStep(s), NEW E, IsPlan(E)
  PROVE  Choosing(f, l, w, T \o <<s>>, E) =
           (<<JumpRead(l, w, "lacks", f, Len(T) + 1)>>
              \o (T \o <<Hop(s, Len(E))>>)) \o E
<1> DEFINE t == [s EXCEPT !.jump = "always", !.skip = Len(E)]
<1>0. Len(E) \in Nat
  BY DEF IsPlan
<1>1. PICK S : T \in Seq(S)
  BY DEF IsPlan
<1>2. T \in Seq(S \cup {s}) /\ <<s>> \in Seq(S \cup {s})
  BY <1>1
<1>3. Front(T \o <<s>>) = T
  BY <1>2 DEF Front
<1>4. Last(T \o <<s>>) = s
  BY <1>2 DEF Last
<1>5. Choosing(f, l, w, T \o <<s>>, E) = IfChipHas(f, l, w, T \o <<t>>) \o E
  BY <1>3, <1>4, Zenon DEF Choosing
<1>6. Len(T \o <<t>>) = Len(T) + 1
  <2> HIDE DEF t
  <2> QED BY <1>1
<1>7. IfChipHas(f, l, w, T \o <<t>>) = <<JumpRead(l, w, "lacks", f, Len(T) + 1)>> \o (T \o <<t>>)
  BY <1>6, Zenon DEF IfChipHas, JumpRead
<1> QED BY <1>5, <1>7, Zenon DEF Hop

LEMMA ChooseFacts ==
  ASSUME NEW r, OfFacts(r), NEW f, NEW w, NEW v, NEW T, NEW E, NEW a, NEW m,
         Leads(r, T, a, m), Leads(r, E, a, m), Up("channel", m)
  PROVE  Leads(r, Choosing(f, "channel", w, T \o Puts("channel", v), E), a, m)
<1> DEFINE z == Step("write", "channel", v)
           t == Hop(z, Len(E))
           s == JumpRead("channel", w, "lacks", f, Len(T) + 1)
<1>0. IsPlan(T) /\ IsPlan(E) /\ Len(T) \in Nat /\ Len(E) \in Nat
  BY DEF Leads, IsPlan
<1>1. Looks(z, "write", "channel", {}, {}, {}, "end", "none") /\ IsStep(z)
  BY LooksStep DEF Looks
<1>2. Jumping(s, "channel", "lacks", f, Len(T) + 1)
  <2>1. Len(T) + 1 \in Nat /\ "channel" # "none" /\ "lacks" \in {"lacks", "always"}
    BY <1>0
  <2> QED BY <2>1, JumpLooks
<1>3. Choosing(f, "channel", w, T \o Puts("channel", v), E) = (<<s>> \o (T \o <<t>>)) \o E
  <2>1. Choosing(f, "channel", w, T \o <<z>>, E) = (<<s>> \o (T \o <<t>>)) \o E
    <3>1. IsPlan(T) /\ IsPlan(E) /\ IsStep(z)
      BY <1>0, <1>1
    <3> HIDE DEF z, s, t
    <3>2. Choosing(f, "channel", w, T \o <<z>>, E) =
            (<<JumpRead("channel", w, "lacks", f, Len(T) + 1)>>
              \o (T \o <<Hop(z, Len(E))>>)) \o E
      BY <3>1, ChoosingIs
    <3> QED BY <3>2, Zenon DEF s, t
  <2> QED BY <2>1, Zenon DEF Puts
<1> HIDE DEF z, s
<1>4. JumpOver(t, z, Len(E))
  BY <1>0, <1>1, JumpOverLooks
<1> HIDE DEF t
<1>5. /\ IsStep(t) /\ t.do = "write" /\ t.layer = "channel" /\ t.needs = {} /\ t.sets = {} /\ t.clears = {}
      /\ t.fails = "end" /\ t.after = "none" /\ t.jump = "always" /\ t.skip = Len(E)
      /\ t.when = {} /\ t.unless = {}
  BY <1>1, <1>4 DEF JumpOver, Looks, Fields
<1>6. /\ IsStep(s) /\ s.do = "read" /\ s.layer = "channel" /\ s.needs = {} /\ s.sets = {} /\ s.clears = {}
      /\ s.fails = "end" /\ s.after = "none" /\ s.jump = "lacks" /\ s.skip = Len(T) + 1
  BY <1>2 DEF Jumping
<1>7. FactsLocal(r, s, a, a) /\ FactsLands(s, a, a)
  <2>1. WritesInOrder(s, a) /\ FirmwareApart(s, a) /\ TrafficReady(r, s, a) /\ BaseBandKept(s, a)
    BY <1>6 DEF WritesInOrder, FirmwareApart, TrafficReady, BaseBandKept
  <2>2. NoMoreFacts(FactsAfter(s, FactsThere(s, a)), a) /\ NoMoreFacts(a, a)
    BY <1>6 DEF NoMoreFacts, FactsAfter, FactsThere, Known
  <2>3. NoMoreFacts(FactsAfter(s, FactsMissing(s, a)), a)
    BY <1>6 DEF NoMoreFacts, FactsAfter, FactsMissing, Known
  <2>4. ~GoesOn(s)
    BY <1>6 DEF GoesOn
  <2> QED BY <2>1, <2>2, <2>3, <2>4 DEF FactsLocal, FactsLands
<1>8. FactsLocal(r, t, m, a) /\ FactsLands(t, m, m)
  <2>1. WritesInOrder(t, m) /\ FirmwareApart(t, m) /\ TrafficReady(r, t, m) /\ BaseBandKept(t, m)
    BY <1>5 DEF WritesInOrder, FirmwareApart, TrafficReady, BaseBandKept, Up
  <2>2. NoMoreFacts(FactsAfter(t, FactsMissing(t, m)), m)
    BY <1>5 DEF NoMoreFacts, FactsAfter, FactsMissing, Known
  <2>3. ~GoesOn(t) /\ ~MayBeQuiet(t) /\ Asked(t, r.opts) /\ ~(t.jump # "always")
    BY <1>5 DEF GoesOn, MayBeQuiet, Asked
  <2> QED BY <2>1, <2>2, <2>3 DEF FactsLocal, FactsLands
<1>9. Local(r, s, a, a) /\ Lands(r, s, a, a) /\ Local(r, t, m, a) /\ Lands(r, t, m, m)
  BY <1>7, <1>8 DEF OfFacts, Local, Lands
<1>10. s.jump # "never" /\ t.jump # "never"
  BY <1>5, <1>6
<1>11. Leads(r, (<<s>> \o (T \o <<t>>)) \o E, a, m)
  BY <1>5, <1>6, <1>9, <1>10, ChooseLeads
<1> QED BY <1>3, <1>11, Zenon

LEMMA BandFacts ==
  ASSUME NEW r, OfFacts(r), NEW a, Up("channel", a)
  PROVE  /\ Leads(r, BandRegs, a, a) /\ Leads(r, RfeRegs, a, a) /\ Leads(r, BbSwing, a, a)
         /\ Leads(r, PollTxPacketEmpty, a, a) /\ Leads(r, EnsureOfdmCckTx, a, a)
<1>1. \A w : /\ Leads(r, Puts("channel", w), a, a) /\ Leads(r, Put("channel", w), a, a)
             /\ Leads(r, Poll("channel", w), a, a) /\ Leads(r, Check(w), a, a)
  BY WriteFacts, ReadFacts, HostFacts
<1>2. Leads(r, RfeRegs, a, a)
  BY <1>1, Cat DEF RfeRegs
<1>3. Leads(r, PwedThresholds, a, a) /\ Leads(r, BasicRate, a, a) /\ Leads(r, BbSwing, a, a)
  BY <1>1 DEF PwedThresholds, BasicRate, BbSwing
<1>4. Leads(r, BandRegs, a, a)
  BY <1>1, <1>2, <1>3, Cat6 DEF BandRegs
<1> QED BY <1>1, <1>2, <1>3, <1>4 DEF PollTxPacketEmpty, EnsureOfdmCckTx

LEMMA BandSwitchFacts ==
  ASSUME NEW r, OfFacts(r), NEW a, Up("channel", a)
  PROVE  Leads(r, SwitchWirelessBand, a, Lost(a, {"mark5"}))
<1> DEFINE F == {"mark5"}
           m == Lost(a, F)
           d == Dels(a, F)
           e == Adds(a, F)
<1>1. Up("channel", m) /\ Up("channel", d) /\ Up("channel", e)
  BY UpIs DEF Lost, Dels, Adds, Known, FwUp
<1>2. NoMoreFacts(a, m) /\ NoMoreFacts(d, m) /\ NoMoreFacts(e, m)
  BY DEF NoMoreFacts, Lost, Dels, Adds, Known
<1>3. FirmwareSafe(F, a) 
  BY DEF FirmwareSafe
<1>x. Lost(m, F) = m
  BY DEF Lost, Known
<1> HIDE DEF F, m, d, e
<1>4. ASSUME NEW x \in {a, m, d, e}
      PROVE  /\ Leads(r, BandRegs, x, x) /\ Leads(r, RfeRegs, x, x) /\ Leads(r, BbSwing, x, x)
             /\ Leads(r, PollTxPacketEmpty, x, x)
  BY <1>1, BandFacts
<1>5. Leads(r, Clearing("channel", "CCK_CHECK", F), a, d) /\ Leads(r, Setting("channel", "CCK_CHECK", F), a, e)
  BY <1>3, WriteFacts DEF d, e
<1>6. Leads(r, BandRegs \o Clearing("channel", "CCK_CHECK", F), a, m)
  BY <1>2, <1>4, <1>5, Cat, SameFacts
<1>7. Leads(r, RfeRegs, a, m)
  BY <1>2, <1>4, SameFacts
<1>8. Leads(r, Choosing("mark5", "channel", "CCK_CHECK", SwitchTo2g, RfeRegs), a, m)
  BY <1>1, <1>6, <1>7, ChooseFacts DEF SwitchTo2g, BbSwing, F
<1>9. Leads(r, SwitchTo5g, a, m)
  <2>1. Leads(r, SwitchTo5g, a, e)
    BY <1>4, <1>5, Cat4 DEF SwitchTo5g, F
  <2> QED BY <2>1, <1>2, SameFacts
<1>10. Leads(r, Check("RFE type"), a, m)
  BY <1>2, HostFacts, SameFacts
<1>11. Leads(r, Choosing("mark5", "channel", "CCK_CHECK", RfeRegs, SwitchTo5g), a, m)
  BY <1>1, <1>9, <1>10, ChooseFacts DEF RfeRegs
<1>12. Leads(r, Unless({"5GHz"}, Choosing("mark5", "channel", "CCK_CHECK", SwitchTo2g, RfeRegs)), a, m)
  BY <1>2, <1>8, OptionFacts
<1>13. "5GHz" \in r.opts \/ "5GHz" \notin r.opts
  OBVIOUS
<1>14. IsPlan(Choosing("mark5", "channel", "CCK_CHECK", SwitchTo2g, RfeRegs))
       /\ IsPlan(Choosing("mark5", "channel", "CCK_CHECK", RfeRegs, SwitchTo5g))
  BY <1>8, <1>11 DEF Leads
<1> DEFINE C2 == Choosing("mark5", "channel", "CCK_CHECK", SwitchTo2g, RfeRegs)
           C5 == Choosing("mark5", "channel", "CCK_CHECK", RfeRegs, SwitchTo5g)
<1>15. SwitchWirelessBand = Unless({"5GHz"}, C2) \o When({"5GHz"}, C5)
  BY Zenon DEF SwitchWirelessBand
<1> HIDE DEF C2, C5
<1>16. CASE "5GHz" \in r.opts
  <2>1. Leads(r, Unless({"5GHz"}, C2), a, a) /\ Leads(r, When({"5GHz"}, C5), a, m)
    <3>1. {"5GHz"} \subseteq r.opts /\ {"5GHz"} \cap r.opts # {}
      BY <1>16
    <3> QED BY <3>1, <1>11, <1>14, WhenLeads, UnlessLeads DEF C2, C5
  <2>2. Leads(r, SwitchWirelessBand, a, m)
    BY <2>1, <1>15, Cat
  <2> QED BY <2>2 DEF m, F
<1>17. CASE "5GHz" \notin r.opts
  <2>1. Leads(r, Unless({"5GHz"}, C2), a, m) /\ Leads(r, When({"5GHz"}, C5), m, m)
    <3>1. ~({"5GHz"} \subseteq r.opts) /\ {"5GHz"} \cap r.opts = {}
      BY <1>17
    <3> QED BY <3>1, <1>8, <1>14, WhenLeads, UnlessLeads DEF C2, C5
  <2>2. Leads(r, SwitchWirelessBand, a, m)
    BY <2>1, <1>15, Cat
  <2> QED BY <2>2 DEF m, F
<1> QED BY <1>16, <1>17

LEMMA BandwidthFacts ==
  ASSUME NEW r, OfFacts(r), NEW a, Up("channel", a), Up("rf", a)
  PROVE  Leads(r, Completing({"chan"}, ChannelBandwidth), a, Adds(a, {"chan"}))
<1> DEFINE s == Step("write", "rf", <<"CHNLBW B">>)
           X == Puts("channel", <<"WMAC_TRXPTCL_CTL", "DATA_SC">>) \o Read("channel", "BWIndication+3")
                \o Puts("channel", <<"RFMOD", "ADC_Buf_Clk", "CCAonSec", "L1PeakTH", "CCK_System">>)
                \o RfSerialWrite("CHNLBW A")
<1>1. \A w : /\ Leads(r, Puts("channel", w), a, a) /\ Leads(r, Read("channel", w), a, a)
             /\ Leads(r, RfSerialWrite(w), a, a)
  BY WriteFacts, ReadFacts DEF RfSerialWrite
<1>2. Leads(r, X, a, a)
  BY <1>1, Cat4
<1>3. ChannelBandwidth = X \o <<s>>
  BY Zenon DEF ChannelBandwidth, RfSerialWrite, Put, Puts
<1>4. IsStep(s)
  BY LooksStep DEF Looks
<1>5. Leads(r, Completing({"chan"}, <<s>>), a, Adds(a, {"chan"}))
  <2>1. FirmwareSafe({"chan"}, a)
    BY DEF FirmwareSafe
  <2> QED BY <2>1, WriteFacts DEF Puts
<1> HIDE DEF X, s
<1>6. Completing({"chan"}, <<s>>) = <<[s EXCEPT !.sets = @ \cup {"chan"}]>>
  BY OneChanged
<1>7. Completing({"chan"}, X \o <<s>>) = X \o <<[s EXCEPT !.sets = @ \cup {"chan"}]>>
  BY <1>2, <1>4, CompletingLast DEF Leads
<1>8. Completing({"chan"}, ChannelBandwidth) = X \o Completing({"chan"}, <<s>>)
  BY <1>3, <1>6, <1>7, Zenon
<1> QED BY <1>2, <1>5, <1>8, Cat

LEMMA ChannelFacts ==
  ASSUME NEW r, OfFacts(r), NEW a
  PROVE  Leads(r, ChannelSequence, a, Adds(Lost(Seen(a, RfUp), {"mark5", "agc", "cal"}), {"chan"}))
<1> DEFINE b == Seen(a, RfUp)
           c == Lost(b, {"mark5"})
           d == Adds(c, {"chan"})
           e == Lost(d, {"agc", "cal"})
<1>1. /\ Up("channel", b) /\ Up("channel", c) /\ Up("channel", d)
      /\ Up("rf", c)
  BY UpIs DEF Seen, Lost, Adds, Known, RfUp, FwUp
<1>2. NoMoreFacts(e, Adds(Lost(Seen(a, RfUp), {"mark5", "agc", "cal"}), {"chan"}))
  BY DEF NoMoreFacts, Seen, Lost, Adds, Known
<1>3. NoMoreFacts(d, e) /\ NoMoreFacts(Dels(d, {"agc", "cal"}), e)
  BY DEF NoMoreFacts, Lost, Dels, Known
<1>4. Leads(r, RfPreflight, a, b)
  BY RfPreflightFacts
<1> HIDE DEF b, c, d, e
<1>5. \A w : Leads(r, Check(w), a, a) /\ Leads(r, Check(w), b, b)
  BY HostFacts
<1>6. Leads(r, SwitchWirelessBand, b, c)
  BY <1>1, BandSwitchFacts DEF c
<1>7. \A w : Leads(r, Put("channel", w), c, c) /\ Leads(r, RfSerialWrite(w), c, c)
  BY <1>1, WriteFacts DEF RfSerialWrite
<1>8. Leads(r, EnsureOfdmCckTx, c, c) /\ Leads(r, FixSpur, c, c)
  BY <1>7, EvenOption DEF EnsureOfdmCckTx, FixSpur
<1>9. Leads(r, Completing({"chan"}, ChannelBandwidth), c, d)
  BY <1>1, BandwidthFacts DEF d
<1>10. Leads(r, CapturedTail, d, e)
  <2>1. Leads(r, Clearing("channel", "TxAGC", {"agc", "cal"}), d, e)
    BY <1>1, <1>3, WriteFacts, SameFacts
  <2> QED BY <2>1, <1>3, OptionFacts DEF CapturedTail
<1>11. Leads(r, Check("bandwidth on channel") \o RfPreflight \o Check("RF base data") \o SwitchWirelessBand
                \o EnsureOfdmCckTx \o Put("channel", "Fc_area"), a, c)
  BY <1>4, <1>5, <1>6, <1>7, <1>8, Cat6
<1>12. Leads(r, Check("bandwidth on channel") \o RfPreflight \o Check("RF base data") \o SwitchWirelessBand
                \o EnsureOfdmCckTx \o Put("channel", "Fc_area")
                \o RfSerialWrite("CHNLBW A") \o FixSpur \o RfSerialWrite("CHNLBW A")
                \o RfSerialWrite("CHNLBW B") \o FixSpur, a, c)
  BY <1>11, <1>7, <1>8, Cat6
<1>13. Leads(r, ChannelSequence, a, e)
  BY <1>12, <1>7, <1>9, <1>10, Cat4 DEF ChannelSequence
<1> QED BY <1>2, <1>13, SameFacts

-----------------------------------------------------------------------------
(* Reading the EFUSE grants access and revokes it; nothing else changes. *)
LEMMA EfuseFacts ==
  ASSUME NEW r, OfFacts(r), NEW a
  PROVE  Leads(r, ReadEfusePhysical, a, Dels(a, {"grant"})) /\ Leads(r, ProgramEfuseMacId, a, Dels(a, {"grant"}))
<1> DEFINE b == Adds(a, {"grant"})
           c == Dels(b, {"grant"})
           d == Dels(a, {"grant"})
           s == [Step("write", "efuse", <<"EFUSE_CTRL">>) EXCEPT !.fails = "keep"]
           f == [n \in 1..EfuseBytes |-> EfuseReadByte]
<1>0. \A x : Up("efuse", x) /\ Up("operator", x)
  BY PutsUp
<1>1. NoMoreFacts(c, d) /\ FirmwareSafe({"grant"}, a)
  BY DEF NoMoreFacts, Adds, Dels, Known, FirmwareSafe
<1>2. Looks(s, "write", "efuse", {}, {}, {}, "keep", "none")
  BY LooksStep, LooksWith
<1>3. EfuseReadByte = <<s>>
  BY Zenon DEF EfuseReadByte
<1> HIDE DEF b, c, d, s
<1>4. Leads(r, EfusePowerOn, a, b)
  <2>1. Leads(r, Setting("efuse", "BURN_GNT", {"grant"}), a, b)
    BY <1>0, <1>1, WriteFacts DEF b
  <2>2. Leads(r, Read("efuse", "SYS_ISO_CTRL"), b, b) /\ Leads(r, Puts("efuse", <<"SYS_FUNC_EN", "SYS_CLKR">>), b, b)
    BY <1>0, WriteFacts, ReadFacts
  <2> QED BY <2>1, <2>2, Cat3 DEF EfusePowerOn
<1>5. Leads(r, EfuseReadByte, b, b)
  <2>1. Leads(r, <<s>>, b, Known(((b.on \cup {}) \ {}) \cup {}, (b.off \cup {}) \ {}, (b.new \ {}) \cup {}))
    <3>1. {} \cap {"ram", "fw", "dl"} = {} /\ "efuse" # "bb" /\ "efuse" \notin {"led", "status"} /\ Up("efuse", b)
      BY <1>0
    <3> QED BY <3>1, <1>2, StepFacts
  <2>2. NoMoreFacts(Known(((b.on \cup {}) \ {}) \cup {}, (b.off \cup {}) \ {}, (b.new \ {}) \cup {}), b)
    BY DEF NoMoreFacts, Known
  <2> QED BY <2>1, <2>2, <1>3, SameFacts
<1>6. Leads(r, FlattenSeq([n \in 1..EfuseBytes |-> EfuseReadByte]), b, b)
  <2> DEFINE B == EfuseReadByte
  <2>0. IsPlan(B) /\ Leads(r, B, b, b)
    BY <1>5 DEF Leads
  <2> HIDE DEF B
  <2>1. Blocks([n \in 1..EfuseBytes |-> B], EfuseBytes)
    BY <2>0, DiagStepConstants DEF Blocks
  <2>2. \A n \in 1..EfuseBytes : Leads(r, [m \in 1..EfuseBytes |-> B][n], b, b)
    BY <2>0
  <2>3. Leads(r, FlattenSeq([n \in 1..EfuseBytes |-> B]), b, b)
    BY <2>1, <2>2, FlattenLeads
  <2> QED BY <2>3 DEF B
<1>7. Leads(r, EfusePowerOff, b, c)
  BY DisableFacts DEF EfusePowerOff, c
<1>8. Leads(r, ReadEfusePhysical, a, d)
  <2>1. Leads(r, ReadEfusePhysical, a, c)
    BY <1>4, <1>6, <1>7, Cat3 DEF ReadEfusePhysical
  <2> QED BY <2>1, <1>1, SameFacts
<1>9. Leads(r, ProgramLocalMac, d, d)
  BY <1>0, WriteFacts DEF ProgramLocalMac
<1> QED BY <1>8, <1>9, Cat DEF ProgramEfuseMacId, d

-----------------------------------------------------------------------------
(* Steps that change no fact anybody relies on, and may run after a kept error of the given layer. *)
Marks == {"led", "hssi", "page"}
Mild(s, a, l) ==
  /\ s.do \notin {"in", "out"} /\ s.jump = "never" /\ s.after \in {"none", l}
  /\ s.sets \subseteq Marks /\ s.clears \subseteq Marks
  /\ s.layer = "bb" => Below["bb"] \subseteq a.on /\ l = "bb"
  /\ s.do = "write" => s.layer \notin DOMAIN Below \ {"bb"}
MildPlan(P, a, l) == IsPlan(P) /\ \A i \in 1..Len(P) : Mild(P[i], a, l)
Aside(a) == Marks \cap (a.on \cup a.off \cup a.new) = {}

LEMMA MildLeads ==
  ASSUME NEW r, OfFacts(r), NEW P, NEW a, NEW l, MildPlan(P, a, l), Aside(a)
  PROVE  Leads(r, P, a, a)
<1>1. ASSUME NEW s, Mild(s, a, l) PROVE FactsLocal(r, s, a, a)
  <2>0. s.do \notin {"in", "out"} /\ s.jump = "never" /\ s.sets \subseteq Marks /\ s.clears \subseteq Marks
    BY <1>1 DEF Mild
  <2>1. WritesInOrder(s, a) /\ BaseBandKept(s, a)
    <3>1. Marks \cap Below["bb"] = {} 
      BY BelowIs DEF Marks
    <3> QED BY <3>1, <1>1, BelowIs DEF Mild, WritesInOrder, BaseBandKept
  <2>2. FirmwareApart(s, a) /\ TrafficReady(r, s, a)
    BY <2>0 DEF FirmwareApart, TrafficReady, Marks
  <2>3. /\ NoMoreFacts(FactsAfter(s, FactsThere(s, a)), a) /\ NoMoreFacts(FactsSpoilt(s, a), a) /\ NoMoreFacts(a, a)
    BY <2>0 DEF NoMoreFacts, FactsAfter, FactsThere, FactsSpoilt, Known, Aside
  <2> QED BY <2>1, <2>2, <2>3 DEF FactsLocal
<1>2. \A i \in 1..Len(P) : EvenAt(r, P, a, i)
  BY <1>1 DEF EvenAt, MildPlan, Mild, Local, OfFacts
<1> QED BY <1>2, EvenLeads DEF MildPlan

LEMMA MildCat ==
  ASSUME NEW P, NEW Q, NEW a, NEW l, MildPlan(P, a, l), MildPlan(Q, a, l)
  PROVE  MildPlan(P \o Q, a, l)
<1>1. /\ IsPlan(P \o Q)
      /\ Len(P) \in Nat /\ Len(Q) \in Nat /\ Len(P \o Q) = Len(P) + Len(Q)
      /\ \A i \in 1..Len(P) : (P \o Q)[i] = P[i]
      /\ \A i \in 1..Len(Q) : (P \o Q)[Len(P) + i] = Q[i]
  BY PlanCat DEF MildPlan
<1>2. ASSUME NEW i \in 1..Len(P) + Len(Q) PROVE Mild((P \o Q)[i], a, l)
  <2>1. CASE i <= Len(P)
    <3>1. i \in 1..Len(P)
      BY <2>1, <1>1
    <3> QED BY <3>1, <1>1 DEF MildPlan
  <2>2. CASE ~(i <= Len(P))
    <3>1. i - Len(P) \in 1..Len(Q) /\ i = Len(P) + (i - Len(P))
      BY <2>2, <1>1
    <3>2. (P \o Q)[i] = Q[i - Len(P)]
      BY <3>1, <1>1
    <3> QED BY <3>1, <3>2 DEF MildPlan
  <2> QED BY <2>1, <2>2
<1> QED BY <1>1, <1>2 DEF MildPlan

LEMMA MildRecast ==
  ASSUME NEW P, NEW a, NEW l, MildPlan(P, a, l), NEW Q, Recasts(P, Q)
  PROVE  MildPlan(Q, a, l)
<1>1. ASSUME NEW i \in 1..Len(P) PROVE Mild(Q[i], a, l)
  <2>1. Mild(P[i], a, l) /\ Alike(P[i], Q[i])
    BY DEF MildPlan, Recasts
  <2> QED BY <2>1 DEF Mild, Alike
<1> QED BY <1>1 DEF MildPlan, Recasts

LEMMA MildOption ==
  ASSUME NEW P, NEW a, NEW l, MildPlan(P, a, l), NEW o
  PROVE  MildPlan(When(o, P), a, l) /\ MildPlan(Unless(o, P), a, l) /\ MildPlan(In(o, P), a, l)
BY MildRecast, WhenPlan, UnlessPlan, InPlan DEF MildPlan

LEMMA AfterPlan ==
  ASSUME NEW P, IsPlan(P), NEW l
  PROVE  /\ IsPlan(AllTheSame(l, P)) /\ Len(AllTheSame(l, P)) = Len(P)
         /\ \A i \in 1..Len(P) : Changed(P[i], AllTheSame(l, P)[i], "after", l)
<1> DEFINE F(s) == [s EXCEPT !.after = l]
           Q == AllTheSame(l, P)
<1>0. Len(P) \in Nat
  BY DEF IsPlan
<1>1. Q = [i \in 1..Len(P) |-> F(P[i])]
  BY Zenon DEF AllTheSame, Each
<1>2. \A s : IsStep(s) => Changed(s, F(s), "after", l)
  BY FieldChanged, IsShaped
<1> HIDE DEF F, Q
<1>3. Q \in Seq({F(P[i]) : i \in 1..Len(P)}) /\ Len(Q) = Len(P) /\ \A i \in 1..Len(P) : Q[i] = F(P[i])
  BY <1>0, <1>1
<1>4. ASSUME NEW i \in 1..Len(P) PROVE IsStep(Q[i]) /\ Changed(P[i], Q[i], "after", l)
  <2>1. IsStep(P[i]) /\ Changed(P[i], Q[i], "after", l)
    BY <1>2, <1>3 DEF IsPlan
  <2>2. \A g \in {"layer", "skip", "jump", "fails"} : Q[i][g] = P[i][g]
    BY <2>1 DEF Changed, Fields
  <2>3. IsStep(Q[i])
    BY <2>1, <2>2 DEF IsStep, Changed, Shaped
  <2> QED BY <2>1, <2>3
<1>5. IsPlan(Q)
  BY <1>3, <1>4 DEF IsPlan
<1> QED BY <1>3, <1>4, <1>5 DEF Q

LEMMA MildAfter ==
  ASSUME NEW P, NEW a, NEW l, MildPlan(P, a, l)
  PROVE  MildPlan(AllTheSame(l, P), a, l)
<1> DEFINE Q == AllTheSame(l, P)
<1>1. /\ IsPlan(Q) /\ Len(Q) = Len(P) /\ \A i \in 1..Len(P) : Changed(P[i], Q[i], "after", l)
  BY AfterPlan DEF MildPlan
<1> HIDE DEF Q
<1>2. ASSUME NEW i \in 1..Len(P) PROVE Mild(Q[i], a, l)
  <2>1. Mild(P[i], a, l) /\ Changed(P[i], Q[i], "after", l)
    BY <1>1 DEF MildPlan
  <2> QED BY <2>1 DEF Mild, Changed, Fields
<1>3. MildPlan(Q, a, l)
  BY <1>1, <1>2 DEF MildPlan
<1> QED BY <1>3 DEF Q

LEMMA MildFlatten ==
  ASSUME NEW B, NEW a, NEW l, NEW k \in Nat \ {0}, MildPlan(B, a, l), Aside(a)
  PROVE  \A r : OfFacts(r) => Leads(r, FlattenSeq([n \in 1..k |-> B]), a, a)
<1> SUFFICES ASSUME NEW r, OfFacts(r) PROVE Leads(r, FlattenSeq([n \in 1..k |-> B]), a, a)
  OBVIOUS
<1>1. Leads(r, B, a, a)
  BY MildLeads
<1>2. Blocks([n \in 1..k |-> B], k)
  BY <1>1 DEF Blocks, Leads
<1>3. \A n \in 1..k : Leads(r, [m \in 1..k |-> B][n], a, a)
  BY <1>1
<1> QED BY <1>2, <1>3, FlattenLeads

(* One mild step. *)
LEMMA OneMild ==
  ASSUME NEW s, NEW d, NEW y, NEW n, NEW S, NEW C, NEW f, NEW e, Looks(s, d, y, n, S, C, f, e),
         NEW a, NEW l, d \notin {"in", "out"}, e \in {"none", l}, S \subseteq Marks, C \subseteq Marks,
         y = "bb" => Below["bb"] \subseteq a.on /\ l = "bb",
         d = "write" => y \notin DOMAIN Below \ {"bb"}
  PROVE  MildPlan(<<s>>, a, l)
<1>1. IsStep(s) /\ Mild(s, a, l)
  BY DEF Looks, Mild
<1>2. IsPlan(<<s>>) /\ Len(<<s>>) = 1 /\ <<s>>[1] = s
  BY <1>1, OneStep
<1> QED BY <1>1, <1>2 DEF MildPlan

Elsewhere == {"usb", "power", "firmware", "efuse", "operator", "agc", "led", "status", "host", "traffic"}

LEMMA MildChip ==
  ASSUME NEW y \in Elsewhere \cup {"channel", "bb"}, NEW w, NEW a, NEW l,
         y = "bb" => Below["bb"] \subseteq a.on /\ l = "bb"
  PROVE  /\ MildPlan(Read(y, w), a, l)
         /\ y # "channel" => MildPlan(Puts(y, w), a, l) /\ MildPlan(Put(y, w), a, l)
<1>1. \A v : Looks(Step("read", y, v), "read", y, {}, {}, {}, "end", "none")
             /\ Looks(Step("write", y, v), "write", y, {}, {}, {}, "end", "none")
  BY LooksStep DEF Elsewhere
<1>2. {} \subseteq Marks /\ "none" \in {"none", l} /\ (y # "channel" => y \notin DOMAIN Below \ {"bb"})
      /\ "read" \notin {"in", "out"} /\ "write" \notin {"in", "out"} /\ "read" # "write"
  BY BelowIs DEF Elsewhere
<1>3. \A v : MildPlan(<<Step("read", y, v)>>, a, l)
  BY <1>1, <1>2, OneMild
<1>4. \A v : y # "channel" => MildPlan(<<Step("write", y, v)>>, a, l)
  BY <1>1, <1>2, OneMild
<1> QED BY <1>3, <1>4 DEF Read, Puts, Put

(* Setting or clearing a mark, whatever a failure does. *)
LEMMA MildMark ==
  ASSUME NEW y \in {"led", "status", "bb", "traffic"}, NEW w, NEW F \in SUBSET Marks, NEW a, NEW l,
         y = "bb" => Below["bb"] \subseteq a.on /\ l = "bb",
         NEW how \in {"end", "keep", "drop", "quiet"}, how = "quiet" => y \in {"led", "status"}
  PROVE  /\ MildPlan(Setting(y, w, F), a, l) /\ MildPlan(Failing(how, Setting(y, w, F)), a, l)
         /\ MildPlan(Clearing(y, w, F), a, l) /\ MildPlan(Failing(how, Clearing(y, w, F)), a, l)
         /\ MildPlan(Failing(how, Read(y, w)), a, l)
<1>0. /\ {} \subseteq Marks /\ F \subseteq Marks /\ "none" \in {"none", l} /\ y \notin DOMAIN Below \ {"bb"}
      /\ "read" \notin {"in", "out"} /\ "write" \notin {"in", "out"}
  BY BelowIs
<1>1. ASSUME NEW s, NEW d \in {"read", "write"}, NEW S \in SUBSET Marks, NEW C \in SUBSET Marks,
             Looks(s, d, y, {}, S, C, "end", "none")
      PROVE  MildPlan(<<s>>, a, l) /\ MildPlan(Failing(how, <<s>>), a, l)
  <2>1. Failing(how, <<s>>) = <<[s EXCEPT !.fails = how]>>
    BY OneChanged
  <2>2. Looks([s EXCEPT !.fails = how], d, y, {}, S, C, how, "none")
    BY <1>1, LooksWith
  <2>3. ASSUME NEW t, NEW f, Looks(t, d, y, {}, S, C, f, "none") PROVE MildPlan(<<t>>, a, l)
    BY <1>0, <2>3, OneMild
  <2> QED BY <1>1, <2>1, <2>2, <2>3
<1>2. /\ Looks(Step("read", y, <<w>>), "read", y, {}, {}, {}, "end", "none")
      /\ Looks(Step("write", y, <<w>>), "write", y, {}, {}, {}, "end", "none")
  BY LooksStep
<1>3. /\ Looks([Step("write", y, <<w>>) EXCEPT !.sets = F], "write", y, {}, F, {}, "end", "none")
      /\ Looks([Step("write", y, <<w>>) EXCEPT !.clears = F], "write", y, {}, {}, F, "end", "none")
  BY <1>2, LooksWith
<1>4. MildPlan(Failing(how, Read(y, w)), a, l)
  BY <1>1, <1>2 DEF Read
<1>5. MildPlan(Setting(y, w, F), a, l) /\ MildPlan(Failing(how, Setting(y, w, F)), a, l)
  <2> DEFINE s == [Step("write", y, <<w>>) EXCEPT !.sets = F]
  <2>1. Looks(s, "write", y, {}, F, {}, "end", "none") /\ Setting(y, w, F) = <<s>>
    BY <1>3, Zenon DEF Setting
  <2> HIDE DEF s
  <2>2. MildPlan(<<s>>, a, l) /\ MildPlan(Failing(how, <<s>>), a, l)
    BY <2>1, <1>1
  <2> QED BY <2>1, <2>2
<1>6. MildPlan(Clearing(y, w, F), a, l) /\ MildPlan(Failing(how, Clearing(y, w, F)), a, l)
  <2> DEFINE s == [Step("write", y, <<w>>) EXCEPT !.clears = F]
  <2>1. Looks(s, "write", y, {}, {}, F, "end", "none") /\ Clearing(y, w, F) = <<s>>
    BY <1>3, Zenon DEF Clearing
  <2> HIDE DEF s
  <2>2. MildPlan(<<s>>, a, l) /\ MildPlan(Failing(how, <<s>>), a, l)
    BY <2>1, <1>1
  <2> QED BY <2>1, <2>2
<1> QED BY <1>4, <1>5, <1>6

LEMMA MildLed ==
  ASSUME NEW a, NEW l, NEW on \in BOOLEAN
  PROVE  /\ MildPlan(LedWrite(on), a, l) /\ MildPlan(TxActivityLed(on), a, l) /\ MildPlan(HeartbeatLed(on), a, l)
         /\ MildPlan(TxStatus, a, l)
<1>1. {"led"} \in SUBSET Marks
  BY DEF Marks
<1>2. /\ MildPlan(LedWrite(on), a, l) /\ MildPlan(Failing("quiet", LedWrite(on)), a, l)
      /\ MildPlan(Failing("drop", LedWrite(on)), a, l)
  <2>0. /\ "led" \in {"led", "status", "bb", "traffic"} /\ "led" # "bb"
        /\ "quiet" \in {"end", "keep", "drop", "quiet"} /\ "drop" \in {"end", "keep", "drop", "quiet"}
    OBVIOUS
  <2>1. CASE on
    <3>1. LedWrite(on) = Setting("led", "LEDCFG", {"led"})
      BY <2>1 DEF LedWrite
    <3> QED BY <3>1, <2>0, <1>1, MildMark
  <2>2. CASE ~on
    <3>1. LedWrite(on) = Clearing("led", "LEDCFG", {"led"})
      BY <2>2 DEF LedWrite
    <3> QED BY <3>1, <2>0, <1>1, MildMark
  <2> QED BY <2>1, <2>2
<1>3. MildPlan(Failing("quiet", Read("status", "TX status")), a, l)
  <2>1. {} \in SUBSET Marks
    OBVIOUS
  <2> QED BY <2>1, MildMark
<1> QED BY <1>2, <1>3, MildOption DEF TxActivityLed, HeartbeatLed, TxStatus

LEMMA ProbeMild ==
  ASSUME NEW a, NEW l
  PROVE  MildPlan(RfCalibrationProbe, a, l)
<1>1. \A w : MildPlan(Read("channel", w), a, l)
  <2>1. "channel" # "bb"
    OBVIOUS
  <2> QED BY <2>1, MildChip
<1> QED BY <1>1, MildCat DEF RfCalibrationProbe

(* The read-only diagnostic. *)
LEMMA IqkFacts ==
  ASSUME NEW r, OfFacts(r), NEW a, Up("bb", a), Aside(a)
  PROVE  Leads(r, IqkStandalone, a, a)
<1>0. Below["bb"] \subseteq a.on
  BY BelowIs DEF Up
<1>1. \A w : MildPlan(Read("bb", w), a, "bb")
  BY <1>0, MildChip
<1>2. {"page"} \in SUBSET Marks /\ {"hssi"} \in SUBSET Marks /\ {} \in SUBSET Marks
  BY DEF Marks
<1>3. \A w : \A F \in SUBSET Marks : 
         /\ MildPlan(Setting("bb", w, F), a, "bb") /\ MildPlan(Clearing("bb", w, F), a, "bb")
         /\ MildPlan(Failing("keep", Clearing("bb", w, F)), a, "bb") /\ MildPlan(Failing("keep", Read("bb", w)), a, "bb")
  <2>1. "bb" \in {"led", "status", "bb", "traffic"} /\ "keep" \in {"end", "keep", "drop", "quiet"} /\ "keep" # "quiet"
    OBVIOUS
  <2> QED BY <2>1, <1>0, MildMark
<1>4. MildPlan(PageC1Probe, a, "bb")
  <2> DEFINE A1 == Read("bb", "AGC_table")
             A2 == Setting("bb", "AGC_table", {"page"})
             A3 == Read("bb", "page C1 latches")
             A4 == Clearing("bb", "AGC_table", {"page"})
             A5 == Failing("keep", Read("bb", "AGC_table"))
  <2>1. MildPlan(A1, a, "bb") /\ MildPlan(A2, a, "bb") /\ MildPlan(A3, a, "bb") /\ MildPlan(A4, a, "bb") /\ MildPlan(A5, a, "bb")
    BY <1>1, <1>2, <1>3
  <2> HIDE DEF A1, A2, A3, A4, A5
  <2>2. MildPlan(A1 \o A2 \o A1 \o A3 \o A4 \o A5, a, "bb")
    BY <2>1, MildCat
  <2> QED BY <2>2 DEF PageC1Probe, A1, A2, A3, A4, A5
<1>5. \A w : MildPlan(RfSerialRead(w), a, "bb")
  BY <1>1, <1>2, <1>3, MildCat DEF RfSerialRead
<1>6. MildPlan(IqkStandalone, a, "bb")
  <2> DEFINE B1 == Read("bb", "AFE backup")
             B2 == RfSerialRead("A")
             B3 == RfSerialRead("B")
             B4 == Read("bb", "IQK registers")
             B5 == Failing("keep", Clearing("bb", "HSSIRead", {"hssi"}))
             B6 == Read("bb", "HSSIRead")
             B7 == Read("bb", "MAC/BB backup")
  <2>1. /\ MildPlan(B1, a, "bb") /\ MildPlan(B2, a, "bb") /\ MildPlan(B3, a, "bb") /\ MildPlan(B4, a, "bb") /\ MildPlan(B5, a, "bb")
        /\ MildPlan(B6, a, "bb") /\ MildPlan(B7, a, "bb")
    BY <1>1, <1>2, <1>3, <1>5
  <2> HIDE DEF B1, B2, B3, B4, B5, B6, B7
  <2>2. MildPlan(B1 \o B2 \o B3 \o B4 \o B5 \o B6, a, "bb")
    BY <2>1, MildCat
  <2>3. MildPlan(AllTheSame("bb", B1 \o B2 \o B3 \o B4 \o B5 \o B6), a, "bb")
    BY <2>2, MildAfter
  <2>4. MildPlan(B6 \o B7 \o PageC1Probe \o AllTheSame("bb", B1 \o B2 \o B3 \o B4 \o B5 \o B6), a, "bb")
    BY <2>1, <2>3, <1>4, MildCat
  <2> QED BY <2>4 DEF IqkStandalone, B1, B2, B3, B4, B5, B6, B7
<1> QED BY <1>6, MildLeads

-----------------------------------------------------------------------------
(* Traffic on a chip that is ready for it; TX gain, calibration and scheduler. *)
LEMMA TrafficFacts ==
  ASSUME NEW r, OfFacts(r), NEW a, Ready(r, a), NEW w, NEW how \in {"keep", "drop"}
  PROVE  /\ Leads(r, BulkOut(w), a, a) /\ Leads(r, BulkIn(w), a, a)
         /\ Leads(r, Failing(how, BulkOut(w)), a, a) /\ Leads(r, Failing(how, BulkIn(w)), a, a)
<1>1. ASSUME NEW d \in {"in", "out"}, NEW s, NEW f, Looks(s, d, "traffic", {}, {}, {}, f, "none")
      PROVE  Leads(r, <<s>>, a, a)
  <2>0. /\ s.do = d /\ s.layer = "traffic" /\ s.needs = {} /\ s.sets = {} /\ s.clears = {} /\ s.after = "none"
        /\ s.jump = "never" /\ IsStep(s)
    BY <1>1 DEF Looks
  <2>1. WritesInOrder(s, a) /\ FirmwareApart(s, a) /\ BaseBandKept(s, a)
    BY <2>0 DEF WritesInOrder, FirmwareApart, BaseBandKept
  <2>2. TrafficReady(r, s, a)
    BY <2>0 DEF TrafficReady, Ready
  <2>3. NoMoreFacts(FactsAfter(s, FactsThere(s, a)), a) /\ NoMoreFacts(FactsSpoilt(s, a), a) /\ NoMoreFacts(a, a)
    BY <2>0 DEF NoMoreFacts, FactsAfter, FactsThere, FactsSpoilt, Known
  <2>4. FactsLocal(r, s, a, a)
    BY <2>1, <2>2, <2>3 DEF FactsLocal
  <2> QED BY <2>0, <2>4, OneFacts
<1>2. ASSUME NEW d \in {"in", "out"}, NEW s, Looks(s, d, "traffic", {}, {}, {}, "end", "none")
      PROVE  Leads(r, <<s>>, a, a) /\ Leads(r, Failing(how, <<s>>), a, a)
  <2>1. Failing(how, <<s>>) = <<[s EXCEPT !.fails = how]>>
    BY OneChanged
  <2>2. Looks([s EXCEPT !.fails = how], d, "traffic", {}, {}, {}, how, "none")
    BY <1>2, LooksWith
  <2> QED BY <1>1, <1>2, <2>1, <2>2
<1>3. \A d : Looks(Step(d, "traffic", <<w>>), d, "traffic", {}, {}, {}, "end", "none")
  BY LooksStep
<1> QED BY <1>2, <1>3 DEF BulkOut, BulkIn

LEMMA PowerControlFacts ==
  ASSUME NEW r, OfFacts(r), NEW a
  PROVE  Leads(r, TxPowerControl, a, Adds(a, {"agc"}))
<1>1. FirmwareSafe({"agc"}, a) /\ Up("agc", a) 
  BY PutsUp DEF FirmwareSafe
<1>2. Leads(r, TxPowerSource, a, a)
  BY HostFacts, Cat DEF TxPowerSource
<1>3. Leads(r, Setting("agc", "TxAGC", {"agc"}), a, Adds(a, {"agc"}))
  BY <1>1, WriteFacts
<1> QED BY <1>2, <1>3, Cat DEF TxPowerControl

LEMMA ProfileFacts ==
  ASSUME NEW r, OfFacts(r), NEW a
  PROVE  Leads(r, CalibrationProfile, a, Adds(Dels(a, {"agc"}), {"cal"}))
<1> DEFINE b == Dels(a, {"agc"})
           c == Adds(b, {"cal"})
<1>1. \A x : FirmwareSafe({"cal"}, x) /\ Up("agc", x)
  BY PutsUp DEF FirmwareSafe
<1> HIDE DEF b, c
<1>2. Leads(r, Clearing("agc", "calibration", {"agc"}), a, b) /\ Leads(r, Setting("agc", "calibration", {"cal"}), b, c)
  BY <1>1, WriteFacts DEF b, c
<1>3. Leads(r, Check("calibration ready for TX"), c, c)
  BY HostFacts
<1>4. Leads(r, CalibrationProfile, a, c)
  BY <1>2, <1>3, Cat3 DEF CalibrationProfile
<1> QED BY <1>4 DEF b, c

LEMMA TailFacts ==
  ASSUME NEW r, OfFacts(r), NEW a, FwUp \subseteq a.on
  PROVE  Leads(r, MacTablePlan, a, a) /\ Leads(r, TxSchedulerTail, a, Adds(a, {"tail"}))
<1>1. FirmwareSafe({"tail"}, a) /\ Up("mac", a) 
  BY UpIs DEF FirmwareSafe
<1> QED BY <1>1, WriteFacts DEF MacTablePlan, TxSchedulerTail

-----------------------------------------------------------------------------
(* A command that initializes the chip, layer by layer. *)
Written(F, off) == Known(F, off, F)
Lower == {"cr", "ram", "fw", "llt"}
Middle == Lower \cup {"queue", "mac"}
Upper == Middle \cup {"bbfunc", "bb", "rf"}
Prepared == Written(Initialized, {"dl", "grant"})

LEMMA LowerFacts ==
  ASSUME NEW r, OfFacts(r)
  PROVE  /\ Leads(r, PowerOnSequence, Nothing, Written({"cr"}, {}))
         /\ Leads(r, FirmwareSequence, Written({"cr"}, {}), Written({"cr", "ram", "fw"}, {"dl"}))
         /\ Leads(r, LltSequence, Written({"cr", "ram", "fw"}, {"dl"}), Written(Lower, {"dl"}))
         /\ Leads(r, LltSequence, Written({"cr"}, {}), Written({"cr", "llt"}, {}))
         /\ Leads(r, FirmwareSequence, Written({"cr", "llt"}, {}), Written(Lower, {"dl"}))
         /\ Leads(r, FirmwareAndLlt, Written({"cr"}, {}), Written(Lower, {"dl"}))
<1> DEFINE a == Written({"cr"}, {})
           b == Written({"cr", "ram", "fw"}, {"dl"})
           c == Written({"cr", "llt"}, {})
           d == Written(Lower, {"dl"})
<1> USE DEF Written, Known, NoMoreFacts, Adds, Dels, Seen, Lower
<1>1. /\ NoMoreFacts(Adds(Nothing, {"cr"}), a)
      /\ NoMoreFacts(Adds(Dels(a, {"dl"}), {"ram", "fw"}), b)
  BY DEF Nothing
<1>2. /\ NoMoreFacts(Adds(Seen(b, {"cr"}), {"llt"}), d)
      /\ NoMoreFacts(Adds(Seen(a, {"cr"}), {"llt"}), c)
      /\ NoMoreFacts(Adds(Dels(c, {"dl"}), {"ram", "fw"}), d)
  OBVIOUS
<1> HIDE DEF a, b, c, d
<1> HIDE DEF Written, Known, NoMoreFacts, Adds, Dels, Seen, Lower
<1>3. Leads(r, PowerOnSequence, Nothing, a)
  BY <1>1, PowerFacts, SameFacts
<1>4. Leads(r, FirmwareSequence, a, b) /\ Leads(r, FirmwareSequence, c, d)
  BY <1>1, <1>2, FirmwareFacts, SameFacts
<1>5. Leads(r, LltSequence, b, d) /\ Leads(r, LltSequence, a, c)
  BY <1>2, LltFacts, SameFacts
<1>6. Leads(r, FirmwareSequence \o LltSequence, a, d) /\ Leads(r, LltSequence \o FirmwareSequence, a, d)
  BY <1>4, <1>5, Cat
<1> DEFINE o == {"linux_init_order"}
           P == FirmwareSequence \o LltSequence
           Q == LltSequence \o FirmwareSequence
<1>7. IsPlan(P) /\ IsPlan(Q) /\ Leads(r, P, a, d) /\ Leads(r, Q, a, d)
  BY <1>6 DEF Leads
<1>8. FirmwareAndLlt = Unless(o, P) \o When(o, Q)
  BY Zenon DEF FirmwareAndLlt
<1> HIDE DEF P, Q
<1>9. CASE "linux_init_order" \in r.opts
  <2>1. o \subseteq r.opts /\ o \cap r.opts # {}
    BY <1>9
  <2>2. Leads(r, Unless(o, P), a, a) /\ Leads(r, When(o, Q), a, d)
    BY <2>1, <1>7, WhenLeads, UnlessLeads
  <2>3. Leads(r, FirmwareAndLlt, a, d)
    BY <1>8, <2>2, Cat
  <2> QED BY <1>3, <1>4, <1>5, <2>3 DEF a, b, c, d
<1>10. CASE "linux_init_order" \notin r.opts
  <2>1. ~(o \subseteq r.opts) /\ o \cap r.opts = {}
    BY <1>10
  <2>2. Leads(r, Unless(o, P), a, d) /\ Leads(r, When(o, Q), d, d)
    BY <2>1, <1>7, WhenLeads, UnlessLeads
  <2>3. Leads(r, FirmwareAndLlt, a, d)
    BY <1>8, <2>2, Cat
  <2> QED BY <1>3, <1>4, <1>5, <2>3 DEF a, b, c, d
<1> QED BY <1>9, <1>10

LEMMA UpperFacts ==
  ASSUME NEW r, OfFacts(r)
  PROVE  /\ Leads(r, MacTablePlan, Written(Lower, {"dl"}), Written(Lower, {"dl"}))
         /\ Leads(r, QueueLayout, Written(Lower, {"dl"}), Written(Lower, {"dl"}))
         /\ Leads(r, QueueDmaSequence, Written(Lower, {"dl"}), Written(Lower \cup {"queue"}, {"dl"}))
         /\ Leads(r, MacSequence, Written(Lower \cup {"queue"}, {"dl"}), Written(Middle, {"dl"}))
         /\ Leads(r, ProgramEfuseMacId, Written(Middle, {"dl"}), Written(Middle, {"dl", "grant"}))
         /\ Leads(r, BbSequence, Written(Middle, {"dl", "grant"}), Written(Middle \cup {"bbfunc", "bb"}, {"dl", "grant"}))
         /\ Leads(r, RfSequence, Written(Middle \cup {"bbfunc", "bb"}, {"dl", "grant"}), Written(Upper, {"dl", "grant"}))
         /\ Leads(r, ChannelSequence, Written(Upper, {"dl", "grant"}), Written(Upper \cup {"chan"}, {"dl", "grant"}))
         /\ Leads(r, TxSchedulerTail, Written(Upper \cup {"chan"}, {"dl", "grant"}), Prepared)
         /\ Leads(r, RfCalibrationProbe, Written(Upper, {"dl", "grant"}), Written(Upper, {"dl", "grant"}))
         /\ Leads(r, RfCalibrationProbe, Written(Upper \cup {"chan"}, {"dl", "grant"}), Written(Upper \cup {"chan"}, {"dl", "grant"}))
         /\ Leads(r, RfCalibrationProbe, Prepared, Prepared)
<1> DEFINE G == {"dl", "grant"}
           a == Written(Lower, {"dl"})
           b == Written(Lower \cup {"queue"}, {"dl"})
           c == Written(Middle, {"dl"})
           d == Written(Middle, G)
           e == Written(Middle \cup {"bbfunc", "bb"}, G)
           f == Written(Upper, G)
           g == Written(Upper \cup {"chan"}, G)
<1> USE DEF Written, Known, NoMoreFacts, Adds, Dels, Seen, Lost, Lower, Middle, Upper, FwUp, RfUp
<1>1. FwUp \subseteq a.on /\ FwUp \subseteq g.on
  OBVIOUS
<1>2. NoMoreFacts(Adds(Seen(a, FwUp), {"queue"}), b)
  OBVIOUS
<1>3. NoMoreFacts(Adds(Seen(b, FwUp), {"mac"}), c)
  OBVIOUS
<1>4. NoMoreFacts(Dels(c, {"grant"}), d)
  OBVIOUS
<1>5. NoMoreFacts(Adds(Dels(Seen(d, FwUp), {"agc", "cal", "page"}), {"bbfunc", "bb"}), e)
  OBVIOUS
<1>6. NoMoreFacts(Adds(Seen(e, RfUp), {"rf"}), f)
  OBVIOUS
<1>7. NoMoreFacts(Adds(Lost(Seen(f, RfUp), {"mark5", "agc", "cal"}), {"chan"}), g)
  OBVIOUS
<1>8. NoMoreFacts(Adds(g, {"tail"}), Prepared)
  BY DEF Prepared, Initialized
<1>9. Aside(f) /\ Aside(g) /\ Aside(Prepared)
  BY DEF Prepared, Initialized, Aside, Marks
<1> HIDE DEF a, b, c, d, e, f, g
<1> HIDE DEF Written, Known, NoMoreFacts, Adds, Dels, Seen, Lost, Lower, Middle, Upper, FwUp, RfUp
<1>10. Leads(r, MacTablePlan, a, a) /\ Leads(r, TxSchedulerTail, g, Adds(g, {"tail"}))
  BY <1>1, TailFacts
<1>11. Leads(r, TxSchedulerTail, g, Prepared)
  BY <1>8, <1>10, SameFacts
<1>12. Leads(r, QueueLayout, a, a)
  BY HostFacts DEF QueueLayout
<1>13. Leads(r, QueueDmaSequence, a, b)
  BY <1>2, QueueFacts, SameFacts
<1>14. Leads(r, MacSequence, b, c)
  BY <1>3, MacFacts, SameFacts
<1>15. Leads(r, ProgramEfuseMacId, c, d)
  BY <1>4, EfuseFacts, SameFacts
<1>16. Leads(r, BbSequence, d, e)
  BY <1>5, BbFacts, SameFacts
<1>17. Leads(r, RfSequence, e, f)
  BY <1>6, RfFacts, SameFacts
<1>18. Leads(r, ChannelSequence, f, g)
  BY <1>7, ChannelFacts, SameFacts
<1>19. \A x : Aside(x) => Leads(r, RfCalibrationProbe, x, x)
  BY ProbeMild, MildLeads
<1> QED BY <1>9, <1>10, <1>11, <1>12, <1>13, <1>14, <1>15, <1>16, <1>17, <1>18, <1>19 DEF a, b, c, d, e, f, g

LEMMA SameSessionFacts ==
  ASSUME NEW r, OfFacts(r)
  PROVE  Leads(r, SameSessionInit, Nothing, Prepared)
<1> DEFINE G == {"dl", "grant"}
           z == Written({"cr"}, {})
           a == Written(Lower, {"dl"})
           b == Written(Lower \cup {"queue"}, {"dl"})
           c == Written(Middle, {"dl"})
           d == Written(Middle, G)
           e == Written(Middle \cup {"bbfunc", "bb"}, G)
           f == Written(Upper, G)
           g == Written(Upper \cup {"chan"}, G)
<1>1. Leads(r, PowerOnSequence, Nothing, z) /\ Leads(r, FirmwareAndLlt, z, a)
  BY LowerFacts
<1>2. /\ Leads(r, MacTablePlan, a, a) /\ Leads(r, QueueLayout, a, a) /\ Leads(r, QueueDmaSequence, a, b)
      /\ Leads(r, MacSequence, b, c) /\ Leads(r, ProgramEfuseMacId, c, d) /\ Leads(r, BbSequence, d, e)
      /\ Leads(r, RfSequence, e, f) /\ Leads(r, ChannelSequence, f, g) /\ Leads(r, TxSchedulerTail, g, Prepared)
      /\ Leads(r, RfCalibrationProbe, f, f) /\ Leads(r, RfCalibrationProbe, g, g)
      /\ Leads(r, RfCalibrationProbe, Prepared, Prepared)
  BY UpperFacts
<1> HIDE DEF z, a, b, c, d, e, f, g
<1>3. Leads(r, MacAndRadioPhases, a, f)
  <2>1. Leads(r, MacTablePlan \o QueueLayout \o QueueDmaSequence \o MacSequence \o ProgramEfuseMacId \o BbSequence, a, e)
    BY <1>2, Cat6
  <2> QED BY <2>1, <1>2, Cat DEF MacAndRadioPhases
<1>4. Leads(r, ChannelPhases, f, Prepared)
  BY <1>2, Cat5 DEF ChannelPhases
<1> QED BY <1>1, <1>3, <1>4, Cat4 DEF SameSessionInit

LEMMA ToNothing ==
  ASSUME NEW r, OfFacts(r), NEW P, NEW a, NEW b, Leads(r, P, a, b)
  PROVE  Leads(r, P, a, Nothing)
<1>1. NoMoreFacts(b, Nothing)
  BY DEF NoMoreFacts, Nothing, Known
<1> QED BY <1>1, SameFacts

LEMMA InFacts ==
  ASSUME NEW r, OfFacts(r), NEW P, NEW a, NEW b, NEW h, Leads(r, P, a, b)
  PROVE  Leads(r, In(h, P), a, b)
BY InLeads DEF OfFacts

LEMMA OpenFacts ==
  ASSUME NEW r, OfFacts(r), NEW a
  PROVE  /\ Leads(r, LibusbOpen, a, a) /\ Leads(r, MacosOpen, a, a) /\ Leads(r, OpenTransport, a, a)
         /\ Leads(r, WritesRegisters, a, a) /\ Leads(r, QueueLayout, a, a) /\ Leads(r, BbTables, a, a)
         /\ Leads(r, RfTables, a, a) /\ Leads(r, InitAssets, a, a) /\ Leads(r, ReconfiguresUsb, a, a)
         /\ Leads(r, ProfileAuthorization, a, a)
<1>1. \A w : /\ Leads(r, Checks(w), a, a) /\ Leads(r, Check(w), a, a) /\ Leads(r, Claim(w), a, a)
             /\ Leads(r, Acknowledge(w), a, a) /\ Leads(r, File(w), a, a)
  BY HostFacts
<1>2. Leads(r, LibusbOpen, a, a) /\ Leads(r, MacosOpen, a, a)
  BY <1>1, Cat DEF LibusbOpen, MacosOpen
<1>3. /\ Leads(r, WritesRegisters, a, a) /\ Leads(r, QueueLayout, a, a) /\ Leads(r, BbTables, a, a)
      /\ Leads(r, RfTables, a, a) /\ Leads(r, ReconfiguresUsb, a, a)
  BY <1>1 DEF WritesRegisters, QueueLayout, BbTables, RfTables, ReconfiguresUsb
<1>4. Leads(r, InitAssets, a, a)
  BY <1>1, <1>3, Cat5 DEF InitAssets
<1>5. Leads(r, OpenTransport, a, a)
  BY <1>1, InFacts DEF OpenTransport
<1>6. Leads(r, ProfileAuthorization, a, a)
  BY <1>3, EvenOption DEF ProfileAuthorization
<1> QED BY <1>2, <1>3, <1>4, <1>5, <1>6

LEMMA SmokeFacts1 ==
  ASSUME NEW r, OfFacts(r)
  PROVE  /\ Leads(r, RegSmoke, Nothing, Nothing) /\ Leads(r, MacosRegSmoke, Nothing, Nothing)
         /\ Leads(r, EfuseDump, Nothing, Nothing) /\ Leads(r, MacosEfuseDump, Nothing, Nothing)
         /\ Leads(r, LedSmoke, Nothing, Nothing)
         /\ Leads(r, PowerOnSmoke, Nothing, Nothing) /\ Leads(r, MacosPowerOnSmoke, Nothing, Nothing)
         /\ Leads(r, ExtractFirmware, Nothing, Nothing)
         /\ Leads(r, FirmwareSmoke, Nothing, Nothing) /\ Leads(r, MacosFirmwareSmoke, Nothing, Nothing)
<1> DEFINE z == Nothing
<1>1. /\ Leads(r, LibusbOpen, z, z) /\ Leads(r, MacosOpen, z, z) /\ Leads(r, WritesRegisters, z, z)
  BY OpenFacts
<1>2. \A w : /\ Leads(r, Checks(w), z, z) /\ Leads(r, Check(w), z, z) /\ Leads(r, Acknowledge(w), z, z)
             /\ Leads(r, File(w), z, z) /\ Leads(r, Read("usb", w), z, z)
  BY HostFacts, ReadFacts
<1>3. \A P, a : Leads(r, P, z, a) => Leads(r, P, z, z)
  BY ToNothing
<1>a. Aside(z)
  BY DEF Aside, Nothing, Known
<1> HIDE DEF z
<1>4. Leads(r, RegSmoke, z, z) /\ Leads(r, MacosRegSmoke, z, z)
  BY <1>1, <1>2, Cat DEF RegSmoke, MacosRegSmoke
<1>5. Leads(r, EfuseDump, z, z) /\ Leads(r, MacosEfuseDump, z, z)
  <2>1. Leads(r, EfuseArguments, z, z) /\ Leads(r, EfuseOutput, z, z)
    BY <1>2, Cat DEF EfuseArguments, EfuseOutput
  <2>2. Leads(r, ReadEfusePhysical, z, z)
    BY <1>3, EfuseFacts
  <2> QED BY <2>1, <2>2, <1>1, Cat4 DEF EfuseDump, MacosEfuseDump
<1>6. Leads(r, LedSmoke, z, z)
  <2>1. MildPlan(LedWrite(TRUE), z, "bb") /\ MildPlan(LedWrite(FALSE), z, "bb")
    BY MildLed
  <2>2. Leads(r, LedWrite(TRUE), z, z) /\ Leads(r, LedWrite(FALSE), z, z)
    BY <2>1, <1>a, MildLeads
  <2>3. Leads(r, LedBlink, z, z)
    <3> DEFINE B == LedWrite(TRUE) \o LedWrite(FALSE)
    <3>1. MildPlan(B, z, "bb")
      BY <2>1, MildCat
    <3> HIDE DEF B
    <3>2. Leads(r, FlattenSeq([n \in 1..Repeats |-> B]), z, z)
      BY <3>1, <1>a, DiagStepConstants, MildFlatten
    <3> QED BY <3>2 DEF B, LedBlink
  <2>4. Leads(r, When({"on"}, LedWrite(TRUE)), z, z)
    BY <2>2, EvenOption
  <2>5. Leads(r, Unless({"on"}, When({"off"}, LedWrite(FALSE))), z, z)
    BY <2>2, EvenOption
  <2>6. Leads(r, Unless({"on", "off"}, LedBlink), z, z)
    BY <2>3, EvenOption
  <2> QED BY <2>4, <2>5, <2>6, <1>1, <1>2, Cat6 DEF LedSmoke
<1>7. Leads(r, PowerOnSmoke, z, z) /\ Leads(r, MacosPowerOnSmoke, z, z)
  <2>1. Leads(r, PowerOnSequence, z, z)
    BY <1>3, PowerFacts
  <2> QED BY <2>1, <1>1, Cat3 DEF PowerOnSmoke, MacosPowerOnSmoke
<1>8. Leads(r, ExtractFirmware, z, z)
  BY <1>2, Cat5 DEF ExtractFirmware
<1>9. Leads(r, FirmwareSmoke, z, z) /\ Leads(r, MacosFirmwareSmoke, z, z)
  <2>1. Leads(r, FirmwareSequence, z, z)
    BY <1>3, FirmwareFacts
  <2>2. Leads(r, FirmwareArguments, z, z)
    BY <1>1, <1>2, Cat4 DEF FirmwareArguments
  <2> QED BY <2>1, <2>2, <1>1, Cat3 DEF FirmwareSmoke, MacosFirmwareSmoke
<1> QED BY <1>4, <1>5, <1>6, <1>7, <1>8, <1>9 DEF z

LEMMA SmokeFacts2 ==
  ASSUME NEW r, OfFacts(r)
  PROVE  /\ Leads(r, LltSmoke, Nothing, Nothing) /\ Leads(r, MacosLltSmoke, Nothing, Nothing)
         /\ Leads(r, QueueDmaSmoke, Nothing, Nothing) /\ Leads(r, MacosQueueDmaSmoke, Nothing, Nothing)
         /\ Leads(r, MacSmoke, Nothing, Nothing) /\ Leads(r, MacosMacSmoke, Nothing, Nothing)
         /\ Leads(r, BbSmoke, Nothing, Nothing) /\ Leads(r, MacosBbSmoke, Nothing, Nothing)
         /\ Leads(r, RfSmoke, Nothing, Nothing) /\ Leads(r, MacosRfSmoke, Nothing, Nothing)
         /\ Leads(r, DescriptorSmoke, Nothing, Nothing) /\ Leads(r, InterfaceSmoke, Nothing, Nothing)
<1> DEFINE z == Nothing
<1>1. /\ Leads(r, LibusbOpen, z, z) /\ Leads(r, MacosOpen, z, z) /\ Leads(r, WritesRegisters, z, z)
      /\ Leads(r, QueueLayout, z, z) /\ Leads(r, BbTables, z, z) /\ Leads(r, RfTables, z, z)
      /\ Leads(r, ReconfiguresUsb, z, z)
  BY OpenFacts
<1>2. \A w : Leads(r, Check(w), z, z) /\ Leads(r, Read("usb", w), z, z)
  BY HostFacts, ReadFacts
<1>3. \A P, a : Leads(r, P, z, a) => Leads(r, P, z, z)
  BY ToNothing
<1> HIDE DEF z
<1>4. Leads(r, LltSmoke, z, z) /\ Leads(r, MacosLltSmoke, z, z)
  <2>1. Leads(r, LltSequence, z, z)
    BY <1>3, LltFacts
  <2> QED BY <2>1, <1>1, <1>2, Cat4 DEF LltSmoke, MacosLltSmoke
<1>5. Leads(r, QueueDmaSmoke, z, z) /\ Leads(r, MacosQueueDmaSmoke, z, z)
  <2>1. Leads(r, QueueDmaSequence, z, z)
    BY <1>3, QueueFacts
  <2> QED BY <2>1, <1>1, Cat4 DEF QueueDmaSmoke, MacosQueueDmaSmoke
<1>6. Leads(r, MacSmoke, z, z) /\ Leads(r, MacosMacSmoke, z, z)
  <2>1. Leads(r, MacSequence, z, z)
    BY <1>3, MacFacts
  <2> QED BY <2>1, <1>1, Cat3 DEF MacSmoke, MacosMacSmoke
<1>7. Leads(r, BbSmoke, z, z) /\ Leads(r, MacosBbSmoke, z, z)
  <2>1. Leads(r, BbSequence, z, z)
    BY <1>3, BbFacts
  <2> QED BY <2>1, <1>1, Cat4 DEF BbSmoke, MacosBbSmoke
<1>8. Leads(r, RfSmoke, z, z) /\ Leads(r, MacosRfSmoke, z, z)
  <2>1. Leads(r, RfSequence, z, z)
    BY <1>3, RfFacts
  <2> QED BY <2>1, <1>1, Cat4 DEF RfSmoke, MacosRfSmoke
<1>9. Leads(r, DescriptorSmoke, z, z)
  <2>1. Leads(r, DescriptorReads, z, z)
    BY <1>2, Cat6 DEF DescriptorReads
  <2> QED BY <2>1, <1>1, Cat DEF DescriptorSmoke
<1>10. Leads(r, InterfaceSmoke, z, z)
  BY <1>1, <1>2, Cat4 DEF InterfaceSmoke
<1> QED BY <1>4, <1>5, <1>6, <1>7, <1>8, <1>9, <1>10 DEF z

LEMMA SmokeFacts3 ==
  ASSUME NEW r, OfFacts(r), Ready(r, Nothing)
  PROVE  /\ Leads(r, BulkInSmoke, Nothing, Nothing) /\ Leads(r, BulkOutSmoke, Nothing, Nothing)
         /\ Leads(r, SessionSmoke, Nothing, Nothing)
<1> DEFINE z == Nothing
<1>1. Leads(r, MacosOpen, z, z) /\ Leads(r, ReconfiguresUsb, z, z)
  BY OpenFacts
<1>2. \A w : /\ Leads(r, Check(w), z, z) /\ Leads(r, Read("usb", w), z, z) /\ Leads(r, Acknowledge(w), z, z)
             /\ Leads(r, BulkIn(w), z, z) /\ Leads(r, BulkOut(w), z, z)
  BY HostFacts, ReadFacts, TrafficFacts
<1> HIDE DEF z
<1>3. Leads(r, BulkInSmoke, z, z) /\ Leads(r, BulkOutSmoke, z, z)
  BY <1>1, <1>2, Cat4 DEF BulkInSmoke, BulkOutSmoke
<1>4. Leads(r, SessionTransfers, z, z)
  BY <1>2, Cat3 DEF SessionTransfers
<1>5. Leads(r, SessionSmoke, z, z)
  BY <1>1, <1>2, <1>4, Cat5 DEF SessionSmoke
<1> QED BY <1>3, <1>5 DEF z

(* Traffic and what surrounds it changes nothing. *)
LEMMA FramesFacts ==
  ASSUME NEW r, OfFacts(r), NEW a, Ready(r, a), Aside(a)
  PROVE  /\ Leads(r, Submit, a, a) /\ Leads(r, Submits, a, a) /\ Leads(r, ListenLoop, a, a)
         /\ Leads(r, RxCapture, a, a) /\ Leads(r, BridgeRunLoop, a, a)
         /\ Leads(r, TxStatus, a, a) /\ Leads(r, AllTheSame("traffic", TxStatus), a, a)
         /\ Leads(r, WithIndication(Submit), a, a) /\ Leads(r, WithIndication(Submits), a, a)
<1>1. Leads(r, Submit, a, a)
  BY TrafficFacts DEF Submit
<1>2. ASSUME NEW B, Leads(r, B, a, a) PROVE Leads(r, FlattenSeq([n \in 1..Repeats |-> B]), a, a)
  <2>1. Blocks([n \in 1..Repeats |-> B], Repeats)
    BY <1>2, DiagStepConstants DEF Blocks, Leads
  <2>2. \A n \in 1..Repeats : Leads(r, [m \in 1..Repeats |-> B][n], a, a)
    BY <1>2
  <2> QED BY <2>1, <2>2, FlattenLeads
<1>3. Leads(r, Submits, a, a)
  BY <1>1, <1>2 DEF Submits
<1>4. Leads(r, ListenLoop, a, a)
  <2> DEFINE B == Checks(<<"datagram", "parse", "descriptor">>) \o Submit
  <2>1. Leads(r, B, a, a)
    BY <1>1, HostFacts, Cat
  <2> HIDE DEF B
  <2>2. Leads(r, FlattenSeq([n \in 1..Repeats |-> B]), a, a)
    BY <2>1, <1>2
  <2> QED BY <2>2 DEF ListenLoop, B
<1>5. Leads(r, RxCapture, a, a)
  <2> DEFINE B == BulkIn("bulk IN until the deadline")
  <2>1. Leads(r, B, a, a)
    BY TrafficFacts
  <2> HIDE DEF B
  <2>2. Leads(r, FlattenSeq([n \in 1..Repeats |-> B]), a, a)
    BY <2>1, <1>2
  <2>3. Leads(r, File("pcap, frame log and forwards"), a, a)
    BY HostFacts
  <2> QED BY <2>2, <2>3, Cat DEF RxCapture, B
<1>6. /\ MildPlan(TxActivityLed(TRUE), a, "traffic") /\ MildPlan(TxActivityLed(FALSE), a, "traffic")
      /\ MildPlan(HeartbeatLed(TRUE), a, "traffic") /\ MildPlan(HeartbeatLed(FALSE), a, "traffic")
      /\ MildPlan(TxStatus, a, "traffic")
  BY MildLed
<1>7. /\ MildPlan(AllTheSame("traffic", TxStatus), a, "traffic")
      /\ MildPlan(AllTheSame("traffic", TxStatus \o TxActivityLed(FALSE)), a, "traffic")
      /\ MildPlan(AllTheSame("traffic", HeartbeatLed(FALSE) \o TxStatus), a, "traffic")
  BY <1>6, MildCat, MildAfter
<1>8. \A P : MildPlan(P, a, "traffic") => Leads(r, P, a, a)
  BY MildLeads
<1>9. ASSUME NEW P, Leads(r, P, a, a) PROVE Leads(r, WithIndication(P), a, a)
  BY <1>6, <1>7, <1>8, <1>9, Cat4 DEF WithIndication
<1>10. Leads(r, BridgeRunLoop, a, a)
  <2>1. Leads(r, Failing("keep", BulkIn("bulk IN")), a, a)
    BY TrafficFacts
  <2> QED BY <2>1, <1>1, <1>6, <1>7, <1>8, Cat4 DEF BridgeRunLoop
<1> QED BY <1>1, <1>3, <1>4, <1>5, <1>6, <1>7, <1>8, <1>9, <1>10

(* What a command asks of the chip before traffic. *)
Wants(r) ==
  /\ OfFacts(r) /\ r.on = If(r.opts, "power", "agc") \cup If(r.opts, "profile", "cal")
  /\ r.new \subseteq Initialized \ If(r.opts, "cr", "cr") /\ r.off \subseteq {"dl", "grant"}
Tuned(r, a) == Known(a.on \cup r.on, a.off, a.new)
Untuned(a) == {"agc", "cal"} \cap (a.on \cup a.off \cup a.new) = {}

LEMMA TuningFacts ==
  ASSUME NEW r, Wants(r), NEW a, Untuned(a)
  PROVE  \E b, c : /\ Leads(r, When({"power"}, TxPowerControl), a, b)
                   /\ Leads(r, When({"profile"}, CalibrationProfile), b, c)
                   /\ Leads(r, When({"power", "profile"}, TxPowerControl), c, Tuned(r, a))
<1>0. OfFacts(r)
  BY DEF Wants
<1> DEFINE o == r.opts
           b == Known(a.on \cup If(o, "power", "agc"), a.off, a.new)
           c == IF "profile" \in o THEN Known(a.on \cup {"cal"}, a.off, a.new) ELSE b
<1>p. \A x, y : IsPlan(TxPowerControl) /\ IsPlan(CalibrationProfile)
  BY <1>0, PowerControlFacts, ProfileFacts DEF Leads
<1>1. Leads(r, When({"power"}, TxPowerControl), a, b)
  <2>1. CASE "power" \in o
    <3>1. NoMoreFacts(Adds(a, {"agc"}), b)
      BY <2>1 DEF NoMoreFacts, Adds, Known, If, Untuned
    <3>2. Leads(r, TxPowerControl, a, b)
      BY <3>1, <1>0, PowerControlFacts, SameFacts
    <3>3. {"power"} \subseteq r.opts
      BY <2>1
    <3> QED BY <3>2, <3>3, WhenLeads
  <2>2. CASE "power" \notin o
    <3>1. ~({"power"} \subseteq r.opts) /\ NoMoreFacts(a, b)
      BY <2>2 DEF NoMoreFacts, Known, If
    <3>2. Leads(r, When({"power"}, TxPowerControl), a, a)
      BY <3>1, <1>p, WhenLeads
    <3> QED BY <3>1, <3>2, <1>0, SameFacts
  <2> QED BY <2>1, <2>2
<1>2. Leads(r, When({"profile"}, CalibrationProfile), b, c)
  <2>1. CASE "profile" \in o
    <3>1. NoMoreFacts(Adds(Dels(b, {"agc"}), {"cal"}), c)
      BY <2>1 DEF NoMoreFacts, Adds, Dels, Known, If, Untuned
    <3>2. Leads(r, CalibrationProfile, b, c)
      <4> HIDE DEF b, c
      <4> QED BY <3>1, <1>0, ProfileFacts, SameFacts
    <3>3. {"profile"} \subseteq r.opts
      BY <2>1
    <3> HIDE DEF b, c
    <3> QED BY <3>2, <3>3, WhenLeads
  <2>2. CASE "profile" \notin o
    <3>1. ~({"profile"} \subseteq r.opts) /\ c = b
      BY <2>2
    <3> HIDE DEF b, c
    <3> QED BY <3>1, <1>p, WhenLeads
  <2> QED BY <2>1, <2>2
<1>3. Leads(r, When({"power", "profile"}, TxPowerControl), c, Tuned(r, a))
  <2> DEFINE d == Tuned(r, a)
  <2>0. r.on = If(o, "power", "agc") \cup If(o, "profile", "cal")
    BY DEF Wants
  <2>1. CASE "power" \in o /\ "profile" \in o
    <3>1. NoMoreFacts(Adds(c, {"agc"}), d)
      BY <2>0, <2>1 DEF NoMoreFacts, Adds, Known, If, Untuned, Tuned
    <3>2. Leads(r, TxPowerControl, c, d)
      <4> HIDE DEF c, d
      <4> QED BY <3>1, <1>0, PowerControlFacts, SameFacts
    <3>3. {"power", "profile"} \subseteq r.opts
      BY <2>1
    <3> HIDE DEF c, d
    <3> QED BY <3>2, <3>3, WhenLeads DEF d
  <2>2. CASE ~("power" \in o /\ "profile" \in o)
    <3>1. ~({"power", "profile"} \subseteq r.opts) /\ NoMoreFacts(c, d)
      BY <2>0, <2>2 DEF NoMoreFacts, Known, If, Tuned
    <3> HIDE DEF c, d
    <3>2. Leads(r, When({"power", "profile"}, TxPowerControl), c, c)
      BY <3>1, <1>p, WhenLeads
    <3>3. Leads(r, When({"power", "profile"}, TxPowerControl), c, d)
      BY <3>1, <3>2, <1>0, SameFacts
    <3> QED BY <3>3 DEF d
  <2> QED BY <2>1, <2>2
<1> HIDE DEF b, c
<1> QED BY <1>1, <1>2, <1>3

LEMMA PowerAndProfileFacts ==
  ASSUME NEW r, Wants(r), NEW a, Untuned(a)
  PROVE  Leads(r, PowerAndProfile, a, Tuned(r, a))
<1>0. OfFacts(r)
  BY DEF Wants
<1>1. PICK b, c : /\ Leads(r, When({"power"}, TxPowerControl), a, b)
                  /\ Leads(r, When({"profile"}, CalibrationProfile), b, c)
                  /\ Leads(r, When({"power", "profile"}, TxPowerControl), c, Tuned(r, a))
  BY TuningFacts
<1>2. /\ Leads(r, In("tx_power_control", When({"power"}, TxPowerControl)), a, b)
      /\ Leads(r, In("tx_calibration_profile", When({"profile"}, CalibrationProfile)), b, c)
      /\ Leads(r, In("tx_power_control", When({"power", "profile"}, TxPowerControl)), c, Tuned(r, a))
  BY <1>0, <1>1, InFacts
<1> QED BY <1>2, Cat3 DEF PowerAndProfile

(* An even step under an option and in a phase. *)
LEMMA EvenIn ==
  ASSUME NEW r, OfFacts(r), NEW P, NEW a, NEW o, NEW h, Leads(r, P, a, a)
  PROVE  Leads(r, In(h, When(o, P)), a, a)
BY EvenOption, InFacts

LEMMA OperatorFacts ==
  ASSUME NEW r, OfFacts(r), NEW a
  PROVE  /\ Leads(r, PreTxRfWrite, a, a) /\ Leads(r, PreTxWrites, a, a) /\ Leads(r, PreTxClear, a, a)
         /\ Leads(r, MonitorOpmode, a, a) /\ Leads(r, MonitorReceiveFilter, a, a)
         /\ Leads(r, BenchAddressing, a, a) /\ Leads(r, BenchTrace, a, a) /\ Leads(r, BenchMediaStatus, a, a)
<1>0. \A x : Up("operator", x) /\ Up("firmware", x)
  BY PutsUp
<1>1. \A w : /\ Leads(r, Put("operator", w), a, a) /\ Leads(r, RegisterWrite(w), a, a) /\ Leads(r, Puts("firmware", w), a, a)
             /\ Leads(r, Read("firmware", w), a, a) /\ Leads(r, Check(w), a, a) /\ Leads(r, Checks(w), a, a)
             /\ Leads(r, File(w), a, a)
  BY <1>0, WriteFacts, ReadFacts, HostFacts DEF RegisterWrite
<1>2. /\ Leads(r, RfRegisterWrite, a, a) /\ Leads(r, MonitorOpmode, a, a) /\ Leads(r, MonitorReceiveFilter, a, a)
      /\ Leads(r, ClearTxDmaStatus, a, a) /\ Leads(r, ProgramLocalMac, a, a)
  BY <1>1 DEF RfRegisterWrite, MonitorOpmode, MonitorReceiveFilter, ClearTxDmaStatus, ProgramLocalMac
<1>3. Leads(r, TraceApply, a, a) /\ Leads(r, TraceSequenceApply, a, a) /\ Leads(r, MediaStatusH2c, a, a)
  BY <1>1, Cat3 DEF TraceApply, TraceSequenceApply, MediaStatusH2c
<1>4. Leads(r, RegisterWrite("write8, 16, 32") \o RegisterWrite("rmw32"), a, a)
  BY <1>1, Cat
<1>5. Leads(r, BenchAddressing, a, a)
  BY <1>2, EvenIn, Cat DEF BenchAddressing
<1>6. Leads(r, BenchTrace, a, a)
  BY <1>3, EvenOption, InFacts, Cat DEF BenchTrace
<1> QED BY <1>2, <1>3, <1>4, <1>5, <1>6, EvenIn DEF PreTxRfWrite, PreTxWrites, PreTxClear, BenchMediaStatus

LEMMA InitFacts ==
  ASSUME NEW r, OfFacts(r)
  PROVE  Leads(r, InitLive, Nothing, Nothing)
<1> DEFINE G == {"dl", "grant"}
           n == Nothing
           z == Written({"cr"}, {})
           y == Written({"cr", "ram", "fw"}, {"dl"})
           a == Written(Lower, {"dl"})
           b == Written(Lower \cup {"queue"}, {"dl"})
           c == Written(Middle, {"dl"})
           d == Written(Middle, G)
           e == Written(Middle \cup {"bbfunc", "bb"}, G)
           f == Written(Upper, G)
           g == Written(Upper \cup {"chan"}, G)
<1>1. Leads(r, PowerOnSequence, n, z) /\ Leads(r, FirmwareSequence, z, y) /\ Leads(r, LltSequence, y, a)
  BY LowerFacts
<1>2. /\ Leads(r, QueueLayout, a, a) /\ Leads(r, QueueDmaSequence, a, b)
      /\ Leads(r, MacSequence, b, c) /\ Leads(r, ProgramEfuseMacId, c, d) /\ Leads(r, BbSequence, d, e)
      /\ Leads(r, RfSequence, e, f) /\ Leads(r, ChannelSequence, f, g)
  BY UpperFacts
<1>3. /\ Leads(r, WritesRegisters, n, n) /\ Leads(r, BbTables, n, n) /\ Leads(r, RfTables, n, n)
      /\ Leads(r, OpenTransport, n, n)
  BY OpenFacts
<1>4. \A w : Leads(r, Check(w), n, n) /\ Leads(r, File(w), n, n)
  BY HostFacts
<1> HIDE DEF n, z, y, a, b, c, d, e, f, g
<1>5. Leads(r, InitPreparation, n, n)
  <2>1. Leads(r, Check("channel") \o File("firmware") \o WritesRegisters \o Check("firmware pages"), n, n)
    BY <1>3, <1>4, Cat4
  <2> QED BY <2>1, InFacts DEF InitPreparation
<1>6. Leads(r, InitTablePlan, n, n)
  BY <1>3, Cat, InFacts DEF InitTablePlan
<1>7. Leads(r, InitLowerPhases, n, a)
  <2>1. /\ Leads(r, In("power_on", PowerOnSequence), n, z) /\ Leads(r, In("firmware", FirmwareSequence), z, y)
        /\ Leads(r, In("llt", LltSequence), y, a)
    BY <1>1, InFacts
  <2> QED BY <2>1, Cat3 DEF InitLowerPhases
<1>8. Leads(r, InitMacPhases, a, c)
  <2>1. Leads(r, QueueLayout \o QueueDmaSequence, a, b)
    BY <1>2, Cat
  <2>2. Leads(r, In("queue_dma", QueueLayout \o QueueDmaSequence), a, b) /\ Leads(r, In("mac", MacSequence), b, c)
    BY <2>1, <1>2, InFacts
  <2> QED BY <2>2, Cat DEF InitMacPhases
<1>9. Leads(r, InitUpperPhases, c, g)
  <2>1. /\ Leads(r, In("mac_addr", ProgramEfuseMacId), c, d) /\ Leads(r, In("bb", BbSequence), d, e)
        /\ Leads(r, In("rf", RfSequence), e, f) /\ Leads(r, In("channel", ChannelSequence), f, g)
    BY <1>2, InFacts
  <2> QED BY <2>1, Cat4 DEF InitUpperPhases
<1>10. Leads(r, InitLive, n, g)
  BY <1>3, <1>5, <1>6, <1>7, <1>8, <1>9, Cat6 DEF InitLive
<1> QED BY <1>10, ToNothing DEF n

LEMMA IqkDiagnosticFacts ==
  ASSUME NEW r, OfFacts(r)
  PROVE  Leads(r, IqkDiagnostic, Nothing, Nothing)
<1> DEFINE n == Nothing
           p == Prepared
<1>1. /\ Leads(r, WritesRegisters, n, n) /\ Leads(r, InitAssets, n, n) /\ Leads(r, OpenTransport, n, n)
  BY OpenFacts
<1>2. Leads(r, Check("channel"), n, n)
  BY HostFacts
<1>3. Leads(r, In("init", SameSessionInit), n, p)
  BY SameSessionFacts, InFacts
<1>4. Up("bb", p) /\ Aside(p)
  BY UpIs DEF Prepared, Written, Known, Initialized, FwUp, Aside, Marks
<1> HIDE DEF n, p
<1>5. Leads(r, In("iqk_evidence", IqkStandalone), p, p)
  BY <1>4, IqkFacts, InFacts
<1>6. Leads(r, IqkDiagnostic, n, p)
  BY <1>1, <1>2, <1>3, <1>5, Cat6 DEF IqkDiagnostic
<1> QED BY <1>6, ToNothing DEF n

(* Initialization on request. *)
IfInit(r) == IF "init" \in r.opts THEN Prepared ELSE Nothing
(* ... which is all a command relies on. *)
OnRequest(r) == "init" \notin r.opts => r.new = {} /\ r.off = {}

LEMMA IfInitFacts ==
  ASSUME NEW r, OfFacts(r)
  PROVE  /\ Leads(r, When({"init"}, SameSessionInit), Nothing, IfInit(r))
         /\ Aside(IfInit(r)) /\ Untuned(IfInit(r))
<1>1. Leads(r, SameSessionInit, Nothing, Prepared) /\ IsPlan(SameSessionInit)
  BY SameSessionFacts DEF Leads
<1>2. CASE "init" \in r.opts
  <2>1. {"init"} \subseteq r.opts /\ IfInit(r) = Prepared
    BY <1>2 DEF IfInit
  <2>2. Aside(Prepared) /\ Untuned(Prepared)
    BY DEF Prepared, Written, Known, Initialized, Aside, Marks, Untuned
  <2> QED BY <2>1, <2>2, <1>1, WhenLeads
<1>3. CASE "init" \notin r.opts
  <2>1. ~({"init"} \subseteq r.opts) /\ IfInit(r) = Nothing
    BY <1>3 DEF IfInit
  <2>2. Aside(Nothing) /\ Untuned(Nothing)
    BY DEF Nothing, Known, Aside, Marks, Untuned
  <2> QED BY <2>1, <2>2, <1>1, WhenLeads
<1> QED BY <1>2, <1>3

LEMMA RxScanFacts ==
  ASSUME NEW r, Wants(r), OnRequest(r), r.on = {}
  PROVE  Leads(r, RxScan, Nothing, Nothing)
<1> DEFINE n == Nothing
           b == IfInit(r)
<1>0. OfFacts(r)
  BY DEF Wants
<1>1. /\ Leads(r, WritesRegisters, n, n) /\ Leads(r, InitAssets, n, n) /\ Leads(r, OpenTransport, n, n)
  BY <1>0, OpenFacts
<1>2. \A w : Leads(r, Check(w), n, n) /\ Leads(r, Checks(w), n, n) /\ Leads(r, File(w), b, b)
  BY <1>0, HostFacts
<1>3. Leads(r, When({"init"}, SameSessionInit), n, b) /\ Aside(b)
  BY <1>0, IfInitFacts
<1>4. Ready(r, b)
  <2>1. CASE "init" \in r.opts
    BY <2>1 DEF Ready, IfInit, Prepared, Written, Known, Wants
  <2>2. CASE "init" \notin r.opts
    BY <2>2 DEF Ready, IfInit, Nothing, Known, OnRequest
  <2> QED BY <2>1, <2>2
<1> HIDE DEF n, b
<1>5. Leads(r, RxScanArguments, n, n)
  <2>1. Leads(r, WritesRegisters \o InitAssets, n, n)
    BY <1>1, Cat
  <2>2. Leads(r, When({"monitor"}, WritesRegisters), n, n) /\ Leads(r, When({"init"}, WritesRegisters \o InitAssets), n, n)
    BY <2>1, <1>1, EvenOption
  <2> QED BY <2>2, <1>2, Cat3 DEF RxScanArguments
<1>6. Leads(r, RxOpen, n, n)
  BY <1>1, <1>2, Cat DEF RxOpen
<1>7. Leads(r, In("init_before_rx", When({"init"}, SameSessionInit)), n, b)
  BY <1>0, <1>3, InFacts
<1>8. Leads(r, In("monitor_opmode", When({"monitor"}, MonitorOpmode)), b, b)
  BY <1>0, OperatorFacts, EvenIn
<1>9. Leads(r, In("bulk_in_loop", RxCapture), b, b) /\ Leads(r, In("pcap", File("flush")), b, b)
  BY <1>0, <1>2, <1>3, <1>4, FramesFacts, InFacts
<1>10. Leads(r, RxScan, n, b)
  BY <1>5, <1>6, <1>7, <1>8, <1>9, Cat6 DEF RxScan
<1> QED BY <1>0, <1>10, ToNothing DEF n

LEMMA TxFacts ==
  ASSUME NEW r, OfFacts(r), Ready(r, Nothing)
  PROVE  /\ Leads(r, TxOnce, Nothing, Nothing) /\ Leads(r, TxRepeat, Nothing, Nothing)
         /\ Leads(r, BridgeTxOnce, Nothing, Nothing)
<1> DEFINE n == Nothing
<1>0. Aside(n)
  BY DEF Nothing, Known, Aside
<1>1. Leads(r, OpenTransport, n, n)
  BY OpenFacts
<1>2. \A w : Leads(r, Check(w), n, n) /\ Leads(r, Checks(w), n, n) /\ Leads(r, BulkOut(w), n, n)
  BY HostFacts, TrafficFacts
<1>3. Leads(r, WithIndication(Submit), n, n) /\ Leads(r, WithIndication(Submits), n, n)
  BY <1>0, FramesFacts
<1>4. \A P, h : Leads(r, P, n, n) => Leads(r, In(h, P), n, n)
  BY InFacts
<1> HIDE DEF n
<1>5. Leads(r, TxOpen, n, n) /\ Leads(r, TxArguments, n, n)
  BY <1>1, <1>2, Cat DEF TxOpen, TxArguments
<1>6. Leads(r, TxOnce, n, n)
  BY <1>2, <1>3, <1>4, <1>5, Cat4 DEF TxOnce
<1>7. Leads(r, TxRepeat, n, n)
  <2>1. Leads(r, TxRepeatArguments, n, n)
    BY <1>2, <1>5, Cat DEF TxRepeatArguments
  <2>2. Leads(r, TxRepeatArguments \o Check("descriptor"), n, n)
    BY <2>1, <1>2, Cat
  <2>3. Leads(r, Check("bulk OUT endpoint") \o WithIndication(Submits), n, n)
    BY <1>2, <1>3, Cat
  <2>4. /\ Leads(r, In("repeat_gate", TxRepeatArguments \o Check("descriptor")), n, n)
        /\ Leads(r, In("bulk_out_loop", Check("bulk OUT endpoint") \o WithIndication(Submits)), n, n)
    BY <2>2, <2>3, <1>4
  <2> QED BY <2>4, <1>1, Cat3 DEF TxRepeat
<1>8. Leads(r, BridgeTxOnce, n, n)
  BY <1>2, <1>4, <1>5, Cat4 DEF BridgeTxOnce
<1> QED BY <1>6, <1>7, <1>8 DEF n

(* The registers tuned for a transmission. *)
LEMMA TunedReady ==
  ASSUME NEW r, Wants(r), NEW a, Aside(a), r.new \subseteq a.new, r.off \subseteq a.off
  PROVE  Ready(r, Tuned(r, a)) /\ Aside(Tuned(r, a))
<1>1. r.on \subseteq {"agc", "cal"}
  BY DEF Wants, If
<1> QED BY <1>1 DEF Ready, Tuned, Known, Aside, Marks

LEMMA IfInitReady ==
  ASSUME NEW r, Wants(r), OnRequest(r)
  PROVE  r.new \subseteq IfInit(r).new /\ r.off \subseteq IfInit(r).off
<1>1. CASE "init" \in r.opts
  BY <1>1 DEF IfInit, Prepared, Written, Known, Wants
<1>2. CASE "init" \notin r.opts
  BY <1>2 DEF IfInit, Nothing, Known, OnRequest
<1> QED BY <1>1, <1>2

LEMMA ListenFacts ==
  ASSUME NEW r, Wants(r), OnRequest(r)
  PROVE  Leads(r, BridgeTxListen, Nothing, Nothing)
<1> DEFINE n == Nothing
           b == IfInit(r)
           t == Tuned(r, b)
<1>0. OfFacts(r)
  BY DEF Wants
<1>1. /\ Leads(r, ProfileAuthorization, n, n) /\ Leads(r, InitAssets, n, n) /\ Leads(r, OpenTransport, n, n)
  BY <1>0, OpenFacts
<1>2. \A w : Leads(r, Check(w), n, n) /\ Leads(r, Checks(w), n, n) /\ Leads(r, File(w), t, t)
  BY <1>0, HostFacts
<1>3. Leads(r, When({"init"}, SameSessionInit), n, b) /\ Aside(b) /\ Untuned(b)
  BY <1>0, IfInitFacts
<1>4. Ready(r, t) /\ Aside(t)
  BY <1>3, IfInitReady, TunedReady
<1>5. Leads(r, PowerAndProfile, b, t)
  BY <1>3, PowerAndProfileFacts
<1>6. Leads(r, PreTxRfWrite, b, b) /\ Leads(r, PreTxWrites, b, b) /\ Leads(r, PreTxClear, b, b)
  BY <1>0, OperatorFacts
<1> HIDE DEF n, b, t
<1>7. Leads(r, ListenArguments, n, n)
  <2>1. Leads(r, When({"init"}, InitAssets), n, n)
    BY <1>1, EvenOption
  <2>2. Leads(r, Check("channel") \o ProfileAuthorization \o Checks(<<"max_datagrams", "idle_timeout", "status">>)
                 \o When({"init"}, InitAssets), n, n)
    BY <2>1, <1>1, <1>2, Cat4
  <2> QED BY <2>2, <1>0, InFacts DEF ListenArguments
<1>8. Leads(r, ListenSocket, n, n) /\ Leads(r, TxOpen, n, n)
  BY <1>0, <1>1, <1>2, InFacts, Cat DEF ListenSocket, TxOpen
<1>9. Leads(r, ListenPrepare, n, t)
  <2>1. Leads(r, PreTxInit, n, b)
    BY <1>0, <1>3, InFacts DEF PreTxInit
  <2>2. Leads(r, ListenWrites, n, b)
    BY <2>1, <1>6, Cat4 DEF ListenWrites
  <2>3. Leads(r, PreTxProbe, t, t)
    BY <1>0, <1>4, ProbeMild, MildLeads, EvenIn DEF PreTxProbe
  <2> QED BY <2>2, <2>3, <1>5, Cat3 DEF ListenPrepare
<1>10. /\ Leads(r, TxStatus, t, t) /\ Leads(r, In("bridge_listen", ListenLoop), t, t)
       /\ Leads(r, AllTheSame("traffic", TxStatus), t, t)
  BY <1>0, <1>4, FramesFacts, InFacts
<1>11. Leads(r, ListenArguments \o ListenSocket \o TxOpen \o ListenPrepare, n, t)
  BY <1>7, <1>8, <1>9, Cat4
<1>12. Leads(r, BridgeTxListen, n, t)
  BY <1>2, <1>10, <1>11, Cat5 DEF BridgeTxListen
<1> QED BY <1>0, <1>12, ToNothing DEF n

LEMMA PreparedIs ==
  ASSUME NEW r, Wants(r)
  PROVE  Aside(Prepared) /\ Untuned(Prepared) /\ r.new \subseteq Prepared.new /\ r.off \subseteq Prepared.off
BY DEF Prepared, Written, Known, Initialized, Aside, Marks, Untuned, Wants

LEMMA BridgeRunFacts ==
  ASSUME NEW r, Wants(r)
  PROVE  Leads(r, BridgeRun, Nothing, Nothing) /\ Leads(r, DiagRuntimeFlow, Nothing, Nothing)
<1> DEFINE n == Nothing
           p == Prepared
           t == Tuned(r, p)
<1>0. OfFacts(r)
  BY DEF Wants
<1>1. /\ Leads(r, ProfileAuthorization, n, n) /\ Leads(r, InitAssets, n, n) /\ Leads(r, OpenTransport, n, n)
  BY <1>0, OpenFacts
<1>2. \A w : /\ Leads(r, Check(w), n, n) /\ Leads(r, Checks(w), n, n) /\ Leads(r, Reject(w), n, n)
             /\ Leads(r, File(w), t, t) /\ Leads(r, Check(w), t, t)
  BY <1>0, HostFacts
<1>3. Ready(r, t) /\ Aside(t)
  BY PreparedIs, TunedReady
<1>4. Leads(r, PowerAndProfile, p, t)
  BY PreparedIs, PowerAndProfileFacts
<1>5. Leads(r, In("init_before_tx", SameSessionInit), n, p)
  BY <1>0, SameSessionFacts, InFacts
<1>6. Leads(r, In("monitor_opmode", MonitorReceiveFilter), p, p) /\ Leads(r, PreTxClear, p, p)
  BY <1>0, OperatorFacts, InFacts
<1> HIDE DEF n, p, t
<1>7. Leads(r, BridgeRunArguments, n, n)
  <2>1. Leads(r, Check("channel") \o ProfileAuthorization
                 \o Checks(<<"init_before_tx", "rx_timeout", "tx_burst_limit", "forwards">>) \o InitAssets, n, n)
    BY <1>1, <1>2, Cat4
  <2> QED BY <2>1, <1>0, InFacts DEF BridgeRunArguments
<1>8. Leads(r, BridgeRunSockets, n, n) /\ Leads(r, BridgeRunOpen, n, n)
  BY <1>0, <1>1, <1>2, InFacts, Cat DEF BridgeRunSockets, BridgeRunOpen
<1>9. Leads(r, BridgeRunPrepare, n, t)
  <2>1. Leads(r, BridgeRunInit, n, p)
    BY <1>5, <1>6, Cat3 DEF BridgeRunInit
  <2>2. Leads(r, In("rf_calibration_probe", RfCalibrationProbe), t, t)
    BY <1>0, <1>3, ProbeMild, MildLeads, InFacts
  <2> QED BY <2>1, <2>2, <1>2, <1>4, Cat4 DEF BridgeRunPrepare
<1>10. Leads(r, TxStatus, t, t) /\ Leads(r, In("bridge_run", BridgeRunLoop), t, t)
  BY <1>0, <1>3, FramesFacts, InFacts
<1>11. Leads(r, BridgeRunArguments \o BridgeRunSockets \o BridgeRunOpen \o BridgeRunPrepare, n, t)
  BY <1>7, <1>8, <1>9, Cat4
<1>12. Leads(r, BridgeRun, n, t)
  BY <1>2, <1>10, <1>11, Cat6 DEF BridgeRun
<1>13. Leads(r, RejectDiagnosticOnly, n, n)
  BY <1>2, EvenOption, Cat DEF RejectDiagnosticOnly
<1>14. Leads(r, DiagRuntimeFlow, n, t)
  BY <1>12, <1>13, Cat DEF DiagRuntimeFlow
<1> QED BY <1>0, <1>12, <1>14, ToNothing DEF n

LEMMA RadioRunFacts ==
  ASSUME NEW r, Wants(r)
  PROVE  Leads(r, RadioRun, Nothing, Nothing)
<1> DEFINE G == {"dl", "grant"}
           n == Nothing
           z == Written({"cr"}, {})
           a == Written(Lower, {"dl"})
           b == Written(Lower \cup {"queue"}, {"dl"})
           c == Written(Middle, {"dl"})
           d == Written(Middle, G)
           e == Written(Middle \cup {"bbfunc", "bb"}, G)
           f == Written(Upper, G)
           g == Written(Upper \cup {"chan"}, G)
           p == Prepared
           t == Tuned(r, p)
<1>0. OfFacts(r)
  BY DEF Wants
<1>1. /\ Leads(r, ProfileAuthorization, n, n) /\ Leads(r, InitAssets, n, n)
  BY <1>0, OpenFacts
<1>2. \A w : /\ Leads(r, Checks(w), n, n) /\ Leads(r, Claim(w), n, n) /\ Leads(r, File(w), t, t) /\ Leads(r, Check(w), t, t)
  BY <1>0, HostFacts
<1>3. Leads(r, PowerOnSequence, n, z) /\ Leads(r, FirmwareAndLlt, z, a)
  BY <1>0, LowerFacts
<1>4. /\ Leads(r, MacTablePlan, a, a) /\ Leads(r, QueueLayout, a, a) /\ Leads(r, QueueDmaSequence, a, b)
      /\ Leads(r, MacSequence, b, c) /\ Leads(r, ProgramEfuseMacId, c, d) /\ Leads(r, BbSequence, d, e)
      /\ Leads(r, RfSequence, e, f) /\ Leads(r, ChannelSequence, f, g) /\ Leads(r, TxSchedulerTail, g, p)
  BY <1>0, UpperFacts
<1>5. Ready(r, t) /\ Aside(t) /\ Untuned(p)
  BY PreparedIs, TunedReady
<1>6. PICK x, y : /\ Leads(r, When({"power"}, TxPowerControl), p, x)
                  /\ Leads(r, When({"profile"}, CalibrationProfile), x, y)
                  /\ Leads(r, When({"power", "profile"}, TxPowerControl), y, t)
  BY <1>5, TuningFacts
<1>7. Leads(r, MonitorOpmode, p, p)
  BY <1>0, OperatorFacts
<1>8. Leads(r, Failing("drop", BulkOut("frame")), t, t) /\ Leads(r, BulkIn("bulk IN"), t, t)
  BY <1>0, <1>5, TrafficFacts
<1> HIDE DEF n, z, a, b, c, d, e, f, g, p, t
<1>9. Leads(r, RadioRunArguments, n, n)
  BY <1>1, <1>2, Cat3 DEF RadioRunArguments
<1>10. Leads(r, RadioRunLowerPhases, n, b)
  BY <1>3, <1>4, Cat5 DEF RadioRunLowerPhases
<1>11. Leads(r, RadioRunUpperPhases, b, p)
  BY <1>4, Cat6 DEF RadioRunUpperPhases
<1>12. Leads(r, RadioRunFlow, p, t)
  <2>1. Leads(r, MonitorOpmode \o When({"power"}, TxPowerControl) \o When({"profile"}, CalibrationProfile)
                 \o When({"power", "profile"}, TxPowerControl), p, t)
    BY <1>6, <1>7, Cat4
  <2> QED BY <2>1, <1>2, <1>8, Cat5 DEF RadioRunFlow
<1>13. Leads(r, RadioRun, n, t)
  BY <1>2, <1>9, <1>10, <1>11, <1>12, Cat5 DEF RadioRun
<1> QED BY <1>0, <1>13, ToNothing DEF n

(* The bench may clear the enables it was asked to clear. *)
WithoutCr(r) == LET b == IfInit(r) IN Known(b.on \ If(r.opts, "cr", "cr"), b.off, b.new \ If(r.opts, "cr", "cr"))

LEMMA BenchSchedulerFacts ==
  ASSUME NEW r, OfFacts(r)
  PROVE  Leads(r, BenchScheduler, IfInit(r), WithoutCr(r)) /\ Aside(WithoutCr(r)) /\ Untuned(WithoutCr(r))
<1> DEFINE b == IfInit(r)
           c == WithoutCr(r)
           Q == Clearing("operator", "CR", {"cr"})
<1>0. Aside(b) /\ Untuned(b)
  BY IfInitFacts
<1>1. Aside(c) /\ Untuned(c)
  BY <1>0 DEF WithoutCr, Aside, Untuned, Known, Marks
<1>2. \A x : Up("operator", x)
  BY PutsUp
<1>3. Leads(r, Q, b, Dels(b, {"cr"}))
  <2> HIDE DEF b
  <2> QED BY <1>2, WriteFacts
<1>4. Leads(r, When({"cr"}, Q), b, c)
  <2>1. CASE "cr" \in r.opts
    <3>1. NoMoreFacts(Dels(b, {"cr"}), c) /\ {"cr"} \subseteq r.opts
      BY <2>1 DEF NoMoreFacts, Dels, Known, WithoutCr, If
    <3> HIDE DEF b, c, Q
    <3> QED BY <3>1, <1>3, SameFacts, WhenLeads
  <2>2. CASE "cr" \notin r.opts
    <3>1. NoMoreFacts(b, c) /\ ~({"cr"} \subseteq r.opts)
      BY <2>2 DEF NoMoreFacts, Known, WithoutCr, If
    <3>2. IsPlan(Q)
      BY <1>3 DEF Leads
    <3> HIDE DEF b, c, Q
    <3> QED BY <3>1, <3>2, SameFacts, WhenLeads
  <2> QED BY <2>1, <2>2
<1>5. Leads(r, In("cr_write", When({"cr"}, Q)), b, c)
  BY <1>4, InFacts
<1>6. \A x, w : Leads(r, RegisterWrite(w), x, x)
  BY <1>2, WriteFacts DEF RegisterWrite
<1>7. \A x, h, o, w : Leads(r, In(h, When(o, RegisterWrite(w))), x, x)
  BY <1>6, EvenIn
<1>8. Leads(r, PreTxClear, b, b)
  BY OperatorFacts
<1> HIDE DEF b, c
<1>9. Leads(r, BenchScheduler, b, c)
  BY <1>5, <1>7, <1>8, Cat4 DEF BenchScheduler
<1> QED BY <1>1, <1>9 DEF b, c

LEMMA BenchFacts ==
  ASSUME NEW r, Wants(r), OnRequest(r)
  PROVE  Leads(r, BridgeTxBench, Nothing, Nothing)
<1> DEFINE n == Nothing
           b == IfInit(r)
           c == WithoutCr(r)
           t == Tuned(r, c)
<1>0. OfFacts(r)
  BY DEF Wants
<1>1. /\ Leads(r, ProfileAuthorization, n, n) /\ Leads(r, InitAssets, n, n) /\ Leads(r, OpenTransport, n, n)
  BY <1>0, OpenFacts
<1>2. \A w : Leads(r, Check(w), n, n) /\ Leads(r, Checks(w), n, n)
  BY <1>0, HostFacts
<1>3. Leads(r, When({"init"}, SameSessionInit), n, b)
  BY <1>0, IfInitFacts
<1>4. Leads(r, BenchScheduler, b, c) /\ Aside(c) /\ Untuned(c)
  BY <1>0, BenchSchedulerFacts
<1>5. r.new \subseteq c.new /\ r.off \subseteq c.off
  <2>1. r.new \subseteq IfInit(r).new /\ r.off \subseteq IfInit(r).off
    BY IfInitReady
  <2> QED BY <2>1 DEF WithoutCr, Known, Wants
<1>6. Ready(r, t) /\ Aside(t) /\ Leads(r, PowerAndProfile, c, t)
  BY <1>4, <1>5, TunedReady, PowerAndProfileFacts
<1>7. /\ Leads(r, BenchAddressing, b, b) /\ Leads(r, BenchTrace, c, c) /\ Leads(r, PreTxRfWrite, c, c)
      /\ Leads(r, PreTxWrites, c, c) /\ Leads(r, BenchMediaStatus, t, t)
  BY <1>0, OperatorFacts
<1> HIDE DEF n, b, c, t
<1>8. Leads(r, BenchArguments, n, n)
  <2>1. Leads(r, When({"init"}, InitAssets), n, n)
    BY <1>1, EvenOption
  <2>2. Leads(r, Check("channel") \o ProfileAuthorization
                 \o Checks(<<"count", "payload_len", "marker", "mcs", "status">>) \o When({"init"}, InitAssets), n, n)
    BY <2>1, <1>1, <1>2, Cat4
  <2> QED BY <2>2, <1>0, InFacts DEF BenchArguments
<1>9. Leads(r, BenchParse, n, n) /\ Leads(r, TxOpen, n, n)
  BY <1>0, <1>1, <1>2, InFacts, Cat DEF BenchParse, TxOpen
<1>10. Leads(r, PreTxInit, n, b)
  BY <1>0, <1>3, InFacts DEF PreTxInit
<1>11. Leads(r, BenchPostTx, t, t)
  <2>1. \A w : MildPlan(RegisterWrite(w), t, "traffic")
    <3>1. "operator" \in Elsewhere \cup {"channel", "bb"} /\ "operator" # "bb" /\ "operator" # "channel"
      BY DEF Elsewhere
    <3> QED BY <3>1, MildChip DEF RegisterWrite
  <2>2. MildPlan(PostTxMutations, t, "traffic")
    BY <2>1, MildCat DEF PostTxMutations
  <2>3. MildPlan(In("post_tx_register_write", AllTheSame("traffic", When({"post"}, PostTxMutations))), t, "traffic")
    BY <2>2, MildOption, MildAfter
  <2> QED BY <2>3, <1>0, <1>6, MildLeads DEF BenchPostTx
<1>12. Leads(r, PreTxProbe, t, t)
  BY <1>0, <1>6, ProbeMild, MildLeads, EvenIn DEF PreTxProbe
<1>13. /\ Leads(r, TxStatus, t, t) /\ Leads(r, In("bridge_submit_loop", Submits), t, t)
       /\ Leads(r, AllTheSame("traffic", TxStatus), t, t)
  BY <1>0, <1>6, FramesFacts, InFacts
<1>14. Leads(r, BenchArguments \o BenchParse \o TxOpen \o PreTxInit \o BenchAddressing \o BenchScheduler, n, c)
  BY <1>4, <1>7, <1>8, <1>9, <1>10, Cat6
<1>15. Leads(r, BenchArguments \o BenchParse \o TxOpen \o PreTxInit \o BenchAddressing \o BenchScheduler
                \o BenchTrace \o PreTxRfWrite \o PreTxWrites \o PowerAndProfile \o BenchMediaStatus, n, t)
  BY <1>6, <1>7, <1>14, Cat6
<1>16. Leads(r, BridgeTxBench, n, t)
  BY <1>11, <1>12, <1>13, <1>15, Cat6 DEF BridgeTxBench
<1> QED BY <1>0, <1>16, ToNothing DEF n

(* The options a command is started with are its own, and the probe's. *)
LEMMA OwnOptions ==
  ASSUME NEW c, NEW o \in OptionsOf(c)
  PROVE  o \subseteq Options(c) \cup {"probe"}
<1>1. PICK p \in OptionSets(c) : o = WithProbe(p)
  BY DEF OptionsOf
<1>2. p \subseteq Options(c)
  BY DEF OptionSets
<1> QED BY <1>1, <1>2 DEF WithProbe

LEMMA SomeOptions ==
  ASSUME NEW c
  PROVE  \E o : o \in OptionsOf(c)
<1>1. {} \in OptionSets(c)
  BY DEF OptionSets
<1> QED BY <1>1 DEF OptionsOf

SameSessionCommands == {"bridge_run", "runtime_flow", "radio_run", "rtl8812a_iqk_diagnostic"}

LEMMA SmokeOptions ==
  ASSUME NEW c \in Smokes
  PROVE  Options(c) \subseteq {"on", "off"} /\ c \notin SameSessionCommands
<1>1. /\ c \notin {"init", "rtl8812a_iqk_diagnostic"} /\ c # "rx_scan" /\ c \notin {"tx_once", "tx_repeat"}
      /\ c # "bridge_tx_listen" /\ c \notin {"bridge_run", "runtime_flow"} /\ c # "radio_run"
      /\ c # "bridge_tx_bench" /\ c \notin SameSessionCommands
  BY DEF Smokes, SmokePlans, SameSessionCommands
<1>2. CASE c = "led_smoke"
  <2>1. Options(c) = {"on", "off"}
    BY <1>2, Zenon DEF Options
  <2> QED BY <1>1, <2>1
<1>3. CASE c # "led_smoke"
  <2>1. Options(c) = {}
    BY <1>1, <1>3, Zenon DEF Options
  <2> QED BY <1>1, <2>1
<1> QED BY <1>2, <1>3

LEMMA TxOptions ==
  ASSUME NEW c \in {"tx_once", "tx_repeat", "bridge_tx_once"}
  PROVE  Options(c) \subseteq {"led", "status"} /\ c \notin SameSessionCommands
<1>1. /\ c \notin {"init", "rtl8812a_iqk_diagnostic"} /\ c # "rx_scan" /\ c # "led_smoke"
      /\ c # "bridge_tx_listen" /\ c \notin {"bridge_run", "runtime_flow"} /\ c # "radio_run"
      /\ c # "bridge_tx_bench" /\ c \notin SameSessionCommands
  BY DEF SameSessionCommands
<1>2. CASE c \in {"tx_once", "tx_repeat"}
  <2>1. Options(c) = {"led", "status"}
    BY <1>1, <1>2, Zenon DEF Options
  <2> QED BY <1>1, <2>1
<1>3. CASE c \notin {"tx_once", "tx_repeat"}
  <2>1. Options(c) = {}
    BY <1>1, <1>3, Zenon DEF Options
  <2> QED BY <1>1, <2>1
<1> QED BY <1>2, <1>3

LEMMA ScanOptions == Options("rx_scan") = {"init", "monitor", "5GHz"}
<1>1. /\ "rx_scan" \notin {"init", "rtl8812a_iqk_diagnostic"} /\ "rx_scan" # "led_smoke"
      /\ "rx_scan" \notin {"tx_once", "tx_repeat"}
      /\ "rx_scan" # "bridge_tx_listen" /\ "rx_scan" \notin {"bridge_run", "runtime_flow"} /\ "rx_scan" # "radio_run"
      /\ "rx_scan" # "bridge_tx_bench"
  OBVIOUS
<1> QED BY <1>1, Zenon DEF Options

LEMMA RequestIs ==
  ASSUME NEW c, NEW o
  PROVE  /\ OfFacts(FactsReq(c, o)) /\ Wants(FactsReq(c, o)) /\ FactsReq(c, o).opts = o
         /\ c \notin SameSessionCommands => OnRequest(FactsReq(c, o))
         /\ c \notin SameSessionCommands /\ o \cap {"init", "power", "profile"} = {} => Ready(FactsReq(c, o), Nothing)
         /\ o \cap {"power", "profile"} = {} => FactsReq(c, o).on = {}
<1> DEFINE same == "init" \in o \/ c \in SameSessionCommands
<1>1. /\ FactsReq(c, o).kind = "facts" /\ FactsReq(c, o).opts = o
      /\ FactsReq(c, o).new = IF same THEN Initialized \ If(o, "cr", "cr") ELSE {}
      /\ FactsReq(c, o).off = IF same THEN {"dl", "grant"} ELSE {}
      /\ FactsReq(c, o).on = If(o, "power", "agc") \cup If(o, "profile", "cal")
  BY DEF FactsReq, SameSessionCommands
<1>2. Wants(FactsReq(c, o))
  BY <1>1 DEF Wants, OfFacts, If, Initialized
<1>3. c \notin SameSessionCommands => OnRequest(FactsReq(c, o))
  BY <1>1 DEF OnRequest
<1>4. o \cap {"power", "profile"} = {} => FactsReq(c, o).on = {}
  BY <1>1 DEF If
<1>5. c \notin SameSessionCommands /\ o \cap {"init", "power", "profile"} = {} => Ready(FactsReq(c, o), Nothing)
  BY <1>1, <1>4 DEF Ready, Nothing, Known
<1> QED BY <1>1, <1>2, <1>3, <1>4, <1>5 DEF OfFacts

LEMMA SmokesLead ==
  ASSUME NEW c \in Smokes, NEW o \in OptionsOf(c)
  PROVE  Leads(FactsReq(c, o), SmokePlans[c], Nothing, Nothing)
<1> DEFINE r == FactsReq(c, o)
<1>1. OfFacts(r) /\ Ready(r, Nothing)
  <2>1. o \cap {"init", "power", "profile"} = {}
    BY SmokeOptions, OwnOptions
  <2> QED BY <2>1, SmokeOptions, RequestIs
<1> HIDE DEF r
<1> DEFINE L(P) == Leads(r, P, Nothing, Nothing)
<1>2. /\ L(RegSmoke) /\ L(MacosRegSmoke) /\ L(EfuseDump) /\ L(MacosEfuseDump) /\ L(LedSmoke)
      /\ L(PowerOnSmoke) /\ L(MacosPowerOnSmoke) /\ L(ExtractFirmware) /\ L(FirmwareSmoke) /\ L(MacosFirmwareSmoke)
  BY <1>1, SmokeFacts1
<1>3. /\ L(LltSmoke) /\ L(MacosLltSmoke) /\ L(QueueDmaSmoke) /\ L(MacosQueueDmaSmoke)
      /\ L(MacSmoke) /\ L(MacosMacSmoke) /\ L(BbSmoke) /\ L(MacosBbSmoke) /\ L(RfSmoke) /\ L(MacosRfSmoke)
      /\ L(DescriptorSmoke) /\ L(InterfaceSmoke)
  BY <1>1, SmokeFacts2
<1>4. L(BulkInSmoke) /\ L(BulkOutSmoke) /\ L(SessionSmoke)
  BY <1>1, SmokeFacts3
<1> HIDE DEF L
<1>5. L(SmokePlans[c])
  BY <1>2, <1>3, <1>4 DEF Smokes, SmokePlans
<1> QED BY <1>5 DEF L, r

LEMMA RadiosLead ==
  ASSUME NEW c \in DOMAIN RadioPlans, NEW o \in OptionsOf(c)
  PROVE  Leads(FactsReq(c, o), RadioPlans[c], Nothing, Nothing)
<1> DEFINE r == FactsReq(c, o)
<1>1. OfFacts(r) /\ Wants(r) /\ (c \notin SameSessionCommands => OnRequest(r))
  BY RequestIs
<1>2. CASE c = "init"
  BY <1>1, <1>2, InitFacts DEF RadioPlans
<1>3. CASE c = "rtl8812a_iqk_diagnostic"
  BY <1>1, <1>3, IqkDiagnosticFacts DEF RadioPlans
<1>4. CASE c = "rx_scan"
  <2>1. o \cap {"power", "profile"} = {}
    BY <1>4, ScanOptions, OwnOptions
  <2>2. r.on = {} /\ OnRequest(r)
    BY <2>1, <1>1, <1>4, RequestIs DEF SameSessionCommands
  <2>3. Leads(r, RxScan, Nothing, Nothing)
    BY <1>1, <2>2, RxScanFacts
  <2> QED BY <1>4, <2>3 DEF RadioPlans
<1>5. CASE c \in {"tx_once", "tx_repeat", "bridge_tx_once"}
  <2>1. o \cap {"init", "power", "profile"} = {}
    BY <1>5, TxOptions, OwnOptions
  <2>2. Ready(r, Nothing)
    BY <2>1, <1>5, TxOptions, RequestIs
  <2>3. /\ Leads(r, TxOnce, Nothing, Nothing) /\ Leads(r, TxRepeat, Nothing, Nothing)
        /\ Leads(r, BridgeTxOnce, Nothing, Nothing)
    BY <1>1, <2>2, TxFacts
  <2> QED BY <1>5, <2>3 DEF RadioPlans
<1>6. CASE c = "bridge_tx_listen"
  BY <1>1, <1>6, ListenFacts DEF RadioPlans, SameSessionCommands
<1>7. CASE c \in {"bridge_run", "runtime_flow"}
  BY <1>1, <1>7, BridgeRunFacts DEF RadioPlans
<1>8. CASE c = "radio_run"
  BY <1>1, <1>8, RadioRunFacts DEF RadioPlans
<1>9. CASE c = "bridge_tx_bench"
  BY <1>1, <1>9, BenchFacts DEF RadioPlans, SameSessionCommands
<1> QED BY <1>2, <1>3, <1>4, <1>5, <1>6, <1>7, <1>8, <1>9 DEF RadioPlans

LEMMA PlansLead == FactsOfPlans /\ AllPlans
<1>1. ASSUME NEW c \in DOMAIN Plans, NEW o \in OptionsOf(c)
      PROVE  Leads(FactsReq(c, o), Plans[c], Nothing, Nothing)
  <2>1. CASE c \in Smokes
    <3>1. Plans[c] = SmokePlans[c]
      BY <2>1 DEF Plans
    <3> QED BY <3>1, <2>1, SmokesLead
  <2>2. CASE c \notin Smokes
    <3>1. Plans[c] = RadioPlans[c] /\ c \in DOMAIN RadioPlans
      BY <2>2 DEF Plans
    <3> QED BY <3>1, RadiosLead
  <2> QED BY <2>1, <2>2
<1>2. FactsOfPlans
  BY <1>1 DEF FactsOfPlans
<1>3. ASSUME NEW c \in DOMAIN Plans PROVE IsPlan(Plans[c])
  BY <1>1, SomeOptions DEF Leads
<1> QED BY <1>2, <1>3 DEF AllPlans

LEMMA StageAndFacts == Spec => [](Stage /\ FactsInv)
<1>1. Init => Stage /\ FactsInv
  BY StageInit, FactsInit
<1>2. Stage /\ FactsInv /\ [Next]_vars => (Stage /\ FactsInv)'
  BY PlansLead, StageStep, FactsStep
<1> QED BY <1>1, <1>2, PTL DEF Spec

(* For every number of attempts, bytes, frames, commands and faults: no command  *)
(* writes the registers of a layer while a layer below is down, whatever chip    *)
(* the commands before it left, and firmware is never ready while its download   *)
(* mode is open.                                                                 *)
THEOREM LayersUp == Spec => []LayersInOrder
<1>1. Stage /\ FactsInv => LayersInOrder
  BY PlansLead, FactsGive
<1> QED BY <1>1, StageAndFacts, PTL

(* For every number of attempts, bytes, frames, commands and faults: every bulk   *)
(* transfer of a command that initializes the chip meets every layer written by  *)
(* this command, the download mode closed, EFUSE access revoked, and the TX gain *)
(* and the calibration profile that were asked for.                              *)
THEOREM TrafficPrepared == Spec => []TrafficOnPreparedChip
<1>1. Stage /\ FactsInv => TrafficOnPreparedChip
  BY PlansLead, FactsGive
<1> QED BY <1>1, StageAndFacts, PTL

-----------------------------------------------------------------------------
(* Acknowledgements: what a command asks of them, and plans that come to no harm after. *)
GuardedCommand(c, o) ==
  \/ c \in Smokes \ {"reg_smoke", "macos_reg_smoke", "macos_descriptor_smoke", "extract_firmware"}
  \/ c \in {"init", "rtl8812a_iqk_diagnostic"}
  \/ c = "rx_scan" /\ o \cap {"init", "monitor"} # {}
SubmitsBulkOut == "i_understand_this_submits_bulk_out"
AcksReq(c, o) ==
  [kind |-> "acks", opts |-> o, guarded |-> GuardedCommand(c, o),
   claim |-> If(o, "profile", Registers), out |-> IF c \in Smokes THEN {SubmitsBulkOut} ELSE {}]
OfAcks(r) == r.kind = "acks"

Tame(r, s) == s.do \notin {"claim", "ack"} /\ (s.do = "out" => r.out = {})

(* Up to step k the flags are gathered, from there on nothing asks for more. *)
Guards(r, P, A, k) ==
  /\ k \in 0..Len(P) /\ A[1] = {}
  /\ \A i \in 1..k : AcksLocal(r, P[i], A[i], A[i + 1])
  /\ \A i \in (k + 1)..Len(P) : Tame(r, P[i]) /\ A[i + 1] = A[k + 1]
GuardedPlan(r, P) == \E A, k : Guards(r, P, A, k)
AcksOfPlans == \A c \in DOMAIN Plans : \A o \in OptionsOf(c) : GuardedPlan(AcksReq(c, o), Plans[c])

(* The inductive invariant of AcknowledgementFirst. *)
AcksInv ==
  /\ held => cmd # "none" /\ AcksReq(cmd, opts).claim \subseteq acked /\ (AcksReq(cmd, opts).guarded => acked # {})
  /\ pc # 0 => \E A, k : Guards(AcksReq(cmd, opts), Plans[cmd], A, k) /\ (kept = "none" => A[pc] \subseteq acked)

LEMMA SameFlags ==
  ASSUME NEW r, NEW P, IsPlan(P), NEW A, NEW k, Guards(r, P, A, k)
  PROVE  \A i \in (k + 1)..(Len(P) + 1) : A[i] = A[k + 1]
<1> SUFFICES ASSUME NEW i \in (k + 1)..(Len(P) + 1) PROVE A[i] = A[k + 1]
  OBVIOUS
<1>0. Len(P) \in Nat /\ k \in 0..Len(P)
  BY DEF IsPlan, Guards
<1>1. CASE i = k + 1
  BY <1>1
<1>2. CASE i # k + 1
  <2>1. i - 1 \in (k + 1)..Len(P) /\ (i - 1) + 1 = i
    BY <1>0, <1>2
  <2> QED BY <2>1 DEF Guards
<1> QED BY <1>1, <1>2

LEMMA AcksProceed ==
  ASSUME NEW r, NEW P, IsPlan(P), NEW A, NEW k, Guards(r, P, A, k),
         NEW p \in Nat, Proceed(P, r.opts, kept', quiet', p), p > Len(P) \/ (kept' = "none" => A[p + 1] \subseteq acked'),
         quiet' \subseteq {"led", "status"}
  PROVE  pc' # 0 /\ kept' = "none" => A[pc'] \subseteq acked'
<1>0. Len(P) \in Nat /\ k \in 0..Len(P)
  BY DEF IsPlan, Guards
<1> DEFINE T == {n \in Nat : kept' = "none" => A[n] \subseteq acked'}
<1>1. CASE p > Len(P)
  <2>1. \A x : x \notin (p + 1)..Len(P)
    BY <1>0, <1>1
  <2>2. pc' = 0
    BY <2>1, ProceedsTo
  <2> QED BY <2>2
<1>2. CASE ~(p > Len(P))
  <2>1. p \in 0..Len(P) /\ p + 1 \in T
    BY <1>0, <1>2
  <2>2. ASSUME NEW n \in (p + 1)..Len(P), n \in T, ~Runs(P[n], r.opts, kept', quiet') PROVE n + 1 \in T
    <3>0. n + 1 \in Nat /\ n \in Nat
      BY <1>0, <2>1
    <3> SUFFICES ASSUME kept' = "none" PROVE A[n + 1] \subseteq acked'
      BY <3>0
    <3>1. A[n] \subseteq acked'
      BY <2>2
    <3>2. CASE n <= k
      <4>1. AcksLocal(r, P[n], A[n], A[n + 1])
        BY <3>2, <1>0, <2>1 DEF Guards
      <4>2. ~Asked(P[n], r.opts) \/ P[n].layer \in {"led", "status"}
        BY <2>2 DEF Runs, Asked
      <4> QED BY <3>1, <4>1, <4>2 DEF AcksLocal
    <3>3. CASE ~(n <= k)
      <4>1. n \in (k + 1)..(Len(P) + 1) /\ n + 1 \in (k + 1)..(Len(P) + 1)
        BY <3>3, <1>0, <2>1
      <4>2. \A i \in (k + 1)..(Len(P) + 1) : A[i] = A[k + 1]
        BY SameFlags
      <4>3. A[n] = A[k + 1] /\ A[n + 1] = A[k + 1]
        BY <4>1, <4>2, Zenon
      <4> QED BY <3>1, <4>2, <4>3
    <3> QED BY <3>2, <3>3
  <2> HIDE DEF T
  <2>3. \/ pc' = 0
        \/ pc' \in T
    BY <2>1, <2>2, Chain
  <2> QED BY <2>3 DEF T
<1> QED BY <1>1, <1>2

LEMMA AcksStart ==
  ASSUME AcksOfPlans, AllPlans, Stage, AcksInv, Start PROVE AcksInv'
<1>0. PICK c \in DOMAIN Plans : \E o \in OptionSets(c) :
         cmd' = c /\ opts' = WithProbe(o) /\ Proceed(Plans[c], WithProbe(o), "none", {}, 0)
  BY Zenon DEF Start
<1>1. PICK o \in OptionSets(c) :
         cmd' = c /\ opts' = WithProbe(o) /\ Proceed(Plans[c], WithProbe(o), "none", {}, 0)
  BY <1>0
<1>2. /\ kept' = "none" /\ quiet' = {} /\ held' = FALSE
      /\ opts' \in OptionsOf(c) /\ IsPlan(Plans[c])
  BY <1>1 DEF Start, Stage, Idle, OptionsOf, AllPlans
<1>3. PICK A, k : Guards(AcksReq(c, opts'), Plans[c], A, k)
  BY <1>2 DEF AcksOfPlans, GuardedPlan
<1>4. A[0 + 1] \subseteq acked' /\ AcksReq(c, opts').opts = opts'
  BY <1>3 DEF Guards, AcksReq
<1>5. pc' # 0 /\ kept' = "none" => A[pc'] \subseteq acked'
  <2>1. Proceed(Plans[c], AcksReq(c, opts').opts, kept', quiet', 0)
    BY <1>1, <1>2, <1>4
  <2>2. 0 \in Nat /\ quiet' \subseteq {"led", "status"}
    BY <1>2
  <2> QED BY <1>2, <1>3, <1>4, <2>1, <2>2, AcksProceed
<1>6. cmd' = c
  BY <1>1
<1> QED BY <1>2, <1>3, <1>5, <1>6 DEF AcksInv

LEMMA AcksSucceed ==
  ASSUME AllPlans, Stage, AcksInv, Succeed PROVE AcksInv'
<1> DEFINE P == Plans[cmd]
           r == AcksReq(cmd, opts)
<1>1. pc # 0
  BY DEF Succeed
<1>2. /\ IsPlan(P) /\ Len(P) \in Nat /\ pc \in 1..Len(P) /\ at = P[pc] /\ IsStep(at) /\ cmd # "none"
      /\ Runs(at, opts, kept, quiet)
  BY <1>1, StepAtHand
<1>3. PICK A, k : Guards(r, P, A, k) /\ (kept = "none" => A[pc] \subseteq acked)
  BY <1>1 DEF AcksInv
<1>4. /\ acked' = IF at.do = "ack" THEN acked \cup Range(at.what) ELSE acked
      /\ held' = (held \/ at.do = "claim")
      /\ UNCHANGED <<cmd, opts, kept, quiet>>
      /\ Proceed(P, opts, kept, quiet, IF Jumps THEN pc + at.skip ELSE pc)
  BY Zenon DEF Succeed
<1>5. r.opts = opts /\ k \in 0..Len(P) /\ at.skip \in Nat /\ Asked(at, opts)
  BY <1>2, <1>3 DEF AcksReq, Guards, IsStep, Runs, Asked
<1>6. pc <= k => AcksLocal(r, at, A[pc], A[pc + 1])
  BY <1>2, <1>3, <1>5 DEF Guards
<1>7. ~(pc <= k) => Tame(r, at)
  BY <1>2, <1>3, <1>5 DEF Guards
<1> HIDE DEF r, P
<1>8. held' => cmd' # "none" /\ r.claim \subseteq acked' /\ (r.guarded => acked' # {})
  <2>1. CASE held
    BY <2>1, <1>2, <1>4 DEF AcksInv, r
  <2>2. CASE ~held /\ at.do = "claim"
    <3>1. pc <= k
      BY <2>2, <1>7 DEF Tame
    <3>2. at.after = "none" /\ r.claim \subseteq A[pc] /\ (r.guarded => A[pc] # {})
      BY <3>1, <2>2, <1>5, <1>6 DEF AcksLocal
    <3>3. kept = "none"
      BY <3>2, <1>2 DEF Runs
    <3> QED BY <3>2, <3>3, <1>2, <1>3, <1>4
  <2> QED BY <2>1, <2>2, <1>4
<1>9. pc' # 0 /\ kept' = "none" => A[pc'] \subseteq acked'
  <2>0. quiet' \subseteq {"led", "status"}
    BY <1>4 DEF Stage
  <2>1. CASE pc <= k
    <3>1. at.jump = "never" /\ A[pc + 1] \subseteq A[pc] \cup (IF at.do = "ack" THEN Range(at.what) ELSE {})
      BY <2>1, <1>5, <1>6 DEF AcksLocal
    <3>2. Proceed(P, r.opts, kept', quiet', pc)
      BY <3>1, <1>4, <1>5 DEF Jumps
    <3>3. pc \in Nat /\ (kept' = "none" => A[pc + 1] \subseteq acked')
      BY <3>1, <1>2, <1>3, <1>4
    <3> QED BY <2>0, <3>2, <3>3, <1>2, <1>3, AcksProceed
  <2>2. CASE ~(pc <= k)
    <3>1. /\ pc \in (k + 1)..(Len(P) + 1) /\ pc + 1 \in (k + 1)..(Len(P) + 1) /\ pc \in Nat
          /\ pc + at.skip \in Nat
          /\ ~(pc + at.skip > Len(P)) => (pc + at.skip) + 1 \in (k + 1)..(Len(P) + 1)
      BY <2>2, <1>2, <1>5
    <3>2. /\ kept' = "none" => A[pc + 1] \subseteq acked'
          /\ ~(pc + at.skip > Len(P)) => (kept' = "none" => A[(pc + at.skip) + 1] \subseteq acked')
      <4>g. IsPlan(P) /\ Guards(r, P, A, k)
        BY <1>2, <1>3
      <4>0. \A i \in (k + 1)..(Len(P) + 1) : A[i] = A[k + 1]
        BY <4>g, SameFlags
      <4>1. A[pc] = A[k + 1] /\ A[pc + 1] = A[k + 1]
        BY <3>1, <4>0, Zenon
      <4>2. ~(pc + at.skip > Len(P)) => A[(pc + at.skip) + 1] = A[k + 1]
        BY <3>1, <4>0, Zenon
      <4>3. kept' = "none" => A[pc] \subseteq acked'
        BY <1>3, <1>4
      <4> QED BY <4>1, <4>2, <4>3
    <3>3. CASE Jumps
      <4>1. Proceed(P, r.opts, kept', quiet', pc + at.skip)
        BY <3>3, <1>4, <1>5
      <4> HIDE DEF Jumps
      <4> QED BY <2>0, <3>1, <3>2, <4>1, <1>2, <1>3, AcksProceed
    <3>4. CASE ~Jumps
      <4>1. Proceed(P, r.opts, kept', quiet', pc)
        BY <3>4, <1>4, <1>5
      <4> QED BY <2>0, <3>1, <3>2, <4>1, <1>2, <1>3, AcksProceed
    <3> QED BY <3>3, <3>4
  <2> QED BY <2>1, <2>2
<1>10. AcksReq(cmd', opts') = r /\ Guards(AcksReq(cmd', opts'), Plans[cmd'], A, k)
  BY <1>3, <1>4 DEF r, P
<1> QED BY <1>8, <1>9, <1>10 DEF AcksInv

LEMMA AcksFail ==
  ASSUME AllPlans, Stage, AcksInv, Fail PROVE AcksInv'
<1> DEFINE P == Plans[cmd]
           r == AcksReq(cmd, opts)
<1>1. pc # 0
  BY DEF Fail
<1>2. /\ IsPlan(P) /\ Len(P) \in Nat /\ pc \in 1..Len(P) /\ at = P[pc] /\ IsStep(at) /\ cmd # "none"
      /\ Runs(at, opts, kept, quiet) /\ at.layer # "none"
  BY <1>1, StepAtHand DEF IsStep
<1>3. PICK A, k : Guards(r, P, A, k) /\ (kept = "none" => A[pc] \subseteq acked)
  BY <1>1 DEF AcksInv
<1>4. /\ UNCHANGED <<cmd, opts, acked, held>> /\ HowItFails
      /\ at.fails = "end" => pc' = 0
      /\ at.fails # "end" => Proceed(P, opts, kept', quiet', pc)
  BY Zenon DEF Fail
<1>5. r.opts = opts /\ k \in 0..Len(P) /\ Asked(at, opts)
  BY <1>2, <1>3 DEF AcksReq, Guards, Runs, Asked
<1>6. pc <= k => AcksLocal(r, at, A[pc], A[pc + 1])
  BY <1>2, <1>3, <1>5 DEF Guards
<1>7. /\ quiet' \subseteq {"led", "status"}
      /\ at.fails # "end" /\ kept' = "none" => kept = "none"
  <2>1. \/ at.fails = "end" /\ kept' = kept /\ quiet' = quiet
        \/ at.fails = "keep" /\ quiet' = quiet /\ kept' = IF kept = "none" THEN at.layer ELSE kept
        \/ at.fails = "drop" /\ kept' = kept /\ quiet' = quiet
        \/ at.fails = "quiet" /\ at.layer \in {"led", "status"} /\ quiet' = quiet \cup {at.layer} /\ kept' = kept
    BY <1>2, <1>4, FailureCases
  <2> QED BY <2>1, <1>2 DEF Stage
<1> HIDE DEF r, P
<1>8. at.fails # "end" /\ kept' = "none" => A[pc + 1] \subseteq acked'
  <2> SUFFICES ASSUME at.fails # "end", kept' = "none" PROVE A[pc + 1] \subseteq A[pc]
    BY <1>3, <1>4, <1>7
  <2>1. CASE pc <= k
    BY <2>1, <1>5, <1>6 DEF AcksLocal
  <2>2. CASE ~(pc <= k)
    <3>1. pc \in (k + 1)..(Len(P) + 1) /\ pc + 1 \in (k + 1)..(Len(P) + 1)
      BY <2>2, <1>2, <1>5
    <3>g. IsPlan(P) /\ Guards(r, P, A, k)
      BY <1>2, <1>3
    <3>2. \A i \in (k + 1)..(Len(P) + 1) : A[i] = A[k + 1]
      BY <3>g, SameFlags
    <3>3. A[pc] = A[k + 1] /\ A[pc + 1] = A[k + 1]
      BY <3>1, <3>2, Zenon
    <3> QED BY <3>2, <3>3
  <2> QED BY <2>1, <2>2
<1>9. pc' # 0 /\ kept' = "none" => A[pc'] \subseteq acked'
  <2>1. CASE at.fails = "end"
    BY <2>1, <1>4
  <2>2. CASE at.fails # "end"
    <3>1. Proceed(P, r.opts, kept', quiet', pc) /\ pc \in Nat
      BY <2>2, <1>2, <1>4, <1>5
    <3> QED BY <2>2, <3>1, <1>2, <1>3, <1>7, <1>8, AcksProceed
  <2> QED BY <2>1, <2>2
<1>10. AcksReq(cmd', opts') = r /\ Guards(AcksReq(cmd', opts'), Plans[cmd'], A, k)
  BY <1>3, <1>4 DEF r, P
<1>11. held' => cmd' # "none" /\ r.claim \subseteq acked' /\ (r.guarded => acked' # {})
  BY <1>4 DEF AcksInv, r
<1> QED BY <1>9, <1>10, <1>11 DEF AcksInv

LEMMA AcksInit == Init => AcksInv
BY DEF Init, AcksInv

LEMMA AcksStep == AcksOfPlans /\ AllPlans /\ Stage /\ AcksInv /\ [Next]_vars => AcksInv'
<1> SUFFICES ASSUME AcksOfPlans, AllPlans, Stage, AcksInv, [Next]_vars PROVE AcksInv'
  OBVIOUS
<1>1. CASE Report \/ Kill
  BY <1>1 DEF Report, Kill, Ended, AcksInv
<1>2. CASE Replug \/ UNCHANGED vars
  <2>1. UNCHANGED <<cmd, opts, pc, kept, acked, held>>
    BY <1>2 DEF Replug, process, vars
  <2> QED BY <2>1 DEF AcksInv
<1> QED BY <1>1, <1>2, AcksStart, AcksSucceed, AcksFail DEF Next

LEMMA AcksGive ==
  ASSUME AllPlans, Stage, AcksInv
  PROVE  /\ AsksFirst /\ held => acked # {}
         /\ pc # 0 /\ cmd \in Smokes /\ at.do = "out" => SubmitsBulkOut \in acked
         /\ "profile" \in opts /\ held => Registers \in acked
<1> DEFINE r == AcksReq(cmd, opts)
<1>1. /\ r.guarded <=> AsksFirst
      /\ "profile" \in opts => Registers \in r.claim
      /\ cmd \in Smokes => r.out = {SubmitsBulkOut}
  BY DEF AcksReq, AsksFirst, GuardedCommand, If
<1> HIDE DEF r
<1>2. held => r.claim \subseteq acked /\ (r.guarded => acked # {})
  BY DEF AcksInv, r
<1>3. pc # 0 /\ cmd \in Smokes /\ at.do = "out" => SubmitsBulkOut \in acked
  <2> SUFFICES ASSUME pc # 0, cmd \in Smokes, at.do = "out" PROVE SubmitsBulkOut \in acked
    OBVIOUS
  <2>1. /\ IsPlan(Plans[cmd]) /\ pc \in 1..Len(Plans[cmd]) /\ at = Plans[cmd][pc] /\ Runs(at, opts, kept, quiet)
        /\ Len(Plans[cmd]) \in Nat
    BY StepAtHand
  <2>2. PICK A, k : Guards(r, Plans[cmd], A, k) /\ (kept = "none" => A[pc] \subseteq acked)
    BY DEF AcksInv, r
  <2>3. pc <= k => AcksLocal(r, at, A[pc], A[pc + 1])
    BY <2>1, <2>2 DEF Guards
  <2>4. ~(pc <= k) => Tame(r, at)
    BY <2>1, <2>2 DEF Guards
  <2>5. pc <= k
    BY <2>4, <1>1 DEF Tame
  <2>6. Asked(at, r.opts)
    BY <2>1 DEF r, AcksReq, Runs, Asked
  <2>7. at.after = "none" /\ r.out \subseteq A[pc]
    BY <2>3, <2>5, <2>6 DEF AcksLocal
  <2> QED BY <2>1, <2>2, <2>7, <1>1 DEF Runs
<1> QED BY <1>1, <1>2, <1>3

(* A class of steps: what they do, the facts they never set, the layers after whose kept error   *)
(* they still run.  A plan of such steps, none of which jumps out of it.                        *)
Class(do, apart, after) == [do |-> do, apart |-> apart, after |-> after]
Fits(s, k) == s.do \in k.do /\ s.sets \cap k.apart = {} /\ s.after \in k.after
Inside(P, i) == P[i].jump # "never" => i + P[i].skip <= Len(P)
Does(P, k) == IsPlan(P) /\ Len(P) # 0 /\ \A i \in 1..Len(P) : Fits(P[i], k) /\ Inside(P, i)

LEMMA DoesCat ==
  ASSUME NEW P, NEW Q, NEW k, Does(P, k), Does(Q, k)
  PROVE  Does(P \o Q, k)
<1> DEFINE p == Len(P)
           q == Len(Q)
           C == P \o Q
<1>1. /\ IsPlan(C)
      /\ p \in Nat /\ q \in Nat /\ Len(C) = p + q
      /\ \A i \in 1..p : C[i] = P[i]
      /\ \A i \in 1..q : C[p + i] = Q[i]
  BY PlanCat DEF Does
<1>s. /\ \A i \in 1..p : P[i].skip \in Nat /\ Fits(P[i], k) /\ (P[i].jump # "never" => i + P[i].skip <= p)
      /\ \A i \in 1..q : Q[i].skip \in Nat /\ Fits(Q[i], k) /\ (Q[i].jump # "never" => i + Q[i].skip <= q)
  BY DEF Does, IsPlan, IsStep, Inside
<1>z. p # 0
  BY DEF Does
<1> HIDE DEF p, q, C
<1>2. ASSUME NEW i \in 1..p + q PROVE Fits(C[i], k) /\ (C[i].jump # "never" => i + C[i].skip <= p + q)
  <2>1. CASE i <= p
    <3>1. i \in 1..p /\ C[i] = P[i]
      BY <2>1, <1>1
    <3>2. \A n \in Nat : i + n <= p => i + n <= p + q
      BY <1>1
    <3> QED BY <3>1, <3>2, <1>s
  <2>2. CASE ~(i <= p)
    <3> DEFINE j == i - p
    <3>1. j \in 1..q /\ i = p + j /\ \A n \in Nat : j + n <= q => i + n <= p + q
      BY <2>2, <1>1
    <3> HIDE DEF j
    <3>2. C[i] = Q[j]
      BY <3>1, <1>1
    <3> QED BY <3>1, <3>2, <1>s
  <2> QED BY <2>1, <2>2
<1>3. Len(C) # 0
  BY <1>1, <1>z
<1>4. Does(C, k)
  BY <1>1, <1>2, <1>3 DEF Does, Inside
<1> QED BY <1>4 DEF C

LEMMA DoesOption ==
  ASSUME NEW P, NEW k, Does(P, k), NEW o
  PROVE  Does(When(o, P), k) /\ Does(Unless(o, P), k) /\ Does(In(o, P), k)
<1>1. ASSUME NEW Q, Recasts(P, Q) PROVE Does(Q, k)
  <2>1. ASSUME NEW i \in 1..Len(P) PROVE Fits(Q[i], k) /\ Inside(Q, i)
    <3>1. Alike(P[i], Q[i]) /\ Len(Q) = Len(P) /\ Fits(P[i], k) /\ Inside(P, i)
      BY <1>1 DEF Recasts, Does
    <3> QED BY <3>1 DEF Alike, Fits, Inside
  <2> QED BY <1>1, <2>1 DEF Does, Recasts
<1>2. IsPlan(P)
  BY DEF Does
<1> QED BY <1>1, <1>2, WhenPlan, UnlessPlan, InPlan

LEMMA DoesAfter ==
  ASSUME NEW P, NEW k, Does(P, k), NEW l \in k.after
  PROVE  Does(AllTheSame(l, P), k)
<1> DEFINE Q == AllTheSame(l, P)
<1>1. /\ IsPlan(Q) /\ Len(Q) = Len(P) /\ \A i \in 1..Len(P) : Changed(P[i], Q[i], "after", l)
  BY AfterPlan DEF Does
<1> HIDE DEF Q
<1>2. ASSUME NEW i \in 1..Len(P) PROVE Fits(Q[i], k) /\ Inside(Q, i)
  <2>1. /\ Q[i].after = l /\ Q[i].do = P[i].do /\ Q[i].sets = P[i].sets  /\ Q[i].jump = P[i].jump /\ Q[i].skip = P[i].skip
    BY <1>1 DEF Changed, Fields
  <2>2. Fits(P[i], k) /\ Inside(P, i)
    BY DEF Does
  <2> QED BY <1>1, <2>1, <2>2 DEF Fits, Inside
<1>3. Does(Q, k)
  BY <1>1, <1>2 DEF Does
<1> QED BY <1>3 DEF Q

LEMMA DoesOne ==
  ASSUME NEW s, IsStep(s), NEW k, Fits(s, k), s.jump = "never"
  PROVE  Does(<<s>>, k)
<1>1. IsPlan(<<s>>) /\ Len(<<s>>) = 1 /\ <<s>>[1] = s
  BY OneStep
<1> QED BY <1>1 DEF Does, Inside

(* All steps but the last. *)
LEMMA FrontSteps ==
  ASSUME NEW P, IsPlan(P), Len(P) # 0
  PROVE  /\ Len(P) \in Nat \ {0} /\ IsPlan(Front(P)) /\ Len(Front(P)) = Len(P) - 1 /\ IsStep(Last(P)) /\ Last(P) = P[Len(P)]
         /\ \A i \in 1..Len(P) - 1 : Front(P)[i] = P[i]
<1> DEFINE F == Front(P)
           n == Len(P)
<1>1. PICK S : P \in Seq(S)
  BY DEF IsPlan
<1>2. n \in Nat \ {0}
  BY DEF IsPlan
<1>3. F \in Seq(S) /\ Len(F) = n - 1 /\ \A i \in 1..n - 1 : F[i] = P[i]
  <2> DEFINE Q == [i \in 1..n - 1 |-> P[i]]
             s == P[n]
  <2>1. Q \in Seq(S) /\ Len(Q) = n - 1 /\ s \in S /\ \A i \in 1..n - 1 : Q[i] = P[i]
    BY <1>1, <1>2
  <2> HIDE DEF Q
  <2>2. P = Q \o <<s>>
    BY <1>1, <1>2, <2>1
  <2> HIDE DEF s
  <2>3. Front(Q \o <<s>>) = Q
    BY <2>1 DEF Front
  <2> QED BY <2>1, <2>2, <2>3
<1>4. IsPlan(F)
  <2>1. \A i \in 1..Len(F) : IsStep(F[i])
    BY <1>2, <1>3 DEF IsPlan
  <2> QED BY <1>3, <2>1 DEF IsPlan
<1>5. Last(P) = P[n] /\ IsStep(P[n])
  BY <1>2 DEF Last, IsPlan
<1> QED BY <1>2, <1>3, <1>4, <1>5

(* A last step of the same kind in its place. *)
EndsWith(Q, P, t, k) ==
  /\ IsPlan(Q) /\ Len(Q) = Len(P) /\ Q[Len(P)] = t
  /\ \A i \in 1..Len(P) : Fits(Q[i], k) /\ (i < Len(P) => Inside(Q, i))

LEMMA DoesLast ==
  ASSUME NEW P, NEW k, Does(P, k), NEW t, IsStep(t), Fits(t, k)
  PROVE  EndsWith(Front(P) \o <<t>>, P, t, k)
<1> DEFINE F == Front(P)
           n == Len(P)
           Q == F \o <<t>>
<1>1. n \in Nat \ {0} /\ IsPlan(F) /\ Len(F) = n - 1 /\ \A i \in 1..n - 1 : F[i] = P[i]
  BY FrontSteps DEF Does
<1>2. IsPlan(<<t>>) /\ Len(<<t>>) = 1 /\ <<t>>[1] = t
  BY OneStep
<1>p. \A i \in 1..n : Fits(P[i], k) /\ (P[i].jump # "never" => i + P[i].skip <= n)
  BY DEF Does, Inside
<1> HIDE DEF F, n
<1>3. /\ IsPlan(Q) /\ Len(Q) = Len(F) + 1
      /\ \A i \in 1..Len(F) : Q[i] = F[i]
      /\ \A i \in 1..Len(<<t>>) : Q[Len(F) + i] = <<t>>[i]
  BY <1>1, <1>2, PlanCat
<1> HIDE DEF Q
<1>4. Len(Q) = n /\ (\A i \in 1..n - 1 : Q[i] = P[i]) /\ Q[n] = t
  <2>1. Q[Len(F) + 1] = t /\ Len(F) + 1 = n
    BY <1>1, <1>2, <1>3
  <2> QED BY <2>1, <1>1, <1>3
<1>5. ASSUME NEW i \in 1..n PROVE Fits(Q[i], k) /\ (i < n => Inside(Q, i))
  <2>1. CASE i = n
    BY <2>1, <1>1, <1>4
  <2>2. CASE i # n
    <3>1. i \in 1..n - 1
      BY <2>2, <1>1
    <3> QED BY <3>1, <1>4, <1>p DEF Inside
  <2> QED BY <2>1, <2>2
<1>6. EndsWith(Q, P, t, k)
  BY <1>3, <1>4, <1>5 DEF EndsWith, n
<1> QED BY <1>6 DEF Q, F

LEMMA DoesCompleting ==
  ASSUME NEW P, NEW k, Does(P, k), NEW facts, facts \cap k.apart = {}
  PROVE  Does(Completing(facts, P), k)
<1> DEFINE s == Last(P)
           v == s.sets \cup facts
           t == [s EXCEPT !.sets = v]
           Q == Front(P) \o <<t>>
           n == Len(P)
<1>1. IsStep(s) /\ s = P[n] /\ n \in Nat \ {0}
  BY FrontSteps DEF Does
<1>0. Fits(s, k) /\ (s.jump # "never" => n + s.skip <= n)
  BY <1>1 DEF Does, Inside
<1> HIDE DEF s, v
<1>2. Changed(s, t, "sets", v)
  BY <1>1, FieldChanged, IsShaped
<1> HIDE DEF t
<1>3. /\ t.do = s.do /\ t.layer = s.layer /\ t.skip = s.skip /\ t.jump = s.jump /\ t.fails = s.fails
      /\ t.after = s.after /\ t.sets = s.sets \cup facts
  BY <1>2 DEF Changed, Fields, v
<1>4. IsStep(t) /\ Fits(t, k)
  BY <1>0, <1>1, <1>2, <1>3 DEF IsStep, Changed, Shaped, Fits
<1>5. /\ IsPlan(Q) /\ Len(Q) = n /\ Q[n] = t
      /\ \A i \in 1..n : Fits(Q[i], k) /\ (i < n => Inside(Q, i))
  BY <1>4, DoesLast DEF EndsWith
<1> HIDE DEF Q
<1>6. Inside(Q, n)
  BY <1>0, <1>3, <1>5 DEF Inside
<1>7. \A i \in 1..n : Inside(Q, i)
  BY <1>1, <1>5, <1>6
<1>8. Does(Q, k)
  BY <1>1, <1>5, <1>7 DEF Does
<1>9. Completing(facts, P) = Q
  BY Zenon DEF Completing, t, s, v, Q
<1> QED BY <1>8, <1>9

(* A conditional jump in front. *)
Behind(Q, P, k) ==
  /\ IsPlan(Q) /\ Len(Q) = Len(P) + 1 /\ Inside(Q, 1)
  /\ \A i \in 1..Len(Q) : Fits(Q[i], k)
  /\ \A i \in 1..Len(P) : Q[i + 1] = P[i]

LEMMA BehindIf ==
  ASSUME NEW P, IsPlan(P), NEW k, Len(P) # 0, NEW f, NEW l, l # "none", NEW w, "read" \in k.do, "none" \in k.after,
         \A i \in 1..Len(P) : Fits(P[i], k)
  PROVE  Behind(IfChipHas(f, l, w, P), P, k)
<1> DEFINE s == JumpRead(l, w, "lacks", f, Len(P))
           Q == <<s>> \o P
           n == Len(P)
<1>0. Len(P) \in Nat /\ "lacks" \in {"lacks", "always"}
  BY DEF IsPlan
<1>1. Jumping(s, l, "lacks", f, n)
  BY <1>0, JumpLooks
<1> HIDE DEF s
<1>2. IsStep(s) /\ s.skip = n /\ Fits(s, k)
  BY <1>1 DEF Jumping, Fits
<1>3. IsPlan(<<s>>) /\ Len(<<s>>) = 1 /\ <<s>>[1] = s
  BY <1>2, OneStep
<1>4. /\ IsPlan(Q) /\ Len(Q) = Len(<<s>>) + n
      /\ \A i \in 1..Len(<<s>>) : Q[i] = <<s>>[i]
      /\ \A i \in 1..n : Q[Len(<<s>>) + i] = P[i]
  BY <1>3, PlanCat
<1> HIDE DEF Q, n
<1>5. Len(Q) = n + 1 /\ Q[1] = s /\ \A i \in 1..n : Q[i + 1] = P[i]
  BY <1>0, <1>3, <1>4 DEF n
<1>6. ASSUME NEW i \in 1..n + 1 PROVE Fits(Q[i], k)
  <2>1. CASE i = 1
    BY <2>1, <1>2, <1>5
  <2>2. CASE i # 1
    <3>1. i - 1 \in 1..n /\ (i - 1) + 1 = i
      BY <2>2, <1>0 DEF n
    <3>2. Q[i] = P[i - 1]
      BY <3>1, <1>5
    <3> QED BY <3>1, <3>2 DEF n
  <2> QED BY <2>1, <2>2
<1>7. Inside(Q, 1)
  BY <1>0, <1>2, <1>5 DEF Inside, n
<1>8. IfChipHas(f, l, w, P) = Q
  BY Zenon DEF IfChipHas, s, JumpRead, Q
<1>9. Behind(Q, P, k)
  BY <1>4, <1>5, <1>6, <1>7 DEF Behind, n
<1> QED BY <1>8, <1>9

LEMMA DoesIf ==
  ASSUME NEW P, NEW k, Does(P, k), "read" \in k.do, "none" \in k.after, NEW f, NEW l, l # "none", NEW w
  PROVE  Does(IfChipHas(f, l, w, P), k)
<1> DEFINE Q == IfChipHas(f, l, w, P)
           n == Len(P)
<1>1. /\ IsPlan(Q) /\ Len(Q) = n + 1 /\ (\A i \in 1..Len(Q) : Fits(Q[i], k))
      /\ Inside(Q, 1) /\ \A i \in 1..n : Q[i + 1] = P[i]
  <2>1. IsPlan(P) /\ Len(P) # 0 /\ \A i \in 1..Len(P) : Fits(P[i], k)
    BY DEF Does
  <2>2. Behind(IfChipHas(f, l, w, P), P, k)
    BY <2>1, BehindIf
  <2> QED BY <2>2, Zenon DEF Behind
<1>2. n \in Nat /\ \A i \in 1..n : P[i].skip \in Nat /\ (P[i].jump # "never" => i + P[i].skip <= n)
  <2>1. n \in Nat /\ IsPlan(P)
    BY DEF Does, IsPlan
  <2>2. \A i \in 1..n : IsStep(P[i]) /\ Inside(P, i)
    BY DEF Does, IsPlan
  <2> QED BY <2>1, <2>2 DEF IsStep, Inside
<1> HIDE DEF Q, n
<1>3. ASSUME NEW i \in 1..n + 1 PROVE Inside(Q, i)
  <2>1. CASE i = 1
    BY <2>1, <1>1
  <2>2. CASE i # 1
    <3> DEFINE j == i - 1
    <3>1. j \in 1..n /\ i = j + 1 /\ \A m \in Nat : j + m <= n => i + m <= n + 1
      BY <2>2, <1>2
    <3> HIDE DEF j
    <3>2. Q[i] = P[j]
      BY <3>1, <1>1
    <3> QED BY <3>1, <3>2, <1>1, <1>2 DEF Inside
  <2> QED BY <2>1, <2>2
<1>4. Len(Q) # 0
  BY <1>1, <1>2
<1>5. Does(Q, k)
  BY <1>1, <1>3, <1>4 DEF Does
<1> QED BY <1>5 DEF Q

LEMMA DoesChoosing ==
  ASSUME NEW T, NEW E, NEW k, Does(T, k), Does(E, k), "read" \in k.do, "none" \in k.after, NEW f, NEW l, l # "none", NEW w
  PROVE  Does(Choosing(f, l, w, T, E), k)
<1> DEFINE s == Last(T)
           t == Hop(s, Len(E))
           U == Front(T) \o <<t>>
           V == IfChipHas(f, l, w, U)
           C == V \o E
           n == Len(T)
           e == Len(E)
<1>1. IsStep(s) /\ s = T[n] /\ n \in Nat \ {0} /\ e \in Nat /\ e # 0 /\ IsPlan(E)
  BY FrontSteps DEF Does, IsPlan
<1>0. Fits(s, k)
  BY <1>1 DEF Does
<1> HIDE DEF s
<1>2. JumpOver(t, s, e)
  BY <1>1, JumpOverLooks
<1> HIDE DEF t
<1>3. IsStep(t) /\ Fits(t, k) /\ t.skip = e
  BY <1>0, <1>2 DEF JumpOver, Fields, Fits
<1>4. /\ IsPlan(U) /\ Len(U) = n /\ U[n] = t
      /\ \A i \in 1..n : Fits(U[i], k) /\ (i < n => Inside(U, i))
  BY <1>3, DoesLast DEF EndsWith
<1> HIDE DEF U
<1>5. /\ IsPlan(V) /\ Len(V) = n + 1 /\ (\A i \in 1..Len(V) : Fits(V[i], k))
      /\ Inside(V, 1) /\ \A i \in 1..n : V[i + 1] = U[i]
  <2>1. IsPlan(U) /\ Len(U) # 0 /\ \A i \in 1..Len(U) : Fits(U[i], k)
    BY <1>1, <1>4
  <2>2. Behind(IfChipHas(f, l, w, U), U, k)
    BY <2>1, BehindIf
  <2>3. Behind(V, U, k)
    BY <2>2
  <2> HIDE DEF V
  <2> QED BY <2>3, <1>4 DEF Behind
<1>e. \A i \in 1..e : Fits(E[i], k) /\ E[i].skip \in Nat /\ (E[i].jump # "never" => i + E[i].skip <= e)
  BY DEF Does, IsPlan, IsStep, Inside
<1>u. \A i \in 1..n : U[i].skip \in Nat /\ (i < n /\ U[i].jump # "never" => i + U[i].skip <= n)
  BY <1>4 DEF IsPlan, IsStep, Inside
<1>v. V[1].skip \in Nat /\ (V[1].jump # "never" => 1 + V[1].skip <= n + 1)
  <2>1. 1 \in 1..Len(V)
    BY <1>1, <1>5
  <2> QED BY <2>1, <1>5 DEF IsPlan, IsStep, Inside
<1> HIDE DEF V, n, e
<1>6. /\ IsPlan(C) /\ Len(C) = (n + 1) + e
      /\ \A i \in 1..n + 1 : C[i] = V[i]
      /\ \A i \in 1..e : C[(n + 1) + i] = E[i]
  BY <1>1, <1>5, PlanCat DEF e
<1> HIDE DEF C
<1>7. ASSUME NEW i \in 1..(n + 1) + e
      PROVE  Fits(C[i], k) /\ (C[i].jump # "never" => i + C[i].skip <= (n + 1) + e)
  <2>1. CASE i = 1
    <3>1. i \in 1..n + 1 /\ \A m \in Nat : 1 + m <= n + 1 => 1 + m <= (n + 1) + e
      BY <2>1, <1>1
    <3> QED BY <2>1, <3>1, <1>5, <1>6, <1>v
  <2>2. CASE i # 1 /\ i <= n + 1
    <3> DEFINE j == i - 1
    <3>1. j \in 1..n /\ i = j + 1 /\ i \in 1..n + 1 /\ (\A m \in Nat : j + m <= n => i + m <= (n + 1) + e)
          /\ (j = n => i + e <= (n + 1) + e) /\ (j < n \/ j = n)
      BY <2>2, <1>1
    <3> HIDE DEF j
    <3>2. C[i] = U[j]
      BY <3>1, <1>5, <1>6
    <3>3. Fits(C[i], k)
      BY <3>1, <3>2, <1>4
    <3>4. CASE j < n
      BY <3>1, <3>2, <3>3, <3>4, <1>u
    <3>5. CASE j = n
      BY <3>1, <3>2, <3>3, <3>5, <1>3, <1>4
    <3> QED BY <3>1, <3>4, <3>5
  <2>3. CASE ~(i <= n + 1)
    <3> DEFINE j == i - (n + 1)
    <3>1. j \in 1..e /\ i = (n + 1) + j /\ \A m \in Nat : j + m <= e => i + m <= (n + 1) + e
      BY <2>3, <1>1
    <3> HIDE DEF j
    <3>2. C[i] = E[j]
      BY <3>1, <1>6
    <3> QED BY <3>1, <3>2, <1>e
  <2> QED BY <2>1, <2>2, <2>3
<1>8. Len(C) # 0
  BY <1>1, <1>6
<1>9. Does(C, k)
  BY <1>6, <1>7, <1>8 DEF Does, Inside
<1>10. Choosing(f, l, w, T, E) = C
  BY Zenon DEF Choosing, U, t, s, Hop, V, C
<1> QED BY <1>9, <1>10

LEMMA DoesFlatten ==
  ASSUME NEW f, NEW k, NEW d, Blocks(f, k), \A n \in 1..k : Does(f[n], d)
  PROVE  Does(FlattenSeq(f), d)
<1>0. k \in Nat \ {0}
  BY DEF Blocks
<1>1. PICK g : Joined(g, f, k) /\ FlattenSeq(f) = g[k]
  BY Flattened
<1> DEFINE T == {n \in Nat : Does(g[n + 1], d)}
<1>2. 0 \in T
  BY <1>0, <1>1 DEF Joined
<1>3. \A n \in 0..(k - 1) - 1 : n \in T => n + 1 \in T
  <2> SUFFICES ASSUME NEW n \in 0..(k - 1) - 1, n \in T PROVE n + 1 \in T
    OBVIOUS
  <2> DEFINE m == n + 1
  <2>1. m + 1 \in 2..k /\ m + 1 \in 1..k /\ (m + 1) - 1 = m /\ m \in Nat
    BY <1>0
  <2>2. Does(g[m], d)
    OBVIOUS
  <2> HIDE DEF m
  <2>3. g[m + 1] = g[m] \o f[m + 1]
    BY <2>1, <1>1 DEF Joined
  <2>4. Does(g[m + 1], d)
    BY <2>1, <2>2, <2>3, DoesCat
  <2> QED BY <2>1, <2>4 DEF m
<1> HIDE DEF T
<1>4. \A n \in 0..k - 1 : n \in T
  BY <1>0, <1>2, <1>3, Reaches
<1>5. k - 1 \in T /\ (k - 1) + 1 = k
  BY <1>0, <1>4
<1>6. Does(g[k], d)
  BY <1>5 DEF T
<1> QED BY <1>1, <1>6

LEMMA DoesRepeat ==
  ASSUME NEW B, NEW k \in Nat \ {0}, NEW d, Does(B, d)
  PROVE  Does(FlattenSeq([n \in 1..k |-> B]), d)
<1> DEFINE f == [n \in 1..k |-> B]
<1>1. Blocks(f, k) /\ \A n \in 1..k : Does(f[n], d)
  BY DEF Blocks, Does
<1> HIDE DEF f
<1>2. Does(FlattenSeq(f), d)
  BY <1>1, DoesFlatten
<1> QED BY <1>2 DEF f

OnChip == {"check", "file", "read", "write"}
(* What a command changes only to look. *)
Lookers == {"grant", "dl", "page", "hssi"}
Chip(k) == OnChip \subseteq k.do /\ k.apart \subseteq Lookers /\ "none" \in k.after
Apart(F, k) == F \cap k.apart = {}

LEMMA DoesHost ==
  ASSUME NEW k, Chip(k), NEW w
  PROVE  Does(Checks(w), k) /\ Does(Check(w), k) /\ Does(Reject(w), k) /\ Does(File(w), k)
<1>1. ASSUME NEW d \in {"check", "file"}, NEW v, NEW n
      PROVE  Does(<<Step(d, "host", v)>>, k) /\ Does(<<[Step(d, "host", v) EXCEPT !.needs = n]>>, k)
  <2>1. Looks(Step(d, "host", v), d, "host", {}, {}, {}, "end", "none")
    BY LooksStep
  <2>2. Looks([Step(d, "host", v) EXCEPT !.needs = n], d, "host", n, {}, {}, "end", "none")
    BY <2>1, LooksWith
  <2>3. ASSUME NEW s, NEW m, Looks(s, d, "host", m, {}, {}, "end", "none") PROVE Does(<<s>>, k)
    BY <2>3, DoesOne DEF Looks, Chip, OnChip, Fits, Apart
  <2> QED BY <2>1, <2>2, <2>3
<1> QED BY <1>1, Zenon DEF Checks, Check, Reject, File

LEMMA DoesRegister ==
  ASSUME NEW k, Chip(k), NEW l, l # "none", NEW w, NEW F
  PROVE  /\ Does(Read(l, w), k) /\ Does(Preflight(l, w, F), k) /\ Does(Poll(l, w), k)
         /\ Does(Puts(l, w), k) /\ Does(Put(l, w), k) /\ (Apart(F, k) => Does(Setting(l, w, F), k)) /\ Does(Clearing(l, w, F), k)
<1>1. ASSUME NEW d \in {"read", "write"}, NEW v
      PROVE  /\ Does(<<Step(d, l, v)>>, k) /\ Does(<<[Step(d, l, v) EXCEPT !.needs = F]>>, k)
             /\ (Apart(F, k) => Does(<<[Step(d, l, v) EXCEPT !.sets = F]>>, k)) /\ Does(<<[Step(d, l, v) EXCEPT !.clears = F]>>, k)
  <2>1. Looks(Step(d, l, v), d, l, {}, {}, {}, "end", "none")
    BY LooksStep
  <2>2. /\ Looks([Step(d, l, v) EXCEPT !.needs = F], d, l, F, {}, {}, "end", "none")
        /\ Looks([Step(d, l, v) EXCEPT !.sets = F], d, l, {}, F, {}, "end", "none")
        /\ Looks([Step(d, l, v) EXCEPT !.clears = F], d, l, {}, {}, F, "end", "none")
    BY <2>1, LooksWith
  <2>3. ASSUME NEW s, NEW n, NEW S, NEW C, Looks(s, d, l, n, S, C, "end", "none"), Apart(S, k) PROVE Does(<<s>>, k)
    BY <2>3, DoesOne DEF Looks, Chip, OnChip, Fits, Apart
  <2>4. Apart({}, k)
    BY DEF Apart
  <2> QED BY <2>1, <2>2, <2>3, <2>4
<1> QED BY <1>1, Zenon DEF Read, Preflight, Poll, Puts, Put, Setting, Clearing

(* A single step whose failure does not end the command. *)
LEMMA DoesFailing ==
  ASSUME NEW s, NEW d, NEW l, NEW n, NEW S, NEW C, NEW e, Looks(s, d, l, n, S, C, "end", e), NEW k, d \in k.do, Apart(S, k), e \in k.after,
         NEW how, how \in {"keep", "drop"} \/ (how = "quiet" /\ l \in {"led", "status"})
  PROVE  Does(Failing(how, <<s>>), k)
<1>1. Failing(how, <<s>>) = <<[s EXCEPT !.fails = how]>>
  BY OneChanged
<1>2. Looks([s EXCEPT !.fails = how], d, l, n, S, C, how, e)
  <2>1. how \in {"end", "keep", "drop"} \/ (how = "quiet" /\ l \in {"led", "status"})
    OBVIOUS
  <2> QED BY <2>1, LooksWith
<1> DEFINE t == [s EXCEPT !.fails = how]
<1> HIDE DEF t
<1>3. Does(<<t>>, k)
  BY <1>2, DoesOne DEF Looks, t, Fits, Apart
<1> QED BY <1>1, <1>3 DEF t

LEMMA DoesFailingRegister ==
  ASSUME NEW k, Chip(k), NEW l, l # "none", NEW w, NEW F,
         NEW how, how \in {"keep", "drop"} \/ (how = "quiet" /\ l \in {"led", "status"})
  PROVE  /\ Does(Failing(how, Read(l, w)), k) /\ (Apart(F, k) => Does(Failing(how, Setting(l, w, F)), k))
         /\ Does(Failing(how, Clearing(l, w, F)), k)
<1>1. "read" \in k.do /\ "write" \in k.do /\ "none" \in k.after /\ Apart({}, k)
  BY DEF Chip, OnChip, Apart
<1>2. Looks(Step("read", l, <<w>>), "read", l, {}, {}, {}, "end", "none") /\ Looks(Step("write", l, <<w>>), "write", l, {}, {}, {}, "end", "none")
  BY LooksStep
<1> DEFINE s == Step("write", l, <<w>>)
<1>3. Looks([s EXCEPT !.sets = F], "write", l, {}, F, {}, "end", "none") /\ Looks([s EXCEPT !.clears = F], "write", l, {}, {}, F, "end", "none")
  <2> HIDE DEF s
  <2>1. Looks(s, "write", l, {}, {}, {}, "end", "none")
    BY <1>2 DEF s
  <2> QED BY <2>1, LooksWith
<1>4. Does(Failing(how, <<Step("read", l, <<w>>)>>), k)
  BY <1>1, <1>2, DoesFailing
<1>5. Apart(F, k) => Does(Failing(how, <<[s EXCEPT !.sets = F]>>), k)
  <2> DEFINE t == [s EXCEPT !.sets = F]
  <2> HIDE DEF t
  <2>1. Apart(F, k) => Does(Failing(how, <<t>>), k)
    BY <1>1, <1>3, DoesFailing DEF t
  <2> QED BY <2>1 DEF t
<1>6. Does(Failing(how, <<[s EXCEPT !.clears = F]>>), k)
  <2> DEFINE t == [s EXCEPT !.clears = F]
  <2> HIDE DEF t
  <2>1. Does(Failing(how, <<t>>), k)
    BY <1>1, <1>3, DoesFailing DEF t
  <2> QED BY <2>1 DEF t
<1> QED BY <1>4, <1>5, <1>6, Zenon DEF Read, Setting, Clearing

LEMMA DoesTransfer ==
  ASSUME NEW k, "none" \in k.after, NEW w, NEW how \in {"keep", "drop"}
  PROVE  /\ "in" \in k.do => Does(BulkIn(w), k) /\ Does(Failing(how, BulkIn(w)), k)
         /\ "out" \in k.do => Does(BulkOut(w), k) /\ Does(Failing(how, BulkOut(w)), k)
<1>1. ASSUME NEW d \in {"in", "out"}, d \in k.do
      PROVE  Does(<<Step(d, "traffic", <<w>>)>>, k) /\ Does(Failing(how, <<Step(d, "traffic", <<w>>)>>), k)
  <2> DEFINE s == Step(d, "traffic", <<w>>)
  <2>1. Looks(s, d, "traffic", {}, {}, {}, "end", "none")
    BY LooksStep
  <2> HIDE DEF s
  <2>0. Apart({}, k)
    BY DEF Apart
  <2>2. Does(<<s>>, k)
    BY <2>0, <2>1, <1>1, DoesOne DEF Looks, Fits, Apart
  <2>3. Does(Failing(how, <<s>>), k)
    BY <2>0, <2>1, <1>1, DoesFailing
  <2> QED BY <2>2, <2>3 DEF s
<1> QED BY <1>1, Zenon DEF BulkIn, BulkOut

LEMMA UsualFacts ==
  ASSUME NEW k, Chip(k)
  PROVE  /\ Apart({"cr"}, k) /\ Apart({"ram"}, k) /\ Apart({"fw"}, k) /\ Apart({"llt"}, k) /\ Apart({"queue"}, k)
         /\ Apart({"mac"}, k) /\ Apart({"bbfunc"}, k) /\ Apart({"bb"}, k) /\ Apart({"rf"}, k) /\ Apart({"mark5"}, k)
         /\ Apart({"chan"}, k) /\ Apart({"tail"}, k) /\ Apart({"agc"}, k) /\ Apart({"cal"}, k) /\ Apart({"led"}, k)
BY DEF Chip, Apart, Lookers

LEMMA DoesLower ==
  ASSUME NEW k, Chip(k)
  PROVE  /\ Does(PowerOnSequence, k) /\ Does(LltSequence, k) /\ Does(QueueDmaSequence, k)
         /\ Does(MacSequence, k) /\ Does(MacTablePlan, k)
         /\ Does(PreflightResetLoadedCode, k) /\ Does(FirmwareStart, k) /\ Does(FirmwareAttempts, k)
<1> DEFINE L(P) == Does(P, k)
<1>c. \A P, Q : L(P) /\ L(Q) => L(P \o Q)
  BY DoesCat
<1>f. \A P, F : L(P) /\ Apart(F, k) => L(Completing(F, P))
  BY DoesCompleting DEF Apart
<1>a. /\ Apart({"cr"}, k) /\ Apart({"ram"}, k) /\ Apart({"fw"}, k) /\ Apart({"llt"}, k) /\ Apart({"queue"}, k)
      /\ Apart({"mac"}, k) /\ Apart({"bbfunc"}, k) /\ Apart({"bb"}, k) /\ Apart({"rf"}, k) /\ Apart({"mark5"}, k)
      /\ Apart({"chan"}, k) /\ Apart({"tail"}, k)
  BY UsualFacts
<1>r. \A l, w, F : l # "none" =>
        /\ L(Read(l, w)) /\ L(Preflight(l, w, F)) /\ L(Poll(l, w)) /\ L(Puts(l, w)) /\ L(Put(l, w))
        /\ (Apart(F, k) => L(Setting(l, w, F))) /\ L(Clearing(l, w, F))
  BY DoesRegister
<1>1. "read" \in k.do /\ "none" \in k.after
  BY DEF Chip, OnChip
<1>2. \A P, f, l, w : L(P) /\ l # "none" => L(IfChipHas(f, l, w, P))
  BY <1>1, DoesIf
<1>4. L(FirmwareAttempts)
  <2>1. IsPlan(FirmwareAttempts) /\ Len(FirmwareAttempts) = 4 * DownloadAttempts
        /\ \A i \in 1..4 * DownloadAttempts : AttemptAt(FirmwareAttempts[i], i)
    BY AttemptsAre DEF AttemptsUpTo
  <2>2. ASSUME NEW s, NEW i, AttemptAt(s, i) PROVE Fits(s, k)
    <3>1. \A w : LET t == Step("write", "firmware", w) IN t.do = "write" /\ t.sets = {} /\ t.after = "none"
      BY DEF Step
    <3>2. \A m \in 1..DownloadAttempts : Checksum(m).do = "read" /\ Checksum(m).sets = {} /\ Checksum(m).after = "none"
      BY ChecksumLooks
    <3> QED BY <2>2, <3>1, <3>2 DEF AttemptAt, IsWrite, Chip, OnChip, Fits
  <2>3. Len(FirmwareAttempts) # 0
    BY <2>1, DiagStepConstants
  <2>4. ASSUME NEW i \in 1..4 * DownloadAttempts PROVE Inside(FirmwareAttempts, i)
    <3> DEFINE s == FirmwareAttempts[i]
    <3>1. AttemptAt(s, i)
      BY <2>1
    <3> HIDE DEF s
    <3>2. CASE IsWrite(s)
      <4>1. \A w : Step("write", "firmware", w).jump = "never"
        BY DEF Step
      <4> QED BY <3>2, <4>1 DEF IsWrite, Inside, s
    <3>3. ASSUME NEW m \in 1..DownloadAttempts, i = 4 * m, s = Checksum(m) PROVE Inside(FirmwareAttempts, i)
      <4>1. s.skip = (DownloadAttempts - m) * 4
        BY <3>3, ChecksumLooks
      <4>2. i + (DownloadAttempts - m) * 4 <= 4 * DownloadAttempts
        BY <3>3, DiagStepConstants
      <4> QED BY <4>1, <4>2, <2>1 DEF Inside, s
    <3> QED BY <3>1, <3>2, <3>3 DEF AttemptAt
  <2> QED BY <2>1, <2>2, <2>3, <2>4 DEF Does
<1> HIDE DEF L
<1>5. L(PowerStateMachine)
  BY <1>c, <1>r, <1>a DEF PowerStateMachine
<1>6. L(PowerOnSequence)
  BY <1>c, <1>r, <1>a, <1>5 DEF PowerOnSequence
<1>7. L(Reset8051) /\ L(PreflightResetLoadedCode)
  BY <1>c, <1>r, <1>2 DEF Reset8051, PreflightResetLoadedCode
<1>8. L(FirmwareStart)
  BY <1>c, <1>r, <1>f, <1>a, <1>7 DEF FirmwareStart
<1>10. L(LltSequence)
  <2>1. \A w : L(LltWrite(w))
    BY <1>c, <1>r, <1>a DEF LltWrite
  <2> QED BY <2>1, <1>c, <1>r, <1>f, <1>a DEF LltSequence
<1>11. L(QueueDmaSequence)
  BY <1>c, <1>r, <1>f, <1>a DEF QueueDmaSequence, QueuePreflight
<1>12. L(MacPreflight) /\ L(MacReceive) /\ L(MacTiming) /\ L(MacRetry) /\ L(BeaconParameters) /\ L(UsbBurstPackets) /\ L(MacEnable)
       /\ L(MacTablePlan)
  BY <1>c, <1>r, <1>f, <1>a DEF MacPreflight, MacReceive, MacTiming, MacRetry, BeaconParameters, UsbBurstPackets, UsbReceiveDma, MacEnable, MacTablePlan
<1>13. L(MacSequence)
  BY <1>c, <1>12 DEF MacSequence
<1> QED BY <1>4, <1>6, <1>7, <1>8, <1>10, <1>11, <1>12, <1>13 DEF L

EfuseBytesRead == FlattenSeq([n \in 1..EfuseBytes |-> EfuseReadByte])

LEMMA DoesUpper ==
  ASSUME NEW k, Chip(k)
  PROVE  /\ Does(BbSequence, k) /\ Does(RfSequence, k) /\ Does(ChannelSequence, k) /\ Does(TxSchedulerTail, k)
         /\ Does(ProgramLocalMac, k) /\ Does(EfuseBytesRead, k)
<1> DEFINE L(P) == Does(P, k)
<1>c. \A P, Q : L(P) /\ L(Q) => L(P \o Q)
  BY DoesCat
<1>f. \A P, F : L(P) /\ Apart(F, k) => L(Completing(F, P))
  BY DoesCompleting DEF Apart
<1>a. /\ Apart({"cr"}, k) /\ Apart({"ram"}, k) /\ Apart({"fw"}, k) /\ Apart({"llt"}, k) /\ Apart({"queue"}, k)
      /\ Apart({"mac"}, k) /\ Apart({"bbfunc"}, k) /\ Apart({"bb"}, k) /\ Apart({"rf"}, k) /\ Apart({"mark5"}, k)
      /\ Apart({"chan"}, k) /\ Apart({"tail"}, k)
  BY UsualFacts
<1>o. \A P, o : L(P) => L(When(o, P)) /\ L(Unless(o, P))
  BY DoesOption
<1>r. \A l, w, F : l # "none" =>
        /\ L(Read(l, w)) /\ L(Preflight(l, w, F)) /\ L(Poll(l, w)) /\ L(Puts(l, w)) /\ L(Put(l, w))
        /\ (Apart(F, k) => L(Setting(l, w, F))) /\ L(Clearing(l, w, F))
  BY DoesRegister
<1>k. \A w : L(Check(w)) /\ L(Checks(w)) /\ L(File(w))
  BY DoesHost
<1>1. "read" \in k.do /\ "write" \in k.do /\ "none" \in k.after
  BY DEF Chip, OnChip
<1>2. \A T, E, f, l, w : L(T) /\ L(E) /\ l # "none" => L(Choosing(f, l, w, T, E))
  BY <1>1, DoesChoosing
<1>4. L(EfuseReadByte)
  <2> DEFINE s == Step("write", "efuse", <<"EFUSE_CTRL">>)
             t == [s EXCEPT !.fails = "keep"]
  <2>1. Looks(s, "write", "efuse", {}, {}, {}, "end", "none")
    BY LooksStep
  <2> HIDE DEF s
  <2>2. Looks(t, "write", "efuse", {}, {}, {}, "keep", "none")
    BY <2>1, LooksWith
  <2> HIDE DEF t
  <2>3. L(<<t>>)
    BY <2>2, <1>1, DoesOne DEF Looks, Fits
  <2> QED BY <2>3, Zenon DEF EfuseReadByte, t, s
<1>5. L(EfuseBytesRead)
  BY <1>4, DiagStepConstants, DoesRepeat DEF EfuseBytesRead
<1> HIDE DEF L
<1>6. L(BbPreflight) /\ L(BbSequence)
  BY <1>c, <1>r, <1>f, <1>a DEF BbPreflight, BbSequence, BbTablePlan, BbCrystalCap
<1>7. L(RfPreflight) /\ L(RfSequence)
  BY <1>c, <1>r, <1>f, <1>a, <1>6 DEF RfPreflight, RfSequence, RfTablePlan
<1>8. L(EnsureOfdmCckTx) /\ L(PwedThresholds) /\ L(RfeRegs) /\ L(BasicRate) /\ L(BbSwing) /\ L(PollTxPacketEmpty)
  BY <1>c, <1>r, <1>k DEF EnsureOfdmCckTx, PwedThresholds, RfeRegs, BasicRate, BbSwing, PollTxPacketEmpty
<1>9. L(BandRegs)
  BY <1>c, <1>r, <1>8 DEF BandRegs
<1>10. L(SwitchTo2g) /\ L(SwitchTo5g)
  BY <1>c, <1>r, <1>a, <1>8, <1>9 DEF SwitchTo2g, SwitchTo5g
<1>11. L(SwitchWirelessBand)
  BY <1>c, <1>o, <1>2, <1>8, <1>10 DEF SwitchWirelessBand
<1>12. (\A w : L(RfSerialWrite(w))) /\ L(FixSpur) /\ L(CapturedTail)
  BY <1>o, <1>r DEF RfSerialWrite, FixSpur, CapturedTail
<1>13. L(ChannelBandwidth)
  BY <1>c, <1>r, <1>12 DEF ChannelBandwidth
<1>14. L(ChannelSequence)
  BY <1>c, <1>r, <1>f, <1>a, <1>k, <1>7, <1>8, <1>11, <1>12, <1>13 DEF ChannelSequence
<1>15. L(TxSchedulerTail) /\ L(ProgramLocalMac)
  BY <1>c, <1>r, <1>a DEF TxSchedulerTail, ProgramLocalMac
<1> QED BY <1>5, <1>6, <1>7, <1>14, <1>15 DEF L

(* What a command may do once it has claimed the adapter. *)
Claimed(r) ==
  Class(OnChip \cup {"in"} \cup (IF r.out = {} THEN {"out"} ELSE {}), {},
        {"none", "bb", "traffic", "firmware", "efuse"})

LEMMA DoesTame ==
  ASSUME NEW r, NEW P, Does(P, Claimed(r)), NEW i \in 1..Len(P)
  PROVE  Tame(r, P[i])
BY DEF Does, Fits, Claimed, Class, OnChip, Tame

(* A plan that only gathers flags. *)
LEMMA GuardedBase ==
  ASSUME NEW r, OfAcks(r), NEW P, NEW b, Leads(r, P, {}, b)
  PROVE  GuardedPlan(r, P)
<1>1. PICK A : Weaker(r, {}, A[1]) /\ Fitting(r, P, A)
  BY DEF Leads
<1>2. IsPlan(P) /\ Len(P) \in Nat
  BY DEF Leads, IsPlan
<1>3. A[1] = {}
  BY <1>1 DEF Weaker, OfAcks
<1>4. \A i \in 1..Len(P) : AcksLocal(r, P[i], A[i], A[i + 1])
  BY <1>1 DEF Fitting, Local, OfAcks
<1>5. Guards(r, P, A, Len(P))
  <2>1. \A i : i \notin (Len(P) + 1)..Len(P)
    BY <1>2
  <2> QED BY <1>2, <1>3, <1>4, <2>1 DEF Guards
<1> QED BY <1>5 DEF GuardedPlan

(* Steps that need no acknowledgement of their own follow. *)
LEMMA GuardedThen ==
  ASSUME NEW r, NEW P, NEW Q, IsPlan(P), GuardedPlan(r, P), Does(Q, Claimed(r))
  PROVE  GuardedPlan(r, P \o Q) /\ IsPlan(P \o Q)
<1>1. PICK A, k : Guards(r, P, A, k)
  BY DEF GuardedPlan
<1> DEFINE p == Len(P)
           q == Len(Q)
           B == [i \in 1..p + q + 1 |-> IF i <= p THEN A[i] ELSE A[p + 1]]
<1>2. /\ p \in Nat /\ q \in Nat /\ Len(P \o Q) = p + q /\ IsPlan(P \o Q) /\ k \in 0..p
      /\ \A i \in 1..p : (P \o Q)[i] = P[i]
      /\ \A i \in 1..q : (P \o Q)[p + i] = Q[i]
  BY <1>1, PlanCat DEF Does, Guards
<1>g. /\ A[1] = {} /\ \A i \in 1..k : AcksLocal(r, P[i], A[i], A[i + 1])
      /\ \A i \in (k + 1)..p : Tame(r, P[i])
  BY <1>1 DEF Guards
<1>s. \A i \in (k + 1)..(p + 1) : A[i] = A[k + 1]
  BY <1>1, SameFlags
<1>t. \A i \in 1..q : Tame(r, Q[i])
  BY DoesTame
<1> HIDE DEF p, q
<1>3. (\A i \in 1..p + 1 : B[i] = A[i]) /\ \A i \in (k + 1)..p + q + 1 : B[i] = A[k + 1]
  <2>1. \A i \in 1..p + 1 : B[i] = A[i]
    BY <1>2
  <2>2. ASSUME NEW i \in (k + 1)..p + q + 1 PROVE B[i] = A[k + 1]
    <3>1. CASE i <= p
      <4>1. B[i] = A[i] /\ i \in (k + 1)..(p + 1)
        BY <3>1, <1>2
      <4> QED BY <4>1, <1>s
    <3>2. CASE ~(i <= p)
      <4>1. B[i] = A[p + 1] /\ p + 1 \in (k + 1)..(p + 1)
        BY <3>2, <1>2
      <4> QED BY <4>1, <1>s
    <3> QED BY <3>1, <3>2
  <2> QED BY <2>1, <2>2
<1> HIDE DEF B
<1>4. \A i \in 1..k : AcksLocal(r, (P \o Q)[i], B[i], B[i + 1])
  <2> SUFFICES ASSUME NEW i \in 1..k PROVE AcksLocal(r, (P \o Q)[i], B[i], B[i + 1])
    OBVIOUS
  <2>1. i \in 1..p /\ i \in 1..p + 1 /\ i + 1 \in 1..p + 1
    BY <1>2
  <2>2. B[i] = A[i] /\ B[i + 1] = A[i + 1] /\ (P \o Q)[i] = P[i]
    BY <2>1, <1>2, <1>3
  <2> QED BY <2>2, <1>g
<1>5. ASSUME NEW i \in (k + 1)..p + q PROVE Tame(r, (P \o Q)[i]) /\ B[i + 1] = B[k + 1]
  <2>1. i + 1 \in (k + 1)..p + q + 1 /\ k + 1 \in (k + 1)..p + q + 1
    BY <1>2
  <2>2. B[i + 1] = B[k + 1]
    BY <2>1, <1>3
  <2>3. CASE i <= p
    <3>1. i \in (k + 1)..p /\ (P \o Q)[i] = P[i]
      BY <2>3, <1>2
    <3> QED BY <3>1, <2>2, <1>g
  <2>4. CASE ~(i <= p)
    <3>1. i - p \in 1..q /\ i = p + (i - p)
      BY <2>4, <1>2
    <3>2. (P \o Q)[i] = Q[i - p]
      BY <3>1, <1>2
    <3> QED BY <3>1, <3>2, <2>2, <1>t
  <2> QED BY <2>3, <2>4
<1>6. k \in 0..p + q /\ B[1] = {}
  BY <1>2, <1>3, <1>g
<1>7. Guards(r, P \o Q, B, k)
  BY <1>2, <1>4, <1>5, <1>6 DEF Guards
<1> QED BY <1>2, <1>7 DEF GuardedPlan

(* Steps without acknowledgements come first. *)
LEMMA GuardedAfter ==
  ASSUME NEW r, OfAcks(r), NEW P, NEW Q, IsPlan(Q), GuardedPlan(r, Q), Leads(r, P, {}, {})
  PROVE  GuardedPlan(r, P \o Q)
<1>1. PICK A : Weaker(r, {}, A[1]) /\ Fitting(r, P, A)
  BY DEF Leads
<1>2. PICK B, k : Guards(r, Q, B, k)
  BY DEF GuardedPlan
<1> DEFINE p == Len(P)
           q == Len(Q)
           C == [i \in 1..p + q + 1 |-> IF i <= p THEN A[i] ELSE B[i - p]]
<1>3. /\ p \in Nat /\ q \in Nat /\ Len(P \o Q) = p + q /\ k \in 0..q
      /\ \A i \in 1..p : (P \o Q)[i] = P[i]
      /\ \A i \in 1..q : (P \o Q)[p + i] = Q[i]
  BY <1>2, PlanCat DEF Leads, Guards
<1>4. A[1] = {} /\ \A i \in 1..p : AcksLocal(r, P[i], A[i], A[i + 1])
  BY <1>1 DEF Fitting, Local, OfAcks, Weaker
<1>5. /\ B[1] = {} /\ \A i \in 1..k : AcksLocal(r, Q[i], B[i], B[i + 1])
      /\ \A i \in (k + 1)..q : Tame(r, Q[i]) /\ B[i + 1] = B[k + 1]
  BY <1>2 DEF Guards
<1> HIDE DEF p, q
<1>6. (\A i \in 1..p : C[i] = A[i]) /\ \A i \in 1..q + 1 : C[p + i] = B[i]
  BY <1>3
<1> HIDE DEF C
<1>7. ASSUME NEW i \in 1..p + k PROVE AcksLocal(r, (P \o Q)[i], C[i], C[i + 1])
  <2>1. CASE i < p
    <3>1. i \in 1..p /\ i + 1 \in 1..p
      BY <2>1, <1>3
    <3> QED BY <3>1, <1>3, <1>4, <1>6
  <2>2. CASE i = p
    <3>1. i \in 1..p /\ 1 \in 1..q + 1
      BY <2>2, <1>3
    <3>2. C[i] = A[i] /\ C[i + 1] = {} /\ (P \o Q)[i] = P[i]
      BY <3>1, <2>2, <1>3, <1>5, <1>6
    <3>3. AcksLocal(r, P[i], A[i], A[i + 1]) /\ {} \subseteq A[i + 1]
      BY <3>1, <1>4
    <3> QED BY <3>2, <3>3, AcksMono
  <2>3. CASE i > p
    <3> DEFINE j == i - p
    <3>1. j \in 1..k /\ j \in 1..q /\ j \in 1..q + 1 /\ j + 1 \in 1..q + 1 /\ i = p + j /\ i + 1 = p + (j + 1)
      BY <2>3, <1>3
    <3> HIDE DEF j
    <3>2. C[i] = B[j] /\ C[i + 1] = B[j + 1] /\ (P \o Q)[i] = Q[j]
      BY <3>1, <1>3, <1>6
    <3> QED BY <3>1, <3>2, <1>5
  <2> QED BY <2>1, <2>2, <2>3, <1>3
<1>8. ASSUME NEW i \in ((p + k) + 1)..p + q PROVE Tame(r, (P \o Q)[i]) /\ C[i + 1] = C[(p + k) + 1]
  <2> DEFINE j == i - p
  <2>1. /\ j \in (k + 1)..q /\ j \in 1..q /\ j + 1 \in 1..q + 1 /\ i = p + j /\ i + 1 = p + (j + 1)
        /\ k + 1 \in 1..q + 1 /\ (p + k) + 1 = p + (k + 1)
    BY <1>3
  <2> HIDE DEF j
  <2>2. C[i + 1] = B[j + 1] /\ C[(p + k) + 1] = B[k + 1] /\ (P \o Q)[i] = Q[j]
    BY <2>1, <1>3, <1>6
  <2> QED BY <2>1, <2>2, <1>5
<1>9. C[1] = {} /\ p + k \in 0..p + q
  <2>1. CASE p = 0
    <3>1. 1 \in 1..q + 1 /\ p + 1 = 1
      BY <2>1, <1>3
    <3> QED BY <3>1, <1>3, <1>5, <1>6
  <2>2. CASE p # 0
    BY <2>2, <1>3, <1>4, <1>6
  <2> QED BY <2>1, <2>2
<1>10. Guards(r, P \o Q, C, p + k)
  BY <1>3, <1>7, <1>8, <1>9 DEF Guards
<1> QED BY <1>10 DEF GuardedPlan

(* Single steps. *)
Enough(r, a) == r.claim \subseteq a /\ (r.guarded => a # {})

LEMMA OneAcks ==
  ASSUME NEW r, OfAcks(r), NEW d, NEW l \in {"host", "usb", "traffic"}, NEW w, NEW a,
         d = "claim" => Enough(r, a), d = "out" => r.out \subseteq a, d # "ack"
  PROVE  Leads(r, <<Step(d, l, w)>>, a, a)
<1> DEFINE s == Step(d, l, w)
<1>1. Looks(s, d, l, {}, {}, {}, "end", "none")
  BY LooksStep
<1> HIDE DEF s
<1>2. AcksLocal(r, s, a, a)
  BY <1>1 DEF Looks, AcksLocal, Enough
<1>3. Leads(r, <<s>>, a, a)
  BY <1>1, <1>2, OneLeads DEF Looks, Local, OfAcks
<1> QED BY <1>3 DEF s

LEMMA StepAcks ==
  ASSUME NEW r, OfAcks(r), NEW w, NEW a
  PROVE  /\ Leads(r, Checks(w), a, a) /\ Leads(r, Check(w), a, a) /\ Leads(r, File(w), a, a)
         /\ Leads(r, Read("usb", w), a, a) /\ Leads(r, BulkIn(w), a, a)
         /\ r.out \subseteq a => Leads(r, BulkOut(w), a, a)
         /\ Enough(r, a) => Leads(r, Claim(w), a, a)
<1>1. \A v : /\ Leads(r, <<Step("check", "host", v)>>, a, a) /\ Leads(r, <<Step("file", "host", v)>>, a, a)
             /\ Leads(r, <<Step("read", "usb", v)>>, a, a) /\ Leads(r, <<Step("in", "traffic", v)>>, a, a)
             /\ r.out \subseteq a => Leads(r, <<Step("out", "traffic", v)>>, a, a)
             /\ Enough(r, a) => Leads(r, <<Step("claim", "usb", v)>>, a, a)
  BY OneAcks
<1> QED BY <1>1, Zenon DEF Checks, Check, File, Read, BulkIn, BulkOut, Claim

LEMMA RejectAcks ==
  ASSUME NEW r, OfAcks(r), NEW w, NEW a
  PROVE  Leads(r, Reject(w), a, a)
<1> DEFINE s == Step("check", "host", <<w>>)
           t == [s EXCEPT !.needs = {"never"}]
<1>1. Looks(s, "check", "host", {}, {}, {}, "end", "none")
  BY LooksStep
<1> HIDE DEF s
<1>2. Looks(t, "check", "host", {"never"}, {}, {}, "end", "none")
  BY <1>1, LooksWith
<1> HIDE DEF t
<1>3. AcksLocal(r, t, a, a)
  BY <1>2 DEF Looks, AcksLocal
<1>4. Leads(r, <<t>>, a, a)
  BY <1>2, <1>3, OneLeads DEF Looks, Local, OfAcks
<1> QED BY <1>4, Zenon DEF Reject, s, t

LEMMA AckAcks ==
  ASSUME NEW r, OfAcks(r), NEW f, NEW a
  PROVE  Leads(r, Acknowledge(f), a, a \cup {f})
<1> DEFINE s == Step("ack", "host", <<f>>)
<1>1. Looks(s, "ack", "host", {}, {}, {}, "end", "none") /\ s.what = <<f>>
  BY LooksStep
<1>2. Range(s.what) = {f}
  <2>1. Range(<<f>>) = {f}
    BY DEF Range
  <2> QED BY <1>1, <2>1, Zenon
<1> HIDE DEF s
<1>3. AcksLocal(r, s, a, a \cup {f})
  <2>1. /\ s.jump = "never" /\ s.layer = "host" /\ s.do = "ack" /\ s.fails = "end" /\ s.when = {} /\ s.unless = {}
    BY <1>1 DEF Looks
  <2>2. Asked(s, r.opts)
    BY <2>1 DEF Asked
  <2>3. "ack" # "claim" /\ "ack" # "out" /\ "host" \in {"host", "usb", "traffic"}
    OBVIOUS
  <2>4. a \cup {f} \subseteq a \cup (IF s.do = "ack" THEN Range(s.what) ELSE {})
    BY <2>1, <1>2
  <2> QED BY <2>1, <2>2, <2>3, <2>4, Zenon DEF AcksLocal
<1>4. Leads(r, <<s>>, a, a \cup {f})
  BY <1>1, <1>3, OneLeads DEF Looks, Local, OfAcks
<1> QED BY <1>4 DEF Acknowledge, s

-----------------------------------------------------------------------------
(* Plans that leave nothing on that they change only to look. *)
Clean == Left(Lookers, {})
Even == Class(OnChip \cup {"in", "out", "ack", "claim"}, Lookers, {"none", "bb", "traffic"})

(* An error that is kept finds nothing on but what the steps after it turn off. *)
Covered(s, a) ==
  /\ s.fails = "keep" /\ s.layer = "firmware" => "grant" \in a.gone /\ "dl" \in a.gone \cup a.late
  /\ s.fails = "keep" /\ s.layer = "efuse" => "dl" \in a.gone /\ "grant" \in a.gone \cup a.late

LEMMA EvenLeft ==
  ASSUME NEW r, r.kind = "left", ~r.led, NEW a, a.gone \subseteq Lookers, NEW P, Does(P, Even),
         \A i \in 1..Len(P) : Covered(P[i], a)
  PROVE  Leads(r, P, a, a)
<1>1. ASSUME NEW i \in 1..Len(P) PROVE EvenAt(r, P, a, i)
  <2>1. Fits(P[i], Even) /\ Inside(P, i) /\ Covered(P[i], a)
    BY DEF Does
  <2>2. P[i].sets \cap Lookers = {} /\ P[i].after \notin {"firmware", "efuse"}
    BY <2>1 DEF Fits, Even, Class
  <2>3. a.gone \subseteq (a.gone \cup P[i].clears) \ P[i].sets
    BY <2>2
  <2>4. LeftLocal(r, P[i], a, a) /\ LeftLands(r, P[i], a, a)
    BY <2>1, <2>2, <2>3 DEF LeftLocal, LeftLands, Covered, StaysLate, NoMoreLeft
  <2> QED BY <2>1, <2>4 DEF Local, Lands, EvenAt, Inside
<1>2. IsPlan(P)
  BY DEF Does
<1> QED BY <1>1, <1>2, EvenLeads

LEMMA CleanLeft ==
  ASSUME NEW r, r.kind = "left", ~r.led, NEW P, Does(P, Even)
  PROVE  Leads(r, P, Clean, Clean)
<1>1. Clean.gone = Lookers /\ \A s : Covered(s, Clean)
  BY DEF Clean, Left, Covered, Lookers
<1> QED BY <1>1, EvenLeft

(* One step that runs as usual. *)
LEMMA OneLeft ==
  ASSUME NEW r, r.kind = "left", ~r.led, NEW a, NEW b, NEW s, NEW d, NEW l, NEW n, NEW S, NEW C, NEW e,
         Looks(s, d, l, n, S, C, "end", e), e \in {"none", "bb", "traffic"}, l \notin {"led", "status"},
         b.gone \subseteq (a.gone \cup C) \ S, a.late \subseteq b.late
  PROVE  Leads(r, <<s>>, a, b)
<1>1. LeftLocal(r, s, a, b)
  BY DEF LeftLocal, Looks, StaysLate, GoesOn, MayBeQuiet, Asked
<1>2. IsStep(s) /\ s.jump = "never"
  BY DEF Looks
<1> QED BY <1>1, <1>2, OneLeads DEF Local

LEMMA RegisterLeft ==
  ASSUME NEW r, r.kind = "left", ~r.led, NEW a, NEW b, NEW l, l \notin {"none", "led", "status"}, NEW w, NEW F,
         a.late \subseteq b.late
  PROVE  /\ b.gone \subseteq a.gone => Leads(r, Read(l, w), a, b) /\ Leads(r, Puts(l, w), a, b) /\ Leads(r, Put(l, w), a, b)
         /\ b.gone \subseteq a.gone \ F => Leads(r, Setting(l, w, F), a, b)
         /\ b.gone \subseteq a.gone \cup F => Leads(r, Clearing(l, w, F), a, b)
<1>1. ASSUME NEW d \in {"read", "write"}, NEW v
      PROVE  /\ b.gone \subseteq a.gone => Leads(r, <<Step(d, l, v)>>, a, b)
             /\ b.gone \subseteq a.gone \ F => Leads(r, <<[Step(d, l, v) EXCEPT !.sets = F]>>, a, b)
             /\ b.gone \subseteq a.gone \cup F => Leads(r, <<[Step(d, l, v) EXCEPT !.clears = F]>>, a, b)
  <2>1. Looks(Step(d, l, v), d, l, {}, {}, {}, "end", "none")
    BY LooksStep
  <2>2. /\ Looks([Step(d, l, v) EXCEPT !.sets = F], d, l, {}, F, {}, "end", "none")
        /\ Looks([Step(d, l, v) EXCEPT !.clears = F], d, l, {}, {}, F, "end", "none")
    BY <2>1, LooksWith
  <2>3. ASSUME NEW s, NEW S, NEW C, Looks(s, d, l, {}, S, C, "end", "none"), b.gone \subseteq (a.gone \cup C) \ S
        PROVE  Leads(r, <<s>>, a, b)
    BY <2>3, OneLeft
  <2> QED BY <2>1, <2>2, <2>3
<1> QED BY <1>1, Zenon DEF Read, Puts, Put, Setting, Clearing

LEMMA KeepLeft ==
  ASSUME NEW r, r.kind = "left", ~r.led, NEW a, NEW b, NEW s, NEW d, NEW n, NEW S, NEW C, NEW e,
         Looks(s, d, "bb", n, S, C, "keep", e), e \in {"none", "bb", "traffic"},
         b.gone \subseteq (a.gone \cup C) \ S, a.late \subseteq b.late
  PROVE  Leads(r, <<s>>, a, b)
<1>1. LeftLocal(r, s, a, b)
  BY DEF LeftLocal, Looks, StaysLate, GoesOn, MayBeQuiet, Asked
<1>2. IsStep(s) /\ s.jump = "never"
  BY DEF Looks
<1> QED BY <1>1, <1>2, OneLeads DEF Local

(* Closing the download mode and revoking EFUSE access run whether or not an error is kept. *)
LEMMA DisableLeft ==
  ASSUME NEW r, r.kind = "left", ~r.led, NEW a, NEW w, NEW f, NEW l,
         \/ f = "dl" /\ l = "firmware"
         \/ f = "grant" /\ l = "efuse",
         Lookers \subseteq a.gone \cup {f}, a.late \subseteq {f}
  PROVE  Leads(r, AllTheSame(l, Failing("keep", Clearing(l, w, {f}))), a, Clean)
<1>1. PICK u : /\ AllTheSame(l, Failing("keep", Clearing(l, w, {f}))) = <<u>>
               /\ Looks(u, "write", l, {}, {}, {f}, "keep", l)
  BY DisableStep
<1>2. Clean.gone = Lookers /\ Clean.late = {}
  BY DEF Clean, Left
<1>3. LeftLocal(r, u, a, Clean)
  BY <1>1, <1>2 DEF LeftLocal, Looks, StaysLate, GoesOn, MayBeQuiet, Asked, Lookers
<1>4. IsStep(u) /\ u.jump = "never"
  BY <1>1 DEF Looks
<1> QED BY <1>1, <1>3, <1>4, OneLeads DEF Local

(* The firmware download closes its mode, an EFUSE read revokes its access. *)
LEMMA FirmwareLeft ==
  ASSUME NEW r, r.kind = "left", ~r.led
  PROVE  Leads(r, FirmwareSequence, Clean, Clean)
<1> DEFINE a == Left(Lookers \ {"dl"}, {"dl"})
<1>0. /\ Clean.gone = Lookers /\ Clean.late = {} /\ a.gone = Lookers \ {"dl"} /\ a.late = {"dl"}
  BY DEF Clean, Left
<1>1. Chip(Even)
  BY DEF Chip, Even, Class
<1>2. Leads(r, PreflightResetLoadedCode, Clean, Clean) /\ Leads(r, FirmwareStart, Clean, Clean)
  BY <1>1, DoesLower, CleanLeft
<1> HIDE DEF a
<1>3. Leads(r, Setting("firmware", "MCUFWDL", {"dl"}), Clean, a) /\ Leads(r, Put("firmware", "MCUFWDL+2"), a, a)
  BY <1>0, RegisterLeft
<1>4. Leads(r, FirmwareAttempts, a, a)
  <2>1. ASSUME NEW s, s.layer = "firmware", s.sets = {}, s.clears = {}, s.after = "none"
        PROVE  LeftLocal(r, s, a, a) /\ LeftLands(r, s, a, a)
    BY <2>1, <1>0 DEF LeftLocal, LeftLands, StaysLate, GoesOn, MayBeQuiet, NoMoreLeft, Lookers
  <2>2. \A w : LeftLocal(r, Step("write", "firmware", w), a, a)
    BY <2>1, LooksStep DEF Looks
  <2>3. \A n \in 1..DownloadAttempts : LeftLocal(r, Checksum(n), a, a) /\ LeftLands(r, Checksum(n), a, a)
    BY <2>1, ChecksumLooks
  <2> QED BY <2>2, <2>3, AttemptsLead DEF Local, Lands
<1>5. Leads(r, FirmwareDisable, a, Clean)
  BY <1>0, DisableLeft DEF FirmwareDisable
<1> QED BY <1>2, <1>3, <1>4, <1>5, Cat6 DEF FirmwareSequence, FirmwareAttempts

LEMMA EfuseLeft ==
  ASSUME NEW r, r.kind = "left", ~r.led
  PROVE  Leads(r, ReadEfusePhysical, Clean, Clean)
<1> DEFINE a == Left(Lookers \ {"grant"}, {"grant"})
           s == [Step("write", "efuse", <<"EFUSE_CTRL">>) EXCEPT !.fails = "keep"]
<1>0. /\ Clean.gone = Lookers /\ Clean.late = {} /\ a.gone = Lookers \ {"grant"} /\ a.late = {"grant"}
  BY DEF Clean, Left
<1>1. Looks(s, "write", "efuse", {}, {}, {}, "keep", "none")
  BY LooksStep, LooksWith
<1>2. EfuseReadByte = <<s>>
  BY Zenon DEF EfuseReadByte
<1> HIDE DEF a, s
<1>3. Leads(r, EfusePowerOn, Clean, a)
  <2>1. /\ Leads(r, Setting("efuse", "BURN_GNT", {"grant"}), Clean, a) /\ Leads(r, Read("efuse", "SYS_ISO_CTRL"), a, a)
        /\ Leads(r, Puts("efuse", <<"SYS_FUNC_EN", "SYS_CLKR">>), a, a)
    BY <1>0, RegisterLeft
  <2> QED BY <2>1, Cat3 DEF EfusePowerOn
<1>4. Leads(r, EfuseReadByte, a, a)
  <2>1. LeftLocal(r, s, a, a)
    BY <1>0, <1>1 DEF Looks, LeftLocal, StaysLate, GoesOn, MayBeQuiet, Lookers, NoMoreLeft
  <2> QED BY <2>1, <1>1, <1>2, OneLeads DEF Local, Looks
<1>5. Leads(r, FlattenSeq([n \in 1..EfuseBytes |-> EfuseReadByte]), a, a)
  <2> DEFINE B == EfuseReadByte
             f == [n \in 1..EfuseBytes |-> B]
  <2>0. IsPlan(B) /\ Leads(r, B, a, a)
    BY <1>4 DEF Leads
  <2> HIDE DEF B
  <2>1. Blocks(f, EfuseBytes) /\ \A n \in 1..EfuseBytes : Leads(r, f[n], a, a)
    BY <2>0, DiagStepConstants DEF Blocks
  <2> HIDE DEF f
  <2>2. Leads(r, FlattenSeq(f), a, a)
    BY <2>1, FlattenLeads
  <2> QED BY <2>2 DEF B, f
<1>6. Leads(r, EfusePowerOff, a, Clean)
  BY <1>0, DisableLeft DEF EfusePowerOff
<1> QED BY <1>3, <1>5, <1>6, Cat3 DEF ReadEfusePhysical

(* Steps that run although an error of another layer is kept. *)
LEMMA AfterLeft ==
  ASSUME NEW r, r.kind = "left", ~r.led, NEW P, NEW a, NEW b, Leads(r, P, a, b), NEW l, l \notin {"firmware", "efuse"},
         \A i \in 1..Len(P) : P[i].after \notin {"firmware", "efuse"}
  PROVE  Leads(r, AllTheSame(l, P), a, b)
<1> DEFINE Q == AllTheSame(l, P)
<1>1. PICK A : Weaker(r, a, A[1]) /\ Weaker(r, A[Len(P) + 1], b) /\ Fitting(r, P, A)
  BY DEF Leads
<1>2. IsPlan(P) /\ IsPlan(Q) /\ Len(Q) = Len(P) /\ \A i \in 1..Len(P) : Changed(P[i], Q[i], "after", l)
  BY AfterPlan DEF Leads
<1> HIDE DEF Q
<1>3. ASSUME NEW i \in 1..Len(P)
      PROVE  /\ Local(r, Q[i], A[i], A[i + 1])
             /\ Asked(Q[i], r.opts) /\ Q[i].jump # "never" =>
                  i + Q[i].skip <= Len(Q) /\ Lands(r, Q[i], A[i], A[i + 1 + Q[i].skip])
  <2> DEFINE s == P[i]
             t == Q[i]
  <2>1. /\ t.do = s.do /\ t.layer = s.layer /\ t.sets = s.sets /\ t.clears = s.clears /\ t.fails = s.fails
        /\ t.jump = s.jump /\ t.skip = s.skip /\ t.when = s.when /\ t.unless = s.unless /\ t.after = l
    BY <1>2 DEF Changed, Fields
  <2>2. /\ LeftLocal(r, s, A[i], A[i + 1]) /\ s.after \notin {"firmware", "efuse"}
        /\ Asked(s, r.opts) /\ s.jump # "never" =>
             i + s.skip <= Len(P) /\ LeftLands(r, s, A[i], A[i + 1 + s.skip])
    BY <1>1 DEF Fitting, Local, Lands
  <2> HIDE DEF s, t
  <2>3. Asked(t, r.opts) <=> Asked(s, r.opts)
    BY <2>1 DEF Asked
  <2>4. LeftLocal(r, t, A[i], A[i + 1])
    BY <2>1, <2>2, <2>3 DEF LeftLocal, StaysLate, GoesOn, MayBeQuiet
  <2>5. \A x : LeftLands(r, s, A[i], x) => LeftLands(r, t, A[i], x)
    BY <2>1 DEF LeftLands
  <2>6. Asked(t, r.opts) /\ t.jump # "never" =>
          i + t.skip <= Len(Q) /\ LeftLands(r, t, A[i], A[i + 1 + t.skip])
    BY <1>2, <2>1, <2>2, <2>3, <2>5
  <2> QED BY <2>4, <2>6 DEF Local, Lands, t
<1>4. Fitting(r, Q, A) /\ Weaker(r, A[Len(Q) + 1], b)
  BY <1>1, <1>2, <1>3 DEF Fitting
<1>5. Leads(r, Q, a, b)
  BY <1>1, <1>2, <1>4 DEF Leads
<1> QED BY <1>5 DEF Q

(* The calibration diagnostic puts the register page and the 3-wire settings back. *)
LEMMA IqkLeft ==
  ASSUME NEW r, r.kind = "left", ~r.led
  PROVE  Leads(r, IqkStandalone, Clean, Clean)
<1> DEFINE a == Left(Lookers \ {"page"}, {})
           b == Left(Lookers \ {"hssi"}, {})
           L(P, x, y) == Leads(r, P, x, y)
<1>0. /\ Clean.gone = Lookers /\ Clean.late = {} /\ a.gone = Lookers \ {"page"} /\ a.late = {}
      /\ b.gone = Lookers \ {"hssi"} /\ b.late = {}
  BY DEF Clean, Left
<1> HIDE DEF a, b
<1>1. \A w : \A x \in {Clean, a, b} : L(Read("bb", w), x, x)
  BY <1>0, RegisterLeft
<1>2. \A w : L(Setting("bb", w, {"page"}), Clean, a) /\ L(Clearing("bb", w, {"page"}), a, Clean)
  BY <1>0, RegisterLeft
<1>3. \A w : \A x \in {Clean, b} : L(Setting("bb", w, {"hssi"}), x, b)
  BY <1>0, RegisterLeft
<1>4. \A w : L(Failing("keep", Read("bb", w)), Clean, Clean)
  <2> SUFFICES ASSUME NEW w PROVE L(Failing("keep", Read("bb", w)), Clean, Clean)
    OBVIOUS
  <2> DEFINE s == Step("read", "bb", <<w>>)
             t == [s EXCEPT !.fails = "keep"]
  <2>1. Looks(s, "read", "bb", {}, {}, {}, "end", "none")
    BY LooksStep
  <2> HIDE DEF s
  <2>2. Looks(t, "read", "bb", {}, {}, {}, "keep", "none") /\ Failing("keep", <<s>>) = <<t>>
    BY <2>1, LooksWith, OneChanged
  <2> HIDE DEF t
  <2>3. L(<<t>>, Clean, Clean)
    <3>1. Clean.gone \subseteq (Clean.gone \cup {}) \ {} /\ Clean.late \subseteq Clean.late /\ "none" \in {"none", "bb", "traffic"}
      OBVIOUS
    <3> QED BY <3>1, <2>2, KeepLeft
  <2> QED BY <2>2, <2>3, Zenon DEF Read, s
<1>5. \A w : L(Failing("keep", Clearing("bb", w, {"hssi"})), b, Clean)
  <2> SUFFICES ASSUME NEW w PROVE L(Failing("keep", Clearing("bb", w, {"hssi"})), b, Clean)
    OBVIOUS
  <2> DEFINE h == {"hssi"}
             u == Step("write", "bb", <<w>>)
             s == [u EXCEPT !.clears = h]
             t == [s EXCEPT !.fails = "keep"]
  <2>1. Looks(u, "write", "bb", {}, {}, {}, "end", "none")
    BY LooksStep
  <2> HIDE DEF u
  <2>2. Looks(s, "write", "bb", {}, {}, h, "end", "none")
    BY <2>1, LooksWith
  <2> HIDE DEF s
  <2>3. Looks(t, "write", "bb", {}, {}, h, "keep", "none") /\ Failing("keep", <<s>>) = <<t>>
    BY <2>2, LooksWith, OneChanged
  <2> HIDE DEF t
  <2>4. L(<<t>>, b, Clean)
    <3>1. Clean.gone \subseteq (b.gone \cup h) \ {} /\ b.late \subseteq Clean.late /\ "none" \in {"none", "bb", "traffic"}
      BY <1>0
    <3> HIDE DEF h
    <3> QED BY <3>1, <2>3, KeepLeft
  <2> QED BY <2>3, <2>4, Zenon DEF Clearing, s, u, h
<1>6. \A P, Q, x, y, z : L(P, x, y) /\ L(Q, y, z) => L(P \o Q, x, z)
  BY Cat
<1> DEFINE k == Class(OnChip, {}, {"none"})
           D(P) == Does(P, k)
           X == Read("bb", "AFE backup") \o RfSerialRead("A") \o RfSerialRead("B") \o Read("bb", "IQK registers")
                \o Failing("keep", Clearing("bb", "HSSIRead", {"hssi"})) \o Read("bb", "HSSIRead")
<1>7. D(X)
  <2>1. Chip(k) /\ \A F : Apart(F, k)
    BY DEF Chip, Apart, Class, OnChip, Lookers
  <2>2. \A w, F : D(Read("bb", w)) /\ D(Setting("bb", w, F)) /\ D(Failing("keep", Clearing("bb", w, F)))
    <3> HIDE DEF k
    <3> QED BY <2>1, DoesRegister, DoesFailingRegister
  <2>3. \A P, Q : D(P) /\ D(Q) => D(P \o Q)
    BY DoesCat
  <2> HIDE DEF D
  <2>4. \A w : D(RfSerialRead(w))
    BY <2>2, <2>3 DEF RfSerialRead
  <2> QED BY <2>2, <2>3, <2>4
<1>8. \A i \in 1..Len(X) : X[i].after \notin {"firmware", "efuse"}
  <2> HIDE DEF X
  <2>1. \A i \in 1..Len(X) : Fits(X[i], k)
    BY <1>7 DEF Does
  <2> QED BY <2>1 DEF Fits, Class
<1> HIDE DEF L
<1>9. L(PageC1Probe, Clean, Clean)
  BY <1>1, <1>2, <1>4, <1>6 DEF PageC1Probe
<1>10. \A w : \A x \in {Clean, b} : L(RfSerialRead(w), x, b)
  BY <1>1, <1>3, <1>6 DEF RfSerialRead
<1>11. L(X, Clean, Clean)
  BY <1>1, <1>5, <1>6, <1>10
<1>12. L(AllTheSame("bb", X), Clean, Clean)
  <2> HIDE DEF X
  <2> QED BY <1>0, <1>8, <1>11, AfterLeft DEF L
<1>13. L(IqkStandalone, Clean, Clean)
  BY <1>1, <1>6, <1>9, <1>12 DEF IqkStandalone
<1> QED BY <1>13 DEF L

-----------------------------------------------------------------------------
(* What follows the claim of the adapter asks for no acknowledgement and leaves nothing on. *)
Suited(r) == r.kind = "acks" \/ (r.kind = "left" /\ ~r.led)
ClassOf(r) == IF r.kind = "acks" THEN Claimed(r) ELSE Even
Good(P, r) ==
  /\ r.kind = "acks" => Does(P, Claimed(r))
  /\ r.kind = "left" => Leads(r, P, Clean, Clean)

LEMMA ClassFits ==
  ASSUME NEW r
  PROVE  /\ Chip(ClassOf(r)) /\ "traffic" \in ClassOf(r).after /\ "in" \in ClassOf(r).do
         /\ (r.kind = "acks" => r.out = {}) => "out" \in ClassOf(r).do
BY DEF ClassOf, Chip, Claimed, Even, Class, OnChip

LEMMA GoodOf ==
  ASSUME NEW r, Suited(r), NEW P, Does(P, ClassOf(r))
  PROVE  Good(P, r)
<1>1. CASE r.kind = "acks"
  BY <1>1 DEF Good, ClassOf
<1>2. CASE r.kind = "left" /\ ~r.led
  <2>1. Does(P, Even)
    BY <1>2 DEF ClassOf
  <2>2. Leads(r, P, Clean, Clean)
    BY <1>2, <2>1, CleanLeft
  <2> QED BY <1>2, <2>2 DEF Good
<1> QED BY <1>1, <1>2 DEF Suited

LEMMA GoodCat ==
  ASSUME NEW r, NEW P, NEW Q, Good(P, r), Good(Q, r)
  PROVE  Good(P \o Q, r)
BY DoesCat, Cat DEF Good

LEMMA GoodOption ==
  ASSUME NEW r, NEW P, Good(P, r), NEW o
  PROVE  Good(When(o, P), r) /\ Good(Unless(o, P), r) /\ Good(In(o, P), r)
<1>1. Does(P, Claimed(r)) =>
        Does(When(o, P), Claimed(r)) /\ Does(Unless(o, P), Claimed(r)) /\ Does(In(o, P), Claimed(r))
  BY DoesOption
<1>2. ASSUME Leads(r, P, Clean, Clean)
      PROVE  Leads(r, When(o, P), Clean, Clean) /\ Leads(r, Unless(o, P), Clean, Clean) /\ Leads(r, In(o, P), Clean, Clean)
  <2>1. IsPlan(P)
    BY <1>2 DEF Leads
  <2> QED BY <2>1, <1>2, WhenLeads, UnlessLeads, InLeads
<1> QED BY <1>1, <1>2 DEF Good

LEMMA GoodSpecial ==
  ASSUME NEW r, Suited(r)
  PROVE  Good(FirmwareSequence, r) /\ Good(ReadEfusePhysical, r) /\ Good(IqkStandalone, r)
<1>1. CASE r.kind = "acks"
  <2> DEFINE k == Claimed(r)
             L(P) == Does(P, k)
  <2>1. Chip(k) /\ {"firmware", "efuse", "bb"} \subseteq k.after /\ \A F : Apart(F, k)
    BY DEF Chip, Apart, Claimed, Class, OnChip
  <2> HIDE DEF k
  <2>2. \A P, Q : L(P) /\ L(Q) => L(P \o Q)
    BY DoesCat
  <2>3. \A P : L(P) => L(AllTheSame("firmware", P)) /\ L(AllTheSame("efuse", P)) /\ L(AllTheSame("bb", P))
    BY <2>1, DoesAfter
  <2>4. \A l, w, F : l # "none" => /\ L(Read(l, w)) /\ L(Puts(l, w)) /\ L(Put(l, w))
                                   /\ L(Setting(l, w, F)) /\ L(Clearing(l, w, F))
    BY <2>1, DoesRegister
  <2>5. \A l, w, F : l # "none" => L(Failing("keep", Read(l, w))) /\ L(Failing("keep", Clearing(l, w, F)))
    BY <2>1, DoesFailingRegister
  <2>6. L(PreflightResetLoadedCode) /\ L(FirmwareStart) /\ L(FirmwareAttempts) /\ L(EfuseBytesRead)
    BY <2>1, DoesLower, DoesUpper
  <2> HIDE DEF L
  <2>7. L(FirmwareSequence)
    BY <2>2, <2>3, <2>4, <2>5, <2>6 DEF FirmwareSequence, FirmwareAttempts, FirmwareDisable
  <2>8. L(ReadEfusePhysical)
    BY <2>2, <2>3, <2>4, <2>5, <2>6 DEF ReadEfusePhysical, EfusePowerOn, EfuseBytesRead, EfusePowerOff
  <2>9. L(PageC1Probe) /\ \A w : L(RfSerialRead(w))
    BY <2>2, <2>4, <2>5 DEF PageC1Probe, RfSerialRead
  <2>10. L(IqkStandalone)
    BY <2>2, <2>3, <2>4, <2>5, <2>9 DEF IqkStandalone
  <2> QED BY <1>1, <2>7, <2>8, <2>10 DEF L, k, Good
<1>2. CASE r.kind = "left" /\ ~r.led
  <2>1. Leads(r, FirmwareSequence, Clean, Clean) /\ Leads(r, ReadEfusePhysical, Clean, Clean) /\ Leads(r, IqkStandalone, Clean, Clean)
    BY <1>2, FirmwareLeft, EfuseLeft, IqkLeft
  <2> QED BY <1>2, <2>1 DEF Good
<1> QED BY <1>1, <1>2 DEF Suited

(* Everything that follows the claim of the adapter. *)
LEMMA DoesPreparation ==
  ASSUME NEW k, Chip(k), "traffic" \in k.after
  PROVE  /\ Does(QueueLayout, k) /\ Does(RfCalibrationProbe, k) /\ Does(ChannelPhases, k) /\ Does(MonitorOpmode, k)
         /\ Does(MonitorReceiveFilter, k) /\ Does(PowerAndProfile, k) /\ Does(PreTxProbe, k) /\ Does(PreTxRfWrite, k)
         /\ Does(PreTxWrites, k) /\ Does(PreTxClear, k) /\ Does(BenchAddressing, k) /\ Does(BenchScheduler, k)
         /\ Does(BenchTrace, k) /\ Does(BenchMediaStatus, k) /\ Does(BenchPostTx, k)
         /\ Does(TxPowerControl, k) /\ Does(CalibrationProfile, k)
<1> DEFINE L(P) == Does(P, k)
<1>c. \A P, Q : L(P) /\ L(Q) => L(P \o Q)
  BY DoesCat
<1>o. \A P, o : L(P) => L(When(o, P)) /\ L(Unless(o, P)) /\ L(In(o, P)) /\ L(AllTheSame("traffic", P))
  BY DoesOption, DoesAfter
<1>a. Apart({"agc"}, k) /\ Apart({"cal"}, k)
  BY UsualFacts
<1>r. \A l, w, F : l # "none" =>
        /\ L(Read(l, w)) /\ L(Puts(l, w)) /\ L(Put(l, w)) /\ (Apart(F, k) => L(Setting(l, w, F))) /\ L(Clearing(l, w, F))
  BY DoesRegister
<1>k. \A w : L(Check(w)) /\ L(Checks(w)) /\ L(File(w))
  BY DoesHost
<1>1. L(ChannelSequence) /\ L(TxSchedulerTail) /\ L(ProgramLocalMac)
  BY DoesUpper
<1> HIDE DEF L
<1>2. L(QueueLayout) /\ L(RfCalibrationProbe) /\ L(TxPowerSource)
  BY <1>c, <1>r, <1>k DEF QueueLayout, RfCalibrationProbe, TxPowerSource
<1>3. L(TxPowerControl) /\ L(CalibrationProfile) /\ L(ChannelPhases)
  BY <1>a, <1>c, <1>r, <1>k, <1>1, <1>2 DEF TxPowerControl, CalibrationProfile, ChannelPhases
<1>4. /\ L(MonitorOpmode) /\ L(MonitorReceiveFilter) /\ L(ClearTxDmaStatus) /\ L(RfRegisterWrite)
      /\ \A w : L(RegisterWrite(w))
  BY <1>r DEF MonitorOpmode, MonitorReceiveFilter, ClearTxDmaStatus, RfRegisterWrite, RegisterWrite
<1>5. L(TraceApply) /\ L(TraceSequenceApply) /\ L(PostTxMutations) /\ L(MediaStatusH2c)
  BY <1>c, <1>k, <1>r, <1>4 DEF TraceApply, TraceSequenceApply, PostTxMutations, MediaStatusH2c
<1>6. L(PowerAndProfile)
  BY <1>c, <1>o, <1>3 DEF PowerAndProfile
<1>7. L(PreTxProbe) /\ L(PreTxRfWrite) /\ L(PreTxWrites) /\ L(PreTxClear)
  BY <1>c, <1>o, <1>2, <1>4 DEF PreTxProbe, PreTxRfWrite, PreTxWrites, PreTxClear
<1>8. L(BenchAddressing) /\ L(BenchTrace) /\ L(BenchMediaStatus) /\ L(BenchPostTx)
  BY <1>c, <1>o, <1>1, <1>4, <1>5 DEF BenchAddressing, BenchTrace, BenchMediaStatus, BenchPostTx
<1>9. L(BenchScheduler)
  BY <1>c, <1>o, <1>r, <1>4, <1>7 DEF BenchScheduler
<1> QED BY <1>2, <1>3, <1>4, <1>6, <1>7, <1>8, <1>9 DEF L

LEMMA DoesTraffic ==
  ASSUME NEW k, Chip(k), "traffic" \in k.after, "in" \in k.do
  PROVE  /\ Does(TxStatus, k) /\ Does(AllTheSame("traffic", TxStatus), k) /\ Does(RxCapture, k) /\ Does(LedBlink, k)
         /\ Does(LedWrite(TRUE), k) /\ Does(LedWrite(FALSE), k)
         /\ "out" \in k.do =>
              /\ Does(Submits, k) /\ Does(ListenLoop, k) /\ Does(BridgeRunLoop, k) /\ Does(RadioRunFlow, k)
              /\ Does(WithIndication(Submit), k) /\ Does(WithIndication(Submits), k)
<1> DEFINE L(P) == Does(P, k)
           T == "out" \in k.do
<1>0. Repeats \in Nat \ {0} /\ Apart({"led"}, k) /\ "none" \in k.after
  BY DiagStepConstants, UsualFacts DEF Chip
<1>c. \A P, Q : L(P) /\ L(Q) => L(P \o Q)
  BY DoesCat
<1>o. \A P, o : L(P) => L(When(o, P)) /\ L(Unless(o, P)) /\ L(In(o, P)) /\ L(AllTheSame("traffic", P))
  BY DoesOption, DoesAfter
<1>k. \A w : L(Check(w)) /\ L(Checks(w)) /\ L(File(w))
  BY <1>0, DoesHost
<1>n. \A B : L(B) => L(FlattenSeq([n \in 1..Repeats |-> B]))
  BY <1>0, DoesRepeat
<1>t. \A w : /\ L(BulkIn(w)) /\ L(Failing("keep", BulkIn(w)))
             /\ T => L(Failing("keep", BulkOut(w))) /\ L(Failing("drop", BulkOut(w)))
  BY <1>0, DoesTransfer
<1>1. L(Failing("quiet", Read("status", "TX status")))
  BY <1>0, DoesFailingRegister
<1>l. L(LedWrite(TRUE)) /\ L(LedWrite(FALSE))
  <2>1. L(Setting("led", "LEDCFG", {"led"})) /\ L(Clearing("led", "LEDCFG", {"led"}))
    BY <1>0, DoesRegister
  <2> QED BY <2>1, Zenon DEF LedWrite
<1>2. \A h \in {"quiet", "drop"} : \A on \in BOOLEAN : L(Failing(h, LedWrite(on)))
  <2>1. ASSUME NEW h \in {"quiet", "drop"} PROVE L(Failing(h, Setting("led", "LEDCFG", {"led"}))) /\ L(Failing(h, Clearing("led", "LEDCFG", {"led"})))
    BY <1>0, DoesFailingRegister
  <2> QED BY <2>1, Zenon DEF LedWrite
<1>p. L(TxPowerControl) /\ L(CalibrationProfile) /\ L(MonitorOpmode)
  BY <1>0, DoesPreparation
<1> HIDE DEF L, T
<1>3. L(TxStatus) /\ (T => L(Submit))
  BY <1>o, <1>t, <1>1 DEF Submit, TxStatus
<1>4. L(RxCapture) /\ (T => L(Submits) /\ L(ListenLoop))
  BY <1>c, <1>k, <1>n, <1>t, <1>3 DEF Submits, RxCapture, ListenLoop
<1>5. L(TxActivityLed(TRUE)) /\ L(TxActivityLed(FALSE)) /\ L(HeartbeatLed(TRUE)) /\ L(HeartbeatLed(FALSE))
  BY <1>o, <1>2 DEF TxActivityLed, HeartbeatLed
<1>6. T => L(BridgeRunLoop)
  BY <1>c, <1>o, <1>t, <1>3, <1>5 DEF BridgeRunLoop
<1>7. \A P : L(P) => L(WithIndication(P))
  BY <1>c, <1>o, <1>3, <1>5 DEF WithIndication
<1>9. T => L(RadioRunFlow)
  BY <1>c, <1>o, <1>k, <1>t, <1>p DEF RadioRunFlow
<1>10. L(LedBlink)
  BY <1>c, <1>n, <1>l DEF LedBlink
<1>11. L(AllTheSame("traffic", TxStatus))
  BY <1>o, <1>3
<1> QED BY <1>3, <1>4, <1>6, <1>7, <1>9, <1>10, <1>11, <1>l DEF L, T

(* The layers and the parts made of them. *)
LEMMA GoodLayers ==
  ASSUME NEW r, Suited(r)
  PROVE  /\ Good(PowerOnSequence, r) /\ Good(LltSequence, r) /\ Good(QueueDmaSequence, r) /\ Good(MacSequence, r)
         /\ Good(BbSequence, r) /\ Good(RfSequence, r) /\ Good(ReadEfusePhysical, r) /\ Good(FirmwareSequence, r)
         /\ Good(IqkStandalone, r) /\ Good(QueueLayout, r) /\ Good(SameSessionInit, r)
         /\ Good(InitLowerPhases, r) /\ Good(InitMacPhases, r) /\ Good(InitUpperPhases, r)
         /\ Good(RadioRunLowerPhases, r) /\ Good(RadioRunUpperPhases, r)
         /\ Good(PreTxInit, r) /\ Good(BridgeRunPrepare, r) /\ Good(ListenPrepare, r)
<1> DEFINE k == ClassOf(r)
           L(P) == Good(P, r)
<1>0. Chip(k) /\ "traffic" \in k.after
  BY ClassFits
<1> HIDE DEF k
<1>g. \A P : Does(P, k) => L(P)
  BY GoodOf DEF k
<1>c. \A P, Q : L(P) /\ L(Q) => L(P \o Q)
  BY GoodCat
<1>o. \A P, o : L(P) => L(When(o, P)) /\ L(Unless(o, P)) /\ L(In(o, P))
  BY GoodOption
<1>1. /\ Does(PowerOnSequence, k) /\ Does(LltSequence, k) /\ Does(QueueDmaSequence, k) /\ Does(MacSequence, k) /\ Does(MacTablePlan, k)
      /\ Does(BbSequence, k) /\ Does(RfSequence, k) /\ Does(ChannelSequence, k) /\ Does(TxSchedulerTail, k) /\ Does(ProgramLocalMac, k)
  BY <1>0, DoesLower, DoesUpper
<1>2. /\ Does(QueueLayout, k) /\ Does(RfCalibrationProbe, k) /\ Does(ChannelPhases, k) /\ Does(MonitorReceiveFilter, k)
      /\ Does(PowerAndProfile, k) /\ Does(PreTxProbe, k) /\ Does(PreTxRfWrite, k) /\ Does(PreTxWrites, k) /\ Does(PreTxClear, k)
  BY <1>0, DoesPreparation
<1>3. \A w : Does(File(w), k)
  BY <1>0, DoesHost
<1>4. L(FirmwareSequence) /\ L(ReadEfusePhysical) /\ L(IqkStandalone)
  BY GoodSpecial
<1> HIDE DEF L
<1>5. /\ L(PowerOnSequence) /\ L(LltSequence) /\ L(QueueDmaSequence) /\ L(MacSequence) /\ L(MacTablePlan)
      /\ L(BbSequence) /\ L(RfSequence) /\ L(ChannelSequence) /\ L(TxSchedulerTail) /\ L(ProgramLocalMac)
  BY <1>g, <1>1
<1>6. /\ L(QueueLayout) /\ L(RfCalibrationProbe) /\ L(ChannelPhases) /\ L(MonitorReceiveFilter)
      /\ L(PowerAndProfile) /\ L(PreTxProbe) /\ L(PreTxRfWrite) /\ L(PreTxWrites) /\ L(PreTxClear) /\ \A w : L(File(w))
  BY <1>g, <1>2, <1>3
<1>7. L(ProgramEfuseMacId) /\ L(FirmwareAndLlt)
  BY <1>c, <1>o, <1>4, <1>5 DEF ProgramEfuseMacId, FirmwareAndLlt
<1>8. L(MacAndRadioPhases)
  BY <1>c, <1>5, <1>6, <1>7 DEF MacAndRadioPhases
<1>9. L(SameSessionInit)
  BY <1>c, <1>5, <1>6, <1>7, <1>8 DEF SameSessionInit
<1>10. L(InitLowerPhases) /\ L(InitMacPhases) /\ L(InitUpperPhases)
  BY <1>c, <1>o, <1>4, <1>5, <1>6, <1>7 DEF InitLowerPhases, InitMacPhases, InitUpperPhases
<1>11. L(RadioRunLowerPhases) /\ L(RadioRunUpperPhases)
  BY <1>c, <1>5, <1>6, <1>7 DEF RadioRunLowerPhases, RadioRunUpperPhases
<1>12. L(PreTxInit) /\ L(BridgeRunInit)
  BY <1>c, <1>o, <1>6, <1>9 DEF PreTxInit, BridgeRunInit
<1>13. L(BridgeRunPrepare) /\ L(ListenPrepare)
  BY <1>c, <1>o, <1>6, <1>12 DEF BridgeRunPrepare, ListenPrepare, ListenWrites
<1> QED BY <1>4, <1>5, <1>6, <1>9, <1>10, <1>11, <1>12, <1>13 DEF L

LEMMA ClaimedDoes ==
  ASSUME NEW r
  PROVE  /\ Chip(Claimed(r)) /\ "traffic" \in Claimed(r).after /\ "in" \in Claimed(r).do
         /\ r.out = {} => "out" \in Claimed(r).do
BY DEF Chip, Claimed, Class, OnChip

(* Opening the adapter, and what is looked up before. *)
LEMMA OpenAcks ==
  ASSUME NEW r, OfAcks(r), NEW a
  PROVE  /\ Leads(r, QueueLayout, a, a) /\ Leads(r, BbTables, a, a) /\ Leads(r, RfTables, a, a) /\ Leads(r, InitAssets, a, a)
         /\ Leads(r, WritesRegisters, a, a \cup {Registers})
         /\ Enough(r, a) =>
              /\ Leads(r, LibusbOpen, a, a) /\ Leads(r, MacosOpen, a, a) /\ Leads(r, OpenTransport, a, a)
              /\ Leads(r, TxOpen, a, a) /\ Leads(r, RxOpen, a, a) /\ Leads(r, BridgeRunOpen, a, a)
<1> DEFINE M(P) == Leads(r, P, a, a)
<1>c. \A P, Q : M(P) /\ M(Q) => M(P \o Q)
  BY Cat
<1>k. \A w : M(Check(w)) /\ M(Checks(w)) /\ M(File(w)) /\ (Enough(r, a) => M(Claim(w)))
  BY StepAcks
<1>i. \A P, h : M(P) => M(In(h, P))
  BY InLeads
<1>1. Leads(r, WritesRegisters, a, a \cup {Registers})
  BY AckAcks DEF WritesRegisters, Registers
<1> HIDE DEF M
<1>2. M(QueueLayout) /\ M(BbTables) /\ M(RfTables) /\ M(InitAssets)
  BY <1>c, <1>k DEF QueueLayout, BbTables, RfTables, InitAssets
<1>3. Enough(r, a) => /\ M(LibusbOpen) /\ M(MacosOpen) /\ M(OpenTransport) /\ M(TxOpen) /\ M(RxOpen) /\ M(BridgeRunOpen)
  BY <1>c, <1>k, <1>i DEF LibusbOpen, MacosOpen, OpenTransport, TxOpen, RxOpen, BridgeRunOpen
<1> QED BY <1>1, <1>2, <1>3 DEF M

(* The smoke tests that write registers. *)
LEMMA RegisterSmokes ==
  ASSUME NEW r, OfAcks(r), r.claim = {}
  PROVE  \A P \in {LedSmoke, PowerOnSmoke, MacosPowerOnSmoke, FirmwareSmoke, MacosFirmwareSmoke, LltSmoke, MacosLltSmoke,
                   QueueDmaSmoke, MacosQueueDmaSmoke, MacSmoke, MacosMacSmoke, BbSmoke, MacosBbSmoke, RfSmoke, MacosRfSmoke,
                   EfuseDump, MacosEfuseDump} : GuardedPlan(r, P)
<1> DEFINE z == {}
           R == {Registers}
           M(P, a, b) == Leads(r, P, a, b)
           G(P) == IsPlan(P) /\ GuardedPlan(r, P)
           T(P) == Does(P, Claimed(r))
<1>c. \A P, Q, a, b, c : M(P, a, b) /\ M(Q, b, c) => M(P \o Q, a, c)
  BY Cat
<1>g. \A P, b : M(P, z, b) => G(P)
  BY GuardedBase DEF Leads
<1>t. \A P, Q : G(P) /\ T(Q) => G(P \o Q)
  BY GuardedThen
<1>k. \A w, a : M(Check(w), a, a) /\ M(Checks(w), a, a) /\ M(File(w), a, a)
  BY StepAcks
<1>1. Suited(r) /\ r.kind = "acks"
  BY DEF OfAcks, Suited
<1>2. \A a : a # {} => M(LibusbOpen, a, a) /\ M(MacosOpen, a, a)
  BY OpenAcks DEF Enough
<1>3. \A a : M(QueueLayout, a, a) /\ M(BbTables, a, a) /\ M(RfTables, a, a)
  BY OpenAcks
<1>4. M(WritesRegisters, z, R)
  <2>1. z \cup {Registers} = R
    OBVIOUS
  <2> HIDE DEF z, R
  <2>2. M(WritesRegisters, z, z \cup {Registers})
    BY OpenAcks
  <2> QED BY <2>1, <2>2
<1>5. /\ T(PowerOnSequence) /\ T(FirmwareSequence) /\ T(LltSequence) /\ T(QueueDmaSequence)
      /\ T(MacSequence) /\ T(BbSequence) /\ T(RfSequence) /\ T(ReadEfusePhysical)
  BY <1>1, GoodLayers DEF Good
<1>6. /\ \A w : T(File(w))
      /\ T(LedWrite(TRUE)) /\ T(LedWrite(FALSE)) /\ T(LedBlink)
  BY ClaimedDoes, DoesHost, DoesTraffic
<1>8. \A P, Q : T(P) /\ T(Q) => T(P \o Q)
  BY DoesCat
<1>9. \A P, o : T(P) => T(When(o, P)) /\ T(Unless(o, P))
  BY DoesOption
<1>e. \E e : e # {} /\ M(Acknowledge("i_understand_this_writes_control_registers"), z, e)
  <2> DEFINE f == "i_understand_this_writes_control_registers"
  <2>1. z \cup {f} # {}
    OBVIOUS
  <2>2. M(Acknowledge(f), z, z \cup {f})
    BY AckAcks
  <2> QED BY <2>1, <2>2
<1>n. R # {}
  OBVIOUS
<1> HIDE DEF z, R, M, G, T
<1>l. M(LibusbOpen, R, R) /\ M(MacosOpen, R, R)
  BY <1>2, <1>n
<1>11. G(PowerOnSmoke) /\ G(MacosPowerOnSmoke)
  BY <1>c, <1>g, <1>t, <1>4, <1>5, <1>l DEF PowerOnSmoke, MacosPowerOnSmoke
<1>12. G(FirmwareSmoke) /\ G(MacosFirmwareSmoke)
  <2>1. M(FirmwareArguments, z, R)
    BY <1>c, <1>k, <1>4 DEF FirmwareArguments
  <2> QED BY <2>1, <1>c, <1>g, <1>t, <1>5, <1>l DEF FirmwareSmoke, MacosFirmwareSmoke
<1>13. G(LltSmoke) /\ G(MacosLltSmoke)
  <2>1. M(WritesRegisters \o Check("poll_attempts"), z, R)
    BY <1>c, <1>k, <1>4
  <2> QED BY <2>1, <1>c, <1>g, <1>t, <1>5, <1>l DEF LltSmoke, MacosLltSmoke
<1>14. G(QueueDmaSmoke) /\ G(MacosQueueDmaSmoke)
  <2>1. M(WritesRegisters \o LibusbOpen, z, R) /\ M(QueueLayout \o WritesRegisters, z, R)
    BY <1>c, <1>3, <1>4, <1>l
  <2>2. M(WritesRegisters \o LibusbOpen \o QueueLayout, z, R) /\ M(QueueLayout \o WritesRegisters \o MacosOpen, z, R)
    BY <2>1, <1>c, <1>3, <1>l
  <2> QED BY <2>2, <1>g, <1>t, <1>5 DEF QueueDmaSmoke, MacosQueueDmaSmoke
<1>15. G(MacSmoke) /\ G(MacosMacSmoke)
  BY <1>c, <1>g, <1>t, <1>4, <1>5, <1>l DEF MacSmoke, MacosMacSmoke
<1>16. G(BbSmoke) /\ G(MacosBbSmoke)
  <2>1. M(BbTables \o WritesRegisters, z, R)
    BY <1>c, <1>3, <1>4
  <2> QED BY <2>1, <1>c, <1>g, <1>t, <1>5, <1>l DEF BbSmoke, MacosBbSmoke
<1>17. G(RfSmoke) /\ G(MacosRfSmoke)
  <2>1. M(RfTables \o WritesRegisters, z, R)
    BY <1>c, <1>3, <1>4
  <2> QED BY <2>1, <1>c, <1>g, <1>t, <1>5, <1>l DEF RfSmoke, MacosRfSmoke
<1>18. G(EfuseDump) /\ G(MacosEfuseDump)
  <2>1. PICK e : e # {} /\ M(Acknowledge("i_understand_this_writes_control_registers"), z, e)
    BY <1>e
  <2>2. M(EfuseArguments, z, e) /\ M(LibusbOpen, e, e) /\ M(MacosOpen, e, e)
    BY <2>1, <1>c, <1>k, <1>2 DEF EfuseArguments
  <2>3. T(EfuseOutput)
    BY <1>6, <1>8 DEF EfuseOutput
  <2> QED BY <2>2, <2>3, <1>c, <1>g, <1>t, <1>5 DEF EfuseDump, MacosEfuseDump
<1>19. G(LedSmoke)
  <2>1. M(WritesRegisters \o Checks(<<"blink_count", "duration">>), z, R)
    BY <1>c, <1>k, <1>4
  <2>2. M(WritesRegisters \o Checks(<<"blink_count", "duration">>) \o LibusbOpen, z, R)
    BY <2>1, <1>c, <1>l
  <2>3. /\ T(When({"on"}, LedWrite(TRUE))) /\ T(Unless({"on"}, When({"off"}, LedWrite(FALSE))))
        /\ T(Unless({"on", "off"}, LedBlink))
    BY <1>6, <1>9
  <2> QED BY <2>2, <2>3, <1>g, <1>t DEF LedSmoke
<1> QED BY <1>11, <1>12, <1>13, <1>14, <1>15, <1>16, <1>17, <1>18, <1>19 DEF G

(* The other smoke tests. *)
LEMMA TransportSmokes ==
  ASSUME NEW r, OfAcks(r), r.claim = {}, r.out = {SubmitsBulkOut}
  PROVE  /\ GuardedPlan(r, InterfaceSmoke) /\ GuardedPlan(r, BulkInSmoke) /\ GuardedPlan(r, BulkOutSmoke)
         /\ GuardedPlan(r, SessionSmoke)
<1> DEFINE z == {}
           f == "i_understand_this_may_reconfigure_usb"
           a == {f}
           b == {f} \cup {SubmitsBulkOut}
           M(P, x, y) == Leads(r, P, x, y)
<1>c. \A P, Q, x, y, w : M(P, x, y) /\ M(Q, y, w) => M(P \o Q, x, w)
  BY Cat
<1>g. \A P, y : M(P, z, y) => GuardedPlan(r, P)
  BY GuardedBase
<1>k. \A w, x : M(Check(w), x, x) /\ M(Checks(w), x, x) /\ M(File(w), x, x) /\ M(Read("usb", w), x, x) /\ M(BulkIn(w), x, x)
  BY StepAcks
<1>1. M(ReconfiguresUsb, z, a)
  <2>1. z \cup {f} = a
    OBVIOUS
  <2> HIDE DEF z, a, f
  <2>2. M(Acknowledge(f), z, z \cup {f})
    BY AckAcks
  <2> QED BY <2>1, <2>2, Zenon DEF ReconfiguresUsb, f
<1>2. M(Acknowledge("i_understand_this_submits_bulk_out"), a, b)
  BY AckAcks DEF SubmitsBulkOut
<1>3. M(MacosOpen, a, a) /\ M(MacosOpen, b, b)
  <2>1. Enough(r, a) /\ Enough(r, b)
    BY DEF Enough
  <2> QED BY <2>1, OpenAcks
<1>4. \A w : M(BulkOut(w), b, b)
  <2>1. r.out \subseteq b
    OBVIOUS
  <2> QED BY <2>1, StepAcks
<1> HIDE DEF z, a, b, M
<1>5. GuardedPlan(r, InterfaceSmoke) /\ GuardedPlan(r, BulkInSmoke)
  <2>1. \A w : M(ReconfiguresUsb \o Check(w), z, a)
    BY <1>c, <1>k, <1>1
  <2>2. \A w : M(ReconfiguresUsb \o Check(w) \o MacosOpen, z, a)
    BY <2>1, <1>c, <1>3
  <2>3. M(InterfaceSmoke, z, a) /\ M(BulkInSmoke, z, a)
    BY <2>2, <1>c, <1>k DEF InterfaceSmoke, BulkInSmoke
  <2> QED BY <2>3, <1>g
<1>6. M(ReconfiguresUsb \o Acknowledge("i_understand_this_submits_bulk_out"), z, b)
  BY <1>c, <1>1, <1>2
<1>7. M(BulkOutSmoke, z, b)
  BY <1>c, <1>3, <1>4, <1>6 DEF BulkOutSmoke
<1>8. M(SessionSmoke, z, b)
  <2>1. M(SessionTransfers, b, b)
    BY <1>c, <1>k, <1>4 DEF SessionTransfers
  <2>2. M(ReconfiguresUsb \o Acknowledge("i_understand_this_submits_bulk_out") \o Check("length"), z, b)
    BY <1>6, <1>c, <1>k
  <2> QED BY <2>1, <2>2, <1>c, <1>3 DEF SessionSmoke
<1> QED BY <1>5, <1>7, <1>8, <1>g

LEMMA LookingSmokes ==
  ASSUME NEW r, OfAcks(r), r.claim = {}, r.guarded = FALSE
  PROVE  /\ GuardedPlan(r, RegSmoke) /\ GuardedPlan(r, MacosRegSmoke) /\ GuardedPlan(r, DescriptorSmoke)
         /\ GuardedPlan(r, ExtractFirmware)
<1> DEFINE z == {}
           M(P) == Leads(r, P, z, z)
<1>c. \A P, Q : M(P) /\ M(Q) => M(P \o Q)
  BY Cat
<1>g. \A P : M(P) => GuardedPlan(r, P)
  BY GuardedBase
<1>k. \A w : M(Check(w)) /\ M(Checks(w)) /\ M(File(w)) /\ M(Read("usb", w))
  BY StepAcks
<1>1. M(LibusbOpen) /\ M(MacosOpen)
  <2>1. Enough(r, z)
    BY DEF Enough
  <2> QED BY <2>1, OpenAcks
<1> HIDE DEF M
<1>2. M(RegSmoke) /\ M(MacosRegSmoke)
  BY <1>c, <1>k, <1>1 DEF RegSmoke, MacosRegSmoke
<1>3. M(DescriptorSmoke)
  BY <1>c, <1>k, <1>1 DEF DescriptorSmoke, DescriptorReads
<1>4. M(ExtractFirmware)
  BY <1>c, <1>k DEF ExtractFirmware
<1> QED BY <1>2, <1>3, <1>4, <1>g

LEMMA InitAcks ==
  ASSUME NEW r, OfAcks(r), r.claim = {}
  PROVE  GuardedPlan(r, InitLive) /\ GuardedPlan(r, IqkDiagnostic)
<1> DEFINE z == {}
           R == {Registers}
           M(P, a, b) == Leads(r, P, a, b)
           G(P) == IsPlan(P) /\ GuardedPlan(r, P)
           T(P) == Does(P, Claimed(r))
<1>c. \A P, Q, a, b, c : M(P, a, b) /\ M(Q, b, c) => M(P \o Q, a, c)
  BY Cat
<1>g. \A P, b : M(P, z, b) => G(P)
  BY GuardedBase DEF Leads
<1>t. \A P, Q : G(P) /\ T(Q) => G(P \o Q)
  BY GuardedThen
<1>k. \A w, a : M(Check(w), a, a) /\ M(Checks(w), a, a) /\ M(File(w), a, a)
  BY StepAcks
<1>i. \A P, a, b, h : M(P, a, b) => M(In(h, P), a, b)
  BY InLeads
<1>1. Suited(r) /\ r.kind = "acks"
  BY DEF OfAcks, Suited
<1>2. M(OpenTransport, R, R) /\ M(BbTables, R, R) /\ M(RfTables, R, R) /\ M(InitAssets, R, R)
  <2>1. Enough(r, R)
    BY DEF Enough
  <2> QED BY <2>1, OpenAcks
<1>4. M(WritesRegisters, z, R)
  <2>1. z \cup {Registers} = R
    OBVIOUS
  <2> HIDE DEF z, R
  <2>2. M(WritesRegisters, z, z \cup {Registers})
    BY OpenAcks
  <2> QED BY <2>1, <2>2
<1>5. /\ T(InitLowerPhases) /\ T(InitMacPhases) /\ T(InitUpperPhases)
      /\ T(In("init", SameSessionInit)) /\ T(In("iqk_evidence", IqkStandalone))
  BY <1>1, GoodLayers, DoesOption DEF Good
<1> HIDE DEF z, R, M, G, T
<1>6. M(InitPreparation, z, R)
  <2>1. M(Check("channel") \o File("firmware"), z, z)
    BY <1>c, <1>k
  <2>2. M(Check("channel") \o File("firmware") \o WritesRegisters \o Check("firmware pages"), z, R)
    BY <2>1, <1>c, <1>k, <1>4
  <2> QED BY <2>2, <1>i DEF InitPreparation
<1>7. M(InitTablePlan, R, R)
  BY <1>c, <1>i, <1>2 DEF InitTablePlan
<1>8. G(InitLive)
  <2>1. M(InitPreparation \o InitTablePlan \o OpenTransport, z, R)
    BY <1>c, <1>2, <1>6, <1>7
  <2> QED BY <2>1, <1>g, <1>t, <1>5 DEF InitLive
<1>9. G(IqkDiagnostic)
  <2>1. M(Check("channel") \o WritesRegisters, z, R)
    BY <1>c, <1>k, <1>4
  <2>2. M(Check("channel") \o WritesRegisters \o InitAssets \o OpenTransport, z, R)
    BY <2>1, <1>c, <1>2
  <2> QED BY <2>2, <1>g, <1>t, <1>5 DEF IqkDiagnostic
<1> QED BY <1>8, <1>9 DEF G

LEMMA RxScanAcks ==
  ASSUME NEW r, OfAcks(r), r.claim = {}, r.out = {}, r.guarded => r.opts \cap {"init", "monitor"} # {}
  PROVE  GuardedPlan(r, RxScan)
<1> DEFINE z == {}
           R == {Registers}
           M(P, a, b) == Leads(r, P, a, b)
           G(P) == IsPlan(P) /\ GuardedPlan(r, P)
           T(P) == Does(P, Claimed(r))
           a1 == IF "monitor" \in r.opts THEN R ELSE z
           a2 == IF "init" \in r.opts THEN R ELSE a1
<1>c. \A P, Q, a, b, c : M(P, a, b) /\ M(Q, b, c) => M(P \o Q, a, c)
  BY Cat
<1>g. \A P, b : M(P, z, b) => G(P)
  BY GuardedBase DEF Leads
<1>t. \A P, Q : G(P) /\ T(Q) => G(P \o Q)
  BY GuardedThen
<1>k. \A w, a : M(Check(w), a, a) /\ M(Checks(w), a, a) /\ M(File(w), a, a)
  BY StepAcks
<1>1. Suited(r) /\ r.kind = "acks"
  BY DEF OfAcks, Suited
<1>2. \A a : M(InitAssets, a, a)
  BY OpenAcks
<1>4. \A a \in {z, R} : M(WritesRegisters, a, R)
  <2>1. \A a \in {z, R} : a \cup {Registers} = R
    OBVIOUS
  <2> HIDE DEF z, R
  <2>2. \A a : M(WritesRegisters, a, a \cup {Registers})
    BY OpenAcks
  <2> QED BY <2>1, <2>2
<1>5. M(RxOpen, a2, a2)
  <2>1. Enough(r, a2)
    BY DEF Enough
  <2> QED BY <2>1, OpenAcks
<1>6. T(In("init_before_rx", When({"init"}, SameSessionInit)))
  BY <1>1, GoodLayers, DoesOption DEF Good
<1>7. T(In("monitor_opmode", When({"monitor"}, MonitorOpmode)))
  <2>1. T(MonitorOpmode)
    BY ClaimedDoes, DoesPreparation
  <2> QED BY <2>1, DoesOption
<1>8. T(In("bulk_in_loop", RxCapture)) /\ T(In("pcap", File("flush")))
  BY ClaimedDoes, DoesTraffic, DoesHost, DoesOption
<1>w. \A P, a, b, x : M(P, a, b) => M(When({x}, P), a, IF x \in r.opts THEN b ELSE a)
  <2> SUFFICES ASSUME NEW P, NEW a, NEW b, NEW x, M(P, a, b)
               PROVE  M(When({x}, P), a, IF x \in r.opts THEN b ELSE a)
    OBVIOUS
  <2>1. IsPlan(P)
    BY DEF Leads
  <2>2. CASE x \in r.opts
    <3>1. {x} \subseteq r.opts
      BY <2>2
    <3>2. M(When({x}, P), a, b)
      BY <3>1, WhenLeads
    <3> QED BY <2>2, <3>2
  <2>3. CASE x \notin r.opts
    <3>1. ~({x} \subseteq r.opts)
      BY <2>3
    <3>2. M(When({x}, P), a, a)
      BY <2>1, <3>1, WhenLeads
    <3> QED BY <2>3, <3>2
  <2> QED BY <2>2, <2>3
<1>a. a1 \in {z, R} /\ z \in {z, R}
  OBVIOUS
<1> HIDE DEF z, R, M, G, T
<1>9. M(When({"monitor"}, WritesRegisters), z, a1)
  BY <1>w, <1>4, <1>a
<1>10. M(When({"init"}, WritesRegisters \o InitAssets), a1, a2)
  <2> HIDE DEF a1
  <2>1. M(WritesRegisters \o InitAssets, a1, R)
    BY <1>c, <1>2, <1>4, <1>a
  <2> QED BY <2>1, <1>w
<1> HIDE DEF a1, a2
<1>11. M(RxScanArguments, z, a2)
  BY <1>9, <1>10, <1>c, <1>k DEF RxScanArguments
<1>12. M(RxScanArguments \o RxOpen, z, a2)
  BY <1>c, <1>5, <1>11
<1>13. G(RxScan)
  BY <1>12, <1>g, <1>t, <1>6, <1>7, <1>8 DEF RxScan
<1> QED BY <1>13 DEF G

(* Commands that transmit: nothing is asked unless a calibration profile is given. *)
Transmits(r) == OfAcks(r) /\ r.guarded = FALSE /\ r.out = {} /\ r.claim = If(r.opts, "profile", Registers)

LEMMA TransmitAcks ==
  ASSUME NEW r, Transmits(r)
  PROVE  /\ "profile" \notin r.opts =>
              GuardedPlan(r, TxOnce) /\ GuardedPlan(r, TxRepeat) /\ GuardedPlan(r, BridgeTxOnce)
         /\ GuardedPlan(r, BridgeTxListen) /\ GuardedPlan(r, BridgeRun) /\ GuardedPlan(r, DiagRuntimeFlow)
         /\ GuardedPlan(r, RadioRun) /\ GuardedPlan(r, BridgeTxBench)
<1> DEFINE z == {}
           R == {Registers}
           k == r.claim
           M(P, a, b) == Leads(r, P, a, b)
           G(P) == IsPlan(P) /\ GuardedPlan(r, P)
           T(P) == Does(P, Claimed(r))
<1>r. OfAcks(r) /\ k = If(r.opts, "profile", Registers) /\ r.out = {} /\ r.guarded = FALSE
  BY DEF Transmits
<1>c. \A P, Q, a, b, c : M(P, a, b) /\ M(Q, b, c) => M(P \o Q, a, c)
  BY Cat
<1>g. \A P, b : M(P, z, b) => G(P)
  BY <1>r, GuardedBase DEF Leads
<1>t. \A P, Q : G(P) /\ T(Q) => G(P \o Q)
  BY GuardedThen
<1>p. \A P, Q : M(P, z, z) /\ G(Q) => G(P \o Q)
  <2> SUFFICES ASSUME NEW P, NEW Q, M(P, z, z), G(Q) PROVE G(P \o Q)
    OBVIOUS
  <2>1. GuardedPlan(r, P \o Q)
    BY <1>r, GuardedAfter
  <2> QED BY <2>1, PlanCat DEF Leads
<1>k. \A w, a : M(Check(w), a, a) /\ M(Checks(w), a, a) /\ M(File(w), a, a) /\ M(Reject(w), a, a)
  BY <1>r, StepAcks, RejectAcks
<1>i. \A P, a, b, h : M(P, a, b) => M(In(h, P), a, b)
  BY InLeads
<1>w. \A P, a, x : M(P, a, a) => M(When({x}, P), a, a)
  BY WhenLeads DEF Leads
<1>1. Suited(r) /\ r.kind = "acks" /\ "out" \in Claimed(r).do
  BY <1>r, ClaimedDoes DEF OfAcks, Suited
<1>2. \A a : M(InitAssets, a, a)
  BY <1>r, OpenAcks
<1>3. M(ProfileAuthorization, z, k)
  <2>1. CASE "profile" \in r.opts
    <3>1. {"profile"} \subseteq r.opts /\ k = z \cup {Registers}
      BY <2>1, <1>r DEF If
    <3>2. M(WritesRegisters, z, z \cup {Registers})
      BY <1>r, OpenAcks
    <3> HIDE DEF z
    <3>3. M(When({"profile"}, WritesRegisters), z, k)
      BY <3>1, <3>2, WhenLeads
    <3> QED BY <3>3 DEF ProfileAuthorization
  <2>2. CASE "profile" \notin r.opts
    <3>1. ~({"profile"} \subseteq r.opts) /\ k = z
      BY <2>2, <1>r DEF If
    <3>2. IsPlan(WritesRegisters)
      BY <1>r, OpenAcks DEF Leads
    <3> HIDE DEF z
    <3>3. M(When({"profile"}, WritesRegisters), z, k)
      BY <3>1, <3>2, WhenLeads
    <3> QED BY <3>3 DEF ProfileAuthorization
  <2> QED BY <2>1, <2>2
<1>4. M(OpenTransport, k, k) /\ M(TxOpen, k, k) /\ M(BridgeRunOpen, k, k) /\ \A w : M(Claim(w), k, k)
  <2>1. Enough(r, k)
    BY <1>r DEF Enough
  <2> QED BY <2>1, <1>r, OpenAcks, StepAcks
<1>5. "profile" \notin r.opts => k = z
  BY <1>r DEF If
<1>6. /\ T(Submits) /\ T(TxStatus) /\ T(ListenLoop) /\ T(BridgeRunLoop) /\ T(RadioRunFlow)
      /\ T(WithIndication(Submit)) /\ T(WithIndication(Submits))
  BY <1>1, ClaimedDoes, DoesTraffic
<1>7. /\ T(PowerAndProfile) /\ T(PreTxProbe) /\ T(PreTxRfWrite) /\ T(PreTxWrites) /\ T(PreTxInit)
      /\ T(BenchAddressing) /\ T(BenchScheduler) /\ T(BenchTrace) /\ T(BenchMediaStatus) /\ T(BenchPostTx)
      /\ T(BridgeRunPrepare) /\ T(ListenPrepare) /\ T(RadioRunLowerPhases) /\ T(RadioRunUpperPhases)
  <2>1. /\ T(PowerAndProfile) /\ T(PreTxProbe) /\ T(PreTxRfWrite) /\ T(PreTxWrites)
        /\ T(BenchAddressing) /\ T(BenchScheduler) /\ T(BenchTrace) /\ T(BenchMediaStatus) /\ T(BenchPostTx)
    BY ClaimedDoes, DoesPreparation
  <2>2. T(PreTxInit) /\ T(BridgeRunPrepare) /\ T(ListenPrepare) /\ T(RadioRunLowerPhases) /\ T(RadioRunUpperPhases)
    BY <1>1, GoodLayers DEF Good
  <2> QED BY <2>1, <2>2
<1>8. \A w : T(Check(w)) /\ T(File(w)) /\ T(BulkOut(w))
  <2>1. Chip(Claimed(r)) /\ "none" \in Claimed(r).after /\ "out" \in Claimed(r).do
    BY <1>1, ClaimedDoes DEF Chip
  <2> QED BY <2>1, DoesHost, DoesTransfer
<1>9. \A P, o : T(P) => T(In(o, P)) /\ T(AllTheSame("traffic", P))
  BY ClaimedDoes, DoesOption, DoesAfter
<1>10. \A P, Q : T(P) /\ T(Q) => T(P \o Q)
  BY DoesCat
<1> HIDE DEF z, k, M, G, T
<1>11. "profile" \notin r.opts => G(TxOnce) /\ G(TxRepeat) /\ G(BridgeTxOnce)
  <2> SUFFICES ASSUME "profile" \notin r.opts PROVE G(TxOnce) /\ G(TxRepeat) /\ G(BridgeTxOnce)
    OBVIOUS
  <2>1. M(OpenTransport, z, z) /\ M(TxOpen, z, z)
    BY <1>4, <1>5
  <2>2. G(TxOnce)
    <3>1. M(TxArguments \o In("tx_descriptor", Check("descriptor")) \o TxOpen, z, z)
      BY <2>1, <1>c, <1>k, <1>i DEF TxArguments
    <3> QED BY <3>1, <1>g, <1>t, <1>6, <1>9 DEF TxOnce
  <2>3. G(TxRepeat)
    <3>1. M(TxRepeatArguments, z, z)
      BY <1>c, <1>k DEF TxRepeatArguments, TxArguments
    <3>2. M(In("repeat_gate", TxRepeatArguments \o Check("descriptor")) \o OpenTransport, z, z)
      BY <3>1, <2>1, <1>c, <1>k, <1>i
    <3>3. T(In("bulk_out_loop", Check("bulk OUT endpoint") \o WithIndication(Submits)))
      BY <1>6, <1>8, <1>9, <1>10
    <3> QED BY <3>2, <3>3, <1>g, <1>t DEF TxRepeat
  <2>4. G(BridgeTxOnce)
    <3>1. M(In("argument_validation", Checks(<<"channel", "datagram">>))
              \o In("bridge_parse", Checks(<<"parse", "descriptor">>)) \o TxOpen, z, z)
      BY <2>1, <1>c, <1>k, <1>i
    <3> QED BY <3>1, <1>g, <1>t, <1>8, <1>9 DEF BridgeTxOnce
  <2> QED BY <2>2, <2>3, <2>4
<1>12. M(Check("channel") \o ProfileAuthorization, z, k)
  BY <1>c, <1>k, <1>3
<1>13. G(BridgeTxListen)
  <2>1. M(ListenArguments, z, k)
    BY <1>12, <1>c, <1>k, <1>i, <1>w, <1>2 DEF ListenArguments
  <2>2. M(ListenSocket, k, k)
    BY <1>k, <1>i DEF ListenSocket
  <2>3. M(ListenArguments \o ListenSocket \o TxOpen, z, k)
    BY <2>1, <2>2, <1>c, <1>4
  <2>4. T(In("bridge_listen", ListenLoop)) /\ T(AllTheSame("traffic", TxStatus))
    BY <1>6, <1>9
  <2> QED BY <2>3, <2>4, <1>g, <1>t, <1>6, <1>7, <1>8 DEF BridgeTxListen
<1>14. G(BridgeRun)
  <2>1. M(BridgeRunArguments, z, k)
    BY <1>12, <1>c, <1>k, <1>i, <1>2 DEF BridgeRunArguments
  <2>2. M(BridgeRunSockets, k, k)
    BY <1>k, <1>i DEF BridgeRunSockets
  <2>3. M(BridgeRunArguments \o BridgeRunSockets \o BridgeRunOpen, z, k)
    BY <2>1, <2>2, <1>c, <1>4
  <2>4. T(In("bridge_run", BridgeRunLoop))
    BY <1>6, <1>9
  <2> QED BY <2>3, <2>4, <1>g, <1>t, <1>6, <1>7, <1>8 DEF BridgeRun
<1>15. G(DiagRuntimeFlow)
  <2>1. M(RejectDiagnosticOnly, z, z)
    BY <1>c, <1>k, <1>w DEF RejectDiagnosticOnly
  <2> QED BY <2>1, <1>14, <1>p DEF DiagRuntimeFlow
<1>16. G(RadioRun)
  <2>1. M(Checks(<<"config file", "channel", "validate">>) \o ProfileAuthorization, z, k)
    BY <1>c, <1>k, <1>3
  <2>2. M(RadioRunArguments, z, k)
    BY <2>1, <1>c, <1>2 DEF RadioRunArguments
  <2>3. M(RadioRunArguments \o Claim("open session"), z, k)
    BY <2>2, <1>c, <1>4
  <2> QED BY <2>3, <1>g, <1>t, <1>6, <1>7 DEF RadioRun
<1>17. G(BridgeTxBench)
  <2>1. M(BenchArguments, z, k)
    BY <1>12, <1>c, <1>k, <1>i, <1>w, <1>2 DEF BenchArguments
  <2>2. M(BenchParse, k, k)
    BY <1>k, <1>i DEF BenchParse
  <2>3. M(BenchArguments \o BenchParse \o TxOpen, z, k)
    BY <2>1, <2>2, <1>c, <1>4
  <2>4. T(In("bridge_submit_loop", Submits)) /\ T(AllTheSame("traffic", TxStatus))
    BY <1>6, <1>9
  <2> QED BY <2>3, <2>4, <1>g, <1>t, <1>6, <1>7 DEF BridgeTxBench
<1> QED BY <1>11, <1>13, <1>14, <1>15, <1>16, <1>17 DEF G

LEMMA AcksRequest ==
  ASSUME NEW c, NEW o
  PROVE  /\ OfAcks(AcksReq(c, o)) /\ AcksReq(c, o).opts = o
         /\ AcksReq(c, o).claim = If(o, "profile", Registers)
         /\ AcksReq(c, o).out = IF c \in Smokes THEN {SubmitsBulkOut} ELSE {}
         /\ AcksReq(c, o).guarded = GuardedCommand(c, o)
BY DEF AcksReq, OfAcks

LEMMA SmokesGuarded ==
  ASSUME NEW c \in Smokes, NEW o \in OptionsOf(c)
  PROVE  GuardedPlan(AcksReq(c, o), SmokePlans[c])
<1> DEFINE r == AcksReq(c, o)
           G(P) == GuardedPlan(r, P)
<1>1. OfAcks(r) /\ r.claim = {} /\ r.out = {SubmitsBulkOut}
  <2>1. "profile" \notin o
    BY SmokeOptions, OwnOptions
  <2> QED BY <2>1, AcksRequest DEF If
<1> HIDE DEF r
<1>2. \A P \in {LedSmoke, PowerOnSmoke, MacosPowerOnSmoke, FirmwareSmoke, MacosFirmwareSmoke, LltSmoke, MacosLltSmoke,
                QueueDmaSmoke, MacosQueueDmaSmoke, MacSmoke, MacosMacSmoke, BbSmoke, MacosBbSmoke, RfSmoke, MacosRfSmoke,
                EfuseDump, MacosEfuseDump} : G(P)
  BY <1>1, RegisterSmokes
<1>3. G(InterfaceSmoke) /\ G(BulkInSmoke) /\ G(BulkOutSmoke) /\ G(SessionSmoke)
  BY <1>1, TransportSmokes
<1>4. c \in {"reg_smoke", "macos_reg_smoke", "macos_descriptor_smoke", "extract_firmware"} =>
        G(RegSmoke) /\ G(MacosRegSmoke) /\ G(DescriptorSmoke) /\ G(ExtractFirmware)
  <2> SUFFICES ASSUME c \in {"reg_smoke", "macos_reg_smoke", "macos_descriptor_smoke", "extract_firmware"}
               PROVE  G(RegSmoke) /\ G(MacosRegSmoke) /\ G(DescriptorSmoke) /\ G(ExtractFirmware)
    OBVIOUS
  <2>1. ~GuardedCommand(c, o)
    BY DEF GuardedCommand
  <2>2. r.guarded = FALSE
    BY <2>1, AcksRequest DEF r
  <2> QED BY <1>1, <2>2, LookingSmokes
<1> HIDE DEF G
<1>5. G(SmokePlans[c])
  BY <1>2, <1>3, <1>4 DEF Smokes, SmokePlans
<1> QED BY <1>5 DEF G, r

LEMMA NoProfile ==
  ASSUME NEW c \in {"init", "rtl8812a_iqk_diagnostic", "rx_scan", "tx_once", "tx_repeat", "bridge_tx_once"},
         NEW o \in OptionsOf(c)
  PROVE  "profile" \notin o
<1>1. "profile" \notin Options(c)
  <2>1. CASE c \in {"init", "rtl8812a_iqk_diagnostic"}
    <3>1. /\ c # "led_smoke" /\ c # "rx_scan" /\ c \notin {"tx_once", "tx_repeat"}
          /\ c # "bridge_tx_listen" /\ c \notin {"bridge_run", "runtime_flow"} /\ c # "radio_run" /\ c # "bridge_tx_bench"
      BY <2>1
    <3>2. Options(c) = {"5GHz"}
      BY <2>1, <3>1, Zenon DEF Options
    <3> QED BY <3>2
  <2>2. CASE c = "rx_scan"
    BY <2>2, ScanOptions
  <2>3. CASE c \in {"tx_once", "tx_repeat", "bridge_tx_once"}
    BY <2>3, TxOptions
  <2> QED BY <2>1, <2>2, <2>3
<1> QED BY <1>1, OwnOptions

LEMMA RadiosGuarded ==
  ASSUME NEW c \in DOMAIN RadioPlans, c \notin Smokes, NEW o \in OptionsOf(c)
  PROVE  GuardedPlan(AcksReq(c, o), RadioPlans[c])
<1> DEFINE r == AcksReq(c, o)
<1>1. /\ OfAcks(r) /\ r.opts = o /\ r.out = {} /\ r.claim = If(r.opts, "profile", Registers)
      /\ r.guarded = GuardedCommand(c, o) /\ ("profile" \notin o => r.claim = {})
  BY AcksRequest DEF If
<1> HIDE DEF r
<1>2. c \notin {"init", "rtl8812a_iqk_diagnostic", "rx_scan"} => Transmits(r)
  BY <1>1 DEF Transmits, GuardedCommand
<1>3. CASE c \in {"init", "rtl8812a_iqk_diagnostic"}
  <2>1. r.claim = {}
    BY <1>1, <1>3, NoProfile
  <2>2. GuardedPlan(r, InitLive) /\ GuardedPlan(r, IqkDiagnostic)
    BY <1>1, <2>1, InitAcks
  <2> QED BY <1>3, <2>2 DEF RadioPlans, r
<1>4. CASE c = "rx_scan"
  <2>1. r.claim = {}
    BY <1>1, <1>4, NoProfile
  <2>2. r.guarded => r.opts \cap {"init", "monitor"} # {}
    BY <1>1, <1>4 DEF GuardedCommand
  <2>3. GuardedPlan(r, RxScan)
    BY <1>1, <2>1, <2>2, RxScanAcks
  <2> QED BY <1>4, <2>3 DEF RadioPlans, r
<1>5. CASE c \in {"tx_once", "tx_repeat", "bridge_tx_once"}
  <2>1. "profile" \notin r.opts /\ Transmits(r)
    BY <1>1, <1>2, <1>5, NoProfile
  <2>2. GuardedPlan(r, TxOnce) /\ GuardedPlan(r, TxRepeat) /\ GuardedPlan(r, BridgeTxOnce)
    BY <2>1, TransmitAcks
  <2> QED BY <1>5, <2>2 DEF RadioPlans, r
<1>6. CASE c \in {"bridge_tx_listen", "bridge_run", "runtime_flow", "radio_run", "bridge_tx_bench"}
  <2>1. /\ GuardedPlan(r, BridgeTxListen) /\ GuardedPlan(r, BridgeRun) /\ GuardedPlan(r, DiagRuntimeFlow)
        /\ GuardedPlan(r, RadioRun) /\ GuardedPlan(r, BridgeTxBench)
    BY <1>2, <1>6, TransmitAcks
  <2> QED BY <1>6, <2>1 DEF RadioPlans, r
<1> QED BY <1>3, <1>4, <1>5, <1>6 DEF RadioPlans

LEMMA PlansGuarded == AcksOfPlans
<1> SUFFICES ASSUME NEW c \in DOMAIN Plans, NEW o \in OptionsOf(c) PROVE GuardedPlan(AcksReq(c, o), Plans[c])
  BY DEF AcksOfPlans
<1>1. CASE c \in Smokes
  <2>1. Plans[c] = SmokePlans[c]
    BY <1>1 DEF Plans
  <2> QED BY <2>1, <1>1, SmokesGuarded
<1>2. CASE c \notin Smokes
  <2>1. Plans[c] = RadioPlans[c] /\ c \in DOMAIN RadioPlans
    BY <1>2 DEF Plans
  <2> QED BY <2>1, <1>2, RadiosGuarded
<1> QED BY <1>1, <1>2

(* A plan none of whose steps writes under the options o. *)
Harmless(P, o) == IsPlan(P) /\ \A i \in 1..Len(P) : P[i].do = "write" => ~Asked(P[i], o)
Looking == Class({"check", "file", "ack", "claim", "read", "in"}, {}, {"none"})

LEMMA HarmlessCat ==
  ASSUME NEW o, NEW P, NEW Q, Harmless(P, o), Harmless(Q, o)
  PROVE  Harmless(P \o Q, o)
<1> DEFINE C == P \o Q
           p == Len(P)
           q == Len(Q)
<1>1. /\ p \in Nat /\ q \in Nat /\ Len(C) = p + q /\ IsPlan(C)
      /\ \A i \in 1..p : C[i] = P[i]
      /\ \A i \in 1..q : C[p + i] = Q[i]
  BY PlanCat DEF Harmless
<1>2. /\ \A i \in 1..p : P[i].do = "write" => ~Asked(P[i], o)
      /\ \A i \in 1..q : Q[i].do = "write" => ~Asked(Q[i], o)
  BY DEF Harmless
<1> HIDE DEF C, p, q
<1>3. ASSUME NEW i \in 1..Len(C), C[i].do = "write" PROVE ~Asked(C[i], o)
  <2>1. CASE i <= p
    <3>1. i \in 1..p
      BY <2>1, <1>1
    <3> QED BY <3>1, <1>1, <1>2, <1>3
  <2>2. CASE ~(i <= p)
    <3>1. i - p \in 1..q /\ i = p + (i - p)
      BY <2>2, <1>1
    <3>2. C[i] = Q[i - p]
      BY <3>1, <1>1
    <3> QED BY <3>1, <3>2, <1>2, <1>3
  <2> QED BY <2>1, <2>2
<1> QED BY <1>1, <1>3 DEF Harmless, C

LEMMA LookingSteps ==
  /\ \A w : /\ Does(Check(w), Looking) /\ Does(Checks(w), Looking) /\ Does(File(w), Looking) /\ Does(Acknowledge(w), Looking)
           /\ Does(Claim(w), Looking) /\ Does(Read("usb", w), Looking) /\ Does(BulkIn(w), Looking)
  /\ \A P, Q : Does(P, Looking) /\ Does(Q, Looking) => Does(P \o Q, Looking)
  /\ \A P, o : Does(P, Looking) => Does(When(o, P), Looking) /\ Does(In(o, P), Looking) /\ Harmless(P, o)
<1> DEFINE k == Looking
<1>k. k.do = {"check", "file", "ack", "claim", "read", "in"} /\ k.apart = {} /\ k.after = {"none"}
  BY DEF Looking, Class
<1> HIDE DEF k
<1>1. ASSUME NEW d \in {"check", "file", "ack", "claim", "read", "in"}, NEW l \in {"host", "usb", "traffic"}, NEW w
      PROVE  Does(<<Step(d, l, w)>>, k)
  <2>1. Looks(Step(d, l, w), d, l, {}, {}, {}, "end", "none")
    BY LooksStep
  <2> QED BY <2>1, <1>k, DoesOne DEF Looks, Fits
<1>2. \A w : /\ Does(Check(w), k) /\ Does(Checks(w), k) /\ Does(File(w), k) /\ Does(Acknowledge(w), k)
            /\ Does(Claim(w), k) /\ Does(Read("usb", w), k) /\ Does(BulkIn(w), k)
  BY <1>1 DEF Check, Checks, File, Acknowledge, Claim, Read, BulkIn
<1>3. \A P, Q : Does(P, k) /\ Does(Q, k) => Does(P \o Q, k)
  BY DoesCat
<1>4. \A P, o : Does(P, k) => Does(When(o, P), k) /\ Does(In(o, P), k)
  BY DoesOption
<1>5. \A P, o : Does(P, k) => Harmless(P, o)
  BY <1>k DEF Does, Fits, Harmless
<1> QED BY <1>2, <1>3, <1>4, <1>5 DEF k

LEMMA LookingPlans ==
  /\ Does(RegSmoke, Looking) /\ Does(MacosRegSmoke, Looking) /\ Does(DescriptorSmoke, Looking) /\ Does(ExtractFirmware, Looking)
  /\ Does(RxScanArguments, Looking) /\ Does(RxOpen, Looking)
  /\ Does(In("bulk_in_loop", RxCapture), Looking) /\ Does(In("pcap", File("flush")), Looking)
<1> DEFINE L(P) == Does(P, Looking)
<1>k. \A w : /\ L(Check(w)) /\ L(Checks(w)) /\ L(File(w)) /\ L(Acknowledge(w)) /\ L(Claim(w)) /\ L(Read("usb", w)) /\ L(BulkIn(w))
  BY LookingSteps
<1>c. \A P, Q : L(P) /\ L(Q) => L(P \o Q)
  BY LookingSteps
<1>o. \A P, o : L(P) => L(When(o, P)) /\ L(In(o, P))
  BY LookingSteps
<1>r. L(FlattenSeq([n \in 1..Repeats |-> BulkIn("bulk IN until the deadline")]))
  BY <1>k, DoesRepeat, DiagStepConstants
<1> HIDE DEF L
<1>1. L(LibusbOpen) /\ L(MacosOpen) /\ L(OpenTransport) /\ L(WritesRegisters)
  BY <1>c, <1>k, <1>o DEF LibusbOpen, MacosOpen, OpenTransport, WritesRegisters
<1>2. L(RegSmoke) /\ L(MacosRegSmoke) /\ L(ExtractFirmware)
  BY <1>c, <1>k, <1>1 DEF RegSmoke, MacosRegSmoke, ExtractFirmware
<1>3. L(DescriptorReads)
  BY <1>c, <1>k DEF DescriptorReads
<1>4. L(InitAssets)
  BY <1>c, <1>k DEF InitAssets, BbTables, RfTables
<1>5. L(RxScanArguments) /\ L(RxOpen)
  BY <1>c, <1>k, <1>o, <1>1, <1>4 DEF RxScanArguments, RxOpen
<1>6. L(In("bulk_in_loop", RxCapture)) /\ L(In("pcap", File("flush")))
  BY <1>c, <1>k, <1>o, <1>r DEF RxCapture
<1> QED BY <1>1, <1>2, <1>3, <1>5, <1>6, <1>c DEF L, DescriptorSmoke

(* A scan that neither initializes nor changes the receive filter writes nothing. *)
LEMMA PlainScan ==
  ASSUME NEW o, o \cap {"init", "monitor"} = {}
  PROVE  Harmless(RxScan, o)
<1> DEFINE H(P) == Harmless(P, o)
<1>1. \A P, x : IsPlan(P) /\ x \notin o => H(When({x}, P))
  <2> SUFFICES ASSUME NEW P, NEW x, IsPlan(P), x \notin o PROVE H(When({x}, P))
    OBVIOUS
  <2>1. IsPlan(When({x}, P)) /\ Len(When({x}, P)) = Len(P)
    BY WhenPlan DEF Recasts
  <2>2. \A i \in 1..Len(P) : ~Asked(When({x}, P)[i], o)
    BY WhenPlan DEF Asked
  <2> QED BY <2>1, <2>2 DEF Harmless
<1>2. \A P, h : H(P) => H(In(h, P))
  <2> SUFFICES ASSUME NEW P, NEW h, H(P) PROVE H(In(h, P))
    OBVIOUS
  <2>1. Recasts(P, In(h, P)) /\ \A i \in 1..Len(P) : In(h, P)[i].when = P[i].when /\ In(h, P)[i].unless = P[i].unless
    BY InPlan DEF Harmless
  <2> QED BY <2>1 DEF Recasts, Alike, Harmless, Asked
<1>3. IsPlan(SameSessionInit) /\ IsPlan(MonitorOpmode)
  <2> DEFINE r == AcksReq("rx_scan", {})
  <2>1. Suited(r) /\ r.kind = "acks"
    BY DEF AcksReq, Suited
  <2> HIDE DEF r
  <2>2. Does(SameSessionInit, Claimed(r)) /\ Does(MonitorOpmode, Claimed(r))
    BY <2>1, GoodLayers, ClaimedDoes, DoesPreparation DEF Good
  <2> QED BY <2>2 DEF Does
<1>4. H(In("init_before_rx", When({"init"}, SameSessionInit))) /\ H(In("monitor_opmode", When({"monitor"}, MonitorOpmode)))
  BY <1>1, <1>2, <1>3
<1>5. H(RxScanArguments) /\ H(RxOpen) /\ H(In("bulk_in_loop", RxCapture)) /\ H(In("pcap", File("flush")))
  BY LookingPlans, LookingSteps
<1>6. \A P, Q : H(P) /\ H(Q) => H(P \o Q)
  BY HarmlessCat
<1> HIDE DEF H
<1>7. H(RxScan)
  BY <1>4, <1>5, <1>6 DEF RxScan
<1> QED BY <1>7 DEF H

LEMMA WritesAcknowledged ==
  ASSUME AllPlans, Stage, AcksInv, pc # 0, held, at.do = "write"
  PROVE  acked # {} \/ cmd \in Transmitters
<1>1. /\ pc \in 1..Len(Plans[cmd]) /\ at = Plans[cmd][pc] /\ Runs(at, opts, kept, quiet)
      /\ cmd \in DOMAIN Plans
  BY StepAtHand DEF Stage
<1>2. Asked(at, opts)
  BY <1>1 DEF Runs, Asked
<1>3. ~Harmless(Plans[cmd], opts)
  BY <1>1, <1>2 DEF Harmless
<1>4. CASE AsksFirst
  BY <1>4, AcksGive
<1>5. CASE ~AsksFirst /\ cmd \in Smokes
  <2>1. cmd \in {"reg_smoke", "macos_reg_smoke", "macos_descriptor_smoke", "extract_firmware"} /\ Plans[cmd] = SmokePlans[cmd]
    BY <1>1, <1>5 DEF AsksFirst, Plans
  <2>2. SmokePlans[cmd] \in {RegSmoke, MacosRegSmoke, DescriptorSmoke, ExtractFirmware}
    BY <2>1 DEF SmokePlans
  <2>3. Harmless(Plans[cmd], opts)
    BY <2>1, <2>2, LookingPlans, LookingSteps
  <2> QED BY <2>3, <1>3
<1>6. CASE ~AsksFirst /\ cmd \notin Smokes /\ cmd = "rx_scan"
  <2>1. opts \cap {"init", "monitor"} = {} /\ Plans[cmd] = RxScan
    BY <1>1, <1>6 DEF AsksFirst, Plans, RadioPlans
  <2> QED BY <2>1, <1>3, PlainScan
<1>7. CASE ~AsksFirst /\ cmd \notin Smokes /\ cmd # "rx_scan"
  BY <1>1, <1>7 DEF AsksFirst, Plans, RadioPlans, Transmitters
<1> QED BY <1>4, <1>5, <1>6, <1>7

(* For every number of attempts, bytes, frames, commands and faults: a command    *)
(* that asks for an acknowledgement claims the adapter only after it found one,   *)
(* no other command but a transmitter writes to a chip, a smoke test transmits    *)
(* only after it found the flag for that, and a calibration profile has its own.  *)
THEOREM AcknowledgementFirst == Spec => []AcknowledgedFirst
<1>1. Init => Stage /\ AcksInv
  BY StageInit, AcksInit
<1>2. Stage /\ AcksInv /\ [Next]_vars => (Stage /\ AcksInv)'
  BY PlansLead, PlansGuarded, StageStep, AcksStep
<1>3. Stage /\ AcksInv => AcknowledgedFirst
  <2> SUFFICES ASSUME Stage, AcksInv PROVE AcknowledgedFirst
    OBVIOUS
  <2>1. AllPlans
    BY PlansLead
  <2>2. /\ AsksFirst /\ held => acked # {}
        /\ pc # 0 /\ cmd \in Smokes /\ at.do = "out" => SubmitsBulkOut \in acked
        /\ "profile" \in opts /\ held => Registers \in acked
    BY <2>1, AcksGive
  <2>3. pc # 0 /\ held /\ at.do = "write" => acked # {} \/ cmd \in Transmitters
    BY <2>1, WritesAcknowledged
  <2> QED BY <2>2, <2>3 DEF AcknowledgedFirst, SubmitsBulkOut
<1> QED BY <1>1, <1>2, <1>3, PTL DEF Spec

-----------------------------------------------------------------------------
(* Each command leaves nothing on that it changed only to look. *)
OfLeft(r) == r.kind = "left" /\ ~r.led
Tidy(r, P) == Leads(r, P, Clean, Clean)

LEMMA TidySteps ==
  ASSUME NEW r, OfLeft(r), NEW w
  PROVE  /\ Tidy(r, Check(w)) /\ Tidy(r, Checks(w)) /\ Tidy(r, File(w)) /\ Tidy(r, Reject(w)) /\ Tidy(r, Acknowledge(w)) /\ Tidy(r, Claim(w))
         /\ Tidy(r, BulkIn(w)) /\ Tidy(r, BulkOut(w)) /\ Tidy(r, Read("usb", w))
<1> DEFINE k == Even
<1>1. Chip(k) /\ {"in", "out", "ack", "claim"} \subseteq k.do /\ "none" \in k.after /\ k.apart = Lookers
  BY DEF Chip, Even, Class, OnChip
<1> HIDE DEF k
<1>2. ASSUME NEW d \in {"ack", "claim"}, NEW l \in {"host", "usb"}, NEW v PROVE Does(<<Step(d, l, v)>>, k)
  <2>1. Looks(Step(d, l, v), d, l, {}, {}, {}, "end", "none")
    BY LooksStep
  <2> QED BY <1>1, <2>1, DoesOne DEF Looks, Fits
<1>3. Does(Acknowledge(w), k) /\ Does(Claim(w), k)
  BY <1>2 DEF Acknowledge, Claim
<1>4. Does(Check(w), k) /\ Does(Checks(w), k) /\ Does(File(w), k) /\ Does(Reject(w), k)
  BY <1>1, DoesHost
<1>5. Does(BulkIn(w), k) /\ Does(BulkOut(w), k) /\ Does(Read("usb", w), k)
  BY <1>1, DoesTransfer, DoesRegister
<1>6. \A P : Does(P, k) => Tidy(r, P)
  BY CleanLeft DEF k, OfLeft, Tidy
<1> QED BY <1>3, <1>4, <1>5, <1>6

LEMMA TidyWays ==
  ASSUME NEW r, NEW P, NEW o, Tidy(r, P)
  PROVE  /\ Tidy(r, When(o, P)) /\ Tidy(r, Unless(o, P)) /\ Tidy(r, In(o, P))
         /\ \A Q : Tidy(r, Q) => Tidy(r, P \o Q)
<1>1. \A Q : Tidy(r, Q) => Tidy(r, P \o Q)
  BY Cat DEF Tidy
<1>2. IsPlan(P)
  BY DEF Leads, Tidy
<1> QED BY <1>1, <1>2, WhenLeads, UnlessLeads, InLeads DEF Tidy

LEMMA TidyOpens ==
  ASSUME NEW r, OfLeft(r)
  PROVE  /\ Tidy(r, WritesRegisters) /\ Tidy(r, LibusbOpen) /\ Tidy(r, MacosOpen) /\ Tidy(r, OpenTransport)
         /\ Tidy(r, BbTables) /\ Tidy(r, RfTables) /\ Tidy(r, InitAssets) /\ Tidy(r, ReconfiguresUsb)
         /\ Tidy(r, TxOpen) /\ Tidy(r, RxOpen) /\ Tidy(r, BridgeRunOpen) /\ Tidy(r, ProfileAuthorization)
<1> DEFINE L(P) == Tidy(r, P)
<1>c. \A P, Q : L(P) /\ L(Q) => L(P \o Q)
  BY TidyWays
<1>o. \A P, o : L(P) => L(When(o, P)) /\ L(In(o, P))
  BY TidyWays
<1>k. \A w : L(Check(w)) /\ L(Checks(w)) /\ L(File(w)) /\ L(Acknowledge(w)) /\ L(Claim(w))
  BY TidySteps
<1> HIDE DEF L
<1>1. L(WritesRegisters) /\ L(LibusbOpen) /\ L(MacosOpen) /\ L(OpenTransport) /\ L(ReconfiguresUsb)
  BY <1>c, <1>o, <1>k DEF WritesRegisters, LibusbOpen, MacosOpen, OpenTransport, ReconfiguresUsb
<1>2. L(BbTables) /\ L(RfTables)
  BY <1>k DEF BbTables, RfTables
<1>3. L(InitAssets)
  BY <1>c, <1>k, <1>2 DEF InitAssets
<1>4. L(TxOpen) /\ L(RxOpen) /\ L(BridgeRunOpen) /\ L(ProfileAuthorization)
  BY <1>c, <1>o, <1>k, <1>1 DEF TxOpen, RxOpen, BridgeRunOpen, ProfileAuthorization
<1> QED BY <1>1, <1>2, <1>3, <1>4 DEF L

LEMMA TidyLayers ==
  ASSUME NEW r, OfLeft(r)
  PROVE  /\ Tidy(r, PowerOnSequence) /\ Tidy(r, LltSequence) /\ Tidy(r, QueueDmaSequence) /\ Tidy(r, MacSequence)
         /\ Tidy(r, BbSequence) /\ Tidy(r, RfSequence) /\ Tidy(r, ReadEfusePhysical) /\ Tidy(r, FirmwareSequence)
         /\ Tidy(r, IqkStandalone) /\ Tidy(r, QueueLayout) /\ Tidy(r, SameSessionInit)
         /\ Tidy(r, InitLowerPhases) /\ Tidy(r, InitMacPhases) /\ Tidy(r, InitUpperPhases)
         /\ Tidy(r, RadioRunLowerPhases) /\ Tidy(r, RadioRunUpperPhases)
         /\ Tidy(r, PreTxInit) /\ Tidy(r, BridgeRunPrepare) /\ Tidy(r, ListenPrepare)
<1>1. Suited(r) /\ r.kind = "left"
  BY DEF OfLeft, Suited
<1> QED BY <1>1, GoodLayers DEF Good, Tidy

LEMMA TidyTraffic ==
  ASSUME NEW r, OfLeft(r)
  PROVE  /\ Tidy(r, TxStatus) /\ Tidy(r, AllTheSame("traffic", TxStatus)) /\ Tidy(r, RxCapture) /\ Tidy(r, LedBlink)
         /\ Tidy(r, LedWrite(TRUE)) /\ Tidy(r, LedWrite(FALSE))
         /\ Tidy(r, Submits) /\ Tidy(r, ListenLoop) /\ Tidy(r, BridgeRunLoop) /\ Tidy(r, RadioRunFlow)
         /\ Tidy(r, MonitorOpmode) /\ Tidy(r, PowerAndProfile) /\ Tidy(r, PreTxProbe) /\ Tidy(r, PreTxRfWrite) /\ Tidy(r, PreTxWrites)
         /\ Tidy(r, BenchAddressing) /\ Tidy(r, BenchScheduler) /\ Tidy(r, BenchTrace) /\ Tidy(r, BenchMediaStatus)
         /\ Tidy(r, BenchPostTx)
<1> DEFINE k == Even
<1>1. Chip(k) /\ "traffic" \in k.after /\ "in" \in k.do /\ "out" \in k.do
  BY DEF Chip, Even, Class, OnChip
<1> HIDE DEF k
<1>2. \A P : Does(P, k) => Tidy(r, P)
  BY CleanLeft DEF k, OfLeft, Tidy
<1>3. /\ Does(TxStatus, k) /\ Does(AllTheSame("traffic", TxStatus), k) /\ Does(RxCapture, k) /\ Does(LedBlink, k)
      /\ Does(LedWrite(TRUE), k) /\ Does(LedWrite(FALSE), k)
      /\ Does(Submits, k) /\ Does(ListenLoop, k) /\ Does(BridgeRunLoop, k) /\ Does(RadioRunFlow, k)
  BY <1>1, DoesTraffic
<1>4. /\ Does(MonitorOpmode, k) /\ Does(PowerAndProfile, k) /\ Does(PreTxProbe, k) /\ Does(PreTxRfWrite, k) /\ Does(PreTxWrites, k)
      /\ Does(BenchAddressing, k) /\ Does(BenchScheduler, k) /\ Does(BenchTrace, k) /\ Does(BenchMediaStatus, k) /\ Does(BenchPostTx, k)
  BY <1>1, DoesPreparation
<1> QED BY <1>2, <1>3, <1>4

LEMMA TidySmokes ==
  ASSUME NEW r, OfLeft(r), NEW c \in Smokes
  PROVE  Tidy(r, SmokePlans[c])
<1> DEFINE L(P) == Tidy(r, P)
<1>c. \A P, Q : L(P) /\ L(Q) => L(P \o Q)
  BY TidyWays
<1>o. \A P, o : L(P) => L(When(o, P)) /\ L(Unless(o, P)) /\ L(In(o, P))
  BY TidyWays
<1>k. \A w : /\ L(Check(w)) /\ L(Checks(w)) /\ L(File(w)) /\ L(Acknowledge(w)) /\ L(Claim(w))
             /\ L(BulkIn(w)) /\ L(BulkOut(w)) /\ L(Read("usb", w))
  BY TidySteps
<1>1. /\ L(WritesRegisters) /\ L(LibusbOpen) /\ L(MacosOpen) /\ L(BbTables) /\ L(RfTables) /\ L(ReconfiguresUsb)
  BY TidyOpens
<1>2. /\ L(PowerOnSequence) /\ L(LltSequence) /\ L(QueueDmaSequence) /\ L(MacSequence) /\ L(BbSequence) /\ L(RfSequence)
      /\ L(ReadEfusePhysical) /\ L(FirmwareSequence) /\ L(QueueLayout)
  BY TidyLayers
<1>3. L(LedBlink) /\ L(LedWrite(TRUE)) /\ L(LedWrite(FALSE))
  BY TidyTraffic
<1> HIDE DEF L
<1>4. L(RegSmoke) /\ L(MacosRegSmoke) /\ L(PowerOnSmoke) /\ L(MacosPowerOnSmoke)
  BY <1>c, <1>k, <1>1, <1>2 DEF RegSmoke, MacosRegSmoke, PowerOnSmoke, MacosPowerOnSmoke
<1>5. L(EfuseDump) /\ L(MacosEfuseDump)
  <2>1. L(EfuseArguments) /\ L(EfuseOutput)
    BY <1>c, <1>k DEF EfuseArguments, EfuseOutput
  <2> QED BY <2>1, <1>c, <1>1, <1>2 DEF EfuseDump, MacosEfuseDump
<1>6. L(LedSmoke)
  BY <1>c, <1>o, <1>k, <1>1, <1>3 DEF LedSmoke
<1>7. L(ExtractFirmware)
  BY <1>c, <1>k DEF ExtractFirmware
<1>8. L(FirmwareSmoke) /\ L(MacosFirmwareSmoke)
  <2>1. L(FirmwareArguments)
    BY <1>c, <1>k, <1>1 DEF FirmwareArguments
  <2> QED BY <2>1, <1>c, <1>1, <1>2 DEF FirmwareSmoke, MacosFirmwareSmoke
<1>9. L(LltSmoke) /\ L(MacosLltSmoke) /\ L(QueueDmaSmoke) /\ L(MacosQueueDmaSmoke)
  BY <1>c, <1>k, <1>1, <1>2 DEF LltSmoke, MacosLltSmoke, QueueDmaSmoke, MacosQueueDmaSmoke
<1>10. L(MacSmoke) /\ L(MacosMacSmoke) /\ L(BbSmoke) /\ L(MacosBbSmoke) /\ L(RfSmoke) /\ L(MacosRfSmoke)
  BY <1>c, <1>1, <1>2 DEF MacSmoke, MacosMacSmoke, BbSmoke, MacosBbSmoke, RfSmoke, MacosRfSmoke
<1>11. L(DescriptorSmoke) /\ L(InterfaceSmoke) /\ L(BulkInSmoke)
  <2>1. L(DescriptorReads)
    BY <1>c, <1>k DEF DescriptorReads
  <2> QED BY <2>1, <1>c, <1>k, <1>1 DEF DescriptorSmoke, InterfaceSmoke, BulkInSmoke
<1>12. L(BulkOutSmoke) /\ L(SessionSmoke)
  <2>1. L(SessionTransfers)
    BY <1>c, <1>k DEF SessionTransfers
  <2> QED BY <2>1, <1>c, <1>k, <1>1 DEF BulkOutSmoke, SessionSmoke
<1>13. L(SmokePlans[c])
  BY <1>4, <1>5, <1>6, <1>7, <1>8, <1>9, <1>10, <1>11, <1>12 DEF Smokes, SmokePlans
<1> QED BY <1>13 DEF L

LEMMA TidyRadios ==
  ASSUME NEW r, OfLeft(r), NEW c \in DOMAIN RadioPlans, c \notin {"tx_once", "tx_repeat"}
  PROVE  Tidy(r, RadioPlans[c])
<1> DEFINE L(P) == Tidy(r, P)
<1>c. \A P, Q : L(P) /\ L(Q) => L(P \o Q)
  BY TidyWays
<1>o. \A P, o : L(P) => L(When(o, P)) /\ L(In(o, P))
  BY TidyWays
<1>k. \A w : L(Check(w)) /\ L(Checks(w)) /\ L(File(w)) /\ L(Reject(w)) /\ L(Claim(w)) /\ L(BulkOut(w))
  BY TidySteps
<1>1. /\ L(WritesRegisters) /\ L(OpenTransport) /\ L(BbTables) /\ L(RfTables) /\ L(InitAssets)
      /\ L(TxOpen) /\ L(RxOpen) /\ L(BridgeRunOpen) /\ L(ProfileAuthorization)
  BY TidyOpens
<1>2. /\ L(IqkStandalone) /\ L(SameSessionInit) /\ L(InitLowerPhases) /\ L(InitMacPhases) /\ L(InitUpperPhases)
      /\ L(RadioRunLowerPhases) /\ L(RadioRunUpperPhases) /\ L(PreTxInit) /\ L(BridgeRunPrepare) /\ L(ListenPrepare)
  BY TidyLayers
<1>3. /\ L(TxStatus) /\ L(AllTheSame("traffic", TxStatus)) /\ L(RxCapture)
      /\ L(Submits) /\ L(ListenLoop) /\ L(BridgeRunLoop) /\ L(RadioRunFlow)
  BY TidyTraffic
<1>4. /\ L(MonitorOpmode) /\ L(PowerAndProfile) /\ L(PreTxProbe) /\ L(PreTxRfWrite) /\ L(PreTxWrites)
      /\ L(BenchAddressing) /\ L(BenchScheduler) /\ L(BenchTrace) /\ L(BenchMediaStatus) /\ L(BenchPostTx)
  BY TidyTraffic
<1> HIDE DEF L
<1>5. L(InitLive) /\ L(IqkDiagnostic)
  <2>1. L(InitPreparation) /\ L(InitTablePlan)
    BY <1>c, <1>o, <1>k, <1>1 DEF InitPreparation, InitTablePlan
  <2> QED BY <2>1, <1>c, <1>o, <1>k, <1>1, <1>2 DEF InitLive, IqkDiagnostic
<1>6. L(RxScan)
  <2>1. L(RxScanArguments)
    BY <1>c, <1>o, <1>k, <1>1 DEF RxScanArguments
  <2> QED BY <2>1, <1>c, <1>o, <1>k, <1>1, <1>2, <1>3, <1>4 DEF RxScan
<1>7. L(BridgeTxOnce)
  BY <1>c, <1>o, <1>k, <1>1 DEF BridgeTxOnce
<1>8. L(BridgeTxListen)
  <2>1. L(ListenArguments) /\ L(ListenSocket)
    BY <1>c, <1>o, <1>k, <1>1 DEF ListenArguments, ListenSocket
  <2> QED BY <2>1, <1>c, <1>o, <1>k, <1>1, <1>2, <1>3 DEF BridgeTxListen
<1>9. L(BridgeRun)
  <2>1. L(BridgeRunArguments) /\ L(BridgeRunSockets)
    BY <1>c, <1>o, <1>k, <1>1 DEF BridgeRunArguments, BridgeRunSockets
  <2> QED BY <2>1, <1>c, <1>o, <1>k, <1>1, <1>2, <1>3 DEF BridgeRun
<1>10. L(DiagRuntimeFlow)
  BY <1>c, <1>o, <1>k, <1>9 DEF DiagRuntimeFlow, RejectDiagnosticOnly
<1>11. L(RadioRun)
  BY <1>c, <1>k, <1>1, <1>2, <1>3 DEF RadioRun, RadioRunArguments
<1>12. L(BridgeTxBench)
  <2>1. L(BenchArguments) /\ L(BenchParse)
    BY <1>c, <1>o, <1>k, <1>1 DEF BenchArguments, BenchParse
  <2> QED BY <2>1, <1>c, <1>o, <1>1, <1>2, <1>3, <1>4 DEF BridgeTxBench
<1>13. L(RadioPlans[c])
  BY <1>5, <1>6, <1>7, <1>8, <1>9, <1>10, <1>11, <1>12 DEF RadioPlans
<1> QED BY <1>13 DEF L

-----------------------------------------------------------------------------
(* The TX indication: lit only where the steps that follow put it out. *)
Lit == Left(Lookers, {"led"})
WithLed(r) == r.kind = "left" /\ r.led = TRUE
Lamp(r) == IF "led" \in r.opts THEN Lit ELSE Clean

(* A single step whose error silences its layer. *)
Silenced(P, l, S, C, o) ==
  /\ IsPlan(P) /\ Len(P) = 1
  /\ P[1].layer = l /\ P[1].sets = S /\ P[1].clears = C /\ P[1].fails = "quiet" /\ P[1].after = "none"
  /\ P[1].jump = "never" /\ P[1].when = o /\ P[1].unless = {}

LEMMA SilencedStep ==
  ASSUME NEW s, NEW d, NEW l \in {"led", "status"}, NEW n, NEW S, NEW C, Looks(s, d, l, n, S, C, "end", "none"), NEW o
  PROVE  Silenced(When(o, Failing("quiet", <<s>>)), l, S, C, o)
<1> DEFINE t == [s EXCEPT !.fails = "quiet"]
<1>1. Looks(t, d, l, n, S, C, "quiet", "none")
  BY LooksWith
<1>2. Failing("quiet", <<s>>) = <<t>>
  BY OneChanged, Zenon
<1> HIDE DEF t
<1>3. IsPlan(<<t>>) /\ Len(<<t>>) = 1 /\ <<t>>[1] = t
  BY <1>1, OneStep DEF Looks
<1>4. Silenced(When(o, <<t>>), l, S, C, o)
  <2> DEFINE Q == When(o, <<t>>)
  <2>1. Recasts(<<t>>, Q) /\ Q[1].when = t.when \cup o /\ Q[1].unless = t.unless
    BY <1>3, WhenPlan
  <2> HIDE DEF Q
  <2>2. IsPlan(Q) /\ Len(Q) = 1 /\ Alike(t, Q[1])
    BY <2>1, <1>3 DEF Recasts
  <2>3. Q[1].when = o
    BY <2>1, <1>1 DEF Looks
  <2>4. Silenced(Q, l, S, C, o)
    BY <2>1, <2>2, <2>3, <1>1 DEF Silenced, Looks, Alike
  <2> QED BY <2>4 DEF Q
<1> QED BY <1>2, <1>4

LEMMA LampSteps ==
  /\ Silenced(TxStatus, "status", {}, {}, {"status"})
  /\ Silenced(TxActivityLed(TRUE), "led", {"led"}, {}, {"led"})
  /\ Silenced(TxActivityLed(FALSE), "led", {}, {"led"}, {"led"})
<1>1. Silenced(When({"status"}, Failing("quiet", Read("status", "TX status"))), "status", {}, {}, {"status"})
  <2>1. Looks(Step("read", "status", <<"TX status">>), "read", "status", {}, {}, {}, "end", "none")
    BY LooksStep
  <2>2. Silenced(When({"status"}, Failing("quiet", <<Step("read", "status", <<"TX status">>)>>)), "status", {}, {}, {"status"})
    BY <2>1, SilencedStep
  <2> QED BY <2>2, Zenon DEF Read
<1>2. /\ Silenced(When({"led"}, Failing("quiet", Setting("led", "LEDCFG", {"led"}))), "led", {"led"}, {}, {"led"})
      /\ Silenced(When({"led"}, Failing("quiet", Clearing("led", "LEDCFG", {"led"}))), "led", {}, {"led"}, {"led"})
  <2> DEFINE s == Step("write", "led", <<"LEDCFG">>)
             F == {"led"}
             x == [s EXCEPT !.sets = F]
             y == [s EXCEPT !.clears = F]
  <2>1. Looks(s, "write", "led", {}, {}, {}, "end", "none")
    BY LooksStep
  <2> HIDE DEF s, F
  <2>2. Looks(x, "write", "led", {}, F, {}, "end", "none") /\ Looks(y, "write", "led", {}, {}, F, "end", "none")
    BY <2>1, LooksWith
  <2>3. /\ Setting("led", "LEDCFG", F) = <<x>> /\ Clearing("led", "LEDCFG", F) = <<y>>
    BY Zenon DEF Setting, Clearing, s
  <2> HIDE DEF x, y
  <2>4. Silenced(When(F, Failing("quiet", <<x>>)), "led", F, {}, F) /\ Silenced(When(F, Failing("quiet", <<y>>)), "led", {}, F, F)
    BY <2>2, SilencedStep
  <2> QED BY <2>3, <2>4 DEF F
<1>3. TxStatus = When({"status"}, Failing("quiet", Read("status", "TX status")))
  BY DEF TxStatus
<1>4. /\ TxActivityLed(TRUE) = When({"led"}, Failing("quiet", Setting("led", "LEDCFG", {"led"})))
      /\ TxActivityLed(FALSE) = When({"led"}, Failing("quiet", Clearing("led", "LEDCFG", {"led"})))
  BY Zenon DEF TxActivityLed, LedWrite
<1> QED BY <1>1, <1>2, <1>3, <1>4

LEMMA SingleLeads ==
  ASSUME NEW r, NEW P, IsPlan(P), Len(P) = 1, P[1].jump = "never", NEW a, NEW b, Local(r, P[1], a, b)
  PROVE  Leads(r, P, a, b)
<1>1. IsStep(P[1])
  BY DEF IsPlan
<1>2. P = <<P[1]>>
  BY DEF IsPlan
<1>3. Leads(r, <<P[1]>>, a, b)
  BY <1>1, OneLeads
<1> QED BY <1>2, <1>3

LEMMA Lamps ==
  ASSUME NEW r, WithLed(r)
  PROVE  /\ Leads(r, TxActivityLed(TRUE), Clean, Lamp(r)) /\ Leads(r, TxStatus, Lamp(r), Lamp(r))
         /\ Leads(r, AllTheSame("traffic", TxStatus \o TxActivityLed(FALSE)), Lamp(r), Clean)
<1> DEFINE a == Lamp(r)
<1>0. /\ Clean.gone = Lookers /\ Clean.late = {} /\ a.gone = Lookers
      /\ a.late = IF "led" \in r.opts THEN {"led"} ELSE {}
  BY DEF Clean, Lamp, Lit, Left
<1> HIDE DEF a
<1>1. Leads(r, TxActivityLed(TRUE), Clean, a)
  <2> DEFINE P == TxActivityLed(TRUE)
  <2>1. Silenced(P, "led", {"led"}, {}, {"led"})
    BY LampSteps
  <2> HIDE DEF P
  <2>2. LeftLocal(r, P[1], Clean, a)
    BY <1>0, <2>1 DEF Silenced, LeftLocal, Asked, StaysLate, GoesOn, MayBeQuiet, NoMoreLeft, Lookers, WithLed
  <2>3. Leads(r, P, Clean, a)
    BY <2>1, <2>2, SingleLeads DEF Silenced, Local, WithLed
  <2> QED BY <2>3 DEF P
<1>2. Leads(r, TxStatus, a, a)
  <2> DEFINE P == TxStatus
  <2>1. Silenced(P, "status", {}, {}, {"status"})
    BY LampSteps
  <2> HIDE DEF P
  <2>2. LeftLocal(r, P[1], a, a)
    BY <1>0, <2>1 DEF Silenced, LeftLocal, Asked, StaysLate, GoesOn, MayBeQuiet, NoMoreLeft, Lookers, WithLed
  <2>3. Leads(r, P, a, a)
    BY <2>1, <2>2, SingleLeads DEF Silenced, Local, WithLed
  <2> QED BY <2>3 DEF P
<1>3. Leads(r, AllTheSame("traffic", TxStatus \o TxActivityLed(FALSE)), a, Clean)
  <2> DEFINE X == TxStatus
             Y == TxActivityLed(FALSE)
             P == X \o Y
             Q == AllTheSame("traffic", P)
             A == [i \in 1..3 |-> IF i = 3 THEN Clean ELSE a]
  <2>1. Silenced(X, "status", {}, {}, {"status"}) /\ Silenced(Y, "led", {}, {"led"}, {"led"})
    BY LampSteps
  <2> HIDE DEF X, Y
  <2>2. IsPlan(P) /\ Len(P) = 2 /\ P[1] = X[1] /\ P[2] = Y[1]
    <3>1. /\ IsPlan(P) /\ Len(P) = Len(X) + Len(Y)
          /\ \A i \in 1..Len(X) : P[i] = X[i]
          /\ \A i \in 1..Len(Y) : P[Len(X) + i] = Y[i]
      <4>1. IsPlan(X) /\ IsPlan(Y)
        BY <2>1 DEF Silenced
      <4> QED BY <4>1, PlanCat
    <3> QED BY <3>1, <2>1 DEF Silenced
  <2> HIDE DEF P
  <2>3. IsPlan(Q) /\ Len(Q) = 2 /\ Changed(X[1], Q[1], "after", "traffic") /\ Changed(Y[1], Q[2], "after", "traffic")
    BY <2>2, AfterPlan
  <2> HIDE DEF Q
  <2>4. /\ Q[1].layer = "status" /\ Q[1].sets = {} /\ Q[1].clears = {} /\ Q[1].fails = "quiet" /\ Q[1].jump = "never"
        /\ Q[1].when = {"status"} /\ Q[1].unless = {} /\ Q[1].after = "traffic"
    BY <2>1, <2>3 DEF Silenced, Changed, Fields
  <2>5. /\ Q[2].layer = "led" /\ Q[2].sets = {} /\ Q[2].clears = {"led"} /\ Q[2].fails = "quiet" /\ Q[2].jump = "never"
        /\ Q[2].when = {"led"} /\ Q[2].unless = {} /\ Q[2].after = "traffic"
    BY <2>1, <2>3 DEF Silenced, Changed, Fields
  <2>6. LeftLocal(r, Q[1], a, a)
    BY <1>0, <2>4 DEF LeftLocal, Asked, StaysLate, GoesOn, MayBeQuiet, NoMoreLeft, Lookers, WithLed
  <2>7. LeftLocal(r, Q[2], a, Clean)
    BY <1>0, <2>5 DEF LeftLocal, Asked, StaysLate, GoesOn, MayBeQuiet, NoMoreLeft, Lookers, WithLed
  <2>8. A[1] = a /\ A[2] = a /\ A[3] = Clean
    OBVIOUS
  <2> HIDE DEF A
  <2>9. Fitting(r, Q, A)
    <3>1. ASSUME NEW i \in 1..Len(Q) PROVE Local(r, Q[i], A[i], A[i + 1]) /\ Q[i].jump = "never"
      <4>1. i = 1 \/ i = 2
        BY <2>3
      <4>2. CASE i = 1
        BY <4>2, <2>4, <2>6, <2>8 DEF Local, WithLed
      <4>3. CASE i = 2
        BY <4>3, <2>5, <2>7, <2>8 DEF Local, WithLed
      <4> QED BY <4>1, <4>2, <4>3
    <3> QED BY <3>1 DEF Fitting
  <2>10. Weaker(r, a, A[1]) /\ Weaker(r, A[Len(Q) + 1], Clean)
    BY <2>3, <2>8, WeakerOrder
  <2>11. Leads(r, Q, a, Clean)
    BY <2>3, <2>9, <2>10 DEF Leads
  <2> QED BY <2>11 DEF Q, P, X, Y
<1> QED BY <1>1, <1>2, <1>3 DEF a

LEMMA LampHost ==
  ASSUME NEW r, WithLed(r), NEW w
  PROVE  /\ Leads(r, Check(w), Clean, Clean) /\ Leads(r, Checks(w), Clean, Clean) /\ Leads(r, Claim(w), Clean, Clean)
         /\ Leads(r, Submit, Lamp(r), Lamp(r))
<1> DEFINE a == Lamp(r)
<1>0. Clean.late = {} /\ a.late \subseteq {"led"}
  BY DEF Clean, Lamp, Lit, Left
<1> HIDE DEF a
<1>1. ASSUME NEW s, NEW d, NEW l \in {"host", "usb"}, Looks(s, d, l, {}, {}, {}, "end", "none")
      PROVE  Leads(r, <<s>>, Clean, Clean)
  <2>1. LeftLocal(r, s, Clean, Clean)
    BY <1>0, <1>1 DEF LeftLocal, Looks, StaysLate, GoesOn, MayBeQuiet, NoMoreLeft, WithLed
  <2> QED BY <1>1, <2>1, OneLeads DEF Looks, Local, WithLed
<1>2. \A v : Leads(r, <<Step("check", "host", v)>>, Clean, Clean) /\ Leads(r, <<Step("claim", "usb", v)>>, Clean, Clean)
  BY <1>1, LooksStep
<1>3. Leads(r, Submit, a, a)
  <2> DEFINE s == Step("out", "traffic", <<"frame">>)
             t == [s EXCEPT !.fails = "keep"]
  <2>1. Looks(s, "out", "traffic", {}, {}, {}, "end", "none")
    BY LooksStep
  <2>2. Submit = Failing("keep", <<s>>)
    BY Zenon DEF Submit, BulkOut
  <2> HIDE DEF s
  <2>3. Looks(t, "out", "traffic", {}, {}, {}, "keep", "none") /\ Failing("keep", <<s>>) = <<t>>
    BY <2>1, LooksWith, OneChanged, Zenon
  <2> HIDE DEF t
  <2>4. LeftLocal(r, t, a, a)
    BY <1>0, <2>3 DEF LeftLocal, Looks, StaysLate, GoesOn, MayBeQuiet, NoMoreLeft, WithLed
  <2>5. Leads(r, <<t>>, a, a)
    BY <2>3, <2>4, OneLeads DEF Looks, Local, WithLed
  <2> QED BY <2>2, <2>3, <2>5
<1> QED BY <1>2, <1>3 DEF Check, Checks, Claim, a

LEMMA IndicationOff ==
  ASSUME NEW r, WithLed(r)
  PROVE  Tidy(r, TxOnce) /\ Tidy(r, TxRepeat)
<1> DEFINE M(P, x, y) == Leads(r, P, x, y)
           a == Lamp(r)
<1>c. \A P, Q, x, y, z : M(P, x, y) /\ M(Q, y, z) => M(P \o Q, x, z)
  BY Cat
<1>i. \A P, x, y, h : M(P, x, y) => M(In(h, P), x, y)
  BY InLeads
<1>k. \A w : M(Check(w), Clean, Clean) /\ M(Checks(w), Clean, Clean) /\ M(Claim(w), Clean, Clean)
  BY LampHost
<1>1. M(Submit, a, a)
  BY LampHost
<1>2. M(Submits, a, a)
  <2> DEFINE f == [n \in 1..Repeats |-> Submit]
  <2>1. Blocks(f, Repeats) /\ \A n \in 1..Repeats : M(f[n], a, a)
    BY <1>1, DiagStepConstants DEF Blocks, Leads
  <2> HIDE DEF f
  <2>2. M(FlattenSeq(f), a, a)
    BY <2>1, FlattenLeads
  <2> QED BY <2>2 DEF Submits, f
<1>3. /\ M(TxActivityLed(TRUE), Clean, a) /\ M(TxStatus, a, a)
      /\ M(AllTheSame("traffic", TxStatus \o TxActivityLed(FALSE)), a, Clean)
  BY Lamps
<1> HIDE DEF M, a
<1>4. \A P : M(P, a, a) => M(WithIndication(P), Clean, Clean)
  <2> SUFFICES ASSUME NEW P, M(P, a, a) PROVE M(WithIndication(P), Clean, Clean)
    OBVIOUS
  <2>1. M(TxActivityLed(TRUE) \o TxStatus, Clean, a)
    BY <1>c, <1>3
  <2>2. M(TxActivityLed(TRUE) \o TxStatus \o P, Clean, a)
    BY <2>1, <1>c
  <2> QED BY <2>2, <1>c, <1>3 DEF WithIndication
<1>5. M(WithIndication(Submit), Clean, Clean) /\ M(WithIndication(Submits), Clean, Clean)
  BY <1>1, <1>2, <1>4
<1>6. M(OpenTransport, Clean, Clean)
  BY <1>i, <1>k DEF OpenTransport
<1>7. M(TxOnce, Clean, Clean)
  <2>1. M(TxArguments, Clean, Clean) /\ M(TxOpen, Clean, Clean)
    BY <1>c, <1>k, <1>6 DEF TxArguments, TxOpen
  <2>2. M(TxArguments \o In("tx_descriptor", Check("descriptor")) \o TxOpen, Clean, Clean)
    BY <2>1, <1>c, <1>i, <1>k
  <2> QED BY <2>2, <1>c, <1>i, <1>5 DEF TxOnce
<1>8. M(TxRepeat, Clean, Clean)
  BY <1>c, <1>i, <1>k, <1>5, <1>6 DEF TxRepeat, TxRepeatArguments, TxArguments
<1> QED BY <1>7, <1>8 DEF M, Tidy

-----------------------------------------------------------------------------
(* What the annotation a says of an error kept by layer k, the fresh facts f, those t of which a failed *)
(* write was to withdraw, and the silenced layers q.                                                    *)
Remain(a, k, f, t, q, led) ==
  /\ k = "none" => f \cap a.gone = {}
  /\ k = "firmware" => "grant" \notin f \ t /\ ("dl" \in f \ t => "dl" \in a.late)
  /\ k = "efuse" => "dl" \notin f \ t /\ ("grant" \in f \ t => "grant" \in a.late)
  /\ led /\ "led" \in f /\ "led" \notin q => "led" \in a.late
KeptAs(r, k) == r.led => k \in {"none", "traffic"}

LeftReq(c, o) == [kind |-> "left", opts |-> o, led |-> c \in {"tx_once", "tx_repeat"}]
LeftOfPlans == \A c \in DOMAIN Plans : \A o \in OptionsOf(c) : Tidy(LeftReq(c, o), Plans[c])

EndsClean(P, A) == NoMoreLeft(A[Len(P) + 1], Clean)
(* The inductive invariant of NothingForgotten. *)
LeftInv ==
  /\ NothingLeftOn
  /\ KeptAs(LeftReq(cmd, opts), kept)
  /\ pc # 0 =>
       \E A : /\ Fitting(LeftReq(cmd, opts), Plans[cmd], A) /\ EndsClean(Plans[cmd], A)
              /\ Remain(A[pc], kept, fresh, stuck, quiet, LeftReq(cmd, opts).led)

LEMMA RemainWeaker ==
  ASSUME NEW a, NEW b, NEW k, NEW f, NEW t, NEW q, NEW led, Remain(a, k, f, t, q, led), NoMoreLeft(a, b)
  PROVE  Remain(b, k, f, t, q, led)
BY DEF Remain, NoMoreLeft

(* A step that does not run. *)
LEMMA RemainPass ==
  ASSUME NEW r, NEW s, NEW a, NEW b, LeftLocal(r, s, a, b), NEW k, NEW f, NEW t, NEW q, q \subseteq {"led", "status"}, KeptAs(r, k),
         Remain(a, k, f, t, q, r.led), ~Runs(s, r.opts, k, q)
  PROVE  Remain(b, k, f, t, q, r.led)
<1>1. CASE ~Asked(s, r.opts)
  BY <1>1, RemainWeaker DEF LeftLocal
<1>2. CASE Asked(s, r.opts) /\ k # "none" /\ s.after # k
  BY <1>2 DEF LeftLocal, StaysLate, Remain, KeptAs
<1>3. CASE Asked(s, r.opts) /\ (k = "none" \/ s.after = k) /\ s.layer \in q
  <2>1. MayBeQuiet(s) /\ k \notin {"firmware", "efuse"}
    BY <1>3 DEF MayBeQuiet, LeftLocal
  <2> QED BY <1>3, <2>1 DEF LeftLocal, Remain
<1> QED BY <1>1, <1>2, <1>3 DEF Runs, Asked

(* A step that runs: it succeeds, jumps, goes on after an error, or keeps the error. *)
LEMMA RemainSucceed ==
  ASSUME NEW r, NEW s, NEW a, NEW b, LeftLocal(r, s, a, b), NEW k, NEW f, NEW t, NEW q, KeptAs(r, k),
         Remain(a, k, f, t, q, r.led), Runs(s, r.opts, k, q), s.jump # "always"
  PROVE  Remain(b, k, (f \ s.clears) \cup s.sets, t, q, r.led)
<1>1. Asked(s, r.opts) /\ (k = "none" \/ s.after = k)
  BY DEF Runs, Asked
<1> QED BY <1>1 DEF LeftLocal, StaysLate, Remain, KeptAs

LEMMA RemainLands ==
  ASSUME NEW r, NEW s, NEW a, NEW c, LeftLands(r, s, a, c), NEW k, NEW f, NEW t, NEW q,
         Remain(a, k, f, t, q, r.led), Runs(s, r.opts, k, q)
  PROVE  Remain(c, k, (f \ s.clears) \cup s.sets, t, q, r.led)
BY DEF LeftLands, Remain, Runs

(* The fresh facts after a step that failed, with its effect or without. *)
Spoilt(f, s) == {f, (f \ s.clears) \cup s.sets}

LEMMA RemainGoesOn ==
  ASSUME NEW r, NEW s, NEW a, NEW b, LeftLocal(r, s, a, b), NEW k, NEW f, NEW t, NEW q, NEW p, q \subseteq p, KeptAs(r, k),
         Remain(a, k, f, t, q, r.led), Runs(s, r.opts, k, q), GoesOn(s), s.fails = "quiet" => s.layer \in p,
         NEW g \in Spoilt(f, s)
  PROVE  Remain(b, k, g, t \cup s.clears, p, r.led)
<1>1. Asked(s, r.opts) /\ (k = "none" \/ s.after = k) /\ s.fails # "keep"
  BY DEF Runs, Asked, GoesOn
<1>2. k \notin {"firmware", "efuse"}
  BY <1>1 DEF LeftLocal
<1>3. k = "none" => g \cap b.gone = {}
  BY <1>1 DEF LeftLocal, Remain, Spoilt
<1>4. r.led /\ "led" \in g /\ "led" \notin p => "led" \in b.late
  BY <1>1 DEF LeftLocal, StaysLate, Remain, Spoilt
<1> QED BY <1>2, <1>3, <1>4 DEF Remain

LEMMA RemainKeeps ==
  ASSUME NEW r, NEW s, NEW a, NEW b, LeftLocal(r, s, a, b), NEW k, NEW f, NEW t, NEW q, KeptAs(r, k),
         Remain(a, k, f, t, q, r.led), Runs(s, r.opts, k, q), s.fails = "keep", s.layer # "none",
         NEW l, l = IF k = "none" THEN s.layer ELSE k, NEW g \in Spoilt(f, s)
  PROVE  KeptAs(r, l) /\ Remain(b, l, g, t \cup s.clears, q, r.led)
<1> DEFINE u == t \cup s.clears
<1>1. Asked(s, r.opts) /\ (k = "none" \/ s.after = k)
  BY DEF Runs, Asked
<1>2. KeptAs(r, l)
  BY <1>1 DEF LeftLocal, KeptAs
<1>3. r.led /\ "led" \in g /\ "led" \notin q => "led" \in b.late
  BY <1>1 DEF LeftLocal, StaysLate, Remain, Spoilt
<1>4. CASE k = "none"
  <2>1. l = s.layer /\ l # "none" /\ f \cap a.gone = {}
    BY <1>4 DEF Remain
  <2>2. l = "firmware" => "grant" \notin g \ u /\ ("dl" \in g \ u => "dl" \in b.late)
    BY <1>1, <2>1 DEF LeftLocal, Spoilt
  <2>3. l = "efuse" => "dl" \notin g \ u /\ ("grant" \in g \ u => "grant" \in b.late)
    BY <1>1, <2>1 DEF LeftLocal, Spoilt
  <2> QED BY <1>2, <1>3, <2>1, <2>2, <2>3 DEF Remain
<1>5. CASE k # "none"
  <2>1. l = k /\ s.after = k /\ (k \in {"firmware", "efuse"} => g \ u \subseteq (f \ t) \ s.clears)
    BY <1>1, <1>5 DEF LeftLocal, Spoilt
  <2>2. k = "firmware" => "grant" \notin g \ u /\ ("dl" \in g \ u => "dl" \in b.late)
    BY <1>1, <2>1 DEF LeftLocal, StaysLate, Remain
  <2>3. k = "efuse" => "dl" \notin g \ u /\ ("grant" \in g \ u => "grant" \in b.late)
    BY <1>1, <2>1 DEF LeftLocal, StaysLate, Remain
  <2> QED BY <1>2, <1>3, <1>5, <2>1, <2>2, <2>3 DEF Remain
<1> QED BY <1>4, <1>5

LEMMA LeftAt ==
  ASSUME NEW r, r.kind = "left", NEW P, NEW A, Fitting(r, P, A), NEW i \in 1..Len(P)
  PROVE  /\ LeftLocal(r, P[i], A[i], A[i + 1])
         /\ Asked(P[i], r.opts) /\ P[i].jump # "never" =>
              i + P[i].skip <= Len(P) /\ LeftLands(r, P[i], A[i], A[i + 1 + P[i].skip])
BY DEF Fitting, Local, Lands

LEMMA LeftProceed ==
  ASSUME NEW r, r.kind = "left", NEW P, IsPlan(P), NEW A, Fitting(r, P, A), EndsClean(P, A), NEW k, NEW f, NEW t, NEW q,
         q \subseteq {"led", "status"}, KeptAs(r, k),
         NEW p \in 0..Len(P), Proceed(P, r.opts, k, q, p), Remain(A[p + 1], k, f, t, q, r.led)
  PROVE  /\ pc' # 0 => Remain(A[pc'], k, f, t, q, r.led)
         /\ pc' = 0 => Remain(Clean, k, f, t, q, r.led)
<1> DEFINE T == {n \in Nat : Remain(A[n], k, f, t, q, r.led)}
<1>0. Len(P) \in Nat
  BY DEF IsPlan
<1>1. p + 1 \in T
  BY <1>0
<1>2. ASSUME NEW n \in (p + 1)..Len(P), n \in T, ~Runs(P[n], r.opts, k, q) PROVE n + 1 \in T
  <2>1. n \in 1..Len(P) /\ n + 1 \in Nat
    BY <1>0
  <2>2. Remain(A[n], k, f, t, q, r.led) /\ LeftLocal(r, P[n], A[n], A[n + 1])
    BY <1>2, <2>1, LeftAt
  <2>3. Remain(A[n + 1], k, f, t, q, r.led)
    BY <1>2, <2>2, RemainPass
  <2> QED BY <2>1, <2>3
<1> HIDE DEF T
<1>3. \/ pc' = 0 /\ Len(P) + 1 \in T
      \/ pc' \in (p + 1)..Len(P) /\ pc' \in T
  BY <1>1, <1>2, Chain
<1>4. CASE pc' = 0 /\ Len(P) + 1 \in T
  <2>1. Remain(A[Len(P) + 1], k, f, t, q, r.led)
    BY <1>4 DEF T
  <2>2. Remain(Clean, k, f, t, q, r.led)
    BY <2>1, RemainWeaker DEF EndsClean
  <2> QED BY <1>4, <2>2
<1>5. CASE pc' \in (p + 1)..Len(P) /\ pc' \in T
  <2>1. pc' # 0
    BY <1>0, <1>5
  <2> QED BY <1>5, <2>1 DEF T
<1> QED BY <1>3, <1>4, <1>5

(* Where a command ends. *)
LEMMA CleanMeans ==
  ASSUME NEW k, NEW f, NEW t, NEW q, NEW led, Remain(Clean, k, f, t, q, led)
  PROVE  /\ k = "none" => f \cap {"grant", "dl", "page", "hssi"} = {}
         /\ k \in {"efuse", "firmware"} => f \cap {"grant", "dl"} \subseteq t
         /\ led /\ "led" \notin q => "led" \notin f
BY DEF Remain, Clean, Left, Lookers

LEMMA LeftGoes ==
  ASSUME NEW A, NEW r, r = LeftReq(cmd', opts'), Fitting(r, Plans[cmd'], A), EndsClean(Plans[cmd'], A),
         KeptAs(r, kept'), Stage',
         /\ pc' # 0 => Remain(A[pc'], kept', fresh', stuck', quiet', r.led)
         /\ pc' = 0 => Remain(Clean, kept', fresh', stuck', quiet', r.led)
  PROVE  LeftInv'
<1>1. r.led = (cmd' \in {"tx_once", "tx_repeat"})
  BY DEF LeftReq
<1>2. CASE pc' # 0
  <2>1. NothingLeftOn'
    BY <1>2 DEF NothingLeftOn, Reporting
  <2> QED BY <1>2, <2>1 DEF LeftInv
<1>3. CASE pc' = 0
  <2>1. /\ kept' = "none" => fresh' \cap {"grant", "dl", "page", "hssi"} = {}
        /\ kept' \in {"efuse", "firmware"} => fresh' \cap {"grant", "dl"} \subseteq stuck'
        /\ r.led /\ "led" \notin quiet' => "led" \notin fresh'
    BY <1>3, CleanMeans
  <2>2. kept' # "none" => failing' = TRUE
    BY DEF Stage
  <2>3. NothingLeftOn'
    BY <2>1, <2>2, <1>1 DEF NothingLeftOn
  <2> QED BY <1>3, <2>3 DEF LeftInv
<1> QED BY <1>2, <1>3

LEMMA LeftStart ==
  ASSUME LeftOfPlans, AllPlans, Stage, Stage', LeftInv, Start PROVE LeftInv'
<1>0. PICK c \in DOMAIN Plans : \E o \in OptionSets(c) :
         cmd' = c /\ opts' = WithProbe(o) /\ Proceed(Plans[c], WithProbe(o), "none", {}, 0)
  BY Zenon DEF Start
<1>1. PICK o \in OptionSets(c) :
         cmd' = c /\ opts' = WithProbe(o) /\ Proceed(Plans[c], WithProbe(o), "none", {}, 0)
  BY <1>0
<1>2. /\ kept' = "none" /\ quiet' = {} /\ fresh' = {} /\ opts' \in OptionsOf(c) /\ IsPlan(Plans[c])
  BY <1>1 DEF Start, Stage, Idle, OptionsOf, AllPlans
<1> DEFINE r == LeftReq(c, opts')
<1>3. r.kind = "left" /\ r.opts = opts'
  BY DEF LeftReq
<1>4. Leads(r, Plans[c], Clean, Clean)
  BY <1>2 DEF LeftOfPlans, Tidy
<1> HIDE DEF r
<1>5. PICK A : Fitting(r, Plans[c], A) /\ EndsClean(Plans[c], A)
  BY <1>3, <1>4 DEF Leads, Weaker, EndsClean
<1>6. KeptAs(r, kept') /\ Remain(A[0 + 1], kept', fresh', stuck', quiet', r.led)
  BY <1>2 DEF KeptAs, Remain
<1>7. /\ pc' # 0 => Remain(A[pc'], kept', fresh', stuck', quiet', r.led)
      /\ pc' = 0 => Remain(Clean, kept', fresh', stuck', quiet', r.led)
  <2>1. 0 \in 0..Len(Plans[c]) /\ Proceed(Plans[c], r.opts, kept', quiet', 0) /\ quiet' \subseteq {"led", "status"}
    BY <1>1, <1>2, <1>3 DEF IsPlan
  <2> QED BY <2>1, <1>2, <1>3, <1>5, <1>6, LeftProceed
<1>8. r = LeftReq(cmd', opts') /\ cmd' = c
  BY <1>1 DEF r
<1> QED BY <1>5, <1>6, <1>7, <1>8, LeftGoes

LEMMA LeftSucceed ==
  ASSUME AllPlans, Stage, Stage', LeftInv, Succeed PROVE LeftInv'
<1> DEFINE P == Plans[cmd]
           r == LeftReq(cmd, opts)
<1>1. pc # 0
  BY DEF Succeed
<1>2. /\ IsPlan(P) /\ Len(P) \in Nat /\ pc \in 1..Len(P) /\ at = P[pc] /\ IsStep(at)
      /\ Runs(at, opts, kept, quiet)
  BY <1>1, StepAtHand
<1>3. PICK A : Fitting(r, P, A) /\ EndsClean(P, A) /\ Remain(A[pc], kept, fresh, stuck, quiet, r.led)
  BY <1>1 DEF LeftInv
<1>4. /\ fresh' = (fresh \ at.clears) \cup at.sets
      /\ UNCHANGED <<cmd, opts, kept, quiet, stuck>>
      /\ Proceed(P, opts, kept, quiet, IF Jumps THEN pc + at.skip ELSE pc)
  BY Zenon DEF Succeed, Effect
<1>5. r.opts = opts /\ r.kind = "left" /\ KeptAs(r, kept) /\ Asked(at, opts) /\ quiet \subseteq {"led", "status"}
  BY <1>2 DEF LeftReq, LeftInv, Runs, Asked, Stage
<1> HIDE DEF r
<1>6. /\ LeftLocal(r, at, A[pc], A[pc + 1])
      /\ at.jump # "never" => pc + at.skip <= Len(P) /\ LeftLands(r, at, A[pc], A[pc + 1 + at.skip])
  BY <1>2, <1>3, <1>5, LeftAt
<1>7. Runs(at, r.opts, kept, quiet)
  BY <1>2, <1>5
<1>8. /\ pc' # 0 => Remain(A[pc'], kept', fresh', stuck', quiet', r.led)
      /\ pc' = 0 => Remain(Clean, kept', fresh', stuck', quiet', r.led)
  <2>1. CASE Jumps
    <3>1. at.jump # "never"
      BY <2>1 DEF Jumps
    <3>2. pc + at.skip \in 0..Len(P) /\ (pc + at.skip) + 1 = pc + 1 + at.skip
      <4>1. at.skip \in Nat
        BY <1>2 DEF IsStep
      <4>2. \A n \in Nat : pc + n <= Len(P) => pc + n \in 0..Len(P) /\ (pc + n) + 1 = pc + 1 + n
        BY <1>2
      <4> QED BY <4>1, <4>2, <3>1, <1>6, Zenon
    <3>3. Remain(A[pc + 1 + at.skip], kept, fresh', stuck', quiet, r.led)
      BY <1>3, <1>4, <1>6, <1>7, <3>1, RemainLands
    <3>4. Proceed(P, r.opts, kept, quiet, pc + at.skip)
      BY <1>4, <1>5, <2>1
    <3> DEFINE p == pc + at.skip
    <3>5. p \in 0..Len(P) /\ Remain(A[p + 1], kept, fresh', stuck', quiet, r.led) /\ Proceed(P, r.opts, kept, quiet, p)
      BY <3>2, <3>3, <3>4
    <3> HIDE DEF p
    <3> QED BY <3>5, <1>2, <1>3, <1>4, <1>5, LeftProceed
  <2>2. CASE ~Jumps
    <3>1. at.jump # "always" /\ pc \in 0..Len(P)
      BY <2>2, <1>2 DEF Jumps
    <3>2. Remain(A[pc + 1], kept, fresh', stuck', quiet, r.led)
      BY <1>3, <1>4, <1>5, <1>6, <1>7, <3>1, RemainSucceed
    <3>3. Proceed(P, r.opts, kept, quiet, pc)
      BY <1>4, <1>5, <2>2
    <3> QED BY <3>1, <3>2, <3>3, <1>2, <1>3, <1>4, <1>5, LeftProceed
  <2> QED BY <2>1, <2>2
<1>9. /\ r = LeftReq(cmd', opts') /\ Fitting(r, Plans[cmd'], A) /\ EndsClean(Plans[cmd'], A)
      /\ KeptAs(r, kept')
  BY <1>3, <1>4, <1>5 DEF r
<1> QED BY <1>8, <1>9, LeftGoes

LEMMA LeftFail ==
  ASSUME AllPlans, Stage, Stage', LeftInv, Fail PROVE LeftInv'
<1> DEFINE P == Plans[cmd]
           r == LeftReq(cmd, opts)
<1>1. pc # 0
  BY DEF Fail
<1>2. /\ IsPlan(P) /\ Len(P) \in Nat /\ pc \in 1..Len(P) /\ at = P[pc] /\ IsStep(at)
      /\ Runs(at, opts, kept, quiet)
  BY <1>1, StepAtHand
<1>3. PICK A : Fitting(r, P, A) /\ EndsClean(P, A) /\ Remain(A[pc], kept, fresh, stuck, quiet, r.led)
  BY <1>1 DEF LeftInv
<1>4. /\ fresh' \in Spoilt(fresh, at) /\ stuck' = stuck \cup at.clears
      /\ UNCHANGED <<cmd, opts>> /\ HowItFails
      /\ at.fails = "end" => pc' = 0
      /\ at.fails # "end" => Proceed(P, opts, kept', quiet', pc)
  <2>1. fresh' = fresh \/ fresh' = (fresh \ at.clears) \cup at.sets
    BY DEF Fail, Effect
  <2> QED BY <2>1, Zenon DEF Fail, Spoilt
<1>5. r.opts = opts /\ r.kind = "left" /\ KeptAs(r, kept) /\ Asked(at, opts) /\ quiet \subseteq {"led", "status"}
  BY <1>2 DEF LeftReq, LeftInv, Runs, Asked, Stage
<1> HIDE DEF r
<1>6. LeftLocal(r, at, A[pc], A[pc + 1]) /\ Runs(at, r.opts, kept, quiet) /\ at.layer # "none"
  BY <1>2, <1>3, <1>5, LeftAt DEF IsStep
<1>f. \/ at.fails = "end" /\ kept' = kept /\ quiet' = quiet /\ failing' = TRUE
      \/ at.fails = "keep" /\ quiet' = quiet /\ kept' = IF kept = "none" THEN at.layer ELSE kept
      \/ /\ GoesOn(at) /\ kept' = kept /\ quiet \subseteq quiet' /\ quiet' \subseteq {"led", "status"}
         /\ at.fails = "quiet" => at.layer \in quiet'
  <2>1. IsStep(at) /\ HowItFails
    BY <1>2, <1>4
  <2> QED BY <2>1, <1>5, FailureCases DEF GoesOn
<1>7. /\ r = LeftReq(cmd', opts') /\ Fitting(r, Plans[cmd'], A) /\ EndsClean(Plans[cmd'], A)
      /\ pc \in 0..Len(P)
  BY <1>2, <1>3, <1>4 DEF r
<1>8. CASE at.fails = "end" /\ kept' = kept /\ quiet' = quiet /\ failing' = TRUE
  <2>1. kept \notin {"firmware", "efuse"}
    BY <1>5, <1>6, <1>8 DEF LeftLocal, Runs
  <2>2. r.led /\ "led" \notin quiet => "led" \notin fresh'
    BY <1>3, <1>4, <1>5, <1>6, <1>8 DEF LeftLocal, Remain, Spoilt
  <2>3. r.led = (cmd \in {"tx_once", "tx_repeat"})
    BY DEF r, LeftReq
  <2>4. NothingLeftOn'
    BY <2>1, <2>2, <2>3, <1>4, <1>8 DEF NothingLeftOn
  <2>5. pc' = 0 /\ KeptAs(LeftReq(cmd', opts'), kept')
    BY <1>4, <1>5, <1>7, <1>8
  <2> QED BY <2>4, <2>5 DEF LeftInv
<1>9. CASE at.fails = "keep" /\ quiet' = quiet /\ kept' = IF kept = "none" THEN at.layer ELSE kept
  <2>1. KeptAs(r, kept') /\ Remain(A[pc + 1], kept', fresh', stuck', quiet', r.led)
    BY <1>3, <1>4, <1>5, <1>6, <1>9, RemainKeeps
  <2>2. Proceed(P, r.opts, kept', quiet', pc) /\ quiet' \subseteq {"led", "status"}
    BY <1>4, <1>5, <1>9
  <2>3. /\ pc' # 0 => Remain(A[pc'], kept', fresh', stuck', quiet', r.led)
        /\ pc' = 0 => Remain(Clean, kept', fresh', stuck', quiet', r.led)
    BY <2>1, <2>2, <1>2, <1>3, <1>5, <1>7, LeftProceed
  <2> QED BY <2>1, <2>3, <1>7, LeftGoes
<1>10. CASE /\ GoesOn(at) /\ kept' = kept /\ quiet \subseteq quiet' /\ quiet' \subseteq {"led", "status"}
            /\ at.fails = "quiet" => at.layer \in quiet'
  <2>1. KeptAs(r, kept') /\ Remain(A[pc + 1], kept', fresh', stuck', quiet', r.led)
    BY <1>3, <1>4, <1>5, <1>6, <1>10, RemainGoesOn
  <2>2. Proceed(P, r.opts, kept', quiet', pc)
    BY <1>4, <1>5, <1>10 DEF GoesOn
  <2>3. /\ pc' # 0 => Remain(A[pc'], kept', fresh', stuck', quiet', r.led)
        /\ pc' = 0 => Remain(Clean, kept', fresh', stuck', quiet', r.led)
    BY <2>1, <2>2, <1>2, <1>3, <1>5, <1>7, <1>10, LeftProceed
  <2> QED BY <2>1, <2>3, <1>7, LeftGoes
<1> QED BY <1>f, <1>8, <1>9, <1>10

LEMMA LeftInit == Init => LeftInv
BY DEF Init, LeftInv, NothingLeftOn, Reporting, KeptAs

LEMMA LeftStep == LeftOfPlans /\ AllPlans /\ Stage /\ Stage' /\ LeftInv /\ [Next]_vars => LeftInv'
<1> SUFFICES ASSUME LeftOfPlans, AllPlans, Stage, Stage', LeftInv, [Next]_vars PROVE LeftInv'
  OBVIOUS
<1>1. CASE Report \/ Kill
  BY <1>1 DEF Report, Kill, Ended, LeftInv, NothingLeftOn, Reporting, KeptAs
<1>2. CASE Replug \/ UNCHANGED vars
  <2>1. UNCHANGED <<cmd, opts, pc, kept, fresh, stuck, quiet, failing>>
    BY <1>2 DEF Replug, process, vars
  <2> QED BY <2>1 DEF LeftInv, NothingLeftOn, Reporting
<1> QED BY <1>1, <1>2, LeftStart, LeftSucceed, LeftFail DEF Next

LEMMA PlansTidy == LeftOfPlans
<1> SUFFICES ASSUME NEW c \in DOMAIN Plans, NEW o \in OptionsOf(c) PROVE Tidy(LeftReq(c, o), Plans[c])
  BY DEF LeftOfPlans
<1> DEFINE r == LeftReq(c, o)
<1>1. r.kind = "left" /\ r.led = (c \in {"tx_once", "tx_repeat"})
  BY DEF LeftReq
<1> HIDE DEF r
<1>2. CASE c \in {"tx_once", "tx_repeat"}
  <2>1. Plans[c] = RadioPlans[c] /\ WithLed(r)
    BY <1>1, <1>2 DEF Plans, Smokes, SmokePlans, WithLed
  <2>2. Tidy(r, TxOnce) /\ Tidy(r, TxRepeat)
    BY <2>1, IndicationOff
  <2>3. Tidy(r, RadioPlans[c])
    BY <1>2, <2>2 DEF RadioPlans
  <2> QED BY <2>1, <2>3 DEF r
<1>3. CASE c \notin {"tx_once", "tx_repeat"} /\ c \in Smokes
  <2>1. Plans[c] = SmokePlans[c] /\ OfLeft(r)
    BY <1>1, <1>3 DEF Plans, OfLeft
  <2> QED BY <2>1, <1>3, TidySmokes DEF r
<1>4. CASE c \notin {"tx_once", "tx_repeat"} /\ c \notin Smokes
  <2>1. Plans[c] = RadioPlans[c] /\ c \in DOMAIN RadioPlans /\ OfLeft(r)
    BY <1>1, <1>4 DEF Plans, OfLeft
  <2> QED BY <2>1, <1>4, TidyRadios DEF r
<1> QED BY <1>2, <1>3, <1>4

(* For every number of attempts, bytes, frames, commands and faults: a command    *)
(* that passes has put back what it changed only to look, one that reports an    *)
(* unread byte or a missing checksum has EFUSE access or the download mode on     *)
(* only if the write that was to end it failed too, and the TX indication of a    *)
(* transmission is off unless it failed itself.                                  *)
THEOREM NothingForgotten == Spec => []NothingLeftOn
<1>1. Init => Stage /\ LeftInv
  BY StageInit, LeftInit
<1>2. Stage /\ LeftInv /\ [Next]_vars => (Stage /\ LeftInv)'
  BY PlansLead, PlansTidy, StageStep, LeftStep
<1>3. Stage /\ LeftInv => NothingLeftOn
  BY DEF LeftInv
<1> QED BY <1>1, <1>2, <1>3, PTL DEF Spec
================================================================================
