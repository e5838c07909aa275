---------------------------- MODULE IqkCandidates ----------------------------
(* I/Q calibration values: 11-bit two's complement components, and the choice of *)
(* one value from the candidates that repeated one-shots produce.                *)
EXTENDS Integers, Sequences

Field == 2^11

(* rtl8812au_iqk_component_to_signed *)
ToSigned(c) == IF (c % Field) >= Field \div 2 THEN (c % Field) - Field ELSE c % Field

(* rtl8812au_iqk_signed_to_component *)
ToComponent(v) == v % Field

(* Division of Rust: towards zero. *)
Half(v) == IF v >= 0 THEN v \div 2 ELSE -((-v) \div 2)

Abs(v) == IF v >= 0 THEN v ELSE -v

Mean(c, d) == ToComponent(Half(ToSigned(c) + ToSigned(d)))

(* Mutant: components are compared without their sign. *)
CloseUnsigned(c, d) == Abs((c % Field) - (d % Field)) < 4

Close(c, d) == Abs(ToSigned(c) - ToSigned(d)) < 4

Agree(left, right) == Close(left[1], right[1]) /\ Close(left[2], right[2])

(* Pairs of positions, in the order the two loops visit them. *)
AgreeingPairs(cands) ==
  {pair \in (1..Len(cands)) \X (1..Len(cands)) :
     pair[1] < pair[2] /\ Agree(cands[pair[1]], cands[pair[2]])}

FirstPair(pairs) ==
  CHOOSE p \in pairs : \A q \in pairs : p[1] < q[1] \/ (p[1] = q[1] /\ p[2] <= q[2])

(* rtl8812au_iqk_select_candidate: <<>> for None. *)
SelectCandidate(cands) ==
  LET pairs == AgreeingPairs(cands) IN
  IF pairs = {} THEN <<>>
  ELSE LET p == FirstPair(pairs)
           l == cands[p[1]]
           r == cands[p[2]]
       IN <<Mean(l[1], r[1]), Mean(l[2], r[2])>>

(* rtl8812au_iqk_rx_fill_iqc_plan: ten bit fields, or a fallback out of range. *)
RxFill(x, y) ==
  LET sx == x \div 2
      sy == y \div 2
  IN IF sx >= 274 \/ sy \in 18..1006 THEN <<256, 0>> ELSE <<sx % 1024, sy % 1024>>

-----------------------------------------------------------------------------
(* Reference: components at most d apart on the number line, which the field    *)
(* wraps between 1023 and -1024.                                                 *)
Apart(c, e, d) ==
  \E k \in -d..d : /\ (c + k) % Field = e
                   /\ (c < Field \div 2) = (c + k < Field \div 2)

NearPairs(cands) ==
  {p \in (1..Len(cands)) \X (1..Len(cands)) :
     p[1] < p[2] /\ \A k \in 1..2 : Apart(cands[p[1]][k], cands[p[2]][k], 3)}

(* A value is selected exactly if two candidates are near each other, and then   *)
(* it is near both of some such pair, also when one is negative and the other     *)
(* is not; what the RX fill writes of it is small, or the fallback.               *)
SelectionSound(cands) ==
  LET s == SelectCandidate(cands) IN
  /\ (s = <<>>) = (NearPairs(cands) = {})
  /\ s # <<>> =>
       /\ \E p \in NearPairs(cands) : \A k \in 1..2 :
            Apart(s[k], cands[p[1]][k], 2) /\ Apart(s[k], cands[p[2]][k], 2)
       /\ LET f == RxFill(s[1], s[2]) IN f[1] <= 273 /\ (f[2] <= 17 \/ f[2] >= 1024 - 17)
=============================================================================
