------------------------------- MODULE EfuseMap -------------------------------
(* rtl8812au_decode_efuse_logical_map: EFUSE is a log of blocks, each with a one  *)
(* or two byte header that names an eight byte section and the words that follow; *)
(* later blocks overwrite earlier ones.                                            *)
EXTENDS Integers, Sequences, FiniteSets

MAX_SECTION == 64
Erased == 255

Bit(n, b) == (n \div 2^b) % 2
Words(enable) == {w \in 0..3 : Bit(enable, w) = 0}
Before(words, w) == Cardinality({v \in words : v < w})

IsExtended(header) == header % 32 = 15

(* Mutant: the upper section bits are taken as they stand in the second byte. *)
ExtendedSectionUnshifted(header, ext) == (header \div 32) + (ext \div 16) * 16

ExtendedSection(header, ext) == (header \div 32) + (ext \div 16) * 8

Blank == [w \in (0..MAX_SECTION - 1) \X (0..3) |-> <<Erased, Erased>>]

(* The data words of a block, as far as they are there; a word cut in half ends *)
(* the decoding.  Offsets count from 1.                                           *)
TakeWords(raw, s, section, enable) ==
  LET words == Words(enable)
      at(w) == s.offset + 2 * Before(words, w)
      there == {w \in words : at(w) + 1 <= Len(raw)}
      after == s.offset + 2 * Cardinality(words)
  IN IF section >= MAX_SECTION
     THEN [s EXCEPT !.offset = IF after > Len(raw) THEN Len(raw) + 1 ELSE after]
     ELSE [map |-> [k \in DOMAIN s.map |-> IF k[1] = section /\ k[2] \in there
                                           THEN <<raw[at(k[2])], raw[at(k[2]) + 1]>> ELSE s.map[k]],
           offset |-> IF there = words THEN after ELSE Len(raw) + 1]

Ended(s, raw) == [s EXCEPT !.offset = Len(raw) + 1]

(* One turn of the loop. *)
DecodeBlock(raw, s) ==
  LET header == raw[s.offset] IN
  IF header = Erased THEN Ended(s, raw)
  ELSE IF ~IsExtended(header)
  THEN TakeWords(raw, [s EXCEPT !.offset = @ + 1], header \div 16, header % 16)
  ELSE IF s.offset = Len(raw) THEN Ended(s, raw)
  ELSE LET ext == raw[s.offset + 1]
           next == [s EXCEPT !.offset = @ + 2]
       IN IF ext % 16 = 15 THEN next
          ELSE TakeWords(raw, next, ExtendedSection(header, ext), ext % 16)

Decode(raw) ==
  LET d[n \in 0..Len(raw)] ==
        IF n = 0 THEN [map |-> Blank, offset |-> 1]
        ELSE LET s == d[n - 1] IN IF s.offset > Len(raw) THEN s ELSE DecodeBlock(raw, s)
  IN d[Len(raw)].map

-----------------------------------------------------------------------------
(* Reference: what was burnt.  A block has a section, a word enable, data that   *)
(* differ from word to word, and the form of its header.                          *)

Header(b) ==
  IF b.extended THEN <<(b.section % 8) * 32 + 15, (b.section \div 8) * 16 + b.enable>>
  ELSE <<b.section * 16 + b.enable>>

Data(b) == [n \in 1..2 * Cardinality(Words(b.enable)) |-> b.mark + n]

Burnt(blocks) ==
  LET r[n \in 0..Len(blocks)] ==
        IF n = 0 THEN <<>> ELSE r[n - 1] \o Header(blocks[n]) \o Data(blocks[n])
  IN r[Len(blocks)]

WordOf(b, w) ==
  LET n == 2 * Before(Words(b.enable), w) IN <<b.mark + n + 1, b.mark + n + 2>>

(* Position of a word's last byte in the log. *)
LastByte(blocks, n, w) ==
  Len(Burnt(SubSeq(blocks, 1, n - 1)) \o Header(blocks[n]))
  + 2 * (Before(Words(blocks[n].enable), w) + 1)

Writers(blocks, length, k) ==
  {n \in 1..Len(blocks) : /\ blocks[n].section = k[1] /\ k[2] \in Words(blocks[n].enable)
                          /\ LastByte(blocks, n, k[2]) <= length}

(* Every word of the decoded map is the one burnt last of those read in full,    *)
(* for one byte and two byte headers, blocks beyond the map, blocks without       *)
(* words, and a log cut off anywhere.                                             *)
EfuseDecodeExact(blocks, length) ==
  LET map == Decode(SubSeq(Burnt(blocks), 1, length)) IN
  \A k \in DOMAIN map :
    map[k] = IF Writers(blocks, length, k) = {} THEN <<Erased, Erased>>
             ELSE WordOf(blocks[CHOOSE n \in Writers(blocks, length, k) :
                                  \A j \in Writers(blocks, length, k) : j <= n], k[2])
=============================================================================
