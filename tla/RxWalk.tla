-------------------------------- MODULE RxWalk --------------------------------
(* read_rx_packets and parse_rx_packet: the walk over one bulk IN transfer.  The *)
(* adapter aggregates records, each a descriptor, driver info, padding and the    *)
(* packet, at multiples of the alignment; the transfer may be cut anywhere.       *)
EXTENDS Integers, Sequences

RX_DESC_SIZE == 24
RX_AGGREGATION_ALIGNMENT == 128
MIN_HEADER == 10
FCS == 4
MAX_PACKET == 4096

AlignUp(n) ==
  ((n + RX_AGGREGATION_ALIGNMENT - 1) \div RX_AGGREGATION_ALIGNMENT) * RX_AGGREGATION_ALIGNMENT

(* Mutant: the walk rounds to 8 bytes, as older adapters do. *)
ConsumedBy8(end) == ((end + 7) \div 8) * 8

Consumed(end) == AlignUp(end)

BadLength(d) == d.len = 0 \/ d.len > MAX_PACKET
DataEnd(d) == RX_DESC_SIZE + 8 * d.drvinfo + d.shift + d.len

(* parse_rx_packet on what remains of the transfer, with descriptor d in front. *)
Parse(d, remaining) ==
  IF remaining < RX_DESC_SIZE THEN [outcome |-> "NeedMoreData", consumed |-> 0]
  ELSE IF BadLength(d) THEN [outcome |-> "Drop", consumed |-> RX_DESC_SIZE]
  ELSE IF DataEnd(d) > remaining THEN [outcome |-> "NeedMoreData", consumed |-> 0]
  ELSE [outcome |-> IF d.crc \/ d.len < FCS + MIN_HEADER THEN "Drop" ELSE "Frame",
        consumed |-> Consumed(DataEnd(d))]

(* Offsets at which the adapter put its records. *)
Starts(records) ==
  LET s[n \in 1..Len(records) + 1] ==
        IF n = 1 THEN 0 ELSE s[n - 1] + AlignUp(DataEnd(records[n - 1]))
  IN s

(* The record that starts at an offset; elsewhere the walk reads junk. *)
RecordAt(records, offset) == {n \in 1..Len(records) : Starts(records)[n] = offset}

Seen(records, junk, offset) ==
  IF RecordAt(records, offset) = {} THEN junk
  ELSE records[CHOOSE n \in RecordAt(records, offset) : TRUE]

(* The walk after n packets: offset, the packets, and whether it is over. *)
Walk(records, junk, bytes) ==
  LET w[n \in 0..bytes \div RX_DESC_SIZE + 1] ==
        IF n = 0 THEN [offset |-> 0, packets |-> <<>>, over |-> bytes = 0]
        ELSE LET s == w[n - 1]
                 p == Parse(Seen(records, junk, s.offset), bytes - s.offset)
             IN IF s.over THEN s
                ELSE [offset |-> s.offset + p.consumed,
                      packets |-> Append(s.packets, <<p.outcome, s.offset>>),
                      over |-> p.consumed = 0 \/ s.offset + p.consumed >= bytes]
  IN w[bytes \div RX_DESC_SIZE + 1]

(* Records that arrived whole, before any whose length field is damaged. *)
WholeBefore(records, bytes) ==
  {n \in 1..Len(records) :
     /\ Starts(records)[n] + DataEnd(records[n]) <= bytes
     /\ \A k \in 1..n : ~BadLength(records[k])}

Good(d) == ~d.crc /\ d.len >= FCS + MIN_HEADER

(* The walk ends within the transfer; every record that arrived whole is met at  *)
(* its own offset, in order, and becomes a frame exactly if it is sound; without  *)
(* a damaged length nothing else becomes one, wherever the transfer was cut.      *)
RxWalkExact(records, junk, bytes) ==
  LET w == Walk(records, junk, bytes)
      whole == WholeBefore(records, bytes)
      n == Len(w.packets)
  IN /\ w.over
     /\ \A k \in whole : k <= n /\ w.packets[k] = <<IF Good(records[k]) THEN "Frame" ELSE "Drop",
                                                    Starts(records)[k]>>
     /\ (\A k \in 1..Len(records) : ~BadLength(records[k])) =>
          /\ {k \in 1..n : w.packets[k][1] = "Frame"} = {k \in whole : Good(records[k])}
          /\ \A k \in 1..n - 1 : w.packets[k][1] # "NeedMoreData"
=============================================================================
