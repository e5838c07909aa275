-------------------------------- MODULE MCCodec --------------------------------
(* The runtime's pure algorithms, each checked against a reference definition:   *)
(* one step chooses an input, the invariants compare.  A schedule is followed     *)
(* through the iterations of a loop.                                              *)
EXTENDS ChannelPlan, RxWalk, EfuseMap, IqkCandidates, AirtimePair

CONSTANTS MaxRecords, MaxBlocks, MaxCands    \* bounds on the lengths of inputs

VARIABLE input

SeqsTo(S, n) == UNION {[1..k -> S] : k \in 0..n}

(* Frames of minimal and of one byte less than minimal length, a record that fills *)
(* its slot exactly, one that spills into the next, and a damaged length.           *)
Record(len, drvinfo, shift, crc) == [len |-> len, drvinfo |-> drvinfo, shift |-> shift, crc |-> crc]
Records ==
  {Record(13, 0, 0, FALSE), Record(14, 0, 0, FALSE), Record(104, 0, 0, FALSE),
   Record(71, 4, 2, FALSE), Record(100, 4, 0, TRUE), Record(0, 0, 0, FALSE)}
Junk == {Record(0, 0, 0, FALSE), Record(4097, 0, 0, FALSE), Record(40, 0, 0, FALSE)}

(* Lengths at which a cut matters. *)
Cuts(records) ==
  {0} \cup UNION {LET s == Starts(records)[n]
                     e == s + DataEnd(records[n])
                 IN {s, s + RX_DESC_SIZE - 1, s + RX_DESC_SIZE, e - 1, e, AlignUp(e)} :
                   n \in 1..Len(records)}

Block(section, enable, extended, mark) ==
  [section |-> section, enable |-> enable, extended |-> extended, mark |-> mark]
Blocks ==
  {Block(0, 0, FALSE, 16), Block(9, 10, FALSE, 32), Block(9, 14, TRUE, 48), Block(26, 5, TRUE, 64),
   Block(63, 3, TRUE, 80), Block(64, 12, TRUE, 96), Block(2, 15, TRUE, 112)}

Values == {0, 2, 1022, 1024, 2045, 2047} \X {0, 3, 35, 2044}

Init == input = [kind |-> "none"]

ChooseChannel == \E c \in Channels : input' = [kind |-> "channel", channel |-> c]

ChooseTransfer ==
  \E r \in SeqsTo(Records, MaxRecords), j \in Junk : \E b \in Cuts(r) :
    input' = [kind |-> "transfer", records |-> r, junk |-> j, bytes |-> b]

ChooseLog ==
  \E bs \in SeqsTo(Blocks, MaxBlocks) : \E n \in 0..Len(Burnt(bs)) :
    input' = [kind |-> "log", blocks |-> bs, length |-> n]

ChooseCands == \E cs \in SeqsTo(Values, MaxCands) : input' = [kind |-> "cands", cands |-> cs]

ChooseSchedule == \E p \in Pairs : input' = [kind |-> "schedule", pair |-> p]

Iterate ==
  /\ input.kind = "schedule"
  /\ \E gap \in 1..MaxGap :
       /\ input.pair.t + gap <= Horizon
       /\ input' = [input EXCEPT !.pair = Iterated(@, gap)]

Next ==
  \/ /\ input.kind = "none"
     /\ ChooseChannel \/ ChooseTransfer \/ ChooseLog \/ ChooseCands \/ ChooseSchedule
  \/ Iterate

Spec == Init /\ [][Next]_input

(* The channel phase, the TX descriptor and the 40 and 80 MHz rules agree on     *)
(* where the primary channel lies, and validation and the channel phase on what  *)
(* can be programmed, up to 40 MHz from channel 149: see PlanConsistent.         *)
ChannelPlanConsistent == input.kind = "channel" => PlanConsistent(input.channel)

(* read_rx_packets finds exactly the records that arrived whole: see RxWalkExact. *)
TransferWalked == input.kind = "transfer" => RxWalkExact(input.records, input.junk, input.bytes)

(* The EFUSE decoder returns what was burnt last: see EfuseDecodeExact. *)
LogDecoded == input.kind = "log" => EfuseDecodeExact(input.blocks, input.length)

(* The candidate selection of I/Q calibration is sound: see SelectionSound. *)
CandidatesSelected == input.kind = "cands" => SelectionSound(input.cands)

Scheduled == input.kind = "schedule" /\ Realistic(input.pair.sched)

(* TDD windows divide the cycle: two mirrored radios are never both allowed to   *)
(* transmit, and each is for exactly its share of every cycle.                   *)
WindowsDivided == Scheduled => NeverBothTransmit(input.pair) /\ TxShareExact(input.pair)

(* Iterations no further apart than the TX window is long serve TX in every      *)
(* cycle.                                                                        *)
EveryWindowServed == Scheduled => WindowServed(input.pair)
=============================================================================
