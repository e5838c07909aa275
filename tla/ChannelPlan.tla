------------------------------ MODULE ChannelPlan ------------------------------
(* Channels and bandwidths, as three places of the code know them: the table     *)
(* that validation asks (radio-core, channel.rs), the channel phase that programs *)
(* the adapter (wfb-radio-runtime) and the TX descriptor (radio-core).  0 stands  *)
(* for an Err.                                                                    *)
EXTENDS Integers

Channels2 == 1..14
Channels5 ==
  {36 + 4 * n : n \in 0..7} \cup {100 + 4 * n : n \in 0..11} \cup {149 + 4 * n : n \in 0..4}
Channels == Channels2 \cup Channels5
Widths == {20, 40, 80}

UPPER20 == 1
LOWER20 == 2
UPPERST20 == 3
LOWEST20 == 4
UPPER40 == 9
LOWER40 == 10

(* Channel::supports_bandwidth *)
SupportsBandwidth(c, w) ==
  \/ w = 20
  \/ w = 40 /\ (c \in Channels2 => c <= 13)
  \/ w = 80 /\ c \in Channels5 \ {165}

(* First channels of the 80 MHz groups, and the position of a channel in its own. *)
Groups == {36, 52, 100, 116, 132, 149}
GroupsOf(c) == {g \in Groups : c \in {g, g + 4, g + 8, g + 12}}
FirstOf(c) == CHOOSE g \in GroupsOf(c) : TRUE
Position(c) == (c - FirstOf(c)) \div 4

(* Mutant: the 40 MHz sides of 5 GHz channels are swapped. *)
PrimaryOf40Swapped(c) ==
  IF c \in Channels5
  THEN IF c % 8 = 4 THEN UPPER20 ELSE IF c % 8 = 0 THEN LOWER20 ELSE 0
  ELSE IF c \in 1..7 THEN LOWER20 ELSE IF c \in 8..13 THEN UPPER20 ELSE 0

PrimaryOf40(c) ==
  IF c \in Channels5
  THEN IF c % 8 = 4 THEN LOWER20 ELSE IF c % 8 = 0 THEN UPPER20 ELSE 0
  ELSE IF c \in 1..7 THEN LOWER20 ELSE IF c \in 8..13 THEN UPPER20 ELSE 0

(* production_data_secondary_channel_setting: 20 MHz needs no setting. *)
DataSc(c, w) ==
  CASE w = 20 -> 0
    [] w = 40 -> PrimaryOf40(c)
    [] w = 80 -> IF GroupsOf(c) = {} THEN 0
                 ELSE LET half == IF Position(c) < 2 THEN LOWER40 ELSE UPPER40
                          primary == <<LOWEST20, LOWER20, UPPER20, UPPERST20>>[Position(c) + 1]
                      IN half * 16 + primary

(* production_channel_programming_number: the centre channel. *)
ProgrammingNumber(c, w) ==
  CASE w = 20 -> c
    [] w = 40 -> IF DataSc(c, 40) = 0 THEN 0
                 ELSE IF DataSc(c, 40) = LOWER20 THEN c + 2 ELSE c - 2
    [] w = 80 -> IF GroupsOf(c) = {} THEN 0 ELSE FirstOf(c) + 6

(* tx_data_secondary_channel for a frame narrower than its channel; its 40 MHz  *)
(* side (tx_primary_20_of_40) is the rule of the channel phase once more.       *)
TxPrimaryOf40(c) ==
  CASE c \in Channels5 /\ c % 8 = 4 -> LOWER20
    [] c \in Channels5 /\ c % 8 = 0 -> UPPER20
    [] c \in 1..7                   -> LOWER20
    [] c \in 8..13                  -> UPPER20
    [] OTHER                        -> 0

TxSc(c, channelWidth, frameWidth) ==
  CASE <<channelWidth, frameWidth>> = <<40, 20>> -> TxPrimaryOf40(c)
    [] <<channelWidth, frameWidth>> = <<80, 40>> ->
         IF c \in {36, 40, 52, 56, 100, 104, 116, 120, 132, 136, 149, 153} THEN LOWER40
         ELSE IF c \in {44, 48, 60, 64, 108, 112, 124, 128, 140, 144, 157, 161} THEN UPPER40 ELSE 0
    [] <<channelWidth, frameWidth>> = <<80, 20>> ->
         CASE c \in {36, 52, 100, 116, 132, 149} -> LOWEST20
           [] c \in {40, 56, 104, 120, 136, 153} -> LOWER20
           [] c \in {44, 60, 108, 124, 140, 157} -> UPPER20
           [] c \in {48, 64, 112, 128, 144, 161} -> UPPERST20
           [] OTHER                              -> 0

(* Where a 20 MHz channel lies from the centre of its wider one, by its setting. *)
OffsetOf(sc, w) ==
  IF w = 40 THEN IF sc = LOWER20 THEN -2 ELSE 2
  ELSE CASE sc = LOWEST20 -> -6 [] sc = LOWER20 -> -2 [] sc = UPPER20 -> 2 [] sc = UPPERST20 -> 6

(* The channel phase programs what validation accepts and nothing else.  The     *)
(* exception is 40 MHz from channel 149 up, which validation accepts and the     *)
(* channel phase refuses, after most of the initialization.                      *)
Programmable(c) ==
  \A w \in Widths :
    ProgrammingNumber(c, w) # 0 <=> SupportsBandwidth(c, w) /\ ~ (w = 40 /\ c >= 149)

(* The adapter is programmed and frames are described for the same channel: on  *)
(* every channel that is programmed at a width, the primary sits where both     *)
(* settings say, the TX descriptor repeats what the registers hold, and the     *)
(* 40 MHz half of an 80 MHz channel is the channel's own 40 MHz channel.         *)
PlanConsistent(c) ==
  /\ Programmable(c)
  /\ ProgrammingNumber(c, 40) # 0 =>
       /\ DataSc(c, 40) = TxSc(c, 40, 20)
       /\ c = ProgrammingNumber(c, 40) + OffsetOf(DataSc(c, 40), 40)
  /\ ProgrammingNumber(c, 80) # 0 =>
       /\ DataSc(c, 80) = TxSc(c, 80, 40) * 16 + TxSc(c, 80, 20)
       /\ c = ProgrammingNumber(c, 80) + OffsetOf(DataSc(c, 80) % 16, 80)
  /\ ProgrammingNumber(c, 40) # 0 /\ ProgrammingNumber(c, 80) # 0 =>
       ProgrammingNumber(c, 40) - ProgrammingNumber(c, 80)
         = (IF TxSc(c, 80, 40) = LOWER40 THEN -4 ELSE 4)
=============================================================================
