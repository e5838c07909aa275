--------------------------- MODULE AirtimeSchedule ---------------------------
(***************************************************************************)
(* The airtime schedule of the production runtime                          *)
(* (ProductionRuntimeAirtimeSchedule in wfb-radio-runtime): in "Continuous" *)
(* mode the bridge loop may always transmit, in "Tdd" mode time is cut into *)
(* cycles of a receive window, a transmit window and two guards, and the    *)
(* loop may transmit only in an iteration that starts in a transmit window. *)
(* All quantities are milliseconds in u64 with saturating arithmetic.       *)
(***************************************************************************)
EXTENDS Naturals

CONSTANT U64Max     \* the largest u64; small in the models so that it bites

ASSUME U64MaxAssumption == U64Max \in Nat \ {0}

U64 == 0 .. U64Max

Schedules ==
  [mode : {"Continuous", "Tdd"}, first : {"Rx", "Tx"},
   rx : U64, tx : U64, guard : U64, delay : U64]

saturating_add(a, b) == IF a + b > U64Max THEN U64Max ELSE a + b
saturating_mul(a, b) == IF a * b > U64Max THEN U64Max ELSE a * b

-----------------------------------------------------------------------------
(* validate: a TDD schedule needs both windows. *)
Validate(s) == s.mode = "Tdd" => s.rx # 0 /\ s.tx # 0

(* Mutant: one guard instead of two. *)
CycleOneGuard(s) == saturating_add(saturating_add(s.rx, s.tx), s.guard)

Cycle(s) ==
  saturating_add(saturating_add(s.rx, s.tx), saturating_mul(s.guard, 2))

(* Mutant: the guard after RX is forgotten. *)
TxWindowUnguarded(s) ==
  IF s.first = "Rx" THEN [from |-> s.rx, to |-> saturating_add(s.rx, s.tx)]
                    ELSE [from |-> 0,    to |-> s.tx]

(* The half-open interval of cycle offsets at which transmission is allowed. *)
TxWindow(s) ==
  LET start == saturating_add(s.rx, s.guard)
  IN  IF s.first = "Rx" THEN [from |-> start, to |-> saturating_add(start, s.tx)]
                        ELSE [from |-> 0,     to |-> s.tx]

(* Mutant: the window's start is exclusive. *)
tdd_tx_allowed_exclusive(s, elapsed) ==
  /\ elapsed >= s.delay
  /\ Cycle(s) # 0
  /\ LET offset == (elapsed - s.delay) % Cycle(s)
     IN  TxWindow(s).from < offset /\ offset < TxWindow(s).to

tdd_tx_allowed_at_elapsed(s, elapsed) ==
  /\ elapsed >= s.delay
  /\ Cycle(s) # 0
  /\ LET offset == (elapsed - s.delay) % Cycle(s)
     IN  TxWindow(s).from <= offset /\ offset < TxWindow(s).to

tx_allowed_at_elapsed(s, elapsed) ==
  s.mode = "Tdd" => tdd_tx_allowed_at_elapsed(s, elapsed)
=============================================================================
