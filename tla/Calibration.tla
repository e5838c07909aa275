------------------------------ MODULE Calibration ------------------------------
(* run_rtl8812au_tx_calibration_profile and the gate in front of live TX: the    *)
(* I/Q calibration sweeps with their register backup and restore, the LC tank    *)
(* calibration with its cleanup, and the targeted register profile.  Registers   *)
(* are grouped as the backup groups them; 0xc00 and 0xe00 addresses reach one    *)
(* of two banks, chosen by a bit of REG_AGC_TABLE_JAGUAR.                        *)
EXTENDS UsbControl, IqkCandidates, FiniteSets

CONSTANTS
  MAX_SWEEPS, MAX_ATTEMPTS, MAX_RX_CANDIDATES,
  Candidates                  \* candidate values a one-shot may yield

ASSUME CalibrationConstants ==
  /\ MAX_SWEEPS \in Nat \ {0} /\ MAX_ATTEMPTS \in Nat \ {0} /\ MAX_RX_CANDIDATES \in Nat \ {0}
  /\ Candidates \subseteq (0..Field - 1) \X (0..Field - 1)

VARIABLES
  profile,      \* TxCalibrationProfile
  stage, pos,   \* script being run and the next transfer of it
  page,         \* bank selected: "C" or "C1"
  reg,          \* what a register group of a bank holds: "pre" or "iqk"
  orig,         \* <<reg, page, txpause>> when the profile started
  bk,           \* backup of the sweep
  paths,        \* one-shot state of the two RF paths
  stages,       \* stage reports of the sweep
  erred,        \* the sweep's closure returned Err
  restored,     \* no failure recorded by the restore so far
  unrestored,   \* some sweep of this run ended with a failed restore
  sweep,
  armed,        \* registers the LCK cleanup would restore
  outcome       \* "none", "pass" or "refuse": what the profile and the gate decided

calibrationVars ==
  <<profile, stage, pos, page, reg, orig, bk, paths, stages, erred, restored, unrestored,
    sweep, armed, outcome>>

Profiles == {"CurrentDefault", "IqkProbe", "LinuxParity", "Lck", "RuntimeIqk"}
NeedsAuthorization(p) == p \in {"LinuxParity", "Lck", "RuntimeIqk"}

RfPaths == {"A", "B"}
Banks == {"C", "C1"}
Banked == {"rfA", "rfB", "afe", "latch"}      \* reached at 0xcXX and 0xeXX
Unbanked == {"macbb", "hssi", "lck", "chnlbw"}
Home(g) == IF g = "latch" THEN "C1" ELSE "C"
Cells == (Banked \X Banks) \cup (Unbanked \X {"-"})
Cell(g) == <<g, IF g \in Banked THEN page ELSE "-">>
HomeCell(g) == <<g, IF g \in Banked THEN Home(g) ELSE "-">>
Filled == {"iqcA", "iqcB"}                     \* IQC registers, written by the fill
Backed == Banked \cup {"macbb", "hssi"}
NoStages == [s \in {"tx", "rx"} \X RfPaths |-> "none"]
NoPath == [cands |-> <<>>, retries |-> 0, finished |-> FALSE]
NoPaths == [p \in RfPaths |-> NoPath]
NoBackup == [g \in Backed \cup {"page", "txpause", "lck", "chnlbw"} |-> "none"]

-----------------------------------------------------------------------------
(* Scripts: the transfers of a stage, in order.  txpause appears twice in the   *)
(* restore because the MAC/BB group covers it (0x520), as does the bank bit.    *)

Sel(b) == [op |-> "select", on |-> b]
Rd(g) == [op |-> "read", on |-> g]
Wr(g) == [op |-> "write", on |-> g]
Rs(g) == [op |-> "restore", on |-> g]
Look == [op |-> "look", on |-> "none"]
Arm(g) == [op |-> "arm", on |-> g]
Leave(g) == [op |-> "leave", on |-> g]
Take(g) == [op |-> "take", on |-> g]

BackupScript ==
  <<Rd("hssi"), Rd("page"), Rd("txpause"), Sel("C"), Rd("macbb"), Sel("C1"), Rd("latch"),
    Sel("C"), Rd("afe"), Rd("rfA"), Rd("rfB")>>

SetupScript ==
  <<Sel("C"), Wr("txpause"), Wr("macbb"), Sel("C"), Wr("afe"), Wr("rfA"), Wr("rfB"),
    Wr("macbb"), Sel("C1"), Wr("latch")>>

TxReady(p) == stages[<<"tx", p>>] = "success"

TriggerScript == <<Wr("latch")>>

RxPrepareScript ==
  LET Rf(op(_)) == (IF TxReady("A") THEN <<op("rfA")>> ELSE <<>>)
                   \o (IF TxReady("B") THEN <<op("rfB")>> ELSE <<>>)
  IN <<Sel("C")>> \o Rf(Wr) \o <<Wr("macbb"), Wr("afe"), Sel("C1"), Wr("latch")>>

RestoreScript ==
  <<Sel("C"), Rs("rfA"), Rs("rfB"), Sel("C"), Rs("afe"), Sel("C1"), Rs("latch"), Sel("C"),
    Rs("txpause"), Rs("macbb"), Sel("C"), Rs("hssi"), Rs("page"), Rs("txpause")>>

FillScript == <<Sel("C1"), Wr("iqcA"), Sel("C"), Wr("iqcA"), Sel("C1"), Wr("iqcB"), Sel("C"), Wr("iqcB")>>

(* The LC tank calibration; packet TX is paused unless a continuous tone is on. *)
(* A register armed before its write is restored by the cleanup if a later step  *)
(* fails.  txpause and chnlbw are disarmed before the write that restores them,  *)
(* lck after it.                                                                 *)
LckScript(pause) ==
  IF pause
  THEN <<Look, Rd("txpause"), Rd("chnlbw"), Arm("txpause"), Rd("lck"), Arm("lck"), Rd("chnlbw"),
         Arm("chnlbw"), Look, Leave("lck"), Take("txpause"), Take("chnlbw"), Look, Look>>
  ELSE <<Look, Rd("txpause"), Rd("chnlbw"), Rd("lck"), Arm("lck"), Rd("chnlbw"), Arm("chnlbw"),
         Look, Leave("lck"), Take("chnlbw"), Look, Look>>

Script ==
  CASE stage = "backup"    -> BackupScript
    [] stage = "setup"     -> SetupScript
    [] stage = "txtrigger" -> TriggerScript
    [] stage = "rxprepare" -> RxPrepareScript
    [] stage = "rxtrigger" -> TriggerScript
    [] stage = "restore"   -> RestoreScript
    [] stage = "fill"      -> FillScript
    [] stage = "lck"       -> LckScript(TRUE)
    [] stage = "lckcont"   -> LckScript(FALSE)
    [] OTHER               -> <<>>

(* What writing value v to group g does: a write into the other bank damages    *)
(* what that bank holds at the same addresses.                                  *)
Put(g, v) == reg' = [reg EXCEPT ![Cell(g)] = IF Cell(g) = HomeCell(g) THEN v ELSE "iqk"]

(* RF registers are read through rHSSIRead_Jaguar. *)
ReadEffect(g) ==
  /\ bk' = [bk EXCEPT ![g] = CASE g = "page" -> page [] g = "txpause" -> txpause
                               [] OTHER -> reg[Cell(g)]]
  /\ reg' = IF g \in {"rfA", "rfB", "lck", "chnlbw"} THEN [reg EXCEPT ![<<"hssi", "-">>] = "iqk"] ELSE reg
  /\ UNCHANGED <<page, txpause>>

WriteEffect(g) ==
  /\ CASE g = "txpause" -> txpause' = "paused" /\ reg' = reg
       [] g \in Filled  -> UNCHANGED <<txpause, reg>>
       [] OTHER         -> Put(g, "iqk") /\ UNCHANGED txpause
  /\ UNCHANGED <<page, bk>>

RestoreEffect(g) ==
  /\ txpause' = (IF g = "txpause" THEN bk[g] ELSE txpause)
  /\ page' = (IF g = "page" THEN bk[g] ELSE page)
  /\ IF g \in {"txpause", "page"} THEN reg' = reg ELSE Put(g, bk[g])
  /\ UNCHANGED bk

Effect(t) ==
  CASE t.op = "select"                     -> page' = t.on /\ UNCHANGED <<reg, txpause, bk>>
    [] t.op = "read"                       -> ReadEffect(t.on)
    [] t.op = "look"                       -> UNCHANGED <<reg, page, txpause, bk>>
    [] t.op \in {"write", "arm"}           -> WriteEffect(t.on)
    [] t.op \in {"restore", "leave", "take"} -> RestoreEffect(t.on)

NoEffect == UNCHANGED <<reg, page, txpause, bk>>

ArmedAfter(t, ok) ==
  CASE t.op = "arm"         -> armed \cup {t.on}
    [] t.op = "take"        -> armed \ {t.on}
    [] t.op = "leave" /\ ok -> armed \ {t.on}
    [] OTHER                -> armed

-----------------------------------------------------------------------------
(* Running the scripts. *)

Enter(next) == stage' = next /\ pos' = 1
Decide(result) == Enter("done") /\ outcome' = result

Results(kind, ps) ==
  [s \in DOMAIN stages |->
     IF s[1] # kind THEN stages[s]
     ELSE IF kind = "rx" /\ ~TxReady(s[2]) THEN "skipped"
     ELSE IF ps[s[2]].finished THEN "success" ELSE "failed"]

(* What follows the last transfer of a script.  Without a calibrated TX path    *)
(* there is nothing to run an RX one-shot on.                                   *)
AfterScript ==
  \/ stage = "backup" /\ Enter("setup") /\ UNCHANGED <<paths, stages, outcome>>
  \/ /\ stage \in {"setup", "rxprepare"}
     /\ IF stage = "setup" THEN Enter("txtrigger") /\ UNCHANGED stages
        ELSE IF \E p \in RfPaths : TxReady(p) THEN Enter("rxtrigger") /\ UNCHANGED stages
        ELSE Enter("restore") /\ stages' = Results("rx", NoPaths)
     /\ UNCHANGED <<paths, outcome>>
  \/ stage = "txtrigger" /\ Enter("txpoll") /\ UNCHANGED <<paths, stages, outcome>>
  \/ stage = "rxtrigger" /\ Enter("rxpoll") /\ UNCHANGED <<paths, stages, outcome>>
  \/ stage = "restore" /\ Enter("report") /\ UNCHANGED <<paths, stages, outcome>>
  \/ stage \in {"fill", "lck", "lckcont"} /\ Decide("pass") /\ UNCHANGED <<paths, stages>>

GoOn ==
  IF pos < Len(Script) THEN pos' = pos + 1 /\ UNCHANGED <<stage, paths, stages, outcome>>
  ELSE AfterScript

(* Mutant: a page select that fails during the restore is not recorded. *)
NoteRestoreFailureUnlessSelect == restored' = (restored /\ Script[pos].op = "select")

NoteRestoreFailure == restored' = FALSE

(* The sweep's closure fails into the restore; nothing restores what a failed  *)
(* backup or fill leaves.                                                       *)
Destructive == {"setup", "txtrigger", "txpoll", "rxprepare", "rxtrigger", "rxpoll"}

AfterFailure ==
  \/ /\ stage \in {"backup", "fill"} /\ Decide("refuse")
     /\ UNCHANGED <<erred, restored, paths, stages>>
  \/ /\ stage \in Destructive /\ Enter("restore") /\ erred' = TRUE /\ paths' = NoPaths
     /\ UNCHANGED <<restored, stages, outcome>>
  \/ stage = "restore" /\ NoteRestoreFailure /\ GoOn /\ UNCHANGED erred
  \/ /\ stage \in {"lck", "lckcont"} /\ Enter("lckclean")
     /\ UNCHANGED <<erred, restored, paths, stages, outcome>>

Transfer ==
  /\ pos <= Len(Script)
  /\ LET t == Script[pos] IN
     Try(Effect(t), NoEffect,
         GoOn /\ armed' = ArmedAfter(t, TRUE) /\ UNCHANGED <<erred, restored>>,
         AfterFailure /\ armed' = ArmedAfter(t, FALSE))
  /\ UNCHANGED <<profile, orig, unrestored, sweep>>

-----------------------------------------------------------------------------
(* One-shots.  In a round every unfinished path yields a candidate or <<>>: its  *)
(* failure flag, or no result in time (then none of them has one).               *)

Unfinished(kind) == {p \in RfPaths : ~paths[p].finished /\ (kind = "rx" => TxReady(p))}

(* Mutant: a round without a candidate is not counted. *)
NoteRetryUncounted(path) == path

NoteRetry(path) == [path EXCEPT !.retries = @ + 1]

PushCandidate(path, c) ==
  [path EXCEPT !.cands = Append(@, c),
               !.finished = SelectCandidate(Append(path.cands, c)) # <<>>]

RoundResult(kind, yields) ==
  [p \in RfPaths |-> IF p \notin Unfinished(kind) THEN paths[p]
                    ELSE IF yields[p] = <<>> THEN NoteRetry(paths[p])
                    ELSE PushCandidate(paths[p], yields[p])]

Exhausted(kind, ps) ==
  \E p \in RfPaths : \/ ps[p].retries + Len(ps[p].cands) >= MAX_ATTEMPTS
                     \/ kind = "rx" /\ Len(ps[p].cands) >= MAX_RX_CANDIDATES

AllFinished(kind, ps) == \A p \in RfPaths : ps[p].finished \/ (kind = "rx" /\ ~TxReady(p))

(* A zero TX candidate is an error. *)
ZeroTx(kind, yields) ==
  kind = "tx" /\ \E p \in Unfinished(kind) : yields[p] = <<0, 0>>

Polling == [tx |-> "txpoll", rx |-> "rxpoll"]
Trigger == [tx |-> "txtrigger", rx |-> "rxtrigger"]
AfterOneShot == [tx |-> "rxprepare", rx |-> "restore"]

(* The path states end in their stage reports. *)
EndRound(kind, ps) ==
  /\ IF AllFinished(kind, ps) \/ Exhausted(kind, ps)
     THEN Enter(AfterOneShot[kind]) /\ stages' = Results(kind, ps) /\ paths' = NoPaths
     ELSE Enter(Trigger[kind]) /\ paths' = ps /\ UNCHANGED stages
  /\ UNCHANGED <<erred, restored, outcome>>

Round(kind, yields) ==
  /\ stage = Polling[kind]
  /\ \/ /\ Acknowledged
        /\ IF ZeroTx(kind, yields) THEN AfterFailure
           ELSE EndRound(kind, RoundResult(kind, yields))
     \/ GoesWrong /\ AfterFailure
  /\ UNCHANGED <<profile, page, reg, txpause, orig, bk, unrestored, sweep, armed>>

OneShot ==
  \E kind \in {"tx", "rx"} :
    \E yields \in [Unfinished(kind) -> Candidates \cup {<<>>}] : Round(kind, yields)

-----------------------------------------------------------------------------
(* Mutant: a stage that was skipped does not count against the sweep. *)
CompletedIfNoneFailed == restored /\ \A s \in DOMAIN stages : stages[s] # "failed" \/ s[1] = "tx"

Completed == restored /\ \A s \in DOMAIN stages : stages[s] = "success"

BeginSweep(n) ==
  /\ Enter("backup")
  /\ sweep' = n /\ bk' = NoBackup /\ paths' = NoPaths
  /\ stages' = NoStages /\ erred' = FALSE /\ restored' = TRUE

(* A sweep that did not complete is followed by another, whatever its status.  *)
Report ==
  /\ stage = "report"
  /\ unrestored' = (unrestored \/ ~restored)
  /\ IF ~erred /\ ~Completed /\ sweep < MAX_SWEEPS
     THEN BeginSweep(sweep + 1) /\ UNCHANGED outcome
     ELSE /\ IF ~erred /\ Completed THEN Enter("fill") /\ UNCHANGED outcome ELSE Decide("refuse")
          /\ UNCHANGED <<sweep, bk, paths, stages, erred, restored>>
  /\ Acknowledged
  /\ UNCHANGED <<profile, page, reg, txpause, orig, armed>>

-----------------------------------------------------------------------------
(* Cleanup of a failed LCK: each armed register once, whether or not its write  *)
(* succeeds; the error is returned in any case.                                 *)

CleanupOrder == <<"lck", "chnlbw", "txpause">>

LckCleanup ==
  /\ stage = "lckclean"
  /\ IF armed = {} THEN Decide("refuse") /\ NoEffect /\ Acknowledged /\ UNCHANGED armed
     ELSE LET n == CHOOSE k \in 1..3 : CleanupOrder[k] \in armed
                                     /\ \A j \in 1..k - 1 : CleanupOrder[j] \notin armed
              g == CleanupOrder[n]
          IN /\ armed' = armed \ {g}
             /\ Try(RestoreEffect(g), NoEffect, TRUE, TRUE)
             /\ UNCHANGED <<stage, pos, outcome>>
  /\ UNCHANGED <<profile, orig, paths, stages, erred, restored, unrestored, sweep>>

-----------------------------------------------------------------------------
(* run_rtl8812au_tx_calibration_profile; registers are named by what they hold  *)
(* now.                                                                          *)
AsFound == [c \in Cells |-> "pre"]

(* Writes six registers in place, on channel 36 at 20 MHz only. *)
LinuxParity(supported) ==
  /\ profile = "LinuxParity"
  /\ \/ supported /\ Acknowledged /\ Decide("pass")
     \/ ~supported /\ Acknowledged /\ Decide("refuse")
     \/ supported /\ GoesWrong /\ Decide("refuse")
  /\ UNCHANGED <<sweep, bk, paths, stages, erred, restored>>

StartProfile(supported) ==
  /\ stage = "none"
  /\ reg' = AsFound /\ page' = "C" /\ orig' = <<AsFound, "C", txpause>>
  /\ \/ profile = "CurrentDefault" /\ Decide("pass") /\ Acknowledged
        /\ UNCHANGED <<sweep, bk, paths, stages, erred, restored>>
     \/ profile = "IqkProbe" /\ Decide("refuse") /\ Acknowledged
        /\ UNCHANGED <<sweep, bk, paths, stages, erred, restored>>
     \/ LinuxParity(supported)
     \/ profile = "Lck" /\ (Enter("lck") \/ Enter("lckcont")) /\ Acknowledged
        /\ UNCHANGED <<outcome, sweep, bk, paths, stages, erred, restored>>
     \/ profile = "RuntimeIqk" /\ BeginSweep(1) /\ Acknowledged /\ UNCHANGED outcome
  /\ UNCHANGED <<profile, txpause, unrestored, armed>>

Calibrate == Transfer \/ OneShot \/ Report \/ LckCleanup

(* Nothing of a calibration outlives its session in the host. *)
NotCalibrating ==
  /\ stage = "none" /\ pos = 1 /\ page = "C" /\ reg = AsFound /\ orig = <<AsFound, "C", "run">>
  /\ bk = NoBackup /\ paths = NoPaths /\ stages = NoStages
  /\ erred = FALSE /\ restored = TRUE /\ unrestored = FALSE /\ sweep = 0 /\ armed = {}
  /\ outcome = "none"

ForgetCalibration ==
  /\ stage' = "none" /\ pos' = 1 /\ page' = "C" /\ reg' = AsFound /\ orig' = <<AsFound, "C", "run">>
  /\ bk' = NoBackup /\ paths' = NoPaths /\ stages' = NoStages
  /\ erred' = FALSE /\ restored' = TRUE /\ unrestored' = FALSE /\ sweep' = 0 /\ armed' = {}
  /\ outcome' = "none"

-----------------------------------------------------------------------------
(* Properties. *)

(* A restore that records no failure has put back every register group, the    *)
(* bank and the TX pause that the sweep's backup read, in the bank they were    *)
(* read from: restore_rtl8812au_runtime_iqk_backup goes on after a failed page  *)
(* select and then writes page-C values into page C1 or the reverse.            *)
RestoredMeansBackup ==
  stage = "report" /\ restored =>
    /\ \A g \in Backed : reg[HomeCell(g)] = bk[g]
    /\ page = bk["page"] /\ txpause = bk["txpause"]

Restored == <<[reg EXCEPT ![<<"hssi", "-">>] = "pre"], page, txpause>> = orig
=============================================================================
