# A TLA+ verification project for wfb-link

wfb-link drives an RTL8812AU USB Wi-Fi adapter from user space and carries
WFB-NG streams over it. The models here cover its production path (the runtime
that owns the adapter, `crates/wfb-radio-runtime`, and the product-facing facade
that starts, watches and stops it, `crates/wfb-link`), the tunnel helper
(`crates/wfb-tun`) and the laboratory program with which the adapter is brought
up by hand (`crates/wfb-radio-diag`). Paths below are relative to the
repository.

## 1. The system

| Part | State it keeps | Operations | Hard behaviour |
|---|---|---|---|
| TX ingress (`wfb-radio-runtime/src/lib.rs` 1329-1484) | a socket and thread per stream, an unbounded channel, shared counters, a stop flag | receive, queue, drop (stop and join) | threads race the report and the drop |
| Bridge loop (1512-1751, callbacks 6591-6741) | clock readings, burst count, last TX, stop reason | burst of TX, one RX read, bounds, pacing | stale clock readings, late stop, starvation |
| Airtime schedule (855-978) | none | TX gate by elapsed time | half-open windows, saturation, two radios out of phase |
| LED heartbeat (`led_heartbeat.rs`) | phase, next toggle, counters | toggle, turn off | failing USB writes, late iterations |
| Production flow (2690-2770, 6272-6802) | adapter session, artifact files, sockets | validate, bring up, announce, bind, loop, report, drop | each step may fail; files are rewritten in place |
| Initialization (3400-5800, 7804-7870, 12540-12700) | adapter registers: firmware, link table, EFUSE access, band | eleven phases in two orders | a session killed or failed between two transfers; a warm adapter |
| Calibration and TX power (8900-12300) | register backup, candidates, two register banks, TX pause | I/Q sweeps, LCK, profiles, gate | restore after failure, retries, banks mixed up |
| Channel plan, RX descriptor walk, EFUSE map | none | pure algorithms | boundaries, cut input, two's complement |
| Userspace radio handle (`wfb-link/src/lib.rs` 1299-1801) | thread handle, stop flag, file paths | start, wait_ready, health, request_stop, join | reads files another thread writes; stale files; timeouts |
| Managed streams and tunnel handles (1807-2457, 2608-2956) | radio handle, helper processes | the same five | helpers die at any time; signals race exits; partial startup |
| TUN helper (`wfb-tun/src/lib.rs`) | aggregate, its deadline, keepalive | read, aggregate, flush, stop | deadline computed a turn before it is due, MTU exactly reached |
| Diagnostic commands (`wfb-radio-diag/src/main.rs`) | none between commands but the adapter's registers | 36 live commands of checks, register sequences and transfers | any order, on whatever the last one left |
| USB transport, radio service, Android session, traces | | | external or not modelled, see section 8 |

They interact as follows. The application calls a `LinkHandle`. The managed and
tunnel handles own a `UserspaceRadioHandle` and a set of helper processes; the
radio handle owns the runtime thread, with which it shares one atomic stop flag
and two files (a ready marker and a health file). The runtime thread brings the
adapter up, then owns the receiver threads (one per UDP socket), which feed it
through a channel; in the bridge loop it is the only user of the USB session,
the heartbeat included.

What makes each part correct is stated as the properties of section 4. The list
of everything that is hard to test, line by line, is `hazards` in
`PROJECT.json`.

## 2. Modules

| Module | Models | Notes |
|---|---|---|
| `AirtimeSchedule` | the schedule's `validate` and TX gate | operators; u64 saturation at the constant `U64Max` |
| `AirtimePair` | two radios with mirrored schedules | operators, driven by `MCCodec` |
| `LedHeartbeat` | `LedHeartbeat` | state and operators used by the loop |
| `BridgeLoop` | receiver threads, channel, loop, telemetry, report, receiver drop | `MCBridgeLoop` instantiates it |
| `BridgeLoopProofs` | theorems about `BridgeLoop` | section 5 |
| `LinkContract` | what a run promises whoever started it | abstract: phases and "has transmitted" |
| `RuntimeFlow` | one production run, step by step | actions only; composed by `RadioHandle` |
| `RadioHandle` | the handle, its application, the run, other processes | implements `LinkContract`; `MCRadioHandle` instantiates it |
| `LinkSupervisor` | managed-streams and tunnel handles with helpers | built on `LinkContract`, so on any radio that keeps it |
| `UsbControl` | a control transfer: acknowledged, refused, or done with its acknowledgement lost | shared by the two next |
| `Initialization` | `run_rtl8812au_production_init` and its phases | adapter state survives a session |
| `Calibration`, `IqkCandidates` | the calibration profiles and the gate; the choice among candidates | scripts of transfers over two register banks |
| `BringUp` | initialization, monitor mode, power, calibration, gate, power again, kick, over several sessions | composes the three above; `MCBringUp` instantiates it |
| `ChannelPlan`, `RxWalk`, `EfuseMap` | channel settings, RX aggregates, the EFUSE log | operators with their reference definitions |
| `MCCodec` | inputs for the pure algorithms | one initial state, one input per behaviour |
| `TunBridge` | the tunnel helper's loop and aggregator | |
| `DiagSteps` | steps, and the register sequences of each layer, as sequences of steps | operators |
| `DiagPlans` | every live command as a sequence of steps; phases of its report | operators |
| `DiagCommand` | commands run one after another on one adapter | the interpreter of the plans |
| `RadioHandleProofs`, `LinkSupervisorProofs`, `TunBridgeProofs`, `BringUpProofs`, `CodecProofs`, `DiagCommandProofs` | theorems about the module of that name (`BringUpProofs`: `Initialization` and `Calibration` within `BringUp`; `CodecProofs`: the operators `MCCodec` drives) | section 5 |
| `InductionLemmas` | least natural number, recursion over the naturals, subsets of a finite set, sums | lemmas shared by the proofs |

### State and actions against the code

*BridgeLoop.* `thread[s]` is where a receiver thread stands: at the `while`
condition (`check`), in `recv_from` (`recv`), between counting and queueing
(`send`), or ended (`done`). The two `fetch_add`s and the copy of the buffer
are one step; queueing is another, so the report can be taken in between. `pc`
walks the iteration: `top` (stop check, heartbeat), `bounds`, `begin` (clock
reading, airtime gate), `burst`/`submit`, `arm`/`rx`, then `ledOff`, `report`,
`drop`, `join`, `returned`. The clock may advance between any two steps; it is
finer than a millisecond (`Milli`), since the executor reckons with Durations
while a USB timeout is in whole milliseconds (`UsbReadDue`).
Datagrams are `good` or `malformed`; a submission succeeds, fails or is short.

*RuntimeFlow.* `pc` names the next step of the flow in the order of the code
(`Then`). A file write is two steps: truncation, then the content; either may
fail. The adapter is the set `radio` of facts bring-up has established; `"power"`
means that TX power was programmed since the last calibration. `binds` are the
addresses of this run, `bound` the sockets it holds, `orphans` the addresses of
receiver threads left running, with their sockets, when
`spawn_production_tx_ingress_receivers` fails half-way; they outlive the run. The bridge loop appears only by its outcomes; `BridgeLoop` is
its model.

*RadioHandle.* One application thread; `call` is its position inside
`wait_ready`, `health` or `join`, each read of a file or of `is_finished` being
a step of its own. `waited`, `seen`, `seenReady` and `joined` remember what the
calls returned in the present run. After a join the application may start again
on the same paths; at the beginning these may hold files of an earlier process.

*LinkSupervisor.* `proc[h]` is the operating system's truth about a helper,
`status[h]` what a poll has recorded, `owned` the helpers with
`terminated_by_owner`; `alone` remembers which ones exited before any SIGTERM.
`terminate_child_processes` is four steps (signal all; poll until done or
deadline; then for each of the rest kill, and wait) used by five callers; `after`
is where it returns. `kill` may be refused for the TUN helper behind sudo
(`BehindSudo`); its error is ignored, and the wait has no deadline.
Both backends and both criticalities of the managed tunnel are initial states.

*BringUp.* `at` and `step` are the position in the phase sequence and in the
phase, `i` the loop index; each step is a transfer (or a poll) of the code and
goes wrong in the two ways of `UsbControl`. `mcu`, `image`, `cpu` are the
download bits, what each page of the image holds and what the 8051 executes;
`bandMark` is `REG_CCK_CHECK`, from which the code tells the band, and
`bandRegs` what the band registers really hold. `Restart` ends a session
anywhere and starts the next on the same adapter, warm or after a power cycle.
In calibration a stage is a script of selects, reads, writes and restores; `reg`
says for every register group and bank whether it holds its value from before
the profile (`pre`) or a value of the destructive setup (`iqk`); `bk` is what the
sweep's backup read, right or wrong.

*TunBridge.* `pc` is the place in the poll loop. `read` holds the arrival time of
every packet read so far, so that packets are numbers. `parts` is the aggregate,
a record of the packets in it and of its length, length fields included; `deadline` is its
flush time, `wakeAt` the instant at which `poll` returns at the latest. `sent` is
the sequence of datagrams, each a record like `parts`.

*DiagCommand.* A command is a sequence of steps, its plan: argument checks,
acknowledgements, files, the claim of the adapter, register helpers, preflights,
bulk transfers. A step says which facts about the chip it verifies, establishes
and withdraws (`DiagSteps` lists them), under which options it runs, how its
failure is treated (return at once; keep the error until clean-up steps ran;
ignore; ignore and stop that side activity), and which report phase it belongs
to. `DiagCommand` runs plans: `Start` picks a command and options, `Succeed` and
`Fail` take the next step, `Report` ends it, `Kill` ends it anywhere, `Replug`
takes the adapter's power. `chip` is what holds of the adapter, `fresh` what
this very command established and the adapter still has, `stuck` what one of its
writes failed to withdraw.

## 3. Runs and bounds

| Run | Instance | Why these bounds |
|---|---|---|
| `ingress` | 2 sockets, 2 datagrams, unbounded run with limit 2, burst 1, horizon 1 | two threads can hold, queue and be counted while the loop takes, reports and drops |
| `bounds` | RX-first TDD 1+3 with guard 1, LED half-period 2, 2 clock units to the millisecond, duration 6, limit 2, burst 1, RX timeout 2, horizon 6 | reads begin a whole millisecond and half a one before the deadline, which also falls inside a burst, before and after the limit; a whole cycle and two toggles, with failing writes |
| `radio_handle` | 1 required and 1 best-effort stream, 2 runs, 1 poll | the second run meets the first one's files, sockets and orphans |
| `ready_means_usable` | the same, with a bounded run | counterexample |
| `supervisor` | 1 required stream, 2 tunnel helpers of either criticality, the TUN helper behind sudo | one helper alive, one dead and one not yet spawned can coexist |
| `best_effort_spawn` | 2 streams (one best-effort), 2 tunnel helpers | counterexample |
| `bringup` | 2 sessions, 2 transfers gone wrong, 2 firmware pages, 2 downloads, 5 link table entries, 2 sweeps, 2 attempts, 2 candidates | a fault and a fault in what handles it; a session on another one's leftovers; every retry used up |
| `iqk_restored` | the same | counterexample |
| `codec` | all channels; up to 3 records cut anywhere; up to 3 EFUSE blocks cut anywhere; up to 3 candidates; all schedules with windows to 3, guards to 2, horizon 14 | the third record or block follows one that was skipped or overridden; the horizon exceeds the longest cycle |
| `tunnel` | MTU 8, sizes 1, 3 and 7, timeouts 0 and 2, keepalive 3, 4 packets, horizon 6 | an aggregate that fits exactly, one too large, one packet alone over the MTU |
| `diag` | 3 commands, 2 faults or kills, 2 download attempts, 2 EFUSE bytes, 2 frames | a command on what two others left, one of them failed in its clean-up; a failure and a failure of the write that handles it |
| `unacknowledged_repeat` | 1 command, no fault | counterexample |

`Horizon`, `MaxIngress`, `MaxRuns`, `MaxPolls`, `MaxSessions`, `MaxFaults`,
`MaxPackets`, `MaxCommands`, `MaxRecords`, `MaxBlocks`, `MaxCands`, `WindowMax`
and `GuardMax` are the bounds that are not values of the program. A tunnel has
three helpers in the code and two in the runs: two are enough for a spawn to
fail with another running. `diag` gives a command none, one, all but one or all
of its options. Deadlock is not checked in `bringup`, `codec`, `tunnel` and
`diag`, where sessions, inputs, the bridge and commands come to an end.

## 4. What the runs show

*Ingress* (`IngressAccounted`, `PendingIsExact`, `NoOrphanThread`,
`TelemetryAgrees`, `StopReasonJustified`, `StopLeadsToReturn`, `QueueServed`).
The counters run ahead of the channel, yet no counted datagram is lost or
counted twice, the report's pending number is exact although the threads still
run when it is taken, and none is ever refused by a closed channel. The three
sets of TX counters agree in every state. A stop ends the flow with its threads
joined, and RX traffic at every read does not starve the TX queue.

*Bounds* (`BoundsKept`, `LedOffAtReturn`, `ToggleSpacing`,
`DurationLeadsToReturn`). A stop request and the deadline are overrun by at most
one burst; no USB read has a timeout past the deadline, and only one begun within
the last millisecond before it has none; the reported stop reason is true; the
LED is off at return, and late iterations do not make it flicker. The run ends,
unless it is caught in that read without a timeout, on a channel where nothing is
heard and no transfer fails.

*Radio handle.* `ReadyMeansPrepared`: neither `wait_ready` nor `health().ready`
says ready on the strength of another run's files. `HealthAndJoinAgree`: the
report, the file and what was read before agree, also when the last write
failed. `StoppedFreesAddresses`: after a clean stop none of the run's addresses is
in use by this process, neither by the run nor by a receiver thread that an
earlier, failed run left behind, whose address the run could not have bound.
`ImplementsContract`: refinement of `LinkContract`, whose content is that no
frame leaves an adapter that is not prepared as configured, the RX startup kick
included, and that a run ends well only after it was ready. `WaitReturns`,
`StopEndsRun`: section 6.

*Supervisor.* `NothingOutlivesJoin`, `FailedStartupStopsAll`,
`BlamedDiedAlone`, `JoinVerdict`, `JoinTerminates`. A required helper that a
signal ended counts as clean in the verdict, as in the code. `JoinTerminates`
excepts the one wait that nothing bounds, that for a helper behind sudo.

*Bring-up.* `ReadyMeansFresh`: a session is called ready only if the 8051
executes the undamaged image of this session, download mode is closed, EFUSE
access revoked and the link table splits, whatever interrupted sessions left.
`RestoredMeansBackup`: a restore that reports success has put every register
back in the bank it was read from. `LiveMeansCalibrated`: what the gate lets
through. `BringUpEnds`: retries, candidates and sweeps, each with a bound of its
own, come to an end.

*Codec.* `ChannelPlanConsistent`: registers and TX descriptor put the primary
channel on the same side, on every channel, and all that validation accepts can
be programmed except 40 MHz from channel 149 up. `TransferWalked`, `LogDecoded`:
exactly the records, or words, that arrived whole are found.
`CandidatesSelected`: an agreeing pair is chosen if there is one, and what is
chosen is its mean, on both sides of zero. `WindowsDivided`,
`EveryWindowServed`: mirrored radios a guard apart are never both allowed to
transmit and each has exactly its share; the second holds only when iterations
are no longer than the TX window, which `validate` does not ask for.

*Tunnel.* `TunnelLossless`: packets leave once, in order, in datagrams within the
MTU, and a summary that says pass means that none is missing.
`OldestNotLate`: the bridge never sleeps past the moment its oldest packet is due.

*Diagnostic commands.* `AcknowledgedFirst`, `LayersInOrder`,
`TrafficOnPreparedChip`, `ReportsWhatRan`, `NothingLeftOn`, each over every
command on every chip that two others, failed or killed anywhere, can leave
behind.

`AcknowledgedFirst` names the commands that ask (the smoke tests that write or
transfer, `init`, the IQK diagnostic, and `rx-scan` when it initializes) and those
that do not, though they initialize or transmit (`Transmitters`: the single and
repeated transmissions, and the bridge, bench and runtime commands, whose
same-session initialization asks for nothing either). No command outside both
lists writes to the chip.

`NothingLeftOn` is about what the command established and the adapter still has.
It is the strongest form that holds: a command that fails between selecting
register page C1 and restoring it, or between granting EFUSE access and its
first byte, returns with these left on; and where an error is held back for the
clean-up, the clean-up's own failure is discarded, so that access or download
mode may stay on. What is claimed then is that nothing but a failed write of the
clean-up leaves it so (`stuck`).

### Where documentation and code disagree

Four runs are expected to be violated; `findings` in `PROJECT.json` quotes the
documents.

1. `ready_means_usable`: `wait_ready` is to mean that the local endpoints are
   usable. The marker it waits for is written before the sockets are bound; the
   specification of TX ingress wants a bind failure before the radio is opened.
2. `best_effort_spawn`: best-effort streams are not to fail the link. A failed
   spawn of any stream helper makes `start` return the error, and leaves the
   radio thread and the earlier helpers running without an owner.
3. `iqk_restored`: runtime IQK is to fail closed when cleanup is not restored.
   A further sweep backs up what the failed restore left, restores that, and its
   report opens the gate.
4. `unacknowledged_repeat`: repeated transmission is to be acknowledged
   (`openspec/specs/radio-verification/spec.md:158`).
   `--i-understand-this-transmits` is a hidden no-op of `tx-repeat`.

Four more have no run of their own. Each is the exception that a property of a
passing run states, which without it TLC refutes:

5. `BoundsKept`, `DurationLeadsToReturn`: RX work is to go on until the duration
   expires (`openspec/specs/runtime-loop-executor/spec.md:26-27`). The last read
   is given the rest of the duration (`wfb-radio-runtime/src/lib.rs` 1727), which
   is cut to whole milliseconds on its way to libusb; less than one becomes a
   timeout of 0, that is, none. On a silent channel the run then neither ends nor
   sees the stop flag.
6. `JoinTerminates`: stopping a managed link terminates its helpers and yields a
   join report (`docs/cross-platform-link-interface.md:128-130`). The TUN helper
   runs under sudo by default; `kill` may be refused for it, its error is
   ignored, and the wait that follows has no deadline
   (`wfb-link/src/lib.rs` 2951-2952).
7. `StoppedFreesAddresses`, which speaks of runs that stop cleanly: receive
   timeouts are to be set before receiver threads are started
   (`openspec/specs/runtime-tx-ingress/spec.md:40-41`). Each is set in the loop
   that also starts the threads (`wfb-radio-runtime/src/lib.rs` 1429-1439); when
   one fails, the threads started before are detached and keep their sockets
   after `join`, until their next datagram.
8. `ChannelPlanConsistent`: an unsupported bandwidth is to be refused before USB
   is opened (`openspec/specs/radio-runtime-library/spec.md:326-328`). 40 MHz on
   channels 149 to 165 passes validation and is refused by the channel phase,
   after the rest of the initialization.

TLC also refuted these stronger forms while the properties were written: the
lifecycle reported by `health()` is not monotone (it may go from Failed to
Starting, because `is_finished` is asked only when there was no health file a
moment earlier); after a failed health write it stays at the last state written;
a best-effort helper that died unseen before stop or join never shows up in
`degraded_streams`; a warm restart after
a session killed inside the switch to 5 GHz trusts the band mark and skips the
switch.

## 5. What is proved

Every theorem holds for all values of the constants that the named assumptions
of the modules allow (the bounds that exist for TLC's sake, such as `Horizon`,
`MaxRuns` or `MaxFaults`, are any natural number), unless it says otherwise. No
assumption was added for a proof beyond the range of a constant. None of the
properties is inductive by itself; the table names what each one needed. The
proofs go by cases on the disjuncts of `Next`, with a lemma for each group of
actions or for each conjunct that an action can disturb.

*`BridgeLoopProofs`*, for every finite set of sockets and every configuration
allowed by `LoopAssumption`, `U64MaxAssumption` and `HeartbeatAssumption`:

| Theorem | Statement | Invariant it rests on |
|---|---|---|
| `TypeCorrect` | `Spec => []TypeOK` | `TypeOK` is inductive; one lemma per group of actions |
| `NoOrphan` | `Spec => []NoOrphanThread` | `ChannelInv`: the channel is open exactly until `returned`, which is reached only with all threads done |
| `Accounting` | `Spec => []IngressAccounted` | with `ChannelInv`; cardinality of the threads that hold a datagram changes by one |
| `PendingExact` | `Spec => PendingIsExact` | from `IngressAccounted`: the subtraction cannot saturate |
| `Pacing` | `Spec => TxPaced` | `ClockInv`: recorded instants are not in the future |
| `StopReasonTrue` | `Spec => []StopReasonJustified` | `ReasonInv`: the reason with the place at which it is decided, and that the datagram limit is never exceeded |
| `BurstBounds` | `Spec => [](BurstBounded /\ BoundsKept)` | `BoundInv`: what was taken this iteration is at most the burst count, and nothing was taken before the burst; with `ReadWithinDeadline` and `StopReasonTrue` |
| `LedLeftOff` | `Spec => []LedOffAtReturn` | `LedInv`: past the loop the LED's register is on only if the last write failed |
| `TogglesSpaced` | `Spec => ToggleSpacing` | `LedInv`: the next toggle is due exactly half a period after the last one |
| `CountersBalance` | `Spec => [](BindsBalance /\ TotalsBalance)` | the datagram in hand is the one that is counted as received and not yet as submitted or dropped |
| `TelemetryTrue` | `Spec => []TelemetryAgrees` | with `CountersBalance`; a sum over the binds grows by one exactly when one bind's counter does, by induction over the subsets of `Sockets` |

*`RadioHandleProofs`*, for every set of streams, every configuration and any
number of runs on the same paths (`FlowAssumption`, `HandleAssumption`):

| Theorem | Statement | Invariant it rests on |
|---|---|---|
| `TypeCorrect` | `Spec => []TypeOK` | `WriteInv` and `CallInv`: where a write or a health call can be half-way |
| `ReadyIsPrepared` | `Spec => []ReadyMeansPrepared` | `RadioInv`: what is established of the adapter at each place of the flow; `MarkerInv`: from which place on the marker can be this run's |
| `JoinAgrees` | `Spec => []HealthAndJoinAgree` | `ReportInv`, and `ObservedInv`: what a call has read and not yet returned is still so |
| `StopFreesAddresses` | `Spec => []StoppedFreesAddresses` | `SoleInv`: from its bind on, no address of the run is held by a detached thread, in whatever run that was started; with `CleanInv` |
| `RunImplementsContract` | `Spec => ImplementsContract` | all of `RunInv`; every action is shown to be a step of `LinkContract` or a stutter under the mapping |

*`LinkSupervisorProofs`*, for any number of streams and tunnel helpers and every
choice of required ones (`SupervisorAssumption`):

| Theorem | Statement | Invariant it rests on |
|---|---|---|
| `TypeCorrect` | `Spec => []TypeOK` | with `SupervisorInv`, which says which helpers exist |
| `JoinStopsAll` | `Spec => []NothingOutlivesJoin` | `ControlInv`: which helpers may still run at each place of a call |
| `FailureStopsAll` | `Spec => []FailedStartupStopsAll` | with `SpawnInv`: helpers run only from their spawn on |
| `BlameIsTrue` | `Spec => []BlamedDiedAlone` | `ProcInv`: a recorded exit is the real one; `AloneInv`: signalled helpers are marked as terminated by the owner |
| `VerdictIsTrue` | `Spec => []JoinVerdict` | `ProcInv` and `ResultInv`: the statuses the verdict is computed from are the real exits, and a join has seen the radio end |

*`TunBridgeProofs`*, for every MTU, every set of packet sizes and timeouts and
any number of packets (`TunAssumption`):

| Theorem | Statement | Invariant it rests on |
|---|---|---|
| `TunnelKeepsPackets` | `Spec => []TunnelLossless` | `SentInv`: consecutive datagrams hold consecutive packets; `HeldInv`: the aggregate holds those read since |
| `AggregateOnTime` | `Spec => []OldestNotLate` | `TimeInv` with `HeldInv`: the deadline is that of the first packet held, and the turn that computes `wakeAt` sees it |

*`BringUpProofs`*, for any number of sessions and
faults, of pages, downloads and link table entries, of sweeps, attempts and
candidates (`InitConstants`, `CalibrationConstants`, `MaxFaultsAssumption`):

| Theorem | Statement | Invariant it rests on |
|---|---|---|
| `SessionFresh` | `Spec => []ReadyMeansFresh` | `FirmwareInv`, `LltInv`, `GrantInv`, `BandInv`: what a session has redone of the warm adapter's state at each phase, in both phase orders. That the written table splits at the boundary is induction along its chain of entries |
| `RestoreIsComplete` | `Spec => []RestoredMeansBackup` | `RestoreAt(pos)`: what the first `pos` transfers of the restore script have put back, if none failed; `BackupAt(pos)` for what the backup read |
| `LiveIsCalibrated` | `Spec => []LiveMeansCalibrated` | `SweepInv`, `LckInv`, `DoneInv`: while no sweep of the profile has failed to restore, every register outside the current stage holds its value from before |

The hypothesis of the last two, that no earlier sweep failed to restore, is
finding 3 of section 4; without it the conclusion is false.

*`CodecProofs`*, for the specification of `MCCodec`, each from a lemma that is
not limited to that module's inputs:

| Theorem | Statement | Lemma behind it |
|---|---|---|
| `DividesWindows` | `Spec => []WindowsDivided` | `NeverBoth`: for every valid schedule, its mirror and starts at most a guard apart. `TxShare`: the instants of a cycle at which TX is allowed and the offsets of the TX window correspond one to one |
| `ServesWindows` | `Spec => []EveryWindowServed` | `ServedFromInv`: no window has opened since TX was last allowed, for any number of iterations |
| `SelectsSoundly` | `Spec => []CandidatesSelected` | `SoundSelection`: every sequence of pairs of 11-bit values, across the sign change |
| `WalksTransfers` | `Spec => []TransferWalked` | `WalkExact`: every sequence of records, any bytes after them, any cut. The walk is at the start of a record (`OnTrack`), done (`AtEnd`), or past the last whole record (`Astray`) |
| `DecodesLogs` | `Spec => []LogDecoded` | `DecodeExact`: every sequence of blocks that can be burnt, any cut. The decoder is at the header of a block (`OnBlock`) with the map up to date with the blocks before it, or has ended with the final map (`Decoded`) |
| `ChannelsAgree` | `Spec => []ChannelPlanConsistent` | the position of a channel in its 40 or 80 MHz group determines every setting; one case per position, for all groups at once |

*`DiagCommandProofs`*, for every command and every set of its options, any number
of download attempts, EFUSE bytes and repeated frames, and any number of
commands, failures, kills and replugs (`DiagStepConstants`, `DiagBounds`):

| Theorem | Statement | Invariant it rests on |
|---|---|---|
| `LayersUp` | `Spec => []LayersInOrder` | `Stage /\ FactsInv`: the facts annotated at the position of the command hold of the chip |
| `TrafficPrepared` | `Spec => []TrafficOnPreparedChip` | the same; annotations also tell which facts this command established |
| `AcknowledgementFirst` | `Spec => []AcknowledgedFirst` | `Stage /\ AcksInv`: the flags annotated at the position were found; up to the claim a plan gathers flags, after it no step asks for more. The plans of commands that neither ask nor transmit hold no write |
| `NothingForgotten` | `Spec => []NothingLeftOn` | `Stage /\ LeftInv`: what is annotated as gone is off unless a write failed to withdraw it (`stuck`), and with an error kept, what is still on is taken back by a later step that runs all the same |

A plan has hundreds of steps, and thousands with real constants, but it is put
together from small plans. An *annotation* gives every position of a plan what
holds there, and *fits* if each step leads from its annotation to the next
(`Local`), or to the one it jumps to (`Lands`), however it ends: done, failed
with the error dropped or kept, silenced, or not asked for. `Leads(r, P, a, b)`
says that `P` has a fitting annotation from `a` to `b`. It composes: a lemma
each for concatenation, options, kept and dropped errors, conditional jumps and
loops of any length, then one lemma for each register sequence, and one for each
command. The same notion serves three kinds of annotation. `Stage` says that a
running command is at a step of its plan that its options ask for; `Start`,
`Succeed` and `Fail` then move along the annotation, and `Proceed`, which skips
the steps that do not run, is induction over positions.

`TxPaced`, `BurstBounded`, the balances of the counters, and the type invariants
of `RadioHandle` and `LinkSupervisor` are proved and not run.

Some operators are recursive functions. The provers cannot instantiate an
induction rule with a predicate, so `InductionLemmas` takes predicates as sets:
a set of naturals has a least member, what holds of 0 and carries over to the
successor holds up to any bound, and a recursion of any number of steps exists,
so that a recursive function satisfies its own definition. The same for what
holds of the empty set and carries over when an element is added to a subset of
a finite set; sums are folds over such sets.

Only model-checked are

- the liveness properties and whatever rests on `ENABLED` or fairness, which are
  outside the prover;
- `ReportsWhatRan`: it needs, for each command, the order in which the phases of
  its report are reached, a fourth kind of annotation for all 36 plans.

## 6. Fairness

*BridgeLoop*: weak fairness of each thread, of the loop and of time. The code
justifies it: sockets have a receive timeout, and so have USB reads, except the
one begun less than a millisecond before the deadline. That one need not return:
frames and USB errors (`ReadReturns`) are never forced, and `RxTimedOut` needs a
timeout. An unbounded run has no such read, and `StopLeadsToReturn` is checked
for it; in a run with a duration a stop is seen only if the last read returns.
Nothing is assumed of the network or the operator; `QueueServed` holds with RX
traffic arriving at every read.

*RadioHandle*: only the application's own steps inside a call are fair.
`WaitReturns` therefore holds with a runtime thread that never moves.
`StopEndsRun` takes as its hypothesis `FlowFairness`: the thread runs, USB
transfers and file writes return, and the loop leaves when the flag is up, which
is what `StopLeadsToReturn` shows of `BridgeLoop` for an unbounded run.

*LinkSupervisor*: the application's steps inside a call, and a radio with its
stop flag up ends, which is `StopEndsRun`. Nothing is assumed of helpers: the
deadline and `kill` suffice for those `kill` reaches, and for the one behind sudo
`JoinTerminates` makes its exception.

*BringUp*: weak fairness of the session's own steps. Transfers time out and
polls are bounded, so each of them returns; which way it returns is left open,
and faults are never forced. *TunBridge*, *DiagCommand* and *MCCodec* state
safety only.

## 7. Abstractions

Links and loop:

- Byte layouts (radiotap, descriptors, JSON), telemetry that nothing reads, log
  files and command lines are left out. A JSON file is absent, torn, or holds
  one of the lifecycles the flow writes.
- The preflight of several best-effort addresses is one step; what matters, that
  an address may change hands between preflight and bind, is kept.
- `read_to_string` sees a file as it is at one moment.
- The second validation inside the flow repeats the first on the same values
  and is not a step of its own; its two health writes are.
- One application thread uses a handle, and joins it. A handle dropped without
  join detaches its thread and nobody holds its stop flag any more; this is not
  modelled.
- The helper of a tunnel that runs under sudo is one process, sudo itself; the
  process sudo runs is outside the model. `wait` does not fail.
- `LinkSupervisor` has one start per behaviour, and describes what the radio's
  `health()` may say by phase (`RadioHealth`), as loosely as `RadioHandle`
  allows.
- Process signals (the standalone service) set the same kind of flag as
  `request_stop` and are modelled only as such.

Bring-up:

- A register matters by its group: those a backup reads together, in one of two
  banks. `pre` is the value at the start of the profile.
- Register tables (MAC, BB, RF, channel) and TX power tables are one step each;
  their values are data. The BB table rewrites the page bit and the BB registers.
- `REG_CCK_CHECK` and the registers of the bands keep their values over a warm
  restart, as nothing writes them then.
- A one-shot round that ends late yields no candidate; a poll may succeed at any
  attempt or at none.

Tunnel:

- Time passes in `poll` and in the two handlers; the steps between are short.
- Interface configuration, counters and the log are left out; the receive
  direction appears by its outcomes.

Diagnostic commands:

- The chip is a set of facts. Writes whose partial effects no fact tells apart
  are one step. A failed transfer may or may not have had its effect.
- Clearing `REG_CR` withdraws only that fact: what the layers above wrote stays
  as it was. The `cr` option of the bench writes a value of the operator's
  choice and counts as clearing; other registers of the operator's choice are
  taken to be none of those the preflights read.
- `runtime_flow` carries the report phases of the bridge it wraps; the part of
  `radio_run` after initialization is the production flow, abbreviated, since
  `RuntimeFlow` and `BridgeLoop` model it.
- Frames are repeated twice, EFUSE has two bytes; the loops of the listen and
  bridge commands end with the last frame.
- Dry runs, fixtures, and the contents of reports other than phases and result
  are left out.

## 8. Not modelled, and the plan

The map covers 30 % of the implementation's lines. What it leaves out are report
types and the code that fills and prints them, register values, and the parts
named below.

1. A theorem about the phases of a report (`ReportsWhatRan`).
2. `AndroidSession` (`wfb-android-smoke/src/lib.rs`): the JNI session registry
   around the same flow.
3. UDP port reservation of the managed streams; configuration merging of the
   radio service.
4. The per-forward RX filter and counters; the conditional register tables.

Out of reach or without protocol state: USB and FFI code (only outcomes appear:
data, timeout, error, short write), register values, the `rf_quality` analysis
and trace conversions of `wfb-radio-diag`, scripts and captures.

## 9. Running

    tlc -workers 2 -config DiagCommand.cfg DiagCommand
    tlapm BridgeLoopProofs.tla

The modules with proofs are `BridgeLoopProofs`, `RadioHandleProofs`,
`LinkSupervisorProofs`, `TunBridgeProofs`, `InductionLemmas`,
`BringUpProofs`, `CodecProofs` and `DiagCommandProofs`. The last one takes about
ten minutes, `CodecProofs` about five, the others a minute or two each.

`PROJECT.json` lists every run with its module and configuration, the source
lines behind every definition (`map`), and for every property a mutated
definition that breaks it (`mutants`); mutants are defined in the modules, each
just before the definition it replaces.
