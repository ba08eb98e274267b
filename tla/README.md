# Verification of the analyser control (lcstate)

The repository drives an instrument that measures organic carbon in water: a furnace, a needle on
an X and a Y axis with a syringe (Z), pumps, valves and stirrers on a CAN bus. It is a set of GLib
services that talk over D-Bus. These modules model its control in TLA+, TLC checks them on small
instances, and TLAPS proves the central results for every value of the constants.

    tlc -config MCControlProcess.cfg MCControlProcess.tla      # one run
    tlapm ControlProcess_proofs.tla                            # one proof module

PROJECT.json lists the runs, the mutants that show each property can fail, the source lines behind
every definition, the hazards and the theorems.

## 1. The system

    user interface, remote signals                          (D-Bus commands, inputs)
      measurement service      which process runs on the one analyser, which wait
        sequence service       one step of a process as axis programs and vessel movements
          axis service         axis programs: one motor operation after the other
          vessels service      furnace and TIC port: open, close, temperature
          pumps, valves, stirrers, airflow services
            can-daemon         entries of CAN nodes, read and written by blocking calls
              CAN nodes

Every service is one GLib main loop: a handler runs to its end before the next one starts. What
interleaves is everything asynchronous: D-Bus replies, timers, user commands, property changes, and
the callbacks of tasks that were cancelled. `GCancellable` only asks; the callback of a cancelled
task comes later, when a successor may already work. That is where most of the hazards are.

| Component (source) | State | Operations | What makes it correct | Model |
|---|---|---|---|---|
| Scheduler (`measurement-service/ultra-control-process.c`) | process that runs, its cancellable, wait list, error retries, stop signal, critical error, published busy | online, offline, start, remove, ignore critical, node reset, stop signal poll, end of a run | one live run that can be stopped; a critical error stops measuring; stop signal holds back; waiting processes get their turn | ControlProcess |
| Processes and interval timers (`mkt-process-object.c`) | is-online, interval source, start time, wait-user-next | online, offline, start, remove, user-next, run, finish | a timer exists only online; a waited-for process is due | ControlProcess (partly) |
| HOLD (`ultimate-process-hold.c`) | reinit, need_rinsing | sequences allhold and rinsing | rinses out what a measurement left behind, whoever was interrupted | MeasurementRun (partly), and as a run of ControlProcess |
| Measurement (`measurement-process.c`, `prepare-task.c`, `analyze-task.c`, `ultra-integration-object.c`) | prepare timer and cancellable, channels, replicates | fill, rinse, dilute, sample, justify, inject, integrate, repeat, conclude; early filling | a result is stored or the channel marked as failed; pumps do not run on; it ends | MeasurementRun (partly) |
| Calibration, check (`calibration-process.c`, `check-process.c`) | solution, regression | per solution a measurement, wait for the user | every solution measured once, the curve of this calibration | the wait is in ControlProcess |
| Channels, results (`ultra-channel-*.c`, `ultimate-channel.c`, the statistic of `mkt-process-object.c`) | values, flags, curve, limits | statistic, storing, range check | outliers are left out within their number, the statistic ends | Statistic, MeasurementRun (partly) |
| Sequence service (`sequence-workings-service/`) | shared cancellable, shared busy | run, stop, nine sequences | one sequence at work; the needle is up when X moves and its port open when it enters; the pump of a sequence that ended is off | SequenceService |
| Axis service (`axis-service/`) | current program, motor state | ptprun, GoHold, GoPos, sensor | one program drives; an axis stays where it was put; every command is answered | AxisMotion |
| Vessels (`vessels_service/`) | `activity`, is-busy, is-open, the port and its two outputs, temperature | open, close, monitor | never both outputs on; a port stays where it was put; every command is answered | VesselPort (partly: the ports) |
| Airflow (`airflow-service/`) | flow, error delay | monitor | a lost flow is reported | - |
| Pumps, valves, stirrers | none but published properties | relay on/off | - | not modelled |
| CAN daemon, calls (`can-daemon/src/node-device-object.c`, `node-object.c`, `node-index*.c`) | one device, copies of all entries | read, write, drain, reset signal | a call returns; TRUE means done; a reset is signalled | CanDevice |
| Digital nodes (`node-digital-object.c`) | memory of the outputs | get in, get out, set one output | an output changes only by its own command | DigitalNode |
| Motor and analog nodes (`node-motor*.c`, `node-analog-object.c`) | published properties | one call each | as the call | CanDevice (partly) |
| Core library (`src/src/core`) | port of the daemon, in transition | - | - | not modelled |
| User interface (`lgdm`), shells (`src/src/cliapp`, `src/src/ultra`) | widgets | commands | - | environment of ControlProcess |

The behaviours that are hard to test, each at its line, are the `hazards` of PROJECT.json with the
properties that cover them; those without a property say why.

## 2. Modules

| Module | Contents |
|---|---|
| ExclusiveRun | abstract specification: one piece of work at a time, a start supersedes, a superseded run drains until its callback |
| ControlProcess | the scheduler |
| MCControlProcess | processes and start order for TLC |
| ControlProcess_proofs | types, the safety invariants of the scheduler, its wait list; it implements ExclusiveRun |
| CanDevice | the bus, the nodes, and the blocking read and write |
| DigitalNode | extends CanDevice by the handlers of a digital node |
| AxisMotion | axis programs, movements and motors |
| MCAxisMotion | programs for TLC |
| AxisMotion_proofs | types; AxisMotion implements ExclusiveRun; axes stay placed; overdue programs end |
| VesselPort | a command to the port of the furnace or of the TIC vessel |
| MCVesselPort | the two vessels for TLC |
| VesselPort_proofs | types; interlock, placed port, published state; the commands of the furnace are an ExclusiveRun; overdue commands end |
| SequenceService | the nine sequences over an abstract AxisMotion and VesselPort |
| MCSequenceService | symmetry of the runs for TLC |
| SequenceService_proofs | types; the needle crosses lifted and enters open ports, nothing stays on, the runs are an ExclusiveRun |
| Statistic | when the replicates of a channel are enough |
| Statistic_proofs | the statistic says enough at last, and not before |
| MeasurementRun | a measurement and HOLD over the sequences; the early filling; channels and results |
| MCMeasurementRun | the results of integrations for TLC |
| MeasurementRun_proofs | types; sample is rinsed out, the pump does not run on, results are not lost, replicates are bounded, runs come nearer to their end |
| MCCanDevice, MCDigitalNode | nodes and entries for TLC |
| CanDevice_proofs | calls are matched; reads are fresh, writes stored, resets pending |
| DigitalNode_proofs | DigitalNode is a client of CanDevice; outputs obey commands |

### ControlProcess

One GLib handler is one action. The functions handlers call in the middle of their work
(`ultra_control_start_process`, `ultra_control_cancel`, `run_next_process`,
`ultra_control_online`, ...) are operators on the record `ctl`, composed in the order of the code,
because each of them changes several parts of it and later ones look at what earlier ones did.

| Code | Model |
|---|---|
| `priv->runned`, `priv->wait_process`, `priv->cancellable` | `ctl.runned`, `ctl.wait`, `ctl.cancellable` |
| a GTask of `mkt_process_object_run` whose callback is due | a name in `Task`, `ctl.run[t]` its process, `ctl.cancelled` those that were cancelled |
| `is-online`, the one-second interval source | `ctl.online`, `ctl.timer` (absent, no start time, start time set) |
| `wait_user_next`, the `process-will-be-next` handler | `ctl.asks`, `ctl.awaiting` |
| D-Bus commands | OnlineCommand, OfflineCommand, IgnoreCriticalCommand, MaintenanceOn, StartCommand, BreakCommand, UserNext |
| security device, CAN, inputs, timers | CriticalChange, NodeReset, StopSignalChanged, PollRetry, StopSignalReadFails, TimerFires, IntervalChanged |
| `control_process_done` | ProcessDone: the run fails or was cancelled (RunFails), or succeeds (RunSucceeds, with the range switch) |

Abstracted: time (a start time has passed when TimerFires happens), what a run does (it ends with
success, failure or cancellation, or asks its user), status texts (of which `busy` remains), the
remote start signal: it comes when TimerFires happens, and a `Remote` process then needs no start
time. `can_start` stays out, since nothing sets it to FALSE, and the critical error is one variable
though it is asked for in two ways, since the security device sets both at once. Retries beyond
`RetryLimit` are not counted because the code only asks for less. Two constants name bounds for TLC
only: `Task` (a handler that starts a run needs a free name) and `MaxWait`.

### CanDevice and DigitalNode

The daemon makes one blocking call at a time; the bus moves between any two of its steps. A request
is in `sent` until its node executes, refuses or loses it, a frame in `rx` until the daemon reads
it. `cache` is the daemon's copy of an entry, `store` what the node holds. A call drains the device
(Drain), sends (Send), reads frames (Receive) and gives up (Timeout). A frame names its node and
not its entry to the code that reads it, and so it does in `Completes`. DigitalNode writes
the handlers of a node over these calls; `job` is the handler in progress. `lastOn`, `lastOff` and
`held`, `owed`, `unannounced` record history for the properties and no action depends on them.

Abstracted: the layout of the frames, the SDO command bytes, entries longer than a frame, PDOs, the
EDS dictionaries, the D-Bus properties that mirror values.

### AxisMotion

A program is a sequence of operations; `go` is a D3GO object, `sensor` a D3SENSOR object, `other` a
valve or a waiting time. One callback of a GTask is one action, named after the answer it gets; the
phase of a program says which callback is due.

| Code | Model |
|---|---|
| `AXIS_CANCEL`, MOVE_cancel | `current`, `cancelled`, MoveCancel (with the handler that stops the motor) |
| ControlPtp and its `operations` | `prog[r].ops`; no operations left means answered |
| `curr_position`, `old_position`, `repeat`, `final_repeat`, MOVE_is_timeout | `read`, `old`, `repeat`, `finals`, `expired` |
| Ptprun; GoPosition, GoHold, GoSensor and the syringe commands | Ptprun with a program, of one operation for the single movements |
| the motors | `at`, `goal`, MotorMoves |

A goal takes effect when it is sent, and a position is read when its callback runs: the requests go
over one connection to a daemon that does one blocking call at a time, so that none overtakes
another. `placed` is history: where an axis may be after its last movement that succeeded,
everywhere from the next goal on. The end switch is position 0. An operation names the motor it
drives; GoHold of the syringe names the motor of the Y axis, as the code does (a hazard).

Abstracted: the parser, the positions the syringe commands compute, stepper parameters, the times
(20 ms, 40 ms, 0.5 s are the order of the callbacks, 25 s is Expire), a motor that loses steps.

### VesselPort

One port; `vessel` says whether it is the furnace's or the TIC vessel's, whose code is the same but
for what a new command does to the `activity` of the one before.

| Code | Model |
|---|---|
| `activity` of the furnace, cancelled by the next command | `current`, `cancelled` |
| `activity` of the TIC vessel, cancelled and reset in one handler | `upset`: the superseded command finds a cancellable that is not cancelled, and goes on |
| a GTask of open_furnace_operation or close_furnace_operation | `op[c]`: its direction, the call or timer it waits for, its age |
| the timer of 0.2 s or 0.5 s, then the calls to the node | the steps SwitchOppositeOff, SwitchOwnOn, ReadEnd, EndRead, SwitchOppositeOn, DrivenBack |
| the outputs and inputs of the node, the port itself | `drive`, `at`, PortMoves |
| is-busy, is-open | `busy`, `isOpen` (OpenDone and CloseDone publish, also those of a superseded command) |

Time is the age of a command: before 5 s, the half second in which the port is driven back, up to
12 s, and after. GrowsOld ages it whenever it likes, so that a reading falls into any of them or
misses the half second. A timer of 0.2 s fires after a cancelled command has returned: its
cancelled call comes back at once, its timer looks at the cancellable every 0.5 ms (that is the
guard of SwitchOppositeOff). A write can be lost (`lost`), because nobody looks at the answer FALSE
of the node, and a call can return an error.

### SequenceService

A sequence is a constant: the list of its steps in the order of its callbacks. A step is a ptprun
with the operations that matter (`lift`, `x`, lowering the needle to a place), open or close of a
port, or a timer. A callback that begins with a look at the published position of the Y axis is a
step that is `checked`, `retried` or `liftIfDown`.

| Code | Model |
|---|---|
| SEQUENCE_CANCELLABLE, `busy`, of the nine objects | `current`, `cancelled`, `busy` |
| the GTask of a run, and the step its next callback belongs to | `kind[r]`, `todo`, `answer` |
| run, stop, the done callback with the class's cleanup | RunCallback, RunFails, StopCallback, Done |
| the axis service | `sent` (a request on its way), `program`, `needle`, `published`; AxisStep, ProgramFails, PtprunArrives |
| the vessels service | `command`, `open`, `upset`; PortEnds |
| D-Bus timeouts of ptprun | ProgramTimesOut |

It composes with AxisMotion and VesselPort by assumption, not by INSTANCE: of the axis service it
takes that one program drives and an axis is where its last successful movement put it
(RunsAreExclusive, AxesStayPlaced), of the vessels that a port is where its last successful command
put it (PortStaysPlaced) and commands are exclusive but for the TIC vessel (`upset`), of both that
everything ends (EveryProgramEnds, EveryCommandEnds). A run that is superseded leaves its program
and its port command going on, as in the code: `strayed` is history and says that the needle was
last driven by a program nobody waits for.

RunsProgress and AllholdHolds are action properties. The first says that a run at work waits for
something that is under way and that each answer shortens what it has left (`StepsLeft`), the second
that an allhold that ends well leaves the needle lifted, both ports closed and nothing under way.

Abstracted: syringe and valves, stirrers, the pumps but pump 6 of the dilution, parameters of the
sequences, clients of the axis and vessels services other than the sequences. Of the three places
a dilution visits one is kept.

### MeasurementRun and Statistic

One online measurement process and HOLD. A run is a chain of timers and sequences, so one variable
says what the run at work waits for (`step`), and one action is the callback of it. Runs that were
superseded are only counted (`late`), because all that is left of them is their end.

| Code | Model |
|---|---|
| the timer or D-Bus call whose callback is due | `step`; `Calls[step]` is the sequence, `seq` the one at work or its answer |
| CONTROL->cancellable, the callback of a cancelled run | Supersede (the cancelled handlers of the tasks run at once), `late`, Aborted (its finish runs later) |
| waitSampling, waitStripping, PrepareTask | FillingOver, StrippingOver, Dilute, Prepared |
| AnalyzeTask | TakeSample, SampleTaken, Justified, Injected, AfterRinsed, AxisHeld, Poll |
| analyze_TC_task_done, measurement_process_analyse_done | TCAnalysed, AnotherReplicate, Conclude, Emptied, Ended |
| the run of HOLD, `reinit`, `need_rinsing` | HoldRun, Homed, HoldRinsed, Held, `reinit`, `needRinsing` |
| interval_triger, `prepare`, `prepare_timer`, the pump of the stream | IntervalTrigger, PrepFilled, `prep`, `latePrep`, `prepareTimer`, `streamPump` |
| UltraIntegrationObject | `sensor[c]`; Signal, Zeroed, Started, Stopped |
| the channel's flags, MktProcess, MktMeasurement | `done`, `failed`, `transmitted`, `recorded`, `values`, `stored` |
| mkt_process_calculate_measurement_statistic | Statistic!Enough, Decided |

`dirty` and `stored` are history. Of the sequences it takes that each ends, well or not, and that a
new one supersedes the one before; a cancelled D-Bus call leaves its sequence going on. A call that
outlives its D-Bus timeout (100 s, 20 s) is not modelled: the run would fail while its sequence goes
on, which is where Cancel leads too. A cancelled timer or call comes back within milliseconds
(`lar-timer.c` polls every 0.5 ms), so what a run waits for comes after the end of the runs before
it (`late = 0`), except that the timers of filling and stripping may be set to no time at all. The
settings of a stream are read when they are needed, so dilution, sampling and remote control are
free choices; so is the length of stripping, whose function may return no value. The integral is
chosen when it is stored, 0 for a channel that never integrated. Forget drops, when a run ends or is
superseded, what the next one sets before it reads it.

Statistic computes with integers: the coefficient of variation and the distances from the mean are
squared and multiplied out. Results are integers in units so coarse that a coefficient below 0.0099
is that of equal values; results that are no numbers or infinite are not modelled. A mean at or
below zero keeps the coefficient of the round before, the rounds end when all values are equal, and
0 of a failed channel is a value like others, as in the code.

What the model shows of the code without being a violation of anything written: the late end of a
superseded run stops the pump its successor has started, and drops its record, so that what it
measures is not stored (the channels are marked with an error); a node reset forgets the rinsing.

## 3. Runs

| Run | Question | States | Fairness |
|---|---|---|---|
| control_runs | do the safety properties hold in whatever order commands, timers, errors, resets and late callbacks come, and can what keeps the others waiting still end, is the scheduler an ExclusiveRun? | 1,142,562 | none |
| control_live | with range switching: do waiting processes get their turn, does HOLD give the analyser back, is a removed process gone, does nobody overtake? | 157,606 | runs end, the poll goes on |
| control_waits | is a process shown as waited for ever started? (violated) | - | none |
| control_idle | is the analyser idle when the state says so? (violated) | - | none |
| can_unreliable | late answers and resets: does every call return, is every reset signalled, can only an overdue answer that comes during a call, or a reset, make it wrong? | 507,680 | the loops of the daemon |
| can_digital | nodes in time: is a successful call right, does setting one output leave the others? | 178,560 | none |
| can_reset_read | with resets, is a value that was read the node's? (violated) | - | none |
| axis_programs | programs superseded at any moment, motors that stick, calls that fail: do axes stay where they were put, is the service an ExclusiveRun, does an overdue operation come nearer to its end? | 1,291,428 | none |
| vessel_ports | commands that supersede each other, writes that are lost, a port that sticks: are the outputs interlocked, does a port stay where it was put, is what is published true, is every command answered? | 304,270 | timers and calls return, time passes |
| sequences | sequences started, stopped, superseded and failing at any step: does the needle cross lifted and enter open ports only, is nothing left on, is the service an ExclusiveRun, does every answer bring a run nearer to its end, is the analyser in hold after an allhold? | 724,206 | none |
| measurements | measurements and HOLD superseded, failing and reset at any step, beside the early filling: is sample rinsed out, does the pump stop, is a result stored or marked as failed, do replicates end, does every callback bring a run nearer to its end, and does it get there? | 322,018 | timers and sequences end |
| axis_live | goals lost, motors stuck for ever: is every command answered? | 124,525 | callbacks come, time passes |

**Bounds.** control_runs has one process that going online starts, one it only arms and one
calibrated by hand: each kind the code distinguishes. Two runs in progress are enough for a late
callback to meet its successor; three (control_idle) for two late callbacks. `MaxWait` 2 allows a
process to wait behind another, and a node reset to put one there twice. In the CAN runs two nodes
are needed for a frame of another node, two frames for a reset next to an answer, two values and two
outputs for one to be mistaken for another. In axis_programs two programs are enough for a late
callback of one to meet the other, four positions for an axis to be near its goal, on the switch or
neither; one repetition in place of ten meets both sides of each counter. In vessel_ports two
commands are enough for one to meet the one it supersedes, and one place between the ends (`Travel`
1 is two positions, open and closed) since PortMoves may wait. In sequences two runs and one request
on its way (`sent`) meet in every order. `Kind` lists what the runs choose from: allhold, injection,
rinsing and dilution have between them every form of step, an initialisation, the retry and the
pump. Injectioncod, injectiontic, sampling, samplingcod and axishold are made of the same steps; the
needle in the TIC port, where only injectiontic lowers it, is left to the proof. The proofs do
not use these bounds, and hold of all nine sequences. In measurements one channel of each kind makes
an analysis of two parts, and a late end (`Late` 1) meets its successor at every step. Two
replicates and one outlier with two results far apart (2 and 10, and -1 for a channel that failed)
meet every exit of the statistic but the one for three equal distances; one poll stands for the
three hundred that fit in the time for the analysis. No proof uses these bounds.

**Fairness.** `ControlProcess!Fairness`: a run that does not wait for its user ends, whether it was
cancelled or not - every task of a process has timeouts below it, and a cancelled one returns at
its next callback - and the stop signal source, a GLib timer, keeps firing while it exists
(`polling`; a failed read ends it, and WaitingIsServed promises nothing then). Nothing is assumed of
users, errors, resets, timers or the outcome of runs. `CanDevice!LiveSpec`: a call's loop runs on
(Receive, Timeout) and the 20-second source fires between calls (IdleDrain). Nothing is assumed of
nodes. `AxisMotion!LiveSpec`: the callback of a program comes - D-Bus calls and timers end - and the
25 seconds pass. Nothing is assumed of motors and clients. `VesselPort!LiveSpec`: the callback of a
command comes (the D-Bus timeout at the latest) and time passes; nothing is assumed of the port.
`MeasurementRun!LiveSpec`: a sequence ends (SequenceEnds), which RunsProgress shows of the sequence
service where programs and port commands end, and these do (axis_live, vessel_ports); and the
callback of a run comes (Callback), since timers are of GLib. Nothing is assumed of users, resets,
sensors and the early filling. RunsEnd therefore speaks of a run that is interrupted only finitely
often.

**Settings under which a property is checked.** HeldBack does not hold with RangeSwitching (a range
switch starts the other range without asking for the stop signal) and RemovedIsGone and
NobodyOvertakes not with NodeResets (a reset may put a process on the list twice); both are listed
as hazards. CanInv, ReadIsFresh, WriteIsStored and OutputsAreCommanded are stated for nodes that
answer before the timeout and do not reset: with LateAnswers an old answer completes the next call
to its node, as the daemon compares nodes and not entries; with NodeResets see can_reset_read.
CallIsRight has no such setting: it says how far the harm goes, to a call whose node had not dealt
with an earlier request when the call began, or that a reset met (`owed`). AxesStayPlaced is stated
for goals that are not lost: the daemon answers a lost one with FALSE, the callers ignore it, and
TLC shows with WritesMayBeLost how an axis that drives to an older goal then counts as arrived.
Three excuses are part of a property and not of a setting. The ports are interlocked and placed
unless a write was lost or a superseded command of the TIC vessel went on (`lost`, `upset`); the
needle crosses lifted unless it `strayed`, and enters open ports unless `upset`. Each of them stands
for a listed hazard: without it TLC shows the run in which the hazard strikes. ReplicatesAreBounded
counts the second replicate that the code takes when the jump is watched and no earlier result
exists.

### What the violations show

- **control_waits**: going online marks a process online and puts it on the wait list without an
  interval timer. When it is removed before it ran, it stays online and is shown as
  "Wartet auf ..." although no timer and no list entry will start it.
- **control_idle**: after offline, the late callbacks of cancelled runs restart HOLD until the
  retries are used up; the next one clears `runned` while the last HOLD works. The state is
  published as idle and "Offline", and the online command is accepted.
- **can_reset_read**: a reset of any node ends the read in progress with TRUE, and the caller hands
  out its cached value. A comment in the source doubts that this was meant.

## 4. Proofs

Everything is proved for arbitrary sets, bounds and settings that satisfy the named assumptions
(ProcessAssumption, StartOrderAssumption, TaskAssumption, BoundAssumption; EntryAssumption,
BusAssumption; DigitalAssumption; AxisAssumption; PortAssumption; SequenceAssumption;
StatisticAssumption, MeasurementAssumption), which TLC evaluates on every run.

**Scheduler.** The invariant is `IInv`: TypeOK, `Safe(ctl)` and `CriticalBreak => Quiet(ctl)`.
`Safe` is the conjunction of LiveRunIsControlled, RunnedCanEnd and OfflineHasNoTimer on the record,
and of `Awaits`, that only a calibration waits for its user: leaving a range forgets whom a process
asks, and may do so because no range is one. CriticalStopsMeasuring alone is not inductive:
CriticalStop cancels the run that CONTROL can cancel, and only with `Safe` is that every live one;
and a waiting process must not be started later, which is `Quiet`. There is one lemma per operator
on `ctl` for types and one for `Safe`, so the step of a handler chains the lemmas in the order of
its calls. TypeCorrect, LiveRunIsAlwaysControlled, CriticalAlwaysStopsMeasuring, RunnedCanAlwaysEnd
and OfflineNeverHasTimer follow. RunningIsAlwaysPublished is inductive over the types: every handler
that starts a process publishes it. NothingStartsHeldBack (an action property, without
RangeSwitching) follows the one record of handlers that can start a process and shows that each
looks at the stop signal first; the end of a run, which may start the same process again, has a
lemma of its own.

The wait list needs an invariant of its own, `Once`: without node resets no process is in it twice
(StartOrderAssumption: all_process has a process once; AddWait looks before it appends). With it,
taking out the first entry takes out all, and RemovedProcessIsGone follows; RemovedStopsWorking, that
the run of a removed process is cancelled, needs no such condition. NobodyEverOvertakes needs `Once`
too: the tail of a list keeps the order of the others, and the head is in front of nobody else twice.
It is the safety half of WaitingIsServed: whoever waits is served in his turn.

**Refinement.** ControlRunsAreExclusive: `Spec => Runs!Spec` under the mapping `live` = the
uncancelled run of CONTROL->cancellable, `draining` = cancelled runs with a callback due. It needs
`Marked` (a cancelled name is a pending one) beside IInv. A handler that cancels and then starts maps to
one Start, because a start supersedes.

**Bus.** CallIsMatched is inductive with TypeOK for timely nodes; ReadIsFresh and WriteIsStored
follow from it step by step. ResetIsPending is inductive by itself and needs no assumption on the
nodes. Nor does CallsAreRight: of a call that began with nothing owed, `Unspoiled` says that its
node has at most its request, that the frames of the node are at most one answer to it, and that
frames of other nodes are passed over. DigitalNodeIsClient shows that the handlers use the bus one
call at a time, so that every theorem of CanDevice holds of DigitalNode. OutputsObeyCommands rests
on `OutputsInv`: what `digitVal` and a write under way say of each output agrees with its last
command or with the node.

**Axes.** ProgramsAreExclusive is the refinement as for the scheduler, with `Marked` (only `current`
is live, cancelled names are pending). AxesAlwaysStayPlaced needs `MotionInv`: of each axis, that it
and its goal are in `placed`, and everything between the two is (so that a motor on its way stays in
it); of the live program, that what it waits for is what it has sent. Supersession is the delicate
step: MOVE_cancel changes a goal only where a position was read, hence where a goal was sent, hence
where the axis does not count as placed. OverdueOperationsEnd proves
ProgramsComeNearer with the variant `OperationLeft`: the callbacks that can still follow each other once
the 25 s are over, and the goals that may be sent again.

**Ports.** CommandsExclude needs `Marked`: cancelled commands are pending, and unless the TIC vessel
has let a superseded command go on (`upset`), current is the only live one. OutputsInterlocked,
PortAlwaysStaysPlaced and PublishedAlwaysFits rest on `PortInv`: what the live command has told the
node (`Told`: an output it switched off is off, or the write was lost), that no cancelled command is
left once it is past its start (`Alone`), and that a placed port is where it was put with nothing
driving it away (`Settled`). `Alone` is the delicate part: a superseded command that has not
returned could publish, or write, later. OverdueCommandsEnd proves CommandsComeNearer: when the time
of a command is up, each callback ends it or leaves fewer ahead of it (`CallbacksLeft`).

**Sequences.** Six things are proved of all nine sequences: RunsExclude, NothingStaysOn,
NeedleCrossesLifted, NeedleEntersOpenPort, EveryAnswerProgresses and AllholdPutsInHold. The
sequences are constants, and `Good` says what they have in common, as a relation of neighbouring
steps (`Follows`) and of a closing to what comes after it (`Prepares`); every tail of a good
sequence is good, and so is what a retry makes of it. `Sound` carries TypeOK and `Good(todo)` along.
On top of it `ProgramInv` says what the programs left in the axis service may do, whoever listens to
them, and `StepInv` what the step the current run waits for has made true. Supersession is the
delicate step here too: a new run may begin when a program of the old one has any operation left,
and nothing but the published position of the Y axis decides whether it lifts the needle first.
EveryAnswerProgresses takes from `StepInv` that what a run waits for is under way, and that
`StepsLeft` goes down from the shape of `Good`: an answer ends a step, or retries one that is not
retried again. AllholdPutsInHold follows an allhold by what each of its steps has made true so far
(`HoldInv`: the needle is home, the furnace and then the TIC port closed).

**Measurements.** PumpDoesNotRunOn is inductive over the types: each handler that starts the pump
leaves a timer, and a timer is only forgotten by one that stops the pump. DirtStaysRemembered needs
`Waits`: the sequence at work is the one the run waits for, so that an answer "ok" to a rinsing is
that of a rinsing that ended after the sample was taken - without it the answer to an earlier call
could clear need_rinsing. ResultsAreNotLost needs `Analysis`: during an analysis no late end is
outstanding, what is transmitted is stored, and before the record is created no channel has a value
or is done. NoResultFromTooFew needs `EnoughKept`: a channel that is done has as many results as
must be kept (where the jump is watched, at least one). ReplicatesStayBounded needs `Counted`: while
an analysis goes on, every channel that is recorded has one result fewer than replicates were
counted, so that EnoughAtLast ends it. RunsOnlyComeNearer proves RunsComeNearer with the variant of
the model, in which each replicate that may still come weighs as much as a whole measurement; it
takes the bound from ReplicatesStayBounded.

**Statistic.** `Enough` is a recursive function of the results left out so far and of what the round
before found. EnoughRounds shows that it satisfies its own equation - the rounds recur for larger and
larger sets of outliers, and such a function exists because finite sets are well-founded. In place of
an induction, EnoughAtLast takes a smallest set of kept results on which the statistic would
say no: it leaves out one result more and says no to that smaller set too. EnoughNotBefore reads
the equation once.

**Variants.** RunsComeNearer, ProgramsComeNearer, CommandsComeNearer and RunsProgress are the safety
half of the liveness properties: each callback takes what it is about strictly nearer to its end, for
any values of the constants. What fairness adds, that the callbacks come, is the other half.

**Only model-checked.** Liveness (WaitingIsServed, HoldEnds, CallReturns, ResetIsAnnounced,
EveryProgramEnds, EveryCommandEnds, RunsEnd), which with fairness and ENABLED is beyond the installed
provers. Everything else the passing runs check is proved. The types but those of the bus,
ResultsHaveReplicates and CommandsComeNearer are proved and not checked by a run of their own.

## 5. Not modelled

Most of the repository is outside of the control logic: parsing and formatting, EDS files, JSON
configuration (`ultraconfig.c` is the largest file of the service), result protocols and databases;
the GTK interface and the vendored widgets; relay services without state of their own; the core
library, a port of the daemon that is not finished. These are data conversions and I/O around the
handlers modelled here. Of the control logic itself these parts are left out: PSAnalyseTask, offline
measurements, the iteration of a calibration over its solutions, the temperature and over-current
monitoring of the furnace, the airflow and level watchers, strings of several CAN frames. Wall-clock
time: a timeout may happen when the code may see it, and in CanDevice not before a timely node has
answered.

ControlProcess and MeasurementRun are not composed: the scheduler takes of a run that it ends, fails
or returns cancelled, which MeasurementRun shows (RunsEnd); MeasurementRun takes of the scheduler that
a start supersedes what is at work, which the refinement of ExclusiveRun shows.

## 6. Extensions

In this order: PSAnalyseTask and offline measurements as further steps of MeasurementRun; the
solutions of a calibration above it; monitoring of the furnace beside VesselPort; strings of several
frames in CanDevice.
