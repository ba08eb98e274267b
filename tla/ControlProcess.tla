--------------------------- MODULE ControlProcess ---------------------------
(***************************************************************************)
(* The scheduler of the measurement service (ultra-control-process.c with  *)
(* the part of mkt-process-object.c it drives): which process runs on the  *)
(* one analyser, which processes wait, and what a command, an interval     *)
(* timer, a critical error, a node reset, the remote stop signal or the    *)
(* end of a run does to them.                                              *)
(*                                                                         *)
(* The service is a GLib main loop: a handler runs to its end before the   *)
(* next one starts, so a handler is one action.  What interleaves is the   *)
(* runs: mkt_process_object_run starts a GTask and returns, and            *)
(* control_process_done is called by a later iteration, also for a run     *)
(* that was cancelled and replaced in the meantime.                        *)
(*                                                                         *)
(* The functions of the C file that handlers call in the middle of their   *)
(* work (start_process, cancel, run_next_process ...) are operators on     *)
(* `ctl', the part of the state they all change; a handler composes them   *)
(* in the order of the code.                                               *)
(***************************************************************************)
EXTENDS Naturals, Sequences, SequencesExt

CONSTANTS
  Process,      \* the processes of all_process: measurements, calibrations, checks
  Hold,         \* the process HOLD, which all_process does not contain
  NoProcess,    \* the NULL of a process pointer
  OnlineProcess,\* those with both online_process and online set
  TimedOnly,    \* of these, the ones that going online only arms: calibrations,
                \* checks, and measurements waiting for their remote signal
  Remote,       \* those a remote signal may start as well
  StartOrder,   \* the others, which it starts, in the order of all_process
  Calibration,  \* those that may stop to wait for the user's next solution
  Range1,       \* the online measurement of stream 1 (control_add_range1)
  Range2,       \* the online measurement of stream 2 (control_add_range2)
  RangeSwitching, \* mbu_is_legal and the setting range-switching
  Task,         \* names for the runs in progress (model-checking bound:
                \* a handler that starts a run needs a free one)
  NoTask,       \* the NULL of CONTROL->cancellable
  MaxWait,      \* model-checking bound on the list wait_process
  NodeResets,   \* whether the CAN bus may report a reset node
  ReadsMayFail  \* whether a read of the stop signal input may fail

AnyProcess == Process \cup {Hold}

ASSUME ProcessAssumption ==
  /\ Hold \notin Process /\ NoProcess \notin AnyProcess
  /\ OnlineProcess \subseteq Process /\ TimedOnly \subseteq OnlineProcess
  /\ Calibration \subseteq Process /\ Remote \subseteq OnlineProcess
  /\ RangeSwitching \in BOOLEAN
  /\ RangeSwitching => /\ {Range1, Range2} \subseteq Process \ Calibration
                       /\ Range1 # Range2

\* The second range is never started on its own while ranges are switched.
Switched(p) == RangeSwitching /\ p = Range2

\* The processes that ultra_control_online starts itself, and those it arms.
StartsOnline == {p \in OnlineProcess \ TimedOnly : ~Switched(p)}
ArmsOnline   == {p \in TimedOnly : ~Switched(p)}

\* all_process has a process once.
ASSUME StartOrderAssumption ==
  /\ StartOrder \in Seq(Process) /\ ToSet(StartOrder) = StartsOnline
  /\ \A i, j \in 1..Len(StartOrder) : StartOrder[i] = StartOrder[j] => i = j

ASSUME TaskAssumption == NoTask \notin Task

ASSUME BoundAssumption ==
  MaxWait \in Nat /\ NodeResets \in BOOLEAN /\ ReadsMayFail \in BOOLEAN

VARIABLES
  ctl,           \* the runs, the wait list and the interval timers (see Ctl)
  errorRetry,    \* error_retry, counted up to RetryLimit only
  switched,      \* range switches in a row
  autostart,     \* the control's autostart property: "online"
  maintenance,   \* the control's maintenance property
  firstAutostart,\* first_autostart
  critical,      \* the security device reports a critical error
  ignoreCritical,\* IGNORE_CRITICAL
  stopSignal,    \* stop_signal, as last read
  polling,       \* a chain of stop signal reads is alive
  busy,          \* the busy property as last published
  booted         \* the 900 ms start-up timer has fired

vars == <<ctl, errorRetry, switched, autostart, maintenance, firstAutostart,
          critical, ignoreCritical, stopSignal, polling, busy, booted>>

RetryLimit == 2  \* error_retry < 2 is the only test made on error_retry
SwitchLimit == 3 \* switched < 3

Ctl ==
  [wait      : Seq(AnyProcess),                 \* wait_process
   runned    : AnyProcess \cup {NoProcess},     \* runned
   run       : [Task -> AnyProcess \cup {NoProcess}],
                                                \* the runs whose callback is due
   cancelled : SUBSET Task,                     \* ... and is to be told so
   cancellable : Task \cup {NoTask},            \* the run CONTROL can cancel
   awaiting  : SUBSET Task,                     \* runs that wait for the user
   asks      : [Process -> Task \cup {NoTask}], \* wait_user_next, and the run
                                                \* process-will-be-next reaches
   online    : [Process -> BOOLEAN],            \* is_online
   timer     : [Process -> {"none", "idle", "armed"}]]
     \* the one-second interval source: absent, with start_time 0, with start_time set

TypeOK ==
  /\ ctl \in Ctl
  /\ errorRetry \in 0..RetryLimit
  /\ switched \in 0..SwitchLimit - 1
  /\ autostart \in BOOLEAN /\ maintenance \in BOOLEAN
  /\ firstAutostart \in BOOLEAN
  /\ critical \in BOOLEAN /\ ignoreCritical \in BOOLEAN
  /\ stopSignal \in BOOLEAN /\ polling \in BOOLEAN
  /\ busy \in BOOLEAN /\ booted \in BOOLEAN

-----------------------------------------------------------------------------
(* What the handlers call.                                                 *)

\* t is a run whose control_process_done has not been called yet.
Pending(c, t) == c.run[t] # NoProcess

\* A pending run that nobody has cancelled: it is what the analyser does.
Live(c, t) == Pending(c, t) /\ t \notin c.cancelled

FreeTask(c) == {t \in Task : ~Pending(c, t)}

CancelRun(c) ==
  [c EXCEPT !.cancelled =
     IF c.cancellable # NoTask /\ Pending(c, c.cancellable)
     THEN @ \cup {c.cancellable} ELSE @]

\* Wrong: releases the cancellable without cancelling it.
CancelReleases(c) == [c EXCEPT !.cancellable = NoTask]

\* ultra_control_cancel
Cancel(c) == [CancelRun(c) EXCEPT !.cancellable = NoTask]

\* mkt_process_object_online: only online processes get an interval timer.
ProcessOnline(c, p) ==
  IF p \in OnlineProcess
  THEN [c EXCEPT !.online[p] = TRUE, !.timer[p] = "armed"]
  ELSE c

\* mkt_process_object_offline
ProcessOffline(c, p) == [c EXCEPT !.online[p] = FALSE, !.timer[p] = "none"]

\* Wrong: the interval sources stay.
AllOfflineKeepsTimers(c) == [c EXCEPT !.online = [p \in Process |-> FALSE]]

AllOffline(c) ==
  [c EXCEPT !.online = [p \in Process |-> FALSE],
            !.timer  = [p \in Process |-> "none"]]

\* process_halt, and the reset of wait_user_next in mkt_process_object_run
Halt(c, p) ==
  IF p \in Process THEN [c EXCEPT !.asks[p] = NoTask] ELSE c

\* Wrong: the earlier run goes on.
StartProcessBeside(c, p) ==
  LET t == CHOOSE t \in FreeTask(c) : TRUE
  IN ProcessOnline(
       [Halt(c, p) EXCEPT !.run[t] = p, !.cancellable = t, !.runned = p], p)

\* ultra_control_start_process: the run that CONTROL could cancel is cancelled
\* and the new one takes its place, whether or not the old one has ended.
StartProcess(c, p) ==
  LET t == CHOOSE t \in FreeTask(c) : TRUE
  IN ProcessOnline(
       [Halt(CancelRun(c), p) EXCEPT !.run[t] = p, !.cancellable = t,
                                     !.runned = p], p)

\* critical_break.  It asks for the number of critical errors, the callback of
\* the security device whether there is one: ultra-level.c:83 sets both at once.
CriticalBreak == critical /\ ~ignoreCritical

\* Wrong: takes the process that was added last.
RunNextNewest(c, open) ==
  IF open /\ c.runned = NoProcess /\ c.wait # <<>>
  THEN StartProcess([c EXCEPT !.wait = Front(@)], Last(c.wait))
  ELSE c

\* run_next_process; open says that neither the stop signal nor a critical
\* error holds the wait list back.
RunNext(c, open) ==
  IF open /\ c.runned = NoProcess /\ c.wait # <<>>
  THEN StartProcess([c EXCEPT !.wait = Tail(@)], Head(c.wait))
  ELSE c

\* ultra_control_add_wait_process, as called from mkt_process_object_start
AddWait(c, p, open) ==
  IF Contains(c.wait, p) THEN c
  ELSE RunNext([c EXCEPT !.wait = Append(@, p)], open)

\* control_switch_range: the other range is stopped, taken offline and taken
\* out of the wait list (its first entry).
LeaveRange(c, p) ==
  [ProcessOffline(Halt(c, p), p) EXCEPT !.wait = RemoveFirst(@, p)]

\* What ultra_control_critical_berak and the offline handler do to the runs.
BreakAll(c) == AllOffline(Cancel([c EXCEPT !.wait = <<>>]))

\* The loops of ultra_control_online: start times are reset, the wait list
\* becomes the processes to start, the timed ones get their timer.  Stream 1
\* comes before stream 2, so that Range2 is marked online after it was left.
\* (can_start, without which a process is taken offline, is never set to FALSE.)
GoOnline(c, open) ==
  LET reset == [c EXCEPT !.timer = [p \in Process |->
                  IF c.timer[p] = "armed" THEN "idle" ELSE c.timer[p]]]
      left  == IF RangeSwitching /\ Range1 \in OnlineProcess
               THEN LeaveRange(reset, Range2) ELSE reset
  IN RunNext(
       [left EXCEPT
          !.wait   = StartOrder,
          !.online = [p \in Process |-> p \in OnlineProcess \/ left.online[p]],
          !.timer  = [p \in Process |->
                        IF p \in ArmsOnline THEN "armed"
                        ELSE left.timer[p]]], open)

\* Wrong: only the online state counts.
BusyWhenOnline(c, auto) ==
  auto /\ (c.runned # NoProcess \/ c.wait # <<>> \/ \E p \in Process : c.online[p])

\* The value all_check_status computes for the busy property.
Busy(c, auto) ==
  \/ c.runned # NoProcess
  \/ auto /\ (c.wait # <<>> \/ \E p \in Process : c.online[p])

-----------------------------------------------------------------------------
(* Starting up                                                             *)

\* autostart is bound to the stored device configuration; everything else
\* starts cleared.
Init ==
  /\ ctl = [wait |-> <<>>, runned |-> NoProcess,
            run |-> [t \in Task |-> NoProcess], cancelled |-> {},
            cancellable |-> NoTask, awaiting |-> {},
            asks |-> [p \in Process |-> NoTask],
            online |-> [p \in Process |-> FALSE],
            timer |-> [p \in Process |-> "none"]]
  /\ errorRetry = 0 /\ switched = 0
  /\ autostart \in BOOLEAN /\ maintenance = FALSE /\ firstAutostart = TRUE
  /\ critical \in BOOLEAN /\ ignoreCritical = FALSE
  /\ stopSignal = FALSE /\ polling = FALSE
  /\ busy = FALSE /\ booted = FALSE

\* Whether run_next_process may take a process off the wait list, in the
\* state the handler leaves behind.
Open == ~stopSignal /\ ~CriticalBreak

\* Every handler below may start one run, which takes a free name.
HasTask == FreeTask(ctl) # {}

\* ultra_control_online, on the runs as the caller left them.  The stop signal
\* is read synchronously; a failed read leaves it FALSE.
Online(c) ==
  /\ autostart' = TRUE /\ firstAutostart' = FALSE /\ maintenance' = FALSE
  /\ polling' = TRUE
  /\ stopSignal' \in BOOLEAN
  /\ ctl' = GoOnline(c, ~stopSignal' /\ ~CriticalBreak)

\* control_waite_main_loop_autostart
Boot ==
  /\ ~booted /\ HasTask
  /\ booted' = TRUE
  /\ IF autostart
     THEN Online(StartProcess(ctl, Hold))
     ELSE /\ ctl' = StartProcess(ctl, Hold)
          /\ UNCHANGED <<autostart, firstAutostart, maintenance, polling, stopSignal>>
  /\ busy' = Busy(ctl', autostart')
  /\ UNCHANGED <<errorRetry, switched, critical, ignoreCritical>>

-----------------------------------------------------------------------------
(* Commands                                                                *)

\* ultra_control_security_online_callback: refused while the published state
\* is busy, and during a critical error except for the very first time.
OnlineCommand ==
  /\ HasTask
  /\ ~busy
  /\ firstAutostart \/ ~CriticalBreak
  /\ Online(ctl)
  /\ busy' = Busy(ctl', TRUE)
  /\ UNCHANGED <<errorRetry, switched, critical, ignoreCritical, booted>>

\* ultra_control_security_offline_callback
OfflineCommand ==
  /\ HasTask
  /\ autostart' = FALSE
  /\ ctl' = StartProcess(BreakAll(ctl), Hold)
  /\ busy' = Busy(ctl', FALSE)
  /\ UNCHANGED <<errorRetry, switched, maintenance, firstAutostart, critical,
                 ignoreCritical, stopSignal, polling, booted>>

\* Wrong: in maintenance the run goes on.
CriticalStopSparesMaintenance ==
  /\ autostart' = FALSE
  /\ ctl' = IF maintenance THEN AllOffline([ctl EXCEPT !.wait = <<>>])
            ELSE StartProcess(BreakAll(ctl), Hold)

\* ultra_control_critical_berak: as offline, but in maintenance the analyser
\* is left where it is.
CriticalStop ==
  /\ autostart' = FALSE
  /\ ctl' = IF maintenance THEN BreakAll(ctl)
            ELSE StartProcess(BreakAll(ctl), Hold)

\* ultra_control_ignore_critical_callback
IgnoreCriticalCommand ==
  /\ HasTask
  /\ ignoreCritical' \in BOOLEAN
  /\ IF critical /\ ~ignoreCritical'
     THEN CriticalStop ELSE UNCHANGED <<ctl, autostart>>
  /\ busy' = Busy(ctl', autostart')
  /\ UNCHANGED <<errorRetry, switched, maintenance, firstAutostart, critical,
                 stopSignal, polling, booted>>

\* The maintenance property is set by the user interface.
MaintenanceOn ==
  /\ ~maintenance /\ maintenance' = TRUE
  /\ UNCHANGED <<ctl, errorRetry, switched, autostart, firstAutostart, critical,
                 ignoreCritical, stopSignal, polling, busy, booted>>

\* handle-start of a process
StartCommand(p) ==
  /\ HasTask /\ Len(ctl.wait) < MaxWait
  /\ maintenance' = FALSE
  /\ ctl' = AddWait(ctl, p, Open)
  /\ busy' = IF Contains(ctl.wait, p) THEN busy ELSE Busy(ctl', autostart)
  /\ UNCHANGED <<errorRetry, switched, autostart, firstAutostart, critical,
                 ignoreCritical, stopSignal, polling, booted>>

\* Wrong: a process that runs is not looked for in the wait list.
BreakCommandRunOnly(p) ==
  /\ ctl' = IF ctl.runned = p THEN Cancel(ctl)
            ELSE [ctl EXCEPT !.wait = RemoveFirst(@, p)]
  /\ UNCHANGED <<errorRetry, switched, autostart, maintenance, firstAutostart,
                 critical, ignoreCritical, stopSignal, polling, busy, booted>>

\* Wrong: the process is halted like one that has ended.
BreakCommandHalts(p) ==
  /\ LET c == Halt([ctl EXCEPT !.wait = RemoveFirst(@, p)], p)
     IN ctl' = IF c.runned = p THEN Cancel(c) ELSE c
  /\ UNCHANGED <<errorRetry, switched, autostart, maintenance, firstAutostart,
                 critical, ignoreCritical, stopSignal, polling, busy, booted>>

\* handle-remove of a process: mkt_process_object_break.  Nothing publishes
\* the busy state afterwards.
BreakCommand(p) ==
  /\ LET c == [ctl EXCEPT !.wait = RemoveFirst(@, p)]
     IN ctl' = IF c.runned = p THEN Cancel(c) ELSE c
  /\ UNCHANGED <<errorRetry, switched, autostart, maintenance, firstAutostart,
                 critical, ignoreCritical, stopSignal, polling, busy, booted>>

\* handle-user-next of a process whose wait_user_next is set: the run that
\* asked goes on (or, when it was cancelled, ends).
UserNext(p) ==
  /\ ctl.asks[p] # NoTask
  /\ ctl' = [ctl EXCEPT !.awaiting = @ \ {ctl.asks[p]}, !.asks[p] = NoTask]
  /\ UNCHANGED <<errorRetry, switched, autostart, maintenance, firstAutostart,
                 critical, ignoreCritical, stopSignal, polling, busy, booted>>

-----------------------------------------------------------------------------
(* Events                                                                  *)

\* ultra_control_security_critical_error_callback
CriticalChange ==
  /\ HasTask
  /\ critical' = ~critical
  /\ IF critical' /\ ~ignoreCritical
     THEN CriticalStop
     ELSE /\ ctl' = RunNext(ctl, ~stopSignal)
          /\ UNCHANGED autostart
  /\ busy' = Busy(ctl', autostart')
  /\ UNCHANGED <<errorRetry, switched, maintenance, firstAutostart,
                 ignoreCritical, stopSignal, polling, booted>>

\* ultra_control_node_reseted_callback: the interrupted process goes back to
\* the head of the wait list, whatever is in the list already.
NodeReset ==
  /\ NodeResets /\ HasTask /\ Len(ctl.wait) < MaxWait
  /\ ctl' = StartProcess(
              Cancel([ctl EXCEPT !.wait =
                IF ctl.runned = NoProcess THEN @ ELSE <<ctl.runned>> \o @]), Hold)
  /\ busy' = Busy(ctl', autostart)
  /\ UNCHANGED <<errorRetry, switched, autostart, maintenance, firstAutostart,
                 critical, ignoreCritical, stopSignal, polling, booted>>

\* mkt_process_object_online_callback when the start time has passed or, for a
\* remote-controlled process, its signal has come, which needs no start time
\* (remote_mess is 0 again once a run of the process has ended): the source is spent.
TimerFires(p) ==
  /\ HasTask
  /\ ctl.online[p]
  /\ \/ ctl.timer[p] = "armed"
     \/ p \in Remote /\ ctl.timer[p] = "idle"
  /\ maintenance' = FALSE
  /\ ctl' = AddWait([ctl EXCEPT !.timer[p] = "none"], p, Open)
  /\ busy' = Busy(ctl', autostart)
  /\ UNCHANGED <<errorRetry, switched, autostart, firstAutostart, critical,
                 ignoreCritical, stopSignal, polling, booted>>

\* notify::interval sets a start time that was still 0.
IntervalChanged(p) ==
  /\ ctl.timer[p] = "idle"
  /\ ctl' = [ctl EXCEPT !.timer[p] = "armed"]
  /\ busy' = Busy(ctl', autostart)
  /\ UNCHANGED <<errorRetry, switched, autostart, maintenance, firstAutostart,
                 critical, ignoreCritical, stopSignal, polling, booted>>

\* Wrong: decides on the signal as it was before the read.
StopSignalChangedStale ==
  /\ HasTask /\ polling
  /\ stopSignal' = ~stopSignal
  /\ ctl' = RunNext(ctl, Open)
  /\ busy' = Busy(ctl', autostart)
  /\ UNCHANGED <<errorRetry, switched, autostart, maintenance, firstAutostart,
                 critical, ignoreCritical, polling, booted>>

\* check_stop_signal_async_callback: the input was read, and has changed.
StopSignalChanged ==
  /\ HasTask /\ polling
  /\ stopSignal' = ~stopSignal
  /\ ctl' = RunNext(ctl, ~stopSignal' /\ ~CriticalBreak)
  /\ busy' = Busy(ctl', autostart)
  /\ UNCHANGED <<errorRetry, switched, autostart, maintenance, firstAutostart,
                 critical, ignoreCritical, polling, booted>>

\* Wrong: only reads the input again.
PollOnlyReads ==
  /\ HasTask /\ polling
  /\ busy' = Busy(ctl, autostart)
  /\ UNCHANGED <<ctl, errorRetry, switched, autostart, maintenance,
                 firstAutostart, critical, ignoreCritical, stopSignal, polling, booted>>

\* check_stop_signal_callback: about every tenth call tries the wait list
\* again.
PollRetry ==
  /\ HasTask /\ polling
  /\ ctl' = RunNext(ctl, Open)
  /\ busy' = Busy(ctl', autostart)
  /\ UNCHANGED <<errorRetry, switched, autostart, maintenance, firstAutostart,
                 critical, ignoreCritical, stopSignal, polling, booted>>

\* A read fails: the last chain of reads is not continued.
StopSignalReadFails ==
  /\ ReadsMayFail /\ polling
  /\ polling' = FALSE
  /\ UNCHANGED <<ctl, errorRetry, switched, autostart, maintenance,
                 firstAutostart, critical, ignoreCritical, stopSignal, busy, booted>>

-----------------------------------------------------------------------------
(* Runs                                                                    *)

\* A calibration by hand has measured a solution and needs the next one.
AwaitUser(t) ==
  /\ Live(ctl, t) /\ t \notin ctl.awaiting
  /\ ctl.run[t] \in Calibration /\ ~ctl.online[ctl.run[t]]
  /\ ctl' = [ctl EXCEPT !.awaiting = @ \cup {t}, !.asks[ctl.run[t]] = t]
  /\ UNCHANGED <<errorRetry, switched, autostart, maintenance, firstAutostart,
                 critical, ignoreCritical, stopSignal, polling, busy, booted>>

\* The state control_process_done starts from: CONTROL forgets what runs,
\* whichever run it was that ended, and the process is halted.
Ended(t) ==
  Halt([ctl EXCEPT !.runned = NoProcess, !.run[t] = NoProcess,
                   !.cancelled = @ \ {t}], ctl.run[t])

\* Wrong: HOLD is started after every failure.
RunFailsForEver(t) ==
  /\ ctl' = StartProcess(Ended(t), Hold)
  /\ errorRetry' = IF errorRetry < RetryLimit THEN errorRetry + 1 ELSE errorRetry
  /\ UNCHANGED switched

\* control_process_done, the run failed or was cancelled: HOLD is started
\* again, at most RetryLimit times in a row.
RunFails(t) ==
  /\ ctl' = IF errorRetry < RetryLimit THEN StartProcess(Ended(t), Hold)
            ELSE Ended(t)
  /\ errorRetry' = IF errorRetry < RetryLimit THEN errorRetry + 1 ELSE errorRetry
  /\ UNCHANGED switched

\* control_process_done, the run succeeded.  inRange is the answer of
\* measurement_process_check_range for a measurement of one of the ranges:
\* a value out of range makes the other range measure the same sample at once.
RunSucceeds(t, inRange) ==
  LET p == ctl.run[t]
      other == IF p = Range1 THEN Range2 ELSE Range1
      switch == /\ RangeSwitching /\ p \in {Range1, Range2} /\ ~inRange
                /\ p = Range2 => switched + 1 < SwitchLimit
  IN /\ errorRetry' = 0
     /\ ctl' = IF switch THEN StartProcess(LeaveRange(Ended(t), p), other)
               ELSE RunNext(Ended(t), Open)
     /\ switched' = IF ~RangeSwitching \/ p \notin {Range1, Range2} THEN switched
                    ELSE IF ~switch THEN 0
                    ELSE IF p = Range2 THEN switched + 1 ELSE switched

ProcessDone(t) ==
  /\ Pending(ctl, t) /\ t \notin ctl.awaiting
  /\ \/ RunFails(t)
     \/ t \notin ctl.cancelled /\ \E inRange \in BOOLEAN : RunSucceeds(t, inRange)
  /\ busy' = Busy(ctl', autostart)
  /\ UNCHANGED <<autostart, maintenance, firstAutostart, critical,
                 ignoreCritical, stopSignal, polling, booted>>

Next ==
  \/ Boot
  \/ OnlineCommand \/ OfflineCommand \/ IgnoreCriticalCommand \/ MaintenanceOn
  \/ \E p \in Process :
       StartCommand(p) \/ BreakCommand(p) \/ UserNext(p)
         \/ TimerFires(p) \/ IntervalChanged(p)
  \/ CriticalChange \/ NodeReset
  \/ StopSignalChanged \/ PollRetry \/ StopSignalReadFails
  \/ \E t \in Task : AwaitUser(t) \/ ProcessDone(t)

Spec == Init /\ [][Next]_vars

\* A run ends, by itself or because it was cancelled, unless it waits for the
\* user; the stop signal keeps being polled while its reads succeed.  Nothing
\* is assumed of users, errors, resets and timers.
Fairness ==
  /\ \A t \in Task : WF_vars(ProcessDone(t))
  /\ WF_vars(PollRetry)

LiveSpec == Spec /\ Fairness

-----------------------------------------------------------------------------
(* What the scheduler promises.                                            *)

\* At most one run is in progress that has not been told to stop, and it is
\* the one the next command can still stop: ultra_control_start_process never
\* leaves an earlier run behind uncancelled, and no handler drops
\* CONTROL->cancellable without cancelling it.
LiveRunIsControlled ==
  \A t \in Task : Live(ctl, t) => ctl.cancellable = t

\* Runs are exclusive (ExclusiveRun): the run that is not cancelled is the one
\* CONTROL can cancel, every start supersedes it, and a cancelled run stays
\* cancelled until control_process_done is called for it.
LiveTask == IF ctl.cancellable # NoTask /\ Live(ctl, ctl.cancellable)
            THEN ctl.cancellable ELSE NoTask
DrainingTasks == {t \in ctl.cancelled : Pending(ctl, t)}

Runs == INSTANCE ExclusiveRun WITH live <- LiveTask, draining <- DrainingTasks

RunsAreExclusive == Runs!Spec

\* While a critical error stands that the user has not chosen to ignore, no
\* measurement or calibration works on the analyser: whichever of the error,
\* the ignore command, the end of a run, a timer and a start command comes
\* last, only HOLD may be live.
CriticalStopsMeasuring ==
  CriticalBreak => \A t \in Task : Live(ctl, t) => ctl.run[t] \notin Process

\* CONTROL->runned, which keeps every other process waiting, can be cleared: it
\* names a process with a run that works towards its callback or, when that run
\* waits for the user (calibration-process.c:268), is still the one that the
\* next command reaches - also after it was cancelled, which does not end it.
RunnedCanEnd ==
  ctl.runned # NoProcess =>
    \E t \in Task :
      /\ ctl.run[t] = ctl.runned
      /\ t \in ctl.awaiting => ctl.asks[ctl.runned] = t

\* The published state is busy whenever a process holds the analyser: the
\* online command, which empties the wait list, relies on it.
RunningIsPublished == ctl.runned # NoProcess => busy

\* A process that was taken offline (command, critical error, range switch)
\* has no interval source left that could start it again.
OfflineHasNoTimer ==
  \A p \in Process : ~ctl.online[p] => ctl.timer[p] = "none"

\* The remote stop signal and a critical error hold back every process, from
\* whichever handler it would have been started.  (The end of a run, which clears
\* CONTROL->runned, may start the same process again.)
HeldBack ==
  [][ /\ ctl'.runned \in Process
      /\ ctl'.runned # ctl.runned \/ \E t \in Task : ProcessDone(t)
      => ~stopSignal' /\ ~CriticalBreak' ]_vars

\* A process the user has removed is not waiting any more, and when it was
\* CONTROL->runned nothing is live any more.  (After a node reset it may be
\* in the wait list twice, and only one entry is removed.)
RemovedIsGone ==
  [][ \A p \in Process : BreakCommand(p) =>
        /\ ~Contains(ctl'.wait, p)
        /\ ctl.runned = p => \A t \in Task : ~Live(ctl', t) ]_vars

\* p stands before q in a list.
Before(s, p, q) == \E i, j \in 1..Len(s) : i < j /\ s[i] = p /\ s[j] = q

\* Nobody overtakes: while p waits before q, no handler takes q off the list to
\* start it, and q stays behind p for as long as both wait (ultra-control-process.c:251,
\* 591).  Only going online, which writes a new list, may, and the
\* other range may start to measure the same sample again: its own turn stays.
\* (After a node reset the interrupted process heads the list, perhaps a second time.)
NobodyOvertakes ==
  [][ \A p, q \in Process :
        /\ Before(ctl.wait, p, q) /\ Contains(ctl'.wait, p)
        /\ ~OnlineCommand /\ ~Boot
        => /\ ctl'.runned = q /\ ctl.runned # q =>
                RangeSwitching /\ q \in {Range1, Range2} /\ Contains(ctl'.wait, q)
           /\ Contains(ctl'.wait, q) => Before(ctl'.wait, p, q) ]_vars

\* While the stop signal is polled, a waiting process gets its turn (or is
\* taken off the list) unless the stop signal or a critical error holds it
\* back, even after runs have failed RetryLimit times in a row, when
\* control_process_done itself starts nothing any more.
WaitingIsServed ==
  \A p \in Process :
    Contains(ctl.wait, p) /\ polling ~>
      ~Contains(ctl.wait, p) \/ stopSignal \/ CriticalBreak

\* HOLD gives the analyser back: a HOLD that keeps failing, or that a late
\* callback keeps restarting, is not started for ever.
HoldEnds == ctl.runned = Hold ~> ctl.runned # Hold

\* While the published state is idle - the status is "Offline" or empty, the
\* green button is on and the online command is accepted - no run works on
\* the analyser.
IdleIsIdle == ~busy => \A t \in Task : ~Live(ctl, t)

\* all_check_status shows "Wartet auf" (waiting for) a process while nothing
\* runs, nothing waits and some process is online; then some process should
\* be due to start at its start time.
WaitedForIsScheduled ==
  ( /\ ctl.runned = NoProcess /\ ctl.wait = <<>> /\ autostart
    /\ \E p \in Process : ctl.online[p] )
    => \E p \in Process : ctl.timer[p] = "armed"

=============================================================================
