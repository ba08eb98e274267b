---------------------------- MODULE MeasurementRun ----------------------------
(***************************************************************************)
(* One online measurement process and the HOLD process of the measurement  *)
(* service, with the tasks they run (PrepareTask, AnalyzeTask), the early  *)
(* preparation of the sample, and the integration of the channels.         *)
(*                                                                         *)
(* A run is a chain of timers and calls of sequences.  The scheduler       *)
(* (ControlProcess) supersedes a run by cancelling it; whatever it waits   *)
(* for then comes back as cancelled, and its end - the finish function of  *)
(* the process - cleans up what a newer run may be using already.          *)
(*                                                                         *)
(* Taken from the sequence service (SequenceService): a sequence ends,     *)
(* well or not; a new one ends the one before; a cancelled call does not.  *)
(* The settings of the stream (dilution, pump, remote control) are read    *)
(* when they are needed, so each reading is free.  The lamps of the        *)
(* channels, calculated channels, offline measurements and rinsing with    *)
(* the process water (PSAnalyseTask) are left out.                         *)
(***************************************************************************)
EXTENDS Statistic, Sequences

CONSTANTS
  TC, TIC,     \* the channels measured first and second, if any
  Peak,        \* what an integration may result in
  Intercept, Factor, \* of the calibration (the slope is in the factor)
  Jump,        \* whether results near the last one are taken after one replicate
  Polls,       \* polls of the integration before the time is up, at most
  Late         \* superseded measurements that have not returned, at most
               \* (model-checking bound)

ASSUME MeasurementAssumption ==
  /\ TC \cap TIC = {} /\ TC \cup TIC # {}
  /\ Peak \subseteq Int /\ Intercept \in Int /\ Factor \in Int
  /\ Jump \in BOOLEAN /\ Polls \in Nat /\ Late \in Nat

Channel == TC \cup TIC

\* What a run waits for: the answer to a call of a sequence, or a timer.
Calls == [rinsing     |-> "rinsing",  diluting  |-> "dilution",
          rediluting  |-> "dilution", sampling  |-> "sampling",
          injecting   |-> "injection", afterRinsing |-> "rinsing",
          axishold    |-> "axishold",
          holding     |-> "allhold",  homing    |-> "allhold",
          holdRinsing |-> "rinsing"]
Preparing == {"rinsing", "diluting"}
Analysing == {"stabilising", "rediluting", "sampling", "justifying", "injecting",
              "afterRinsing", "axishold", "integrating"}
Concluding == {"emptying", "pausing"}
Measuring == {"filling", "stripping"} \cup Preparing \cup Analysing \cup Concluding
Holding   == {"holding", "homing", "holdRinsing"}

VARIABLES
  step,         \* what the run at work waits for; "free": no run is at work
  late,         \* how many superseded measurements have not returned yet
  seq,          \* the sequence at work, or the answer on its way to the run
                \* that waits for it ("ok", "error"), or "none"
  part,         \* the channels of the analysis in progress: "TC" or "TIC"
  polls,        \* how often it has asked whether the integration is over
  reinit, needRinsing, \* of the HOLD process (its need_hold is always set)
  dirty,        \* history: sample was taken since the last rinsing or node reset
  prep,         \* whether the sample is being filled in early
  latePrep,     \* the timer of a cancelled early filling is still to come back
  prepareTimer, \* whether prepare_timer runs
  streamPump, pump6,  \* whether the pumps are on
  replicate,    \* current_replicate
  recorded,     \* whether the process has its MktProcess record
  values,       \* the replicates of the measurement in progress in the data base
  done, failed, transmitted, \* statistic_done, measure_error, transmit_done
  stored,       \* history: the result of the measurement in progress is, too
  sensor        \* the integration object of each channel

runVars   == <<step, late>>
taskVars  == <<part, polls>>
holdVars  == <<reinit, needRinsing>>
prepVars  == <<prep, latePrep, prepareTimer>>
pumpVars  == <<streamPump, pump6>>
dataVars  == <<replicate, values, stored, done, failed>>
flagVars  == <<recorded, transmitted>>
vars == <<runVars, seq, taskVars, holdVars, dirty, prepVars, pumpVars, dataVars,
          flagVars, sensor>>

Still == [measure |-> FALSE, justifying |-> FALSE, integrating |-> FALSE, data |-> FALSE]

No == [c \in Channel |-> FALSE]

Init ==
  /\ step = "free" /\ late = 0 /\ seq = "none" /\ part = "TC" /\ polls = 0
  /\ reinit = FALSE /\ needRinsing = FALSE /\ dirty = FALSE
  /\ prep = FALSE /\ latePrep = FALSE /\ prepareTimer = FALSE
  /\ streamPump = FALSE /\ pump6 = FALSE
  /\ replicate = 1 /\ recorded = FALSE
  /\ values = [c \in Channel |-> <<>>] /\ stored = No
  /\ done = No /\ failed = No /\ transmitted = No
  /\ sensor = [c \in Channel |-> Still]

-----------------------------------------------------------------------------
(* What the handlers are made of                                           *)

\* ultra_integration_object_analyse_break on the channels of the analysis; the
\* data go to the history.
Stopped(channels) == [c \in Channel |-> IF c \in channels THEN Still ELSE sensor[c]]

Measured == IF part = "TC" THEN TC ELSE TIC

\* The measurement in progress is over: what the next one sets before anything
\* reads it is forgotten.
Forget ==
  /\ part' = "TC" /\ polls' = 0 /\ replicate' = 1
  /\ values' = [c \in Channel |-> <<>>] /\ stored' = No
  /\ done' = No /\ failed' = No

\* ultra_control_cancel: the handlers of the task in progress run at once - they
\* stop its sensors, or the pump of the stream (PumpAfterCancel) -, the callback
\* of the run later (Aborted).  That of HOLD changes nothing more.
Supersede ==
  /\ IF step \in Measuring THEN late < Late /\ late' = late + 1 ELSE UNCHANGED late
  /\ sensor' = IF step \in Analysing THEN Stopped(Measured) ELSE sensor
  /\ Forget

PumpAfterCancel == streamPump /\ step \notin Preparing

\* An answer that is on its way to a cancelled run is not heard.
Unheard == IF seq \in {"ok", "error"} THEN "none" ELSE seq

\* The run calls a sequence, which ends the one at work.
Call(next) == step' = next /\ seq' = Calls[next]

\* control_need_rinsing, by the runs that are about to take sample (or rinse
\* with it).
NeedRinsing(takes) ==
  /\ needRinsing' = TRUE /\ dirty' = (dirty \/ takes)
  /\ UNCHANGED reinit

\* The early filling is cancelled and forgotten.
PrepCancelled == prep' = FALSE /\ latePrep' = (latePrep \/ prep)

\* measurement_process_finish and process_halt, when a measurement has returned.
Finish(wasCancelled) ==
  /\ streamPump' = FALSE /\ pump6' = FALSE
  /\ recorded' = FALSE /\ UNCHANGED transmitted
  /\ IF wasCancelled THEN PrepCancelled /\ prepareTimer' = FALSE
     ELSE UNCHANGED prepVars

\* measurement_run_analyse, analyze_TC_task_done: the analysis of one part.
Analyse(which) == step' = "stabilising" /\ part' = which /\ polls' = 0

FirstPart == IF TC # {} THEN "TC" ELSE "TIC"

-----------------------------------------------------------------------------
(* Starts                                                                  *)

\* measurement_process_run: the sample is pumped unless it is there already.
StartMeasurement ==
  /\ Supersede
  /\ step' = "filling" /\ seq' = Unheard
  /\ PrepCancelled /\ prepareTimer' = TRUE
  /\ streamPump' \in {PumpAfterCancel, TRUE}
  /\ recorded' = TRUE
  /\ UNCHANGED <<holdVars, dirty, pump6, transmitted>>

\* ultimate_process_hold_run.
HoldRun(reset) ==
  /\ Supersede
  /\ Call(IF needRinsing /\ ~reinit /\ ~reset THEN "homing" ELSE "holding")
  /\ streamPump' = PumpAfterCancel
  /\ UNCHANGED <<prepVars, pump6, flagVars>>

StartHold == HoldRun(FALSE) /\ UNCHANGED <<holdVars, dirty>>

\* ultra_control_node_reseted_callback: HOLD starts, and the rinsing is forgotten.
NodeReset ==
  /\ HoldRun(TRUE)
  /\ reinit' = TRUE /\ needRinsing' = FALSE /\ dirty' = FALSE

\* A stop, a critical error or another process: the run ends without another of
\* these two.
Cancel ==
  /\ step # "free"
  /\ Supersede
  /\ step' = "free" /\ seq' = Unheard /\ streamPump' = PumpAfterCancel
  /\ UNCHANGED <<holdVars, dirty, prepVars, pump6, flagVars>>

-----------------------------------------------------------------------------
(* The early preparation                                                   *)

\* measurement_process_interval_triger, once a second: a filling that was cancelled
\* before has returned.  The stream may need no sample.
IntervalTrigger ==
  /\ ~prepareTimer /\ ~latePrep
  /\ prep' = TRUE /\ latePrep' = prep /\ prepareTimer' = TRUE
  /\ streamPump' \in {streamPump, TRUE}
  /\ UNCHANGED <<runVars, seq, taskVars, holdVars, dirty, pump6, dataVars, flagVars,
                 sensor>>

\* Wrong: looks whether it was cancelled before it stops the pump.
FilledUnlessCancelled ==
  \/ prep /\ prep' = FALSE /\ streamPump' = FALSE /\ prepareTimer' = TRUE /\ UNCHANGED latePrep
  \/ latePrep /\ latePrep' = FALSE /\ UNCHANGED <<prep, streamPump, prepareTimer>>

\* waitSamplingPrepare_callback, of this filling or of a cancelled one.  (The
\* timer of the stripping that follows does nothing anything depends on.)
Filled ==
  /\ streamPump' = FALSE
  /\ \/ prep /\ prep' = FALSE /\ prepareTimer' = TRUE /\ UNCHANGED latePrep
     \/ latePrep /\ latePrep' = FALSE /\ UNCHANGED <<prep, prepareTimer>>

PrepFilled ==
  /\ Filled
  /\ UNCHANGED <<runVars, seq, taskVars, holdVars, dirty, pump6, dataVars, flagVars,
                 sensor>>

\* measurement_process_online and measurement_process_offline.
Online ==
  /\ prep /\ PrepCancelled
  /\ UNCHANGED <<runVars, seq, taskVars, holdVars, dirty, prepareTimer, pumpVars,
                 dataVars, flagVars, sensor>>

Offline ==
  /\ streamPump' = FALSE /\ pump6' = FALSE /\ prepareTimer' = FALSE
  /\ UNCHANGED <<runVars, seq, taskVars, holdVars, dirty, prep, latePrep, dataVars,
                 flagVars, sensor>>

-----------------------------------------------------------------------------
(* The sequence service, and the callbacks of the run at work.  A cancelled *)
(* timer or call comes back within milliseconds, so only a timer that is    *)
(* set to no time at all can be sooner.                                     *)

\* The sequence at work ends; without a run that waits for it, unnoticed.
SequenceEnds ==
  /\ seq \notin {"none", "ok", "error"}
  /\ \E answer \in {"ok", "error"} :
       /\ seq' = IF step \in DOMAIN Calls THEN answer ELSE "none"
       /\ dirty' = (dirty /\ ~(seq = "rinsing" /\ answer = "ok"))
  /\ UNCHANGED <<runVars, taskVars, holdVars, prepVars, pumpVars, dataVars, flagVars,
                 sensor>>

\* A superseded measurement comes back: all its callbacks return the error.
Aborted ==
  /\ late > 0 /\ late' = late - 1
  /\ Finish(TRUE)
  /\ UNCHANGED <<step, seq, taskVars, holdVars, dirty, dataVars, sensor>>

Answered(at) == step = at /\ late = 0 /\ seq = "ok"
TimeIsUp(at) == step = at /\ late = 0

\* Any call that fails fails the run.  (A call whose D-Bus timeout is over fails it
\* too, while its sequence goes on: as after Cancel, but with an error.)
CallFailed ==
  /\ late = 0 /\ seq = "error"
  /\ step' = "free" /\ seq' = "none"
  /\ IF step \in Holding THEN UNCHANGED <<pumpVars, flagVars, prepVars>>
     ELSE Finish(FALSE)
  /\ sensor' = IF step \in Analysing THEN Stopped(Measured) ELSE sensor
  /\ Forget
  /\ UNCHANGED <<late, holdVars, dirty>>

\* HOLD ------------------------------------------------------------------------

\* Wrong: need_rinsing is cleared when the rinsing starts.
HomedAndForgets ==
  /\ Answered("homing")
  /\ Call("holdRinsing") /\ needRinsing' = FALSE
  /\ UNCHANGED <<late, taskVars, reinit, dirty, prepVars, pumpVars, dataVars, flagVars,
                 sensor>>

\* ultra_control_process_HOLDRINSING_POSITION_AUTOSTART.
Homed ==
  /\ Answered("homing")
  /\ Call("holdRinsing")
  /\ UNCHANGED <<late, taskVars, holdVars, dirty, prepVars, pumpVars, dataVars, flagVars,
                 sensor>>

\* hold_task_RINSING_DONE.
HoldRinsed ==
  /\ Answered("holdRinsing")
  /\ Call("holding") /\ needRinsing' = FALSE
  /\ UNCHANGED <<late, taskVars, reinit, dirty, prepVars, pumpVars, dataVars, flagVars,
                 sensor>>

\* ultra_control_process_HOLD_POSITION_AUTOSTART.
Held ==
  /\ Answered("holding")
  /\ step' = "free" /\ seq' = "none" /\ reinit' = FALSE
  /\ UNCHANGED <<late, taskVars, needRinsing, dirty, prepVars, pumpVars, dataVars,
                 flagVars, sensor>>

\* The preparation of a measurement --------------------------------------------

\* waitSampling_callback; both timers may be set to no time.
FillingOver ==
  /\ step = "filling" /\ step' = "stripping"
  /\ streamPump' = FALSE /\ prepareTimer' = TRUE
  /\ UNCHANGED <<late, seq, taskVars, holdVars, dirty, prep, latePrep, pump6, dataVars,
                 flagVars, sensor>>

\* waitStripping_callback, prepare_task_PRE_RINSING.
StrippingOver ==
  /\ step = "stripping"
  /\ Call("rinsing") /\ NeedRinsing(FALSE)
  /\ UNCHANGED <<late, taskVars, prepVars, pumpVars, dataVars, flagVars, sensor>>

\* prepare_task_RINSING_DONE, prepare_task_DILUTION.
Dilute ==
  /\ Answered("rinsing")
  /\ Call("diluting") /\ NeedRinsing(TRUE)
  /\ UNCHANGED <<late, taskVars, prepVars, pumpVars, dataVars, flagVars, sensor>>

\* Wrong: transmit_done is left from the measurement before.
NextKeepsTransmitted ==
  /\ values' = [c \in Channel |-> <<>>] /\ stored' = No
  /\ done' = No /\ failed' = No /\ UNCHANGED transmitted

\* ultimate_channel_next_measurement: a new trigger, under which nothing is
\* stored yet.
NextMeasurement ==
  /\ values' = [c \in Channel |-> <<>>] /\ stored' = No
  /\ done' = No /\ failed' = No /\ transmitted' = No

\* prepare_task_finish stops the pump of the stream; measurement_prepare_task_done.
Prepared ==
  /\ Answered("rinsing") \/ Answered("diluting")
  /\ seq' = "none" /\ streamPump' = FALSE
  /\ NextMeasurement /\ Analyse(FirstPart)
  /\ UNCHANGED <<late, holdVars, dirty, prepVars, pump6, replicate, recorded, sensor>>

\* The analysis ----------------------------------------------------------------

\* ANALYSE_stabilization_done, analyze_task_DILUTION_DONE, ANALYSE_task_run_SAMPLING.
TakeSample ==
  /\ \/ TimeIsUp("stabilising") /\ (Call("rediluting") \/ Call("sampling"))
     \/ Answered("rediluting") /\ Call("sampling")
  /\ NeedRinsing(TRUE)
  /\ UNCHANGED <<late, taskVars, prepVars, pumpVars, dataVars, flagVars, sensor>>

\* ultra_integration_object_analyze and justifying_run.
Justifying == [Still EXCEPT !.measure = TRUE, !.justifying = TRUE]

\* analyze_task_SAMPLING_DONE: the prepared sample is used up, when one is
\* enough; ANALYSE_ultra_start, ANALYSE_ultra_run_JUSTIFICATION.
SampleTaken ==
  /\ Answered("sampling")
  /\ step' = "justifying" /\ seq' = "none"
  /\ prepareTimer' = (prepareTimer /\ ~(Replicates = 1 /\ (TIC = {} \/ part = "TIC")))
  /\ sensor' = [c \in Channel |-> IF c \in Measured THEN Justifying ELSE sensor[c]]
  /\ UNCHANGED <<late, taskVars, holdVars, dirty, prep, latePrep, pumpVars, dataVars,
                 flagVars>>

\* A signal is stored; the integration may end with it.
Heard(s, over) ==
  [s EXCEPT !.data = TRUE, !.integrating = s.integrating /\ (over => s.justifying)]

\* ultra_integration_set_signal_value, when a signal comes.  A sensor may
\* also be silent.
Signal(c) ==
  /\ sensor[c].measure
  /\ \E over \in BOOLEAN :
       sensor' = [sensor EXCEPT ![c] = Heard(sensor[c], over)]
  /\ UNCHANGED <<runVars, seq, taskVars, holdVars, dirty, prepVars, pumpVars, dataVars,
                 flagVars>>

\* ultra_integration_calculate_last_zerro: without data there is no zero, and the
\* object goes on justifying.
Zeroed(s) == [s EXCEPT !.justifying = ~s.data]

\* ANALYSE_justification_done: a channel without data has failed.
Justified ==
  /\ TimeIsUp("justifying")
  /\ Call("injecting")
  /\ sensor' = [c \in Channel |-> IF c \in Measured THEN Zeroed(sensor[c]) ELSE sensor[c]]
  /\ failed' = [c \in Channel |-> IF c \in Measured THEN ~sensor[c].data ELSE failed[c]]
  /\ UNCHANGED <<late, taskVars, holdVars, dirty, prepVars, pumpVars, replicate, values,
                 stored, done, flagVars>>

\* ultra_integration_object_integrating_run: the data there are begin the list.
Started(s) == [s EXCEPT !.integrating = s.data, !.data = TRUE]

\* ANALYSE_INJECTION_DONE; then ANALYSE_task_AFTER_RINSING.
Injected ==
  /\ Answered("injecting")
  /\ Call("afterRinsing")
  /\ sensor' = [c \in Channel |-> IF c \in Measured THEN Started(sensor[c]) ELSE sensor[c]]
  /\ UNCHANGED <<late, taskVars, holdVars, dirty, prepVars, pumpVars, dataVars, flagVars>>

\* ANALYSE_task_AFTER_RINSING_DONE: control_was_rinsed.
AfterRinsed ==
  /\ Answered("afterRinsing")
  /\ Call("axishold") /\ needRinsing' = FALSE
  /\ UNCHANGED <<late, taskVars, reinit, dirty, prepVars, pumpVars, dataVars, flagVars,
                 sensor>>

\* ANALYSE_task_AFTER_HOLD_DONE.
AxisHeld ==
  /\ Answered("axishold")
  /\ step' = "integrating" /\ seq' = "none"
  /\ UNCHANGED <<late, taskVars, holdVars, dirty, prepVars, pumpVars, dataVars, flagVars,
                 sensor>>

Integrating == \E c \in Measured : sensor[c].measure /\ sensor[c].integrating

\* Wrong: the time is never looked at.
PollsForEver ==
  /\ TimeIsUp("integrating") /\ Integrating
  /\ polls < Polls /\ polls' = polls + 1
  /\ UNCHANGED <<runVars, seq, part, holdVars, dirty, prepVars, pumpVars, dataVars,
                 flagVars, sensor>>

\* ANALYSE_wait_check_callback while a channel integrates: the next poll in two
\* seconds, or the time for the analysis is up.
Poll ==
  /\ TimeIsUp("integrating") /\ Integrating
  /\ \/ /\ polls < Polls /\ polls' = polls + 1
        /\ UNCHANGED <<step, part, prepVars, pumpVars, dataVars, flagVars, sensor>>
     \/ step' = "free" /\ Finish(FALSE) /\ Forget /\ sensor' = Stopped(Measured)
  /\ UNCHANGED <<late, seq, holdVars, dirty>>

Integrated == TimeIsUp("integrating") /\ ~Integrating

\* ANALYSE_wait_check_callback and analyze_TC_task_done, when TIC is to follow.
TCAnalysed ==
  /\ Integrated /\ part = "TC" /\ TIC # {}
  /\ Analyse("TIC")
  /\ sensor' = Stopped(Measured)
  /\ UNCHANGED <<late, seq, holdVars, dirty, prepVars, pumpVars, dataVars, flagVars>>

\* The replicates --------------------------------------------------------------

Concentration(i) == Factor * (i - Intercept)

\* What ultra_channel_object_transmit_M_replicate may store: nothing without a
\* record; and 0 is the integral of a channel that never integrated.
Replicate(c) ==
  IF ~recorded THEN {values[c]}
  ELSE {Append(values[c], Concentration(i)) : i \in IF failed[c] THEN {0} ELSE Peak}

\* mkt_process_calculate_measurement_statistic: whether the values are enough; of
\* the first ones, whether the last result is near (if there is one yet).
Decided(c, near) ==
  \/ done[c]
  \/ /\ values'[c] # <<>>
     /\ IF Jump /\ replicate = 1 THEN c \in near ELSE Enough(values'[c])

\* measurement_process_analyse_done: the values of the last part are in.
AnalyseDone ==
  /\ Integrated /\ (part = "TIC" \/ TIC = {})
  /\ sensor' = Stopped(Measured)
  /\ values' \in {v \in [Channel -> UNION {Replicate(c) : c \in Channel}] :
                   \A c \in Channel : v[c] \in Replicate(c)}
  /\ failed' = [c \in Channel |-> failed[c] \/ values'[c] = <<>>]
  /\ \E near \in IF Jump /\ replicate = 1 THEN SUBSET Channel ELSE {{}} :
       done' = [c \in Channel |-> Decided(c, near)]
  /\ UNCHANGED <<late, seq, holdVars, dirty, prep, latePrep, streamPump, recorded>>

\* Wrong: current_replicate is not counted.
ReplicateNotCounted ==
  /\ AnalyseDone
  /\ \E c \in Channel : ~done'[c] /\ ~failed'[c]
  /\ Analyse(FirstPart)
  /\ UNCHANGED <<replicate, prepareTimer, pump6, transmitted, stored>>

\* A channel is not done: another replicate.
AnotherReplicate ==
  /\ AnalyseDone
  /\ \E c \in Channel : ~done'[c] /\ ~failed'[c]
  /\ replicate' = replicate + 1 /\ Analyse(FirstPart)
  /\ UNCHANGED <<prepareTimer, pump6, transmitted, stored>>

\* ultra_channel_object_transmit_M_result.
Transmits(c) == done'[c] /\ ~transmitted[c] /\ recorded

\* All are: the results are stored, and pump 6 is rinsed after a dilution.
Conclude ==
  /\ AnalyseDone
  /\ \A c \in Channel : done'[c] \/ failed'[c]
  /\ transmitted' = [c \in Channel |-> transmitted[c] \/ Transmits(c)]
  /\ stored' = [c \in Channel |-> stored[c] \/ Transmits(c)]
  /\ prepareTimer' = (prepareTimer /\ replicate = 1)
  /\ \E diluted \in BOOLEAN :
       pump6' = diluted /\ step' = IF diluted THEN "emptying" ELSE "pausing"
  /\ UNCHANGED <<taskVars, replicate>>

\* clean_dilution_pump_DONE.
Emptied ==
  /\ TimeIsUp("emptying")
  /\ step' = "pausing" /\ pump6' = FALSE
  /\ UNCHANGED <<late, seq, taskVars, holdVars, dirty, prepVars, streamPump, dataVars,
                 flagVars, sensor>>

\* waite_3_sec_DONE.
Ended ==
  /\ TimeIsUp("pausing")
  /\ step' = "free" /\ Finish(FALSE) /\ Forget
  /\ UNCHANGED <<late, seq, holdVars, dirty, sensor>>

-----------------------------------------------------------------------------
(* Specification                                                           *)

\* What users, errors and resets do to the run at work.
Interrupt == StartMeasurement \/ StartHold \/ NodeReset \/ Cancel

Callback ==
  \/ Aborted \/ CallFailed
  \/ Homed \/ HoldRinsed \/ Held
  \/ FillingOver \/ StrippingOver \/ Dilute \/ Prepared
  \/ TakeSample \/ SampleTaken \/ Justified \/ Injected
  \/ AfterRinsed \/ AxisHeld \/ Poll \/ TCAnalysed
  \/ AnotherReplicate \/ Conclude \/ Emptied \/ Ended

Next ==
  \/ Interrupt \/ Callback \/ SequenceEnds
  \/ \E c \in Channel : Signal(c)
  \/ IntervalTrigger \/ PrepFilled \/ Online \/ Offline

Spec == Init /\ [][Next]_vars

\* Timers end, sequences end (SequenceService), and their callbacks are called.
\* Nothing is assumed of users, resets, the preparation and the sensors.
LiveSpec == Spec /\ WF_vars(SequenceEnds) /\ WF_vars(Callback)

-----------------------------------------------------------------------------
(* Properties                                                              *)

\* The variables hold what the code can store in them.
TypeOK ==
  /\ step \in Measuring \cup Holding \cup {"free"} /\ late \in 0..Late
  /\ seq \in {Calls[s] : s \in DOMAIN Calls} \cup {"none", "ok", "error"}
  /\ part \in {"TC", "TIC"} /\ polls \in 0..Polls
  /\ reinit \in BOOLEAN /\ needRinsing \in BOOLEAN /\ dirty \in BOOLEAN
  /\ prep \in BOOLEAN /\ latePrep \in BOOLEAN /\ prepareTimer \in BOOLEAN
  /\ streamPump \in BOOLEAN /\ pump6 \in BOOLEAN
  /\ replicate \in Nat \ {0} /\ recorded \in BOOLEAN
  /\ values \in [Channel -> Seq(Int)]
  /\ done \in [Channel -> BOOLEAN] /\ failed \in [Channel -> BOOLEAN]
  /\ transmitted \in [Channel -> BOOLEAN] /\ stored \in [Channel -> BOOLEAN]
  /\ sensor \in [Channel -> [measure : BOOLEAN, justifying : BOOLEAN,
                             integrating : BOOLEAN, data : BOOLEAN]]

\* Sample that was taken is rinsed out: until a rinsing has ended well, HOLD
\* knows that it has to rinse - whoever was cancelled, failed or started in
\* between (analyze-task.c:192, ultimate-process-hold.c:85).
DirtIsRemembered == dirty => needRinsing

\* The pump of the stream does not run without end: when it is on, a callback is
\* pending, cancelled or not, that switches it off
\* (measurement-process.c:522, 573, 620, 654).
PumpIsStopped == streamPump => step = "filling" \/ late > 0 \/ prep \/ latePrep

\* A measurement that concludes has stored a result of every channel, or the
\* channel is marked with an error (measurement-process.c:81, 148).
ResultsAreStored ==
  step \in Concluding => \A c \in Channel : stored[c] \/ failed[c]

\* The result that is stored of a channel comes from as many replicates as must be
\* kept, or, when the jump is watched, at least from one
\* (mkt-process-object.c:169, measurement-process.c:148).
ResultsHaveReplicates ==
  \A c \in Channel :
    stored[c] => values[c] # <<>> /\ (Jump \/ Len(values[c]) >= Replicates)

\* However the values scatter, a measurement takes no more replicates than those
\* it keeps and those it may leave out (two, where the first is not accepted
\* for want of an earlier result) (mkt-process-object.c:124, 248).
MostReplicates == IF Replicates + Outliers > 1 THEN Replicates + Outliers ELSE 2
ReplicatesAreBounded == replicate <= MostReplicates

\* How far a run is from its end: the callbacks ahead of it, those of the polls and
\* of the analyses that may still be made (eight and the polls, each), and of each the
\* answer to a call and its being heard; and the measurements still to return.
Ahead ==
  [free        |-> 0,  holding      |-> 1,  holdRinsing |-> 2,  homing      |-> 3,
   pausing     |-> 1,  emptying     |-> 2,  integrating |-> 3,  axishold    |-> 4,
   afterRinsing |-> 5, injecting    |-> 6,  justifying  |-> 7,  sampling    |-> 8,
   rediluting  |-> 9,  stabilising  |-> 10, diluting    |-> 11, rinsing     |-> 12,
   stripping   |-> 13, filling      |-> 14]
AnalysesLeft == 2 * (MostReplicates - replicate) + (IF part = "TC" THEN 1 ELSE 0)
AnswersLeft == IF seq = "none" THEN 0 ELSE IF seq \in {"ok", "error"} THEN 1 ELSE 2
WorkLeft ==
  Ahead[step] + IF step \in Measuring \ Concluding
                THEN AnalysesLeft * (8 + Polls) + (Polls - polls) ELSE 0
StepsLeft == late + AnswersLeft + 3 * WorkLeft

\* No callback brings a run back: whatever answers, fails or is silent, each one
\* brings the analyser nearer to being free, by a number that only an interruption
\* raises - no cycle of the tasks and the replicates can keep it
\* (analyze-task.c:96, measurement-process.c:234).
RunsComeNearer ==
  [][\/ UNCHANGED <<step, seq, late, part, polls, replicate>>
     \/ StepsLeft' \in Nat /\ StepsLeft' < StepsLeft
     \/ Interrupt]_vars

\* Unless it is interrupted without end, the analyser becomes free again and
\* again: sensors that fall silent, values that never agree and calls that fail
\* do not keep it (analyze-task.c:96, measurement-process.c:234).
RunsEnd == []<><<Interrupt>>_vars \/ []<>(step = "free" /\ late = 0)

=============================================================================
