------------------------ MODULE MeasurementRun_proofs ------------------------
(***************************************************************************)
(* Sample is rinsed out, the pump of the stream is switched off, and a     *)
(* measurement that concludes has stored its results or failed.            *)
(*                                                                         *)
(* The first rests on what an answer is the answer to (Waits), the last on *)
(* what is known of the channels while they are analysed (Analysis).       *)
(***************************************************************************)
EXTENDS MeasurementRun, Statistic_proofs

-----------------------------------------------------------------------------
(* Types                                                                   *)

LEMMA Stages ==
  /\ DOMAIN Calls \subseteq Measuring \cup Holding
  /\ Preparing \subseteq Measuring /\ Analysing \subseteq Measuring
  /\ Concluding \subseteq Measuring /\ Analysing \cap Concluding = {}
  /\ Measuring \cap Holding = {} /\ "free" \notin Measuring \cup Holding
BY DEF Calls, Measuring, Preparing, Analysing, Concluding, Holding

Answers == {Calls[s] : s \in DOMAIN Calls} \cup {"none", "ok", "error"}

Sensing == [measure : BOOLEAN, justifying : BOOLEAN, integrating : BOOLEAN, data : BOOLEAN]

\* The parts of TypeOK, by what changes them together.
RunType    == step \in Measuring \cup Holding \cup {"free"} /\ late \in 0..Late /\ seq \in Answers
TaskType   == part \in {"TC", "TIC"} /\ polls \in 0..Polls
RinseType  == reinit \in BOOLEAN /\ needRinsing \in BOOLEAN /\ dirty \in BOOLEAN
PrepType   == prep \in BOOLEAN /\ latePrep \in BOOLEAN /\ prepareTimer \in BOOLEAN
PumpType   == streamPump \in BOOLEAN /\ pump6 \in BOOLEAN
DataType   == /\ replicate \in Nat \ {0} /\ values \in [Channel -> Seq(Int)]
              /\ stored \in [Channel -> BOOLEAN]
              /\ done \in [Channel -> BOOLEAN] /\ failed \in [Channel -> BOOLEAN]
FlagType   == recorded \in BOOLEAN /\ transmitted \in [Channel -> BOOLEAN]
SensorType == sensor \in [Channel -> Sensing]

LEMMA TypeParts ==
  TypeOK <=> /\ RunType /\ TaskType /\ RinseType /\ PrepType /\ PumpType
             /\ DataType /\ FlagType /\ SensorType
BY DEF TypeOK, RunType, TaskType, RinseType, PrepType, PumpType, DataType, FlagType,
       SensorType, Answers, Sensing

LEMMA TypePartsPrimed ==
  ASSUME RunType', TaskType', RinseType', PrepType', PumpType', DataType', FlagType',
         SensorType'
  PROVE  TypeOK'
BY DEF TypeOK, RunType, TaskType, RinseType, PrepType, PumpType, DataType, FlagType,
       SensorType, Answers, Sensing

LEMMA InitType == Init => TypeOK
<1> SUFFICES ASSUME Init PROVE TypeOK
  OBVIOUS
<1>1. RunType /\ TaskType /\ RinseType /\ PrepType /\ PumpType /\ FlagType
  <2>1. 0 \in 0..Polls /\ 0 \in 0..Late
    BY MeasurementAssumption
  <2>2. RunType /\ TaskType
    BY <2>1 DEF Init, RunType, TaskType, Answers
  <2>3. RinseType /\ PrepType /\ PumpType /\ FlagType
    BY DEF Init, RinseType, PrepType, PumpType, FlagType, No
  <2>4. QED
    BY <2>2, <2>3
<1>2. DataType
  BY DEF Init, DataType, No
<1>3. SensorType
  BY DEF Init, SensorType, Sensing, Still
<1>4. QED
  BY <1>1, <1>2, <1>3, TypeParts

LEMMA StoppedType ==
  ASSUME SensorType, NEW channels
  PROVE  Stopped(channels) \in [Channel -> Sensing]
BY DEF SensorType, Stopped, Sensing, Still

LEMMA ForgetType ==
  ASSUME Forget
  PROVE  TaskType' /\ DataType'
BY MeasurementAssumption DEF Forget, TaskType, DataType, No

LEMMA FinishType ==
  ASSUME TypeOK, NEW b \in BOOLEAN, Finish(b)
  PROVE  PumpType' /\ FlagType' /\ PrepType'
<1>1. PumpType' /\ FlagType'
  BY TypeParts DEF Finish, PumpType, FlagType
<1>2. PrepType'
  BY TypeParts DEF Finish, PrepCancelled, PrepType, prepVars
<1>3. QED
  BY <1>1, <1>2

LEMMA SupersedeType ==
  ASSUME TypeOK, Supersede
  PROVE  TaskType' /\ DataType' /\ SensorType' /\ late' \in 0..Late
<1>1. TaskType' /\ DataType'
  BY ForgetType DEF Supersede
<1>2. SensorType'
  BY StoppedType, TypeParts DEF Supersede, SensorType
<1>3. late' \in 0..Late
  <2>1. late \in 0..Late /\ Late \in Nat
    BY MeasurementAssumption DEF TypeOK
  <2>2. QED
    BY <2>1 DEF Supersede
<1>4. QED
  BY <1>1, <1>2, <1>3

LEMMA HoldRunType ==
  ASSUME TypeOK, StartHold \/ NodeReset
  PROVE  /\ RunType' /\ PrepType' /\ PumpType' /\ FlagType'
         /\ TaskType' /\ DataType' /\ SensorType'
<1>1. TaskType' /\ DataType' /\ SensorType' /\ late' \in 0..Late
  BY SupersedeType DEF StartHold, NodeReset, HoldRun
<1>2. step' \in {"homing", "holding"} /\ seq' = "allhold"
  BY DEF StartHold, NodeReset, HoldRun, Call, Calls
<1>3. RunType'
  BY <1>1, <1>2 DEF RunType, Answers, Calls, Holding
<1>4. PrepType' /\ PumpType' /\ FlagType'
  BY TypeParts
  DEF StartHold, NodeReset, HoldRun, PrepType, PumpType, FlagType, PumpAfterCancel,
      prepVars, flagVars
<1>5. QED
  BY <1>1, <1>3, <1>4

LEMMA UnheardType == ASSUME TypeOK PROVE Unheard \in Answers
BY TypeParts DEF Unheard, RunType, Answers

LEMMA InterruptType ==
  ASSUME TypeOK, Interrupt
  PROVE  TypeOK'
<1>1. CASE StartMeasurement
  <2>1. TaskType' /\ DataType' /\ SensorType' /\ late' \in 0..Late
    BY <1>1, SupersedeType DEF StartMeasurement
  <2>2. RunType'
    BY <1>1, <2>1, UnheardType DEF StartMeasurement, RunType, Measuring
  <2>3. RinseType' /\ PrepType'
    BY <1>1, TypeParts DEF StartMeasurement, RinseType, PrepType, PrepCancelled, holdVars
  <2>4. PumpType' /\ FlagType'
    BY <1>1, TypeParts DEF StartMeasurement, PumpType, FlagType, PumpAfterCancel
  <2>5. QED
    BY <2>1, <2>2, <2>3, <2>4, TypePartsPrimed
<1>2. CASE StartHold
  <2>1. RinseType'
    BY <1>2, TypeParts DEF StartHold, RinseType, holdVars
  <2>2. QED
    BY <1>2, <2>1, HoldRunType, TypePartsPrimed
<1>3. CASE NodeReset
  <2>1. RinseType'
    BY <1>3 DEF NodeReset, RinseType
  <2>2. QED
    BY <1>3, <2>1, HoldRunType, TypePartsPrimed
<1>4. CASE Cancel
  <2>1. TaskType' /\ DataType' /\ SensorType' /\ late' \in 0..Late
    BY <1>4, SupersedeType DEF Cancel
  <2>2. RunType'
    BY <1>4, <2>1, UnheardType DEF Cancel, RunType
  <2>3. RinseType' /\ PrepType'
    BY <1>4, TypeParts DEF Cancel, RinseType, PrepType, holdVars, prepVars
  <2>4. PumpType' /\ FlagType'
    BY <1>4, TypeParts DEF Cancel, PumpType, FlagType, PumpAfterCancel, flagVars
  <2>5. QED
    BY <2>1, <2>2, <2>3, <2>4, TypePartsPrimed
<1>5. QED
  BY <1>1, <1>2, <1>3, <1>4 DEF Interrupt

LEMMA EnvironmentType ==
  ASSUME TypeOK, IntervalTrigger \/ PrepFilled \/ Online \/ Offline \/ SequenceEnds
  PROVE  TypeOK'
<1>1. CASE IntervalTrigger \/ PrepFilled \/ Online \/ Offline
  <2>1. RunType' /\ RinseType' /\ TaskType' /\ DataType' /\ FlagType' /\ SensorType'
    BY <1>1, TypeParts
    DEF IntervalTrigger, PrepFilled, Online, Offline, RunType, TaskType, RinseType,
        DataType, FlagType, SensorType, runVars, taskVars, holdVars, dataVars, flagVars
  <2>2. PrepType'
    BY <1>1, TypeParts
    DEF IntervalTrigger, PrepFilled, Filled, Online, Offline, PrepCancelled, PrepType
  <2>3. PumpType'
    BY <1>1, TypeParts
    DEF IntervalTrigger, PrepFilled, Filled, Online, Offline, PumpType, pumpVars
  <2>4. QED
    BY <2>1, <2>2, <2>3, TypePartsPrimed
<1>2. CASE SequenceEnds
  <2>1. RunType' /\ RinseType'
    <3>1. seq' \in {"ok", "error", "none"}
      BY <1>2 DEF SequenceEnds
    <3>2. QED
      BY <1>2, <3>1, TypeParts DEF SequenceEnds, RunType, RinseType, Answers, runVars, holdVars
  <2>2. TaskType' /\ PrepType' /\ PumpType' /\ DataType' /\ FlagType' /\ SensorType'
    BY <1>2, TypeParts
    DEF SequenceEnds, TaskType, PrepType, PumpType, DataType, FlagType, SensorType,
        taskVars, prepVars, pumpVars, dataVars, flagVars
  <2>3. QED
    BY <2>1, <2>2, TypePartsPrimed
<1>3. QED
  BY <1>1, <1>2

LEMMA SignalType ==
  ASSUME TypeOK, NEW c \in Channel, Signal(c)
  PROVE  TypeOK'
<1>1. SensorType'
  <2>1. PICK over \in BOOLEAN : sensor' = [sensor EXCEPT ![c] = Heard(sensor[c], over)]
    BY DEF Signal
  <2>2. sensor[c] \in Sensing /\ sensor \in [Channel -> Sensing]
    BY TypeParts DEF SensorType
  <2>3. Heard(sensor[c], over) \in Sensing
    BY <2>2 DEF Sensing, Heard
  <2>4. QED
    BY <2>1, <2>2, <2>3 DEF SensorType
<1>2. RunType' /\ TaskType' /\ RinseType' /\ PrepType' /\ PumpType' /\ DataType' /\ FlagType'
  BY TypeParts
  DEF Signal, RunType, TaskType, RinseType, PrepType, PumpType, DataType, FlagType,
      runVars, taskVars, holdVars, prepVars, pumpVars, dataVars, flagVars
<1>3. QED
  BY <1>1, <1>2, TypePartsPrimed

\* The callbacks that leave the sensors and the values alone.
Plain == \/ Homed \/ HoldRinsed \/ Held \/ FillingOver \/ StrippingOver \/ Dilute
         \/ TakeSample \/ AfterRinsed \/ AxisHeld \/ Emptied

LEMMA PlainType ==
  ASSUME TypeOK, Plain
  PROVE  TypeOK'
<1>1. RunType'
  BY TypeParts
  DEF Plain, Homed, HoldRinsed, Held, FillingOver, StrippingOver, Dilute, TakeSample,
      AfterRinsed, AxisHeld, Emptied, Answered, TimeIsUp, Call, Calls, RunType, Answers,
      Measuring, Holding, Preparing, Analysing, Concluding
<1>2. RinseType' /\ PrepType' /\ PumpType'
  BY TypeParts
  DEF Plain, Homed, HoldRinsed, Held, FillingOver, StrippingOver, Dilute, TakeSample,
      AfterRinsed, AxisHeld, Emptied, NeedRinsing, RinseType, PrepType, PumpType,
      holdVars, prepVars, pumpVars
<1>3. TaskType' /\ DataType' /\ FlagType' /\ SensorType'
  BY TypeParts
  DEF Plain, Homed, HoldRinsed, Held, FillingOver, StrippingOver, Dilute, TakeSample,
      AfterRinsed, AxisHeld, Emptied, TaskType, DataType, FlagType, SensorType,
      taskVars, dataVars, flagVars
<1>4. QED
  BY <1>1, <1>2, <1>3, TypePartsPrimed

\* A measurement is over.
Over == CallFailed \/ Ended \/ Aborted \/ Poll

LEMMA OverType ==
  ASSUME TypeOK, Over
  PROVE  TypeOK'
<1>1. CASE Aborted
  <2>1. PumpType' /\ FlagType' /\ PrepType'
    BY <1>1, FinishType DEF Aborted
  <2>2. RunType'
    BY <1>1, TypeParts, MeasurementAssumption DEF Aborted, RunType
  <2>3. RinseType' /\ TaskType' /\ DataType' /\ SensorType'
    BY <1>1, TypeParts
    DEF Aborted, RinseType, TaskType, DataType, SensorType, holdVars, taskVars, dataVars
  <2>4. QED
    BY <2>1, <2>2, <2>3, TypePartsPrimed
<1>2. CASE CallFailed
  <2>1. TaskType' /\ DataType'
    BY <1>2, ForgetType DEF CallFailed
  <2>2. PumpType' /\ FlagType' /\ PrepType'
    <3>1. CASE step \in Holding
      BY <1>2, <3>1, TypeParts
      DEF CallFailed, PumpType, FlagType, PrepType, pumpVars, flagVars, prepVars
    <3>2. CASE step \notin Holding
      BY <1>2, <3>2, FinishType DEF CallFailed
    <3>3. QED
      BY <3>1, <3>2
  <2>3. SensorType'
    BY <1>2, StoppedType, TypeParts DEF CallFailed, SensorType
  <2>4. RunType' /\ RinseType'
    BY <1>2, TypeParts DEF CallFailed, RunType, RinseType, Answers, holdVars
  <2>5. QED
    BY <2>1, <2>2, <2>3, <2>4, TypePartsPrimed
<1>3. CASE Ended
  <2>1. TaskType' /\ DataType'
    BY <1>3, ForgetType DEF Ended
  <2>2. PumpType' /\ FlagType' /\ PrepType'
    BY <1>3, FinishType DEF Ended
  <2>3. RunType' /\ RinseType' /\ SensorType'
    BY <1>3, TypeParts DEF Ended, RunType, RinseType, SensorType, holdVars
  <2>4. QED
    BY <2>1, <2>2, <2>3, TypePartsPrimed
<1>4. CASE Poll
  <2>1. CASE polls < Polls /\ polls' = polls + 1
             /\ UNCHANGED <<step, part, prepVars, pumpVars, dataVars, flagVars, sensor>>
    <3>1. TaskType'
      BY <1>4, <2>1, TypeParts, MeasurementAssumption DEF TaskType
    <3>2. QED
      BY <1>4, <2>1, <3>1, TypeParts, TypePartsPrimed
      DEF Poll, RunType, RinseType, PrepType, PumpType, DataType, FlagType, SensorType,
          holdVars, prepVars, pumpVars, dataVars, flagVars
  <2>2. CASE step' = "free" /\ Finish(FALSE) /\ Forget /\ sensor' = Stopped(Measured)
    <3>1. TaskType' /\ DataType'
      BY <2>2, ForgetType
    <3>2. PumpType' /\ FlagType' /\ PrepType'
      BY <2>2, FinishType
    <3>3. SensorType'
      BY <2>2, StoppedType, TypeParts DEF SensorType
    <3>4. RunType' /\ RinseType'
      BY <1>4, <2>2, TypeParts DEF Poll, RunType, RinseType, holdVars
    <3>5. QED
      BY <3>1, <3>2, <3>3, <3>4, TypePartsPrimed
  <2>3. QED
    BY <1>4, <2>1, <2>2 DEF Poll
<1>5. QED
  BY <1>1, <1>2, <1>3, <1>4 DEF Over

LEMMA AnalyseType ==
  ASSUME NEW which \in {"TC", "TIC"}, Analyse(which)
  PROVE  TaskType' /\ step' = "stabilising"
BY MeasurementAssumption DEF Analyse, TaskType

LEMMA NextMeasurementType ==
  ASSUME TypeOK, NextMeasurement, replicate' = replicate
  PROVE  DataType' /\ transmitted' \in [Channel -> BOOLEAN]
BY TypeParts DEF NextMeasurement, DataType, No

LEMMA PreparedType ==
  ASSUME TypeOK, Prepared
  PROVE  TypeOK'
<1>1. DataType' /\ transmitted' \in [Channel -> BOOLEAN]
  BY NextMeasurementType DEF Prepared
<1>2. TaskType' /\ step' = "stabilising"
  BY AnalyseType DEF Prepared, FirstPart
<1>3. RunType' /\ FlagType'
  BY <1>1, <1>2, TypeParts DEF Prepared, RunType, FlagType, Answers, Measuring, Analysing
<1>4. RinseType' /\ PrepType' /\ PumpType' /\ SensorType'
  BY TypeParts
  DEF Prepared, RinseType, PrepType, PumpType, SensorType, holdVars, prepVars
<1>5. QED
  BY <1>1, <1>2, <1>3, <1>4, TypePartsPrimed

\* The steps of the analysis that set the sensors.
Sensors == SampleTaken \/ Justified \/ Injected \/ TCAnalysed

LEMMA SensorsType ==
  ASSUME TypeOK, Sensors
  PROVE  TypeOK'
<1>1. SensorType'
  <2>1. /\ Justifying \in Sensing
        /\ \A s \in Sensing : Zeroed(s) \in Sensing /\ Started(s) \in Sensing
    <3>1. Justifying \in Sensing
      BY DEF Sensing, Still, Justifying
    <3>2. ASSUME NEW s \in Sensing PROVE Zeroed(s) \in Sensing
      BY DEF Sensing, Zeroed
    <3>3. ASSUME NEW s \in Sensing PROVE Started(s) \in Sensing
      BY DEF Sensing, Started
    <3>4. QED
      BY <3>1, <3>2, <3>3
  <2>2. \A c \in Channel : sensor[c] \in Sensing
    BY TypeParts DEF SensorType
  <2>3. CASE SampleTaken
    BY <2>1, <2>2, <2>3 DEF SampleTaken, SensorType
  <2>4. CASE Justified
    BY <2>1, <2>2, <2>4 DEF Justified, SensorType
  <2>5. CASE Injected
    BY <2>1, <2>2, <2>5 DEF Injected, SensorType
  <2>6. CASE TCAnalysed
    BY <2>6, StoppedType, TypeParts DEF TCAnalysed, SensorType
  <2>7. QED
    BY <2>3, <2>4, <2>5, <2>6 DEF Sensors
<1>2. RunType' /\ TaskType'
  <2>1. CASE SampleTaken
    BY <2>1, TypeParts
    DEF SampleTaken, RunType, TaskType, Answers, Measuring, Analysing, taskVars
  <2>2. CASE Justified \/ Injected
    <3>1. step' \in {"injecting", "afterRinsing"} /\ seq' \in {"injection", "rinsing"}
      BY <2>2 DEF Justified, Injected, Call, Calls
    <3>2. seq' \in Answers /\ step' \in Measuring
      BY <3>1 DEF Answers, Calls, Measuring, Analysing
    <3>3. late' \in 0..Late /\ TaskType'
      BY <2>2, TypeParts DEF Justified, Injected, RunType, TaskType, taskVars
    <3>4. QED
      BY <3>2, <3>3 DEF RunType
  <2>3. CASE TCAnalysed
    <3>1. TaskType' /\ step' = "stabilising"
      BY <2>3, AnalyseType DEF TCAnalysed
    <3>2. QED
      BY <2>3, <3>1, TypeParts DEF TCAnalysed, RunType, Measuring, Analysing
  <2>4. QED
    BY <2>1, <2>2, <2>3 DEF Sensors
<1>3. RinseType' /\ PumpType'
  BY TypeParts
  DEF Sensors, SampleTaken, Justified, Injected, TCAnalysed, RinseType, PumpType, holdVars,
      pumpVars
<1>4. PrepType' /\ FlagType'
  BY TypeParts
  DEF Sensors, SampleTaken, Justified, Injected, TCAnalysed, PrepType, FlagType, prepVars,
      flagVars
<1>5. DataType'
  <2>1. CASE Justified
    <3>1. failed \in [Channel -> BOOLEAN] /\ \A c \in Channel : sensor[c].data \in BOOLEAN
      BY TypeParts DEF DataType, SensorType, Sensing
    <3>2. failed' \in [Channel -> BOOLEAN]
      BY <2>1, <3>1 DEF Justified
    <3>3. QED
      BY <2>1, <3>2, TypeParts DEF Justified, DataType
  <2>2. CASE SampleTaken \/ Injected \/ TCAnalysed
    BY <2>2, TypeParts DEF SampleTaken, Injected, TCAnalysed, DataType, dataVars
  <2>3. QED
    BY <2>1, <2>2 DEF Sensors
<1>6. QED
  BY <1>1, <1>2, <1>3, <1>4, <1>5, TypePartsPrimed

\* What is stored of a channel are the values before, or one more.
LEMMA ReplicateType ==
  ASSUME TypeOK, AnalyseDone, NEW c \in Channel
  PROVE  /\ values'[c] \in Replicate(c) /\ values'[c] \in Seq(Int)
         /\ ~recorded => values'[c] = values[c]
<1>1. values'[c] \in Replicate(c)
  BY DEF AnalyseDone
<1>2. values[c] \in Seq(Int)
  BY TypeParts DEF DataType
<1>3. \A i \in Peak \cup {0} : Concentration(i) \in Int
  BY MeasurementAssumption DEF Concentration
<1>4. \A i \in Peak \cup {0} : Append(values[c], Concentration(i)) \in Seq(Int)
  BY <1>2, <1>3
<1>5. QED
  BY <1>1, <1>2, <1>4 DEF Replicate

LEMMA AnalyseDoneType ==
  ASSUME TypeOK, AnalyseDone
  PROVE  /\ SensorType' /\ late' = late /\ seq' \in Answers
         /\ values' \in [Channel -> Seq(Int)]
         /\ done' \in [Channel -> BOOLEAN] /\ failed' \in [Channel -> BOOLEAN]
         /\ RinseType' /\ recorded' \in BOOLEAN
         /\ prep' \in BOOLEAN /\ latePrep' \in BOOLEAN /\ streamPump' \in BOOLEAN
<1>1. SensorType'
  BY StoppedType, TypeParts DEF AnalyseDone, SensorType
<1>2. values' \in [Channel -> Seq(Int)]
  <2>1. values' \in [Channel -> UNION {Replicate(c) : c \in Channel}]
    BY DEF AnalyseDone
  <2>2. QED
    BY <2>1, ReplicateType
<1>3. failed' \in [Channel -> BOOLEAN]
  BY TypeParts DEF AnalyseDone, DataType
<1>4. done' \in [Channel -> BOOLEAN]
  <2>1. PICK near : done' = [c \in Channel |-> Decided(c, near)]
    BY DEF AnalyseDone
  <2>2. \A c \in Channel : Decided(c, near) \in BOOLEAN
    BY DEF Decided
  <2>3. QED
    BY <2>1, <2>2
<1>5. RinseType' /\ recorded' \in BOOLEAN
  BY TypeParts DEF AnalyseDone, RinseType, FlagType, holdVars
<1>6. prep' \in BOOLEAN /\ latePrep' \in BOOLEAN /\ streamPump' \in BOOLEAN
  BY TypeParts DEF AnalyseDone, PrepType, PumpType
<1>7. late' = late /\ seq' \in Answers
  BY TypeParts DEF AnalyseDone, RunType
<1>8. QED
  BY <1>1, <1>2, <1>3, <1>4, <1>5, <1>6, <1>7

LEMMA ReplicatesType ==
  ASSUME TypeOK, AnotherReplicate \/ Conclude
  PROVE  TypeOK'
<1>1. /\ SensorType' /\ late' = late /\ seq' \in Answers
      /\ values' \in [Channel -> Seq(Int)]
      /\ done' \in [Channel -> BOOLEAN] /\ failed' \in [Channel -> BOOLEAN]
      /\ RinseType' /\ recorded' \in BOOLEAN
      /\ prep' \in BOOLEAN /\ latePrep' \in BOOLEAN /\ streamPump' \in BOOLEAN
  BY AnalyseDoneType DEF AnotherReplicate, Conclude
<1>2. CASE AnotherReplicate
  <2>1. TaskType' /\ step' = "stabilising"
    BY <1>2, AnalyseType DEF AnotherReplicate, FirstPart
  <2>2. RunType' /\ PrepType' /\ PumpType' /\ FlagType'
    BY <1>1, <1>2, <2>1, TypeParts
    DEF AnotherReplicate, RunType, PrepType, PumpType, FlagType, Measuring, Analysing
  <2>3. DataType'
    BY <1>1, <1>2, TypeParts DEF AnotherReplicate, DataType
  <2>4. QED
    BY <1>1, <2>1, <2>2, <2>3, TypePartsPrimed
<1>3. CASE Conclude
  <2>1. TaskType' /\ step' \in Concluding /\ pump6' \in BOOLEAN
    BY <1>3, TypeParts DEF Conclude, TaskType, taskVars, Concluding
  <2>2. RunType' /\ PrepType' /\ PumpType'
    BY <1>1, <1>3, <2>1, TypeParts
    DEF Conclude, RunType, PrepType, PumpType, Measuring
  <2>3. DataType' /\ FlagType'
    <3>1. transmitted' \in [Channel -> BOOLEAN] /\ stored' \in [Channel -> BOOLEAN]
      BY <1>3, TypeParts DEF Conclude, DataType, FlagType
    <3>2. QED
      BY <1>1, <1>3, <3>1, TypeParts DEF Conclude, DataType, FlagType
  <2>4. QED
    BY <1>1, <2>1, <2>2, <2>3, TypePartsPrimed
<1>4. QED
  BY <1>2, <1>3

LEMMA StutterType ==
  ASSUME TypeOK, UNCHANGED vars
  PROVE  TypeOK'
BY DEF TypeOK, vars, runVars, taskVars, holdVars, prepVars, pumpVars, dataVars, flagVars

LEMMA NextCases ==
  ASSUME [Next]_vars
  PROVE  \/ Interrupt \/ Plain \/ Over \/ Prepared \/ Sensors
         \/ AnotherReplicate \/ Conclude
         \/ IntervalTrigger \/ PrepFilled \/ Online \/ Offline \/ SequenceEnds
         \/ \E c \in Channel : Signal(c)
         \/ UNCHANGED vars
BY DEF Next, Callback, Plain, Over, Sensors

LEMMA NextType ==
  ASSUME TypeOK, [Next]_vars
  PROVE  TypeOK'
BY NextCases, InterruptType, PlainType, OverType, PreparedType, SensorsType,
   ReplicatesType, EnvironmentType, SignalType, StutterType

\* For any channels, calibration and numbers of replicates and outliers.
THEOREM TypeCorrect == Spec => []TypeOK
<1>1. Init => TypeOK
  BY InitType
<1>2. TypeOK /\ [Next]_vars => TypeOK'
  BY NextType
<1>3. QED
  BY <1>1, <1>2, PTL DEF Spec

-----------------------------------------------------------------------------
(* Sample is rinsed out                                                    *)

\* An answer is that of the call the run waits for, and a rinsing that has
\* answered has rinsed.
Waits ==
  /\ step \in DOMAIN Calls => seq \in {Calls[step], "ok", "error"}
  /\ step \in {"holdRinsing", "afterRinsing"} /\ seq = "ok" => ~dirty

RinseInv == TypeOK /\ DirtIsRemembered /\ Waits

\* Most steps call a sequence or wait for a timer, and leave the rinsing alone.
LEMMA CallWaits ==
  ASSUME NEW next \in DOMAIN Calls, Call(next)
  PROVE  Waits'
BY DEF Call, Calls, Waits

LEMMA TimerWaits ==
  ASSUME step' \notin DOMAIN Calls
  PROVE  Waits'
BY DEF Waits, Calls

LEMMA NextWaits ==
  ASSUME RinseInv, [Next]_vars
  PROVE  Waits'
<1>1. CASE Interrupt
  <2>1. CASE StartMeasurement \/ Cancel
    <3>1. StartMeasurement => step' = "filling"
      BY DEF StartMeasurement
    <3>2. Cancel => step' = "free"
      BY DEF Cancel
    <3>3. QED
      BY <2>1, <3>1, <3>2, TimerWaits DEF Calls
  <2>2. CASE StartHold \/ NodeReset
    BY <2>2 DEF StartHold, NodeReset, HoldRun, Call, Calls, Waits
  <2>3. QED
    BY <1>1, <2>1, <2>2 DEF Interrupt
<1>2. CASE Plain
  <2>1. CASE Held \/ FillingOver \/ AxisHeld \/ Emptied
    BY <2>1, TimerWaits DEF Held, FillingOver, AxisHeld, Emptied, Calls
  <2>2. CASE Homed \/ HoldRinsed \/ StrippingOver \/ Dilute \/ TakeSample \/ AfterRinsed
    <3>1. \E next \in {"holdRinsing", "holding", "rinsing", "diluting", "rediluting",
                       "sampling", "axishold"} : Call(next)
      <4>1. Homed => Call("holdRinsing")
        BY DEF Homed
      <4>2. HoldRinsed => Call("holding")
        BY DEF HoldRinsed
      <4>3. StrippingOver => Call("rinsing")
        BY DEF StrippingOver
      <4>4. Dilute => Call("diluting")
        BY DEF Dilute
      <4>5. TakeSample => Call("rediluting") \/ Call("sampling")
        BY DEF TakeSample
      <4>6. AfterRinsed => Call("axishold")
        BY DEF AfterRinsed
      <4>7. QED
        BY <2>2, <4>1, <4>2, <4>3, <4>4, <4>5, <4>6
    <3>2. QED
      BY <3>1, CallWaits DEF Calls
  <2>3. QED
    BY <1>2, <2>1, <2>2 DEF Plain
<1>3. CASE Aborted
  BY <1>3 DEF Aborted, RinseInv, Waits
<1>4. CASE CallFailed \/ Ended
  BY <1>4, TimerWaits DEF CallFailed, Ended, Calls
<1>5. CASE Poll
  BY <1>5, TimerWaits DEF Poll, TimeIsUp, Calls
<1>6. CASE Prepared \/ SampleTaken \/ TCAnalysed \/ AnotherReplicate \/ Conclude
  BY <1>6, TimerWaits
  DEF Prepared, SampleTaken, TCAnalysed, AnotherReplicate, Conclude, Analyse, Calls
<1>7. CASE Justified \/ Injected
  BY <1>7, CallWaits DEF Justified, Injected, Calls
<1>8. CASE SequenceEnds
  <2>1. CASE step \in DOMAIN Calls
    <3>1. PICK answer \in {"ok", "error"} :
             /\ seq' = answer
             /\ dirty' = (dirty /\ ~(seq = "rinsing" /\ answer = "ok"))
      BY <1>8, <2>1 DEF SequenceEnds
    <3>2. seq = Calls[step] /\ step' = step
      BY <1>8, <2>1 DEF SequenceEnds, RinseInv, Waits, runVars
    <3>3. CASE step \in {"holdRinsing", "afterRinsing"} /\ answer = "ok"
      <4>1. seq = "rinsing"
        BY <3>2, <3>3 DEF Calls
      <4>2. dirty' = (dirty /\ ~(seq = "rinsing" /\ answer = "ok"))
        BY <3>1
      <4>3. ~dirty'
        BY <3>3, <4>1, <4>2, Zenon
      <4>4. QED
        BY <3>1, <3>3, <4>3 DEF Waits
    <3>4. CASE step \notin {"holdRinsing", "afterRinsing"} \/ answer # "ok"
      BY <3>1, <3>2, <3>4 DEF Waits
    <3>5. QED
      BY <3>3, <3>4
  <2>2. CASE step \notin DOMAIN Calls
    BY <1>8, <2>2, TimerWaits DEF SequenceEnds, runVars
  <2>3. QED
    BY <2>1, <2>2
<1>9. CASE IntervalTrigger \/ PrepFilled \/ Online \/ Offline
           \/ (\E c \in Channel : Signal(c)) \/ UNCHANGED vars
  <2>1. UNCHANGED <<step, seq, dirty>>
    BY <1>9 DEF IntervalTrigger, PrepFilled, Online, Offline, Signal, vars, runVars
  <2>2. QED
    BY <2>1 DEF RinseInv, Waits
<1>10. QED
  BY <1>1, <1>2, <1>3, <1>4, <1>5, <1>6, <1>7, <1>8, <1>9, NextCases DEF Over, Sensors

LEMMA NextDirt ==
  ASSUME RinseInv, [Next]_vars
  PROVE  DirtIsRemembered'
<1> USE DEF RinseInv, DirtIsRemembered
<1>1. CASE Interrupt
  <2>1. NodeReset => ~dirty'
    BY DEF NodeReset
  <2>2. StartMeasurement => UNCHANGED dirty /\ UNCHANGED needRinsing
    BY DEF StartMeasurement, holdVars
  <2>3. StartHold => UNCHANGED dirty /\ UNCHANGED needRinsing
    BY DEF StartHold, holdVars
  <2>4. Cancel => UNCHANGED dirty /\ UNCHANGED needRinsing
    BY DEF Cancel, holdVars
  <2>5. CASE NodeReset
    BY <2>1, <2>5
  <2>6. CASE UNCHANGED dirty /\ UNCHANGED needRinsing
    BY <2>6, Zenon
  <2>7. QED
    BY <1>1, <2>2, <2>3, <2>4, <2>5, <2>6 DEF Interrupt
<1>2. CASE HoldRinsed
  BY <1>2 DEF HoldRinsed, Answered, Waits
<1>3. CASE AfterRinsed
  BY <1>3 DEF AfterRinsed, Answered, Waits
<1>4. CASE StrippingOver \/ Dilute \/ TakeSample
  <2>1. needRinsing' = TRUE
    BY <1>4 DEF StrippingOver, Dilute, TakeSample, NeedRinsing
  <2>2. QED
    BY <2>1
<1>5. CASE Homed \/ Held \/ FillingOver \/ AxisHeld \/ Emptied
  <2>1. UNCHANGED <<dirty, needRinsing>>
    BY <1>5 DEF Homed, Held, FillingOver, AxisHeld, Emptied, holdVars
  <2>2. QED
    BY <2>1
<1>6. CASE Over \/ Prepared \/ Sensors
  BY <1>6
  DEF Over, CallFailed, Ended, Aborted, Poll, Prepared, Sensors, SampleTaken, Justified,
      Injected, TCAnalysed, holdVars
<1>7. CASE AnotherReplicate \/ Conclude
  BY <1>7 DEF AnotherReplicate, Conclude, AnalyseDone, holdVars
<1>8. CASE SequenceEnds
  BY <1>8 DEF SequenceEnds, holdVars
<1>9. CASE IntervalTrigger \/ PrepFilled \/ Online \/ Offline
           \/ (\E c \in Channel : Signal(c)) \/ UNCHANGED vars
  BY <1>9 DEF IntervalTrigger, PrepFilled, Online, Offline, Signal, vars, holdVars
<1>10. QED
  BY <1>1, <1>2, <1>3, <1>4, <1>5, <1>6, <1>7, <1>8, <1>9, NextCases DEF Plain

\* Whatever is interrupted, fails or is reset, and whenever: sample that was
\* taken is known to be there until a rinsing has ended well.
THEOREM DirtStaysRemembered == Spec => []DirtIsRemembered
<1>1. Init => RinseInv
  BY InitType, TimerWaits DEF RinseInv, Init, DirtIsRemembered, Waits, Calls
<1>2. RinseInv /\ [Next]_vars => RinseInv'
  BY NextType, NextDirt, NextWaits DEF RinseInv
<1>3. RinseInv => DirtIsRemembered
  BY DEF RinseInv
<1>4. QED
  BY <1>1, <1>2, <1>3, PTL DEF Spec

-----------------------------------------------------------------------------
(* The pump of the stream is switched off                                  *)

PumpInv == TypeOK /\ PumpIsStopped

LEMMA NextPump ==
  ASSUME PumpInv, [Next]_vars
  PROVE  PumpIsStopped'
<1> USE DEF PumpInv, PumpIsStopped
<1>0. late \in Nat
  BY MeasurementAssumption DEF TypeOK
<1>1. CASE Interrupt
  <2>1. Supersede
    BY <1>1 DEF Interrupt, StartMeasurement, StartHold, NodeReset, HoldRun, Cancel
  <2>2. (step = "filling" \/ late > 0) => late' > 0
    BY <1>0, <2>1 DEF Supersede, Measuring
  <2>3. CASE StartMeasurement
    BY <2>3 DEF StartMeasurement
  <2>4. CASE StartHold \/ NodeReset \/ Cancel
    BY <2>2, <2>4 DEF StartHold, NodeReset, HoldRun, Cancel, PumpAfterCancel, prepVars
  <2>5. QED
    BY <1>1, <2>3, <2>4 DEF Interrupt
<1>2. CASE IntervalTrigger
  BY <1>2 DEF IntervalTrigger
<1>3. CASE PrepFilled \/ Offline \/ Aborted \/ Ended \/ Prepared \/ FillingOver
  BY <1>3 DEF PrepFilled, Filled, Offline, Aborted, Ended, Finish, Prepared, FillingOver
<1>4. CASE Online
  BY <1>4 DEF Online, PrepCancelled, runVars, pumpVars
<1>5. CASE CallFailed
  <2>1. CASE step \in Holding
    BY <1>5, <2>1 DEF CallFailed, Holding, pumpVars, prepVars
  <2>2. CASE step \notin Holding
    BY <1>5, <2>2 DEF CallFailed, Finish
  <2>3. QED
    BY <2>1, <2>2
<1>6. CASE Poll
  <2>1. step = "integrating" /\ late = 0
    BY <1>6 DEF Poll, TimeIsUp
  <2>2. \/ streamPump' = FALSE
        \/ streamPump' = streamPump /\ prep' = prep /\ latePrep' = latePrep
    BY <1>6 DEF Poll, Finish, pumpVars, prepVars
  <2>3. CASE streamPump' = FALSE
    BY <2>3, Zenon
  <2>4. CASE streamPump' = streamPump /\ prep' = prep /\ latePrep' = latePrep
    <3>1. streamPump => prep \/ latePrep
      BY <2>1
    <3>2. QED
      BY <2>4, <3>1, Zenon
  <2>5. QED
    BY <2>2, <2>3, <2>4
<1>7. CASE Plain /\ ~FillingOver
  <2>1. step # "filling" /\ UNCHANGED <<late, streamPump, prep, latePrep>>
    BY <1>7
    DEF Plain, Homed, HoldRinsed, Held, StrippingOver, Dilute, TakeSample, AfterRinsed,
        AxisHeld, Emptied, Answered, TimeIsUp, pumpVars, prepVars
  <2>2. QED
    BY <2>1
<1>8. CASE Sensors
  BY <1>8
  DEF Sensors, SampleTaken, Justified, Injected, TCAnalysed, Answered, Integrated,
      TimeIsUp, pumpVars, prepVars
<1>9. CASE AnotherReplicate \/ Conclude
  BY <1>9 DEF AnotherReplicate, Conclude, AnalyseDone, Integrated, TimeIsUp
<1>10. CASE SequenceEnds \/ (\E c \in Channel : Signal(c)) \/ UNCHANGED vars
  BY <1>10 DEF SequenceEnds, Signal, vars, runVars, pumpVars, prepVars
<1>11. QED
  BY <1>1, <1>2, <1>3, <1>4, <1>5, <1>6, <1>7, <1>8, <1>9, <1>10, NextCases DEF Over

\* However measurements, early fillings and their cancellations interleave, the
\* pump of the stream never runs without a callback to come that stops it.
THEOREM PumpDoesNotRunOn == Spec => []PumpIsStopped
<1>1. Init => PumpInv
  BY InitType DEF PumpInv, Init, PumpIsStopped
<1>2. PumpInv /\ [Next]_vars => PumpInv'
  BY NextType, NextPump DEF PumpInv
<1>3. PumpInv => PumpIsStopped
  BY DEF PumpInv
<1>4. QED
  BY <1>1, <1>2, <1>3, PTL DEF Spec

-----------------------------------------------------------------------------
(* Results are stored                                                      *)

\* While the channels are analysed no measurement is still to return, so the
\* record stays; what is transmitted is stored; and without a record no channel
\* has a value.
Analysis ==
  step \in Analysing =>
    /\ late = 0
    /\ \A c \in Channel :
         /\ transmitted[c] => stored[c]
         /\ ~recorded => values[c] = <<>> /\ ~done[c]

ResultInv == TypeOK /\ Analysis /\ ResultsAreStored

\* The steps of an analysis that neither begin nor end one.
Within == \/ TakeSample \/ AfterRinsed \/ AxisHeld
          \/ SampleTaken \/ Justified \/ Injected \/ TCAnalysed

LEMMA WithinStep ==
  ASSUME Within
  PROVE  /\ step \in Analysing /\ step' \in Analysing
         /\ UNCHANGED <<late, transmitted, stored, recorded, values, done>>
<1>1. step \in Analysing /\ step' \in Analysing
  BY DEF Within, TakeSample, AfterRinsed, AxisHeld, SampleTaken, Justified, Injected,
         TCAnalysed, Answered, Integrated, TimeIsUp, Call, Analyse, Analysing
<1>2. UNCHANGED <<late, transmitted, stored, recorded, values, done>>
  BY DEF Within, TakeSample, AfterRinsed, AxisHeld, SampleTaken, Justified, Injected,
         TCAnalysed, dataVars, flagVars
<1>3. QED
  BY <1>1, <1>2

LEMMA AnalysisEnds ==
  ASSUME ResultInv, AnalyseDone
  PROVE  /\ late' = 0
         /\ \A c \in Channel :
              /\ transmitted[c] => stored[c]
              /\ ~recorded => values'[c] = <<>> /\ ~done'[c] /\ failed'[c]
<1>1. step \in Analysing
  BY DEF AnalyseDone, Integrated, TimeIsUp, Analysing
<1>2. late' = 0 /\ \A c \in Channel : transmitted[c] => stored[c]
  BY <1>1 DEF ResultInv, Analysis, AnalyseDone
<1>3. ASSUME NEW c \in Channel, ~recorded
      PROVE  values'[c] = <<>> /\ ~done'[c] /\ failed'[c]
  <2>1. values[c] = <<>> /\ ~done[c]
    BY <1>1, <1>3 DEF ResultInv, Analysis
  <2>2. values'[c] = <<>>
    BY <1>3, <2>1, ReplicateType DEF ResultInv
  <2>3. failed'[c]
    BY <2>2 DEF AnalyseDone
  <2>4. PICK near : done' = [d \in Channel |-> Decided(d, near)]
    BY DEF AnalyseDone
  <2>5. ~Decided(c, near)
    BY <2>1, <2>2 DEF Decided
  <2>6. QED
    BY <2>2, <2>3, <2>4, <2>5
<1>4. QED
  BY <1>2, <1>3

LEMMA NextResults ==
  ASSUME ResultInv, [Next]_vars
  PROVE  Analysis' /\ ResultsAreStored'
<1>1. CASE Within
  <2>1. step' \notin Concluding
    BY <1>1, WithinStep, Stages
  <2>2. QED
    BY <1>1, <2>1, WithinStep DEF ResultInv, Analysis, ResultsAreStored
<1>2. CASE Prepared
  <2>1. step' \notin Concluding
    BY <1>2 DEF Prepared, Analyse, Concluding
  <2>2. late' = 0
    BY <1>2 DEF Prepared, Answered
  <2>3. \A c \in Channel : ~transmitted'[c] /\ values'[c] = <<>> /\ ~done'[c]
    BY <1>2 DEF Prepared, NextMeasurement, No
  <2>4. QED
    BY <2>1, <2>2, <2>3 DEF Analysis, ResultsAreStored
<1>3. CASE AnotherReplicate
  <2>1. AnalyseDone /\ step' \notin Concluding /\ UNCHANGED <<transmitted, stored, recorded>>
    BY <1>3 DEF AnotherReplicate, AnalyseDone, Analyse, Concluding
  <2>2. QED
    BY <2>1, AnalysisEnds DEF Analysis, ResultsAreStored
<1>4. CASE Conclude
  <2>1. AnalyseDone /\ step' \notin Analysing
    BY <1>4 DEF Conclude, Analysing
  <2>2. ASSUME NEW c \in Channel
        PROVE  stored'[c] \/ failed'[c]
    <3>1. done'[c] \/ failed'[c]
      BY <1>4 DEF Conclude
    <3>2. stored'[c] = (stored[c] \/ Transmits(c))
      BY <1>4 DEF Conclude
    <3>3. QED
      BY <2>1, <3>1, <3>2, AnalysisEnds DEF Transmits
  <2>3. QED
    BY <2>1, <2>2 DEF Analysis, ResultsAreStored
<1>5. CASE Emptied
  <2>1. step \in Concluding /\ step' \notin Analysing /\ UNCHANGED <<stored, failed>>
    BY <1>5 DEF Emptied, TimeIsUp, Concluding, Analysing, dataVars
  <2>2. QED
    BY <2>1 DEF ResultInv, Analysis, ResultsAreStored
<1>6. CASE \/ Interrupt \/ CallFailed \/ Ended \/ Homed \/ HoldRinsed \/ Held
           \/ FillingOver \/ StrippingOver \/ Dilute
  <2>1. step' \notin Analysing \cup Concluding
    BY <1>6
    DEF Interrupt, StartMeasurement, StartHold, NodeReset, HoldRun, Cancel, CallFailed,
        Ended, Homed, HoldRinsed, Held, FillingOver, StrippingOver, Dilute, Call,
        Analysing, Concluding
  <2>2. QED
    BY <2>1 DEF Analysis, ResultsAreStored
<1>7. CASE Poll
  <2>1. CASE step' = "free"
    BY <2>1 DEF Analysis, ResultsAreStored, Analysing, Concluding
  <2>2. CASE UNCHANGED <<step, dataVars, flagVars, late>>
    BY <2>2 DEF ResultInv, Analysis, ResultsAreStored, dataVars, flagVars
  <2>3. QED
    BY <1>7, <2>1, <2>2 DEF Poll
<1>8. CASE Aborted
  <2>1. step \notin Analysing /\ UNCHANGED <<step, dataVars>>
    BY <1>8 DEF Aborted, ResultInv, Analysis
  <2>2. QED
    BY <2>1 DEF ResultInv, Analysis, ResultsAreStored, dataVars
<1>9. CASE \/ IntervalTrigger \/ PrepFilled \/ Online \/ Offline \/ SequenceEnds
           \/ (\E c \in Channel : Signal(c)) \/ UNCHANGED vars
  <2>1. UNCHANGED <<step, late, dataVars, flagVars>>
    BY <1>9
    DEF IntervalTrigger, PrepFilled, Online, Offline, SequenceEnds, Signal, vars, runVars
  <2>2. QED
    BY <2>1 DEF ResultInv, Analysis, ResultsAreStored, dataVars, flagVars
<1>10. QED
  BY <1>1, <1>2, <1>3, <1>4, <1>5, <1>6, <1>7, <1>8, <1>9, NextCases
  DEF Within, Plain, Over, Sensors

\* A measurement that concludes has a result of every channel in the data base,
\* or the channel is marked - even when an older one took its record away.
THEOREM ResultsAreNotLost == Spec => []ResultsAreStored
<1>1. Init => ResultInv
  BY InitType DEF ResultInv, Init, Analysis, ResultsAreStored, Analysing, Concluding
<1>2. ResultInv /\ [Next]_vars => ResultInv'
  BY NextType, NextResults DEF ResultInv
<1>3. ResultInv => ResultsAreStored
  BY DEF ResultInv
<1>4. QED
  BY <1>1, <1>2, <1>3, PTL DEF Spec

-----------------------------------------------------------------------------
(* The replicates are bounded                                              *)

\* Each replicate but the one in progress has given every channel a value, as long
\* as the record is there; and what the measurement before has counted is forgotten.
Counted ==
  /\ replicate <= MostReplicates
  /\ step \notin Analysing \cup Concluding => replicate = 1 /\ part = "TC" /\ polls = 0
  /\ step \in Analysing =>
       \A c \in Channel : recorded => Len(values[c]) = replicate - 1

CountInv == ResultInv /\ Counted

LEMMA MostReplicatesType ==
  /\ MostReplicates \in Nat /\ MostReplicates >= 2
  /\ MostReplicates >= Replicates + Outliers
BY StatisticAssumption DEF MostReplicates

LEMMA ForgetCounts ==
  ASSUME Forget, step' \notin Analysing \cup Concluding
  PROVE  Counted'
BY MostReplicatesType DEF Forget, Counted, MostReplicates

\* A channel that is not done has not enough values, so there may be one more.
LEMMA AnotherReplicateCounts ==
  ASSUME CountInv, AnotherReplicate
  PROVE  Counted'
<1>1. step \in Analysing /\ AnalyseDone /\ replicate \in Nat \ {0}
  BY TypeParts
  DEF AnotherReplicate, AnalyseDone, Integrated, TimeIsUp, Analysing, CountInv, ResultInv,
      DataType
<1>2. PICK c \in Channel : ~done'[c] /\ ~failed'[c]
  BY DEF AnotherReplicate
<1>3. recorded /\ recorded' = recorded
  BY <1>1, <1>2, AnalysisEnds DEF CountInv, AnalyseDone
<1>4. \A d \in Channel : values'[d] \in Seq(Int) /\ Len(values'[d]) = replicate
  <2>1. SUFFICES ASSUME NEW d \in Channel
                 PROVE  values'[d] \in Seq(Int) /\ Len(values'[d]) = replicate
    OBVIOUS
  <2>2. values'[d] \in Replicate(d) /\ values'[d] \in Seq(Int)
    BY <1>1, ReplicateType DEF CountInv, ResultInv
  <2>3. values[d] \in Seq(Int) /\ Len(values[d]) = replicate - 1
    BY <1>1, <1>3, TypeParts DEF CountInv, ResultInv, Counted, DataType
  <2>4. PICK v \in Int : values'[d] = Append(values[d], v)
    BY <1>3, <2>2, MeasurementAssumption DEF Replicate, Concentration
  <2>5. QED
    BY <1>1, <2>2, <2>3, <2>4
<1>5. replicate + 1 <= MostReplicates
  <2>1. PICK near : done' = [d \in Channel |-> Decided(d, near)]
    BY <1>1 DEF AnalyseDone
  <2>2. ~Decided(c, near)
    BY <1>2, <2>1
  <2>3. values'[c] # <<>>
    BY <1>1, <1>4
  <2>4. CASE replicate = 1
    BY <2>4, MostReplicatesType
  <2>5. CASE replicate # 1
    <3>1. ~Enough(values'[c])
      BY <2>2, <2>3, <2>5 DEF Decided
    <3>2. ~(Len(values'[c]) >= Replicates + Outliers)
      BY <1>4, <3>1, EnoughAtLast
    <3>3. replicate < Replicates + Outliers
      BY <1>1, <1>4, <3>2, StatisticAssumption
    <3>4. QED
      BY <1>1, <3>3, MostReplicatesType, StatisticAssumption
  <2>6. QED
    BY <2>4, <2>5
<1>6. step' \in Analysing /\ replicate' = replicate + 1
  BY DEF AnotherReplicate, Analyse, Analysing
<1>7. QED
  BY <1>1, <1>3, <1>4, <1>5, <1>6 DEF Counted

LEMMA NextCounted ==
  ASSUME CountInv, [Next]_vars
  PROVE  Counted'
<1>1. CASE AnotherReplicate
  BY <1>1, AnotherReplicateCounts
<1>2. CASE Within
  <2>1. replicate' = replicate
    BY <1>2
    DEF Within, TakeSample, AfterRinsed, AxisHeld, SampleTaken, Justified, Injected,
        TCAnalysed, dataVars
  <2>2. QED
    BY <1>2, <2>1, WithinStep DEF CountInv, Counted, MostReplicates
<1>3. CASE Prepared
  <2>1. replicate' = replicate /\ step' \in Analysing
    BY <1>3 DEF Prepared, Analyse, Analysing
  <2>2. replicate = 1
    BY <1>3
    DEF Prepared, Answered, CountInv, Counted, Analysing, Concluding
  <2>3. \A c \in Channel : values'[c] = <<>>
    BY <1>3 DEF Prepared, NextMeasurement
  <2>4. QED
    BY <2>1, <2>2, <2>3, MostReplicatesType DEF Counted, MostReplicates
<1>4. CASE Conclude \/ Emptied
  <2>1. replicate' = replicate /\ step' \in Concluding
    BY <1>4 DEF Conclude, Emptied, Concluding, dataVars
  <2>2. QED
    BY <2>1, Stages DEF CountInv, Counted, MostReplicates
<1>5. CASE Interrupt \/ CallFailed \/ Ended
  <2>1. Forget
    BY <1>5
    DEF Interrupt, StartMeasurement, StartHold, NodeReset, HoldRun, Cancel, Supersede,
        CallFailed, Ended
  <2>2. step' \notin Analysing \cup Concluding
    BY <1>5
    DEF Interrupt, StartMeasurement, StartHold, NodeReset, HoldRun, Cancel, Call,
        CallFailed, Ended, Analysing, Concluding
  <2>3. QED
    BY <2>1, <2>2, ForgetCounts
<1>6. CASE Homed \/ HoldRinsed \/ Held \/ FillingOver \/ StrippingOver \/ Dilute
  <2>1. /\ step \notin Analysing \cup Concluding /\ step' \notin Analysing \cup Concluding
        /\ UNCHANGED <<replicate, part, polls>>
    BY <1>6
    DEF Homed, HoldRinsed, Held, FillingOver, StrippingOver, Dilute, Answered, Call,
        Analysing, Concluding, taskVars, dataVars
  <2>2. QED
    BY <2>1 DEF CountInv, Counted, MostReplicates
<1>7. CASE Poll
  <2>1. CASE step' = "free" /\ Forget
    BY <2>1, ForgetCounts DEF Analysing, Concluding
  <2>2. CASE UNCHANGED <<step, dataVars, flagVars>>
    <3>1. step \in Analysing
      BY <1>7 DEF Poll, TimeIsUp, Analysing
    <3>2. QED
      BY <2>2, <3>1, Stages DEF CountInv, Counted, MostReplicates, dataVars, flagVars
  <2>3. QED
    BY <1>7, <2>1, <2>2 DEF Poll
<1>8. CASE Aborted
  <2>1. step \notin Analysing /\ UNCHANGED <<step, taskVars, dataVars>>
    BY <1>8 DEF Aborted, CountInv, ResultInv, Analysis
  <2>2. QED
    BY <2>1 DEF CountInv, Counted, MostReplicates, taskVars, dataVars
<1>9. CASE \/ IntervalTrigger \/ PrepFilled \/ Online \/ Offline \/ SequenceEnds
           \/ (\E c \in Channel : Signal(c)) \/ UNCHANGED vars
  <2>1. UNCHANGED <<step, taskVars, dataVars, flagVars>>
    BY <1>9
    DEF IntervalTrigger, PrepFilled, Online, Offline, SequenceEnds, Signal, vars, runVars
  <2>2. QED
    BY <2>1 DEF CountInv, Counted, MostReplicates, taskVars, dataVars, flagVars
<1>10. QED
  BY <1>1, <1>2, <1>3, <1>4, <1>5, <1>6, <1>7, <1>8, <1>9, NextCases
  DEF Within, Plain, Over, Sensors

LEMMA CountInvariant == Spec => []CountInv
<1>1. Init => CountInv
  BY InitType, MostReplicatesType
  DEF CountInv, Counted, ResultInv, Init, Analysis, ResultsAreStored, Analysing,
      Concluding, MostReplicates
<1>2. CountInv /\ [Next]_vars => CountInv'
  BY NextType, NextResults, NextCounted DEF CountInv, ResultInv
<1>3. QED
  BY <1>1, <1>2, PTL DEF Spec

\* Whatever the integrals, the calibration and the limits of the scatter are, a
\* measurement takes no more replicates than it keeps and may leave out.
THEOREM ReplicatesStayBounded == Spec => []ReplicatesAreBounded
<1>1. CountInv => ReplicatesAreBounded
  BY DEF CountInv, Counted, ReplicatesAreBounded
<1>2. QED
  BY <1>1, CountInvariant, PTL

-----------------------------------------------------------------------------
(* Results come from enough replicates                                     *)

\* A result is stored of a channel that is done, and it is done when its values
\* are enough.
EnoughKept ==
  \A c \in Channel :
    /\ stored[c] => done[c]
    /\ done[c] => values[c] # <<>> /\ (Jump \/ Len(values[c]) >= Replicates)

\* No values are lost while the others are waited for, and those that are done now
\* were found enough.
LEMMA AnalyseDoneKeeps ==
  ASSUME TypeOK, EnoughKept, AnalyseDone
  PROVE  \A c \in Channel :
           /\ done[c] => done'[c]
           /\ done'[c] => values'[c] # <<>> /\ (Jump \/ Len(values'[c]) >= Replicates)
<1> SUFFICES ASSUME NEW c \in Channel
             PROVE  /\ done[c] => done'[c]
                    /\ done'[c] =>
                         values'[c] # <<>> /\ (Jump \/ Len(values'[c]) >= Replicates)
  OBVIOUS
<1>1. PICK near : done' = [d \in Channel |-> Decided(d, near)]
  BY DEF AnalyseDone
<1>2. done'[c] = Decided(c, near)
  BY <1>1
<1>3. values[c] \in Seq(Int) /\ values'[c] \in Seq(Int)
  BY ReplicateType, TypeParts DEF DataType
<1>4. CASE done[c]
  <2>1. values'[c] = values[c] \/ \E x : values'[c] = Append(values[c], x)
    BY ReplicateType DEF Replicate
  <2>2. Len(values'[c]) >= Len(values[c]) /\ values[c] # <<>>
    BY <1>3, <1>4, <2>1 DEF EnoughKept
  <2>3. Replicates \in Nat
    BY StatisticAssumption
  <2>4. QED
    BY <1>2, <1>3, <1>4, <2>2, <2>3 DEF Decided, EnoughKept
<1>5. CASE ~done[c]
  <2>1. done'[c] => values'[c] # <<>> /\ (Jump \/ Enough(values'[c]))
    BY <1>2, <1>5 DEF Decided
  <2>2. QED
    BY <1>3, <1>5, <2>1, EnoughNotBefore
<1>6. QED
  BY <1>4, <1>5

LEMMA NextKept ==
  ASSUME TypeOK, EnoughKept, [Next]_vars
  PROVE  EnoughKept'
<1>1. ASSUME UNCHANGED <<values, stored, done>>
      PROVE  EnoughKept'
  BY <1>1 DEF EnoughKept
<1>2. ASSUME Forget \/ NextMeasurement
      PROVE  EnoughKept'
  BY <1>2 DEF Forget, NextMeasurement, No, EnoughKept
<1>3. CASE Interrupt \/ CallFailed \/ Ended \/ Prepared
  <2>1. Forget \/ NextMeasurement
    BY <1>3 DEF Interrupt, StartMeasurement, StartHold, NodeReset, HoldRun, Cancel,
                Supersede, CallFailed, Ended, Prepared
  <2>2. QED
    BY <1>2, <2>1
<1>4. CASE Plain \/ Sensors
  <2>1. UNCHANGED <<values, stored, done>>
    BY <1>4 DEF Plain, Sensors, Homed, HoldRinsed, Held, FillingOver, StrippingOver,
                Dilute, TakeSample, AfterRinsed, AxisHeld, Emptied, SampleTaken, Justified,
                Injected, TCAnalysed, dataVars
  <2>2. QED
    BY <1>1, <2>1
<1>5. CASE Poll \/ Aborted
  <2>1. Forget \/ UNCHANGED <<values, stored, done>>
    BY <1>5 DEF Poll, Aborted, dataVars
  <2>2. QED
    BY <1>1, <1>2, <2>1
<1>6. CASE AnotherReplicate \/ Conclude
  <2>1. AnalyseDone
    BY <1>6 DEF AnotherReplicate, Conclude
  <2>2. \A c \in Channel : stored'[c] => stored[c] \/ done'[c]
    BY <1>6 DEF AnotherReplicate, Conclude, Transmits
  <2>3. QED
    BY <2>1, <2>2, AnalyseDoneKeeps DEF EnoughKept
<1>7. CASE \/ IntervalTrigger \/ PrepFilled \/ Online \/ Offline \/ SequenceEnds
           \/ (\E c \in Channel : Signal(c)) \/ UNCHANGED vars
  <2>1. UNCHANGED <<values, stored, done>>
    BY <1>7 DEF IntervalTrigger, PrepFilled, Online, Offline, SequenceEnds, Signal, vars,
                dataVars
  <2>2. QED
    BY <1>1, <2>1
<1>8. QED
  BY <1>3, <1>4, <1>5, <1>6, <1>7, NextCases DEF Over

\* No result is stored from fewer replicates than must be kept, whatever the
\* outliers are and however often channels that are done wait for others.
THEOREM NoResultFromTooFew == Spec => []ResultsHaveReplicates
<1>1. Init => EnoughKept
  BY DEF Init, No, EnoughKept
<1>2. TypeOK /\ EnoughKept /\ [Next]_vars => EnoughKept'
  BY NextKept
<1>3. EnoughKept => ResultsHaveReplicates
  BY DEF EnoughKept, ResultsHaveReplicates
<1>4. QED
  BY <1>1, <1>2, <1>3, TypeCorrect, PTL DEF Spec

-----------------------------------------------------------------------------
(* A run comes nearer to its end                                           *)

LEMMA AheadType ==
  ASSUME TypeOK
  PROVE  /\ Ahead[step] \in 0..14
         /\ step # "free" => Ahead[step] > 0
BY DEF TypeOK, Ahead, Measuring, Preparing, Analysing, Concluding, Holding

\* What the analyses in progress and to come still take.
MeasuringLeft == AnalysesLeft * (8 + Polls) + (Polls - polls)

Left ==
  /\ late \in Nat /\ AnswersLeft \in 0..2 /\ AnalysesLeft \in Nat
  /\ MeasuringLeft \in Nat /\ WorkLeft \in Nat /\ StepsLeft \in Nat

LEMMA LeftType == TypeOK /\ Counted => Left
<1> SUFFICES ASSUME TypeOK, Counted PROVE Left
  OBVIOUS
<1>1. late \in Nat /\ Polls \in Nat /\ polls \in 0..Polls /\ replicate \in Nat
  BY MeasurementAssumption DEF TypeOK
<1>2. AnswersLeft \in 0..2
  BY DEF AnswersLeft
<1>3. AnalysesLeft \in Nat
  BY <1>1, MostReplicatesType DEF AnalysesLeft, Counted
<1>4. AnalysesLeft * (8 + Polls) \in Nat
  BY <1>1, <1>3
<1>5. MeasuringLeft \in Nat
  BY <1>1, <1>4 DEF MeasuringLeft
<1>6. WorkLeft \in Nat
  BY <1>5, AheadType DEF WorkLeft, MeasuringLeft
<1>7. StepsLeft \in Nat
  BY <1>1, <1>2, <1>6 DEF StepsLeft
<1>8. QED
  BY <1>1, <1>2, <1>3, <1>5, <1>6, <1>7 DEF Left

LEMMA LeftTypeNext == TypeOK' /\ Counted' => Left'
BY LeftType, PTL

\* A callback may call a sequence, for the work it has done.
LEMMA WorkDone ==
  ASSUME Left, Left', late' = late, WorkLeft' < WorkLeft
  PROVE  StepsLeft' < StepsLeft
<1>1. \A l, w, u \in Nat, a, b \in 0..2 : u < w => l + b + 3 * u < l + a + 3 * w
  OBVIOUS
<1>2. /\ late \in Nat /\ WorkLeft \in Nat /\ WorkLeft' \in Nat
      /\ AnswersLeft \in 0..2 /\ AnswersLeft' \in 0..2
  BY DEF Left
<1>3. late + AnswersLeft' + 3 * WorkLeft' < late + AnswersLeft + 3 * WorkLeft
  BY <1>1, <1>2
<1>4. QED
  BY <1>3 DEF StepsLeft

\* The analyses to come leave enough room for the one that begins.
LEMMA AnalysisDone ==
  ASSUME TypeOK, Left, Left', step \in Analysing, step' = "stabilising", polls' = 0,
         AnalysesLeft' < AnalysesLeft, Ahead[step] >= 3
  PROVE  WorkLeft' < WorkLeft
<1> DEFINE K == 8 + Polls
           a == AnalysesLeft
           b == AnalysesLeft'
<1>1. K \in Nat /\ a \in Nat /\ b \in Nat /\ b + 1 <= a
  <2>1. a \in Nat /\ b \in Nat /\ b < a
    BY DEF Left
  <2> HIDE DEF a, b
  <2>2. QED
    BY <2>1, MeasurementAssumption
<1>2. b * K \in Nat /\ a * K \in Nat /\ b * K + K <= a * K
  <2> HIDE DEF K, a, b
  <2>1. PICK d \in Nat : a = b + 1 + d
    <3>1. a - b - 1 \in Nat /\ a = b + 1 + (a - b - 1)
      BY <1>1
    <3>2. QED
      BY <3>1
  <2>2. a * K = b * K + K + d * K /\ d * K \in Nat /\ b * K \in Nat
    BY <1>1, <2>1
  <2>3. QED
    BY <1>1, <2>2
<1>3. WorkLeft = Ahead[step] + (a * K + (Polls - polls))
  BY Stages DEF WorkLeft
<1>4. WorkLeft' = 10 + (b * K + Polls)
  BY MeasurementAssumption DEF WorkLeft, Ahead, Measuring, Analysing, Concluding
<1>5. Polls - polls \in Nat /\ Polls \in Nat /\ Ahead[step] \in Nat
  BY AheadType, MeasurementAssumption DEF TypeOK
<1> HIDE DEF a, b
<1>6. QED
  BY <1>2, <1>3, <1>4, <1>5 DEF K

Counters == <<step, seq, late, part, polls, replicate>>

Nearer == StepsLeft' \in Nat /\ StepsLeft' < StepsLeft

\* The callbacks that leave the count of the analyses alone.
LEMMA PlainNearer ==
  ASSUME TypeOK, Left, Left', Plain
  PROVE  StepsLeft' < StepsLeft
<1>1. late' = late /\ UNCHANGED <<part, polls, replicate>>
  BY DEF Plain, Homed, HoldRinsed, Held, FillingOver, StrippingOver, Dilute, TakeSample,
         AfterRinsed, AxisHeld, Emptied, taskVars, dataVars
<1>2. \/ step = "homing" /\ step' = "holdRinsing"
      \/ step = "holdRinsing" /\ step' = "holding"
      \/ step = "holding" /\ step' = "free"
      \/ step = "filling" /\ step' = "stripping"
      \/ step = "stripping" /\ step' = "rinsing"
      \/ step = "rinsing" /\ step' = "diluting"
      \/ step = "stabilising" /\ step' \in {"rediluting", "sampling"}
      \/ step = "rediluting" /\ step' = "sampling"
      \/ step = "afterRinsing" /\ step' = "axishold"
      \/ step = "axishold" /\ step' = "integrating"
      \/ step = "emptying" /\ step' = "pausing"
  BY DEF Plain, Homed, HoldRinsed, Held, FillingOver, StrippingOver, Dilute, TakeSample,
         AfterRinsed, AxisHeld, Emptied, Answered, TimeIsUp, Call
<1>3. /\ Ahead[step] \in Nat /\ Ahead[step'] \in Nat /\ Ahead[step'] < Ahead[step]
      /\ step' \in Measuring \ Concluding => step \in Measuring \ Concluding
  BY <1>2 DEF Ahead, Measuring, Preparing, Analysing, Concluding
<1>4. MeasuringLeft \in Nat /\ MeasuringLeft' = MeasuringLeft
  BY <1>1 DEF Left, MeasuringLeft, AnalysesLeft, MostReplicates
<1>5. /\ WorkLeft = Ahead[step] + IF step \in Measuring \ Concluding THEN MeasuringLeft ELSE 0
      /\ WorkLeft' = Ahead[step'] + IF step' \in Measuring \ Concluding THEN MeasuringLeft' ELSE 0
  BY DEF WorkLeft, MeasuringLeft
<1>6. WorkLeft' < WorkLeft
  BY <1>2, <1>3, <1>4, <1>5
<1>7. QED
  BY <1>1, <1>6, WorkDone

LEMMA SensorsNearer ==
  ASSUME TypeOK, Left, Left', Sensors
  PROVE  StepsLeft' < StepsLeft
<1>1. CASE TCAnalysed
  <2>1. /\ step = "integrating" /\ step' = "stabilising" /\ late' = late
        /\ polls' = 0 /\ part = "TC" /\ part' = "TIC" /\ replicate' = replicate
    BY <1>1 DEF TCAnalysed, Integrated, TimeIsUp, Analyse, dataVars
  <2>2. AnalysesLeft' < AnalysesLeft
    BY <2>1, MostReplicatesType DEF TypeOK, AnalysesLeft, MostReplicates
  <2>3. step \in Analysing /\ Ahead[step] >= 3
    BY <2>1 DEF Analysing, Ahead
  <2>4. QED
    BY <2>1, <2>2, <2>3, AnalysisDone, WorkDone
<1>2. CASE SampleTaken \/ Justified \/ Injected
  <2>1. late' = late /\ UNCHANGED <<part, polls, replicate>>
    BY <1>2 DEF SampleTaken, Justified, Injected, taskVars, dataVars
  <2>2. \/ step = "sampling" /\ step' = "justifying"
        \/ step = "justifying" /\ step' = "injecting"
        \/ step = "injecting" /\ step' = "afterRinsing"
    BY <1>2 DEF SampleTaken, Justified, Injected, Answered, TimeIsUp, Call
  <2>3. /\ Ahead[step] \in Nat /\ Ahead[step'] \in Nat /\ Ahead[step'] < Ahead[step]
        /\ step \in Measuring \ Concluding /\ step' \in Measuring \ Concluding
    BY <2>2 DEF Ahead, Measuring, Analysing, Concluding
  <2>4. MeasuringLeft \in Nat /\ MeasuringLeft' = MeasuringLeft
    BY <2>1 DEF Left, MeasuringLeft, AnalysesLeft, MostReplicates
  <2>5. WorkLeft = Ahead[step] + MeasuringLeft /\ WorkLeft' = Ahead[step'] + MeasuringLeft'
    BY <2>3 DEF WorkLeft, MeasuringLeft
  <2>6. WorkLeft' < WorkLeft
    BY <2>3, <2>4, <2>5
  <2>7. QED
    BY <2>1, <2>6, WorkDone
<1>3. QED
  BY <1>1, <1>2 DEF Sensors

\* A run that ends leaves nothing to do, whatever was left.
LEMMA OverNearer ==
  ASSUME TypeOK, Left, Left', Over
  PROVE  StepsLeft' < StepsLeft
<1>1. CASE Aborted
  <2>1. late' = late - 1 /\ UNCHANGED <<step, seq, part, polls, replicate>>
    BY <1>1 DEF Aborted, taskVars, dataVars
  <2>2. AnswersLeft' = AnswersLeft /\ WorkLeft' = WorkLeft
    BY <2>1 DEF AnswersLeft, WorkLeft, AnalysesLeft, MostReplicates
  <2>3. QED
    BY <2>1, <2>2 DEF Left, StepsLeft
<1>2. ASSUME step' = "free" PROVE WorkLeft' = 0
  BY <1>2 DEF WorkLeft, Ahead, Measuring, Preparing, Analysing, Concluding
<1>3. ASSUME step # "free" PROVE WorkLeft > 0
  BY <1>3, AheadType DEF Left, WorkLeft, MeasuringLeft
<1>4. CASE CallFailed
  <2>1. late' = late /\ AnswersLeft = 1 /\ AnswersLeft' = 0 /\ WorkLeft' = 0
    BY <1>2, <1>4 DEF CallFailed, AnswersLeft
  <2>2. QED
    BY <2>1 DEF Left, StepsLeft
<1>5. CASE Ended
  <2>1. late' = late /\ step' = "free" /\ step # "free"
    BY <1>5 DEF Ended, TimeIsUp
  <2>2. QED
    BY <1>2, <1>3, <2>1, WorkDone DEF Left
<1>6. CASE Poll
  <2>1. step = "integrating" /\ late' = late
    BY <1>6 DEF Poll, TimeIsUp
  <2>2. CASE step' = "free"
    BY <1>2, <1>3, <2>1, <2>2, WorkDone DEF Left
  <2>3. CASE polls < Polls /\ polls' = polls + 1 /\ UNCHANGED <<step, part, dataVars>>
    <3>1. AnalysesLeft' = AnalysesLeft
      BY <2>3 DEF AnalysesLeft, MostReplicates, dataVars
    <3>2. WorkLeft' = WorkLeft - 1
      <4>1. /\ WorkLeft = 3 + (AnalysesLeft * (8 + Polls) + (Polls - polls))
            /\ WorkLeft' = 3 + (AnalysesLeft * (8 + Polls) + (Polls - polls'))
        BY <2>1, <2>3, <3>1 DEF WorkLeft, Ahead, Measuring, Analysing, Concluding
      <4>2. polls \in Nat /\ Polls \in Nat /\ AnalysesLeft * (8 + Polls) \in Nat
        BY MeasurementAssumption DEF TypeOK, Left
      <4>3. QED
        BY <2>3, <4>1, <4>2
    <3>3. QED
      BY <2>1, <3>2, WorkDone DEF Left
  <2>4. QED
    BY <1>6, <2>2, <2>3 DEF Poll
<1>7. QED
  BY <1>1, <1>4, <1>5, <1>6 DEF Over

LEMMA PreparedNearer ==
  ASSUME TypeOK, Counted, Left, Left', Prepared
  PROVE  StepsLeft' < StepsLeft
<1>1. /\ step \in {"rinsing", "diluting"} /\ step' = "stabilising" /\ late' = late
      /\ polls' = 0 /\ replicate' = replicate /\ part' \in {"TC", "TIC"}
  BY DEF Prepared, Answered, Analyse, FirstPart
<1>2. part = "TC" /\ polls = 0
  BY <1>1 DEF Counted, Analysing, Concluding
<1> DEFINE K == 8 + Polls
           a == AnalysesLeft
           b == AnalysesLeft'
<1>3. K \in Nat /\ a \in Nat /\ b \in Nat /\ b <= a
  BY <1>1, <1>2, MostReplicatesType, MeasurementAssumption
  DEF TypeOK, Left, AnalysesLeft, MostReplicates
<1>4. b * K \in Nat /\ a * K \in Nat /\ b * K <= a * K
  <2> HIDE DEF K, a, b
  <2>1. PICK d \in Nat : a = b + d
    <3>1. a - b \in Nat /\ a = b + (a - b)
      BY <1>3
    <3>2. QED
      BY <3>1
  <2>2. a * K = b * K + d * K /\ d * K \in Nat /\ b * K \in Nat
    BY <1>3, <2>1
  <2>3. QED
    BY <1>3, <2>2
<1>5. WorkLeft = Ahead[step] + (a * K + Polls) /\ WorkLeft' = 10 + (b * K + Polls)
  BY <1>1, <1>2, MeasurementAssumption
  DEF WorkLeft, Ahead, Measuring, Preparing, Analysing, Concluding
<1>6. Ahead[step] \in {11, 12} /\ Polls \in Nat
  BY <1>1, MeasurementAssumption DEF Ahead
<1> HIDE DEF K, a, b
<1>7. WorkLeft' < WorkLeft
  BY <1>4, <1>5, <1>6
<1>8. QED
  BY <1>1, <1>7, WorkDone

LEMMA ReplicatesNearer ==
  ASSUME TypeOK, Left, Left', AnotherReplicate \/ Conclude
  PROVE  StepsLeft' < StepsLeft
<1>1. step = "integrating" /\ step \in Analysing /\ Ahead[step] = 3 /\ late' = late
  BY DEF AnotherReplicate, Conclude, AnalyseDone, Integrated, TimeIsUp, Analysing, Ahead
<1>2. CASE AnotherReplicate
  <2>1. /\ step' = "stabilising" /\ polls' = 0 /\ replicate' = replicate + 1
    BY <1>2 DEF AnotherReplicate, Analyse
  <2>2. AnalysesLeft' < AnalysesLeft
    BY <2>1, MostReplicatesType DEF TypeOK, AnalysesLeft, MostReplicates
  <2>3. QED
    BY <1>1, <2>1, <2>2, AnalysisDone, WorkDone
<1>3. CASE Conclude
  <2>1. WorkLeft' \in {1, 2}
    BY <1>3 DEF Conclude, WorkLeft, Ahead, Concluding
  <2>2. WorkLeft = 3 + MeasuringLeft
    BY <1>1 DEF WorkLeft, MeasuringLeft, Measuring, Analysing, Concluding
  <2>3. WorkLeft' < WorkLeft
    BY <2>1, <2>2 DEF Left
  <2>4. QED
    BY <1>1, <2>3, WorkDone
<1>4. QED
  BY <1>2, <1>3

LEMMA SequenceNearer ==
  ASSUME Left, SequenceEnds
  PROVE  StepsLeft' < StepsLeft
<1>1. UNCHANGED <<step, late, part, polls, replicate>> /\ seq' \in {"ok", "error", "none"}
  BY DEF SequenceEnds, runVars, taskVars, dataVars
<1>2. AnswersLeft = 2 /\ AnswersLeft' \in {0, 1}
  BY <1>1 DEF SequenceEnds, AnswersLeft
<1>3. WorkLeft' = WorkLeft
  BY <1>1 DEF WorkLeft, AnalysesLeft, MostReplicates
<1>4. \A l, w \in Nat, a \in {0, 1} : l + a + 3 * w < l + 2 + 3 * w
  OBVIOUS
<1>5. late + AnswersLeft' + 3 * WorkLeft < late + 2 + 3 * WorkLeft
  BY <1>2, <1>4 DEF Left
<1>6. QED
  BY <1>1, <1>2, <1>3, <1>5 DEF StepsLeft

LEMMA NextNearer ==
  ASSUME TypeOK, Counted, TypeOK', Counted', [Next]_vars
  PROVE  Interrupt \/ UNCHANGED Counters \/ Nearer
<1>1. Left /\ Left'
  BY LeftType, LeftTypeNext
<1>2. StepsLeft' \in Nat
  BY <1>1 DEF Left
<1>3. CASE Plain \/ Over \/ Sensors \/ Prepared \/ AnotherReplicate \/ Conclude \/ SequenceEnds
  BY <1>1, <1>2, <1>3, PlainNearer, OverNearer, SensorsNearer, PreparedNearer,
     ReplicatesNearer, SequenceNearer
  DEF Nearer
<1>4. CASE \/ IntervalTrigger \/ PrepFilled \/ Online \/ Offline
           \/ (\E c \in Channel : Signal(c)) \/ UNCHANGED vars
  BY <1>4
  DEF IntervalTrigger, PrepFilled, Online, Offline, Signal, vars, runVars, taskVars,
      dataVars, Counters
<1>5. QED
  BY <1>3, <1>4, NextCases

\* For any channels, replicates, outliers and polls: no callback, answer or failure
\* leads a run back into work it has done; only an interruption starts anew.
THEOREM RunsOnlyComeNearer == Spec => RunsComeNearer
<1>1. CountInv /\ CountInv' /\ [Next]_vars =>
        [\/ UNCHANGED <<step, seq, late, part, polls, replicate>>
         \/ StepsLeft' \in Nat /\ StepsLeft' < StepsLeft
         \/ Interrupt]_vars
  BY NextNearer DEF CountInv, ResultInv, Counters, Nearer
<1>2. QED
  BY <1>1, CountInvariant, PTL DEF Spec, RunsComeNearer

=============================================================================
