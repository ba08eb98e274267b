-------------------------- MODULE DigitalNode_proofs --------------------------
(***************************************************************************)
(* Proofs about DigitalNode, for any number of outputs and any other nodes *)
(* and entries on the bus.                                                 *)
(*                                                                         *)
(* Its handlers use the bus as CanDevice allows, so that what is proved of *)
(* CanDevice holds of it.  That setting one output leaves the others alone *)
(* then follows from OutputsInv, which relates digitVal, the outputs the   *)
(* node has, the call in progress and what was commanded.                  *)
(***************************************************************************)
EXTENDS DigitalNode, CanDevice_proofs

\* Between two handlers there is none.
LEMMA NoJobType ==
  /\ NoJob \in Job /\ NoJob.kind = "none"
  /\ [NoJob EXCEPT !.kind = "getOut"] \in Job
<1>1. (CHOOSE b \in Bit : TRUE) \in Bit
  BY DigitalAssumption
<1>2. QED
  BY <1>1 DEF NoJob, Job

\* Changing one output of a set of outputs.
LEMMA ChangedType ==
  ASSUME NEW d \in SUBSET Bit, NEW b \in Bit, NEW on \in BOOLEAN
  PROVE  Changed(d, b, on) \in SUBSET Bit
  BY DEF Changed

-----------------------------------------------------------------------------
(* The handlers are clients of the bus                                     *)

\* Every step of the node's handlers is a step of CanDevice or leaves it alone.
LEMMA StepIsClient ==
  ASSUME DTypeOK, [DNext]_allVars
  PROVE  [Next]_vars
<1> USE DigitalAssumption
<1>1. ASSUME NEW d \in SUBSET Bit, NEW b \in Bit, NEW on \in BOOLEAN, WriteOut(d, b, on)
      PROVE  Next
  BY <1>1, ChangedType DEF WriteOut, Next
<1>2. CASE GetOut
  BY <1>2 DEF GetOut, Next
<1>3. CASE GotOut
  BY <1>3 DEF GotOut
<1>4. ASSUME NEW b \in Bit, NEW on \in BOOLEAN, SetOut(b, on) PROVE Next
  BY <1>1, <1>4 DEF SetOut, Next, DTypeOK
<1>5. CASE SetOutRead
  <2>1. job.bit \in Bit /\ job.on \in BOOLEAN /\ cache[Out] \in SUBSET Bit
    BY DEF DTypeOK, TypeOK, Job
  <2>2. QED
    BY <1>1, <1>5, <2>1 DEF SetOutRead
<1>6. CASE SetOutWritten
  BY <1>6 DEF SetOutWritten
<1>7. CASE OtherCall
  BY <1>7 DEF OtherCall, Next
<1>8. CASE Device
  BY <1>8 DEF Device, Next
<1>9. CASE UNCHANGED allVars
  BY <1>9 DEF allVars
<1>10. QED
  BY <1>2, <1>3, <1>4, <1>5, <1>6, <1>7, <1>8, <1>9 DEF DNext

\* Writing the outputs keeps the types.
LEMMA WriteOutType ==
  ASSUME NEW d \in SUBSET Bit, NEW b \in Bit, NEW on \in BOOLEAN, WriteOut(d, b, on)
  PROVE  digitVal' \subseteq Bit /\ known' \in BOOLEAN /\ job' \in Job
<1>1. [kind |-> "setWrite", bit |-> b, on |-> on] \in Job
  BY DEF Job
<1>2. QED
  BY <1>1, ChangedType DEF WriteOut

\* So does noting a command.
LEMMA CommandedType ==
  ASSUME lastOn \subseteq Bit, lastOff \subseteq Bit,
         NEW b \in Bit, NEW on \in BOOLEAN, Commanded(b, on)
  PROVE  lastOn' \subseteq Bit /\ lastOff' \subseteq Bit
  BY DEF Commanded

\* Every step keeps the types.
LEMMA DTypeStep == DTypeOK /\ [DNext]_allVars => DTypeOK'
<1> SUFFICES ASSUME DTypeOK, [DNext]_allVars PROVE DTypeOK'
  OBVIOUS
<1>1. TypeOK'
  BY StepIsClient, TypeStep DEF DTypeOK
<1> DEFINE Own == /\ digitVal \subseteq Bit /\ known \in BOOLEAN /\ job \in Job
                  /\ lastOn \subseteq Bit /\ lastOff \subseteq Bit
<1>2. Own
  BY DEF DTypeOK
<1>3. cache[Out] \subseteq Bit
  BY DigitalAssumption DEF DTypeOK, TypeOK
<1>4. ASSUME GetOut PROVE Own'
  BY <1>2, <1>4, NoJobType DEF GetOut
<1>5. ASSUME GotOut PROVE Own'
  BY <1>2, <1>3, <1>5, NoJobType DEF GotOut
<1>6. ASSUME NEW b \in Bit, NEW on \in BOOLEAN, SetOut(b, on) PROVE Own'
  <2>1. lastOn' \subseteq Bit /\ lastOff' \subseteq Bit
    BY <1>2, <1>6, CommandedType DEF SetOut
  <2>2. CASE known
    BY <1>2, <1>6, <2>1, <2>2, WriteOutType DEF SetOut
  <2>3. CASE ~known
    <3>1. [kind |-> "setRead", bit |-> b, on |-> on] \in Job
      BY DEF Job
    <3>2. QED
      BY <1>2, <1>6, <2>1, <2>3, <3>1 DEF SetOut
  <2>4. QED
    BY <2>2, <2>3
<1>7. ASSUME SetOutRead PROVE Own'
  <2>1. job.bit \in Bit /\ job.on \in BOOLEAN
    BY <1>2 DEF Job
  <2>2. CASE result
    BY <1>2, <1>3, <1>7, <2>1, <2>2, WriteOutType DEF SetOutRead
  <2>3. CASE ~result
    BY <1>2, <1>7, <2>3, NoJobType DEF SetOutRead
  <2>4. QED
    BY <2>2, <2>3
<1>8. ASSUME SetOutWritten PROVE Own'
  BY <1>2, <1>8, NoJobType DEF SetOutWritten
<1>9. ASSUME OtherCall \/ Device \/ UNCHANGED allVars PROVE Own'
  BY <1>2, <1>9 DEF OtherCall, Device, allVars, dvars
<1>10. QED
  BY <1>1, <1>4, <1>5, <1>6, <1>7, <1>8, <1>9 DEF DNext, DTypeOK

\* The node's object starts with nothing known of the outputs.
LEMMA DInitType == DInit => DTypeOK
  BY InitType, NoJobType DEF DInit, DTypeOK

\* The state of the node's object keeps its type.
THEOREM DigitalTypeCorrect == DSpec => []DTypeOK
  BY DInitType, DTypeStep, PTL DEF DSpec

\* The handlers of a digital node use the bus one call at a time, as CanDevice
\* says: DigitalNode implements CanDevice.
THEOREM DigitalNodeIsClient == DSpec => Spec
<1>1. DInit => Init
  BY DEF DInit
<1>2. DTypeOK /\ [DNext]_allVars => [Next]_vars
  BY StepIsClient
<1>3. QED
  BY <1>1, <1>2, DigitalTypeCorrect, PTL DEF DSpec, Spec

\* Over timely nodes the node's handlers never take a late or foreign answer.
THEOREM DigitalCallsAreMatched == Timely => (DSpec => []CanInv)
<1>1. SUFFICES ASSUME Timely PROVE DSpec => []CanInv
  OBVIOUS
<1>2. Spec => []CanInv
  BY <1>1, CallsAreMatched
<1>3. QED
  BY <1>2, DigitalNodeIsClient, PTL

-----------------------------------------------------------------------------
(* Setting one output leaves the others alone                              *)

\* What digitVal and the node disagree on was commanded; a write under way
\* writes digitVal; what a read under way will find is what the node has.
OutputsInv ==
  /\ known => /\ digitVal \ store[Out] \subseteq lastOn
              /\ store[Out] \ digitVal \subseteq lastOff
  /\ job.kind = "setRead" => job.bit \in IF job.on THEN lastOn ELSE lastOff
  /\ ~Idle /\ call.entry = Out =>
       \/ call.kind = "write" /\ known /\ call.val = digitVal
       \/ call.kind = "read" /\ held = {store[Out]}
  /\ job.kind \in {"getOut", "setRead"} =>
       IF Idle THEN result => cache[Out] = store[Out]
       ELSE call.kind = "read" /\ call.entry = Out

\* The node changes its outputs to digitVal, or not at all.
LEMMA OutputsStep ==
  ASSUME Timely, DTypeOK, CanInv, OutputsInv, [DNext]_allVars,
         store'[Out] # store[Out]
  PROVE  /\ store'[Out] = digitVal /\ known
         /\ call.kind = "write" /\ call.entry = Out
         /\ UNCHANGED dvars /\ \E n \in Node : NodeExecutes(n)
<1>1. Device
  BY DEF DNext, allVars, vars, GetOut, GotOut, SetOut, SetOutRead, SetOutWritten,
         WriteOut, OtherCall, BeginRead, BeginWrite
<1>2. Bus
  BY <1>1 DEF Device, IdleDrain, Receive, ReceiveAnswer, ReceiveReset, ReceiveOther, Timeout
<1>3. PICK n \in Node : NodeExecutes(n)
  <2>1. ASSUME NEW e \in Entry, NEW v \in Value, Sense(e, v) PROVE FALSE
    BY <2>1, DigitalAssumption DEF Sense, DTypeOK, TypeOK
  <2>2. QED
    BY <1>2, <2>1 DEF Bus, NodeRefuses, NodeReset, Timely
<1>4. ~Idle /\ n = NodeOf[call.entry] /\ sent[n] = <<call>>
  BY <1>3 DEF NodeExecutes, CanInv, CallIsMatched
<1>5. call.kind = "write" /\ store' = [store EXCEPT ![call.entry] = call.val]
  BY <1>3, <1>4 DEF NodeExecutes
<1>6. call.entry = Out /\ store'[Out] = call.val
  BY <1>5, DigitalAssumption DEF DTypeOK, TypeOK
<1>7. QED
  BY <1>1, <1>3, <1>4, <1>5, <1>6 DEF Device, OutputsInv

\* A step that leaves the outputs alone keeps OutputsInv if it does not touch
\* the node's object and begins no call on the outputs.
LEMMA DeviceKeepsOutputsInv ==
  ASSUME Timely, DTypeOK, CanInv, OutputsInv, Device, store'[Out] = store[Out]
  PROVE  OutputsInv'
<1>1. UNCHANGED dvars
  BY DEF Device
<1>2. CASE Idle'
  <2>1. CASE job.kind \in {"getOut", "setRead"} /\ ~Idle /\ result'
    <3>1. call.kind = "read" /\ call.entry = Out /\ held = {store[Out]}
      BY <2>1 DEF OutputsInv
    <3>2. [Next]_vars
      BY StepIsClient DEF DNext
    <3>3. cache'[Out] \in held
      BY <1>2, <2>1, <3>1, <3>2, ReadStep DEF Returns, Idle
    <3>4. QED
      BY <1>1, <1>2, <3>1, <3>3 DEF OutputsInv, dvars
  <2>2. CASE job.kind \in {"getOut", "setRead"} /\ Idle
    <3>1. UNCHANGED <<cache, result>>
      BY <2>2 DEF Device, IdleDrain, Receive, ReceiveAnswer, ReceiveReset,
                  ReceiveOther, Timeout, Bus, NodeExecutes, NodeRefuses, NodeReset, Sense
    <3>2. QED
      BY <1>1, <1>2, <2>2, <3>1 DEF OutputsInv, dvars
  <2>3. QED
    BY <1>1, <1>2, <2>1, <2>2 DEF OutputsInv, dvars
<1>3. CASE ~Idle'
  <2>1. UNCHANGED call /\ ~Idle
    BY <1>3, NoCallType
    DEF Device, Idle, IdleDrain, Receive, ReceiveAnswer, ReceiveReset, ReceiveOther,
        Return, Timeout, Bus, NodeExecutes, NodeRefuses, NodeReset, Sense
  <2>2. call.entry = Out => held' \subseteq held \cup {store[Out]}
    BY <1>3, <2>1, NoCallType
    DEF Device, Free, Idle, IdleDrain, Receive, ReceiveAnswer, ReceiveReset, ReceiveOther,
        Return, Timeout, Bus, NodeExecutes, NodeRefuses, NodeReset, Sense, Hold
  <2>3. call.entry = Out => held \subseteq held'
    BY <1>3, <2>1, NoCallType
    DEF Device, Free, Idle, IdleDrain, Receive, ReceiveAnswer, ReceiveReset, ReceiveOther,
        Return, Timeout, Bus, NodeExecutes, NodeRefuses, NodeReset, Sense, Hold
  <2>4. QED
    BY <1>1, <1>3, <2>1, <2>2, <2>3 DEF OutputsInv, dvars, Idle
<1>4. QED
  BY <1>2, <1>3

\* A read of the outputs begins.
LEMMA BeginReadOut ==
  ASSUME DTypeOK, BeginRead(Out)
  PROVE  /\ UNCHANGED <<store, cache>>
         /\ \/ Idle' /\ ~result'
            \/ ~Idle' /\ call'.kind = "read" /\ call'.entry = Out /\ held' = {store[Out]}
  BY NoCallType DEF BeginRead, Send, Return, Idle

\* A write of the outputs begins.
LEMMA BeginWriteOut ==
  ASSUME NEW v, BeginWrite(Out, v)
  PROVE  /\ UNCHANGED store
         /\ \/ Idle'
            \/ ~Idle' /\ call'.kind = "write" /\ call'.entry = Out /\ call'.val = v
  BY NoCallType DEF BeginWrite, Send, Return, Idle

\* Every step keeps OutputsInv.
LEMMA OutputsInvStep ==
  ASSUME Timely, DTypeOK, CanInv, OutputsInv, [DNext]_allVars
  PROVE  OutputsInv'
<1>1. CASE store'[Out] # store[Out]
  <2>1. /\ store'[Out] = digitVal /\ known
        /\ call.kind = "write" /\ call.entry = Out
        /\ UNCHANGED dvars /\ \E n \in Node : NodeExecutes(n)
    BY <1>1, OutputsStep
  <2>2. UNCHANGED <<call, result, cache>>
    BY <2>1 DEF NodeExecutes
  <2>3. QED
    BY <2>1, <2>2 DEF OutputsInv, dvars, Idle
<1>2. CASE store'[Out] = store[Out]
  <2>1. CASE GetOut
    BY <2>1, <1>2, BeginReadOut DEF GetOut, OutputsInv, NoJob
  <2>2. CASE GotOut
    BY <2>2 DEF GotOut, OutputsInv, NoJob, vars, Idle
  <2>3. ASSUME NEW b \in Bit, NEW on \in BOOLEAN, SetOut(b, on) PROVE OutputsInv'
    <3>1. CASE known
      BY <1>2, <2>3, <3>1, BeginWriteOut
      DEF SetOut, WriteOut, Commanded, Changed, OutputsInv
    <3>2. CASE ~known
      BY <1>2, <2>3, <3>2, BeginReadOut DEF SetOut, Commanded, OutputsInv
    <3>3. QED
      BY <3>1, <3>2
  <2>4. CASE SetOutRead
    <3>1. CASE result
      <4>1. cache[Out] = store[Out]
        BY <2>4, <3>1 DEF SetOutRead, OutputsInv
      <4>2. QED
        BY <1>2, <2>4, <3>1, <4>1, BeginWriteOut
        DEF SetOutRead, WriteOut, Changed, OutputsInv
    <3>2. CASE ~result
      BY <2>4, <3>2 DEF SetOutRead, OutputsInv, NoJob, vars, Idle
    <3>3. QED
      BY <3>1, <3>2
  <2>5. CASE SetOutWritten
    BY <2>5 DEF SetOutWritten, OutputsInv, NoJob, vars, Idle
  <2>6. CASE OtherCall
    <3>1. UNCHANGED dvars /\ job = NoJob
      BY <2>6 DEF OtherCall, Free
    <3>2. Idle' \/ call'.entry # Out
      <4>1. ASSUME NEW e \in Entry \ {Out}, BeginRead(e) PROVE Idle' \/ call'.entry = e
        BY <4>1, NoCallType DEF BeginRead, Send, Return, Idle
      <4>2. ASSUME NEW e \in Entry \ {Out}, NEW v \in Value, BeginWrite(e, v)
            PROVE  Idle' \/ call'.entry = e
        BY <4>2, NoCallType DEF BeginWrite, Send, Return, Idle
      <4>3. QED
        BY <2>6, <4>1, <4>2 DEF OtherCall
    <3>3. QED
      BY <1>2, <3>1, <3>2 DEF OutputsInv, dvars, NoJob
  <2>7. CASE Device
    BY <1>2, <2>7, DeviceKeepsOutputsInv
  <2>8. CASE UNCHANGED allVars
    BY <2>8 DEF allVars, vars, dvars, OutputsInv, Idle
  <2>9. QED
    BY <2>1, <2>2, <2>3, <2>4, <2>5, <2>6, <2>7, <2>8 DEF DNext
<1>3. QED
  BY <1>1, <1>2

\* An output only ever switches to what it was last commanded to, whatever
\* requests and answers are lost or refused, while the nodes answer in time
\* and do not reset.
THEOREM OutputsObeyCommands == Timely => (DSpec => OutputsAreCommanded)
<1>1. SUFFICES ASSUME Timely PROVE DSpec => OutputsAreCommanded
  OBVIOUS
<1>2. DInit => OutputsInv
  BY NoCallType DEF DInit, Init, OutputsInv, NoJob, Idle
<1>3. DTypeOK /\ CanInv /\ OutputsInv /\ [DNext]_allVars => OutputsInv'
  BY <1>1, OutputsInvStep
<1>4. DTypeOK /\ CanInv /\ OutputsInv /\ [DNext]_allVars =>
        [ /\ store'[Out] \ store[Out] \subseteq lastOn
          /\ store[Out] \ store'[Out] \subseteq lastOff ]_allVars
  <2>1. ASSUME DTypeOK, CanInv, OutputsInv, [DNext]_allVars, store'[Out] # store[Out]
        PROVE  store'[Out] = digitVal /\ known
    BY <1>1, <2>1, OutputsStep
  <2>2. QED
    BY <2>1 DEF OutputsInv
<1>5. DSpec => []CanInv
  BY <1>1, DigitalCallsAreMatched
<1>6. QED
  BY <1>2, <1>3, <1>4, <1>5, DigitalTypeCorrect, PTL DEF DSpec, OutputsAreCommanded

=============================================================================
