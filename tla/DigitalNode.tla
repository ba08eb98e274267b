----------------------------- MODULE DigitalNode -----------------------------
(***************************************************************************)
(* One digital node of the CAN daemon (node-digital-object.c): sixteen     *)
(* outputs that drive valves, pumps and relays, kept in one entry of the   *)
(* node, and the inputs in another.  A single output is set by writing all *)
(* of them, from digitVal, the daemon's memory of what they are.           *)
(*                                                                         *)
(* The handlers are written over CanDevice; between the calls a handler    *)
(* makes, nothing but the bus moves.  The other entries of the bus are     *)
(* read and written by the handlers of the other nodes.                    *)
(***************************************************************************)
EXTENDS CanDevice

CONSTANTS
  Bit,     \* the outputs
  Out,     \* 6300sub1
  In       \* 6100sub1

\* A value of an entry is the set of the bits that are on.
ASSUME DigitalAssumption ==
  /\ Bit # {} /\ Value = SUBSET Bit
  /\ Out \in Entry /\ In \in Entry /\ Out # In /\ NodeOf[Out] = NodeOf[In]
  /\ In \in Sensed /\ Out \notin Sensed

VARIABLES
  digitVal,  \* the outputs as last read or set; known says whether there were
  known,     \* digitVal # G_MAXUINT32
  job,       \* the handler in progress, waiting for its call to return
  lastOn,    \* outputs whose last command was to switch on
  lastOff    \* ... to switch off

dvars == <<digitVal, known, job, lastOn, lastOff>>
allVars == <<vars, dvars>>

Job == [kind : {"none", "getOut", "setRead", "setWrite"}, bit : Bit, on : BOOLEAN]
NoJob == [kind |-> "none", bit |-> CHOOSE b \in Bit : TRUE, on |-> FALSE]
Free  == job = NoJob /\ Idle

DTypeOK ==
  /\ TypeOK
  /\ digitVal \subseteq Bit /\ known \in BOOLEAN
  /\ job \in Job
  /\ lastOn \subseteq Bit /\ lastOff \subseteq Bit

\* G_MAXUINT32 has every bit set.
DInit ==
  /\ Init
  /\ digitVal = Bit /\ known = FALSE /\ job = NoJob
  /\ lastOn = {} /\ lastOff = {}

\* node_digital_object_get_out_value
GetOut ==
  /\ Free /\ BeginRead(Out)
  /\ job' = [NoJob EXCEPT !.kind = "getOut"]
  /\ UNCHANGED <<digitVal, known, lastOn, lastOff>>

GotOut ==
  /\ job.kind = "getOut" /\ Idle
  /\ job' = NoJob
  /\ IF result THEN digitVal' = cache[Out] /\ known' = TRUE
     ELSE UNCHANGED <<digitVal, known>>
  /\ UNCHANGED <<vars, lastOn, lastOff>>

Changed(d, b, on) == IF on THEN d \cup {b} ELSE d \ {b}

\* The last part of node_digital_object_set_value: digitVal keeps the new bit
\* even when the write fails.
WriteOut(d, b, on) ==
  /\ BeginWrite(Out, Changed(d, b, on))
  /\ digitVal' = Changed(d, b, on) /\ known' = TRUE
  /\ job' = [kind |-> "setWrite", bit |-> b, on |-> on]

Commanded(b, on) ==
  /\ lastOn' = IF on THEN lastOn \cup {b} ELSE lastOn \ {b}
  /\ lastOff' = IF on THEN lastOff \ {b} ELSE lastOff \cup {b}

\* Wrong: writes what it has, read or not.
SetOutUnread(b, on) ==
  /\ Free /\ Commanded(b, on) /\ WriteOut(digitVal, b, on)

\* node_digital_object_set_value: when digitVal was never set it is read first.
SetOut(b, on) ==
  /\ Free /\ Commanded(b, on)
  /\ IF known THEN WriteOut(digitVal, b, on)
     ELSE /\ BeginRead(Out)
          /\ job' = [kind |-> "setRead", bit |-> b, on |-> on]
          /\ UNCHANGED <<digitVal, known>>

\* ... the read has returned.
SetOutRead ==
  /\ job.kind = "setRead" /\ Idle
  /\ IF result THEN WriteOut(cache[Out], job.bit, job.on)
     ELSE job' = NoJob /\ UNCHANGED <<vars, digitVal, known>>
  /\ UNCHANGED <<lastOn, lastOff>>

\* ... the write has returned, and its result is passed on.
SetOutWritten ==
  /\ job.kind = "setWrite" /\ Idle
  /\ job' = NoJob
  /\ UNCHANGED <<vars, digitVal, known, lastOn, lastOff>>

\* node_digital_object_get_in_value, and the handlers of other entries
OtherCall ==
  /\ Free
  /\ \/ \E e \in Entry \ {Out} : BeginRead(e)
     \/ \E e \in Entry \ (Sensed \cup {Out}), v \in Value : BeginWrite(e, v)
  /\ UNCHANGED dvars

\* What the daemon waits for, and the bus.
Device ==
  /\ \/ Receive \/ Timeout \/ Bus
     \/ Free /\ IdleDrain
  /\ UNCHANGED dvars

DNext ==
  \/ GetOut \/ GotOut
  \/ \E b \in Bit, on \in BOOLEAN : SetOut(b, on)
  \/ SetOutRead \/ SetOutWritten
  \/ OtherCall \/ Device

DSpec == DInit /\ [][DNext]_allVars

-----------------------------------------------------------------------------

\* An output of the node only ever switches to what it was last commanded to:
\* setting one output, whatever was lost or refused before, leaves the others
\* as they were last commanded or found.
OutputsAreCommanded ==
  [][ /\ store'[Out] \ store[Out] \subseteq lastOn
      /\ store[Out] \ store'[Out] \subseteq lastOff ]_allVars

=============================================================================
