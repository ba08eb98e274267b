-------------------------- MODULE VesselPort_proofs --------------------------
(***************************************************************************)
(* The commands of a vessel are exclusive, its two outputs are interlocked,*)
(* and a port stays where it was put and is published as such.             *)
(*                                                                         *)
(* The last three rest on what the live command has told the node and on   *)
(* the 0.2 s of its start, in which its predecessor has come back.         *)
(***************************************************************************)
EXTENDS VesselPort, TLAPS

-----------------------------------------------------------------------------
(* Types                                                                   *)

Waiting == Call \cup {"start", "wait"}

LEMMA OperationType ==
  ASSUME NEW o \in Operation
  PROVE  /\ \A what \in Waiting : [o EXCEPT !.waits = what] \in Operation
         /\ [o EXCEPT !.age = Older(o.age)] \in Operation
         /\ Idle \in Operation
         /\ \A d \in Direction :
              [Idle EXCEPT !.dir = d, !.waits = "start"] \in Operation
         /\ o.dir \in Direction /\ Opposite(o.dir) \in Direction
<1>1. Older(o.age) \in Age
  BY DEF Older, Age, Operation
<1>2. QED
  BY <1>1 DEF Operation, Idle, Waiting, Direction, Opposite, Age

\* A callback ends its command or waits for something else, and then it leaves
\* the outputs alone or switches one of them.
LEMMA CallbackCases ==
  ASSUME TypeOK, NEW c \in Command, Callback(c)
  PROVE  \/ \E success \in BOOLEAN : Done(c, success)
         \/ \E what \in Waiting : Await(c, what) /\ UNCHANGED <<drive, lost>>
         \/ \E what \in Waiting, d \in Direction, value \in BOOLEAN :
              Switch(c, d, value, what)
<1>1. op[c].dir \in Direction /\ Opposite(op[c].dir) \in Direction
  BY OperationType DEF TypeOK
<1>2. CASE CancelledReturns(c) \/ CallFails(c)
  BY <1>2 DEF CancelledReturns, CallFails
<1>3. CASE SwitchOppositeOff(c) \/ SwitchOwnOn(c) \/ SwitchOppositeOn(c)
  BY <1>1, <1>3 DEF SwitchOppositeOff, SwitchOwnOn, SwitchOppositeOn, Waiting, Call
<1>4. CASE ReadEnd(c) \/ DrivenBack(c)
  BY <1>4 DEF ReadEnd, DrivenBack, Waiting, Call
<1>5. CASE EndRead(c)
  BY <1>1, <1>5 DEF EndRead, Waiting, Call
<1>6. QED
  BY <1>2, <1>3, <1>4, <1>5 DEF Callback

LEMMA NextType ==
  ASSUME TypeOK, [Next]_vars
  PROVE  TypeOK'
<1>1. ASSUME NEW c \in Command, NEW d \in Direction, Start(c, d)
      PROVE  TypeOK'
  <2>1. [Idle EXCEPT !.dir = d, !.waits = "start"] \in Operation
    BY OperationType DEF TypeOK
  <2>2. op' \in [Command -> Operation]
    BY <1>1, <2>1 DEF Start, TypeOK
  <2>3. cancelled' \subseteq Command /\ upset' \in BOOLEAN
    BY <1>1 DEF Start, ReplaceActivity, TypeOK
  <2>4. QED
    BY <1>1, <2>2, <2>3 DEF Start, TypeOK
<1>2. ASSUME NEW c \in Command, NEW success \in BOOLEAN, Done(c, success)
      PROVE  TypeOK'
  <2>1. op' \in [Command -> Operation]
    BY <1>2, OperationType DEF Done, OpenDone, CloseDone, Ends, TypeOK
  <2>2. op[c].dir \in Direction
    BY OperationType DEF TypeOK
  <2>3. QED
    BY <1>2, <2>1, <2>2 DEF Done, OpenDone, CloseDone, Ends, TypeOK
<1>3. ASSUME NEW c \in Command, NEW what \in Waiting, Await(c, what)
      PROVE  op' \in [Command -> Operation]
  BY <1>3, OperationType DEF Await, TypeOK
<1>4. ASSUME NEW c \in Command, Callback(c)
      PROVE  TypeOK'
  <2>1. ASSUME NEW what \in Waiting, Await(c, what), UNCHANGED <<drive, lost>>
        PROVE  TypeOK'
    BY <1>3, <2>1 DEF Await, TypeOK
  <2>2. ASSUME NEW what \in Waiting, NEW d \in Direction, NEW value \in BOOLEAN,
               Switch(c, d, value, what)
        PROVE  TypeOK'
    <3>1. drive' \in [Direction -> BOOLEAN] /\ lost' \subseteq Direction
      BY <2>2 DEF Switch, TypeOK
    <3>2. QED
      BY <1>3, <2>2, <3>1 DEF Switch, Await, TypeOK
  <2>3. QED
    BY <1>2, <1>4, <2>1, <2>2, CallbackCases
<1>5. ASSUME NEW c \in Command, GrowsOld(c)
      PROVE  TypeOK'
  <2>1. op' \in [Command -> Operation]
    BY <1>5, OperationType DEF GrowsOld, TypeOK
  <2>2. QED
    BY <1>5, <2>1 DEF GrowsOld, TypeOK
<1>6. CASE PortMoves
  BY <1>6, PortAssumption DEF PortMoves, TypeOK
<1>7. CASE UNCHANGED vars
  BY <1>7 DEF vars, TypeOK
<1>8. QED
  BY <1>1, <1>4, <1>5, <1>6, <1>7 DEF Next

\* Commands, outputs and the port are always what their types say, for any
\* number of commands and any way of the port.
THEOREM TypeCorrect == Spec => []TypeOK
<1>1. Init => TypeOK
  <2>1. Idle \in Operation
    BY DEF Idle, Operation, Direction, Age
  <2>2. QED
    BY <2>1, PortAssumption DEF Init, TypeOK
<1>2. QED
  BY <1>1, NextType, PTL DEF Spec

-----------------------------------------------------------------------------
(* Commands are exclusive                                                  *)

\* Who is cancelled, and who is live: only the current command, unless the TIC
\* port has let another one go on.
Marked ==
  /\ IF vessel \in Resetting THEN cancelled = {} ELSE ~upset
  /\ \A c \in cancelled : Pending(c)
  /\ current # NoCommand => Pending(current) /\ current \notin cancelled
  /\ ~upset => \A c \in Command : Live(c) => c = current

Others(c) == \A b \in Command \ {c} : op'[b] = op[b]

\* What a step of command c may change.
Stays(c) ==
  /\ Others(c) /\ Pending(c) /\ Pending(c)'
  /\ UNCHANGED <<vessel, cancelled, current, upset>>
Leaves(c) ==
  /\ Others(c) /\ Pending(c) /\ ~Pending(c)'
  /\ cancelled' = cancelled \ {c}
  /\ current' = IF c = current THEN NoCommand ELSE current
  /\ UNCHANGED <<vessel, upset>>

LEMMA DoneLeaves ==
  ASSUME TypeOK, NEW c \in Command, Pending(c), NEW success \in BOOLEAN,
         Done(c, success)
  PROVE  Leaves(c)
<1>1. \E published : Ends(c, published, success)
  BY DEF Done, OpenDone, CloseDone
<1>2. op'[c] = Idle /\ Others(c)
  BY <1>1 DEF Ends, Others, TypeOK
<1>3. QED
  BY <1>1, <1>2 DEF Leaves, Ends, Pending, Idle

LEMMA AwaitStays ==
  ASSUME TypeOK, NEW c \in Command, Pending(c), NEW what \in Waiting, Await(c, what)
  PROVE  Stays(c) /\ op'[c] = [op[c] EXCEPT !.waits = what] /\ op'[c].waits = what
<1>1. op'[c] = [op[c] EXCEPT !.waits = what] /\ Others(c)
  BY DEF Await, Others, TypeOK
<1>2. op'[c].waits = what /\ what # "none"
  BY <1>1 DEF TypeOK, Operation, Waiting, Call
<1>3. QED
  BY <1>1, <1>2 DEF Stays, Await, Pending

LEMMA GrowsOldStays ==
  ASSUME TypeOK, NEW c \in Command, GrowsOld(c)
  PROVE  Stays(c) /\ op'[c].waits = op[c].waits /\ op'[c].dir = op[c].dir
<1>1. Pending(c) /\ op'[c] = [op[c] EXCEPT !.age = Older(op[c].age)] /\ Others(c)
  BY DEF GrowsOld, Live, Others, TypeOK
<1>2. op'[c].waits = op[c].waits /\ op'[c].dir = op[c].dir
  BY <1>1 DEF TypeOK, Operation
<1>3. QED
  BY <1>1, <1>2 DEF Stays, GrowsOld, Pending

LEMMA CallbackPending ==
  ASSUME NEW c \in Command, Callback(c)
  PROVE  Pending(c)
  BY DEF Callback, CancelledReturns, CallFails, SwitchOppositeOff, SwitchOwnOn, ReadEnd,
         EndRead, SwitchOppositeOn, DrivenBack, Resumes, Live

LEMMA CallbackStep ==
  ASSUME TypeOK, NEW c \in Command, Callback(c)
  PROVE  Stays(c) \/ Leaves(c)
<1>1. Pending(c)
  BY CallbackPending
<1>2. QED
  BY <1>1, CallbackCases, DoneLeaves, AwaitStays DEF Switch

LEMMA StepRuns ==
  ASSUME TypeOK, TypeOK', Marked, [Next]_vars
  PROVE  Marked' /\ [Runs!Next]_(Runs!runVars)
<1> USE PortAssumption
<1>1. ASSUME NEW c \in Command, NEW d \in Direction, Start(c, d)
      PROVE  Marked' /\ [Runs!Next]_(Runs!runVars)
  <2>1. /\ Pending(c)' /\ Others(c) /\ current' = c /\ vessel' = vessel /\ ~Pending(c)
    BY <1>1 DEF Start, Others, Pending, Idle, TypeOK, Operation
  <2>2. CASE vessel \notin Resetting
    <3>1. cancelled' = cancelled \cup ({current} \ {NoCommand}) /\ upset' = upset
      BY <1>1, <2>2 DEF Start, ReplaceActivity
    <3>2. c \notin cancelled'
      BY <2>1, <3>1 DEF Marked
    <3>3. Marked'
      BY <2>1, <2>2, <3>1, <3>2 DEF Marked, Live, Pending, Others, TypeOK
    <3>4. Runs!Start(c)
      BY <2>1, <2>2, <3>1, <3>2 DEF Runs!Start, Runs!Superseded, LiveCommand, Draining
    <3>5. QED
      BY <3>3, <3>4 DEF Runs!Next
  <2>3. CASE vessel \in Resetting
    <3>1. cancelled' = cancelled /\ upset' = (upset \/ \E b \in Command : Pending(b))
      BY <1>1, <2>3 DEF Start, ReplaceActivity
    <3>2. Marked'
      BY <2>1, <2>3, <3>1 DEF Marked, Live, Pending, Others, TypeOK
    <3>3. UNCHANGED Runs!runVars
      BY <2>1, <2>3 DEF Runs!runVars, LiveCommand, Draining
    <3>4. QED
      BY <3>2, <3>3
  <2>4. QED
    BY <2>2, <2>3
<1>2. ASSUME NEW c \in Command, Leaves(c)
      PROVE  Marked' /\ [Runs!Next]_(Runs!runVars)
  <2>1. Marked'
    BY <1>2 DEF Leaves, Marked, Live, Pending, Others, TypeOK
  <2>2. CASE vessel \notin Resetting
    <3>1. c = current \/ c \in cancelled
      BY <1>2, <2>2 DEF Leaves, Marked, Live
    <3>2. Runs!Finish(c)
      BY <1>2, <2>2, <3>1 DEF Leaves, Runs!Finish, Runs!Superseded, LiveCommand, Draining
    <3>3. QED
      BY <2>1, <3>2 DEF Runs!Next
  <2>3. CASE vessel \in Resetting
    BY <1>2, <2>1, <2>3 DEF Leaves, Runs!runVars, LiveCommand, Draining
  <2>4. QED
    BY <2>2, <2>3
<1>3. ASSUME NEW c \in Command, Stays(c)
      PROVE  Marked' /\ [Runs!Next]_(Runs!runVars)
  <2>1. Marked'
    BY <1>3 DEF Stays, Marked, Live, Pending, Others, TypeOK
  <2>2. UNCHANGED Runs!runVars
    BY <1>3 DEF Stays, Runs!runVars, LiveCommand, Draining
  <2>3. QED
    BY <2>1, <2>2
<1>4. CASE PortMoves \/ UNCHANGED vars
  BY <1>4 DEF PortMoves, vars, Marked, Live, Pending, Runs!runVars, LiveCommand, Draining
<1>5. QED
  BY <1>1, <1>2, <1>3, <1>4, CallbackStep, GrowsOldStays DEF Next

\* The furnace implements ExclusiveRun: one command at work, every other one that
\* has not answered has been cancelled and stays so.
THEOREM CommandsExclude == Spec => CommandsAreExclusive
<1>1. Init => Runs!Init /\ Marked
  BY DEF Init, Runs!Init, LiveCommand, Draining, Marked, Live, Pending, Idle
<1>2. TypeOK /\ TypeOK' /\ Marked /\ [Next]_vars
        => Marked' /\ [Runs!Next]_(Runs!runVars)
  BY StepRuns
<1>3. TypeOK /\ Marked
        => (vessel \notin Resetting =>
              \A c \in Command : Pending(c) => c \in Runs!Superseded)
  BY PortAssumption DEF Marked, Live, Runs!Superseded, LiveCommand, Draining, TypeOK
<1>4. QED
  BY <1>1, <1>2, <1>3, TypeCorrect, PTL DEF Spec, CommandsAreExclusive, Runs!Spec

-----------------------------------------------------------------------------
(* The outputs, and where they put the port                                *)

\* What the node has been told: an output that is switched off is off, or the
\* write was lost.
Off(d) == drive[d] => d \in lost
Told(c) ==
  /\ op[c].waits \in {"oppositeOff", "ownOn", "end", "wait", "ownOff"}
       => Off(Opposite(op[c].dir))
  /\ op[c].waits \in {"ownOff", "oppositeOn"} => Off(op[c].dir)

\* A command past its start is the only one that has not answered.
Alone(c) == op[c].waits # "start" => cancelled = {}

\* A port that was put somewhere is there, is published there, and nothing
\* drives it away or is still to be answered.
Settled ==
  placed # "none" =>
    /\ \A c \in Command : ~Pending(c)
    /\ at = EndOf(placed) /\ ~drive[Opposite(placed)]
    /\ (isOpen <=> placed = "open")

PortInv ==
  /\ Interlocked /\ Settled
  /\ busy => \E c \in Command : Pending(c)
  /\ ~upset => \A c \in Command : Live(c) => Told(c) /\ Alone(c)

LEMMA TwoDirections ==
  /\ \A d \in Direction : Opposite(d) \in Direction /\ Opposite(d) # d
                         /\ Opposite(Opposite(d)) = d
                         /\ Direction = {d, Opposite(d)}
  /\ "open" \in Direction /\ "close" \in Direction
  BY DEF Direction, Opposite

\* The command that ends is the only one, if it has succeeded.
LEMMA DonePort ==
  ASSUME TypeOK, TypeOK', Marked, PortInv, NEW c \in Command, Pending(c),
         NEW success \in BOOLEAN, Done(c, success),
         success => Resumes(c, "end") /\ at = EndOf(op[c].dir)
  PROVE  PortInv'
<1>1. Leaves(c) /\ UNCHANGED <<drive, lost, at>> /\ busy' = FALSE
  BY DoneLeaves DEF Done, OpenDone, CloseDone, Ends
<1>2. Interlocked'
  BY <1>1 DEF Leaves, Interlocked, PortInv
<1>3. ASSUME ~upset', NEW b \in Command, Live(b)'
      PROVE  (Told(b) /\ Alone(b))'
  <2>1. b # c /\ op'[b] = op[b] /\ ~upset
    BY <1>1, <1>3 DEF Leaves, Live, Others
  <2>2. CASE Live(b)
    BY <1>1, <2>1, <2>2 DEF Leaves, PortInv, Told, Alone, Off
  <2>3. CASE ~Live(b)
    BY <1>1, <1>3, <2>1, <2>3 DEF Leaves, Live, Pending
  <2>4. QED
    BY <2>2, <2>3
<1>4. Settled'
  <2>1. CASE success /\ lost = {} /\ ~upset
    <3>1. Live(c) /\ Told(c) /\ Alone(c) /\ op[c].waits = "end"
      BY <2>1 DEF Resumes, PortInv
    <3>2. op[c].dir \in Direction /\ Opposite(op[c].dir) \in Direction
      BY OperationType DEF TypeOK
    <3>3. ~drive[Opposite(op[c].dir)] /\ cancelled = {}
      BY <2>1, <3>1 DEF Told, Alone, Off
    <3>4. \A b \in Command : ~Pending(b)'
      BY <1>1, <2>1, <3>1, <3>3 DEF Leaves, Others, Marked, Live, Pending
    <3>5. placed' = op[c].dir
      BY <2>1 DEF Done, OpenDone, CloseDone, Ends
    <3>6. isOpen' <=> op[c].dir = "open"
      BY <2>1 DEF Done, OpenDone, CloseDone, Ends
    <3>7. QED
      BY <1>1, <2>1, <3>3, <3>4, <3>5, <3>6 DEF Settled, EndOf
  <2>2. CASE ~(success /\ lost = {} /\ ~upset)
    <3>1. placed' = placed
      BY <2>2 DEF Done, OpenDone, CloseDone, Ends
    <3>2. placed = "none"
      BY DEF PortInv, Settled
    <3>3. QED
      BY <3>1, <3>2 DEF Settled
  <2>3. QED
    BY <2>1, <2>2
<1>5. QED
  BY <1>1, <1>2, <1>3, <1>4 DEF PortInv

\* A command that goes on with what it has told the node.
LEMMA StaysPort ==
  ASSUME TypeOK, TypeOK', Marked, PortInv, NEW c \in Command, Stays(c),
         UNCHANGED <<at, busy, isOpen, placed>>,
         Interlocked',
         ~upset => Live(c) /\ Told(c)' /\ Alone(c)'
  PROVE  PortInv'
<1>1. placed = "none" /\ Pending(c)'
  BY DEF PortInv, Settled, Stays
<1>2. Settled' /\ (busy' => \E b \in Command : Pending(b)')
  BY <1>1 DEF Settled
<1>3. ASSUME ~upset', NEW b \in Command, Live(b)'
      PROVE  (Told(b) /\ Alone(b))'
  <2>1. CASE b = c
    BY <1>3, <2>1 DEF Stays
  <2>2. CASE b # c
    BY <1>3, <2>2 DEF Stays, Others, Live, Pending, Marked
  <2>3. QED
    BY <2>1, <2>2
<1>4. QED
  BY <1>2, <1>3 DEF PortInv

\* What a switch does to the two outputs.
OffNext(d) == drive'[d] => d \in lost'

LEMMA SwitchOff ==
  ASSUME TypeOK, NEW c, NEW d \in Direction, NEW what, Switch(c, d, FALSE, what)
  PROVE  OffNext(d) /\ (Off(Opposite(d)) => OffNext(Opposite(d)))
  BY TwoDirections DEF Switch, Off, OffNext, TypeOK

LEMMA SwitchOn ==
  ASSUME TypeOK, NEW c, NEW d \in Direction, NEW what, Switch(c, d, TRUE, what)
  PROVE  Off(Opposite(d)) => OffNext(Opposite(d))
  BY TwoDirections DEF Switch, Off, OffNext, TypeOK

LEMMA CallbackPort ==
  ASSUME TypeOK, TypeOK', Marked, PortInv, NEW c \in Command, Callback(c)
  PROVE  PortInv'
<1> DEFINE own == op[c].dir
           other == Opposite(op[c].dir)
<1>1. Pending(c)
  BY CallbackPending
<1>2. own \in Direction /\ other \in Direction /\ Opposite(other) = own
  BY OperationType, TwoDirections DEF TypeOK
<1>3. ASSUME NEW what \in Waiting, Await(c, what)
      PROVE  /\ Stays(c) /\ op'[c].waits = what /\ op'[c].dir = own
             /\ UNCHANGED <<at, busy, isOpen, placed>>
  <2>1. Stays(c) /\ op'[c] = [op[c] EXCEPT !.waits = what] /\ op'[c].waits = what
    BY <1>1, <1>3, AwaitStays
  <2>2. op'[c].dir = own
    BY <2>1 DEF TypeOK, Operation
  <2>3. QED
    BY <1>3, <2>1, <2>2 DEF Await
<1>4. ASSUME NEW what \in Waiting, Await(c, what), UNCHANGED <<drive, lost>>, Live(c),
             \/ what = "start"
             \/ /\ what \in {"end", "wait"} /\ op[c].waits # "start"
                /\ op[c].waits \in {"ownOn", "end", "wait"}
      PROVE  PortInv'
  <2>1. Stays(c) /\ op'[c].waits = what /\ op'[c].dir = own
        /\ UNCHANGED <<at, busy, isOpen, placed>>
    BY <1>3, <1>4
  <2>2. Interlocked'
    BY <1>4, <2>1 DEF Stays, Interlocked, PortInv
  <2>3. ~upset => Told(c)' /\ Alone(c)'
    BY <1>4, <2>1 DEF Stays, PortInv, Told, Alone, Off
  <2>4. QED
    BY <1>4, <2>1, <2>2, <2>3, StaysPort
<1>5. CASE CancelledReturns(c) \/ CallFails(c)
  BY <1>1, <1>5, DonePort DEF CancelledReturns, CallFails
<1>6. CASE SwitchOppositeOff(c)
  <2>1. Switch(c, other, FALSE, "oppositeOff") /\ cancelled = {} /\ Live(c)
    BY <1>6 DEF SwitchOppositeOff, Resumes
  <2>2. /\ Stays(c) /\ op'[c].waits = "oppositeOff" /\ op'[c].dir = own
        /\ UNCHANGED <<at, busy, isOpen, placed>>
    BY <1>3, <2>1 DEF Switch, Waiting, Call
  <2>3. OffNext(other)
    BY <1>2, <2>1, SwitchOff
  <2>4. Interlocked' /\ Told(c)' /\ Alone(c)'
    BY <1>2, <2>1, <2>2, <2>3 DEF Told, Alone, Off, OffNext, Stays, Interlocked, Direction
  <2>5. QED
    BY <2>1, <2>2, <2>4, StaysPort
<1>7. CASE SwitchOwnOn(c)
  <2>1. Switch(c, own, TRUE, "ownOn") /\ Live(c) /\ op[c].waits = "oppositeOff"
    BY <1>7 DEF SwitchOwnOn, Resumes
  <2>2. /\ Stays(c) /\ op'[c].waits = "ownOn" /\ op'[c].dir = own
        /\ UNCHANGED <<at, busy, isOpen, placed>>
    BY <1>3, <2>1 DEF Switch, Waiting, Call
  <2>3. ~upset => OffNext(other) /\ cancelled = {}
    BY <1>2, <2>1, SwitchOn DEF PortInv, Told, Alone
  <2>4. ~upset => Interlocked' /\ Told(c)' /\ Alone(c)'
    BY <1>2, <2>2, <2>3 DEF Told, Alone, Off, OffNext, Stays, Interlocked, Direction
  <2>5. Interlocked'
    BY <2>2, <2>4 DEF Stays, Interlocked
  <2>6. QED
    BY <2>1, <2>2, <2>4, <2>5, StaysPort
<1>8. CASE ReadEnd(c)
  BY <1>4, <1>8 DEF ReadEnd, Resumes, Waiting, Call
<1>9. CASE EndRead(c)
  <2>1. Live(c) /\ op[c].waits = "end"
    BY <1>9 DEF EndRead, Resumes
  <2>2. CASE Switch(c, own, FALSE, "ownOff")
    <3>1. /\ Stays(c) /\ op'[c].waits = "ownOff" /\ op'[c].dir = own
          /\ UNCHANGED <<at, busy, isOpen, placed>>
      BY <1>3, <2>2 DEF Switch, Waiting, Call
    <3>2. OffNext(own) /\ (~upset => OffNext(other) /\ cancelled = {})
      BY <1>2, <2>1, <2>2, SwitchOff DEF PortInv, Told, Alone
    <3>3. Interlocked' /\ (~upset => Told(c)' /\ Alone(c)')
      BY <1>2, <3>1, <3>2 DEF Told, Alone, Off, OffNext, Stays, Interlocked, Direction
    <3>4. QED
      BY <2>1, <3>1, <3>3, StaysPort
  <2>3. CASE Done(c, TRUE) /\ at = EndOf(own)
    BY <1>1, <1>9, <2>3, DonePort DEF EndRead
  <2>4. CASE Done(c, FALSE)
    BY <1>1, <2>4, DonePort
  <2>5. CASE Await(c, "wait") /\ UNCHANGED <<drive, lost>>
    BY <1>4, <2>1, <2>5 DEF Waiting
  <2>6. QED
    BY <1>9, <2>2, <2>3, <2>4, <2>5 DEF EndRead
<1>10. CASE SwitchOppositeOn(c)
  <2>1. Switch(c, other, TRUE, "oppositeOn") /\ Live(c) /\ op[c].waits = "ownOff"
    BY <1>10 DEF SwitchOppositeOn, Resumes
  <2>2. /\ Stays(c) /\ op'[c].waits = "oppositeOn" /\ op'[c].dir = own
        /\ UNCHANGED <<at, busy, isOpen, placed>>
    BY <1>3, <2>1 DEF Switch, Waiting, Call
  <2>3. ~upset => OffNext(own) /\ cancelled = {}
    BY <1>2, <2>1, SwitchOn DEF PortInv, Told, Alone
  <2>4. ~upset => Interlocked' /\ Told(c)' /\ Alone(c)'
    BY <1>2, <2>2, <2>3 DEF Told, Alone, Off, OffNext, Stays, Interlocked, Direction
  <2>5. Interlocked'
    BY <2>2, <2>4 DEF Stays, Interlocked
  <2>6. QED
    BY <2>1, <2>2, <2>4, <2>5, StaysPort
<1>11. CASE DrivenBack(c)
  BY <1>4, <1>11 DEF DrivenBack, Waiting
<1>12. QED
  BY <1>5, <1>6, <1>7, <1>8, <1>9, <1>10, <1>11 DEF Callback

LEMMA NextPort ==
  ASSUME TypeOK, TypeOK', Marked, Marked', PortInv, [Next]_vars
  PROVE  PortInv'
<1>1. ASSUME NEW c \in Command, NEW d \in Direction, Start(c, d)
      PROVE  PortInv'
  <2>1. op'[c].waits = "start" /\ Pending(c)' /\ placed' = "none"
    BY <1>1 DEF Start, Pending, Idle, TypeOK
  <2>2. Interlocked'
    BY <1>1 DEF Start, ReplaceActivity, Interlocked, PortInv
  <2>3. \A b \in Command : ~upset' /\ Live(b)' => b = c
    BY <1>1 DEF Start, Marked
  <2>4. Told(c)' /\ Alone(c)'
    BY <2>1 DEF Told, Alone
  <2>5. QED
    BY <2>1, <2>2, <2>3, <2>4 DEF PortInv, Settled
<1>2. ASSUME NEW c \in Command, GrowsOld(c)
      PROVE  PortInv'
  <2>1. Stays(c) /\ op'[c].waits = op[c].waits /\ op'[c].dir = op[c].dir
    BY <1>2, GrowsOldStays
  <2>2. Live(c) /\ UNCHANGED <<drive, lost, at, busy, isOpen, placed>>
    BY <1>2 DEF GrowsOld
  <2>3. Interlocked' /\ (~upset => Told(c)' /\ Alone(c)')
    BY <2>1, <2>2 DEF Stays, PortInv, Interlocked, Told, Alone, Off
  <2>4. QED
    BY <2>1, <2>2, <2>3, StaysPort
<1>3. CASE PortMoves
  <2>1. placed = "none"
    <3>1. ASSUME placed # "none"
          PROVE  FALSE
      BY <1>3, <3>1, PortAssumption
         DEF PortMoves, PortInv, Settled, EndOf, Opposite, TypeOK, Direction
    <3>2. QED
      BY <3>1
  <2>2. QED
    BY <1>3, <2>1 DEF PortMoves, PortInv, Settled, Interlocked, Told, Alone, Off, Live, Pending
<1>4. CASE UNCHANGED vars
  BY <1>4 DEF vars, PortInv, Settled, Interlocked, Told, Alone, Off, Live, Pending, EndOf
<1>5. QED
  BY <1>1, <1>2, <1>3, <1>4, CallbackPort DEF Next

LEMMA PortAlways == Spec => []PortInv
<1>1. Init => PortInv /\ Marked
  BY DEF Init, PortInv, Interlocked, Settled, Marked, Live, Pending, Idle, Direction
<1>2. TypeOK /\ TypeOK' /\ Marked /\ PortInv /\ [Next]_vars => Marked' /\ PortInv'
  BY StepRuns, NextPort
<1>3. QED
  BY <1>1, <1>2, TypeCorrect, PTL DEF Spec

\* The motor of a port is never told to open and to close at once: whatever
\* supersedes what, unless the node loses a write or the TIC port resets the
\* cancellable of a command that is still at work.
THEOREM OutputsInterlocked == Spec => []Interlocked
<1>1. PortInv => Interlocked
  BY DEF PortInv
<1>2. QED
  BY <1>1, PortAlways, PTL

\* A port stays where the last successful command has put it until the next
\* command, however long it takes and however many commands went before.
THEOREM PortAlwaysStaysPlaced == Spec => []PortStaysPlaced
<1>1. PortInv => PortStaysPlaced
  BY DEF PortInv, Settled, PortStaysPlaced
<1>2. QED
  BY <1>1, PortAlways, PTL

\* The end that is published is the one reached, and busy means a command.
THEOREM PublishedAlwaysFits == Spec => []PublishedFits
<1>1. PortInv => PublishedFits
  BY DEF PortInv, Settled, PublishedFits
<1>2. QED
  BY <1>1, PortAlways, PTL

-----------------------------------------------------------------------------
(* A command whose time is up comes to its end                             *)

\* What CommandsComeNearer asks of a step of a command.
Nearer(c) ==
  /\ CallbacksLeft(c)' < CallbacksLeft(c)
  /\ ~Pending(c)' \/ op'[c].age = "expired"

\* What a command that is over waits for: nothing.
OverdueInv == \A c \in Command : Pending(c) \/ op[c] = Idle

LEMMA NextOverdue ==
  ASSUME TypeOK, OverdueInv, [Next]_vars
  PROVE  OverdueInv'
<1>1. ASSUME NEW c \in Command, NEW d \in Direction, Start(c, d)
      PROVE  OverdueInv'
  <2>1. Pending(c)'
    BY <1>1 DEF Start, Pending, Idle, TypeOK
  <2>2. \A b \in Command \ {c} : op'[b] = op[b]
    BY <1>1 DEF Start, TypeOK
  <2>3. QED
    BY <2>1, <2>2 DEF OverdueInv, Pending
<1>2. ASSUME NEW c \in Command, NEW success \in BOOLEAN, Done(c, success)
      PROVE  OverdueInv'
  BY <1>2 DEF Done, OpenDone, CloseDone, Ends, TypeOK, OverdueInv, Pending
<1>3. ASSUME NEW c \in Command, Stays(c)
      PROVE  OverdueInv'
  BY <1>3 DEF Stays, Others, OverdueInv, Pending
<1>4. ASSUME NEW c \in Command, Callback(c)
      PROVE  OverdueInv'
  BY <1>2, <1>3, <1>4, CallbackCases, CallbackPending, AwaitStays DEF Switch
<1>5. CASE PortMoves \/ UNCHANGED vars
  BY <1>5 DEF PortMoves, vars, OverdueInv, Pending
<1>6. QED
  BY <1>1, <1>3, <1>4, <1>5, GrowsOldStays DEF Next

\* A command that waits for something is that many callbacks from its end.
LEMMA AwaitNearer ==
  ASSUME TypeOK, NEW c \in Command, op[c].age = "expired",
         NEW what \in Waiting, Await(c, what), Pending(c),
         <<op[c].waits, what>> \in
           {<<"ownOff", "oppositeOn">>, <<"oppositeOn", "start">>,
            <<"start", "oppositeOff">>, <<"oppositeOff", "ownOn">>,
            <<"ownOn", "end">>, <<"wait", "end">>}
  PROVE  Nearer(c)
<1>1. op'[c].waits = what /\ op'[c].age = op[c].age
  <2>1. op[c] \in Operation /\ op'[c] = [op[c] EXCEPT !.waits = what]
    BY AwaitStays DEF TypeOK
  <2>2. QED
    BY <2>1 DEF Operation
<1>2. QED
  BY <1>1 DEF Nearer, CallbacksLeft

LEMMA DoneNearer ==
  ASSUME TypeOK, NEW c \in Command, Pending(c), NEW success \in BOOLEAN, Done(c, success)
  PROVE  Nearer(c)
<1>1. op'[c] = Idle
  BY DEF Done, OpenDone, CloseDone, Ends, TypeOK
<1>2. op'[c].waits = "none" /\ ~Pending(c)'
  BY <1>1 DEF Idle, Pending
<1>3. op[c].waits \in Waiting
  BY DEF TypeOK, Operation, Pending, Waiting
<1>4. QED
  BY <1>2, <1>3 DEF Nearer, CallbacksLeft, Waiting, Call

LEMMA CallbackNearer ==
  ASSUME TypeOK, NEW c \in Command, Callback(c), op[c].age = "expired"
  PROVE  Nearer(c)
<1>1. Pending(c)
  BY CallbackPending
<1>2. CASE CancelledReturns(c) \/ CallFails(c)
  BY <1>1, <1>2, DoneNearer DEF CancelledReturns, CallFails
<1>3. CASE SwitchOppositeOff(c)
  BY <1>1, <1>3, AwaitNearer DEF SwitchOppositeOff, Resumes, Switch, Waiting, Call
<1>4. CASE SwitchOwnOn(c)
  BY <1>1, <1>4, AwaitNearer DEF SwitchOwnOn, Resumes, Switch, Waiting, Call
<1>5. CASE ReadEnd(c)
  BY <1>1, <1>5, AwaitNearer DEF ReadEnd, Resumes, Waiting, Call
<1>6. CASE EndRead(c)
  <2>1. \E success \in BOOLEAN : Done(c, success)
    BY <1>6 DEF EndRead
  <2>2. QED
    BY <1>1, <2>1, DoneNearer
<1>7. CASE SwitchOppositeOn(c)
  BY <1>1, <1>7, AwaitNearer DEF SwitchOppositeOn, Resumes, Switch, Waiting, Call
<1>8. CASE DrivenBack(c)
  BY <1>1, <1>8, AwaitNearer DEF DrivenBack, Waiting, Call
<1>9. QED
  BY <1>2, <1>3, <1>4, <1>5, <1>6, <1>7, <1>8 DEF Callback

LEMMA NextNearer ==
  ASSUME TypeOK, OverdueInv, [Next]_vars,
         NEW c \in Command, op[c].age = "expired", op'[c] # op[c]
  PROVE  Nearer(c)
<1>1. Pending(c)
  BY DEF OverdueInv, Idle
<1>2. ASSUME NEW b \in Command, NEW d \in Direction, Start(b, d)
      PROVE  FALSE
  <2>1. b # c /\ op'[c] = op[c]
    BY <1>1, <1>2 DEF Start, TypeOK
  <2>2. QED
    BY <2>1
<1>3. ASSUME NEW b \in Command, Callback(b) \/ GrowsOld(b)
      PROVE  b = c
  BY <1>3, CallbackStep, GrowsOldStays DEF Stays, Leaves, Others
<1>4. ~GrowsOld(c) /\ ~PortMoves /\ ~UNCHANGED vars
  BY DEF GrowsOld, PortMoves, vars
<1>5. QED
  BY <1>2, <1>3, <1>4, CallbackNearer DEF Next

\* However the port sticks and whatever the node does not do, a command whose 12
\* seconds are over is answered after at most six more callbacks of its own.
THEOREM OverdueCommandsEnd == Spec => CommandsComeNearer
<1>1. Init => OverdueInv
  BY DEF Init, OverdueInv
<1>2. TypeOK /\ OverdueInv /\ [Next]_vars =>
        /\ OverdueInv'
        /\ [\A c \in Command : op[c].age = "expired" /\ op'[c] # op[c] =>
              /\ CallbacksLeft(c)' < CallbacksLeft(c)
              /\ ~Pending(c)' \/ op'[c].age = "expired"]_vars
  BY NextOverdue, NextNearer DEF Nearer
<1>3. QED
  BY <1>1, <1>2, TypeCorrect, PTL DEF Spec, CommandsComeNearer

=============================================================================
