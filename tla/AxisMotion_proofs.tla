-------------------------- MODULE AxisMotion_proofs --------------------------
(***************************************************************************)
(* Programs are exclusive, and an axis stays where its last movement put   *)
(* it.  The first rests on AXIS_CANCEL alone; the second on what the       *)
(* operation in progress has told its motor.                               *)
(***************************************************************************)
EXTENDS AxisMotion, TLAPS

-----------------------------------------------------------------------------
(* Types                                                                   *)

LEMMA OpType ==
  ASSUME NEW ops \in Seq(Op), ops # <<>>
  PROVE  Head(ops) \in Op /\ Tail(ops) \in Seq(Op)
  OBVIOUS

LEMMA FreshType ==
  ASSUME NEW ops \in Seq(Op)
  PROVE  Fresh(ops) \in Progress
  BY AxisAssumption DEF Fresh, Progress, Position

LEMMA EndedType == Fresh(<<>>) \in Progress
<1>1. <<>> \in Seq(Op)
  OBVIOUS
<1>2. QED
  BY <1>1, FreshType

\* What a step of a program may do keeps the types.
LEMMA ParticularTypes ==
  ASSUME TypeOK, NEW r \in Run, Pending(r)
  PROVE  /\ Now(r) \in Op
         /\ \A where \in SUBSET Position : Succeeds(r, where) => TypeOK'
         /\ Abandon(r) => TypeOK'
         /\ \A g \in Position, c \in Progress : Drive(r, g, c) => TypeOK'
         /\ \A ph \in {"start", "sent", "position", "final", "stall", "off"} :
              Goes(r, ph) => TypeOK'
<1>1. Now(r) \in Op /\ Tail(prog[r].ops) \in Seq(Op) /\ Now(r).axis \in Axis
  BY OpType DEF Pending, Now, TypeOK, Progress, Op
<1>2. Fresh(Tail(prog[r].ops)) \in Progress /\ Fresh(<<>>) \in Progress
  BY <1>1, FreshType, EndedType
<1>3. ASSUME NEW where \in SUBSET Position, Succeeds(r, where)
      PROVE  TypeOK'
  BY <1>1, <1>2, <1>3 DEF TypeOK, Succeeds
<1>4. ASSUME Abandon(r)
      PROVE  TypeOK'
  BY <1>2, <1>4 DEF TypeOK, Abandon
<1>5. ASSUME NEW g \in Position, NEW c \in Progress, Drive(r, g, c)
      PROVE  TypeOK'
  BY <1>1, <1>5 DEF TypeOK, Drive
<1>6. ASSUME NEW ph \in {"start", "sent", "position", "final", "stall", "off"},
             Goes(r, ph)
      PROVE  TypeOK'
  <2>1. [prog[r] EXCEPT !.phase = ph] \in Progress
    BY DEF TypeOK, Progress
  <2>2. QED
    BY <1>6, <2>1 DEF TypeOK, Goes
<1>7. QED
  BY <1>1, <1>3, <1>4, <1>5, <1>6

LEMMA MoveCancelType ==
  ASSUME TypeOK, MoveCancel
  PROVE  goal' \in [Axis -> Position] /\ cancelled' \subseteq Run
<1>1. CASE current # NoRun /\ Live(current)
  <2>1. current \in Run /\ Now(current).axis \in Axis /\ prog[current].read \in Position
    BY <1>1, ParticularTypes DEF Live, TypeOK, Progress, Op
  <2>2. QED
    BY <1>1, <2>1 DEF MoveCancel, StopGoal, TypeOK
<1>2. QED
  BY <1>1 DEF MoveCancel, TypeOK

LEMMA CallbackType ==
  ASSUME TypeOK, NEW r \in Run, Callback(r)
  PROVE  TypeOK'
<1>1. Pending(r)
  BY DEF Callback, CancelledReturns, OtherDone, GoSend, GoSent, GoPosition, GoFinal,
         GoStallGuard, SensorSend, SensorSent, SensorFinal, SensorPosition, SensorOff,
         Waits, Live
<1> DEFINE c == prog[r]
           a == Now(r).axis
<1>2. /\ c \in Progress /\ Now(r) \in Op /\ a \in Axis /\ Now(r).to \in Position
      /\ Now(r).repeat \in 0..MaxRepeat /\ at[a] \in Position
  BY <1>1, ParticularTypes DEF TypeOK, Op
<1>3. Fresh(Tail(prog[r].ops)) \in Progress /\ Fresh(<<>>) \in Progress
  <2>1. prog[r].ops \in Seq(Op) /\ prog[r].ops # <<>>
    BY <1>1 DEF TypeOK, Progress, Pending
  <2>2. QED
    BY <2>1, OpType, FreshType, EndedType
<1>4. CASE CancelledReturns(r)
  BY <1>3, <1>4 DEF TypeOK, CancelledReturns
<1>5. CASE OtherDone(r)
  BY <1>3, <1>5 DEF TypeOK, OtherDone
<1>6. CASE GoSend(r)
  <2>1. [c EXCEPT !.phase = "sent"] \in Progress
    BY <1>2 DEF Progress
  <2>2. QED
    BY <1>1, <1>2, <1>6, <2>1, ParticularTypes DEF GoSend
<1>7. CASE GoSent(r)
  BY <1>1, <1>7, ParticularTypes DEF GoSent
<1>8. CASE GoPosition(r)
  <2>1. \A ph \in {"stall", "final"} :
          [c EXCEPT !.read = at[a], !.phase = ph] \in Progress
    BY <1>2 DEF Progress
  <2>2. CASE Abandon(r)
    BY <1>1, <2>2, ParticularTypes
  <2>3. CASE ~Abandon(r)
    BY <1>8, <2>1, <2>3 DEF GoPosition, TypeOK
  <2>4. QED
    BY <2>2, <2>3
<1>9. CASE GoFinal(r)
  <2>1. CASE Goes(r, "position")
    BY <1>1, <2>1, ParticularTypes
  <2>2. CASE Drive(r, Now(r).to, [c EXCEPT !.repeat = @ + 1, !.phase = "sent"]) /\ Resends(r)
    <3>1. c.repeat \in 0..MaxRepeat /\ c.repeat < Now(r).repeat
      BY <1>2, <2>2 DEF Progress, Resends
    <3>2. c.repeat + 1 \in 0..MaxRepeat
      BY <1>2, <3>1, AxisAssumption
    <3>3. [c EXCEPT !.repeat = @ + 1, !.phase = "sent"] \in Progress
      <4> HIDE DEF c
      <4> QED BY <1>2, <3>2 DEF Progress
    <3>4. QED
      BY <1>1, <1>2, <2>2, <3>3, ParticularTypes
  <2>3. CASE Succeeds(r, {q \in Position : q <= Now(r).to})
    BY <1>1, <2>3, ParticularTypes
  <2>4. CASE /\ prog[r].finals < FinalRepeats
             /\ prog' = [prog EXCEPT ![r].finals = @ + 1, ![r].phase = "position"]
             /\ UNCHANGED <<at, goal, cancelled, current, placed>>
    <3>1. c.finals + 1 \in 0..FinalRepeats
      BY <1>2, <2>4, AxisAssumption DEF Progress
    <3>2. [c EXCEPT !.finals = @ + 1, !.phase = "position"] \in Progress
      <4> HIDE DEF c
      <4> QED BY <1>2, <3>1 DEF Progress
    <3>3. QED
      BY <2>4, <3>2 DEF TypeOK
  <2>5. CASE Abandon(r)
    BY <1>1, <2>5, ParticularTypes
  <2>6. QED
    BY <1>9, <2>1, <2>2, <2>3, <2>4, <2>5 DEF GoFinal
<1>10. CASE GoStallGuard(r)
  <2>1. Around(Now(r).to, 1) \in SUBSET Position
    BY DEF Around
  <2>2. QED
    BY <1>1, <1>10, <2>1, ParticularTypes DEF GoStallGuard
<1>11. CASE SensorSend(r)
  <2>1. [c EXCEPT !.phase = "sent"] \in Progress
    BY <1>2 DEF Progress
  <2>2. 0 \in Position
    BY AxisAssumption DEF Position
  <2>3. QED
    BY <1>1, <1>11, <2>1, <2>2, ParticularTypes DEF SensorSend
<1>12. CASE SensorSent(r)
  BY <1>1, <1>12, ParticularTypes DEF SensorSent
<1>13. CASE SensorFinal(r)
  <2>1. {0} \in SUBSET Position
    BY AxisAssumption DEF Position
  <2>2. QED
    BY <1>1, <1>13, <2>1, ParticularTypes DEF SensorFinal
<1>14. CASE SensorPosition(r)
  <2>1. /\ [c EXCEPT !.read = at[a], !.phase = "off"] \in Progress
        /\ [c EXCEPT !.read = at[a], !.old = at[a], !.phase = "final"] \in Progress
    BY <1>2 DEF Progress
  <2>2. Clip(at[a] + SensorStep) \in Position
    BY <1>2, AxisAssumption DEF Clip, Position
  <2>3. CASE at[a] = c.old
    BY <1>1, <1>14, <2>1, <2>2, <2>3, ParticularTypes DEF SensorPosition
  <2>4. CASE at[a] # c.old
    BY <1>14, <2>1, <2>4 DEF SensorPosition, TypeOK
  <2>5. QED
    BY <2>3, <2>4
<1>15. CASE SensorOff(r)
  BY <1>1, <1>15, ParticularTypes DEF SensorOff
<1>16. QED
  BY <1>4, <1>5, <1>6, <1>7, <1>8, <1>9, <1>10, <1>11, <1>12, <1>13, <1>14, <1>15
     DEF Callback

LEMMA NextType ==
  ASSUME TypeOK, [Next]_vars
  PROVE  TypeOK'
<1>1. ASSUME NEW r \in Run, NEW p \in Program, Ptprun(r, p)
      PROVE  TypeOK'
  <2>1. Fresh(p) \in Progress
    BY AxisAssumption, FreshType
  <2>2. QED
    BY <1>1, <2>1, MoveCancelType DEF Ptprun, TypeOK
<1>2. ASSUME NEW r \in Run, CallFails(r)
      PROVE  TypeOK'
  BY <1>2, ParticularTypes DEF CallFails, Live
<1>3. ASSUME NEW r \in Run, Expire(r)
      PROVE  TypeOK'
  <2>1. [prog[r] EXCEPT !.expired = TRUE] \in Progress
    BY DEF TypeOK, Progress
  <2>2. QED
    BY <1>3, <2>1 DEF Expire, TypeOK
<1>4. CASE PtprunNothing
  BY <1>4, MoveCancelType DEF PtprunNothing, TypeOK
<1>5. ASSUME NEW a \in Axis, MotorMoves(a)
      PROVE  TypeOK'
  <2>1. (IF at[a] < goal[a] THEN at[a] + 1 ELSE at[a] - 1) \in Position
    BY <1>5, AxisAssumption DEF MotorMoves, TypeOK, Position
  <2>2. QED
    BY <1>5, <2>1 DEF MotorMoves, TypeOK
<1>6. CASE UNCHANGED vars
  BY <1>6 DEF vars, TypeOK
<1>7. QED
  BY <1>1, <1>2, <1>3, <1>4, <1>5, <1>6, CallbackType DEF Next

\* The state of the axes and programs keeps its types.
THEOREM TypeCorrect == Spec => []TypeOK
<1>1. Init => TypeOK
  BY EndedType DEF Init, TypeOK
<1>2. QED
  BY <1>1, NextType, PTL DEF Spec

-----------------------------------------------------------------------------
(* Exclusiveness                                                           *)

\* The program that is not cancelled is the one AXIS_CANCEL belongs to, and a
\* cancelled one has a callback to come.
Marked ==
  /\ \A r \in Run : Live(r) => current = r
  /\ \A r \in cancelled : Pending(r)

\* What a callback does to the programs: it is the step of one of them.
StepOf(r) ==
  /\ Pending(r) /\ current' = current
  /\ \A q \in Run \ {r} : prog'[q] = prog[q]
  /\ \/ Live(r) /\ cancelled' = cancelled
     \/ cancelled' = cancelled \ {r} /\ ~Pending(r)'

LEMMA CallbackIsStep ==
  ASSUME TypeOK, NEW r \in Run, Callback(r) \/ CallFails(r) \/ Expire(r)
  PROVE  StepOf(r)
<1>1. CASE Callback(r)
  <2>1. CASE CancelledReturns(r)
    BY <2>1 DEF CancelledReturns, StepOf, TypeOK, Pending, Fresh
  <2>2. CASE ~CancelledReturns(r)
    BY <1>1, <2>2
       DEF Callback, OtherDone, GoSend, GoSent, GoPosition, GoFinal, GoStallGuard,
           SensorSend, SensorSent, SensorFinal, SensorPosition, SensorOff, Waits, Live,
           Succeeds, Abandon, Drive, Goes, StepOf, TypeOK
  <2>3. QED
    BY <2>1, <2>2
<1>2. CASE CallFails(r)
  BY <1>2 DEF CallFails, Abandon, Live, StepOf, TypeOK
<1>3. CASE Expire(r)
  BY <1>3 DEF Expire, Live, StepOf, TypeOK
<1>4. QED
  BY <1>1, <1>2, <1>3

LEMMA SupersededIsPending ==
  ASSUME TypeOK, Marked
  PROVE  Runs!Superseded = {r \in Run : Pending(r)}
  BY AxisAssumption DEF Runs!Superseded, LiveRun, Draining, Live, Marked, TypeOK

\* MOVE_cancel leaves no live program.
LEMMA MoveCancelStops ==
  ASSUME TypeOK, Marked, MoveCancel
  PROVE  cancelled' = {r \in Run : Pending(r)}
<1>1. CASE current # NoRun /\ Live(current)
  BY <1>1 DEF MoveCancel, Marked, Live, TypeOK
<1>2. CASE ~(current # NoRun /\ Live(current))
  BY <1>2, AxisAssumption DEF MoveCancel, Marked, Live, TypeOK
<1>3. QED
  BY <1>1, <1>2

LEMMA StepRuns ==
  ASSUME TypeOK, TypeOK', Marked, [Next]_vars
  PROVE  Marked' /\ [Runs!Next]_(Runs!runVars)
<1>1. ASSUME NEW r \in Run, NEW p \in Program, Ptprun(r, p)
      PROVE  Marked' /\ Runs!Start(r)
  <2>1. p # <<>> /\ Fresh(p).ops = p
    BY AxisAssumption DEF Fresh
  <2>2. /\ cancelled' = {q \in Run : Pending(q)} /\ ~Pending(r) /\ current' = r
        /\ \A q \in Run : Pending(q)' <=> Pending(q) \/ q = r
    BY <1>1, <2>1, MoveCancelStops DEF Ptprun, TypeOK, Pending
  <2>3. LiveRun' = r /\ Draining' = Runs!Superseded /\ r \notin Runs!Superseded
    BY <2>2, SupersededIsPending, AxisAssumption DEF LiveRun, Draining, Live
  <2>4. Marked'
    BY <2>2 DEF Marked, Live
  <2>5. QED
    BY <2>3, <2>4 DEF Runs!Start
<1>2. CASE PtprunNothing
  <2>1. /\ cancelled' = {q \in Run : Pending(q)} /\ current' = NoRun
        /\ \A q \in Run : Pending(q)' <=> Pending(q)
    BY <1>2, MoveCancelStops DEF PtprunNothing, Pending
  <2>2. LiveRun' = NoRun /\ Draining' = Runs!Superseded
    BY <2>1, SupersededIsPending DEF LiveRun, Draining
  <2>3. Marked'
    BY <2>1 DEF Marked, Live
  <2>4. CASE LiveRun = NoRun
    BY <2>2, <2>3, <2>4 DEF Runs!Superseded, Runs!runVars
  <2>5. CASE LiveRun # NoRun
    BY <2>2, <2>3, <2>5 DEF Runs!Next, Runs!Cancel
  <2>6. QED
    BY <2>4, <2>5
<1>3. ASSUME NEW r \in Run, StepOf(r)
      PROVE  Marked' /\ [Runs!Next]_(Runs!runVars)
  <2>1. \A q \in Run \ {r} : Pending(q)' <=> Pending(q)
    BY <1>3 DEF StepOf, Pending
  <2>2. Marked'
    BY <1>3, <2>1 DEF StepOf, Marked, Live, TypeOK
  <2>3. r \in Runs!Superseded
    BY <1>3, SupersededIsPending DEF StepOf
  <2>4. CASE Pending(r)'
    <3>1. cancelled' = cancelled /\ Live(r) /\ current' = current
      BY <1>3, <2>4 DEF StepOf
    <3>2. LiveRun' = LiveRun /\ Draining' = Draining
      BY <2>1, <2>4, <3>1, AxisAssumption DEF LiveRun, Draining, Live, Marked, TypeOK
    <3>3. QED
      BY <2>2, <3>2 DEF Runs!runVars
  <2>5. CASE ~Pending(r)'
    <3>1. LiveRun' = IF r = LiveRun THEN NoRun ELSE LiveRun
      BY <1>3, <2>1, <2>5, AxisAssumption DEF StepOf, LiveRun, Live, Marked, TypeOK
    <3>2. Draining' = Draining \ {r}
      BY <1>3, <2>1, <2>5 DEF StepOf, Draining, Live, TypeOK
    <3>3. QED
      BY <2>2, <2>3, <3>1, <3>2 DEF Runs!Next, Runs!Finish
  <2>6. QED
    BY <2>4, <2>5
<1>4. CASE (\E a \in Axis : MotorMoves(a)) \/ UNCHANGED vars
  BY <1>4 DEF MotorMoves, vars, Marked, Live, Pending, LiveRun, Draining, Runs!runVars
<1>5. QED
  BY <1>1, <1>2, <1>3, <1>4, CallbackIsStep DEF Next, Runs!Next

\* Every command supersedes the program at work, and no superseded program
\* becomes live again: the axis service implements ExclusiveRun.
THEOREM ProgramsAreExclusive == Spec => RunsAreExclusive
<1>1. Init => Runs!Init /\ Marked
  BY AxisAssumption DEF Init, Runs!Init, Marked, LiveRun, Draining, Live, Pending, Fresh
<1>2. TypeOK /\ TypeOK' /\ Marked /\ [Next]_vars => Marked' /\ [Runs!Next]_(Runs!runVars)
  BY StepRuns
<1>3. TypeOK /\ Marked => \A r \in Run : Pending(r) => r \in Runs!Superseded
  BY SupersededIsPending
<1>4. QED
  BY <1>1, <1>2, <1>3, TypeCorrect, PTL DEF Spec, RunsAreExclusive, Runs!Spec

-----------------------------------------------------------------------------
(* Axes stay where they were put                                           *)

\* An axis and its goal are where the last movement may have put it, and
\* everything between the two is such a place as well.
Rests(a) ==
  /\ at[a] \in placed[a] /\ goal[a] \in placed[a]
  /\ \A p, q \in placed[a] : \A x \in Position : p <= x /\ x <= q => x \in placed[a]

\* The operation of the live program has told its motor where to go, and knows
\* an axis that it is through with.
Driven(r) ==
  LET op == Now(r)
      c  == prog[r]
  IN /\ c.phase # "start" \/ c.read > 0 => placed[op.axis] = Position
     /\ op.kind = "go" /\ c.phase # "start" => goal[op.axis] = op.to
     /\ op.kind = "go" /\ c.phase = "stall" => at[op.axis] \in Around(op.to, 1)
     /\ op.kind = "sensor" /\ c.phase \in {"sent", "final", "position"}
          => goal[op.axis] = 0

MotionInv ==
  /\ \A a \in Axis : Rests(a)
  /\ \A r \in Run : Live(r) => Driven(r)

\* A movement that begins, or a motor that is stopped, may go anywhere.
LEMMA FreeRests ==
  ASSUME TypeOK', NEW a \in Axis, placed'[a] = Position
  PROVE  Rests(a)'
  BY DEF Rests, TypeOK

LEMMA SameRests ==
  ASSUME NEW a \in Axis, Rests(a), placed'[a] = placed[a], goal'[a] = goal[a], at'[a] = at[a]
  PROVE  Rests(a)'
  BY DEF Rests

LEMMA CommandMotion ==
  ASSUME TypeOK, TypeOK', ~WritesMayBeLost, Marked, MotionInv, MoveCancel,
         UNCHANGED <<at, placed>>
  PROVE  \A a \in Axis : Rests(a)'
<1> SUFFICES ASSUME NEW a \in Axis
             PROVE  Rests(a)'
  OBVIOUS
<1>1. CASE goal'[a] = goal[a]
  BY <1>1, SameRests DEF MotionInv
<1>2. CASE goal'[a] # goal[a]
  <2>1. current \in Run /\ Live(current) /\ goal' = StopGoal(current)
    BY <1>2 DEF MoveCancel, TypeOK
  <2>2. Now(current).axis = a /\ prog[current].read > 0
    BY <1>2, <2>1 DEF StopGoal, TypeOK
  <2>3. placed[a] = Position
    BY <2>1, <2>2 DEF MotionInv, Driven
  <2>4. QED
    BY <2>3, FreeRests
<1>3. QED
  BY <1>1, <1>2

\* The three ways in which an operation goes on.
LEMMA DriveMotion ==
  ASSUME TypeOK, TypeOK', ~WritesMayBeLost, MotionInv, NEW r \in Run, Pending(r),
         NEW g \in Position, NEW c \in Progress, Drive(r, g, c)
  PROVE  /\ \A a \in Axis : Rests(a)'
         /\ goal'[Now(r).axis] = g /\ placed'[Now(r).axis] = Position
<1>1. Now(r).axis \in Axis
  BY ParticularTypes DEF Op
<1>2. goal'[Now(r).axis] = g /\ placed'[Now(r).axis] = Position
  BY <1>1 DEF Drive, TypeOK
<1>3. ASSUME NEW a \in Axis, a # Now(r).axis
      PROVE  Rests(a)'
  BY <1>1, <1>3, SameRests DEF Drive, TypeOK, MotionInv
<1>4. QED
  BY <1>2, <1>3, FreeRests

LEMMA SuccessMotion ==
  ASSUME TypeOK, MotionInv, NEW r \in Run, Pending(r), NEW where \in SUBSET Position,
         Succeeds(r, where),
         at[Now(r).axis] \in where, goal[Now(r).axis] \in where,
         \A p, q \in where : \A x \in Position : p <= x /\ x <= q => x \in where
  PROVE  (\A a \in Axis : Rests(a)') /\ prog'[r].phase = "start" /\ prog'[r].read = 0
<1>1. Now(r).axis \in Axis
  BY ParticularTypes DEF Op
<1>2. ASSUME NEW a \in Axis, a # Now(r).axis
      PROVE  Rests(a)'
  BY <1>1, <1>2, SameRests DEF Succeeds, TypeOK, MotionInv
<1>3. ASSUME NEW a \in Axis, a = Now(r).axis
      PROVE  Rests(a)'
  <2>1. placed'[a] = where /\ at'[a] = at[a] /\ goal'[a] = goal[a]
    BY <1>3 DEF Succeeds, TypeOK
  <2>2. QED
    BY <1>3, <2>1 DEF Rests
<1>4. prog'[r].phase = "start" /\ prog'[r].read = 0
  BY DEF Succeeds, TypeOK, Fresh
<1>5. QED
  BY <1>2, <1>3, <1>4

\* An operation that waits for its next answer, the motors as they were.
LEMMA StillDriven ==
  ASSUME MotionInv, NEW r \in Run, Live(r),
         at' = at, goal' = goal, placed' = placed,
         prog'[r].ops = prog[r].ops,
         \/ prog[r].phase # "start"
         \/ prog'[r].phase = "start" /\ prog'[r].read = prog[r].read,
         Now(r).kind = "go" /\ prog'[r].phase = "stall"
           => prog[r].phase = "stall" \/ at[Now(r).axis] \in Around(Now(r).to, 1),
         Now(r).kind = "sensor" /\ prog'[r].phase \in {"sent", "final", "position"}
           => prog[r].phase \in {"sent", "final", "position"}
  PROVE  Driven(r)'
<1>1. Now(r)' = Now(r)
  BY DEF Now
<1>2. QED
  BY <1>1 DEF MotionInv, Driven, Around

\* An operation that has just sent a goal.
LEMMA NewlyDriven ==
  ASSUME TypeOK, TypeOK', ~WritesMayBeLost, MotionInv, NEW r \in Run, Pending(r),
         NEW g \in Position, NEW c \in Progress, Drive(r, g, c),
         c.ops = prog[r].ops, c.phase \in {"sent", "off"},
         Now(r).kind = "go" => g = Now(r).to,
         Now(r).kind = "sensor" /\ c.phase = "sent" => g = 0
  PROVE  (\A a \in Axis : Rests(a)') /\ Driven(r)'
<1>1. prog'[r] = c
  BY DEF Drive, TypeOK
<1>2. Now(r)' = Now(r)
  BY <1>1 DEF Now
<1>3. /\ \A a \in Axis : Rests(a)'
      /\ goal'[Now(r).axis] = g /\ placed'[Now(r).axis] = Position
  BY DriveMotion
<1>4. QED
  BY <1>1, <1>2, <1>3 DEF Driven

LEMMA UnmovedMotion ==
  ASSUME TypeOK, MotionInv, UNCHANGED <<at, goal, placed>>
  PROVE  \A a \in Axis : Rests(a)'
  BY SameRests DEF MotionInv

\* An operation that ends leaves one that has not begun, or none.
LEMMA EndMotion ==
  ASSUME TypeOK, NEW r \in Run, prog'[r].phase = "start", prog'[r].read = 0
  PROVE  Driven(r)'
  BY DEF Driven

LEMMA CallbackMotion ==
  ASSUME TypeOK, TypeOK', ~WritesMayBeLost, MotionInv, NEW r \in Run, Callback(r)
  PROVE  (\A a \in Axis : Rests(a)') /\ (Live(r)' => Driven(r)')
<1> DEFINE b == Now(r).axis
           to == Now(r).to
<1>1. CASE CancelledReturns(r)
  BY <1>1, UnmovedMotion, EndMotion DEF CancelledReturns, Fresh, TypeOK
<1>2. CASE ~CancelledReturns(r)
  <2>1. Live(r) /\ Pending(r) /\ Driven(r)
    BY <1>2 DEF Callback, OtherDone, GoSend, GoSent, GoPosition, GoFinal, GoStallGuard,
                SensorSend, SensorSent, SensorFinal, SensorPosition, SensorOff,
                Waits, Live, MotionInv
  <2>2. /\ Now(r) \in Op /\ b \in Axis /\ to \in Position /\ at[b] \in Position
        /\ prog[r] \in Progress
    BY <2>1, ParticularTypes DEF TypeOK, Op
  <2>3. ASSUME Abandon(r)
        PROVE  (\A a \in Axis : Rests(a)') /\ Driven(r)'
    BY <2>3, UnmovedMotion, EndMotion DEF Abandon, Fresh, TypeOK
  <2>4. ASSUME NEW ph \in {"position", "final", "start"}, Goes(r, ph),
               prog[r].phase # "start",
               ph = "start" => FALSE,
               Now(r).kind = "sensor" => prog[r].phase \in {"sent", "final", "position"}
        PROVE  (\A a \in Axis : Rests(a)') /\ Driven(r)'
    <3>1. UNCHANGED <<at, goal, placed>> /\ prog'[r].ops = prog[r].ops
          /\ prog'[r].phase = ph
      BY <2>2, <2>4 DEF Goes, TypeOK, Progress
    <3>2. Driven(r)'
      BY <2>1, <2>4, <3>1, StillDriven
    <3>3. QED
      BY <3>1, <3>2, UnmovedMotion
  <2>5. CASE OtherDone(r)
    BY <2>5, UnmovedMotion, EndMotion DEF OtherDone, Fresh, TypeOK
  <2>6. CASE GoSend(r)
    <3> DEFINE c == [prog[r] EXCEPT !.phase = "sent"]
    <3>1. c \in Progress /\ c.ops = prog[r].ops /\ c.phase = "sent"
      BY <2>2 DEF Progress
    <3>2. Drive(r, to, c) /\ Now(r).kind = "go"
      BY <2>6 DEF GoSend, Waits
    <3>3. QED
      BY <2>1, <2>2, <3>1, <3>2, NewlyDriven
  <2>7. CASE GoSent(r)
    BY <2>4, <2>7 DEF GoSent, Waits
  <2>8. CASE GoPosition(r)
    <3> DEFINE near == at[b] \in Around(to, 1)
    <3>1. CASE ~near /\ prog[r].expired
      BY <2>3, <2>8, <3>1 DEF GoPosition
    <3>2. CASE ~(~near /\ prog[r].expired)
      <4>1. /\ UNCHANGED <<at, goal, placed>> /\ prog'[r].ops = prog[r].ops
            /\ prog'[r].phase = IF near THEN "stall" ELSE "final"
        BY <2>2, <2>8, <3>2 DEF GoPosition, TypeOK, Progress
      <4>2. prog[r].phase = "position" /\ Now(r).kind = "go"
        BY <2>8 DEF GoPosition, Waits
      <4>3. Driven(r)'
        BY <2>1, <4>1, <4>2, StillDriven
      <4>4. QED
        BY <4>1, <4>3, UnmovedMotion
    <3>3. QED
      BY <3>1, <3>2
  <2>9. CASE GoFinal(r)
    <3>1. Now(r).kind = "go" /\ prog[r].phase = "final" /\ goal[b] = to
      BY <2>1, <2>9 DEF GoFinal, Waits, Driven
    <3>2. CASE at[b] # 0
      BY <2>4, <2>9, <3>1, <3>2 DEF GoFinal
    <3>3. CASE at[b] = 0 /\ Resends(r)
      <4> DEFINE c == [prog[r] EXCEPT !.repeat = @ + 1, !.phase = "sent"]
      <4>1. prog[r].repeat + 1 \in 0..MaxRepeat
        <5>1. Now(r).repeat \in 0..MaxRepeat /\ prog[r].repeat \in 0..MaxRepeat
          BY <2>2 DEF Op, Progress
        <5>2. QED
          BY <3>3, <5>1, AxisAssumption DEF Resends
      <4>2. c \in Progress /\ c.ops = prog[r].ops /\ c.phase = "sent"
        BY <2>2, <4>1 DEF Progress
      <4>3. Drive(r, to, c)
        BY <2>9, <3>3 DEF GoFinal
      <4>4. QED
        BY <2>1, <2>2, <3>1, <4>2, <4>3, NewlyDriven
    <3>4. CASE Succeeds(r, {q \in Position : q <= to}) /\ at[b] = 0
      <4> DEFINE where == {q \in Position : q <= to}
      <4>1. /\ at[b] \in where /\ goal[b] \in where
            /\ \A p, q \in where : \A x \in Position : p <= x /\ x <= q => x \in where
        BY <2>2, <3>1, <3>4, AxisAssumption DEF Position
      <4>2. (\A a \in Axis : Rests(a)') /\ prog'[r].phase = "start" /\ prog'[r].read = 0
        BY <2>1, <3>4, <4>1, SuccessMotion
      <4>3. QED
        BY <4>2, EndMotion
    <3>5. CASE /\ prog' = [prog EXCEPT ![r].finals = @ + 1, ![r].phase = "position"]
               /\ UNCHANGED <<at, goal, cancelled, current, placed>>
      <4>1. prog'[r].ops = prog[r].ops /\ prog'[r].phase = "position"
        BY <2>2, <3>5 DEF TypeOK, Progress
      <4>2. Driven(r)'
        BY <2>1, <3>1, <3>5, <4>1, StillDriven
      <4>3. QED
        BY <3>5, <4>2, UnmovedMotion
    <3>6. CASE Abandon(r)
      BY <2>3, <3>6
    <3>7. QED
      BY <2>9, <3>2, <3>3, <3>4, <3>5, <3>6 DEF GoFinal
  <2>10. CASE GoStallGuard(r)
    <3>1. Now(r).kind = "go" /\ prog[r].phase = "stall"
      BY <2>10 DEF GoStallGuard, Waits
    <3>2. CASE Succeeds(r, Around(to, 1))
      <4>1. goal[b] = to /\ at[b] \in Around(to, 1)
        BY <2>1, <3>1 DEF Driven
      <4>2. /\ to \in Around(to, 1)
            /\ \A p, q \in Around(to, 1) :
                 \A x \in Position : p <= x /\ x <= q => x \in Around(to, 1)
        BY <2>2, AxisAssumption DEF Around, Position
      <4>3. Around(to, 1) \in SUBSET Position
        BY DEF Around
      <4>4. (\A a \in Axis : Rests(a)') /\ prog'[r].phase = "start" /\ prog'[r].read = 0
        BY <2>1, <3>2, <4>1, <4>2, <4>3, SuccessMotion
      <4>5. QED
        BY <4>4, EndMotion
    <3>3. QED
      BY <2>3, <2>10, <3>2 DEF GoStallGuard
  <2>11. CASE SensorSend(r)
    <3> DEFINE c == [prog[r] EXCEPT !.phase = "sent"]
    <3>1. c \in Progress /\ c.ops = prog[r].ops /\ c.phase = "sent"
      BY <2>2 DEF Progress
    <3>2. Drive(r, 0, c) /\ Now(r).kind = "sensor" /\ 0 \in Position
      BY <2>11, AxisAssumption DEF SensorSend, Waits, Position
    <3>3. QED
      BY <2>1, <2>2, <3>1, <3>2, NewlyDriven
  <2>12. CASE SensorSent(r)
    BY <2>4, <2>12 DEF SensorSent, Waits
  <2>13. CASE SensorFinal(r)
    <3>1. Now(r).kind = "sensor" /\ prog[r].phase = "final" /\ goal[b] = 0
      BY <2>1, <2>13 DEF SensorFinal, Waits, Driven
    <3>2. CASE at[b] = 0
      <4>1. Succeeds(r, {0})
        BY <2>13, <3>2 DEF SensorFinal
      <4>2. \A p, q \in {0} : \A x \in Position : p <= x /\ x <= q => x \in {0}
        BY AxisAssumption DEF Position
      <4>3. {0} \in SUBSET Position
        BY AxisAssumption DEF Position
      <4>4. (\A a \in Axis : Rests(a)') /\ prog'[r].phase = "start" /\ prog'[r].read = 0
        BY <2>1, <3>1, <3>2, <4>1, <4>2, <4>3, SuccessMotion
      <4>5. QED
        BY <4>4, EndMotion
    <3>3. CASE at[b] # 0
      BY <2>3, <2>4, <2>13, <3>1, <3>3 DEF SensorFinal
    <3>4. QED
      BY <3>2, <3>3
  <2>14. CASE SensorPosition(r)
    <3>1. Now(r).kind = "sensor" /\ prog[r].phase = "position"
      BY <2>14 DEF SensorPosition, Waits
    <3>2. CASE at[b] = prog[r].old
      <4> DEFINE g == Clip(at[b] + SensorStep)
                 c == [prog[r] EXCEPT !.read = at[b], !.phase = "off"]
      <4>1. c \in Progress /\ c.ops = prog[r].ops /\ c.phase = "off"
        BY <2>2 DEF Progress
      <4>2. Drive(r, g, c) /\ g \in Position
        BY <2>2, <2>14, <3>2, AxisAssumption DEF SensorPosition, Clip, Position
      <4>3. QED
        BY <2>1, <3>1, <4>1, <4>2, NewlyDriven
    <3>3. CASE at[b] # prog[r].old
      <4>1. /\ UNCHANGED <<at, goal, placed>> /\ prog'[r].ops = prog[r].ops
            /\ prog'[r].phase = "final"
        BY <2>2, <2>14, <3>3 DEF SensorPosition, TypeOK, Progress
      <4>2. Driven(r)'
        BY <2>1, <3>1, <4>1, StillDriven
      <4>3. QED
        BY <4>1, <4>2, UnmovedMotion
    <3>4. QED
      BY <3>2, <3>3
  <2>15. CASE SensorOff(r)
    <3>1. Now(r).kind = "sensor" /\ prog[r].phase = "off" /\ placed[b] = Position
      BY <2>1, <2>15 DEF SensorOff, Waits, Driven
    <3>2. /\ UNCHANGED <<at, goal, placed>> /\ prog'[r].ops = prog[r].ops
          /\ prog'[r].phase = "start"
      BY <2>2, <2>15 DEF SensorOff, Goes, TypeOK, Progress
    <3>3. Driven(r)'
      BY <2>1, <3>1, <3>2, StillDriven
    <3>4. QED
      BY <3>2, <3>3, UnmovedMotion
  <2>16. QED
    BY <1>2, <2>5, <2>6, <2>7, <2>8, <2>9, <2>10, <2>11, <2>12, <2>13, <2>14, <2>15
       DEF Callback
<1>3. QED
  BY <1>1, <1>2

LEMMA NextMotion ==
  ASSUME TypeOK, TypeOK', ~WritesMayBeLost, Marked, Marked', MotionInv, [Next]_vars
  PROVE  MotionInv'
<1>1. ASSUME NEW r \in Run, StepOf(r), \A a \in Axis : Rests(a)', Live(r)' => Driven(r)',
             Live(r) \/ UNCHANGED <<at, goal, placed>>
      PROVE  MotionInv'
  <2>1. ASSUME NEW q \in Run, Live(q)', q # r
        PROVE  Driven(q)'
    <3>1. prog'[q] = prog[q] /\ Live(q)
      BY <1>1, <2>1 DEF StepOf, Live, Pending
    <3>2. ~Live(r)
      BY <2>1, <3>1 DEF Marked
    <3>3. QED
      BY <1>1, <3>1, <3>2, StillDriven
  <2>2. QED
    BY <1>1, <2>1 DEF MotionInv
<1>2. ASSUME NEW r \in Run, NEW p \in Program, Ptprun(r, p)
      PROVE  MotionInv'
  <2>1. \A a \in Axis : Rests(a)'
    BY <1>2, CommandMotion DEF Ptprun
  <2>2. Driven(r)'
    BY <1>2, EndMotion DEF Ptprun, Fresh, TypeOK
  <2>3. \A q \in Run : Live(q)' => q = r
    BY <1>2 DEF Ptprun, Marked
  <2>4. QED
    BY <2>1, <2>2, <2>3 DEF MotionInv
<1>3. ASSUME NEW r \in Run, CallFails(r)
      PROVE  MotionInv'
  <2>1. Driven(r)' /\ \A a \in Axis : Rests(a)'
    BY <1>3, EndMotion, UnmovedMotion DEF CallFails, Abandon, Fresh, TypeOK
  <2>2. Live(r)
    BY <1>3 DEF CallFails
  <2>3. QED
    BY <1>1, <1>3, <2>1, <2>2, CallbackIsStep
<1>4. ASSUME NEW r \in Run, Expire(r)
      PROVE  MotionInv'
  <2>1. Live(r) /\ Pending(r) /\ at' = at /\ goal' = goal /\ placed' = placed
    BY <1>4 DEF Expire, Live
  <2>2. /\ prog'[r].ops = prog[r].ops /\ prog'[r].phase = prog[r].phase
        /\ prog'[r].read = prog[r].read
    BY <1>4 DEF Expire, TypeOK, Progress
  <2>3. Driven(r)'
    BY <2>1, <2>2, StillDriven
  <2>4. QED
    BY <1>1, <1>4, <2>1, <2>3, CallbackIsStep, UnmovedMotion
<1>5. ASSUME NEW r \in Run, Callback(r)
      PROVE  MotionInv'
  <2>1. Live(r) \/ UNCHANGED <<at, goal, placed>>
    BY <1>5 DEF Callback, CancelledReturns, OtherDone, GoSend, GoSent, GoPosition, GoFinal,
                GoStallGuard, SensorSend, SensorSent, SensorFinal, SensorPosition,
                SensorOff, Waits
  <2>2. QED
    BY <1>1, <1>5, <2>1, CallbackIsStep, CallbackMotion
<1>6. CASE PtprunNothing
  <2>1. \A a \in Axis : Rests(a)'
    BY <1>6, CommandMotion DEF PtprunNothing
  <2>2. \A q \in Run : ~Live(q)'
    BY <1>6, AxisAssumption DEF PtprunNothing, Marked
  <2>3. QED
    BY <2>1, <2>2 DEF MotionInv
<1>7. ASSUME NEW b \in Axis, MotorMoves(b)
      PROVE  MotionInv'
  <2>1. at[b] \in Position /\ goal[b] \in Position /\ at'[b] \in Position
    BY DEF TypeOK
  <2>2. /\ goal' = goal /\ placed' = placed /\ prog' = prog /\ cancelled' = cancelled
        /\ at'[b] = IF at[b] < goal[b] THEN at[b] + 1 ELSE at[b] - 1
        /\ at[b] # goal[b]
        /\ \A a \in Axis \ {b} : at'[a] = at[a]
    BY <1>7 DEF MotorMoves, TypeOK
  <2>3. ASSUME NEW a \in Axis, a # b
        PROVE  Rests(a)'
    BY <2>2, <2>3, SameRests DEF MotionInv
  <2>4. ASSUME NEW a \in Axis, a = b
        PROVE  Rests(a)'
    <3>1. Rests(b)
      BY DEF MotionInv
    <3>2. at'[b] \in placed[b]
      <4>1. CASE at[b] < goal[b]
        <5>1. at[b] <= at'[b] /\ at'[b] <= goal[b]
          BY <2>1, <2>2, <4>1, AxisAssumption DEF Position
        <5>2. QED
          BY <2>1, <3>1, <5>1 DEF Rests
      <4>2. CASE ~(at[b] < goal[b])
        <5>1. goal[b] <= at'[b] /\ at'[b] <= at[b]
          BY <2>1, <2>2, <4>2, AxisAssumption DEF Position
        <5>2. QED
          BY <2>1, <3>1, <5>1 DEF Rests
      <4>3. QED
        BY <4>1, <4>2
    <3>3. QED
      BY <2>2, <2>4, <3>1, <3>2 DEF Rests
  <2>5. ASSUME NEW q \in Run, Live(q)'
        PROVE  Driven(q)'
    <3>1. Live(q) /\ Pending(q) /\ Driven(q) /\ Now(q)' = Now(q)
      BY <2>2, <2>5 DEF Live, Pending, Now, MotionInv
    <3>2. Now(q).to \in Position /\ Now(q).axis \in Axis
      BY <3>1, ParticularTypes DEF Op
    <3>3. Now(q).kind = "go" /\ prog[q].phase = "stall"
            => at'[Now(q).axis] \in Around(Now(q).to, 1)
      <4>1. CASE Now(q).axis # b
        BY <2>2, <3>1, <3>2, <4>1 DEF Driven
      <4>2. CASE Now(q).axis = b
        BY <2>1, <2>2, <3>1, <3>2, <4>2, AxisAssumption DEF Driven, Around, Position
      <4>3. QED
        BY <4>1, <4>2
    <3>4. QED
      BY <2>2, <3>1, <3>3 DEF Driven, Around
  <2>6. QED
    BY <2>3, <2>4, <2>5 DEF MotionInv
<1>8. CASE UNCHANGED vars
  <2>1. ASSUME NEW q \in Run, Live(q)'
        PROVE  Driven(q)'
    BY <1>8, <2>1 DEF vars, Live, Pending, Now, Driven, Around, MotionInv
  <2>2. QED
    BY <1>8, <2>1, UnmovedMotion DEF vars, MotionInv
<1>9. QED
  BY <1>2, <1>3, <1>4, <1>5, <1>6, <1>7, <1>8 DEF Next

\* If no write is lost (and no step of a motor either), an axis stays where the
\* last movement of it that succeeded has put it until the next one begins:
\* whatever is superseded, at whatever moment, HoldY is followed by MoveX with
\* the needle up.
THEOREM AxesAlwaysStayPlaced == ~WritesMayBeLost => (Spec => []AxesStayPlaced)
<1> SUFFICES ASSUME ~WritesMayBeLost
             PROVE  Spec => []AxesStayPlaced
  OBVIOUS
<1>1. Init => MotionInv /\ Marked
  <2>1. ASSUME Init, NEW a \in Axis
        PROVE  Rests(a)
    BY <2>1 DEF Init, Rests
  <2>2. ASSUME Init
        PROVE  Marked /\ \A r \in Run : ~Live(r)
    BY <2>2 DEF Init, Marked, Live, Pending, Fresh
  <2>3. QED
    BY <2>1, <2>2 DEF MotionInv
<1>2. TypeOK /\ TypeOK' /\ Marked /\ MotionInv /\ [Next]_vars => Marked' /\ MotionInv'
  BY StepRuns, NextMotion
<1>3. MotionInv => AxesStayPlaced
  BY DEF MotionInv, Rests, AxesStayPlaced
<1>4. QED
  BY <1>1, <1>2, <1>3, TypeCorrect, PTL DEF Spec

-----------------------------------------------------------------------------
(* An operation whose time is up comes to its end                          *)

\* What OperationLeft is for this operation at this phase.
LeftAt(op, ph, n) ==
  (IF op.kind = "go" THEN GoLeft ELSE SensorLeft)[ph] + (MaxRepeat - n)

\* What ProgramsComeNearer asks of a step of a program.
Nearer(r) ==
  \/ Len(prog'[r].ops) < Len(prog[r].ops)
  \/ ~prog[r].expired
  \/ /\ prog'[r].ops = prog[r].ops /\ prog'[r].expired
     /\ OperationLeft(r)' \in Nat /\ OperationLeft(r)' < OperationLeft(r)

LEMMA LeftIsNat ==
  ASSUME NEW op, NEW n \in 0..MaxRepeat,
         NEW ph \in {"start", "sent", "position", "final", "stall", "off"}
  PROVE  /\ (IF op.kind = "go" THEN GoLeft ELSE SensorLeft)[ph] \in Nat
         /\ MaxRepeat - n \in Nat /\ LeftAt(op, ph, n) \in Nat
<1>1. (IF op.kind = "go" THEN GoLeft ELSE SensorLeft)[ph] \in Nat
  BY DEF GoLeft, SensorLeft
<1>2. MaxRepeat - n \in Nat
  BY AxisAssumption
<1>3. QED
  BY <1>1, <1>2 DEF LeftAt

\* The program loses operations.
LEMMA ShorterIsNearer ==
  ASSUME TypeOK, NEW r \in Run, Pending(r),
         prog' = [prog EXCEPT ![r] = Fresh(<<>>)] \/ prog' = [prog EXCEPT ![r] = Fresh(Tail(@.ops))]
  PROVE  Nearer(r)
<1>1. prog[r].ops \in Seq(Op) /\ prog[r].ops # <<>>
  BY DEF TypeOK, Progress, Pending
<1>2. \A ops : Fresh(ops).ops = ops
  BY DEF Fresh
<1>3. prog'[r] = Fresh(<<>>) \/ prog'[r] = Fresh(Tail(prog[r].ops))
  BY DEF TypeOK
<1>4. prog'[r].ops = <<>> \/ prog'[r].ops = Tail(prog[r].ops)
  BY <1>2, <1>3
<1>5. Len(prog'[r].ops) < Len(prog[r].ops)
  <2>1. \A ops \in Seq(Op) : ops # <<>> => Len(Tail(ops)) < Len(ops) /\ Len(<<>>) < Len(ops)
    OBVIOUS
  <2>2. QED
    BY <1>1, <1>4, <2>1
<1>6. QED
  BY <1>5 DEF Nearer

\* The operation goes on with another callback.
LEMMA CloserIsNearer ==
  ASSUME TypeOK, TypeOK', NEW r \in Run, Pending(r),
         prog'[r].ops = prog[r].ops, prog'[r].expired = prog[r].expired,
         LeftAt(Now(r), prog'[r].phase, prog'[r].repeat)
           < LeftAt(Now(r), prog[r].phase, prog[r].repeat)
  PROVE  Nearer(r)
<1>1. Now(r)' = Now(r)
  BY DEF Now
<1>2. /\ OperationLeft(r) = LeftAt(Now(r), prog[r].phase, prog[r].repeat)
      /\ OperationLeft(r)' = LeftAt(Now(r), prog'[r].phase, prog'[r].repeat)
  BY <1>1 DEF OperationLeft, LeftAt
<1>3. OperationLeft(r)' \in Nat
  <2>1. /\ prog'[r].phase \in {"start", "sent", "position", "final", "stall", "off"}
        /\ prog'[r].repeat \in 0..MaxRepeat
    BY DEF TypeOK, Progress
  <2>2. QED
    BY <1>2, <2>1, LeftIsNat
<1>4. QED
  BY <1>2, <1>3 DEF Nearer

\* The next phase has less before it, and no goal was sent again.
LEMMA PhaseIsNearer ==
  ASSUME TypeOK, TypeOK', NEW r \in Run, Pending(r),
         prog'[r].ops = prog[r].ops, prog'[r].expired = prog[r].expired,
         prog'[r].repeat = prog[r].repeat,
         \/ /\ Now(r).kind = "go"
            /\ <<prog[r].phase, prog'[r].phase>> \in
                 {<<"start", "sent">>, <<"sent", "position">>,
                  <<"position", "stall">>, <<"final", "position">>}
         \/ /\ Now(r).kind = "sensor"
            /\ <<prog[r].phase, prog'[r].phase>> \in
                 {<<"start", "sent">>, <<"sent", "final">>, <<"position", "final">>,
                  <<"position", "off">>, <<"off", "start">>}
  PROVE  Nearer(r)
<1> DEFINE before == (IF Now(r).kind = "go" THEN GoLeft ELSE SensorLeft)[prog[r].phase]
           after  == (IF Now(r).kind = "go" THEN GoLeft ELSE SensorLeft)[prog'[r].phase]
<1>1. before \in Nat /\ after \in Nat /\ after < before
  BY DEF GoLeft, SensorLeft
<1>2. prog[r].repeat \in 0..MaxRepeat
  BY DEF TypeOK, Progress
<1>3. LeftAt(Now(r), prog'[r].phase, prog'[r].repeat)
        < LeftAt(Now(r), prog[r].phase, prog[r].repeat)
  <2>1. \A a, b, m : a \in Nat /\ b \in Nat /\ a < b /\ m \in Int => a + m < b + m
    OBVIOUS
  <2>2. MaxRepeat - prog[r].repeat \in Int
    BY <1>2, AxisAssumption
  <2>3. after + (MaxRepeat - prog[r].repeat) < before + (MaxRepeat - prog[r].repeat)
    <3> HIDE DEF before, after
    <3> QED BY <1>1, <2>1, <2>2
  <2>4. QED
    BY <2>3 DEF LeftAt
<1>4. QED
  BY <1>3, CloserIsNearer

LEMMA CallbackIsNearer ==
  ASSUME TypeOK, TypeOK', NEW r \in Run, Callback(r)
  PROVE  Nearer(r)
<1>1. Pending(r) /\ prog[r] \in Progress
  BY DEF Callback, CancelledReturns, OtherDone, GoSend, GoSent, GoPosition, GoFinal,
         GoStallGuard, SensorSend, SensorSent, SensorFinal, SensorPosition, SensorOff,
         Waits, Live, TypeOK
<1> DEFINE b == Now(r).axis
<1>2. ASSUME NEW ph, Goes(r, ph)
      PROVE  /\ prog'[r].ops = prog[r].ops /\ prog'[r].expired = prog[r].expired
             /\ prog'[r].repeat = prog[r].repeat /\ prog'[r].phase = ph
  BY <1>1, <1>2 DEF Goes, TypeOK, Progress
<1>3. ASSUME NEW g, NEW ph, Drive(r, g, [prog[r] EXCEPT !.phase = ph])
      PROVE  /\ prog'[r].ops = prog[r].ops /\ prog'[r].expired = prog[r].expired
             /\ prog'[r].repeat = prog[r].repeat /\ prog'[r].phase = ph
  BY <1>1, <1>3 DEF Drive, TypeOK, Progress
<1>4. CASE CancelledReturns(r) \/ OtherDone(r)
  BY <1>1, <1>4, ShorterIsNearer DEF CancelledReturns, OtherDone
<1>5. CASE GoSend(r)
  BY <1>1, <1>3, <1>5, PhaseIsNearer DEF GoSend, Waits
<1>6. CASE GoSent(r)
  BY <1>1, <1>2, <1>6, PhaseIsNearer DEF GoSent, Waits
<1>7. CASE GoPosition(r)
  <2> DEFINE near == at[b] \in Around(Now(r).to, 1)
  <2>1. CASE ~near /\ prog[r].expired
    BY <1>1, <1>7, <2>1, ShorterIsNearer DEF GoPosition, Abandon
  <2>2. CASE ~near /\ ~prog[r].expired
    BY <2>2 DEF Nearer
  <2>3. CASE near
    <3>1. /\ prog'[r].ops = prog[r].ops /\ prog'[r].expired = prog[r].expired
          /\ prog'[r].repeat = prog[r].repeat /\ prog'[r].phase = "stall"
          /\ prog[r].phase = "position" /\ Now(r).kind = "go"
      BY <1>1, <1>7, <2>3 DEF GoPosition, Waits, TypeOK, Progress
    <3>2. QED
      BY <1>1, <3>1, PhaseIsNearer
  <2>4. QED
    BY <2>1, <2>2, <2>3
<1>8. CASE GoFinal(r)
  <2>1. prog[r].phase = "final" /\ Now(r).kind = "go"
    BY <1>8 DEF GoFinal, Waits
  <2>2. CASE Goes(r, "position")
    BY <1>1, <1>2, <2>1, <2>2, PhaseIsNearer
  <2>3. CASE Drive(r, Now(r).to, [prog[r] EXCEPT !.repeat = @ + 1, !.phase = "sent"])
             /\ Resends(r)
    <3>1. /\ prog'[r].ops = prog[r].ops /\ prog'[r].expired = prog[r].expired
          /\ prog'[r].repeat = prog[r].repeat + 1 /\ prog'[r].phase = "sent"
      BY <1>1, <2>3 DEF Drive, TypeOK, Progress
    <3>2. GoLeft["sent"] = GoLeft["final"] /\ GoLeft["final"] \in Int
      BY DEF GoLeft
    <3>3. prog[r].repeat \in Int /\ MaxRepeat \in Int
      BY <1>1, AxisAssumption DEF Progress
    <3>4. LeftAt(Now(r), "sent", prog[r].repeat + 1)
            < LeftAt(Now(r), "final", prog[r].repeat)
      BY <2>1, <3>2, <3>3 DEF LeftAt
    <3>5. QED
      BY <1>1, <2>1, <3>1, <3>4, CloserIsNearer
  <2>4. CASE /\ prog' = [prog EXCEPT ![r].finals = @ + 1, ![r].phase = "position"]
             /\ UNCHANGED <<at, goal, cancelled, current, placed>>
    <3>1. /\ prog'[r].ops = prog[r].ops /\ prog'[r].expired = prog[r].expired
          /\ prog'[r].repeat = prog[r].repeat /\ prog'[r].phase = "position"
      BY <1>1, <2>4 DEF TypeOK, Progress
    <3>2. QED
      BY <1>1, <2>1, <3>1, PhaseIsNearer
  <2>5. CASE Abandon(r) \/ \E where \in SUBSET Position : Succeeds(r, where)
    BY <1>1, <2>5, ShorterIsNearer DEF Abandon, Succeeds
  <2>6. QED
    BY <1>8, <2>2, <2>3, <2>4, <2>5 DEF GoFinal
<1>9. CASE GoStallGuard(r)
  BY <1>1, <1>9, ShorterIsNearer DEF GoStallGuard, Abandon, Succeeds
<1>10. CASE SensorSend(r)
  BY <1>1, <1>3, <1>10, PhaseIsNearer DEF SensorSend, Waits
<1>11. CASE SensorSent(r)
  BY <1>1, <1>2, <1>11, PhaseIsNearer DEF SensorSent, Waits
<1>12. CASE SensorFinal(r)
  <2>1. CASE Goes(r, "position") /\ ~prog[r].expired
    BY <2>1 DEF Nearer
  <2>2. CASE Abandon(r) \/ Succeeds(r, {0})
    BY <1>1, <2>2, ShorterIsNearer DEF Abandon, Succeeds
  <2>3. QED
    BY <1>12, <2>1, <2>2 DEF SensorFinal
<1>13. CASE SensorPosition(r)
  <2>1. prog[r].phase = "position" /\ Now(r).kind = "sensor"
    BY <1>13 DEF SensorPosition, Waits
  <2>2. /\ prog'[r].ops = prog[r].ops /\ prog'[r].expired = prog[r].expired
        /\ prog'[r].repeat = prog[r].repeat /\ prog'[r].phase \in {"off", "final"}
    <3>1. CASE prog' = [prog EXCEPT ![r] = [prog[r] EXCEPT !.read = at[b], !.phase = "off"]]
      BY <1>1, <3>1 DEF TypeOK, Progress
    <3>2. CASE prog' = [prog EXCEPT ![r].read = at[b], ![r].old = at[b], ![r].phase = "final"]
      BY <1>1, <3>2 DEF TypeOK, Progress
    <3>3. QED
      BY <1>13, <3>1, <3>2 DEF SensorPosition, Drive
  <2>3. CASE prog'[r].phase = "off"
    BY <1>1, <2>1, <2>2, <2>3, PhaseIsNearer
  <2>4. CASE prog'[r].phase = "final"
    BY <1>1, <2>1, <2>2, <2>4, PhaseIsNearer
  <2>5. QED
    BY <2>2, <2>3, <2>4
<1>14. CASE SensorOff(r)
  BY <1>1, <1>2, <1>14, PhaseIsNearer DEF SensorOff, Waits
<1>15. QED
  BY <1>4, <1>5, <1>6, <1>7, <1>8, <1>9, <1>10, <1>11, <1>12, <1>13, <1>14 DEF Callback

LEMMA NextIsNearer ==
  ASSUME TypeOK, TypeOK', [Next]_vars, NEW r \in Run, Pending(r), prog'[r] # prog[r]
  PROVE  Nearer(r)
<1>1. ASSUME NEW q \in Run, NEW p \in Program, Ptprun(q, p)
      PROVE  FALSE
  <2>1. q # r /\ prog'[r] = prog[r]
    BY <1>1 DEF Ptprun, TypeOK
  <2>2. QED
    BY <2>1
<1>2. ASSUME NEW q \in Run, Callback(q) \/ CallFails(q) \/ Expire(q)
      PROVE  q = r
  BY <1>2, CallbackIsStep DEF StepOf
<1>3. CASE CallFails(r)
  BY <1>3, ShorterIsNearer DEF CallFails, Abandon
<1>4. CASE Expire(r)
  BY <1>4 DEF Expire, Nearer
<1>5. QED
  <2>1. ~PtprunNothing /\ ~(\E a \in Axis : MotorMoves(a)) /\ ~UNCHANGED vars
    BY DEF PtprunNothing, MotorMoves, vars
  <2>2. CASE Callback(r)
    BY <2>2, CallbackIsNearer
  <2>3. QED
    BY <1>1, <1>2, <1>3, <1>4, <2>1, <2>2 DEF Next

\* However the motors stick, a program whose 25 seconds are over is done after a
\* bounded number of callbacks: none of the loops of an operation - read again,
\* send again, look at the switch again, step back and look for it again - gets
\* past its look at MOVE_is_timeout.
THEOREM OverdueOperationsEnd == Spec => ProgramsComeNearer
<1>1. TypeOK /\ TypeOK' /\ [Next]_vars =>
        [\A r \in Run : Pending(r) /\ prog'[r] # prog[r] =>
          \/ Len(prog'[r].ops) < Len(prog[r].ops)
          \/ ~prog[r].expired
          \/ /\ prog'[r].ops = prog[r].ops /\ prog'[r].expired
             /\ OperationLeft(r)' \in Nat /\ OperationLeft(r)' < OperationLeft(r)]_vars
  BY NextIsNearer DEF Nearer
<1>2. QED
  BY <1>1, TypeCorrect, PTL DEF Spec, ProgramsComeNearer

=============================================================================
