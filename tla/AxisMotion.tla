------------------------------ MODULE AxisMotion ------------------------------
(***************************************************************************)
(* The axis service (axis-service): programs like "SensorY();MoveX(2300,   *)
(* 1,0);" that move the needle and the syringe, one motor operation after  *)
(* the other.  A motor moves by itself once it has a goal; an operation    *)
(* sends the goal and then asks for the position until it fits.            *)
(*                                                                         *)
(* Every command - a program, or a single movement of one axis - cancels   *)
(* whatever is at work (MOVE_cancel) and starts at once.  The cancelled    *)
(* program ends at its next callback, and its motor is told to go to where *)
(* it was last seen, if it was seen.                                       *)
(*                                                                         *)
(* The requests to a motor node are ordered (one D-Bus connection, one     *)
(* blocking daemon), so a goal takes effect when it is sent and a position *)
(* is read when its callback runs.                                         *)
(***************************************************************************)
EXTENDS Integers, Sequences

CONSTANTS
  Axis,
  MaxPos,         \* positions are 0..MaxPos, the end switch is at 0
  SwitchZone,     \* "move_to < 10": targets that the end switch may stand for
  SensorStep,     \* 10, the step back of an axis that does not find its sensor
  MaxRepeat,      \* 10, how often a goal is sent again at most
  FinalRepeats,   \* 10, how often the position is read again on the switch
  StallGuarded,   \* axes whose stall guard counts (axis_activate_stall_guard)
  Program,        \* the programs clients send, as sequences of operations
  Run,            \* names for the programs in progress (model-checking bound:
                  \* a command needs a free one)
  NoRun,
  CallsMayFail,   \* whether a call to a motor node may return an error
  WritesMayBeLost \* whether a go_pos may be lost: the daemon answers FALSE,
                  \* which the callers do not look at

Position == 0..MaxPos
Op == [kind : {"go", "sensor", "other"}, axis : Axis, to : Position,
       repeat : 0..MaxRepeat]
  \* "other": V3O, V3C and Wait, which move nothing; axis: the motor it drives

ASSUME AxisAssumption ==
  /\ MaxPos \in Nat /\ SwitchZone \in Nat /\ SensorStep \in Nat
  /\ MaxRepeat \in Nat /\ FinalRepeats \in Nat
  /\ StallGuarded \subseteq Axis
  /\ Program \subseteq Seq(Op) \ {<<>>}
  /\ NoRun \notin Run
  /\ CallsMayFail \in BOOLEAN /\ WritesMayBeLost \in BOOLEAN

VARIABLES
  at,         \* where each axis is
  goal,       \* where its motor drives it to
  prog,       \* the programs whose reply is due (see Progress)
  cancelled,  \* those whose cancellable was cancelled
  current,    \* the program that was started with AXIS_CANCEL as it is now
  placed      \* history: where an axis may be after the last movement of it that
              \* succeeded; everywhere once the next one has begun

motors == <<at, goal>>
vars == <<at, goal, prog, cancelled, current, placed>>

\* The operations left, the current one first, and the fields of its D3GO or
\* D3SENSOR object; no operations left means that the program has ended.
Progress ==
  [ops     : Seq(Op),
   phase   : {"start", "sent", "position", "final", "stall", "off"},
   read    : Position,             \* curr_position, 0 until read
   old     : Position \cup {-1},   \* old_position
   repeat  : 0..MaxRepeat,
   finals  : 0..FinalRepeats,      \* final_repeat
   expired : BOOLEAN]              \* MOVE_is_timeout

TypeOK ==
  /\ at \in [Axis -> Position] /\ goal \in [Axis -> Position]
  /\ prog \in [Run -> Progress]
  /\ cancelled \subseteq Run
  /\ current \in Run \cup {NoRun}
  /\ placed \in [Axis -> SUBSET Position]

Fresh(ops) ==
  [ops |-> ops, phase |-> "start", read |-> 0, old |-> -1,
   repeat |-> 0, finals |-> 0, expired |-> FALSE]

Pending(r) == prog[r].ops # <<>>
Live(r)    == Pending(r) /\ r \notin cancelled
Now(r)     == Head(prog[r].ops)

\* Operation of this kind of a live program waits for this callback.
Waits(r, kind, phase) ==
  Live(r) /\ Now(r).kind = kind /\ prog[r].phase = phase

Around(p, width) == {q \in Position : p - width <= q /\ q <= p + width}

Init ==
  /\ at \in [Axis -> Position] /\ goal = at
  /\ prog = [r \in Run |-> Fresh(<<>>)]
  /\ cancelled = {} /\ current = NoRun
  /\ placed = [a \in Axis |-> Position]

-----------------------------------------------------------------------------
(* Commands                                                                *)

\* D3GO_cancelled, D3SENSOR_cancelled: the motor is sent to where it was last
\* seen.  Before the first reading nothing is sent.
StopGoal(r) ==
  IF prog[r].read > 0 /\ ~(Now(r).kind = "go" /\ prog[r].read = Now(r).to)
  THEN [goal EXCEPT ![Now(r).axis] = prog[r].read] ELSE goal

\* Wrong: the cancellable is replaced and not cancelled.
MoveCancelForgets == UNCHANGED <<goal, cancelled>>

\* MOVE_cancel
MoveCancel ==
  IF current # NoRun /\ Live(current)
  THEN /\ cancelled' = cancelled \cup {current}
       /\ \/ goal' = StopGoal(current)
          \/ WritesMayBeLost /\ goal' = goal
  ELSE UNCHANGED <<goal, cancelled>>

\* Ptprun, and the commands of single axes (go-to-position, go-hold, go-sensor
\* and those of the syringe), which are programs of one operation.
Ptprun(r, p) ==
  /\ ~Pending(r)
  /\ MoveCancel
  /\ current' = r
  /\ prog' = [prog EXCEPT ![r] = Fresh(p)]
  /\ UNCHANGED <<at, placed>>

\* A program that is empty or does not parse, and init-parameter, whose calls
\* do not move anything.
PtprunNothing ==
  /\ MoveCancel
  /\ current' = NoRun
  /\ UNCHANGED <<at, prog, placed>>

-----------------------------------------------------------------------------
(* The end of an operation and of a program                                *)

\* operation_done and run_next_operation, the operation succeeded: the axis is
\* at one of `where'.
Succeeds(r, where) ==
  /\ prog' = [prog EXCEPT ![r] = Fresh(Tail(@.ops))]
  /\ placed' = [placed EXCEPT ![Now(r).axis] = where]
  /\ UNCHANGED <<at, goal, cancelled, current>>

\* The operation, and with it the program, fails.  The motor is not stopped.
Abandon(r) ==
  /\ prog' = [prog EXCEPT ![r] = Fresh(<<>>)]
  /\ UNCHANGED <<at, goal, cancelled, current, placed>>

\* A call returns an error.
CallFails(r) == CallsMayFail /\ Live(r) /\ Abandon(r)

\* g_task_return_error_if_cancelled, the first thing every callback does.
CancelledReturns(r) ==
  /\ Pending(r) /\ r \in cancelled
  /\ prog' = [prog EXCEPT ![r] = Fresh(<<>>)]
  /\ cancelled' = cancelled \ {r}
  /\ UNCHANGED <<at, goal, current, placed>>

\* A valve or a waiting time.
OtherDone(r) ==
  /\ Waits(r, "other", "start")
  /\ prog' = [prog EXCEPT ![r] = Fresh(Tail(@.ops))]
  /\ UNCHANGED <<at, goal, cancelled, current, placed>>

\* The 25 seconds of a movement are over.
Expire(r) ==
  /\ Live(r) /\ Now(r).kind # "other" /\ ~prog[r].expired
  /\ prog' = [prog EXCEPT ![r].expired = TRUE]
  /\ UNCHANGED <<at, goal, cancelled, current, placed>>

\* The request to drive the current axis to g, with what it does to r.
Drive(r, g, progress) ==
  /\ \/ goal' = [goal EXCEPT ![Now(r).axis] = g]
     \/ WritesMayBeLost /\ goal' = goal
  /\ prog' = [prog EXCEPT ![r] = progress]
  /\ placed' = [placed EXCEPT ![Now(r).axis] = Position]
  /\ UNCHANGED <<at, cancelled, current>>

Goes(r, phase) ==
  /\ prog' = [prog EXCEPT ![r].phase = phase]
  /\ UNCHANGED <<at, goal, cancelled, current, placed>>

-----------------------------------------------------------------------------
(* Going to a position (D3GO)                                              *)

\* Wrong: drives without looking whether the program was cancelled.
GoSendUnchecked(r) ==
  /\ Pending(r) /\ Now(r).kind = "go" /\ prog[r].phase = "start"
  /\ Drive(r, Now(r).to, [prog[r] EXCEPT !.phase = "sent"])

\* START_timeout_callback
GoSend(r) ==
  /\ Waits(r, "go", "start")
  /\ Drive(r, Now(r).to, [prog[r] EXCEPT !.phase = "sent"])

\* D3GO_GO_POSITION_async_callback
GoSent(r) == Waits(r, "go", "sent") /\ Goes(r, "position")

\* Wrong: the time is not looked at.
GoPositionUntimed(r) ==
  /\ Waits(r, "go", "position")
  /\ prog' = [prog EXCEPT ![r].read = at[Now(r).axis],
                ![r].phase = IF at[Now(r).axis] \in Around(Now(r).to, 1)
                             THEN "stall" ELSE "final"]
  /\ UNCHANGED <<at, goal, cancelled, current, placed>>

\* D3GO_GO_POSITION_current_pos_async_callback; when the axis is not there yet
\* the end switch is read 40 ms later.
GoPosition(r) ==
  LET near == at[Now(r).axis] \in Around(Now(r).to, 1)
  IN /\ Waits(r, "go", "position")
     /\ IF ~near /\ prog[r].expired
        THEN Abandon(r)
        ELSE /\ prog' = [prog EXCEPT ![r].read = at[Now(r).axis],
                                     ![r].phase = IF near THEN "stall" ELSE "final"]
             /\ UNCHANGED <<at, goal, cancelled, current, placed>>

\* Wrong: once more than max_repeat.
ResendsOnceMore(r) == prog[r].repeat <= Now(r).repeat

Resends(r) == prog[r].repeat < Now(r).repeat

\* The target is so near the end switch that the switch will do.
SwitchWillDo(r) == Now(r).repeat > 0 /\ Now(r).to < SwitchZone

\* D3GO_GO_SENSOR_final_position_async_callback: on the end switch the goal is
\* sent again, max_repeat times; after that a program that wanted to go there
\* is content, and any other reads the position some more times.
GoFinal(r) ==
  /\ Waits(r, "go", "final")
  /\ IF at[Now(r).axis] # 0 THEN Goes(r, "position")
     ELSE IF Resends(r)
     THEN Drive(r, Now(r).to,
                [prog[r] EXCEPT !.repeat = @ + 1, !.phase = "sent"])
     ELSE IF SwitchWillDo(r)
     THEN Succeeds(r, {q \in Position : q <= Now(r).to})
     ELSE IF prog[r].finals < FinalRepeats
     THEN /\ prog' = [prog EXCEPT ![r].finals = @ + 1, ![r].phase = "position"]
          /\ UNCHANGED <<at, goal, cancelled, current, placed>>
     ELSE Abandon(r)

\* D3GO_GO_SENSOR_stall_guard_flag_finish_callback
GoStallGuard(r) ==
  /\ Waits(r, "go", "stall")
  /\ \/ Succeeds(r, Around(Now(r).to, 1))
     \/ Now(r).axis \in StallGuarded /\ Abandon(r)

-----------------------------------------------------------------------------
(* Going to the end switch (D3SENSOR)                                      *)

\* START_timeout_callback and WAITE_distance_timeout_callback: command 3 makes
\* the node look for the switch.
SensorSend(r) ==
  /\ Waits(r, "sensor", "start")
  /\ Drive(r, 0, [prog[r] EXCEPT !.phase = "sent"])

\* D3SENSOR_GO_SENSOR_comman_status_async_callback
SensorSent(r) == Waits(r, "sensor", "sent") /\ Goes(r, "final")

\* D3SENSOR_GO_SENSOR_final_position_async_callback; the position is read
\* 30 ms later.
SensorFinal(r) ==
  /\ Waits(r, "sensor", "final")
  /\ IF at[Now(r).axis] = 0 THEN Succeeds(r, {0})
     ELSE IF prog[r].expired THEN Abandon(r)
     ELSE Goes(r, "position")

\* Where the node goes when it is told to go beyond its end.
Clip(p) == IF p > MaxPos THEN MaxPos ELSE p

\* D3SENSOR_GO_SENSOR_current_pos_async_callback: an axis that has not moved
\* since the last reading is sent a step back first.
SensorPosition(r) ==
  LET p == at[Now(r).axis]
  IN /\ Waits(r, "sensor", "position")
     /\ IF p = prog[r].old
        THEN Drive(r, Clip(p + SensorStep),
                   [prog[r] EXCEPT !.read = p, !.phase = "off"])
        ELSE /\ prog' = [prog EXCEPT ![r].read = p, ![r].old = p,
                                     ![r].phase = "final"]
             /\ UNCHANGED <<at, goal, cancelled, current, placed>>

\* D3SENSOR_GO_POSITION_async_callback and the 0.5 seconds after it
SensorOff(r) == Waits(r, "sensor", "off") /\ Goes(r, "start")

-----------------------------------------------------------------------------
(* The motors                                                              *)

\* A motor drives its axis, or sticks.
MotorMoves(a) ==
  /\ at[a] # goal[a]
  /\ at' = [at EXCEPT ![a] = IF @ < goal[a] THEN @ + 1 ELSE @ - 1]
  /\ UNCHANGED <<goal, prog, cancelled, current, placed>>

\* The callback a program waits for.
Callback(r) ==
  \/ CancelledReturns(r) \/ OtherDone(r)
  \/ GoSend(r) \/ GoSent(r) \/ GoPosition(r) \/ GoFinal(r) \/ GoStallGuard(r)
  \/ SensorSend(r) \/ SensorSent(r) \/ SensorFinal(r) \/ SensorPosition(r)
  \/ SensorOff(r)

Next ==
  \/ \E r \in Run :
       \/ \E p \in Program : Ptprun(r, p)
       \/ CallFails(r) \/ Expire(r) \/ Callback(r)
  \/ PtprunNothing
  \/ \E a \in Axis : MotorMoves(a)

Spec == Init /\ [][Next]_vars

\* Callbacks come (a call returns after the D-Bus timeout at the latest) and
\* time passes.  Nothing is assumed of motors and clients.
LiveSpec == Spec /\ \A r \in Run : WF_vars(Callback(r)) /\ WF_vars(Expire(r))

-----------------------------------------------------------------------------
(* What the axis service promises.                                         *)

\* An axis stays where the last movement of it that succeeded has put it,
\* until the next movement of it begins: no superseded program drives it any
\* more, and a program's later movements rely on it - the needle that HoldY
\* has lifted is still up when MoveX moves it sideways.
AxesStayPlaced == \A a \in Axis : at[a] \in placed[a]

\* Programs are exclusive (ExclusiveRun): one is at work, and every other one
\* whose client still waits has been cancelled.
LiveRun == IF current # NoRun /\ Live(current) THEN current ELSE NoRun
Draining == {r \in cancelled : Pending(r)}

Runs == INSTANCE ExclusiveRun
        WITH Task <- Run, NoTask <- NoRun, live <- LiveRun, draining <- Draining

RunsAreExclusive ==
  Runs!Spec /\ [](\A r \in Run : Pending(r) => r \in Runs!Superseded)

\* Whatever the motors do, every command is answered: no program reads
\* positions for ever.
EveryProgramEnds == \A r \in Run : Pending(r) ~> ~Pending(r)

\* What is left of an operation once its time is up: the callbacks that can still
\* follow each other, and the goals that may be sent again.
GoLeft     == [start |-> 3, sent |-> 2, position |-> 1, final |-> 2, stall |-> 0, off |-> 0]
SensorLeft == [start |-> 4, sent |-> 3, position |-> 6, final |-> 2, stall |-> 0, off |-> 5]
OperationLeft(r) ==
  (IF Now(r).kind = "go" THEN GoLeft ELSE SensorLeft)[prog[r].phase]
    + (MaxRepeat - prog[r].repeat)

\* However the motors stick and the positions jump: each callback of an operation
\* whose 25 s are over ends it or brings it nearer to its end, and the time stays
\* over - no loop of goals, positions, switches and steps back goes on without a
\* look at it.
ProgramsComeNearer ==
  [][\A r \in Run : Pending(r) /\ prog'[r] # prog[r] =>
       \/ Len(prog'[r].ops) < Len(prog[r].ops)
       \/ ~prog[r].expired
       \/ /\ prog'[r].ops = prog[r].ops /\ prog'[r].expired
          /\ OperationLeft(r)' \in Nat /\ OperationLeft(r)' < OperationLeft(r)]_vars

=============================================================================
