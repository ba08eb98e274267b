--------------------------- MODULE SequenceService ---------------------------
(***************************************************************************)
(* The sequences of the analyser (sequence-workings-service): each is a    *)
(* chain of D-Bus calls that move the needle through axis programs         *)
(* (AxisMotion) and open and close the furnace and the TIC port            *)
(* (VesselPort).  All nine share one cancellable and one busy flag.        *)
(*                                                                         *)
(* A run that is superseded or stopped only stops to listen: the program   *)
(* and the port operation that it has started go on until somebody starts  *)
(* the next one.  The first program of most sequences lifts the needle     *)
(* only if the published position of the Y axis is not its hold position,  *)
(* and that is as old as the last reading.                                 *)
(*                                                                         *)
(* Taken from the two services: a new program or port command ends the one *)
(* before; an axis is where its last successful movement put it, and       *)
(* between its two ends else; a port likewise.  The syringe, the valves,   *)
(* the stirrers and clients other than the sequences are left out.         *)
(***************************************************************************)
EXTENDS Sequences, Naturals

CONSTANTS
  Run,      \* names for runs in progress (model-checking bound: a run needs
            \* a free one)
  NoRun,
  Kind      \* the sequences that clients start

Vessel == {"furnace", "TIC"}
Into(v) == IF v = "furnace" THEN "intoFurnace" ELSE "intoTIC"

\* The places of the needle, and the operations of a program: "lift" is
\* HOLD_Y_AXIS_TASK, "x" any movement of the X axis, the others lower the needle
\* to that place ("down": above a port, or into a vessel without one).
Place == {"lift", "down", "intoFurnace", "intoTIC"}
Op    == Place \cup {"x"}

Step ==
  [do : {"program", "checked", "retried", "liftIfDown", "open", "close", "fill", "wait"},
   ops : Seq(Op), vessel : Vessel \cup {"none"}]

Program(ops) == [do |-> "program", ops |-> ops, vessel |-> "none"]
Checked(ops) == [Program(ops) EXCEPT !.do = "checked"] \* lifts if not published up
Retried(ops) == [Program(ops) EXCEPT !.do = "retried"] \* and tries once more
LiftIfDown   == [Program(<<"lift">>) EXCEPT !.do = "liftIfDown"]
Open(v)      == [do |-> "open", ops |-> <<>>, vessel |-> v]
Close(v)     == [do |-> "close", ops |-> <<>>, vessel |-> v]
Timed(what)  == [do |-> what, ops |-> <<>>, vessel |-> "none"]

-----------------------------------------------------------------------------
(* The sequences                                                           *)

\* Wrong: leaves the furnace as it is.
AllholdWithoutFurnace == <<Retried(<<"x">>), Close("TIC")>>

Allhold      == <<Retried(<<"x">>), Close("furnace"), Close("TIC")>>
Axishold     == <<Retried(<<"x">>)>>
\* Wrong: the furnace closes before the needle has left it.
InjectionClosesFirst ==
  <<Checked(<<"x", "down">>), Open("furnace"), Program(<<"intoFurnace">>),
    Close("furnace"), Program(<<"lift", "x">>)>>

Injection    == <<Checked(<<"x", "down">>), Open("furnace"),
                  Program(<<"intoFurnace", "down">>), Close("furnace"),
                  Program(<<"lift", "x">>)>>
Injectioncod == <<Checked(<<"x", "down">>), Open("furnace"),
                  Program(<<"intoFurnace", "down">>), Close("furnace"),
                  Program(<<"lift", "x">>)>>

Injectiontic == <<Checked(<<"x", "down">>), Open("TIC"),
                  Program(<<"intoTIC", "down">>), Close("TIC"),
                  Program(<<"lift", "x">>)>>
Rinsing      == <<LiftIfDown, Close("furnace"), Close("TIC"),
                  Program(<<"x", "down", "lift">>)>>
Sampling     == <<Checked(<<"x", "down", "lift">>)>>
Samplingcod  == <<Checked(<<"x", "down", "lift">>)>>

\* The vessel is filled first (of the three places of its program one is left);
\* the rinsing at the end and the timer of the dilution run side by side, and
\* both must have ended.
Dilution     == <<Timed("fill"), Checked(<<"x", "down", "lift">>),
                  Program(<<"x", "down", "lift">>), Timed("wait")>>

Sequence(k) ==
  CASE k = "allhold"      -> Allhold      [] k = "axishold"    -> Axishold
    [] k = "injection"    -> Injection    [] k = "injectioncod" -> Injectioncod
    [] k = "injectiontic" -> Injectiontic [] k = "rinsing"     -> Rinsing
    [] k = "sampling"     -> Sampling     [] k = "samplingcod" -> Samplingcod
    [] k = "dilution"     -> Dilution

Kinds == {"allhold", "axishold", "injection", "injectioncod", "injectiontic",
          "rinsing", "sampling", "samplingcod", "dilution"}

\* These three begin with init_parameter, which ends the axis program.
Initialising == {"allhold", "axishold", "dilution"}

ASSUME SequenceAssumption == NoRun \notin Run /\ Kind \subseteq Kinds

VARIABLES
  kind,       \* the sequence of each run in progress; "none": its task has returned
  current,    \* the run in progress with SEQUENCE_CANCELLABLE, or NoRun
  todo,       \* the steps it has to do, the one it waits for first
  cancelled,  \* the runs in progress whose cancellable is cancelled
  answer,     \* "ok", "error": the answer to the step of the current run is on its
              \* way; or "none"
  sent,       \* the operations of the ptprun that is on its way, if any (bound:
              \* at the latest it arrives when the next one is sent)
  program,    \* the axis program: what is left of it, and how far its first
              \* operation is
  needle,     \* the places between which the needle is
  published,  \* whether the published position of the Y axis is its hold one
  open,       \* the ports that are open
  command,    \* what each port is told to do: "open", "close" or "none"
  pump,       \* whether pump 6 fills the vessel of the dilution
  busy,       \* busy, which the nine share
  strayed,    \* history: the needle was last driven by a program nobody
              \* waited for, or was published in its hold position wrongly
              \* when a run looked at it
  upset       \* history: a superseded command of the TIC port went on

runVars  == <<kind, current, todo, cancelled, busy, pump>>
axisVars == <<sent, program, needle, published, strayed>>
portVars == <<open, command, upset>>
vars     == <<runVars, answer, axisVars, portVars>>

None == [ops |-> <<>>, stage |-> "waits"]

Pending(r) == kind[r] # "none"

TypeOK ==
  /\ kind \in [Run -> Kinds \cup {"none"}]
  /\ current \in Run \cup {NoRun} /\ todo \in Seq(Step) /\ cancelled \subseteq Run
  /\ answer \in {"none", "ok", "error"} /\ sent \in Seq(Op)
  /\ program \in [ops : Seq(Op), stage : {"waits", "drives", "read"}]
  /\ needle \subseteq Place /\ needle # {} /\ published \in BOOLEAN
  /\ open \subseteq Vessel
  /\ command \in [Vessel -> {"open", "close", "none"}]
  /\ pump \in BOOLEAN /\ busy \in BOOLEAN
  /\ strayed \in BOOLEAN /\ upset \in BOOLEAN

Init ==
  /\ kind = [r \in Run |-> "none"]
  /\ current = NoRun /\ todo = <<>> /\ cancelled = {} /\ answer = "none"
  /\ sent = <<>> /\ program = None
  /\ needle \in {{"lift"}, {"down"}} /\ published = (needle = {"lift"})
  /\ open = {} /\ command = [v \in Vessel |-> "none"]
  /\ pump = FALSE /\ busy = FALSE
  /\ strayed = FALSE /\ upset = FALSE

-----------------------------------------------------------------------------
(* Calls                                                                   *)

\* The steps that begin with a look at the published position of the Y axis.
Looks(s) == s.do \in {"checked", "retried", "liftIfDown"}

\* The steps that are left when the first of them is called.
Now(steps) ==
  IF Head(steps).do = "liftIfDown" /\ published THEN Tail(steps) ELSE steps

\* Wrong: does not look at the axis.
CalledAsIs(s) == s

\* What is called for step s: HOLD_Y_AXIS_TASK comes first if the axis is not
\* published in its hold position.
Called(s) ==
  IF s.do \in {"checked", "retried"} /\ ~published
  THEN [s EXCEPT !.ops = <<"lift">> \o s.ops] ELSE s

\* open and close of a vessel.
Tell(v, what) ==
  /\ open' = open \ {v}
  /\ command' = [command EXCEPT ![v] = what]
  /\ upset' = (upset \/ (v = "TIC" /\ command[v] # "none"))

\* The axis program once the ptprun that is on its way has arrived: it takes the
\* place of the one before.
Arrived == IF sent = <<>> THEN program ELSE [ops |-> sent, stage |-> "waits"]

PtprunArrives ==
  /\ sent # <<>>
  /\ program' = Arrived
  /\ sent' = <<>>
  /\ UNCHANGED <<runVars, answer, needle, published, strayed, portVars>>

\* The current run calls the first of these steps; init: the axes have been
\* initialised before, which comes after what was sent before and ends it.
Call(steps, init) ==
  LET s == Called(Head(Now(steps)))
  IN /\ todo' = <<s>> \o Tail(Now(steps))
     /\ answer' = "none"
     /\ sent' = IF s.ops # <<>> \/ init THEN s.ops ELSE sent
     /\ program' = IF init THEN None ELSE IF s.ops # <<>> THEN Arrived ELSE program
     /\ IF s.do \in {"open", "close"} THEN Tell(s.vessel, s.do) ELSE UNCHANGED portVars
     /\ strayed' = (strayed \/ (Looks(Head(steps)) /\ published /\ needle # {"lift"}))
     /\ UNCHANGED <<needle, published>>

-----------------------------------------------------------------------------
(* Runs                                                                    *)

\* Wrong: the run before is forgotten.
ForgetCurrent == UNCHANGED cancelled

\* SEQUENCE_CANCELLABLE of the run before, if there is one.
CancelCurrent == cancelled' = cancelled \cup ({current} \ {NoRun})

\* ultra_sequence_process_run_callback, with the run of the class: allhold stops
\* pump 6 and the dilution starts it; both and axishold initialise the axes, the
\* dilution without looking at what this answers.
RunCallback(r, k) ==
  /\ ~Pending(r)
  /\ CancelCurrent
  /\ kind' = [kind EXCEPT ![r] = k] /\ current' = r /\ busy' = TRUE
  /\ pump' = (k = "dilution" \/ (pump /\ k # "allhold"))
  /\ \E init \in BOOLEAN :
       /\ init => k \in Initialising
       /\ k \in {"allhold", "axishold"} => init
       /\ Call(Sequence(k), init)

\* One of the calls before the first step fails - for the dilution the ones
\* before the axes are initialised -, and the task has returned when its source
\* object is still in the handler: the callback comes later.
RunFails(r, k) ==
  /\ ~Pending(r) /\ k \in Initialising
  /\ CancelCurrent
  /\ kind' = [kind EXCEPT ![r] = k] /\ current' = r /\ busy' = TRUE
  /\ todo' = <<>> /\ answer' = "none"
  /\ pump' = (pump /\ k # "allhold")
  /\ \/ UNCHANGED <<sent, program>>
     \/ k # "dilution" /\ sent' = <<>> /\ program' = None
  /\ UNCHANGED <<needle, published, strayed, portVars>>

\* ultra_allhold_process_stop_callback (of every sequence)
StopCallback ==
  /\ CancelCurrent
  /\ current' = NoRun /\ todo' = <<>> /\ answer' = "none"
  /\ UNCHANGED <<kind, busy, pump, axisVars, portVars>>

\* Wrong: without the cleanup of the class.
DoneWithoutCleanup(r) ==
  /\ kind' = [kind EXCEPT ![r] = "none"]
  /\ cancelled' = cancelled \ {r}
  /\ IF r = current THEN current' = NoRun /\ todo' = <<>> /\ answer' = "none"
                    ELSE UNCHANGED <<current, todo, answer>>
  /\ busy' = FALSE
  /\ UNCHANGED <<pump, axisVars, portVars>>

\* ultra_sequence_process_done_callback: the cleanup of the class stops pump 6.
Done(r) ==
  /\ kind' = [kind EXCEPT ![r] = "none"]
  /\ cancelled' = cancelled \ {r}
  /\ IF r = current THEN current' = NoRun /\ todo' = <<>> /\ answer' = "none"
                    ELSE UNCHANGED <<current, todo, answer>>
  /\ busy' = FALSE
  /\ pump' = (pump /\ kind[r] # "dilution")
  /\ UNCHANGED <<axisVars, portVars>>

\* The call or the timer of a cancelled run comes back, and the task returns.
CancelledReturns(r) == r \in cancelled /\ Done(r)

\* The callbacks of the run at work, as its answer comes; the pump has filled the
\* vessel.
Returned == todo = <<>> /\ Done(current)

Answered ==
  /\ answer = "ok"
  /\ \/ Len(todo) = 1 /\ Done(current)
     \/ /\ Len(todo) > 1
        /\ Call(Tail(todo), FALSE)
        /\ pump' = (pump /\ Head(todo).do # "fill")
        /\ UNCHANGED <<kind, current, cancelled, busy>>

\* Wrong: tries as often as it fails.
RetriesForEver ==
  /\ answer = "error" /\ Head(todo).do = "retried"
  /\ Call(<<Retried(<<"x">>)>> \o Tail(todo), FALSE)
  /\ UNCHANGED <<kind, current, cancelled, busy, pump>>

\* allhold_ptp_done_async_callback: tries once more.
Retries ==
  /\ answer = "error" /\ Head(todo).do = "retried"
  /\ Call(<<Program(<<"lift", "x">>)>> \o Tail(todo), FALSE)
  /\ UNCHANGED <<kind, current, cancelled, busy, pump>>

Fails == answer = "error" /\ Head(todo).do # "retried" /\ Done(current)

Callback == current # NoRun /\ (Returned \/ Answered \/ Retries \/ Fails)

-----------------------------------------------------------------------------
(* The services                                                            *)

\* The current run waits for a step like this.
Waits(do) ==
  todo # <<>> /\ answer = "none" /\ Head(todo).do \in do

WaitsForProgram ==
  Waits({"program", "checked", "retried", "liftIfDown"}) /\ sent = <<>>
WaitsForPort(v) == Waits({"open", "close"}) /\ Head(todo).vessel = v

\* An answer reaches the current run only if it waits for it.
Reply(heard, what) == answer' = IF heard THEN what ELSE answer

Drives(o) == program.stage # "waits" /\ Head(program.ops) = o

OpBegins ==
  /\ program.ops # <<>> /\ program.stage = "waits"
  /\ program' = [program EXCEPT !.stage = "drives"]
  /\ LET o == Head(program.ops)
     IN IF o = "x" THEN UNCHANGED <<needle, strayed>>
        ELSE needle' = needle \cup {o} /\ strayed' = ~WaitsForProgram
  /\ UNCHANGED <<runVars, answer, sent, published, portVars>>

\* The position of the Y axis is read, and published.
OpRead ==
  /\ program.stage = "drives" /\ ~Drives("x")
  /\ program' = [program EXCEPT !.stage = "read"]
  /\ published' = (needle = {"lift"})
  /\ UNCHANGED <<runVars, answer, sent, needle, strayed, portVars>>

OpEnds ==
  /\ program.stage = "read" \/ Drives("x")
  /\ program' = [ops |-> Tail(program.ops), stage |-> "waits"]
  /\ LET o == Head(program.ops)
     IN IF o = "x" THEN UNCHANGED <<needle, published>>
        ELSE needle' = {o} /\ published' = (o = "lift")
  /\ Reply(WaitsForProgram /\ Len(program.ops) = 1, "ok")
  /\ UNCHANGED <<runVars, sent, strayed, portVars>>

ProgramFails ==
  /\ program.ops # <<>>
  /\ program' = None
  /\ Reply(WaitsForProgram, "error")
  /\ UNCHANGED <<runVars, sent, needle, published, strayed, portVars>>

\* The D-Bus timeout of ptprun, 10 to 60 s: the program goes on.
ProgramTimesOut ==
  /\ WaitsForProgram
  /\ answer' = "error"
  /\ UNCHANGED <<runVars, axisVars, portVars>>

PortEnds(v) ==
  /\ command[v] # "none"
  /\ command' = [command EXCEPT ![v] = "none"]
  /\ \/ /\ open' = IF command[v] = "open" THEN open \cup {v} ELSE open
        /\ Reply(WaitsForPort(v), "ok")
     \/ open' = open /\ Reply(WaitsForPort(v), "error")
  /\ UNCHANGED <<runVars, axisVars, upset>>

\* The timers of the dilution; filling reads an input of the node.
TimerEnds ==
  /\ Waits({"fill", "wait"})
  /\ answer' \in {"ok", "error"}
  /\ answer' = "error" => Waits({"fill"})
  /\ UNCHANGED <<runVars, axisVars, portVars>>

AxisStep == OpBegins \/ OpRead \/ OpEnds \/ ProgramFails

Next ==
  \/ \E r \in Run : \/ \E k \in Kind : RunCallback(r, k) \/ RunFails(r, k)
                    \/ CancelledReturns(r)
  \/ StopCallback \/ Callback
  \/ PtprunArrives \/ AxisStep \/ ProgramTimesOut
  \/ \E v \in Vessel : PortEnds(v)
  \/ TimerEnds

Spec == Init /\ [][Next]_vars

-----------------------------------------------------------------------------
(* What the sequences promise                                              *)

\* X moves with the needle lifted, whatever is superseded, fails or times out
\* before - unless a program nobody waited for has lowered it, or the run was
\* started before the position of a movement was read.
CrossesLifted == Drives("x") => needle = {"lift"} \/ strayed

\* The needle enters a port that is open, and stays so while it is inside.
EntersOpenPort ==
  \A v \in Vessel : Into(v) \in needle => v \in open \/ upset

\* Busy, and pump 6 filling, come to an end with the runs that have set them.
NothingLeftOn ==
  /\ busy => \E r \in Run : Pending(r)
  /\ pump => \E r \in Run : kind[r] = "dilution"

\* The runs are exclusive (ExclusiveRun): one is at work, every other one that
\* has not answered was cancelled.
Runs == INSTANCE ExclusiveRun
        WITH Task <- Run, NoTask <- NoRun, live <- current, draining <- cancelled

RunsAreExclusive ==
  /\ Runs!Spec
  /\ [](\A r \in Run : Pending(r) => r \in Runs!Superseded)

\* Whatever fails, every run comes to its end.  What it waits for is under way -
\* programs and port commands end, as AxisMotion and VesselPort show
\* (EveryProgramEnds, EveryCommandEnds) - and every answer brings it nearer to
\* its end.
AnswerIsDue ==
  todo # <<>> /\ answer = "none" =>
    LET s == Head(todo)
    IN /\ s.do \in {"open", "close"} => command[s.vessel] = s.do
       /\ s.ops # <<>> => sent # <<>> \/ program.ops # <<>>

StepsLeft ==
  2 * Len(todo) + (IF todo # <<>> /\ Head(todo).do = "retried" THEN 1 ELSE 0)

RunsProgress ==
  /\ []AnswerIsDue
  /\ [][current' = current /\ todo' # todo => StepsLeft' < StepsLeft]_vars

\* After an allhold that has succeeded the analyser is in hold: the ports are
\* closed, the needle is lifted, and nothing that an earlier run has started
\* is still under way.
InHold ==
  /\ sent = <<>> /\ program.ops = <<>> /\ (needle = {"lift"} \/ strayed)
  /\ (open = {} /\ \A v \in Vessel : command[v] = "none") \/ upset

AllholdHolds ==
  [][\A r \in Run : kind[r] = "allhold" /\ r = current /\ answer = "ok" /\ ~Pending(r)'
                    => InHold]_vars

=============================================================================
