------------------------------ MODULE VesselPort ------------------------------
(***************************************************************************)
(* The port of a vessel (vessels_service): the furnace and the TIC port    *)
(* are opened and closed by two outputs of a digital node, one for each    *)
(* direction, and report their two ends by two inputs.                     *)
(*                                                                         *)
(* A command switches the opposite output off, its own one on, and reads   *)
(* the end every 0.1 s.  A port that is still not there after 5 s is       *)
(* driven back for half a second and tried once more; after 12 s the       *)
(* command fails.  A new command supersedes the one before: the furnace    *)
(* cancels its GCancellable, the TIC port cancels it and resets it at once.*)
(*                                                                         *)
(* One D-Bus connection and one blocking daemon keep the requests to the   *)
(* node in order: an output changes when its request is sent, an end is    *)
(* read when the callback runs.  The connection to the client stays open.  *)
(* A TIC port without motor answers at once and has none of this.          *)
(***************************************************************************)
EXTENDS Naturals

CONSTANTS
  Vessel,
  Resetting,      \* the vessels that reset the cancellable (the TIC port)
  Travel,         \* the port is closed at 0 and open at Travel
  Command,        \* names for commands in progress (model-checking bound: a
                  \* command needs a free one)
  NoCommand

ASSUME PortAssumption ==
  /\ Vessel # {} /\ Resetting \subseteq Vessel
  /\ Travel \in Nat \ {0}
  /\ NoCommand \notin Command

Direction == {"open", "close"}
Opposite(d) == IF d = "open" THEN "close" ELSE "open"
EndOf(d) == IF d = "open" THEN Travel ELSE 0

VARIABLES
  vessel,     \* which one this is; never changes
  drive,      \* the two outputs
  at,         \* where the port is
  op,         \* the commands in progress (see Operation)
  cancelled,  \* those whose cancellable is cancelled
  current,    \* the one in progress with `activity' as it is now
  busy,       \* is_busy, as published
  isOpen,     \* is_open, as published
  lost,       \* history: the outputs whose last write the node has not done
  upset,      \* history: a superseded command went on
  placed      \* history: the last command if it has succeeded with no write
              \* lost and none before it upset, or "none"

vars ==
  <<vessel, drive, at, op, cancelled, current, busy, isOpen, lost, upset, placed>>

\* What a command waits for: a timer ("start", "wait") or the reply to a call.
Call == {"oppositeOff", "ownOn", "end", "ownOff", "oppositeOn"}

\* The time since the command: up to 5 s, 5 to 5.5 s, up to 12 s, and after.
Age == {"early", "window", "late", "expired"}
Older(a) == CASE a = "early" -> "window" [] a = "window" -> "late" [] OTHER -> "expired"

Operation ==
  [dir : Direction, waits : Call \cup {"start", "wait", "none"}, age : Age]

Idle == [dir |-> "open", waits |-> "none", age |-> "early"]

TypeOK ==
  /\ vessel \in Vessel
  /\ drive \in [Direction -> BOOLEAN] /\ at \in 0..Travel
  /\ op \in [Command -> Operation]
  /\ cancelled \subseteq Command /\ current \in Command \cup {NoCommand}
  /\ busy \in BOOLEAN /\ isOpen \in BOOLEAN
  /\ lost \subseteq Direction /\ upset \in BOOLEAN
  /\ placed \in Direction \cup {"none"}

Pending(c) == op[c].waits # "none"
Live(c)    == Pending(c) /\ c \notin cancelled

Init ==
  /\ vessel \in Vessel
  /\ drive = [d \in Direction |-> FALSE] /\ at \in 0..Travel
  /\ op = [c \in Command |-> Idle]
  /\ cancelled = {} /\ current = NoCommand
  /\ busy = FALSE /\ isOpen = FALSE
  /\ lost = {} /\ upset = FALSE /\ placed = "none"

-----------------------------------------------------------------------------
(* Commands                                                                *)

\* Wrong: the furnace keeps `activity' as it is.
ForgetActivity == UNCHANGED <<cancelled, upset>>

\* What the handlers do to `activity'.  Cancelled and reset at once, it may still
\* interrupt a call (which CallFails allows at any time), but a callback that
\* looks at it later finds nothing.
ReplaceActivity ==
  IF vessel \notin Resetting
  THEN cancelled' = cancelled \cup ({current} \ {NoCommand}) /\ UNCHANGED upset
  ELSE upset' = (upset \/ \E c \in Command : Pending(c)) /\ UNCHANGED cancelled

\* ultra_furnace_object_open_callback, ultra_furnace_object_close_callback; the
\* vessel is busy from open_furnace_operation on.
Start(c, d) ==
  /\ ~Pending(c)
  /\ ReplaceActivity
  /\ op' = [op EXCEPT ![c] = [Idle EXCEPT !.dir = d, !.waits = "start"]]
  /\ current' = c
  /\ busy' = TRUE
  /\ placed' = "none"
  /\ UNCHANGED <<vessel, drive, at, isOpen, lost>>

-----------------------------------------------------------------------------
(* The end of a command                                                    *)

Ends(c, published, success) ==
  /\ op' = [op EXCEPT ![c] = Idle]
  /\ cancelled' = cancelled \ {c}
  /\ current' = IF c = current THEN NoCommand ELSE current
  /\ busy' = FALSE
  /\ isOpen' = published
  /\ placed' = IF success /\ lost = {} /\ ~upset THEN op[c].dir ELSE placed
  /\ UNCHANGED <<vessel, drive, at, lost, upset>>

\* open_furnace_done: is_open becomes TRUE however the command has ended.
OpenDone(c, success) == op[c].dir = "open" /\ Ends(c, TRUE, success)

\* close_furnace_done
CloseDone(c, success) ==
  op[c].dir = "close" /\ Ends(c, IF success THEN FALSE ELSE isOpen, success)

Done(c, success) == OpenDone(c, success) \/ CloseDone(c, success)

\* g_task_return_error_if_cancelled, the first thing every callback does.
CancelledReturns(c) == Pending(c) /\ c \in cancelled /\ Done(c, FALSE)

\* The call returns an error (nobody looks at the one that drives back).
CallFails(c) ==
  /\ Live(c) /\ op[c].waits \in Call \ {"oppositeOn"}
  /\ Done(c, FALSE)

-----------------------------------------------------------------------------
(* The steps of a command                                                  *)

Await(c, what) ==
  /\ op' = [op EXCEPT ![c].waits = what]
  /\ UNCHANGED <<vessel, at, cancelled, current, busy, isOpen, upset, placed>>

\* set_digital_out.  The node may not do it: it answers FALSE, which the
\* callbacks do not look at, or the call returns an error.
Switch(c, d, value, what) ==
  /\ Await(c, what)
  /\ \/ drive' = [drive EXCEPT ![d] = value] /\ lost' = lost \ {d}
     \/ drive' = drive /\ lost' = lost \cup {d}

\* A callback of a live command whose call has not failed.
Resumes(c, what) == Live(c) /\ op[c].waits = what

\* Wrong: a command starts before its predecessor has come back.
SwitchOppositeOffAtOnce(c) ==
  /\ Resumes(c, "start") /\ op[c].age # "window"
  /\ Switch(c, Opposite(op[c].dir), FALSE, "oppositeOff")

\* START_timeout_callback.  The timer runs 0.2 s, in which a cancelled command
\* has come back (its timer looks at the cancellable every 0.5 ms, its call
\* returns at once), or 0.5 s after it was driven back, more than the window.
SwitchOppositeOff(c) ==
  /\ Resumes(c, "start") /\ op[c].age # "window"
  /\ cancelled = {}
  /\ Switch(c, Opposite(op[c].dir), FALSE, "oppositeOff")

\* OUT_CLOSE_BIT_callback of the opening, OUT_OPEN_BIT_callback of the closing
SwitchOwnOn(c) ==
  /\ Resumes(c, "oppositeOff")
  /\ Switch(c, op[c].dir, TRUE, "ownOn")

\* OUT_OPEN_BIT_callback, and WAITE_timeout_callback 0.1 s after a reading
ReadEnd(c) ==
  /\ Resumes(c, "ownOn") \/ Resumes(c, "wait")
  /\ Await(c, "end")
  /\ UNCHANGED <<drive, lost>>

\* Wrong: looks at the time first, and waits on without end.
EndReadUntimed(c) ==
  /\ Resumes(c, "end")
  /\ \/ at = EndOf(op[c].dir) /\ Done(c, TRUE)
     \/ /\ at # EndOf(op[c].dir)
        /\ Await(c, "wait") /\ UNCHANGED <<drive, lost>>

\* IN_OPEN_BIT_callback
EndRead(c) ==
  /\ Resumes(c, "end")
  /\ CASE at = EndOf(op[c].dir)   -> Done(c, TRUE)
       [] op[c].age = "window"    -> Switch(c, op[c].dir, FALSE, "ownOff")
       [] op[c].age = "expired"   -> Done(c, FALSE)
       [] OTHER                   -> Await(c, "wait") /\ UNCHANGED <<drive, lost>>

\* Wrong: drives back with its own output still on.
SwitchBothOn(c) ==
  /\ Resumes(c, "ownOff")
  /\ Await(c, "oppositeOn")
  /\ drive' = [drive EXCEPT ![Opposite(op[c].dir)] = TRUE, ![op[c].dir] = TRUE]
  /\ lost' = lost

\* OUT_OPEN_BIT_CLOSE_callback: drives back.
SwitchOppositeOn(c) ==
  /\ Resumes(c, "ownOff")
  /\ Switch(c, Opposite(op[c].dir), TRUE, "oppositeOn")

\* OUT_CLOSE_BIT_OPEN_callback: tries once more, whatever the call returned.
DrivenBack(c) ==
  /\ Live(c) /\ op[c].waits = "oppositeOn"
  /\ Await(c, "start")
  /\ UNCHANGED <<drive, lost>>

\* Time passes.
GrowsOld(c) ==
  /\ Live(c) /\ op[c].age # "expired"
  /\ op' = [op EXCEPT ![c].age = Older(@)]
  /\ UNCHANGED <<vessel, drive, at, cancelled, current, busy, isOpen, lost, upset, placed>>

\* The port follows the output that is on, if it is not stuck; with both on it
\* may go either way.
PortMoves ==
  /\ \/ drive["open"] /\ at < Travel /\ at' = at + 1
     \/ drive["close"] /\ at > 0 /\ at' = at - 1
  /\ UNCHANGED <<vessel, drive, op, cancelled, current, busy, isOpen, lost, upset, placed>>

Callback(c) ==
  \/ CancelledReturns(c) \/ CallFails(c)
  \/ SwitchOppositeOff(c) \/ SwitchOwnOn(c) \/ ReadEnd(c) \/ EndRead(c)
  \/ SwitchOppositeOn(c) \/ DrivenBack(c)

Next ==
  \/ \E c \in Command :
       \/ \E d \in Direction : Start(c, d)
       \/ Callback(c) \/ GrowsOld(c)
  \/ PortMoves

Spec == Init /\ [][Next]_vars

\* Timers fire, calls return (after the D-Bus timeout at the latest) and time
\* passes.  Nothing is assumed of the port and of the clients.
LiveSpec ==
  Spec /\ \A c \in Command : WF_vars(Callback(c)) /\ WF_vars(GrowsOld(c))

-----------------------------------------------------------------------------
(* What a vessel promises                                                  *)

\* The motor is never told to open and to close at once, unless the node has
\* not done a write or a superseded command of the TIC port went on.
Interlocked == drive["open"] /\ drive["close"] => lost # {} \/ upset

\* A port that was opened or closed stays so until the next command: nothing
\* left over of an earlier command moves it.
PortStaysPlaced == placed # "none" => at = EndOf(placed)

\* What is published after a command that has succeeded is the end reached,
\* whatever the commands it has superseded publish late; and a vessel is busy
\* only while a command is in progress.
PublishedFits ==
  /\ placed # "none" => (isOpen <=> placed = "open")
  /\ busy => \E c \in Command : Pending(c)

\* Commands of the furnace are exclusive (ExclusiveRun): one is at work, every
\* other one that has not answered was cancelled.
LiveCommand == IF vessel \in Resetting THEN NoCommand ELSE current
Draining == IF vessel \in Resetting THEN {} ELSE cancelled

Runs == INSTANCE ExclusiveRun
        WITH Task <- Command, NoTask <- NoCommand,
             live <- LiveCommand, draining <- Draining

CommandsAreExclusive ==
  /\ Runs!Spec
  /\ [](vessel \notin Resetting =>
          \A c \in Command : Pending(c) => c \in Runs!Superseded)

\* Every command is answered, however the port and the node behave, and for
\* the TIC port even if it fights with one that should have gone.
EveryCommandEnds == \A c \in Command : Pending(c) ~> ~Pending(c)

\* After the 12 s: the callbacks a command still has before its end.
CallbacksLeft(c) ==
  [none |-> 0, end |-> 1, wait |-> 2, ownOn |-> 2, oppositeOff |-> 3, start |-> 4,
   oppositeOn |-> 5, ownOff |-> 6][op[c].waits]

\* However the port sticks and whatever the node does not do: each callback of a
\* command whose 12 s are over brings it nearer to its end, and no other command
\* gives it time again - neither the try once more nor the wait for the end switch
\* goes on.
CommandsComeNearer ==
  [][\A c \in Command : op[c].age = "expired" /\ op'[c] # op[c] =>
       /\ CallbacksLeft(c)' < CallbacksLeft(c)
       /\ ~Pending(c)' \/ op'[c].age = "expired"]_vars

=============================================================================
