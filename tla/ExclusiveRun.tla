---------------------------- MODULE ExclusiveRun ----------------------------
(***************************************************************************)
(* What every layer of the analyser promises about the work it starts: one *)
(* piece of work at a time, and whoever starts the next one supersedes the *)
(* one before.  GCancellable only asks: a superseded run is `draining'     *)
(* until its callback has been called, it never becomes live again, and    *)
(* its name is not given to a new run before.                              *)
(*                                                                         *)
(* The measurement service keeps this promise for processes                *)
(* (ultra_control_start_process), the sequence service for sequences       *)
(* (SEQUENCE_CANCELLABLE), the axis service for axis programs              *)
(* (MOVE_cancel), and the vessels service for the commands of the furnace  *)
(* (activity).                                                             *)
(***************************************************************************)
CONSTANTS Task, NoTask

VARIABLES live,     \* the run at work, or NoTask
          draining  \* cancelled runs whose callback is still to come

runVars == <<live, draining>>

Superseded == draining \cup ({live} \ {NoTask})

Init == live = NoTask /\ draining = {}

\* A new run takes the place of the live one.
Start(t) ==
  /\ t \in Task \ Superseded
  /\ live' = t /\ draining' = Superseded

Cancel ==
  /\ live # NoTask
  /\ live' = NoTask /\ draining' = Superseded

\* The callback of a run, live or not.
Finish(t) ==
  /\ t \in Superseded
  /\ live' = IF t = live THEN NoTask ELSE live
  /\ draining' = draining \ {t}

\* The callback of t starts the run u.
FinishAndStart(t, u) ==
  /\ t \in Superseded /\ u \in Task \ (Superseded \ {t})
  /\ live' = u /\ draining' = Superseded \ {t}

Next ==
  \/ \E t \in Task : Start(t) \/ Finish(t)
  \/ \E t, u \in Task : FinishAndStart(t, u)
  \/ Cancel

Spec == Init /\ [][Next]_runVars

=============================================================================
