----------------------- MODULE ControlProcess_proofs ------------------------
(***************************************************************************)
(* Proofs about ControlProcess, for any set of processes, any number of    *)
(* runs in progress and any bound on the wait list.                        *)
(*                                                                         *)
(* The handlers are compositions of a few operators on the record ctl, so  *)
(* there is a lemma per operator, and the step of a handler chains them.   *)
(***************************************************************************)
EXTENDS ControlProcess, SequenceTheorems, WellFoundedInduction, TLAPS

USE DEF AnyProcess

-----------------------------------------------------------------------------
(* Types                                                                   *)

\* A non-empty set of numbers has a least element.
LEMMA LeastElement ==
  ASSUME NEW I \in SUBSET Nat, I # {}
  PROVE  \E x \in I : \A y \in I : x <= y
<1>1. PICK x \in I : \A y \in I : ~(<<y, x>> \in OpToRel(<, Nat))
  BY WFMin, NatLessThanWellFounded
<1>2. \A y \in I : ~(y < x)
  BY <1>1 DEF OpToRel
<1>3. QED
  BY <1>2

\* Removing an element from the wait list leaves a list of processes.
LEMMA RemoveFirstType ==
  ASSUME NEW S, NEW s \in Seq(S), NEW e
  PROVE  RemoveFirst(s, e) \in Seq(S)
<1>1. CASE ~\E i \in 1..Len(s) : s[i] = e
  BY <1>1 DEF RemoveFirst
<1>2. CASE \E i \in 1..Len(s) : s[i] = e
  <2> DEFINE I == {i \in 1..Len(s) : s[i] = e}
  <2> DEFINE k == CHOOSE x \in I : \A y \in I : x <= y
  <2>1. RemoveFirst(s, e) = SubSeq(s, 1, k - 1) \o SubSeq(s, k + 1, Len(s))
    BY <1>2 DEF RemoveFirst, RemoveAt, SelectInSeq, Min
  <2>2. \E x \in I : \A y \in I : x <= y
    BY <1>2, LeastElement, I # {}, I \in SUBSET Nat
  <2>3. k \in 1..Len(s)
    BY <2>2
  <2>4. SubSeq(s, 1, k - 1) \in Seq(S) /\ SubSeq(s, k + 1, Len(s)) \in Seq(S)
    <3> HIDE DEF k
    <3> QED BY <2>3, SubSeqProperties
  <2>5. QED
    BY <2>1, <2>4
<1>3. QED
  BY <1>1, <1>2

\* Cancelling a run keeps the runs well-formed.
LEMMA CancelRunType == ASSUME NEW c \in Ctl PROVE CancelRun(c) \in Ctl
  BY DEF Ctl, CancelRun

\* ... and so does releasing CONTROL->cancellable with it.
LEMMA CancelType == ASSUME NEW c \in Ctl PROVE Cancel(c) \in Ctl
  BY DEF Ctl, CancelRun, Cancel

\* ... and process_halt.
LEMMA HaltType == ASSUME NEW c \in Ctl, NEW p PROVE Halt(c, p) \in Ctl
  BY DEF Ctl, Halt

\* Starting a process keeps the runs well-formed while a name is free.
LEMMA StartProcessType ==
  ASSUME NEW c \in Ctl, NEW p \in AnyProcess, FreeTask(c) # {}
  PROVE  StartProcess(c, p) \in Ctl
<1> DEFINE t == CHOOSE t \in FreeTask(c) : TRUE
<1> DEFINE h == Halt(CancelRun(c), p)
<1> DEFINE s == [h EXCEPT !.run[t] = p, !.cancellable = t, !.runned = p]
<1>1. t \in Task
  BY DEF FreeTask
<1>2. h \in Ctl
  BY CancelRunType, HaltType
<1>3. s \in Ctl
  <2> HIDE DEF h, t
  <2> QED BY <1>1, <1>2 DEF Ctl
<1>4. ProcessOnline(s, p) \in Ctl
  <2> HIDE DEF s
  <2> QED BY <1>3 DEF Ctl, ProcessOnline
<1>5. QED
  BY <1>4 DEF StartProcess

\* What starts becomes CONTROL->runned.
LEMMA StartProcessRunned ==
  ASSUME NEW c \in Ctl, NEW p \in AnyProcess, FreeTask(c) # {}
  PROVE  StartProcess(c, p).runned = p
<1> DEFINE t == CHOOSE t \in FreeTask(c) : TRUE
<1> DEFINE h == Halt(CancelRun(c), p)
<1> DEFINE s == [h EXCEPT !.run[t] = p, !.cancellable = t, !.runned = p]
<1>1. h \in Ctl
  BY CancelRunType, HaltType
<1>2. s.runned = p
  <2> HIDE DEF h, t
  <2> QED BY <1>1 DEF Ctl
<1>3. ProcessOnline(s, p).runned = s.runned
  <2>1. "runned" \in DOMAIN s
    <3> HIDE DEF h, t
    <3> QED BY <1>1 DEF Ctl
  <2> HIDE DEF s
  <2>2. QED
    BY <2>1 DEF ProcessOnline
<1>4. QED
  BY <1>2, <1>3 DEF StartProcess

\* A change of the wait list alone keeps the record well-typed, and the free
\* names as they are.
LEMMA WaitType ==
  ASSUME NEW c \in Ctl, NEW w \in Seq(AnyProcess)
  PROVE  /\ [c EXCEPT !.wait = w] \in Ctl
         /\ FreeTask([c EXCEPT !.wait = w]) = FreeTask(c)
<1>1. [c EXCEPT !.wait = w] \in Ctl
  BY DEF Ctl
<1>2. [c EXCEPT !.wait = w].run = c.run
  BY DEF Ctl
<1>3. QED
  BY <1>1, <1>2 DEF FreeTask, Pending

\* So does taking the next process off the wait list.
LEMMA RunNextType ==
  ASSUME NEW c \in Ctl, NEW open, FreeTask(c) # {}
  PROVE  RunNext(c, open) \in Ctl
<1>1. CASE c.wait = <<>>
  BY <1>1 DEF RunNext
<1>2. CASE c.wait # <<>>
  <2> DEFINE d == [c EXCEPT !.wait = Tail(@)]
  <2>1. c.wait \in Seq(AnyProcess)
    BY DEF Ctl
  <2>2. Tail(c.wait) \in Seq(AnyProcess) /\ Head(c.wait) \in AnyProcess
    BY <1>2, <2>1, HeadTailProperties
  <2>3. d \in Ctl /\ FreeTask(d) # {}
    BY <2>2, WaitType
  <2>4. StartProcess(d, Head(c.wait)) \in Ctl
    <3> HIDE DEF d
    <3> QED BY <2>2, <2>3, StartProcessType
  <2>5. QED
    BY <2>4 DEF RunNext
<1>3. QED
  BY <1>1, <1>2

\* So does adding a process to the wait list.
LEMMA AddWaitType ==
  ASSUME NEW c \in Ctl, NEW p \in Process, NEW open, FreeTask(c) # {}
  PROVE  AddWait(c, p, open) \in Ctl
<1> DEFINE d == [c EXCEPT !.wait = Append(@, p)]
<1>1. Append(c.wait, p) \in Seq(AnyProcess)
  <2>1. c.wait \in Seq(AnyProcess) /\ p \in AnyProcess
    BY DEF Ctl
  <2>2. QED
    BY <2>1, AppendProperties
<1>2. d \in Ctl /\ FreeTask(d) # {}
  BY <1>1, WaitType
<1>3. RunNext(d, open) \in Ctl
  <2> HIDE DEF d
  <2> QED BY <1>2, RunNextType
<1>4. QED
  BY <1>3 DEF AddWait

\* So does breaking everything off.
LEMMA BreakAllType ==
  ASSUME NEW c \in Ctl
  PROVE  BreakAll(c) \in Ctl /\ FreeTask(BreakAll(c)) = FreeTask(c)
<1> DEFINE d == [c EXCEPT !.wait = <<>>]
<1>1. d \in Ctl /\ FreeTask(d) = FreeTask(c)
  BY WaitType, <<>> \in Seq(AnyProcess)
<1>2. Cancel(d) \in Ctl /\ Cancel(d).run = d.run
  <2> HIDE DEF d
  <2> QED BY <1>1 DEF Ctl, Cancel, CancelRun
<1>3. \A e \in Ctl : AllOffline(e) \in Ctl /\ AllOffline(e).run = e.run
  BY DEF Ctl, AllOffline
<1>4. QED
  BY <1>1, <1>2, <1>3 DEF BreakAll, FreeTask, Pending

\* So does leaving a range.
LEMMA LeaveRangeType ==
  ASSUME NEW c \in Ctl, NEW p \in Process
  PROVE  /\ LeaveRange(c, p) \in Ctl /\ LeaveRange(c, p).runned = c.runned
         /\ FreeTask(LeaveRange(c, p)) = FreeTask(c)
<1> DEFINE d == ProcessOffline(Halt(c, p), p)
<1>1. d \in Ctl /\ d.run = c.run /\ d.runned = c.runned
  BY DEF Ctl, ProcessOffline, Halt
<1>2. RemoveFirst(d.wait, p) \in Seq(AnyProcess)
  BY <1>1, RemoveFirstType DEF Ctl
<1>3. [d EXCEPT !.wait = RemoveFirst(@, p)] \in Ctl
  <2> HIDE DEF d
  <2> QED BY <1>1, <1>2, WaitType
<1>4. LET e == [d EXCEPT !.wait = RemoveFirst(@, p)]
      IN  e.run = c.run /\ e.runned = c.runned
  <2> HIDE DEF d
  <2> QED BY <1>1 DEF Ctl
<1>5. QED
  BY <1>3, <1>4 DEF LeaveRange, FreeTask, Pending

\* The wait list that going online writes.
LEMMA GoOnlineType ==
  ASSUME NEW c \in Ctl, NEW open, FreeTask(c) # {} \/ c.runned # NoProcess
  PROVE  GoOnline(c, open) \in Ctl
<1> DEFINE reset == [c EXCEPT !.timer = [p \in Process |->
                       IF c.timer[p] = "armed" THEN "idle" ELSE c.timer[p]]]
           left  == IF RangeSwitching /\ Range1 \in OnlineProcess
                    THEN LeaveRange(reset, Range2) ELSE reset
           d     == [left EXCEPT
                       !.wait   = StartOrder,
                       !.online = [p \in Process |->
                                     p \in OnlineProcess \/ left.online[p]],
                       !.timer  = [p \in Process |->
                                     IF p \in ArmsOnline THEN "armed"
                                     ELSE left.timer[p]]]
<1>1. reset \in Ctl /\ reset.run = c.run /\ reset.runned = c.runned
  BY DEF Ctl
<1>2. /\ left \in Ctl /\ left.runned = c.runned
      /\ FreeTask(left) = FreeTask(c)
  <2>1. FreeTask(reset) = FreeTask(c)
    BY <1>1 DEF FreeTask, Pending
  <2>2. QED
    <3> HIDE DEF reset
    <3> QED BY <1>1, <2>1, LeaveRangeType, ProcessAssumption
<1>3. d \in Ctl /\ d.run = left.run /\ d.runned = c.runned
  <2>1. StartOrder \in Seq(AnyProcess)
    BY StartOrderAssumption
  <2> HIDE DEF left
  <2>2. QED
    BY <1>2, <2>1 DEF Ctl
<1>4. RunNext(d, open) \in Ctl
  <2>1. FreeTask(d) = FreeTask(c)
    BY <1>2, <1>3 DEF FreeTask, Pending
  <2> HIDE DEF d
  <2>2. CASE c.runned # NoProcess
    BY <1>3, <2>2 DEF RunNext
  <2>3. QED
    BY <1>3, <2>1, <2>2, RunNextType
<1>5. QED
  BY <1>4 DEF GoOnline

\* So does the end of a run, which moreover frees a name.
LEMMA EndedType ==
  ASSUME ctl \in Ctl, NEW t \in Task
  PROVE  Ended(t) \in Ctl /\ t \in FreeTask(Ended(t))
<1> DEFINE d == [ctl EXCEPT !.runned = NoProcess, !.run[t] = NoProcess,
                            !.cancelled = @ \ {t}]
<1>1. d \in Ctl /\ d.run[t] = NoProcess
  BY DEF Ctl
<1>2. Halt(d, ctl.run[t]) \in Ctl /\ Halt(d, ctl.run[t]).run = d.run
  <2> HIDE DEF d
  <2> QED BY <1>1 DEF Ctl, Halt
<1>3. QED
  BY <1>1, <1>2 DEF Ended, FreeTask, Pending

\* The wait list that a node reset writes.
LEMMA ResetWaitType ==
  ASSUME NEW c \in Ctl
  PROVE  (IF c.runned = NoProcess THEN c.wait ELSE <<c.runned>> \o c.wait)
           \in Seq(AnyProcess)
<1>1. c.wait \in Seq(AnyProcess) /\ c.runned \in AnyProcess \cup {NoProcess}
  BY DEF Ctl
<1>2. CASE c.runned # NoProcess
  <2>1. <<c.runned>> \in Seq(AnyProcess)
    BY <1>1, <1>2
  <2>2. QED
    BY <1>1, <2>1, ConcatProperties
<1>3. QED
  BY <1>1, <1>2

\* The start-up state is well-formed.
LEMMA InitTypeOK == Init => TypeOK
<1> SUFFICES ASSUME Init PROVE TypeOK
  OBVIOUS
<1>1. ctl \in Ctl
  BY <<>> \in Seq(AnyProcess) DEF Init, Ctl
<1>2. errorRetry = 0 /\ switched = 0
  BY DEF Init
<1>3. /\ autostart \in BOOLEAN /\ maintenance \in BOOLEAN
      /\ firstAutostart \in BOOLEAN /\ critical \in BOOLEAN
      /\ ignoreCritical \in BOOLEAN /\ stopSignal \in BOOLEAN
      /\ polling \in BOOLEAN /\ busy \in BOOLEAN /\ booted \in BOOLEAN
  BY DEF Init
<1>4. QED
  BY <1>1, <1>2, <1>3 DEF TypeOK, RetryLimit, SwitchLimit


\* Every handler keeps the state well-formed.
LEMMA NextTypeOK == TypeOK /\ [Next]_vars => TypeOK'
<1> SUFFICES ASSUME TypeOK, [Next]_vars PROVE TypeOK'
  OBVIOUS
<1>0. ctl \in Ctl
  BY DEF TypeOK
<1>1. CASE Boot
  <2>1. StartProcess(ctl, Hold) \in Ctl
    BY <1>0, <1>1, StartProcessType DEF Boot, HasTask
  <2>2. StartProcess(ctl, Hold).runned # NoProcess
    BY <1>0, <1>1, StartProcessRunned, ProcessAssumption DEF Boot, HasTask
  <2>3. ctl' \in Ctl
    BY <1>1, <2>1, <2>2, GoOnlineType DEF Boot, Online
  <2>4. QED
    BY <1>1, <2>3 DEF Boot, Online, TypeOK, Busy
<1>2. CASE OnlineCommand
  <2>1. ctl' \in Ctl
    BY <1>0, <1>2, GoOnlineType DEF OnlineCommand, Online, HasTask
  <2>2. QED
    BY <1>2, <2>1 DEF OnlineCommand, Online, TypeOK, Busy
<1>3. CASE OfflineCommand
  <2>1. ctl' \in Ctl
    BY <1>0, <1>3, BreakAllType, StartProcessType DEF OfflineCommand, HasTask
  <2>2. QED
    BY <1>3, <2>1 DEF OfflineCommand, TypeOK, Busy
<1>4. ASSUME HasTask, CriticalStop PROVE ctl' \in Ctl /\ autostart' \in BOOLEAN
  BY <1>0, <1>4, BreakAllType, StartProcessType DEF CriticalStop, HasTask
<1>5. CASE IgnoreCriticalCommand
  <2>1. ctl' \in Ctl /\ autostart' \in BOOLEAN
    BY <1>0, <1>4, <1>5 DEF IgnoreCriticalCommand, TypeOK
  <2>2. QED
    BY <1>5, <2>1 DEF IgnoreCriticalCommand, TypeOK, Busy
<1>6. CASE MaintenanceOn
  BY <1>6 DEF MaintenanceOn, TypeOK
<1>7. ASSUME NEW p \in Process, StartCommand(p) PROVE TypeOK'
  <2>1. ctl' \in Ctl
    BY <1>0, <1>7, AddWaitType DEF StartCommand, HasTask
  <2>2. QED
    BY <1>7, <2>1 DEF StartCommand, TypeOK, Busy
<1>8. ASSUME NEW p \in Process, BreakCommand(p) PROVE TypeOK'
  <2>1. RemoveFirst(ctl.wait, p) \in Seq(AnyProcess)
    BY <1>0, RemoveFirstType DEF Ctl
  <2>2. [ctl EXCEPT !.wait = RemoveFirst(@, p)] \in Ctl
    BY <1>0, <2>1, WaitType
  <2>3. ctl' \in Ctl
    BY <1>8, <2>2, CancelType DEF BreakCommand
  <2>4. QED
    BY <1>8, <2>3 DEF BreakCommand, TypeOK
<1>9. ASSUME NEW p \in Process, UserNext(p) PROVE TypeOK'
  <2>1. ctl' \in Ctl
    BY <1>0, <1>9 DEF UserNext, Ctl
  <2>2. QED
    BY <1>9, <2>1 DEF UserNext, TypeOK
<1>10. ASSUME NEW p \in Process, TimerFires(p) PROVE TypeOK'
  <2> DEFINE d == [ctl EXCEPT !.timer[p] = "none"]
  <2>1. d \in Ctl /\ d.run = ctl.run
    BY <1>0 DEF Ctl
  <2>2. FreeTask(d) # {}
    BY <1>10, <2>1 DEF TimerFires, HasTask, FreeTask, Pending
  <2>3. AddWait(d, p, Open) \in Ctl
    <3> HIDE DEF d
    <3> QED BY <2>1, <2>2, AddWaitType
  <2>4. QED
    BY <1>10, <2>3 DEF TimerFires, TypeOK, Busy
<1>11. ASSUME NEW p \in Process, IntervalChanged(p) PROVE TypeOK'
  <2>1. ctl' \in Ctl
    BY <1>0, <1>11 DEF IntervalChanged, Ctl
  <2>2. QED
    BY <1>11, <2>1 DEF IntervalChanged, TypeOK, Busy
<1>12. CASE CriticalChange
  <2>1. ctl' \in Ctl /\ autostart' \in BOOLEAN
    BY <1>0, <1>4, <1>12, RunNextType DEF CriticalChange, TypeOK, HasTask
  <2>2. QED
    BY <1>12, <2>1 DEF CriticalChange, TypeOK, Busy
<1>13. CASE NodeReset
  <2> DEFINE w == IF ctl.runned = NoProcess THEN ctl.wait
                  ELSE <<ctl.runned>> \o ctl.wait
             d == [ctl EXCEPT !.wait = w]
  <2>1. w \in Seq(AnyProcess)
    BY <1>0, ResetWaitType
  <2>2. d \in Ctl /\ FreeTask(d) # {}
    BY <1>0, <1>13, <2>1, WaitType DEF NodeReset, HasTask
  <2>3. Cancel(d) \in Ctl /\ FreeTask(Cancel(d)) # {}
    <3> HIDE DEF d
    <3> QED BY <2>2 DEF Ctl, Cancel, CancelRun, FreeTask, Pending
  <2>4. ctl' = StartProcess(Cancel(d), Hold)
    BY <1>13 DEF NodeReset
  <2>5. ctl' \in Ctl
    <3> HIDE DEF d
    <3> QED BY <2>3, <2>4, StartProcessType
  <2>6. QED
    BY <1>13, <2>5 DEF NodeReset, TypeOK, Busy
<1>14. CASE StopSignalChanged
  <2>1. ctl' \in Ctl
    BY <1>0, <1>14, RunNextType DEF StopSignalChanged, HasTask
  <2>2. QED
    BY <1>14, <2>1 DEF StopSignalChanged, TypeOK, Busy
<1>15. CASE PollRetry
  <2>1. ctl' \in Ctl
    BY <1>0, <1>15, RunNextType DEF PollRetry, HasTask
  <2>2. QED
    BY <1>15, <2>1 DEF PollRetry, TypeOK, Busy
<1>16. CASE StopSignalReadFails
  BY <1>16 DEF StopSignalReadFails, TypeOK
<1>17. ASSUME NEW t \in Task, AwaitUser(t) PROVE TypeOK'
  <2>1. ctl' \in Ctl
    BY <1>0, <1>17 DEF AwaitUser, Ctl
  <2>2. QED
    BY <1>17, <2>1 DEF AwaitUser, TypeOK
<1>18. ASSUME NEW t \in Task, ProcessDone(t) PROVE TypeOK'
  <2>1. Ended(t) \in Ctl /\ FreeTask(Ended(t)) # {}
    BY <1>0, EndedType
  <2>2. CASE RunFails(t)
    <3>1. ctl' \in Ctl /\ errorRetry' \in 0..RetryLimit
      BY <2>1, <2>2, StartProcessType DEF RunFails, TypeOK, RetryLimit
    <3>2. QED
      BY <1>18, <2>2, <3>1 DEF ProcessDone, RunFails, TypeOK, Busy
  <2>3. ASSUME NEW inRange \in BOOLEAN, RunSucceeds(t, inRange) PROVE TypeOK'
    <3> DEFINE p     == ctl.run[t]
               other == IF p = Range1 THEN Range2 ELSE Range1
               switch == /\ RangeSwitching /\ p \in {Range1, Range2} /\ ~inRange
                         /\ p = Range2 => switched + 1 < SwitchLimit
    <3>1. CASE switch
      <4>1. p \in Process /\ other \in Process
        BY <3>1, ProcessAssumption
      <4>2. LeaveRange(Ended(t), p) \in Ctl /\ FreeTask(LeaveRange(Ended(t), p)) # {}
        BY <2>1, <4>1, LeaveRangeType
      <4>3. StartProcess(LeaveRange(Ended(t), p), other) \in Ctl
        BY <4>1, <4>2, StartProcessType
      <4>4. ctl' = StartProcess(LeaveRange(Ended(t), p), other)
        BY <2>3, <3>1 DEF RunSucceeds
      <4>5. switched' \in 0..SwitchLimit - 1
        BY <2>3, <3>1 DEF RunSucceeds, TypeOK, SwitchLimit
      <4>6. QED
        BY <1>18, <2>3, <4>3, <4>4, <4>5
           DEF ProcessDone, RunSucceeds, TypeOK, Busy, RetryLimit
    <3>2. CASE ~switch
      <4>1. ctl' = RunNext(Ended(t), Open) /\ switched' \in {0, switched}
        BY <2>3, <3>2 DEF RunSucceeds
      <4>2. RunNext(Ended(t), Open) \in Ctl
        BY <2>1, RunNextType
      <4>3. QED
        BY <1>18, <2>3, <4>1, <4>2
           DEF ProcessDone, RunSucceeds, TypeOK, Busy, RetryLimit, SwitchLimit
    <3>3. QED
      BY <3>1, <3>2
  <2>4. QED
    BY <1>18, <2>2, <2>3 DEF ProcessDone
<1>19. CASE UNCHANGED vars
  BY <1>19 DEF vars, TypeOK
<1>20. QED
  BY <1>1, <1>2, <1>3, <1>5, <1>6, <1>7, <1>8, <1>9, <1>10, <1>11, <1>12,
     <1>13, <1>14, <1>15, <1>16, <1>17, <1>18, <1>19 DEF Next


\* Every variable keeps its type: in particular the name that a new run takes
\* is always a free one, and the counters stay within the limits that the
\* code compares them with.
THEOREM TypeCorrect == Spec => []TypeOK
  BY InitTypeOK, NextTypeOK, PTL DEF Spec

-----------------------------------------------------------------------------
(* Safety                                                                  *)

(* The invariants as predicates of the record, which the operators map to  *)
(* records.                                                                *)
Controlled(c)    == \A t \in Task : Live(c, t) => c.cancellable = t
Quiet(c)         == \A t \in Task : Live(c, t) => c.run[t] \notin Process
RunnedEnds(c)    == c.runned # NoProcess =>
                      \E t \in Task : /\ c.run[t] = c.runned
                                      /\ t \in c.awaiting => c.asks[c.runned] = t
Awaits(c)        == \A t \in c.awaiting : c.run[t] \in Calibration
OfflineClean(c)  == \A p \in Process : ~c.online[p] => c.timer[p] = "none"
Safe(c)          == Controlled(c) /\ RunnedEnds(c) /\ Awaits(c) /\ OfflineClean(c)

\* Cancelling what CONTROL can cancel leaves no live run, because only that
\* run is live.
LEMMA CancelRunSafe ==
  ASSUME NEW c \in Ctl, Controlled(c)
  PROVE  /\ \A t \in Task : ~Live(CancelRun(c), t)
         /\ CancelRun(c).run = c.run /\ CancelRun(c).runned = c.runned
         /\ CancelRun(c).online = c.online /\ CancelRun(c).timer = c.timer
         /\ CancelRun(c).awaiting = c.awaiting /\ CancelRun(c).asks = c.asks
<1>1. \A t \in Task : t # NoTask
  BY TaskAssumption
<1>2. QED
  BY <1>1 DEF Ctl, CancelRun, Controlled, Live, Pending

\* ultra_control_cancel keeps the parts of the invariant, and nothing is live.
LEMMA CancelSafe ==
  ASSUME NEW c \in Ctl, Controlled(c)
  PROVE  /\ \A t \in Task : ~Live(Cancel(c), t)
         /\ Cancel(c).run = c.run /\ Cancel(c).runned = c.runned
         /\ Cancel(c).online = c.online /\ Cancel(c).timer = c.timer
         /\ Cancel(c).awaiting = c.awaiting /\ Cancel(c).asks = c.asks
<1> DEFINE d == CancelRun(c)
<1>1. d \in Ctl
  BY CancelRunType
<1>2. /\ [d EXCEPT !.cancellable = NoTask].run = d.run
      /\ [d EXCEPT !.cancellable = NoTask].runned = d.runned
      /\ [d EXCEPT !.cancellable = NoTask].cancelled = d.cancelled
      /\ [d EXCEPT !.cancellable = NoTask].online = d.online
      /\ [d EXCEPT !.cancellable = NoTask].timer = d.timer
      /\ [d EXCEPT !.cancellable = NoTask].awaiting = d.awaiting
      /\ [d EXCEPT !.cancellable = NoTask].asks = d.asks
  <2> HIDE DEF d
  <2> QED BY <1>1 DEF Ctl
<1>3. QED
  BY <1>2, CancelRunSafe DEF Cancel, Live, Pending

\* Starting a process: afterwards the new run is the only live one, whatever
\* ran before and whether or not its callback has been called.
LEMMA StartProcessSafe ==
  ASSUME NEW c \in Ctl, NEW p \in AnyProcess, FreeTask(c) # {},
         Controlled(c), Awaits(c), OfflineClean(c)
  PROVE  /\ Safe(StartProcess(c, p))
         /\ \A u \in Task : Live(StartProcess(c, p), u) => StartProcess(c, p).run[u] = p
<1> DEFINE t == CHOOSE t \in FreeTask(c) : TRUE
           x == CancelRun(c)
           h == Halt(x, p)
           s == [h EXCEPT !.run[t] = p, !.cancellable = t, !.runned = p]
           r == ProcessOnline(s, p)
<1>1. t \in Task
  BY DEF FreeTask
<1>2. /\ h \in Ctl /\ h.run = c.run /\ h.cancelled = x.cancelled
      /\ h.online = c.online /\ h.timer = c.timer /\ h.awaiting = c.awaiting
  <2>1. /\ x \in Ctl /\ x.run = c.run /\ x.online = c.online /\ x.timer = c.timer
        /\ x.awaiting = c.awaiting
    BY CancelRunType, CancelRunSafe
  <2> HIDE DEF x
  <2>2. QED
    BY <2>1 DEF Ctl, Halt
<1>3. /\ s \in Ctl /\ s.run = [c.run EXCEPT ![t] = p] /\ s.cancellable = t
      /\ s.runned = p /\ s.cancelled = x.cancelled
      /\ s.online = c.online /\ s.timer = c.timer /\ s.awaiting = c.awaiting
  <2> HIDE DEF h, t, x
  <2> QED BY <1>1, <1>2 DEF Ctl
<1>4. /\ r.run = s.run /\ r.cancellable = t /\ r.runned = p
      /\ r.cancelled = s.cancelled /\ OfflineClean(r) /\ r.awaiting = c.awaiting
  <2> HIDE DEF s, t
  <2> QED BY <1>3 DEF Ctl, ProcessOnline, OfflineClean
<1>5. \A u \in Task : Live(r, u) => u = t
  <2>1. \A u \in Task : ~(c.run[u] # NoProcess /\ u \notin x.cancelled)
    <3>1. \A u \in Task : ~Live(x, u)
      BY CancelRunSafe
    <3>2. x.run = c.run
      BY CancelRunSafe
    <3> HIDE DEF x
    <3>3. QED
      BY <3>1, <3>2 DEF Live, Pending
  <2>2. \A u \in Task : u # t => r.run[u] = c.run[u]
    <3> HIDE DEF r, s, t
    <3> QED BY <1>1, <1>3, <1>4 DEF Ctl
  <2> HIDE DEF r, s, t, x
  <2>3. QED
    BY <1>3, <1>4, <2>1, <2>2 DEF Live, Pending
<1>6. r.run[t] = p
  <2> HIDE DEF r, s, t
  <2> QED BY <1>1, <1>3, <1>4 DEF Ctl
<1>7. Safe(r) /\ \A u \in Task : Live(r, u) => r.run[u] = p
  <2>1. c.run[t] = NoProcess
    BY DEF FreeTask, Pending
  <2>2. t \notin c.awaiting
    <3> HIDE DEF t
    <3> QED BY <2>1, ProcessAssumption DEF Awaits
  <2>3. \A u \in c.awaiting : u \in Task /\ r.run[u] = c.run[u]
    <3> HIDE DEF r, s, t
    <3> QED BY <1>1, <1>3, <1>4, <2>2 DEF Ctl
  <2>4. Awaits(r)
    <3> HIDE DEF r, s, t
    <3> QED BY <1>4, <2>3 DEF Awaits
  <2>5. RunnedEnds(r)
    <3> HIDE DEF r, s, t
    <3> QED BY <1>1, <1>4, <1>6, <2>2 DEF RunnedEnds
  <2> HIDE DEF r, s, t
  <2> QED BY <1>1, <1>4, <1>5, <1>6, <2>4, <2>5 DEF Safe, Controlled
<1>8. QED
  BY <1>7 DEF StartProcess

\* run_next_process keeps the parts of the invariant.
LEMMA RunNextSafe ==
  ASSUME NEW c \in Ctl, NEW open, FreeTask(c) # {} \/ c.runned # NoProcess, Safe(c)
  PROVE  Safe(RunNext(c, open))
<1> DEFINE d == [c EXCEPT !.wait = Tail(@)]
<1>1. CASE ~(open /\ c.runned = NoProcess /\ c.wait # <<>>)
  BY <1>1 DEF RunNext
<1>2. CASE open /\ c.runned = NoProcess /\ c.wait # <<>>
  <2>1. c.wait \in Seq(AnyProcess)
    BY DEF Ctl
  <2>2. Tail(c.wait) \in Seq(AnyProcess) /\ Head(c.wait) \in AnyProcess
    BY <1>2, <2>1, HeadTailProperties
  <2>3. d \in Ctl /\ FreeTask(d) # {}
    BY <1>2, <2>2, WaitType
  <2>4. /\ d.run = c.run /\ d.cancelled = c.cancelled
        /\ d.cancellable = c.cancellable
        /\ d.online = c.online /\ d.timer = c.timer /\ d.awaiting = c.awaiting
    BY DEF Ctl
  <2>5. Controlled(d) /\ Awaits(d) /\ OfflineClean(d)
    <3> HIDE DEF d
    <3> QED BY <2>4 DEF Safe, Controlled, Awaits, OfflineClean, Live, Pending
  <2>6. Safe(StartProcess(d, Head(c.wait)))
    <3> HIDE DEF d
    <3> QED BY <2>2, <2>3, <2>5, StartProcessSafe
  <2>7. QED
    BY <1>2, <2>6 DEF RunNext
<1>3. QED
  BY <1>1, <1>2

\* After everything was broken off nothing is live and no timer is left.
LEMMA BreakAllSafe ==
  ASSUME NEW c \in Ctl, Safe(c)
  PROVE  Safe(BreakAll(c)) /\ Quiet(BreakAll(c))
<1> DEFINE d == [c EXCEPT !.wait = <<>>]
           e == Cancel(d)
<1>1. d \in Ctl
  BY WaitType, <<>> \in Seq(AnyProcess)
<1>2. /\ d.run = c.run /\ d.cancelled = c.cancelled /\ d.runned = c.runned
      /\ d.cancellable = c.cancellable /\ d.awaiting = c.awaiting /\ d.asks = c.asks
  BY DEF Ctl
<1>3. Controlled(d)
  <2> HIDE DEF d
  <2> QED BY <1>2 DEF Safe, Controlled, Live, Pending
<1>4. /\ e \in Ctl /\ e.run = c.run /\ e.runned = c.runned
      /\ e.awaiting = c.awaiting /\ e.asks = c.asks
      /\ \A t \in Task : ~Live(e, t)
  <2> HIDE DEF d
  <2> QED BY <1>1, <1>2, <1>3, CancelType, CancelSafe
<1>5. /\ AllOffline(e).run = e.run /\ AllOffline(e).cancelled = e.cancelled
      /\ AllOffline(e).runned = e.runned /\ OfflineClean(AllOffline(e))
      /\ AllOffline(e).awaiting = e.awaiting /\ AllOffline(e).asks = e.asks
  <2> HIDE DEF e
  <2> QED BY <1>4 DEF Ctl, AllOffline, OfflineClean
<1>6. QED
  <2>1. BreakAll(c) = AllOffline(e)
    BY DEF BreakAll
  <2> HIDE DEF e
  <2>2. QED
    BY <1>4, <1>5, <2>1
       DEF Safe, Quiet, Controlled, RunnedEnds, Awaits, Live, Pending

\* Leaving a range touches no run.
LEMMA LeaveRangeSafe ==
  ASSUME NEW c \in Ctl, NEW p \in Process, OfflineClean(c)
  PROVE  /\ LeaveRange(c, p).run = c.run
         /\ LeaveRange(c, p).cancelled = c.cancelled
         /\ LeaveRange(c, p).cancellable = c.cancellable
         /\ LeaveRange(c, p).runned = c.runned
         /\ LeaveRange(c, p).awaiting = c.awaiting
         /\ \A q \in Process \ {p} : LeaveRange(c, p).asks[q] = c.asks[q]
         /\ OfflineClean(LeaveRange(c, p))
<1> DEFINE d == ProcessOffline(Halt(c, p), p)
           e == [d EXCEPT !.wait = RemoveFirst(@, p)]
<1>1. /\ d \in Ctl /\ d.run = c.run /\ d.cancelled = c.cancelled
      /\ d.cancellable = c.cancellable /\ d.runned = c.runned
      /\ d.awaiting = c.awaiting /\ \A q \in Process \ {p} : d.asks[q] = c.asks[q]
      /\ OfflineClean(d)
  BY DEF Ctl, ProcessOffline, Halt, OfflineClean
<1>2. /\ e.run = d.run /\ e.cancelled = d.cancelled /\ e.runned = d.runned
      /\ e.cancellable = d.cancellable /\ e.awaiting = d.awaiting /\ e.asks = d.asks
      /\ e.online = d.online /\ e.timer = d.timer
  <2> HIDE DEF d
  <2> QED BY <1>1 DEF Ctl
<1>3. e = LeaveRange(c, p)
  BY DEF LeaveRange
<1>4. QED
  <2> HIDE DEF d, e
  <2> QED BY <1>1, <1>2, <1>3 DEF OfflineClean

\* Going online marks as online every process it gives a timer.
LEMMA GoOnlineSafe ==
  ASSUME NEW c \in Ctl, NEW open, FreeTask(c) # {} \/ c.runned # NoProcess, Safe(c)
  PROVE  /\ Safe(GoOnline(c, open))
         /\ Quiet(c) /\ (~open \/ c.runned # NoProcess) => Quiet(GoOnline(c, open))
<1> DEFINE reset == [c EXCEPT !.timer = [p \in Process |->
                       IF c.timer[p] = "armed" THEN "idle" ELSE c.timer[p]]]
           left  == IF RangeSwitching /\ Range1 \in OnlineProcess
                    THEN LeaveRange(reset, Range2) ELSE reset
           d     == [left EXCEPT
                       !.wait   = StartOrder,
                       !.online = [p \in Process |->
                                     p \in OnlineProcess \/ left.online[p]],
                       !.timer  = [p \in Process |->
                                     IF p \in ArmsOnline THEN "armed"
                                     ELSE left.timer[p]]]
<1>1. /\ reset \in Ctl /\ reset.run = c.run /\ reset.runned = c.runned
      /\ reset.cancelled = c.cancelled /\ reset.cancellable = c.cancellable
      /\ reset.awaiting = c.awaiting /\ reset.asks = c.asks
      /\ OfflineClean(reset)
  BY DEF Ctl, Safe, OfflineClean
<1>2. /\ left \in Ctl /\ left.run = c.run /\ left.runned = c.runned
      /\ left.cancelled = c.cancelled /\ left.cancellable = c.cancellable
      /\ left.awaiting = c.awaiting /\ \A q \in Calibration : left.asks[q] = c.asks[q]
      /\ OfflineClean(left)
  <2> HIDE DEF reset
  <2> QED BY <1>1, LeaveRangeType, LeaveRangeSafe, ProcessAssumption
<1>3. /\ d \in Ctl /\ d.run = c.run /\ d.runned = c.runned
      /\ d.cancelled = c.cancelled /\ d.cancellable = c.cancellable
      /\ d.awaiting = c.awaiting /\ \A q \in Calibration : d.asks[q] = c.asks[q]
      /\ OfflineClean(d)
  <2>1. StartOrder \in Seq(AnyProcess)
    BY StartOrderAssumption
  <2>2. ArmsOnline \subseteq OnlineProcess
    BY ProcessAssumption DEF ArmsOnline
  <2> HIDE DEF left
  <2>3. QED
    BY <1>2, <2>1, <2>2 DEF Ctl, OfflineClean
<1>4. Safe(d) /\ FreeTask(d) = FreeTask(c) /\ (Quiet(c) => Quiet(d))
  <2> HIDE DEF d
  \* A run that waits for the user is one of a calibration, which is no range.
  <2>1. RunnedEnds(d)
    <3>1. CASE c.runned = NoProcess
      BY <1>3, <3>1 DEF RunnedEnds
    <3>2. CASE c.runned # NoProcess
      <4>1. PICK t \in Task : /\ c.run[t] = c.runned
                              /\ t \in c.awaiting => c.asks[c.runned] = t
        BY <3>2 DEF Safe, RunnedEnds
      <4>2. t \in c.awaiting => c.runned \in Calibration
        BY <4>1 DEF Safe, Awaits
      <4>3. t \in d.awaiting => d.asks[d.runned] = t
        BY <1>3, <4>1, <4>2
      <4>4. QED
        BY <1>3, <4>1, <4>3 DEF RunnedEnds
    <3>3. QED
      BY <3>1, <3>2
  <2>2. Controlled(d) /\ Awaits(d) /\ OfflineClean(d)
    BY <1>3 DEF Safe, Controlled, Awaits, Live, Pending
  <2>3. FreeTask(d) = FreeTask(c) /\ (Quiet(c) => Quiet(d))
    BY <1>3 DEF Quiet, Live, Pending, FreeTask
  <2>4. QED
    BY <2>1, <2>2, <2>3 DEF Safe
<1>5. GoOnline(c, open) = RunNext(d, open)
  BY DEF GoOnline
<1>6. QED
  <2>1. Safe(RunNext(d, open))
    <3> HIDE DEF d
    <3> QED BY <1>3, <1>4, RunNextSafe
  <2>2. ~open \/ d.runned # NoProcess => RunNext(d, open) = d
    BY DEF RunNext
  <2> HIDE DEF d
  <2>3. QED
    BY <1>3, <1>4, <1>5, <2>1, <2>2

\* The end of a run: what is still live was live before.
LEMMA EndedSafe ==
  ASSUME ctl \in Ctl, Safe(ctl), NEW t \in Task, t \notin ctl.awaiting
  PROVE  Safe(Ended(t)) /\ (Quiet(ctl) => Quiet(Ended(t)))
<1> DEFINE d == [ctl EXCEPT !.runned = NoProcess, !.run[t] = NoProcess,
                            !.cancelled = @ \ {t}]
           e == Halt(d, ctl.run[t])
<1>1. /\ d \in Ctl /\ d.runned = NoProcess /\ d.cancellable = ctl.cancellable
      /\ d.run = [ctl.run EXCEPT ![t] = NoProcess]
      /\ d.cancelled = ctl.cancelled \ {t} /\ d.awaiting = ctl.awaiting
      /\ d.online = ctl.online /\ d.timer = ctl.timer
  BY DEF Ctl
<1>2. /\ e.runned = NoProcess /\ e.cancellable = d.cancellable
      /\ e.run = d.run /\ e.cancelled = d.cancelled /\ e.awaiting = d.awaiting
      /\ e.online = d.online /\ e.timer = d.timer
  <2> HIDE DEF d
  <2> QED BY <1>1 DEF Ctl, Halt
<1>3. \A u \in Task : Live(e, u) => Live(ctl, u) /\ e.run[u] = ctl.run[u]
  <2> HIDE DEF d, e
  <2> QED BY <1>1, <1>2 DEF Ctl, Live, Pending
<1>4. \A u \in e.awaiting : e.run[u] = ctl.run[u]
  <2> HIDE DEF d, e
  <2> QED BY <1>1, <1>2 DEF Ctl
<1>5. Safe(e) /\ (Quiet(ctl) => Quiet(e))
  <2> HIDE DEF d, e
  <2> QED BY <1>1, <1>2, <1>3, <1>4
          DEF Safe, Controlled, RunnedEnds, Awaits, OfflineClean, Quiet
<1>6. QED
  BY <1>5 DEF Ended

\* AddWait either does nothing or appends and runs the next process.
LEMMA AddWaitSafe ==
  ASSUME NEW c \in Ctl, NEW p \in Process, NEW open, FreeTask(c) # {}, Safe(c)
  PROVE  /\ Safe(AddWait(c, p, open))
         /\ Quiet(c) /\ ~open => Quiet(AddWait(c, p, open))
<1> DEFINE d == [c EXCEPT !.wait = Append(@, p)]
<1>1. Append(c.wait, p) \in Seq(AnyProcess)
  <2>1. c.wait \in Seq(AnyProcess) /\ p \in AnyProcess
    BY DEF Ctl
  <2>2. QED
    BY <2>1, AppendProperties
<1>2. d \in Ctl /\ FreeTask(d) # {}
  BY <1>1, WaitType
<1>3. Safe(d) /\ (Quiet(c) => Quiet(d))
  BY DEF Ctl, Safe, Controlled, RunnedEnds, Awaits, OfflineClean, Quiet, Live, Pending
<1>4. Safe(RunNext(d, open)) /\ (~open => RunNext(d, open) = d)
  <2> HIDE DEF d
  <2> QED BY <1>2, <1>3, RunNextSafe DEF RunNext
<1>5. AddWait(c, p, open) = c \/ AddWait(c, p, open) = RunNext(d, open)
  BY DEF AddWait
<1>6. QED
  <2> HIDE DEF d
  <2> QED BY <1>3, <1>4, <1>5

(* The inductive invariant.  CriticalStopsMeasuring alone is not inductive: *)
(* CriticalStop cancels only the run that CONTROL can cancel, so it leaves  *)
(* no other live run behind only because of LiveRunIsControlled.            *)
IInv == TypeOK /\ Safe(ctl) /\ (CriticalBreak => Quiet(ctl))

\* The critical stop keeps the invariant; afterwards only HOLD may be live.
LEMMA CriticalStopSafe ==
  ASSUME IInv, HasTask, CriticalStop
  PROVE  Safe(ctl') /\ Quiet(ctl')
<1>1. ctl \in Ctl /\ Safe(ctl)
  BY DEF IInv, TypeOK
<1>2. /\ BreakAll(ctl) \in Ctl /\ FreeTask(BreakAll(ctl)) # {}
      /\ Safe(BreakAll(ctl)) /\ Quiet(BreakAll(ctl))
  BY <1>1, BreakAllType, BreakAllSafe DEF HasTask
<1>3. LET s == StartProcess(BreakAll(ctl), Hold)
      IN  Safe(s) /\ \A u \in Task : Live(s, u) => s.run[u] = Hold
  BY <1>2, StartProcessSafe DEF Safe
<1>4. QED
  BY <1>2, <1>3, ProcessAssumption DEF CriticalStop, Quiet

\* The inductive invariant holds in every reachable state: one step per handler.
LEMMA Invariance == Spec => []IInv
<1>1. Init => IInv
  <2> SUFFICES ASSUME Init PROVE IInv
    OBVIOUS
  <2>1. TypeOK
    BY InitTypeOK
  <2>2. Safe(ctl) /\ Quiet(ctl)
    BY DEF Init, Safe, Controlled, RunnedEnds, Awaits, OfflineClean, Quiet, Live, Pending
  <2>3. QED
    BY <2>1, <2>2 DEF IInv
<1>2. IInv /\ [Next]_vars => IInv'
  <2> SUFFICES ASSUME IInv, [Next]_vars
               PROVE  Safe(ctl') /\ (CriticalBreak' => Quiet(ctl'))
    BY NextTypeOK DEF IInv, Safe, Controlled, RunnedEnds, Awaits, OfflineClean,
                      Quiet, Live, Pending
  <2>0. ctl \in Ctl /\ Safe(ctl) /\ (CriticalBreak => Quiet(ctl))
    BY DEF IInv, TypeOK
  <2>1. CASE Boot
    <3> DEFINE s == StartProcess(ctl, Hold)
    <3>1. s \in Ctl /\ s.runned # NoProcess /\ Safe(s) /\ Quiet(s)
      <4>1. Hold \in AnyProcess /\ FreeTask(ctl) # {}
        BY <2>1 DEF Boot, HasTask
      <4>2. \A u \in Task : Live(s, u) => s.run[u] = Hold
        BY <2>0, <4>1, StartProcessSafe DEF Safe
      <4>3. QED
        BY <2>0, <4>1, <4>2, StartProcessType, StartProcessRunned,
           StartProcessSafe, ProcessAssumption DEF Safe, Quiet
    <3>2. ctl' = s \/ \E open \in BOOLEAN : ctl' = GoOnline(s, open)
      BY <2>1 DEF Boot, Online, CriticalBreak
    <3>3. QED
      <4> HIDE DEF s
      <4> QED BY <3>1, <3>2, GoOnlineSafe
  <2>2. CASE OnlineCommand
    <3>1. FreeTask(ctl) # {} /\ CriticalBreak' = CriticalBreak
      BY <2>2 DEF OnlineCommand, HasTask, CriticalBreak
    <3>2. PICK open : ctl' = GoOnline(ctl, open) /\ (CriticalBreak => ~open)
      BY <2>2 DEF OnlineCommand, Online
    <3>3. QED
      BY <2>0, <3>1, <3>2, GoOnlineSafe
  <2>3. CASE OfflineCommand
    <3>1. /\ BreakAll(ctl) \in Ctl /\ FreeTask(BreakAll(ctl)) # {}
          /\ Safe(BreakAll(ctl))
      BY <2>0, <2>3, BreakAllType, BreakAllSafe DEF OfflineCommand, HasTask
    <3>2. LET s == StartProcess(BreakAll(ctl), Hold)
          IN  Safe(s) /\ \A u \in Task : Live(s, u) => s.run[u] = Hold
      BY <3>1, StartProcessSafe DEF Safe
    <3>3. QED
      BY <2>3, <3>2, ProcessAssumption DEF OfflineCommand, Quiet
  <2>4. CASE IgnoreCriticalCommand
    <3>1. CASE critical /\ ~ignoreCritical'
      BY <2>4, <3>1, CriticalStopSafe DEF IgnoreCriticalCommand
    <3>2. CASE ~(critical /\ ~ignoreCritical')
      BY <2>0, <2>4, <3>2 DEF IgnoreCriticalCommand, CriticalBreak
    <3>3. QED
      BY <3>1, <3>2
  <2>5. CASE MaintenanceOn
    BY <2>0, <2>5 DEF MaintenanceOn, CriticalBreak
  <2>6. ASSUME NEW p \in Process, StartCommand(p)
        PROVE  Safe(ctl') /\ (CriticalBreak' => Quiet(ctl'))
    BY <2>0, <2>6, AddWaitSafe DEF StartCommand, HasTask, Open, CriticalBreak
  <2>7. ASSUME NEW p \in Process, BreakCommand(p)
        PROVE  Safe(ctl') /\ (CriticalBreak' => Quiet(ctl'))
    <3> DEFINE c == [ctl EXCEPT !.wait = RemoveFirst(@, p)]
    <3>1. c \in Ctl
      BY <2>0, RemoveFirstType, WaitType DEF Ctl
    <3>2. Safe(c) /\ (Quiet(ctl) => Quiet(c))
      BY <2>0 DEF Ctl, Safe, Controlled, RunnedEnds, Awaits, OfflineClean, Quiet, Live, Pending
    <3>3. Safe(Cancel(c)) /\ Quiet(Cancel(c))
      <4> HIDE DEF c
      <4> QED BY <3>1, <3>2, CancelSafe
              DEF Safe, Quiet, Controlled, RunnedEnds, Awaits, OfflineClean
    <3>4. (ctl' = c \/ ctl' = Cancel(c)) /\ CriticalBreak' = CriticalBreak
      BY <2>7 DEF BreakCommand, CriticalBreak
    <3>5. QED
      <4> HIDE DEF c
      <4> QED BY <2>0, <3>2, <3>3, <3>4
  <2>8. ASSUME NEW p \in Process, UserNext(p)
        PROVE  Safe(ctl') /\ (CriticalBreak' => Quiet(ctl'))
    <3> DEFINE d == [ctl EXCEPT !.awaiting = @ \ {ctl.asks[p]}, !.asks[p] = NoTask]
    <3>1. /\ d.run = ctl.run /\ d.cancelled = ctl.cancelled /\ d.runned = ctl.runned
          /\ d.cancellable = ctl.cancellable /\ d.online = ctl.online
          /\ d.timer = ctl.timer /\ d.awaiting = ctl.awaiting \ {ctl.asks[p]}
          /\ d.asks = [ctl.asks EXCEPT ![p] = NoTask] /\ p \in DOMAIN ctl.asks
      BY <2>0 DEF Ctl
    <3>2. ctl' = d /\ CriticalBreak' = CriticalBreak
      BY <2>8 DEF UserNext, CriticalBreak
    <3> HIDE DEF d
    \* The run that the answer reaches does not wait any more; any other one is
    \* not that of p.
    <3>3. RunnedEnds(d)
      <4>1. CASE ctl.runned = NoProcess
        BY <3>1, <4>1 DEF RunnedEnds
      <4>2. CASE ctl.runned # NoProcess
        <5>1. PICK t \in Task : /\ ctl.run[t] = ctl.runned
                                /\ t \in ctl.awaiting => ctl.asks[ctl.runned] = t
          BY <2>0, <4>2 DEF Safe, RunnedEnds
        <5>2. t \in d.awaiting => ctl.asks[ctl.runned] = t /\ ctl.runned # p
          BY <3>1, <5>1
        <5>3. t \in d.awaiting => d.asks[ctl.runned] = t
          BY <3>1, <5>2
        <5>4. QED
          BY <3>1, <5>1, <5>3 DEF RunnedEnds
      <4>3. QED
        BY <4>1, <4>2
    <3>4. Controlled(d) /\ Awaits(d) /\ OfflineClean(d) /\ (Quiet(ctl) => Quiet(d))
      BY <2>0, <3>1 DEF Safe, Controlled, Awaits, OfflineClean, Quiet, Live, Pending
    <3>5. QED
      BY <2>0, <3>2, <3>3, <3>4 DEF Safe
  <2>9. ASSUME NEW p \in Process, TimerFires(p)
        PROVE  Safe(ctl') /\ (CriticalBreak' => Quiet(ctl'))
    <3> DEFINE d == [ctl EXCEPT !.timer[p] = "none"]
    <3>1. d \in Ctl /\ Safe(d) /\ (Quiet(ctl) => Quiet(d)) /\ FreeTask(d) = FreeTask(ctl)
      BY <2>0 DEF Ctl, Safe, Controlled, RunnedEnds, Awaits, OfflineClean, Quiet,
                  Live, Pending, FreeTask
    <3>2. /\ Safe(AddWait(d, p, Open))
          /\ Quiet(d) /\ ~Open => Quiet(AddWait(d, p, Open))
      <4> HIDE DEF d
      <4> QED BY <2>9, <3>1, AddWaitSafe DEF TimerFires, HasTask
    <3>3. QED
      <4>1. ctl' = AddWait(d, p, Open) /\ CriticalBreak' = CriticalBreak
        BY <2>9 DEF TimerFires, CriticalBreak
      <4> HIDE DEF d
      <4>2. QED
        BY <2>0, <3>1, <3>2, <4>1 DEF Open
  <2>10. ASSUME NEW p \in Process, IntervalChanged(p)
         PROVE  Safe(ctl') /\ (CriticalBreak' => Quiet(ctl'))
    <3> DEFINE d == [ctl EXCEPT !.timer[p] = "armed"]
    <3>1. /\ d.run = ctl.run /\ d.cancelled = ctl.cancelled /\ d.runned = ctl.runned
          /\ d.cancellable = ctl.cancellable /\ d.online = ctl.online
          /\ d.awaiting = ctl.awaiting /\ d.asks = ctl.asks
          /\ d.timer = [ctl.timer EXCEPT ![p] = "armed"] /\ p \in DOMAIN ctl.timer
      BY <2>0 DEF Ctl
    <3>2. ctl' = d /\ CriticalBreak' = CriticalBreak /\ ctl.timer[p] = "idle"
      BY <2>10 DEF IntervalChanged, CriticalBreak
    <3> HIDE DEF d
    <3>3. OfflineClean(d)
      BY <2>0, <3>1, <3>2 DEF Ctl, Safe, OfflineClean
    <3>4. /\ Controlled(d) /\ Awaits(d) /\ RunnedEnds(d)
          /\ Quiet(ctl) => Quiet(d)
      BY <2>0, <3>1 DEF Safe, Controlled, Awaits, RunnedEnds, Quiet, Live, Pending
    <3>5. QED
      BY <2>0, <3>2, <3>3, <3>4 DEF Safe
  <2>11. CASE CriticalChange
    <3>1. CASE critical' /\ ~ignoreCritical
      BY <2>11, <3>1, CriticalStopSafe DEF CriticalChange
    <3>2. CASE ~(critical' /\ ~ignoreCritical)
      <4>1. ctl' = RunNext(ctl, ~stopSignal) /\ ~CriticalBreak'
        BY <2>11, <3>2 DEF CriticalChange, CriticalBreak
      <4>2. QED
        BY <2>0, <2>11, <4>1, RunNextSafe DEF CriticalChange, HasTask
    <3>3. QED
      BY <3>1, <3>2
  <2>12. CASE NodeReset
    <3> DEFINE w == IF ctl.runned = NoProcess THEN ctl.wait
                    ELSE <<ctl.runned>> \o ctl.wait
               d == [ctl EXCEPT !.wait = w]
    <3>1. w \in Seq(AnyProcess)
      BY <2>0, ResetWaitType
    <3>2. d \in Ctl /\ FreeTask(d) # {} /\ Safe(d)
      <4>1. d \in Ctl /\ FreeTask(d) # {}
        BY <2>0, <2>12, <3>1, WaitType DEF NodeReset, HasTask
      <4> HIDE DEF w
      <4>2. Safe(d)
        BY <2>0 DEF Ctl, Safe, Controlled, RunnedEnds, Awaits, OfflineClean, Live, Pending
      <4>3. QED
        BY <4>1, <4>2
    <3>3. /\ Cancel(d) \in Ctl /\ FreeTask(Cancel(d)) # {}
          /\ Controlled(Cancel(d)) /\ Awaits(Cancel(d)) /\ OfflineClean(Cancel(d))
      <4> HIDE DEF d
      <4> QED BY <3>2, CancelType, CancelSafe
              DEF Safe, Controlled, Awaits, OfflineClean, FreeTask, Pending
    <3>4. ctl' = StartProcess(Cancel(d), Hold)
      BY <2>12 DEF NodeReset
    <3>5. QED
      <4> HIDE DEF d
      <4>1. Safe(ctl') /\ \A u \in Task : Live(ctl', u) => ctl'.run[u] = Hold
        BY <3>3, <3>4, StartProcessSafe
      <4>2. QED
        BY <4>1, ProcessAssumption DEF Quiet
  <2>13. CASE StopSignalChanged
    <3>1. PICK open : /\ ctl' = RunNext(ctl, open) /\ (CriticalBreak => ~open)
                      /\ CriticalBreak' = CriticalBreak
      BY <2>13 DEF StopSignalChanged, CriticalBreak
    <3>2. QED
      BY <2>0, <2>13, <3>1, RunNextSafe DEF StopSignalChanged, HasTask, RunNext
  <2>14. CASE PollRetry
    <3>1. /\ ctl' = RunNext(ctl, Open) /\ (CriticalBreak => ~Open)
          /\ CriticalBreak' = CriticalBreak
      BY <2>14 DEF PollRetry, CriticalBreak, Open
    <3>2. QED
      BY <2>0, <2>14, <3>1, RunNextSafe DEF PollRetry, HasTask, RunNext
  <2>15. CASE StopSignalReadFails
    BY <2>0, <2>15 DEF StopSignalReadFails, CriticalBreak
  <2>16. ASSUME NEW t \in Task, AwaitUser(t)
         PROVE  Safe(ctl') /\ (CriticalBreak' => Quiet(ctl'))
    <3> DEFINE q == ctl.run[t]
               d == [ctl EXCEPT !.awaiting = @ \cup {t}, !.asks[q] = t]
    <3>0. q \in Calibration /\ Calibration \subseteq Process
      BY <2>16, ProcessAssumption DEF AwaitUser
    <3>1. /\ d.run = ctl.run /\ d.cancelled = ctl.cancelled /\ d.runned = ctl.runned
          /\ d.cancellable = ctl.cancellable /\ d.online = ctl.online
          /\ d.timer = ctl.timer /\ d.awaiting = ctl.awaiting \cup {t}
          /\ d.asks = [ctl.asks EXCEPT ![q] = t] /\ q \in DOMAIN ctl.asks
      <4> HIDE DEF q
      <4> QED BY <2>0, <3>0 DEF Ctl
    <3>2. ctl' = d /\ CriticalBreak' = CriticalBreak
      BY <2>16 DEF AwaitUser, CriticalBreak
    \* The run that asks is a witness itself when it is the one of runned.
    <3>3. RunnedEnds(d)
      <4>1. CASE ctl.runned = NoProcess
        <5> HIDE DEF d
        <5> QED BY <3>1, <4>1 DEF RunnedEnds
      <4>2. CASE ctl.runned = q
        <5>1. d.run[t] = d.runned /\ d.asks[d.runned] = t
          <6> HIDE DEF d
          <6> QED BY <3>1, <4>2
        <5>2. QED
          <6> HIDE DEF d
          <6> QED BY <5>1 DEF RunnedEnds
      <4>3. CASE ctl.runned # NoProcess /\ ctl.runned # q
        <5>1. PICK u \in Task : /\ ctl.run[u] = ctl.runned
                                /\ u \in ctl.awaiting => ctl.asks[ctl.runned] = u
          BY <2>0, <4>3 DEF Safe, RunnedEnds
        <5>2. u # t
          BY <4>3, <5>1
        <5> HIDE DEF d, q
        <5>3. u \in d.awaiting => d.asks[d.runned] = u
          BY <3>1, <4>3, <5>1, <5>2
        <5>4. QED
          BY <3>1, <5>1, <5>3 DEF RunnedEnds
      <4>4. QED
        BY <4>1, <4>2, <4>3
    <3>4. /\ Controlled(d) /\ Awaits(d) /\ OfflineClean(d)
          /\ Quiet(ctl) => Quiet(d)
      <4>1. Awaits(d)
        <5> HIDE DEF d
        <5> QED BY <2>0, <3>0, <3>1 DEF Safe, Awaits
      <4>2. Controlled(d) /\ OfflineClean(d) /\ (Quiet(ctl) => Quiet(d))
        <5> HIDE DEF d
        <5> QED BY <2>0, <3>1 DEF Safe, Controlled, OfflineClean, Quiet, Live, Pending
      <4>3. QED
        BY <4>1, <4>2
    <3>5. QED
      <4> HIDE DEF d
      <4> QED BY <2>0, <3>2, <3>3, <3>4 DEF Safe
  <2>17. ASSUME NEW t \in Task, ProcessDone(t)
         PROVE  Safe(ctl') /\ (CriticalBreak' => Quiet(ctl'))
    <3>0. CriticalBreak' = CriticalBreak
      BY <2>17 DEF ProcessDone, CriticalBreak
    <3>1. /\ Ended(t) \in Ctl /\ FreeTask(Ended(t)) # {} /\ Safe(Ended(t))
          /\ CriticalBreak => Quiet(Ended(t))
      BY <2>0, <2>17, EndedType, EndedSafe DEF ProcessDone
    <3>2. CASE RunFails(t)
      <4>1. LET s == StartProcess(Ended(t), Hold)
            IN  Safe(s) /\ \A u \in Task : Live(s, u) => s.run[u] = Hold
        BY <3>1, StartProcessSafe DEF Safe
      <4>2. ctl' = StartProcess(Ended(t), Hold) \/ ctl' = Ended(t)
        BY <3>2 DEF RunFails
      <4>3. QED
        BY <3>0, <3>1, <4>1, <4>2, ProcessAssumption DEF Quiet
    <3>3. ASSUME NEW inRange \in BOOLEAN, RunSucceeds(t, inRange), t \notin ctl.cancelled
          PROVE  Safe(ctl') /\ (CriticalBreak' => Quiet(ctl'))
      <4> DEFINE p     == ctl.run[t]
                 other == IF p = Range1 THEN Range2 ELSE Range1
                 switch == /\ RangeSwitching /\ p \in {Range1, Range2} /\ ~inRange
                           /\ p = Range2 => switched + 1 < SwitchLimit
      <4>1. CASE switch
        <5>1. p \in Process /\ other \in Process
          BY <4>1, ProcessAssumption
        \* A run of a process that succeeds was live, so nothing critical stands.
        <5>2. ~CriticalBreak
          BY <2>0, <2>17, <3>3, <5>1 DEF ProcessDone, Quiet, Live
        <5> DEFINE c == LeaveRange(Ended(t), p)
        <5>3. /\ c \in Ctl /\ FreeTask(c) # {}
              /\ Controlled(c) /\ Awaits(c) /\ OfflineClean(c)
          BY <3>1, <5>1, LeaveRangeType, LeaveRangeSafe
             DEF Safe, Controlled, Awaits, Live, Pending
        <5>4. ctl' = StartProcess(c, other)
          BY <3>3, <4>1 DEF RunSucceeds
        <5>5. Safe(ctl')
          <6> HIDE DEF c
          <6> QED BY <5>1, <5>3, <5>4, StartProcessSafe
        <5>6. QED
          BY <3>0, <5>2, <5>5
      <4>2. CASE ~switch
        <5>1. ctl' = RunNext(Ended(t), Open)
          BY <3>3, <4>2 DEF RunSucceeds
        <5>2. CriticalBreak => ctl' = Ended(t)
          BY <5>1 DEF RunNext, Open
        <5>3. QED
          BY <3>0, <3>1, <5>1, <5>2, RunNextSafe
      <4>3. QED
        BY <4>1, <4>2
    <3>4. QED
      BY <2>17, <3>2, <3>3 DEF ProcessDone
  <2>18. CASE UNCHANGED vars
    BY <2>0, <2>18 DEF vars, CriticalBreak
  <2>19. QED
    BY <2>1, <2>2, <2>3, <2>4, <2>5, <2>6, <2>7, <2>8, <2>9, <2>10, <2>11,
       <2>12, <2>13, <2>14, <2>15, <2>16, <2>17, <2>18 DEF Next
<1>3. QED
  BY <1>1, <1>2, PTL DEF Spec

\* At most one run is live, and it is the one that CONTROL can cancel.
THEOREM LiveRunIsAlwaysControlled == Spec => []LiveRunIsControlled
  BY Invariance, PTL DEF IInv, Safe, Controlled, LiveRunIsControlled

\* Under a critical error that is not ignored only HOLD is live.
THEOREM CriticalAlwaysStopsMeasuring == Spec => []CriticalStopsMeasuring
  BY Invariance, PTL DEF IInv, Quiet, CriticalStopsMeasuring

\* The process that keeps the others waiting works towards its callback, or waits
\* for a command of the user that reaches it.
THEOREM RunnedCanAlwaysEnd == Spec => []RunnedCanEnd
  BY Invariance, PTL DEF IInv, Safe, RunnedEnds, RunnedCanEnd

\* A process that is offline has no timer.
THEOREM OfflineNeverHasTimer == Spec => []OfflineHasNoTimer
  BY Invariance, PTL DEF IInv, Safe, OfflineClean, OfflineHasNoTimer

\* A status that is published after the handler names a runned process.
LEMMA PublishedBusy ==
  ASSUME NEW auto, busy' = Busy(ctl', auto)
  PROVE  RunningIsPublished'
  BY Zenon DEF Busy, RunningIsPublished

\* The published state is busy while a process holds the analyser: every
\* handler that starts one publishes the state, and the handlers that do not
\* publish it start none.
THEOREM RunningIsAlwaysPublished == Spec => []RunningIsPublished
<1>1. Init => RunningIsPublished
  BY DEF Init, RunningIsPublished
<1>2. TypeOK /\ RunningIsPublished /\ [Next]_vars => RunningIsPublished'
  <2> SUFFICES ASSUME TypeOK, RunningIsPublished, [Next]_vars
               PROVE  RunningIsPublished'
    OBVIOUS
  <2>0. ctl \in Ctl
    BY DEF TypeOK
  <2>1. ASSUME busy' = busy, ctl'.runned = ctl.runned
        PROVE  RunningIsPublished'
    BY <2>1, Zenon DEF RunningIsPublished
  <2>2. ASSUME Boot \/ IgnoreCriticalCommand \/ CriticalChange
        PROVE  RunningIsPublished'
    <3>1. busy' = Busy(ctl', autostart')
      BY <2>2, Zenon DEF Boot, IgnoreCriticalCommand, CriticalChange
    <3>2. QED
      BY <3>1, PublishedBusy, Zenon
  <2>3. CASE OnlineCommand
    <3>1. busy' = Busy(ctl', TRUE)
      BY <2>3, Zenon DEF OnlineCommand
    <3>2. QED
      BY <3>1, PublishedBusy, Zenon
  <2>4. CASE OfflineCommand
    <3>1. busy' = Busy(ctl', FALSE)
      BY <2>4, Zenon DEF OfflineCommand
    <3>2. QED
      BY <3>1, PublishedBusy, Zenon
  <2>5. ASSUME NEW p \in Process, StartCommand(p)
        PROVE  RunningIsPublished'
    <3>1. CASE Contains(ctl.wait, p)
      <4>1. ctl' = ctl /\ busy' = busy
        BY <2>5, <3>1, Zenon DEF StartCommand, AddWait
      <4>2. QED
        BY <2>1, <4>1, Zenon
    <3>2. CASE ~Contains(ctl.wait, p)
      <4>1. busy' = Busy(ctl', autostart)
        BY <2>5, <3>2, Zenon DEF StartCommand
      <4>2. QED
        BY <4>1, PublishedBusy, Zenon
    <3>3. QED
      BY <3>1, <3>2, Zenon
  <2>6. ASSUME NEW p \in Process, BreakCommand(p)
        PROVE  RunningIsPublished'
    <3> DEFINE c == [ctl EXCEPT !.wait = RemoveFirst(@, p)]
    <3>1. c.runned = ctl.runned /\ Cancel(c).runned = c.runned
      BY <2>0 DEF Ctl, Cancel, CancelRun
    <3>2. (ctl' = c \/ ctl' = Cancel(c)) /\ busy' = busy
      BY <2>6 DEF BreakCommand
    <3>3. ctl'.runned = ctl.runned
      <4> HIDE DEF c
      <4> QED BY <3>1, <3>2, Zenon
    <3>4. QED
      BY <2>1, <3>2, <3>3, Zenon
  <2>7. ASSUME NEW p \in Process, UserNext(p)
        PROVE  RunningIsPublished'
    <3>1. ctl'.runned = ctl.runned /\ busy' = busy
      BY <2>0, <2>7 DEF UserNext, Ctl
    <3>2. QED
      BY <2>1, <3>1, Zenon
  <2>8. ASSUME NEW t \in Task, AwaitUser(t)
        PROVE  RunningIsPublished'
    <3>1. ctl'.runned = ctl.runned /\ busy' = busy
      BY <2>0, <2>8 DEF AwaitUser, Ctl
    <3>2. QED
      BY <2>1, <3>1, Zenon
  <2>9. ASSUME NEW p \in Process, TimerFires(p) \/ IntervalChanged(p)
        PROVE  RunningIsPublished'
    <3>1. busy' = Busy(ctl', autostart)
      BY <2>9, Zenon DEF TimerFires, IntervalChanged
    <3>2. QED
      BY <3>1, PublishedBusy, Zenon
  <2>10. ASSUME NodeReset \/ StopSignalChanged \/ PollRetry
         PROVE  RunningIsPublished'
    <3>1. busy' = Busy(ctl', autostart)
      BY <2>10, Zenon DEF NodeReset, StopSignalChanged, PollRetry
    <3>2. QED
      BY <3>1, PublishedBusy, Zenon
  <2>11. ASSUME NEW t \in Task, ProcessDone(t)
         PROVE  RunningIsPublished'
    <3>1. busy' = Busy(ctl', autostart')
      BY <2>11, Zenon DEF ProcessDone
    <3>2. QED
      BY <3>1, PublishedBusy, Zenon
  <2>12. ASSUME MaintenanceOn \/ StopSignalReadFails \/ UNCHANGED vars
         PROVE  RunningIsPublished'
    <3>1. ctl' = ctl /\ busy' = busy
      BY <2>12, Zenon DEF MaintenanceOn, StopSignalReadFails, vars
    <3>2. QED
      BY <2>1, <3>1, Zenon
  <2>13. QED
    BY <2>2, <2>3, <2>4, <2>5, <2>6, <2>7, <2>8, <2>9, <2>10, <2>11, <2>12,
       Zenon DEF Next
<1>3. QED
  BY <1>1, <1>2, TypeCorrect, PTL DEF Spec

-----------------------------------------------------------------------------
(* What is held back (HeldBack).                                           *)

\* A wait list that is held back, or whose turn it is not, starts nothing.
LEMMA RunNextHeld ==
  ASSUME NEW c, NEW open, ~open \/ c.runned # NoProcess
  PROVE  RunNext(c, open) = c
  BY DEF RunNext

\* Adding a process to it starts nothing either.
LEMMA AddWaitHeld ==
  ASSUME NEW c \in Ctl, NEW p, NEW open, ~open
  PROVE  AddWait(c, p, open).runned = c.runned
<1> DEFINE d == [c EXCEPT !.wait = Append(@, p)]
<1>1. d.runned = c.runned
  BY DEF Ctl
<1>2. RunNext(d, open) = d
  BY RunNextHeld
<1>3. AddWait(c, p, open) = c \/ AddWait(c, p, open) = RunNext(d, open)
  BY DEF AddWait
<1>4. QED
  <2> HIDE DEF d
  <2> QED BY <1>1, <1>2, <1>3

\* Nor does going online, when a process runs already.
LEMMA GoOnlineHeld ==
  ASSUME NEW c \in Ctl, NEW open, ~RangeSwitching, ~open \/ c.runned # NoProcess
  PROVE  GoOnline(c, open).runned = c.runned
<1> DEFINE reset == [c EXCEPT !.timer = [p \in Process |->
                       IF c.timer[p] = "armed" THEN "idle" ELSE c.timer[p]]]
           d     == [reset EXCEPT
                       !.wait   = StartOrder,
                       !.online = [p \in Process |->
                                     p \in OnlineProcess \/ reset.online[p]],
                       !.timer  = [p \in Process |->
                                     IF p \in ArmsOnline THEN "armed"
                                     ELSE reset.timer[p]]]
<1>1. reset \in Ctl /\ reset.runned = c.runned
  BY DEF Ctl
<1>2. d.runned = c.runned
  <2> HIDE DEF reset
  <2> QED BY <1>1 DEF Ctl
<1>3. GoOnline(c, open) = RunNext(d, open)
  BY DEF GoOnline
<1>4. RunNext(d, open) = d
  <2> HIDE DEF d
  <2> QED BY <1>2, RunNextHeld
<1>5. QED
  <2> HIDE DEF d
  <2> QED BY <1>2, <1>3, <1>4

\* Breaking everything off starts nothing.
LEMMA BreakAllRunned ==
  ASSUME NEW c \in Ctl PROVE BreakAll(c).runned = c.runned
<1> DEFINE d == [c EXCEPT !.wait = <<>>]
<1>1. d \in Ctl /\ d.runned = c.runned
  BY WaitType, <<>> \in Seq(AnyProcess) DEF Ctl
<1>2. Cancel(d) \in Ctl /\ Cancel(d).runned = d.runned
  <2> HIDE DEF d
  <2> QED BY <1>1 DEF Ctl, Cancel, CancelRun
<1>3. \A e \in Ctl : AllOffline(e).runned = e.runned
  BY DEF Ctl, AllOffline
<1>4. QED
  BY <1>1, <1>2, <1>3 DEF BreakAll

\* The end of a run, which clears CONTROL->runned, starts a process only while
\* nothing holds it back, also the one that has just ended.
LEMMA DoneHeldBack ==
  ASSUME ~RangeSwitching, TypeOK, NEW t \in Task, ProcessDone(t),
         ctl'.runned \in Process
  PROVE  ~stopSignal' /\ ~CriticalBreak'
<1>1. /\ Ended(t) \in Ctl /\ FreeTask(Ended(t)) # {}
      /\ Ended(t).runned = NoProcess
  <2>1. ctl \in Ctl
    BY DEF TypeOK
  <2>2. Ended(t).runned = NoProcess
    BY <2>1 DEF Ctl, Ended, Halt
  <2>3. QED
    BY <2>1, <2>2, EndedType
<1>2. stopSignal' = stopSignal /\ CriticalBreak' = CriticalBreak
  BY DEF ProcessDone, CriticalBreak
<1>3. CASE RunFails(t)
  <2>1. ctl' = StartProcess(Ended(t), Hold) \/ ctl' = Ended(t)
    BY <1>3 DEF RunFails
  <2>2. QED
    BY <1>1, <2>1, StartProcessRunned, ProcessAssumption
<1>4. CASE \E inRange \in BOOLEAN : RunSucceeds(t, inRange)
  <2>1. ctl' = RunNext(Ended(t), Open)
    BY <1>4 DEF RunSucceeds
  <2>2. QED
    BY <1>1, <1>2, <2>1, RunNextHeld, ProcessAssumption DEF Open
<1>5. QED
  BY <1>3, <1>4 DEF ProcessDone

\* A handler starts a process only while nothing holds it back, where ranges
\* are not switched: the critical error may be new, the stop signal just read.
LEMMA StepHeldBack ==
  ASSUME ~RangeSwitching, TypeOK, [Next]_vars,
         ctl'.runned \in Process, ctl'.runned # ctl.runned
  PROVE  ~stopSignal' /\ ~CriticalBreak'
<1>0. ctl \in Ctl
  BY DEF TypeOK
\* HOLD is no member of Process, so a handler that starts HOLD is no concern.
<1>h. ASSUME NEW c \in Ctl, FreeTask(c) # {}, ctl' = StartProcess(c, Hold)
      PROVE  FALSE
  BY <1>h, StartProcessRunned, ProcessAssumption
<1>1. ASSUME CriticalStop, HasTask PROVE FALSE
  <2>1. /\ BreakAll(ctl) \in Ctl /\ FreeTask(BreakAll(ctl)) # {}
        /\ BreakAll(ctl).runned = ctl.runned
    BY <1>0, <1>1, BreakAllType, BreakAllRunned DEF HasTask
  <2>2. QED
    BY <1>h, <1>1, <2>1 DEF CriticalStop
<1>2. CASE Boot
  <2> DEFINE s == StartProcess(ctl, Hold)
  <2>1. s \in Ctl /\ s.runned = Hold
    BY <1>0, <1>2, StartProcessType, StartProcessRunned DEF Boot, HasTask
  <2>2. ctl' = s \/ \E open \in BOOLEAN : ctl' = GoOnline(s, open)
    BY <1>2 DEF Boot, Online, CriticalBreak
  <2>3. ctl'.runned = Hold
    <3> HIDE DEF s
    <3> QED BY <2>1, <2>2, GoOnlineHeld, ProcessAssumption
  <2>4. QED
    BY <2>3, ProcessAssumption
<1>3. CASE OnlineCommand
  <2>1. /\ ctl' = GoOnline(ctl, ~stopSignal' /\ ~CriticalBreak)
        /\ CriticalBreak' = CriticalBreak
    BY <1>3 DEF OnlineCommand, Online, CriticalBreak
  <2>2. QED
    BY <1>0, <2>1, GoOnlineHeld
<1>4. CASE OfflineCommand
  <2>1. BreakAll(ctl) \in Ctl /\ FreeTask(BreakAll(ctl)) # {}
    BY <1>0, <1>4, BreakAllType DEF OfflineCommand, HasTask
  <2>2. QED
    BY <1>h, <1>4, <2>1 DEF OfflineCommand
<1>5. CASE IgnoreCriticalCommand
  BY <1>1, <1>5 DEF IgnoreCriticalCommand
<1>6. CASE CriticalChange
  <2>1. CASE critical' /\ ~ignoreCritical
    BY <1>1, <1>6, <2>1 DEF CriticalChange
  <2>2. CASE ~(critical' /\ ~ignoreCritical)
    <3>1. /\ ctl' = RunNext(ctl, ~stopSignal) /\ stopSignal' = stopSignal
          /\ ~CriticalBreak'
      BY <1>6, <2>2 DEF CriticalChange, CriticalBreak
    <3>2. QED
      BY <1>0, <3>1, RunNextHeld
  <2>3. QED
    BY <2>1, <2>2
<1>7. ASSUME NEW p \in Process, StartCommand(p)
      PROVE  ~stopSignal' /\ ~CriticalBreak'
  <2>1. /\ ctl' = AddWait(ctl, p, Open) /\ stopSignal' = stopSignal
        /\ CriticalBreak' = CriticalBreak
    BY <1>7 DEF StartCommand, CriticalBreak
  <2>2. QED
    BY <1>0, <2>1, AddWaitHeld DEF Open
<1>8. ASSUME NEW p \in Process, TimerFires(p)
      PROVE  ~stopSignal' /\ ~CriticalBreak'
  <2> DEFINE d == [ctl EXCEPT !.timer[p] = "none"]
  <2>1. d \in Ctl /\ d.runned = ctl.runned
    BY <1>0 DEF Ctl
  <2>2. /\ ctl' = AddWait(d, p, Open) /\ stopSignal' = stopSignal
        /\ CriticalBreak' = CriticalBreak
    BY <1>8 DEF TimerFires, CriticalBreak
  <2>3. QED
    <3> HIDE DEF d
    <3> QED BY <2>1, <2>2, AddWaitHeld DEF Open
<1>9. ASSUME NEW p \in Process, BreakCommand(p)
      PROVE  FALSE
  <2> DEFINE c == [ctl EXCEPT !.wait = RemoveFirst(@, p)]
  <2>1. c.runned = ctl.runned /\ Cancel(c).runned = c.runned
    BY <1>0 DEF Ctl, Cancel, CancelRun
  <2>2. ctl' = c \/ ctl' = Cancel(c)
    BY <1>9 DEF BreakCommand
  <2>3. QED
    <3> HIDE DEF c
    <3> QED BY <2>1, <2>2
<1>10. ASSUME NEW p \in Process, UserNext(p) \/ IntervalChanged(p)
       PROVE  FALSE
  BY <1>0, <1>10 DEF UserNext, IntervalChanged, Ctl
<1>11. CASE NodeReset
  <2> DEFINE w == IF ctl.runned = NoProcess THEN ctl.wait
                  ELSE <<ctl.runned>> \o ctl.wait
             d == [ctl EXCEPT !.wait = w]
  <2>1. w \in Seq(AnyProcess)
    BY <1>0, ResetWaitType
  <2>2. d \in Ctl /\ FreeTask(d) # {}
    <3> HIDE DEF w
    <3> QED BY <1>0, <1>11, <2>1, WaitType DEF NodeReset, HasTask
  <2>3. Cancel(d) \in Ctl /\ FreeTask(Cancel(d)) # {}
    <3> HIDE DEF d
    <3>1. Cancel(d).run = d.run
      BY <2>2 DEF Ctl, Cancel, CancelRun
    <3>2. QED
      BY <2>2, <3>1, CancelType DEF FreeTask, Pending
  <2>4. ctl' = StartProcess(Cancel(d), Hold)
    BY <1>11 DEF NodeReset
  <2>5. QED
    <3> HIDE DEF d
    <3> QED BY <1>h, <2>3, <2>4
<1>12. CASE StopSignalChanged
  <2>1. /\ ctl' = RunNext(ctl, ~stopSignal' /\ ~CriticalBreak)
        /\ CriticalBreak' = CriticalBreak
    BY <1>12 DEF StopSignalChanged, CriticalBreak
  <2>2. QED
    BY <1>0, <2>1, RunNextHeld
<1>13. CASE PollRetry
  <2>1. /\ ctl' = RunNext(ctl, Open) /\ stopSignal' = stopSignal
        /\ CriticalBreak' = CriticalBreak
    BY <1>13 DEF PollRetry, CriticalBreak
  <2>2. QED
    BY <1>0, <2>1, RunNextHeld DEF Open
<1>14. ASSUME NEW t \in Task, AwaitUser(t) PROVE FALSE
  BY <1>0, <1>14 DEF AwaitUser, Ctl
<1>15. ASSUME NEW t \in Task, ProcessDone(t)
       PROVE  ~stopSignal' /\ ~CriticalBreak'
  BY <1>15, DoneHeldBack
<1>16. CASE MaintenanceOn \/ StopSignalReadFails \/ UNCHANGED vars
  BY <1>16 DEF MaintenanceOn, StopSignalReadFails, vars
<1>17. QED
  BY <1>2, <1>3, <1>4, <1>5, <1>6, <1>7, <1>8, <1>9, <1>10, <1>11, <1>12,
     <1>13, <1>14, <1>15, <1>16, Zenon DEF Next

\* The remote stop signal and a critical error hold back every measurement,
\* whichever handler would start it, unless ranges are switched.
THEOREM NothingStartsHeldBack ==
  ASSUME ~RangeSwitching PROVE Spec => HeldBack
<1>1. TypeOK /\ [Next]_vars =>
        [ /\ ctl'.runned \in Process
          /\ ctl'.runned # ctl.runned \/ \E t \in Task : ProcessDone(t)
          => ~stopSignal' /\ ~CriticalBreak' ]_vars
  BY StepHeldBack, DoneHeldBack
<1>2. QED
  BY <1>1, TypeCorrect, PTL DEF Spec, HeldBack

-----------------------------------------------------------------------------
(* ControlProcess implements ExclusiveRun.  The refinement mapping looks   *)
(* at three fields of ctl only, so a lemma says for each operator on ctl   *)
(* whether it keeps the runs, cancels the live one or starts another, and  *)
(* the step of a handler follows from the operators it is made of.         *)

\* The refinement mapping, as operators on ctl.
LiveOf(c) == IF c.cancellable # NoTask /\ Live(c, c.cancellable)
             THEN c.cancellable ELSE NoTask
DrainingOf(c) == {t \in c.cancelled : Pending(c, t)}
SupersededOf(c) == DrainingOf(c) \cup ({LiveOf(c)} \ {NoTask})

\* What the operators on ctl need of it: IInv says nothing of the second part.
Marked(c) == Controlled(c) /\ \A t \in c.cancelled : Pending(c, t)

\* How the runs of d may come from those of c.
SameRuns(c, d) == LiveOf(d) = LiveOf(c) /\ DrainingOf(d) = DrainingOf(c)
Stopped(c, d)  == LiveOf(d) = NoTask /\ DrainingOf(d) = SupersededOf(c)
Started(c, d)  == /\ LiveOf(d) \in Task \ SupersededOf(c)
                  /\ DrainingOf(d) = SupersededOf(c)

Finished(c, d, t) == /\ t \in SupersededOf(c)
                     /\ LiveOf(d) = IF t = LiveOf(c) THEN NoTask ELSE LiveOf(c)
                     /\ DrainingOf(d) = DrainingOf(c) \ {t}
Replaced(c, d, t) == /\ t \in SupersededOf(c)
                     /\ LiveOf(d) \in Task \ (SupersededOf(c) \ {t})
                     /\ DrainingOf(d) = SupersededOf(c) \ {t}

\* An operator that leaves the three fields alone keeps the runs.
LEMMA KeepRuns ==
  ASSUME NEW c \in Ctl, NEW d \in Ctl, Marked(c),
         d.run = c.run, d.cancelled = c.cancelled, d.cancellable = c.cancellable
  PROVE  SameRuns(c, d) /\ Marked(d)
  BY DEF SameRuns, LiveOf, DrainingOf, Marked, Controlled, Live, Pending

\* The runs that have not ended are the superseded ones.
LEMMA SupersededIsPending ==
  ASSUME NEW c \in Ctl, Marked(c)
  PROVE  SupersededOf(c) = {t \in Task : Pending(c, t)}
  BY TaskAssumption DEF SupersededOf, LiveOf, DrainingOf, Marked, Controlled, Live, Ctl

\* ultra_control_cancel stops the live run, if there is one.
LEMMA CancelRuns ==
  ASSUME NEW c \in Ctl, Marked(c)
  PROVE  Stopped(c, Cancel(c)) /\ Marked(Cancel(c))
<1> DEFINE d == Cancel(c)
<1>1. /\ d.run = c.run /\ d.cancellable = NoTask
      /\ d.cancelled =
           IF c.cancellable # NoTask /\ Pending(c, c.cancellable)
           THEN c.cancelled \cup {c.cancellable} ELSE c.cancelled
  BY DEF Ctl, Cancel, CancelRun
<1>2. \A t \in Task : t \in d.cancelled <=> Pending(c, t)
  <2> HIDE DEF d
  <2> QED BY <1>1, TaskAssumption DEF Marked, Controlled, Live
<1>3. d \in Ctl
  BY CancelType
<1>4. LiveOf(d) = NoTask /\ DrainingOf(d) = {t \in Task : Pending(c, t)}
  <2> HIDE DEF d
  <2> QED BY <1>1, <1>2, <1>3 DEF LiveOf, DrainingOf, Pending, Ctl
<1>5. Marked(d)
  <2> HIDE DEF d
  <2> QED BY <1>1, <1>2, <1>3 DEF Marked, Controlled, Live, Pending, Ctl
<1>6. QED
  BY <1>4, <1>5, SupersededIsPending DEF Stopped

\* ultra_control_start_process supersedes the live run by a new one.
LEMMA StartRuns ==
  ASSUME NEW c \in Ctl, NEW p \in AnyProcess, FreeTask(c) # {}, Marked(c)
  PROVE  Started(c, StartProcess(c, p)) /\ Marked(StartProcess(c, p))
<1> DEFINE t == CHOOSE t \in FreeTask(c) : TRUE
           a == CancelRun(c)
           b == Halt(a, p)
           e == [b EXCEPT !.run[t] = p, !.cancellable = t, !.runned = p]
           d == ProcessOnline(e, p)
<1>1. t \in Task /\ ~Pending(c, t)
  BY DEF FreeTask
<1>2. /\ a \in Ctl /\ a.run = c.run
      /\ a.cancelled = IF c.cancellable # NoTask /\ Pending(c, c.cancellable)
                       THEN c.cancelled \cup {c.cancellable} ELSE c.cancelled
  BY CancelRunType DEF CancelRun, Ctl
<1>3. b \in Ctl /\ b.run = a.run /\ b.cancelled = a.cancelled
  <2> HIDE DEF a
  <2> QED BY <1>2, HaltType DEF Halt, Ctl
<1>4. /\ e.run = [c.run EXCEPT ![t] = p] /\ e.cancellable = t
      /\ e.cancelled = a.cancelled
  <2> HIDE DEF a, b, t
  <2> QED BY <1>1, <1>2, <1>3 DEF Ctl
<1>5. d.run = e.run /\ d.cancellable = e.cancellable /\ d.cancelled = e.cancelled
  <2> HIDE DEF b, t
  <2> QED BY <1>1, <1>3 DEF ProcessOnline, Ctl
<1>6. d = StartProcess(c, p)
  BY DEF StartProcess
<1>7. \A u \in Task : u \in a.cancelled <=> Pending(c, u)
  <2> HIDE DEF a
  <2> QED BY <1>2, TaskAssumption DEF Marked, Controlled, Live
<1>8. a.cancelled \subseteq Task /\ c.run \in [Task -> AnyProcess \cup {NoProcess}]
  <2> HIDE DEF a
  <2> QED BY <1>2 DEF Ctl
<1>9. p # NoProcess /\ t # NoTask
  BY <1>1, ProcessAssumption, TaskAssumption
<1>10. \A u \in Task : Pending(d, u) <=> Pending(c, u) \/ u = t
  <2> HIDE DEF a, e, d, t
  <2> QED BY <1>1, <1>4, <1>5, <1>8, <1>9 DEF Pending
<1>11. LiveOf(d) = t /\ DrainingOf(d) = {u \in Task : Pending(c, u)} /\ Marked(d)
  <2> HIDE DEF a, e, d, t
  <2> QED BY <1>1, <1>4, <1>5, <1>7, <1>8, <1>9, <1>10
          DEF LiveOf, DrainingOf, Marked, Controlled, Live
<1>12. QED
  <2> HIDE DEF d, t
  <2> QED BY <1>1, <1>6, <1>11, SupersededIsPending DEF Started

\* run_next_process starts a run or changes nothing.
LEMMA RunNextRuns ==
  ASSUME NEW c \in Ctl, NEW open, FreeTask(c) # {}, Marked(c)
  PROVE  /\ SameRuns(c, RunNext(c, open)) \/ Started(c, RunNext(c, open))
         /\ Marked(RunNext(c, open))
<1> DEFINE d == [c EXCEPT !.wait = Tail(@)]
<1>1. CASE ~(open /\ c.runned = NoProcess /\ c.wait # <<>>)
  BY <1>1 DEF RunNext, SameRuns
<1>2. CASE open /\ c.runned = NoProcess /\ c.wait # <<>>
  <2>1. c.wait \in Seq(AnyProcess)
    BY DEF Ctl
  <2>2. Tail(c.wait) \in Seq(AnyProcess) /\ Head(c.wait) \in AnyProcess
    BY <1>2, <2>1, HeadTailProperties
  <2>3. d \in Ctl /\ FreeTask(d) # {}
    BY <2>2, WaitType
  <2>4. d.run = c.run /\ d.cancelled = c.cancelled /\ d.cancellable = c.cancellable
    BY DEF Ctl
  <2>5. SameRuns(c, d) /\ Marked(d)
    <3> HIDE DEF d
    <3> QED BY <2>3, <2>4, KeepRuns
  <2>6. /\ Started(d, StartProcess(d, Head(c.wait)))
        /\ Marked(StartProcess(d, Head(c.wait)))
    <3> HIDE DEF d
    <3> QED BY <2>2, <2>3, <2>5, StartRuns
  <2>7. Started(c, StartProcess(d, Head(c.wait)))
    <3> HIDE DEF d
    <3> QED BY <2>5, <2>6 DEF Started, SameRuns, SupersededOf
  <2>8. QED
    BY <1>2, <2>6, <2>7 DEF RunNext
<1>3. QED
  BY <1>1, <1>2

\* A new entry of the wait list may be started at once.
LEMMA AddWaitRuns ==
  ASSUME NEW c \in Ctl, NEW p \in Process, NEW open, FreeTask(c) # {}, Marked(c)
  PROVE  /\ SameRuns(c, AddWait(c, p, open)) \/ Started(c, AddWait(c, p, open))
         /\ Marked(AddWait(c, p, open))
<1> DEFINE d == [c EXCEPT !.wait = Append(@, p)]
<1>1. d \in Ctl /\ FreeTask(d) # {}
  <2>1. c.wait \in Seq(AnyProcess) /\ p \in AnyProcess
    BY DEF Ctl
  <2>2. Append(c.wait, p) \in Seq(AnyProcess)
    BY <2>1, AppendProperties
  <2>3. QED
    BY <2>2, WaitType
<1>2. d.run = c.run /\ d.cancelled = c.cancelled /\ d.cancellable = c.cancellable
  BY DEF Ctl
<1>3. SameRuns(c, d) /\ Marked(d)
  <2> HIDE DEF d
  <2> QED BY <1>1, <1>2, KeepRuns
<1>4. /\ SameRuns(d, RunNext(d, open)) \/ Started(d, RunNext(d, open))
      /\ Marked(RunNext(d, open))
  <2> HIDE DEF d
  <2> QED BY <1>1, <1>3, RunNextRuns
<1>5. SameRuns(c, RunNext(d, open)) \/ Started(c, RunNext(d, open))
  <2> HIDE DEF d
  <2> QED BY <1>3, <1>4 DEF SameRuns, Started, SupersededOf
<1>6. AddWait(c, p, open) = c \/ AddWait(c, p, open) = RunNext(d, open)
  BY DEF AddWait
<1>7. QED
  <2> HIDE DEF d
  <2> QED BY <1>4, <1>5, <1>6 DEF SameRuns

\* Offline and a critical error stop the live run.
LEMMA BreakAllRuns ==
  ASSUME NEW c \in Ctl, Marked(c)
  PROVE  Stopped(c, BreakAll(c)) /\ Marked(BreakAll(c))
<1> DEFINE d == [c EXCEPT !.wait = <<>>]
           e == Cancel(d)
<1>1. d \in Ctl
  BY WaitType, <<>> \in Seq(AnyProcess)
<1>2. d.run = c.run /\ d.cancelled = c.cancelled /\ d.cancellable = c.cancellable
  BY DEF Ctl
<1>3. SameRuns(c, d) /\ Marked(d)
  <2> HIDE DEF d
  <2> QED BY <1>1, <1>2, KeepRuns
<1>4. e \in Ctl /\ Stopped(c, e) /\ Marked(e)
  <2> HIDE DEF d
  <2> QED BY <1>1, <1>3, CancelType, CancelRuns DEF SameRuns, Stopped, SupersededOf
<1>5. /\ AllOffline(e) \in Ctl /\ AllOffline(e).run = e.run
      /\ AllOffline(e).cancelled = e.cancelled
      /\ AllOffline(e).cancellable = e.cancellable
  <2> HIDE DEF e
  <2> QED BY <1>4 DEF AllOffline, Ctl
<1>6. SameRuns(e, AllOffline(e)) /\ Marked(AllOffline(e))
  <2> HIDE DEF e
  <2> QED BY <1>4, <1>5, KeepRuns
<1>7. AllOffline(e) = BreakAll(c)
  BY DEF BreakAll
<1>8. QED
  <2> HIDE DEF e
  <2> QED BY <1>4, <1>6, <1>7 DEF SameRuns, Stopped

\* Leaving a range touches no run.
LEMMA LeaveRangeKeepsRuns ==
  ASSUME NEW c \in Ctl, NEW p \in Process
  PROVE  /\ LeaveRange(c, p).run = c.run
         /\ LeaveRange(c, p).runned = c.runned
         /\ LeaveRange(c, p).cancelled = c.cancelled
         /\ LeaveRange(c, p).cancellable = c.cancellable
<1> DEFINE d == ProcessOffline(Halt(c, p), p)
           e == [d EXCEPT !.wait = RemoveFirst(@, p)]
<1>1. /\ d \in Ctl /\ d.run = c.run /\ d.cancelled = c.cancelled
      /\ d.cancellable = c.cancellable /\ d.runned = c.runned
  BY DEF Ctl, ProcessOffline, Halt
<1>2. /\ e.run = d.run /\ e.cancelled = d.cancelled /\ e.runned = d.runned
      /\ e.cancellable = d.cancellable
  <2> HIDE DEF d
  <2> QED BY <1>1 DEF Ctl
<1>3. e = LeaveRange(c, p)
  BY DEF LeaveRange
<1>4. QED
  <2> HIDE DEF d, e
  <2> QED BY <1>1, <1>2, <1>3

\* Going online runs the first process of the new wait list if nothing runs.
LEMMA GoOnlineRuns ==
  ASSUME NEW c \in Ctl, NEW open, FreeTask(c) # {} \/ c.runned # NoProcess, Marked(c)
  PROVE  /\ \/ SameRuns(c, GoOnline(c, open))
            \/ c.runned = NoProcess /\ Started(c, GoOnline(c, open))
         /\ Marked(GoOnline(c, open))
<1> DEFINE reset == [c EXCEPT !.timer = [p \in Process |->
                       IF c.timer[p] = "armed" THEN "idle" ELSE c.timer[p]]]
           left  == IF RangeSwitching /\ Range1 \in OnlineProcess
                    THEN LeaveRange(reset, Range2) ELSE reset
           d     == [left EXCEPT
                       !.wait   = StartOrder,
                       !.online = [p \in Process |->
                                     p \in OnlineProcess \/ left.online[p]],
                       !.timer  = [p \in Process |->
                                     IF p \in ArmsOnline THEN "armed"
                                     ELSE left.timer[p]]]
<1>1. /\ reset \in Ctl /\ reset.run = c.run /\ reset.runned = c.runned
      /\ reset.cancelled = c.cancelled /\ reset.cancellable = c.cancellable
  BY DEF Ctl
<1>2. /\ left \in Ctl /\ left.run = c.run /\ left.runned = c.runned
      /\ left.cancelled = c.cancelled /\ left.cancellable = c.cancellable
  <2> HIDE DEF reset
  <2>1. CASE RangeSwitching /\ Range1 \in OnlineProcess
    <3>1. Range2 \in Process
      BY <2>1, ProcessAssumption
    <3>2. LeaveRange(reset, Range2) \in Ctl
      BY <1>1, <3>1, LeaveRangeType
    <3>3. /\ LeaveRange(reset, Range2).run = reset.run
          /\ LeaveRange(reset, Range2).runned = reset.runned
          /\ LeaveRange(reset, Range2).cancelled = reset.cancelled
          /\ LeaveRange(reset, Range2).cancellable = reset.cancellable
      BY <1>1, <3>1, LeaveRangeKeepsRuns
    <3>4. QED
      BY <1>1, <2>1, <3>2, <3>3
  <2>2. CASE ~(RangeSwitching /\ Range1 \in OnlineProcess)
    BY <1>1, <2>2
  <2>3. QED
    BY <2>1, <2>2
<1>3. /\ d \in Ctl /\ d.run = c.run /\ d.runned = c.runned
      /\ d.cancelled = c.cancelled /\ d.cancellable = c.cancellable
  <2>1. StartOrder \in Seq(AnyProcess)
    BY StartOrderAssumption
  <2> HIDE DEF left
  <2>2. QED
    BY <1>2, <2>1 DEF Ctl
<1>4. SameRuns(c, d) /\ Marked(d) /\ FreeTask(d) = FreeTask(c)
  <2> HIDE DEF d
  <2> QED BY <1>3, KeepRuns DEF FreeTask, Pending
<1>5. GoOnline(c, open) = RunNext(d, open)
  BY DEF GoOnline
<1>6. CASE c.runned # NoProcess
  <2>1. RunNext(d, open) = d
    BY <1>3, <1>6 DEF RunNext
  <2> HIDE DEF d
  <2>2. QED
    BY <1>4, <1>5, <2>1
<1>7. CASE c.runned = NoProcess
  <2>1. /\ SameRuns(d, RunNext(d, open)) \/ Started(d, RunNext(d, open))
        /\ Marked(RunNext(d, open))
    <3> HIDE DEF d
    <3> QED BY <1>3, <1>4, <1>7, RunNextRuns
  <2> HIDE DEF d
  <2>2. QED
    BY <1>4, <1>5, <1>7, <2>1 DEF SameRuns, Started, SupersededOf
<1>8. QED
  BY <1>6, <1>7

\* control_process_done ends exactly the run it is called for.
LEMMA EndedRuns ==
  ASSUME ctl \in Ctl, Marked(ctl), NEW t \in Task, Pending(ctl, t)
  PROVE  Finished(ctl, Ended(t), t) /\ Marked(Ended(t))
<1> DEFINE d == [ctl EXCEPT !.runned = NoProcess, !.run[t] = NoProcess,
                            !.cancelled = @ \ {t}]
           e == Halt(d, ctl.run[t])
<1>1. /\ d \in Ctl /\ d.cancellable = ctl.cancellable
      /\ d.run = [ctl.run EXCEPT ![t] = NoProcess]
      /\ d.cancelled = ctl.cancelled \ {t}
  BY DEF Ctl
<1>2. e.cancellable = d.cancellable /\ e.run = d.run /\ e.cancelled = d.cancelled
  <2> HIDE DEF d
  <2> QED BY <1>1 DEF Ctl, Halt
<1>3. \A u \in Task : Pending(e, u) <=> Pending(ctl, u) /\ u # t
  <2> HIDE DEF d, e
  <2> QED BY <1>1, <1>2 DEF Pending, Ctl
<1>4. ctl.cancelled \subseteq Task
  BY DEF Ctl
<1>5. ctl.cancellable \in Task \cup {NoTask}
  BY DEF Ctl
<1>6. LiveOf(e) = IF t = LiveOf(ctl) THEN NoTask ELSE LiveOf(ctl)
  <2> HIDE DEF d, e
  <2> QED BY <1>1, <1>2, <1>3, <1>4, <1>5, TaskAssumption DEF LiveOf, Live
<1>7. DrainingOf(e) = DrainingOf(ctl) \ {t} /\ Marked(e)
  <2> HIDE DEF d, e
  <2> QED BY <1>1, <1>2, <1>3, <1>4 DEF DrainingOf, Marked, Controlled, Live
<1>8. e = Ended(t)
  BY DEF Ended
<1>9. QED
  <2> HIDE DEF e
  <2> QED BY <1>6, <1>7, <1>8, SupersededIsPending DEF Finished

\* A callback that starts the next run replaces the one it ended.
LEMMA EndedThenStarted ==
  ASSUME NEW c, NEW d, NEW e, NEW t, Finished(c, d, t), Started(d, e),
         LiveOf(c) \notin DrainingOf(c)
  PROVE  Replaced(c, e, t)
<1>1. SupersededOf(d) = SupersededOf(c) \ {t}
  BY DEF Finished, SupersededOf
<1>2. QED
  BY <1>1 DEF Finished, Started, Replaced

-----------------------------------------------------------------------------
(* The steps                                                               *)

Follows(c, d) == \/ SameRuns(c, d) \/ Stopped(c, d) \/ Started(c, d)
                 \/ \E t \in Task : Finished(c, d, t) \/ Replaced(c, d, t)

RunInv == IInv /\ Marked(ctl)

\* Stopping the live run and starting another is one start.
LEMMA StoppedThenStarted ==
  ASSUME NEW c, NEW d, NEW e, Stopped(c, d), Started(d, e)
  PROVE  Started(c, e)
  BY DEF Stopped, Started, SupersededOf

\* HOLD takes over after everything was broken off.
LEMMA BreakAllThenHold ==
  ASSUME NEW c \in Ctl, FreeTask(c) # {}, Marked(c)
  PROVE  /\ Started(c, StartProcess(BreakAll(c), Hold))
         /\ Marked(StartProcess(BreakAll(c), Hold))
<1>1. BreakAll(c) \in Ctl /\ FreeTask(BreakAll(c)) # {}
  BY BreakAllType
<1>2. Stopped(c, BreakAll(c)) /\ Marked(BreakAll(c))
  BY BreakAllRuns
<1>3. /\ Started(BreakAll(c), StartProcess(BreakAll(c), Hold))
      /\ Marked(StartProcess(BreakAll(c), Hold))
  BY <1>1, <1>2, StartRuns, Hold \in AnyProcess
<1>4. QED
  BY <1>2, <1>3, StoppedThenStarted

\* A critical error stops the live run, or lets HOLD supersede it.
LEMMA CriticalStopRuns ==
  ASSUME RunInv, HasTask, CriticalStop
  PROVE  Follows(ctl, ctl') /\ Marked(ctl')
<1>1. ctl \in Ctl /\ Marked(ctl)
  BY DEF RunInv, IInv, TypeOK
<1>2. CASE maintenance
  BY <1>1, <1>2, BreakAllRuns DEF CriticalStop, Follows
<1>3. CASE ~maintenance
  BY <1>1, <1>3, BreakAllThenHold DEF CriticalStop, HasTask, Follows
<1>4. QED
  BY <1>2, <1>3

\* What control_process_done does after the run t has ended.
LEMMA DoneRuns ==
  ASSUME RunInv, NEW t \in Task, ProcessDone(t)
  PROVE  Follows(ctl, ctl') /\ Marked(ctl')
<1>1. ctl \in Ctl /\ Marked(ctl) /\ Pending(ctl, t) /\ Safe(ctl)
  BY DEF RunInv, IInv, TypeOK, ProcessDone
<1> DEFINE c == Ended(t)
<1>2. Finished(ctl, c, t) /\ Marked(c) /\ c \in Ctl /\ FreeTask(c) # {}
  BY <1>1, EndedRuns, EndedType
<1>3. LiveOf(ctl) \notin DrainingOf(ctl)
  BY <1>1, TaskAssumption DEF LiveOf, DrainingOf, Live, Ctl
<1>4. \A e : e = c \/ Started(c, e) => Follows(ctl, e)
  <2> HIDE DEF c
  <2> QED BY <1>2, <1>3, EndedThenStarted DEF Follows
<1>5. /\ Started(c, StartProcess(c, Hold)) /\ Marked(StartProcess(c, Hold))
  <2> HIDE DEF c
  <2> QED BY <1>2, StartRuns, Hold \in AnyProcess
<1>6. CASE RunFails(t)
  <2>1. ctl' = StartProcess(c, Hold) \/ ctl' = c
    BY <1>6 DEF RunFails
  <2> HIDE DEF c
  <2>2. QED
    BY <1>2, <1>4, <1>5, <2>1
<1>7. ASSUME NEW inRange \in BOOLEAN, RunSucceeds(t, inRange)
      PROVE  Follows(ctl, ctl') /\ Marked(ctl')
  <2> DEFINE p     == ctl.run[t]
             other == IF p = Range1 THEN Range2 ELSE Range1
             left  == LeaveRange(c, p)
  <2>1. CASE ctl' = StartProcess(left, other) /\ RangeSwitching /\ p \in {Range1, Range2}
    <3>1. p \in Process /\ other \in AnyProcess
      BY <2>1, ProcessAssumption
    <3>2. /\ left \in Ctl /\ left.run = c.run /\ left.cancelled = c.cancelled
          /\ left.cancellable = c.cancellable
      <4> HIDE DEF c, p
      <4> QED BY <1>2, <3>1, LeaveRangeType, LeaveRangeKeepsRuns
    <3>3. SameRuns(c, left) /\ Marked(left) /\ FreeTask(left) # {}
      <4> HIDE DEF c, left
      <4> QED BY <1>2, <3>2, KeepRuns DEF FreeTask, Pending
    <3>4. Started(left, StartProcess(left, other)) /\ Marked(StartProcess(left, other))
      <4> HIDE DEF c, left, other
      <4> QED BY <3>1, <3>2, <3>3, StartRuns
    <3>5. Started(c, StartProcess(left, other))
      <4> HIDE DEF c, left, other
      <4> QED BY <3>3, <3>4 DEF SameRuns, Started, SupersededOf
    <3>6. QED
      <4> HIDE DEF c, left, other
      <4> QED BY <1>4, <2>1, <3>4, <3>5
  <2>2. CASE ctl' = RunNext(c, Open)
    <3>1. /\ SameRuns(c, ctl') \/ Started(c, ctl')
          /\ Marked(ctl')
      <4> HIDE DEF c
      <4> QED BY <1>2, <2>2, RunNextRuns
    <3>2. SameRuns(c, ctl') => Finished(ctl, ctl', t)
      <4> HIDE DEF c
      <4> QED BY <1>2 DEF SameRuns, Finished
    <3>3. QED
      <4> HIDE DEF c
      <4> QED BY <1>4, <3>1, <3>2 DEF Follows
  <2>3. QED
    BY <1>7, <2>1, <2>2 DEF RunSucceeds
<1>8. QED
  BY <1>6, <1>7 DEF ProcessDone

\* Every handler keeps the runs, stops the live one, starts another or ends one.
LEMMA NextRuns ==
  ASSUME RunInv, [Next]_vars
  PROVE  Follows(ctl, ctl') /\ Marked(ctl')
<1>0. ctl \in Ctl /\ ctl' \in Ctl /\ Marked(ctl)
  BY NextTypeOK DEF RunInv, IInv, TypeOK
<1>1. CASE Boot
  <2> DEFINE s == StartProcess(ctl, Hold)
  <2>1. /\ s \in Ctl /\ s.runned # NoProcess
        /\ Started(ctl, s) /\ Marked(s)
    <3>1. Hold \in AnyProcess /\ FreeTask(ctl) # {}
      BY <1>1 DEF Boot, HasTask
    <3>2. QED
      BY <1>0, <3>1, StartProcessType, StartProcessRunned, StartRuns, ProcessAssumption
  <2>2. ctl' = s \/ \E open \in BOOLEAN : ctl' = GoOnline(s, open)
    BY <1>1 DEF Boot, Online, CriticalBreak
  <2>3. \A open \in BOOLEAN : SameRuns(s, GoOnline(s, open)) /\ Marked(GoOnline(s, open))
    <3> HIDE DEF s
    <3> QED BY <2>1, GoOnlineRuns
  <2>4. QED
    <3> HIDE DEF s
    <3> QED BY <2>1, <2>2, <2>3 DEF SameRuns, Started, Follows
<1>2. CASE OnlineCommand
  <2>1. PICK open : ctl' = GoOnline(ctl, open)
    BY <1>2 DEF OnlineCommand, Online
  <2>2. QED
    BY <1>0, <1>2, <2>1, GoOnlineRuns DEF OnlineCommand, HasTask, Follows
<1>3. CASE OfflineCommand
  BY <1>0, <1>3, BreakAllThenHold DEF OfflineCommand, HasTask, Follows
<1>4. CASE IgnoreCriticalCommand
  BY <1>0, <1>4, CriticalStopRuns DEF IgnoreCriticalCommand, Follows, SameRuns
<1>5. ASSUME NEW p \in Process, StartCommand(p)
      PROVE  Follows(ctl, ctl') /\ Marked(ctl')
  BY <1>0, <1>5, AddWaitRuns DEF StartCommand, HasTask, Follows
<1>6. ASSUME NEW p \in Process, BreakCommand(p)
      PROVE  Follows(ctl, ctl') /\ Marked(ctl')
  <2> DEFINE c == [ctl EXCEPT !.wait = RemoveFirst(@, p)]
  <2>1. c \in Ctl
    BY <1>0, RemoveFirstType, WaitType DEF Ctl
  <2>2. c.run = ctl.run /\ c.cancelled = ctl.cancelled /\ c.cancellable = ctl.cancellable
    BY <1>0 DEF Ctl
  <2>3. SameRuns(ctl, c) /\ Marked(c)
    <3> HIDE DEF c
    <3> QED BY <1>0, <2>1, <2>2, KeepRuns
  <2>4. Stopped(ctl, Cancel(c)) /\ Marked(Cancel(c))
    <3> HIDE DEF c
    <3> QED BY <2>1, <2>3, CancelRuns DEF SameRuns, Stopped, SupersededOf
  <2>5. ctl' = c \/ ctl' = Cancel(c)
    BY <1>6 DEF BreakCommand
  <2>6. QED
    <3> HIDE DEF c
    <3> QED BY <2>3, <2>4, <2>5 DEF Follows
<1>7. ASSUME NEW p \in Process, UserNext(p)
      PROVE  Follows(ctl, ctl') /\ Marked(ctl')
  <2>1. /\ ctl'.run = ctl.run /\ ctl'.cancelled = ctl.cancelled
        /\ ctl'.cancellable = ctl.cancellable
    BY <1>0, <1>7 DEF UserNext, Ctl
  <2>2. QED
    BY <1>0, <2>1, KeepRuns DEF Follows
<1>8. ASSUME NEW p \in Process, TimerFires(p)
      PROVE  Follows(ctl, ctl') /\ Marked(ctl')
  <2> DEFINE d == [ctl EXCEPT !.timer[p] = "none"]
  <2>1. /\ d \in Ctl /\ d.run = ctl.run /\ d.cancelled = ctl.cancelled
        /\ d.cancellable = ctl.cancellable
    BY <1>0 DEF Ctl
  <2>2. SameRuns(ctl, d) /\ Marked(d) /\ FreeTask(d) # {}
    <3> HIDE DEF d
    <3> QED BY <1>0, <1>8, <2>1, KeepRuns DEF TimerFires, HasTask, FreeTask, Pending
  <2>3. /\ SameRuns(d, AddWait(d, p, Open)) \/ Started(d, AddWait(d, p, Open))
        /\ Marked(AddWait(d, p, Open))
    <3> HIDE DEF d
    <3> QED BY <2>1, <2>2, AddWaitRuns
  <2>4. ctl' = AddWait(d, p, Open)
    BY <1>8 DEF TimerFires
  <2>5. QED
    <3> HIDE DEF d
    <3> QED BY <2>2, <2>3, <2>4 DEF SameRuns, Started, SupersededOf, Follows
<1>9. ASSUME NEW p \in Process, IntervalChanged(p)
      PROVE  Follows(ctl, ctl') /\ Marked(ctl')
  <2>1. /\ ctl'.run = ctl.run /\ ctl'.cancelled = ctl.cancelled
        /\ ctl'.cancellable = ctl.cancellable
    BY <1>0, <1>9 DEF IntervalChanged, Ctl
  <2>2. QED
    BY <1>0, <2>1, KeepRuns DEF Follows
<1>10. CASE CriticalChange
  BY <1>0, <1>10, CriticalStopRuns, RunNextRuns DEF CriticalChange, HasTask, Follows
<1>11. CASE NodeReset
  <2> DEFINE w == IF ctl.runned = NoProcess THEN ctl.wait
                  ELSE <<ctl.runned>> \o ctl.wait
             d == [ctl EXCEPT !.wait = w]
  <2>1. w \in Seq(AnyProcess)
    BY <1>0, ResetWaitType
  <2>2. /\ d \in Ctl /\ d.run = ctl.run /\ d.cancelled = ctl.cancelled
        /\ d.cancellable = ctl.cancellable
    <3>1. d \in Ctl
      BY <1>0, <2>1, WaitType
    <3> HIDE DEF w
    <3>2. QED
      BY <1>0, <3>1 DEF Ctl
  <2>3. SameRuns(ctl, d) /\ Marked(d) /\ FreeTask(d) # {}
    <3> HIDE DEF d
    <3> QED BY <1>0, <1>11, <2>2, KeepRuns DEF NodeReset, HasTask, FreeTask, Pending
  <2>4. /\ Stopped(ctl, Cancel(d)) /\ Marked(Cancel(d))
        /\ Cancel(d) \in Ctl /\ FreeTask(Cancel(d)) # {}
    <3>1. Cancel(d).run = d.run
      <4> HIDE DEF d
      <4> QED BY <2>2 DEF Cancel, CancelRun, Ctl
    <3> HIDE DEF d
    <3>2. QED
      BY <2>2, <2>3, <3>1, CancelRuns, CancelType
         DEF SameRuns, Stopped, SupersededOf, FreeTask, Pending
  <2>5. ctl' = StartProcess(Cancel(d), Hold)
    BY <1>11 DEF NodeReset
  <2>6. QED
    <3> HIDE DEF d
    <3>1. Started(Cancel(d), ctl') /\ Marked(ctl')
      BY <2>4, <2>5, StartRuns, Hold \in AnyProcess
    <3>2. QED
      BY <2>4, <3>1, StoppedThenStarted DEF Follows
<1>12. CASE StopSignalChanged \/ PollRetry
  <2>1. PICK open : ctl' = RunNext(ctl, open)
    BY <1>12 DEF StopSignalChanged, PollRetry
  <2>2. QED
    BY <1>0, <1>12, <2>1, RunNextRuns DEF StopSignalChanged, PollRetry, HasTask, Follows
<1>13. CASE MaintenanceOn \/ StopSignalReadFails \/ UNCHANGED vars
  BY <1>0, <1>13 DEF MaintenanceOn, StopSignalReadFails, vars, Follows, SameRuns
<1>14. ASSUME NEW t \in Task, AwaitUser(t)
       PROVE  Follows(ctl, ctl') /\ Marked(ctl')
  <2>1. /\ ctl'.run = ctl.run /\ ctl'.cancelled = ctl.cancelled
        /\ ctl'.cancellable = ctl.cancellable
    BY <1>0, <1>14 DEF AwaitUser, Ctl
  <2>2. QED
    BY <1>0, <2>1, KeepRuns DEF Follows
<1>15. ASSUME NEW t \in Task, ProcessDone(t)
       PROVE  Follows(ctl, ctl') /\ Marked(ctl')
  BY <1>15, DoneRuns
<1>16. QED
  BY <1>1, <1>2, <1>3, <1>4, <1>5, <1>6, <1>7, <1>8, <1>9, <1>10, <1>11,
     <1>12, <1>13, <1>14, <1>15 DEF Next

\* The scheduler keeps the promise of ExclusiveRun: whatever handlers run in
\* whatever order, a start supersedes the live run, and a run that was told
\* to stop drains without ever becoming live again.
THEOREM ControlRunsAreExclusive == Spec => RunsAreExclusive
<1>1. Init => Runs!Init /\ Marked(ctl)
  BY DEF Init, Runs!Init, LiveTask, DrainingTasks, Live, Pending, Marked, Controlled
<1>2. RunInv /\ [Next]_vars => [Runs!Next]_(Runs!runVars) /\ Marked(ctl)'
  <2> SUFFICES ASSUME RunInv, [Next]_vars
               PROVE  [Runs!Next]_(Runs!runVars) /\ Marked(ctl)'
    OBVIOUS
  <2>1. Follows(ctl, ctl') /\ Marked(ctl')
    BY NextRuns
  <2>2. /\ LiveTask = LiveOf(ctl) /\ LiveTask' = LiveOf(ctl')
        /\ DrainingTasks = DrainingOf(ctl) /\ DrainingTasks' = DrainingOf(ctl')
    BY DEF LiveTask, DrainingTasks, LiveOf, DrainingOf, Live, Pending
  <2>3. Runs!Superseded = SupersededOf(ctl)
    BY <2>2 DEF Runs!Superseded, SupersededOf
  <2>4. Marked(ctl)'
    BY <2>1 DEF Marked, Controlled, Live, Pending
  <2>5. CASE SameRuns(ctl, ctl')
    BY <2>2, <2>4, <2>5 DEF SameRuns, Runs!runVars
  <2>6. CASE Stopped(ctl, ctl')
    <3>1. CASE LiveOf(ctl) = NoTask
      BY <2>2, <2>4, <2>6, <3>1 DEF Stopped, SupersededOf, Runs!runVars
    <3>2. CASE LiveOf(ctl) # NoTask
      BY <2>2, <2>3, <2>4, <2>6, <3>2 DEF Stopped, Runs!Next, Runs!Cancel
    <3>3. QED
      BY <3>1, <3>2
  <2>7. CASE Started(ctl, ctl')
    BY <2>2, <2>3, <2>4, <2>7 DEF Started, Runs!Next, Runs!Start
  <2>8. ASSUME NEW t \in Task, Finished(ctl, ctl', t)
        PROVE  Runs!Next
    BY <2>2, <2>3, <2>8 DEF Finished, Runs!Next, Runs!Finish
  <2>9. ASSUME NEW t \in Task, Replaced(ctl, ctl', t)
        PROVE  Runs!Next
    BY <2>2, <2>3, <2>9 DEF Replaced, Runs!Next, Runs!FinishAndStart
  <2>10. QED
    BY <2>1, <2>4, <2>5, <2>6, <2>7, <2>8, <2>9 DEF Follows
<1>3. QED
  BY <1>1, <1>2, Invariance, PTL DEF Spec, RunInv, RunsAreExclusive, Runs!Spec

-----------------------------------------------------------------------------
(* A removed process is gone                                               *)

\* No process is in the list twice.
Once(s) == \A i, j \in 1..Len(s) : s[i] = s[j] => i = j

LEMMA TailOnce ==
  ASSUME NEW S, NEW s \in Seq(S), s # <<>>, Once(s)
  PROVE  Once(Tail(s))
<1>1. /\ Len(Tail(s)) = Len(s) - 1 /\ Len(s) \in Nat
      /\ \A i \in 1..Len(s) - 1 : Tail(s)[i] = s[i + 1]
  BY HeadTailProperties
<1>2. QED
  BY <1>1 DEF Once

LEMMA AppendOnce ==
  ASSUME NEW S, NEW s \in Seq(S), NEW e \in S, Once(s), ~Contains(s, e)
  PROVE  Once(Append(s, e))
<1>1. /\ Len(Append(s, e)) = Len(s) + 1 /\ Len(s) \in Nat
      /\ \A i \in 1..Len(s) : Append(s, e)[i] = s[i]
      /\ Append(s, e)[Len(s) + 1] = e
  BY AppendProperties
<1>2. \A i \in 1..Len(s) : s[i] # e
  BY DEF Contains
<1>3. QED
  BY <1>1, <1>2 DEF Once

\* Taking out the first entry closes the gap and keeps the others as they are.
LEMMA RemoveFirstShape ==
  ASSUME NEW S, NEW s \in Seq(S), NEW e, Contains(s, e)
  PROVE  \E k \in 1..Len(s) :
           /\ s[k] = e
           /\ Len(RemoveFirst(s, e)) = Len(s) - 1 /\ Len(s) \in Nat
           /\ \A i \in 1..Len(s) - 1 :
                RemoveFirst(s, e)[i] = IF i < k THEN s[i] ELSE s[i + 1]
<1> DEFINE I == {i \in 1..Len(s) : s[i] = e}
           k == CHOOSE x \in I : \A y \in I : x <= y
           r == SubSeq(s, 1, k - 1) \o SubSeq(s, k + 1, Len(s))
<1>0. \E i \in 1..Len(s) : s[i] = e
  BY DEF Contains
<1>1. RemoveFirst(s, e) = r
  BY <1>0 DEF RemoveFirst, RemoveAt, SelectInSeq, Min
<1>2. k \in 1..Len(s) /\ s[k] = e
  <2>1. \E x \in I : \A y \in I : x <= y
    BY <1>0, LeastElement, I # {}, I \in SUBSET Nat
  <2>2. QED
    BY <2>1
<1> HIDE DEF k, I
<1>3. /\ Len(r) = Len(s) - 1 /\ Len(s) \in Nat
      /\ \A i \in 1..Len(s) - 1 : r[i] = IF i < k THEN s[i] ELSE s[i + 1]
  <2>1. /\ SubSeq(s, 1, k - 1) \in Seq(S) /\ Len(SubSeq(s, 1, k - 1)) = k - 1
        /\ \A i \in 1..k - 1 : SubSeq(s, 1, k - 1)[i] = s[i]
    BY <1>2, SubSeqProperties
  <2>2. /\ SubSeq(s, k + 1, Len(s)) \in Seq(S)
        /\ Len(SubSeq(s, k + 1, Len(s))) = Len(s) - k
        /\ \A i \in 1..Len(s) - k : SubSeq(s, k + 1, Len(s))[i] = s[k + i]
    BY <1>2, SubSeqProperties
  <2>3. /\ Len(r) = (k - 1) + (Len(s) - k)
        /\ \A i \in 1..Len(r) :
             r[i] = IF i <= k - 1 THEN SubSeq(s, 1, k - 1)[i]
                    ELSE SubSeq(s, k + 1, Len(s))[i - (k - 1)]
    <3> DEFINE a == SubSeq(s, 1, k - 1)
               b == SubSeq(s, k + 1, Len(s))
               ab == a \o b
    <3>1. a \in Seq(S) /\ b \in Seq(S) /\ Len(a) = k - 1 /\ Len(b) = Len(s) - k
      BY <2>1, <2>2
    <3> HIDE DEF a, b
    <3>2. /\ Len(ab) = Len(a) + Len(b)
          /\ \A i \in 1..Len(a) + Len(b) :
               ab[i] = IF i <= Len(a) THEN a[i] ELSE b[i - Len(a)]
      BY <3>1, ConcatProperties
    <3> HIDE DEF ab
    <3>3. /\ Len(ab) = (k - 1) + (Len(s) - k)
          /\ \A i \in 1..Len(ab) :
               ab[i] = IF i <= k - 1 THEN a[i] ELSE b[i - (k - 1)]
      BY <3>1, <3>2
    <3>4. QED
      BY <3>3 DEF a, b, ab
  <2>4. k \in 1..Len(s) /\ Len(s) \in Nat
    BY <1>2
  <2> HIDE DEF r
  <2>5. \A i \in 1..Len(s) - 1 : i >= k => i - (k - 1) \in 1..Len(s) - k
    BY <2>4
  <2>6. QED
    BY <2>1, <2>2, <2>3, <2>4, <2>5
<1> HIDE DEF r
<1>4. QED
  BY <1>1, <1>2, <1>3

\* Of a list without repetitions, taking out the first entry takes out all.
LEMMA RemoveFirstOnce ==
  ASSUME NEW S, NEW s \in Seq(S), NEW e, Once(s)
  PROVE  Once(RemoveFirst(s, e)) /\ ~Contains(RemoveFirst(s, e), e)
<1> DEFINE r == RemoveFirst(s, e)
<1>1. CASE ~Contains(s, e)
  BY <1>1 DEF RemoveFirst, Contains
<1>2. CASE Contains(s, e)
  <2>1. PICK k \in 1..Len(s) :
          /\ s[k] = e
          /\ Len(r) = Len(s) - 1 /\ Len(s) \in Nat
          /\ \A i \in 1..Len(s) - 1 : r[i] = IF i < k THEN s[i] ELSE s[i + 1]
    BY <1>2, RemoveFirstShape
  <2> HIDE DEF r
  <2>2. \A i, j \in 1..Len(r) : r[i] = r[j] => i = j
    BY <2>1 DEF Once
  <2>3. \A i \in 1..Len(r) : r[i] # e
    BY <2>1 DEF Once
  <2>4. QED
    BY <2>2, <2>3 DEF Once, Contains, r
<1>3. QED
  BY <1>1, <1>2

\* What the operators do to the wait list.
LEMMA CancelWait ==
  ASSUME NEW c \in Ctl
  PROVE  CancelRun(c).wait = c.wait /\ Cancel(c).wait = c.wait
BY DEF Ctl, CancelRun, Cancel

LEMMA StartProcessWait ==
  ASSUME NEW c \in Ctl, NEW p
  PROVE  StartProcess(c, p).wait = c.wait
<1> DEFINE t == CHOOSE t \in FreeTask(c) : TRUE
           h == Halt(CancelRun(c), p)
           s == [h EXCEPT !.run[t] = p, !.cancellable = t, !.runned = p]
<1>1. h \in Ctl /\ h.wait = c.wait
  <2>1. CancelRun(c) \in Ctl /\ CancelRun(c).wait = c.wait
    BY CancelRunType, CancelWait
  <2> DEFINE x == CancelRun(c)
  <2> HIDE DEF x
  <2>2. x \in Ctl => Halt(x, p) \in Ctl /\ Halt(x, p).wait = x.wait
    BY HaltType DEF Ctl, Halt
  <2>3. QED
    BY <2>1, <2>2 DEF x
<1>2. s.wait = c.wait /\ DOMAIN s = DOMAIN h
  <2> HIDE DEF h, t
  <2> QED BY <1>1 DEF Ctl
<1>3. ProcessOnline(s, p).wait = s.wait
  <2>1. "wait" \in DOMAIN s
    <3> HIDE DEF h, t, s
    <3> QED BY <1>1, <1>2 DEF Ctl
  <2> HIDE DEF s
  <2>2. QED
    BY <2>1 DEF ProcessOnline
<1>4. QED
  BY <1>2, <1>3 DEF StartProcess

LEMMA RunNextOnce ==
  ASSUME NEW c \in Ctl, NEW open, Once(c.wait)
  PROVE  Once(RunNext(c, open).wait)
<1> DEFINE d == [c EXCEPT !.wait = Tail(@)]
<1>1. CASE c.wait = <<>>
  BY <1>1 DEF RunNext
<1>2. CASE c.wait # <<>>
  <2>1. c.wait \in Seq(AnyProcess)
    BY DEF Ctl
  <2>2. Tail(c.wait) \in Seq(AnyProcess) /\ Once(Tail(c.wait))
    BY <1>2, <2>1, HeadTailProperties, TailOnce
  <2>3. d \in Ctl /\ d.wait = Tail(c.wait)
    BY <2>2, WaitType DEF Ctl
  <2> HIDE DEF d
  <2>4. StartProcess(d, Head(c.wait)).wait = Tail(c.wait)
    BY <2>3, StartProcessWait
  <2>5. QED
    BY <2>2, <2>4 DEF RunNext, d
<1>3. QED
  BY <1>1, <1>2

LEMMA AddWaitOnce ==
  ASSUME NEW c \in Ctl, NEW p \in Process, NEW open, Once(c.wait)
  PROVE  Once(AddWait(c, p, open).wait)
<1> DEFINE d == [c EXCEPT !.wait = Append(@, p)]
<1>1. CASE Contains(c.wait, p)
  BY <1>1 DEF AddWait
<1>2. CASE ~Contains(c.wait, p)
  <2>1. c.wait \in Seq(AnyProcess) /\ p \in AnyProcess
    BY DEF Ctl
  <2>2. Append(c.wait, p) \in Seq(AnyProcess) /\ Once(Append(c.wait, p))
    BY <1>2, <2>1, AppendProperties, AppendOnce
  <2>3. d \in Ctl /\ d.wait = Append(c.wait, p)
    BY <2>2, WaitType DEF Ctl
  <2> HIDE DEF d
  <2>4. Once(RunNext(d, open).wait)
    BY <2>2, <2>3, RunNextOnce
  <2>5. QED
    BY <1>2, <2>4 DEF AddWait, d
<1>3. QED
  BY <1>1, <1>2

LEMMA BreakAllWait ==
  ASSUME NEW c \in Ctl
  PROVE  BreakAll(c) \in Ctl /\ BreakAll(c).wait = <<>>
<1> DEFINE d == [c EXCEPT !.wait = <<>>]
<1>1. d \in Ctl /\ d.wait = <<>>
  BY WaitType, <<>> \in Seq(AnyProcess) DEF Ctl
<1>2. \A e \in Ctl : AllOffline(e).wait = e.wait
  BY DEF Ctl, AllOffline
<1> HIDE DEF d
<1>3. Cancel(d) \in Ctl /\ Cancel(d).wait = <<>>
  BY <1>1, CancelType, CancelWait
<1>4. QED
  BY <1>2, <1>3, BreakAllType DEF BreakAll, d

LEMMA LeaveRangeWait ==
  ASSUME NEW c \in Ctl, NEW p \in Process
  PROVE  LeaveRange(c, p).wait = RemoveFirst(c.wait, p)
<1> DEFINE d == ProcessOffline(Halt(c, p), p)
<1>1. d \in Ctl /\ d.wait = c.wait
  BY DEF Ctl, ProcessOffline, Halt
<1> HIDE DEF d
<1>2. [d EXCEPT !.wait = RemoveFirst(@, p)].wait = RemoveFirst(c.wait, p)
  BY <1>1 DEF Ctl
<1>3. QED
  BY <1>2 DEF LeaveRange, d

LEMMA LeaveRangeOnce ==
  ASSUME NEW c \in Ctl, NEW p \in Process, Once(c.wait)
  PROVE  Once(LeaveRange(c, p).wait)
<1>1. Once(RemoveFirst(c.wait, p))
  BY RemoveFirstOnce DEF Ctl
<1>2. QED
  BY <1>1, LeaveRangeWait

LEMMA GoOnlineOnce ==
  ASSUME NEW c \in Ctl, NEW open
  PROVE  Once(GoOnline(c, open).wait)
<1> DEFINE reset == [c EXCEPT !.timer = [p \in Process |->
                       IF c.timer[p] = "armed" THEN "idle" ELSE c.timer[p]]]
           left  == IF RangeSwitching /\ Range1 \in OnlineProcess
                    THEN LeaveRange(reset, Range2) ELSE reset
           d     == [left EXCEPT
                       !.wait   = StartOrder,
                       !.online = [p \in Process |->
                                     p \in OnlineProcess \/ left.online[p]],
                       !.timer  = [p \in Process |->
                                     IF p \in ArmsOnline THEN "armed"
                                     ELSE left.timer[p]]]
<1>1. reset \in Ctl
  BY DEF Ctl
<1>2. left \in Ctl
  <2> HIDE DEF reset
  <2> QED BY <1>1, LeaveRangeType, ProcessAssumption
<1>3. d \in Ctl /\ d.wait = StartOrder
  <2>1. StartOrder \in Seq(AnyProcess)
    BY StartOrderAssumption
  <2> HIDE DEF left
  <2>2. QED
    BY <1>2, <2>1 DEF Ctl
<1>4. Once(StartOrder)
  BY StartOrderAssumption DEF Once
<1>5. Once(RunNext(d, open).wait)
  <2> HIDE DEF d
  <2> QED BY <1>3, <1>4, RunNextOnce
<1>6. QED
  BY <1>5 DEF GoOnline

LEMMA EndedWait ==
  ASSUME ctl \in Ctl, NEW t \in Task
  PROVE  Ended(t) \in Ctl /\ Ended(t).wait = ctl.wait
<1>1. Ended(t).wait = ctl.wait
  BY DEF Ctl, Ended, Halt
<1>2. QED
  BY <1>1, EndedType

LEMMA NextOnce ==
  ASSUME ~NodeResets, TypeOK, Once(ctl.wait), [Next]_vars
  PROVE  Once(ctl'.wait)
<1>0. ctl \in Ctl
  BY DEF TypeOK
<1>n. Once(<<>>)
  BY DEF Once
<1>1. ASSUME CriticalStop PROVE Once(ctl'.wait)
  <2>1. BreakAll(ctl) \in Ctl /\ BreakAll(ctl).wait = <<>>
    BY <1>0, BreakAllWait
  <2>2. ctl'.wait = <<>>
    BY <1>1, <2>1, StartProcessWait DEF CriticalStop
  <2>3. QED
    BY <1>n, <2>2
<1>2. CASE Boot
  <2>1. StartProcess(ctl, Hold) \in Ctl /\ StartProcess(ctl, Hold).wait = ctl.wait
    BY <1>0, <1>2, StartProcessType, StartProcessWait DEF Boot, HasTask
  <2>2. \/ ctl' = StartProcess(ctl, Hold)
        \/ \E open \in BOOLEAN : ctl' = GoOnline(StartProcess(ctl, Hold), open)
    BY <1>2 DEF Boot, Online, CriticalBreak
  <2>3. QED
    BY <2>1, <2>2, GoOnlineOnce
<1>3. CASE OnlineCommand
  BY <1>0, <1>3, GoOnlineOnce DEF OnlineCommand, Online
<1>4. CASE OfflineCommand
  <2>1. ctl'.wait = <<>>
    BY <1>0, <1>4, BreakAllWait, StartProcessWait DEF OfflineCommand
  <2>2. QED
    BY <1>n, <2>1
<1>5. CASE IgnoreCriticalCommand
  BY <1>1, <1>5 DEF IgnoreCriticalCommand
<1>6. CASE CriticalChange
  BY <1>0, <1>1, <1>6, RunNextOnce DEF CriticalChange
<1>7. ASSUME NEW p \in Process, StartCommand(p) PROVE Once(ctl'.wait)
  BY <1>0, <1>7, AddWaitOnce DEF StartCommand
<1>8. ASSUME NEW p \in Process, TimerFires(p) PROVE Once(ctl'.wait)
  <2> DEFINE d == [ctl EXCEPT !.timer[p] = "none"]
  <2>1. d \in Ctl /\ d.wait = ctl.wait
    BY <1>0 DEF Ctl
  <2>2. ctl' = AddWait(d, p, Open)
    BY <1>8 DEF TimerFires
  <2> HIDE DEF d
  <2>3. QED
    BY <2>1, <2>2, AddWaitOnce
<1>9. ASSUME NEW p \in Process, BreakCommand(p)
      PROVE  Once(ctl'.wait)
  <2> DEFINE c == [ctl EXCEPT !.wait = RemoveFirst(@, p)]
  <2>1. c \in Ctl /\ c.wait = RemoveFirst(ctl.wait, p)
    <3>1. RemoveFirst(ctl.wait, p) \in Seq(AnyProcess)
      BY <1>0, RemoveFirstType DEF Ctl
    <3>2. QED
      BY <1>0, <3>1, WaitType DEF Ctl
  <2>2. Once(RemoveFirst(ctl.wait, p))
    BY <1>0, RemoveFirstOnce DEF Ctl
  <2>3. ctl' = c \/ ctl' = Cancel(c)
    BY <1>9 DEF BreakCommand
  <2> HIDE DEF c
  <2>4. QED
    BY <2>1, <2>2, <2>3, CancelWait
<1>10. ASSUME NEW p \in Process, UserNext(p) \/ IntervalChanged(p)
       PROVE  Once(ctl'.wait)
  BY <1>0, <1>10 DEF UserNext, IntervalChanged, Ctl
<1>11. CASE StopSignalChanged \/ PollRetry
  BY <1>0, <1>11, RunNextOnce DEF StopSignalChanged, PollRetry
<1>12. ASSUME NEW t \in Task, AwaitUser(t) PROVE Once(ctl'.wait)
  BY <1>0, <1>12 DEF AwaitUser, Ctl
<1>13. ASSUME NEW t \in Task, ProcessDone(t)
       PROVE  Once(ctl'.wait)
  <2>1. Ended(t) \in Ctl /\ Ended(t).wait = ctl.wait
    BY <1>0, EndedWait
  <2>2. CASE RunFails(t)
    <3>1. ctl' = StartProcess(Ended(t), Hold) \/ ctl' = Ended(t)
      BY <2>2 DEF RunFails
    <3>2. QED
      BY <2>1, <3>1, StartProcessWait
  <2>3. ASSUME NEW inRange \in BOOLEAN, RunSucceeds(t, inRange)
        PROVE  Once(ctl'.wait)
    <3> DEFINE q == ctl.run[t]
               other == IF q = Range1 THEN Range2 ELSE Range1
    <3>1. CASE ctl' = RunNext(Ended(t), Open)
      BY <2>1, <3>1, RunNextOnce
    <3>2. CASE /\ RangeSwitching /\ q \in {Range1, Range2}
               /\ ctl' = StartProcess(LeaveRange(Ended(t), q), other)
      <4>1. q \in Process
        BY <3>2, ProcessAssumption
      <4>2. LeaveRange(Ended(t), q) \in Ctl /\ Once(LeaveRange(Ended(t), q).wait)
        BY <2>1, <4>1, LeaveRangeType, LeaveRangeOnce
      <4>3. QED
        BY <3>2, <4>2, StartProcessWait
    <3>3. QED
      BY <2>3, <3>1, <3>2 DEF RunSucceeds
  <2>4. QED
    BY <1>13, <2>2, <2>3 DEF ProcessDone
<1>14. CASE MaintenanceOn \/ StopSignalReadFails \/ UNCHANGED vars
  BY <1>14 DEF MaintenanceOn, StopSignalReadFails, vars
<1>15. ~NodeReset
  BY DEF NodeReset
<1>16. QED
  BY <1>2, <1>3, <1>4, <1>5, <1>6, <1>7, <1>8, <1>9, <1>10, <1>11, <1>12,
     <1>13, <1>14, <1>15, Zenon DEF Next

\* A remove command that finds its process at work leaves nothing live.
LEMMA BreakCommandStops ==
  ASSUME IInv, NEW p \in Process, BreakCommand(p), ctl.runned = p
  PROVE  \A t \in Task : ~Live(ctl', t)
<1> DEFINE c == [ctl EXCEPT !.wait = RemoveFirst(@, p)]
<1>1. ctl \in Ctl /\ Controlled(ctl)
  BY DEF IInv, TypeOK, Safe
<1>2. /\ c \in Ctl /\ c.runned = ctl.runned /\ c.run = ctl.run
      /\ c.cancelled = ctl.cancelled /\ c.cancellable = ctl.cancellable
  <2>1. RemoveFirst(ctl.wait, p) \in Seq(AnyProcess)
    BY <1>1, RemoveFirstType DEF Ctl
  <2>2. QED
    BY <1>1, <2>1, WaitType DEF Ctl
<1>3. ctl' = IF c.runned = p THEN Cancel(c) ELSE c
  BY DEF BreakCommand
<1> HIDE DEF c
<1>4. Controlled(c)
  BY <1>1, <1>2 DEF Controlled, Live, Pending
<1>5. ctl' = Cancel(c)
  BY <1>2, <1>3
<1>6. QED
  BY <1>2, <1>4, <1>5, CancelSafe

\* Whoever else is waiting or running, and with node resets too: when the process at
\* work is removed, no run is left that anything could still wait for.
THEOREM RemovedStopsWorking ==
  Spec => [][\A p \in Process : BreakCommand(p) /\ ctl.runned = p =>
               \A t \in Task : ~Live(ctl', t)]_vars
<1>1. IInv /\ [Next]_vars =>
        [\A p \in Process : BreakCommand(p) /\ ctl.runned = p =>
           \A t \in Task : ~Live(ctl', t)]_vars
  BY BreakCommandStops
<1>2. QED
  BY <1>1, Invariance, PTL DEF Spec

\* As long as no node is reset, no process is in the wait list twice, and a removed
\* one is not waiting any more and does not work.
THEOREM RemovedProcessIsGone ==
  ASSUME ~NodeResets PROVE Spec => RemovedIsGone
<1>1. Init => Once(ctl.wait)
  BY DEF Init, Once
<1>2. TypeOK /\ Once(ctl.wait) /\ [Next]_vars => Once(ctl.wait)'
  BY NextOnce
<1>3. IInv => TypeOK
  BY DEF IInv
<1>4. IInv /\ Once(ctl.wait) /\ [Next]_vars =>
        [\A p \in Process : BreakCommand(p) =>
           /\ ~Contains(ctl'.wait, p)
           /\ ctl.runned = p => \A t \in Task : ~Live(ctl', t)]_vars
  <2> SUFFICES ASSUME IInv, Once(ctl.wait), NEW p \in Process, BreakCommand(p)
               PROVE  /\ ~Contains(ctl'.wait, p)
                      /\ ctl.runned = p => \A t \in Task : ~Live(ctl', t)
    OBVIOUS
  <2> DEFINE c == [ctl EXCEPT !.wait = RemoveFirst(@, p)]
  <2>1. ctl \in Ctl
    BY DEF IInv, TypeOK
  <2>2. c \in Ctl /\ c.wait = RemoveFirst(ctl.wait, p)
    <3>1. RemoveFirst(ctl.wait, p) \in Seq(AnyProcess)
      BY <2>1, RemoveFirstType DEF Ctl
    <3>2. QED
      BY <2>1, <3>1, WaitType DEF Ctl
  <2>3. ~Contains(RemoveFirst(ctl.wait, p), p)
    BY <2>1, RemoveFirstOnce DEF Ctl
  <2>4. ctl' = c \/ ctl' = Cancel(c)
    BY DEF BreakCommand
  <2> HIDE DEF c
  <2>5. QED
    BY <2>2, <2>3, <2>4, CancelWait, BreakCommandStops
<1>5. QED
  BY <1>1, <1>2, <1>3, <1>4, Invariance, PTL DEF Spec, RemovedIsGone

-----------------------------------------------------------------------------
(* Nobody overtakes                                                        *)

\* Who stands behind another in a list is not its head, and stays behind when the
\* head is taken off.
LEMMA TailOrder ==
  ASSUME NEW S, NEW s \in Seq(S), Once(s), NEW p, NEW q, Before(s, p, q)
  PROVE  /\ s # <<>> /\ Head(s) # q
         /\ Contains(Tail(s), p) => Before(Tail(s), p, q)
<1>1. PICK i, j \in 1..Len(s) : i < j /\ s[i] = p /\ s[j] = q
  BY DEF Before
<1>2. s # <<>> /\ Len(s) \in Nat
  BY <1>1
<1>3. /\ Len(Tail(s)) = Len(s) - 1 /\ Head(s) = s[1]
      /\ \A k \in 1..Len(s) - 1 : Tail(s)[k] = s[k + 1]
  BY <1>2, HeadTailProperties
<1>4. Head(s) # q
  BY <1>1, <1>2, <1>3 DEF Once
<1>5. ASSUME Contains(Tail(s), p) PROVE Before(Tail(s), p, q)
  <2>1. i > 1
    BY <1>1, <1>2, <1>3, <1>5 DEF Once, Contains
  <2>2. /\ i - 1 \in 1..Len(Tail(s)) /\ j - 1 \in 1..Len(Tail(s)) /\ i - 1 < j - 1
        /\ Tail(s)[i - 1] = p /\ Tail(s)[j - 1] = q
    BY <1>1, <1>2, <1>3, <2>1
  <2>3. QED
    BY <2>2 DEF Before
<1>6. QED
  BY <1>2, <1>4, <1>5

LEMMA AppendOrder ==
  ASSUME NEW S, NEW s \in Seq(S), NEW e \in S, NEW p, NEW q, Before(s, p, q)
  PROVE  Before(Append(s, e), p, q)
<1>1. /\ Len(Append(s, e)) = Len(s) + 1 /\ Len(s) \in Nat
      /\ \A i \in 1..Len(s) : Append(s, e)[i] = s[i]
  BY AppendProperties
<1>2. QED
  BY <1>1 DEF Before

\* ... and when any other process is taken out.
LEMMA RemoveFirstOrder ==
  ASSUME NEW S, NEW s \in Seq(S), NEW e, NEW p, NEW q, Before(s, p, q),
         p # e, q # e
  PROVE  Before(RemoveFirst(s, e), p, q)
<1> DEFINE r == RemoveFirst(s, e)
<1>1. CASE ~Contains(s, e)
  BY <1>1 DEF RemoveFirst, Contains
<1>2. CASE Contains(s, e)
  <2>1. PICK k \in 1..Len(s) :
          /\ s[k] = e
          /\ Len(r) = Len(s) - 1 /\ Len(s) \in Nat
          /\ \A i \in 1..Len(s) - 1 : r[i] = IF i < k THEN s[i] ELSE s[i + 1]
    BY <1>2, RemoveFirstShape
  <2>2. PICK i, j \in 1..Len(s) : i < j /\ s[i] = p /\ s[j] = q
    BY DEF Before
  <2>4. i # k /\ j # k
    BY <2>1, <2>2
  <2> DEFINE new(n) == IF n < k THEN n ELSE n - 1
  <2> HIDE DEF r
  <2>5. /\ new(i) \in 1..Len(r) /\ new(j) \in 1..Len(r) /\ new(i) < new(j)
        /\ r[new(i)] = p /\ r[new(j)] = q
    BY <2>1, <2>2, <2>4
  <2> HIDE DEF new
  <2>6. QED
    BY <2>5 DEF Before, r
<1>3. QED
  BY <1>1, <1>2

\* What a handler that turns c into d does to the turn of q behind p.
InTurn(c, d, p, q) ==
  Contains(d.wait, p) =>
    /\ d.runned = q => c.runned = q
    /\ Contains(d.wait, q) => Before(d.wait, p, q)

LEMMA RunNextInTurn ==
  ASSUME NEW c \in Ctl, FreeTask(c) # {}, NEW open, Once(c.wait),
         NEW p, NEW q, Before(c.wait, p, q)
  PROVE  InTurn(c, RunNext(c, open), p, q)
<1> DEFINE d == [c EXCEPT !.wait = Tail(@)]
<1>1. CASE RunNext(c, open) = c
  BY <1>1 DEF InTurn
<1>2. CASE RunNext(c, open) # c
  <2>1. c.wait \in Seq(AnyProcess) /\ c.wait # <<>>
    BY <1>2 DEF Ctl, RunNext
  <2>2. /\ Head(c.wait) # q
        /\ Contains(Tail(c.wait), p) => Before(Tail(c.wait), p, q)
        /\ Tail(c.wait) \in Seq(AnyProcess) /\ Head(c.wait) \in AnyProcess
    BY <2>1, TailOrder, HeadTailProperties
  <2>3. d \in Ctl /\ d.wait = Tail(c.wait) /\ FreeTask(d) # {}
    BY <2>2, WaitType DEF Ctl
  <2>4. RunNext(c, open) = StartProcess(d, Head(c.wait))
    BY <1>2 DEF RunNext
  <2> HIDE DEF d
  <2>5. /\ StartProcess(d, Head(c.wait)).wait = Tail(c.wait)
        /\ StartProcess(d, Head(c.wait)).runned = Head(c.wait)
    BY <2>2, <2>3, StartProcessWait, StartProcessRunned
  <2>6. QED
    BY <2>2, <2>4, <2>5 DEF InTurn
<1>3. QED
  BY <1>1, <1>2

LEMMA AddWaitInTurn ==
  ASSUME NEW c \in Ctl, FreeTask(c) # {}, NEW e \in Process, NEW open, Once(c.wait),
         NEW p, NEW q, Before(c.wait, p, q)
  PROVE  InTurn(c, AddWait(c, e, open), p, q)
<1> DEFINE d == [c EXCEPT !.wait = Append(@, e)]
<1>1. CASE Contains(c.wait, e)
  BY <1>1 DEF AddWait, InTurn
<1>2. CASE ~Contains(c.wait, e)
  <2>1. c.wait \in Seq(AnyProcess) /\ e \in AnyProcess
    BY DEF Ctl
  <2>2. /\ Append(c.wait, e) \in Seq(AnyProcess) /\ Once(Append(c.wait, e))
        /\ Before(Append(c.wait, e), p, q)
    BY <1>2, <2>1, AppendProperties, AppendOnce, AppendOrder
  <2>3. d \in Ctl /\ d.wait = Append(c.wait, e) /\ FreeTask(d) # {}
        /\ d.runned = c.runned
    BY <2>2, WaitType DEF Ctl
  <2> HIDE DEF d
  <2>4. InTurn(d, RunNext(d, open), p, q)
    BY <2>2, <2>3, RunNextInTurn
  <2>5. QED
    BY <1>2, <2>3, <2>4 DEF AddWait, InTurn, d
<1>3. QED
  BY <1>1, <1>2

\* HOLD takes nobody's turn.
LEMMA HoldInTurn ==
  ASSUME NEW c \in Ctl, FreeTask(c) # {}, NEW p, NEW q \in Process,
         Before(c.wait, p, q)
  PROVE  InTurn(c, StartProcess(c, Hold), p, q)
<1>1. StartProcess(c, Hold).wait = c.wait /\ StartProcess(c, Hold).runned = Hold
  BY StartProcessWait, StartProcessRunned
<1>2. QED
  BY <1>1, ProcessAssumption DEF InTurn

\* The end of a run hands the analyser to nobody out of turn.
LEMMA DoneInTurn ==
  ASSUME IInv, Once(ctl.wait), NEW t \in Task, ProcessDone(t),
         NEW p \in Process, NEW q \in Process, Before(ctl.wait, p, q)
  PROVE  \/ InTurn(ctl, ctl', p, q)
         \/ RangeSwitching /\ q \in {Range1, Range2} /\ Before(ctl'.wait, p, q)
<1> DEFINE c == Ended(t)
<1>1. ctl \in Ctl /\ Pending(ctl, t)
  BY DEF IInv, TypeOK, ProcessDone
<1>2. /\ c \in Ctl /\ c.wait = ctl.wait /\ c.runned = NoProcess /\ t \in FreeTask(c)
  <2>1. c.runned = NoProcess /\ c.run[t] = NoProcess
    BY <1>1 DEF Ctl, Ended, Halt
  <2>2. QED
    BY <1>1, <2>1, EndedWait DEF FreeTask, Pending
<1>3. \A d : InTurn(c, d, p, q) => InTurn(ctl, d, p, q)
  BY <1>2, ProcessAssumption DEF InTurn
<1>4. CASE RunFails(t)
  <2>1. ctl' = StartProcess(c, Hold) \/ ctl' = c
    BY <1>4 DEF RunFails
  <2> HIDE DEF c
  <2>2. InTurn(c, StartProcess(c, Hold), p, q) /\ InTurn(c, c, p, q)
    BY <1>2, HoldInTurn DEF InTurn
  <2>3. QED
    BY <1>3, <2>1, <2>2
<1>5. ASSUME NEW inRange \in BOOLEAN, RunSucceeds(t, inRange)
      PROVE  \/ InTurn(ctl, ctl', p, q)
             \/ RangeSwitching /\ q \in {Range1, Range2} /\ Before(ctl'.wait, p, q)
  <2> DEFINE r == ctl.run[t]
             other == IF r = Range1 THEN Range2 ELSE Range1
             l == LeaveRange(c, r)
  <2>1. CASE ctl' = RunNext(c, Open)
    <3> HIDE DEF c
    <3>1. InTurn(c, RunNext(c, Open), p, q)
      BY <1>2, RunNextInTurn
    <3>2. QED
      BY <1>3, <2>1, <3>1
  <2>2. CASE RangeSwitching /\ r \in {Range1, Range2} /\ ctl' = StartProcess(l, other)
    <3>1. r \in Process /\ other \in {Range1, Range2} /\ other \in AnyProcess
      BY <2>2, ProcessAssumption
    <3> HIDE DEF c, r, other
    <3>2. l \in Ctl /\ FreeTask(l) # {} /\ l.wait = RemoveFirst(c.wait, r)
      BY <1>2, <3>1, LeaveRangeType, LeaveRangeWait
    <3> HIDE DEF l
    <3>3. ctl'.wait = RemoveFirst(ctl.wait, r) /\ ctl'.runned = other
      BY <1>2, <2>2, <3>1, <3>2, StartProcessWait, StartProcessRunned
    <3>4. /\ Contains(ctl'.wait, p) => p # r
          /\ Contains(ctl'.wait, q) => q # r
      BY <1>1, <3>3, RemoveFirstOnce DEF Ctl
    <3>5. p # r /\ q # r => Before(ctl'.wait, p, q)
      BY <1>1, <3>3, RemoveFirstOrder DEF Ctl
    <3>6. q = other => q # r
      BY <2>2, <3>1, ProcessAssumption DEF other
    <3>7. QED
      BY <2>2, <3>1, <3>3, <3>4, <3>5, <3>6 DEF InTurn
  <2>3. QED
    BY <1>5, <2>1, <2>2 DEF RunSucceeds
<1>6. QED
  BY <1>4, <1>5 DEF ProcessDone

\* As long as no node is reset, nobody overtakes in the wait list: the analyser goes
\* to the process that has waited longest, whichever handler hands it over.
THEOREM NobodyEverOvertakes ==
  ASSUME ~NodeResets PROVE Spec => NobodyOvertakes
<1>1. Init => Once(ctl.wait)
  BY DEF Init, Once
<1>2. TypeOK /\ Once(ctl.wait) /\ [Next]_vars => Once(ctl.wait)'
  BY NextOnce
<1>3. IInv => TypeOK
  BY DEF IInv
<1>4. IInv /\ Once(ctl.wait) /\ [Next]_vars =>
        [\A p, q \in Process :
           /\ Before(ctl.wait, p, q) /\ Contains(ctl'.wait, p)
           /\ ~OnlineCommand /\ ~Boot
           => /\ ctl'.runned = q /\ ctl.runned # q =>
                   RangeSwitching /\ q \in {Range1, Range2} /\ Contains(ctl'.wait, q)
              /\ Contains(ctl'.wait, q) => Before(ctl'.wait, p, q)]_vars
  <2> SUFFICES ASSUME IInv, Once(ctl.wait), Next, NEW p \in Process, NEW q \in Process,
                      Before(ctl.wait, p, q), Contains(ctl'.wait, p),
                      ~OnlineCommand, ~Boot
               PROVE  \/ InTurn(ctl, ctl', p, q)
                      \/ RangeSwitching /\ q \in {Range1, Range2} /\ Before(ctl'.wait, p, q)
    BY DEF InTurn, Before, Contains
  <2>0. ctl \in Ctl
    BY DEF IInv, TypeOK
  <2>1. ASSUME CriticalStop PROVE FALSE
    <3>1. BreakAll(ctl) \in Ctl /\ BreakAll(ctl).wait = <<>>
      BY <2>0, BreakAllWait
    <3>2. ctl'.wait = <<>>
      BY <2>1, <3>1, StartProcessWait DEF CriticalStop
    <3>3. QED
      BY <3>2 DEF Contains
  <2>2. ~OfflineCommand
    <3>1. SUFFICES ASSUME OfflineCommand PROVE FALSE
      OBVIOUS
    <3>2. ctl'.wait = <<>>
      BY <2>0, <3>1, BreakAllWait, StartProcessWait DEF OfflineCommand
    <3>3. QED
      BY <3>2 DEF Contains
  <2>3. CASE IgnoreCriticalCommand
    <3>1. ctl' = ctl
      BY <2>1, <2>3 DEF IgnoreCriticalCommand
    <3>2. QED
      BY <3>1 DEF InTurn
  <2>4. CASE CriticalChange
    BY <2>0, <2>1, <2>4, RunNextInTurn DEF CriticalChange, HasTask
  <2>5. ASSUME NEW e \in Process, StartCommand(e) PROVE InTurn(ctl, ctl', p, q)
    BY <2>0, <2>5, AddWaitInTurn DEF StartCommand, HasTask
  <2>6. ASSUME NEW e \in Process, TimerFires(e) PROVE InTurn(ctl, ctl', p, q)
    <3> DEFINE d == [ctl EXCEPT !.timer[e] = "none"]
    <3>1. /\ d \in Ctl /\ d.wait = ctl.wait /\ d.runned = ctl.runned
          /\ d.run = ctl.run
      BY <2>0 DEF Ctl
    <3>2. ctl' = AddWait(d, e, Open) /\ FreeTask(d) # {}
      BY <2>6, <3>1 DEF TimerFires, HasTask, FreeTask, Pending
    <3> HIDE DEF d
    <3>3. InTurn(d, ctl', p, q)
      BY <3>1, <3>2, AddWaitInTurn
    <3>4. QED
      BY <3>1, <3>3 DEF InTurn
  <2>7. ASSUME NEW e \in Process, BreakCommand(e) PROVE InTurn(ctl, ctl', p, q)
    <3> DEFINE c == [ctl EXCEPT !.wait = RemoveFirst(@, e)]
    <3>1. RemoveFirst(ctl.wait, e) \in Seq(AnyProcess)
      BY <2>0, RemoveFirstType DEF Ctl
    <3>2. c \in Ctl /\ c.wait = RemoveFirst(ctl.wait, e) /\ c.runned = ctl.runned
      BY <2>0, <3>1, WaitType DEF Ctl
    <3>3. ctl' = c \/ ctl' = Cancel(c)
      BY <2>7 DEF BreakCommand
    <3> HIDE DEF c
    <3>4. Cancel(c).wait = c.wait /\ Cancel(c).runned = c.runned
      BY <3>2 DEF Cancel, CancelRun, Ctl
    <3>5. /\ Contains(ctl'.wait, p) => p # e
          /\ Contains(ctl'.wait, q) => q # e
      BY <2>0, <3>2, <3>3, <3>4, RemoveFirstOnce DEF Ctl
    <3>6. p # e /\ q # e => Before(ctl'.wait, p, q)
      BY <2>0, <3>2, <3>3, <3>4, RemoveFirstOrder DEF Ctl
    <3>7. QED
      BY <3>2, <3>3, <3>4, <3>5, <3>6 DEF InTurn
  <2>8. ASSUME NEW e \in Process, UserNext(e) \/ IntervalChanged(e)
        PROVE  InTurn(ctl, ctl', p, q)
    BY <2>0, <2>8 DEF UserNext, IntervalChanged, InTurn, Ctl
  <2>9. CASE StopSignalChanged \/ PollRetry
    BY <2>0, <2>9, RunNextInTurn DEF StopSignalChanged, PollRetry, HasTask
  <2>10. ASSUME NEW t \in Task, AwaitUser(t) PROVE InTurn(ctl, ctl', p, q)
    BY <2>0, <2>10 DEF AwaitUser, InTurn, Ctl
  <2>11. CASE MaintenanceOn \/ StopSignalReadFails
    BY <2>11 DEF MaintenanceOn, StopSignalReadFails, InTurn
  <2>12. ~NodeReset
    BY DEF NodeReset
  <2>13. QED
    BY <2>2, <2>3, <2>4, <2>5, <2>6, <2>7, <2>8, <2>9, <2>10, <2>11, <2>12,
       DoneInTurn, Zenon DEF Next
<1>5. QED
  BY <1>1, <1>2, <1>3, <1>4, Invariance, PTL DEF Spec, NobodyOvertakes

=============================================================================
