SPECIFICATION Spec
CONSTANTS
  first = m1
  second = m2
  Process <- MCProcess
  StartOrder <- MCStartOrder
  Hold = hold
  NoProcess = none
  OnlineProcess = {m1}
  TimedOnly = {}
  Remote = {}
  Calibration = {m2}
  Range1 = m1
  Range2 = m2
  RangeSwitching = FALSE
  Task = {t1, t2}
  NoTask = notask
  MaxWait = 2
  NodeResets = FALSE
  ReadsMayFail = FALSE
INVARIANT WaitedForIsScheduled
