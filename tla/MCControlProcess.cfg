SPECIFICATION Spec
CONSTANTS
  first = m1
  second = c1
  Process = {m1, c1, c2}
  StartOrder <- MCStartOrder
  Hold = hold
  NoProcess = none
  OnlineProcess = {m1, c1}
  TimedOnly = {c1}
  Remote = {m1}
  Calibration = {c2}
  Range1 = none
  Range2 = none
  RangeSwitching = FALSE
  Task = {t1, t2}
  NoTask = notask
  MaxWait = 2
  NodeResets = TRUE
  ReadsMayFail = TRUE
INVARIANT LiveRunIsControlled
INVARIANT CriticalStopsMeasuring
INVARIANT RunnedCanEnd
INVARIANT RunningIsPublished
INVARIANT OfflineHasNoTimer
PROPERTY HeldBack
PROPERTY RunsAreExclusive
