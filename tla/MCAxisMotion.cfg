SPECIFICATION Spec
CONSTANTS
  X = X
  Y = Y
  Axis = {X, Y}
  MaxPos = 3
  SwitchZone = 3
  SensorStep = 1
  MaxRepeat = 1
  FinalRepeats = 1
  StallGuarded = {X}
  Program <- MCProgram
  Run = {r1, r2}
  NoRun = NoRun
  CallsMayFail = TRUE
  WritesMayBeLost = FALSE
INVARIANT AxesStayPlaced
PROPERTY RunsAreExclusive
PROPERTY ProgramsComeNearer
