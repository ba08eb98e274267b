SPECIFICATION LiveSpec
CONSTANTS
  X = X
  Y = Y
  Axis = {Y}
  MaxPos = 2
  SwitchZone = 3
  SensorStep = 1
  MaxRepeat = 1
  FinalRepeats = 1
  StallGuarded = {}
  Program <- MCOneAxis
  Run = {r1, r2}
  NoRun = NoRun
  CallsMayFail = TRUE
  WritesMayBeLost = TRUE
PROPERTY EveryProgramEnds
