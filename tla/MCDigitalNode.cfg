SPECIFICATION DSpec
CONSTANTS
  digital = digital
  Node = {digital}
  Entry = {out, in}
  Out = out
  In = in
  NodeOf <- MCNodeOf
  Bit = {b1, b2}
  Value <- MCValue
  Default = {}
  Sensed = {in}
  LateAnswers = FALSE
  NodeResets = FALSE
  MaxFrames = 2
INVARIANT CanInv
PROPERTY ReadIsFresh
PROPERTY WriteIsStored
PROPERTY OutputsAreCommanded
