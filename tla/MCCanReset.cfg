SPECIFICATION Spec
CONSTANTS
  n1 = n1
  n2 = n2
  out = out
  in1 = in1
  in2 = in2
  Node = {n1, n2}
  Entry = {out, in1, in2}
  NodeOf <- MCNodeOf
  Value = {v0, v1}
  Default = v0
  Sensed = {in1, in2}
  LateAnswers = FALSE
  NodeResets = TRUE
  MaxFrames = 2
PROPERTY ReadIsFresh
