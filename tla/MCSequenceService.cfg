\* Allhold, injection, rinsing and dilution, two runs at a time.
SPECIFICATION Spec
CONSTANTS
  Run = {r1, r2}
  NoRun = NoRun
  Kind = {"allhold", "injection", "rinsing", "dilution"}
INVARIANTS
  CrossesLifted
  EntersOpenPort
  NothingLeftOn
PROPERTIES
  RunsAreExclusive
  RunsProgress
  AllholdHolds
SYMMETRY Symmetry
