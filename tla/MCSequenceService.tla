--------------------------- MODULE MCSequenceService ---------------------------
EXTENDS SequenceService, TLC

\* The runs are alike, and nothing that is checked with this orders them.
Symmetry == Permutations(Run)

===============================================================================
