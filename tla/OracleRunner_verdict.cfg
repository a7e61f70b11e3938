\* Two tests of any kind, or steady; exports that may fail.
SPECIFICATION Spec
CONSTANTS
  MaxTests = 2
  Suites <- MCSuites
INVARIANTS VerdictDeserved PassesAreReal ScoreIsFair
CHECK_DEADLOCK FALSE
