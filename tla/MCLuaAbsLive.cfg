\* Two starts, no Ctrl-C: the launcher against AbstractProgram with its fairness.
CONSTANTS
  MaxStarts = 2
  MaxSigint = 0
  MaxLineLen = 1
SPECIFICATION Spec
PROPERTY AbsLive
CHECK_DEADLOCK FALSE
