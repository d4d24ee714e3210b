\* One startProgram with every interleaving of the parent installing the
\* handler, the child executing or failing, exits, kills and one Ctrl-C.
\* Deadlock is not checked: once Ctrl-C has ended the parent interpreter
\* and every child, the process tree has nothing left to do.
CONSTANTS
  MaxStarts = 1
  MaxSigint = 1
  MaxLineLen = 3
SPECIFICATION Spec
INVARIANT TypeOK
PROPERTY ExitReportedOrLost
INVARIANT ParseSplitsWords
CHECK_DEADLOCK FALSE
