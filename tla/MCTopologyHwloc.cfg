\* Sixteen machines of one or two sockets, one or two cores per socket and
\* one or two threads per core, in both numberings.  The topology is read
\* once; a state where it has been read is final, so no deadlock check.
CONSTANTS
  Trees <- MC_GoodTrees
SPECIFICATION Spec
INVARIANT TypeOK
INVARIANT ThreadsIdentifyCores
INVARIANT CacheLevelsBottomUp
CHECK_DEADLOCK FALSE
