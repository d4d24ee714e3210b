\* Every order of the Lua bindings with two inits of each library; the
\* configuration, RAPL and perfmon inits may fail, numa_init succeeds.
\* Deadlock is not checked: the script may stop after any binding.
CONSTANTS
  MaxGen = 2
  NumaInitResults = {0}
  ConfigInitResults = {0, 1}
  PowerInitResults = {0, 1}
  PerfmonInitResults = {0, 1}
  StartThreadCounts = {1}
SPECIFICATION Spec
INVARIANT TypeOK
 
CHECK_DEADLOCK FALSE
