\* timer_sleep below one second, calibrated or not, interrupted or not.
CONSTANTS
  U = 30
  Clocks = {2}
  Baselines = {3}
  SleepBases = {55}
  Usecs <- MC_Usecs
  TscStart = 5
  MaxTsc = 9
SPECIFICATION Spec
INVARIANT SleepContract
