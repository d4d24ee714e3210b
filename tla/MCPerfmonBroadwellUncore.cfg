\* Two CPUs of one socket racing for ownership and driving the lifecycle
\* in every interleaving, with one-bit counters that wrap.
CONSTANTS
  c1 = c1
  c2 = c2
  NoCpu = NoCpu
  CPUs <- MC_CPUs
  EvSet <- MC_EvSet
  Kind <- MC_Kind
  BoxOf <- MC_BoxOf
  GlobalOfs <- MC_GlobalOfs
  LocalOfs <- MC_LocalOfs
  Events <- MC_Events
  W = 1
  MaxTicks = 3
SPECIFICATION Spec
INVARIANT TypeOK
PROPERTY OwnerMeasurementUndisturbed
INVARIANT UncoreCountsOnlyWhileOwnerArmed
INVARIANT PowerAccountingSound
