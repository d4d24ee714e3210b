\* One CPU driven through every lifecycle order the generic layer allows,
\* with both event sets and counters that wrap twice between samples.
CONSTANTS
  c1 = c1
  c2 = c2
  t1 = t1
  s1 = s1
  NoCpu = NoCpu
  CPUs <- MC_OneCpu
  Tiles = {t1}
  Sockets = {s1}
  TileOf <- MC_TileOf
  SocketOf <- MC_SocketOf
  FixedIdx <- MC_FixedIdx
  PmcIdx <- MC_PmcIdx
  Groups <- MC_Groups
  W = 1
  MaxTicks = 3
SPECIFICATION Spec
INVARIANT TypeOK
INVARIANT CountsOnlyWhileArmed
 
