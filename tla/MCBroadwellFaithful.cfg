\* Both halves of the event-set lifecycle on one CPU, which owns the socket.
CONSTANTS
  c1 = c1
  t1 = t1
  s1 = s1
  NoCpu = NoCpu
  CPUs <- MC_CPUs
  Tiles = {t1}
  Sockets = {s1}
  TileOf <- MC_TileOf
  SocketOf <- MC_SocketOf
  FixedIdx <- MC_FixedIdx
  PmcIdx <- MC_PmcIdx
  Groups <- MC_Groups
  EvSet <- MC_EvSet
  Kind <- MC_Kind
  BoxOf <- MC_BoxOf
  GlobalOfs <- MC_GlobalOfs
  LocalOfs <- MC_LocalOfs
  Events <- MC_Events
  W = 1
  MaxTicks = 3
SPECIFICATION Spec
INVARIANT CountersFaithful
