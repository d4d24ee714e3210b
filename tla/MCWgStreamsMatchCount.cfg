\* Can bstr_to_workgroup leave a stream array that does not match numberOfStreams?
CONSTANTS
  Inputs <- MC_Inputs
  TopoThreads = 2
SPECIFICATION Spec
INVARIANT StreamsMatchCount
CHECK_DEADLOCK FALSE
