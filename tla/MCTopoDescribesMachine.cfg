\* Every tree of MC_Trees, the unusual machines included: do the tables describe the machine?
CONSTANTS
  Trees <- MC_Trees
SPECIFICATION Spec
INVARIANT TopologyDescribesMachine
CHECK_DEADLOCK FALSE
