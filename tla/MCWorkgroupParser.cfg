\* Every combination of the workgroup and stream inputs, for one and two
\* streams and both data types.  A parse ends when bstr_to_workgroup
\* returns, so a final state is no deadlock.
CONSTANTS
  Inputs <- MC_Inputs
  TopoThreads = 2
SPECIFICATION Spec
INVARIANT TypeOK
INVARIANT StrToIntMatchesDecimal
INVARIANT SizeMatchesReference
CHECK_DEADLOCK FALSE
