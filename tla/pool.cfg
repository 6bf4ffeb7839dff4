SPECIFICATION Spec
CONSTANTS
  Nodes = {1, 2}
  Pools <- MCPools
  Allowance = 1
  Transit = 1
  Row = 1
  Hold = 1
  MaxTime = 2
  None = None
INVARIANTS
  BothSaySame
  FreshIsFresh
PROPERTIES
  PassedIsComparable
  InjectionLapses
CHECK_DEADLOCK FALSE
