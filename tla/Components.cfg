SPECIFICATION SpecComponents
CONSTANTS
  Networks <- Documents  Packets = {1, 2, 3, 4}  MaxCapacity = 2
  o1 = o1  o2 = o2  None = None  Refused = Refused  Corrupt = Corrupt  p = p
INVARIANTS
  PacketsConsumed NoJoinNoDeadlock OnlyPinnedCode VerdictsWhole LastEdgeArrives
  ConvergedIsDesired NothingForgotten ChainSpansProject
PROPERTY EveryRunEnds
CHECK_DEADLOCK FALSE
