CONSTANTS
  o1 = o1
  o2 = o2
  o3 = o3
  o4 = o4
  OrderIds = {o1, o2, o3, o4}
  Prices = {1, 2}
  MaxQty = 2
  Commands <- MCCommands
  Capacity = 3
  U64Max = 3
SPECIFICATION Spec
SYMMETRY IdSymmetry
INVARIANTS
  NotCrossed
  PoolConsistent
  ReportsAddUp
PROPERTIES
  PriceTimePriority
  FillOrKill
