CONSTANTS
  o1 = o1
  o2 = o2
  o3 = o3
  file = file
  Objects = {o1, o2, o3}
  Slots = {file}
  Capacity = 2
  PoolAddress = 1040
  Models <- TwoModels
  Moves <- TwoMoves
SPECIFICATION Spec
INVARIANTS JTypeOK EveryContextHasOneOwner
PROPERTIES ImplementsCpuObjects
