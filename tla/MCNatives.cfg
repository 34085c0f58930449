CONSTANTS
  N = 20
  Called = {"import", "function", "class", "new", "bind", "split"}
  Object <- MCObject
  Slot = {s1, s2}
  Native <- MCNative
  Argument <- MCArgument
  Hash <- MCHash
  InitialCapacity = 4
  LoadPercent = 75
  MaxCalls = 5
  MaxCollections = 1
  None = None
  Freed = Freed
SPECIFICATION NSpec
INVARIANTS
  Traced
  UsesAllocated
  PoolExact
PROPERTIES
  FreedInOrder
  
CHECK_DEADLOCK FALSE
SYMMETRY Symmetry
