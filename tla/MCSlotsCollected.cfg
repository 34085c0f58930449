CONSTANTS
  Object = {o1, o2}
  Null = Null
  Junk = Junk
  Freed = Freed
  Bottom = {0, 1}
  MaxArgs = 1
  InitialSize = 2
  Extra = 1
  StackLimit = 5
  MaxSlots = 3
  MaxHandles = 1
  MaxElements = 1
SPECIFICATION Spec
SYMMETRY Symmetry_
INVARIANTS
  ValuesKept
