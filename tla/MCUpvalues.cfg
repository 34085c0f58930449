CONSTANTS
  Closure = {c1, c2}
  Upvalue = {u1, u2, u3}
  Value = {Null, v}
  Null = Null
  NULL = NULL
  MaxSlots = 4
  CapturedTailCalls = FALSE
SPECIFICATION Spec
SYMMETRY ObjectSymmetry
INVARIANTS
  UpvalueInv
  OpenAreLocals
PROPERTIES
  Implements
CHECK_DEADLOCK FALSE
