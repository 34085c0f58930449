CONSTANTS
  Fiber = {f1, f2, f3, f4}
  NULL = NULL
  MaxLoops = 3
  YieldUnderPcall = TRUE
SPECIFICATION Spec
SYMMETRY FiberSymmetry
INVARIANTS
  LoopsSound
  SwitchBackSafe
PROPERTIES
  FrozenBelow
  Implements
CHECK_DEADLOCK FALSE
