CONSTANTS
  s = s
  copy = copy
  Value = {v, w}
  Undef = Undef
  Key <- MCKey
  Equal <- MCEqual
  Hash <- MCHash
  Integer <- MCInteger
  IndexKey <- MCIndexKey
  MinCapacity = 4
  ClearRetain = 4
SPECIFICATION Spec
INVARIANTS
  LoadBounded
  MapInv
PROPERTIES
  Implements
CHECK_DEADLOCK FALSE
