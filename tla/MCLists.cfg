CONSTANTS
  Element = {x}
  Key = {k1, k2}
  Range_ <- MCRange
  Null = Null
  MinCapacity = 2
  MaxLength = 6
  Longest = 4
  MaxChanges = 2
SPECIFICATION LSpec
INVARIANTS
  BufferFits
  SeenOnce
PROPERTIES
  LoopEnds
