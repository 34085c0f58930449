CONSTANTS
  a = a
  b = b
  p = p
  x = x
  y = y
  back = back
  e = e
  File = {a, b}
  Volatile = {b}
  Name = {x, y, back}
  Relative = {back}
  Directory = {d, e}
  Plain = {e}
  Listing <- MCListing
  SearchPath = {p}
  Root = Root
  Where <- MCWhere
  Missing = Missing
  Chunk = Chunk
  None = None
  MaxLoads = 2
  CacheLimit = 2
  InitialFrames = 4
SPECIFICATION Spec
INVARIANTS
  BodyOnce
  CyclesEnd
  ReadyToUse
  
PROPERTIES
  ImportsAgree
CHECK_DEADLOCK FALSE
