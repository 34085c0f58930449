SPECIFICATION Spec
CONSTANTS
  None = None
  x = x
  y = y
  Name = {x, y}
  Practice = {}
  Syntax <- MCSyntax
  MaxArgs = 1
SYMMETRY Symmetry
INVARIANTS
  PathsAgree
  VariablesInPlace
  CapturedClosed
PROPERTY
  TargetsKept
