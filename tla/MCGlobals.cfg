CONSTANTS
  Module = {main, copy}
  Main = main
  Text = {a, b}
  Address = {1, 2}
  Value = {v1, v2}
  MaxGlobals = 2
  Foreign = FALSE
  None = None
SPECIFICATION Spec
INVARIANT LookupRight
PROPERTY Implements
SYMMETRY Symmetry
