CONSTANTS
  Object = Object
  B = B
  D = D
  typename = typename
  typename2 = typename2
  intercept = intercept
  name = name
  foo = foo
  bar = bar
  call = call
  get = get
  read = read
  Class = {Object, B, D}
  Instance = {o1, o2}
  Method = {typename, typename2, intercept}
  Builtin = {typename}
  NameOf <- MCNameOf
  Getattribute = getattribute
  Name = {name, foo, bar, getattribute}
  CallSite = {call}
  AttribSite = {get, read}
  SiteName <- MCSiteName
  Plain = Plain
  NULL = NULL
  Unresolved = Unresolved
  InlineCapacity = 1
  MaxEpoch = 2
  Practice = {}
SPECIFICATION Spec
SYMMETRY DispatchSymmetry
INVARIANTS
  CachesExact
  
CHECK_DEADLOCK FALSE
