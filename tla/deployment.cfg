SPECIFICATION Spec
CONSTANTS
  Null = Null
  k1 = k1
  Browser = {b1, b2}
  Fetch = {f1, f2, f3}
  Instance = {i1, i2}
  Key = {k1}
  Environment <- MCEnvironment
  MaxChanges = 1
  MaxClears = 1
  MaxLost = 1
SYMMETRY MCSymmetry
INVARIANTS
  OnlyOwnCases
  CookieOwnsCases
  CasesAreFound
  ErrorsAreConfiguration
PROPERTY
  PromiseWhileLasting
