SPECIFICATION FairSpec
CONSTANTS
  a = a
  b = b
  c = c
  e = e
  page = page
  d = d
  None = None
  Urls <- MCUrls
  Controllers <- MCControllers
  Views <- Chain
  Names = {n1, n2}
  Values = {v1, v2}
  Cookies = {None, d}
  MaxCalls = 3
INVARIANTS BlocksAreHeld ControllerRunsFirst NoControllerTwice AttributesAreItsOwn DataIsKept
PROPERTY ConfigureReturns
CHECK_DEADLOCK FALSE
