SPECIFICATION Spec
CONSTANTS
  a = a
  b = b
  c = c
  e = e
  page = page
  d = d
  None = None
  Urls <- MCUrls
  Controllers <- MCControllers
  Views <- Chain
  Names = {n1}
  Values = {v1}
  Cookies = {None}
  MaxCalls = 2
INVARIANT AttributesReachTheView
