SPECIFICATION Spec
CONSTANTS
  Width = 65536
  Junk = Junk
  None = None
  Byte <- MCByte
  Scripts <- MCScripts
  IndexPage <- MCIndexPage
  Cuts = {1, 5, 12, 20}
  Straddle = FALSE
INVARIANTS
  SplitsAtSize
  SearchesAgree
  UrlIsFound
PROPERTY StreamSpec
CHECK_DEADLOCK FALSE
