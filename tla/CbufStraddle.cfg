SPECIFICATION Spec
CONSTANTS
  Width = 65536
  Junk = Junk
  None = None
  Byte <- MCByte
  Scripts <- MCScripts
  IndexPage <- MCIndexPage
  Cuts = {1, 5, 9}
  Straddle = TRUE
INVARIANT SplitsAtSize
