SPECIFICATION Spec
CONSTANTS
  None = None
  Nodes = {n1, n2}
  Names <- MCNames
  Byte <- MCByte
  Clients = {c1, c2}
  Apps = {a1}
  Rom <- MCRom
  Disk <- MCDisk
  Paths <- MCPaths
  Attributes <- MCAttributes
  MaxValue = 2
  BufSize = 9
  Chunk = 8
  Sizes = {1}
  Bytes = {x, y}
  MaxSize = 2
INVARIANT PagesAreCopied
