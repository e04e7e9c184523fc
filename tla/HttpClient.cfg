SPECIFICATION Spec
CONSTANTS
  Conns = {c1}
  NoConn = NoConn
  States <- HttpStateNames
  Quit = "quit"
  Connected = "accepted"
  Infinite = 4
  MaxInbox = 2
  Effects <- HttpEffects
  ReceiveTimer = 2
  RespondTimer = 3
  MaxBackoff = 2
  MaxHeads = 2
  HeadLen = 1
  HeadBuf = 1
  BodyBuf = 2
  FileSizes = {0, 3}
INVARIANTS
  TypeOK
  NothingLeaks
  CallbackIsCalled
  HandlerAssertions
  BytesAddUp
PROPERTIES
  LoopSpec
  ExchangeSpec
