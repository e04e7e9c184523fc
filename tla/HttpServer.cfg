SPECIFICATION AgedSpec
CONSTANTS
  Conns = {c1}
  NoConn = NoConn
  States <- HttpStateNames
  Quit = "quit"
  Connected = "accepted"
  Infinite = 6
  MaxInbox = 2
  Effects <- HttpEffects
  ReceiveTimer = 3
  RespondTimer = 4
  MaxBackoff = 2
  Cap = 2
  Interval = 3
  Delay = 2
  Faults = FALSE
PROPERTY EveryStateEnds
INVARIANTS
  NeverStuck
  TimersAreKept
