SPECIFICATION FairSpec
CONSTANTS
  Conns = {c1, c2}
  NoConn = NoConn
  States = {"listen", "work"}
  Quit = "quit"
  Connected = "listen"
  Infinite = 3
  MaxInbox = 1
  Effects <- Handlers
  Cap = 3
  Interval = 1
  Delay = 1
  Faults = FALSE
PROPERTIES PendingLeave InputDelivered CountdownsRun EveryClientLeads PollReturns
INVARIANT NeverStuck
