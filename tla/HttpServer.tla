---------------------------- MODULE HttpServer ----------------------------
(***************************************************************************)
(* The server: the loop of scheduler.c serving the HTTP clients of         *)
(* xxxws.c, each abstracted to what its handlers ask of the scheduler.     *)
(* HttpClient shows that the handlers ask nothing else.  A history         *)
(* variable measures how long each client has been in its state.           *)
(***************************************************************************)
EXTENDS Scheduler, HttpStates

VARIABLE age   \* milliseconds since the exec began in which the state was entered

agedVars == <<vars, age>>

AgedInit == Init /\ age = [c \in Conns |-> 0]

MaxAge == Infinite + 2 * Delay   \* bound: beyond every timer

\* ms pass, and a new state begins at 0.
Passes(ms) ==
  age' = [c \in Conns |-> IF task'[c].state # task[c].state \/ ~ Live(c) THEN 0
                          ELSE Lesser(age[c] + ms, MaxAge)]

\* xxxws_poll is called, or an exec has ended.
Clock ==
  /\ ~ stuck /\ current = NoConn
  /\ \E ms \in 0 .. Delay :
       \/ Poll(ms) /\ Passes(ms)
       \/ Calibrate(sleep + ms) /\ Passes(sleep + ms)

\* Only Poll and Calibrate leave these phases.
Rest ==
  /\ Next
  /\ phase \in {"app", "calibrate"} => phase' = phase
  /\ Passes(0)

AgedSpec ==
  /\ AgedInit /\ [][Clock \/ Rest]_agedVars
  /\ WF_vars(Step \/ Handle) /\ SF_vars(ClockMoves)

-----------------------------------------------------------------------------
\* No state of a client lasts for ever: its work is done or its timer runs out,
\* whatever the peer sends, however slowly
\* (the timers armed at lines 101, 169, 367, 527, 642 and 708).
EveryStateEnds ==
  \A c \in Conns, s \in HttpStateNames : task[c].state = s ~> task[c].state # s

\* A timer is kept: a client is cut off no earlier than its timer says, counted from
\* the beginning of the exec that armed it (calibrate takes all of that exec off,
\* scheduler.c:420), and no state outlasts its timer by more than the handlers and
\* the application take once each, since select does not sleep past it (159).
\* (By a clock that does not advance between its two readings in calibrate, 408-413:
\* a millisecond that does pass there delays every timer by as much.)
TimersAreKept ==
  \A c \in Conns : task[c].state \in Timed =>
    /\ current = c /\ event = "TIMER" => age[c] >= TimerOf(task[c].state)
    /\ age[c] <= TimerOf(task[c].state) + 2 * Delay
=============================================================================
