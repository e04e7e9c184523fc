----------------------------- MODULE Scheduler -----------------------------
(***************************************************************************)
(* The loop of scheduler.c: xxxws_schdlr_poll, xxxws_schdlr_exec and       *)
(* xxxws_schdlr_calibrate, one step per iteration of each of its inner     *)
(* loops.  The tasks and their events are those of EventLoop, and the loop *)
(* implements it (LoopSpec).                                               *)
(*                                                                         *)
(* The doubly linked ring is the sequence `tasks'.  A task whose state is  *)
(* Quit stays in it, with its client freed, until the sweep unlinks it.    *)
(* While a handler runs (current # NoConn) the loop waits at `phase', the  *)
(* point it goes on from when throw_event returns.                         *)
(***************************************************************************)
EXTENDS EventLoop

CONSTANTS
  Cap,        \* sizeof(socket_readset)/sizeof(xxxws_socket_t) - 1
  Interval,   \* the interval each xxxws_poll is called with
  Delay,      \* bound: milliseconds the handlers of one exec may take
  Faults      \* whether malloc fails and select and accept misreport

ASSUME CapAssumption == Cap \in Nat \ {0}
ASSUME TimeAssumption ==
  Interval \in Nat \ {0} /\ Delay \in Nat \ {0} /\ Interval + Delay <= Infinite
ASSUME FaultsAssumption == Faults \in BOOLEAN

VARIABLES
  tasks,      \* the ring, first task first
  readset,    \* clients' sockets given to select, in order (the listener's is apart)
  status,     \* what select said of each of them
  listen,     \* what it said of the listening socket
  phase,      \* where the loop is
  cursor,     \* position in `tasks' of the loop's current task
  taskIndex,  \* next entry of readset the read loop looks at
  interval,   \* what is left of the poll's interval
  sleep       \* what select may sleep, then what it slept

execVars == <<tasks, readset, status, listen, phase, cursor, taskIndex, interval, sleep>>
vars == <<loopVars, execVars>>

Phases == {"app", "build", "select", "accept", "read", "sweep", "timer", "next",
           "rotate", "calibrate"}

Init ==
  /\ LoopInit
  /\ tasks = <<>> /\ readset = <<>> /\ status = <<>> /\ listen = FALSE
  /\ phase = "app" /\ cursor = 1 /\ taskIndex = 1 /\ interval = 0 /\ sleep = 0

Lesser(m, n) == IF m < n THEN m ELSE n
AtEnd == cursor > Len(tasks)
Here == tasks[cursor]

-----------------------------------------------------------------------------
(* xxxws_schdlr_poll and xxxws_schdlr_calibrate.                           *)

\* Control reaches the top of poll's while loop with ms left of the interval.
LoopHead(ms) ==
  /\ interval' = ms
  /\ sleep' = ms
  /\ phase' = IF ms = 0 THEN "app" ELSE "build"
  /\ cursor' = 1 /\ taskIndex' = 1
  /\ readset' = <<>> /\ status' = <<>> /\ listen' = FALSE

\* The application calls xxxws_poll, ms after the last call returned.
Poll(ms) ==
  /\ phase = "app"
  /\ Elapse(ms)
  /\ LoopHead(Interval)
  /\ UNCHANGED <<peers, current, event, stuck, tasks>>

\* Bug: the countdowns of closed tasks are left out.
Bug_CalibrateOpen(ms) ==
  /\ phase = "calibrate"
  /\ task' = [c \in Conns |-> IF task[c].passive THEN task[c]
                ELSE [task[c] EXCEPT !.poll = Less(@, ms), !.timer = Less(@, ms)]]
  /\ LoopHead(IF interval >= ms THEN interval - ms ELSE 0)
  /\ UNCHANGED <<peers, current, event, stuck, tasks>>

\* Bug: only the interval is calibrated.
Bug_CalibrateInterval(ms) ==
  /\ phase = "calibrate"
  /\ LoopHead(IF interval >= ms THEN interval - ms ELSE 0)
  /\ UNCHANGED <<peers, task, current, event, stuck, tasks>>

\* Bug: only the countdowns are calibrated.
Bug_CalibrateTasks(ms) ==
  /\ phase = "calibrate"
  /\ Elapse(ms)
  /\ LoopHead(interval)
  /\ UNCHANGED <<peers, current, event, stuck, tasks>>

\* Bug: the time of an exec is taken off twice.
Bug_CalibrateTwice(ms) ==
  /\ phase = "calibrate"
  /\ Elapse(2 * ms)
  /\ LoopHead(IF interval >= ms THEN interval - ms ELSE 0)
  /\ UNCHANGED <<peers, current, event, stuck, tasks>>

\* ms passed in exec, by the clock's reading at scheduler.c:408.  The countdowns of
\* every task lose all of it.  The next exec is counted from a second reading, at
\* line 413, which is taken to give the same: what passes between them is lost.
Calibrate(ms) ==
  /\ phase = "calibrate"
  /\ Elapse(ms)
  /\ LoopHead(IF interval >= ms THEN interval - ms ELSE 0)
  /\ UNCHANGED <<peers, current, event, stuck, tasks>>

-----------------------------------------------------------------------------
(* xxxws_schdlr_exec: the read set, select, accept.                        *)

\* Bug: only the tasks put into the read set shorten the sleep.
Bug_BuildOpen ==
  /\ phase = "build" /\ ~ AtEnd
  /\ sleep' = IF task[Here].passive THEN sleep
                ELSE Lesser(sleep, Lesser(task[Here].poll, task[Here].timer))
  /\ readset' = IF task[Here].passive THEN readset ELSE Append(readset, Here)
  /\ cursor' = cursor + 1
  /\ UNCHANGED <<loopVars, tasks, status, listen, phase, taskIndex, interval>>

\* One task of the first loop.  The assertion bounds the index its socket
\* would take: readset[0] is the listener's.
Build ==
  /\ phase = "build" /\ ~ AtEnd
  /\ IF Len(readset) + 1 < Cap
       THEN /\ sleep' = Lesser(sleep, Lesser(task[Here].poll, task[Here].timer))
            /\ readset' = IF task[Here].passive THEN readset ELSE Append(readset, Here)
            /\ cursor' = cursor + 1
            /\ UNCHANGED stuck
       ELSE stuck' = TRUE /\ UNCHANGED <<sleep, readset, cursor>>
  /\ UNCHANGED <<peers, task, current, event, tasks, status, listen, phase, taskIndex, interval>>

BuildEnd ==
  /\ phase = "build" /\ AtEnd
  /\ phase' = "select"
  /\ UNCHANGED <<loopVars, tasks, readset, status, listen, cursor, taskIndex, interval, sleep>>

\* Bug: the listener's status is not filled in.
Bug_SelectClients ==
  /\ phase = "select"
  /\ status' = [i \in DOMAIN readset |-> Readable(readset[i])]
  /\ listen' = FALSE
  /\ sleep' \in IF \E i \in DOMAIN status' : status'[i] THEN 0 .. sleep ELSE {sleep}
  /\ phase' = "accept"
  /\ UNCHANGED <<loopVars, tasks, readset, cursor, taskIndex, interval>>

\* Bug: the last socket's status is not filled in.
Bug_SelectButLast ==
  /\ phase = "select"
  /\ status' = [i \in DOMAIN readset |-> i < Len(readset) /\ Readable(readset[i])]
  /\ listen' = (backlog # <<>>)
  /\ sleep' \in 0 .. sleep
  /\ phase' = "accept"
  /\ UNCHANGED <<loopVars, tasks, readset, cursor, taskIndex, interval>>

\* select returns at the first ready socket, or after the whole sleep.  Its
\* error comes at any time, is ignored and leaves every status 0; it may also
\* report a socket whose data the kernel drops before it is read.
Select ==
  /\ phase = "select"
  /\ \/ /\ status' = [i \in DOMAIN readset |-> Readable(readset[i])]
        /\ listen' = (backlog # <<>>)
        /\ sleep' \in IF listen' \/ (\E i \in DOMAIN status' : status'[i]) THEN 0 .. sleep ELSE {sleep}
     \/ /\ Faults
        /\ status' \in [DOMAIN readset -> BOOLEAN]
        /\ listen' \in BOOLEAN
        /\ sleep' \in 0 .. sleep
  /\ phase' = "accept"
  /\ UNCHANGED <<loopVars, tasks, readset, cursor, taskIndex, interval>>

ToRead == phase' = "read" /\ cursor' = 1

\* No connection is ready, or accept reports an error.
AcceptNone ==
  /\ phase = "accept"
  /\ ~ listen \/ backlog = <<>> \/ Faults
  /\ ToRead
  /\ UNCHANGED <<loopVars, tasks, readset, status, listen, taskIndex, interval, sleep>>

\* The limit is reached or the task or the client cannot be allocated.
\* available_client_connections counted one task less per task of the ring.
AcceptRefuse ==
  /\ phase = "accept" /\ listen
  /\ Cap = Len(tasks) \/ Faults
  /\ Refuse
  /\ ToRead
  /\ UNCHANGED <<tasks, readset, status, listen, taskIndex, interval, sleep>>

\* Bug: the new task goes first.
Bug_AcceptFirst ==
  /\ phase = "accept" /\ listen
  /\ Cap # Len(tasks)
  /\ Admit
  /\ tasks' = <<Head(backlog)>> \o tasks
  /\ ToRead
  /\ UNCHANGED <<readset, status, listen, taskIndex, interval, sleep>>

\* The new task goes last, not to disturb the order of the read set.
Accept ==
  /\ phase = "accept" /\ listen
  /\ Cap # Len(tasks)
  /\ Admit
  /\ tasks' = Append(tasks, Head(backlog))
  /\ ToRead
  /\ UNCHANGED <<readset, status, listen, taskIndex, interval, sleep>>

-----------------------------------------------------------------------------
(* xxxws_schdlr_exec: the read loop.                                       *)

\* A closed task has no entry in the read set.
ReadSkip ==
  /\ phase = "read" /\ ~ AtEnd
  /\ task[Here].passive
  /\ cursor' = cursor + 1
  /\ UNCHANGED <<loopVars, tasks, readset, status, listen, phase, taskIndex, interval, sleep>>

\* Bug: the loop breaks one entry early.
Bug_ReadEndEarly ==
  /\ phase = "read"
  /\ ~ AtEnd => ~ task[Here].passive /\ taskIndex >= Len(readset)
  /\ phase' = "sweep" /\ cursor' = 1
  /\ UNCHANGED <<loopVars, tasks, readset, status, listen, taskIndex, interval, sleep>>

\* The last task, or the first one accepted after the read set was built.
ReadEnd ==
  /\ phase = "read"
  /\ ~ AtEnd => ~ task[Here].passive /\ taskIndex > Len(readset)
  /\ phase' = "sweep" /\ cursor' = 1
  /\ UNCHANGED <<loopVars, tasks, readset, status, listen, taskIndex, interval, sleep>>

Entry == phase = "read" /\ ~ AtEnd /\ ~ task[Here].passive /\ taskIndex <= Len(readset)

Advance ==
  /\ taskIndex' = taskIndex + 1
  /\ cursor' = cursor + 1
  /\ UNCHANGED <<tasks, readset, status, listen, phase, interval, sleep>>

\* Its status is 0, or it is 1 and the read returns no bytes.
ReadQuiet ==
  /\ Entry
  /\ status[taskIndex] => ~ Readable(Here)
  /\ Advance
  /\ UNCHANGED loopVars

\* There is no memory for the cbuf: while(1){}.
ReadNoCbuf ==
  /\ Entry /\ status[taskIndex] /\ Faults
  /\ stuck' = TRUE
  /\ UNCHANGED <<peers, task, current, event, execVars>>

Read ==
  /\ Entry /\ status[taskIndex]
  /\ ReadEvent(Here) \/ ClosedEvent(Here)
  /\ Advance

-----------------------------------------------------------------------------
(* xxxws_schdlr_exec: the sweep, and the rotation of the ring.             *)

At(next) == phase' = next /\ UNCHANGED <<tasks, readset, status, listen, cursor, taskIndex,
                                          interval, sleep>>

SweepRemove ==
  /\ phase = "sweep" /\ ~ AtEnd /\ ~ Live(Here)
  /\ tasks' = SubSeq(tasks, 1, cursor - 1) \o SubSeq(tasks, cursor + 1, Len(tasks))
  /\ UNCHANGED <<loopVars, readset, status, listen, phase, cursor, taskIndex, interval, sleep>>

SweepPoll ==
  /\ phase = "sweep" /\ ~ AtEnd /\ Live(Here)
  /\ IF task[Here].poll = 0 THEN PollEvent(Here) ELSE UNCHANGED loopVars
  /\ At("timer")

SweepTimer ==
  /\ phase = "timer"
  /\ IF task[Here].timer = 0 THEN TimerEvent(Here) ELSE UNCHANGED loopVars
  /\ At("next")

\* Bug: a task the events destroyed is passed over.
Bug_SweepOn ==
  /\ phase = "next"
  /\ phase' = "sweep"
  /\ cursor' = cursor + 1
  /\ UNCHANGED <<loopVars, tasks, readset, status, listen, taskIndex, interval, sleep>>

\* A task the events destroyed is looked at again, to be removed.
SweepNext ==
  /\ phase = "next"
  /\ phase' = "sweep"
  /\ cursor' = IF Live(Here) THEN cursor + 1 ELSE cursor
  /\ UNCHANGED <<loopVars, tasks, readset, status, listen, taskIndex, interval, sleep>>

\* Bug: the first task is added last without being removed.
Bug_RotateTwice ==
  /\ phase = "sweep" /\ AtEnd
  /\ tasks' = IF Len(tasks) > 1 THEN Append(tasks, Head(tasks)) ELSE tasks
  /\ phase' = "calibrate"
  /\ UNCHANGED <<loopVars, readset, status, listen, cursor, taskIndex, interval, sleep>>

\* Bug: the last task is moved instead of the first, and back to the same place.
Bug_RotateNone ==
  /\ phase = "sweep" /\ AtEnd
  /\ phase' = "calibrate"
  /\ UNCHANGED <<loopVars, tasks, readset, status, listen, cursor, taskIndex, interval, sleep>>

Rotate ==
  /\ phase = "sweep" /\ AtEnd
  /\ tasks' = IF Len(tasks) > 1 THEN Append(Tail(tasks), Head(tasks)) ELSE tasks
  /\ phase' = "calibrate"
  /\ UNCHANGED <<loopVars, readset, status, listen, cursor, taskIndex, interval, sleep>>

-----------------------------------------------------------------------------
Step ==
  /\ ~ stuck /\ current = NoConn
  /\ \/ \E ms \in 0 .. Delay : Poll(ms)
     \/ Build \/ BuildEnd \/ Select
     \/ AcceptNone \/ AcceptRefuse \/ Accept
     \/ ReadSkip \/ ReadEnd \/ ReadQuiet \/ ReadNoCbuf \/ Read
     \/ SweepRemove \/ SweepPoll \/ SweepTimer \/ SweepNext \/ Rotate
     \/ \E ms \in 0 .. Delay : Calibrate(sleep + ms)

Handle == ~ stuck /\ Return /\ UNCHANGED execVars

Environment ==
  \E c \in Conns : PeerStep(c) /\ UNCHANGED <<task, current, event, stuck, execVars>>

Next == Step \/ Handle \/ Environment

Spec == Init /\ [][Next]_vars

\* The clock moves: calibrate keeps its tic until time has passed since it.
ClockMoves ==
  /\ ~ stuck /\ current = NoConn
  /\ \E ms \in 0 .. Delay : sleep + ms > 0 /\ Calibrate(sleep + ms)

FairSpec == Spec /\ WF_vars(Step \/ Handle) /\ SF_vars(ClockMoves)

-----------------------------------------------------------------------------
(* Safety.  DestroyedIsClean is EventLoop's.                               *)

TypeOK ==
  /\ LoopTypeOK
  /\ tasks \in Seq(Conns) /\ readset \in Seq(Conns) /\ status \in Seq(BOOLEAN)
  /\ listen \in BOOLEAN
  /\ phase \in Phases /\ cursor \in Nat \ {0} /\ taskIndex \in Nat \ {0}
  /\ interval \in 0 .. Interval /\ sleep \in 0 .. Interval

\* The ring holds every client the server has, once: no task is lost or linked
\* twice by accept, sweep and rotation, and what it holds besides are tasks
\* whose client is freed and that the sweep of this exec still has to unlink.
RingHoldsTheClients ==
  /\ \A i, j \in DOMAIN tasks : tasks[i] = tasks[j] => i = j
  /\ \A c \in Conns : Live(c) => \E i \in DOMAIN tasks : tasks[i] = c
  /\ phase \notin {"read", "sweep", "timer", "next"} => \A i \in DOMAIN tasks : Live(tasks[i])

\* The loops that look into task->client (lines 141-154 and 247-293) meet no
\* task whose client throw_event has freed, and no handler runs for one.
NoFreedClient ==
  /\ phase = "build" => \A i \in DOMAIN tasks : Live(tasks[i])
  /\ phase = "read" => \A i \in cursor .. Len(tasks) : Live(tasks[i])
  /\ current # NoConn => Live(current)

\* The read loop finds the sockets' statuses by counting the tasks that are not
\* closed.  Handlers close tasks and accept adds one between the loop that
\* filled the read set and this one: the count still leads to the status of
\* the task's own socket.
ReadsItsOwnStatus == Entry => readset[taskIndex] = Here

\* The read loop stops at the first task accepted after select, and by then it
\* has looked at the status of every socket in the read set.
NobodySkipped == phase = "sweep" => taskIndex = Len(readset) + 1

\* select never sleeps past a countdown of a client, closed ones included.
NoOversleep ==
  phase = "select" => \A c \in Conns : sleep <= task[c].poll /\ sleep <= task[c].timer

\* No assertion and no endless loop stops the server: every handler leaves a
\* timer (line 116), the read set has room (line 142), cbufs are there (269).
NeverStuck == ~ stuck

\* What the source says and the loop does not keep, when the server is full and
\* when memory is.  The read set has room for a socket of each of the clients
\* that accept admits: "Limit of %u clients" (line 202), asserted at line 142.
ReadSetHasRoom == phase = "build" /\ ~ AtEnd => Len(readset) + 1 < Cap

-----------------------------------------------------------------------------
(* Liveness, under FairSpec.                                               *)

\* A connection does not wait in the listen queue for ever.
PendingLeave == \A c \in Conns : Waiting(c) ~> ~ Waiting(c)

\* Data, or the end of the stream, reaches the handler of its client.
InputDelivered ==
  \A c \in Conns :
    Live(c) /\ ~ task[c].passive /\ Readable(c)
      ~> ~ Live(c) \/ (current = c /\ event \in {"READ", "CLOSED"})

\* A countdown that was started fires, is started again or ends with its state.
CountdownsRun ==
  \A c \in Conns, d \in 0 .. Infinite - 1 :
    /\ task[c].timer = d ~> task[c].timer # d
    /\ task[c].poll = d ~> task[c].poll # d

\* Round robin: a client that stays comes first in the ring, however many others
\* come and go (comment at lines 375-380).
EveryClientLeads ==
  \A c \in Conns : Live(c) ~> ~ Live(c) \/ (phase = "build" /\ tasks # <<>> /\ tasks[1] = c)

\* xxxws_poll gives control back to the application again and again.
PollReturns == []<>(phase = "app")
=============================================================================
