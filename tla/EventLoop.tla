----------------------------- MODULE EventLoop -----------------------------
(***************************************************************************)
(* What the scheduler of xxxws promises to the state machines it runs.     *)
(*                                                                         *)
(* Every client of the server is a task: a state (a function pointer in    *)
(* the code), a poll and a timer countdown, and the input buffers read for *)
(* it.  One thread serves all of them, one event at a time; the handler of *)
(* the task's state runs to completion, then the scheduler settles the     *)
(* task: a state change clears both countdowns and enters the new state,   *)
(* and the NULL state destroys the task.  This module says which events    *)
(* may reach a task and when, not in which order the code looks for them:  *)
(* Scheduler.tla is the loop that does, and implements this module.        *)
(***************************************************************************)
EXTENDS Integers, Sequences

CONSTANTS
  Conns,        \* the peers, and the tasks that serve them
  NoConn,       \* xxxws_schdlr_current_task == NULL
  States,       \* the state functions of the tasks
  Quit,         \* the NULL state: the task asks to be destroyed
  Connected,    \* schdlr->client_connected_state
  Infinite,     \* XXXWS_TIME_INFINITE; every finite delta is below it
  MaxInbox,     \* bound: unread segments a peer may have in flight
  Effects(_, _, _, _)  \* what a handler may do, see Effect

ASSUME ConnsAssumption == NoConn \notin Conns
ASSUME StatesAssumption == Quit \notin States /\ Connected \in States
ASSUME BoundsAssumption == Infinite \in Nat \ {0} /\ MaxInbox \in Nat

Delta == 0 .. Infinite
Events == {"ENTRY", "READ", "CLOSED", "POLL", "TIMER"}  \* xxxws_schdlr_ev_t

(***************************************************************************)
(* The result of one call of a handler: the state it asks for, the two     *)
(* countdowns as it leaves them, and whether it took the input buffers     *)
(* with xxxws_schdlr_socket_read.  Effects(s, ev, p, t) is the set of what *)
(* the handler of state s may do on event ev, called with countdowns p, t. *)
(***************************************************************************)
Effect == [next : States \cup {Quit}, poll : Delta, timer : Delta, take : BOOLEAN]

ASSUME EffectsAssumption ==
  \A s \in States, ev \in Events, p, t \in Delta : Effects(s, ev, p, t) \subseteq Effect

\* The states a new connection may be in until its first handlers return: they
\* do not quit.
FreshStates(F) ==
  /\ Connected \in F
  /\ \A s \in F, p, t \in Delta : \A e \in Effects(s, "ENTRY", p, t) : e.next \in F

ASSUME FreshAssumption == \E F \in SUBSET States : FreshStates(F)

VARIABLES
  backlog,   \* connections waiting in the listen queue, oldest first
  inbox,     \* segments of each peer not yet read from its socket
  fin,       \* the peer closed (or reset) its side
  task,      \* the task of each connection; its state is Quit when there is none
  current,   \* the task whose handler runs (xxxws_schdlr_current_task)
  event,     \* the event it was called with, "NONE" when no handler runs
  stuck      \* an XXXWS_ASSERT or a while(1) stopped the server

peers == <<backlog, inbox, fin>>
loopVars == <<backlog, inbox, fin, task, current, event, stuck>>

Task == [state : States \cup {Quit}, poll : Delta, timer : Delta,
         cbufs : 0 .. MaxInbox, passive : BOOLEAN]

NoTask == [state |-> Quit, poll |-> Infinite, timer |-> Infinite,
           cbufs |-> 0, passive |-> FALSE]

NewTask == [NoTask EXCEPT !.state = Connected]

Live(c) == task[c].state # Quit
Readable(c) == inbox[c] > 0 \/ fin[c]
Waiting(c) == \E i \in DOMAIN backlog : backlog[i] = c

LoopInit ==
  /\ backlog = <<>>
  /\ inbox = [c \in Conns |-> 0]
  /\ fin = [c \in Conns |-> FALSE]
  /\ task = [c \in Conns |-> NoTask]
  /\ current = NoConn
  /\ event = "NONE"
  /\ stuck = FALSE

-----------------------------------------------------------------------------
(* The peers and the kernel, whatever the server is doing.                 *)

Connect(c) ==
  /\ ~ Live(c) /\ ~ Waiting(c)
  /\ backlog' = Append(backlog, c)
  /\ UNCHANGED <<inbox, fin>>

Send(c) ==
  /\ Live(c) \/ Waiting(c)
  /\ ~ fin[c]
  /\ inbox[c] + task[c].cbufs < MaxInbox
  /\ inbox' = [inbox EXCEPT ![c] = @ + 1]
  /\ UNCHANGED <<backlog, fin>>

\* An orderly shutdown leaves what was sent to be read; a reset discards it.
Hangup(c, reset) ==
  /\ Live(c) \/ Waiting(c)
  /\ ~ fin[c]
  /\ fin' = [fin EXCEPT ![c] = TRUE]
  /\ inbox' = [inbox EXCEPT ![c] = IF reset THEN 0 ELSE @]
  /\ UNCHANGED backlog

PeerStep(c) == Connect(c) \/ Send(c) \/ \E reset \in BOOLEAN : Hangup(c, reset)

-----------------------------------------------------------------------------
(* Events.  Throw(c, ev, k) starts the handler of c's state; k is the task *)
(* as exec left it just before the call.  An event for a task that already *)
(* asked to quit is dropped.                                               *)

Throw(c, ev, k) ==
  /\ task' = [task EXCEPT ![c] = k]
  /\ IF k.state = Quit
       THEN UNCHANGED <<current, event>>
       ELSE current' = c /\ event' = ev
  /\ UNCHANGED stuck

Close(c) == inbox' = [inbox EXCEPT ![c] = 0] /\ fin' = [fin EXCEPT ![c] = FALSE]

Admit ==
  /\ backlog # <<>>
  /\ backlog' = Tail(backlog)
  /\ Throw(Head(backlog), "ENTRY", NewTask)
  /\ UNCHANGED <<inbox, fin>>

Refuse ==
  /\ backlog # <<>>
  /\ backlog' = Tail(backlog)
  /\ Close(Head(backlog))
  /\ UNCHANGED <<task, current, event, stuck>>

ReadEvent(c) ==
  /\ Live(c) /\ inbox[c] > 0
  /\ inbox' = [inbox EXCEPT ![c] = @ - 1]
  /\ Throw(c, "READ", [task[c] EXCEPT !.cbufs = @ + 1])
  /\ UNCHANGED <<backlog, fin>>

ClosedEvent(c) ==
  /\ Live(c) /\ inbox[c] = 0 /\ fin[c] /\ ~ task[c].passive
  /\ Throw(c, "CLOSED", [task[c] EXCEPT !.passive = TRUE])
  /\ UNCHANGED peers

\* Bug: the timer is disabled in the place of the poll.
Bug_PollEvent(c) ==
  /\ task[c].poll = 0
  /\ Throw(c, "POLL", [task[c] EXCEPT !.timer = Infinite])
  /\ UNCHANGED peers

PollEvent(c) ==
  /\ task[c].poll = 0
  /\ Throw(c, "POLL", [task[c] EXCEPT !.poll = Infinite])
  /\ UNCHANGED peers

TimerEvent(c) ==
  /\ task[c].timer = 0
  /\ Throw(c, "TIMER", [task[c] EXCEPT !.timer = Infinite])
  /\ UNCHANGED peers

\* Bug: a countdown that has run out goes on below 0.
Bug_Less(d, ms) == IF d = Infinite THEN d ELSE d - ms

Less(d, ms) == IF d = Infinite THEN d ELSE IF d > ms THEN d - ms ELSE 0

Elapse(ms) ==
  task' = [c \in Conns |-> [task[c] EXCEPT !.poll = Less(@, ms), !.timer = Less(@, ms)]]

-----------------------------------------------------------------------------
(* The handler returns, and throw_event settles the task: destroy it,      *)
(* enter its new state (clearing both countdowns first), or leave it armed.*)

\* Bug: the input of a destroyed task is not freed.
Bug_Settle(c, e) ==
  LET k == [task[c] EXCEPT !.poll = e.poll, !.timer = e.timer,
                           !.cbufs = IF e.take THEN 0 ELSE @]
  IN  IF e.next = Quit
        THEN /\ task' = [task EXCEPT ![c] = [NoTask EXCEPT !.cbufs = k.cbufs]]
             /\ Close(c)
             /\ current' = NoConn /\ event' = "NONE"
             /\ UNCHANGED <<backlog, stuck>>
        ELSE IF e.next # k.state
        THEN /\ task' = [task EXCEPT ![c] = [k EXCEPT !.state = e.next,
                                             !.poll = Infinite, !.timer = Infinite]]
             /\ event' = "ENTRY"
             /\ UNCHANGED <<peers, current, stuck>>
        ELSE /\ task' = [task EXCEPT ![c] = k]
             /\ current' = NoConn /\ event' = "NONE"
             /\ stuck' = (k.timer = Infinite)
             /\ UNCHANGED peers

Settle(c, e) ==
  LET k == [task[c] EXCEPT !.poll = e.poll, !.timer = e.timer,
                           !.cbufs = IF e.take THEN 0 ELSE @]
  IN  IF e.next = Quit
        THEN /\ task' = [task EXCEPT ![c] = NoTask]
             /\ Close(c)
             /\ current' = NoConn /\ event' = "NONE"
             /\ UNCHANGED <<backlog, stuck>>
        ELSE IF e.next # k.state
        THEN /\ task' = [task EXCEPT ![c] = [k EXCEPT !.state = e.next,
                                             !.poll = Infinite, !.timer = Infinite]]
             /\ event' = "ENTRY"
             /\ UNCHANGED <<peers, current, stuck>>
        ELSE /\ task' = [task EXCEPT ![c] = k]
             /\ current' = NoConn /\ event' = "NONE"
             /\ stuck' = (k.timer = Infinite)
             /\ UNCHANGED peers

Return ==
  /\ current # NoConn
  /\ \E e \in Effects(task[current].state, event, task[current].poll, task[current].timer) :
       Settle(current, e)

\* The server has no room or no memory to go on, and does not check for it.
Halt == stuck' = TRUE /\ UNCHANGED <<peers, task, current, event>>

Server ==
  \/ Halt
  \/ Admit
  \/ Refuse
  \/ \E c \in Conns : ReadEvent(c) \/ ClosedEvent(c) \/ PollEvent(c) \/ TimerEvent(c)
  \/ \E ms \in 0 .. Infinite : Elapse(ms) /\ UNCHANGED <<peers, current, event, stuck>>

LoopNext ==
  \/ \E c \in Conns : PeerStep(c) /\ UNCHANGED <<task, current, event, stuck>>
  \/ ~ stuck /\ current = NoConn /\ Server
  \/ ~ stuck /\ Return

LoopSpec == LoopInit /\ [][LoopNext]_loopVars

-----------------------------------------------------------------------------
LoopTypeOK ==
  /\ backlog \in Seq(Conns)
  /\ inbox \in [Conns -> 0 .. MaxInbox] /\ fin \in [Conns -> BOOLEAN]
  /\ task \in [Conns -> Task]
  /\ current \in Conns \cup {NoConn} /\ event \in Events \cup {"NONE"}
  /\ stuck \in BOOLEAN

\* A connection is in the listen queue once, and has no task while it waits.
WaitingHasNoTask ==
  /\ \A i, j \in DOMAIN backlog : backlog[i] = backlog[j] => i = j
  /\ \A i \in DOMAIN backlog : ~ Live(backlog[i])

\* Destroying a task leaves nothing of it behind: no countdown, no buffers, no
\* handler running (throw_event, lines 87-103).
DestroyedIsClean ==
  /\ \A c \in Conns : ~ Live(c) => task[c] = NoTask
  /\ current # NoConn => Live(current)
  /\ current = NoConn <=> event = "NONE"
=============================================================================
