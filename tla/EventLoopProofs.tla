-------------------------- MODULE EventLoopProofs --------------------------
(***************************************************************************)
(* Type correctness of EventLoop, and that a task leaves nothing behind.   *)
(* One lemma per action, so that the modules that implement EventLoop can  *)
(* cite them for their own steps.                                          *)
(***************************************************************************)
EXTENDS EventLoop, TLAPS, SequenceTheorems

\* What the handlers have not taken and what is still in flight fit the bound.
InboxBounded == \A c \in Conns : inbox[c] + task[c].cbufs <= MaxInbox

LoopInv == LoopTypeOK /\ InboxBounded /\ WaitingHasNoTask /\ DestroyedIsClean

LEMMA InfiniteDelta == Infinite \in Delta
  BY BoundsAssumption DEF Delta

LEMMA NoTaskType == NoTask \in Task /\ NoTask.state = Quit /\ NoTask.cbufs = 0
  BY BoundsAssumption DEF Task, NoTask, Delta

LEMMA NewTaskType == NewTask \in Task /\ NewTask.state = Connected /\ NewTask.cbufs = 0
                     /\ Connected # Quit
  BY NoTaskType, StatesAssumption DEF Task, NewTask, NoTask, Delta

LEMMA InitLoopInv == LoopInit => LoopInv
<1> SUFFICES ASSUME LoopInit PROVE LoopInv
  OBVIOUS
<1>1. LoopTypeOK
  <2>1. inbox \in [Conns -> 0 .. MaxInbox]
    BY BoundsAssumption DEF LoopInit
  <2>2. task \in [Conns -> Task]
    BY NoTaskType DEF LoopInit
  <2>3. backlog \in Seq(Conns)
    BY DEF LoopInit
  <2>4. fin \in [Conns -> BOOLEAN]
    BY DEF LoopInit
  <2> QED BY <2>1, <2>2, <2>3, <2>4 DEF LoopInit, LoopTypeOK
<1>2. InboxBounded
  <2> SUFFICES ASSUME NEW c \in Conns PROVE inbox[c] + task[c].cbufs <= MaxInbox
    BY DEF InboxBounded
  <2>1. inbox[c] = 0 /\ task[c].cbufs = 0
    BY NoTaskType DEF LoopInit
  <2> QED BY <2>1, BoundsAssumption
<1>3. WaitingHasNoTask
  <2>1. DOMAIN backlog = {}
    BY DEF LoopInit
  <2> QED BY <2>1 DEF WaitingHasNoTask
<1>4. DestroyedIsClean
  <2>1. \A c \in Conns : task[c] = NoTask
    BY DEF LoopInit
  <2> QED BY <2>1 DEF LoopInit, DestroyedIsClean
<1> QED BY <1>1, <1>2, <1>3, <1>4 DEF LoopInv

LEMMA PeerStepLoopInv ==
  ASSUME LoopInv, NEW c \in Conns, PeerStep(c), UNCHANGED <<task, current, event, stuck>>
  PROVE  LoopInv'
<1> USE BoundsAssumption DEF LoopInv, LoopTypeOK, InboxBounded, WaitingHasNoTask,
        DestroyedIsClean, Live
<1>1. CASE Connect(c)
  <2>1. /\ backlog' \in Seq(Conns) /\ Len(backlog') = Len(backlog) + 1
        /\ backlog'[Len(backlog) + 1] = c
        /\ \A i \in 1 .. Len(backlog) : backlog'[i] = backlog[i]
    BY <1>1, AppendProperties DEF Connect
  <2>2. \A i \in DOMAIN backlog : backlog[i] # c
    BY <1>1 DEF Connect, Waiting
  <2>3. DOMAIN backlog = 1 .. Len(backlog) /\ DOMAIN backlog' = 1 .. (Len(backlog) + 1)
        /\ Len(backlog) \in Nat
    BY <2>1
  <2>4. WaitingHasNoTask'
    BY <1>1, <2>1, <2>2, <2>3 DEF Connect
  <2> QED BY <1>1, <2>1, <2>4 DEF Connect
<1>2. CASE Send(c)
  BY <1>2 DEF Send, Task
<1>3. ASSUME NEW reset \in BOOLEAN, Hangup(c, reset) PROVE LoopInv'
  BY <1>3 DEF Hangup, Task
<1> QED BY <1>1, <1>2, <1>3 DEF PeerStep

-----------------------------------------------------------------------------
(* The server's steps.                                                     *)

\* Throwing an event at a task that is not waiting keeps the invariant, when
\* the task is given as the event leaves it and the peers' state is sound.
LEMMA ThrowLoopInv ==
  ASSUME LoopInv, current = NoConn,
         NEW c \in Conns, NEW ev \in Events, NEW k \in Task, k.state # Quit,
         Throw(c, ev, k),
         inbox' \in [Conns -> 0 .. MaxInbox], fin' \in [Conns -> BOOLEAN],
         \A d \in Conns \ {c} : inbox'[d] = inbox[d],
         inbox'[c] + k.cbufs <= MaxInbox,
         backlog' \in Seq(Conns),
         \A i, j \in DOMAIN backlog' : backlog'[i] = backlog'[j] => i = j,
         \A i \in DOMAIN backlog' : backlog'[i] # c /\ ~ Live(backlog'[i])
  PROVE  LoopInv' /\ current' = c /\ task' = [task EXCEPT ![c] = k]
<1>1. /\ task' = [task EXCEPT ![c] = k] /\ current' = c /\ event' = ev /\ stuck' = stuck
      /\ ev # "NONE"
  BY DEF Throw, Events
<1>2. /\ task \in [Conns -> Task] /\ task' \in [Conns -> Task]
      /\ task'[c] = k /\ \A d \in Conns \ {c} : task'[d] = task[d]
  BY <1>1 DEF LoopInv, LoopTypeOK
<1>3. LoopTypeOK'
  BY <1>1, <1>2 DEF LoopInv, LoopTypeOK
<1>4. InboxBounded'
  BY <1>2 DEF LoopInv, InboxBounded
<1>5. WaitingHasNoTask'
  <2>1. \A i \in DOMAIN backlog' : backlog'[i] \in Conns \ {c}
    OBVIOUS
  <2> QED BY <1>2, <2>1 DEF WaitingHasNoTask, Live
<1>6. DestroyedIsClean'
  BY <1>1, <1>2, ConnsAssumption DEF LoopInv, DestroyedIsClean, Live
<1> QED BY <1>1, <1>3, <1>4, <1>5, <1>6 DEF LoopInv

LEMMA BacklogTail ==
  ASSUME LoopInv, backlog # <<>>
  PROVE  /\ Head(backlog) \in Conns /\ ~ Live(Head(backlog))
         /\ Tail(backlog) \in Seq(Conns)
         /\ \A i, j \in DOMAIN Tail(backlog) : Tail(backlog)[i] = Tail(backlog)[j] => i = j
         /\ \A i \in DOMAIN Tail(backlog) :
              Tail(backlog)[i] # Head(backlog) /\ ~ Live(Tail(backlog)[i])
<1>1. backlog \in Seq(Conns)
  BY DEF LoopInv, LoopTypeOK
<1>2. /\ Head(backlog) = backlog[1] /\ Len(backlog) \in Nat /\ Len(backlog) >= 1
      /\ Tail(backlog) \in Seq(Conns) /\ Len(Tail(backlog)) = Len(backlog) - 1
      /\ \A i \in 1 .. Len(Tail(backlog)) : Tail(backlog)[i] = backlog[i + 1]
  BY <1>1, HeadTailProperties
<1>3. DOMAIN backlog = 1 .. Len(backlog) /\ DOMAIN Tail(backlog) = 1 .. (Len(backlog) - 1)
  BY <1>1, <1>2
<1> QED BY <1>1, <1>2, <1>3 DEF LoopInv, WaitingHasNoTask

LEMMA AdmitLoopInv ==
  ASSUME LoopInv, current = NoConn, Admit
  PROVE  /\ LoopInv' /\ Head(backlog) \in Conns /\ ~ Live(Head(backlog))
         /\ current' = Head(backlog) /\ event' = "ENTRY"
         /\ task' = [task EXCEPT ![Head(backlog)] = NewTask]
<1> DEFINE c == Head(backlog)
<1>1. c \in Conns /\ ~ Live(c)
  BY BacklogTail DEF Admit
<1>2. inbox[c] \in 0 .. MaxInbox /\ inbox[c] + NewTask.cbufs <= MaxInbox
  BY <1>1, NewTaskType, BoundsAssumption DEF LoopInv, LoopTypeOK
<1>3. Throw(c, "ENTRY", NewTask) /\ "ENTRY" \in Events /\ UNCHANGED <<inbox, fin>>
      /\ backlog' = Tail(backlog)
  BY DEF Admit, Events
<1>4. event' = "ENTRY"
  BY <1>3, NewTaskType DEF Throw
<1>5. inbox' \in [Conns -> 0 .. MaxInbox] /\ fin' \in [Conns -> BOOLEAN]
  BY <1>3 DEF LoopInv, LoopTypeOK
<1>6. /\ backlog' \in Seq(Conns)
      /\ \A i, j \in DOMAIN backlog' : backlog'[i] = backlog'[j] => i = j
      /\ \A i \in DOMAIN backlog' : backlog'[i] # c /\ ~ Live(backlog'[i])
  BY <1>3, BacklogTail DEF Admit
<1>7. NewTask \in Task /\ NewTask.state # Quit
  BY NewTaskType
<1> HIDE DEF c
<1>8. LoopInv' /\ current' = c /\ task' = [task EXCEPT ![c] = NewTask]
  BY <1>1, <1>2, <1>3, <1>5, <1>6, <1>7, ThrowLoopInv
<1> QED BY <1>1, <1>4, <1>8 DEF c

LEMMA RefuseLoopInv ==
  ASSUME LoopInv, Refuse
  PROVE  LoopInv'
<1>1. /\ Head(backlog) \in Conns /\ ~ Live(Head(backlog))
      /\ backlog' \in Seq(Conns)
      /\ \A i, j \in DOMAIN backlog' : backlog'[i] = backlog'[j] => i = j
      /\ \A i \in DOMAIN backlog' : ~ Live(backlog'[i])
  BY BacklogTail DEF Refuse
<1>2. UNCHANGED <<task, current, event, stuck>>
      /\ inbox' = [inbox EXCEPT ![Head(backlog)] = 0]
      /\ fin' = [fin EXCEPT ![Head(backlog)] = FALSE]
  BY DEF Refuse, Close
<1>3. LoopTypeOK'
  BY <1>1, <1>2, BoundsAssumption DEF LoopInv, LoopTypeOK
<1>4. InboxBounded'
  <2> SUFFICES ASSUME NEW d \in Conns PROVE inbox'[d] + task'[d].cbufs <= MaxInbox
    BY DEF InboxBounded
  <2>1. inbox'[d] \in Nat /\ inbox[d] \in Nat /\ inbox'[d] <= inbox[d]
    BY <1>1, <1>2, BoundsAssumption DEF LoopInv, LoopTypeOK
  <2>2. task[d].cbufs \in Nat /\ inbox[d] + task[d].cbufs <= MaxInbox
    BY DEF LoopInv, LoopTypeOK, InboxBounded, Task
  <2> QED BY <1>2, <2>1, <2>2, BoundsAssumption
<1>5. WaitingHasNoTask' /\ DestroyedIsClean'
  BY <1>1, <1>2 DEF LoopInv, WaitingHasNoTask, DestroyedIsClean, Live
<1> QED BY <1>3, <1>4, <1>5 DEF LoopInv

\* The events that find a task in the ring: read, close, poll and timer.
EventOf(c, ev) ==
  \/ ev = "READ" /\ ReadEvent(c)
  \/ ev = "CLOSED" /\ ClosedEvent(c)
  \/ ev = "POLL" /\ PollEvent(c)
  \/ ev = "TIMER" /\ TimerEvent(c)

LEMMA EventLoopInv ==
  ASSUME LoopInv, current = NoConn, NEW c \in Conns, NEW ev \in Events, EventOf(c, ev)
  PROVE  /\ LoopInv' /\ Live(c) /\ Live(c)' /\ current' = c /\ event' = ev
         /\ task' \in [Conns -> Task] /\ \A d \in Conns \ {c} : task'[d] = task[d]
         /\ (task'[c].passive # task[c].passive => ev = "CLOSED")
<1>1. /\ task \in [Conns -> Task] /\ task[c] \in Task /\ inbox[c] \in 0 .. MaxInbox
      /\ inbox \in [Conns -> 0 .. MaxInbox] /\ fin \in [Conns -> BOOLEAN]
      /\ backlog \in Seq(Conns) /\ inbox[c] + task[c].cbufs <= MaxInbox
      /\ \A d \in Conns : inbox[d] + task[d].cbufs <= MaxInbox
  BY DEF LoopInv, LoopTypeOK, InboxBounded
<1>2. Live(c)
  BY <1>1, BoundsAssumption
  DEF EventOf, ReadEvent, ClosedEvent, PollEvent, TimerEvent, LoopInv, DestroyedIsClean, NoTask
<1>3. \A i, j \in DOMAIN backlog : backlog[i] = backlog[j] => i = j
  BY DEF LoopInv, WaitingHasNoTask
<1>4. \A i \in DOMAIN backlog : backlog[i] # c /\ ~ Live(backlog[i])
  BY <1>2 DEF LoopInv, WaitingHasNoTask
<1>5. \E k \in Task : /\ Throw(c, ev, k) /\ k.state = task[c].state
                      /\ inbox' \in [Conns -> 0 .. MaxInbox] /\ UNCHANGED <<backlog, fin>>
                      /\ \A d \in Conns \ {c} : inbox'[d] = inbox[d]
                      /\ inbox'[c] + k.cbufs <= MaxInbox
                      /\ (k.passive # task[c].passive => ev = "CLOSED")
  <2>1. CASE ev = "READ" /\ ReadEvent(c)
    <3> DEFINE k == [task[c] EXCEPT !.cbufs = @ + 1]
    <3>1. task[c].cbufs \in Nat /\ inbox[c] \in Nat /\ inbox[c] > 0
          /\ task[c].cbufs + 1 \in 0 .. MaxInbox
      BY <1>1, <2>1, BoundsAssumption DEF ReadEvent, Task
    <3>2. k \in Task /\ k.state = task[c].state /\ k.passive = task[c].passive
          /\ k.cbufs = task[c].cbufs + 1
      BY <1>1, <3>1 DEF Task
    <3>3. inbox' = [inbox EXCEPT ![c] = @ - 1] /\ Throw(c, ev, k) /\ UNCHANGED <<backlog, fin>>
      BY <2>1 DEF ReadEvent
    <3>4. inbox' \in [Conns -> 0 .. MaxInbox] /\ inbox'[c] = inbox[c] - 1
          /\ \A d \in Conns \ {c} : inbox'[d] = inbox[d]
      BY <1>1, <3>1, <3>3, BoundsAssumption
    <3>5. inbox'[c] + k.cbufs <= MaxInbox
      BY <1>1, <3>1, <3>2, <3>4, BoundsAssumption
    <3> HIDE DEF k
    <3> QED BY <3>2, <3>3, <3>4, <3>5
  <2>2. CASE ev = "CLOSED" /\ ClosedEvent(c)
    <3> DEFINE k == [task[c] EXCEPT !.passive = TRUE]
    <3>1. k \in Task /\ k.state = task[c].state /\ k.cbufs = task[c].cbufs
      BY <1>1 DEF Task
    <3>2. Throw(c, ev, k) /\ UNCHANGED peers
      BY <2>2 DEF ClosedEvent
    <3> HIDE DEF k
    <3> QED BY <1>1, <2>2, <3>1, <3>2 DEF peers
  <2>3. CASE ev = "POLL" /\ PollEvent(c)
    <3> DEFINE k == [task[c] EXCEPT !.poll = Infinite]
    <3>1. k \in Task /\ k.state = task[c].state /\ k.cbufs = task[c].cbufs
          /\ k.passive = task[c].passive
      BY <1>1, InfiniteDelta DEF Task
    <3>2. Throw(c, ev, k) /\ UNCHANGED peers
      BY <2>3 DEF PollEvent
    <3> HIDE DEF k
    <3> QED BY <1>1, <3>1, <3>2 DEF peers
  <2>4. CASE ev = "TIMER" /\ TimerEvent(c)
    <3> DEFINE k == [task[c] EXCEPT !.timer = Infinite]
    <3>1. k \in Task /\ k.state = task[c].state /\ k.cbufs = task[c].cbufs
          /\ k.passive = task[c].passive
      BY <1>1, InfiniteDelta DEF Task
    <3>2. Throw(c, ev, k) /\ UNCHANGED peers
      BY <2>4 DEF TimerEvent
    <3> HIDE DEF k
    <3> QED BY <1>1, <3>1, <3>2 DEF peers
  <2> QED BY <2>1, <2>2, <2>3, <2>4 DEF EventOf
<1>6. PICK k \in Task : /\ Throw(c, ev, k) /\ k.state = task[c].state
                        /\ inbox' \in [Conns -> 0 .. MaxInbox] /\ UNCHANGED <<backlog, fin>>
                        /\ \A d \in Conns \ {c} : inbox'[d] = inbox[d]
                        /\ inbox'[c] + k.cbufs <= MaxInbox
                        /\ (k.passive # task[c].passive => ev = "CLOSED")
  BY <1>5
<1>7. k.state # Quit
  BY <1>2, <1>6 DEF Live
<1>8. /\ backlog' \in Seq(Conns) /\ fin' \in [Conns -> BOOLEAN]
      /\ \A i, j \in DOMAIN backlog' : backlog'[i] = backlog'[j] => i = j
      /\ \A i \in DOMAIN backlog' : backlog'[i] # c /\ ~ Live(backlog'[i])
  BY <1>1, <1>3, <1>4, <1>6
<1>9. LoopInv' /\ current' = c /\ task' = [task EXCEPT ![c] = k]
  BY <1>6, <1>7, <1>8, ThrowLoopInv
<1>10. event' = ev
  BY <1>6, <1>7 DEF Throw
<1>11. /\ task' \in [Conns -> Task] /\ task'[c] = k
       /\ \A d \in Conns \ {c} : task'[d] = task[d]
  BY <1>1, <1>9
<1>12. Live(c)'
  BY <1>7, <1>11 DEF Live
<1>13. task'[c].passive # task[c].passive => ev = "CLOSED"
  BY <1>6, <1>11
<1> QED BY <1>2, <1>9, <1>10, <1>11, <1>12, <1>13

LEMMA ElapseLoopInv ==
  ASSUME LoopInv, NEW ms \in Nat, Elapse(ms), UNCHANGED <<peers, current, event, stuck>>
  PROVE  /\ LoopInv'
         /\ \A c \in Conns : task'[c].state = task[c].state /\ task'[c].passive = task[c].passive
<1>1. \A d \in Delta : Less(d, ms) \in Delta
  BY BoundsAssumption DEF Less, Delta
<1>2. task \in [Conns -> Task]
  BY DEF LoopInv, LoopTypeOK
<1>3. \A c \in Conns : /\ task'[c] \in Task /\ task'[c].state = task[c].state
                       /\ task'[c].passive = task[c].passive /\ task'[c].cbufs = task[c].cbufs
                       /\ task'[c].poll = Less(task[c].poll, ms)
                       /\ task'[c].timer = Less(task[c].timer, ms)
  BY <1>1, <1>2 DEF Elapse, Task
<1>4. task' \in [Conns -> Task]
  BY <1>3 DEF Elapse
<1>5. LoopTypeOK'
  BY <1>4 DEF LoopInv, LoopTypeOK, peers
<1>6. InboxBounded' /\ WaitingHasNoTask'
  <2>1. \A i \in DOMAIN backlog : backlog[i] \in Conns
    BY DEF LoopInv, LoopTypeOK
  <2> QED BY <1>3, <2>1 DEF LoopInv, InboxBounded, WaitingHasNoTask, peers, Live
<1>7. DestroyedIsClean'
  <2>1. ASSUME NEW c \in Conns, ~ Live(c)' PROVE task'[c] = NoTask
    <3>1. task[c] = NoTask
      BY <1>3, <2>1 DEF LoopInv, DestroyedIsClean, Live
    <3>2. Less(Infinite, ms) = Infinite
      BY DEF Less
    <3>3. task'[c] = [NoTask EXCEPT !.poll = Less(@, ms), !.timer = Less(@, ms)]
      BY <3>1 DEF Elapse
    <3> QED BY <3>2, <3>3 DEF NoTask
  <2>2. current \in Conns \cup {NoConn}
    BY DEF LoopInv, LoopTypeOK
  <2> QED BY <1>3, <2>1, <2>2 DEF LoopInv, DestroyedIsClean, Live
<1> QED BY <1>3, <1>5, <1>6, <1>7 DEF LoopInv

\* What a handler may do, as its task is when it is called.
HandlerEffects ==
  Effects(task[current].state, event, task[current].poll, task[current].timer)

\* A handler's return touches its own task only: it destroys it, or enters the
\* state e.next, or leaves it in the state e.next with no handler running.
LEMMA SettleLoopInv ==
  ASSUME LoopInv, NEW c \in Conns, c = current, NEW e \in HandlerEffects, Settle(c, e)
  PROVE  /\ LoopInv' /\ task' \in [Conns -> Task] /\ backlog' = backlog
         /\ \A d \in Conns \ {c} : task'[d] = task[d]
         /\ task'[c].state = e.next
         /\ (e.next # Quit => task'[c].passive = task[c].passive)
         /\ \/ current' = NoConn
            \/ current' = c /\ event' = "ENTRY" /\ e.next # Quit
<1>1. /\ task \in [Conns -> Task] /\ task[c] \in Task /\ task[c].state \in States
      /\ backlog \in Seq(Conns) /\ fin \in [Conns -> BOOLEAN]
      /\ inbox \in [Conns -> 0 .. MaxInbox] /\ event \in Events /\ c # NoConn
  BY ConnsAssumption DEF LoopInv, LoopTypeOK, DestroyedIsClean, Live, Task
<1>2. e \in Effect
  BY <1>1, EffectsAssumption DEF HandlerEffects, Task
<1>3. \A d \in Conns : /\ inbox[d] \in Nat /\ task[d].cbufs \in Nat
                       /\ inbox[d] + task[d].cbufs <= MaxInbox
  BY <1>1 DEF LoopInv, InboxBounded, Task
<1> DEFINE k == [task[c] EXCEPT !.poll = e.poll, !.timer = e.timer,
                                !.cbufs = IF e.take THEN 0 ELSE @]
<1>4. /\ k \in Task /\ k.state = task[c].state /\ k.passive = task[c].passive
      /\ k.cbufs \in Nat /\ k.cbufs <= task[c].cbufs
  <2>1. e.poll \in Delta /\ e.timer \in Delta
    BY <1>2 DEF Effect
  <2>2. (IF e.take THEN 0 ELSE task[c].cbufs) \in 0 .. MaxInbox
    BY <1>1, BoundsAssumption DEF Task
  <2>3. /\ k \in Task /\ k.state = task[c].state /\ k.passive = task[c].passive
        /\ k.cbufs = IF e.take THEN 0 ELSE task[c].cbufs
    BY <1>1, <2>1, <2>2 DEF Task
  <2> HIDE DEF k
  <2> QED BY <1>3, <2>3
<1>5. \A i \in DOMAIN backlog : backlog[i] \in Conns \ {c}
  BY <1>1 DEF LoopInv, WaitingHasNoTask, DestroyedIsClean
<1> HIDE DEF k
<1>6. CASE e.next = Quit
  <2>1. /\ task' = [task EXCEPT ![c] = NoTask] /\ current' = NoConn /\ event' = "NONE"
        /\ inbox' = [inbox EXCEPT ![c] = 0] /\ fin' = [fin EXCEPT ![c] = FALSE]
        /\ backlog' = backlog /\ stuck' = stuck
    BY <1>6 DEF Settle, Close
  <2>2. /\ task' \in [Conns -> Task] /\ task'[c] = NoTask
        /\ \A d \in Conns \ {c} : task'[d] = task[d]
    BY <1>1, <2>1, NoTaskType
  <2>3. LoopTypeOK'
    BY <1>1, <2>1, <2>2, BoundsAssumption DEF LoopInv, LoopTypeOK
  <2>4. InboxBounded'
    <3> SUFFICES ASSUME NEW d \in Conns PROVE inbox'[d] + task'[d].cbufs <= MaxInbox
      BY DEF InboxBounded
    <3>1. CASE d = c
      <4>1. inbox'[d] = 0 /\ task'[d].cbufs = 0
        BY <1>1, <2>1, <2>2, <3>1, NoTaskType
      <4> QED BY <4>1, BoundsAssumption
    <3>2. CASE d # c
      BY <1>1, <1>3, <2>1, <2>2, <3>2
    <3> QED BY <3>1, <3>2
  <2>5. WaitingHasNoTask'
    BY <1>5, <2>1, <2>2 DEF LoopInv, WaitingHasNoTask, Live
  <2>6. DestroyedIsClean'
    BY <2>1, <2>2 DEF LoopInv, DestroyedIsClean, Live
  <2> QED BY <1>6, <2>1, <2>2, <2>3, <2>4, <2>5, <2>6, NoTaskType DEF LoopInv
<1>7. CASE e.next # Quit
  <2>1. PICK t \in Task : /\ task' = [task EXCEPT ![c] = t] /\ t.state = e.next
                         /\ t.passive = task[c].passive /\ t.cbufs <= task[c].cbufs
    <3>1. CASE e.next # k.state
      <4> DEFINE t == [k EXCEPT !.state = e.next, !.poll = Infinite, !.timer = Infinite]
      <4>1. task' = [task EXCEPT ![c] = t]
        BY <1>7, <3>1 DEF Settle, k
      <4>2. t \in Task /\ t.state = e.next /\ t.passive = k.passive /\ t.cbufs = k.cbufs
        BY <1>2, <1>4, InfiniteDelta DEF Task, Effect
      <4> QED BY <1>4, <4>1, <4>2
    <3>2. CASE e.next = k.state
      <4>1. task' = [task EXCEPT ![c] = k]
        BY <1>7, <3>2 DEF Settle, k
      <4> QED BY <1>4, <3>2, <4>1
    <3> QED BY <3>1, <3>2
  <2>2. /\ UNCHANGED peers /\ stuck' \in BOOLEAN
        /\ \/ current' = NoConn /\ event' = "NONE"
           \/ current' = c /\ event' = "ENTRY"
    BY <1>7 DEF Settle, LoopInv, LoopTypeOK
  <2>3. /\ task' \in [Conns -> Task] /\ task'[c] = t
        /\ \A d \in Conns \ {c} : task'[d] = task[d]
    BY <1>1, <2>1
  <2>4. LoopTypeOK'
    BY <1>1, <2>2, <2>3 DEF LoopInv, LoopTypeOK, peers, Events
  <2>5. InboxBounded'
    <3> SUFFICES ASSUME NEW d \in Conns PROVE inbox'[d] + task'[d].cbufs <= MaxInbox
      BY DEF InboxBounded
    <3>1. inbox'[d] = inbox[d]
      BY <2>2 DEF peers
    <3>2. task'[d].cbufs \in Nat /\ task'[d].cbufs <= task[d].cbufs
      BY <1>3, <2>1, <2>3 DEF Task
    <3> QED BY <1>3, <3>1, <3>2, BoundsAssumption
  <2>6. WaitingHasNoTask'
    BY <1>5, <2>2, <2>3 DEF LoopInv, WaitingHasNoTask, Live, peers
  <2>7. DestroyedIsClean'
    <3>1. \A d \in Conns : ~ Live(d)' => task'[d] = NoTask
      BY <1>7, <2>1, <2>3 DEF LoopInv, DestroyedIsClean, Live
    <3> QED BY <1>1, <1>7, <2>1, <2>2, <2>3, <3>1 DEF DestroyedIsClean, Live
  <2> QED BY <1>7, <2>1, <2>2, <2>3, <2>4, <2>5, <2>6, <2>7 DEF LoopInv, peers
<1> QED BY <1>6, <1>7

LEMMA HaltLoopInv == ASSUME LoopInv, Halt PROVE LoopInv'
  BY DEF Halt, peers, LoopInv, LoopTypeOK, InboxBounded, WaitingHasNoTask, DestroyedIsClean, Live

LEMMA NextLoopInv == LoopInv /\ [LoopNext]_loopVars => LoopInv'
<1> SUFFICES ASSUME LoopInv, [LoopNext]_loopVars PROVE LoopInv'
  OBVIOUS
<1>1. ASSUME NEW c \in Conns, PeerStep(c), UNCHANGED <<task, current, event, stuck>>
      PROVE  LoopInv'
  BY <1>1, PeerStepLoopInv
<1>2. CASE current = NoConn /\ Server
  <2>1. CASE Halt
    BY <2>1, HaltLoopInv
  <2>2. CASE Admit
    BY <1>2, <2>2, AdmitLoopInv
  <2>3. CASE Refuse
    BY <2>3, RefuseLoopInv
  <2>4. ASSUME NEW c \in Conns,
               ReadEvent(c) \/ ClosedEvent(c) \/ PollEvent(c) \/ TimerEvent(c)
        PROVE  LoopInv'
    <3>1. \E ev \in Events : EventOf(c, ev)
      BY <2>4 DEF EventOf, Events
    <3> QED BY <1>2, <3>1, EventLoopInv
  <2>5. ASSUME NEW ms \in 0 .. Infinite, Elapse(ms), UNCHANGED <<peers, current, event, stuck>>
        PROVE  LoopInv'
    <3>1. ms \in Nat
      BY BoundsAssumption
    <3> QED BY <2>5, <3>1, ElapseLoopInv
  <2> QED BY <1>2, <2>1, <2>2, <2>3, <2>4, <2>5 DEF Server
<1>3. CASE Return
  <2>1. current \in Conns
    BY <1>3 DEF Return, LoopInv, LoopTypeOK
  <2>2. PICK e \in HandlerEffects : Settle(current, e)
    BY <1>3 DEF Return, HandlerEffects
  <2> QED BY <2>1, <2>2, SettleLoopInv
<1>4. CASE UNCHANGED loopVars
  BY <1>4 DEF loopVars, LoopInv, LoopTypeOK, InboxBounded, WaitingHasNoTask, DestroyedIsClean, Live
<1> QED BY <1>1, <1>2, <1>3, <1>4 DEF LoopNext

\* Whatever the handlers and the peers do, a destroyed task leaves nothing
\* behind, no handler runs for it, and a waiting connection has no task.
THEOREM LoopSafety == LoopSpec => [](LoopTypeOK /\ WaitingHasNoTask /\ DestroyedIsClean)
<1>1. LoopInv => LoopTypeOK /\ WaitingHasNoTask /\ DestroyedIsClean
  BY DEF LoopInv
<1> QED BY <1>1, InitLoopInv, NextLoopInv, PTL DEF LoopSpec
=============================================================================
