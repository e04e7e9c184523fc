-------------------------- MODULE HttpServerProofs --------------------------
(***************************************************************************)
(* The server as a whole, for any number of clients below the limit: what  *)
(* the scheduler asserts, the HTTP handlers provide.                       *)
(***************************************************************************)
EXTENDS HttpServer, SchedulerProofs, FiniteSetTheorems

\* Outside handlers every client is in a state with a timer that runs; in a handler,
\* but for the entry of a state and its timer, it still runs.
TimersArmed ==
  /\ \A c \in Conns : Live(c) /\ c # current => task[c].timer # Infinite /\ task[c].state \in Timed
  /\ current # NoConn /\ event # "ENTRY" /\ event # "TIMER" => task[current].timer # Infinite

\* The read set so far has no more entries than there are tasks passed.
ReadsetIsShort == phase = "build" => Len(readset) < cursor

ServerInv == TimersArmed /\ ReadsetIsShort /\ ~ stuck

-----------------------------------------------------------------------------
LEMMA TimersRun ==
  /\ ReceiveTimer # Infinite /\ RespondTimer # Infinite
  /\ ReceiveTimer \in Delta /\ RespondTimer \in Delta
<1>1. \A n \in 1 .. Infinite - 1 : n \in Delta /\ n # Infinite
  BY BoundsAssumption DEF Delta
<1> QED BY <1>1, TimersAssumption

LEMMA LessRuns ==
  ASSUME NEW d \in Delta, NEW ms \in Nat, d # Infinite
  PROVE  Less(d, ms) # Infinite
<1>1. d \in Nat /\ Infinite \in Nat /\ d < Infinite
  BY BoundsAssumption DEF Delta
<1> QED BY <1>1 DEF Less

\* A handler that stays in its state arms its timer on entry and leaves it alone later.
LEMMA StayingIs ==
  ASSUME NEW s \in States, NEW ev \in Events, NEW p \in Delta, NEW t \in Delta,
         NEW e \in Effects(s, ev, p, t), e.next = s
  PROVE  /\ s \in Timed
         /\ ev = "ENTRY" => e.timer = TimerOf(s)
         /\ ev # "ENTRY" => ev \in {"READ", "POLL"} /\ e.timer = t
<1>1. s \in HttpStateNames /\ e \in HttpEffects(s, ev, p, t)
  BY HttpAssumption
<1>2. CASE ev = "ENTRY"
  <2>1. e \in OnEntry(s, p, t)
    BY <1>1, <1>2 DEF HttpEffects
  <2>2. CASE s \in {"accepted", "keepalive"}
    BY <2>1, <2>2 DEF OnEntry, Enter, Stay
  <2>3. CASE s = "disconnect"
    BY <2>1, <2>3, HttpAssumption, StatesAssumption DEF OnEntry, Enter, Stay
  <2>4. CASE s = "receive"
    <3>1. e.timer = ReceiveTimer
      BY <2>1, <2>4 DEF OnEntry, OnInput, Taking, Enter, Stay
    <3> QED BY <1>2, <2>4, <3>1 DEF TimerOf, Timed
  <2>5. CASE s \in {"parse", "error", "prepare", "build", "send"}
    <3>1. e = Stay(s, 0, TimerOf(s))
      BY <2>1, <2>5 DEF OnEntry
    <3> QED BY <1>2, <2>5, <3>1 DEF Stay, Timed
  <2> QED BY <1>1, <2>2, <2>3, <2>4, <2>5 DEF HttpStateNames
<1>3. CASE ev # "ENTRY"
  <2>1. s \in Timed
    BY <1>1, <1>3 DEF HttpEffects
  <2>2. CASE ev = "READ"
    <3>1. e \in OnRead(s, p, t)
      BY <1>1, <1>3, <2>1, <2>2 DEF HttpEffects
    <3> QED BY <2>1, <2>2, <3>1 DEF OnRead, OnInput, Taking, Enter, Stay
  <2>3. CASE ev = "POLL"
    <3>1. e \in OnPoll(s, p, t)
      BY <1>1, <1>3, <2>1, <2>3 DEF HttpEffects
    <3> QED BY <2>1, <2>3, <3>1 DEF OnPoll, Enter, Stay
  <2>4. CASE ev \in {"CLOSED", "TIMER"}
    <3>1. e.next = "disconnect"
      BY <1>1, <1>3, <2>1, <2>4 DEF HttpEffects, Enter, Stay
    <3> QED BY <2>1, <3>1 DEF Timed
  <2> QED BY <2>2, <2>3, <2>4, <1>3 DEF Events
<1> QED BY <1>2, <1>3

LEMMA StayingIsTimed ==
  ASSUME NEW s \in States, NEW ev \in Events, NEW p \in Delta, NEW t \in Delta,
         ev # "ENTRY" /\ ev # "TIMER" => t # Infinite,
         NEW e \in Effects(s, ev, p, t), e.next = s
  PROVE  e.timer # Infinite /\ s \in Timed
<1>1. TimerOf(s) # Infinite
  BY TimersRun DEF TimerOf
<1> QED BY <1>1, StayingIs

\* There are no more tasks than peers.
LEMMA RingIsSmall ==
  ASSUME IInv, IsFiniteSet(Conns)
  PROVE  Len(tasks) <= Cardinality(Conns)
<1> DEFINE n == Len(tasks)
           f == [i \in 1 .. n |-> tasks[i]]
<1>1. /\ n \in Nat /\ \A i \in 1 .. n : tasks[i] \in Conns
      /\ \A i, j \in 1 .. n : tasks[i] = tasks[j] => i = j
  BY IInvFacts
<1>2. f \in Injection(1 .. n, Conns)
  BY <1>1 DEF Injection, IsInjective
<1>3. Cardinality(1 .. n) <= Cardinality(Conns)
  BY <1>2, FS_Injection
<1> HIDE DEF n
<1>4. Cardinality(1 .. n) = n
  <2>1. 1 \in Int /\ n \in Int
    BY <1>1
  <2>2. Cardinality(1 .. n) = IF 1 > n THEN 0 ELSE n - 1 + 1
    BY <2>1, FS_Interval
  <2> QED BY <1>1, <2>2
<1> QED BY <1>3, <1>4 DEF n

-----------------------------------------------------------------------------
LEMMA SettleArmed ==
  ASSUME IInv, ServerInv, Handle
  PROVE  ServerInv'
<1>1. /\ current \in Conns /\ current # NoConn /\ event \in Events /\ task[current] \in Task
      /\ task[current].state # Quit /\ UNCHANGED execVars /\ Return
  BY ConnsAssumption DEF Handle, Return, IInv, LoopInv, LoopTypeOK, DestroyedIsClean, Live
<1>2. task \in [Conns -> Task] /\ task[current].state \in States
      /\ task[current].poll \in Delta /\ task[current].timer \in Delta
  BY <1>1 DEF IInv, LoopInv, LoopTypeOK, Task
<1>3. PICK e \in Effects(task[current].state, event, task[current].poll, task[current].timer) :
        Settle(current, e)
  BY <1>1 DEF Return
<1> DEFINE k == [task[current] EXCEPT !.poll = e.poll, !.timer = e.timer,
                                      !.cbufs = IF e.take THEN 0 ELSE @]
<1>4. k.state = task[current].state /\ k.timer = e.timer
  BY <1>1 DEF Task
<1> HIDE DEF k
<1>5. ReadsetIsShort'
  BY <1>1 DEF execVars, ServerInv, ReadsetIsShort
<1>6. CASE e.next = Quit
  <2>1. task' = [task EXCEPT ![current] = NoTask] /\ current' = NoConn /\ stuck' = stuck
    BY <1>3, <1>6 DEF Settle
  <2>2. NoTask.state = Quit
    BY DEF NoTask
  <2>3. \A c \in Conns : Live(c)' => c # current /\ task'[c] = task[c] /\ Live(c)
    BY <1>1, <1>2, <2>1, <2>2 DEF Live
  <2> QED BY <1>5, <2>1, <2>3 DEF ServerInv, TimersArmed
<1>7. CASE e.next # Quit /\ e.next # task[current].state
  <2> DEFINE l == [k EXCEPT !.state = e.next, !.poll = Infinite, !.timer = Infinite]
  <2>1. task' = [task EXCEPT ![current] = l] /\ current' = current /\ event' = "ENTRY"
        /\ stuck' = stuck
    BY <1>3, <1>4, <1>7 DEF Settle, k
  <2> HIDE DEF l
  <2>2. \A c \in Conns : c # current => task'[c] = task[c] /\ (Live(c)' <=> Live(c))
    BY <1>2, <2>1 DEF Live
  <2> QED BY <1>5, <2>1, <2>2 DEF ServerInv, TimersArmed
<1>8. CASE e.next # Quit /\ e.next = task[current].state
  <2>1. task' = [task EXCEPT ![current] = k] /\ current' = NoConn
        /\ stuck' = (k.timer = Infinite)
    BY <1>3, <1>4, <1>8 DEF Settle, k
  <2>2. event # "ENTRY" /\ event # "TIMER" => task[current].timer # Infinite
    BY <1>1 DEF ServerInv, TimersArmed
  <2>3. e.timer # Infinite /\ task[current].state \in Timed
    BY <1>1, <1>2, <1>3, <1>8, <2>2, StayingIsTimed
  <2>4. \A c \in Conns : IF c = current THEN task'[c] = k
                         ELSE task'[c] = task[c] /\ (Live(c)' <=> Live(c))
    BY <1>2, <2>1 DEF Live
  <2>5. TimersArmed'
    BY <1>1, <1>4, <2>1, <2>3, <2>4 DEF ServerInv, TimersArmed
  <2> QED BY <1>4, <1>5, <2>1, <2>3, <2>5 DEF ServerInv
<1> QED BY <1>6, <1>7, <1>8

\* An event is thrown at a task whose timer runs, and TIMER alone disables it.
LEMMA ThrowArmed ==
  ASSUME IInv, TimersArmed, current = NoConn, NEW c \in Conns, NEW ev, NEW k,
         Throw(c, ev, k), k.state # Quit,
         ev # "ENTRY" /\ ev # "TIMER" => k.timer # Infinite
  PROVE  TimersArmed' /\ stuck' = stuck
<1>1. task' = [task EXCEPT ![c] = k] /\ current' = c /\ event' = ev /\ stuck' = stuck
      /\ task \in [Conns -> Task] /\ NoConn \notin Conns
  BY ConnsAssumption DEF Throw, IInv, LoopInv, LoopTypeOK
<1>2. \A d \in Conns : d # c => task'[d] = task[d] /\ (Live(d)' <=> Live(d))
  BY <1>1 DEF Live
<1>3. task'[c] = k
  BY <1>1
<1> QED BY <1>1, <1>2, <1>3 DEF TimersArmed

LEMMA EventArmed ==
  ASSUME IInv, TimersArmed, current = NoConn, NEW c \in Conns, Live(c),
         ReadEvent(c) \/ ClosedEvent(c) \/ PollEvent(c) \/ TimerEvent(c)
  PROVE  TimersArmed' /\ stuck' = stuck
<1>1. task[c] \in Task /\ task[c].state # Quit /\ task[c].timer # Infinite
  BY ConnsAssumption DEF IInv, LoopInv, LoopTypeOK, TimersArmed, Live
<1>2. CASE ReadEvent(c)
  <2> DEFINE k == [task[c] EXCEPT !.cbufs = @ + 1]
  <2>1. k.state = task[c].state /\ k.timer = task[c].timer
    BY <1>1 DEF Task
  <2>2. Throw(c, "READ", k)
    BY <1>2 DEF ReadEvent
  <2> HIDE DEF k
  <2> QED BY <1>1, <2>1, <2>2, ThrowArmed
<1>3. CASE ClosedEvent(c)
  <2> DEFINE k == [task[c] EXCEPT !.passive = TRUE]
  <2>1. k.state = task[c].state /\ k.timer = task[c].timer
    BY <1>1 DEF Task
  <2>2. Throw(c, "CLOSED", k)
    BY <1>3 DEF ClosedEvent
  <2> HIDE DEF k
  <2> QED BY <1>1, <2>1, <2>2, ThrowArmed
<1>4. CASE PollEvent(c)
  <2> DEFINE k == [task[c] EXCEPT !.poll = Infinite]
  <2>1. k.state = task[c].state /\ k.timer = task[c].timer
    BY <1>1 DEF Task
  <2>2. Throw(c, "POLL", k)
    BY <1>4 DEF PollEvent
  <2> HIDE DEF k
  <2> QED BY <1>1, <2>1, <2>2, ThrowArmed
<1>5. CASE TimerEvent(c)
  <2> DEFINE k == [task[c] EXCEPT !.timer = Infinite]
  <2>1. k.state = task[c].state
    BY <1>1 DEF Task
  <2>2. Throw(c, "TIMER", k)
    BY <1>5 DEF TimerEvent
  <2> HIDE DEF k
  <2> QED BY <1>1, <2>1, <2>2, ThrowArmed
<1> QED BY <1>2, <1>3, <1>4, <1>5

LEMMA ElapseArmed ==
  ASSUME IInv, TimersArmed, current = NoConn, NEW ms \in Nat, Elapse(ms),
         UNCHANGED <<current, event>>
  PROVE  TimersArmed'
<1>1. ASSUME NEW c \in Conns
      PROVE  task'[c].state = task[c].state /\ task'[c].timer = Less(task[c].timer, ms)
             /\ task[c].timer \in Delta
  <2>1. task[c] \in Task
    BY DEF IInv, LoopInv, LoopTypeOK
  <2>2. task'[c] = [task[c] EXCEPT !.poll = Less(@, ms), !.timer = Less(@, ms)]
    BY DEF Elapse
  <2> QED BY <2>1, <2>2 DEF Task
<1> QED BY <1>1, LessRuns DEF TimersArmed, Live

\* A task more is passed, and at most one socket more is in the read set.
LEMMA BuildKeeps ==
  ASSUME IInv, ServerInv, IsFiniteSet(Conns), Cardinality(Conns) < Cap, Build
  PROVE  ServerInv'
<1>1. /\ Len(tasks) \in Nat /\ Len(readset) \in Nat /\ cursor \in Nat /\ readset \in Seq(Conns)
      /\ tasks[cursor] \in Conns /\ phase = "build" /\ cursor <= Len(tasks)
  BY IInvFacts DEF Build, AtEnd
<1>2. Len(tasks) <= Cardinality(Conns) /\ Cardinality(Conns) \in Nat /\ Cap \in Nat
  BY RingIsSmall, FS_CardinalityType, CapAssumption
<1>3. Len(readset) + 1 < Cap
  BY <1>1, <1>2 DEF ServerInv, ReadsetIsShort
<1>4. /\ readset' = IF task[Here].passive THEN readset ELSE Append(readset, Here)
      /\ cursor' = cursor + 1 /\ stuck' = stuck
      /\ task' = task /\ current' = current /\ event' = event
  BY <1>3 DEF Build
<1>5. Len(readset') <= Len(readset) + 1 /\ Len(readset') \in Nat
  BY <1>1, <1>4 DEF Here
<1>6. ReadsetIsShort'
  BY <1>1, <1>4, <1>5 DEF ServerInv, ReadsetIsShort
<1> QED BY <1>4, <1>6 DEF ServerInv, TimersArmed, Live

LEMMA StepKeeps ==
  ASSUME IInv, ServerInv, ~ Faults, IsFiniteSet(Conns), Cardinality(Conns) < Cap, Step
  PROVE  ServerInv'
<1>1. current = NoConn /\ TimersArmed /\ ~ stuck
  BY DEF Step, ServerInv
<1>2. ASSUME NEW ms \in 0 .. Delay, Poll(ms) \/ Calibrate(sleep + ms) PROVE ServerInv'
  <2>1. sleep \in Nat /\ ms \in Nat /\ sleep + ms \in Nat
    BY IInvFacts, TimeAssumption
  <2>2. PICK d \in {ms, sleep + ms} : Elapse(d)
    BY <1>2 DEF Poll, Calibrate
  <2>3. d \in Nat /\ UNCHANGED <<current, event, stuck>> /\ readset' = <<>> /\ cursor' = 1
    BY <1>2, <2>1, <2>2 DEF Poll, Calibrate, LoopHead
  <2>4. TimersArmed'
    BY <1>1, <2>2, <2>3, ElapseArmed
  <2> QED BY <1>1, <2>3, <2>4 DEF ServerInv, ReadsetIsShort
<1>3. CASE Build
  BY <1>3, BuildKeeps
<1>4. CASE /\ \/ BuildEnd \/ Select \/ AcceptNone \/ ReadSkip \/ ReadEnd \/ ReadQuiet
              \/ SweepRemove \/ SweepNext \/ Rotate
  <2>1. UNCHANGED loopVars /\ phase' # "build"
    BY <1>4 DEF BuildEnd, Select, AcceptNone, ToRead, ReadSkip, ReadEnd, ReadQuiet, Entry,
                Advance, SweepRemove, SweepNext, Rotate
  <2>2. task' = task /\ current' = current /\ event' = event /\ stuck' = stuck
    BY <2>1 DEF loopVars
  <2> QED BY <2>1, <2>2 DEF ServerInv, ReadsetIsShort, TimersArmed, Live
<1>5. CASE AcceptRefuse
  BY <1>5 DEF AcceptRefuse, Refuse, ToRead, ServerInv, ReadsetIsShort, TimersArmed, Live
<1>6. CASE Accept
  <2>1. Throw(Head(backlog), "ENTRY", NewTask) /\ backlog # <<>> /\ backlog \in Seq(Conns)
        /\ phase' = "read"
    BY <1>6 DEF Accept, Admit, ToRead, IInv, LoopInv, LoopTypeOK
  <2>2. Head(backlog) \in Conns
    BY <2>1
  <2>3. NewTask.state # Quit
    BY NewTaskType, StatesAssumption
  <2>4. TimersArmed' /\ stuck' = stuck
    BY <1>1, <2>1, <2>2, <2>3, ThrowArmed
  <2> QED BY <1>1, <2>1, <2>4 DEF ServerInv, ReadsetIsShort
<1>7. CASE Read
  <2>1. Entry /\ (ReadEvent(tasks[cursor]) \/ ClosedEvent(tasks[cursor])) /\ phase' # "build"
    BY <1>7 DEF Read, Here, Entry, Advance
  <2>2. tasks[cursor] \in Conns /\ Live(tasks[cursor])
    BY <2>1, EntryLive
  <2>3. TimersArmed' /\ stuck' = stuck
    BY <1>1, <2>1, <2>2, EventArmed
  <2> QED BY <1>1, <2>1, <2>3 DEF ServerInv, ReadsetIsShort
<1>8. CASE SweepPoll \/ SweepTimer
  <2> DEFINE c == tasks[cursor]
  <2>1. c \in Conns /\ phase' # "build"
    <3>1. cursor <= Len(tasks)
      BY <1>8 DEF SweepPoll, SweepTimer, AtEnd, IInv, IndicesInRange
    <3> QED BY <1>8, <3>1, IInvFacts DEF SweepPoll, SweepTimer, At
  <2>2. SUFFICES TimersArmed' /\ stuck' = stuck
    BY <1>1, <2>1 DEF ServerInv, ReadsetIsShort
  <2>3. CASE SweepPoll
    <3>1. Live(c) /\ IF task[c].poll = 0 THEN PollEvent(c) ELSE UNCHANGED loopVars
      BY <2>3 DEF SweepPoll, Here
    <3>2. CASE task[c].poll = 0
      <4>1. PollEvent(c) /\ Live(c)
        BY <3>1, <3>2
      <4> QED BY <1>1, <2>1, <4>1, EventArmed
    <3>3. CASE task[c].poll # 0
      <4>1. task' = task /\ current' = current /\ event' = event /\ stuck' = stuck
        BY <3>1, <3>3 DEF loopVars
      <4> QED BY <1>1, <4>1 DEF ServerInv, TimersArmed, Live
    <3> QED BY <3>2, <3>3
  <2>4. CASE SweepTimer
    <3>1. IF task[c].timer = 0 THEN TimerEvent(c) ELSE UNCHANGED loopVars
      BY <2>4 DEF SweepTimer, Here
    <3>2. CASE task[c].timer = 0
      <4>1. TimerEvent(c)
        BY <3>1, <3>2
      <4>2. NoTask.timer # 0
        BY BoundsAssumption DEF NoTask
      <4>3. ~ Live(c) => task[c] = NoTask
        BY <2>1, IInvFacts
      <4>4. Live(c)
        <5> HIDE DEF c
        <5> QED BY <3>2, <4>2, <4>3
      <4> QED BY <1>1, <2>1, <4>1, <4>4, EventArmed
    <3>3. CASE task[c].timer # 0
      <4>1. task' = task /\ current' = current /\ event' = event /\ stuck' = stuck
        BY <3>1, <3>3 DEF loopVars
      <4> QED BY <1>1, <4>1 DEF ServerInv, TimersArmed, Live
    <3> QED BY <3>2, <3>3
  <2> QED BY <1>8, <2>3, <2>4
<1> QED BY <1>2, <1>3, <1>4, <1>5, <1>6, <1>7, <1>8 DEF Step, ReadNoCbuf

LEMMA OthersKeep ==
  ASSUME IInv, ServerInv, Environment \/ UNCHANGED vars
  PROVE  ServerInv'
BY DEF Environment, vars, loopVars, execVars, ServerInv, TimersArmed, ReadsetIsShort, Live

LEMMA AgedIsSpec == AgedSpec => Spec
<1>1. AgedInit => Init
  BY DEF AgedInit
<1>2. [Clock \/ Rest]_agedVars => [Next]_vars
  <2>1. Clock => Next
    BY DEF Clock, Next, Step
  <2>2. Rest => Next
    BY DEF Rest
  <2>3. UNCHANGED agedVars => UNCHANGED vars
    BY DEF agedVars
  <2> QED BY <2>1, <2>2, <2>3
<1> QED BY <1>1, <1>2, PTL DEF AgedSpec, Spec

\* As long as there are fewer peers than places for clients and memory is not short,
\* no assertion and no endless loop of scheduler.c (lines 116, 142 and 268) stops the
\* server of HTTP clients. With a peer for each place it may: line 142.
THEOREM ServerNeverStops ==
  ASSUME ~ Faults, IsFiniteSet(Conns), Cardinality(Conns) < Cap
  PROVE  AgedSpec => []NeverStuck
<1>1. Init => ServerInv
  BY NoTaskType DEF Init, LoopInit, ServerInv, TimersArmed, ReadsetIsShort, Live
<1>2. ASSUME IInv, ServerInv, [Next]_vars PROVE ServerInv'
  BY <1>2, StepKeeps, SettleArmed, OthersKeep DEF Next
<1>3. ServerInv => NeverStuck
  BY DEF ServerInv, NeverStuck
<1> QED BY <1>1, <1>2, <1>3, SpecIInv, AgedIsSpec, PTL DEF Spec
-----------------------------------------------------------------------------
(* The age of a state and its timer.                                       *)

\* The timer of the state has been armed, and is not being handled.
Armed(c) == ~ (current = c /\ event \in {"ENTRY", "TIMER"})

\* While the timer of a state runs it and the age add up to what it was armed with.
\* It runs out with the sleep or the handlers of one exec, and is found by the sweep
\* of the next one, before which the application may have taken its time.
OnTime(c) ==
  LET T == TimerOf(task[c].state)
      t == task[c].timer
  IN  /\ t \in 0 .. T
      /\ t > 0 => age[c] + t = T
      /\ t = 0 => T <= age[c] /\ age[c] <= T + (IF phase = "app" THEN Delay ELSE 2 * Delay)
      /\ phase \notin {"app", "build"} => sleep <= t
      /\ phase = "calibrate" => t > 0

Timely(c) ==
  /\ current = c /\ event = "ENTRY" => age[c] = 0
  /\ current = c /\ event = "TIMER" =>
       TimerOf(task[c].state) <= age[c] /\ age[c] <= TimerOf(task[c].state) + 2 * Delay
  /\ Armed(c) => OnTime(c)

\* The sweep leaves no timer behind that has run out.
SweptRun ==
  phase \in {"sweep", "timer", "next"} =>
    \A i \in 1 .. Len(tasks) :
      /\ i < cursor \/ (i = cursor /\ phase = "next")
      /\ task[tasks[i]].state \in Timed /\ Armed(tasks[i])
      => task[tasks[i]].timer > 0

TimesInv ==
  /\ age \in [Conns -> Nat]
  /\ \A c \in Conns : task[c].state \in Timed => Timely(c)
  /\ SweptRun

\* An xxxws_poll that is to take longer than a timer could outlast it by its sleep.
TimersOutlastPoll == Interval <= ReceiveTimer /\ Interval <= RespondTimer

LEMMA TimerIs ==
  ASSUME TimersOutlastPoll, NEW s
  PROVE  /\ TimerOf(s) \in Nat /\ TimerOf(s) > 0 /\ Interval <= TimerOf(s)
         /\ TimerOf(s) < Infinite /\ Infinite \in Nat /\ Delay \in Nat /\ Delay > 0
         /\ MaxAge \in Nat /\ MaxAge = Infinite + 2 * Delay
  BY TimersAssumption, BoundsAssumption, TimeAssumption DEF TimersOutlastPoll, TimerOf, MaxAge

LEMMA TimedIsLive ==
  ASSUME NEW c \in Conns, task[c].state \in Timed
  PROVE  Live(c)
  BY HttpAssumption, StatesAssumption DEF Live, Timed, HttpStateNames

\* Timers and ages are bounded, so that the cap of the age is never met.
LEMMA AgeIsBounded ==
  ASSUME TimersOutlastPoll, TimesInv, NEW c \in Conns, task[c].state \in Timed
  PROVE  age[c] \in Nat /\ age[c] <= TimerOf(task[c].state) + 2 * Delay
<1> DEFINE T == TimerOf(task[c].state)
           a == age[c]
<1>1. Timely(c) /\ a \in Nat
  BY DEF TimesInv
<1>2. T \in Nat /\ Delay \in Nat
  BY TimerIs
<1>3. CASE Armed(c)
  <2> DEFINE t == task[c].timer
  <2>1. /\ t \in 0 .. T /\ (t > 0 => a + t = T)
        /\ t = 0 => a <= T + (IF phase = "app" THEN Delay ELSE 2 * Delay)
    BY <1>1, <1>3 DEF Timely, OnTime
  <2> HIDE DEF t, a, T
  <2>2. a <= T + 2 * Delay
    BY <1>1, <1>2, <2>1
  <2> QED BY <1>1, <2>2 DEF a, T
<1>4. CASE ~ Armed(c)
  <2>1. a = 0 \/ a <= T + 2 * Delay
    BY <1>1, <1>4 DEF Timely, Armed
  <2> HIDE DEF a, T
  <2>2. a <= T + 2 * Delay
    BY <1>2, <2>1
  <2> QED BY <1>1, <2>2 DEF a, T
<1> QED BY <1>3, <1>4

LEMMA LesserIs ==
  ASSUME NEW m \in Nat, NEW n \in Nat
  PROVE  Lesser(m, n) \in Nat /\ (m <= n => Lesser(m, n) = m)
  BY DEF Lesser

\* A step that takes no time leaves the age of a state that stays, and starts a new one at 0.
LEMMA NoTimePasses ==
  ASSUME TimersOutlastPoll, TimesInv, Passes(0)
  PROVE  /\ age' \in [Conns -> Nat]
         /\ \A c \in Conns : task'[c].state # task[c].state => age'[c] = 0
         /\ \A c \in Conns : task[c].state \in Timed /\ task'[c].state = task[c].state
                               => age'[c] = age[c]
<1>1. \A c \in Conns : age[c] \in Nat
  BY DEF TimesInv
<1>2. MaxAge \in Nat
  BY TimerIs
<1>3. ASSUME NEW c \in Conns PROVE Lesser(age[c] + 0, MaxAge) \in Nat
  <2>1. age[c] + 0 \in Nat
    BY <1>1
  <2> QED BY <1>2, <2>1, LesserIs
<1>4. ASSUME NEW c \in Conns, task[c].state \in Timed, task'[c].state = task[c].state
      PROVE  age'[c] = age[c]
  <2> DEFINE a == age[c]
             T == TimerOf(task[c].state)
  <2>1. a \in Nat /\ a <= T + 2 * Delay
    BY <1>4, AgeIsBounded
  <2>2. T \in Nat /\ T < Infinite /\ MaxAge = Infinite + 2 * Delay /\ Delay \in Nat /\ Infinite \in Nat
    BY TimerIs
  <2>3. age'[c] = Lesser(a + 0, MaxAge)
    BY <1>4, TimedIsLive DEF Passes
  <2> HIDE DEF a, T
  <2>4. Lesser(a + 0, MaxAge) = a
    <3>1. a + 0 = a /\ a <= MaxAge
      BY <2>1, <2>2
    <3> QED BY <2>1, <2>2, <3>1, LesserIs
  <2> QED BY <2>3, <2>4 DEF a
<1>5. age' \in [Conns -> Nat]
  BY <1>3 DEF Passes
<1>6. \A c \in Conns : task'[c].state # task[c].state => age'[c] = 0
  BY DEF Passes
<1> QED BY <1>4, <1>5, <1>6

\* What a step has to show of the countdowns it leaves alone.
LEMMA StaysOnTime ==
  ASSUME TimersOutlastPoll, TimesInv, Passes(0), NEW c \in Conns,
         task[c].state \in Timed, task'[c].state = task[c].state, task'[c].timer = task[c].timer,
         Armed(c), phase' = "app" => phase = "app",
         phase' \notin {"app", "build"} => sleep' <= task[c].timer,
         phase' = "calibrate" => task[c].timer > 0
  PROVE  OnTime(c)'
<1> DEFINE T == TimerOf(task[c].state)
           t == task[c].timer
<1>1. age'[c] = age[c] /\ age[c] \in Nat
  BY NoTimePasses DEF TimesInv
<1>2. OnTime(c)
  BY DEF TimesInv, Timely
<1>3. T \in Nat /\ Delay \in Nat
  BY TimerIs
<1>4. /\ t \in 0 .. T /\ (t > 0 => age[c] + t = T)
      /\ t = 0 => T <= age[c] /\ age[c] <= T + (IF phase = "app" THEN Delay ELSE 2 * Delay)
  BY <1>2 DEF OnTime
<1>5. t = 0 => age[c] <= T + (IF phase' = "app" THEN Delay ELSE 2 * Delay)
  <2> HIDE DEF t, T
  <2> QED BY <1>1, <1>3, <1>4
<1> QED BY <1>1, <1>4, <1>5 DEF OnTime

-----------------------------------------------------------------------------
\* Steps that look at tasks and throw no event.
LEMMA LookKeepsTimes ==
  ASSUME TimersOutlastPoll, TimesInv, Passes(0), UNCHANGED <<task, current, event>>,
         phase' = "app" => phase = "app",
         \A c \in Conns : task[c].state \in Timed /\ Armed(c) =>
            /\ phase' \notin {"app", "build"} => sleep' <= task[c].timer
            /\ phase' = "calibrate" => task[c].timer > 0,
         SweptRun'
  PROVE  TimesInv'
<1>1. ASSUME NEW c \in Conns, task'[c].state \in Timed PROVE Timely(c)'
  <2>1. age'[c] = age[c] /\ Timely(c)
    BY <1>1, NoTimePasses DEF TimesInv
  <2>2. Armed(c)' <=> Armed(c)
    BY DEF Armed
  <2>3. Armed(c) => OnTime(c)'
    BY <1>1, StaysOnTime
  <2> QED BY <2>1, <2>2, <2>3 DEF Timely
<1> QED BY <1>1, NoTimePasses DEF TimesInv

\* The same when neither the phase nor the ring moves.
LEMMA RestKeepsTimes ==
  ASSUME TimersOutlastPoll, TimesInv, Passes(0),
         UNCHANGED <<task, current, event, phase, sleep, tasks, cursor>>
  PROVE  TimesInv'
<1>1. SweptRun'
  BY DEF TimesInv, SweptRun, Armed
<1>2. \A c \in Conns : task[c].state \in Timed /\ Armed(c) =>
            /\ phase' \notin {"app", "build"} => sleep' <= task[c].timer
            /\ phase' = "calibrate" => task[c].timer > 0
  BY DEF TimesInv, Timely, OnTime
<1> QED BY <1>1, <1>2, LookKeepsTimes

LEMMA EventIs ==
  ASSUME IInv, current = NoConn, NEW c \in Conns, Live(c),
         ReadEvent(c) \/ ClosedEvent(c) \/ PollEvent(c) \/ TimerEvent(c)
  PROVE  /\ current' = c /\ event' \in {"READ", "CLOSED", "POLL", "TIMER"}
         /\ \A d \in Conns : task'[d].state = task[d].state
         /\ \A d \in Conns : d # c => task'[d] = task[d]
         /\ event' # "TIMER" => task'[c].timer = task[c].timer
         /\ event' = "TIMER" => task[c].timer = 0
<1>1. task \in [Conns -> Task] /\ task[c] \in Task /\ task[c].state # Quit
  BY DEF IInv, LoopInv, LoopTypeOK, Live
<1>2. ASSUME NEW ev, NEW k, Throw(c, ev, k), k.state = task[c].state
      PROVE  /\ current' = c /\ event' = ev /\ task'[c] = k
             /\ \A d \in Conns : task'[d].state = task[d].state
             /\ \A d \in Conns : d # c => task'[d] = task[d]
  BY <1>1, <1>2 DEF Throw
<1>3. CASE ReadEvent(c)
  <2> DEFINE k == [task[c] EXCEPT !.cbufs = @ + 1]
  <2>1. Throw(c, "READ", k) /\ k.state = task[c].state /\ k.timer = task[c].timer
    BY <1>1, <1>3 DEF ReadEvent, Task
  <2> HIDE DEF k
  <2> QED BY <1>2, <2>1
<1>4. CASE ClosedEvent(c)
  <2> DEFINE k == [task[c] EXCEPT !.passive = TRUE]
  <2>1. Throw(c, "CLOSED", k) /\ k.state = task[c].state /\ k.timer = task[c].timer
    BY <1>1, <1>4 DEF ClosedEvent, Task
  <2> HIDE DEF k
  <2> QED BY <1>2, <2>1
<1>5. CASE PollEvent(c)
  <2> DEFINE k == [task[c] EXCEPT !.poll = Infinite]
  <2>1. Throw(c, "POLL", k) /\ k.state = task[c].state /\ k.timer = task[c].timer
    BY <1>1, <1>5 DEF PollEvent, Task
  <2> HIDE DEF k
  <2> QED BY <1>2, <2>1
<1>6. CASE TimerEvent(c)
  <2> DEFINE k == [task[c] EXCEPT !.timer = Infinite]
  <2>1. Throw(c, "TIMER", k) /\ k.state = task[c].state /\ task[c].timer = 0
    BY <1>1, <1>6 DEF TimerEvent, Task
  <2> HIDE DEF k
  <2> QED BY <1>2, <2>1
<1> QED BY <1>3, <1>4, <1>5, <1>6

\* An event leaves the countdown of the timer alone, or is the timer's.
LEMMA EventKeepsTimes ==
  ASSUME TimersOutlastPoll, IInv, TimesInv, Passes(0), current = NoConn, NEW c \in Conns, Live(c),
         ReadEvent(c) \/ ClosedEvent(c) \/ PollEvent(c) \/ TimerEvent(c),
         sleep' = sleep, phase \notin {"app", "build", "calibrate"},
         phase' \notin {"app", "calibrate"}, SweptRun'
  PROVE  TimesInv'
<1>1. \A d \in Conns : Armed(d)
  BY ConnsAssumption DEF Armed
<1>2. ASSUME NEW d \in Conns, task'[d].state \in Timed PROVE Timely(d)'
  <2>1. /\ task[d].state \in Timed /\ task'[d].state = task[d].state
        /\ current' = c /\ event' # "ENTRY"
    BY <1>2, EventIs
  <2>2. OnTime(d) /\ age'[d] = age[d]
    BY <1>1, <2>1, NoTimePasses DEF TimesInv, Timely
  <2>3. sleep <= task[d].timer
    BY <2>2 DEF OnTime
  <2>4. CASE d = c /\ event' = "TIMER"
    <3>1. task[d].timer = 0
      BY <2>4, EventIs
    <3>2. TimerOf(task[d].state) <= age[d] /\ age[d] <= TimerOf(task[d].state) + 2 * Delay
      BY <2>2, <3>1 DEF OnTime
    <3> QED BY <2>1, <2>2, <2>4, <3>2 DEF Timely, Armed
  <2>5. CASE ~ (d = c /\ event' = "TIMER")
    <3>1. task'[d].timer = task[d].timer
      BY <2>5, EventIs
    <3>2. OnTime(d)'
      BY <1>1, <2>1, <2>3, <3>1, StaysOnTime
    <3> QED BY <2>1, <2>5, <3>2 DEF Timely
  <2> QED BY <2>4, <2>5
<1> QED BY <1>2, NoTimePasses DEF TimesInv

\* A handler starts a state, whose age is then 0, arms its timer, or leaves it alone.
LEMMA SettleKeepsTimes ==
  ASSUME TimersOutlastPoll, IInv, TimesInv, Passes(0), Handle
  PROVE  TimesInv'
<1>1. /\ current \in Conns /\ current # NoConn /\ event \in Events /\ task[current] \in Task
      /\ task[current].state # Quit /\ UNCHANGED execVars /\ Return
  BY ConnsAssumption DEF Handle, Return, IInv, LoopInv, LoopTypeOK, DestroyedIsClean, Live
<1>2. /\ task \in [Conns -> Task] /\ task[current].state \in States
      /\ task[current].poll \in Delta /\ task[current].timer \in Delta
      /\ UNCHANGED <<phase, sleep, tasks, cursor>>
  BY <1>1 DEF IInv, LoopInv, LoopTypeOK, Task, execVars
<1>3. PICK e \in Effects(task[current].state, event, task[current].poll, task[current].timer) :
        Settle(current, e)
  BY <1>1 DEF Return
<1> DEFINE k == [task[current] EXCEPT !.poll = e.poll, !.timer = e.timer,
                                      !.cbufs = IF e.take THEN 0 ELSE @]
           l == [k EXCEPT !.state = e.next, !.poll = Infinite, !.timer = Infinite]
<1>4. k.state = task[current].state /\ k.timer = e.timer /\ l.state = e.next
  BY <1>1 DEF Task
<1>5. \/ e.next = Quit /\ task' = [task EXCEPT ![current] = NoTask] /\ current' = NoConn
      \/ /\ e.next # Quit /\ e.next # task[current].state
         /\ task' = [task EXCEPT ![current] = l] /\ current' = current /\ event' = "ENTRY"
      \/ /\ e.next = task[current].state /\ task' = [task EXCEPT ![current] = k]
         /\ current' = NoConn
  BY <1>3, <1>4 DEF Settle
<1> HIDE DEF k, l
<1>6. /\ \A d \in Conns : d # current => task'[d] = task[d]
      /\ \/ task'[current] = NoTask /\ current' = NoConn
         \/ /\ task'[current].state # task[current].state
            /\ current' = current /\ event' = "ENTRY"
         \/ /\ e.next = task[current].state /\ task'[current].state = task[current].state
            /\ task'[current].timer = e.timer /\ current' = NoConn
  BY <1>1, <1>2, <1>4, <1>5
<1>7. NoTask.state \notin Timed
  BY HttpAssumption, StatesAssumption DEF NoTask, Timed, HttpStateNames
<1>8. ASSUME e.next = task[current].state
      PROVE  /\ task[current].state \in Timed
             /\ event = "ENTRY" => e.timer = TimerOf(task[current].state)
             /\ event # "ENTRY" => Armed(current) /\ e.timer = task[current].timer
  <2>1. /\ task[current].state \in Timed
        /\ event = "ENTRY" => e.timer = TimerOf(task[current].state)
        /\ event # "ENTRY" => event \in {"READ", "POLL"} /\ e.timer = task[current].timer
    BY <1>1, <1>2, <1>3, <1>8, StayingIs
  <2> QED BY <2>1 DEF Armed
<1>9. ASSUME NEW d \in Conns, task'[d].state \in Timed PROVE Timely(d)'
  <2>1. CASE d # current
    <3>1. task'[d] = task[d] /\ task[d].state \in Timed /\ Armed(d) /\ current' # d
      BY <1>1, <1>6, <1>9, <2>1, ConnsAssumption DEF Armed
    <3>2. OnTime(d)
      BY <3>1 DEF TimesInv, Timely
    <3>3. OnTime(d)'
      BY <1>2, <3>1, <3>2, StaysOnTime DEF OnTime
    <3> QED BY <3>1, <3>3 DEF Timely
  <2>2. CASE d = current /\ task'[current].state # task[current].state
    <3>1. current' = current /\ event' = "ENTRY"
      BY <1>6, <1>7, <1>9, <2>2
    <3>2. age'[d] = 0
      BY <2>2, NoTimePasses
    <3> QED BY <2>2, <3>1, <3>2 DEF Timely, Armed
  <2>3. CASE d = current /\ task'[current].state = task[current].state
    <3>1. /\ e.next = task[current].state /\ task'[current].timer = e.timer
          /\ current' = NoConn
      BY <1>1, <1>6, <1>7, <1>9, <2>3 DEF NoTask
    <3>2. CASE event = "ENTRY"
      <4> DEFINE T == TimerOf(task[current].state)
      <4>1. task'[d].timer = T /\ age'[d] = 0
        BY <1>1, <1>8, <2>3, <3>1, <3>2, NoTimePasses DEF TimesInv, Timely
      <4>2. sleep' \in 0 .. Interval /\ T \in Nat /\ T > 0 /\ Interval <= T
        BY <1>2, IInvFacts, TimerIs
      <4>3. T \in 0 .. T /\ 0 + T = T /\ sleep' <= T /\ T # 0
        BY <4>2, TimeAssumption
      <4>4. OnTime(d)'
        <5> HIDE DEF T
        <5> SUFFICES TimerOf(task'[d].state) = T
          BY <4>1, <4>2, <4>3 DEF OnTime
        <5> QED BY <2>3 DEF T
      <4> QED BY <1>1, <3>1, <4>4, ConnsAssumption DEF Timely
    <3>3. CASE event # "ENTRY"
      <4>1. Armed(d) /\ task'[d].timer = task[d].timer /\ task[d].state \in Timed
        BY <1>8, <2>3, <3>1, <3>3
      <4>2. OnTime(d)
        BY <4>1 DEF TimesInv, Timely
      <4>3. OnTime(d)'
        BY <1>2, <2>3, <4>1, <4>2, StaysOnTime DEF OnTime
      <4> QED BY <1>1, <2>3, <3>1, <4>3, ConnsAssumption DEF Timely
    <3> QED BY <3>2, <3>3
  <2> QED BY <2>1, <2>2, <2>3
<1>10. SweptRun'
  <2>1. SUFFICES ASSUME phase \in {"sweep", "timer", "next"}, NEW i \in 1 .. Len(tasks),
                        i < cursor \/ (i = cursor /\ phase = "next"),
                        task'[tasks[i]].state \in Timed, Armed(tasks[i])'
                 PROVE  task'[tasks[i]].timer > 0
    BY <1>2 DEF SweptRun
  <2> DEFINE d == tasks[i]
  <2>2. d \in Conns
    BY IInvFacts
  <2>3. task[d].state \in Timed /\ Armed(d) => task[d].timer > 0
    BY <2>1 DEF TimesInv, SweptRun
  <2>4. CASE d # current
    BY <1>6, <2>1, <2>2, <2>3, <2>4 DEF Armed
  <2>5. CASE d = current
    <3>1. /\ e.next = task[current].state /\ task'[d].timer = e.timer
      BY <1>2, <1>6, <1>7, <2>1, <2>5 DEF Armed
    <3>2. TimerOf(task[current].state) > 0
      BY TimerIs
    <3> QED BY <1>8, <2>3, <2>5, <3>1, <3>2
  <2> QED BY <2>4, <2>5
<1> QED BY <1>9, <1>10, NoTimePasses DEF TimesInv

\* What d milliseconds do to a countdown t of T that was armed a milliseconds ago.
LEMMA CountsDown ==
  ASSUME NEW T \in Nat, NEW t \in 0 .. T, NEW a \in Nat, NEW d \in Nat, NEW D \in Nat,
         T < Infinite, t > 0 => a + t = T, t = 0 => T <= a /\ a <= T + D, d <= t + D
  PROVE  /\ Less(t, d) \in 0 .. T
         /\ Less(t, d) > 0 => a + d + Less(t, d) = T
         /\ Less(t, d) = 0 => T <= a + d /\ a + d <= T + 2 * D
         /\ Less(t, d) = 0 /\ t > 0 => a + d <= T + D
         /\ a + d <= T + 2 * D
<1>1. t # Infinite
  BY BoundsAssumption
<1>2. CASE t > d
  <2>1. Less(t, d) = t - d
    BY <1>1, <1>2 DEF Less
  <2> QED BY <1>2, <2>1
<1>3. CASE ~ (t > d)
  <2>1. Less(t, d) = 0
    BY <1>1, <1>3 DEF Less
  <2> QED BY <1>3, <2>1
<1> QED BY <1>2, <1>3

\* Time passes between two execs, or with the end of one.
LEMMA ClockKeepsTimes ==
  ASSUME TimersOutlastPoll, IInv, TimesInv, Clock
  PROVE  TimesInv'
<1>1. PICK ms \in 0 .. Delay : \/ Poll(ms) /\ Passes(ms)
                               \/ Calibrate(sleep + ms) /\ Passes(sleep + ms)
  BY DEF Clock
<1>2. sleep \in Nat /\ ms \in Nat /\ ms <= Delay /\ Delay \in Nat
  BY IInvFacts, TimeAssumption
<1>3. PICK d \in Nat :
        /\ Elapse(d) /\ Passes(d) /\ UNCHANGED <<current, event>>
        /\ \/ phase = "app" /\ d = ms /\ phase' = "build"
           \/ phase = "calibrate" /\ d = sleep + ms /\ phase' \in {"app", "build"}
  <2>1. CASE Poll(ms) /\ Passes(ms)
    BY <1>2, <2>1, TimeAssumption DEF Poll, LoopHead
  <2>2. CASE Calibrate(sleep + ms) /\ Passes(sleep + ms)
    <3>1. sleep + ms \in Nat
      BY <1>2
    <3> QED BY <2>2, <3>1 DEF Calibrate, LoopHead
  <2> QED BY <1>1, <2>1, <2>2
<1>4. current = NoConn /\ current' = NoConn
  BY <1>3 DEF Clock
<1>5. \A c \in Conns : Armed(c)
  BY <1>4, ConnsAssumption DEF Armed
<1>6. MaxAge \in Nat
  BY TimerIs
<1>7. \A c \in Conns : age[c] \in Nat
  BY DEF TimesInv
<1>8. ASSUME NEW c \in Conns
      PROVE  /\ task'[c].state = task[c].state /\ task'[c].timer = Less(task[c].timer, d)
             /\ age'[c] = IF ~ Live(c) THEN 0 ELSE Lesser(age[c] + d, MaxAge)
  <2>1. task[c] \in Task
    BY DEF IInv, LoopInv, LoopTypeOK
  <2>2. task'[c] = [task[c] EXCEPT !.poll = Less(@, d), !.timer = Less(@, d)]
    BY <1>3 DEF Elapse
  <2>3. task'[c].state = task[c].state /\ task'[c].timer = Less(task[c].timer, d)
    BY <2>1, <2>2 DEF Task
  <2> QED BY <1>3, <2>3 DEF Passes
<1>9. age' \in [Conns -> Nat]
  <2>1. ASSUME NEW c \in Conns PROVE Lesser(age[c] + d, MaxAge) \in Nat
    <3>1. age[c] + d \in Nat
      BY <1>7
    <3> QED BY <1>6, <3>1, LesserIs
  <2> QED BY <1>3, <2>1 DEF Passes
<1>10. ASSUME NEW c \in Conns, task'[c].state \in Timed PROVE Timely(c)'
  <2> DEFINE T == TimerOf(task[c].state)
             t == task[c].timer
             a == age[c]
             u == Less(t, d)
  <2>1. task[c].state \in Timed /\ Live(c)
    BY <1>8, <1>10, TimedIsLive
  <2>2. OnTime(c)
    BY <1>5, <2>1 DEF TimesInv, Timely
  <2>3. /\ T \in Nat /\ T < Infinite /\ Infinite \in Nat
        /\ MaxAge = Infinite + 2 * Delay /\ a \in Nat /\ d \in Nat /\ Delay \in Nat
    BY <1>3, <1>7, TimerIs
  <2>4. /\ t \in 0 .. T /\ (t > 0 => a + t = T)
        /\ t = 0 => T <= a /\ a <= T + (IF phase = "app" THEN Delay ELSE 2 * Delay)
        /\ phase = "calibrate" => t > 0 /\ sleep <= t
    BY <2>2 DEF OnTime
  <2>5. (t = 0 => phase = "app" /\ a <= T + Delay) /\ d <= t + Delay
    <3> HIDE DEF t, T, a
    <3> QED BY <1>2, <1>3, <2>3, <2>4
  <2>6. /\ u \in 0 .. T /\ (u > 0 => a + d + u = T)
        /\ u = 0 => T <= a + d /\ a + d <= T + 2 * Delay
        /\ u = 0 /\ t > 0 => a + d <= T + Delay
        /\ a + d <= T + 2 * Delay
    <3> HIDE DEF t, T, a
    <3>1. /\ t \in 0 .. T /\ (t > 0 => a + t = T) /\ (t = 0 => T <= a /\ a <= T + Delay)
          /\ T \in Nat /\ T < Infinite /\ a \in Nat /\ d \in Nat /\ Delay \in Nat
          /\ d <= t + Delay
      BY <2>3, <2>4, <2>5
    <3> QED BY <3>1, CountsDown
  <2>7. age'[c] = a + d
    <3>1. a + d \in Nat /\ a + d <= MaxAge
      <4> HIDE DEF t, T, a, u
      <4> QED BY <2>3, <2>6
    <3>2. age'[c] = Lesser(a + d, MaxAge)
      BY <1>8, <2>1
    <3> QED BY <1>6, <3>1, <3>2, LesserIs
  <2>8. task'[c].timer = u /\ task'[c].state = task[c].state
    BY <1>8
  <2>9. u = 0 => a + d <= T + (IF phase' = "app" THEN Delay ELSE 2 * Delay)
    <3>1. phase' = "app" => t > 0
      BY <1>3, <2>4
    <3> HIDE DEF t, T, a, u
    <3> QED BY <2>3, <2>4, <2>6, <3>1
  <2>10. phase' \in {"app", "build"}
    BY <1>3
  <2>11. OnTime(c)'
    <3>1. TimerOf(task'[c].state) = T
      BY <2>8
    <3> HIDE DEF t, T, a, u
    <3> QED BY <2>6, <2>7, <2>8, <2>9, <2>10, <3>1 DEF OnTime
  <2> QED BY <1>4, <2>11, ConnsAssumption DEF Timely
<1>11. SweptRun'
  BY <1>3 DEF SweptRun
<1> QED BY <1>9, <1>10, <1>11 DEF TimesInv

\* The other steps of the loop.
LEMMA LoopKeepsTimes ==
  ASSUME TimersOutlastPoll, IInv, IInv', TimesInv, Passes(0), Step,
         phase \in {"app", "calibrate"} => phase' = phase
  PROVE  TimesInv'
<1>1. current = NoConn
  BY DEF Step
<1>2. \A c \in Conns : task[c].state \in Timed => Armed(c) /\ OnTime(c)
  BY <1>1, ConnsAssumption DEF TimesInv, Timely, Armed
<1>3. ASSUME NEW ms \in Nat, Poll(ms) \/ Calibrate(ms) PROVE FALSE
  BY <1>3, TimeAssumption DEF Poll, Calibrate, LoopHead
<1>4. phase \notin {"app", "calibrate"} =>
        \A c \in Conns : task[c].state \in Timed /\ phase # "build" => sleep <= task[c].timer
  BY <1>2 DEF OnTime
<1>5. CASE Build
  <2>1. UNCHANGED <<task, current, event, phase>> /\ phase = "build"
    BY <1>5 DEF Build
  <2> QED BY <2>1, LookKeepsTimes DEF SweptRun
<1>6. CASE BuildEnd
  <2>1. UNCHANGED <<task, current, event>> /\ phase' = "select" /\ NoOversleep'
    BY <1>6 DEF BuildEnd, loopVars, IInv
  <2>2. \A c \in Conns : sleep' <= task[c].timer
    BY <2>1 DEF NoOversleep
  <2> QED BY <2>1, <2>2, LookKeepsTimes DEF SweptRun
<1>7. CASE Select
  <2>1. UNCHANGED <<task, current, event>> /\ phase = "select" /\ phase' = "accept"
    BY <1>7 DEF Select, loopVars
  <2>2. sleep \in Nat /\ sleep' \in Nat /\ sleep' <= sleep
    BY <1>7, IInvFacts, TimeAssumption DEF Select
  <2>3. \A c \in Conns : task[c].timer \in Nat
    BY IInvFacts, BoundsAssumption DEF Delta
  <2>4. \A c \in Conns : task[c].state \in Timed => sleep' <= task[c].timer
    BY <1>4, <2>1, <2>2, <2>3
  <2> QED BY <2>1, <2>4, LookKeepsTimes DEF SweptRun
<1>8. CASE AcceptNone \/ AcceptRefuse
  <2>1. UNCHANGED <<task, current, event, sleep>> /\ phase = "accept" /\ phase' = "read"
    BY <1>8 DEF AcceptNone, AcceptRefuse, Refuse, ToRead, loopVars
  <2> QED BY <1>4, <2>1, LookKeepsTimes DEF SweptRun
<1>9. CASE ReadSkip \/ ReadEnd \/ ReadQuiet \/ ReadNoCbuf
  <2>1. /\ UNCHANGED <<task, current, event, sleep, tasks>> /\ phase = "read"
        /\ phase' = "read" \/ (phase' = "sweep" /\ cursor' = 1)
    BY <1>9 DEF ReadSkip, ReadEnd, ReadQuiet, ReadNoCbuf, Entry, Advance, loopVars, execVars
  <2>2. SweptRun'
    BY <2>1 DEF SweptRun
  <2> QED BY <1>4, <2>1, <2>2, LookKeepsTimes
<1>10. CASE SweepRemove
  <2>1. /\ UNCHANGED <<task, current, event, sleep, cursor, phase>> /\ phase = "sweep"
        /\ tasks' = Without(tasks, cursor) /\ cursor \in 1 .. Len(tasks)
    BY <1>10, IInvFacts DEF SweepRemove, AtEnd, loopVars, Without
  <2>2. \A i \in 1 .. Len(tasks') : i < cursor => tasks'[i] = tasks[i]
    BY <2>1, IInvFacts, WithoutProperties
  <2>3. \A i \in 1 .. Len(tasks') : i < cursor => i \in 1 .. Len(tasks)
    BY <2>1, IInvFacts
  <2>4. SweptRun'
    BY <2>1, <2>2, <2>3 DEF TimesInv, SweptRun, Armed
  <2> QED BY <1>4, <2>1, <2>4, LookKeepsTimes
<1>11. CASE SweepNext
  <2>1. /\ UNCHANGED <<task, current, event, sleep, tasks>> /\ phase = "next" /\ phase' = "sweep"
        /\ cursor' = cursor \/ cursor' = cursor + 1
    BY <1>11 DEF SweepNext, loopVars
  <2>2. \A i \in 1 .. Len(tasks) : i < cursor' => i < cursor \/ i = cursor
    BY <2>1, IInvFacts
  <2>3. SweptRun'
    BY <2>1, <2>2 DEF TimesInv, SweptRun, Armed
  <2> QED BY <1>4, <2>1, <2>3, LookKeepsTimes
<1>12. CASE Rotate
  <2>1. /\ UNCHANGED <<task, current, event, sleep>> /\ phase = "sweep" /\ phase' = "calibrate"
        /\ cursor > Len(tasks)
    BY <1>12 DEF Rotate, AtEnd, loopVars
  <2>2. ASSUME NEW c \in Conns, task[c].state \in Timed PROVE task[c].timer > 0
    <3>1. PICK i \in 1 .. Len(tasks) : tasks[i] = c
      BY <2>2, TimedIsLive, IInvFacts DEF IInv, RingHoldsTheClients
    <3>2. i < cursor
      BY <2>1, IInvFacts
    <3> QED BY <1>2, <2>1, <2>2, <3>1, <3>2 DEF TimesInv, SweptRun
  <2> QED BY <1>4, <2>1, <2>2, LookKeepsTimes DEF SweptRun
<1>13. CASE Accept
  <2> DEFINE c == Head(backlog)
  <2>1. /\ Throw(c, "ENTRY", NewTask) /\ backlog # <<>> /\ backlog \in Seq(Conns)
        /\ phase = "accept" /\ phase' = "read" /\ sleep' = sleep
    BY <1>13 DEF Accept, Admit, ToRead, IInv, LoopInv, LoopTypeOK
  <2>2. c \in Conns /\ task \in [Conns -> Task]
    BY <2>1 DEF IInv, LoopInv, LoopTypeOK
  <2>3. NewTask.state = "accepted" /\ NewTask.state # Quit
    BY NewTaskType, StatesAssumption, HttpAssumption
  <2> HIDE DEF c
  <2>4. task' = [task EXCEPT ![c] = NewTask] /\ current' = c
    BY <2>1, <2>3 DEF Throw
  <2>5. ASSUME NEW d \in Conns, task'[d].state \in Timed PROVE Timely(d)'
    <3>1. d # c
      BY <2>2, <2>3, <2>4, <2>5 DEF Timed
    <3>2. task'[d] = task[d] /\ task[d].state \in Timed
      BY <2>2, <2>4, <2>5, <3>1
    <3>3. OnTime(d)'
      BY <1>2, <1>4, <2>1, <3>2, StaysOnTime
    <3> QED BY <2>4, <3>1, <3>3 DEF Timely
  <2>6. SweptRun'
    BY <2>1 DEF SweptRun
  <2> QED BY <2>5, <2>6, NoTimePasses DEF TimesInv
<1>14. CASE Read
  <2> DEFINE c == tasks[cursor]
  <2>1. /\ Entry /\ (ReadEvent(c) \/ ClosedEvent(c)) /\ sleep' = sleep
        /\ phase = "read" /\ phase' = "read"
    BY <1>14 DEF Read, Here, Entry, Advance
  <2>2. c \in Conns /\ Live(c)
    BY <2>1, EntryLive
  <2>3. SweptRun'
    BY <2>1 DEF SweptRun
  <2> HIDE DEF c
  <2> QED BY <1>1, <2>1, <2>2, <2>3, EventKeepsTimes
<1>15. CASE SweepPoll \/ SweepTimer
  <2> DEFINE c == tasks[cursor]
  <2>1. cursor \in 1 .. Len(tasks) /\ c \in Conns
    <3>1. cursor <= Len(tasks)
      BY <1>15, IInvFacts DEF SweepPoll, SweepTimer, AtEnd, IInv, IndicesInRange
    <3> QED BY <3>1, IInvFacts
  <2>2. /\ UNCHANGED <<tasks, cursor, sleep>>
        /\ \/ phase = "sweep" /\ phase' = "timer"
           \/ phase = "timer" /\ phase' = "next"
    BY <1>15 DEF SweepPoll, SweepTimer, At
  <2>3. \/ Live(c) /\ PollEvent(c) /\ phase' = "timer"
        \/ Live(c) /\ TimerEvent(c)
        \/ UNCHANGED loopVars /\ (phase' = "next" => task[c].timer # 0)
    <3>1. NoTask.timer # 0
      BY BoundsAssumption DEF NoTask
    <3>2. ~ Live(c) => task[c] = NoTask
      BY <2>1, IInvFacts
    <3>3. task[c].timer = 0 => Live(c)
      <4> HIDE DEF c
      <4> QED BY <3>1, <3>2
    <3> QED BY <1>15, <3>3 DEF SweepPoll, SweepTimer, At, Here
  <2>4. UNCHANGED loopVars => UNCHANGED <<task, current, event>>
    BY DEF loopVars
  <2>5. SweptRun'
    <3>1. SUFFICES ASSUME NEW i \in 1 .. Len(tasks), i < cursor \/ (i = cursor /\ phase' = "next"),
                          task'[tasks[i]].state \in Timed, Armed(tasks[i])'
                   PROVE  task'[tasks[i]].timer > 0
      BY <2>2 DEF SweptRun
    <3> DEFINE d == tasks[i]
    <3>2. d \in Conns /\ i \in Nat /\ cursor \in Nat /\ (d = c <=> i = cursor)
      BY <2>1, IInvFacts
    <3>3. task[d].timer \in Nat
      BY <3>2, IInvFacts, BoundsAssumption DEF Delta
    <3>4. i < cursor /\ task[d].state \in Timed => task[d].timer > 0
      BY <1>2, <2>2, <3>2 DEF TimesInv, SweptRun
    <3>5. /\ task'[d].state = task[d].state
          /\ d # c => task'[d] = task[d]
      <4> HIDE DEF c, d
      <4> QED BY <1>1, <2>1, <2>3, <2>4, <3>2, EventIs
    <3>6. CASE i < cursor
      BY <3>1, <3>2, <3>4, <3>5, <3>6
    <3>7. CASE i = cursor /\ phase' = "next"
      <4>1. CASE Live(c) /\ TimerEvent(c)
        <5>1. event' = "TIMER" /\ current' = c
          BY <4>1 DEF TimerEvent, Throw, Live
        <5> QED BY <2>2, <3>1, <3>7, <5>1 DEF Armed
      <4>2. CASE UNCHANGED loopVars /\ task[c].timer # 0
        <5> HIDE DEF c, d
        <5>1. d = c /\ task' = task
          BY <2>4, <3>2, <3>7, <4>2
        <5>2. task[c].timer > 0
          BY <3>3, <4>2, <5>1
        <5> QED BY <5>1, <5>2 DEF d
      <4> QED BY <2>3, <3>7, <4>1, <4>2
    <3> QED BY <3>1, <3>6, <3>7
  <2>6. CASE Live(c) /\ (PollEvent(c) \/ TimerEvent(c))
    <3> HIDE DEF c
    <3> QED BY <1>1, <2>1, <2>2, <2>5, <2>6, EventKeepsTimes
  <2>7. CASE UNCHANGED loopVars
    <3>1. UNCHANGED <<task, current, event>>
      BY <2>4, <2>7
    <3> HIDE DEF c
    <3> QED BY <1>4, <2>2, <2>5, <3>1, LookKeepsTimes
  <2> QED BY <2>3, <2>6, <2>7
<1>16. \A ms \in 0 .. Delay : ms \in Nat /\ sleep + ms \in Nat
  BY IInvFacts, TimeAssumption
<1> QED BY <1>3, <1>5, <1>6, <1>7, <1>8, <1>9, <1>10, <1>11, <1>12, <1>13, <1>14, <1>15, <1>16 DEF Step

LEMMA TimesHold ==
  ASSUME TimersOutlastPoll, IInv, IInv', TimesInv, [Clock \/ Rest]_agedVars
  PROVE  TimesInv'
<1>1. CASE Clock
  BY <1>1, ClockKeepsTimes
<1>2. CASE Rest /\ Step
  BY <1>2, LoopKeepsTimes DEF Rest
<1>3. CASE Rest /\ Handle
  BY <1>3, SettleKeepsTimes DEF Rest
<1>4. CASE Rest /\ Environment
  <2>1. Passes(0) /\ UNCHANGED <<task, current, event, phase, sleep, tasks, cursor>>
    BY <1>4 DEF Rest, Environment, execVars
  <2> QED BY <2>1, RestKeepsTimes
<1>5. CASE UNCHANGED agedVars
  <2>1. UNCHANGED <<task, current, event, phase, sleep, tasks, cursor, age>>
    BY <1>5 DEF agedVars, vars, loopVars, execVars
  <2> QED BY <2>1 DEF TimesInv, Timely, OnTime, SweptRun, Armed
<1> QED BY <1>1, <1>2, <1>3, <1>4, <1>5 DEF Rest, Next

\* As long as no xxxws_poll is to take longer than a timer, every timer of a client is
\* kept to 2 * Delay: a state ends by its timer no earlier than that says, and no state
\* is older than its timer by more than what the handlers and the application take, for
\* any number of clients, any limit, and also when calls fail.
THEOREM NoTimerIsMissed ==
  ASSUME TimersOutlastPoll
  PROVE  AgedSpec => []TimersAreKept
<1>1. AgedInit => TimesInv
  <2> SUFFICES ASSUME AgedInit PROVE TimesInv
    OBVIOUS
  <2>1. \A c \in Conns : task[c].state = Quit
    BY DEF AgedInit, Init, LoopInit, NoTask
  <2>2. Quit \notin Timed
    BY HttpAssumption, StatesAssumption DEF Timed, HttpStateNames
  <2> QED BY <2>1, <2>2 DEF AgedInit, Init, TimesInv, SweptRun
<1>2. TimesInv => TimersAreKept
  <2> SUFFICES ASSUME TimesInv, NEW c \in Conns, task[c].state \in Timed
               PROVE  /\ current = c /\ event = "TIMER" => age[c] >= TimerOf(task[c].state)
                      /\ age[c] <= TimerOf(task[c].state) + 2 * Delay
    BY DEF TimersAreKept
  <2>1. Timely(c)
    BY DEF TimesInv
  <2> QED BY <2>1, AgeIsBounded, TimerIs DEF Timely
<1>3. IInv /\ IInv' /\ TimesInv /\ [Clock \/ Rest]_agedVars => TimesInv'
  BY TimesHold
<1> QED BY <1>1, <1>2, <1>3, SpecIInv, AgedIsSpec, PTL DEF AgedSpec
=============================================================================
