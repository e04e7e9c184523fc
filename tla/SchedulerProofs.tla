-------------------------- MODULE SchedulerProofs --------------------------
(***************************************************************************)
(* The safety of the scheduler's loop, for any number of peers, any        *)
(* handlers whose new connections do not quit at once, and any limit.      *)
(***************************************************************************)
EXTENDS Scheduler, EventLoopProofs

ExecTypeOK ==
  /\ tasks \in Seq(Conns) /\ readset \in Seq(Conns) /\ status \in Seq(BOOLEAN)
  /\ listen \in BOOLEAN
  /\ phase \in Phases /\ cursor \in Nat \ {0} /\ taskIndex \in Nat \ {0}
  /\ interval \in 0 .. Interval /\ sleep \in 0 .. Interval

\* The loops' indices stay in or just past what they run over.
IndicesInRange ==
  /\ cursor \in 1 .. Len(tasks) + 1
  /\ taskIndex \in 1 .. Len(readset) + 1
  /\ phase \in {"timer", "next"} => cursor <= Len(tasks)
  /\ phase \in {"build", "select", "accept"} => taskIndex = 1

\* What the sweep has passed and what the read loop has still to see is live.
LiveAroundCursor ==
  /\ phase \in {"sweep", "timer", "next"} => \A i \in 1 .. cursor - 1 : Live(tasks[i])
  /\ phase = "read" => \A i \in cursor .. Len(tasks) : Live(tasks[i])

Fresh == CHOOSE F \in SUBSET States : FreshStates(F)

\* A handler runs for the task the loop has just thrown an event at; one that
\* was called by accept is of a state that does not quit.
CallInLoop ==
  current # NoConn =>
    \/ phase \in {"timer", "next"} /\ current = tasks[cursor]
    \/ phase = "read" /\ cursor > 1 /\ current = tasks[cursor - 1]
    \/ /\ phase = "read" /\ cursor = 1 /\ Len(tasks) > 0 /\ current = tasks[Len(tasks)]
       /\ event = "ENTRY" /\ task[current].state \in Fresh

\* The read set from entry k on lists the open tasks at positions i to n of the
\* ring, in the order of the ring.
Aligned(k, i, n) ==
  /\ \A l \in k .. Len(readset) : \E j \in i .. n : tasks[j] = readset[l]
  /\ \A l, m \in k .. Len(readset), p, q \in 1 .. Len(tasks) :
       l < m /\ tasks[p] = readset[l] /\ tasks[q] = readset[m] => p < q
  /\ \A j \in i .. n : ~ task[tasks[j]].passive => \E l \in k .. Len(readset) : readset[l] = tasks[j]
  /\ \A l \in k .. Len(readset) : ~ task[readset[l]].passive

ReadsetAligned ==
  /\ phase = "build" => Aligned(1, 1, cursor - 1)
  /\ phase \in {"select", "accept"} => Aligned(1, 1, Len(tasks))
  /\ phase = "read" => \E n \in {Len(tasks) - 1, Len(tasks)} : Aligned(taskIndex, cursor, n)
  /\ phase \in {"sweep", "timer", "next"} => taskIndex = Len(readset) + 1

\* The sleep so far is below every countdown seen.
SleepBelowCountdowns ==
  phase = "build" =>
    \A i \in 1 .. cursor - 1 : sleep <= task[tasks[i]].poll /\ sleep <= task[tasks[i]].timer

IInv ==
  /\ LoopInv /\ ExecTypeOK /\ IndicesInRange /\ RingHoldsTheClients /\ LiveAroundCursor
  /\ CallInLoop /\ ReadsetAligned /\ SleepBelowCountdowns /\ NoOversleep

-----------------------------------------------------------------------------
LEMMA FreshIsFresh == Fresh \subseteq States /\ FreshStates(Fresh)
  BY FreshAssumption DEF Fresh

LEMMA InitIInv == Init => IInv
<1> SUFFICES ASSUME Init PROVE IInv
  OBVIOUS
<1>1. LoopInv
  BY InitLoopInv DEF Init
<1>2. /\ tasks = <<>> /\ readset = <<>> /\ Len(tasks) = 0 /\ Len(readset) = 0
      /\ DOMAIN tasks = {} /\ phase = "app" /\ current = NoConn
      /\ \A c \in Conns : ~ Live(c)
  BY NoTaskType DEF Init, LoopInit, Live
<1>3. ExecTypeOK
  <2>1. tasks \in Seq(Conns) /\ readset \in Seq(Conns) /\ status \in Seq(BOOLEAN)
    BY DEF Init
  <2>2. interval \in 0 .. Interval /\ sleep \in 0 .. Interval
    BY TimeAssumption DEF Init
  <2>3. phase \in Phases /\ cursor \in Nat \ {0} /\ taskIndex \in Nat \ {0}
    BY DEF Init, Phases
  <2>4. listen \in BOOLEAN
    BY DEF Init
  <2> QED BY <2>1, <2>2, <2>3, <2>4 DEF ExecTypeOK
<1>4. IndicesInRange
  <2>1. cursor = 1 /\ taskIndex = 1
    BY DEF Init
  <2> QED BY <1>2, <2>1 DEF IndicesInRange
<1>5. LiveAroundCursor /\ CallInLoop /\ ReadsetAligned /\ SleepBelowCountdowns /\ NoOversleep
  BY <1>2 DEF LiveAroundCursor, CallInLoop, ReadsetAligned, SleepBelowCountdowns, NoOversleep
<1>6. RingHoldsTheClients
  BY <1>2 DEF RingHoldsTheClients
<1> QED BY <1>1, <1>3, <1>4, <1>5, <1>6 DEF IInv

\* Steps that leave the tasks, the ring, the read set and the loop's place alone.
LEMMA SameLoopIInv ==
  ASSUME IInv, LoopInv', UNCHANGED <<task, current, event, execVars>>
  PROVE  IInv'
<1>1. ExecTypeOK' /\ IndicesInRange'
  BY DEF IInv, execVars, ExecTypeOK, IndicesInRange
<1>2. RingHoldsTheClients' /\ LiveAroundCursor' /\ CallInLoop'
  BY DEF IInv, execVars, RingHoldsTheClients, LiveAroundCursor, CallInLoop, Live
<1>3. ReadsetAligned'
  BY DEF IInv, execVars, ReadsetAligned, Aligned
<1>4. SleepBelowCountdowns' /\ NoOversleep'
  BY DEF IInv, execVars, SleepBelowCountdowns, NoOversleep
<1> QED BY <1>1, <1>2, <1>3, <1>4 DEF IInv

\* Back at the top of poll's loop, from a point where every task is live.
LEMMA LoopHeadIInv ==
  ASSUME IInv, phase \in {"app", "calibrate"}, current = NoConn,
         NEW ms \in Nat, Elapse(ms), NEW left \in 0 .. Interval, LoopHead(left),
         UNCHANGED <<peers, current, event, stuck, tasks>>
  PROVE  IInv'
<1>1. /\ LoopInv'
      /\ \A c \in Conns : task'[c].state = task[c].state /\ task'[c].passive = task[c].passive
  BY ElapseLoopInv DEF IInv
<1>2. /\ phase' \in {"app", "build"} /\ cursor' = 1 /\ taskIndex' = 1 /\ readset' = <<>>
      /\ status' = <<>> /\ listen' = FALSE /\ interval' = left /\ sleep' = left
      /\ tasks' = tasks /\ current' = NoConn /\ Len(readset') = 0
  BY DEF LoopHead
<1>3. tasks \in Seq(Conns) /\ Len(tasks) \in Nat
  BY DEF IInv, ExecTypeOK
<1>4. ExecTypeOK' /\ IndicesInRange'
  <2>1. tasks' \in Seq(Conns) /\ readset' \in Seq(Conns) /\ status' \in Seq(BOOLEAN)
    BY <1>2, <1>3
  <2>2. interval' \in 0 .. Interval /\ sleep' \in 0 .. Interval
    BY <1>2
  <2>3. phase' \in Phases /\ cursor' \in Nat \ {0} /\ taskIndex' \in Nat \ {0}
    BY <1>2 DEF Phases
  <2>4. listen' \in BOOLEAN
    BY <1>2
  <2> QED BY <1>2, <1>3, <2>1, <2>2, <2>3, <2>4 DEF ExecTypeOK, IndicesInRange
<1>5. RingHoldsTheClients'
  <2>1. \A i \in DOMAIN tasks : tasks[i] \in Conns
    BY <1>3
  <2> QED BY <1>1, <1>2, <2>1 DEF IInv, RingHoldsTheClients, Live
<1>6. LiveAroundCursor' /\ CallInLoop' /\ NoOversleep'
  <2>1. phase' \notin {"sweep", "timer", "next", "read", "select"}
    BY <1>2
  <2> QED BY <1>2, <2>1 DEF LiveAroundCursor, CallInLoop, NoOversleep
<1>7. ReadsetAligned'
  <2>1. Aligned(1, 1, 0)'
    BY <1>2 DEF Aligned
  <2> QED BY <1>2, <2>1 DEF ReadsetAligned
<1>8. SleepBelowCountdowns'
  BY <1>2 DEF SleepBelowCountdowns
<1> QED BY <1>1, <1>4, <1>5, <1>6, <1>7, <1>8 DEF IInv

LEMMA PollIInv ==
  ASSUME IInv, current = NoConn, NEW ms \in 0 .. Delay, Poll(ms)
  PROVE  IInv'
<1>1. ms \in Nat /\ Interval \in 0 .. Interval
  BY TimeAssumption
<1>2. /\ phase \in {"app", "calibrate"} /\ Elapse(ms) /\ LoopHead(Interval)
      /\ UNCHANGED <<peers, current, event, stuck, tasks>>
  BY DEF Poll
<1> QED BY <1>1, <1>2, LoopHeadIInv

LEMMA CalibrateIInv ==
  ASSUME IInv, current = NoConn, NEW ms \in 0 .. Delay, Calibrate(sleep + ms)
  PROVE  IInv'
<1> DEFINE left == IF interval >= sleep + ms THEN interval - (sleep + ms) ELSE 0
<1>1. sleep \in Nat /\ interval \in 0 .. Interval /\ ms \in Nat
  BY TimeAssumption DEF IInv, ExecTypeOK
<1>2. sleep + ms \in Nat /\ left \in 0 .. Interval
  BY <1>1, TimeAssumption
<1>3. /\ phase \in {"app", "calibrate"} /\ Elapse(sleep + ms) /\ LoopHead(left)
      /\ UNCHANGED <<peers, current, event, stuck, tasks>>
  BY DEF Calibrate
<1> HIDE DEF left
<1> QED BY <1>2, <1>3, LoopHeadIInv

-----------------------------------------------------------------------------
\* The invariant, in the form the steps below use it.
LEMMA IInvFacts ==
  ASSUME IInv
  PROVE  /\ tasks \in Seq(Conns) /\ Len(tasks) \in Nat /\ DOMAIN tasks = 1 .. Len(tasks)
         /\ \A i \in 1 .. Len(tasks) : tasks[i] \in Conns
         /\ \A i, j \in 1 .. Len(tasks) : tasks[i] = tasks[j] => i = j
         /\ readset \in Seq(Conns) /\ Len(readset) \in Nat /\ DOMAIN readset = 1 .. Len(readset)
         /\ \A l \in 1 .. Len(readset) : readset[l] \in Conns
         /\ cursor \in Nat /\ cursor >= 1 /\ cursor <= Len(tasks) + 1
         /\ taskIndex \in Nat /\ taskIndex >= 1 /\ taskIndex <= Len(readset) + 1
         /\ sleep \in 0 .. Interval
         /\ task \in [Conns -> Task]
         /\ \A c \in Conns : task[c].poll \in Delta /\ task[c].timer \in Delta
         /\ \A c \in Conns : ~ Live(c) => task[c] = NoTask
<1>1. /\ tasks \in Seq(Conns) /\ readset \in Seq(Conns) /\ task \in [Conns -> Task]
      /\ cursor \in Nat \ {0} /\ taskIndex \in Nat \ {0} /\ sleep \in 0 .. Interval
  BY DEF IInv, ExecTypeOK, LoopInv, LoopTypeOK
<1>2. /\ Len(tasks) \in Nat /\ DOMAIN tasks = 1 .. Len(tasks)
      /\ \A i \in 1 .. Len(tasks) : tasks[i] \in Conns
      /\ Len(readset) \in Nat /\ DOMAIN readset = 1 .. Len(readset)
      /\ \A l \in 1 .. Len(readset) : readset[l] \in Conns
  BY <1>1
<1>3. cursor \in 1 .. Len(tasks) + 1 /\ taskIndex \in 1 .. Len(readset) + 1
  BY DEF IInv, IndicesInRange
<1>4. \A i, j \in 1 .. Len(tasks) : tasks[i] = tasks[j] => i = j
  BY <1>2 DEF IInv, RingHoldsTheClients
<1>5. \A c \in Conns : task[c].poll \in Delta /\ task[c].timer \in Delta
  BY <1>1 DEF Task
<1>6. \A c \in Conns : ~ Live(c) => task[c] = NoTask
  BY DEF IInv, LoopInv, DestroyedIsClean
<1> QED BY <1>1, <1>2, <1>3, <1>4, <1>5, <1>6

\* Steps of the loop that throw no event leave EventLoop's variables alone.
LEMMA LoopVarsIInv ==
  ASSUME IInv, UNCHANGED loopVars
  PROVE  /\ LoopInv' /\ task' = task /\ current' = current /\ event' = event
         /\ \A c \in Conns : Live(c)' <=> Live(c)
  BY DEF IInv, loopVars, LoopInv, LoopTypeOK, InboxBounded, WaitingHasNoTask,
     DestroyedIsClean, Live

LEMMA LesserProps ==
  ASSUME NEW m \in Int, NEW n \in Int
  PROVE  Lesser(m, n) \in {m, n} /\ Lesser(m, n) <= m /\ Lesser(m, n) <= n
  BY DEF Lesser

LEMMA BuildIInv ==
  ASSUME IInv, current = NoConn, Build
  PROVE  IInv'
<1>0. CASE ~ (Len(readset) + 1 < Cap)
  <2>1. UNCHANGED <<peers, task, current, event, execVars>> /\ stuck' = TRUE
    BY <1>0 DEF Build, execVars
  <2>2. LoopInv'
    BY <2>1, HaltLoopInv DEF IInv, Halt
  <2> QED BY <2>1, <2>2, SameLoopIInv
<1>1. CASE Len(readset) + 1 < Cap
  <2>1. /\ phase = "build" /\ phase' = "build" /\ cursor <= Len(tasks) /\ cursor' = cursor + 1
        /\ tasks' = tasks /\ taskIndex' = taskIndex /\ listen' = listen /\ status' = status
        /\ interval' = interval /\ current' = current /\ UNCHANGED loopVars
        /\ sleep' = Lesser(sleep, Lesser(task[Here].poll, task[Here].timer))
        /\ readset' = IF task[Here].passive THEN readset ELSE Append(readset, Here)
    BY <1>1, IInvFacts DEF Build, AtEnd, loopVars, peers
  <2>2. /\ Here \in Conns /\ Here = tasks[cursor] /\ task' = task
        /\ task[Here].poll \in Delta /\ task[Here].timer \in Delta
    BY <2>1, IInvFacts, LoopVarsIInv DEF Here
  <2>3. /\ sleep' \in 0 .. Interval /\ sleep' <= sleep
        /\ sleep' <= task[Here].poll /\ sleep' <= task[Here].timer
    <3>1. sleep \in 0 .. Interval /\ sleep \in Int /\ task[Here].poll \in Nat /\ task[Here].timer \in Nat
      BY <2>2, IInvFacts, TimeAssumption, BoundsAssumption DEF Delta
    <3> DEFINE m == Lesser(task[Here].poll, task[Here].timer)
    <3>3. m \in Nat /\ m <= task[Here].poll /\ m <= task[Here].timer
      BY <3>1, LesserProps
    <3>4. Lesser(sleep, m) \in {sleep, m} /\ Lesser(sleep, m) <= sleep /\ Lesser(sleep, m) <= m
      BY <3>1, <3>3, LesserProps
    <3> HIDE DEF m
    <3>5. Lesser(sleep, m) \in 0 .. Interval
      BY <3>1, <3>3, <3>4, TimeAssumption
    <3>6. sleep' = Lesser(sleep, m)
      BY <2>1 DEF m
    <3> QED BY <3>1, <3>3, <3>4, <3>5, <3>6
  <2>4. /\ readset' \in Seq(Conns) /\ Len(readset') \in Nat /\ Len(readset') >= Len(readset)
        /\ \A l \in 1 .. Len(readset) : readset'[l] = readset[l]
        /\ task[Here].passive => Len(readset') = Len(readset)
        /\ ~ task[Here].passive => /\ Len(readset') = Len(readset) + 1
                                  /\ readset'[Len(readset) + 1] = Here
    <3>1. readset \in Seq(Conns)
      BY IInvFacts
    <3>2. CASE task[Here].passive
      BY <2>1, <3>1, <3>2
    <3>3. CASE ~ task[Here].passive
      <4>1. readset' = Append(readset, Here)
        BY <2>1, <3>3
      <4> QED BY <2>2, <3>1, <3>3, <4>1, AppendProperties
    <3> QED BY <3>2, <3>3
  <2>5. ExecTypeOK'
    <3>1. cursor' \in Nat \ {0} /\ taskIndex' \in Nat \ {0}
      BY <2>1, IInvFacts
    <3>2. listen' \in BOOLEAN /\ status' \in Seq(BOOLEAN) /\ phase' \in Phases
          /\ tasks' \in Seq(Conns) /\ interval' \in 0 .. Interval
      BY <2>1 DEF IInv, ExecTypeOK
    <3> QED BY <2>3, <2>4, <3>1, <3>2 DEF ExecTypeOK
  <2>6. IndicesInRange'
    <3>1. cursor + 1 \in 1 .. Len(tasks) + 1 /\ taskIndex \in 1 .. Len(readset') + 1
      <4>1. /\ Len(tasks) \in Nat /\ Len(readset) \in Nat /\ cursor \in Nat /\ cursor >= 1
            /\ taskIndex \in Nat /\ taskIndex >= 1 /\ taskIndex <= Len(readset) + 1
        BY IInvFacts
      <4> QED BY <2>1, <2>4, <4>1
    <3> QED BY <2>1, <3>1 DEF IInv, IndicesInRange
  <2>7. /\ RingHoldsTheClients' /\ LiveAroundCursor' /\ CallInLoop' /\ NoOversleep'
    <3>1. RingHoldsTheClients'
      BY <2>1, <2>2 DEF IInv, RingHoldsTheClients, Live
    <3>2. phase' \notin {"sweep", "timer", "next", "read", "select"} /\ current' = NoConn
      BY <2>1
    <3> QED BY <3>1, <3>2 DEF LiveAroundCursor, CallInLoop, NoOversleep
  <2>8. Aligned(1, 1, cursor - 1)'
    <3>1. Aligned(1, 1, cursor - 1)
      BY <2>1 DEF IInv, ReadsetAligned
    <3>2. \A l \in 1 .. Len(readset') : \E j \in 1 .. cursor : tasks[j] = readset'[l]
      <4> SUFFICES ASSUME NEW l \in 1 .. Len(readset')
                   PROVE  \E j \in 1 .. cursor : tasks[j] = readset'[l]
        OBVIOUS
      <4>1. CASE l \in 1 .. Len(readset)
        <5>1. PICK j \in 1 .. cursor - 1 : tasks[j] = readset[l]
          BY <3>1, <4>1 DEF Aligned
        <5>2. j \in 1 .. cursor /\ readset'[l] = readset[l]
          BY <2>4, <4>1, IInvFacts
        <5> QED BY <5>1, <5>2
      <4>2. CASE l \notin 1 .. Len(readset)
        <5>1. readset'[l] = Here /\ cursor \in 1 .. cursor
          BY <2>4, <4>2, IInvFacts
        <5> QED BY <2>2, <5>1
      <4> QED BY <4>1, <4>2
    <3>3. \A l, m \in 1 .. Len(readset'), p, q \in 1 .. Len(tasks) :
            l < m /\ tasks[p] = readset'[l] /\ tasks[q] = readset'[m] => p < q
      <4> SUFFICES ASSUME NEW l \in 1 .. Len(readset'), NEW m \in 1 .. Len(readset'),
                          NEW p \in 1 .. Len(tasks), NEW q \in 1 .. Len(tasks),
                          l < m, tasks[p] = readset'[l], tasks[q] = readset'[m]
                   PROVE  p < q
        OBVIOUS
      <4>1. CASE m <= Len(readset)
        BY <2>4, <3>1, <4>1, IInvFacts DEF Aligned
      <4>2. CASE m > Len(readset)
        <5>1. q = cursor /\ l \in 1 .. Len(readset) /\ readset'[l] = readset[l]
          <6>1. Len(readset) \in Nat /\ Len(readset') \in Nat /\ Len(readset') <= Len(readset) + 1
            BY <2>4, IInvFacts
          <6>2. m = Len(readset) + 1 /\ l \in 1 .. Len(readset)
            BY <4>2, <6>1
          <6>3. tasks[q] = Here
            BY <2>4, <6>1, <6>2
          <6>4. cursor \in 1 .. Len(tasks)
            BY <2>1, IInvFacts
          <6> QED BY <2>2, <2>4, <6>2, <6>3, <6>4, IInvFacts
        <5>2. PICK j \in 1 .. cursor - 1 : tasks[j] = readset[l]
          BY <3>1, <5>1 DEF Aligned
        <5>3. p = j
          BY <2>1, <5>1, <5>2, IInvFacts
        <5> QED BY <2>1, <5>1, <5>2, <5>3, IInvFacts
      <4> QED BY <2>4, <4>1, <4>2, IInvFacts
    <3>4. \A j \in 1 .. cursor : ~ task[tasks[j]].passive =>
            \E l \in 1 .. Len(readset') : readset'[l] = tasks[j]
      <4> SUFFICES ASSUME NEW j \in 1 .. cursor, ~ task[tasks[j]].passive
                   PROVE  \E l \in 1 .. Len(readset') : readset'[l] = tasks[j]
        OBVIOUS
      <4>1. CASE j = cursor
        BY <2>2, <2>4, <4>1, IInvFacts
      <4>2. CASE j # cursor
        <5>1. \E l \in 1 .. Len(readset) : readset[l] = tasks[j]
          BY <3>1, <4>2, IInvFacts DEF Aligned
        <5> QED BY <2>4, <5>1, IInvFacts
      <4> QED BY <4>1, <4>2
    <3>5. \A l \in 1 .. Len(readset') : ~ task[readset'[l]].passive
      BY <2>4, <3>1, IInvFacts DEF Aligned
    <3>6. cursor' - 1 = cursor
      BY <2>1, IInvFacts
    <3>7. /\ \A l \in 1 .. Len(readset') : \E j \in 1 .. cursor' - 1 : tasks'[j] = readset'[l]
          /\ \A j \in 1 .. cursor' - 1 : ~ task'[tasks'[j]].passive =>
               \E l \in 1 .. Len(readset') : readset'[l] = tasks'[j]
      BY <2>1, <2>2, <3>2, <3>4, <3>6
    <3>8. /\ \A l, m \in 1 .. Len(readset'), p, q \in 1 .. Len(tasks') :
               l < m /\ tasks'[p] = readset'[l] /\ tasks'[q] = readset'[m] => p < q
          /\ \A l \in 1 .. Len(readset') : ~ task'[readset'[l]].passive
      BY <2>1, <2>2, <3>3, <3>5
    <3> QED BY <3>7, <3>8 DEF Aligned
  <2>9. ReadsetAligned'
    BY <2>1, <2>8 DEF ReadsetAligned
  <2>10. SleepBelowCountdowns'
    <3> SUFFICES ASSUME NEW i \in 1 .. cursor
                 PROVE  sleep' <= task[tasks[i]].poll /\ sleep' <= task[tasks[i]].timer
      BY <2>1, <2>2, IInvFacts DEF SleepBelowCountdowns
    <3>1. CASE i = cursor
      BY <2>2, <2>3, <3>1
    <3>2. CASE i # cursor
      <4>1. sleep <= task[tasks[i]].poll /\ sleep <= task[tasks[i]].timer /\ tasks[i] \in Conns
        BY <2>1, <3>2, IInvFacts DEF IInv, SleepBelowCountdowns
      <4>2. task[tasks[i]].poll \in Nat /\ task[tasks[i]].timer \in Nat /\ sleep \in Nat
        BY <4>1, IInvFacts, BoundsAssumption DEF Delta
      <4> QED BY <2>3, <4>1, <4>2
    <3> QED BY <3>1, <3>2
  <2> QED BY <2>1, <2>5, <2>6, <2>7, <2>9, <2>10, LoopVarsIInv DEF IInv
<1> QED BY <1>0, <1>1

-----------------------------------------------------------------------------
\* The alignment only depends on the ring, the read set and who is closed.
LEMMA AlignedSame ==
  ASSUME NEW k, NEW i, NEW n, Aligned(k, i, n), tasks' = tasks, readset' = readset,
         \A j \in i .. n : task'[tasks[j]].passive = task[tasks[j]].passive,
         \A l \in k .. Len(readset) : task'[readset[l]].passive = task[readset[l]].passive
  PROVE  Aligned(k, i, n)'
<1>1. /\ \A l \in k .. Len(readset') : \E j \in i .. n : tasks'[j] = readset'[l]
      /\ \A j \in i .. n : ~ task'[tasks'[j]].passive =>
           \E l \in k .. Len(readset') : readset'[l] = tasks'[j]
  BY DEF Aligned
<1>2. \A l, m \in k .. Len(readset'), p, q \in 1 .. Len(tasks') :
        l < m /\ tasks'[p] = readset'[l] /\ tasks'[q] = readset'[m] => p < q
  BY DEF Aligned
<1>3. \A l \in k .. Len(readset') : ~ task'[readset'[l]].passive
  BY DEF Aligned
<1> QED BY <1>1, <1>2, <1>3 DEF Aligned

LEMMA BuildEndIInv ==
  ASSUME IInv, current = NoConn, BuildEnd
  PROVE  IInv'
<1>1. /\ phase = "build" /\ phase' = "select" /\ ~ (cursor <= Len(tasks)) /\ UNCHANGED loopVars
      /\ UNCHANGED <<tasks, readset, status, listen, cursor, taskIndex, interval, sleep>>
      /\ task' = task
  BY IInvFacts DEF BuildEnd, AtEnd, loopVars
<1>2. cursor - 1 = Len(tasks)
  BY <1>1, IInvFacts
<1>3. ExecTypeOK'
  BY <1>1 DEF IInv, ExecTypeOK, Phases
<1>4. IndicesInRange'
  BY <1>1 DEF IInv, IndicesInRange
<1>5. RingHoldsTheClients'
  BY <1>1 DEF IInv, RingHoldsTheClients, Live
<1>6. LiveAroundCursor' /\ CallInLoop' /\ SleepBelowCountdowns'
  BY <1>1, LoopVarsIInv DEF LiveAroundCursor, CallInLoop, SleepBelowCountdowns
<1>7. ReadsetAligned'
  BY <1>1, <1>2 DEF IInv, ReadsetAligned, Aligned
<1>8. NoOversleep'
  <2> SUFFICES ASSUME NEW c \in Conns PROVE sleep <= task[c].poll /\ sleep <= task[c].timer
    BY <1>1 DEF NoOversleep
  <2>1. CASE Live(c)
    <3>1. PICK i \in 1 .. Len(tasks) : tasks[i] = c
      BY <2>1, IInvFacts DEF IInv, RingHoldsTheClients
    <3> QED BY <1>1, <1>2, <3>1 DEF IInv, SleepBelowCountdowns
  <2>2. CASE ~ Live(c)
    <3>1. task[c].poll = Infinite /\ task[c].timer = Infinite
      BY <2>2, IInvFacts DEF NoTask
    <3> QED BY <3>1, IInvFacts, TimeAssumption, BoundsAssumption
  <2> QED BY <2>1, <2>2
<1> QED BY <1>1, <1>3, <1>4, <1>5, <1>6, <1>7, <1>8, LoopVarsIInv DEF IInv

LEMMA SelectIInv ==
  ASSUME IInv, current = NoConn, Select
  PROVE  IInv'
<1>1. /\ phase = "select" /\ phase' = "accept" /\ UNCHANGED loopVars
      /\ UNCHANGED <<tasks, readset, cursor, taskIndex, interval>> /\ task' = task
  BY DEF Select, loopVars
<1>2. listen' \in BOOLEAN
  BY DEF Select
<1>3. status' \in Seq(BOOLEAN)
  <2>1. status' \in [1 .. Len(readset) -> BOOLEAN]
    <3>1. \A l \in DOMAIN readset : Readable(readset[l]) \in BOOLEAN
      <4>1. \A c \in Conns : fin[c] \in BOOLEAN
        BY DEF IInv, LoopInv, LoopTypeOK
      <4> QED BY <4>1, IInvFacts DEF Readable
    <3>2. CASE status' = [l \in DOMAIN readset |-> Readable(readset[l])]
      BY <3>1, <3>2, IInvFacts
    <3>3. CASE status' \in [DOMAIN readset -> BOOLEAN]
      BY <3>3, IInvFacts
    <3> QED BY <3>2, <3>3 DEF Select
  <2> QED BY <2>1, IInvFacts, SeqDef
<1>4. sleep' \in 0 .. Interval
  <2>1. sleep' \in 0 .. sleep
    <3>1. sleep \in Nat /\ sleep \in 0 .. sleep
      BY IInvFacts, TimeAssumption
    <3> QED BY <3>1 DEF Select
  <2> QED BY <2>1, IInvFacts, TimeAssumption
<1>5. ExecTypeOK'
  BY <1>1, <1>2, <1>3, <1>4 DEF IInv, ExecTypeOK, Phases
<1>6. IndicesInRange'
  BY <1>1 DEF IInv, IndicesInRange
<1>7. RingHoldsTheClients'
  BY <1>1 DEF IInv, RingHoldsTheClients, Live
<1>8. LiveAroundCursor' /\ CallInLoop' /\ SleepBelowCountdowns' /\ NoOversleep'
  BY <1>1, LoopVarsIInv DEF LiveAroundCursor, CallInLoop, SleepBelowCountdowns, NoOversleep
<1>9. ReadsetAligned'
  <2>1. Aligned(1, 1, Len(tasks))
    BY <1>1 DEF IInv, ReadsetAligned
  <2> QED BY <1>1, <2>1 DEF ReadsetAligned, Aligned
<1> QED BY <1>1, <1>5, <1>6, <1>7, <1>8, <1>9, LoopVarsIInv DEF IInv

\* Accept is over without a new task: the read loop starts.
LEMMA ToReadIInv ==
  ASSUME IInv, LoopInv', phase = "accept", ToRead,
         UNCHANGED <<task, current, tasks, readset, status, listen, taskIndex, interval, sleep>>,
         current = NoConn
  PROVE  IInv'
<1>1. phase' = "read" /\ cursor' = 1
  BY DEF ToRead
<1>2. ExecTypeOK'
  BY <1>1 DEF IInv, ExecTypeOK, Phases
<1>3. IndicesInRange'
  <2>1. 1 \in 1 .. Len(tasks) + 1
    BY IInvFacts
  <2> QED BY <1>1, <2>1 DEF IInv, IndicesInRange
<1>4. \A i \in DOMAIN tasks : Live(tasks[i])
  BY DEF IInv, RingHoldsTheClients
<1>5. RingHoldsTheClients'
  BY <1>1 DEF IInv, RingHoldsTheClients, Live
<1>6. LiveAroundCursor' /\ CallInLoop' /\ SleepBelowCountdowns' /\ NoOversleep'
  <2>1. \A i \in 1 .. Len(tasks) : Live(tasks[i])
    BY <1>4, IInvFacts
  <2> QED BY <1>1, <2>1 DEF LiveAroundCursor, CallInLoop, SleepBelowCountdowns, NoOversleep, Live
<1>7. ReadsetAligned'
  <2>1. Aligned(1, 1, Len(tasks)) /\ taskIndex = 1
    BY DEF IInv, ReadsetAligned, IndicesInRange
  <2> QED BY <1>1, <2>1 DEF ReadsetAligned, Aligned
<1> QED BY <1>2, <1>3, <1>5, <1>6, <1>7 DEF IInv

LEMMA AcceptNoneIInv == ASSUME IInv, current = NoConn, AcceptNone PROVE IInv'
  BY ToReadIInv, LoopVarsIInv DEF AcceptNone, loopVars

LEMMA AcceptRefuseIInv == ASSUME IInv, current = NoConn, AcceptRefuse PROVE IInv'
<1>1. LoopInv' /\ UNCHANGED <<task, current>>
  BY RefuseLoopInv DEF IInv, AcceptRefuse, Refuse
<1> QED BY <1>1, ToReadIInv DEF AcceptRefuse

LEMMA AcceptIInv == ASSUME IInv, current = NoConn, Accept PROVE IInv'
<1> DEFINE h == Head(backlog)
<1>1. /\ phase = "accept" /\ phase' = "read" /\ cursor' = 1 /\ taskIndex' = taskIndex
      /\ UNCHANGED <<readset, status, listen, taskIndex, interval, sleep>>
      /\ tasks' = Append(tasks, h)
  BY DEF Accept, ToRead
<1>2. /\ LoopInv' /\ h \in Conns /\ ~ Live(h) /\ current' = h /\ event' = "ENTRY"
      /\ task' = [task EXCEPT ![h] = NewTask]
  BY AdmitLoopInv DEF IInv, Accept
<1> HIDE DEF h
<1>3. /\ \A c \in Conns \ {h} : task'[c] = task[c]
      /\ task'[h] = NewTask /\ task'[h].state = Connected /\ task'[h].state # Quit
      /\ \A c \in Conns : Live(c) => Live(c)'
  <2>1. task \in [Conns -> Task] /\ NewTask.state = Connected /\ Connected # Quit
    BY IInvFacts, NewTaskType
  <2>2. (\A c \in Conns \ {h} : task'[c] = task[c]) /\ task'[h] = NewTask
    BY <1>2, <2>1
  <2>3. task'[h].state = Connected /\ task'[h].state # Quit
    BY <2>1, <2>2
  <2>5. ASSUME NEW c \in Conns, Live(c) PROVE Live(c)'
    BY <1>2, <2>2, <2>5 DEF Live
  <2> QED BY <2>2, <2>3, <2>5
<1>4. /\ tasks' \in Seq(Conns) /\ Len(tasks') = Len(tasks) + 1 /\ tasks'[Len(tasks) + 1] = h
      /\ \A i \in 1 .. Len(tasks) : tasks'[i] = tasks[i]
      /\ DOMAIN tasks' = 1 .. Len(tasks) + 1
  <2>1. tasks \in Seq(Conns) /\ h \in Conns
    BY <1>2, IInvFacts
  <2> QED BY <1>1, <2>1, AppendProperties
<1>5. \A i \in 1 .. Len(tasks) : Live(tasks[i]) /\ tasks[i] # h
  <2>1. DOMAIN tasks = 1 .. Len(tasks)
    BY IInvFacts
  <2>2. \A i \in DOMAIN tasks : Live(tasks[i])
    BY <1>1 DEF IInv, RingHoldsTheClients
  <2> QED BY <1>2, <2>1, <2>2
<1>6. \A i \in 1 .. Len(tasks) + 1 : task'[tasks'[i]].state # Quit
  <2> SUFFICES ASSUME NEW i \in 1 .. Len(tasks) + 1 PROVE task'[tasks'[i]].state # Quit
    OBVIOUS
  <2>1. CASE i \in 1 .. Len(tasks)
    <3>1. tasks[i] \in Conns /\ Live(tasks[i])
      BY <1>5, <2>1, IInvFacts
    <3> QED BY <1>3, <1>4, <2>1, <3>1 DEF Live
  <2>2. CASE i \notin 1 .. Len(tasks)
    <3>1. i = Len(tasks) + 1
      BY <2>2, IInvFacts
    <3> QED BY <1>3, <1>4, <3>1
  <2> QED BY <2>1, <2>2
<1>7. ExecTypeOK'
  <2>1. phase' \in Phases /\ cursor' \in Nat \ {0}
    BY <1>1 DEF Phases
  <2> QED BY <1>1, <1>4, <2>1 DEF IInv, ExecTypeOK
<1>8. IndicesInRange'
  <2>1. 1 \in 1 .. Len(tasks') + 1
    BY <1>4, IInvFacts
  <2> QED BY <1>1, <2>1 DEF IInv, IndicesInRange
<1>9. RingHoldsTheClients'
  <2>1. \A i, j \in DOMAIN tasks' : tasks'[i] = tasks'[j] => i = j
    <3>1. Len(tasks) \in Nat /\ \A i, j \in 1 .. Len(tasks) : tasks[i] = tasks[j] => i = j
      BY IInvFacts
    <3> QED BY <1>4, <1>5, <3>1
  <2>2. ASSUME NEW c \in Conns, Live(c)' PROVE \E i \in DOMAIN tasks' : tasks'[i] = c
    <3>1. CASE c = h
      <4>1. Len(tasks) \in Nat
        BY IInvFacts
      <4> QED BY <1>4, <3>1, <4>1
    <3>2. CASE c # h
      <4>1. Live(c)
        BY <1>3, <2>2, <3>2 DEF Live
      <4>2. PICK i \in 1 .. Len(tasks) : tasks[i] = c
        BY <4>1, IInvFacts DEF IInv, RingHoldsTheClients
      <4>3. i \in 1 .. Len(tasks) + 1
        BY <4>2, IInvFacts
      <4> QED BY <1>4, <4>2, <4>3
    <3> QED BY <3>1, <3>2
  <2>3. phase' = "read"
    BY <1>1
  <2> QED BY <2>1, <2>2, <2>3 DEF RingHoldsTheClients
<1>10. LiveAroundCursor' /\ SleepBelowCountdowns' /\ NoOversleep'
  BY <1>1, <1>4, <1>6 DEF LiveAroundCursor, SleepBelowCountdowns, NoOversleep, Live
<1>11. CallInLoop'
  <2>1. task'[h].state \in Fresh
    BY <1>3, FreshIsFresh DEF FreshStates
  <2>2. Len(tasks') > 0 /\ tasks'[Len(tasks')] = h
    BY <1>4, IInvFacts
  <2> QED BY <1>1, <1>2, <2>1, <2>2 DEF CallInLoop
<1>12. Aligned(1, 1, Len(tasks)) /\ taskIndex = 1
  BY <1>1 DEF IInv, ReadsetAligned, IndicesInRange
<1>13. \A l \in 1 .. Len(readset) : readset[l] # h
  BY <1>5, <1>12 DEF Aligned
<1>14. \A n : n = Len(tasks) => Aligned(1, 1, n)'
  <2> SUFFICES ASSUME NEW n, n = Len(tasks) PROVE Aligned(1, 1, n)'
    OBVIOUS
  <2>1. \A l \in 1 .. Len(readset') : \E j \in 1 .. n : tasks'[j] = readset'[l]
    BY <1>1, <1>4, <1>12 DEF Aligned
  <2>2. \A l, m \in 1 .. Len(readset'), p, q \in 1 .. Len(tasks') :
          l < m /\ tasks'[p] = readset'[l] /\ tasks'[q] = readset'[m] => p < q
    <3> SUFFICES ASSUME NEW l \in 1 .. Len(readset), NEW m \in 1 .. Len(readset),
                        NEW p \in 1 .. Len(tasks) + 1, NEW q \in 1 .. Len(tasks) + 1,
                        l < m, tasks'[p] = readset[l], tasks'[q] = readset[m]
                 PROVE  p < q
      BY <1>1, <1>4
    <3>1. p \in 1 .. Len(tasks) /\ q \in 1 .. Len(tasks)
      BY <1>4, <1>13, IInvFacts
    <3> QED BY <1>4, <1>12, <3>1 DEF Aligned
  <2>3. \A j \in 1 .. n : ~ task'[tasks'[j]].passive =>
          \E l \in 1 .. Len(readset') : readset'[l] = tasks'[j]
    <3> SUFFICES ASSUME NEW j \in 1 .. n, ~ task'[tasks'[j]].passive
                 PROVE  \E l \in 1 .. Len(readset) : readset[l] = tasks[j]
      BY <1>1, <1>4
    <3>1. tasks[j] \in Conns /\ tasks'[j] = tasks[j] /\ tasks[j] # h
      BY <1>4, <1>5, IInvFacts
    <3> QED BY <1>3, <1>12, <3>1 DEF Aligned
  <2>4. \A l \in 1 .. Len(readset') : ~ task'[readset'[l]].passive
    <3>1. \A l \in 1 .. Len(readset) : readset[l] \in Conns \ {h}
      BY <1>13, IInvFacts
    <3> QED BY <1>1, <1>3, <1>12, <3>1 DEF Aligned
  <2> QED BY <2>1, <2>2, <2>3, <2>4 DEF Aligned
<1>15. ReadsetAligned'
  <2>1. Len(tasks) = Len(tasks') - 1
    BY <1>4, IInvFacts
  <2>2. \E n \in {Len(tasks') - 1, Len(tasks')} : Aligned(1, 1, n)'
    BY <1>14, <2>1
  <2>3. taskIndex' = 1 /\ cursor' = 1
    BY <1>1, <1>12
  <2>4. PICK n \in {Len(tasks') - 1, Len(tasks')} : Aligned(1, 1, n)'
    BY <2>2
  <2>5. Aligned(taskIndex, cursor, n)'
    BY <2>3, <2>4 DEF Aligned
  <2>6. phase' = "read"
    BY <1>1
  <2> QED BY <2>5, <2>6 DEF ReadsetAligned
<1> QED BY <1>2, <1>7, <1>8, <1>9, <1>10, <1>11, <1>15 DEF IInv

-----------------------------------------------------------------------------
\* The loop is past a closed task.
LEMMA AlignedSkip ==
  ASSUME NEW k \in Nat, NEW i \in Nat, NEW n \in Int, Aligned(k, i, n),
         task[tasks[i]].passive, UNCHANGED <<tasks, readset, task>>
  PROVE  Aligned(k, i + 1, n)'
<1>1. \A l \in k .. Len(readset) : \E j \in i + 1 .. n : tasks[j] = readset[l]
  <2> SUFFICES ASSUME NEW l \in k .. Len(readset)
               PROVE  \E j \in i + 1 .. n : tasks[j] = readset[l]
    OBVIOUS
  <2>1. PICK j \in i .. n : tasks[j] = readset[l]
    BY DEF Aligned
  <2>2. ~ task[readset[l]].passive
    BY DEF Aligned
  <2>3. j # i
    BY <2>1, <2>2
  <2>4. j \in i + 1 .. n
    BY <2>3
  <2> QED BY <2>1, <2>4
<1>2. \A j \in i + 1 .. n : j \in i .. n
  OBVIOUS
<1> QED BY <1>1, <1>2 DEF Aligned

\* The entry the loop looks at is that of the open task it has reached.
LEMMA AlignedHead ==
  ASSUME NEW k \in Nat, NEW i \in 1 .. Len(tasks), NEW n \in Int, Aligned(k, i, n),
         IInv, k <= Len(readset), n <= Len(tasks), ~ task[tasks[i]].passive
  PROVE  readset[k] = tasks[i]
<1>1. Len(readset) \in Nat /\ Len(tasks) \in Nat
  BY IInvFacts
<1>2. k \in k .. Len(readset)
  BY <1>1
<1>3. PICK j \in i .. n : tasks[j] = readset[k]
  BY <1>2 DEF Aligned
<1>4. i \in i .. n /\ j \in 1 .. Len(tasks) /\ j >= i
  BY <1>1, <1>3
<1>5. PICK l \in k .. Len(readset) : readset[l] = tasks[i]
  BY <1>4 DEF Aligned
<1>6. ~ (k < l)
  <2>1. k < l => j < i
    BY <1>2, <1>3, <1>4, <1>5 DEF Aligned
  <2> QED BY <1>4, <2>1
<1>7. l = k
  BY <1>1, <1>5, <1>6
<1> QED BY <1>5, <1>7

\* The loop is past an open task and its entry.
LEMMA AlignedAdvance ==
  ASSUME NEW k \in Nat, NEW i \in 1 .. Len(tasks), NEW n \in Int, Aligned(k, i, n),
         IInv, k >= 1, k <= Len(readset), n <= Len(tasks), readset[k] = tasks[i],
         UNCHANGED <<tasks, readset>>, \A d \in Conns \ {tasks[i]} : task'[d] = task[d]
  PROVE  Aligned(k + 1, i + 1, n)'
<1>1. /\ Len(readset) \in Nat /\ Len(tasks) \in Nat
      /\ \A p, q \in 1 .. Len(tasks) : tasks[p] = tasks[q] => p = q
      /\ \A p \in 1 .. Len(tasks) : tasks[p] \in Conns
      /\ \A l \in 1 .. Len(readset) : readset[l] \in Conns
  BY IInvFacts
<1>2. /\ \A l \in k + 1 .. Len(readset) : l \in k .. Len(readset) /\ l \in 1 .. Len(readset) /\ k < l
      /\ \A j \in i + 1 .. n : j \in i .. n /\ j \in 1 .. Len(tasks) /\ j # i
      /\ k \in k .. Len(readset)
  BY <1>1
<1>3. \A l, m \in k .. Len(readset), p, q \in 1 .. Len(tasks) :
        l < m /\ tasks[p] = readset[l] /\ tasks[q] = readset[m] => p < q
  BY DEF Aligned
<1>4. \A l \in k + 1 .. Len(readset) : readset[l] # tasks[i]
  <2> SUFFICES ASSUME NEW l \in k + 1 .. Len(readset), readset[l] = tasks[i] PROVE FALSE
    OBVIOUS
  <2>1. i < i
    BY <1>2, <1>3
  <2> QED BY <2>1
<1>5. \A l \in k + 1 .. Len(readset) : \E j \in i + 1 .. n : tasks[j] = readset[l]
  <2> SUFFICES ASSUME NEW l \in k + 1 .. Len(readset)
               PROVE  \E j \in i + 1 .. n : tasks[j] = readset[l]
    OBVIOUS
  <2>1. PICK j \in i .. n : tasks[j] = readset[l]
    BY <1>2 DEF Aligned
  <2>2. j # i
    BY <1>4, <2>1
  <2>3. j \in i + 1 .. n
    BY <2>2
  <2> QED BY <2>1, <2>3
<1>6. \A j \in i + 1 .. n : ~ task'[tasks[j]].passive =>
        \E l \in k + 1 .. Len(readset) : readset[l] = tasks[j]
  <2> SUFFICES ASSUME NEW j \in i + 1 .. n, ~ task'[tasks[j]].passive
               PROVE  \E l \in k + 1 .. Len(readset) : readset[l] = tasks[j]
    OBVIOUS
  <2>1. tasks[j] \in Conns \ {tasks[i]}
    BY <1>1, <1>2
  <2>2. ~ task[tasks[j]].passive
    BY <2>1
  <2>3. PICK l \in k .. Len(readset) : readset[l] = tasks[j]
    BY <1>2, <2>2 DEF Aligned
  <2>4. l # k
    BY <2>1, <2>3
  <2>5. l \in k + 1 .. Len(readset)
    BY <1>1, <2>4
  <2> QED BY <2>3, <2>5
<1>7. \A l \in k + 1 .. Len(readset) : ~ task'[readset[l]].passive
  <2> SUFFICES ASSUME NEW l \in k + 1 .. Len(readset) PROVE ~ task'[readset[l]].passive
    OBVIOUS
  <2>1. readset[l] \in Conns \ {tasks[i]} /\ ~ task[readset[l]].passive
    BY <1>1, <1>2, <1>4 DEF Aligned
  <2> QED BY <2>1
<1>8. \A l, m \in k + 1 .. Len(readset), p, q \in 1 .. Len(tasks) :
        l < m /\ tasks[p] = readset[l] /\ tasks[q] = readset[m] => p < q
  BY <1>2, <1>3
<1> QED BY <1>5, <1>6, <1>7, <1>8 DEF Aligned

LEMMA ReadSkipIInv == ASSUME IInv, current = NoConn, ReadSkip PROVE IInv'
<1>1. /\ phase = "read" /\ phase' = "read" /\ cursor <= Len(tasks) /\ cursor' = cursor + 1
      /\ task[tasks[cursor]].passive /\ UNCHANGED loopVars
      /\ UNCHANGED <<tasks, readset, status, listen, taskIndex, interval, sleep>>
  BY IInvFacts DEF ReadSkip, AtEnd, Here
<1>2. /\ LoopInv' /\ task' = task /\ current' = NoConn
  BY <1>1, LoopVarsIInv
<1>3. Len(tasks) \in Nat /\ cursor \in Nat /\ cursor >= 1 /\ taskIndex \in Nat
  BY IInvFacts
<1>4. ExecTypeOK'
  <2>1. cursor' \in Nat \ {0}
    BY <1>1, <1>3
  <2> QED BY <1>1, <2>1 DEF IInv, ExecTypeOK
<1>5. IndicesInRange'
  <2>1. cursor + 1 \in 1 .. Len(tasks) + 1
    BY <1>1, <1>3
  <2> QED BY <1>1, <2>1 DEF IInv, IndicesInRange
<1>6. RingHoldsTheClients'
  BY <1>1, <1>2 DEF IInv, RingHoldsTheClients, Live
<1>7. LiveAroundCursor'
  <2>1. \A i \in cursor + 1 .. Len(tasks) : i \in cursor .. Len(tasks)
    BY <1>3
  <2> QED BY <1>1, <1>2, <2>1 DEF IInv, LiveAroundCursor, Live
<1>8. CallInLoop' /\ SleepBelowCountdowns' /\ NoOversleep'
  BY <1>1, <1>2 DEF CallInLoop, SleepBelowCountdowns, NoOversleep
<1>9. ReadsetAligned'
  <2>1. PICK n \in {Len(tasks) - 1, Len(tasks)} : Aligned(taskIndex, cursor, n)
    BY <1>1 DEF IInv, ReadsetAligned
  <2>2. \A k, i \in Nat : k = taskIndex /\ i = cursor => Aligned(k, i + 1, n)'
    <3> SUFFICES ASSUME NEW k \in Nat, NEW i \in Nat, k = taskIndex, i = cursor
                 PROVE  Aligned(k, i + 1, n)'
      OBVIOUS
    <3>1. Aligned(k, i, n) /\ n \in Int
      BY <1>3, <2>1
    <3> QED BY <1>1, <1>2, <3>1, AlignedSkip
  <2>3. Aligned(taskIndex, cursor, n)'
    BY <1>1, <1>3, <2>2 DEF Aligned
  <2> QED BY <1>1, <2>1, <2>3 DEF ReadsetAligned
<1> QED BY <1>2, <1>4, <1>5, <1>6, <1>7, <1>8, <1>9 DEF IInv

LEMMA ReadEndIInv == ASSUME IInv, current = NoConn, ReadEnd PROVE IInv'
<1>1. /\ phase = "read" /\ phase' = "sweep" /\ cursor' = 1 /\ UNCHANGED loopVars
      /\ UNCHANGED <<tasks, readset, status, listen, taskIndex, interval, sleep>>
      /\ cursor <= Len(tasks) => taskIndex > Len(readset)
  BY IInvFacts DEF ReadEnd, AtEnd
<1>2. /\ LoopInv' /\ task' = task /\ current' = NoConn
  BY <1>1, LoopVarsIInv
<1>3. /\ Len(tasks) \in Nat /\ Len(readset) \in Nat /\ cursor \in Nat /\ taskIndex \in Nat
      /\ taskIndex <= Len(readset) + 1
  BY IInvFacts
<1>4. taskIndex = Len(readset) + 1
  <2>1. CASE cursor <= Len(tasks)
    BY <1>1, <1>3, <2>1
  <2>2. CASE ~ (cursor <= Len(tasks))
    <3>1. PICK n \in {Len(tasks) - 1, Len(tasks)} : Aligned(taskIndex, cursor, n)
      BY <1>1 DEF IInv, ReadsetAligned
    <3>2. ~ \E j \in cursor .. n : TRUE
      BY <1>3, <2>2
    <3>3. ~ \E l \in taskIndex .. Len(readset) : TRUE
      BY <3>1, <3>2 DEF Aligned
    <3>4. ~ (taskIndex <= Len(readset))
      BY <1>3, <3>3
    <3> QED BY <1>3, <3>4
  <2> QED BY <2>1, <2>2
<1>5. ExecTypeOK'
  <2>1. cursor' \in Nat \ {0} /\ phase' \in Phases
    BY <1>1 DEF Phases
  <2> QED BY <1>1, <2>1 DEF IInv, ExecTypeOK
<1>6. IndicesInRange'
  <2>1. 1 \in 1 .. Len(tasks) + 1
    BY <1>3
  <2> QED BY <1>1, <2>1 DEF IInv, IndicesInRange
<1>7. RingHoldsTheClients'
  BY <1>1, <1>2 DEF IInv, RingHoldsTheClients, Live
<1>8. LiveAroundCursor' /\ CallInLoop' /\ SleepBelowCountdowns' /\ NoOversleep'
  BY <1>1, <1>2 DEF LiveAroundCursor, CallInLoop, SleepBelowCountdowns, NoOversleep
<1>9. ReadsetAligned'
  BY <1>1, <1>4 DEF ReadsetAligned
<1> QED BY <1>2, <1>5, <1>6, <1>7, <1>8, <1>9 DEF IInv

\* At an entry of the read loop, the socket whose status it reads is the task's own.
LEMMA EntryIsOwn ==
  ASSUME IInv, Entry
  PROVE  /\ readset[taskIndex] = tasks[cursor]
         /\ \E n \in {Len(tasks) - 1, Len(tasks)} : Aligned(taskIndex, cursor, n)
<1>1. /\ phase = "read" /\ cursor <= Len(tasks) /\ ~ task[tasks[cursor]].passive
      /\ taskIndex <= Len(readset)
  BY IInvFacts DEF Entry, AtEnd, Here
<1>2. /\ Len(tasks) \in Nat /\ cursor \in Nat /\ cursor >= 1 /\ taskIndex \in Nat
  BY IInvFacts
<1>3. PICK n \in {Len(tasks) - 1, Len(tasks)} : Aligned(taskIndex, cursor, n)
  BY <1>1 DEF IInv, ReadsetAligned
<1>4. n \in Int /\ n <= Len(tasks) /\ cursor \in 1 .. Len(tasks)
  BY <1>1, <1>2
<1>5. \A k \in Nat, i \in 1 .. Len(tasks) : k = taskIndex /\ i = cursor => readset[k] = tasks[i]
  BY <1>1, <1>3, <1>4, AlignedHead
<1> QED BY <1>2, <1>3, <1>4, <1>5

\* The read loop goes on to the next task, whatever it did with this one that
\* leaves it live.
LEMMA AdvanceIInv ==
  ASSUME IInv, Entry, Advance, LoopInv',
         \A d \in Conns \ {tasks[cursor]} : task'[d] = task[d],
         task'[tasks[cursor]].state # Quit, Live(tasks[cursor]),
         current' \in {NoConn, tasks[cursor]}
  PROVE  IInv'
<1> DEFINE h == tasks[cursor]
<1>1. /\ phase = "read" /\ phase' = "read" /\ cursor <= Len(tasks) /\ taskIndex <= Len(readset)
      /\ cursor' = cursor + 1 /\ taskIndex' = taskIndex + 1
      /\ UNCHANGED <<tasks, readset, status, listen, interval, sleep>>
  BY IInvFacts DEF Entry, AtEnd, Advance
<1>2. /\ Len(tasks) \in Nat /\ Len(readset) \in Nat /\ cursor \in Nat /\ cursor >= 1
      /\ taskIndex \in Nat /\ taskIndex >= 1 /\ cursor \in 1 .. Len(tasks)
  BY <1>1, IInvFacts
<1>3. \A d \in Conns : task'[d].state # Quit <=> task[d].state # Quit
  <2> SUFFICES ASSUME NEW d \in Conns PROVE task'[d].state # Quit <=> task[d].state # Quit
    OBVIOUS
  <2>1. CASE d = h
    BY <2>1 DEF Live
  <2>2. CASE d # h
    BY <2>2
  <2> QED BY <2>1, <2>2
<1>4. ExecTypeOK'
  <2>1. cursor' \in Nat \ {0} /\ taskIndex' \in Nat \ {0}
    BY <1>1, <1>2
  <2> QED BY <1>1, <2>1 DEF IInv, ExecTypeOK
<1>5. IndicesInRange'
  <2>1. cursor + 1 \in 1 .. Len(tasks) + 1 /\ taskIndex + 1 \in 1 .. Len(readset) + 1
    BY <1>1, <1>2
  <2> QED BY <1>1, <2>1 DEF IndicesInRange
<1>6. RingHoldsTheClients'
  BY <1>1, <1>3 DEF IInv, RingHoldsTheClients, Live
<1>7. LiveAroundCursor'
  <2>1. \A i \in cursor + 1 .. Len(tasks) : i \in cursor .. Len(tasks) /\ tasks[i] \in Conns
    BY <1>2, IInvFacts
  <2>2. \A i \in cursor + 1 .. Len(tasks) : task'[tasks[i]].state # Quit
    BY <1>1, <1>3, <2>1 DEF IInv, LiveAroundCursor, Live
  <2> QED BY <1>1, <2>2 DEF LiveAroundCursor, Live
<1>8. CallInLoop'
  <2>1. cursor' > 1 /\ cursor' - 1 = cursor
    BY <1>1, <1>2
  <2> QED BY <1>1, <2>1 DEF CallInLoop
<1>9. SleepBelowCountdowns' /\ NoOversleep'
  BY <1>1 DEF SleepBelowCountdowns, NoOversleep
<1>10. ReadsetAligned'
  <2>1. PICK n \in {Len(tasks) - 1, Len(tasks)} : Aligned(taskIndex, cursor, n)
    BY EntryIsOwn
  <2>2. PICK k \in Nat, i \in 1 .. Len(tasks) : k = taskIndex /\ i = cursor
    BY <1>2
  <2>3. Aligned(k + 1, i + 1, n)'
    <3>1. Aligned(k, i, n)
      BY <2>1, <2>2
    <3>2. n \in Int /\ n <= Len(tasks) /\ k >= 1 /\ k <= Len(readset)
      BY <1>1, <1>2, <2>2
    <3>3. readset[k] = tasks[i] /\ \A d \in Conns \ {tasks[i]} : task'[d] = task[d]
      BY <2>2, EntryIsOwn
    <3> QED BY <1>1, <3>1, <3>2, <3>3, AlignedAdvance
  <2>4. k + 1 = taskIndex' /\ i + 1 = cursor'
    BY <1>1, <2>2
  <2>5. Aligned(taskIndex, cursor, n)'
    BY <2>3, <2>4 DEF Aligned
  <2> QED BY <1>1, <2>1, <2>5 DEF ReadsetAligned
<1> QED BY <1>4, <1>5, <1>6, <1>7, <1>8, <1>9, <1>10 DEF IInv

\* What the read loop still has to see is live.
LEMMA EntryLive == ASSUME IInv, Entry PROVE tasks[cursor] \in Conns /\ Live(tasks[cursor])
<1>1. phase = "read" /\ cursor \in 1 .. Len(tasks) /\ cursor \in cursor .. Len(tasks)
  BY IInvFacts DEF Entry, AtEnd
<1> QED BY <1>1, IInvFacts DEF IInv, LiveAroundCursor

LEMMA ReadQuietIInv == ASSUME IInv, current = NoConn, ReadQuiet PROVE IInv'
<1>1. Entry /\ Advance /\ UNCHANGED loopVars
  BY DEF ReadQuiet
<1> QED BY <1>1, LoopVarsIInv, EntryLive, AdvanceIInv DEF Live

LEMMA ReadNoCbufIInv == ASSUME IInv, current = NoConn, ReadNoCbuf PROVE IInv'
<1>1. LoopInv' /\ UNCHANGED <<task, current, event, execVars>>
  BY HaltLoopInv DEF IInv, ReadNoCbuf, Halt
<1> QED BY <1>1, SameLoopIInv

LEMMA ReadIInv == ASSUME IInv, current = NoConn, Read PROVE IInv'
<1>1. Entry /\ Advance /\ (ReadEvent(tasks[cursor]) \/ ClosedEvent(tasks[cursor]))
  BY DEF Read, Here
<1>2. PICK c \in Conns : c = tasks[cursor]
  BY <1>1, EntryLive
<1>3. PICK ev \in Events : EventOf(c, ev)
  BY <1>1, <1>2 DEF EventOf, Events
<1>4. /\ LoopInv' /\ Live(c) /\ Live(c)' /\ current' = c
      /\ \A d \in Conns \ {c} : task'[d] = task[d]
  BY <1>3, EventLoopInv DEF IInv
<1> QED BY <1>1, <1>2, <1>4, AdvanceIInv DEF Live

-----------------------------------------------------------------------------
\* A sequence without its k-th element.
Without(s, k) == SubSeq(s, 1, k - 1) \o SubSeq(s, k + 1, Len(s))

LEMMA WithoutProperties ==
  ASSUME NEW S, NEW s \in Seq(S), NEW k \in 1 .. Len(s)
  PROVE  /\ Without(s, k) \in Seq(S) /\ Len(Without(s, k)) = Len(s) - 1
         /\ \A i \in 1 .. k - 1 : Without(s, k)[i] = s[i]
         /\ \A i \in k .. Len(s) - 1 : Without(s, k)[i] = s[i + 1]
<1> DEFINE t == Without(s, k)
<1>0. t = SubSeq(s, 1, k - 1) \o SubSeq(s, k + 1, Len(s))
  BY DEF Without
<1> HIDE DEF t
<1> DEFINE a == SubSeq(s, 1, k - 1)
           b == SubSeq(s, k + 1, Len(s))
<1>1. Len(s) \in Nat /\ k \in Nat /\ k >= 1 /\ k <= Len(s)
  OBVIOUS
<1>2. a \in Seq(S) /\ Len(a) = k - 1 /\ \A i \in 1 .. k - 1 : a[i] = s[i]
  <2>1. \A i \in 1 .. k - 1 : s[i] \in S
    BY <1>1
  <2>2. /\ SubSeq(s, 1, k - 1) \in Seq(S)
        /\ Len(SubSeq(s, 1, k - 1)) = (IF 1 <= k - 1 THEN k - 1 - 1 + 1 ELSE 0)
        /\ \A i \in 1 .. k - 1 - 1 + 1 : SubSeq(s, 1, k - 1)[i] = s[1 + i - 1]
    BY <1>1, <2>1, SubSeqProperties
  <2> QED BY <1>1, <2>2
<1>3. b \in Seq(S) /\ Len(b) = Len(s) - k /\ \A i \in 1 .. Len(s) - k : b[i] = s[k + i]
  <2>1. \A i \in k + 1 .. Len(s) : s[i] \in S
    BY <1>1
  <2>2. /\ SubSeq(s, k + 1, Len(s)) \in Seq(S)
        /\ Len(SubSeq(s, k + 1, Len(s))) = (IF k + 1 <= Len(s) THEN Len(s) - (k + 1) + 1 ELSE 0)
        /\ \A i \in 1 .. Len(s) - (k + 1) + 1 : SubSeq(s, k + 1, Len(s))[i] = s[k + 1 + i - 1]
    BY <1>1, <2>1, SubSeqProperties
  <2> QED BY <1>1, <2>2
<1> HIDE DEF a, b
<1>4. t = a \o b
  BY <1>0 DEF a, b
<1>5. /\ t \in Seq(S) /\ Len(t) = (k - 1) + (Len(s) - k)
      /\ \A i \in 1 .. k - 1 : t[i] = s[i]
      /\ \A i \in k .. Len(s) - 1 : t[i] = b[i - (k - 1)]
  <2>1. a \in Seq(S) /\ b \in Seq(S)
    BY <1>2, <1>3
  <2>2. /\ (a \o b) \in Seq(S) /\ Len(a \o b) = Len(a) + Len(b)
        /\ \A i \in 1 .. Len(a) + Len(b) : (a \o b)[i] = IF i <= Len(a) THEN a[i] ELSE b[i - Len(a)]
    BY <2>1, ConcatProperties
  <2>3. \A i \in 1 .. Len(s) - 1 : t[i] = IF i <= k - 1 THEN a[i] ELSE b[i - (k - 1)]
    <3>1. Len(a) + Len(b) = Len(s) - 1
      BY <1>1, <1>2, <1>3
    <3> QED BY <1>2, <1>4, <2>2, <3>1
  <2>4. \A i \in 1 .. k - 1 : i \in 1 .. Len(s) - 1 /\ i <= k - 1
    BY <1>1
  <2>5. \A i \in k .. Len(s) - 1 : i \in 1 .. Len(s) - 1 /\ ~ (i <= k - 1)
    BY <1>1
  <2>6. \A i \in 1 .. k - 1 : t[i] = s[i]
    BY <1>2, <2>3, <2>4
  <2>7. \A i \in k .. Len(s) - 1 : t[i] = b[i - (k - 1)]
    BY <2>3, <2>5
  <2> QED BY <1>2, <1>3, <1>4, <2>2, <2>6, <2>7
<1>6. \A i \in k .. Len(s) - 1 : t[i] = s[i + 1]
  <2> SUFFICES ASSUME NEW i \in k .. Len(s) - 1 PROVE t[i] = s[i + 1]
    OBVIOUS
  <2>1. i - (k - 1) \in 1 .. Len(s) - k /\ k + (i - (k - 1)) = i + 1
    BY <1>1
  <2> QED BY <1>3, <1>5, <2>1
<1>7. (k - 1) + (Len(s) - k) = Len(s) - 1
  BY <1>1
<1> QED BY <1>5, <1>6, <1>7 DEF t

LEMMA SweepRemoveIInv == ASSUME IInv, current = NoConn, SweepRemove PROVE IInv'
<1>1. /\ phase = "sweep" /\ phase' = "sweep" /\ cursor <= Len(tasks) /\ ~ Live(tasks[cursor])
      /\ UNCHANGED loopVars
      /\ UNCHANGED <<readset, status, listen, cursor, taskIndex, interval, sleep>>
      /\ tasks' = SubSeq(tasks, 1, cursor - 1) \o SubSeq(tasks, cursor + 1, Len(tasks))
  BY IInvFacts DEF SweepRemove, AtEnd, Here
<1>2. /\ LoopInv' /\ task' = task /\ current' = NoConn
  BY <1>1, LoopVarsIInv
<1>3. /\ Len(tasks) \in Nat /\ cursor \in 1 .. Len(tasks) /\ tasks \in Seq(Conns)
      /\ \A i, j \in 1 .. Len(tasks) : tasks[i] = tasks[j] => i = j
  BY <1>1, IInvFacts
<1>4. /\ tasks' \in Seq(Conns) /\ Len(tasks') = Len(tasks) - 1
      /\ \A i \in 1 .. cursor - 1 : tasks'[i] = tasks[i]
      /\ \A i \in cursor .. Len(tasks) - 1 : tasks'[i] = tasks[i + 1]
  <2>1. PICK k \in 1 .. Len(tasks) : k = cursor
    BY <1>3
  <2>2. tasks' = Without(tasks, k)
    BY <1>1, <2>1 DEF Without
  <2>3. /\ Without(tasks, k) \in Seq(Conns) /\ Len(Without(tasks, k)) = Len(tasks) - 1
        /\ \A i \in 1 .. k - 1 : Without(tasks, k)[i] = tasks[i]
        /\ \A i \in k .. Len(tasks) - 1 : Without(tasks, k)[i] = tasks[i + 1]
    BY <1>3, WithoutProperties
  <2> QED BY <2>1, <2>2, <2>3
<1>5. DOMAIN tasks' = 1 .. Len(tasks) - 1
  BY <1>4
<1>6. ExecTypeOK'
  BY <1>1, <1>4 DEF IInv, ExecTypeOK
<1>7. IndicesInRange'
  <2>1. cursor \in 1 .. Len(tasks') + 1
    BY <1>3, <1>4
  <2> QED BY <1>1, <2>1 DEF IInv, IndicesInRange
<1>8. RingHoldsTheClients'
  <2>1. ASSUME NEW i \in DOMAIN tasks', NEW j \in DOMAIN tasks', tasks'[i] = tasks'[j]
        PROVE  i = j
    <3>1. i \in 1 .. Len(tasks) - 1 /\ j \in 1 .. Len(tasks) - 1
      BY <1>5, <2>1
    <3> DEFINE Old(m) == IF m < cursor THEN m ELSE m + 1
    <3>2. Old(i) \in 1 .. Len(tasks) /\ Old(j) \in 1 .. Len(tasks)
      BY <1>3, <3>1
    <3>3. tasks'[i] = tasks[Old(i)] /\ tasks'[j] = tasks[Old(j)]
      BY <1>3, <1>4, <3>1
    <3>4. Old(i) = Old(j)
      BY <1>3, <2>1, <3>2, <3>3
    <3> QED BY <1>3, <3>1, <3>4
  <2>2. ASSUME NEW c \in Conns, Live(c)' PROVE \E i \in DOMAIN tasks' : tasks'[i] = c
    <3>1. Live(c)
      BY <1>2, <2>2 DEF Live
    <3>2. PICK i \in 1 .. Len(tasks) : tasks[i] = c
      BY <3>1, IInvFacts DEF IInv, RingHoldsTheClients
    <3>3. i # cursor
      BY <1>1, <3>1, <3>2
    <3>4. CASE i < cursor
      <4>1. i \in 1 .. cursor - 1 /\ i \in 1 .. Len(tasks) - 1
        BY <1>3, <3>2, <3>4
      <4> QED BY <1>4, <1>5, <3>2, <4>1
    <3>5. CASE i > cursor
      <4>1. i - 1 \in cursor .. Len(tasks) - 1 /\ i - 1 \in 1 .. Len(tasks) - 1 /\ (i - 1) + 1 = i
        BY <1>3, <3>2, <3>5
      <4>2. tasks'[i - 1] = c
        BY <1>4, <3>2, <4>1
      <4> QED BY <1>5, <4>1, <4>2
    <3> QED BY <1>3, <3>2, <3>3, <3>4, <3>5
  <2>3. phase' = "sweep"
    BY <1>1
  <2> QED BY <2>1, <2>2, <2>3 DEF RingHoldsTheClients
<1>9. LiveAroundCursor' /\ CallInLoop' /\ SleepBelowCountdowns' /\ NoOversleep'
  <2>1. \A i \in 1 .. cursor - 1 : Live(tasks[i])
    BY <1>1 DEF IInv, LiveAroundCursor
  <2> QED BY <1>1, <1>2, <1>4, <2>1 DEF LiveAroundCursor, CallInLoop, SleepBelowCountdowns,
             NoOversleep, Live
<1>10. ReadsetAligned'
  BY <1>1 DEF IInv, ReadsetAligned
<1> QED BY <1>2, <1>6, <1>7, <1>8, <1>9, <1>10 DEF IInv

\* The sweep goes from the poll to the timer of a task, and on, leaving it live.
LEMMA AtIInv ==
  ASSUME IInv, NEW ph \in {"timer", "next"}, phase \in {"sweep", "timer"}, At(ph), LoopInv',
         cursor <= Len(tasks),
         \A d \in Conns \ {tasks[cursor]} : task'[d] = task[d],
         \/ UNCHANGED <<task, current>>
         \/ Live(tasks[cursor]) /\ task'[tasks[cursor]].state # Quit,
         current' \in {NoConn, tasks[cursor]}
  PROVE  IInv'
<1>1. /\ phase' = ph /\ phase' \in {"timer", "next"}
      /\ UNCHANGED <<tasks, readset, status, listen, cursor, taskIndex, interval, sleep>>
  BY DEF At
<1>2. \A d \in Conns : task'[d].state # Quit <=> task[d].state # Quit
  <2> SUFFICES ASSUME NEW d \in Conns PROVE task'[d].state # Quit <=> task[d].state # Quit
    OBVIOUS
  <2>1. CASE d = tasks[cursor]
    BY <2>1 DEF Live
  <2>2. CASE d # tasks[cursor]
    BY <2>2
  <2> QED BY <2>1, <2>2
<1>3. ExecTypeOK'
  <2>1. phase' \in Phases
    BY <1>1 DEF Phases
  <2> QED BY <1>1, <2>1 DEF IInv, ExecTypeOK
<1>4. IndicesInRange'
  BY <1>1 DEF IInv, IndicesInRange
<1>5. RingHoldsTheClients'
  BY <1>1, <1>2 DEF IInv, RingHoldsTheClients, Live
<1>6. LiveAroundCursor'
  <2>1. \A i \in 1 .. cursor - 1 : tasks[i] \in Conns
    BY IInvFacts
  <2>2. \A i \in 1 .. cursor - 1 : task'[tasks[i]].state # Quit
    BY <1>2, <2>1 DEF IInv, LiveAroundCursor, Live
  <2> QED BY <1>1, <2>2 DEF LiveAroundCursor, Live
<1>7. CallInLoop'
  BY <1>1 DEF CallInLoop
<1>8. SleepBelowCountdowns' /\ NoOversleep'
  BY <1>1 DEF SleepBelowCountdowns, NoOversleep
<1>9. ReadsetAligned'
  BY <1>1 DEF IInv, ReadsetAligned
<1> QED BY <1>3, <1>4, <1>5, <1>6, <1>7, <1>8, <1>9 DEF IInv

LEMMA SweepPollIInv == ASSUME IInv, current = NoConn, SweepPoll PROVE IInv'
<1>1. /\ phase \in {"sweep", "timer"} /\ cursor <= Len(tasks) /\ At("timer")
      /\ IF task[tasks[cursor]].poll = 0 THEN PollEvent(tasks[cursor]) ELSE UNCHANGED loopVars
  BY IInvFacts DEF SweepPoll, AtEnd, Here
<1>2. PICK c \in Conns : c = tasks[cursor]
  BY <1>1, IInvFacts
<1>3. CASE task[c].poll = 0
  <2>1. EventOf(c, "POLL") /\ "POLL" \in Events
    BY <1>1, <1>2, <1>3 DEF EventOf, Events
  <2>2. /\ LoopInv' /\ Live(c) /\ Live(c)' /\ current' = c
        /\ \A d \in Conns \ {c} : task'[d] = task[d]
    BY <2>1, EventLoopInv DEF IInv
  <2> QED BY <1>1, <1>2, <2>2, AtIInv DEF Live
<1>4. CASE task[c].poll # 0
  <2>1. LoopInv' /\ task' = task /\ current' = current
    BY <1>1, <1>2, <1>4, LoopVarsIInv
  <2> QED BY <1>1, <1>2, <2>1, AtIInv
<1> QED BY <1>3, <1>4

LEMMA SweepTimerIInv == ASSUME IInv, current = NoConn, SweepTimer PROVE IInv'
<1>1. /\ phase \in {"sweep", "timer"} /\ cursor <= Len(tasks) /\ At("next")
      /\ IF task[tasks[cursor]].timer = 0 THEN TimerEvent(tasks[cursor]) ELSE UNCHANGED loopVars
  BY DEF SweepTimer, Here, IInv, IndicesInRange
<1>2. PICK c \in Conns : c = tasks[cursor]
  BY <1>1, IInvFacts
<1>3. CASE task[c].timer = 0
  <2>1. EventOf(c, "TIMER") /\ "TIMER" \in Events
    BY <1>1, <1>2, <1>3 DEF EventOf, Events
  <2>2. /\ LoopInv' /\ Live(c) /\ Live(c)' /\ current' = c
        /\ \A d \in Conns \ {c} : task'[d] = task[d]
    BY <2>1, EventLoopInv DEF IInv
  <2> QED BY <1>1, <1>2, <2>2, AtIInv DEF Live
<1>4. CASE task[c].timer # 0
  <2>1. LoopInv' /\ task' = task /\ current' = current
    BY <1>1, <1>2, <1>4, LoopVarsIInv
  <2> QED BY <1>1, <1>2, <2>1, AtIInv
<1> QED BY <1>3, <1>4

LEMMA SweepNextIInv == ASSUME IInv, current = NoConn, SweepNext PROVE IInv'
<1>1. /\ phase = "next" /\ phase' = "sweep" /\ cursor <= Len(tasks) /\ UNCHANGED loopVars
      /\ UNCHANGED <<tasks, readset, status, listen, taskIndex, interval, sleep>>
      /\ cursor' = IF Live(tasks[cursor]) THEN cursor + 1 ELSE cursor
  BY DEF SweepNext, Here, IInv, IndicesInRange
<1>2. /\ LoopInv' /\ task' = task /\ current' = NoConn
  BY <1>1, LoopVarsIInv
<1>3. Len(tasks) \in Nat /\ cursor \in Nat /\ cursor >= 1 /\ cursor' \in {cursor, cursor + 1}
  BY <1>1, IInvFacts
<1>4. ExecTypeOK'
  <2>1. cursor' \in Nat \ {0} /\ phase' \in Phases
    BY <1>1, <1>3 DEF Phases
  <2> QED BY <1>1, <2>1 DEF IInv, ExecTypeOK
<1>5. IndicesInRange'
  <2>1. cursor' \in 1 .. Len(tasks) + 1
    BY <1>1, <1>3
  <2> QED BY <1>1, <2>1 DEF IInv, IndicesInRange
<1>6. RingHoldsTheClients'
  BY <1>1, <1>2 DEF IInv, RingHoldsTheClients, Live
<1>7. LiveAroundCursor'
  <2>1. \A i \in 1 .. cursor - 1 : Live(tasks[i])
    BY <1>1 DEF IInv, LiveAroundCursor
  <2>2. \A i \in 1 .. cursor' - 1 : Live(tasks[i])
    <3> SUFFICES ASSUME NEW i \in 1 .. cursor' - 1, ~ (i \in 1 .. cursor - 1) PROVE Live(tasks[i])
      BY <2>1
    <3>1. cursor' = cursor + 1
      BY <1>3
    <3>2. i = cursor /\ cursor # cursor + 1
      BY <1>3, <3>1
    <3> QED BY <1>1, <3>1, <3>2
  <2> QED BY <1>1, <1>2, <2>2 DEF LiveAroundCursor, Live
<1>8. CallInLoop' /\ SleepBelowCountdowns' /\ NoOversleep'
  BY <1>1, <1>2 DEF CallInLoop, SleepBelowCountdowns, NoOversleep
<1>9. ReadsetAligned'
  BY <1>1 DEF IInv, ReadsetAligned
<1> QED BY <1>2, <1>4, <1>5, <1>6, <1>7, <1>8, <1>9 DEF IInv

\* A ring turned by one task.
LEMMA TurnProperties ==
  ASSUME NEW S, NEW s \in Seq(S), Len(s) > 1
  PROVE  /\ Append(Tail(s), Head(s)) \in Seq(S)
         /\ Len(Append(Tail(s), Head(s))) = Len(s)
         /\ \A i \in 1 .. Len(s) - 1 : Append(Tail(s), Head(s))[i] = s[i + 1]
         /\ Append(Tail(s), Head(s))[Len(s)] = s[1]
<1>1. s # <<>> /\ Len(s) \in Nat
  OBVIOUS
<1>2. /\ Tail(s) \in Seq(S) /\ Len(Tail(s)) = Len(s) - 1 /\ Head(s) \in S /\ Head(s) = s[1]
      /\ \A i \in 1 .. Len(Tail(s)) : Tail(s)[i] = s[i + 1]
  BY <1>1, HeadTailProperties
<1>3. /\ Append(Tail(s), Head(s)) \in Seq(S)
      /\ Len(Append(Tail(s), Head(s))) = Len(Tail(s)) + 1
      /\ \A i \in 1 .. Len(Tail(s)) : Append(Tail(s), Head(s))[i] = Tail(s)[i]
      /\ Append(Tail(s), Head(s))[Len(Tail(s)) + 1] = Head(s)
  BY <1>2, AppendProperties
<1> QED BY <1>1, <1>2, <1>3

LEMMA RotateIInv == ASSUME IInv, current = NoConn, Rotate PROVE IInv'
<1>1. /\ phase = "sweep" /\ phase' = "calibrate" /\ ~ (cursor <= Len(tasks)) /\ UNCHANGED loopVars
      /\ UNCHANGED <<readset, status, listen, cursor, taskIndex, interval, sleep>>
      /\ tasks' = IF Len(tasks) > 1 THEN Append(Tail(tasks), Head(tasks)) ELSE tasks
  BY IInvFacts DEF Rotate, AtEnd
<1>2. /\ LoopInv' /\ task' = task /\ current' = NoConn
  BY <1>1, LoopVarsIInv
<1>3. /\ Len(tasks) \in Nat /\ cursor - 1 = Len(tasks) /\ tasks \in Seq(Conns)
      /\ \A i, j \in 1 .. Len(tasks) : tasks[i] = tasks[j] => i = j
  BY <1>1, IInvFacts
<1>4. \A i \in 1 .. Len(tasks) : Live(tasks[i])
  BY <1>1, <1>3 DEF IInv, LiveAroundCursor
\* Where the task at position i of the new ring was in the old one.
<1> DEFINE Old(i) == IF Len(tasks) > 1 THEN IF i = Len(tasks) THEN 1 ELSE i + 1 ELSE i
<1>5. /\ tasks' \in Seq(Conns) /\ Len(tasks') = Len(tasks)
      /\ \A i \in 1 .. Len(tasks) : tasks'[i] = tasks[Old(i)]
  <2>1. CASE Len(tasks) > 1
    <3>1. /\ tasks' \in Seq(Conns) /\ Len(tasks') = Len(tasks) /\ tasks'[Len(tasks)] = tasks[1]
          /\ \A i \in 1 .. Len(tasks) - 1 : tasks'[i] = tasks[i + 1]
      BY <1>1, <1>3, <2>1, TurnProperties
    <3>2. \A i \in 1 .. Len(tasks) : i # Len(tasks) => i \in 1 .. Len(tasks) - 1
      BY <1>3
    <3> QED BY <2>1, <3>1, <3>2
  <2>2. CASE ~ (Len(tasks) > 1)
    BY <1>1, <1>3, <2>2
  <2> QED BY <2>1, <2>2
<1>6. /\ DOMAIN tasks' = 1 .. Len(tasks) /\ \A i \in 1 .. Len(tasks) : Old(i) \in 1 .. Len(tasks)
      /\ \A i, j \in 1 .. Len(tasks) : Old(i) = Old(j) => i = j
  BY <1>3, <1>5
<1>7. \A j \in 1 .. Len(tasks) : \E i \in 1 .. Len(tasks) : Old(i) = j
  <2> SUFFICES ASSUME NEW j \in 1 .. Len(tasks) PROVE \E i \in 1 .. Len(tasks) : Old(i) = j
    OBVIOUS
  <2> DEFINE i == IF Len(tasks) > 1 THEN IF j = 1 THEN Len(tasks) ELSE j - 1 ELSE j
  <2>1. i \in 1 .. Len(tasks)
    BY <1>3
  <2>2. Old(i) = j
    BY <1>3
  <2> QED BY <2>1, <2>2
<1> HIDE DEF Old
<1>8. ExecTypeOK'
  <2>1. phase' \in Phases
    BY <1>1 DEF Phases
  <2> QED BY <1>1, <1>5, <2>1 DEF IInv, ExecTypeOK
<1>9. IndicesInRange'
  BY <1>1, <1>5 DEF IInv, IndicesInRange
<1>10. RingHoldsTheClients'
  <2>1. \A i, j \in DOMAIN tasks' : tasks'[i] = tasks'[j] => i = j
    BY <1>3, <1>5, <1>6
  <2>2. ASSUME NEW c \in Conns, Live(c)' PROVE \E i \in DOMAIN tasks' : tasks'[i] = c
    <3>1. Live(c)
      BY <1>2, <2>2 DEF Live
    <3>2. PICK j \in 1 .. Len(tasks) : tasks[j] = c
      BY <3>1, IInvFacts DEF IInv, RingHoldsTheClients
    <3>3. PICK i \in 1 .. Len(tasks) : Old(i) = j
      BY <1>7
    <3> QED BY <1>5, <1>6, <3>2, <3>3
  <2>3. \A i \in DOMAIN tasks' : task'[tasks'[i]].state # Quit
    BY <1>2, <1>4, <1>5, <1>6 DEF Live
  <2> QED BY <2>1, <2>2, <2>3 DEF RingHoldsTheClients, Live
<1>11. LiveAroundCursor' /\ CallInLoop' /\ SleepBelowCountdowns' /\ NoOversleep' /\ ReadsetAligned'
  BY <1>1, <1>2 DEF LiveAroundCursor, CallInLoop, SleepBelowCountdowns, NoOversleep, ReadsetAligned
<1> QED BY <1>2, <1>8, <1>9, <1>10, <1>11 DEF IInv

-----------------------------------------------------------------------------
\* A handler returns: only its own task changes, and the loop is at a point that
\* does not look at it as a live one any more.
LEMMA HandleIInv == ASSUME IInv, Handle PROVE IInv'
<1>1. PICK e \in HandlerEffects : Settle(current, e)
  BY DEF Handle, Return, HandlerEffects
<1>2. PICK c \in Conns : c = current
  BY DEF Handle, Return, IInv, LoopInv, LoopTypeOK
<1>3. /\ LoopInv' /\ \A d \in Conns \ {c} : task'[d] = task[d]
      /\ task'[c].state = e.next
      /\ e.next # Quit => task'[c].passive = task[c].passive
      /\ current' = NoConn \/ (current' = c /\ event' = "ENTRY" /\ e.next # Quit)
  BY <1>1, <1>2, SettleLoopInv DEF IInv
<1>4. UNCHANGED <<tasks, readset, status, listen, phase, cursor, taskIndex, interval, sleep>>
  BY DEF Handle, execVars
<1>5. /\ Live(c) /\ current # NoConn
  BY <1>2, ConnsAssumption DEF IInv, LoopInv, DestroyedIsClean
<1>6. /\ Len(tasks) \in Nat /\ cursor \in Nat /\ cursor >= 1
      /\ \A i \in 1 .. Len(tasks) : tasks[i] \in Conns
      /\ \A i, j \in 1 .. Len(tasks) : tasks[i] = tasks[j] => i = j
      /\ cursor <= Len(tasks) + 1 /\ taskIndex \in Nat /\ taskIndex >= 1
      /\ \A l \in 1 .. Len(readset) : readset[l] \in Conns
  BY IInvFacts
<1>7. \/ phase \in {"timer", "next"} /\ c = tasks[cursor]
      \/ phase = "read" /\ cursor > 1 /\ c = tasks[cursor - 1]
      \/ /\ phase = "read" /\ cursor = 1 /\ Len(tasks) > 0 /\ c = tasks[Len(tasks)]
         /\ event = "ENTRY" /\ task[c].state \in Fresh
  BY <1>2, <1>5 DEF IInv, CallInLoop
<1>8. task[c].state \in Fresh /\ event = "ENTRY" => e.next \in Fresh /\ e.next # Quit
  <2>1. task[c].poll \in Delta /\ task[c].timer \in Delta
    BY IInvFacts
  <2>2. Quit \notin Fresh
    BY FreshIsFresh, StatesAssumption
  <2> QED BY <1>2, <2>1, <2>2, FreshIsFresh DEF HandlerEffects, FreshStates
<1>9. ExecTypeOK' /\ IndicesInRange'
  BY <1>4 DEF IInv, ExecTypeOK, IndicesInRange
<1>10. RingHoldsTheClients'
  <2>1. \A d \in Conns : Live(d)' => Live(d)
    BY <1>3, <1>5 DEF Live
  <2>2. phase' \in {"read", "sweep", "timer", "next"}
    BY <1>4, <1>7
  <2> QED BY <1>4, <2>1, <2>2 DEF IInv, RingHoldsTheClients
<1>11. LiveAroundCursor'
  <2>1. ASSUME NEW i \in 1 .. cursor - 1, phase \in {"sweep", "timer", "next"}
        PROVE  task'[tasks[i]].state # Quit
    <3>1. c = tasks[cursor] /\ cursor \in 1 .. Len(tasks) /\ i \in 1 .. Len(tasks) /\ i # cursor
      BY <1>6, <1>7, <2>1 DEF IInv, IndicesInRange
    <3>2. tasks[i] \in Conns \ {c}
      BY <1>6, <3>1
    <3>3. Live(tasks[i])
      BY <2>1 DEF IInv, LiveAroundCursor
    <3> QED BY <1>3, <3>2, <3>3 DEF Live
  <2>2. ASSUME NEW i \in cursor .. Len(tasks), phase = "read"
        PROVE  task'[tasks[i]].state # Quit
    <3>1. Live(tasks[i]) /\ i \in 1 .. Len(tasks)
      BY <1>6, <2>2 DEF IInv, LiveAroundCursor
    <3>2. CASE cursor > 1 /\ c = tasks[cursor - 1]
      <4>1. cursor - 1 \in 1 .. Len(tasks) /\ i # cursor - 1
        BY <1>6, <3>2
      <4>2. tasks[i] \in Conns \ {c}
        BY <1>6, <3>1, <3>2, <4>1
      <4> QED BY <1>3, <3>1, <4>2 DEF Live
    <3>3. CASE task[c].state \in Fresh /\ event = "ENTRY"
      <4>1. task'[c].state # Quit /\ tasks[i] \in Conns
        BY <1>3, <1>6, <1>8, <3>1, <3>3
      <4> QED BY <1>3, <3>1, <4>1 DEF Live
    <3> QED BY <1>7, <2>2, <3>2, <3>3
  <2> QED BY <1>4, <2>1, <2>2 DEF LiveAroundCursor, Live
<1>12. CallInLoop'
  <2>1. CASE current' = NoConn
    BY <2>1 DEF CallInLoop
  <2>2. CASE current' = c /\ event' = "ENTRY"
    <3>1. task[c].state \in Fresh /\ event = "ENTRY" => task'[c].state \in Fresh
      BY <1>3, <1>8
    <3> QED BY <1>4, <1>7, <2>2, <3>1 DEF CallInLoop
  <2> QED BY <1>3, <2>1, <2>2
<1>13. SleepBelowCountdowns' /\ NoOversleep'
  BY <1>4, <1>7 DEF SleepBelowCountdowns, NoOversleep
<1>14. ReadsetAligned'
  <2>1. CASE phase \in {"timer", "next"}
    BY <1>4, <2>1 DEF IInv, ReadsetAligned
  <2>2. CASE phase = "read"
    <3>1. PICK n \in {Len(tasks) - 1, Len(tasks)} : Aligned(taskIndex, cursor, n)
      BY <2>2 DEF IInv, ReadsetAligned
    <3>2. /\ \A j \in cursor .. n : task'[tasks[j]].passive = task[tasks[j]].passive
          /\ \A l \in taskIndex .. Len(readset) : task'[readset[l]].passive = task[readset[l]].passive
      <4>1. CASE cursor > 1 /\ c = tasks[cursor - 1]
        <5>1. \A j \in cursor .. n : j \in 1 .. Len(tasks) /\ j # cursor - 1
          BY <1>6, <4>1
        <5>2. \A j \in cursor .. n : tasks[j] \in Conns \ {c}
          <6>1. cursor - 1 \in 1 .. Len(tasks)
            BY <1>6, <4>1
          <6> QED BY <1>6, <4>1, <5>1, <6>1
        <5>3. \A l \in taskIndex .. Len(readset) : readset[l] \in Conns \ {c}
          BY <3>1, <5>2 DEF Aligned
        <5> QED BY <1>3, <5>2, <5>3
      <4>2. CASE task[c].state \in Fresh /\ event = "ENTRY"
        <5>1. \A d \in Conns : task'[d].passive = task[d].passive
          BY <1>3, <1>8, <4>2
        <5>2. /\ \A j \in cursor .. n : tasks[j] \in Conns
              /\ \A l \in taskIndex .. Len(readset) : readset[l] \in Conns
          BY <1>6, <3>1 DEF Aligned
        <5> QED BY <5>1, <5>2
      <4> QED BY <1>7, <2>2, <4>1, <4>2
    <3>3. PICK k \in Nat, i \in Nat : k = taskIndex /\ i = cursor
      BY <1>6
    <3>4. Aligned(k, i, n)
      BY <3>1, <3>3
    <3>5. Aligned(k, i, n)'
      BY <1>4, <3>2, <3>3, <3>4, AlignedSame
    <3>6. Aligned(taskIndex, cursor, n)'
      BY <1>4, <3>3, <3>5 DEF Aligned
    <3> QED BY <1>4, <2>2, <3>1, <3>6 DEF ReadsetAligned
  <2> QED BY <1>7, <2>1, <2>2
<1> QED BY <1>3, <1>9, <1>10, <1>11, <1>12, <1>13, <1>14 DEF IInv

LEMMA EnvironmentIInv == ASSUME IInv, Environment PROVE IInv'
<1>1. PICK c \in Conns : PeerStep(c) /\ UNCHANGED <<task, current, event, stuck, execVars>>
  BY DEF Environment
<1>2. LoopInv'
  BY <1>1, PeerStepLoopInv DEF IInv
<1> QED BY <1>1, <1>2, SameLoopIInv

LEMMA NextIInv == IInv /\ [Next]_vars => IInv'
<1> SUFFICES ASSUME IInv, [Next]_vars PROVE IInv'
  OBVIOUS
<1>1. CASE Step
  <2>1. current = NoConn
    BY <1>1 DEF Step
  <2>2. ASSUME NEW ms \in 0 .. Delay, Poll(ms) \/ Calibrate(sleep + ms) PROVE IInv'
    BY <2>1, <2>2, PollIInv, CalibrateIInv
  <2>3. CASE Build \/ BuildEnd \/ Select
    BY <2>1, <2>3, BuildIInv, BuildEndIInv, SelectIInv
  <2>4. CASE AcceptNone \/ AcceptRefuse \/ Accept
    BY <2>1, <2>4, AcceptNoneIInv, AcceptRefuseIInv, AcceptIInv
  <2>5. CASE ReadSkip \/ ReadEnd \/ ReadQuiet \/ ReadNoCbuf \/ Read
    BY <2>1, <2>5, ReadSkipIInv, ReadEndIInv, ReadQuietIInv, ReadNoCbufIInv, ReadIInv
  <2>6. CASE SweepRemove \/ SweepPoll \/ SweepTimer \/ SweepNext \/ Rotate
    BY <2>1, <2>6, SweepRemoveIInv, SweepPollIInv, SweepTimerIInv, SweepNextIInv, RotateIInv
  <2> QED BY <1>1, <2>2, <2>3, <2>4, <2>5, <2>6 DEF Step
<1>2. CASE Handle
  BY <1>2, HandleIInv
<1>3. CASE Environment
  BY <1>3, EnvironmentIInv
<1>4. CASE UNCHANGED vars
  <2>1. UNCHANGED loopVars /\ UNCHANGED execVars
    BY <1>4 DEF vars
  <2>2. LoopInv' /\ UNCHANGED <<task, current, event, execVars>>
    BY <2>1, LoopVarsIInv
  <2> QED BY <2>2, SameLoopIInv
<1> QED BY <1>1, <1>2, <1>3, <1>4 DEF Next

\* The invariant is inductive, so it holds of every behaviour.
LEMMA SpecIInv == Spec => []IInv
  BY InitIInv, NextIInv, PTL DEF Spec

-----------------------------------------------------------------------------
\* Every variable keeps its type; the loops' indices never leave the ring.
THEOREM TypeCorrect == Spec => []TypeOK
<1>1. IInv => TypeOK
  BY DEF IInv, ExecTypeOK, LoopInv, TypeOK
<1> QED BY <1>1, SpecIInv, PTL

\* Accept, the sweep and the rotation neither lose a task nor link one twice,
\* and outside the loops that unlink them the ring has no task without a client.
THEOREM RingIsSound == Spec => []RingHoldsTheClients
<1>1. IInv => RingHoldsTheClients
  BY DEF IInv
<1> QED BY <1>1, SpecIInv, PTL

\* exec never looks into the client of a task that throw_event destroyed.
THEOREM ClientsAreNotUsedFreed == Spec => []NoFreedClient
<1>1. IInv => NoFreedClient
  <2> SUFFICES ASSUME IInv PROVE NoFreedClient
    OBVIOUS
  <2>1. phase = "build" => \A i \in DOMAIN tasks : Live(tasks[i])
    BY DEF IInv, RingHoldsTheClients
  <2>2. phase = "read" => \A i \in cursor .. Len(tasks) : Live(tasks[i])
    BY DEF IInv, LiveAroundCursor
  <2>3. current # NoConn => Live(current)
    BY DEF IInv, LoopInv, DestroyedIsClean
  <2> QED BY <2>1, <2>2, <2>3 DEF NoFreedClient
<1> QED BY <1>1, SpecIInv, PTL

\* Counting the tasks that are not closed leads the read loop to the status of
\* the task's own socket, whatever its handlers and accept did since select.
THEOREM StatusesMatch == Spec => []ReadsItsOwnStatus
<1>1. IInv => ReadsItsOwnStatus
  BY EntryIsOwn DEF ReadsItsOwnStatus, Here
<1> QED BY <1>1, SpecIInv, PTL

\* No socket select reported on is left out by the read loop.
THEOREM ReadLoopIsComplete == Spec => []NobodySkipped
<1>1. IInv => NobodySkipped
  BY DEF IInv, ReadsetAligned, NobodySkipped
<1> QED BY <1>1, SpecIInv, PTL

\* select sleeps no longer than the least countdown of the clients.
THEOREM SleepIsBounded == Spec => []NoOversleep
<1>1. IInv => NoOversleep
  BY DEF IInv
<1> QED BY <1>1, SpecIInv, PTL

\* A destroyed task leaves nothing behind in the loop either.
THEOREM DestroyedStaysClean == Spec => []DestroyedIsClean
<1>1. IInv => DestroyedIsClean
  BY DEF IInv, LoopInv
<1> QED BY <1>1, SpecIInv, PTL

-----------------------------------------------------------------------------
\* A step of the loop that throws no event and settles nothing, but for the
\* passing of time, is invisible in EventLoop.
LEMMA StepSimulates ==
  ASSUME IInv, Step
  PROVE  LoopNext \/ UNCHANGED loopVars
<1>1. ~ stuck /\ current = NoConn
  BY DEF Step
<1>2. Server => LoopNext
  BY <1>1 DEF LoopNext
<1>3. ASSUME NEW ms \in 0 .. Infinite, Elapse(ms), UNCHANGED <<peers, current, event, stuck>>
      PROVE  LoopNext
  BY <1>2, <1>3 DEF Server
<1>4. ASSUME NEW c \in Conns, ReadEvent(c) \/ ClosedEvent(c) \/ PollEvent(c) \/ TimerEvent(c)
      PROVE  LoopNext
  BY <1>2, <1>4 DEF Server
<1>5. ASSUME NEW ms \in 0 .. Delay, Poll(ms) \/ Calibrate(sleep + ms) PROVE LoopNext
  <2>1. ms \in 0 .. Infinite /\ sleep + ms \in 0 .. Infinite
    <3>1. sleep \in 0 .. Interval
      BY IInvFacts
    <3> QED BY <3>1, TimeAssumption, BoundsAssumption
  <2> QED BY <1>3, <1>5, <2>1 DEF Poll, Calibrate
<1>6. CASE Build
  <2>1. Halt \/ UNCHANGED loopVars
    BY <1>6 DEF Build, Halt, loopVars, peers
  <2> QED BY <1>2, <2>1 DEF Server
<1>7. CASE BuildEnd \/ Select \/ AcceptNone \/ ReadSkip \/ ReadEnd \/ ReadQuiet \/ SweepRemove
           \/ SweepNext \/ Rotate
  BY <1>7 DEF BuildEnd, Select, AcceptNone, ReadSkip, ReadEnd, ReadQuiet, SweepRemove, SweepNext,
     Rotate
<1>8. CASE AcceptRefuse \/ Accept
  BY <1>2, <1>8 DEF AcceptRefuse, Accept, Server
<1>9. CASE ReadNoCbuf
  <2>1. Halt
    BY <1>9 DEF ReadNoCbuf, Halt
  <2> QED BY <1>2, <2>1 DEF Server
<1>10. CASE Read
  BY <1>4, <1>10, EntryLive DEF Read, Here
<1>11. CASE SweepPoll
  <2>1. PollEvent(Here) \/ UNCHANGED loopVars
    BY <1>11 DEF SweepPoll
  <2>2. Here \in Conns
    BY <1>11, IInvFacts DEF SweepPoll, AtEnd, Here
  <2> QED BY <1>4, <2>1, <2>2
<1>12. CASE SweepTimer
  <2>1. TimerEvent(Here) \/ UNCHANGED loopVars
    BY <1>12 DEF SweepTimer
  <2>2. Here \in Conns
    <3>1. cursor <= Len(tasks)
      BY <1>12 DEF SweepTimer, IInv, IndicesInRange
    <3> QED BY <3>1, IInvFacts DEF Here
  <2> QED BY <1>4, <2>1, <2>2
<1> QED BY <1>5, <1>6, <1>7, <1>8, <1>9, <1>10, <1>11, <1>12 DEF Step

\* The loop keeps EventLoop's promise to the handlers: whatever the order it
\* looks for events in, only these events reach them, and only as they may.
THEOREM ImplementsEventLoop == Spec => LoopSpec
<1>1. Init => LoopInit
  BY DEF Init
<1>2. IInv /\ [Next]_vars => [LoopNext]_loopVars
  <2> SUFFICES ASSUME IInv, [Next]_vars PROVE LoopNext \/ UNCHANGED loopVars
    OBVIOUS
  <2>1. CASE Step
    BY <2>1, StepSimulates
  <2>2. CASE Handle
    BY <2>2 DEF Handle, LoopNext
  <2>3. CASE Environment
    BY <2>3 DEF Environment, LoopNext
  <2>4. CASE UNCHANGED vars
    BY <2>4 DEF vars
  <2> QED BY <2>1, <2>2, <2>3, <2>4 DEF Next
<1> QED BY <1>1, <1>2, SpecIInv, PTL DEF Spec, LoopSpec
=============================================================================
