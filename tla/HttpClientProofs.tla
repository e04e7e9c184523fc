------------------------- MODULE HttpClientProofs --------------------------
(***************************************************************************)
(* The safety of the HTTP client, for any peers, buffers, files and        *)
(* timers: what each state may rely on (Good), from which the invariants   *)
(* of HttpClient follow; that the handlers ask of the scheduler what       *)
(* HttpStates lists (LoopSpec); and that the states keep what a connection *)
(* promises (ExchangeSpec).                                                *)
(***************************************************************************)
EXTENDS HttpClient, EventLoopProofs

Entering(c) == current = c /\ event = "ENTRY"

\* What the code relies on in state s, and already (entering) when it is entered.
Good(s, entering, k) ==
  /\ k \in Client /\ (k.owed <=> k.mvc /\ k.cb)
  /\ s \in {Quit, "accepted"} => ~ Holds(k) /\ k.heads = 0 /\ ~ k.tail
  /\ s = "receive" => ~ Holds(k) /\ ~ k.broken /\ (~ entering => k.status = 0 /\ ~ k.pipe)
  /\ s = "parse" =>
       ~ k.mvc /\ ~ k.resource /\ ~ k.buf /\ k.status = 0 /\ ~ k.pipe /\ ~ k.broken
  /\ s = "prepare" =>
       ~ k.resource /\ ~ k.buf /\ (k.mvc \/ k.url) /\ k.status = 0 /\ ~ k.broken
  /\ s = "error" /\ entering => ~ k.buf /\ k.status # 200 /\ (k.broken => ~ k.pipe)
  /\ s = "error" /\ ~ entering =>
       ~ k.buf /\ ~ k.mvc /\ ~ k.cb /\ ~ k.resource /\ k.pos = 0 /\ (k.broken => ~ k.keep)
  /\ s = "build" =>
       /\ ~ k.buf /\ k.pos = 0 /\ (k.file_size # 0 => k.resource)
       /\ k.file_size \in FileSizes \cup {0} /\ (k.broken => ~ k.keep)
  /\ s = "send" =>
       /\ k.pos <= k.file_size /\ (k.file_size # 0 => k.resource)
       /\ k.size = (k.file_size - k.pos) + k.len /\ (~ k.buf => k.len = 0)
       /\ (k.broken => ~ k.keep)
  /\ s = "keepalive" => ~ k.buf /\ k.size = 0 /\ k.pos = k.file_size /\ ~ k.broken

ClientsAreGood ==
  /\ client \in [Conns -> Client]
  /\ \A c \in Conns : Good(task[c].state, Entering(c), client[c])

IInv == LoopInv /\ ClientsAreGood

-----------------------------------------------------------------------------
LEMMA Names ==
  /\ \A s \in HttpStateNames : s # Quit
  /\ Connected = "accepted" /\ States = HttpStateNames
BY HttpAssumption, StatesAssumption

\* The strings of the events and of the countdowns' limits, once and for all.
LEMMA TimersInDelta ==
  /\ ReceiveTimer \in Delta /\ RespondTimer \in Delta /\ 0 \in Delta /\ Infinite \in Delta
  /\ ReceiveTimer # Infinite /\ RespondTimer # Infinite
  /\ \A p \in Delta : Backoff(p) \in Delta
<1> USE TimersAssumption, BoundsAssumption DEF Delta
<1>1. ReceiveTimer \in 0 .. Infinite /\ RespondTimer \in 0 .. Infinite
      /\ 0 \in 0 .. Infinite /\ Infinite \in 0 .. Infinite
      /\ ReceiveTimer # Infinite /\ RespondTimer # Infinite
  OBVIOUS
<1>2. ASSUME NEW p \in Delta PROVE Backoff(p) \in Delta
  BY SMTT(20) DEF Backoff
<1> QED BY <1>1, <1>2

-----------------------------------------------------------------------------
\* What the handler that runs may ask of the scheduler.
Asks(c) == HttpEffects(task[c].state, event, task[c].poll, task[c].timer)

LEMMA AsksIsEffects ==
  ASSUME IInv, NEW c \in Conns, current = c
  PROVE  /\ Asks(c) = HandlerEffects /\ task[c] \in Task /\ task[c].state \in States
         /\ task[c].poll \in Delta /\ task[c].timer \in Delta /\ event \in Events /\ c # NoConn
         /\ \A e \in Asks(c) : e \in Effect
<1>1. /\ task[c] \in Task /\ c # NoConn /\ event \in Events \cup {"NONE"}
      /\ event # "NONE" /\ task[c].state # Quit
  BY ConnsAssumption DEF IInv, LoopInv, LoopTypeOK, DestroyedIsClean, Live
<1>2. task[c].state \in States /\ task[c].poll \in Delta /\ task[c].timer \in Delta
  BY <1>1 DEF Task
<1>3. Asks(c) = HandlerEffects
  BY <1>1, <1>2, HttpAssumption DEF Asks, HandlerEffects
<1>4. \A e \in Asks(c) : e \in Effect
  BY <1>1, <1>2, <1>3, EffectsAssumption DEF HandlerEffects
<1> QED BY <1>1, <1>2, <1>3, <1>4

\* A handler that leaves its client good for the state it asks for keeps them all good.
LEMMA DoneKeepsInv ==
  ASSUME IInv, NEW c \in Conns, current = c, NEW k, NEW e \in Asks(c), Done(c, k, e),
         Good(e.next, e.next # task[c].state, k)
  PROVE  IInv'
<1>1. /\ e \in HandlerEffects /\ task[c] \in Task /\ c # NoConn /\ Settle(c, e)
  BY AsksIsEffects DEF Done
<1>2. /\ LoopInv' /\ task' \in [Conns -> Task] /\ task'[c].state = e.next
      /\ \A d \in Conns \ {c} : task'[d] = task[d]
  BY <1>1, SettleLoopInv DEF IInv
<1>3. k \in Client /\ client' = [client EXCEPT ![c] = k] /\ client \in [Conns -> Client]
  BY DEF Good, Done, IInv, ClientsAreGood
<1>4. Entering(c)' = (e.next # task[c].state /\ e.next # Quit)
  BY <1>1 DEF Settle, Entering
<1>5. \A d \in Conns \ {c} : Entering(d) = FALSE /\ Entering(d)' = FALSE
  BY <1>1 DEF Settle, Entering
<1>6. ASSUME NEW d \in Conns PROVE Good(task'[d].state, Entering(d)', client'[d])
  <2>1. CASE d # c
    <3>1. Good(task[d].state, Entering(d), client[d])
      BY DEF IInv, ClientsAreGood
    <3>2. /\ task'[d] = task[d] /\ client'[d] = client[d]
          /\ Entering(d) = FALSE /\ Entering(d)' = FALSE
      BY <2>1, <1>2, <1>3, <1>5
    <3> QED BY <3>1, <3>2
  <2>2. CASE d = c /\ e.next # Quit
    <3>1. Entering(c)' = (e.next # task[c].state)
      BY <2>2, <1>4
    <3> QED BY <3>1, <2>2, <1>2, <1>3
  <2>3. CASE d = c /\ e.next = Quit
    <3>1. Good(Quit, Entering(c)', k)
      BY <2>3, Names DEF Good, HttpStateNames
    <3> QED BY <3>1, <2>3, <1>2, <1>3
  <2> QED BY <2>1, <2>2, <2>3
<1> QED BY <1>2, <1>3, <1>6 DEF IInv, ClientsAreGood

-----------------------------------------------------------------------------
\* The step of the exchange that the step of a client stands for.
Keeping(s, k, n, l) ==
  LET x == ExchangeOf(s, k)
      y == ExchangeOf(n, l)
  IN  y = x \/ Service!Change(x, y)

\* The handler that ran asked what it may, leaves its client good for the state it
\* asks for, and keeps the promise of the connection.
Handled(c) ==
  /\ current = c /\ ~ stuck
  /\ \E k \in Client, e \in Asks(c) :
       /\ Done(c, k, e) /\ Good(e.next, e.next # task[c].state, k)
       /\ Keeping(task[c].state, client[c], e.next, k)

\* What is known when the handler of state s is called.
LEMMA Running ==
  ASSUME IInv, NEW c \in Conns, NEW s, NEW ev, Runs(c, s, ev)
  PROVE  /\ current = c /\ event = ev /\ task[c].state = s /\ client[c] \in Client
         /\ Good(s, ev = "ENTRY", client[c])
         /\ task[c].poll \in Delta /\ task[c].timer \in Delta
         /\ Asks(c) = HttpEffects(s, ev, task[c].poll, task[c].timer)
<1>1. current = c /\ event = ev /\ task[c].state = s
  BY DEF Runs
<1>2. Entering(c) = (ev = "ENTRY")
  BY <1>1 DEF Entering
<1>3. client[c] \in Client /\ Good(task[c].state, Entering(c), client[c])
  BY DEF IInv, ClientsAreGood
<1> QED BY <1>1, <1>2, <1>3, AsksIsEffects DEF Asks

LEMMA Handling ==
  ASSUME IInv, NEW c \in Conns, NEW s, NEW ev, Runs(c, s, ev),
         NEW k, NEW n, NEW e \in Asks(c), e.next = n, Done(c, k, e),
         \/ n = s /\ Good(n, FALSE, k)
         \/ n # s /\ Good(n, TRUE, k),
         Keeping(s, client[c], n, k)
  PROVE  Handled(c)
<1>1. task[c].state = s /\ current = c /\ ~ stuck
  BY DEF Runs
<1>2. Good(n, n # s, k)
  <2>1. CASE n = s
    <3>1. (n # s) = FALSE
      BY <2>1
    <3> QED BY <3>1, <2>1
  <2>2. CASE n # s
    <3>1. (n # s) = TRUE
      BY <2>2
    <3> QED BY <3>1, <2>2
  <2> QED BY <2>1, <2>2
<1>3. k \in Client
  BY <1>2 DEF Good
<1> QED BY <1>1, <1>2, <1>3 DEF Handled

\* What the handlers of the states that have a timer may ask.
LEMMA ArmAsked ==
  ASSUME IInv, NEW c \in Conns, NEW s \in {"parse", "error", "prepare", "build", "send"},
         Runs(c, s, "ENTRY")
  PROVE  Arm(s) \in Asks(c) /\ Arm(s).next = s
BY Running DEF Arm, Stay, HttpEffects, OnEntry

LEMMA PollAsked ==
  ASSUME IInv, NEW c \in Conns, NEW s \in Timed, Runs(c, s, "POLL")
  PROVE  /\ BackOff(c) \in Asks(c) /\ BackOff(c).next = s
         /\ \A n \in HttpStateNames :
              <<s, n>> \in Follows => Goto(c, n) \in Asks(c) /\ Goto(c, n).next = n
         /\ s = "send" =>
              Stay(s, 0, task[c].timer) \in Asks(c) /\ Stay(s, 0, task[c].timer).next = s
<1>1. Asks(c) = OnPoll(s, task[c].poll, task[c].timer) /\ task[c].state = s
  BY Running DEF HttpEffects
<1> QED BY <1>1 DEF OnPoll, BackOff, Goto, Enter, Stay, After

Phases == {"gone", "idle", "working", "failing", "answering", "sending", "leaving"}

ExchangeType ==
  [phase : Phases, asked : BOOLEAN, owed : BOOLEAN, last : BOOLEAN, left : Nat]

LEMMA PhasesOf ==
  /\ PhaseOf(Quit) = "gone" /\ PhaseOf("accepted") = "gone" /\ PhaseOf("receive") = "idle"
  /\ PhaseOf("parse") = "working" /\ PhaseOf("prepare") = "working"
  /\ PhaseOf("error") = "failing" /\ PhaseOf("build") = "answering"
  /\ PhaseOf("send") = "sending" /\ PhaseOf("keepalive") = "sending"
  /\ PhaseOf("disconnect") = "leaving"
BY Names DEF PhaseOf, HttpStateNames

LEMMA PhaseIs ==
  ASSUME NEW s \in HttpStateNames \cup {Quit}
  PROVE  PhaseOf(s) \in Phases
BY PhasesOf DEF Phases, HttpStateNames

\* What ExchangeOf says of a client, by the phase its state stands for.
LEMMA ExchangeFields ==
  ASSUME NEW k \in Client, NEW s, NEW p \in Phases, PhaseOf(s) = p
  PROVE  /\ ExchangeOf(s, k) \in ExchangeType
         /\ ExchangeOf(s, k).phase = p
         /\ ExchangeOf(s, k).asked = (p = "working" /\ k.mvc)
         /\ ExchangeOf(s, k).owed = (p # "gone" /\ k.owed)
         /\ ExchangeOf(s, k).last = (p \in {"failing", "answering", "sending"} /\ k.broken)
         /\ ExchangeOf(s, k).left = IF p = "sending" THEN k.size ELSE 0
<1>1. k.owed \in BOOLEAN /\ k.mvc \in BOOLEAN /\ k.broken \in BOOLEAN /\ k.size \in Nat
  BY DEF Client
<1>2. (p = "working" /\ k.mvc) \in BOOLEAN /\ (p # "gone" /\ k.owed) \in BOOLEAN
      /\ (p \in {"failing", "answering", "sending"} /\ k.broken) \in BOOLEAN
      /\ (IF p = "sending" THEN k.size ELSE 0) \in Nat
  BY <1>1
<1>3. ExchangeOf(s, k) \in ExchangeType
  BY <1>2 DEF ExchangeOf, ExchangeType
<1> QED BY <1>3 DEF ExchangeOf

\* The exchange of a client, state by state.
\* No exchange.
LEMMA GoneIs ==
  ASSUME NEW k \in Client, NEW s \in {"accepted", Quit}
  PROVE  LET x == ExchangeOf(s, k)
         IN  /\ x \in ExchangeType /\ x.phase = "gone"
             /\ x.asked = FALSE /\ x.owed = FALSE /\ x.last = FALSE /\ x.left = 0
<1> DEFINE x == ExchangeOf(s, k)
           p == "gone"
<1>1. PhaseOf(s) = p /\ p \in Phases
  BY PhasesOf DEF Phases
<1>2. /\ x \in ExchangeType /\ x.phase = p
      /\ x.asked = (p = "working" /\ k.mvc) /\ x.owed = (p # "gone" /\ k.owed)
      /\ x.last = (p \in {"failing", "answering", "sending"} /\ k.broken)
      /\ x.left = IF p = "sending" THEN k.size ELSE 0
  <2> HIDE DEF p
  <2> QED BY <1>1, ExchangeFields
<1>3. k.owed \in BOOLEAN /\ k.mvc \in BOOLEAN /\ k.broken \in BOOLEAN
  BY DEF Client
<1> HIDE DEF x
<1>4. /\ x \in ExchangeType /\ x.phase = "gone"
      /\ x.asked = FALSE /\ x.owed = FALSE /\ x.last = FALSE /\ x.left = 0
  BY <1>2, <1>3
<1> QED BY <1>4 DEF x

\* No request yet.
LEMMA IdleIs ==
  ASSUME NEW k \in Client
  PROVE  LET x == ExchangeOf("receive", k)
         IN  /\ x \in ExchangeType /\ x.phase = "idle"
             /\ x.asked = FALSE /\ x.owed = k.owed /\ x.last = FALSE /\ x.left = 0
<1> DEFINE x == ExchangeOf("receive", k)
           p == "idle"
<1>1. PhaseOf("receive") = p /\ p \in Phases
  BY PhasesOf DEF Phases
<1>2. /\ x \in ExchangeType /\ x.phase = p
      /\ x.asked = (p = "working" /\ k.mvc) /\ x.owed = (p # "gone" /\ k.owed)
      /\ x.last = (p \in {"failing", "answering", "sending"} /\ k.broken)
      /\ x.left = IF p = "sending" THEN k.size ELSE 0
  <2> HIDE DEF p
  <2> QED BY <1>1, ExchangeFields
<1>3. k.owed \in BOOLEAN /\ k.mvc \in BOOLEAN /\ k.broken \in BOOLEAN
  BY DEF Client
<1> HIDE DEF x
<1>4. /\ x \in ExchangeType /\ x.phase = "idle"
      /\ x.asked = FALSE /\ x.owed = k.owed /\ x.last = FALSE /\ x.left = 0
  BY <1>2, <1>3
<1> QED BY <1>4 DEF x

\* A request and its controllers.
LEMMA WorkingIs ==
  ASSUME NEW k \in Client, NEW s \in {"parse", "prepare"}
  PROVE  LET x == ExchangeOf(s, k)
         IN  /\ x \in ExchangeType /\ x.phase = "working"
             /\ x.asked = k.mvc /\ x.owed = k.owed /\ x.last = FALSE /\ x.left = 0
<1> DEFINE x == ExchangeOf(s, k)
           p == "working"
<1>1. PhaseOf(s) = p /\ p \in Phases
  BY PhasesOf DEF Phases
<1>2. /\ x \in ExchangeType /\ x.phase = p
      /\ x.asked = (p = "working" /\ k.mvc) /\ x.owed = (p # "gone" /\ k.owed)
      /\ x.last = (p \in {"failing", "answering", "sending"} /\ k.broken)
      /\ x.left = IF p = "sending" THEN k.size ELSE 0
  <2> HIDE DEF p
  <2> QED BY <1>1, ExchangeFields
<1>3. k.owed \in BOOLEAN /\ k.mvc \in BOOLEAN /\ k.broken \in BOOLEAN
  BY DEF Client
<1> HIDE DEF x
<1>4. /\ x \in ExchangeType /\ x.phase = "working"
      /\ x.asked = k.mvc /\ x.owed = k.owed /\ x.last = FALSE /\ x.left = 0
  BY <1>2, <1>3
<1> QED BY <1>4 DEF x

\* A request without an answer.
LEMMA FailingIs ==
  ASSUME NEW k \in Client
  PROVE  LET x == ExchangeOf("error", k)
         IN  /\ x \in ExchangeType /\ x.phase = "failing"
             /\ x.asked = FALSE /\ x.owed = k.owed /\ x.last = k.broken /\ x.left = 0
<1> DEFINE x == ExchangeOf("error", k)
           p == "failing"
<1>1. PhaseOf("error") = p /\ p \in Phases
  BY PhasesOf DEF Phases
<1>2. /\ x \in ExchangeType /\ x.phase = p
      /\ x.asked = (p = "working" /\ k.mvc) /\ x.owed = (p # "gone" /\ k.owed)
      /\ x.last = (p \in {"failing", "answering", "sending"} /\ k.broken)
      /\ x.left = IF p = "sending" THEN k.size ELSE 0
  <2> HIDE DEF p
  <2> QED BY <1>1, ExchangeFields
<1>3. k.owed \in BOOLEAN /\ k.mvc \in BOOLEAN /\ k.broken \in BOOLEAN
  BY DEF Client
<1> HIDE DEF x
<1>4. /\ x \in ExchangeType /\ x.phase = "failing"
      /\ x.asked = FALSE /\ x.owed = k.owed /\ x.last = k.broken /\ x.left = 0
  BY <1>2, <1>3
<1> QED BY <1>4 DEF x

\* An answer to build.
LEMMA AnsweringIs ==
  ASSUME NEW k \in Client
  PROVE  LET x == ExchangeOf("build", k)
         IN  /\ x \in ExchangeType /\ x.phase = "answering"
             /\ x.asked = FALSE /\ x.owed = k.owed /\ x.last = k.broken /\ x.left = 0
<1> DEFINE x == ExchangeOf("build", k)
           p == "answering"
<1>1. PhaseOf("build") = p /\ p \in Phases
  BY PhasesOf DEF Phases
<1>2. /\ x \in ExchangeType /\ x.phase = p
      /\ x.asked = (p = "working" /\ k.mvc) /\ x.owed = (p # "gone" /\ k.owed)
      /\ x.last = (p \in {"failing", "answering", "sending"} /\ k.broken)
      /\ x.left = IF p = "sending" THEN k.size ELSE 0
  <2> HIDE DEF p
  <2> QED BY <1>1, ExchangeFields
<1>3. k.owed \in BOOLEAN /\ k.mvc \in BOOLEAN /\ k.broken \in BOOLEAN
  BY DEF Client
<1> HIDE DEF x
<1>4. /\ x \in ExchangeType /\ x.phase = "answering"
      /\ x.asked = FALSE /\ x.owed = k.owed /\ x.last = k.broken /\ x.left = 0
  BY <1>2, <1>3
<1> QED BY <1>4 DEF x

\* An answer on its way.
LEMMA SendingIs ==
  ASSUME NEW k \in Client, NEW s \in {"send", "keepalive"}
  PROVE  LET x == ExchangeOf(s, k)
         IN  /\ x \in ExchangeType /\ x.phase = "sending"
             /\ x.asked = FALSE /\ x.owed = k.owed /\ x.last = k.broken /\ x.left = k.size
<1> DEFINE x == ExchangeOf(s, k)
           p == "sending"
<1>1. PhaseOf(s) = p /\ p \in Phases
  BY PhasesOf DEF Phases
<1>2. /\ x \in ExchangeType /\ x.phase = p
      /\ x.asked = (p = "working" /\ k.mvc) /\ x.owed = (p # "gone" /\ k.owed)
      /\ x.last = (p \in {"failing", "answering", "sending"} /\ k.broken)
      /\ x.left = IF p = "sending" THEN k.size ELSE 0
  <2> HIDE DEF p
  <2> QED BY <1>1, ExchangeFields
<1>3. k.owed \in BOOLEAN /\ k.mvc \in BOOLEAN /\ k.broken \in BOOLEAN
  BY DEF Client
<1> HIDE DEF x
<1>4. /\ x \in ExchangeType /\ x.phase = "sending"
      /\ x.asked = FALSE /\ x.owed = k.owed /\ x.last = k.broken /\ x.left = k.size
  BY <1>2, <1>3
<1> QED BY <1>4 DEF x

\* A connection that ends.
LEMMA LeavingIs ==
  ASSUME NEW k \in Client
  PROVE  LET x == ExchangeOf("disconnect", k)
         IN  /\ x \in ExchangeType /\ x.phase = "leaving"
             /\ x.asked = FALSE /\ x.owed = k.owed /\ x.last = FALSE /\ x.left = 0
<1> DEFINE x == ExchangeOf("disconnect", k)
           p == "leaving"
<1>1. PhaseOf("disconnect") = p /\ p \in Phases
  BY PhasesOf DEF Phases
<1>2. /\ x \in ExchangeType /\ x.phase = p
      /\ x.asked = (p = "working" /\ k.mvc) /\ x.owed = (p # "gone" /\ k.owed)
      /\ x.last = (p \in {"failing", "answering", "sending"} /\ k.broken)
      /\ x.left = IF p = "sending" THEN k.size ELSE 0
  <2> HIDE DEF p
  <2> QED BY <1>1, ExchangeFields
<1>3. k.owed \in BOOLEAN /\ k.mvc \in BOOLEAN /\ k.broken \in BOOLEAN
  BY DEF Client
<1> HIDE DEF x
<1>4. /\ x \in ExchangeType /\ x.phase = "leaving"
      /\ x.asked = FALSE /\ x.owed = k.owed /\ x.last = FALSE /\ x.left = 0
  BY <1>2, <1>3
<1> QED BY <1>4 DEF x

\* A request whose controllers are asked, or have been before, and what may follow.
LEMMA Working ==
  ASSUME NEW x \in ExchangeType, NEW y \in ExchangeType, NEW b \in BOOLEAN,
         x.phase = "working", y.left = x.left,
         \/ b = x.asked /\ y.owed = x.owed
         \/ ~ x.asked /\ b /\ (y.owed = x.owed \/ y.owed),
         \/ y.phase = "working" /\ y.asked = b /\ y.last = x.last
         \/ y.phase = "answering" /\ y.asked = FALSE /\ y.last = x.last /\ b
         \/ y.phase = "failing" /\ y.asked = FALSE /\ (y.last => ~ b)
  PROVE  Service!Change(x, y)
<1> DEFINE z == [x EXCEPT !.asked = b, !.owed = y.owed]
<1>1. z \in ExchangeType /\ z.phase = x.phase /\ z.asked = b /\ z.owed = y.owed
      /\ z.last = x.last /\ z.left = x.left
  BY DEF ExchangeType
<1>2. z \in Service!Asked(x)
  <2> HIDE DEF z
  <2>1. CASE b = x.asked /\ y.owed = x.owed
    <3>1. z = x
      BY <2>1, <1>1 DEF ExchangeType
    <3> QED BY <3>1 DEF Service!Asked
  <2>2. CASE ~ x.asked /\ b /\ y.owed = x.owed
    <3>1. z = [x EXCEPT !.asked = TRUE]
      BY <2>2, <1>1 DEF ExchangeType
    <3> QED BY <3>1, <2>2 DEF Service!Asked
  <2>3. CASE ~ x.asked /\ b /\ y.owed
    <3>1. z = [x EXCEPT !.asked = TRUE, !.owed = TRUE]
      BY <2>3, <1>1 DEF ExchangeType
    <3> QED BY <3>1, <2>3 DEF Service!Asked
  <2> QED BY <2>1, <2>2, <2>3
<1> HIDE DEF z
<1>3. CASE y.phase = "working" /\ y.asked = b /\ y.last = x.last
  <2>1. y = z
    BY <1>1, <1>3 DEF ExchangeType
  <2> QED BY <2>1, <1>2 DEF Service!Change, Service!Ask
<1>4. CASE y.phase = "answering" /\ y.asked = FALSE /\ y.last = x.last /\ b
  <2>1. y = [z EXCEPT !.phase = "answering", !.asked = FALSE] /\ z.asked
    BY <1>1, <1>4, ZenonT(60) DEF ExchangeType
  <2> QED BY <2>1, <1>2 DEF Service!Change, Service!Answer
<1>5. CASE y.phase = "failing" /\ y.asked = FALSE /\ (y.last => ~ b)
  <2>1. /\ y = [z EXCEPT !.phase = "failing", !.asked = FALSE, !.last = y.last]
        /\ y.last \in BOOLEAN /\ (y.last => ~ z.asked)
    BY <1>1, <1>5, ZenonT(60) DEF ExchangeType
  <2> QED BY <2>1, <1>2 DEF Service!Change, Service!Refuse
<1> QED BY <1>3, <1>4, <1>5

\* The steps of the client, by what they do to the fields the exchange is made of.
LEMMA SameKept ==
  ASSUME NEW k \in Client, NEW l \in Client, NEW s \in HttpStateNames, NEW n \in HttpStateNames,
         s = n \/ (s = "parse" /\ n = "prepare"),
         l.mvc = k.mvc \/ ~ s \in {"parse", "prepare"},
         l.owed = k.owed, l.broken = k.broken, l.size = k.size
  PROVE  Keeping(s, k, n, l)
<1>1. PhaseOf(n) = PhaseOf(s)
  <2>1. PhaseOf("parse") = PhaseOf("prepare")
    BY Names DEF PhaseOf, HttpStateNames
  <2> QED BY <2>1
<1>2. s \in {"parse", "prepare"} \/ PhaseOf(s) # "working"
  BY Names DEF PhaseOf, HttpStateNames
<1> DEFINE p == PhaseOf(s)
<1>3. (p = "working" /\ l.mvc) = (p = "working" /\ k.mvc)
  <2> HIDE DEF p
  <2>1. CASE l.mvc = k.mvc
    BY <2>1
  <2>2. CASE p # "working"
    BY <2>2
  <2> QED BY <2>1, <2>2, <1>2 DEF p
<1>4. ExchangeOf(n, l) = ExchangeOf(s, k)
  BY <1>1, <1>3 DEF ExchangeOf
<1> QED BY <1>4 DEF Keeping

LEMMA WorkKept ==
  ASSUME NEW k \in Client, NEW l \in Client, NEW b \in BOOLEAN,
         NEW n \in {"prepare", "build", "error"},
         \/ b = k.mvc /\ l.owed = k.owed
         \/ ~ k.mvc /\ b /\ (l.owed = k.owed \/ l.owed),
         \/ n = "prepare" /\ l.mvc = b
         \/ n = "build" /\ b /\ l.broken = FALSE
         \/ n = "error" /\ (l.broken => ~ b)
  PROVE  Keeping("parse", k, n, l) /\ Keeping("prepare", k, n, l)
<1> SUFFICES ASSUME NEW s \in {"parse", "prepare"} PROVE Keeping(s, k, n, l)
  OBVIOUS
<1> DEFINE x == ExchangeOf(s, k)
           y == ExchangeOf(n, l)
<1>1. /\ x \in ExchangeType /\ x.phase = "working" /\ x.asked = k.mvc /\ x.owed = k.owed
      /\ x.last = FALSE /\ x.left = 0
  BY WorkingIs
<1>2. /\ y \in ExchangeType /\ y.owed = l.owed /\ y.left = 0
      /\ n = "prepare" => y.phase = "working" /\ y.asked = l.mvc /\ y.last = FALSE
      /\ n = "build" => y.phase = "answering" /\ y.asked = FALSE /\ y.last = l.broken
      /\ n = "error" => y.phase = "failing" /\ y.asked = FALSE /\ y.last = l.broken
  <2>1. CASE n = "prepare"
    BY <2>1, WorkingIs
  <2>2. CASE n = "build"
    BY <2>2, AnsweringIs
  <2>3. CASE n = "error"
    BY <2>3, FailingIs
  <2> QED BY <2>1, <2>2, <2>3
<1> HIDE DEF x, y
<1>3. Service!Change(x, y)
  <2>1. CASE n = "prepare"
    BY <1>1, <1>2, <2>1, Working
  <2>2. CASE n = "build"
    BY <1>1, <1>2, <2>2, Working
  <2>3. CASE n = "error"
    BY <1>1, <1>2, <2>3, Working
  <2> QED BY <2>1, <2>2, <2>3
<1> QED BY <1>3 DEF Keeping, x, y

LEMMA LeaveKept ==
  ASSUME NEW k \in Client, NEW l \in Client, NEW s \in HttpStateNames \ {"accepted"},
         l.owed = k.owed
  PROVE  Keeping(s, k, "disconnect", l)
<1> DEFINE x == ExchangeOf(s, k)
           y == ExchangeOf("disconnect", l)
<1>1. x \in ExchangeType /\ x.owed = k.owed /\ x.phase # "gone"
  <2> DEFINE p == PhaseOf(s)
  <2>1. p \in Phases
    BY PhaseIs
  <2>2. p # "gone"
    BY PhasesOf DEF HttpStateNames
  <2> HIDE DEF p
  <2>3. x \in ExchangeType /\ x.phase = p /\ x.owed = (p # "gone" /\ k.owed)
    BY <2>1, ExchangeFields DEF p
  <2>4. k.owed \in BOOLEAN
    BY DEF Client
  <2> QED BY <2>2, <2>3, <2>4
<1>2. /\ y \in ExchangeType /\ y.phase = "leaving" /\ y.owed = l.owed
      /\ y.asked = FALSE /\ y.last = FALSE /\ y.left = 0
  BY LeavingIs
<1> HIDE DEF x, y
<1>3. y = [Service!Gone EXCEPT !.phase = "leaving", !.owed = x.owed]
  <2> DEFINE g == Service!Gone
  <2>1. g \in ExchangeType /\ g.asked = FALSE /\ g.owed = FALSE /\ g.last = FALSE /\ g.left = 0
    BY DEF Service!Gone, Service!Idle, ExchangeType, Phases
  <2> HIDE DEF g
  <2> QED BY <1>1, <1>2, <2>1 DEF ExchangeType, g
<1> QED BY <1>1, <1>3 DEF Keeping, Service!Change, Service!Leave, x, y

LEMMA FailureKept ==
  ASSUME NEW k \in Client, NEW l \in Client, l.broken = k.broken
  PROVE  /\ l.owed = FALSE => Keeping("error", k, "error", l)
         /\ l.owed = FALSE /\ k.owed = FALSE => Keeping("error", k, "build", l)
<1> DEFINE x == ExchangeOf("error", k)
           y == ExchangeOf("error", l)
           z == ExchangeOf("build", l)
<1>1. /\ x \in ExchangeType /\ x.phase = "failing" /\ x.asked = FALSE /\ x.owed = k.owed
      /\ x.last = k.broken /\ x.left = 0
  BY FailingIs
<1>2. /\ y \in ExchangeType /\ y.phase = "failing" /\ y.asked = FALSE /\ y.owed = l.owed
      /\ y.last = l.broken /\ y.left = 0
  BY FailingIs
<1>3. /\ z \in ExchangeType /\ z.phase = "answering" /\ z.asked = FALSE /\ z.owed = l.owed
      /\ z.last = l.broken /\ z.left = 0
  BY AnsweringIs
<1> HIDE DEF x, y, z
<1>4. ASSUME l.owed = FALSE PROVE Keeping("error", k, "error", l)
  <2>1. y = [x EXCEPT !.owed = FALSE]
    BY <1>1, <1>2, <1>4 DEF ExchangeType
  <2> QED BY <1>1, <2>1 DEF Keeping, Service!Change, Service!GiveUp, x, y
<1>5. ASSUME l.owed = FALSE, k.owed = FALSE PROVE Keeping("error", k, "build", l)
  <2>1. z = [x EXCEPT !.phase = "answering"]
    BY <1>1, <1>3, <1>5 DEF ExchangeType
  <2> QED BY <1>1, <1>5, <2>1 DEF Keeping, Service!Change, Service!Apologize, x, z
<1> QED BY <1>4, <1>5

LEMMA SendingKept ==
  ASSUME NEW k \in Client, NEW l \in Client, l.owed = k.owed, l.broken = k.broken
  PROVE  /\ l.size \in {HeadLen + m : m \in FileSizes \cup {0}} => Keeping("build", k, "send", l)
         /\ l.size \in 0 .. k.size =>
              Keeping("send", k, "send", l) /\ Keeping("send", k, "keepalive", l)
<1>1. ASSUME l.size \in {HeadLen + m : m \in FileSizes \cup {0}}
      PROVE  Keeping("build", k, "send", l)
  <2> DEFINE x == ExchangeOf("build", k)
             y == ExchangeOf("send", l)
  <2>1. /\ x \in ExchangeType /\ x.phase = "answering" /\ x.asked = FALSE /\ x.owed = k.owed
        /\ x.last = k.broken
    BY AnsweringIs
  <2>2. /\ y \in ExchangeType /\ y.phase = "sending" /\ y.asked = FALSE /\ y.owed = l.owed
        /\ y.last = l.broken /\ y.left = l.size
    BY SendingIs
  <2> HIDE DEF x, y
  <2>3. y = [x EXCEPT !.phase = "sending", !.left = l.size]
    BY <2>1, <2>2 DEF ExchangeType
  <2> QED BY <1>1, <2>1, <2>3 DEF Keeping, Service!Change, Service!Begin, x, y
<1>2. ASSUME l.size \in 0 .. k.size, NEW n \in {"send", "keepalive"}
      PROVE  Keeping("send", k, n, l)
  <2> DEFINE x == ExchangeOf("send", k)
             y == ExchangeOf(n, l)
  <2>1. /\ x \in ExchangeType /\ x.phase = "sending" /\ x.asked = FALSE /\ x.owed = k.owed
        /\ x.last = k.broken /\ x.left = k.size
    BY SendingIs
  <2>2. /\ y \in ExchangeType /\ y.phase = "sending" /\ y.asked = FALSE /\ y.owed = l.owed
        /\ y.last = l.broken /\ y.left = l.size
    <3>1. CASE n = "send"
      BY <3>1, SendingIs
    <3>2. CASE n = "keepalive"
      BY <3>2, SendingIs
    <3> QED BY <3>1, <3>2
  <2> HIDE DEF x, y
  <2>3. y = [x EXCEPT !.left = l.size]
    BY <2>1, <2>2 DEF ExchangeType
  <2>4. l.size \in 0 .. x.left
    BY <1>2, <2>1
  <2> QED BY <2>1, <2>3, <2>4 DEF Keeping, Service!Change, Service!Send, x, y
<1> QED BY <1>1, <1>2

\* Where a request begins, and where its connection is free again.
LEMMA FreeKept ==
  ASSUME NEW k \in Client, NEW l \in Client, l.owed = FALSE
  PROVE  /\ Keeping("accepted", k, "receive", l) /\ Keeping("disconnect", k, Quit, l)
         /\ k.owed = FALSE /\ l.mvc = FALSE => Keeping("receive", k, "parse", l)
         /\ k.size = 0 /\ k.broken = FALSE => Keeping("keepalive", k, "receive", l)
<1> DEFINE i == ExchangeOf("receive", l)
<1>1. i = Service!Idle
  <2>1. /\ i \in ExchangeType /\ i.phase = "idle" /\ i.asked = FALSE /\ i.owed = FALSE
        /\ i.last = FALSE /\ i.left = 0
    BY IdleIs
  <2> DEFINE g == Service!Idle
  <2>2. /\ g \in ExchangeType /\ g.phase = "idle" /\ g.asked = FALSE /\ g.owed = FALSE
        /\ g.last = FALSE /\ g.left = 0
    BY DEF Service!Idle, ExchangeType, Phases
  <2> HIDE DEF g, i
  <2>3. i = g
    BY <2>1, <2>2 DEF ExchangeType
  <2> QED BY <2>3 DEF g
<1>2. Keeping("accepted", k, "receive", l)
  <2>1. ExchangeOf("accepted", k).phase = "gone"
    BY GoneIs
  <2> QED BY <1>1, <2>1 DEF Keeping, Service!Change, Service!Accept
<1>3. Keeping("disconnect", k, Quit, l)
  <2> DEFINE y == ExchangeOf(Quit, l)
             g == Service!Gone
  <2>1. ExchangeOf("disconnect", k).phase = "leaving"
    BY LeavingIs
  <2>2. /\ y \in ExchangeType /\ y.phase = "gone" /\ y.asked = FALSE /\ y.owed = FALSE
        /\ y.last = FALSE /\ y.left = 0
    BY GoneIs
  <2>3. /\ g \in ExchangeType /\ g.phase = "gone" /\ g.asked = FALSE /\ g.owed = FALSE
        /\ g.last = FALSE /\ g.left = 0
    BY DEF Service!Gone, Service!Idle, ExchangeType, Phases
  <2> HIDE DEF y, g
  <2>4. y = g
    BY <2>2, <2>3 DEF ExchangeType
  <2> QED BY <2>1, <2>4 DEF Keeping, Service!Change, Service!End, y, g
<1>4. ASSUME k.owed = FALSE, l.mvc = FALSE PROVE Keeping("receive", k, "parse", l)
  <2> DEFINE x == ExchangeOf("receive", k)
             y == ExchangeOf("parse", l)
  <2>1. /\ x \in ExchangeType /\ x.phase = "idle" /\ x.asked = FALSE /\ x.owed = FALSE
        /\ x.last = FALSE /\ x.left = 0
    BY <1>4, IdleIs
  <2>2. /\ y \in ExchangeType /\ y.phase = "working" /\ y.asked = FALSE /\ y.owed = FALSE
        /\ y.last = FALSE /\ y.left = 0
    BY <1>4, WorkingIs
  <2> HIDE DEF x, y
  <2>3. y = [x EXCEPT !.phase = "working"]
    BY <2>1, <2>2 DEF ExchangeType
  <2> QED BY <2>1, <2>3 DEF Keeping, Service!Change, Service!Take, x, y
<1>5. ASSUME k.size = 0, k.broken = FALSE PROVE Keeping("keepalive", k, "receive", l)
  <2> DEFINE x == ExchangeOf("keepalive", k)
  <2>1. x.phase = "sending" /\ x.left = 0 /\ x.last = FALSE
    BY <1>5, SendingIs
  <2> HIDE DEF x, i
  <2> QED BY <1>1, <2>1 DEF Keeping, Service!Change, Service!Finish, x, i
<1> QED BY <1>2, <1>3, <1>4, <1>5

LEMMA ParseHandled ==
  ASSUME IInv, NEW c \in Conns, ParseEntry(c) \/ ParsePoll(c)
  PROVE  Handled(c)
<1>1. CASE ParseEntry(c)
  <2>1. Runs(c, "parse", "ENTRY") /\ Done(c, client[c], Arm("parse"))
    BY <1>1 DEF ParseEntry
  <2>2. Good("parse", FALSE, client[c])
    BY <2>1, Running DEF Good
  <2> QED BY <2>1, <2>2, ArmAsked, Handling DEF Keeping
<1>2. CASE ParsePoll(c)
  <2>1. Runs(c, "parse", "POLL") /\ Good("parse", FALSE, client[c]) /\ client[c] \in Client
    BY <1>2, Running DEF ParsePoll, Good
  <2>2. CASE Done(c, client[c], BackOff(c))
    BY <2>1, <2>2, PollAsked, Handling DEF Keeping, Timed
  <2>3. CASE Done(c, Parsed(client[c]), Goto(c, "prepare"))
    <3> DEFINE k == Parsed(client[c])
    <3>1. k \in Client
      BY <2>1 DEF Client, Parsed
    <3>2. Good("prepare", TRUE, k)
      BY <2>1, <3>1, Names DEF Good, HttpStateNames, Client, Parsed
    <3>3. Keeping("parse", client[c], "prepare", k)
      <4>1. /\ k.mvc = client[c].mvc /\ k.owed = client[c].owed
            /\ k.broken = client[c].broken /\ k.size = client[c].size
        BY <2>1 DEF Client, Parsed
      <4> HIDE DEF k
      <4> QED BY <2>1, <3>1, <4>1, SameKept DEF HttpStateNames
    <3>4. Goto(c, "prepare") \in Asks(c) /\ Goto(c, "prepare").next = "prepare"
      BY <2>1, PollAsked DEF Timed, HttpStateNames, Follows
    <3> QED BY <2>1, <2>3, <3>2, <3>3, <3>4, Handling
  <2>4. CASE Done(c, [client[c] EXCEPT !.broken = TRUE], Goto(c, "error"))
    <3> DEFINE k == [client[c] EXCEPT !.broken = TRUE]
    <3>1. k \in Client
      BY <2>1 DEF Client
    <3>2. Good("error", TRUE, k)
      BY <2>1, <3>1, Names DEF Good, HttpStateNames, Client
    <3>3. Keeping("parse", client[c], "error", k)
      <4>1. client[c].mvc = FALSE /\ k.owed = client[c].owed
        BY <2>1 DEF Good, Client
      <4> HIDE DEF k
      <4> QED BY <2>1, <3>1, <4>1, WorkKept
    <3>4. Goto(c, "error") \in Asks(c) /\ Goto(c, "error").next = "error"
      BY <2>1, PollAsked DEF Timed, HttpStateNames, Follows
    <3> QED BY <2>1, <2>4, <3>2, <3>3, <3>4, Handling
  <2> QED BY <1>2, <2>2, <2>3, <2>4 DEF ParsePoll
<1> QED BY <1>1, <1>2

LEMMA FirstHandled ==
  ASSUME IInv, NEW c \in Conns, Accepted(c) \/ Leave(c) \/ Ignore(c)
  PROVE  Handled(c)
<1>1. CASE Accepted(c)
  <2>1. Runs(c, "accepted", "ENTRY") /\ Done(c, NoClient, Goto(c, "receive"))
    BY <1>1 DEF Accepted
  <2>2. NoClient \in Client
    BY BuffersAssumption DEF NoClient, Client, Statuses
  <2>3. Good("receive", TRUE, NoClient)
    BY <2>2, Names DEF Good, NoClient, Holds, HttpStateNames
  <2>4. Keeping("accepted", client[c], "receive", NoClient)
    <3>1. NoClient.owed = FALSE
      BY DEF NoClient
    <3> QED BY <2>1, <2>2, <3>1, Running, FreeKept
  <2>5. Goto(c, "receive") \in Asks(c) /\ Goto(c, "receive").next = "receive"
    BY <2>1, Running DEF Goto, Enter, Stay, HttpEffects, OnEntry
  <2> QED BY <2>1, <2>3, <2>4, <2>5, Handling
<1>2. CASE Leave(c)
  <2>1. PICK s \in Timed, ev \in {"CLOSED", "TIMER"} : Runs(c, s, ev)
    BY <1>2 DEF Leave
  <2>2. Done(c, client[c], Goto(c, "disconnect")) /\ client[c] \in Client
    BY <1>2, <2>1, Running DEF Leave
  <2>3. Good("disconnect", TRUE, client[c])
    BY <2>1, Running, Names DEF Good, HttpStateNames
  <2>4. Keeping(s, client[c], "disconnect", client[c])
    BY <2>2, LeaveKept DEF Timed, HttpStateNames
  <2>5. Goto(c, "disconnect") \in Asks(c) /\ Goto(c, "disconnect").next = "disconnect"
    BY <2>1, Running DEF Goto, Enter, Stay, HttpEffects, Timed
  <2> QED BY <2>1, <2>2, <2>3, <2>4, <2>5, Handling DEF Timed
<1>3. CASE Ignore(c)
  <2>1. PICK s \in Timed \ {"receive"} : Runs(c, s, "READ")
    BY <1>3 DEF Ignore
  <2>2. Done(c, client[c], Nothing(c)) /\ client[c] \in Client
    BY <1>3, <2>1, Running DEF Ignore
  <2>3. Good(s, FALSE, client[c])
    <3>1. ("READ" = "ENTRY") = FALSE
      OBVIOUS
    <3> QED BY <2>1, <3>1, Running, ZenonT(60)
  <2>4. Keeping(s, client[c], s, client[c])
    BY DEF Keeping
  <2>5. Nothing(c) \in Asks(c) /\ Nothing(c).next = s
    BY <2>1, Running DEF Nothing, Stay, HttpEffects, OnRead, Timed
  <2> QED BY <2>1, <2>2, <2>3, <2>4, <2>5, Handling
<1> QED BY <1>1, <1>2, <1>3

\* headers_received, from a client that is good for it.
LEMMA SearchHandled ==
  ASSUME IInv, NEW c \in Conns, NEW ev, Runs(c, "receive", ev),
         NEW k \in Client, Good("receive", FALSE, k),
         k.size = client[c].size, k.broken = client[c].broken, k.owed = client[c].owed,
         NEW e \in Effect, e.next = "receive",
         [e EXCEPT !.poll = Infinite] \in Asks(c), [e EXCEPT !.next = "parse"] \in Asks(c),
         [e EXCEPT !.poll = Backoff(@)] \in Asks(c),
         Search(c, k, e)
  PROVE  Handled(c)
<1>1. Keeping("receive", client[c], "receive", k)
  BY Running, SameKept DEF HttpStateNames
<1>2. CASE Done(c, k, [e EXCEPT !.poll = Infinite])
  BY <1>1, <1>2, Handling DEF Effect
<1>3. CASE Done(c, k, [e EXCEPT !.poll = Backoff(@)])
  BY <1>1, <1>3, Handling DEF Effect
<1>4. CASE /\ k.heads > 0
           /\ Done(c, [k EXCEPT !.heads = @ - 1, !.req = TRUE], [e EXCEPT !.next = "parse"])
  <2> DEFINE l == [k EXCEPT !.heads = @ - 1, !.req = TRUE]
  <2>1. l \in Client
    <3>1. k.heads - 1 \in 0 .. MaxHeads
      <4>1. k.heads \in 0 .. MaxHeads
        BY DEF Client
      <4> QED BY <4>1, <1>4, BuffersAssumption
    <3> QED BY <3>1 DEF Client
  <2>2. Good("parse", TRUE, l)
    BY <2>1, Names DEF Good, Client, Holds, HttpStateNames
  <2>3. l.owed = FALSE /\ client[c].owed = FALSE /\ l.mvc = FALSE
    BY DEF Good, Client, Holds
  <2> HIDE DEF l
  <2>4. Keeping("receive", client[c], "parse", l)
    BY <2>1, <2>3, Running, FreeKept
  <2>5. [e EXCEPT !.next = "parse"].next = "parse"
    BY DEF Effect
  <2> QED BY <1>4, <2>2, <2>4, <2>5, Handling DEF l
<1> QED BY <1>2, <1>3, <1>4 DEF Search

LEMMA AppendedIs ==
  ASSUME NEW k \in Client, NEW n, NEW l \in Appended(k, n), Good("receive", FALSE, k)
  PROVE  /\ l \in Client /\ Good("receive", FALSE, l)
         /\ l.size = k.size /\ l.broken = k.broken /\ l.owed = k.owed
<1>1. PICK in \in (0 .. MaxHeads) \X BOOLEAN : l = [k EXCEPT !.heads = in[1], !.tail = in[2]]
  BY DEF Appended, Segments
<1>2. l \in Client
  BY <1>1 DEF Client
<1>3. Good("receive", FALSE, l)
  BY <1>1, <1>2, Names DEF Good, Client, Holds, HttpStateNames
<1>4. l.size = k.size /\ l.broken = k.broken /\ l.owed = k.owed
  BY <1>1 DEF Client
<1> QED BY <1>2, <1>3, <1>4

\* What receive may make of its input, from the effect e it starts with.
LEMMA InputAsked ==
  ASSUME NEW t \in Delta
  PROVE  \A e : e = Taking(Stay("receive", 0, t)) =>
           /\ e \in Effect /\ e.next = "receive"
           /\ [e EXCEPT !.poll = Infinite] \in OnInput(t)
           /\ [e EXCEPT !.next = "parse"] \in OnInput(t)
           /\ [e EXCEPT !.poll = Backoff(@)] \in OnInput(t)
<1> DEFINE e == Taking(Stay("receive", 0, t))
<1>1. /\ e \in Effect /\ e.next = "receive" /\ e.poll = 0 /\ e.timer = t /\ e.take = TRUE
  BY TimersInDelta, Names DEF Taking, Stay, Effect, HttpStateNames
<1> HIDE DEF e
<1>2. [e EXCEPT !.poll = Infinite] = Taking(Stay("receive", Infinite, t))
  <2> DEFINE f == Taking(Stay("receive", Infinite, t))
  <2>1. /\ f \in Effect /\ f.next = "receive" /\ f.poll = Infinite /\ f.timer = t
        /\ f.take = TRUE
    BY TimersInDelta, Names DEF Taking, Stay, Effect, HttpStateNames
  <2> HIDE DEF f
  <2>2. f = [e EXCEPT !.poll = Infinite]
    BY <1>1, <2>1 DEF Effect
  <2> QED BY <2>2 DEF f
<1>3. [e EXCEPT !.poll = Backoff(@)] = Taking(Stay("receive", Backoff(0), t))
  <2> DEFINE f == Taking(Stay("receive", Backoff(0), t))
  <2>1. /\ f \in Effect /\ f.next = "receive" /\ f.poll = Backoff(0) /\ f.timer = t
        /\ f.take = TRUE
    BY TimersInDelta, Names DEF Taking, Stay, Effect, HttpStateNames
  <2> HIDE DEF f
  <2>2. f = [e EXCEPT !.poll = Backoff(0)]
    BY <1>1, <2>1 DEF Effect
  <2> QED BY <1>1, <2>2 DEF f
<1>4. [e EXCEPT !.next = "parse"] = Taking(Enter("parse", 0, t))
  <2> DEFINE f == Taking(Stay("parse", 0, t))
  <2>1. f \in Effect /\ f.next = "parse" /\ f.poll = 0 /\ f.timer = t /\ f.take = TRUE
    BY TimersInDelta, Names DEF Taking, Stay, Effect, HttpStateNames
  <2> HIDE DEF f
  <2>2. f = [e EXCEPT !.next = "parse"]
    BY <1>1, <2>1 DEF Effect
  <2> QED BY <2>2 DEF f, Enter
<1> QED BY <1>1, <1>2, <1>3, <1>4 DEF OnInput, e

LEMMA ReceiveHandled ==
  ASSUME IInv, NEW c \in Conns, ReceiveEntry(c) \/ ReceiveRead(c) \/ ReceivePoll(c)
  PROVE  Handled(c)
<1>1. CASE ReceiveEntry(c)
  <2> DEFINE k == [client[c] EXCEPT !.pipe = FALSE, !.status = 0, !.keep = TRUE]
             e == Taking(Arm("receive"))
  <2>1. Runs(c, "receive", "ENTRY") /\ client[c] \in Client /\ Good("receive", TRUE, client[c])
    <3>1. Runs(c, "receive", "ENTRY")
      BY <1>1 DEF ReceiveEntry
    <3>2. ("ENTRY" = "ENTRY") = TRUE
      OBVIOUS
    <3> QED BY <3>1, <3>2, Running
  <2>2. PICK l \in Appended(k, task[c].cbufs) : Search(c, l, e)
    BY <1>1 DEF ReceiveEntry
  <2>3. k \in Client
    <3>1. 0 \in Statuses
      BY DEF Statuses
    <3> QED BY <2>1, <3>1 DEF Client
  <2>4. Good("receive", FALSE, k)
    BY <2>1, <2>3, Names DEF Good, Client, Holds, HttpStateNames
  <2>5. k.size = client[c].size /\ k.broken = client[c].broken /\ k.owed = client[c].owed
    BY <2>1 DEF Client
  <2>6. /\ e \in Effect /\ e.next = "receive"
        /\ [e EXCEPT !.poll = Infinite] \in Asks(c) /\ [e EXCEPT !.next = "parse"] \in Asks(c)
        /\ [e EXCEPT !.poll = Backoff(@)] \in Asks(c)
    <3>1. Asks(c) = OnInput(ReceiveTimer)
      BY <2>1, Running DEF HttpEffects, OnEntry
    <3>2. e = Taking(Stay("receive", 0, ReceiveTimer))
      BY DEF Arm, TimerOf
    <3> HIDE DEF e
    <3> QED BY <3>1, <3>2, TimersInDelta, InputAsked
  <2> HIDE DEF k, e
  <2>7. /\ l \in Client /\ Good("receive", FALSE, l)
        /\ l.size = client[c].size /\ l.broken = client[c].broken /\ l.owed = client[c].owed
    BY <2>2, <2>3, <2>4, <2>5, AppendedIs
  <2> QED BY <2>1, <2>2, <2>6, <2>7, SearchHandled
<1>2. CASE ReceiveRead(c)
  <2> DEFINE e == Taking(Stay("receive", 0, task[c].timer))
  <2>1. Runs(c, "receive", "READ") /\ client[c] \in Client /\ Good("receive", FALSE, client[c])
    <3>1. Runs(c, "receive", "READ")
      BY <1>2 DEF ReceiveRead
    <3>2. ("READ" = "ENTRY") = FALSE
      OBVIOUS
    <3> QED BY <3>1, <3>2, Running, ZenonT(60)
  <2>2. PICK l \in Appended(client[c], task[c].cbufs) : Search(c, l, e)
    BY <1>2 DEF ReceiveRead
  <2>3. /\ e \in Effect /\ e.next = "receive"
        /\ [e EXCEPT !.poll = Infinite] \in Asks(c) /\ [e EXCEPT !.next = "parse"] \in Asks(c)
        /\ [e EXCEPT !.poll = Backoff(@)] \in Asks(c)
    <3>1. Asks(c) = OnInput(task[c].timer) /\ task[c].timer \in Delta
      BY <2>1, Running DEF HttpEffects, OnRead, Timed
    <3> QED BY <3>1, InputAsked
  <2> HIDE DEF e
  <2>4. /\ l \in Client /\ Good("receive", FALSE, l)
        /\ l.size = client[c].size /\ l.broken = client[c].broken /\ l.owed = client[c].owed
    <3> DEFINE k == client[c]
    <3>1. k \in Client /\ Good("receive", FALSE, k) /\ l \in Appended(k, task[c].cbufs)
      BY <2>1, <2>2
    <3> HIDE DEF k
    <3>2. /\ l \in Client /\ Good("receive", FALSE, l)
          /\ l.size = k.size /\ l.broken = k.broken /\ l.owed = k.owed
      BY <3>1, AppendedIs, ZenonT(60)
    <3> QED BY <3>2 DEF k
  <2> QED BY <2>1, <2>2, <2>3, <2>4, SearchHandled
<1>3. CASE ReceivePoll(c)
  <2> DEFINE e == Nothing(c)
  <2>1. Runs(c, "receive", "POLL") /\ client[c] \in Client /\ Good("receive", FALSE, client[c])
    <3>1. Runs(c, "receive", "POLL")
      BY <1>3 DEF ReceivePoll
    <3>2. ("POLL" = "ENTRY") = FALSE
      OBVIOUS
    <3> QED BY <3>1, <3>2, Running, ZenonT(60)
  <2>2. Search(c, client[c], e)
    BY <1>3 DEF ReceivePoll
  <2>3. /\ e \in Effect /\ e.next = "receive"
        /\ [e EXCEPT !.poll = Infinite] \in Asks(c) /\ [e EXCEPT !.next = "parse"] \in Asks(c)
        /\ [e EXCEPT !.poll = Backoff(@)] \in Asks(c)
    <3>1. /\ Asks(c) = OnPoll("receive", task[c].poll, task[c].timer)
          /\ task[c].poll \in Delta /\ task[c].timer \in Delta /\ task[c].state = "receive"
      BY <2>1, Running DEF HttpEffects, Timed
    <3>2. /\ e = Stay("receive", task[c].poll, task[c].timer)
          /\ e \in Effect /\ e.next = "receive" /\ e.poll = task[c].poll
          /\ e.timer = task[c].timer /\ e.take = FALSE
      BY <3>1, Names DEF Nothing, Stay, Effect, HttpStateNames
    <3> HIDE DEF e
    <3>3. ASSUME NEW p \in Delta PROVE [e EXCEPT !.poll = p] = Stay("receive", p, task[c].timer)
      <4> DEFINE f == Stay("receive", p, task[c].timer)
      <4>1. /\ f \in Effect /\ f.next = "receive" /\ f.poll = p
            /\ f.timer = task[c].timer /\ f.take = FALSE
        BY <3>1, Names DEF Stay, Effect, HttpStateNames
      <4> HIDE DEF f
      <4>2. f = [e EXCEPT !.poll = p]
        BY <3>2, <4>1 DEF Effect
      <4> QED BY <4>2 DEF f
    <3>4. [e EXCEPT !.next = "parse"] = Enter("parse", task[c].poll, task[c].timer)
      <4> DEFINE f == Stay("parse", task[c].poll, task[c].timer)
      <4>1. /\ f \in Effect /\ f.next = "parse" /\ f.poll = task[c].poll
            /\ f.timer = task[c].timer /\ f.take = FALSE
        BY <3>1, Names DEF Stay, Effect, HttpStateNames
      <4> HIDE DEF f
      <4>2. f = [e EXCEPT !.next = "parse"]
        BY <3>2, <4>1 DEF Effect
      <4> QED BY <4>2 DEF f, Enter
    <3>5. "parse" \in After("receive")
      BY DEF After, Follows, HttpStateNames
    <3> QED BY <3>1, <3>2, <3>3, <3>4, <3>5, TimersInDelta DEF OnPoll
  <2> HIDE DEF e
  <2> QED BY <2>1, <2>2, <2>3, SearchHandled
<1> QED BY <1>1, <1>2, <1>3

\* The cleanup leaves nothing held and no callback owed.
LEMMA CleanUpIs ==
  ASSUME NEW k \in Client, k.owed <=> k.mvc /\ k.cb
  PROVE  LET l == CleanUp(k)
         IN  /\ l \in Client /\ l.owed = FALSE /\ l.mvc = FALSE /\ l.cb = FALSE
             /\ ~ Holds(l) /\ l.pos = 0 /\ l.heads = k.heads /\ l.tail = k.tail
             /\ l.keep = k.keep /\ l.pipe = k.pipe /\ l.status = k.status
             /\ l.size = k.size /\ l.file_size = k.file_size /\ l.broken = k.broken
<1> DEFINE r == Released(k)
<1>1. /\ r \in Client /\ r.mvc = FALSE /\ r.cb = FALSE /\ r.resource = FALSE /\ r.pos = 0
      /\ r.buf = FALSE /\ r.req = FALSE /\ r.url = FALSE
      /\ r.owed = k.owed /\ r.heads = k.heads /\ r.tail = k.tail
      /\ r.keep = k.keep /\ r.pipe = k.pipe /\ r.status = k.status
      /\ r.size = k.size /\ r.file_size = k.file_size /\ r.broken = k.broken
  BY DEF Released, Client
<1> HIDE DEF r
<1>2. CASE k.mvc /\ k.cb
  <2> DEFINE l == Called(r)
  <2>1. CleanUp(k) = l
    BY <1>2 DEF CleanUp, r
  <2>2. /\ l \in Client /\ l.owed = FALSE
        /\ l.mvc = r.mvc /\ l.cb = r.cb /\ l.resource = r.resource /\ l.pos = r.pos
        /\ l.buf = r.buf /\ l.req = r.req /\ l.url = r.url /\ l.heads = r.heads
        /\ l.tail = r.tail /\ l.keep = r.keep /\ l.pipe = r.pipe /\ l.status = r.status
        /\ l.size = r.size /\ l.file_size = r.file_size /\ l.broken = r.broken
    BY <1>1 DEF Called, Client
  <2> HIDE DEF l
  <2> QED BY <1>1, <2>1, <2>2 DEF Holds
<1>3. CASE ~ (k.mvc /\ k.cb)
  <2>1. CleanUp(k) = r
    BY <1>3 DEF CleanUp, r
  <2>2. r.owed = FALSE
    BY <1>1, <1>3 DEF Client
  <2> QED BY <1>1, <2>1, <2>2 DEF Holds
<1> QED BY <1>2, <1>3

LEMMA OverHandled ==
  ASSUME IInv, NEW c \in Conns, Keepalive(c) \/ Disconnect(c)
  PROVE  Handled(c)
<1> DEFINE k == client[c]
           l == CleanUp(k)
<1>1. k \in Client /\ (k.owed <=> k.mvc /\ k.cb)
  BY DEF IInv, ClientsAreGood, Good
<1>2. /\ l \in Client /\ l.owed = FALSE /\ l.mvc = FALSE /\ l.cb = FALSE
      /\ ~ Holds(l) /\ l.pos = 0 /\ l.heads = k.heads /\ l.tail = k.tail
      /\ l.broken = k.broken /\ l.size = k.size
  <2> HIDE DEF k
  <2> QED BY <1>1, CleanUpIs
<1>3. CASE Keepalive(c)
  <2>1. Runs(c, "keepalive", "ENTRY") /\ Done(c, l, Goto(c, "receive"))
    BY <1>3 DEF Keepalive
  <2>2. k.size = 0 /\ k.broken = FALSE
    BY <2>1, Running DEF Good, Client
  <2>3. Goto(c, "receive") \in Asks(c) /\ Goto(c, "receive").next = "receive"
    BY <2>1, Running DEF Goto, Enter, Stay, HttpEffects, OnEntry
  <2> HIDE DEF l
  <2>4. Good("receive", TRUE, l)
    BY <1>2, <2>2, Names DEF Good, HttpStateNames
  <2>5. Keeping("keepalive", k, "receive", l)
    <3> HIDE DEF k
    <3> QED BY <1>1, <1>2, <2>2, FreeKept
  <2> QED BY <2>1, <2>3, <2>4, <2>5, Handling
<1>4. CASE Disconnect(c)
  <2> DEFINE d == [l EXCEPT !.heads = 0, !.tail = FALSE]
  <2>1. Runs(c, "disconnect", "ENTRY") /\ Done(c, d, Goto(c, Quit))
    BY <1>4 DEF Disconnect
  <2>2. Goto(c, Quit) \in Asks(c) /\ Goto(c, Quit).next = Quit
    BY <2>1, Running DEF Goto, Enter, Stay, HttpEffects, OnEntry
  <2> HIDE DEF l
  <2>3. 0 \in 0 .. MaxHeads
    BY BuffersAssumption
  <2>4. /\ d \in Client /\ d.heads = 0 /\ d.tail = FALSE
        /\ d.owed = l.owed /\ d.mvc = l.mvc /\ d.cb = l.cb /\ (Holds(d) <=> Holds(l))
    BY <1>2, <2>3 DEF Client, Holds
  <2> HIDE DEF d
  <2>5. Good(Quit, TRUE, d)
    BY <1>2, <2>4, Names DEF Good, HttpStateNames
  <2>6. Keeping("disconnect", k, Quit, d)
    <3>1. d.owed = FALSE
      BY <1>2, <2>4
    <3> HIDE DEF k
    <3> QED BY <1>1, <2>4, <3>1, FreeKept
  <2>7. Quit # "disconnect"
    BY Names DEF HttpStateNames
  <2> QED BY <2>1, <2>2, <2>5, <2>6, <2>7, Handling
<1> QED BY <1>3, <1>4

LEMMA ErrorHandled ==
  ASSUME IInv, NEW c \in Conns, ErrorEntry(c) \/ ErrorPoll(c)
  PROVE  Handled(c)
<1> DEFINE k == client[c]
<1>1. k \in Client
  BY DEF IInv, ClientsAreGood
<1>2. CASE ErrorEntry(c)
  <2> DEFINE j == [k EXCEPT !.status = IF @ = 0 THEN 500 ELSE @]
             l == CleanUp(j)
             m == [l EXCEPT !.keep = @ /\ l.pipe]
  <2>1. Runs(c, "error", "ENTRY") /\ Done(c, m, Arm("error"))
    BY <1>2 DEF ErrorEntry
  <2>2. Good("error", TRUE, k)
    <3>1. ("ENTRY" = "ENTRY") = TRUE
      OBVIOUS
    <3> QED BY <2>1, <3>1, Running
  <2> HIDE DEF k
  <2>3. /\ j \in Client /\ j.owed = k.owed /\ j.mvc = k.mvc
        /\ j.cb = k.cb /\ j.broken = k.broken /\ j.pipe = k.pipe /\ j.size = k.size
    <3>1. (IF k.status = 0 THEN 500 ELSE k.status) \in Statuses
      BY <1>1 DEF Client, Statuses
    <3> QED BY <1>1, <3>1 DEF Client
  <2> HIDE DEF j
  <2>4. (j.owed <=> j.mvc /\ j.cb) /\ (j.broken => ~ j.pipe)
    BY <2>2, <2>3 DEF Good
  <2>5. /\ l \in Client /\ l.owed = FALSE /\ l.mvc = FALSE /\ l.cb = FALSE
        /\ ~ Holds(l) /\ l.pos = 0 /\ l.pipe = j.pipe /\ l.broken = j.broken /\ l.size = j.size
    BY <2>3, <2>4, CleanUpIs
  <2> HIDE DEF l
  <2>6. /\ m \in Client /\ m.owed = l.owed /\ m.mvc = l.mvc /\ m.cb = l.cb
        /\ (Holds(m) <=> Holds(l)) /\ m.pos = l.pos /\ m.broken = l.broken
        /\ m.keep = (l.keep /\ l.pipe) /\ m.resource = l.resource /\ m.buf = l.buf
    <3>1. (l.keep /\ l.pipe) \in BOOLEAN
      OBVIOUS
    <3> QED BY <2>5, <3>1 DEF Client, Holds
  <2> HIDE DEF m
  <2>7. Good("error", FALSE, m)
    BY <2>4, <2>5, <2>6, Names DEF Good, Holds, HttpStateNames
  <2>8. Keeping("error", k, "error", m)
    BY <1>1, <2>3, <2>5, <2>6, FailureKept
  <2> QED BY <2>1, <2>7, <2>8, ArmAsked, Handling DEF k
<1>3. CASE ErrorPoll(c)
  <2> DEFINE j == [k EXCEPT !.mvc = TRUE]
             w == WithoutMvc(j)
  <2>1. Runs(c, "error", "POLL")
    BY <1>3 DEF ErrorPoll
  <2>2. Good("error", FALSE, k)
    <3>1. ("POLL" = "ENTRY") = FALSE
      OBVIOUS
    <3> QED BY <2>1, <3>1, Running
  <2>3. \/ \E n \in FileSizes : Done(c, Opened(j, n), Goto(c, "build"))
        \/ Done(c, w, BackOff(c))
        \/ Done(c, [w EXCEPT !.file_size = 0], Goto(c, "build"))
        \/ Done(c, j, Goto(c, "disconnect"))
    BY <1>3 DEF ErrorPoll
  <2>4. /\ BackOff(c) \in Asks(c) /\ BackOff(c).next = "error"
        /\ Goto(c, "build") \in Asks(c) /\ Goto(c, "build").next = "build"
        /\ Goto(c, "disconnect") \in Asks(c) /\ Goto(c, "disconnect").next = "disconnect"
    BY <2>1, PollAsked DEF Timed, HttpStateNames, Follows
  <2> HIDE DEF k
  <2>5. /\ k.owed = FALSE /\ k.cb = FALSE /\ k.buf = FALSE
        /\ k.pos = 0 /\ k.resource = FALSE /\ (k.broken => ~ k.keep)
    BY <1>1, <2>2, Names DEF Good, Client, HttpStateNames
  <2>6. /\ j \in Client /\ j.owed = FALSE /\ j.cb = FALSE /\ j.buf = FALSE
        /\ j.pos = 0 /\ j.resource = FALSE /\ j.broken = k.broken /\ j.keep = k.keep
        /\ j.size = k.size
    BY <1>1, <2>5 DEF Client
  <2> HIDE DEF j
  <2>7. /\ w \in Client /\ w.owed = FALSE /\ w.cb = FALSE /\ w.buf = FALSE
        /\ w.pos = 0 /\ w.resource = FALSE /\ w.mvc = FALSE
        /\ w.broken = k.broken /\ w.keep = k.keep /\ w.size = k.size
    BY <2>6 DEF Client, WithoutMvc
  <2> HIDE DEF w
  <2>8. ASSUME NEW n \in FileSizes, Done(c, Opened(j, n), Goto(c, "build")) PROVE Handled(c)
    <3> DEFINE o == Opened(j, n)
    <3>1. n \in Nat
      BY BuffersAssumption
    <3>2. /\ o \in Client /\ o.owed = FALSE /\ o.cb = FALSE /\ o.buf = FALSE
          /\ o.pos = 0 /\ o.resource = TRUE /\ o.file_size = n
          /\ o.broken = k.broken /\ o.keep = k.keep
      BY <2>6, <3>1 DEF Client, Opened
    <3> HIDE DEF o
    <3>3. Good("build", TRUE, o)
      BY <2>5, <3>2, Names DEF Good, HttpStateNames
    <3>4. Keeping("error", k, "build", o)
      BY <1>1, <2>5, <3>2, FailureKept
    <3> QED BY <2>1, <2>4, <2>8, <3>3, <3>4, Handling DEF o, k
  <2>9. CASE Done(c, w, BackOff(c))
    <3>1. Good("error", FALSE, w)
      BY <2>5, <2>7, Names DEF Good, HttpStateNames
    <3>2. Keeping("error", k, "error", w)
      BY <1>1, <2>5, <2>7, FailureKept
    <3> QED BY <2>1, <2>4, <2>9, <3>1, <3>2, Handling DEF k
  <2>10. CASE Done(c, [w EXCEPT !.file_size = 0], Goto(c, "build"))
    <3> DEFINE o == [w EXCEPT !.file_size = 0]
    <3>1. /\ o \in Client /\ o.owed = FALSE /\ o.cb = FALSE /\ o.buf = FALSE
          /\ o.pos = 0 /\ o.file_size = 0 /\ o.broken = k.broken /\ o.keep = k.keep
      BY <2>7 DEF Client
    <3> HIDE DEF o
    <3>2. Good("build", TRUE, o)
      BY <2>5, <3>1, Names DEF Good, HttpStateNames
    <3>3. Keeping("error", k, "build", o)
      BY <1>1, <2>5, <3>1, FailureKept
    <3> QED BY <2>1, <2>4, <2>10, <3>2, <3>3, Handling DEF o, k
  <2>11. CASE Done(c, j, Goto(c, "disconnect"))
    <3>1. Good("disconnect", TRUE, j)
      BY <2>6, Names DEF Good, HttpStateNames
    <3>2. Keeping("error", k, "disconnect", j)
      BY <1>1, <2>5, <2>6, LeaveKept DEF HttpStateNames
    <3> QED BY <2>1, <2>4, <2>11, <3>1, <3>2, Handling DEF k
  <2> QED BY <2>3, <2>8, <2>9, <2>10, <2>11
<1> QED BY <1>2, <1>3

\* xxxws_resource_open of the view of a client k whose controllers have been asked,
\* now or before.
LEMMA OpenViewHandled ==
  ASSUME IInv, NEW c \in Conns, Runs(c, "prepare", "POLL"), NEW k \in Client,
         Good("prepare", FALSE, k), k.mvc = TRUE,
         \/ client[c].mvc = TRUE /\ k.owed = client[c].owed
         \/ client[c].mvc = FALSE /\ (k.owed = client[c].owed \/ k.owed),
         OpenView(c, k)
  PROVE  Handled(c)
<1> DEFINE h == client[c]
<1>1. h \in Client
  BY DEF IInv, ClientsAreGood
<1>2. /\ BackOff(c) \in Asks(c) /\ BackOff(c).next = "prepare"
      /\ Goto(c, "build") \in Asks(c) /\ Goto(c, "build").next = "build"
      /\ Goto(c, "error") \in Asks(c) /\ Goto(c, "error").next = "error"
  BY PollAsked DEF Timed, HttpStateNames, Follows
<1>3. /\ k.owed \in BOOLEAN /\ (k.owed <=> k.cb) /\ k.buf = FALSE
      /\ k.resource = FALSE /\ k.status = 0 /\ k.broken = FALSE
  BY Names DEF Good, Client, HttpStateNames
<1>4. \/ h.mvc = TRUE /\ k.owed = h.owed
      \/ h.mvc = FALSE /\ (k.owed = h.owed \/ k.owed)
  OBVIOUS
<1> HIDE DEF h
<1>5. ASSUME NEW n \in IF k.attributes THEN {0} ELSE FileSizes,
             Done(c, [Opened(k, n) EXCEPT !.status = 200], Goto(c, "build"))
      PROVE  Handled(c)
  <2> DEFINE o == Opened(k, n)
             l == [o EXCEPT !.status = 200]
  <2>1. n \in Nat /\ n \in FileSizes \cup {0}
    BY BuffersAssumption
  <2>2. /\ o \in Client /\ o.owed = k.owed /\ o.mvc = TRUE /\ o.cb = k.cb
        /\ o.buf = FALSE /\ o.pos = 0 /\ o.resource = TRUE /\ o.file_size = n
        /\ o.broken = FALSE
    BY <1>3, <2>1 DEF Client, Opened
  <2> HIDE DEF o
  <2>3. /\ l \in Client /\ l.owed = k.owed /\ l.mvc = TRUE /\ l.cb = k.cb
        /\ l.buf = FALSE /\ l.pos = 0 /\ l.resource = TRUE /\ l.file_size = n
        /\ l.broken = FALSE
    <3>1. 200 \in Statuses
      BY DEF Statuses
    <3> QED BY <2>2, <3>1 DEF Client
  <2> HIDE DEF l
  <2>4. Good("build", TRUE, l)
    BY <1>3, <2>1, <2>3, Names DEF Good, HttpStateNames
  <2>5. Keeping("prepare", h, "build", l)
    BY <1>1, <1>4, <2>3, WorkKept
  <2> QED BY <1>2, <1>5, <2>4, <2>5, Handling DEF o, l, h
<1>6. CASE Done(c, k, BackOff(c))
  <2>1. Keeping("prepare", h, "prepare", k)
    BY <1>1, <1>4, WorkKept
  <2> QED BY <1>2, <1>6, <2>1, Handling DEF h
<1>7. ASSUME NEW l, l = k \/ l = [k EXCEPT !.status = 404], Done(c, l, Goto(c, "error"))
      PROVE  Handled(c)
  <2>1. /\ l \in Client /\ l.owed = k.owed /\ l.mvc = k.mvc /\ l.cb = k.cb
        /\ l.buf = FALSE /\ l.broken = FALSE /\ l.status \in {0, 404}
    <3>1. 404 \in Statuses
      BY DEF Statuses
    <3> QED BY <1>3, <1>7, <3>1 DEF Client
  <2>2. Good("error", TRUE, l)
    BY <1>3, <2>1, Names DEF Good, HttpStateNames
  <2>3. Keeping("prepare", h, "error", l)
    BY <1>1, <1>4, <2>1, WorkKept
  <2> QED BY <1>2, <1>7, <2>2, <2>3, Handling DEF h
<1> QED BY <1>5, <1>6, <1>7 DEF OpenView

LEMMA PrepareHandled ==
  ASSUME IInv, NEW c \in Conns, PrepareEntry(c) \/ PreparePoll(c)
  PROVE  Handled(c)
<1> DEFINE k == client[c]
<1>1. k \in Client
  BY DEF IInv, ClientsAreGood
<1>2. CASE PrepareEntry(c)
  <2> DEFINE l == [k EXCEPT !.pipe = TRUE]
  <2>1. Runs(c, "prepare", "ENTRY") /\ Done(c, l, Arm("prepare"))
    BY <1>2 DEF PrepareEntry
  <2>2. Good("prepare", FALSE, k)
    BY <2>1, Running DEF Good
  <2> HIDE DEF k
  <2>3. l \in Client
    BY <1>1 DEF Client
  <2>4. Good("prepare", FALSE, l)
    BY <1>1, <2>2, <2>3, Names DEF Good, Client, HttpStateNames
  <2>5. l.mvc = k.mvc /\ l.owed = k.owed /\ l.broken = k.broken /\ l.size = k.size
    BY <1>1 DEF Client
  <2> HIDE DEF l
  <2>6. Keeping("prepare", k, "prepare", l)
    BY <1>1, <2>3, <2>5, SameKept DEF HttpStateNames
  <2> QED BY <2>1, <2>4, <2>6, ArmAsked, Handling DEF k
<1>3. CASE PreparePoll(c)
  <2>1. Runs(c, "prepare", "POLL")
    BY <1>3 DEF PreparePoll
  <2>2. Good("prepare", FALSE, k)
    BY <2>1, Running DEF Good
  <2>3. k.mvc \in BOOLEAN /\ k.owed \in BOOLEAN
    BY <1>1 DEF Client
  <2>4. CASE k.mvc
    <3>1. OpenView(c, k)
      BY <1>3, <2>4 DEF PreparePoll
    <3>2. k.mvc = TRUE
      BY <2>3, <2>4
    <3> QED BY <1>1, <2>1, <2>2, <3>1, <3>2, OpenViewHandled
  <2>5. CASE ~ k.mvc /\ Done(c, k, BackOff(c))
    <3>1. BackOff(c) \in Asks(c) /\ BackOff(c).next = "prepare"
      BY <2>1, PollAsked DEF Timed
    <3>2. Keeping("prepare", k, "prepare", k)
      BY DEF Keeping
    <3> QED BY <2>1, <2>2, <2>5, <3>1, <3>2, Handling
  <2>6. CASE ~ k.mvc /\ Done(c, k, Goto(c, "error"))
    <3>1. Goto(c, "error") \in Asks(c) /\ Goto(c, "error").next = "error"
      BY <2>1, PollAsked DEF Timed, HttpStateNames, Follows
    <3>2. Good("error", TRUE, k)
      BY <2>2, Names DEF Good, HttpStateNames
    <3>3. k.mvc = FALSE /\ k.broken = FALSE
      BY <1>1, <2>2, <2>6 DEF Good, Client
    <3>4. Keeping("prepare", k, "error", k)
      <4> HIDE DEF k
      <4> QED BY <1>1, <3>3, WorkKept
    <3> QED BY <2>1, <2>6, <3>1, <3>2, <3>4, Handling
  <2>7. ASSUME ~ k.mvc, NEW attributes \in BOOLEAN, NEW cb \in BOOLEAN,
               OpenView(c, Configured(k, attributes, cb))
        PROVE  Handled(c)
    <3> DEFINE l == Configured(k, attributes, cb)
    <3>1. k.mvc = FALSE /\ k.owed = FALSE
      BY <1>1, <2>2, <2>7 DEF Good, Client
    <3> HIDE DEF k
    <3>2. /\ l \in Client /\ l.mvc = TRUE /\ l.owed = cb /\ l.cb = cb
          /\ l.buf = k.buf /\ l.resource = k.resource /\ l.status = k.status
          /\ l.broken = k.broken
      <4> DEFINE i == [k EXCEPT !.mvc = TRUE, !.attributes = attributes]
                 j == [i EXCEPT !.cb = cb, !.owed = cb]
      <4>1. /\ i \in Client /\ i.mvc = TRUE /\ i.buf = k.buf
            /\ i.resource = k.resource /\ i.status = k.status /\ i.broken = k.broken
        BY <1>1 DEF Client
      <4>2. l = [j EXCEPT !.url = FALSE, !.req = FALSE]
        BY DEF Configured
      <4> HIDE DEF i, l
      <4>3. /\ j \in Client /\ j.mvc = i.mvc /\ j.buf = i.buf
            /\ j.resource = i.resource /\ j.status = i.status /\ j.broken = i.broken
            /\ j.owed = cb /\ j.cb = cb
        BY <4>1 DEF Client
      <4> HIDE DEF j
      <4> QED BY <4>1, <4>2, <4>3, ZenonT(60) DEF Client
    <3> HIDE DEF l
    <3>3. Good("prepare", FALSE, l)
      BY <1>1, <2>2, <3>2, Names DEF Good, HttpStateNames
    <3>4. l.owed = k.owed \/ l.owed
      BY <3>1, <3>2
    <3> QED BY <2>1, <2>7, <3>1, <3>2, <3>3, <3>4, OpenViewHandled DEF k, l
  <2> QED BY <1>3, <2>4, <2>5, <2>6, <2>7 DEF PreparePoll
<1> QED BY <1>2, <1>3

LEMMA BuildHandled ==
  ASSUME IInv, NEW c \in Conns, BuildEntry(c) \/ BuildPoll(c)
  PROVE  Handled(c)
<1> DEFINE k == client[c]
<1>1. k \in Client
  BY DEF IInv, ClientsAreGood
<1>2. CASE BuildEntry(c)
  <2>1. Runs(c, "build", "ENTRY") /\ Done(c, k, Arm("build"))
    BY <1>2 DEF BuildEntry
  <2>2. Good("build", FALSE, k)
    BY <2>1, Running DEF Good
  <2> QED BY <2>1, <2>2, ArmAsked, Handling DEF Keeping
<1>3. CASE BuildPoll(c)
  <2> DEFINE room == IF BodyBuf < HeadBuf THEN HeadBuf ELSE BodyBuf
             j == [k EXCEPT !.buf = TRUE, !.index = 0, !.room = room]
             l == ResponseBuilt(j)
  <2>1. Runs(c, "build", "POLL") /\ (Done(c, k, BackOff(c)) \/ Done(c, l, Goto(c, "send")))
    BY <1>3 DEF BuildPoll
  <2>2. Good("build", FALSE, k)
    BY <2>1, Running DEF Good
  <2>3. /\ BackOff(c) \in Asks(c) /\ BackOff(c).next = "build"
        /\ Goto(c, "send") \in Asks(c) /\ Goto(c, "send").next = "send"
    BY <2>1, PollAsked DEF Timed, HttpStateNames, Follows
  <2>4. CASE Done(c, k, BackOff(c))
    BY <2>1, <2>2, <2>3, <2>4, Handling DEF Keeping
  <2>5. CASE Done(c, l, Goto(c, "send"))
    <3>1. room \in Nat
      BY BuffersAssumption
    <3> HIDE DEF k, room
    <3>2. /\ j \in Client /\ j.buf = TRUE /\ j.owed = k.owed
          /\ j.mvc = k.mvc /\ j.cb = k.cb /\ j.resource = k.resource /\ j.pos = k.pos
          /\ j.file_size = k.file_size /\ j.broken = k.broken /\ j.keep = k.keep
      BY <1>1, <3>1 DEF Client
    <3> HIDE DEF j
    <3>3. k.file_size \in Nat /\ k.pos = 0 /\ k.file_size \in FileSizes \cup {0}
      BY <1>1, <2>2, Names DEF Good, Client, HttpStateNames
    <3>4. HeadLen + j.file_size \in Nat /\ HeadLen \in Nat
      BY <3>2, <3>3, BuffersAssumption
    <3>5. /\ l \in Client /\ l.buf = TRUE /\ l.owed = k.owed
          /\ l.mvc = k.mvc /\ l.cb = k.cb /\ l.resource = k.resource /\ l.pos = k.pos
          /\ l.file_size = k.file_size /\ l.broken = k.broken /\ l.keep = k.keep
          /\ l.len = HeadLen /\ l.size = HeadLen + k.file_size
      BY <3>2, <3>4 DEF Client, ResponseBuilt
    <3> HIDE DEF l
    <3>6. l.size = (l.file_size - l.pos) + l.len /\ l.pos <= l.file_size
      BY <3>3, <3>4, <3>5
    <3>7. Good("send", TRUE, l)
      BY <2>2, <3>5, <3>6, Names DEF Good, HttpStateNames
    <3>8. Keeping("build", k, "send", l)
      BY <1>1, <3>3, <3>5, SendingKept
    <3> QED BY <2>1, <2>3, <2>5, <3>7, <3>8, Handling DEF k, l
  <2> QED BY <2>1, <2>4, <2>5
<1> QED BY <1>2, <1>3

\* A client in send: what is left of its response is what is left of its file and
\* what the buffer holds.
Sending(k) ==
  /\ k \in Client /\ (k.owed <=> k.mvc /\ k.cb)
  /\ k.pos <= k.file_size /\ (k.file_size # 0 => k.resource)
  /\ k.size = (k.file_size - k.pos) + k.len /\ (k.broken => ~ k.keep)

LEMMA SendingIsGood ==
  ASSUME NEW k, NEW b \in BOOLEAN
  PROVE  Good("send", b, k) <=> Sending(k) /\ (~ k.buf => k.len = 0)
BY Names DEF Good, Sending, HttpStateNames

LEMMA FilledIs ==
  ASSUME NEW k, Sending(k), k.buf = TRUE, NEW r \in Filled(k)
  PROVE  /\ Sending(r) /\ r.buf = TRUE /\ r.size = k.size /\ r.owed = k.owed
         /\ r.broken = k.broken /\ r.keep = k.keep /\ r.pipe = k.pipe
<1>1. PICK n \in 0 .. ToRead(k) : r = [k EXCEPT !.len = @ + n, !.pos = @ + n]
  BY DEF Filled
<1>2. /\ k \in Client /\ k.size \in Nat /\ k.len \in Nat /\ k.pos \in Nat /\ k.room \in Nat
      /\ k.file_size \in Nat
  BY DEF Sending, Client
<1>3. n \in Nat /\ n <= k.size - k.len /\ k.len + n \in Nat /\ k.pos + n \in Nat
  BY <1>2 DEF ToRead
<1>4. /\ r \in Client /\ r.buf = TRUE /\ r.size = k.size /\ r.owed = k.owed
      /\ r.broken = k.broken /\ r.keep = k.keep /\ r.pipe = k.pipe
      /\ r.mvc = k.mvc /\ r.cb = k.cb /\ r.resource = k.resource /\ r.file_size = k.file_size
      /\ r.len = k.len + n /\ r.pos = k.pos + n
  BY <1>1, <1>2, <1>3 DEF Client
<1>5. r.pos <= r.file_size /\ r.size = (r.file_size - r.pos) + r.len
  BY <1>2, <1>3, <1>4 DEF Sending
<1> QED BY <1>4, <1>5 DEF Sending

LEMMA WrittenIs ==
  ASSUME NEW k, Sending(k), NEW w \in Written(k)
  PROVE  /\ Sending(w) /\ w.size \in 0 .. k.size /\ w.owed = k.owed
         /\ w.broken = k.broken /\ w.keep = k.keep /\ w.pipe = k.pipe
<1>1. PICK n \in 0 .. k.len : w = [k EXCEPT !.index = @ + n, !.len = @ - n, !.size = @ - n]
  BY DEF Written
<1>2. /\ k \in Client /\ k.size \in Nat /\ k.len \in Nat /\ k.pos \in Nat /\ k.index \in Nat
      /\ k.file_size \in Nat /\ k.size = (k.file_size - k.pos) + k.len
      /\ k.pos <= k.file_size
  BY DEF Sending, Client
<1>3. n \in Nat /\ n <= k.len /\ k.len - n \in Nat /\ k.index + n \in Nat /\ k.size - n \in Nat
  BY <1>2
<1>4. /\ w \in Client /\ w.owed = k.owed
      /\ w.broken = k.broken /\ w.keep = k.keep /\ w.pipe = k.pipe
      /\ w.mvc = k.mvc /\ w.cb = k.cb /\ w.resource = k.resource /\ w.file_size = k.file_size
      /\ w.len = k.len - n /\ w.pos = k.pos /\ w.size = k.size - n
  BY <1>1, <1>2, <1>3 DEF Client
<1>5. w.size = (w.file_size - w.pos) + w.len /\ w.size \in 0 .. k.size
  BY <1>2, <1>3, <1>4
<1> QED BY <1>4, <1>5 DEF Sending

LEMMA SentHandled ==
  ASSUME IInv, NEW c \in Conns, Runs(c, "send", "POLL"), NEW w, Sending(w),
         w.size \in 0 .. client[c].size, w.owed = client[c].owed,
         w.broken = client[c].broken, Sent(c, w)
  PROVE  Handled(c)
<1> DEFINE k == client[c]
           l == [w EXCEPT !.buf = w.len # 0]
<1>1. k \in Client /\ w \in Client
  BY DEF IInv, ClientsAreGood, Sending
<1>2. /\ Goto(c, "keepalive") \in Asks(c) /\ Goto(c, "keepalive").next = "keepalive"
      /\ Goto(c, "disconnect") \in Asks(c) /\ Goto(c, "disconnect").next = "disconnect"
      /\ Stay("send", 0, task[c].timer) \in Asks(c) /\ Stay("send", 0, task[c].timer).next = "send"
  BY PollAsked DEF Timed, HttpStateNames, Follows
<1>3. w.size \in 0 .. k.size /\ w.owed = k.owed /\ w.broken = k.broken
  OBVIOUS
<1> HIDE DEF k
<1>4. /\ l \in Client /\ l.buf = (w.len # 0) /\ l.size = w.size /\ l.owed = w.owed
      /\ l.broken = w.broken /\ l.keep = w.keep /\ l.pipe = w.pipe
      /\ l.mvc = w.mvc /\ l.cb = w.cb /\ l.resource = w.resource /\ l.file_size = w.file_size
      /\ l.len = w.len /\ l.pos = w.pos
  <2>1. (w.len # 0) \in BOOLEAN
    OBVIOUS
  <2> QED BY <1>1, <2>1, ZenonT(60) DEF Client
<1>5. CASE w.size # 0 /\ Done(c, l, Stay("send", 0, task[c].timer))
  <2> HIDE DEF l
  <2>1. Good("send", FALSE, l)
    BY <1>4, SendingIsGood DEF Sending
  <2>2. Keeping("send", k, "send", l)
    BY <1>1, <1>3, <1>4, SendingKept
  <2> QED BY <1>2, <1>5, <2>1, <2>2, Handling DEF k
<1>6. CASE w.size = 0 /\ w.keep /\ w.pipe /\ Done(c, l, Goto(c, "keepalive"))
  <2> HIDE DEF l
  <2>1. w.len = 0 /\ w.pos = w.file_size /\ ~ w.broken
    <3>1. /\ w.len \in Nat /\ w.pos \in Nat /\ w.file_size \in Nat /\ w.pos <= w.file_size
          /\ 0 = (w.file_size - w.pos) + w.len
      BY <1>6 DEF Sending, Client
    <3>2. \A i, j, n \in Nat : i <= j /\ 0 = (j - i) + n => n = 0 /\ i = j
      OBVIOUS
    <3>3. w.len = 0 /\ w.pos = w.file_size
      BY <3>1, <3>2
    <3> QED BY <1>6, <3>3 DEF Sending
  <2>2. Good("keepalive", TRUE, l)
    BY <1>4, <1>6, <2>1, Names DEF Good, Sending, HttpStateNames
  <2>3. Keeping("send", k, "keepalive", l)
    BY <1>1, <1>3, <1>4, SendingKept
  <2> QED BY <1>2, <1>6, <2>2, <2>3, Handling DEF k
<1>7. CASE Done(c, l, Goto(c, "disconnect"))
  <2> HIDE DEF l
  <2>1. Good("disconnect", TRUE, l)
    BY <1>4, Names DEF Good, Sending, HttpStateNames
  <2>2. Keeping("send", k, "disconnect", l)
    BY <1>1, <1>3, <1>4, LeaveKept DEF HttpStateNames
  <2> QED BY <1>2, <1>7, <2>1, <2>2, Handling DEF k
<1> QED BY <1>5, <1>6, <1>7 DEF Sent

LEMMA SendHandled ==
  ASSUME IInv, NEW c \in Conns, SendEntry(c) \/ SendPoll(c)
  PROVE  Handled(c)
<1> DEFINE k == client[c]
<1>1. k \in Client
  BY DEF IInv, ClientsAreGood
<1>2. CASE SendEntry(c)
  <2>1. Runs(c, "send", "ENTRY") /\ Done(c, k, Arm("send"))
    BY <1>2 DEF SendEntry
  <2>2. Good("send", FALSE, k)
    BY <2>1, Running DEF Good
  <2> QED BY <2>1, <2>2, ArmAsked, Handling DEF Keeping
<1>3. CASE SendPoll(c)
  <2> DEFINE b == NewBuffer(k)
  <2>1. /\ Runs(c, "send", "POLL")
        /\ \/ Done(c, k, BackOff(c))
           \/ Done(c, b, Goto(c, "disconnect"))
           \/ \E r \in Filled(b) :
                \/ \E w \in Written(r) : Sent(c, w)
                \/ Done(c, r, Goto(c, "disconnect"))
    BY <1>3 DEF SendPoll
  <2>2. Good("send", FALSE, k)
    BY <2>1, Running DEF Good
  <2>3. /\ BackOff(c) \in Asks(c) /\ BackOff(c).next = "send"
        /\ Goto(c, "disconnect") \in Asks(c) /\ Goto(c, "disconnect").next = "disconnect"
    BY <2>1, PollAsked DEF Timed, HttpStateNames, Follows
  <2>4. CASE Done(c, k, BackOff(c))
    BY <2>1, <2>2, <2>3, <2>4, Handling DEF Keeping
  <2> HIDE DEF k
  <2>5. Sending(k) /\ (~ k.buf => k.len = 0)
    BY <2>2, SendingIsGood
  <2>6. /\ Sending(b) /\ b.buf = TRUE /\ b.size = k.size /\ b.owed = k.owed
        /\ b.broken = k.broken /\ b.keep = k.keep /\ b.pipe = k.pipe
    <3>1. CASE k.buf
      <4>1. b = k /\ k.buf = TRUE
        BY <1>1, <3>1 DEF NewBuffer, Client
      <4> QED BY <2>5, <4>1
    <3>2. CASE ~ k.buf
      <4>1. b = [k EXCEPT !.buf = TRUE, !.index = 0, !.len = 0, !.room = BodyBuf]
        BY <3>2 DEF NewBuffer
      <4> HIDE DEF b
      <4>2. /\ b \in Client /\ b.buf = TRUE /\ b.size = k.size /\ b.owed = k.owed
            /\ b.broken = k.broken /\ b.keep = k.keep /\ b.pipe = k.pipe
            /\ b.mvc = k.mvc /\ b.cb = k.cb /\ b.resource = k.resource
            /\ b.file_size = k.file_size /\ b.len = 0 /\ b.pos = k.pos
        BY <1>1, <4>1, BuffersAssumption DEF Client
      <4> QED BY <2>5, <3>2, <4>2 DEF Sending
    <3> QED BY <3>1, <3>2
  <2> HIDE DEF b
  <2>7. ASSUME NEW l, Sending(l), l.owed = k.owed, Done(c, l, Goto(c, "disconnect"))
        PROVE  Handled(c)
    <3>1. Good("disconnect", TRUE, l) /\ l \in Client
      BY <2>7, Names DEF Good, Sending, HttpStateNames
    <3>2. Keeping("send", k, "disconnect", l)
      BY <1>1, <2>7, <3>1, LeaveKept DEF HttpStateNames
    <3> QED BY <2>1, <2>3, <2>7, <3>1, <3>2, Handling DEF k
  <2>8. ASSUME NEW r \in Filled(b) PROVE Sending(r) /\ r.size = k.size /\ r.owed = k.owed
                                           /\ r.broken = k.broken
    BY <2>6, FilledIs
  <2>9. ASSUME NEW r \in Filled(b), NEW w \in Written(r), Sent(c, w) PROVE Handled(c)
    <3>1. /\ Sending(w) /\ w.size \in 0 .. k.size /\ w.owed = k.owed /\ w.broken = k.broken
      BY <2>8, WrittenIs
    <3> QED BY <2>1, <2>9, <3>1, SentHandled DEF k
  <2>10. ASSUME NEW r \in Filled(b), Done(c, r, Goto(c, "disconnect")) PROVE Handled(c)
    BY <2>7, <2>8, <2>10
  <2>11. CASE Done(c, b, Goto(c, "disconnect"))
    BY <2>6, <2>7, <2>11
  <2> QED BY <2>1, <2>4, <2>9, <2>10, <2>11
<1> QED BY <1>2, <1>3

LEMMA HandleHandled ==
  ASSUME IInv, NEW c \in Conns, Handle(c)
  PROVE  Handled(c)
BY FirstHandled, ReceiveHandled, ParseHandled, ErrorHandled, PrepareHandled, BuildHandled,
   SendHandled, OverHandled
DEF Handle

-----------------------------------------------------------------------------
LEMMA InitIInv == Init => IInv
<1> SUFFICES ASSUME Init PROVE IInv
  OBVIOUS
<1>1. LoopInv /\ \A c \in Conns : task[c].state = Quit /\ client[c] = NoClient
  BY InitLoopInv DEF Init, LoopInit, NoTask
<1>2. NoClient \in Client
  BY BuffersAssumption DEF NoClient, Client, Statuses
<1>3. \A b : Good(Quit, b, NoClient)
  BY <1>2, Names DEF Good, NoClient, Holds, HttpStateNames
<1>4. client \in [Conns -> Client]
  BY <1>2 DEF Init
<1> QED BY <1>1, <1>3, <1>4 DEF IInv, ClientsAreGood

\* The loop moves no client to another state, save one it admits.
LEMMA UnmovedKeepsInv ==
  ASSUME IInv, LoopInv', client' = client,
         \A c \in Conns : task'[c].state = task[c].state /\ Entering(c)' = Entering(c)
  PROVE  IInv'
BY DEF IInv, ClientsAreGood

LEMMA LoopKeepsInv ==
  ASSUME IInv, Loop
  PROVE  IInv'
<1>1. LoopInv /\ current = NoConn /\ ~ stuck /\ client' = client
  BY DEF IInv, Loop
<1>2. \A c \in Conns : Entering(c) = FALSE
  BY <1>1, ConnsAssumption DEF Entering
<1>3. CASE Admit
  <2> DEFINE h == Head(backlog)
  <2>1. /\ LoopInv' /\ h \in Conns /\ ~ Live(h)
        /\ current' = h /\ event' = "ENTRY" /\ task' = [task EXCEPT ![h] = NewTask]
    BY <1>1, <1>3, AdmitLoopInv
  <2> HIDE DEF h
  <2>2. task \in [Conns -> Task] /\ task[h].state = Quit
    BY <1>1, <2>1 DEF LoopInv, LoopTypeOK, Live
  <2>3. task'[h].state = "accepted"
    BY <2>1, <2>2, NewTaskType, Names
  <2>4. client[h] \in Client /\ Good(Quit, Entering(h), client[h])
    BY <2>1, <2>2 DEF IInv, ClientsAreGood
  <2>5. \A b : Good("accepted", b, client[h])
    BY <2>4, Names DEF Good, HttpStateNames
  <2>6. ASSUME NEW d \in Conns, d # h PROVE Good(task'[d].state, Entering(d)', client[d])
    <3>1. task'[d] = task[d] /\ Entering(d)' = FALSE
      BY <2>1, <2>2, <2>6 DEF Entering
    <3>2. Good(task[d].state, Entering(d), client[d])
      BY DEF IInv, ClientsAreGood
    <3> QED BY <1>2, <3>1, <3>2
  <2> QED BY <1>1, <2>1, <2>3, <2>5, <2>6 DEF IInv, ClientsAreGood
<1>4. CASE Refuse
  <2>1. LoopInv' /\ UNCHANGED <<task, current, event>>
    BY <1>1, <1>4, RefuseLoopInv DEF Refuse
  <2> QED BY <1>1, <2>1, UnmovedKeepsInv DEF Entering
<1>5. ASSUME NEW c \in Conns, ReadEvent(c) \/ ClosedEvent(c) \/ PollEvent(c) \/ TimerEvent(c)
      PROVE  IInv'
  <2>1. PICK ev \in Events \ {"ENTRY"} : EventOf(c, ev)
    BY <1>5 DEF EventOf, Events
  <2>2. /\ LoopInv' /\ current' = c /\ event' = ev
        /\ \A d \in Conns \ {c} : task'[d] = task[d]
    BY <1>1, <2>1, EventLoopInv
  <2>3. task'[c].state = task[c].state
    <3>1. task \in [Conns -> Task]
      BY <1>1 DEF LoopInv, LoopTypeOK
    <3> QED BY <1>5, <3>1 DEF ReadEvent, ClosedEvent, PollEvent, TimerEvent, Throw, Task
  <2>4. \A d \in Conns : Entering(d)' = FALSE
    BY <2>2 DEF Entering
  <2> QED BY <1>1, <1>2, <2>2, <2>3, <2>4, UnmovedKeepsInv
<1>6. ASSUME NEW ms \in 1 .. Infinite, Elapse(ms), UNCHANGED <<peers, current, event, stuck>>
      PROVE  IInv'
  <2>1. ms \in Nat
    BY BoundsAssumption
  <2>2. LoopInv' /\ \A c \in Conns : task'[c].state = task[c].state
    BY <1>1, <1>6, <2>1, ElapseLoopInv
  <2> QED BY <1>1, <1>6, <2>2, UnmovedKeepsInv DEF Entering
<1> QED BY <1>3, <1>4, <1>5, <1>6 DEF Loop

LEMMA HandleKeepsInv ==
  ASSUME IInv, NEW c \in Conns, Handle(c)
  PROVE  IInv'
BY HandleHandled, DoneKeepsInv DEF Handled

LEMMA EnvironmentKeepsInv ==
  ASSUME IInv, Environment
  PROVE  IInv'
<1>1. PICK c \in Conns : PeerStep(c) /\ UNCHANGED <<task, current, event, stuck, client>>
  BY DEF Environment
<1>2. LoopInv'
  BY <1>1, PeerStepLoopInv DEF IInv
<1> QED BY <1>1, <1>2, UnmovedKeepsInv DEF Entering

LEMMA NextIInv == IInv /\ [Next]_vars => IInv'
<1> SUFFICES ASSUME IInv, [Next]_vars PROVE IInv'
  OBVIOUS
<1>1. CASE UNCHANGED vars
  <2>1. LoopInv'
    BY <1>1, NextLoopInv DEF IInv, vars
  <2> QED BY <1>1, <2>1, UnmovedKeepsInv DEF vars, loopVars, Entering
<1> QED BY <1>1, HandleKeepsInv, LoopKeepsInv, EnvironmentKeepsInv DEF Next

LEMMA SpecIInv == Spec => []IInv
BY InitIInv, NextIInv, PTL DEF Spec

-----------------------------------------------------------------------------
\* The countdowns, the counters of the window and the flags keep their types.
THEOREM ClientTypes == Spec => []TypeOK
<1>1. IInv => TypeOK
  BY DEF IInv, LoopInv, ClientsAreGood, TypeOK
<1> QED BY <1>1, SpecIInv, PTL

\* Through whatever state a client is left, nothing it held stays behind
\* (xxxws_client_cleanup).
THEOREM NoLeaks == Spec => []NothingLeaks
<1>1. ASSUME IInv PROVE NothingLeaks
  <2> SUFFICES ASSUME NEW c \in Conns
               PROVE  /\ task[c].state \in {Quit, "receive"} => ~ Holds(client[c])
                      /\ ~ Live(c) => client[c].heads = 0 /\ ~ client[c].tail
    BY DEF NothingLeaks
  <2>1. Good(task[c].state, Entering(c), client[c])
    BY <1>1 DEF IInv, ClientsAreGood
  <2> QED BY <2>1 DEF Good, Live
<1> QED BY <1>1, SpecIInv, PTL

\* The callback that configure leaves with a page is owed exactly as long as the mvc
\* holds it, and no longer than its request, whatever the handlers, the peer and the
\* clock do.  Nothing is said of those that configure forgets (mvc.c:39 and 44-48).
THEOREM CallbackOnce == Spec => []CallbackIsCalled
<1>1. ASSUME IInv PROVE CallbackIsCalled
  <2> SUFFICES ASSUME NEW c \in Conns
               PROVE  /\ client[c].owed <=> client[c].mvc /\ client[c].cb
                      /\ task[c].state \in {Quit, "receive"} => ~ client[c].owed
    BY DEF CallbackIsCalled
  <2>1. Good(task[c].state, Entering(c), client[c])
    BY <1>1 DEF IInv, ClientsAreGood
  <2> QED BY <2>1 DEF Good, Holds
<1> QED BY <1>1, SpecIInv, PTL

\* No handler's assertion fails.
THEOREM HandlersAssert == Spec => []HandlerAssertions
<1>1. ASSUME IInv PROVE HandlerAssertions
  <2> SUFFICES ASSUME NEW c \in Conns
               PROVE  LET k == client[c] IN
                 /\ Runs(c, "error", "ENTRY") => k.status # 200
                 /\ Runs(c, "error", "POLL") => ~ k.mvc /\ ~ k.resource
                 /\ Runs(c, "prepare", "POLL") => ~ k.resource /\ (k.mvc \/ k.url)
                 /\ Runs(c, "send", "POLL") /\ k.size > k.len => k.resource
    BY DEF HandlerAssertions
  <2> DEFINE k == client[c]
  <2>1. ASSUME Runs(c, "error", "ENTRY") PROVE k.status # 200
    BY <1>1, <2>1, Running DEF Good
  <2>2. ASSUME Runs(c, "error", "POLL") PROVE ~ k.mvc /\ ~ k.resource
    BY <1>1, <2>2, Running DEF Good
  <2>3. ASSUME Runs(c, "prepare", "POLL") PROVE ~ k.resource /\ (k.mvc \/ k.url)
    BY <1>1, <2>3, Running DEF Good
  <2>4. ASSUME Runs(c, "send", "POLL"), k.size > k.len PROVE k.resource
    <3>1. /\ k.pos <= k.file_size /\ (k.file_size # 0 => k.resource)
          /\ k.size = (k.file_size - k.pos) + k.len /\ k \in Client
      BY <1>1, <2>4, Running DEF Good
    <3>2. \A i, j, n \in Nat : (j - i) + n > n => j # 0
      OBVIOUS
    <3>3. k.pos \in Nat /\ k.file_size \in Nat /\ k.len \in Nat
      BY <3>1 DEF Client
    <3>4. k.file_size # 0
      BY <2>4, <3>1, <3>2, <3>3
    <3> QED BY <3>1, <3>4
  <2> QED BY <2>1, <2>2, <2>3, <2>4
<1> QED BY <1>1, SpecIInv, PTL

\* What is left of a response is what is left of its file and what the buffer holds,
\* and it is nothing when the next request is taken.
THEOREM ResponsesAreWhole == Spec => []BytesAddUp
<1>1. ASSUME IInv PROVE BytesAddUp
  <2> SUFFICES ASSUME NEW c \in Conns
               PROVE  LET k == client[c] IN
                 /\ task[c].state = "send" => k.size = (k.file_size - k.pos) + k.len
                 /\ task[c].state = "keepalive" => k.size = 0 /\ k.pos = k.file_size /\ ~ k.buf
    BY DEF BytesAddUp
  <2>1. Good(task[c].state, Entering(c), client[c])
    BY <1>1 DEF IInv, ClientsAreGood
  <2> QED BY <2>1 DEF Good
<1> QED BY <1>1, SpecIInv, PTL

-----------------------------------------------------------------------------
LEMMA NextIsLoopNext == IInv /\ [Next]_vars => [LoopNext]_loopVars
<1> SUFFICES ASSUME IInv, [Next]_vars PROVE [LoopNext]_loopVars
  OBVIOUS
<1>1. CASE UNCHANGED vars
  BY <1>1 DEF vars
<1>2. ASSUME NEW c \in Conns, Handle(c) PROVE LoopNext
  <2>1. current = c /\ ~ stuck /\ c # NoConn
    BY <1>2, HandleHandled, ConnsAssumption DEF Handled
  <2>2. PICK k \in Client, e \in Asks(c) : Done(c, k, e)
    BY <1>2, HandleHandled DEF Handled
  <2>3. e \in HandlerEffects /\ Settle(c, e)
    BY <2>1, <2>2, AsksIsEffects DEF Done
  <2>4. Return
    BY <2>1, <2>3 DEF Return, HandlerEffects
  <2> QED BY <2>1, <2>4 DEF LoopNext
<1>3. CASE Loop
  <2>1. 1 .. Infinite \subseteq 0 .. Infinite
    OBVIOUS
  <2>2. ~ stuck /\ current = NoConn /\ Server
    BY <1>3, <2>1 DEF Loop, Server
  <2> QED BY <2>2 DEF LoopNext
<1>4. CASE Environment
  BY <1>4 DEF Environment, LoopNext
<1> QED BY <1>1, <1>2, <1>3, <1>4 DEF Next

\* The handlers of the code ask of the scheduler what HttpStates lists and nothing
\* else: they are state machines the loop may be run with.
THEOREM HandlersKeepToTheLoop == Spec => LoopSpec
<1>1. Init => LoopInit
  BY DEF Init
<1> QED BY <1>1, NextIsLoopNext, SpecIInv, PTL DEF Spec, LoopSpec

-----------------------------------------------------------------------------
\* The exchanges of all connections, as HttpClient substitutes them.
Exchanging == [c \in Conns |-> ExchangeOf(task[c].state, client[c])]

LEMMA ServiceNextIs ==
  ASSUME NEW c \in Conns, Service!Change(Exchanging[c], Exchanging'[c]),
         Exchanging' = [Exchanging EXCEPT ![c] = Exchanging'[c]]
  PROVE  Service!Next
BY DEF Service!Next, Exchanging

LEMMA HandleIsExchange ==
  ASSUME IInv, NEW c \in Conns, Handle(c)
  PROVE  Service!Next \/ Exchanging' = Exchanging
<1>1. current = c
  BY HandleHandled DEF Handled
<1>2. PICK k \in Client, e \in Asks(c) :
        Done(c, k, e) /\ Keeping(task[c].state, client[c], e.next, k)
  BY HandleHandled DEF Handled
<1>3. e \in HandlerEffects /\ Settle(c, e) /\ client' = [client EXCEPT ![c] = k]
  BY <1>1, <1>2, AsksIsEffects DEF Done
<1>4. task'[c].state = e.next /\ \A d \in Conns \ {c} : task'[d] = task[d]
  BY <1>1, <1>3, SettleLoopInv DEF IInv
<1>5. client'[c] = k /\ \A d \in Conns \ {c} : client'[d] = client[d]
  BY <1>3 DEF IInv, ClientsAreGood
<1> DEFINE x == ExchangeOf(task[c].state, client[c])
           y == ExchangeOf(e.next, k)
<1>6. Exchanging[c] = x /\ Exchanging'[c] = y
  BY <1>4, <1>5 DEF Exchanging
<1>7. \A d \in Conns \ {c} : Exchanging'[d] = Exchanging[d]
  BY <1>4, <1>5 DEF Exchanging
<1>8. /\ Exchanging = [d \in Conns |-> Exchanging[d]]
      /\ Exchanging' = [d \in Conns |-> Exchanging'[d]]
  BY DEF Exchanging
<1>9. y = x \/ Service!Change(x, y)
  BY <1>2 DEF Keeping
<1> HIDE DEF x, y
<1>10. CASE y = x
  BY <1>6, <1>7, <1>8, <1>10
<1>11. CASE Service!Change(x, y)
  <2>1. Exchanging' = [Exchanging EXCEPT ![c] = Exchanging'[c]]
    BY <1>7, <1>8
  <2> QED BY <1>6, <1>11, <2>1, ServiceNextIs
<1> QED BY <1>9, <1>10, <1>11

\* What the loop does, a connection's peer does not see: a client it admits waits
\* for its state machine to begin.
LEMMA LoopIsSilent ==
  ASSUME IInv, Loop \/ Environment \/ UNCHANGED vars
  PROVE  Exchanging' = Exchanging
<1>1. client' = client /\ LoopInv
  BY DEF Loop, Environment, vars, IInv
<1>2. CASE Loop /\ Admit
  <2> DEFINE h == Head(backlog)
  <2>1. /\ h \in Conns /\ ~ Live(h) /\ task' = [task EXCEPT ![h] = NewTask]
    BY <1>1, <1>2, AdmitLoopInv DEF Loop
  <2> HIDE DEF h
  <2>2. task \in [Conns -> Task] /\ task[h].state = Quit
    BY <1>1, <2>1 DEF LoopInv, LoopTypeOK, Live
  <2>3. task'[h].state = "accepted" /\ \A d \in Conns \ {h} : task'[d] = task[d]
    BY <2>1, <2>2, NewTaskType, Names
  <2>4. \A k : ExchangeOf("accepted", k) = ExchangeOf(Quit, k)
    <3>1. PhaseOf("accepted") = PhaseOf(Quit)
      BY DEF PhaseOf
    <3> QED BY <3>1 DEF ExchangeOf
  <2>5. \A d \in Conns :
          ExchangeOf(task'[d].state, client[d]) = ExchangeOf(task[d].state, client[d])
    BY <2>2, <2>3, <2>4
  <2> QED BY <1>1, <2>5 DEF Exchanging
<1>3. ASSUME \A d \in Conns : task'[d].state = task[d].state PROVE Exchanging' = Exchanging
  BY <1>1, <1>3 DEF Exchanging
<1>4. CASE Loop /\ Refuse
  BY <1>3, <1>4 DEF Refuse
<1>5. ASSUME NEW c \in Conns, ReadEvent(c) \/ ClosedEvent(c) \/ PollEvent(c) \/ TimerEvent(c)
      PROVE  Exchanging' = Exchanging
  <2>1. task \in [Conns -> Task]
    BY <1>1 DEF LoopInv, LoopTypeOK
  <2>2. \A d \in Conns : task'[d].state = task[d].state
    BY <1>5, <2>1 DEF ReadEvent, ClosedEvent, PollEvent, TimerEvent, Throw, Task
  <2> QED BY <1>3, <2>2
<1>6. ASSUME NEW ms \in 1 .. Infinite, Elapse(ms), UNCHANGED <<peers, current, event, stuck>>
      PROVE  Exchanging' = Exchanging
  <2>1. \A d \in Conns : task'[d].state = task[d].state
    BY <1>1, <1>6, BoundsAssumption, ElapseLoopInv
  <2> QED BY <1>3, <2>1
<1>7. CASE Environment \/ UNCHANGED vars
  BY <1>3, <1>7 DEF Environment, vars, loopVars
<1> QED BY <1>2, <1>4, <1>5, <1>6, <1>7 DEF Loop

\* The state machine keeps what a connection promises: one whole response for each
\* request before the next is taken, the controllers asked once and their callback
\* called once, and no request after one whose end is not known.
THEOREM ClientKeepsItsPromise == Spec => ExchangeSpec
<1>1. ASSUME Init PROVE Service!Init
  <2>1. \A c \in Conns : task[c].state = Quit /\ client[c] = NoClient
    BY <1>1 DEF Init, LoopInit, NoTask
  <2>2. ExchangeOf(Quit, NoClient) = Service!Gone
    <3> DEFINE y == ExchangeOf(Quit, NoClient)
               g == Service!Gone
    <3>1. PhaseOf(Quit) = "gone"
      BY DEF PhaseOf
    <3>2. /\ y \in ExchangeType /\ y.phase = "gone" /\ y.asked = FALSE /\ y.owed = FALSE
          /\ y.last = FALSE /\ y.left = 0
      BY <3>1 DEF ExchangeOf, ExchangeType, Phases
    <3>3. /\ g \in ExchangeType /\ g.phase = "gone" /\ g.asked = FALSE /\ g.owed = FALSE
          /\ g.last = FALSE /\ g.left = 0
      BY DEF Service!Gone, Service!Idle, ExchangeType, Phases
    <3> HIDE DEF y, g
    <3>4. y = g
      BY <3>2, <3>3 DEF ExchangeType
    <3> QED BY <3>4 DEF y, g
  <2> QED BY <2>1, <2>2 DEF Service!Init
<1>2. IInv /\ [Next]_vars => Service!Next \/ Exchanging' = Exchanging
  BY HandleIsExchange, LoopIsSilent DEF Next
<1>3. IInv /\ [Next]_vars => [Service!Next]_Exchanging
  BY <1>2
<1> QED BY <1>1, <1>3, SpecIInv, PTL DEF Spec, ExchangeSpec, Service!Spec, Exchanging

=============================================================================
