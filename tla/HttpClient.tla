----------------------------- MODULE HttpClient -----------------------------
(***************************************************************************)
(* The HTTP state machine of xxxws.c: one action per state and event, each *)
(* the whole handler and the cleanup, mvc, resource and buffer calls it    *)
(* makes.  The scheduler is the abstract one of EventLoop, so the handlers *)
(* are met with every order of events it allows, and their results must be *)
(* those HttpStates lists (LoopSpec).                                      *)
(*                                                                         *)
(* Any malloc may fail, any file may be missing or unreadable, and a write *)
(* may take less than it is given.  A handler that cannot go on backs off  *)
(* and is polled again.  Pointers are BOOLEANs: held or NULL.              *)
(***************************************************************************)
EXTENDS HttpStates

CONSTANTS
  MaxHeads,    \* bound: complete request heads a client may have buffered
  HeadLen,     \* bytes of a response head
  HeadBuf,     \* XXXWS_HTTP_RESPONSE_HEADER_MSG_BUF_SZ
  BodyBuf,     \* XXXWS_HTTP_RESPONSE_BODY_MSG_BUF_SZ
  FileSizes    \* sizes of the files that can be asked for

ASSUME BuffersAssumption ==
  /\ MaxHeads \in Nat \ {0} /\ HeadLen \in Nat \ {0} /\ BodyBuf \in Nat \ {0}
  /\ HeadBuf \in Nat /\ HeadLen <= HeadBuf /\ FileSizes \subseteq Nat

VARIABLE client   \* the xxxws_client_t of each task

vars == <<loopVars, client>>

\* What malloc gives and connection_accepted initialises.  The fields below the
\* line are not the code's: they remember what the properties speak of.
NoClient ==
  [heads |-> 0, tail |-> FALSE,     \* rcv_cbuf_list: complete heads, part of another
   req |-> FALSE, url |-> FALSE,    \* httpreq.cbuf_list and httpreq.url
   mvc |-> FALSE, cb |-> FALSE,     \* mvc, and mvc->completed_cb
   attributes |-> FALSE,            \* mvc->attributes
   resource |-> FALSE, pos |-> 0,   \* resource, and the position of its file
   buf |-> FALSE, room |-> 0, index |-> 0, len |-> 0,   \* httpresp.buf and its window
   size |-> 0, file_size |-> 0, status |-> 0,           \* httpresp
   keep |-> FALSE, pipe |-> FALSE,  \* keep_alive, http_pipelining_enabled
   \*----------------------------------------------------------------------
   owed |-> FALSE,     \* the callback left by the controllers was not called yet
   broken |-> FALSE]   \* a request whose end is not known was received

Init == LoopInit /\ client = [c \in Conns |-> NoClient]

-----------------------------------------------------------------------------
(* Handlers.                                                               *)

Runs(c, s, ev) == ~ stuck /\ current = c /\ event = ev /\ task[c].state = s

\* The handler leaves the client as k and asks the scheduler for e.
Done(c, k, e) == client' = [client EXCEPT ![c] = k] /\ Settle(c, e)

Goto(c, s) == Enter(s, task[c].poll, task[c].timer)

\* Bug: the interval doubles without end.
Bug_BackOff(c) == Stay(task[c].state, 2 * task[c].poll, task[c].timer)

BackOff(c) == Stay(task[c].state, Backoff(task[c].poll), task[c].timer)
Nothing(c) == Stay(task[c].state, task[c].poll, task[c].timer)

\* The entry of a state that works under a timer: it polls at once.
Arm(s) == Stay(s, 0, TimerOf(s))

\* xxxws_client_cleanup.
Released(k) == [k EXCEPT !.mvc = FALSE, !.cb = FALSE, !.attributes = FALSE, !.resource = FALSE,
                         !.pos = 0, !.buf = FALSE, !.req = FALSE, !.url = FALSE]

\* The callback is called.
Called(k) == [k EXCEPT !.owed = FALSE]

\* What error, keepalive and disconnect do on entry, each in a copy of its own: take
\* the callback out of the mvc, clean up, call it.
CleanUp(k) ==
  LET cb == k.mvc /\ k.cb
  IN  IF cb THEN Called(Released(k)) ELSE Released(k)

Accepted(c) ==
  /\ Runs(c, "accepted", "ENTRY")
  /\ Done(c, NoClient, Goto(c, "receive"))

\* The peer closed or a timer ran out, in any state that has a timer.
Leave(c) ==
  /\ \E s \in Timed, ev \in {"CLOSED", "TIMER"} : Runs(c, s, ev)
  /\ Done(c, client[c], Goto(c, "disconnect"))

\* Input that arrives while a request is served waits in the task.
Ignore(c) ==
  /\ \E s \in Timed \ {"receive"} : Runs(c, s, "READ")
  /\ Done(c, client[c], Nothing(c))

-----------------------------------------------------------------------------
(* The request: received, split from what follows it, parsed.              *)

\* Heads and tail of the input after n more segments: each is part of a head, the
\* end of the one begun before, or whole heads and perhaps part of another.
Segments(in, n) ==
  {out \in (0 .. MaxHeads) \X BOOLEAN :
     \/ n = 0 /\ out = in
     \/ n > 0 /\ out = <<in[1], TRUE>>
     \/ n > 0 /\ out[1] > in[1] /\ (in[2] /\ n = 1 => out = <<in[1] + 1, FALSE>>)}

\* xxxws_schdlr_socket_read and xxxws_cbuf_list_append.
Appended(k, n) ==
  {[k EXCEPT !.heads = in[1], !.tail = in[2]] : in \in Segments(<<k.heads, k.tail>>, n)}

\* headers_received: wait for a head, or split the first from what follows it,
\* which takes memory when they share a cbuf.  e is the effect so far.
Search(c, k, e) ==
  \/ /\ k.heads = 0
     /\ Done(c, k, [e EXCEPT !.poll = Infinite])
  \/ /\ k.heads > 0
     /\ Done(c, [k EXCEPT !.heads = @ - 1, !.req = TRUE], [e EXCEPT !.next = "parse"])
  \/ /\ k.heads > 1 \/ (k.heads = 1 /\ k.tail)
     /\ Done(c, k, [e EXCEPT !.poll = Backoff(@)])

\* Bug: the response flags of the last request are kept.
Bug_ReceiveEntry(c) ==
  /\ Runs(c, "receive", "ENTRY")
  /\ \E k \in Appended([client[c] EXCEPT !.status = 0, !.keep = TRUE], task[c].cbufs) :
       Search(c, k, Taking(Arm("receive")))

ReceiveEntry(c) ==
  /\ Runs(c, "receive", "ENTRY")
  /\ \E k \in Appended([client[c] EXCEPT !.pipe = FALSE, !.status = 0, !.keep = TRUE],
                       task[c].cbufs) :
       Search(c, k, Taking(Arm("receive")))

ReceiveRead(c) ==
  /\ Runs(c, "receive", "READ")
  /\ \E k \in Appended(client[c], task[c].cbufs) :
       Search(c, k, Taking(Stay("receive", 0, task[c].timer)))

ReceivePoll(c) ==
  /\ Runs(c, "receive", "POLL")
  /\ Search(c, client[c], Nothing(c))

ParseEntry(c) ==
  /\ Runs(c, "parse", "ENTRY")
  /\ Done(c, client[c], Arm("parse"))

\* xxxws_http_request_headers_parse finds the method and copies the url.
Parsed(k) == [k EXCEPT !.url = TRUE]

\* body_len is always 0.
ParsePoll(c) ==
  /\ Runs(c, "parse", "POLL")
  /\ \/ Done(c, Parsed(client[c]), Goto(c, "prepare"))
     \/ Done(c, client[c], BackOff(c))
     \/ Done(c, [client[c] EXCEPT !.broken = TRUE], Goto(c, "error"))

-----------------------------------------------------------------------------
(* The response: an error page, or the resource the controllers chose.     *)

\* The connection is closed unless the end of the request is known.
ErrorEntry(c) ==
  /\ Runs(c, "error", "ENTRY")
  /\ LET k == CleanUp([client[c] EXCEPT !.status = IF @ = 0 THEN 500 ELSE @])
     IN  Done(c, [k EXCEPT !.keep = @ /\ k.pipe], Arm("error"))

\* xxxws_mvc_release of an mvc without a callback.
WithoutMvc(k) == [k EXCEPT !.mvc = FALSE, !.attributes = FALSE]

Opened(k, n) == [k EXCEPT !.resource = TRUE, !.pos = 0, !.file_size = n]

\* Bug: the empty mvc stays when the page cannot be opened yet.
Bug_ErrorPoll(c) ==
  /\ Runs(c, "error", "POLL")
  /\ LET k == [client[c] EXCEPT !.mvc = TRUE]
     IN  \/ \E n \in FileSizes : Done(c, Opened(k, n), Goto(c, "build"))
         \/ Done(c, k, BackOff(c))
         \/ Done(c, [WithoutMvc(k) EXCEPT !.file_size = 0], Goto(c, "build"))
         \/ Done(c, k, Goto(c, "disconnect"))

\* An empty mvc is made and the page of the status opened; or there is no
\* memory for one of them, or no such page, or it cannot be read.
ErrorPoll(c) ==
  /\ Runs(c, "error", "POLL")
  /\ LET k == [client[c] EXCEPT !.mvc = TRUE]
     IN  \/ \E n \in FileSizes : Done(c, Opened(k, n), Goto(c, "build"))
         \/ Done(c, WithoutMvc(k), BackOff(c))
         \/ Done(c, [WithoutMvc(k) EXCEPT !.file_size = 0], Goto(c, "build"))
         \/ Done(c, k, Goto(c, "disconnect"))

PrepareEntry(c) ==
  /\ Runs(c, "prepare", "ENTRY")
  /\ Done(c, [client[c] EXCEPT !.pipe = TRUE], Arm("prepare"))

\* xxxws_mvc_configure succeeds: the url becomes the view, the controllers may
\* have left attributes and a callback, and the head of the request is dropped.  What
\* a controller sets before the chain forwards or fails is forgotten inside (Mvc).
Configured(k, attributes, cb) ==
  [k EXCEPT !.mvc = TRUE, !.attributes = attributes, !.cb = cb, !.owed = cb,
            !.url = FALSE, !.req = FALSE]

\* Bug: the mvc is dropped when its resource cannot be opened yet.
Bug_OpenView(c, k) ==
  \/ \E n \in IF k.attributes THEN {0} ELSE FileSizes :
       Done(c, [Opened(k, n) EXCEPT !.status = 200], Goto(c, "build"))
  \/ Done(c, [WithoutMvc(k) EXCEPT !.url = TRUE, !.cb = FALSE], BackOff(c))
  \/ Done(c, [k EXCEPT !.status = 404], Goto(c, "error"))
  \/ Done(c, k, Goto(c, "error"))

\* xxxws_resource_open of the view, and the status.  The size of a page with
\* attributes is what a first reading of it yields, 0.
OpenView(c, k) ==
  \/ \E n \in IF k.attributes THEN {0} ELSE FileSizes :
       Done(c, [Opened(k, n) EXCEPT !.status = 200], Goto(c, "build"))
  \/ Done(c, k, BackOff(c))
  \/ Done(c, [k EXCEPT !.status = 404], Goto(c, "error"))
  \/ Done(c, k, Goto(c, "error"))

PreparePoll(c) ==
  /\ Runs(c, "prepare", "POLL")
  /\ IF client[c].mvc THEN OpenView(c, client[c])
     ELSE \/ Done(c, client[c], BackOff(c))
          \/ Done(c, client[c], Goto(c, "error"))
          \/ \E attributes, cb \in BOOLEAN : OpenView(c, Configured(client[c], attributes, cb))

BuildEntry(c) ==
  /\ Runs(c, "build", "ENTRY")
  /\ Done(c, client[c], Arm("build"))

\* xxxws_http_response_build writes the head, with the length of the file.
ResponseBuilt(k) == [k EXCEPT !.len = HeadLen, !.size = HeadLen + k.file_size]

\* The buffer has room for the head.
BuildPoll(c) ==
  /\ Runs(c, "build", "POLL")
  /\ \/ Done(c, client[c], BackOff(c))
     \/ LET k == [client[c] EXCEPT !.buf = TRUE, !.index = 0,
                                   !.room = IF BodyBuf < HeadBuf THEN HeadBuf ELSE BodyBuf]
        IN  Done(c, ResponseBuilt(k), Goto(c, "send"))

-----------------------------------------------------------------------------
(* Sending it.                                                             *)

SendEntry(c) ==
  /\ Runs(c, "send", "ENTRY")
  /\ Done(c, client[c], Arm("send"))

NewBuffer(k) ==
  IF k.buf THEN k ELSE [k EXCEPT !.buf = TRUE, !.index = 0, !.len = 0, !.room = BodyBuf]

\* Bug: a part of the response is read even if it has been buffered.
Bug_ToRead(k) == IF k.size < k.room - k.len THEN k.size ELSE k.room - k.len

\* How much is read: what is not in the buffer yet, if there is room.
ToRead(k) == IF k.size - k.len < k.room - k.len THEN k.size - k.len ELSE k.room - k.len

\* A file may be shorter than its size was: a read yields less, or nothing.
Filled(k) ==
  {[k EXCEPT !.len = @ + n, !.pos = @ + n] : n \in 0 .. ToRead(k)}

\* Bug: what is left of the response is not counted down.
Bug_Written(k) == {[k EXCEPT !.index = @ + n, !.len = @ - n, !.size = @ - k.len] : n \in 0 .. k.len}

\* A socket that would block takes nothing, and says OK.
Written(k) ==
  {[k EXCEPT !.index = @ + n, !.len = @ - n, !.size = @ - n] : n \in 0 .. k.len}

\* The buffer goes as soon as it is empty, and the state when all is sent.
Sent(c, k) ==
  LET next == IF k.size # 0 THEN Stay("send", 0, task[c].timer)
              ELSE IF k.keep /\ k.pipe THEN Goto(c, "keepalive") ELSE Goto(c, "disconnect")
  IN  Done(c, [k EXCEPT !.buf = k.len # 0], next)

SendPoll(c) ==
  /\ Runs(c, "send", "POLL")
  /\ \/ ~ client[c].buf /\ Done(c, client[c], BackOff(c))
     \/ LET k == NewBuffer(client[c])
        IN  \/ ToRead(k) > 0 /\ Done(c, k, Goto(c, "disconnect"))
            \/ \E r \in Filled(k) :
                 \/ \E w \in Written(r) : Sent(c, w)
                 \/ r.len > 0 /\ Done(c, r, Goto(c, "disconnect"))

Keepalive(c) ==
  /\ Runs(c, "keepalive", "ENTRY")
  /\ Done(c, CleanUp(client[c]), Goto(c, "receive"))

\* Bug: the input that was read and not used is kept.
Bug_Disconnect(c) ==
  /\ Runs(c, "disconnect", "ENTRY")
  /\ Done(c, CleanUp(client[c]), Goto(c, Quit))

Disconnect(c) ==
  /\ Runs(c, "disconnect", "ENTRY")
  /\ Done(c, [CleanUp(client[c]) EXCEPT !.heads = 0, !.tail = FALSE], Goto(c, Quit))

-----------------------------------------------------------------------------
Handle(c) ==
  \/ Accepted(c) \/ Leave(c) \/ Ignore(c)
  \/ ReceiveEntry(c) \/ ReceiveRead(c) \/ ReceivePoll(c)
  \/ ParseEntry(c) \/ ParsePoll(c)
  \/ ErrorEntry(c) \/ ErrorPoll(c)
  \/ PrepareEntry(c) \/ PreparePoll(c)
  \/ BuildEntry(c) \/ BuildPoll(c)
  \/ SendEntry(c) \/ SendPoll(c)
  \/ Keepalive(c) \/ Disconnect(c)

\* The scheduler, as EventLoop abstracts it; its own failures are Scheduler's.
Loop ==
  /\ ~ stuck /\ current = NoConn
  /\ \/ Admit \/ Refuse
     \/ \E c \in Conns : ReadEvent(c) \/ ClosedEvent(c) \/ PollEvent(c) \/ TimerEvent(c)
     \/ \E ms \in 1 .. Infinite : Elapse(ms) /\ UNCHANGED <<peers, current, event, stuck>>
  /\ UNCHANGED client

Environment ==
  \E c \in Conns : PeerStep(c) /\ UNCHANGED <<task, current, event, stuck, client>>

Next == (\E c \in Conns : Handle(c)) \/ Loop \/ Environment

Spec == Init /\ [][Next]_vars

-----------------------------------------------------------------------------
Statuses == {0, 200, 404, 500}

Client ==
  [heads : 0 .. MaxHeads, tail : BOOLEAN, req : BOOLEAN, url : BOOLEAN, mvc : BOOLEAN,
   cb : BOOLEAN, attributes : BOOLEAN, resource : BOOLEAN, pos : Nat, buf : BOOLEAN,
   room : Nat, index : Nat, len : Nat, size : Nat, file_size : Nat, status : Statuses,
   keep : BOOLEAN, pipe : BOOLEAN, owed : BOOLEAN, broken : BOOLEAN]

\* The types: of the countdowns, the counters of the window and the flags.
TypeOK == LoopTypeOK /\ client \in [Conns -> Client]

Holds(k) == k.req \/ k.url \/ k.mvc \/ k.resource \/ k.buf

\* Between two requests a client holds nothing but unread input, and a client
\* that is gone not even that, through whatever state and failure it left
\* (xxxws_client_cleanup, lines 944-988).
NothingLeaks ==
  \A c \in Conns :
    /\ task[c].state \in {Quit, "receive"} => ~ Holds(client[c])
    /\ ~ Live(c) => client[c].heads = 0 /\ ~ client[c].tail

\* The callback that xxxws_mvc_configure leaves with a page is called exactly once,
\* through every retry, failure, hangup and timeout of the states behind it: until
\* then the mvc holds it, and after that nobody does (lines 379-407, 827-852 and
\* 883-908).  The callbacks that configure itself forgets, when a controller forwards
\* or fails (mvc.c:39 and 44-48), are none of these.
CallbackIsCalled ==
  \A c \in Conns :
    /\ client[c].owed <=> client[c].mvc /\ client[c].cb
    /\ task[c].state \in {Quit, "receive"} => ~ client[c].owed

\* What the handlers assert of their client: error pages have an error status and
\* start from nothing (lines 373-374 and 424-425), a request is configured once
\* and has a url then (566, mvc.c:29), and a resource that has to be read is open (resource.c:317).
HandlerAssertions ==
  \A c \in Conns : LET k == client[c] IN
    /\ Runs(c, "error", "ENTRY") => k.status # 200
    /\ Runs(c, "error", "POLL") => ~ k.mvc /\ ~ k.resource
    /\ Runs(c, "prepare", "POLL") => ~ k.resource /\ (k.mvc \/ k.url)
    /\ Runs(c, "send", "POLL") /\ k.size > k.len => k.resource

\* No byte of a response is sent twice or left out: what was read and is not in
\* the buffer has been sent, and a client goes on to its next request when the
\* whole response, as long as its head announced, is out.
BytesAddUp ==
  \A c \in Conns : LET k == client[c] IN
    /\ task[c].state = "send" => k.size = (k.file_size - k.pos) + k.len
    /\ task[c].state = "keepalive" => k.size = 0 /\ k.pos = k.file_size /\ ~ k.buf

-----------------------------------------------------------------------------
PhaseOf(s) ==
  IF s \in {Quit, "accepted"} THEN "gone"
  ELSE IF s = "receive" THEN "idle"
  ELSE IF s \in {"parse", "prepare"} THEN "working"
  ELSE IF s = "error" THEN "failing"
  ELSE IF s = "build" THEN "answering"
  ELSE IF s \in {"send", "keepalive"} THEN "sending"
  ELSE "leaving"

ExchangeOf(s, k) ==
  LET p == PhaseOf(s)
  IN  [phase |-> p,
       asked |-> p = "working" /\ k.mvc,
       owed  |-> p # "gone" /\ k.owed,
       last  |-> p \in {"failing", "answering", "sending"} /\ k.broken,
       left  |-> IF p = "sending" THEN k.size ELSE 0]

Service == INSTANCE Exchange WITH
  Lengths <- {HeadLen + n : n \in FileSizes \cup {0}},
  exchange <- [c \in Conns |-> ExchangeOf(task[c].state, client[c])]

\* The states keep what a connection promises: one whole response for each request
\* before the next is taken, controllers asked once and the callback they leave called
\* once when it is over, through every failure and retry, and no request after one whose
\* end is not known (lines 409-416, 540-567, 784-811 and 827-920).
ExchangeSpec == Service!Spec

\* The response window stays within its buffer ("Current length, <= buf_size").
WindowFits == \A c \in Conns : client[c].buf => client[c].index + client[c].len <= client[c].room
=============================================================================
