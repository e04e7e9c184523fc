# Verification of xxxws

xxxws is a small HTTP server for embedded systems, written in C: one thread, no
blocking calls but `select`, clients as state machines that a scheduler runs one
event at a time. This directory holds TLA+ specifications of it, TLC
configurations that check them on small instances, and proofs that TLAPS checks
for every instance. `PROJECT.json` lists the runs, the mutants each property is
tried on, the map from definitions to source lines, the hazards and the theorems.

    tlc -config Scheduler.cfg MCScheduler.tla      # and the other runs below
    tlapm SchedulerProofs.tla                      # and the other *Proofs modules

## 1. Inventory

| part | source | state | operations |
|---|---|---|---|
| task scheduler | `scheduler.c` | ring of tasks (state, next state, timer and poll countdown, input buffers), read set and its statuses, current task, clock tic | `poll`, `exec` (read set, select, accept, read loop, sweep, rotation), `throw_event`, `calibrate`, `set_state*`, `socket_read` |
| HTTP client machine | `xxxws.c` | per client: unread input, request list, url, mvc, resource, response buffer and its window, flags | handlers of nine states for the events ENTRY, READ, CLOSED, POLL, TIMER; `client_cleanup` |
| requests, response heads | `http.c` | none of its own | `headers_received`, `headers_parse`, `response_build` |
| buffer lists | `cbuf.c` | linked lists of `len`/`data` windows | append, split, rechain, dropn, free, text searches (`strcmp`, `strcpy`, `strstr`) |
| model-view-controller | `mvc.c` | controllers; per client: view, attributes, completed callback | `configure` (runs the chain of controllers), `set_view`, `attribute_set`, `release` |
| resources | `resource.c` | open file; template reader: search buffer with two indices and a shadow, value being copied | open (measures dynamic pages), read, close; static and dynamic |
| RAM files | `fs_ram.c` | list of named nodes with reader and writer counts | fopen, fread, fwrite, fclose, fremove |
| os layer | `os.c` | closed flags of sockets, status and mode of files, bytes allocated | sockets, files of the partition a path names, malloc |
| port layer | `xxxws_port.c` | descriptors | Unix sockets, ROM and DISK files |
| demo | `main.c`, `xxxws_config.h` | | two controllers, the loop around `xxxws_poll` |
| statistics | `stats.c` | histories | called at every malloc, but both functions return at once |
| not part of the build, or data | `fs_str.c`, `fsdata.c` | | |

**How they interact.** `xxxws_poll` runs `exec` until its interval is used up.
`exec` asks `select`, accepts at most one connection, reads one buffer from every
ready client, then polls and times out every task. Each event is a direct call of
the function the task's `state` points to, with the task in a global. The handler
answers by setters: new countdowns, a new state, or NULL. `throw_event` settles
that after the call: it frees the client, or enters the new state by calling
*its* handler with ENTRY, and so on until a state stays. Handlers call down:
buffers, mvc (which calls the application's controllers), resources, files,
sockets, malloc. Nothing calls up except the completed callback.

**What is hard.** There is one thread, so there are no data races; but a handler may
destroy its task in the middle of loops over all tasks, and accept adds one. Peers
act at any moment. Any malloc may fail, and the answer to it is to back off and
be polled again, so every handler is re-entered with what it had already
acquired. Reads and writes are partial. Timers end everything. What must be
right:

* the ring keeps every task once; nothing freed is looked into; each task gets the
  select status of its own socket; nobody is skipped, starved or slept past;
* every state has a timer, so every state ends;
* a client frees what it acquired on every path, calls the callback that the
  controllers leave once, and sends each response whole, once, in order;
* what a controller registers with a callback is not forgotten in the chain, no
  controller is run again by a retry, and the chain ends unless it goes in a circle;
* a connection survives an error only if the end of the bad request is known;
* splitting and searching the input does not depend on where its buffers end;
* a resource is read as long as it was announced, from one file, and closed with
  everything it allocated.

## 2. Modules

    EventLoop            what the scheduler promises            (abstract)
      |-- Scheduler      the loop of scheduler.c                implements EventLoop
      |     |-- MCScheduler     with two-state clients
      |     |-- HttpServer      with the HTTP clients           (Scheduler + HttpStates)
      |     |     `-- HttpServerProofs
      |     `-- SchedulerProofs, EventLoopProofs
      `-- HttpStates     what HTTP handlers ask of the scheduler
            `-- HttpClient      the handlers of xxxws.c         implements EventLoop with
                  |                                             Effects = HttpEffects,
                  |                                             and Exchange
                  `-- HttpClientProofs
    Exchange             what a connection promises             (abstract)
    RequestStream        input without buffers                  (abstract)
    Cbuf                 the buffer lists (operators)
      `-- Requests       receive, parse, prepare on them        implements RequestStream
            |-- MCRequests
            `-- RequestsProofs        (with DataLemmas)
    Mvc                  the chain of controllers of mvc.c
      |-- MCMvc          with four controllers
      `-- MvcProofs
    FsRam                the RAM partition (operators)
      `-- Files          the files of os.c and of its three partitions
            `-- Template       the reader of pages with attributes
                  `-- Resources    resources of clients, files of the application
                        |-- MCResources
                        `-- ResourcesProofs       (with DataLemmas)
    DataLemmas           induction over data, facts on sequences

**EventLoop** has the tasks, the peers, and the current handler, and says which
events may reach a task and when. It does not say in which order they are looked
for. `Throw` is `throw_event` up to the call, `Settle` what it does after it, one
step per iteration of its loop; between the two, `current` and `event` hold the
call. What handlers do is the constant `Effects(state, event, poll, timer)`: a set
of records with the next state, the two countdowns and whether the input was
taken. So everything said of the scheduler holds for any handlers.

**Scheduler** is `poll`, `exec` and `calibrate` as they are written: one action per
iteration of each inner loop, `phase` the program point, `cursor` the local `task`,
`tasks` the ring as a sequence, `readset`/`status` without entry 0, which is
`listen`. A destroyed task stays in `tasks` with state `Quit` (its client freed)
until `SweepRemove`, as in the code. `Effects` is a parameter here too. The
constant `Faults` turns on failing allocations and a select or accept that
misreports.

**HttpStates** lists, for each state and event of `xxxws.c`, what its handler may
ask. **HttpClient** has the handlers: one action per state and event, each with
the calls the handler makes (cleanup, mvc, resource, buffers, socket), ending in
`Settle`. Its property `LoopSpec` says that the handlers ask only what HttpStates
lists, and that is what lets **HttpServer** run the concrete scheduler with the
table in place of the handlers. Data are abstracted to what the properties tell
apart: pointers are held or not, input is the number of complete heads and
whether a partial one follows, a response is its byte counts. Two fields of a
client are not the code's and only remember history (`owed`: the callback that configure
left with a page has not been called; `broken`). The callbacks that configure itself forgets are
Mvc's subject, not this module's. The three places where a request is finished
(`xxxws.c:386-407`, `834-852`, `883-920`) take the callback out, clean up and call it in the same
order, and share `CleanUp`; no property speaks of that order.

**Exchange** is the service of a connection without states or buffers: requests are
taken, the controllers are asked once, an answer of some length is sent whole, the
callback is called, and the next request is taken, unless the end of the last one is not
known. It is stated for one connection, as a relation between two records (`Change`), since
connections do not touch each other. `ExchangeOf` maps a state and its client to it.

**HttpServer** adds a clock of its own to the loop: `age`, the time since the exec began in
which a client's state was entered.

**Cbuf** has the list operations and the searches as operators, on lists of cbufs that are
sequences of bytes. `Rechain` measures what follows a cut by the first cbuf of the list, as
the code does, in 16 bits. **Requests** runs them in the order of the states: segments are
read into cbufs of their own, heads are found, split, searched for method and url, and
dropped or freed; what arrives meanwhile waits in the task. A word whose letters the code
does not tell apart is one byte. The peers send any text (`Scripts`): a head that is none is
refused, or stops the server at the assertion of `strcpy` (`UrlLost`), and a body is taken for
the next head, since `body_len` is always 0. The length of a head wraps at 2^16 (`headers_len`),
and a size of 0 fails the split. **RequestStream** is the same on one text; its `HeadLength`,
`Url` and `Named` say what a head is, `IsHead` which of them the server has to understand, and
`FlattenSeq` maps the lists to it.

**Mvc** looks into the call that HttpClient's `Configured` takes in one step: the loop
over controllers, with one action per outcome of a controller (`Fails`, `Keeps`,
`SetsItself`, `Forwards`) and the three calls it may make before (`SetView`,
`SetAttribute`, `SetCallback`), each with its failing malloc. `live` counts the blocks
allocated; `finished`, `said` and `promised` remember which controllers returned OK, what the
last one set, and the data that waits for its callback. `Views` is any relation: `Leads`,
`Reaches` and `OnCycle` say where a chain can go from a controller. Urls are in the form `set_view` stores ("/" replaced by the index page).

**FsRam**, **Files**, **Template** are operators: an operation is the set of its outcomes, with
the partition and the handle it leaves. fremove is modelled as it is: it unlinks and
returns FATAL, so that opening an existing file for writing does only that. `PartitionOf` and
`AbsPath` do to a path what os.c does. `read_dynamic` is the loop of the template reader on
its search buffer, one `Round` per iteration, and `Expanded` says what it is for. Opening a page
reads it to its end to measure it: a recursive function over the reads that this can take at
most (`Reads`, since a read that returns bytes takes them from the file or from a value).
**Resources** has the clients that open, read and close, and the application that opens,
writes, closes and removes files of its own; `heap` counts the blocks of each resource,
`seen` and `out` remember what was read. There are fewer than `MaxHandles` = 256 handles, so that
the one-byte counts of a node need no wrap in the model; `CountsNeverWrap` is the proof that they
need none.

Environment assumed by HttpClient: a head that began in an earlier segment ends
with its segment (`Segments`). Without it the split of `cbuf.c` fails, which the run
`cbuf_straddle` shows by itself.

## 3. Runs

| run | question | bounds |
|---|---|---|
| `scheduler` | do ring, read set and countdowns stay consistent, also when calls fail and the limit refuses peers, and does the loop implement EventLoop? | 3 peers (symmetric), limit 3, `Faults`, one segment in flight, interval and handler time of 1 ms, finite countdowns up to 2 |
| `scheduler_live` | does nobody starve, and does no assertion stop the server below its limit? | 2 peers, limit 3, no `Faults`, otherwise the same |
| `http_client` | do the handlers free, call back, count and time as they must, keep to HttpStates, and implement Exchange? | 1 client, 2 segments, 2 heads, files of 0 and 3 bytes, buffer of 2, head of 1 |
| `http_server` | does every state end, in its time, and no handler make the scheduler's assertions fail? | 1 client, timers of 3 and 4, backoff up to 2, 2 ms in handlers and application |
| `requests` | is what requests are found to be independent of segments and buffers, and is every url found? | seven texts of two or three heads: three kinds of requests, of 9, 11 and 15 bytes, a head without url, one without version, a body, an empty line too many; in segments of 1, 5, 12 and 20 |
| `mvc` | does configure free, resume and return, and keep the data of callbacks, for any controllers and failures? | 4 controllers: two in a row, and two that may lead to each other; each to itself; a page without one, 2 attributes, 2 values, callbacks with and without data, 3 calls per controller |
| `resources` | are handles and blocks accounted for, writers alone, readers given one file, as long as announced? | 2 clients, 1 handle of the application, 2 places for nodes, 6 paths over three partitions and none, files of up to 2 bytes, a page of 6, a search buffer of 9 |
| `scheduler_full`, `http_client_window`, `cbuf_straddle`, `mvc_attributes`, `resource_template` | findings, below | |

Why the bounds are enough: with two tasks the ring has a first, a last and an only
one, and the rotation an effect; one task can close or quit while the other is
behind it in the read loop, and be accepted while the other is read. The third
peer meets the limit. A countdown of 2 can be decremented without reaching 0. A
file of 3 bytes does not fit the buffer of 2, so it needs several reads, and one
byte of head leaves room to share the first buffer with the body. One client
suffices in `http_client` because clients share nothing but the memory, and a
malloc may fail there at any time. In `requests` a segment of 1 byte lets a pattern begin
and end anywhere in a list, one of 5 cuts it in the middle, one of 12 or 20 holds the
end of one request and the beginning of the next, or two whole ones, so that rechain cuts
before and after the middle of a cbuf. The texts that are no requests meet
each way out of `headers_parse`; a head of 2^16 bytes is beyond the run (section 5). In `mvc` a chain
has a first and a second controller off the circle and any number on it,
any of which may fail, and an attribute may be set twice among two. In `resources` two places are enough for a file that was unlinked while open and another
of its name, two readers for a count that is not 0 or 1. In `http_server` 2 ms for handlers and application tell what is
taken off once from what is taken off twice.

`CHECK_DEADLOCK FALSE` is used where the modelled system really stops: when the
server stops for lack of memory or at the assertion over the read set (`scheduler`),
when a peer has sent all its requests or a head has stopped the server (`requests`), at the
assertion that finds the data of a callback (`mvc`), and at the failed assertion of a seek
(`resources`).

**Fairness** (`FairSpec`). `WF(Step \/ Handle)`: the server is one thread that never
blocks but in `select`, which returns after its timeout at the latest. `SF(ClockMoves)`:
`calibrate` is reached again and again, and sooner or later finds that time has
passed since the tic it keeps; without it the interval of `xxxws_poll` would never be
used up. Nothing is assumed of the peers. `EveryStateEnds` has one client;
that a client's countdowns are not delayed for ever by others is
`CountdownsRun` of `scheduler_live`, with two. In Mvc, `WF` of the steps of configure: it
is one call, and controllers return (`MaxCalls`); that it is called, or called again,
is not assumed.

Every property of a passing run has a mutant: a `Bug_` operator next to the
definition it replaces, with which TLC finds the property violated.

## 4. Findings

* **The limit is one too high for the assertion** (`scheduler_full`). `accept` admits
  as many clients as `sizeof(readset)/sizeof(socket) - 1`; the loop that builds the
  read set asserts that the index is below the same number, with the listener counted.
  The server stops at the exec after its last place is taken.
* **The response window is not moved back** (`http_client_window`): after a partial
  write the next read is placed behind the end of the buffer; the step "Defrag" is
  empty.
* **A head that ends inside a later buffer is cut wrongly** (`cbuf_straddle`):
  `rechain` measures the rest by the first buffer of the list.
* **Attributes do not reach the view** (`mvc_attributes`): setting a view other than the
  requested page frees them, also in the demo's own controller.
* **Pages with attributes are empty** (`resource_template`): the template reader fills its
  buffer only when it has already moved in it. Without that condition (`resource.c:214`) it
  reads what `Expanded` says.

Seen on the way and modelled as they are, without a run of their own:

* When there is no memory for a cbuf, the loop stops for ever (`scheduler.c:268`); the comment under it
  describes a loop that goes on without sleeping.
* EV_POLL is thrown with the poll countdown at INFINITE, so a handler that backs off in
  it always waits the longest interval; `calibrate` takes the whole time of an exec
  off timers armed in the middle of it.
* A callback that a controller has registered is forgotten when this controller then forwards to
  another (`mvc.c:39`) or fails (`mvc.c:44-48`): it is not called. If it was registered with data,
  an assertion finds that (`mvc.c:41`, `131`), "possible memory leak for the user", and stops the
  server; `DataIsKept` says that data is never lost without that. Forwarding to a page
  without a controller keeps the callback.
* Controllers whose views lead back to each other keep `configure` in its loop for ever: the test
  that is to "avoid infinite loop" (`mvc.c:54-61`) compares the view with the last url only, not with
  the one requested. The run `mvc` has such a circle; `ConfigureReturns` and
  `NoControllerTwice` name it as the exception, and the first is false of the code without it.
* A head with a method and the version but no url, "GET HTTP/1.1", makes the indices of the url
  cross (`http.c:61-72`): unless the `malloc` of `index1 - index0 + ...` bytes fails, `strcpy`'s
  assertion `index0 <= index1` (`cbuf.c:210`) stops the server. With many blanks in
  front of the version the size is negative, taken as unsigned, and the malloc may fail until the timer
  of the state runs out. `UrlIsFound` bounds this to heads that are no requests.
* `headers_len` has 16 bits and the input no limit (`http.c:12`, `xxxws.c:115`): a head of 65536
  bytes or more is cut at its length modulo 65536, or stops the server at `assert(0)` (`cbuf.c:78`).
* The body of a POST is never read as one (`body_len` is 0): it is parsed as the beginning of the next head,
  which is then refused.
* `calibrate` reads the clock twice (`scheduler.c:408` and `413`): what passes between is taken off
  no countdown. The model has one reading (`Calibrate`), so `TimersAreKept` is exact but for that.
* `fremove` returns FATAL for a file it has found and unlinked, and never frees it, since
  its test for "File not found" is inverted (`fs_ram.c:259`); so an existing RAM file
  cannot be opened for writing.
* A seek to 0 in an empty RAM file fails the assertion at `fs_ram.c:142`: a client that opens one
  stops the server (`failed` in Resources).
* A path without its first slash finds its partition, but loses the first character of its name
  (`os.c:222`), and the absolute root that `xxxws_config.h:60-66` puts in front of the name is
  used nowhere.

## 5. Proofs

TLAPS checks, for every set of peers, limit, interval, handler time and every
handlers that satisfy the assumptions named in the modules:

* `EventLoopProofs!LoopSafety`: the abstract loop keeps its types, never has a task for
  a connection that waits, and leaves nothing of a destroyed task;
* `SchedulerProofs`: `TypeCorrect`, `RingIsSound`, `ClientsAreNotUsedFreed`,
  `StatusesMatch`, `ReadLoopIsComplete`, `SleepIsBounded`, `DestroyedStaysClean`: each
  safety property of the run `scheduler`;
* `ImplementsEventLoop`: every step of the concrete loop is a step of EventLoop or
  leaves its variables alone.

Assumptions: the constants have their types; INFINITE exceeds interval plus handler
time (`TimeAssumption`: the sum of one exec does not reach the reserved value);
handlers return what the types allow (`EffectsAssumption`); and the states that a new
connection goes through on ENTRY do not quit (`FreshAssumption`: in `xxxws.c`
accepted, receive and parse; if one did, `accept` would leave a dead task to the read
loop, which looks into its freed client).

**The argument.** The properties are not inductive by themselves. `IInv` adds what the
loops rely on silently:

* `ReadsetAligned`: what is left of the read set from `taskIndex` on is, in order, the
  open tasks of the ring from `cursor` on, up to the one task accepted since. Each
  ReadSkip, ReadQuiet and Read takes one from the front of both; a handler closes only
  the task the loop is at, and that one has just been passed. `ReadsItsOwnStatus` and
  `NobodySkipped` are its two ends. Outside the read loop it says how the
  read set is being built.
* `LiveAroundCursor` and `CallInLoop`: where in the ring a task may be dead, and for
  which task a handler may be running at which program point. Only the current task can
  die, so the sweep finds all dead tasks at its cursor.
* `SleepBelowCountdowns`: the sleep computed so far is below the countdowns of the tasks
  passed so far; `NoOversleep` is its end.
* `RingHoldsTheClients` with `IndicesInRange` and `ExecTypeOK` for the steps that change the
  sequence.

There is one lemma per action (and per conjunct it can disturb); the read set
lemmas speak of sequences `Without` an element and are stated once. The refinement
theorem uses `IInv` where a step needs it (a popped connection has no task, a
handler's countdowns are in range), and maps `Poll` and `Calibrate` to `Elapse`.

**The client.** `HttpClientProofs` proves, for any number of clients, any buffer, files, head
length and timers, each safety property of the run `http_client`: `ClientTypes`, `NoLeaks`,
`CallbackOnce`, `HandlersAssert`, `ResponsesAreWhole`; that the handlers
implement EventLoop with HttpStates (`HandlersKeepToTheLoop`); and that the machine implements
Exchange (`ClientKeepsItsPromise`). Assumed are the types of the constants, that the loop's
`Effects` are HttpEffects (`HttpAssumption`), that the timers are below INFINITE
(`TimersAssumption`) and that a buffer holds a head (`BuffersAssumption`).

The invariant is `LoopInv` of the abstract loop with `Good`: what the code of each state
relies on without looking. That depends on whether the state is about to be entered or was
entered before: error, for example, frees the mvc and the file when it is entered, and its
later polls assume that it did, while the states that lead to it leave them as they are.
`send` has the heart of it: what is left of the response is what is in the file behind its
position and what is in the buffer. There is one lemma per handler, which shows `Handled`:
the handler asked an effect that HttpStates lists, its client is good for the state it
asked for, and the exchange of its connection took a step or none. The three theorems about
invariants, loop and exchange follow from that and from one lemma on `Settle`.

**The server.** `HttpServerProofs!ServerNeverStops`: with any number of peers below `Cap`,
and no failing malloc, the server of HTTP clients never reaches the assertions and the endless
loop of `scheduler.c` (lines 116, 142, 268). The scheduler leaves to the handlers that a timer is
armed when `throw_event` returns; `TimersArmed` says that every client outside a handler is in
a state with a timer that runs, and inside one until the entry of a state or its timer. It rests
on `IInv` of the scheduler (a list of `Cap` tasks would need `Cap` peers, and a task in the
sweep is alive or has no timer). That the peers are fewer than `Cap` cannot be dropped:
`scheduler_full` reaches line 142 with as many.

**The chain of controllers.** `MvcProofs` proves the safety of `configure` for any controllers,
views, names, values and number of calls. `Ownership` says, for each point of the loop, which of
url, mvc, view and attributes are there, from which the number of live blocks follows;
`AttributesMatch` relates the list of attributes, of which the first of a name counts, to what
the controller said last. `DataInv` has the data that is promised in the mvc, together with its
callback, from its registration to the assertion or the call (`NoDataIsForgotten`);
`AssertionsHoldWithoutData` is its corollary for controllers that register none. `LedHere`: every
controller that has finished leads to the url, because the next url is always a view of the last
controller; so one that is called again is on a circle (`RepeatsAreOnCycles`), for any views.

**Its clock.** `HttpServerProofs!NoTimerIsMissed` is the timing of the server: a timer of a client
fires no earlier than it says and no state outlasts it by more than the handlers and the
application take once each, for any number of clients, any limit, and also when calls fail. Its
hypothesis `TimersOutlastPoll` is that `xxxws_poll` is not called for longer than a timer (`main.c`
has 3000 ms, the timers are 4000 and 5000): a state that is entered in an exec is charged all of
it, its sleep included. `TimesInv` says, by the phase of the loop, that countdown and age add up to the
timer while it runs (`OnTime`), that select's sleep is below it, and that the sweep leaves no
timer behind that has run out (`SweptRun`), which is why none has when `calibrate` is reached: the
overshoot of one exec is never added to that of another. It rests on `IInv` of the scheduler:
`NoOversleep` gives the sleep, `RingHoldsTheClients` that the sweep passes everybody.

**Files and resources.** `ResourcesProofs` proves every safety property of the run `resources`
for any number of clients, handles of the application, places for nodes, paths, contents,
attributes and sizes of chunks. Of the constants it assumes their types, that an application
has handles of its own, that there are fewer than 256 handles, and that no attribute is
longer than `MaxValue` (`FsRamAssumption`, `FilesAssumption`, `TemplateAssumption`,
`ResourcesAssumption`). `IInv` is `FilesOK` (handles are closed or have a file behind them and have
read it up to their position; linked nodes are there; names are unique; a file has a writer or
readers; its counts are the handles open on it) and `ClientsOK` (a resource has its handle, its
blocks, and has given what its handle has read). `Counting` is the lemma behind the counts: when
one handle moves, the sets of handles on every node change by it and by nothing else. Readers read
one file because a node is replaced by its content only through its writer, and it has no
reader then; a removed node is not reused while it is allocated. That what is announced is read
needs the whole loop of the template reader: with the condition at `resource.c:214` a reader
that starts empty is never filled (`Idle`), each of its calls ends with nothing, and so does the
measuring. That a page is then *copied* is false, which is the finding `resource_template`.

**Requests.** `RequestsProofs` proves `SplitsAtSize`, `SearchesAgree` and the refinement of
RequestStream, and `UrlIsFound`, for any text the peers send whose heads are shorter than 2^16 bytes
(`HeadsAreShort`), and any lengths of segments below `Width`. Its first half is about lists: the
byte at a place of a list is the byte of its text (`FlattenSeq`) at the index; `strcmp` and
`strstr`, which walk from cbuf to cbuf, therefore compare and find what the text has; rechaining
and splitting cut the text in two (`RechainIs`); what `http.c` finds in a head that begins as it
should is what `Named` says. Its `IInv` has, besides the types,

* `Closed`: a head that lies in several cbufs ends with one. That, and not luck, is why
  `rechain` cuts only the first cbuf of a list, which is the only one it measures correctly;
* `Narrow`: every cbuf is shorter than 2^16, so that the lengths of its parts do not wrap;
* `UnsentOK`: every head of what is received followed by what is unsent is shorter than 2^16;
* `RequestOK`: between receive and the end of prepare `size` is the length of the request's list;
* `StatesOK`: an assertion on a url has failed only for a head that is none (`IsHead`).

The theorems have the hypothesis `~ Straddle`, which is `Closed` for what arrives: a segment that
ends a head begun before it ends there. It cannot be dropped, since `cbuf_straddle` shows the
code failing without it; nor can `HeadsAreShort`, the other one, since `headers_len` has
16 bits: with it the remainder that `HeadersReceived` takes is the length. `RequestsAssumption` is
checked by TLC for the constants of the run. Every step is shown to be a step of RequestStream or none (`StepIs`), after
the invariant, which gives each step the text it works on.

**Induction over data.** The library's induction theorems take a predicate, which the backends
cannot instantiate. `DataLemmas` has the same over a *set* of numbers: a non-empty set has a least
element (`LeastIn`, from well-foundedness), a set closed under successor is Nat (`Inductive`), a
function given by its first value and a step exists and is unique (`Recursion`, `Agree`). So the
recursive functions here (`LenTo`, the walks of `cbuf.c`, the rounds of the template reader) are
proved about for data of any length; that is also why no module that is proved about
declares a recursive operator.

**Only model-checked.** Liveness, which is outside TLAPS's reach: the five properties of
`scheduler_live`, `EveryStateEnds` and `ConfigureReturns`. Every safety property and every refinement
of a passing run is also a theorem. Beyond the assumptions of the modules, hypotheses of single theorems
are `~ Straddle` and `HeadsAreShort` (RequestsProofs), `TimersOutlastPoll` (`NoTimerIsMissed`), a
finite number of peers below `Cap` and `~ Faults` (`ServerNeverStops`), and no data for callbacks
(`AssertionsHoldWithoutData`); sections 4 and 5 say what the code does without them.

## 6. Plan

1. *Mvc* as an implementation of HttpClient's `Configured`, and *Requests* of its receive and parse,
   so that their theorems apply to the machine as a whole.
2. A variant of the response window with the defragmentation the comment names, in which
   `WindowFits` holds, and of the template reader without its condition, with a proof that it
   reads what `Expanded` says.
3. A proof that the poll countdown at INFINITE bounds the backoff (`scheduler.c:353`).

## 7. Not modelled

* `body_receive` in `xxxws.c`: never entered (`body_len` is 0).
* The emulation of select, the Windows branches and the parts under `#if 0`: not compiled.
* The wrap of the 32-bit millisecond clock: a step of the clock is a difference.
* `stats.c`: its two functions return in their first line (`stats.c:13` and `118`).
* `fs_str.c` (not built), `fsdata.c` (the bytes of pages).
* The wording of the response head, except its length; the names of methods but those told apart.

Of the 23720 lines of the repository's sources 18270 are the generated arrays of `fsdata.c`; of
the rest, headers, logging, branches for other platforms and the parts above make up the
lines without a definition.
