-------------------------------- MODULE Mvc ---------------------------------
(***************************************************************************)
(* mvc.c under one client: xxxws_mvc_configure runs the controller of the  *)
(* requested url, then that of the view it set, and so on; controllers are *)
(* the application's, and call set_view, attribute_set and                 *)
(* completed_cb_set as they like before they return.  Any malloc may fail. *)
(*                                                                         *)
(* live counts the blocks of memory allocated; finished, said and promised *)
(* are not the code's: they remember which controllers returned OK in this *)
(* request, which attributes the last one called has set, and the data of  *)
(* the application that waits for its callback.                            *)
(***************************************************************************)
EXTENDS Naturals, FiniteSets, SequencesExt

CONSTANTS
  Urls,         \* of pages, in the canonical form
  Controllers,  \* the urls with a controller
  Views,        \* for each controller, the urls it may set as view
  Names,        \* of attributes
  Values,
  Cookies,      \* what completed_cb_set is given as data
  MaxCalls,     \* bound: calls a controller makes before it returns
  None          \* NULL

\* xxxws_mvc_t, and its list of attributes.
Attribute == [name : Names, value : Values]
MvcBlock ==
  [view : Urls \cup {None}, attributes : Seq(Attribute), completed : BOOLEAN,
   data : Cookies \cup {None}]

ASSUME MvcAssumption ==
  /\ Controllers \subseteq Urls
  /\ Views \in [Controllers -> SUBSET Urls]
  /\ None \notin Urls \cup Names \cup Values \cup MvcBlock
  /\ MaxCalls \in Nat

VARIABLES
  pc,       \* where configure is; "idle" before it and between its retries
  url,      \* client->httpreq.url
  mvc,      \* client->mvc: None, or its view, attributes and callback
  live, calls, finished, said, promised

vars == <<pc, url, mvc, live, calls, finished, said, promised>>

Empty == [view |-> None, attributes |-> <<>>, completed |-> FALSE, data |-> None]
Silent == [n \in Names |-> None]

Init ==
  /\ pc = "idle" /\ url = None /\ mvc = None
  /\ live = 0 /\ calls = 0
  /\ finished = {} /\ said = Silent /\ promised = None

Block(pointer) == IF pointer = None THEN 0 ELSE 1

\* The blocks that the free functions of the client will find.
Held(m) ==
  IF m = None THEN 0 ELSE 1 + Block(m.view) + 3 * Len(m.attributes)

\* xxxws_mvc_release: the blocks left after it.
Release(m) == live - Held(m)

\* headers_parse has copied the url of the next request.
Request(u) ==
  /\ pc = "idle" /\ url = None
  /\ url' = u /\ live' = live + 1
  /\ finished' = {}
  /\ UNCHANGED <<pc, mvc, calls, said, promised>>

\* configure is called, again if it returned POLL, and gets an empty mvc; when
\* there is no memory for that it returns POLL and nothing has changed.
Configure ==
  /\ pc = "idle" /\ url # None
  /\ pc' = "lookup"
  /\ mvc' = Empty /\ live' = live + 1
  /\ UNCHANGED <<url, calls, finished, said, promised>>

\* The client leaves while configure is to be retried, and its url is freed.
Abandon ==
  /\ pc = "idle" /\ url # None
  /\ url' = None /\ live' = live - 1
  /\ UNCHANGED <<pc, mvc, calls, finished, said, promised>>

\* The end of configure: the url is handed to the mvc as its view.
Finish(m) ==
  /\ pc' = "done"
  /\ mvc' = [m EXCEPT !.view = url]
  /\ url' = None

\* No controller has the url.
NoController ==
  /\ pc = "lookup" /\ url \notin Controllers
  /\ Finish(mvc)
  /\ UNCHANGED <<live, calls, finished, said, promised>>

\* Bug: the data of the controller before it is cleared with its callback, and not
\* asserted to be none.
Bug_Call ==
  /\ pc = "lookup" /\ url \in Controllers
  /\ IF mvc.view = None /\ mvc.attributes = <<>>
       THEN pc' = "call" ELSE pc' = "failed"
  /\ mvc' = [mvc EXCEPT !.completed = FALSE, !.data = None]
  /\ calls' = 0 /\ said' = Silent
  /\ UNCHANGED <<url, live, finished, promised>>

\* The controller is called with an empty mvc, by three assertions; a callback
\* without data that the controller before it has registered is forgotten.
Call ==
  /\ pc = "lookup" /\ url \in Controllers
  /\ IF mvc.view = None /\ mvc.attributes = <<>> /\ mvc.data = None
       THEN pc' = "call" ELSE pc' = "failed"
  /\ mvc' = [mvc EXCEPT !.completed = FALSE]
  /\ calls' = 0 /\ said' = Silent
  /\ UNCHANGED <<url, live, finished, promised>>

InController == pc = "call" /\ calls < MaxCalls /\ calls' = calls + 1

\* Bug: the view that is replaced is not freed.
Bug_SetView(v) ==
  /\ \/ mvc' = [mvc EXCEPT !.view = v] /\ live' = live + 1
     \/ mvc' = [mvc EXCEPT !.view = None] /\ live' = live
  /\ UNCHANGED <<url, pc, finished, said, promised>>

\* xxxws_mvc_set_view: the old view is freed first, so that a failing malloc
\* leaves none.
SetView(v) ==
  /\ \/ mvc' = [mvc EXCEPT !.view = v] /\ live' = live - Block(mvc.view) + 1
     \/ mvc' = [mvc EXCEPT !.view = None] /\ live' = live - Block(mvc.view)
  /\ UNCHANGED <<url, pc, finished, said, promised>>

\* Bug: an attribute set again is found behind its old value.
Bug_SetAttribute(name, value) ==
  /\ mvc' = [mvc EXCEPT !.attributes = Append(@, [name |-> name, value |-> value])]
  /\ live' = live + 3
  /\ said' = [said EXCEPT ![name] = value]
  /\ UNCHANGED <<url, pc, finished, promised>>

\* xxxws_mvc_attribute_set: three blocks, or none of them and nothing set.
SetAttribute(name, value) ==
  /\ mvc' = [mvc EXCEPT !.attributes = <<[name |-> name, value |-> value]>> \o @]
  /\ live' = live + 3
  /\ said' = [said EXCEPT ![name] = value]
  /\ UNCHANGED <<url, pc, finished, promised>>

\* xxxws_mvc_completed_cb_set: it replaces what the controller has set before, which
\* is then for the controller to release.
SetCallback(data) ==
  /\ mvc' = [mvc EXCEPT !.completed = TRUE, !.data = data]
  /\ promised' = data
  /\ UNCHANGED <<url, pc, live, finished, said>>

\* The controller returns POLL or FATAL.  The url stays that of this controller,
\* so that a retry begins with it.  (FATAL ends the request: Abandon.)
Fails ==
  /\ pc = "call"
  /\ IF mvc.data # None THEN pc' = "failed" /\ UNCHANGED <<mvc, live>>
     ELSE pc' = "idle" /\ mvc' = None /\ live' = Release(mvc)
  /\ UNCHANGED <<url, calls, finished, said, promised>>

\* It returns OK and has set no view.
Keeps ==
  /\ pc = "call" /\ mvc.view = None
  /\ Finish(mvc)
  /\ finished' = finished \cup {url}
  /\ UNCHANGED <<live, calls, said, promised>>

\* Bug: a controller that set its own url as view is looked up again.
Bug_SetItself ==
  /\ pc = "call" /\ mvc.view = url
  /\ pc' = "lookup"
  /\ mvc' = [mvc EXCEPT !.view = None, !.attributes = <<>>]
  /\ live' = live - 1 - 3 * Len(mvc.attributes)
  /\ UNCHANGED <<url, calls, finished, said, promised>>

\* It returns OK and has set its own url as view, which is freed.
SetsItself ==
  /\ pc = "call" /\ mvc.view = url
  /\ Finish(mvc) /\ live' = live - 1
  /\ finished' = finished \cup {url}
  /\ UNCHANGED <<calls, said, promised>>

\* Bug: the view of a controller is shown without a look for its own controller.
Bug_Forwards ==
  /\ pc = "call" /\ mvc.view \notin {None, url}
  /\ pc' = "done" /\ url' = None
  /\ mvc' = [mvc EXCEPT !.attributes = <<>>]
  /\ live' = live - 1 - 3 * Len(mvc.attributes)
  /\ finished' = finished \cup {url}
  /\ UNCHANGED <<calls, said, promised>>

\* Bug: the chain is left for a retry before the url is set, so that the retry
\* begins with the controller that has just run.
Bug_ForwardsBack ==
  /\ pc = "call" /\ mvc.view \notin {None, url}
  /\ pc' = "idle"
  /\ mvc' = None /\ live' = Release(mvc) /\ promised' = None
  /\ finished' = finished \cup {url}
  /\ UNCHANGED <<url, calls, said>>

\* It returns OK and has set another view: that becomes the url, the attributes
\* are freed, and the loop goes on.
Forwards ==
  /\ pc = "call" /\ mvc.view \notin {None, url}
  /\ pc' = "lookup"
  /\ url' = mvc.view
  /\ mvc' = [mvc EXCEPT !.view = None, !.attributes = <<>>]
  /\ live' = live - 1 - 3 * Len(mvc.attributes)
  /\ finished' = finished \cup {url}
  /\ UNCHANGED <<calls, said, promised>>

\* The response is finished: the callback is taken out and called with the data,
\* and the cleanup releases the mvc.
Dispose ==
  /\ pc = "done"
  /\ pc' = "idle"
  /\ mvc' = None /\ live' = Release(mvc)
  /\ promised' = None
  /\ UNCHANGED <<url, calls, finished, said>>

\* One of the calls a controller makes.
ControllerCalls ==
  /\ InController
  /\ \/ \E v \in Views[url] : SetView(v)
     \/ \E name \in Names, value \in Values : SetAttribute(name, value)
     \/ \E data \in Cookies : SetCallback(data)

Next ==
  \/ \E u \in Urls : Request(u)
  \/ Configure \/ Abandon \/ NoController \/ Call \/ ControllerCalls
  \/ Fails \/ Keeps \/ SetsItself \/ Forwards \/ Dispose

Spec == Init /\ [][Next]_vars

\* configure is one call of one thread, and controllers return.
FairSpec == Spec /\ WF_vars(pc # "idle" /\ Next)

-----------------------------------------------------------------------------
\* xxxws_mvc_attribute_get: the value of the first attribute with the name.
AttributeGet(name) ==
  LET found == SelectInSeq(mvc.attributes, LAMBDA a : a.name = name)
  IN  IF found = 0 THEN None ELSE mvc.attributes[found].value

GetsWhatWasSaid == \A name \in Names : AttributeGet(name) = said[name]

\* Every block allocated is reachable from the client, once: no path of the chain,
\* of the hand-over of strings between url and view (mvc.c:67-69, 99-100) or of a
\* failing controller loses a block or frees one twice.
BlocksAreHeld == live = Block(url) + Held(mvc)

\* No page that has a controller is shown without it: it has run in this request
\* and returned OK, however long the chain and whatever was retried
\* (mvc.c:31-97).
ControllerRunsFirst ==
  (pc = "done" /\ mvc.view \in Controllers) => mvc.view \in finished

\* The views to which the controller of u may lead the chain; its own url ends it.
Leads(u) == Views[u] \ {u}

Closed(S) == \A u \in S \cap Controllers : Leads(u) \subseteq S

\* The chain may come from the controller of u to the url v.
Reaches(u, v) == \A S \in SUBSET Urls : Leads(u) \subseteq S /\ Closed(S) => v \in S

OnCycle(u) == Reaches(u, u)

\* A controller that returned OK is run again in the same request only when the
\* views of controllers lead back to it; a retry does not: it resumes the chain at
\* the controller that returned POLL (mvc.c:45-48 leaves httpreq.url as it is).
NoControllerTwice == pc = "call" /\ url \in finished => OnCycle(url)

\* A controller and the page of its url see the attributes of this controller, the
\* last value of each, and none of another controller or of a failed attempt.
AttributesAreItsOwn ==
  (pc = "call" \/ (pc = "done" /\ mvc.view \in finished)) => GetsWhatWasSaid

\* The data that a controller registers with a callback is not forgotten silently,
\* a "possible memory leak for the user" (mvc.c:41, 131): it stays in the mvc until
\* the callback is called with it, or an assertion stops the server, when its
\* controller fails (mvc.c:46) or forwards to another controller (mvc.c:88).  (What
\* is not kept there, and silently, is a callback without data.)
DataIsKept ==
  /\ promised = (IF mvc = None THEN None ELSE mvc.data)
  /\ pc = "failed" => promised # None
  /\ pc = "done" /\ promised # None => mvc.completed

\* The attributes a controller has set are there in the view it has set
\* (main.c:9-11, and controller1, main.c:24-29).
AttributesReachTheView == pc = "done" => GetsWhatWasSaid

\* configure returns, unless the views of controllers have led it in a circle: the
\* test that is to "avoid infinite loop if user returned a view equal to the one
\* requested" (mvc.c:59-61) breaks the chain only when a controller sets its own
\* url.  On a longer circle configure runs for as long as its controllers go round.
ConfigureReturns ==
  pc # "idle" ~>
    (pc \in {"idle", "done", "failed"} \/ (url \in finished /\ OnCycle(url)))
=============================================================================
