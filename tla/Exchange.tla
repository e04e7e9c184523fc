------------------------------ MODULE Exchange ------------------------------
(***************************************************************************)
(* What a connection promises its peer and the application: requests are   *)
(* answered one at a time, each whole before the next one is taken; the    *)
(* controllers are asked once for each; a callback they leave is called    *)
(* once, when its request is over; and a request whose end is not known is *)
(* the last one.  HttpClient implements it.                                *)
(***************************************************************************)
EXTENDS Integers

CONSTANTS
  Conns,
  Lengths    \* what a response may be long

VARIABLE exchange

Idle == [phase |-> "idle", asked |-> FALSE, owed |-> FALSE, last |-> FALSE, left |-> 0]
Gone == [Idle EXCEPT !.phase = "gone"]

Init == exchange = [c \in Conns |-> Gone]

(* How the exchange of one connection may change, from x to y. *)

Accept(x, y) == x.phase = "gone" /\ y = Idle

\* A request is taken from the input.
Take(x, y) == x.phase = "idle" /\ y = [x EXCEPT !.phase = "working"]

\* The controllers are asked, or have been before; they may leave a callback.
Asked(x) ==
  IF x.asked THEN {x} ELSE {x, [x EXCEPT !.asked = TRUE], [x EXCEPT !.asked = TRUE, !.owed = TRUE]}

Ask(x, y) == x.phase = "working" /\ y \in Asked(x)

\* An answer is found.
Answer(x, y) ==
  /\ x.phase = "working"
  /\ \E z \in Asked(x) : z.asked /\ y = [z EXCEPT !.phase = "answering", !.asked = FALSE]

\* None is, or the request makes no sense.
Refuse(x, y) ==
  /\ x.phase = "working"
  /\ \E z \in Asked(x), last \in BOOLEAN :
       /\ last => ~ z.asked
       /\ y = [z EXCEPT !.phase = "failing", !.asked = FALSE, !.last = last]

\* The callback of a request that failed, and then an answer that says so.
GiveUp(x, y) == x.phase = "failing" /\ y = [x EXCEPT !.owed = FALSE]
Apologize(x, y) == x.phase = "failing" /\ ~ x.owed /\ y = [x EXCEPT !.phase = "answering"]

Begin(x, y) ==
  x.phase = "answering" /\ \E n \in Lengths : y = [x EXCEPT !.phase = "sending", !.left = n]

Send(x, y) == x.phase = "sending" /\ \E n \in 0 .. x.left : y = [x EXCEPT !.left = n]

\* All of it has been sent, and the callback is called.
Finish(x, y) == x.phase = "sending" /\ x.left = 0 /\ ~ x.last /\ y = Idle

\* The connection is given up, at any moment; a callback is called then too.
Leave(x, y) == x.phase # "gone" /\ y = [Gone EXCEPT !.phase = "leaving", !.owed = x.owed]
End(x, y) == x.phase = "leaving" /\ y = Gone

Change(x, y) ==
  \/ Accept(x, y) \/ Take(x, y) \/ Ask(x, y) \/ Answer(x, y) \/ Refuse(x, y) \/ GiveUp(x, y)
  \/ Apologize(x, y) \/ Begin(x, y) \/ Send(x, y) \/ Finish(x, y) \/ Leave(x, y) \/ End(x, y)

Next ==
  \E c \in Conns :
    /\ Change(exchange[c], exchange'[c])
    /\ exchange' = [exchange EXCEPT ![c] = exchange'[c]]

Spec == Init /\ [][Next]_exchange
=============================================================================
