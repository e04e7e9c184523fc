----------------------------- MODULE HttpStates -----------------------------
(***************************************************************************)
(* The states of an HTTP client of xxxws.c, as the scheduler sees them:    *)
(* what each handler may ask of its task.  HttpClient models the handlers  *)
(* themselves and keeps to this table; the scheduler is run with it.       *)
(*                                                                         *)
(* body_receive is not here: headers_received sets body_len to 0 and no    *)
(* code changes it, so its state is never entered.                         *)
(***************************************************************************)
EXTENDS EventLoop

CONSTANTS
  ReceiveTimer,   \* the timer of receive and parse, 4000 ms
  RespondTimer,   \* the timer of the states that answer, 5000 ms
  MaxBackoff      \* the longest polling interval, 512 ms

ASSUME TimersAssumption ==
  /\ ReceiveTimer \in 1 .. Infinite - 1 /\ RespondTimer \in 1 .. Infinite - 1
  /\ MaxBackoff \in 1 .. Infinite - 1

HttpStateNames == {"accepted", "receive", "parse", "error", "prepare", "build", "send",
                   "keepalive", "disconnect"}

\* xxxws_schdlr_set_state_poll_backoff.
Backoff(p) ==
  IF p = 0 THEN 1 ELSE IF p <= MaxBackoff \div 2 THEN 2 * p ELSE MaxBackoff

Stay(s, p, t) == [next |-> s, poll |-> p, timer |-> t, take |-> FALSE]
Enter(s, p, t) == Stay(s, p, t)
Taking(e) == [e EXCEPT !.take = TRUE]

\* The states that wait or work under a timer, and what a poll may lead to.
Follows ==
  {<<"receive", "parse">>, <<"parse", "prepare">>, <<"parse", "error">>,
   <<"error", "build">>, <<"error", "disconnect">>, <<"prepare", "build">>,
   <<"prepare", "error">>, <<"build", "send">>, <<"send", "keepalive">>,
   <<"send", "disconnect">>}
After(s) == {n \in HttpStateNames : <<s, n>> \in Follows}

Timed == {"receive", "parse", "error", "prepare", "build", "send"}
TimerOf(s) == IF s \in {"receive", "parse"} THEN ReceiveTimer ELSE RespondTimer

\* With p and t as they are when the handler is called.
OnPoll(s, p, t) ==
  {Enter(n, p, t) : n \in After(s)} \cup {Stay(s, Backoff(p), t)}
    \cup (IF s = "send" THEN {Stay(s, 0, t)} ELSE {})
    \cup (IF s = "receive" THEN {Stay(s, Infinite, t)} ELSE {})

\* receive looks for a request at once when it has taken its input.
OnInput(t) ==
  {Taking(e) : e \in {Enter("parse", 0, t), Stay("receive", Infinite, t),
                      Stay("receive", Backoff(0), t)}}

\* Bug: input starts the timer of receive again.
Bug_OnRead(s, p, t) == IF s = "receive" THEN OnInput(ReceiveTimer) ELSE {Stay(s, p, t)}

\* What follows a request is left in the task while it is served.
OnRead(s, p, t) == IF s = "receive" THEN OnInput(t) ELSE {Stay(s, p, t)}

\* A state begins with its timer and polls at once, or leaves at once.
OnEntry(s, p, t) ==
  IF s \in {"accepted", "keepalive"} THEN {Enter("receive", p, t)}
  ELSE IF s = "disconnect" THEN {Enter(Quit, p, t)}
  ELSE IF s = "receive" THEN OnInput(ReceiveTimer)
  ELSE {Stay(s, 0, TimerOf(s))}

HttpEffects(s, ev, p, t) ==
  IF ev = "ENTRY" THEN OnEntry(s, p, t)
  ELSE IF ~ s \in Timed THEN {}
  ELSE IF ev = "READ" THEN OnRead(s, p, t)
  ELSE IF ev = "POLL" THEN OnPoll(s, p, t)
  ELSE {Enter("disconnect", p, t)}

\* The parameters of the loop that serves these states.
ASSUME HttpAssumption ==
  /\ States = HttpStateNames /\ Connected = "accepted"
  /\ \A s \in States, ev \in Events, p, t \in Delta : Effects(s, ev, p, t) = HttpEffects(s, ev, p, t)
=============================================================================
