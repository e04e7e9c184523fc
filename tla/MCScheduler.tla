---------------------------- MODULE MCScheduler ----------------------------
(***************************************************************************)
(* Instances of the scheduler.  The handlers are a client in two states:   *)
(* `listen' waits for input, `work' polls until it is done.  They do what  *)
(* any handlers of the server may: change state, quit, poll at once or     *)
(* back off, ignore input, start a timer again, let a closed connection    *)
(* linger.                                                                 *)
(***************************************************************************)
EXTENDS Scheduler, TLC

TimerDelta == Infinite - 1

Stay(s, p, t, took) == [next |-> s, poll |-> p, timer |-> t, take |-> took]
Go(s) == Stay(s, 0, 0, FALSE)

Handlers(s, ev, p, t) ==
  CASE ev = "ENTRY" /\ s = "listen" -> {Stay(s, Infinite, TimerDelta, TRUE)}
    [] ev = "ENTRY" /\ s = "work"   -> {Stay(s, 0, TimerDelta, FALSE)}
    [] ev = "READ" /\ s = "listen"  -> {Stay(s, p, t, TRUE), Go("work")}
    [] ev = "READ" /\ s = "work"    -> {Stay(s, p, t, FALSE)}
    [] ev = "POLL" /\ s = "work"    -> {Go("listen"), Go(Quit), Stay(s, 1, t, FALSE)}
    [] ev = "CLOSED" /\ s = "work"  -> {Go(Quit), Stay(s, p, t, FALSE)}
    [] ev = "TIMER" /\ s = "listen" -> {Go(Quit), Stay(s, p, TimerDelta, FALSE)}
    [] OTHER                        -> {Go(Quit)}

\* The peers are interchangeable.
Peers == Permutations(Conns)
=============================================================================
