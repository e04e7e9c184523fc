--------------------------- MODULE RequestStream ----------------------------
(***************************************************************************)
(* What the input of a connection is to the server, without buffers: one   *)
(* stream of text, from which heads are taken one after another, each with *)
(* the method and the url its first line names, if it names any.           *)
(* Requests.tla implements it on lists of cbufs.  A body is not told from  *)
(* the next head.                                                          *)
(***************************************************************************)
EXTENDS Integers, Sequences, SequencesExt

CONSTANTS
  Scripts,    \* what a peer may send
  IndexPage,  \* the url that stands for "/"
  None

VARIABLES
  unsent,   \* what the peer has still to send
  pending,  \* text received and not taken
  request,  \* the text of the request in progress
  found,    \* its method and url, once they are known
  phase     \* "waiting" for a request, "taken", "known", "served", "refused"

vars == <<unsent, pending, request, found, phase>>

Space == " "
EndOfHead == <<"\r", "\n", "\r", "\n">>
EndOfLine == <<Space, "HTTP/1.1", "\r", "\n">>

\* A method, blanks, a url, blanks, the version; the rest is not looked into.
IsHead(head) ==
  \E first, last, n \in 3 .. Len(head) - 3 :
    /\ first <= last /\ last < n
    /\ head[1] \in {"GET", "HEAD", "POST"}
    /\ \A i \in (2 .. first - 1) \cup (last + 1 .. n) : head[i] = Space
    /\ \A i \in first .. last : head[i] \notin {Space, "HTTP/1.1"}
    /\ SubSeq(head, n, n + 3) = EndOfLine

Init ==
  /\ unsent \in Scripts
  /\ pending = <<>> /\ request = <<>> /\ found = None
  /\ phase = "waiting"

\* The length of the first head of a text, 0 when it has none.
HeadLength(text) ==
  LET ends == {i \in 4 .. Len(text) : SubSeq(text, i - 3, i) = EndOfHead}
  IN  IF ends = {} THEN 0 ELSE CHOOSE i \in ends : \A j \in ends : i <= j

\* The second word of a request, and the first.
Url(head) ==
  LET i == CHOOSE i \in 2 .. Len(head) :
             head[i] # Space /\ \A j \in 2 .. i - 1 : head[j] = Space
      n == CHOOSE n \in i .. Len(head) :
             head[n + 1] = Space /\ \A j \in i .. n : head[j] # Space
  IN  SubSeq(head, i, n)

Named(head) ==
  [method |-> head[1], url |-> IF Url(head) = <<"/">> THEN IndexPage ELSE Url(head)]

\* Some input arrives, in any number of bytes.
Arrive ==
  /\ pending' \o unsent' = pending \o unsent
  /\ Len(unsent') <= Len(unsent)
  /\ UNCHANGED <<request, found, phase>>

\* The first complete head is taken, and input may have arrived with it.
Take ==
  /\ phase = "waiting" /\ phase' = "taken"
  /\ request' \o pending' \o unsent' = pending \o unsent
  /\ Len(unsent') <= Len(unsent)
  /\ request' # <<>> /\ Len(request') = HeadLength(request' \o pending')
  /\ UNCHANGED found

\* Anything may be found in a head that does not begin as it should.
Parse ==
  /\ phase = "taken"
  /\ \/ phase' = "known" /\ (IsHead(request) => found' = Named(request))
     \/ phase' = "refused" /\ ~ IsHead(request) /\ UNCHANGED found
  /\ UNCHANGED <<unsent, pending, request>>

\* It is answered, or fails; what follows it is kept.
Serve ==
  /\ phase = "known" /\ phase' = "served"
  /\ request' = <<>> /\ found' = None
  /\ UNCHANGED <<unsent, pending>>

\* The connection goes on to its next request, which may be there already.
GoOn ==
  /\ phase = "served" /\ phase' = "waiting"
  /\ UNCHANGED <<unsent, pending, request, found>>

GoOnTaking ==
  /\ phase = "served" /\ phase' = "taken"
  /\ request' \o pending' = pending
  /\ request' # <<>> /\ Len(request') = HeadLength(pending)
  /\ UNCHANGED <<unsent, found>>

Next == Arrive \/ Take \/ Parse \/ Serve \/ GoOn \/ GoOnTaking

Spec == Init /\ [][Next]_vars
=============================================================================
