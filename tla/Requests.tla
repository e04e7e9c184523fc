------------------------------ MODULE Requests ------------------------------
(***************************************************************************)
(* How the states receive, parse and prepare of xxxws.c find requests in   *)
(* the input of one client, with the functions of http.c and the buffer    *)
(* lists of cbuf.c.  A segment is read into a cbuf of its own; a head is   *)
(* searched for in the list, split from it, searched for its method and    *)
(* url, and dropped.  RequestStream is what this amounts to.               *)
(*                                                                         *)
(* The peers send any text.  Words whose letters are never told apart are  *)
(* one byte here.                                                          *)
(***************************************************************************)
EXTENDS Cbuf

CONSTANTS
  Byte,
  Scripts,    \* what a peer may send
  IndexPage,  \* XXXWS_FS_INDEX_HTML_VROOT"index.html"
  Cuts,       \* bound: the lengths of segments
  Straddle,   \* whether a head begun in an earlier segment may end within one
  None

\* A segment is read into a cbuf of XXXWS_CBUF_LEN bytes, which are 128.
ASSUME RequestsAssumption ==
  /\ Cuts \subseteq 1 .. Width - 1 /\ Straddle \in BOOLEAN
  /\ \A script \in Scripts : script \in Seq(Byte)

VARIABLES
  state,    \* of the client; "answer" is all that follows prepare
  unsent,   \* what the peer has still to send
  waiting,  \* task->cbuf_list: read while a request is served
  rcv,      \* rcv_cbuf_list
  req,      \* httpreq.cbuf_list
  size,     \* httpreq.headers_len, of 16 bits
  found,    \* httpreq.method and httpreq.url
  failed    \* the assertion that failed: of "split", of the "url", or "none"

vars == <<state, unsent, waiting, rcv, req, size, found, failed>>

Init ==
  /\ state = "receive"
  /\ unsent \in Scripts
  /\ waiting = <<>> /\ rcv = <<>> /\ req = <<>>
  /\ size = 0 /\ found = None /\ failed = "none"

Space == " "
EndOfHead == <<"\r", "\n", "\r", "\n">>
EndOfLine == <<Space, "HTTP/1.1", "\r", "\n">>

HeadEnds(text) == {i \in 4 .. Len(text) : SubSeq(text, i - 3, i) = EndOfHead}

-----------------------------------------------------------------------------
(* The peer and its segments.                                              *)

\* A head ends at d, and no earlier end reaches into that one.
Clear(text, d) ==
  d \in HeadEnds(text) /\ \A h \in HeadEnds(text) : h < d => h + 4 <= d

\* With Straddle FALSE: a segment that ends the head begun before it ends there.
Fits(n) ==
  LET text == FlattenSeq(rcv \o waiting)
      begun == text # <<>> /\ ~ Clear(text, Len(text))
      ends == HeadEnds(text \o SubSeq(unsent, 1, n)) \ HeadEnds(text)
  IN  Straddle \/ ~ begun \/ ends \subseteq {Len(text) + n}

Segment(n) ==
  /\ n <= Len(unsent) /\ Fits(n)
  /\ unsent' = SubSeq(unsent, n + 1, Len(unsent))

\* xxxws_socket_read into a cbuf of the task, while a request is served.
ReadAhead(n) ==
  /\ state # "receive" /\ failed = "none"
  /\ Segment(n)
  /\ waiting' = Append(waiting, SubSeq(unsent, 1, n))
  /\ UNCHANGED <<state, rcv, req, size, found, failed>>

-----------------------------------------------------------------------------
(* receive: xxxws_http_request_headers_received of the list.               *)

\* xxxws_cbuf_list_split into the empty list of the request.  It moves nothing,
\* and its last assertion fails, when the size is 0.
Split(list, n) ==
  LET cut == Rechain(list, n)
  IN  IF n # 0 /\ Splits(cut, n)
        THEN LET k == SplitAt(cut, n)
             IN  /\ req' = SubSeq(cut, 1, k)
                 /\ rcv' = SubSeq(cut, k + 1, Len(cut))
                 /\ state' = "parse"
                 /\ UNCHANGED failed
        ELSE /\ failed' = "split"
             /\ rcv' = list
             /\ UNCHANGED <<state, req>>

\* No head yet, or a head that is split from the list, or no memory for that.
HeadersReceived(list) ==
  LET index0 == Strstr(list, 0, EndOfHead)
      headers_len == (index0 + 4) % Width
  IN  \/ /\ index0 = -1
         /\ rcv' = list /\ state' = "receive"
         /\ UNCHANGED <<req, size, failed>>
      \/ /\ index0 # -1
         /\ size' = headers_len
         /\ Split(list, headers_len)
      \/ /\ index0 # -1 /\ headers_len # 0 /\ Rechain(list, headers_len) # list
         /\ size' = headers_len
         /\ rcv' = list /\ state' = "receive"
         /\ UNCHANGED <<req, failed>>

ReceiveRead(n) ==
  /\ state = "receive" /\ failed = "none"
  /\ Segment(n)
  /\ HeadersReceived(Append(rcv, SubSeq(unsent, 1, n)))
  /\ UNCHANGED <<waiting, found>>

ReceivePoll ==
  /\ state = "receive" /\ failed = "none"
  /\ HeadersReceived(rcv)
  /\ UNCHANGED <<unsent, waiting, found>>

-----------------------------------------------------------------------------
(* parse: xxxws_http_request_headers_parse of the request.                 *)

Method ==
  IF Same(req, 0, <<"GET", Space>>) THEN "GET"
  ELSE IF Same(req, 0, <<"HEAD", Space>>) THEN "HEAD"
  ELSE IF Same(req, 0, <<"POST", Space>>) THEN "POST"
  ELSE "none"

Blank(i) == Same(req, i, <<Space>>)

\* The first byte from i on that is no blank, and the last one up to i.
SkipBlanks(i) ==
  CHOOSE j \in i .. Total(req) : ~ Blank(j) /\ \A k \in i .. j - 1 : Blank(k)
SkipBlanksBack(i) ==
  CHOOSE j \in 0 .. i : ~ Blank(j) /\ \A k \in j + 1 .. i : Blank(k)

\* Bug: one blank too many is skipped.
Bug_UrlBegins == SkipBlanks(Strstr(req, 0, <<Space>>) + 1) + 1

UrlBegins == SkipBlanks(Strstr(req, 0, <<Space>>) + 1)
UrlEnds == SkipBlanksBack(Strstr(req, 0, EndOfLine) - 1)

AtRoot == Same(req, UrlBegins, <<"/", Space>>)
Url == IF AtRoot THEN IndexPage ELSE Strcpy(req, UrlBegins, UrlEnds)

\* It returns FATAL; the blanks are skipped before the version is looked for.
Refused ==
  \/ Method = "none" \/ Strstr(req, 0, <<Space>>) = -1
  \/ UrlBegins < Total(req) /\ Strstr(req, 0, EndOfLine) = -1

\* The blanks end with the list, where strcmp looks for a cbuf (cbuf.c:181), or
\* strcpy is to copy from behind the end (cbuf.c:210).
UrlLost == UrlBegins = Total(req) \/ (~ AtRoot /\ UrlBegins > UrlEnds)

\* When there is no memory for the url, parse is polled again and finds the same.
Parse ==
  /\ state = "parse" /\ failed = "none"
  /\ \/ Refused /\ state' = "error" /\ UNCHANGED <<found, failed>>
     \/ ~ Refused /\ UrlLost /\ failed' = "url" /\ UNCHANGED <<state, found>>
     \/ /\ ~ Refused /\ ~ UrlLost
        /\ state' = "prepare" /\ found' = [method |-> Method, url |-> Url]
        /\ UNCHANGED failed
  /\ UNCHANGED <<unsent, waiting, rcv, req, size>>

-----------------------------------------------------------------------------
(* prepare, and what ends the request.                                     *)

\* The url is handed to the mvc, and the head dropped.
Prepare ==
  /\ state = "prepare" /\ failed = "none"
  /\ req' = Dropn(req, size) /\ found' = None
  /\ state' = "answer"
  /\ UNCHANGED <<unsent, waiting, rcv, size, failed>>

\* The request fails before that, and the cleanup of error frees list and url.
Free ==
  /\ state = "prepare" /\ failed = "none"
  /\ req' = <<>> /\ found' = None
  /\ state' = "answer"
  /\ UNCHANGED <<unsent, waiting, rcv, size, failed>>

\* keepalive, and the entry of receive: it takes what was read meanwhile.
KeepAlive ==
  /\ state = "answer" /\ failed = "none"
  /\ HeadersReceived(rcv \o waiting)
  /\ waiting' = <<>>
  /\ UNCHANGED <<unsent, found>>

Next ==
  \/ \E n \in Cuts : ReadAhead(n) \/ ReceiveRead(n)
  \/ ReceivePoll \/ Parse \/ Prepare \/ Free \/ KeepAlive

Spec == Init /\ [][Next]_vars

-----------------------------------------------------------------------------
PhaseOf(s) ==
  CASE s = "receive" -> "waiting" [] s = "parse" -> "taken"
    [] s = "prepare" -> "known"   [] s = "answer" -> "served"
    [] s = "error" -> "refused"

Stream == INSTANCE RequestStream WITH
  pending <- FlattenSeq(rcv \o waiting), request <- FlattenSeq(req),
  phase <- PhaseOf(state)

\* Whatever is sent, heads are taken from the input one after another as it was
\* sent, however it is cut into segments: no byte is lost, doubled or given to
\* another head, and one that begins with a method, a url and the version is given
\* that method and that url, and is not refused (http.c:3-97, xxxws.c:92-206 and 567).
\* That is of heads shorter than 65536 bytes: the length has 16 bits (http.c:12), and
\* a longer head is cut at what is left of it.
StreamSpec == Stream!Spec

\* The first occurrence of a pattern, without buffers.
Occurs(text, i, str) == IsPrefix(str, SubSeq(text, i + 1, Len(text)))
FirstOf(text, index, str) ==
  LET at == {i \in index .. Len(text) - 1 : Occurs(text, i, str)}
  IN  IF at = {} THEN -1 ELSE CHOOSE i \in at : \A j \in at : i <= j

\* Searching and comparing a list is searching and comparing its text, from
\* every index and whatever the cuts (cbuf.c:170-204 and 234-299).
SearchesAgree ==
  \A list \in {rcv, req}, str \in {EndOfHead, EndOfLine, <<Space>>, <<"/", Space>>} :
    \A i \in 0 .. Total(list) - 1 :
      /\ Strstr(list, i, str) = FirstOf(FlattenSeq(list), i, str)
      /\ Same(list, i, str) <=> Occurs(FlattenSeq(list), i, str)

\* Splitting finds a cbuf boundary where rechain was to make one: "exactly size
\* len" (cbuf.c:97), asserted at line 63; nor is the size 0 (line 78), which it
\* is for a head of a multiple of 65536 bytes (http.c:12-15).
SplitsAtSize == failed # "split"

\* The assertion on the ends of a url, index0 <= index1 (cbuf.c:210), stops the
\* server only for a head that does not begin with a method, a url and the version.
\* "GET HTTP/1.1" is such a head: the url is looked for behind the first blank, and
\* ends before the blank of the version (http.c:61-74).
UrlIsFound == failed = "url" => ~ Stream!IsHead(FlattenSeq(req))
=============================================================================
