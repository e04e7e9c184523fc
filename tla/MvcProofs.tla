----------------------------- MODULE MvcProofs ------------------------------
(***************************************************************************)
(* The safety of xxxws_mvc_configure, for any controllers, views,          *)
(* attributes and number of calls.                                         *)
(***************************************************************************)
EXTENDS Mvc, TLAPS

MvcTypeOK ==
  /\ pc \in {"idle", "lookup", "call", "done", "failed"}
  /\ url \in Urls \cup {None} /\ mvc \in MvcBlock \cup {None}
  /\ finished \subseteq Controllers /\ said \in [Names -> Values \cup {None}]

\* Who has the url, the mvc and its parts at each point of configure.
Ownership ==
  /\ mvc = None <=> pc = "idle"
  /\ pc \in {"lookup", "call", "failed"} => url # None
  /\ pc = "lookup" => mvc.view = None /\ mvc.attributes = <<>>
  /\ pc = "call" => url \in Controllers /\ mvc.view \in Views[url] \cup {None}
  /\ pc = "done" => url = None

\* v is the value of the first attribute of the list s with the name n.
FirstIs(s, n, v) ==
  IF v = None THEN \A i \in 1 .. Len(s) : s[i].name # n
  ELSE \E i \in 1 .. Len(s) :
         s[i].name = n /\ s[i].value = v /\ \A j \in 1 .. i - 1 : s[j].name # n

AttributesMatch ==
  (pc = "call" \/ (pc = "done" /\ mvc.view \in finished)) =>
     \A name \in Names : FirstIs(mvc.attributes, name, said[name])

IInv == MvcTypeOK /\ Ownership /\ BlocksAreHeld /\ ControllerRunsFirst /\ AttributesMatch

-----------------------------------------------------------------------------
LEMMA LenIs ==
  ASSUME NEW s \in Seq(Attribute)
  PROVE  Len(s) \in Nat
OBVIOUS

LEMMA HeldIs ==
  ASSUME NEW m \in MvcBlock
  PROVE  /\ m # None /\ Held(m) = 1 + Block(m.view) + 3 * Len(m.attributes)
         /\ Held(m) \in Nat /\ Held(None) = 0 /\ Len(m.attributes) \in Nat
         /\ Block(m.view) \in {0, 1}
<1>1. m # None
  BY MvcAssumption
<1>2. Len(m.attributes) \in Nat
  BY LenIs DEF MvcBlock
<1>3. Block(m.view) \in {0, 1}
  BY DEF Block
<1>4. Held(m) = 1 + Block(m.view) + 3 * Len(m.attributes) /\ Held(None) = 0
  BY <1>1 DEF Held
<1> QED BY <1>1, <1>2, <1>3, <1>4

\* The mvc that the next controller of a chain is given.
LEMMA EmptiedIs ==
  ASSUME NEW m \in MvcBlock
  PROVE  LET n == [m EXCEPT !.view = None, !.attributes = <<>>]
         IN  n \in MvcBlock /\ n.view = None /\ n.attributes = <<>>
<1> DEFINE j == [m EXCEPT !.view = None]
           n == [j EXCEPT !.attributes = <<>>]
<1>1. j \in MvcBlock /\ j.view = None
  BY DEF MvcBlock
<1>2. n = [m EXCEPT !.view = None, !.attributes = <<>>]
  OBVIOUS
<1> HIDE DEF j
<1>3. n \in MvcBlock /\ n.view = None /\ n.attributes = <<>>
  <2>1. <<>> \in Seq(Attribute)
    OBVIOUS
  <2> QED BY <1>1, <2>1 DEF MvcBlock
<1> HIDE DEF n
<1> QED BY <1>2, <1>3

\* An attribute is found behind the one that is put in front of it, unless that has
\* its name.
LEMMA FirstOfPrepended ==
  ASSUME NEW s \in Seq(Attribute), NEW x \in Attribute, NEW n \in Names,
         NEW v \in Values \cup {None}, FirstIs(s, n, v)
  PROVE  FirstIs(<<x>> \o s, n, IF x.name = n THEN x.value ELSE v)
<1> DEFINE t == <<x>> \o s
<1>1. /\ Len(s) \in Nat /\ Len(t) = Len(s) + 1 /\ t[1] = x
      /\ \A i \in 1 .. Len(s) : t[i + 1] = s[i]
      /\ \A i \in 2 .. Len(t) : t[i] = s[i - 1] /\ i - 1 \in 1 .. Len(s)
  OBVIOUS
<1>2. x.value # None
  BY MvcAssumption DEF Attribute
<1> HIDE DEF t
<1>3. CASE x.name = n
  <2>1. 1 \in 1 .. Len(t) /\ 1 .. 1 - 1 = {}
    BY <1>1
  <2> QED BY <1>1, <1>2, <1>3, <2>1 DEF FirstIs, t
<1>4. CASE x.name # n /\ v = None
  <2>1. ASSUME NEW i \in 1 .. Len(t) PROVE t[i].name # n
    <3>1. CASE i = 1
      BY <3>1, <1>1, <1>4
    <3>2. CASE i # 1
      <4>1. i \in 2 .. Len(t)
        BY <3>2, <1>1
      <4> QED BY <4>1, <1>1, <1>4 DEF FirstIs
    <3> QED BY <3>1, <3>2
  <2> QED BY <2>1, <1>4 DEF FirstIs, t
<1>5. CASE x.name # n /\ v # None
  <2>1. PICK i \in 1 .. Len(s) :
          s[i].name = n /\ s[i].value = v /\ \A j \in 1 .. i - 1 : s[j].name # n
    BY <1>5 DEF FirstIs
  <2>2. i + 1 \in 1 .. Len(t) /\ t[i + 1] = s[i]
    BY <1>1
  <2>3. ASSUME NEW j \in 1 .. (i + 1) - 1 PROVE t[j].name # n
    <3>1. CASE j = 1
      BY <3>1, <1>1, <1>5
    <3>2. CASE j # 1
      <4>1. j \in 2 .. Len(t) /\ j - 1 \in 1 .. i - 1
        BY <3>2, <1>1
      <4> QED BY <4>1, <1>1, <2>1
    <3> QED BY <3>1, <3>2
  <2> QED BY <1>5, <2>1, <2>2, <2>3 DEF FirstIs, t
<1> QED BY <1>3, <1>4, <1>5

\* xxxws_mvc_attribute_get finds the first attribute of the name.
LEMMA GetIsFirst ==
  ASSUME mvc \in MvcBlock, NEW n \in Names, NEW v \in Values \cup {None},
         FirstIs(mvc.attributes, n, v)
  PROVE  AttributeGet(n) = v
<1> DEFINE s == mvc.attributes
           I == {i \in 1 .. Len(s) : s[i].name = n}
<1>1. Len(s) \in Nat
  BY LenIs DEF MvcBlock
<1>2. SelectInSeq(s, LAMBDA a : a.name = n) = IF I # {} THEN Min(I) ELSE 0
  BY DEF SelectInSeq
<1>3. AttributeGet(n) = LET found == IF I # {} THEN Min(I) ELSE 0
                        IN  IF found = 0 THEN None ELSE s[found].value
  BY <1>2 DEF AttributeGet
<1> HIDE DEF s
<1>4. CASE v = None
  <2>1. I = {}
    BY <1>4 DEF FirstIs, s
  <2> QED BY <2>1, <1>3, <1>4
<1>5. CASE v # None
  <2>1. PICK i \in 1 .. Len(s) :
          s[i].name = n /\ s[i].value = v /\ \A j \in 1 .. i - 1 : s[j].name # n
    BY <1>5 DEF FirstIs, s
  <2>2. i \in I /\ \A j \in I : i <= j
    BY <2>1, <1>1
  <2>3. Min(I) = i
    <3>1. \A m \in I : (\A j \in I : m <= j) => m = i
      BY <2>2, <1>1
    <3> HIDE DEF I
    <3> QED BY <2>2, <3>1 DEF Min
  <2> QED BY <2>1, <2>2, <2>3, <1>3
<1> QED BY <1>4, <1>5

-----------------------------------------------------------------------------
LEMMA InitIInv == Init => IInv
<1> SUFFICES ASSUME Init PROVE IInv
  OBVIOUS
<1>1. MvcTypeOK /\ Ownership /\ ControllerRunsFirst /\ AttributesMatch
  BY DEF Init, MvcTypeOK, Ownership, ControllerRunsFirst, AttributesMatch, Silent
<1>2. BlocksAreHeld
  BY DEF Init, BlocksAreHeld, Held, Block
<1> QED BY <1>1, <1>2 DEF IInv

\* The blocks are the url, and what hangs on the mvc when there is one.
LEMMA Counted ==
  ASSUME IInv
  PROVE  /\ mvc = None => live = Block(url)
         /\ mvc # None =>
              /\ mvc \in MvcBlock /\ Len(mvc.attributes) \in Nat
              /\ live = Block(url) + (1 + Block(mvc.view) + 3 * Len(mvc.attributes))
              /\ Release(mvc) = Block(url)
         /\ Block(None) = 0 /\ Block(url) \in {0, 1} /\ (url # None => Block(url) = 1)
         /\ None \notin Urls
<1>1. Block(None) = 0 /\ Block(url) \in {0, 1} /\ (url # None => Block(url) = 1)
  BY DEF Block
<1>2. CASE mvc = None
  BY <1>1, <1>2, MvcAssumption DEF IInv, BlocksAreHeld, Held
<1>3. CASE mvc # None
  <2>1. mvc \in MvcBlock /\ live = Block(url) + Held(mvc)
    BY <1>3 DEF IInv, MvcTypeOK, BlocksAreHeld
  <2>2. Held(mvc) = 1 + Block(mvc.view) + 3 * Len(mvc.attributes) /\ Held(mvc) \in Nat
        /\ Len(mvc.attributes) \in Nat
    BY <2>1, HeldIs
  <2>3. Release(mvc) = Block(url)
    BY <1>1, <2>1, <2>2 DEF Release
  <2> QED BY <1>1, <1>3, <2>1, <2>2, <2>3, MvcAssumption
<1> QED BY <1>2, <1>3

\* A step that changes neither the attributes nor who is asked for them.
LEMMA SameAttributes ==
  ASSUME IInv, said' = said, mvc'.attributes = mvc.attributes,
         pc' \in {"call", "done"} => pc = "call"
  PROVE  AttributesMatch'
BY DEF IInv, AttributesMatch

\* The request, the first step of configure, and what ends it without an answer.
LEMMA OutsideKeep ==
  ASSUME IInv, (\E u \in Urls : Request(u)) \/ Configure \/ Abandon \/ Dispose
  PROVE  IInv'
<1>1. CASE \E u \in Urls : Request(u)
  <2>1. PICK u \in Urls : Request(u)
    BY <1>1
  <2>2. mvc = None /\ u # None /\ Block(u) = 1 /\ live = 0
    BY <2>1, Counted, MvcAssumption DEF Request, IInv, Ownership, Block
  <2>3. MvcTypeOK' /\ Ownership' /\ ControllerRunsFirst' /\ AttributesMatch'
    BY <2>1, <2>2 DEF Request, IInv, MvcTypeOK, Ownership, ControllerRunsFirst, AttributesMatch
  <2>4. BlocksAreHeld'
    BY <2>1, <2>2 DEF Request, BlocksAreHeld, Held
  <2> QED BY <2>3, <2>4 DEF IInv
<1>2. CASE Configure
  <2>1. Empty \in MvcBlock /\ Empty.view = None /\ Empty.attributes = <<>>
    BY DEF Empty, MvcBlock
  <2>2. Held(Empty) = 1 /\ Empty # None
    BY <2>1, HeldIs, Counted
  <2>3. mvc = None /\ live = Block(url) /\ Block(url) = 1
    BY <1>2, Counted DEF Configure, IInv, Ownership
  <2>4. MvcTypeOK' /\ Ownership' /\ ControllerRunsFirst' /\ AttributesMatch'
    BY <1>2, <2>1, <2>2 DEF Configure, IInv, MvcTypeOK, Ownership, ControllerRunsFirst, AttributesMatch
  <2>5. BlocksAreHeld'
    BY <1>2, <2>2, <2>3 DEF Configure, BlocksAreHeld
  <2> QED BY <2>4, <2>5 DEF IInv
<1>3. CASE Abandon
  <2>1. mvc = None /\ live = 1
    BY <1>3, Counted DEF Abandon, IInv, Ownership
  <2>2. MvcTypeOK' /\ Ownership' /\ ControllerRunsFirst' /\ AttributesMatch'
    BY <1>3, <2>1 DEF Abandon, IInv, MvcTypeOK, Ownership, ControllerRunsFirst, AttributesMatch
  <2>3. BlocksAreHeld'
    BY <1>3, <2>1, Counted DEF Abandon, BlocksAreHeld, Held
  <2> QED BY <2>2, <2>3 DEF IInv
<1>4. CASE Dispose
  <2>1. mvc # None /\ live' = Block(url)
    BY <1>4, Counted DEF Dispose, IInv, Ownership
  <2>2. MvcTypeOK' /\ Ownership' /\ ControllerRunsFirst' /\ AttributesMatch'
    BY <1>4, <2>1 DEF Dispose, IInv, MvcTypeOK, Ownership, ControllerRunsFirst, AttributesMatch
  <2>3. BlocksAreHeld'
    <3>1. Block(url) \in {0, 1}
      BY DEF Block
    <3> QED BY <1>4, <2>1, <3>1 DEF Dispose, BlocksAreHeld, Held
  <2> QED BY <2>2, <2>3 DEF IInv
<1> QED BY <1>1, <1>2, <1>3, <1>4

\* The url becomes the view: the blocks stay, but for the view the mvc had.
LEMMA FinishKeeps ==
  ASSUME IInv, Finish(mvc), mvc # None, url # None,
         live' = live - Block(mvc.view), finished' \subseteq Controllers, said' = said,
         url \in Controllers => url \in finished',
         url \in finished' => \A name \in Names : FirstIs(mvc.attributes, name, said[name])
  PROVE  IInv'
<1>1. /\ mvc \in MvcBlock /\ url \in Urls /\ pc' = "done" /\ url' = None
      /\ mvc' = [mvc EXCEPT !.view = url]
  BY DEF IInv, MvcTypeOK, Finish
<1>2. /\ mvc' \in MvcBlock /\ mvc'.view = url /\ mvc'.attributes = mvc.attributes
      /\ mvc' # None
  <2>1. /\ mvc' \in MvcBlock /\ mvc'.view = url /\ mvc'.attributes = mvc.attributes
    BY <1>1 DEF MvcBlock
  <2> QED BY <2>1, HeldIs
<1>3. MvcTypeOK' /\ Ownership' /\ ControllerRunsFirst' /\ AttributesMatch'
  <2>1. MvcTypeOK'
    BY <1>1, <1>2 DEF IInv, MvcTypeOK
  <2>2. Ownership'
    BY <1>1, <1>2 DEF Ownership
  <2>3. ControllerRunsFirst'
    BY <1>1, <1>2 DEF ControllerRunsFirst
  <2>4. AttributesMatch'
    BY <1>1, <1>2 DEF AttributesMatch
  <2> QED BY <2>1, <2>2, <2>3, <2>4
<1>4. BlocksAreHeld'
  <2>1. Held(mvc') = 1 + Block(url) + 3 * Len(mvc.attributes)
    BY <1>2, HeldIs
  <2>2. Block(mvc.view) \in {0, 1}
    BY DEF Block
  <2> QED BY <1>1, <2>1, <2>2, Counted DEF BlocksAreHeld
<1> QED BY <1>3, <1>4 DEF IInv

LEMMA ChainKeeps ==
  ASSUME IInv, NoController \/ Call \/ Fails \/ Keeps \/ SetsItself \/ Forwards
  PROVE  IInv'
<1> USE DEF IInv
<1>1. CASE NoController
  <2>1. /\ pc = "lookup" /\ url \notin Controllers /\ Finish(mvc) /\ mvc # None /\ url # None
        /\ mvc.view = None /\ finished' = finished /\ said' = said /\ live' = live
    BY <1>1 DEF NoController, Ownership
  <2>2. live' = live - Block(mvc.view) /\ finished' \subseteq Controllers /\ url \notin finished'
    BY <2>1, Counted DEF MvcTypeOK
  <2> QED BY <2>1, <2>2, FinishKeeps
<1>2. CASE Call
  <2> DEFINE m == [mvc EXCEPT !.completed = FALSE]
  <2>1. pc = "lookup" /\ url \in Controllers /\ mvc # None /\ mvc \in MvcBlock
        /\ mvc.view = None /\ mvc.attributes = <<>>
    BY <1>2 DEF Call, Ownership, MvcTypeOK
  <2>2. m \in MvcBlock /\ m.view = mvc.view /\ m.attributes = mvc.attributes /\ m # None
    BY <2>1, HeldIs DEF MvcBlock
  <2>3. mvc' = m /\ pc' \in {"call", "failed"} /\ live' = live /\ url' = url
        /\ said' = Silent /\ finished' = finished
    BY <1>2 DEF Call
  <2> HIDE DEF m
  <2>4. MvcTypeOK' /\ Ownership' /\ ControllerRunsFirst'
    BY <2>1, <2>2, <2>3 DEF MvcTypeOK, Ownership, ControllerRunsFirst, Silent
  <2>5. AttributesMatch'
    BY <2>1, <2>2, <2>3 DEF AttributesMatch, FirstIs, Silent
  <2>6. BlocksAreHeld'
    <3>1. Held(m) = Held(mvc)
      BY <2>1, <2>2, HeldIs
    <3> QED BY <2>3, <3>1 DEF BlocksAreHeld
  <2> QED BY <2>4, <2>5, <2>6
<1>3. CASE Fails
  <2>1. CASE mvc.data # None
    <3>1. UNCHANGED <<mvc, live, url, calls, finished, said>> /\ pc = "call" /\ pc' = "failed"
      BY <1>3, <2>1 DEF Fails
    <3> QED BY <3>1 DEF MvcTypeOK, Ownership, ControllerRunsFirst, AttributesMatch, BlocksAreHeld
  <2>2. CASE mvc.data = None
    <3>1. /\ UNCHANGED <<url, calls, finished, said>> /\ pc = "call" /\ pc' = "idle"
          /\ mvc' = None /\ live' = Release(mvc)
      BY <1>3, <2>2 DEF Fails
    <3>2. mvc # None /\ live' = Block(url) /\ Block(url) \in {0, 1}
      BY <3>1, Counted DEF Ownership
    <3>3. MvcTypeOK' /\ Ownership' /\ ControllerRunsFirst' /\ AttributesMatch'
      BY <3>1, <3>2 DEF MvcTypeOK, Ownership, ControllerRunsFirst, AttributesMatch
    <3>4. BlocksAreHeld'
      BY <3>1, <3>2 DEF BlocksAreHeld, Held
    <3> QED BY <3>3, <3>4
  <2> QED BY <2>1, <2>2
<1>4. CASE Keeps
  <2>1. /\ pc = "call" /\ Finish(mvc) /\ mvc.view = None /\ finished' = finished \cup {url}
        /\ said' = said /\ live' = live
    BY <1>4 DEF Keeps
  <2>2. /\ mvc # None /\ url # None /\ live' = live - Block(mvc.view)
        /\ finished' \subseteq Controllers /\ url \in finished'
        /\ \A name \in Names : FirstIs(mvc.attributes, name, said[name])
    BY <2>1, Counted DEF Ownership, MvcTypeOK, AttributesMatch
  <2> QED BY <2>1, <2>2, FinishKeeps
<1>5. CASE SetsItself
  <2>1. /\ pc = "call" /\ Finish(mvc) /\ mvc.view = url /\ finished' = finished \cup {url}
        /\ said' = said /\ live' = live - 1
    BY <1>5 DEF SetsItself
  <2>2. /\ mvc # None /\ url # None /\ live' = live - Block(mvc.view)
        /\ finished' \subseteq Controllers /\ url \in finished'
        /\ \A name \in Names : FirstIs(mvc.attributes, name, said[name])
    BY <2>1, Counted DEF Ownership, MvcTypeOK, AttributesMatch
  <2> QED BY <2>1, <2>2, FinishKeeps
<1>6. CASE Forwards
  <2> DEFINE m == [mvc EXCEPT !.view = None, !.attributes = <<>>]
  <2>1. /\ pc = "call" /\ mvc.view \notin {None, url} /\ pc' = "lookup" /\ url' = mvc.view
        /\ mvc' = m /\ live' = live - 1 - 3 * Len(mvc.attributes)
        /\ finished' = finished \cup {url} /\ said' = said
    BY <1>6 DEF Forwards
  <2>2. mvc \in MvcBlock /\ mvc # None /\ url \in Controllers /\ mvc.view \in Urls
    BY <2>1, Counted DEF Ownership, MvcTypeOK, MvcBlock
  <2>3. m \in MvcBlock /\ m.view = None /\ m.attributes = <<>> /\ m # None
    <3>1. m \in MvcBlock /\ m.view = None /\ m.attributes = <<>>
      BY <2>2, EmptiedIs
    <3> QED BY <3>1, HeldIs
  <2> HIDE DEF m
  <2>4. MvcTypeOK' /\ Ownership' /\ ControllerRunsFirst' /\ AttributesMatch'
    <3>1. MvcTypeOK'
      BY <2>1, <2>2, <2>3 DEF MvcTypeOK
    <3>2. Ownership'
      BY <2>1, <2>2, <2>3 DEF Ownership
    <3> QED BY <2>1, <3>1, <3>2 DEF ControllerRunsFirst, AttributesMatch
  <2>5. BlocksAreHeld'
    <3>1. Held(m) = 1
      BY <2>3, HeldIs, Counted
    <3>2. Block(url) = 1 /\ Block(mvc.view) = 1 /\ Block(url') = 1
      BY <2>1, <2>2, MvcAssumption DEF Block
    <3>3. live = 1 + (1 + 1 + 3 * Len(mvc.attributes)) /\ Len(mvc.attributes) \in Nat
      BY <2>2, <3>2, Counted
    <3> QED BY <2>1, <3>1, <3>2, <3>3 DEF BlocksAreHeld
  <2> QED BY <2>4, <2>5
<1> QED BY <1>1, <1>2, <1>3, <1>4, <1>5, <1>6

LEMMA CallsKeep ==
  ASSUME IInv, pc = "call", ControllerCalls
  PROVE  IInv'
<1> USE DEF IInv
<1>1. mvc \in MvcBlock /\ mvc # None /\ url \in Controllers /\ url \in Urls /\ Len(mvc.attributes) \in Nat
  BY Counted, MvcAssumption DEF Ownership
<1>2. CASE \E v \in Views[url] : SetView(v)
  <2>1. PICK v \in Views[url] : SetView(v)
    BY <1>2
  <2>2. PICK w \in {v, None} :
          /\ mvc' = [mvc EXCEPT !.view = w]
          /\ live' = live - Block(mvc.view) + Block(w)
          /\ UNCHANGED <<url, pc, finished, said>>
    <3>1. v # None /\ Block(v) = 1 /\ Block(None) = 0 /\ live \in Nat /\ Block(mvc.view) \in {0, 1}
          /\ live - Block(mvc.view) + 0 = live - Block(mvc.view)
      <4>1. v \in Urls
        BY <1>1, MvcAssumption
      <4>2. v # None /\ Block(v) = 1 /\ Block(None) = 0 /\ Block(mvc.view) \in {0, 1} /\ Block(url) \in {0, 1}
        BY <4>1, MvcAssumption DEF Block
      <4> QED BY <1>1, <4>2, Counted
    <3>2. CASE mvc' = [mvc EXCEPT !.view = v] /\ live' = live - Block(mvc.view) + 1
      BY <2>1, <3>1, <3>2 DEF SetView
    <3>3. CASE mvc' = [mvc EXCEPT !.view = None] /\ live' = live - Block(mvc.view)
      BY <2>1, <3>1, <3>3 DEF SetView
    <3> QED BY <2>1, <3>2, <3>3 DEF SetView
  <2>3. mvc' \in MvcBlock /\ mvc'.view = w /\ mvc'.attributes = mvc.attributes /\ mvc' # None
    <3>1. w \in Urls \cup {None}
      BY <1>1, MvcAssumption
    <3>2. mvc' \in MvcBlock /\ mvc'.view = w /\ mvc'.attributes = mvc.attributes
      BY <1>1, <2>2, <3>1 DEF MvcBlock
    <3> QED BY <3>2, HeldIs
  <2>4. MvcTypeOK' /\ Ownership' /\ ControllerRunsFirst' /\ AttributesMatch'
    BY <1>1, <2>2, <2>3 DEF MvcTypeOK, Ownership, ControllerRunsFirst, AttributesMatch
  <2>5. BlocksAreHeld'
    <3>1. Held(mvc') = 1 + Block(w) + 3 * Len(mvc.attributes)
      BY <2>3, HeldIs
    <3>2. Block(w) \in {0, 1} /\ Block(mvc.view) \in {0, 1} /\ Block(url) \in {0, 1}
      BY DEF Block
    <3>3. live = Block(url) + (1 + Block(mvc.view) + 3 * Len(mvc.attributes))
      BY <1>1, Counted
    <3> QED BY <1>1, <2>2, <3>1, <3>2, <3>3 DEF BlocksAreHeld
  <2> QED BY <2>4, <2>5
<1>3. CASE \E name \in Names, value \in Values : SetAttribute(name, value)
  <2>1. PICK name \in Names, value \in Values : SetAttribute(name, value)
    BY <1>3
  <2> DEFINE x == [name |-> name, value |-> value]
             s == <<x>> \o mvc.attributes
  <2>2. /\ mvc' = [mvc EXCEPT !.attributes = s] /\ live' = live + 3
        /\ said' = [said EXCEPT ![name] = value] /\ UNCHANGED <<url, pc, finished>>
    BY <2>1 DEF SetAttribute
  <2>3. x \in Attribute /\ x.name = name /\ x.value = value
    BY DEF Attribute
  <2> HIDE DEF x
  <2>4. mvc.attributes \in Seq(Attribute)
    BY <1>1 DEF MvcBlock
  <2>5. s \in Seq(Attribute) /\ Len(s) = Len(mvc.attributes) + 1
    BY <2>3, <2>4
  <2>6. ASSUME NEW n \in Names PROVE FirstIs(s, n, said'[n])
    <3>1. said[n] \in Values \cup {None} /\ said'[n] = IF n = name THEN value ELSE said[n]
      BY <2>2 DEF MvcTypeOK
    <3>2. FirstIs(mvc.attributes, n, said[n])
      BY DEF AttributesMatch
    <3>3. FirstIs(s, n, IF x.name = n THEN x.value ELSE said[n])
      BY <2>3, <2>4, <3>1, <3>2, FirstOfPrepended
    <3>4. (IF x.name = n THEN x.value ELSE said[n]) = said'[n]
      BY <2>3, <3>1
    <3> QED BY <3>3, <3>4
  <2> HIDE DEF s
  <2>7. mvc' \in MvcBlock /\ mvc'.view = mvc.view /\ mvc'.attributes = s /\ mvc' # None
    <3>1. mvc' \in MvcBlock /\ mvc'.view = mvc.view /\ mvc'.attributes = s
      BY <1>1, <2>2, <2>5 DEF MvcBlock
    <3> QED BY <3>1, HeldIs
  <2>8. MvcTypeOK' /\ Ownership' /\ ControllerRunsFirst' /\ AttributesMatch'
    BY <1>1, <2>2, <2>6, <2>7 DEF MvcTypeOK, Ownership, ControllerRunsFirst, AttributesMatch
  <2>9. BlocksAreHeld'
    <3>1. Held(mvc') = 1 + Block(mvc.view) + 3 * (Len(mvc.attributes) + 1)
      BY <2>5, <2>7, HeldIs
    <3>2. Block(mvc.view) \in {0, 1} /\ Block(url) \in {0, 1}
      BY DEF Block
    <3>3. live = Block(url) + (1 + Block(mvc.view) + 3 * Len(mvc.attributes))
      BY <1>1, Counted
    <3> QED BY <1>1, <2>2, <3>1, <3>2, <3>3 DEF BlocksAreHeld
  <2> QED BY <2>8, <2>9
<1>4. CASE \E data \in Cookies : SetCallback(data)
  <2>1. PICK data \in Cookies : SetCallback(data)
    BY <1>4
  <2>2. /\ mvc' = [mvc EXCEPT !.completed = TRUE, !.data = data]
        /\ UNCHANGED <<url, pc, live, finished, said>>
    BY <2>1 DEF SetCallback
  <2>3. mvc' \in MvcBlock /\ mvc'.view = mvc.view /\ mvc'.attributes = mvc.attributes /\ mvc' # None
    <3>1. mvc' \in MvcBlock /\ mvc'.view = mvc.view /\ mvc'.attributes = mvc.attributes
      BY <1>1, <2>2 DEF MvcBlock
    <3> QED BY <3>1, HeldIs
  <2>4. MvcTypeOK' /\ Ownership' /\ ControllerRunsFirst' /\ AttributesMatch'
    BY <1>1, <2>2, <2>3 DEF MvcTypeOK, Ownership, ControllerRunsFirst, AttributesMatch
  <2>5. BlocksAreHeld'
    <3>1. Held(mvc') = Held(mvc)
      BY <1>1, <2>3, HeldIs
    <3> QED BY <2>2, <3>1 DEF BlocksAreHeld
  <2> QED BY <2>4, <2>5
<1> QED BY <1>2, <1>3, <1>4 DEF ControllerCalls

LEMMA NextIInv == IInv /\ [Next]_vars => IInv'
<1> SUFFICES ASSUME IInv, [Next]_vars PROVE IInv'
  OBVIOUS
<1>1. CASE UNCHANGED vars
  BY <1>1 DEF vars, IInv, MvcTypeOK, Ownership, BlocksAreHeld, ControllerRunsFirst, AttributesMatch
<1>2. CASE (\E u \in Urls : Request(u)) \/ Configure \/ Abandon \/ Dispose
  BY <1>2, OutsideKeep
<1>3. CASE NoController \/ Call \/ Fails \/ Keeps \/ SetsItself \/ Forwards
  BY <1>3, ChainKeeps
<1>4. CASE ControllerCalls
  BY <1>4, CallsKeep DEF ControllerCalls, InController
<1> QED BY <1>1, <1>2, <1>3, <1>4 DEF Next

LEMMA SpecIInv == Spec => []IInv
BY InitIInv, NextIInv, PTL DEF Spec

\* Every block of the url, the mvc, its view and its attributes is found by the
\* functions that free them (mvc.c:22-103, 128-154).
THEOREM NoBlockIsLost == Spec => []BlocksAreHeld
<1>1. IInv => BlocksAreHeld
  BY DEF IInv
<1> QED BY <1>1, SpecIInv, PTL

\* A page with a controller is shown only after it (mvc.c:31-97).
THEOREM PagesHaveTheirController == Spec => []ControllerRunsFirst
<1>1. IInv => ControllerRunsFirst
  BY DEF IInv
<1> QED BY <1>1, SpecIInv, PTL

\* A controller and its page find the attributes it has set, the last of each name,
\* and no others (mvc.c:85-90, 195-246).
THEOREM AttributesAreSeparate == Spec => []AttributesAreItsOwn
<1>1. ASSUME IInv PROVE AttributesAreItsOwn
  <2>1. ASSUME pc = "call" \/ (pc = "done" /\ mvc.view \in finished), NEW n \in Names
        PROVE  AttributeGet(n) = said[n]
    <3>1. mvc \in MvcBlock /\ said[n] \in Values \cup {None}
      BY <1>1, <2>1 DEF IInv, MvcTypeOK, Ownership
    <3>2. FirstIs(mvc.attributes, n, said[n])
      BY <1>1, <2>1 DEF IInv, AttributesMatch
    <3> QED BY <3>1, <3>2, GetIsFirst
  <2> QED BY <2>1 DEF AttributesAreItsOwn, GetsWhatWasSaid
<1> QED BY <1>1, SpecIInv, PTL

-----------------------------------------------------------------------------
\* The mvc holds the data that is promised, and the callback with it until the
\* assertion that stops the server; the chain fails nowhere else.
DataInv ==
  /\ promised = (IF mvc = None THEN None ELSE mvc.data)
  /\ pc = "failed" => promised # None
  /\ pc \in {"lookup", "call", "done"} /\ promised # None => mvc.completed

LEMMA DataNext ==
  ASSUME IInv, DataInv, [Next]_vars
  PROVE  DataInv'
<1> USE DEF DataInv
<1>1. /\ mvc # None => mvc \in MvcBlock
      /\ mvc = None <=> pc = "idle"
      /\ pc = "lookup" => mvc.view = None /\ mvc.attributes = <<>>
  BY DEF IInv, MvcTypeOK, Ownership
<1>2. ASSUME NEW m \in MvcBlock PROVE m # None
  BY HeldIs
<1>3. CASE Configure \/ Dispose \/ Abandon \/ (\E u \in Urls : Request(u))
  <2>1. Empty \in MvcBlock /\ Empty.data = None
    BY DEF Empty, MvcBlock
  <2> QED BY <1>1, <1>2, <1>3, <2>1 DEF Configure, Dispose, Abandon, Request
<1>4. CASE NoController \/ Keeps \/ SetsItself
  <2>1. /\ pc \in {"lookup", "call"} /\ pc' = "done" /\ promised' = promised
        /\ mvc' = [mvc EXCEPT !.view = url]
    BY <1>4 DEF NoController, Keeps, SetsItself, Finish
  <2>2. /\ mvc'.data = mvc.data /\ mvc'.completed = mvc.completed /\ mvc' \in MvcBlock
    BY <1>1, <2>1 DEF MvcBlock, IInv, MvcTypeOK
  <2> QED BY <1>1, <1>2, <2>1, <2>2
<1>5. CASE Call
  <2>1. mvc'.data = mvc.data /\ mvc' \in MvcBlock
    BY <1>1, <1>5 DEF Call, MvcBlock
  <2> QED BY <1>1, <1>2, <1>5, <2>1 DEF Call
<1>6. CASE Fails
  BY <1>1, <1>6 DEF Fails
<1>7. CASE Forwards
  <2> DEFINE j == [mvc EXCEPT !.view = None]
  <2>1. j \in MvcBlock /\ j.data = mvc.data /\ j.completed = mvc.completed
    BY <1>1, <1>7 DEF Forwards, MvcBlock
  <2>2. mvc' = [j EXCEPT !.attributes = <<>>] /\ promised' = promised
        /\ pc = "call" /\ pc' = "lookup"
    BY <1>7 DEF Forwards
  <2> HIDE DEF j
  <2>3. mvc' \in MvcBlock /\ mvc'.data = j.data /\ mvc'.completed = j.completed
    <3>1. <<>> \in Seq(Attribute)
      OBVIOUS
    <3> QED BY <2>1, <2>2, <3>1 DEF MvcBlock
  <2> QED BY <1>1, <1>2, <2>1, <2>2, <2>3
<1>8. CASE ControllerCalls
  <2>1. pc = "call" /\ pc' = pc /\ mvc \in MvcBlock /\ mvc # None
    BY <1>1, <1>8 DEF ControllerCalls, InController, SetView, SetAttribute, SetCallback
  <2>2. CASE \E v \in Views[url] : SetView(v)
    <3>1. mvc'.data = mvc.data /\ mvc'.completed = mvc.completed /\ promised' = promised
      BY <2>1, <2>2 DEF SetView, MvcBlock
    <3>2. mvc' # None
      <4>1. PICK v \in Views[url] : SetView(v)
        BY <2>2
      <4>2. PICK w \in {v, None} : mvc' = [mvc EXCEPT !.view = w]
        BY <4>1 DEF SetView
      <4>3. w \in Urls \cup {None}
        BY <2>1, <4>2, MvcAssumption DEF IInv, Ownership
      <4>4. mvc' \in MvcBlock
        BY <2>1, <4>2, <4>3 DEF MvcBlock
      <4> QED BY <4>4, <1>2
    <3> QED BY <2>1, <3>1, <3>2
  <2>3. CASE \E name \in Names, value \in Values : SetAttribute(name, value)
    <3>1. PICK name \in Names, value \in Values : SetAttribute(name, value)
      BY <2>3
    <3> DEFINE x == [name |-> name, value |-> value]
               q == <<x>> \o mvc.attributes
    <3>2. q \in Seq(Attribute)
      <4>1. x \in Attribute /\ mvc.attributes \in Seq(Attribute)
        BY <2>1 DEF Attribute, MvcBlock
      <4> HIDE DEF x
      <4> QED BY <4>1
    <3>3. mvc' = [mvc EXCEPT !.attributes = q] /\ promised' = promised
      BY <3>1 DEF SetAttribute
    <3> HIDE DEF q
    <3>4. mvc'.data = mvc.data /\ mvc'.completed = mvc.completed /\ mvc' \in MvcBlock
      BY <2>1, <3>2, <3>3 DEF MvcBlock
    <3> QED BY <1>2, <2>1, <3>3, <3>4
  <2>4. CASE \E data \in Cookies : SetCallback(data)
    <3>1. PICK data \in Cookies : SetCallback(data)
      BY <2>4
    <3>2. /\ mvc'.data = data /\ mvc'.completed = TRUE /\ promised' = data
      BY <2>1, <3>1 DEF SetCallback, MvcBlock
    <3>3. mvc' # None
      BY <2>1, <3>1, <1>2 DEF SetCallback, MvcBlock
    <3> QED BY <2>1, <3>2, <3>3
  <2> QED BY <1>8, <2>2, <2>3, <2>4 DEF ControllerCalls
<1>9. CASE UNCHANGED vars
  BY <1>9 DEF vars
<1> QED BY <1>3, <1>4, <1>5, <1>6, <1>7, <1>8, <1>9 DEF Next

\* The data of a callback stays in the mvc until it is given back with the callback,
\* or an assertion finds it (mvc.c:39-46, 131).
THEOREM NoDataIsForgotten == Spec => []DataIsKept
<1>1. Init => DataInv
  BY DEF Init, DataInv
<1>2. IInv /\ DataInv /\ [Next]_vars => DataInv'
  BY DataNext
<1>3. IInv /\ DataInv => DataIsKept
  BY DEF DataInv, DataIsKept
<1> QED BY <1>1, <1>2, <1>3, SpecIInv, PTL DEF Spec

\* Where controllers register no data, none of the three assertions of the chain
\* fails (mvc.c:36-41), nor the one of the release (mvc.c:131).
THEOREM AssertionsHoldWithoutData ==
  ASSUME Cookies \subseteq {None}
  PROVE  Spec => [](pc # "failed")
<1>1. IInv /\ DataIsKept => pc # "failed"
  BY DEF IInv, MvcTypeOK, MvcBlock, DataIsKept
<1> QED BY <1>1, SpecIInv, NoDataIsForgotten, PTL

-----------------------------------------------------------------------------
\* What has finished in this request leads to the url.
LedHere == url # None => \A f \in finished : Reaches(f, url)

\* A step of the chain: a view of v is reached from whatever v is reached from, and
\* from v itself.
LEMMA ReachesOn ==
  ASSUME NEW v \in Controllers, NEW w \in Leads(v)
  PROVE  Reaches(v, w) /\ \A u : Reaches(u, v) => Reaches(u, w)
BY DEF Reaches, Closed

\* A controller runs twice for a request only when the views set by controllers can
\* lead back to it (mvc.c:45-48, 83-97).
THEOREM RepeatsAreOnCycles == Spec => []NoControllerTwice
<1>1. Init => LedHere
  BY DEF Init, LedHere
<1>2. ASSUME IInv, LedHere, [Next]_vars PROVE LedHere'
  <2> USE DEF LedHere
  <2>1. CASE Forwards
    <3>1. /\ url \in Controllers /\ url # None /\ mvc.view \in Leads(url)
          /\ url' = mvc.view /\ finished' = finished \cup {url}
      BY <1>2, <2>1, MvcAssumption DEF Forwards, IInv, Ownership, Leads
    <3>2. ASSUME NEW u \in finished' PROVE Reaches(u, mvc.view)
      BY <1>2, <3>1, ReachesOn
    <3> QED BY <3>1, <3>2 DEF Reaches
  <2>2. CASE ControllerCalls
    BY <1>2, <2>2 DEF ControllerCalls, SetView, SetAttribute, SetCallback
  <2>3. CASE ~ (Forwards \/ ControllerCalls)
    BY <1>2, <2>3 DEF Next, vars, Request, Configure, Abandon, NoController, Call, Fails, Keeps,
                      SetsItself, Dispose, Finish
  <2> QED BY <2>1, <2>2, <2>3
<1>3. IInv /\ LedHere => NoControllerTwice
  BY MvcAssumption DEF IInv, Ownership, LedHere, NoControllerTwice, OnCycle
<1> QED BY <1>1, <1>2, <1>3, SpecIInv, PTL DEF Spec
=============================================================================
