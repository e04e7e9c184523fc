--------------------------- MODULE ResourcesProofs ---------------------------
(***************************************************************************)
(* The safety of resources and files, for any number of clients, handles   *)
(* of the application, places for files, paths and contents.               *)
(***************************************************************************)
EXTENDS Resources, FiniteSetTheorems, DataLemmas

-----------------------------------------------------------------------------
(* The inductive invariant.                                                *)

Ram == [node : [Nodes -> Node \cup {None}], list : Seq(Nodes)]

Handle ==
  [partition : {"ram", "rom", "disk"}, mode : {"READ", "WRITE"},
   fd : Nodes \cup DOMAIN Rom \cup DOMAIN Disk, pos : Nat, seen : Seq(Byte)]

Handles == [Clients \cup Apps -> Handle \cup {Closed}]

\* There is a file behind the handle f.
HasFile(r, f) ==
  \/ f.partition = "ram" /\ f.fd \in Nodes /\ r.node[f.fd] # None
  \/ f.partition = "rom" /\ f.fd \in DOMAIN Rom
  \/ f.partition = "disk" /\ f.fd \in DOMAIN Disk

\* What was read through f is its file up to pos.
ReadSoFar(r, f) ==
  f.pos <= Len(Content(r, f)) /\ f.seen = SubSeq(Content(r, f), 1, f.pos)

IsOpen(r, f, mode) ==
  f \in Handle /\ f.mode = mode /\ HasFile(r, f) /\ (mode = "READ" => ReadSoFar(r, f))

ModeOf(h) == IF h \in Clients THEN "READ" ELSE "WRITE"

ResTypeOK ==
  /\ ram \in Ram /\ failed \in BOOLEAN
  /\ file \in [Clients \cup Apps -> Handle \cup {Closed}]
  /\ resource \in [Clients -> ResourceBlock \cup {None}]
  /\ heap \in [Clients -> [resource : Nat, priv : Nat]]

HandlesValid == \A h \in Clients \cup Apps : file[h] = Closed \/ IsOpen(ram, file[h], ModeOf(h))

\* Unlinked nodes are kept, linked ones are not freed.
LinkedAreThere == \A i \in DOMAIN ram.list : ram.node[ram.list[i]] # None

\* A file has one writer and no reader, or no writer.
CountsExclude ==
  \A n \in Nodes : ram.node[n] # None =>
    ram.node[n].writers = 0 \/ (ram.node[n].writers = 1 /\ ram.node[n].readers = 0)

\* A reader as it is between the calls: nothing ever fills it (resource.c:214).
Begun == [Fresh EXCEPT !.reset = FALSE]
Idle == {Fresh, Begun}

\* What a resource has given and will give.
Gave(r, f, res) ==
  IF res.priv = None
    THEN /\ res.out = f.seen /\ res.size = Len(Content(r, f))
         /\ res.ended => f.pos = Len(Content(r, f))
    ELSE res.priv \in Idle /\ res.out = <<>> /\ res.size = 0
Answers ==
  \A c \in Clients : resource[c] # None =>
    file[c] # Closed /\ Gave(ram, file[c], resource[c])

\* The two parts of HandlesCounted.
NodesCounted ==
  \A n \in Nodes : ram.node[n] # None =>
    /\ ram.node[n].readers = Cardinality(OpenOn(n, "READ"))
    /\ ram.node[n].writers = Cardinality(OpenOn(n, "WRITE"))
OpenWithResource ==
  \A c \in Clients : ~ failed => (file[c] = Closed <=> resource[c] = None)

\* The files and their handles, and what clients hold.
FilesOK ==
  /\ ram \in Ram /\ file \in Handles
  /\ HandlesValid /\ LinkedAreThere /\ NamesAreUnique /\ CountsExclude /\ NodesCounted
ClientsOK ==
  /\ resource \in [Clients -> ResourceBlock \cup {None}] /\ failed \in BOOLEAN
  /\ heap \in [Clients -> [resource : Nat, priv : Nat]]
  /\ Answers /\ OpenWithResource /\ HeapIsHeld

IInv == FilesOK /\ ClientsOK

-----------------------------------------------------------------------------
(* Handles and what they read.                                             *)

LEMMA ClosedIs ==
  /\ Closed.mode = "NA" /\ Closed.mode \notin {"READ", "WRITE"}
  /\ \A f \in Handle : f # Closed
<1>1. Closed.mode = "NA"
  BY DEF Closed
<1>2. ASSUME NEW f \in Handle PROVE f.mode # "NA"
  BY DEF Handle
<1> QED BY <1>1, <1>2

LEMMA ContentIs ==
  ASSUME NEW r \in Ram, NEW f \in Handle, HasFile(r, f)
  PROVE  /\ f.partition = "ram" => f.fd \in Nodes /\ r.node[f.fd] \in Node
                                  /\ Content(r, f) = r.node[f.fd].data
         /\ f.partition # "ram" => \A s : Content(s, f) = Content(r, f)
         /\ Content(r, f) \in Seq(Byte) /\ Len(Content(r, f)) \in Nat
<1>1. CASE f.partition = "ram"
  <2>1. f.fd \in Nodes /\ r.node[f.fd] \in Node
    BY <1>1 DEF HasFile, Ram
  <2>2. Content(r, f) = r.node[f.fd].data
    BY <1>1 DEF Content
  <2>3. r.node[f.fd].data \in Seq(Byte)
    BY <2>1 DEF Node
  <2> QED BY <1>1, <2>1, <2>2, <2>3, LenProperties
<1>2. CASE f.partition = "rom"
  <2>1. \A s : Content(s, f) = Rom[f.fd]
    BY <1>2 DEF Content
  <2>2. Rom[f.fd] \in Seq(Byte)
    BY <1>2, FilesAssumption DEF HasFile
  <2> QED BY <1>2, <2>1, <2>2, LenProperties
<1>3. CASE f.partition = "disk"
  <2>1. \A s : Content(s, f) = Disk[f.fd]
    BY <1>3 DEF Content
  <2>2. Disk[f.fd] \in Seq(Byte)
    BY <1>3, FilesAssumption DEF HasFile
  <2> QED BY <1>3, <2>1, <2>2, LenProperties
<1> QED BY <1>1, <1>2, <1>3 DEF Handle

\* Reading on keeps what was read, gives what follows it, and gives nothing only at
\* the end.
LEMMA FreadIs ==
  ASSUME NEW r \in Ram, NEW f \in Handle, IsOpen(r, f, "READ"), NEW size \in Nat \ {0}
  PROVE  LET g == fread(r, f, size)
             bytes == SubSeq(g.seen, Len(f.seen) + 1, Len(g.seen))
         IN  /\ IsOpen(r, g, "READ") /\ g \in Handle
             /\ g.partition = f.partition /\ g.mode = f.mode /\ g.fd = f.fd
             /\ bytes \in Seq(Byte) /\ g.seen = f.seen \o bytes
             /\ bytes = <<>> => g.pos = Len(Content(r, g))
<1> DEFINE text == Content(r, f)
           m == Min({f.pos + size, Len(text)})
           more == SubSeq(text, f.pos + 1, m)
           g == fread(r, f, size)
<1>1. /\ text \in Seq(Byte) /\ Len(text) \in Nat
      /\ f.pos \in Nat /\ f.pos <= Len(text) /\ f.seen = SubSeq(text, 1, f.pos)
  BY ContentIs DEF IsOpen, ReadSoFar, Handle
<1>2. m = (IF f.pos + size <= Len(text) THEN f.pos + size ELSE Len(text))
  BY <1>1 DEF Min
<1>3. m \in Nat /\ f.pos <= m /\ m <= Len(text) /\ (m = f.pos => f.pos = Len(text))
  BY <1>1, <1>2
<1> HIDE DEF m
<1>4. more \in Seq(Byte) /\ Len(more) = m - f.pos
  BY <1>1, <1>3, SubSeqProperties, ElementOfSeq
<1> HIDE DEF text
<1>5. f.seen \o more = SubSeq(text, 1, m)
  <2>1. 1 \in 1 .. Len(text) + 1 /\ f.pos \in 1 - 1 .. Len(text) /\ m \in f.pos .. Len(text)
    BY <1>1, <1>3
  <2>2. SubSeq(text, 1, f.pos) \o SubSeq(text, f.pos + 1, m) = SubSeq(text, 1, m)
    BY <1>1, <2>1, ConcatAdjacentSubSeq
  <2> QED BY <1>1, <2>2
<1>6. f.seen \in Seq(Byte) /\ Len(f.seen) = f.pos
  BY <1>1, SubSeqProperties, ElementOfSeq
<1>7. g = [f EXCEPT !.pos = @ + Len(more), !.seen = @ \o more]
  BY DEF fread, m, fsize, text
<1> HIDE DEF g, more
<1>8. g = [f EXCEPT !.pos = m, !.seen = SubSeq(text, 1, m)]
  <2>1. f.pos + Len(more) = m
    BY <1>1, <1>3, <1>4
  <2> QED BY <1>5, <1>7, <2>1 DEF Handle
<1>9. f.seen \o more \in Seq(Byte)
  BY <1>4, <1>6, ConcatProperties
<1>10. g \in Handle /\ g.pos = m /\ g.seen = SubSeq(text, 1, m)
       /\ g.partition = f.partition /\ g.mode = f.mode /\ g.fd = f.fd
  BY <1>3, <1>5, <1>8, <1>9 DEF Handle
<1>11. Content(r, g) = text
  BY <1>10 DEF Content, text
<1>12. IsOpen(r, g, "READ")
  BY <1>3, <1>10, <1>11 DEF IsOpen, HasFile, ReadSoFar
<1>13. SubSeq(g.seen, Len(f.seen) + 1, Len(g.seen)) = more
  <2>1. SubSeq(f.seen \o more, Len(f.seen) + 1, Len(f.seen \o more)) = more
    BY <1>4, <1>6, BehindFirst
  <2> QED BY <1>5, <1>10, <2>1
<1>14. more = <<>> => m = f.pos
  BY <1>1, <1>3, <1>4, EmptySeq
<1> QED BY <1>3, <1>4, <1>5, <1>10, <1>11, <1>12, <1>13, <1>14, <1>1 DEF g

-----------------------------------------------------------------------------
(* The list of the partition.                                              *)

LEMMA MinIs ==
  ASSUME NEW T \in SUBSET Nat, T # {}
  PROVE  Min(T) \in T
BY LeastIn DEF Min

LEMMA FindIs ==
  ASSUME NEW r \in Ram, NEW name
  PROVE  /\ Named(r, name) \subseteq DOMAIN r.list
         /\ Find(r, name) = None <=> Named(r, name) = {}
         /\ Find(r, name) # None =>
              /\ Min(Named(r, name)) \in DOMAIN r.list
              /\ Find(r, name) = r.list[Min(Named(r, name))]
              /\ Find(r, name) \in Nodes /\ r.node[Find(r, name)].name = name
<1>1. /\ DOMAIN r.list = 1 .. Len(r.list) /\ Len(r.list) \in Nat
      /\ \A i \in DOMAIN r.list : r.list[i] \in Nodes
  BY LenProperties, ElementOfSeq DEF Ram
<1>2. Named(r, name) \subseteq DOMAIN r.list /\ Named(r, name) \in SUBSET Nat
  BY <1>1 DEF Named
<1>3. CASE Named(r, name) = {}
  BY <1>2, <1>3 DEF Find
<1>4. CASE Named(r, name) # {}
  <2>1. Min(Named(r, name)) \in Named(r, name)
    BY <1>2, <1>4, MinIs
  <2>2. Find(r, name) = r.list[Min(Named(r, name))]
    BY <1>4 DEF Find
  <2>3. r.node[r.list[Min(Named(r, name))]].name = name
    BY <2>1 DEF Named
  <2>4. Min(Named(r, name)) \in DOMAIN r.list /\ Find(r, name) \in Nodes
    BY <1>1, <1>2, <2>1, <2>2
  <2>5. Find(r, name) # None
    BY <2>4, FsRamAssumption
  <2> QED BY <1>2, <1>4, <2>2, <2>3, <2>4, <2>5
<1> QED BY <1>3, <1>4

\* Taking an entry out leaves the others, in order.
LEMMA RemoveAtIs ==
  ASSUME NEW S, NEW s \in Seq(S), NEW k \in DOMAIN s
  PROVE  /\ RemoveAt(s, k) \in Seq(S) /\ Len(RemoveAt(s, k)) = Len(s) - 1
         /\ \A i \in DOMAIN RemoveAt(s, k) :
              /\ i \in DOMAIN s /\ i + 1 \in DOMAIN s
              /\ RemoveAt(s, k)[i] = IF i < k THEN s[i] ELSE s[i + 1]
<1>1. Len(s) \in Nat /\ DOMAIN s = 1 .. Len(s) /\ k \in 1 .. Len(s)
      /\ \A i \in 1 .. Len(s) : s[i] \in S
  BY LenProperties, ElementOfSeq
<1>2. ASSUME NEW a, NEW b, a = SubSeq(s, 1, k - 1), b = SubSeq(s, k + 1, Len(s))
      PROVE  /\ a \o b \in Seq(S) /\ Len(a \o b) = Len(s) - 1
             /\ \A i \in 1 .. Len(s) - 1 : (a \o b)[i] = IF i < k THEN s[i] ELSE s[i + 1]
  <2>1. a \in Seq(S) /\ Len(a) = k - 1 /\ \A i \in 1 .. k - 1 : a[i] = s[i]
    <3>1. \A i \in 1 .. k - 1 : s[i] \in S
      BY <1>1
    <3>2. /\ a \in Seq(S) /\ Len(a) = IF 1 <= k - 1 THEN k - 1 - 1 + 1 ELSE 0
          /\ \A i \in 1 .. k - 1 - 1 + 1 : a[i] = s[1 + i - 1]
      BY <1>1, <1>2, <3>1, SubSeqProperties
    <3> QED BY <1>1, <3>2
  <2>2. b \in Seq(S) /\ Len(b) = Len(s) - k /\ \A i \in 1 .. Len(s) - k : b[i] = s[k + i]
    <3>1. \A i \in k + 1 .. Len(s) : s[i] \in S
      BY <1>1
    <3>2. /\ b \in Seq(S) /\ Len(b) = IF k + 1 <= Len(s) THEN Len(s) - (k + 1) + 1 ELSE 0
          /\ \A i \in 1 .. Len(s) - (k + 1) + 1 : b[i] = s[k + 1 + i - 1]
      BY <1>1, <1>2, <3>1, SubSeqProperties
    <3>3. Len(b) = Len(s) - k
      BY <1>1, <3>2
    <3>4. ASSUME NEW i \in 1 .. Len(s) - k PROVE b[i] = s[k + i]
      <4>1. i \in 1 .. Len(s) - (k + 1) + 1 /\ k + 1 + i - 1 = k + i
        BY <1>1
      <4>2. b[i] = s[k + 1 + i - 1]
        BY <3>2, <4>1
      <4> QED BY <4>1, <4>2
    <3> QED BY <3>2, <3>3, <3>4
  <2>3. /\ a \o b \in Seq(S) /\ Len(a \o b) = Len(a) + Len(b)
        /\ \A i \in 1 .. Len(a) + Len(b) :
             (a \o b)[i] = IF i <= Len(a) THEN a[i] ELSE b[i - Len(a)]
    BY <2>1, <2>2, ConcatProperties
  <2>4. Len(a) + Len(b) = Len(s) - 1
    BY <1>1, <2>1, <2>2
  <2>5. ASSUME NEW i \in 1 .. Len(s) - 1
        PROVE  (a \o b)[i] = IF i < k THEN s[i] ELSE s[i + 1]
    <3>1. CASE i < k
      <4>1. i <= Len(a) /\ i \in 1 .. k - 1
        BY <1>1, <2>1, <3>1
      <4>2. a[i] = s[i]
        BY <2>1, <4>1
      <4>4. i \in 1 .. Len(a) + Len(b)
        BY <2>4
      <4>3. (a \o b)[i] = a[i]
        BY <2>3, <4>1, <4>4
      <4> QED BY <3>1, <4>2, <4>3
    <3>2. CASE ~ (i < k)
      <4>1. ~ (i <= Len(a)) /\ i - Len(a) \in 1 .. Len(s) - k /\ k + (i - Len(a)) = i + 1
        BY <1>1, <2>1, <3>2
      <4>2. b[i - Len(a)] = s[k + (i - Len(a))]
        BY <2>2, <4>1
      <4> QED BY <2>3, <2>4, <3>2, <4>1, <4>2
    <3> QED BY <3>1, <3>2
  <2> QED BY <2>3, <2>4, <2>5
<1>3. /\ RemoveAt(s, k) \in Seq(S) /\ Len(RemoveAt(s, k)) = Len(s) - 1
      /\ \A i \in 1 .. Len(s) - 1 : RemoveAt(s, k)[i] = IF i < k THEN s[i] ELSE s[i + 1]
  BY <1>2 DEF RemoveAt
<1>4. DOMAIN RemoveAt(s, k) = 1 .. Len(s) - 1
  BY <1>3, LenProperties
<1>5. \A i \in 1 .. Len(s) - 1 : i \in 1 .. Len(s) /\ i + 1 \in 1 .. Len(s)
  BY <1>1
<1> QED BY <1>1, <1>3, <1>4, <1>5

ListOK(r) ==
  /\ \A i \in DOMAIN r.list : r.node[r.list[i]] # None
  /\ \A i, j \in DOMAIN r.list : r.node[r.list[i]].name = r.node[r.list[j]].name => i = j

\* fremove unlinks a node and leaves all nodes as they are.
LEMMA FremoveIs ==
  ASSUME NEW r \in Ram, ListOK(r), NEW name, Find(r, name) # None
  PROVE  /\ ram_fremove(r, name) \in Ram /\ ListOK(ram_fremove(r, name))
         /\ ram_fremove(r, name).node = r.node
<1> DEFINE k == Min(Named(r, name))
           s == RemoveAt(r.list, k)
           q == ram_fremove(r, name)
<1>1. r.list \in Seq(Nodes) /\ k \in DOMAIN r.list
  BY FindIs DEF Ram
<1> HIDE DEF k
<1>2. /\ s \in Seq(Nodes)
      /\ \A i \in DOMAIN s : /\ i \in DOMAIN r.list /\ i + 1 \in DOMAIN r.list
                             /\ s[i] = IF i < k THEN r.list[i] ELSE r.list[i + 1]
  BY <1>1, RemoveAtIs
<1>3. q = [r EXCEPT !.list = s]
  BY DEF ram_fremove, k
<1> HIDE DEF s, q
<1>4. q \in Ram /\ q.node = r.node /\ q.list = s
  BY <1>2, <1>3 DEF Ram
<1>5. k \in Nat /\ DOMAIN s \subseteq Nat
  <2>1. DOMAIN r.list \subseteq Nat
    BY <1>1, LenProperties
  <2> QED BY <1>1, <1>2, <2>1
<1>6. ASSUME NEW i \in DOMAIN s, NEW j \in DOMAIN s, r.node[s[i]].name = r.node[s[j]].name
      PROVE  i = j
  <2> DEFINE a == IF i < k THEN i ELSE i + 1
             b == IF j < k THEN j ELSE j + 1
  <2>1. a \in DOMAIN r.list /\ b \in DOMAIN r.list /\ s[i] = r.list[a] /\ s[j] = r.list[b]
    BY <1>2
  <2>2. a = b
    <3> HIDE DEF a, b
    <3> QED BY <1>6, <2>1 DEF ListOK
  <2> QED BY <1>5, <2>2
<1>7. ASSUME NEW i \in DOMAIN s PROVE r.node[s[i]] # None
  BY <1>2 DEF ListOK
<1> QED BY <1>4, <1>6, <1>7 DEF ListOK, q

-----------------------------------------------------------------------------
(* Opening and closing.                                                    *)

LEMMA PartitionIs ==
  ASSUME NEW path
  PROVE  PartitionOf(path) \in {None, "ram", "rom", "disk"}
<1> DEFINE is(p) == IsPrefix(IF Head(path) = "/" THEN VrtRoot(p) ELSE Tail(VrtRoot(p)), path)
           at == {i \in DOMAIN Partitions : is(Partitions[i])}
<1>1. DOMAIN Partitions = 1 .. 3 /\ \A i \in 1 .. 3 : Partitions[i] \in {"ram", "rom", "disk"}
  BY DEF Partitions
<1>2. at \in SUBSET Nat /\ at \subseteq 1 .. 3
  BY <1>1
<1>3. PartitionOf(path) = IF at = {} THEN None ELSE Partitions[Min(at)]
  BY DEF PartitionOf
<1> HIDE DEF at
<1>4. at # {} => Min(at) \in at
  BY <1>2, MinIs
<1> QED BY <1>1, <1>2, <1>3, <1>4

\* f has just been opened on r, and q is the partition then.
OpenedFor(r, q, f, mode) ==
  /\ f \in Handle /\ f.mode = mode /\ f.pos = 0 /\ f.seen = <<>>
  /\ HasFile(r, f)
  /\ IF f.partition = "ram"
       THEN r.node[f.fd].writers = 0 /\ q = [r EXCEPT !.node[f.fd].readers = @ + 1]
       ELSE q = r

LEMMA OpenIs ==
  ASSUME NEW p \in {"ram", "rom", "disk"}, NEW mode \in {"READ", "WRITE"},
         NEW fd \in Nodes \cup DOMAIN Rom \cup DOMAIN Disk
  PROVE  /\ Open(p, mode, fd) \in Handle /\ Open(p, mode, fd).partition = p
         /\ Open(p, mode, fd).mode = mode /\ Open(p, mode, fd).fd = fd
         /\ Open(p, mode, fd).pos = 0 /\ Open(p, mode, fd).seen = <<>>
BY EmptySeq DEF Open, Handle

LEMMA FopenRead ==
  ASSUME NEW r \in Ram, ListOK(r), NEW path, NEW o \in fopen(r, path, "READ")
  PROVE  /\ o = Outcome(o.err, o.ram, o.file)
         /\ IF o.err = "OK" THEN OpenedFor(r, o.ram, o.file, "READ")
            ELSE o.err # "ASSERT" /\ o.ram = r /\ o.file = Closed
<1> DEFINE p == PartitionOf(path)
           name == AbsPath(path)
           n == Find(r, name)
<1>1. p \in {None, "ram", "rom", "disk"}
  BY PartitionIs
<1>2. CASE p = None
  <2>1. o = Outcome("FILENOTFOUND", r, Closed)
    BY <1>2, FilesAssumption DEF fopen
  <2> QED BY <2>1 DEF Outcome
<1>3. CASE p = "disk"
  <2>1. o = IF name \in DOMAIN Disk THEN Outcome("OK", r, Open("disk", "READ", name))
            ELSE Outcome("FILENOTFOUND", r, Closed)
    BY <1>3, FilesAssumption DEF fopen
  <2> QED BY <2>1, OpenIs DEF Outcome, OpenedFor, HasFile
<1>4. CASE p = "rom"
  <2>1. o = IF name \in DOMAIN Rom THEN Outcome("OK", r, Open("rom", "READ", name))
            ELSE Outcome("FILENOTFOUND", r, Closed)
    BY <1>4, FilesAssumption DEF fopen
  <2> QED BY <2>1, OpenIs DEF Outcome, OpenedFor, HasFile
<1>5. CASE p = "ram"
  <2>1. o = ram_fopen_read(r, name)
    BY <1>5, FilesAssumption DEF fopen
  <2>2. CASE n = None \/ (n # None /\ r.node[n].writers > 0)
    BY <2>1, <2>2 DEF ram_fopen_read, Outcome
  <2>3. CASE n # None /\ ~ (r.node[n].writers > 0)
    <3>1. o = Outcome("OK", [r EXCEPT !.node[n].readers = @ + 1], Open("ram", "READ", n))
      BY <2>1, <2>3 DEF ram_fopen_read
    <3>2. n \in Nodes /\ r.node[n] # None
      <4>1. n = r.list[Min(Named(r, name))] /\ Min(Named(r, name)) \in DOMAIN r.list
            /\ n \in Nodes
        BY <2>3, FindIs
      <4> QED BY <4>1 DEF ListOK
    <3>3. r.node[n].writers = 0
      BY <2>3, <3>2 DEF Ram, Node
    <3> HIDE DEF n
    <3>4. OpenedFor(r, [r EXCEPT !.node[n].readers = @ + 1], Open("ram", "READ", n), "READ")
      BY <3>2, <3>3, OpenIs DEF OpenedFor, HasFile
    <3> QED BY <3>1, <3>4 DEF Outcome
  <2> QED BY <2>2, <2>3
<1> QED BY <1>1, <1>2, <1>3, <1>4, <1>5

\* The outcomes of opening for writing: a new node, a DISK file, or none.
Creates(r, o, m, name) ==
  /\ m \in Nodes /\ r.node[m] = None /\ name \in Names /\ Named(r, name) = {}
  /\ o.ram = [node |-> [r.node EXCEPT ![m] = NewNode(name)], list |-> <<m>> \o r.list]
  /\ o.file = Open("ram", "WRITE", m)
OpensDisk(r, o) ==
  \E name \in DOMAIN Disk : o.ram = r /\ o.file = Open("disk", "WRITE", name)
Unlinks(r, o) ==
  \E name : Find(r, name) # None /\ o.ram = ram_fremove(r, name) /\ o.file = Closed

LEMMA FopenWrite ==
  ASSUME NEW r \in Ram, NEW path \in Paths, NEW o \in fopen(r, path, "WRITE")
  PROVE  \/ o.ram = r /\ o.file = Closed
         \/ Unlinks(r, o)
         \/ OpensDisk(r, o)
         \/ \E m, name : Creates(r, o, m, name)
<1> DEFINE p == PartitionOf(path)
           name == AbsPath(path)
           n == Find(r, name)
<1>1. p \in {None, "ram", "rom", "disk"}
  BY PartitionIs
<1>2. CASE p = None \/ p = "rom"
  BY <1>2, FilesAssumption DEF fopen, Outcome
<1>3. CASE p = "disk"
  <2>1. o = IF name \in DOMAIN Disk THEN Outcome("OK", r, Open("disk", "WRITE", name))
            ELSE Outcome("FILENOTFOUND", r, Closed)
    BY <1>3, FilesAssumption DEF fopen
  <2> QED BY <2>1 DEF Outcome, OpensDisk
<1>4. CASE p = "ram"
  <2>1. o \in ram_fopen_write(r, name)
    BY <1>4, FilesAssumption DEF fopen
  <2>2. CASE n # None
    <3>1. \/ o = Outcome("FATAL", r, Closed)
          \/ o = Outcome("FATAL", ram_fremove(r, name), Closed)
      BY <2>1, <2>2 DEF ram_fopen_write
    <3>2. CASE o = Outcome("FATAL", r, Closed)
      BY <3>2 DEF Outcome
    <3>3. CASE o = Outcome("FATAL", ram_fremove(r, name), Closed)
      <4>1. o.ram = ram_fremove(r, name) /\ o.file = Closed
        BY <3>3 DEF Outcome
      <4> QED BY <2>2, <4>1 DEF Unlinks
    <3> QED BY <3>1, <3>2, <3>3
  <2>3. CASE n = None
    <3>1. name \in Names
      BY <1>4, ResourcesAssumption
    <3>2. Named(r, name) = {}
      BY <2>3, FindIs
    <3>3. CASE o = Outcome("POLL", r, Closed)
      BY <3>3 DEF Outcome
    <3>4. ASSUME NEW m \in Nodes, r.node[m] = None,
                 o = Outcome("OK", [node |-> [r.node EXCEPT ![m] = NewNode(name)],
                                    list |-> <<m>> \o r.list], Open("ram", "WRITE", m))
          PROVE  Creates(r, o, m, name)
      <4> HIDE DEF name
      <4> QED BY <3>1, <3>2, <3>4 DEF Outcome, Creates
    <3>5. \/ o = Outcome("POLL", r, Closed)
          \/ \E m \in {m \in Nodes : r.node[m] = None} :
               o = Outcome("OK", [node |-> [r.node EXCEPT ![m] = NewNode(name)],
                                  list |-> <<m>> \o r.list], Open("ram", "WRITE", m))
      <4> HIDE DEF name
      <4> QED BY <2>1, <2>3 DEF ram_fopen_write, n
    <3> QED BY <3>3, <3>4, <3>5
  <2> QED BY <2>2, <2>3
<1> QED BY <1>1, <1>2, <1>3, <1>4

-----------------------------------------------------------------------------
(* Reading a page with attributes: the buffer is never filled.             *)

\* A loop that ends in its first round ends as that round does.
LEMMA LoopEnds ==
  ASSUME NEW s, NEW attributes, NEW size \in Nat \ {0}, NEW t,
         ~ s.end, s.out = <<>>, Rounds(s, size) \in Nat \ {0},
         t = Round(s, attributes, size), t.end
  PROVE  Loop(s, attributes, size) = t
<1> DEFINE R == Rounds(s, size)
           next(u) == Loops(u, attributes, size)
           loop(f) == f = [n \in 0 .. R |-> IF n = 0 THEN s ELSE next(f[n - 1])]
           g == [n \in 0 .. R |-> IF n = 0 THEN s ELSE t]
           after == CHOOSE f : loop(f)
<1>1. next(s) = t /\ next(t) = t
  <2>1. ~ (Len(s.out) >= size)
    BY EmptySeq
  <2> QED BY <2>1 DEF Loops
<1>2. Loop(s, attributes, size) = after[R]
  BY DEF Loop
<1>3. R \in Nat \ {0}
  OBVIOUS
<1> HIDE DEF R, next
<1>4. loop(g)
  <2>1. ASSUME NEW n \in 0 .. R PROVE g[n] = IF n = 0 THEN s ELSE next(g[n - 1])
    <3>1. CASE n = 0
      BY <3>1
    <3>2. CASE n # 0
      <4>1. n - 1 \in 0 .. R
        BY <1>3, <3>2
      <4>2. g[n - 1] = (IF n - 1 = 0 THEN s ELSE t) /\ g[n] = t
        BY <3>2, <4>1
      <4> HIDE DEF g
      <4> QED BY <1>1, <3>2, <4>2
    <3> QED BY <3>1, <3>2
  <2>2. g = [n \in 0 .. R |-> g[n]]
    OBVIOUS
  <2> HIDE DEF g
  <2>3. [n \in 0 .. R |-> g[n]] = [n \in 0 .. R |-> IF n = 0 THEN s ELSE next(g[n - 1])]
    BY <2>1
  <2> QED BY <2>2, <2>3
<1>5. loop(after)
  <2> HIDE DEF loop, g
  <2> QED BY <1>4
<1> HIDE DEF after
<1>6. after = [n \in 0 .. R |-> IF n = 0 THEN s ELSE next(after[n - 1])]
  BY <1>5
<1>7. after[1] = t
  <2>1. 0 \in 0 .. R /\ 1 \in 0 .. R /\ 1 # 0 /\ 1 - 1 = 0
    BY <1>3
  <2>2. after[0] = s /\ after[1] = next(after[1 - 1])
    BY <1>6, <2>1
  <2> QED BY <1>1, <2>1, <2>2
<1>8. ASSUME NEW n \in 2 .. R, after[n - 1] = t PROVE after[n] = t
  <2>1. n \in 0 .. R /\ n # 0
    BY <1>3
  <2>2. after[n] = next(after[n - 1])
    BY <1>6, <2>1
  <2> QED BY <1>1, <1>8, <2>2
<1>9. after[R] = t
  BY <1>3, <1>7, <1>8, Steady
<1> QED BY <1>2, <1>9

LEMMA BegunIs ==
  /\ Fresh \in Reader /\ Fresh.reset
  /\ Begun \in Reader /\ ~ Begun.reset
  /\ Begun.value = None /\ Begun.index0 = 0 /\ Begun.index1 = 0
<1>1. /\ Fresh \in Reader /\ Fresh.reset
      /\ Fresh.value = None /\ Fresh.index0 = 0 /\ Fresh.index1 = 0
  BY EmptySeq DEF Fresh, Reader
<1>2. Begun = [Fresh EXCEPT !.reset = FALSE]
  BY DEF Begun
<1> QED BY <1>1, <1>2 DEF Reader

\* The file is requested from its beginning, or stays where it is.
Begins(p, f) == IF p.reset THEN fseek(f, 0) ELSE f

LEMMA BeginsIs ==
  ASSUME NEW r \in Ram, NEW f \in Handle, IsOpen(r, f, "READ"), NEW p
  PROVE  /\ IsOpen(r, Begins(p, f), "READ") /\ Content(r, Begins(p, f)) = Content(r, f)
         /\ IsOpen(r, fseek(f, 0), "READ") /\ Content(r, fseek(f, 0)) = Content(r, f)
         /\ fseek(f, 0) = [f EXCEPT !.pos = 0, !.seen = <<>>]
<1>1. f.seen \in Seq(Byte) /\ SubSeq(f.seen, 1, 0) = <<>> /\ <<>> \in Seq(Byte)
  BY SubSeqEmpty, EmptySeq DEF Handle
<1> DEFINE g == fseek(f, 0)
<1>2. g = [f EXCEPT !.pos = 0, !.seen = <<>>]
  BY <1>1 DEF fseek, Handle
<1> HIDE DEF g
<1>3. /\ g \in Handle /\ g.pos = 0 /\ g.seen = <<>>
      /\ g.partition = f.partition /\ g.mode = f.mode /\ g.fd = f.fd
  BY <1>1, <1>2 DEF Handle
<1>4. Content(r, g) = Content(r, f)
  BY <1>3 DEF Content
<1>5. SubSeq(Content(r, f), 1, 0) = <<>> /\ Len(Content(r, f)) \in Nat
  <2>1. Content(r, f) \in Seq(Byte) /\ Len(Content(r, f)) \in Nat
    BY ContentIs DEF IsOpen
  <2> QED BY <2>1, SubSeqEmpty
<1>6. IsOpen(r, g, "READ")
  BY <1>3, <1>4, <1>5 DEF IsOpen, HasFile, ReadSoFar
<1> QED BY <1>2, <1>4, <1>6 DEF Begins, g

\* A reader that is idle gives nothing, and is idle afterwards.
LEMMA ReadDynamicIs ==
  ASSUME NEW r \in Ram, NEW f \in Handle, IsOpen(r, f, "READ"), NEW p \in Idle,
         NEW attributes, NEW size \in Nat \ {0}
  PROVE  LET s == read_dynamic(r, f, p, attributes, size)
         IN  s.out = <<>> /\ s.p = Begun /\ s.file = Begins(p, f)
<1> DEFINE q == Begun
           s == [ram |-> r, p |-> q, out |-> <<>>, end |-> FALSE, file |-> Begins(p, f)]
           t == [s EXCEPT !.end = TRUE]
<1>1. Reset(p) = q
  BY BegunIs DEF Reset, Idle, Begun
<1>2. read_dynamic(r, f, p, attributes, size) = Loop(s, attributes, size)
  BY <1>1 DEF read_dynamic, Begins
<1>3. q.value = None /\ q.index0 = 0 /\ q.index1 = 0
  BY BegunIs
<1> HIDE DEF q
<1>4. s.p = q /\ s.out = <<>> /\ ~ s.end /\ s.ram = r /\ s.file = Begins(p, f)
  OBVIOUS
<1>5. t.p = q /\ t.out = <<>> /\ t.end /\ t.file = Begins(p, f)
  OBVIOUS
<1>6. Round(s, attributes, size) = t
  <2> HIDE DEF s
  <2> QED BY <1>3, <1>4 DEF Round, Refills
<1>7. Rounds(s, size) \in Nat \ {0}
  <2>1. fsize(r, Begins(p, f)) \in Nat
    BY BeginsIs, ContentIs DEF IsOpen, fsize
  <2> HIDE DEF s
  <2> QED BY <1>4, <2>1 DEF Rounds
<1> HIDE DEF s, t
<1>8. Loop(s, attributes, size) = t
  BY <1>4, <1>5, <1>6, <1>7, LoopEnds
<1> QED BY <1>2, <1>5, <1>8 DEF q

\* So a page with attributes measures 0.
LEMMA MeasuredIs ==
  ASSUME NEW o, o.ram \in Ram, o.file \in Handle, IsOpen(o.ram, o.file, "READ")
  PROVE  /\ Measured(o).file = fseek(o.file, 0) /\ Measured(o).size = 0
         /\ Measured(o).p = Begun
<1> DEFINE R == Reads(o)
           none == [file |-> o.file, p |-> Fresh, size |-> 0, ended |-> FALSE]
           all == [file |-> fseek(o.file, 0), p |-> Begun,
                   size |-> 0, ended |-> TRUE]
           next(m) == Added(m, read_dynamic(o.ram, m.file, m.p, Attributes, Chunk))
           loop(f) == f = [k \in 0 .. R |-> IF k = 0 THEN none ELSE next(f[k - 1])]
           g == [k \in 0 .. R |-> IF k = 0 THEN none ELSE all]
           read == CHOOSE f : loop(f)
<1>1. next(none) = all /\ next(all) = all
  <2>1. Fresh \in Idle /\ Chunk \in Nat \ {0} /\ Fresh.reset
    BY ResourcesAssumption, BegunIs DEF Idle
  <2> DEFINE s == read_dynamic(o.ram, o.file, Fresh, Attributes, Chunk)
  <2>2. s.out = <<>> /\ s.p = Begun /\ s.file = fseek(o.file, 0)
    BY <2>1, ReadDynamicIs DEF Begins
  <2>3. next(none) = [file |-> s.file, p |-> s.p, size |-> 0 + Len(s.out),
                      ended |-> s.out = <<>>]
    BY DEF Added
  <2>4. next(all) = all
    BY DEF Added
  <2> HIDE DEF s, next
  <2>5. 0 + Len(s.out) = 0 /\ (s.out = <<>>) = TRUE
    BY <2>2, EmptySeq
  <2> QED BY <2>2, <2>3, <2>4, <2>5
<1>2. Measured(o) = read[R]
  BY DEF Measured
<1>3. R \in Nat \ {0}
  <2>1. fsize(o.ram, o.file) \in Nat /\ 1 + MaxValue \in Nat
    BY ContentIs, ResourcesAssumption DEF IsOpen, fsize
  <2>2. fsize(o.ram, o.file) * (1 + MaxValue) \in Nat
    BY <2>1
  <2> QED BY <2>2 DEF Reads
<1> HIDE DEF R, next, none, all
<1>4. loop(g)
  <2>1. ASSUME NEW k \in 0 .. R PROVE g[k] = IF k = 0 THEN none ELSE next(g[k - 1])
    <3>1. CASE k = 0
      BY <3>1
    <3>2. CASE k # 0
      <4>1. k - 1 \in 0 .. R
        BY <1>3, <3>2
      <4>2. g[k - 1] = (IF k - 1 = 0 THEN none ELSE all) /\ g[k] = all
        BY <3>2, <4>1
      <4> HIDE DEF g
      <4> QED BY <1>1, <3>2, <4>2
    <3> QED BY <3>1, <3>2
  <2>2. g = [k \in 0 .. R |-> g[k]]
    OBVIOUS
  <2> HIDE DEF g
  <2>3. [k \in 0 .. R |-> g[k]] = [k \in 0 .. R |-> IF k = 0 THEN none ELSE next(g[k - 1])]
    BY <2>1
  <2> QED BY <2>2, <2>3
<1>5. loop(read)
  <2> HIDE DEF loop, g
  <2> QED BY <1>4
<1> HIDE DEF read
<1>6. read = [k \in 0 .. R |-> IF k = 0 THEN none ELSE next(read[k - 1])]
  BY <1>5
<1>7. read[1] = all
  <2>1. 0 \in 0 .. R /\ 1 \in 0 .. R /\ 1 # 0 /\ 1 - 1 = 0
    BY <1>3
  <2>2. read[0] = none /\ read[1] = next(read[1 - 1])
    BY <1>6, <2>1
  <2> QED BY <1>1, <2>1, <2>2
<1>8. ASSUME NEW k \in 2 .. R, read[k - 1] = all PROVE read[k] = all
  <2>1. k \in 0 .. R /\ k # 0
    BY <1>3
  <2>2. read[k] = next(read[k - 1])
    BY <1>6, <2>1
  <2> QED BY <1>1, <1>8, <2>2
<1>9. read[R] = all
  BY <1>3, <1>7, <1>8, Steady
<1> QED BY <1>2, <1>9 DEF all
-----------------------------------------------------------------------------
(* Steps of files and handles.                                             *)

\* A handle is on a node; the handles that are.
On(f, n, mode) == f.partition = "ram" /\ f.mode = mode /\ f.fd = n
HandlesOn(fs, n, mode) == {h \in DOMAIN fs : On(fs[h], n, mode)}

\* One handle changes, or what one client holds.
Moved(fs, h, f, gs) == gs = [fs EXCEPT ![h] = f]

LEMMA OpenOnIs ==
  \A n, mode : /\ OpenOn(n, mode) = HandlesOn(file, n, mode)
               /\ OpenOn(n, mode)' = HandlesOn(file', n, mode)
BY DEF OpenOn, HandlesOn, On

\* One handle that changes: it is counted where it is now.
LEMMA Counting ==
  ASSUME NEW fs \in Handles,
         NEW h \in Clients \cup Apps, NEW f, NEW gs, Moved(fs, h, f, gs),
         NEW n, NEW mode
  PROVE  LET count == Cardinality(HandlesOn(fs, n, mode))
             after == Cardinality(HandlesOn(gs, n, mode))
         IN  /\ count \in Nat /\ after \in Nat
             /\ On(fs[h], n, mode) => count > 0
             /\ (On(fs[h], n, mode) <=> On(f, n, mode)) => after = count
             /\ ~ On(fs[h], n, mode) /\ On(f, n, mode) => after = count + 1
             /\ On(fs[h], n, mode) /\ ~ On(f, n, mode) => after = count - 1
<1> DEFINE before == HandlesOn(fs, n, mode)
           after == HandlesOn(gs, n, mode)
<1>1. gs[h] = f /\ \A k \in Clients \cup Apps : k # h => gs[k] = fs[k]
  BY DEF Moved, Handles
<1>2. DOMAIN fs = Clients \cup Apps /\ DOMAIN gs = Clients \cup Apps
  BY DEF Moved, Handles
<1>3. IsFiniteSet(Clients \cup Apps)
  BY ResourcesAssumption, FS_Union
<1>4. IsFiniteSet(before)
  <2>1. before \subseteq Clients \cup Apps
    BY <1>2 DEF HandlesOn
  <2> QED BY <1>3, <2>1, FS_Subset
<1>5. /\ h \in before <=> On(fs[h], n, mode)
      /\ after = IF On(f, n, mode) THEN before \cup {h} ELSE before \ {h}
  BY <1>1, <1>2 DEF HandlesOn
<1> HIDE DEF before, after
<1>6. Cardinality(before) \in Nat /\ (h \in before => Cardinality(before) > 0)
  <2>1. Cardinality(before) \in Nat /\ (Cardinality(before) = 0 <=> before = {})
    BY <1>4, FS_CardinalityType, FS_EmptySet
  <2> QED BY <2>1
<1>7. /\ Cardinality(before \cup {h}) =
           IF h \in before THEN Cardinality(before) ELSE Cardinality(before) + 1
      /\ Cardinality(before \ {h}) =
           IF h \in before THEN Cardinality(before) - 1 ELSE Cardinality(before)
  BY <1>4, FS_AddElement, FS_RemoveElement
<1> DEFINE count == Cardinality(before)
           then == Cardinality(after)
<1>8. then = IF On(f, n, mode) THEN (IF h \in before THEN count ELSE count + 1)
             ELSE (IF h \in before THEN count - 1 ELSE count)
  BY <1>5, <1>7
<1> HIDE DEF count, then
<1>9. /\ count \in Nat /\ then \in Nat
      /\ On(fs[h], n, mode) => count > 0
      /\ (On(fs[h], n, mode) <=> On(f, n, mode)) => then = count
      /\ ~ On(fs[h], n, mode) /\ On(f, n, mode) => then = count + 1
      /\ On(fs[h], n, mode) /\ ~ On(f, n, mode) => then = count - 1
  <2>1. count \in Nat /\ (h \in before => count > 0)
    BY <1>6 DEF count
  <2>2. CASE On(f, n, mode)
    BY <1>5, <1>8, <2>1, <2>2
  <2>3. CASE ~ On(f, n, mode)
    BY <1>5, <1>8, <2>1, <2>3
  <2> QED BY <2>2, <2>3
<1> QED BY <1>9 DEF before, after, count, then

\* A handle stays open while its node is there, and reads on when the data is kept.
LEMMA KeptOpen ==
  ASSUME NEW r \in Ram, NEW q \in Ram, NEW mode, NEW f, IsOpen(r, f, mode),
         f.partition = "ram" => /\ q.node[f.fd] # None
                                /\ mode = "READ" => q.node[f.fd].data = r.node[f.fd].data
  PROVE  IsOpen(q, f, mode) /\ (mode = "READ" => Content(q, f) = Content(r, f))
<1>1. f \in Handle /\ HasFile(r, f) /\ HasFile(q, f)
  BY DEF IsOpen, HasFile
<1>2. mode = "READ" => Content(q, f) = Content(r, f)
  BY <1>1, ContentIs
<1> QED BY <1>1, <1>2 DEF IsOpen, ReadSoFar

\* Nothing happens to the other handles.
Kept(k) ==
  file'[k] = file[k] /\ (file[k] # Closed => Content(ram', file[k]) = Content(ram, file[k]))
OthersKept(h) == \A k \in Clients : k # h => Kept(k)

\* A handle is read, moved or closed where it is on no node: the files stay.
LEMMA SameRam ==
  ASSUME FilesOK, NEW h \in Clients \cup Apps, NEW F \in Handle \cup {Closed},
         ram' = ram, file' = [file EXCEPT ![h] = F], F = Closed \/ IsOpen(ram, F, ModeOf(h)),
         \A n, mode : On(file[h], n, mode) <=> On(F, n, mode)
  PROVE  FilesOK' /\ OthersKept(h)
<1>1. file' \in Handles
  BY DEF FilesOK, Handles
<1>2. HandlesValid'
  BY DEF FilesOK, HandlesValid, Handles
<1>3. NodesCounted'
  <2>1. ASSUME NEW n, NEW mode
        PROVE  Cardinality(HandlesOn(file', n, mode)) = Cardinality(HandlesOn(file, n, mode))
    <3>1. On(file[h], n, mode) <=> On(F, n, mode)
      OBVIOUS
    <3>2. file \in Handles
      BY DEF FilesOK
    <3>3. Moved(file, h, F, file')
      BY DEF Moved
    <3> QED BY <3>1, <3>2, <3>3, Counting
  <2> QED BY <2>1, OpenOnIs DEF FilesOK, NodesCounted
<1>4. LinkedAreThere' /\ NamesAreUnique' /\ CountsExclude'
  BY DEF FilesOK, LinkedAreThere, NamesAreUnique, CountsExclude
<1> QED BY <1>1, <1>2, <1>3, <1>4 DEF FilesOK, OthersKept, Kept

\* The partition after a file was opened for reading.
LEMMA JustOpened ==
  ASSUME NEW r \in Ram, NEW q, NEW f, OpenedFor(r, q, f, "READ")
  PROVE  /\ q \in Ram /\ IsOpen(q, f, "READ") /\ fclose(q, f) = r
         /\ q.list = r.list
         /\ \A n \in Nodes :
              IF On(f, n, "READ")
                THEN /\ r.node[n] # None /\ r.node[n].writers = 0
                     /\ q.node[n] = [r.node[n] EXCEPT !.readers = @ + 1]
                ELSE q.node[n] = r.node[n]
<1>1. f \in Handle /\ f.mode = "READ" /\ HasFile(r, f)
  BY DEF OpenedFor
<1>2. CASE f.partition # "ram"
  <2>1. q = r
    BY <1>2 DEF OpenedFor
  <2>2. Content(r, f) \in Seq(Byte) /\ Len(Content(r, f)) \in Nat
    BY <1>1, ContentIs
  <2>3. SubSeq(Content(r, f), 1, 0) = <<>>
    BY SubSeqEmpty
  <2>4. ReadSoFar(r, f)
    BY <2>2, <2>3 DEF OpenedFor, ReadSoFar
  <2> QED BY <1>1, <1>2, <2>1, <2>4 DEF IsOpen, fclose, On
<1>3. CASE f.partition = "ram"
  <2> DEFINE m == f.fd
             new == [r.node[m] EXCEPT !.readers = @ + 1]
  <2>1. m \in Nodes /\ r.node[m] # None /\ r.node[m] \in Node
    BY <1>1, <1>3, ContentIs DEF HasFile
  <2>2. r.node[m].writers = 0 /\ q = [r EXCEPT !.node[m].readers = @ + 1]
    BY <1>3 DEF OpenedFor
  <2> HIDE DEF m
  <2>3. new \in Node /\ new # None
    BY <2>1, FsRamAssumption DEF Node
  <2>4. /\ q = [r EXCEPT !.node = [r.node EXCEPT ![m] = new]]
        /\ q.node = [r.node EXCEPT ![m] = new] /\ q.list = r.list
    BY <2>1, <2>2 DEF Ram
  <2>5. q \in Ram
    <3> HIDE DEF new
    <3> QED BY <2>1, <2>3, <2>4 DEF Ram
  <2>6. HasFile(q, f)
    <3> HIDE DEF new
    <3> QED BY <1>3, <2>1, <2>3, <2>4 DEF HasFile, m, Ram
  <2>7. Content(q, f) \in Seq(Byte) /\ Len(Content(q, f)) \in Nat
    BY <1>1, <2>5, <2>6, ContentIs
  <2>8. SubSeq(Content(q, f), 1, 0) = <<>>
    BY SubSeqEmpty
  <2>9. IsOpen(q, f, "READ")
    BY <1>1, <2>6, <2>7, <2>8 DEF OpenedFor, IsOpen, ReadSoFar
  <2>10. fclose(q, f) = r
    <3> DEFINE old == [q.node[m] EXCEPT !.readers = @ - 1]
    <3>1. old = r.node[m]
      BY <2>1, <2>4 DEF Ram, Node
    <3>2. fclose(q, f) = [q EXCEPT !.node[m].readers = @ - 1, !.node[m].writers = @]
      BY <1>1, <1>3 DEF fclose, ram_fclose, m
    <3>3. [q EXCEPT !.node[m].readers = @ - 1, !.node[m].writers = @]
            = [q EXCEPT !.node = [q.node EXCEPT ![m] = old]]
      BY <2>1, <2>5 DEF Ram, Node
    <3> HIDE DEF old, new
    <3>4. [q EXCEPT !.node = [q.node EXCEPT ![m] = old]] = r
      BY <2>1, <2>4, <3>1 DEF Ram
    <3> QED BY <3>2, <3>3, <3>4
  <2>11. ASSUME NEW n \in Nodes
         PROVE  IF On(f, n, "READ")
                  THEN /\ r.node[n] # None /\ r.node[n].writers = 0
                       /\ q.node[n] = [r.node[n] EXCEPT !.readers = @ + 1]
                  ELSE q.node[n] = r.node[n]
    <3>1. On(f, n, "READ") <=> n = m
      BY <1>1, <1>3 DEF On, m
    <3> QED BY <2>1, <2>2, <2>4, <3>1 DEF Ram
  <2> QED BY <2>4, <2>5, <2>9, <2>10, <2>11
<1> QED BY <1>2, <1>3
\* Nodes keep their names and, while they are read, their data: the other handles
\* stay what they are.
LEMMA NodesStay ==
  ASSUME FilesOK, ram' \in Ram, ram'.list = ram.list,
         NEW h \in Clients \cup Apps, NEW F, Moved(file, h, F, file'),
         F = Closed \/ IsOpen(ram', F, ModeOf(h)),
         \A n \in Nodes : ram.node[n] # None =>
           /\ ram'.node[n] # None /\ ram'.node[n].name = ram.node[n].name
           /\ (\E k \in Clients : On(file[k], n, "READ")) =>
                ram'.node[n].data = ram.node[n].data
  PROVE  /\ file' \in Handles /\ HandlesValid' /\ OthersKept(h)
         /\ LinkedAreThere' /\ NamesAreUnique'
<1>1. ram \in Ram /\ file \in Handles
  BY DEF FilesOK
<1>2. ASSUME NEW k \in Clients \cup Apps, file[k] # Closed
      PROVE  IsOpen(ram', file[k], ModeOf(k))
             /\ (k \in Clients => Content(ram', file[k]) = Content(ram, file[k]))
  <2>1. IsOpen(ram, file[k], ModeOf(k))
    BY <1>2 DEF FilesOK, HandlesValid
  <2>2. file[k].partition = "ram" => file[k].fd \in Nodes /\ ram.node[file[k].fd] # None
    BY <2>1 DEF IsOpen, HasFile
  <2>3. ModeOf(k) = "READ" => k \in Clients /\ file[k].mode = "READ"
    BY <2>1 DEF ModeOf, IsOpen
  <2>4. file[k].partition = "ram" =>
          /\ ram'.node[file[k].fd] # None
          /\ ModeOf(k) = "READ" => ram'.node[file[k].fd].data = ram.node[file[k].fd].data
    BY <2>2, <2>3 DEF On
  <2>5. IsOpen(ram', file[k], ModeOf(k))
        /\ (ModeOf(k) = "READ" => Content(ram', file[k]) = Content(ram, file[k]))
    BY <1>1, <2>1, <2>4, KeptOpen
  <2> QED BY <2>5 DEF ModeOf
<1>3. F \in Handle \cup {Closed}
  BY DEF IsOpen
<1>4. file' \in Handles
  BY <1>1, <1>3 DEF Handles, Moved
<1>5. ASSUME NEW k \in Clients \cup Apps PROVE file'[k] = IF k = h THEN F ELSE file[k]
  BY <1>1 DEF Handles, Moved
<1>6. HandlesValid' /\ OthersKept(h)
  BY <1>2, <1>5 DEF HandlesValid, OthersKept, Kept
<1>7. \A i \in DOMAIN ram.list : ram.list[i] \in Nodes
  BY <1>1, ElementOfSeq, LenProperties DEF Ram
<1>8. \A i \in DOMAIN ram.list : ram.node[ram.list[i]] # None
  BY DEF FilesOK, LinkedAreThere
<1>9. LinkedAreThere'
  BY <1>7, <1>8 DEF LinkedAreThere
<1>10. ASSUME NEW i \in DOMAIN ram.list
       PROVE  ram'.node[ram.list[i]].name = ram.node[ram.list[i]].name
  BY <1>7, <1>8
<1>11. NamesAreUnique'
  BY <1>10 DEF FilesOK, NamesAreUnique
<1> QED BY <1>4, <1>6, <1>9, <1>11

\* A client opens a file.
LEMMA OpenStep ==
  ASSUME FilesOK, NEW c \in Clients, file[c] = Closed, NEW f, NEW F,
         OpenedFor(ram, ram', f, "READ"), IsOpen(ram', F, "READ"),
         F.partition = f.partition, F.mode = f.mode, F.fd = f.fd,
         file' = [file EXCEPT ![c] = F]
  PROVE  FilesOK' /\ OthersKept(c)
<1>1. ram \in Ram /\ file \in Handles /\ F \in Handle /\ Moved(file, c, F, file')
  BY DEF FilesOK, IsOpen, Moved
<1>2. /\ ram' \in Ram /\ ram'.list = ram.list
      /\ \A n \in Nodes :
           IF On(F, n, "READ")
             THEN /\ ram.node[n] # None /\ ram.node[n].writers = 0
                  /\ ram'.node[n] = [ram.node[n] EXCEPT !.readers = @ + 1]
             ELSE ram'.node[n] = ram.node[n]
  <2>1. \A n : On(F, n, "READ") <=> On(f, n, "READ")
    BY DEF On
  <2> QED BY <1>1, <2>1, JustOpened
<1>3. ASSUME NEW n \in Nodes
      PROVE  /\ ram'.node[n] # None <=> ram.node[n] # None
             /\ ram.node[n] # None =>
                  /\ ram'.node[n].readers = ram.node[n].readers + (IF On(F, n, "READ") THEN 1 ELSE 0)
                  /\ ram'.node[n].writers = ram.node[n].writers
                  /\ ram'.node[n].data = ram.node[n].data
                  /\ ram'.node[n].name = ram.node[n].name
                  /\ On(F, n, "READ") => ram.node[n].writers = 0
  <2>1. ram.node[n] # None => ram.node[n] \in Node
    BY <1>1 DEF Ram
  <2>2. CASE On(F, n, "READ")
    <3>1. ram.node[n] # None /\ ram'.node[n] = [ram.node[n] EXCEPT !.readers = @ + 1]
      BY <1>2, <2>2
    <3>2. ram.node[n].writers = 0
      BY <1>2, <2>2
    <3>3. /\ ram'.node[n] \in Node
          /\ ram'.node[n].readers = ram.node[n].readers + 1
          /\ ram'.node[n].writers = ram.node[n].writers
          /\ ram'.node[n].data = ram.node[n].data
          /\ ram'.node[n].name = ram.node[n].name
      BY <2>1, <3>1 DEF Node
    <3>4. ram'.node[n] # None
      BY <3>3, FsRamAssumption
    <3> QED BY <2>2, <3>1, <3>2, <3>3, <3>4
  <2>3. CASE ~ On(F, n, "READ")
    <3>1. ram'.node[n] = ram.node[n]
      BY <1>2, <2>3
    <3>2. ram.node[n] # None => ram.node[n].readers \in Nat
      BY <2>1 DEF Node
    <3> QED BY <2>3, <3>1, <3>2
  <2> QED BY <2>2, <2>3
<1>4. ASSUME NEW n \in Nodes, ram.node[n] # None
      PROVE  /\ ram'.node[n] # None /\ ram'.node[n].name = ram.node[n].name
             /\ ram'.node[n].data = ram.node[n].data
  BY <1>3, <1>4
<1>5. IsOpen(ram', F, ModeOf(c))
  BY DEF ModeOf
<1>6. /\ file' \in Handles /\ HandlesValid' /\ OthersKept(c)
      /\ LinkedAreThere' /\ NamesAreUnique'
  BY <1>1, <1>2, <1>4, <1>5, NodesStay
<1>7. CountsExclude'
  <2>1. ASSUME NEW n \in Nodes, ram.node[n] # None
        PROVE  ram.node[n].readers \in Nat /\ ram.node[n].writers \in Nat
    BY <1>1, <2>1 DEF Ram, Node
  <2>2. ASSUME NEW n \in Nodes, ram'.node[n] # None
        PROVE  \/ ram'.node[n].writers = 0
               \/ ram'.node[n].writers = 1 /\ ram'.node[n].readers = 0
    <3>1. ram.node[n] # None
      BY <1>3, <2>2
    <3>2. ram.node[n].writers = 0 \/ (ram.node[n].writers = 1 /\ ram.node[n].readers = 0)
      BY <3>1 DEF FilesOK, CountsExclude
    <3> QED BY <1>3, <2>1, <3>1, <3>2
  <2> QED BY <2>2 DEF CountsExclude
<1>8. NodesCounted'
  <2>1. ASSUME NEW n \in Nodes, ram'.node[n] # None
        PROVE  /\ ram'.node[n].readers = Cardinality(HandlesOn(file', n, "READ"))
               /\ ram'.node[n].writers = Cardinality(HandlesOn(file', n, "WRITE"))
    <3>1. ram.node[n] # None
      BY <1>3, <2>1
    <3>2. /\ ram.node[n].readers = Cardinality(HandlesOn(file, n, "READ"))
          /\ ram.node[n].writers = Cardinality(HandlesOn(file, n, "WRITE"))
      BY <3>1, OpenOnIs DEF FilesOK, NodesCounted
    <3>3. /\ \A mode : ~ On(file[c], n, mode)
          /\ ~ On(F, n, "WRITE")
      BY FilesAssumption DEF OpenedFor, On, Closed
    <3>4. Cardinality(HandlesOn(file', n, "WRITE")) = Cardinality(HandlesOn(file, n, "WRITE"))
      BY <1>1, <3>3, Counting
    <3>5. CASE On(F, n, "READ")
      <4>1. Cardinality(HandlesOn(file', n, "READ")) = Cardinality(HandlesOn(file, n, "READ")) + 1
        BY <1>1, <3>3, <3>5, Counting
      <4> QED BY <1>3, <3>1, <3>2, <3>4, <3>5, <4>1
    <3>6. CASE ~ On(F, n, "READ")
      <4>1. Cardinality(HandlesOn(file', n, "READ")) = Cardinality(HandlesOn(file, n, "READ"))
        BY <1>1, <3>3, <3>6, Counting
      <4>2. ram'.node[n] = ram.node[n]
        BY <1>2, <3>6
      <4> QED BY <3>2, <3>4, <4>1, <4>2
    <3> QED BY <3>5, <3>6
  <2> QED BY <2>1, OpenOnIs DEF NodesCounted
<1> QED BY <1>2, <1>6, <1>7, <1>8 DEF FilesOK
\* Closing takes one from the count of the mode.
LEMMA FcloseIs ==
  ASSUME NEW r \in Ram, NEW f \in Handle, f.partition = "ram", HasFile(r, f),
         f.mode = "READ" => r.node[f.fd].readers > 0,
         f.mode = "WRITE" => r.node[f.fd].writers > 0
  PROVE  /\ fclose(r, f) \in Ram /\ fclose(r, f).list = r.list
         /\ \A n \in Nodes : r.node[n] # None =>
              /\ fclose(r, f).node[n] # None /\ fclose(r, f).node[n].name = r.node[n].name
              /\ fclose(r, f).node[n].data = r.node[n].data
              /\ fclose(r, f).node[n].readers =
                   IF On(f, n, "READ") THEN r.node[n].readers - 1 ELSE r.node[n].readers
              /\ fclose(r, f).node[n].writers =
                   IF On(f, n, "WRITE") THEN r.node[n].writers - 1 ELSE r.node[n].writers
         /\ \A n \in Nodes : r.node[n] = None => fclose(r, f).node[n] = None
<1> DEFINE m == f.fd
           new == [r.node[m] EXCEPT !.readers = IF f.mode = "READ" THEN @ - 1 ELSE @,
                                    !.writers = IF f.mode = "WRITE" THEN @ - 1 ELSE @]
           q == fclose(r, f)
<1>1. m \in Nodes /\ r.node[m] # None /\ r.node[m] \in Node
  BY ContentIs DEF HasFile
<1>2. q = [r EXCEPT !.node[m].readers = IF f.mode = "READ" THEN @ - 1 ELSE @,
                    !.node[m].writers = IF f.mode = "WRITE" THEN @ - 1 ELSE @]
  BY DEF fclose, ram_fclose
<1> HIDE DEF m, q
<1>3. q = [r EXCEPT !.node = [r.node EXCEPT ![m] = new]]
  BY <1>1, <1>2 DEF Ram, Node
<1>4. /\ f.mode = "READ" => r.node[m].readers > 0
      /\ f.mode = "WRITE" => r.node[m].writers > 0
  BY DEF m
<1>5. /\ new \in Node /\ new.name = r.node[m].name /\ new.data = r.node[m].data
      /\ new.readers = IF f.mode = "READ" THEN r.node[m].readers - 1 ELSE r.node[m].readers
      /\ new.writers = IF f.mode = "WRITE" THEN r.node[m].writers - 1 ELSE r.node[m].writers
  <2> DEFINE rd == IF f.mode = "READ" THEN r.node[m].readers - 1 ELSE r.node[m].readers
             wr == IF f.mode = "WRITE" THEN r.node[m].writers - 1 ELSE r.node[m].writers
  <2>1. r.node[m].readers \in Nat /\ r.node[m].writers \in Nat
    BY <1>1 DEF Node
  <2>2. rd \in Nat /\ wr \in Nat
    BY <1>4, <2>1
  <2>3. new = [r.node[m] EXCEPT !.readers = rd, !.writers = wr]
    OBVIOUS
  <2> HIDE DEF rd, wr, new
  <2>4. /\ new \in Node /\ new.name = r.node[m].name /\ new.data = r.node[m].data
        /\ new.readers = rd /\ new.writers = wr
    BY <1>1, <2>2, <2>3 DEF Node
  <2> QED BY <2>4 DEF rd, wr
<1>6. new # None
  BY <1>5, FsRamAssumption
<1> HIDE DEF new
<1>7. q \in Ram /\ q.list = r.list /\ q.node = [r.node EXCEPT ![m] = new]
  BY <1>1, <1>3, <1>5 DEF Ram
<1>8. ASSUME NEW n \in Nodes
      PROVE  /\ q.node[n] = IF n = m THEN new ELSE r.node[n]
             /\ On(f, n, "READ") <=> n = m /\ f.mode = "READ"
             /\ On(f, n, "WRITE") <=> n = m /\ f.mode = "WRITE"
  <2>1. q.node[n] = IF n = m THEN new ELSE r.node[n]
    BY <1>7 DEF Ram
  <2> QED BY <2>1 DEF On, m
<1>9. ASSUME NEW n \in Nodes, r.node[n] # None
      PROVE  /\ q.node[n] # None /\ q.node[n].name = r.node[n].name
             /\ q.node[n].data = r.node[n].data
             /\ q.node[n].readers =
                  IF On(f, n, "READ") THEN r.node[n].readers - 1 ELSE r.node[n].readers
             /\ q.node[n].writers =
                  IF On(f, n, "WRITE") THEN r.node[n].writers - 1 ELSE r.node[n].writers
  <2>1. CASE n = m
    BY <1>5, <1>6, <1>8, <2>1
  <2>2. CASE n # m
    BY <1>8, <1>9, <2>2
  <2> QED BY <2>1, <2>2
<1>10. ASSUME NEW n \in Nodes, r.node[n] = None PROVE q.node[n] = None
  BY <1>1, <1>8, <1>10
<1> QED BY <1>7, <1>9, <1>10 DEF q

\* A handle is closed.
LEMMA CloseStep ==
  ASSUME FilesOK, NEW h \in Clients \cup Apps, file[h] # Closed,
         ram' = fclose(ram, file[h]), file' = [file EXCEPT ![h] = Closed]
  PROVE  FilesOK' /\ OthersKept(h)
<1>1. /\ ram \in Ram /\ file \in Handles /\ Moved(file, h, Closed, file')
      /\ file[h] \in Handle /\ HasFile(ram, file[h])
  <2>1. IsOpen(ram, file[h], ModeOf(h))
    BY DEF FilesOK, HandlesValid
  <2> QED BY <2>1 DEF FilesOK, Moved, IsOpen
<1>2. \A n, mode : ~ On(Closed, n, mode)
  BY FilesAssumption DEF On, Closed
<1>3. CASE file[h].partition # "ram"
  <2>1. ram' = ram
    BY <1>3 DEF fclose
  <2>2. \A n, mode : ~ On(file[h], n, mode)
    BY <1>3 DEF On
  <2> QED BY <1>2, <2>1, <2>2, SameRam
<1>4. CASE file[h].partition = "ram"
  <2> DEFINE f == file[h]
  <2>1. ASSUME NEW n \in Nodes, ram.node[n] # None
        PROVE  /\ ram.node[n].readers = Cardinality(HandlesOn(file, n, "READ"))
               /\ ram.node[n].writers = Cardinality(HandlesOn(file, n, "WRITE"))
               /\ ram.node[n].readers \in Nat /\ ram.node[n].writers \in Nat
               /\ On(f, n, "READ") => ram.node[n].readers > 0
               /\ On(f, n, "WRITE") => ram.node[n].writers > 0
    <3>1. /\ ram.node[n].readers = Cardinality(HandlesOn(file, n, "READ"))
          /\ ram.node[n].writers = Cardinality(HandlesOn(file, n, "WRITE"))
      BY <2>1, OpenOnIs DEF FilesOK, NodesCounted
    <3>2. \A mode : /\ Cardinality(HandlesOn(file, n, mode)) \in Nat
                    /\ On(f, n, mode) => Cardinality(HandlesOn(file, n, mode)) > 0
      BY <1>1, Counting
    <3> QED BY <3>1, <3>2
  <2>2. /\ f.fd \in Nodes /\ ram.node[f.fd] # None
        /\ f.mode = "READ" => ram.node[f.fd].readers > 0
        /\ f.mode = "WRITE" => ram.node[f.fd].writers > 0
    <3>1. f.fd \in Nodes /\ ram.node[f.fd] # None
      BY <1>1, <1>4 DEF HasFile
    <3>2. \A mode : f.mode = mode => On(f, f.fd, mode)
      BY <1>4 DEF On
    <3> QED BY <2>1, <3>1, <3>2
  <2>3. /\ ram' \in Ram /\ ram'.list = ram.list
        /\ \A n \in Nodes : ram.node[n] # None =>
              /\ ram'.node[n] # None /\ ram'.node[n].name = ram.node[n].name
              /\ ram'.node[n].data = ram.node[n].data
              /\ ram'.node[n].readers =
                   IF On(f, n, "READ") THEN ram.node[n].readers - 1 ELSE ram.node[n].readers
              /\ ram'.node[n].writers =
                   IF On(f, n, "WRITE") THEN ram.node[n].writers - 1 ELSE ram.node[n].writers
        /\ \A n \in Nodes : ram.node[n] = None => ram'.node[n] = None
    BY <1>1, <1>4, <2>2, FcloseIs
  <2>4. /\ file' \in Handles /\ HandlesValid' /\ OthersKept(h)
        /\ LinkedAreThere' /\ NamesAreUnique'
    BY <1>1, <2>3, NodesStay
  <2> HIDE DEF f
  <2>5. CountsExclude'
    <3>1. ASSUME NEW n \in Nodes, ram'.node[n] # None
          PROVE  \/ ram'.node[n].writers = 0
                 \/ ram'.node[n].writers = 1 /\ ram'.node[n].readers = 0
      <4>1. ram.node[n] # None
        BY <2>3, <3>1
      <4>2. ram.node[n].writers = 0 \/ (ram.node[n].writers = 1 /\ ram.node[n].readers = 0)
        BY <4>1 DEF FilesOK, CountsExclude
      <4>3. ~ (On(f, n, "READ") /\ ram.node[n].readers = 0)
        BY <2>1, <4>1
      <4>4. ~ (On(f, n, "WRITE") /\ ram.node[n].writers = 0)
        BY <2>1, <4>1
      <4> QED BY <2>3, <4>1, <4>2, <4>3, <4>4
    <3> QED BY <3>1 DEF CountsExclude
  <2>6. NodesCounted'
    <3>1. ASSUME NEW n \in Nodes, ram'.node[n] # None
          PROVE  /\ ram'.node[n].readers = Cardinality(HandlesOn(file', n, "READ"))
                 /\ ram'.node[n].writers = Cardinality(HandlesOn(file', n, "WRITE"))
      <4>1. ram.node[n] # None
        BY <2>3, <3>1
      <4>2. \A mode : Cardinality(HandlesOn(file', n, mode)) =
                        IF On(f, n, mode) THEN Cardinality(HandlesOn(file, n, mode)) - 1
                        ELSE Cardinality(HandlesOn(file, n, mode))
        BY <1>1, <1>2, Counting DEF f
      <4> QED BY <2>1, <2>3, <4>1, <4>2
    <3> QED BY <3>1, OpenOnIs DEF NodesCounted
  <2> QED BY <2>3, <2>4, <2>5, <2>6 DEF FilesOK
<1> QED BY <1>3, <1>4

\* A name is taken off the list: the nodes stay.
LEMMA UnlinkStep ==
  ASSUME FilesOK, UNCHANGED file, NEW name, Find(ram, name) # None,
         ram' = ram_fremove(ram, name)
  PROVE  FilesOK' /\ \A k \in Clients : Kept(k)
<1>1. ram \in Ram /\ ListOK(ram) /\ file \in Handles
  BY DEF FilesOK, ListOK, LinkedAreThere, NamesAreUnique
<1>2. ram' \in Ram /\ ListOK(ram') /\ ram'.node = ram.node
  BY <1>1, FremoveIs
<1>3. LinkedAreThere' /\ NamesAreUnique'
  BY <1>2 DEF ListOK, LinkedAreThere, NamesAreUnique
<1>4. CountsExclude'
  BY <1>2 DEF FilesOK, CountsExclude
<1>5. NodesCounted'
  BY <1>2, OpenOnIs DEF FilesOK, NodesCounted
<1>6. ASSUME NEW f, NEW mode, IsOpen(ram, f, mode)
      PROVE  IsOpen(ram', f, mode) /\ Content(ram', f) = Content(ram, f)
  <2>1. Content(ram', f) = Content(ram, f)
    BY <1>2 DEF Content
  <2> QED BY <1>2, <1>6, <2>1 DEF IsOpen, HasFile, ReadSoFar
<1>7. HandlesValid'
  BY <1>6 DEF FilesOK, HandlesValid
<1>8. \A k \in Clients : Kept(k)
  <2>1. ASSUME NEW k \in Clients, file[k] # Closed
        PROVE  Content(ram', file[k]) = Content(ram, file[k])
    BY <1>6, <2>1 DEF FilesOK, HandlesValid
  <2> QED BY <2>1 DEF Kept
<1> QED BY <1>1, <1>2, <1>3, <1>4, <1>5, <1>7, <1>8 DEF FilesOK
\* A node is created for one that writes it.
LEMMA CreateStep ==
  ASSUME FilesOK, NEW a \in Apps, file[a] = Closed, NEW o, NEW m, NEW name,
         Creates(ram, o, m, name), ram' = o.ram, file' = [file EXCEPT ![a] = o.file]
  PROVE  FilesOK' /\ OthersKept(a)
<1> DEFINE F == Open("ram", "WRITE", m)
<1>1. /\ ram \in Ram /\ file \in Handles
      /\ m \in Nodes /\ ram.node[m] = None /\ name \in Names /\ Named(ram, name) = {}
      /\ ram'.node = [ram.node EXCEPT ![m] = NewNode(name)]
      /\ ram'.list = <<m>> \o ram.list
      /\ ram' = [node |-> ram'.node, list |-> ram'.list]
      /\ Moved(file, a, F, file')
  BY DEF FilesOK, Creates, Moved
<1>2. /\ F \in Handle /\ F.partition = "ram" /\ F.mode = "WRITE" /\ F.fd = m
  BY <1>1, OpenIs
<1> HIDE DEF F
<1>3. /\ NewNode(name) \in Node /\ NewNode(name) # None
      /\ NewNode(name).name = name /\ NewNode(name).readers = 0 /\ NewNode(name).writers = 1
  <2>1. /\ NewNode(name) \in Node /\ NewNode(name).name = name
        /\ NewNode(name).readers = 0 /\ NewNode(name).writers = 1
    BY <1>1, EmptySeq DEF NewNode, Node
  <2> QED BY <2>1, FsRamAssumption
<1>4. \A n \in Nodes : ram'.node[n] = IF n = m THEN NewNode(name) ELSE ram.node[n]
  BY <1>1 DEF Ram
<1>5. /\ ram.list \in Seq(Nodes) /\ Len(ram.list) \in Nat
      /\ DOMAIN ram.list = 1 .. Len(ram.list)
      /\ \A i \in 1 .. Len(ram.list) : ram.list[i] \in Nodes /\ ram.list[i] # m
  <2>1. ram.list \in Seq(Nodes)
    BY <1>1 DEF Ram
  <2>2. /\ Len(ram.list) \in Nat /\ DOMAIN ram.list = 1 .. Len(ram.list)
        /\ \A i \in 1 .. Len(ram.list) : ram.list[i] \in Nodes
    BY <2>1, LenProperties, ElementOfSeq
  <2>3. \A i \in DOMAIN ram.list : ram.node[ram.list[i]] # None
    BY DEF FilesOK, LinkedAreThere
  <2> QED BY <1>1, <2>1, <2>2, <2>3
<1>6. /\ ram'.list \in Seq(Nodes) /\ DOMAIN ram'.list = 1 .. 1 + Len(ram.list)
      /\ \A i \in 1 .. 1 + Len(ram.list) :
           ram'.list[i] = IF i = 1 THEN m ELSE ram.list[i - 1]
  <2>1. <<m>> \in Seq(Nodes) /\ Len(<<m>>) = 1 /\ <<m>>[1] = m
    BY <1>1
  <2> DEFINE s == <<m>>
  <2> HIDE DEF s
  <2>2. /\ s \o ram.list \in Seq(Nodes) /\ Len(s \o ram.list) = 1 + Len(ram.list)
        /\ \A i \in 1 .. 1 + Len(ram.list) :
             (s \o ram.list)[i] = IF i <= 1 THEN s[i] ELSE ram.list[i - 1]
    <3>1. s \in Seq(Nodes) /\ Len(s) = 1
      BY <2>1 DEF s
    <3> QED BY <1>5, <3>1, ConcatProperties
  <2>3. ram'.list = s \o ram.list /\ s[1] = m
    BY <1>1, <2>1 DEF s
  <2>4. DOMAIN ram'.list = 1 .. 1 + Len(ram.list)
    BY <2>2, <2>3, LenProperties
  <2> QED BY <1>5, <2>2, <2>3, <2>4
<1>7. ram' \in Ram
  <2>1. ram'.node \in [Nodes -> Node \cup {None}]
    BY <1>1, <1>3 DEF Ram
  <2> QED BY <1>1, <1>6, <2>1 DEF Ram
<1>8. LinkedAreThere' /\ NamesAreUnique'
  <2> DEFINE d == 1 .. 1 + Len(ram.list)
  <2>1. ASSUME NEW i \in d, i # 1
        PROVE  /\ i - 1 \in 1 .. Len(ram.list) /\ ram'.list[i] = ram.list[i - 1]
               /\ ram'.node[ram'.list[i]] = ram.node[ram.list[i - 1]]
               /\ ram.node[ram.list[i - 1]] # None
               /\ ram.node[ram.list[i - 1]].name # name
    <3>1. i - 1 \in 1 .. Len(ram.list)
      BY <1>5, <2>1
    <3>2. ram'.list[i] = ram.list[i - 1] /\ ram.list[i - 1] \in Nodes /\ ram.list[i - 1] # m
      BY <1>5, <1>6, <2>1, <3>1
    <3>3. ram'.node[ram'.list[i]] = ram.node[ram.list[i - 1]]
      BY <1>4, <3>2
    <3>4. ram.node[ram.list[i - 1]] # None
      BY <1>5, <3>1 DEF FilesOK, LinkedAreThere
    <3>5. ram.node[ram.list[i - 1]].name # name
      BY <1>1, <1>5, <3>1 DEF Named
    <3> QED BY <3>1, <3>2, <3>3, <3>4, <3>5
  <2>2. /\ 1 \in d /\ ram'.list[1] = m
        /\ ram'.node[ram'.list[1]] # None /\ ram'.node[ram'.list[1]].name = name
    <3>1. 1 \in d
      BY <1>5
    <3>2. ram'.list[1] = m
      BY <1>6, <3>1
    <3> QED BY <1>1, <1>3, <1>4, <3>1, <3>2
  <2>3. LinkedAreThere'
    BY <1>6, <2>1, <2>2 DEF LinkedAreThere
  <2>4. ASSUME NEW i \in d, NEW j \in d,
               ram'.node[ram'.list[i]].name = ram'.node[ram'.list[j]].name
        PROVE  i = j
    <3>1. CASE i = 1 \/ j = 1
      BY <2>1, <2>2, <2>4, <3>1
    <3>2. CASE i # 1 /\ j # 1
      <4>1. ram.node[ram.list[i - 1]].name = ram.node[ram.list[j - 1]].name
        BY <2>1, <2>4, <3>2
      <4>2. i - 1 \in DOMAIN ram.list /\ j - 1 \in DOMAIN ram.list
        BY <1>5, <2>1, <3>2
      <4>3. i - 1 = j - 1
        BY <4>1, <4>2 DEF FilesOK, NamesAreUnique
      <4> QED BY <1>5, <4>3
    <3> QED BY <3>1, <3>2
  <2>5. NamesAreUnique'
    BY <1>6, <2>4 DEF NamesAreUnique
  <2> QED BY <2>3, <2>5
<1>9. ASSUME NEW k \in Clients \cup Apps, k # a, file[k] # Closed
      PROVE  IsOpen(ram', file[k], ModeOf(k))
             /\ (k \in Clients => Content(ram', file[k]) = Content(ram, file[k]))
  <2>1. IsOpen(ram, file[k], ModeOf(k))
    BY <1>9 DEF FilesOK, HandlesValid
  <2>2. file[k].partition = "ram" => file[k].fd \in Nodes /\ ram.node[file[k].fd] # None
    BY <2>1 DEF IsOpen, HasFile
  <2>3. file[k].partition = "ram" => ram'.node[file[k].fd] = ram.node[file[k].fd]
    BY <1>1, <1>4, <2>2
  <2>4. file[k].partition = "ram" =>
          /\ ram'.node[file[k].fd] # None
          /\ ModeOf(k) = "READ" => ram'.node[file[k].fd].data = ram.node[file[k].fd].data
    BY <2>2, <2>3
  <2>5. IsOpen(ram', file[k], ModeOf(k))
        /\ (ModeOf(k) = "READ" => Content(ram', file[k]) = Content(ram, file[k]))
    <3>1. ram \in Ram
      BY <1>1
    <3> QED BY <1>7, <2>1, <2>4, <3>1, KeptOpen
  <2> QED BY <2>5 DEF ModeOf
<1>10. IsOpen(ram', F, ModeOf(a)) /\ ModeOf(a) = "WRITE"
  <2>1. ModeOf(a) = "WRITE"
    BY ResourcesAssumption DEF ModeOf
  <2> QED BY <1>1, <1>2, <1>3, <1>4, <2>1 DEF IsOpen, HasFile
<1>11. file' \in Handles /\ HandlesValid' /\ OthersKept(a)
  <2>1. file' \in Handles
    BY <1>1, <1>2 DEF Handles, Moved
  <2>2. ASSUME NEW k \in Clients \cup Apps PROVE file'[k] = IF k = a THEN F ELSE file[k]
    BY <1>1 DEF Handles, Moved
  <2> QED BY <1>9, <1>10, <2>1, <2>2 DEF HandlesValid, OthersKept, Kept
<1>12. CountsExclude'
  BY <1>3, <1>4 DEF FilesOK, CountsExclude
<1>13. \A mode : HandlesOn(file, m, mode) = {}
  <2>1. ASSUME NEW k \in Clients \cup Apps, NEW mode PROVE ~ On(file[k], m, mode)
    <3>1. file[k] # Closed => HasFile(ram, file[k])
      BY DEF FilesOK, HandlesValid, IsOpen
    <3> QED BY <1>1, <3>1, FilesAssumption DEF HasFile, On, Closed
  <2>2. DOMAIN file = Clients \cup Apps
    BY <1>1 DEF Handles
  <2> QED BY <2>1, <2>2 DEF HandlesOn
<1>14. NodesCounted'
  <2>1. ASSUME NEW n \in Nodes, ram'.node[n] # None
        PROVE  /\ ram'.node[n].readers = Cardinality(HandlesOn(file', n, "READ"))
               /\ ram'.node[n].writers = Cardinality(HandlesOn(file', n, "WRITE"))
    <3>1. \A mode : ~ On(file[a], n, mode)
      BY FilesAssumption DEF On, Closed
    <3>2. CASE n = m
      <4>1. On(F, n, "WRITE") /\ ~ On(F, n, "READ")
        BY <1>2, <3>2 DEF On
      <4>2. /\ Cardinality(HandlesOn(file', n, "WRITE")) = Cardinality({}) + 1
            /\ Cardinality(HandlesOn(file', n, "READ")) = Cardinality({})
        <5>1. file \in Handles /\ Moved(file, a, F, file') /\ a \in Clients \cup Apps
          BY <1>1
        <5>2. \A mode : HandlesOn(file, n, mode) = {}
          BY <1>13, <3>2
        <5>3. \A mode : Cardinality(HandlesOn(file', n, mode)) =
                          IF On(F, n, mode) THEN Cardinality(HandlesOn(file, n, mode)) + 1
                          ELSE Cardinality(HandlesOn(file, n, mode))
          BY <3>1, <5>1, Counting
        <5> QED BY <4>1, <5>2, <5>3
      <4> QED BY <1>3, <1>4, <3>2, <4>2, FS_EmptySet
    <3>3. CASE n # m
      <4>1. \A mode : ~ On(F, n, mode)
        BY <1>2, <3>3 DEF On
      <4>2. \A mode : Cardinality(HandlesOn(file', n, mode)) = Cardinality(HandlesOn(file, n, mode))
        BY <1>1, <3>1, <4>1, Counting
      <4> QED BY <1>4, <2>1, <3>3, <4>2, OpenOnIs DEF FilesOK, NodesCounted
    <3> QED BY <3>2, <3>3
  <2> QED BY <2>1, OpenOnIs DEF NodesCounted
<1> QED BY <1>7, <1>8, <1>11, <1>12, <1>14 DEF FilesOK

\* What is written goes where nobody reads.
LEMMA WriteStep ==
  ASSUME FilesOK, NEW a \in Apps, file[a] # Closed, UNCHANGED file,
         NEW bytes \in Seq(Byte), ram' \in fwrite(ram, file[a], bytes)
  PROVE  FilesOK' /\ \A k \in Clients : Kept(k)
<1> DEFINE f == file[a]
           m == f.fd
           new == [ram.node[m] EXCEPT !.data = @ \o bytes]
<1>1. /\ ram \in Ram /\ file \in Handles /\ f \in Handle
      /\ IsOpen(ram, f, "WRITE") /\ a \notin Clients
  BY ResourcesAssumption DEF FilesOK, HandlesValid, ModeOf, IsOpen
<1>2. Moved(file, a, f, file')
  BY <1>1 DEF Moved, Handles
<1>3. CASE ram' = ram
  <2>1. FilesOK'
    BY <1>3, OpenOnIs DEF FilesOK, HandlesValid, LinkedAreThere, NamesAreUnique,
                          CountsExclude, NodesCounted
  <2> QED BY <1>3, <2>1 DEF OthersKept, Kept
<1>4. CASE f.partition = "ram" /\ ram' = [ram EXCEPT !.node[m].data = @ \o bytes]
  <2>1. m \in Nodes /\ ram.node[m] # None /\ ram.node[m] \in Node
    BY <1>1, <1>4, ContentIs DEF IsOpen, HasFile
  <2>2. On(f, m, "WRITE")
    BY <1>1, <1>4 DEF On, IsOpen
  <2> HIDE DEF m, f
  <2>3. ram.node[m].data \o bytes \in Seq(Byte)
    BY <2>1, ConcatProperties DEF Node
  <2>4. /\ new \in Node /\ new.name = ram.node[m].name
        /\ new.readers = ram.node[m].readers /\ new.writers = ram.node[m].writers
    BY <2>1, <2>3 DEF Node
  <2>5. new # None
    BY <2>4, FsRamAssumption
  <2>6. ram' = [ram EXCEPT !.node = [ram.node EXCEPT ![m] = new]]
    BY <1>4, <2>1 DEF Ram
  <2> HIDE DEF new
  <2>7. /\ ram' \in Ram /\ ram'.list = ram.list
        /\ \A n \in Nodes : ram'.node[n] = IF n = m THEN new ELSE ram.node[n]
    BY <1>1, <2>1, <2>4, <2>6 DEF Ram
  <2>8. \A k \in Clients : ~ On(file[k], m, "READ")
    <3>1. /\ ram.node[m].readers = Cardinality(HandlesOn(file, m, "READ"))
          /\ ram.node[m].writers = Cardinality(HandlesOn(file, m, "WRITE"))
      BY <2>1, OpenOnIs DEF FilesOK, NodesCounted
    <3>2. Cardinality(HandlesOn(file, m, "WRITE")) > 0
          /\ Cardinality(HandlesOn(file, m, "WRITE")) \in Nat
      BY <1>1, <1>2, <2>2, Counting DEF f
    <3>3. ram.node[m].readers = 0
      BY <2>1, <3>1, <3>2 DEF FilesOK, CountsExclude
    <3>4. ASSUME NEW k \in Clients, On(file[k], m, "READ") PROVE FALSE
      <4>1. Moved(file, k, file[k], file)
        BY <1>1 DEF Moved, Handles
      <4>2. Cardinality(HandlesOn(file, m, "READ")) > 0
        BY <1>1, <3>4, <4>1, Counting
      <4> QED BY <3>1, <3>3, <4>2
    <3> QED BY <3>4
  <2>9. ASSUME NEW n \in Nodes, ram.node[n] # None
        PROVE  /\ ram'.node[n] # None /\ ram'.node[n].name = ram.node[n].name
               /\ ram'.node[n].readers = ram.node[n].readers
               /\ ram'.node[n].writers = ram.node[n].writers
               /\ (\E k \in Clients : On(file[k], n, "READ")) =>
                    ram'.node[n].data = ram.node[n].data
    <3>1. CASE n = m
      BY <2>4, <2>5, <2>7, <2>8, <3>1
    <3>2. CASE n # m
      BY <2>7, <2>9, <3>2
    <3> QED BY <3>1, <3>2
  <2>10. IsOpen(ram', f, ModeOf(a))
    <3>1. f.fd \in Nodes /\ ram'.node[f.fd] # None
      BY <2>1, <2>9 DEF m
    <3> QED BY <1>1, <1>4, <3>1 DEF IsOpen, HasFile, ModeOf
  <2>11. /\ file' \in Handles /\ HandlesValid' /\ OthersKept(a)
         /\ LinkedAreThere' /\ NamesAreUnique'
    BY <1>2, <2>7, <2>9, <2>10, NodesStay
  <2>12. \A n \in Nodes : ram'.node[n] # None => ram.node[n] # None
    BY <2>1, <2>7
  <2>13. CountsExclude'
    BY <2>9, <2>12 DEF FilesOK, CountsExclude
  <2>14. NodesCounted'
    BY <2>9, <2>12, OpenOnIs DEF FilesOK, NodesCounted
  <2> QED BY <1>1, <2>7, <2>11, <2>13, <2>14 DEF FilesOK, OthersKept, Kept
<1>5. ram' = ram \/ (f.partition = "ram" /\ ram' = [ram EXCEPT !.node[m].data = @ \o bytes])
  BY DEF fwrite, ram_fwrite
<1> QED BY <1>3, <1>4, <1>5
-----------------------------------------------------------------------------
(* Opening a resource.                                                     *)

\* What the client of a step holds, and what all others do.
Holds(res, h, r, f) ==
  /\ res \in ResourceBlock \cup {None} /\ h \in [resource : Nat, priv : Nat]
  /\ res # None => f # Closed /\ Gave(r, f, res)
  /\ h.resource = IF res = None THEN 0 ELSE 1
  /\ h.priv = IF res = None \/ res.priv = None THEN 0 ELSE 1

LEMMA ClientStep ==
  ASSUME FilesOK, ClientsOK, ~ failed, NEW c \in Clients, OthersKept(c),
         NEW res, NEW h, failed' \in BOOLEAN,
         Moved(resource, c, res, resource'), Moved(heap, c, h, heap'),
         Holds(res, h, ram', file'[c]), res = None /\ ~ failed' => file'[c] = Closed
  PROVE  ClientsOK'
<1>1. resource' \in [Clients -> ResourceBlock \cup {None}]
  BY DEF ClientsOK, Holds, Moved
<1>2. heap' \in [Clients -> [resource : Nat, priv : Nat]]
  BY DEF ClientsOK, Holds, Moved
<1>3. ASSUME NEW k \in Clients
      PROVE  IF k = c THEN resource'[k] = res /\ heap'[k] = h
             ELSE resource'[k] = resource[k] /\ heap'[k] = heap[k] /\ file'[k] = file[k]
  BY DEF ClientsOK, OthersKept, Kept, Moved
<1>4. Answers'
  <2>1. ASSUME NEW k \in Clients, resource'[k] # None
        PROVE  file'[k] # Closed /\ Gave(ram', file'[k], resource'[k])
    <3>1. CASE k = c
      BY <1>3, <2>1, <3>1 DEF Holds
    <3>2. CASE k # c
      <4>1. resource[k] # None /\ resource'[k] = resource[k] /\ file'[k] = file[k]
        BY <1>3, <2>1, <3>2
      <4>2. file[k] # Closed /\ Gave(ram, file[k], resource[k])
        BY <4>1 DEF ClientsOK, Answers
      <4>3. Content(ram', file[k]) = Content(ram, file[k])
        BY <3>2, <4>2 DEF OthersKept, Kept
      <4> QED BY <4>1, <4>2, <4>3 DEF Gave
    <3> QED BY <3>1, <3>2
  <2> QED BY <2>1 DEF Answers
<1>5. OpenWithResource'
  <2>1. ASSUME NEW k \in Clients, ~ failed'
        PROVE  file'[k] = Closed <=> resource'[k] = None
    BY <1>3, <2>1 DEF ClientsOK, OpenWithResource, Holds
  <2> QED BY <2>1 DEF OpenWithResource
<1>6. HeapIsHeld'
  BY <1>3 DEF ClientsOK, HeapIsHeld, Holds
<1> QED BY <1>1, <1>2, <1>4, <1>5, <1>6 DEF ClientsOK

\* The outcomes of opening a resource.
LEMMA OpensIs ==
  ASSUME ram \in Ram, ListOK(ram), NEW path, NEW dynamic \in BOOLEAN,
         NEW o \in IF dynamic THEN open_dynamic(path) ELSE open_static(path)
  PROVE  \/ /\ o.err \notin {"OK", "ASSERT"} /\ o.ram = ram
            /\ o.file = Closed /\ o.resource = None
         \/ /\ o.err = "ASSERT" /\ o.resource = None
            /\ OpenedFor(ram, o.ram, o.file, "READ")
         \/ /\ o.err = "OK"
            /\ \E f : /\ OpenedFor(ram, o.ram, f, "READ") /\ o.file = fseek(f, 0)
                      /\ o.resource = IF dynamic THEN Resource(0, Fresh)
                                      ELSE Resource(Len(Content(o.ram, f)), None)
<1>1. ASSUME NEW p \in fopen(ram, path, "READ"), p.err # "OK", o = Refused(p.err, p.ram, p.file)
      PROVE  /\ o.err \notin {"OK", "ASSERT"} /\ o.ram = ram
             /\ o.file = Closed /\ o.resource = None
  <2>1. p.err # "ASSERT" /\ p.ram = ram /\ p.file = Closed
    BY <1>1, FopenRead
  <2> QED BY <1>1, <2>1 DEF Refused
<1>2. ASSUME NEW p \in fopen(ram, path, "READ")
      PROVE  /\ p.err = "OK" => OpenedFor(ram, p.ram, p.file, "READ")
             /\ p.err # "OK" => Seeks(p.ram, p.file, 0)
             /\ \A f : [p EXCEPT !.file = f] = Outcome(p.err, p.ram, f)
  <2>1. /\ p = Outcome(p.err, p.ram, p.file)
        /\ p.err = "OK" => OpenedFor(ram, p.ram, p.file, "READ")
        /\ p.err # "OK" => p.file = Closed
    BY FopenRead
  <2>2. p.err # "OK" => Seeks(p.ram, p.file, 0)
    BY <2>1, FilesAssumption DEF Seeks, Closed
  <2>3. ASSUME NEW e, NEW r, NEW g, p = Outcome(e, r, g), NEW f
        PROVE  [p EXCEPT !.file = f] = Outcome(e, r, f)
    BY <2>3 DEF Outcome
  <2> QED BY <2>1, <2>2, <2>3
<1>3. ASSUME NEW p \in fopen(ram, path, "READ"), p.err = "OK", o = Stops(p)
      PROVE  /\ o.err = "ASSERT" /\ o.resource = None
             /\ OpenedFor(ram, o.ram, o.file, "READ")
  BY <1>2, <1>3 DEF Stops
<1>4. CASE dynamic
  <2> DEFINE opened(p) == OpenedPage(p, Measured(p))
             outcomes(p) ==
               IF p.err # "OK" THEN {Refused(p.err, p.ram, p.file)}
               ELSE {Refused("POLL", fclose(p.ram, p.file), Closed),
                     IF Seeks(p.ram, p.file, 0) THEN opened(p) ELSE Stops(p)}
  <2>1. PICK p \in fopen(ram, path, "READ") : o \in outcomes(p)
    BY <1>4 DEF open_dynamic
  <2> HIDE DEF opened
  <2>2. CASE p.err # "OK"
    <3>1. o = Refused(p.err, p.ram, p.file)
      BY <1>2, <2>1, <2>2
    <3> QED BY <1>1, <2>2, <3>1
  <2>3. CASE p.err = "OK"
    <3>1. \/ o = Refused("POLL", fclose(p.ram, p.file), Closed)
          \/ o = opened(p) \/ o = Stops(p)
      BY <2>1, <2>3
    <3>2. OpenedFor(ram, p.ram, p.file, "READ")
      BY <1>2, <2>3
    <3>3. CASE o = Refused("POLL", fclose(p.ram, p.file), Closed)
      <4>1. fclose(p.ram, p.file) = ram
        BY <3>2, JustOpened
      <4> QED BY <3>3, <4>1 DEF Refused
    <3>4. CASE o = Stops(p)
      BY <1>3, <2>3, <3>4
    <3>5. CASE o = opened(p)
      <4>1. p.ram \in Ram /\ p.file \in Handle /\ IsOpen(p.ram, p.file, "READ")
        BY <3>2, JustOpened DEF OpenedFor
      <4>2. Measured(p).file = fseek(p.file, 0) /\ Measured(p).size = 0 /\ Measured(p).p = Begun
        BY <4>1, MeasuredIs
      <4>3. [Begun EXCEPT !.reset = TRUE] = Fresh
        BY BegunIs DEF Begun, Fresh
      <4>4. o = Opened(Outcome(p.err, p.ram, fseek(p.file, 0)), 0, Fresh)
        BY <1>2, <3>5, <4>2, <4>3 DEF opened, OpenedPage
      <4> QED BY <1>4, <2>3, <3>2, <4>4 DEF Opened, Outcome
    <3> QED BY <3>1, <3>3, <3>4, <3>5
  <2> QED BY <2>2, <2>3
<1>5. CASE ~ dynamic
  <2> DEFINE opened(p) == Opened([p EXCEPT !.file = fseek(p.file, 0)],
                                 fsize(p.ram, p.file), None)
             outcome(p) == CASE p.err # "OK"             -> Refused(p.err, p.ram, p.file)
                             [] ~ Seeks(p.ram, p.file, 0) -> Stops(p)
                             [] OTHER -> opened(p)
  <2>1. PICK p \in fopen(ram, path, "READ") : o = outcome(p)
    BY <1>5 DEF open_static
  <2> HIDE DEF opened
  <2>2. CASE p.err # "OK"
    <3>1. o = Refused(p.err, p.ram, p.file)
      BY <1>2, <2>1, <2>2
    <3> QED BY <1>1, <2>2, <3>1
  <2>3. CASE p.err = "OK" /\ ~ Seeks(p.ram, p.file, 0)
    <3>1. o = Stops(p)
      BY <2>1, <2>3
    <3> QED BY <1>3, <2>3, <3>1
  <2>4. CASE p.err = "OK" /\ Seeks(p.ram, p.file, 0)
    <3>1. o = opened(p)
      BY <2>1, <2>4
    <3>2. OpenedFor(ram, p.ram, p.file, "READ")
      BY <1>2, <2>4
    <3>3. o = Opened(Outcome(p.err, p.ram, fseek(p.file, 0)), fsize(p.ram, p.file), None)
      BY <1>2, <3>1 DEF opened
    <3> QED BY <1>5, <3>2, <3>3 DEF Opened, Outcome, fsize
  <2> QED BY <2>2, <2>3, <2>4
<1> QED BY <1>4, <1>5
-----------------------------------------------------------------------------
(* Every action keeps the invariant.                                       *)

LEMMA ResourceIs ==
  ASSUME NEW size \in Nat, NEW priv \in Reader \cup {None}
  PROVE  /\ Resource(size, priv) \in ResourceBlock /\ Resource(size, priv) # None
         /\ Resource(size, priv).size = size /\ Resource(size, priv).priv = priv
         /\ Resource(size, priv).out = <<>> /\ ~ Resource(size, priv).ended
<1>1. Resource(size, priv) \in ResourceBlock
  BY EmptySeq DEF Resource, ResourceBlock
<1> QED BY <1>1, ResourcesAssumption DEF Resource

LEMMA ResourceOpenKeeps ==
  ASSUME IInv, NEW c \in Clients, NEW path \in Paths, NEW dynamic \in BOOLEAN,
         ResourceOpen(c, path, dynamic)
  PROVE  IInv'
<1>1. FilesOK /\ ClientsOK /\ ram \in Ram /\ ListOK(ram) /\ resource[c] = None /\ ~ failed
  BY DEF IInv, FilesOK, ResourceOpen, ListOK, LinkedAreThere, NamesAreUnique
<1>2. file \in Handles /\ file[c] = Closed
  BY <1>1 DEF FilesOK, ClientsOK, OpenWithResource
<1>3. heap[c] = [resource |-> 0, priv |-> 0]
  BY <1>1 DEF ClientsOK, HeapIsHeld
<1>4. PICK o \in IF dynamic THEN open_dynamic(path) ELSE open_static(path) :
        /\ ram' = o.ram /\ file' = [file EXCEPT ![c] = o.file]
        /\ resource' = [resource EXCEPT ![c] = o.resource]
        /\ heap' = IF o.err = "OK"
                     THEN [heap EXCEPT ![c].resource = @ + 1,
                                       ![c].priv = @ + IF dynamic THEN 1 ELSE 0]
                     ELSE heap
        /\ failed' = (o.err = "ASSERT")
  BY DEF ResourceOpen
<1>5. file'[c] = o.file /\ heap \in [Clients -> [resource : Nat, priv : Nat]]
  BY <1>1, <1>2, <1>4 DEF Handles, ClientsOK
<1>6. CASE /\ o.err \notin {"OK", "ASSERT"} /\ o.ram = ram
           /\ o.file = Closed /\ o.resource = None
  <2>1. FilesOK' /\ OthersKept(c)
    BY <1>1, <1>2, <1>4, <1>6, SameRam
  <2>2. Moved(heap, c, heap[c], heap')
    BY <1>4, <1>5, <1>6 DEF Moved
  <2>3. Holds(None, heap[c], ram', file'[c]) /\ (~ failed' => file'[c] = Closed)
    BY <1>3, <1>5, <1>6 DEF Holds
  <2>4. failed' \in BOOLEAN /\ Moved(resource, c, None, resource')
    BY <1>4, <1>6 DEF Moved
  <2>5. ClientsOK'
    BY <1>1, <2>1, <2>2, <2>3, <2>4, ClientStep
  <2> QED BY <2>1, <2>5 DEF IInv
<1>7. CASE /\ o.err = "ASSERT" /\ o.resource = None
           /\ OpenedFor(ram, o.ram, o.file, "READ")
  <2>1. IsOpen(ram', o.file, "READ")
    BY <1>1, <1>4, <1>7, JustOpened
  <2>2. FilesOK' /\ OthersKept(c)
    BY <1>1, <1>2, <1>4, <1>7, <2>1, OpenStep
  <2>3. Moved(heap, c, heap[c], heap')
    BY <1>4, <1>5, <1>7 DEF Moved
  <2>4. failed' \in BOOLEAN /\ Moved(resource, c, None, resource')
    BY <1>4, <1>7 DEF Moved
  <2>5. Holds(None, heap[c], ram', file'[c]) /\ (~ failed' => file'[c] = Closed)
    <3>1. failed'
      BY <1>4, <1>7
    <3> QED BY <1>3, <3>1 DEF Holds
  <2>6. ClientsOK'
    BY <1>1, <2>2, <2>3, <2>4, <2>5, ClientStep
  <2> QED BY <2>2, <2>6 DEF IInv
<1>8. CASE /\ o.err = "OK"
           /\ \E f : /\ OpenedFor(ram, o.ram, f, "READ") /\ o.file = fseek(f, 0)
                     /\ o.resource = IF dynamic THEN Resource(0, Fresh)
                                     ELSE Resource(Len(Content(o.ram, f)), None)
  <2>1. PICK f : /\ OpenedFor(ram, ram', f, "READ") /\ o.file = fseek(f, 0)
                 /\ o.resource = IF dynamic THEN Resource(0, Fresh)
                                 ELSE Resource(Len(Content(ram', f)), None)
    BY <1>4, <1>8
  <2>2. f \in Handle /\ ram' \in Ram /\ IsOpen(ram', f, "READ")
    BY <1>1, <2>1, JustOpened DEF OpenedFor
  <2> DEFINE F == o.file
  <2>3. /\ IsOpen(ram', F, "READ") /\ Content(ram', F) = Content(ram', f)
        /\ F = [f EXCEPT !.pos = 0, !.seen = <<>>]
    BY <2>1, <2>2, BeginsIs
  <2>4. /\ F.partition = f.partition /\ F.mode = f.mode /\ F.fd = f.fd /\ F.seen = <<>>
        /\ F \in Handle /\ F # Closed
    BY <2>2, <2>3, ClosedIs DEF Handle, IsOpen
  <2> HIDE DEF F
  <2>5. FilesOK' /\ OthersKept(c)
    BY <1>1, <1>2, <1>4, <2>1, <2>3, <2>4, OpenStep DEF F
  <2>6. Len(Content(ram', F)) \in Nat
    BY <2>2, <2>3, ContentIs DEF IsOpen
  <2> DEFINE res == o.resource
             h == [resource |-> 1, priv |-> IF dynamic THEN 1 ELSE 0]
  <2>7. res = IF dynamic THEN Resource(0, Fresh) ELSE Resource(Len(Content(ram', F)), None)
    BY <2>1, <2>3
  <2> HIDE DEF res
  <2>8. Fresh \in Reader /\ Fresh # None
    BY BegunIs, TemplateAssumption
  <2>9. /\ res \in ResourceBlock /\ res # None /\ res.out = <<>> /\ ~ res.ended
        /\ IF dynamic THEN res.size = 0 /\ res.priv = Fresh
           ELSE res.size = Len(Content(ram', F)) /\ res.priv = None
    <3>1. CASE dynamic
      BY <2>7, <2>8, <3>1, ResourceIs
    <3>2. CASE ~ dynamic
      BY <2>6, <2>7, <3>2, ResourceIs
    <3> QED BY <3>1, <3>2
  <2>10. Gave(ram', F, res)
    BY <2>4, <2>8, <2>9 DEF Gave, Idle
  <2>11. Holds(res, h, ram', F)
    BY <2>4, <2>8, <2>9, <2>10 DEF Holds
  <2>12. Moved(heap, c, h, heap')
    <3> DEFINE d == IF dynamic THEN 1 ELSE 0
    <3>1. heap' = [heap EXCEPT ![c].resource = @ + 1, ![c].priv = @ + d]
      BY <1>4, <1>8
    <3>2. d \in Nat /\ h = [resource |-> 0 + 1, priv |-> 0 + d]
      OBVIOUS
    <3> HIDE DEF d, h
    <3>3. PICK g : g = [heap EXCEPT ![c].resource = @ + 1]
      OBVIOUS
    <3>4. g = [k \in Clients |-> IF k = c THEN [resource |-> 0 + 1, priv |-> 0] ELSE heap[k]]
      <4>1. g = [heap EXCEPT ![c] = [heap[c] EXCEPT !.resource = @ + 1]]
        BY <1>5, <3>3
      <4>2. [heap[c] EXCEPT !.resource = @ + 1] = [resource |-> 0 + 1, priv |-> 0]
        BY <1>3
      <4> QED BY <1>5, <4>1, <4>2
    <3>5. heap' = [g EXCEPT ![c].priv = @ + d]
      BY <3>1, <3>3
    <3>6. heap' = [k \in Clients |-> IF k = c THEN h ELSE heap[k]]
      BY <3>2, <3>4, <3>5
    <3>7. heap' = [heap EXCEPT ![c] = h]
      BY <1>5, <3>6
    <3> QED BY <3>7 DEF Moved
  <2>13. failed' \in BOOLEAN /\ Moved(resource, c, res, resource') /\ file'[c] = F
    BY <1>4, <1>5, <1>8 DEF res, F, Moved
  <2> HIDE DEF h
  <2>14. ClientsOK'
    BY <1>1, <2>5, <2>9, <2>11, <2>12, <2>13, ClientStep
  <2> QED BY <2>5, <2>14 DEF IInv
<1>9. ram \in Ram /\ ListOK(ram)
  BY <1>1
<1> QED BY <1>6, <1>7, <1>8, <1>9, OpensIs
\* A client that holds a resource: what is known of its file.
LEMMA HoldsFile ==
  ASSUME IInv, NEW c \in Clients, resource[c] # None
  PROVE  /\ FilesOK /\ ClientsOK /\ ram \in Ram /\ file \in Handles
         /\ file[c] \in Handle /\ IsOpen(ram, file[c], "READ") /\ file[c] # Closed
         /\ resource[c] \in ResourceBlock /\ Gave(ram, file[c], resource[c])
         /\ heap[c] \in [resource : Nat, priv : Nat] /\ heap[c].resource = 1
         /\ heap[c].priv = IF resource[c].priv = None THEN 0 ELSE 1
<1>1. FilesOK /\ ClientsOK
  BY DEF IInv
<1>2. file[c] # Closed /\ Gave(ram, file[c], resource[c])
  BY <1>1 DEF ClientsOK, Answers
<1>3. IsOpen(ram, file[c], "READ")
  BY <1>1, <1>2 DEF FilesOK, HandlesValid, ModeOf
<1>4. heap[c] \in [resource : Nat, priv : Nat] /\ resource[c] \in ResourceBlock
  BY <1>1 DEF ClientsOK
<1> QED BY <1>1, <1>2, <1>3, <1>4 DEF FilesOK, ClientsOK, HeapIsHeld, IsOpen

\* A client reads: its handle moves in the same file.
ReadStep(c, F, res) ==
  /\ file' = [file EXCEPT ![c] = F]
  /\ resource' = [resource EXCEPT ![c] = res]
  /\ UNCHANGED <<ram, heap, failed>>

LEMMA ReadKeeps ==
  ASSUME IInv, NEW c \in Clients, resource[c] # None, ~ failed,
         NEW F \in Handle, IsOpen(ram, F, "READ"), F.partition = file[c].partition,
         F.mode = file[c].mode, F.fd = file[c].fd,
         NEW res \in ResourceBlock, ReadStep(c, F, res),
         res.priv = None <=> resource[c].priv = None, Gave(ram, F, res)
  PROVE  IInv'
<1>1. FilesOK /\ ClientsOK /\ file \in Handles
  BY HoldsFile
<1>2. \A n, mode : On(file[c], n, mode) <=> On(F, n, mode)
  BY DEF On
<1>3. F # Closed
  BY ClosedIs
<1>4. FilesOK' /\ OthersKept(c)
  BY <1>1, <1>2, SameRam DEF ModeOf, ReadStep
<1>5. file'[c] = F
  BY <1>1 DEF Handles, ReadStep
<1>6. res # None
  BY ResourcesAssumption
<1>7. Holds(res, heap[c], ram', file'[c])
  <2>1. /\ heap[c] \in [resource : Nat, priv : Nat] /\ heap[c].resource = 1
        /\ heap[c].priv = IF res.priv = None THEN 0 ELSE 1
    BY HoldsFile
  <2>2. Gave(ram', file'[c], res)
    BY <1>5 DEF ReadStep
  <2> QED BY <1>3, <1>5, <1>6, <2>1, <2>2 DEF Holds
<1>8. Moved(resource, c, res, resource') /\ Moved(heap, c, heap[c], heap')
  BY <1>1 DEF Moved, ClientsOK, ReadStep
<1>9. failed' \in BOOLEAN
  BY <1>1 DEF ClientsOK, ReadStep
<1>10. ClientsOK'
  BY <1>1, <1>4, <1>6, <1>7, <1>8, <1>9, ClientStep
<1> QED BY <1>4, <1>10 DEF IInv

LEMMA ReadStaticKeeps ==
  ASSUME IInv, NEW c \in Clients, NEW size \in Sizes, ReadStatic(c, size)
  PROVE  IInv'
<1> DEFINE f == file[c]
           g == fread(ram, f, size)
           bytes == SubSeq(g.seen, Len(f.seen) + 1, Len(g.seen))
           res == [resource[c] EXCEPT !.out = @ \o bytes, !.ended = bytes = <<>>]
<1>1. resource[c] # None /\ ~ failed /\ resource[c].priv = None
  BY DEF ReadStatic
<1>2. /\ ram \in Ram /\ file \in Handles /\ f \in Handle /\ IsOpen(ram, f, "READ")
      /\ resource[c] \in ResourceBlock /\ Gave(ram, f, resource[c])
  BY <1>1, HoldsFile
<1>3. size \in Nat \ {0}
  BY ResourcesAssumption
<1>4. /\ IsOpen(ram, g, "READ") /\ g \in Handle
      /\ g.partition = f.partition /\ g.mode = f.mode /\ g.fd = f.fd
      /\ bytes \in Seq(Byte) /\ g.seen = f.seen \o bytes
      /\ bytes = <<>> => g.pos = Len(Content(ram, g))
  BY <1>2, <1>3, FreadIs
<1>5. /\ file' = [file EXCEPT ![c] = g] /\ UNCHANGED <<ram, heap, failed>>
      /\ resource' = [resource EXCEPT ![c].out = @ \o bytes, ![c].ended = bytes = <<>>]
  BY DEF ReadStatic, Gives
<1> HIDE DEF f, g, bytes
<1>6. Content(ram, g) = Content(ram, f)
  BY <1>4 DEF Content
<1>7. resource[c].out = f.seen /\ resource[c].size = Len(Content(ram, f))
  BY <1>1, <1>2 DEF Gave
<1>8. /\ res \in ResourceBlock /\ res.priv = None /\ res.size = Len(Content(ram, g))
      /\ res.out = g.seen /\ (res.ended <=> bytes = <<>>)
  <2>1. resource[c].out \o bytes \in Seq(Byte)
    BY <1>2, <1>4, ConcatProperties DEF ResourceBlock
  <2>2. (bytes = <<>>) \in BOOLEAN
    OBVIOUS
  <2> QED BY <1>1, <1>2, <1>4, <1>6, <1>7, <2>1, <2>2 DEF ResourceBlock
<1>9. resource' = [resource EXCEPT ![c] = res]
  <2>1. PICK t : t = [resource EXCEPT ![c].out = @ \o bytes]
    OBVIOUS
  <2>2. resource \in [Clients -> ResourceBlock \cup {None}]
    BY DEF IInv, ClientsOK
  <2>3. t = [k \in Clients |-> IF k = c THEN [resource[c] EXCEPT !.out = @ \o bytes]
                               ELSE resource[k]]
    BY <2>1, <2>2
  <2>4. resource' = [t EXCEPT ![c].ended = bytes = <<>>]
    BY <1>5, <2>1
  <2>5. resource' = [k \in Clients |-> IF k = c THEN res ELSE resource[k]]
    BY <2>3, <2>4
  <2> QED BY <2>2, <2>5
<1> HIDE DEF res
<1>10. Gave(ram, g, res)
  BY <1>4, <1>8 DEF Gave
<1> QED BY <1>1, <1>4, <1>5, <1>8, <1>9, <1>10, ReadKeeps DEF f, ReadStep

LEMMA ReadDynamicKeeps ==
  ASSUME IInv, NEW c \in Clients, NEW size \in Sizes, ReadDynamic(c, size)
  PROVE  IInv'
<1> DEFINE f == file[c]
           s == read_dynamic(ram, f, resource[c].priv, Attributes, size)
           g == Begins(resource[c].priv, f)
           res == [resource[c] EXCEPT !.priv = Begun, !.out = <<>>, !.ended = TRUE]
<1>1. resource[c] # None /\ ~ failed /\ resource[c].priv # None
  BY DEF ReadDynamic
<1>2. /\ ram \in Ram /\ file \in Handles /\ f \in Handle /\ IsOpen(ram, f, "READ")
      /\ resource[c] \in ResourceBlock /\ Gave(ram, f, resource[c])
  BY <1>1, HoldsFile
<1>3. resource[c].priv \in Idle /\ resource[c].out = <<>> /\ resource[c].size = 0
  BY <1>1, <1>2 DEF Gave
<1>4. size \in Nat \ {0}
  BY ResourcesAssumption
<1>5. s.out = <<>> /\ s.p = Begun /\ s.file = g
  BY <1>2, <1>3, <1>4, ReadDynamicIs
<1>6. /\ file' = [file EXCEPT ![c] = s.file] /\ UNCHANGED <<ram, heap, failed>>
      /\ resource' = [resource EXCEPT ![c].priv = s.p, ![c].out = @ \o s.out,
                                      ![c].ended = s.out = <<>>]
  BY DEF ReadDynamic
<1> HIDE DEF s
<1>7. IsOpen(ram, g, "READ") /\ Content(ram, g) = Content(ram, f)
  BY <1>2, BeginsIs
<1>8. g \in Handle /\ g.partition = f.partition /\ g.mode = f.mode /\ g.fd = f.fd
  <2>1. fseek(f, 0) = [f EXCEPT !.pos = 0, !.seen = <<>>]
    BY <1>2, BeginsIs
  <2>2. g = [f EXCEPT !.pos = 0, !.seen = <<>>] \/ g = f
    BY <2>1 DEF Begins
  <2>3. g \in Handle
    BY <1>7 DEF IsOpen
  <2> HIDE DEF g, f
  <2> QED BY <1>2, <2>2, <2>3 DEF Handle
<1>9. Begun \in Reader /\ Begun # None /\ Begun \in Idle
  BY BegunIs, TemplateAssumption DEF Idle
<1>10. /\ res \in ResourceBlock /\ res.priv = Begun /\ res.out = <<>> /\ res.size = 0
  BY <1>2, <1>3, <1>9, EmptySeq DEF ResourceBlock
<1>11. resource' = [resource EXCEPT ![c] = res]
  <2>1. resource \in [Clients -> ResourceBlock \cup {None}]
    BY DEF IInv, ClientsOK
  <2>2. <<>> \o <<>> = <<>>
    BY ConcatEmptySeq, EmptySeq
  <2>3. PICK t : t = [resource EXCEPT ![c].priv = s.p]
    OBVIOUS
  <2>4. t = [k \in Clients |-> IF k = c THEN [resource[c] EXCEPT !.priv = Begun]
                               ELSE resource[k]]
    BY <1>5, <2>1, <2>3
  <2>5. PICK u : u = [t EXCEPT ![c].out = @ \o s.out]
    OBVIOUS
  <2>6. resource' = [u EXCEPT ![c].ended = s.out = <<>>]
    BY <1>6, <2>3, <2>5
  <2>7. [resource[c] EXCEPT !.priv = Begun].out = <<>>
    BY <1>2, <1>3 DEF ResourceBlock
  <2>8. u = [k \in Clients |-> IF k = c THEN [resource[c] EXCEPT !.priv = Begun, !.out = <<>>]
                               ELSE resource[k]]
    BY <1>5, <2>2, <2>4, <2>5, <2>7
  <2>9. (s.out = <<>>) = TRUE
    BY <1>5
  <2>10. resource' = [k \in Clients |-> IF k = c THEN res ELSE resource[k]]
    BY <2>6, <2>8, <2>9
  <2> QED BY <2>1, <2>10
<1>12. Gave(ram, g, res)
  BY <1>9, <1>10 DEF Gave
<1> HIDE DEF res, g
<1> QED BY <1>1, <1>5, <1>6, <1>7, <1>8, <1>9, <1>10, <1>11, <1>12, ReadKeeps DEF f, ReadStep
LEMMA ResourceCloseKeeps ==
  ASSUME IInv, NEW c \in Clients, ResourceClose(c)
  PROVE  IInv'
<1> DEFINE h == [resource |-> 0, priv |-> 0]
<1>1. resource[c] # None /\ ~ failed
  BY DEF ResourceClose
<1>2. /\ FilesOK /\ ClientsOK /\ file \in Handles /\ file[c] # Closed
      /\ heap[c] \in [resource : Nat, priv : Nat] /\ heap[c].resource = 1
      /\ heap[c].priv = IF resource[c].priv = None THEN 0 ELSE 1
  BY <1>1, HoldsFile
<1>3. FilesOK' /\ OthersKept(c)
  <2>1. ram' = fclose(ram, file[c]) /\ file' = [file EXCEPT ![c] = Closed]
    BY DEF ResourceClose
  <2> QED BY <1>2, <2>1, CloseStep
<1>4. file'[c] = Closed /\ Moved(resource, c, None, resource') /\ failed' \in BOOLEAN
  BY <1>2 DEF ResourceClose, Handles, Moved, ClientsOK
<1>5. Moved(heap, c, h, heap')
  <2> DEFINE d == IF resource[c].priv = None THEN 0 ELSE 1
  <2>1. heap' = [heap EXCEPT ![c].resource = @ - 1, ![c].priv = @ - d]
    BY DEF ResourceClose
  <2>2. heap \in [Clients -> [resource : Nat, priv : Nat]]
    BY <1>2 DEF ClientsOK
  <2>3. heap[c] = [resource |-> 1, priv |-> d]
    BY <1>2
  <2>4. d \in Nat /\ [resource |-> 1 - 1, priv |-> d - d] = h
    OBVIOUS
  <2> HIDE DEF d, h
  <2>5. PICK g : g = [heap EXCEPT ![c].resource = @ - 1]
    OBVIOUS
  <2>6. g = [k \in Clients |-> IF k = c THEN [resource |-> 1 - 1, priv |-> d] ELSE heap[k]]
    <3>1. g = [heap EXCEPT ![c] = [heap[c] EXCEPT !.resource = @ - 1]]
      BY <2>2, <2>5
    <3>2. [heap[c] EXCEPT !.resource = @ - 1] = [resource |-> 1 - 1, priv |-> d]
      BY <2>3
    <3> QED BY <2>2, <3>1, <3>2
  <2>7. heap' = [g EXCEPT ![c].priv = @ - d]
    BY <2>1, <2>5
  <2>8. heap' = [k \in Clients |-> IF k = c THEN h ELSE heap[k]]
    BY <2>4, <2>6, <2>7
  <2>9. heap' = [heap EXCEPT ![c] = h]
    BY <2>2, <2>8
  <2> QED BY <2>9 DEF Moved
<1>6. Holds(None, h, ram', file'[c])
  BY DEF Holds
<1>7. ClientsOK'
  BY <1>1, <1>2, <1>3, <1>4, <1>5, <1>6, ClientStep
<1> QED BY <1>3, <1>7 DEF IInv

\* The application leaves what clients hold.
LEMMA AppStep ==
  ASSUME ClientsOK, \A k \in Clients : Kept(k), UNCHANGED <<resource, heap, failed>>
  PROVE  ClientsOK'
<1>1. Answers'
  <2>1. ASSUME NEW k \in Clients, resource[k] # None
        PROVE  file'[k] # Closed /\ Gave(ram', file'[k], resource[k])
    <3>1. file[k] # Closed /\ Gave(ram, file[k], resource[k])
      BY <2>1 DEF ClientsOK, Answers
    <3>2. file'[k] = file[k] /\ Content(ram', file[k]) = Content(ram, file[k])
      BY <3>1 DEF Kept
    <3> QED BY <3>1, <3>2 DEF Gave
  <2> QED BY <2>1 DEF Answers
<1>2. OpenWithResource'
  BY DEF ClientsOK, OpenWithResource, Kept
<1>3. HeapIsHeld'
  BY DEF ClientsOK, HeapIsHeld
<1> QED BY <1>1, <1>2, <1>3 DEF ClientsOK

LEMMA AppKeeps ==
  ASSUME NEW a \in Apps, OthersKept(a)
  PROVE  \A k \in Clients : Kept(k)
BY ResourcesAssumption DEF OthersKept

LEMMA AppOpenKeeps ==
  ASSUME IInv, NEW a \in Apps, NEW path \in Paths, AppOpen(a, path)
  PROVE  IInv'
<1>1. FilesOK /\ ClientsOK /\ ram \in Ram /\ file \in Handles /\ file[a] = Closed
  BY DEF IInv, FilesOK, AppOpen
<1>2. PICK o \in fopen(ram, path, "WRITE") : ram' = o.ram /\ file' = [file EXCEPT ![a] = o.file]
  BY DEF AppOpen
<1>3. ModeOf(a) = "WRITE"
  BY ResourcesAssumption DEF ModeOf
<1>4. FilesOK' /\ \A k \in Clients : Kept(k)
  <2>1. CASE o.ram = ram /\ o.file = Closed
    <3>1. FilesOK' /\ OthersKept(a)
      BY <1>1, <1>2, <2>1, SameRam
    <3> QED BY <3>1, AppKeeps
  <2>2. CASE Unlinks(ram, o)
    <3>1. PICK name : Find(ram, name) # None /\ ram' = ram_fremove(ram, name) /\ o.file = Closed
      BY <1>2, <2>2 DEF Unlinks
    <3>2. file' = file
      BY <1>1, <1>2, <3>1 DEF Handles
    <3> QED BY <1>1, <3>1, <3>2, UnlinkStep
  <2>3. CASE OpensDisk(ram, o)
    <3>1. PICK name \in DOMAIN Disk : ram' = ram /\ o.file = Open("disk", "WRITE", name)
      BY <1>2, <2>3 DEF OpensDisk
    <3>2. /\ o.file \in Handle /\ o.file.partition = "disk"
          /\ o.file.mode = "WRITE" /\ o.file.fd = name
      BY <3>1, OpenIs
    <3>3. IsOpen(ram, o.file, ModeOf(a))
      BY <1>3, <3>2 DEF IsOpen, HasFile
    <3>4. \A n, mode : On(file[a], n, mode) <=> On(o.file, n, mode)
      BY <1>1, <3>2, FilesAssumption DEF On, Closed
    <3>5. FilesOK' /\ OthersKept(a)
      BY <1>1, <1>2, <3>1, <3>2, <3>3, <3>4, SameRam
    <3> QED BY <3>5, AppKeeps
  <2>4. CASE \E m, name : Creates(ram, o, m, name)
    <3>1. FilesOK' /\ OthersKept(a)
      BY <1>1, <1>2, <2>4, CreateStep
    <3> QED BY <3>1, AppKeeps
  <2> QED BY <1>1, <2>1, <2>2, <2>3, <2>4, FopenWrite
<1>5. ClientsOK'
  BY <1>1, <1>4, AppStep DEF AppOpen
<1> QED BY <1>4, <1>5 DEF IInv

LEMMA AppWriteKeeps ==
  ASSUME IInv, NEW a \in Apps, NEW b \in Bytes, AppWrite(a, <<b>>)
  PROVE  IInv'
<1>1. FilesOK /\ ClientsOK /\ file[a] # Closed
  BY DEF IInv, AppWrite
<1>2. <<b>> \in Seq(Byte)
  BY ResourcesAssumption
<1>3. ram' \in fwrite(ram, file[a], <<b>>) /\ UNCHANGED <<file, resource, heap, failed>>
  BY DEF AppWrite
<1> DEFINE bytes == <<b>>
<1> HIDE DEF bytes
<1>4. FilesOK' /\ \A k \in Clients : Kept(k)
  <2>1. bytes \in Seq(Byte) /\ ram' \in fwrite(ram, file[a], bytes)
    BY <1>2, <1>3 DEF bytes
  <2> QED BY <1>1, <1>3, <2>1, WriteStep
<1>5. ClientsOK'
  BY <1>1, <1>3, <1>4, AppStep
<1> QED BY <1>4, <1>5 DEF IInv

LEMMA AppCloseKeeps ==
  ASSUME IInv, NEW a \in Apps, AppClose(a)
  PROVE  IInv'
<1>1. FilesOK /\ ClientsOK /\ file[a] # Closed
  BY DEF IInv, AppClose
<1>2. FilesOK' /\ OthersKept(a)
  BY <1>1, CloseStep DEF AppClose
<1>3. ClientsOK'
  BY <1>1, <1>2, AppKeeps, AppStep DEF AppClose
<1> QED BY <1>2, <1>3 DEF IInv

LEMMA AppRemoveKeeps ==
  ASSUME IInv, NEW path \in Paths, AppRemove(path)
  PROVE  IInv'
<1>1. FilesOK /\ ClientsOK
  BY DEF IInv
<1>2. /\ Find(ram, AbsPath(path)) # None /\ ram' = ram_fremove(ram, AbsPath(path))
      /\ UNCHANGED <<file, resource, heap, failed>>
  BY DEF AppRemove, fremove
<1>3. FilesOK' /\ \A k \in Clients : Kept(k)
  BY <1>1, <1>2, UnlinkStep
<1>4. ClientsOK'
  BY <1>1, <1>2, <1>3, AppStep
<1> QED BY <1>3, <1>4 DEF IInv

-----------------------------------------------------------------------------
(* The theorems.                                                           *)

LEMMA InitOK == Init => IInv
<1> SUFFICES ASSUME Init PROVE IInv
  OBVIOUS
<1>1. /\ ram.list = <<>> /\ ram.list \in Seq(Nodes) /\ DOMAIN ram.list = {}
      /\ ram.node = [n \in Nodes |-> None] /\ ram \in Ram
  <2>1. ram = [node |-> [n \in Nodes |-> None], list |-> <<>>]
    BY DEF Init, EmptyRam
  <2>2. <<>> \in Seq(Nodes) /\ DOMAIN <<>> = {}
    BY EmptySeq
  <2>3. [n \in Nodes |-> None] \in [Nodes -> Node \cup {None}]
    OBVIOUS
  <2> QED BY <2>1, <2>2, <2>3 DEF Ram
<1>2. FilesOK
  <2>1. file \in Handles /\ HandlesValid
    BY DEF Init, Handles, HandlesValid
  <2>2. \A n \in Nodes : ram.node[n] = None
    BY <1>1
  <2>3. LinkedAreThere /\ NamesAreUnique
    BY <1>1 DEF LinkedAreThere, NamesAreUnique
  <2>4. CountsExclude /\ NodesCounted
    BY <2>2 DEF CountsExclude, NodesCounted
  <2> QED BY <1>1, <2>1, <2>3, <2>4 DEF FilesOK
<1>3. ClientsOK
  BY DEF Init, ClientsOK, Answers, OpenWithResource, HeapIsHeld
<1> QED BY <1>2, <1>3 DEF IInv

LEMMA NextOK == IInv /\ [Next]_vars => IInv'
<1> SUFFICES ASSUME IInv, [Next]_vars PROVE IInv'
  OBVIOUS
<1>1. CASE Next
  <2>1. ASSUME NEW c \in Clients, NEW path \in Paths, NEW dynamic \in BOOLEAN,
               ResourceOpen(c, path, dynamic)
        PROVE  IInv'
    BY <2>1, ResourceOpenKeeps
  <2>2. ASSUME NEW c \in Clients, NEW size \in Sizes, ReadStatic(c, size) PROVE IInv'
    BY <2>2, ReadStaticKeeps
  <2>3. ASSUME NEW c \in Clients, NEW size \in Sizes, ReadDynamic(c, size) PROVE IInv'
    BY <2>3, ReadDynamicKeeps
  <2>4. ASSUME NEW c \in Clients, ResourceClose(c) PROVE IInv'
    BY <2>4, ResourceCloseKeeps
  <2>5. ASSUME NEW a \in Apps, NEW path \in Paths, AppOpen(a, path) PROVE IInv'
    BY <2>5, AppOpenKeeps
  <2>6. ASSUME NEW a \in Apps, NEW b \in Bytes, AppWrite(a, <<b>>) PROVE IInv'
    BY <2>6, AppWriteKeeps
  <2>7. ASSUME NEW a \in Apps, AppClose(a) PROVE IInv'
    BY <2>7, AppCloseKeeps
  <2>8. ASSUME NEW path \in Paths, AppRemove(path) PROVE IInv'
    BY <2>8, AppRemoveKeeps
  <2> QED BY <1>1, <2>1, <2>2, <2>3, <2>4, <2>5, <2>6, <2>7, <2>8 DEF Next
<1>2. CASE UNCHANGED vars
  <2>1. FilesOK'
    BY <1>2, OpenOnIs DEF vars, IInv, FilesOK, HandlesValid, LinkedAreThere, NamesAreUnique,
                          CountsExclude, NodesCounted
  <2>2. ClientsOK'
    BY <1>2, AppStep DEF vars, IInv, Kept
  <2> QED BY <2>1, <2>2 DEF IInv
<1> QED BY <1>1, <1>2

THEOREM Invariance == Spec => []IInv
BY InitOK, NextOK, PTL DEF Spec

\* Types: handles are those of the partitions, blocks are what was allocated.
THEOREM ResourcesTypeCorrect == Spec => []ResTypeOK
<1>1. IInv => ResTypeOK
  BY DEF IInv, FilesOK, ClientsOK, Handles, ResTypeOK
<1> QED BY <1>1, Invariance, PTL

\* HandlesCounted: through failed openings, removals and new files of an old name,
\* what fs_ram.c counts in a node is the handles that are open on it, so that the
\* assertions of fclose hold, and a client has a handle as long as a resource.
THEOREM HandlesAreCounted == Spec => []HandlesCounted
<1>1. IInv => HandlesCounted
  BY DEF IInv, FilesOK, ClientsOK, HandlesCounted, NodesCounted, OpenWithResource
<1> QED BY <1>1, Invariance, PTL

\* With fewer handles than MaxHandles the counts are uint8_t and never wrap.
CountsFit ==
  \A n \in Nodes : ram.node[n] # None =>
    ram.node[n].readers < MaxHandles /\ ram.node[n].writers < MaxHandles

\* CountsFit: the counts of fs_ram.c stay within their bytes, so that counting in Nat
\* is counting as the code does.
THEOREM CountsNeverWrap == Spec => []CountsFit
<1>1. ASSUME IInv PROVE CountsFit
  <2>1. ASSUME NEW n, NEW mode PROVE Cardinality(OpenOn(n, mode)) < MaxHandles
    <3>1. OpenOn(n, mode) \subseteq Clients \cup Apps
      BY <1>1 DEF IInv, FilesOK, Handles, OpenOn
    <3>2. IsFiniteSet(Clients \cup Apps)
      BY ResourcesAssumption, FS_Union
    <3>3. /\ Cardinality(OpenOn(n, mode)) <= Cardinality(Clients \cup Apps)
          /\ Cardinality(OpenOn(n, mode)) \in Nat /\ Cardinality(Clients \cup Apps) \in Nat
      BY <3>1, <3>2, FS_Subset, FS_CardinalityType
    <3> QED BY <3>3, ResourcesAssumption DEF MaxHandles
  <2>2. NodesCounted
    BY <1>1 DEF IInv, FilesOK
  <2> QED BY <2>1, <2>2 DEF NodesCounted, CountsFit
<1> QED BY <1>1, Invariance, PTL

\* HeapIsHeld: the blocks that resource.c allocates are those of open resources, and
\* no opening that fails and no close leaves one.
THEOREM HeapIsAlwaysHeld == Spec => []HeapIsHeld
<1>1. IInv => HeapIsHeld
  BY DEF IInv, ClientsOK
<1> QED BY <1>1, Invariance, PTL

\* WriterIsAlone: fs_ram.c lets one handle write a file, and nobody read it then.
THEOREM WriterIsAlwaysAlone == Spec => []WriterIsAlone
<1>1. ASSUME IInv PROVE WriterIsAlone
  <2>1. ASSUME NEW n \in Nodes, OpenOn(n, "WRITE") # {}
        PROVE  Cardinality(OpenOn(n, "WRITE")) = 1 /\ OpenOn(n, "READ") = {}
    <3>1. file \in Handles
      BY <1>1 DEF IInv, FilesOK
    <3>2. PICK h \in Clients \cup Apps : On(file[h], n, "WRITE")
      BY <2>1, <3>1, OpenOnIs DEF HandlesOn, Handles
    <3>3. ram.node[n] # None
      <4>1. file[h] # Closed
        BY <3>2, FilesAssumption DEF On, Closed
      <4>2. HasFile(ram, file[h])
        BY <1>1, <4>1 DEF IInv, FilesOK, HandlesValid, IsOpen
      <4> QED BY <3>2, <4>2, FilesAssumption DEF HasFile, On
    <3>4. /\ ram.node[n].readers = Cardinality(OpenOn(n, "READ"))
          /\ ram.node[n].writers = Cardinality(OpenOn(n, "WRITE"))
      BY <1>1, <3>3 DEF IInv, FilesOK, NodesCounted
    <3>5. /\ IsFiniteSet(OpenOn(n, "READ"))
          /\ Cardinality(OpenOn(n, "WRITE")) > 0 /\ Cardinality(OpenOn(n, "WRITE")) \in Nat
      <4>1. IsFiniteSet(Clients \cup Apps)
        BY ResourcesAssumption, FS_Union
      <4>2. HandlesOn(file, n, "READ") \subseteq Clients \cup Apps
        BY <3>1 DEF HandlesOn, Handles
      <4>3. Moved(file, h, file[h], file)
        BY <3>1 DEF Moved, Handles
      <4>4. /\ Cardinality(HandlesOn(file, n, "WRITE")) > 0
            /\ Cardinality(HandlesOn(file, n, "WRITE")) \in Nat
        BY <3>1, <3>2, <4>3, Counting
      <4> QED BY <4>1, <4>2, <4>4, FS_Subset, OpenOnIs
    <3>6. ram.node[n].writers = 1 /\ ram.node[n].readers = 0
      BY <1>1, <3>3, <3>4, <3>5 DEF IInv, FilesOK, CountsExclude
    <3> QED BY <3>4, <3>5, <3>6, FS_EmptySet
  <2> QED BY <2>1 DEF WriterIsAlone
<1> QED BY <1>1, Invariance, PTL

\* NamesAreUnique: fs_ram.c never lists two files of one name.
THEOREM NamesAreAlwaysUnique == Spec => []NamesAreUnique
<1>1. IInv => NamesAreUnique
  BY DEF IInv, FilesOK
<1> QED BY <1>1, Invariance, PTL

\* ReadsOneFile: what a client has read is the beginning of the one file it opened.
THEOREM OneFileIsRead == Spec => []ReadsOneFile
<1>1. ASSUME IInv PROVE ReadsOneFile
  <2>1. ASSUME NEW c \in Clients, resource[c] # None
        PROVE  /\ file[c].partition = "ram" => ram.node[file[c].fd] # None
               /\ IsPrefix(file[c].seen, Content(ram, file[c]))
    <3> DEFINE f == file[c]
               text == Content(ram, f)
    <3>1. IsOpen(ram, f, "READ") /\ f \in Handle /\ ram \in Ram
      BY <1>1, <2>1, HoldsFile
    <3>2. f.partition = "ram" => ram.node[f.fd] # None
      BY <3>1, FilesAssumption DEF IsOpen, HasFile
    <3>3. /\ text \in Seq(Byte) /\ Len(text) \in Nat
          /\ f.pos \in Nat /\ f.pos <= Len(text) /\ f.seen = SubSeq(text, 1, f.pos)
      BY <3>1, ContentIs DEF IsOpen, ReadSoFar, Handle
    <3> HIDE DEF f, text
    <3>4. f.seen \in Seq(Byte) /\ Len(f.seen) = f.pos
      BY <3>3, SubSeqProperties, ElementOfSeq
    <3>5. SubSeq(f.seen, 1, Len(f.seen)) = f.seen
      BY <3>4, SubSeqFull
    <3>6. IsPrefix(f.seen, text)
      BY <3>3, <3>4, <3>5 DEF IsPrefix
    <3> QED BY <3>2, <3>6 DEF f, text
  <2> QED BY <2>1 DEF ReadsOneFile
<1> QED BY <1>1, Invariance, PTL

\* AnnouncedIsRead: the size found when a resource is opened is what reading it to
\* its end gives, with any writing, removing and creating in between.
THEOREM AnnouncedIsAlwaysRead == Spec => []AnnouncedIsRead
<1>1. ASSUME IInv PROVE AnnouncedIsRead
  <2>1. ASSUME NEW c \in Clients, resource[c] # None
        PROVE  /\ Len(resource[c].out) <= resource[c].size
               /\ resource[c].ended => Len(resource[c].out) = resource[c].size
    <3> DEFINE f == file[c]
               text == Content(ram, f)
    <3>1. /\ IsOpen(ram, f, "READ") /\ f \in Handle /\ ram \in Ram
          /\ Gave(ram, f, resource[c])
      BY <1>1, <2>1, HoldsFile
    <3>2. CASE resource[c].priv = None
      <4>1. /\ text \in Seq(Byte) /\ Len(text) \in Nat
            /\ f.pos \in Nat /\ f.pos <= Len(text) /\ f.seen = SubSeq(text, 1, f.pos)
        BY <3>1, ContentIs DEF IsOpen, ReadSoFar, Handle
      <4>2. /\ resource[c].out = f.seen /\ resource[c].size = Len(text)
            /\ resource[c].ended => f.pos = Len(text)
        BY <3>1, <3>2 DEF Gave
      <4> HIDE DEF f, text
      <4>3. Len(f.seen) = f.pos
        BY <4>1, SubSeqProperties, ElementOfSeq
      <4> QED BY <4>1, <4>2, <4>3
    <3>3. CASE resource[c].priv # None
      <4>1. resource[c].out = <<>> /\ resource[c].size = 0
        BY <3>1, <3>3 DEF Gave
      <4> QED BY <4>1, EmptySeq
    <3> QED BY <3>2, <3>3
  <2> QED BY <2>1 DEF AnnouncedIsRead
<1> QED BY <1>1, Invariance, PTL
=============================================================================
