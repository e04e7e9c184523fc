----------------------------- MODULE Resources ------------------------------
(***************************************************************************)
(* The resources of the clients, resource.c, on the files of os.c: opened  *)
(* for a view, read until nothing is left and closed, while the            *)
(* application creates, writes and removes files of its own.               *)
(***************************************************************************)
EXTENDS Template

CONSTANTS
  Clients,
  Apps,        \* the handles of the application
  Paths,       \* the virtual paths of views and files
  Attributes,  \* what controllers set, by name
  MaxValue,    \* bound: bytes of a value
  Chunk,       \* the 1024 bytes in which a page is measured
  Sizes,       \* bound: how much is read at once
  Bytes,       \* what the application writes
  MaxSize      \* bound: bytes of a file it writes

\* A node counts its handles in uint8_t; 10 clients (XXXWS_MAX_CLIENTS_NUM) leave the
\* application 245.
MaxHandles == 256

\* xxxws_resource_t; out and ended are not the code's: all that was read, and whether
\* a read gave nothing.
ResourceBlock ==
  [size : Nat, priv : Reader \cup {None}, out : Seq(Byte), ended : BOOLEAN]

ASSUME ResourcesAssumption ==
  /\ Chunk \in Nat \ {0} /\ Sizes \subseteq Nat \ {0}
  /\ Clients \cap Apps = {} /\ IsFiniteSet(Clients) /\ IsFiniteSet(Apps)
  /\ Cardinality(Clients \cup Apps) < MaxHandles
  /\ Bytes \subseteq Byte /\ None \notin ResourceBlock
  /\ MaxValue \in Nat
  /\ \A n \in DOMAIN Attributes : Attributes[n] \in Seq(Byte) /\ Len(Attributes[n]) <= MaxValue
  /\ \A path \in Paths : PartitionOf(path) = "ram" => AbsPath(path) \in Names

VARIABLES
  ram,       \* the RAM partition
  file,      \* the handles of resources and of the application
  resource,  \* client->resource: None, or what is open
  heap,      \* the blocks that are allocated for each client's resource
  failed     \* an assertion failed

vars == <<ram, file, resource, heap, failed>>

Resource(size, priv) == [size |-> size, priv |-> priv, out |-> <<>>, ended |-> FALSE]

Init ==
  /\ ram = EmptyRam
  /\ file = [h \in Clients \cup Apps |-> Closed]
  /\ resource = [c \in Clients |-> None]
  /\ heap = [c \in Clients |-> [resource |-> 0, priv |-> 0]]
  /\ failed = FALSE

-----------------------------------------------------------------------------
(* Opening: the outcomes, with the resource or the error.                  *)

Opened(o, size, priv) ==
  [err |-> "OK", ram |-> o.ram, file |-> o.file, resource |-> Resource(size, priv)]
Refused(err, r, f) == [err |-> err, ram |-> r, file |-> f, resource |-> None]

\* fseek asserts: nothing is returned.
Stops(o) == [err |-> "ASSERT", ram |-> o.ram, file |-> o.file, resource |-> None]

\* xxxws_resource_open_static of a whole file.
open_static(path) ==
  {CASE o.err # "OK"                 -> Refused(o.err, o.ram, o.file)
     [] ~ Seeks(o.ram, o.file, 0)    -> Stops(o)
     [] OTHER -> Opened([o EXCEPT !.file = fseek(@, 0)], fsize(o.ram, o.file), None)
   : o \in fopen(ram, path, "READ")}

\* The page is read until nothing is left: the file, the reader and the size then.
\* A read that is not the last gives a byte of the file or of a value.
Reads(o) == 1 + fsize(o.ram, o.file) * (1 + MaxValue)
Added(m, s) ==
  IF m.ended THEN m
  ELSE [file |-> s.file, p |-> s.p, size |-> m.size + Len(s.out), ended |-> s.out = <<>>]
Measured(o) ==
  LET read[k \in 0 .. Reads(o)] ==
        IF k = 0 THEN [file |-> o.file, p |-> Fresh, size |-> 0, ended |-> FALSE]
        ELSE Added(read[k - 1],
                   read_dynamic(o.ram, read[k - 1].file, read[k - 1].p, Attributes, Chunk))
  IN  read[Reads(o)]

\* It is requested from 0 again.
OpenedPage(o, m) ==
  Opened([o EXCEPT !.file = m.file], m.size, [m.p EXCEPT !.reset = TRUE])

\* Bug: the file stays open when there is no memory for the reader.
Bug_open_dynamic(path) ==
  UNION {IF o.err # "OK" THEN {Refused(o.err, o.ram, o.file)}
         ELSE {Refused("POLL", o.ram, Closed),
               IF Seeks(o.ram, o.file, 0) THEN OpenedPage(o, Measured(o)) ELSE Stops(o)}
         : o \in fopen(ram, path, "READ")}

\* xxxws_resource_open_dynamic: there is no memory for the reader, or the page is
\* measured.
open_dynamic(path) ==
  UNION {IF o.err # "OK" THEN {Refused(o.err, o.ram, o.file)}
         ELSE {Refused("POLL", fclose(o.ram, o.file), Closed),
               IF Seeks(o.ram, o.file, 0) THEN OpenedPage(o, Measured(o)) ELSE Stops(o)}
         : o \in fopen(ram, path, "READ")}

\* xxxws_resource_open: what is allocated for a resource that cannot be opened is freed.
ResourceOpen(c, path, dynamic) ==
  /\ resource[c] = None /\ ~ failed
  /\ \E o \in IF dynamic THEN open_dynamic(path) ELSE open_static(path) :
       /\ ram' = o.ram
       /\ file' = [file EXCEPT ![c] = o.file]
       /\ resource' = [resource EXCEPT ![c] = o.resource]
       /\ heap' = IF o.err = "OK"
                    THEN [heap EXCEPT ![c].resource = @ + 1,
                                      ![c].priv = @ + IF dynamic THEN 1 ELSE 0]
                    ELSE heap
       /\ failed' = (o.err = "ASSERT")

-----------------------------------------------------------------------------
(* Reading and closing.                                                    *)

Gives(c, f, bytes) ==
  /\ file' = [file EXCEPT ![c] = f]
  /\ resource' = [resource EXCEPT ![c].out = @ \o bytes, ![c].ended = bytes = <<>>]

\* xxxws_resource_read_static.
ReadStatic(c, size) ==
  /\ resource[c] # None /\ ~ failed
  /\ resource[c].priv = None
  /\ LET f == fread(ram, file[c], size)
     IN  Gives(c, f, SubSeq(f.seen, Len(file[c].seen) + 1, Len(f.seen)))
  /\ UNCHANGED <<ram, heap, failed>>

\* xxxws_resource_read_dynamic.
ReadDynamic(c, size) ==
  /\ resource[c] # None /\ ~ failed
  /\ resource[c].priv # None
  /\ LET s == read_dynamic(ram, file[c], resource[c].priv, Attributes, size)
     IN  /\ file' = [file EXCEPT ![c] = s.file]
         /\ resource' = [resource EXCEPT ![c].priv = s.p, ![c].out = @ \o s.out,
                                         ![c].ended = s.out = <<>>]
  /\ UNCHANGED <<ram, heap, failed>>

\* Bug: the reader is not freed.
Bug_ResourceClose(c) ==
  /\ resource[c] # None /\ ~ failed
  /\ ram' = fclose(ram, file[c])
  /\ file' = [file EXCEPT ![c] = Closed]
  /\ resource' = [resource EXCEPT ![c] = None]
  /\ heap' = [heap EXCEPT ![c].resource = @ - 1]
  /\ UNCHANGED failed

\* xxxws_resource_close.
ResourceClose(c) ==
  /\ resource[c] # None /\ ~ failed
  /\ ram' = fclose(ram, file[c])
  /\ file' = [file EXCEPT ![c] = Closed]
  /\ resource' = [resource EXCEPT ![c] = None]
  /\ heap' = [heap EXCEPT ![c].resource = @ - 1,
                          ![c].priv = @ - IF resource[c].priv = None THEN 0 ELSE 1]
  /\ UNCHANGED failed

-----------------------------------------------------------------------------
(* The application.                                                        *)

AppOpen(a, path) ==
  /\ file[a] = Closed /\ ~ failed
  /\ \E o \in fopen(ram, path, "WRITE") :
       ram' = o.ram /\ file' = [file EXCEPT ![a] = o.file]
  /\ UNCHANGED <<resource, heap, failed>>

AppWrite(a, bytes) ==
  /\ file[a] # Closed /\ ~ failed
  /\ file[a].partition = "ram" => Len(Content(ram, file[a])) + Len(bytes) <= MaxSize
  /\ ram' \in fwrite(ram, file[a], bytes)
  /\ UNCHANGED <<file, resource, heap, failed>>

AppClose(a) ==
  /\ file[a] # Closed /\ ~ failed
  /\ ram' = fclose(ram, file[a])
  /\ file' = [file EXCEPT ![a] = Closed]
  /\ UNCHANGED <<resource, heap, failed>>

\* It removes files that it has created, open ones too.
AppRemove(path) ==
  /\ ~ failed
  /\ PartitionOf(path) = "ram" /\ Find(ram, AbsPath(path)) # None
  /\ ram' = fremove(ram, path)
  /\ UNCHANGED <<file, resource, heap, failed>>

Next ==
  \/ \E c \in Clients :
       \/ \E path \in Paths, dynamic \in BOOLEAN : ResourceOpen(c, path, dynamic)
       \/ \E size \in Sizes : ReadStatic(c, size) \/ ReadDynamic(c, size)
       \/ ResourceClose(c)
  \/ \E a \in Apps :
       \/ \E path \in Paths : AppOpen(a, path)
       \/ \E b \in Bytes : AppWrite(a, <<b>>)
       \/ AppClose(a)
  \/ \E path \in Paths : AppRemove(path)

Spec == Init /\ [][Next]_vars

-----------------------------------------------------------------------------
OpenOn(n, mode) ==
  {h \in DOMAIN file : file[h].partition = "ram" /\ file[h].mode = mode /\ file[h].fd = n}

\* The counts of a node are its handles, through failed openings and also after it
\* has been unlinked, so that fclose's assertions hold (fs_ram.c:226 and 232); and
\* only a client with a resource has a handle (resource.c:16-29, 88-107).
HandlesCounted ==
  /\ \A n \in Nodes : ram.node[n] # None =>
       /\ ram.node[n].readers = Cardinality(OpenOn(n, "READ"))
       /\ ram.node[n].writers = Cardinality(OpenOn(n, "WRITE"))
  /\ \A c \in Clients : ~ failed => (file[c] = Closed <=> resource[c] = None)

\* Every block of a resource is held by its client, none after it was closed or
\* could not be opened (resource.c:88-107, 267, 309-312, 322-333).
HeapIsHeld ==
  \A c \in Clients :
    /\ heap[c].resource = IF resource[c] = None THEN 0 ELSE 1
    /\ heap[c].priv = IF resource[c] = None \/ resource[c].priv = None THEN 0 ELSE 1

\* Nobody reads a file while it is written, and one handle writes it
\* (fs_ram.c:47 and 67).
WriterIsAlone ==
  \A n \in Nodes : OpenOn(n, "WRITE") # {} =>
    Cardinality(OpenOn(n, "WRITE")) = 1 /\ OpenOn(n, "READ") = {}

\* The list holds a name once: of two files with one name the later would hide the
\* earlier (fs_ram.c:33-39).
NamesAreUnique ==
  \A i, j \in DOMAIN ram.list : ram.node[ram.list[i]].name = ram.node[ram.list[j]].name => i = j

\* What a client has read is the beginning of one file, even when the name has been
\* removed and created again since (fs_ram.c:153-186, 247-269).
ReadsOneFile ==
  \A c \in Clients : resource[c] # None =>
    /\ file[c].partition = "ram" => ram.node[file[c].fd] # None
    /\ IsPrefix(file[c].seen, Content(ram, file[c]))

\* The size that was announced when the resource was opened is what reading it to
\* the end yields, whatever the application does meanwhile: the head of a response
\* has been sent with it (resource.c:20, 100-112; http.c:147).
AnnouncedIsRead ==
  \A c \in Clients : resource[c] # None =>
    /\ Len(resource[c].out) <= resource[c].size
    /\ resource[c].ended => Len(resource[c].out) = resource[c].size

\* A page with attributes is shown, with their values: "Copy input to output until
\* {prefix}{attribute_name}{suffix} is detected" (resource.c:212).
PagesAreCopied ==
  \A c \in Clients : resource[c] # None =>
    (resource[c].priv # None /\ resource[c].ended =>
       resource[c].out = Expanded(Content(ram, file[c]), Attributes))
=============================================================================
