------------------------------- MODULE FsRam --------------------------------
(***************************************************************************)
(* The RAM partition, fs_ram.c: a list of named nodes, each with the       *)
(* counts of the handles that are open on it.  ram is the partition, file  *)
(* a handle (an xxxws_file_t); a node's data is the sequence of its bytes, *)
(* whatever cbufs hold it.  An operation is the set of its outcomes.       *)
(***************************************************************************)
EXTENDS Naturals, FiniteSets, FiniteSetsExt, SequencesExt

CONSTANTS
  Nodes,      \* places in memory for nodes: malloc fails when all are taken
  Names,
  Byte,       \* what files are made of
  None

\* xxxws_fs_ram_file_t.
Node == [name : Names, readers : Nat, writers : Nat, data : Seq(Byte)]

ASSUME FsRamAssumption == None \notin Nodes \cup Node

\* Nothing is allocated, nothing is linked behind fs_ram_files.
EmptyRam == [node |-> [n \in Nodes |-> None], list |-> <<>>]

\* A handle as the partition leaves it; seen is what was read up to pos.
Closed == [partition |-> None, mode |-> "NA", fd |-> None, pos |-> 0, seen |-> <<>>]
Open(partition, mode, fd) ==
  [partition |-> partition, mode |-> mode, fd |-> fd, pos |-> 0, seen |-> <<>>]

Outcome(err, ram, file) == [err |-> err, ram |-> ram, file |-> file]

\* The first node of the list with a name, or None.
Named(ram, name) == {i \in DOMAIN ram.list : ram.node[ram.list[i]].name = name}
Find(ram, name) ==
  IF Named(ram, name) = {} THEN None ELSE ram.list[Min(Named(ram, name))]

\* Bug: the node is freed unless it is being written, with readers or without.
Bug_ram_fremove(ram, name) ==
  LET n == Find(ram, name)
  IN  [list |-> RemoveFirst(ram.list, n),
       node |-> IF ram.node[n].writers > 0 THEN ram.node ELSE [ram.node EXCEPT ![n] = None]]

\* xxxws_fs_ram_fremove of a file that exists: the node is unlinked, and then FATAL
\* is returned because there is one; it is not freed.
ram_fremove(ram, name) == [ram EXCEPT !.list = RemoveAt(@, Min(Named(ram, name)))]

\* Bug: a file that is being written can be opened for reading.
Bug_ram_fopen_read(ram, name) ==
  LET n == Find(ram, name)
  IN  IF n = None THEN Outcome("FILENOTFOUND", ram, Closed)
      ELSE Outcome("OK", [ram EXCEPT !.node[n].readers = @ + 1], Open("ram", "READ", n))

\* xxxws_fs_ram_fopen for reading.
ram_fopen_read(ram, name) ==
  LET n == Find(ram, name)
  IN  IF n = None THEN Outcome("FILENOTFOUND", ram, Closed)
      ELSE IF ram.node[n].writers > 0 THEN Outcome("FATAL", ram, Closed)
      ELSE Outcome("OK", [ram EXCEPT !.node[n].readers = @ + 1], Open("ram", "READ", n))

NewNode(name) == [name |-> name, readers |-> 0, writers |-> 1, data |-> <<>>]

\* Bug: the list is not searched for the name.
Bug_ram_fopen_write(ram, name) ==
  {Outcome("POLL", ram, Closed)} \cup
  {Outcome("OK", [node |-> [ram.node EXCEPT ![n] = NewNode(name)], list |-> <<n>> \o ram.list],
           Open("ram", "WRITE", n)) : n \in {m \in Nodes : ram.node[m] = None}}

\* xxxws_fs_ram_fopen for writing.  A file that exists and is not open is removed
\* first, and what that returns is returned.
ram_fopen_write(ram, name) ==
  LET n == Find(ram, name)
      busy == ram.node[n].readers > 0 \/ ram.node[n].writers > 0
  IN  IF n # None
        THEN {Outcome("FATAL", IF busy THEN ram ELSE ram_fremove(ram, name), Closed)}
        ELSE {Outcome("POLL", ram, Closed)} \cup
             {Outcome("OK",
                      [node |-> [ram.node EXCEPT ![m] = NewNode(name)],
                       list |-> <<m>> \o ram.list],
                      Open("ram", "WRITE", m)) : m \in {m \in Nodes : ram.node[m] = None}}

\* xxxws_fs_ram_fseek asserts that the position is below the size.
ram_seeks(ram, file, pos) == pos < Len(ram.node[file.fd].data)

\* xxxws_fs_ram_fwrite; without memory for a cbuf nothing is written, and OK returned.
ram_fwrite(ram, file, bytes) ==
  {ram, [ram EXCEPT !.node[file.fd].data = @ \o bytes]}

\* Bug: closing takes from the count of readers, whatever the mode.
Bug_ram_fclose(ram, file) ==
  [ram EXCEPT !.node[file.fd].readers = IF @ = 0 THEN 0 ELSE @ - 1]

\* xxxws_fs_ram_fclose; the file stays, with what was written.
ram_fclose(ram, file) ==
  [ram EXCEPT !.node[file.fd].readers = IF file.mode = "READ" THEN @ - 1 ELSE @,
              !.node[file.fd].writers = IF file.mode = "WRITE" THEN @ - 1 ELSE @]
=============================================================================
