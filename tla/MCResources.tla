---------------------------- MODULE MCResources -----------------------------
\* Two RAM files, one of which is also meant without the slash the path begins
\* with, a ROM page with an attribute, a DISK file, and a path of no partition.
EXTENDS Resources

File(p, name) == VrtRoot(p) \o name

MCRom == [n \in {<<"b">>} |-> Prefix \o <<"x">> \o Suffix]
MCDisk == [n \in {<<"b">>} |-> <<"t">>]
MCPaths ==
  {File("ram", <<"a">>), Tail(File("ram", <<"b", "a">>)), File("ram", <<"b">>),
   File("rom", <<"b">>), File("disk", <<"b">>), <<"/", "b">>}
MCNames == {AbsPath(path) : path \in MCPaths}
MCByte == Bytes \cup {"t", "v", "w", "x"} \cup ToSet(Prefix) \cup ToSet(Suffix)
MCAttributes == [n \in {<<"x">>} |-> <<"v", "w">>]

Symmetric == Permutations(Clients) \cup Permutations(Nodes)
=============================================================================
