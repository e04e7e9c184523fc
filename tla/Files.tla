------------------------------- MODULE Files --------------------------------
(***************************************************************************)
(* The files of os.c: a virtual path names a partition by its root, and    *)
(* the rest of it a file there.  The RAM partition is FsRam; ROM files are *)
(* arrays of the program, and DISK files those of the host.                *)
(***************************************************************************)
EXTENDS FsRam

CONSTANTS
  Rom,     \* the ROM files: name to content
  Disk     \* the DISK files, which nobody changes: name to content

ASSUME FilesAssumption ==
  /\ \A name \in DOMAIN Rom : Rom[name] \in Seq(Byte)
  /\ \A name \in DOMAIN Disk : Disk[name] \in Seq(Byte)
  /\ None \notin {"ram", "rom", "disk"}

\* XXXWS_FS_xxx_VRT_ROOT of fs_partitions, in order.
Partitions == <<"ram", "rom", "disk">>
VrtRoot(p) == <<"/", p, "/">>

\* xxxws_fs_get_partition: the slash the path begins with may be missing.
PartitionOf(path) ==
  LET is(p) == IsPrefix(IF Head(path) = "/" THEN VrtRoot(p) ELSE Tail(VrtRoot(p)), path)
      at == {i \in DOMAIN Partitions : is(Partitions[i])}
  IN  IF at = {} THEN None ELSE Partitions[Min(at)]

\* &vrt_path[strlen(partition->vrt_root)], with the missing slash or without.
AbsPath(path) == SubSeq(path, Len(VrtRoot(PartitionOf(path))) + 1, Len(path))

\* The outcomes of xxxws_fs_fopen.  ROM files cannot be written; DISK files are
\* opened "r" whatever the mode.
fopen(ram, path, mode) ==
  LET partition == PartitionOf(path)
      name == AbsPath(path)
      found(files) ==
        IF name \in DOMAIN files THEN Outcome("OK", ram, Open(partition, mode, name))
        ELSE Outcome("FILENOTFOUND", ram, Closed)
  IN  CASE partition = None   -> {Outcome("FILENOTFOUND", ram, Closed)}
        [] partition = "disk" -> {found(Disk)}
        [] partition = "rom"  -> {IF mode = "WRITE" THEN Outcome("FATAL", ram, Closed)
                                  ELSE found(Rom)}
        [] partition = "ram"  -> IF mode = "WRITE" THEN ram_fopen_write(ram, name)
                                 ELSE {ram_fopen_read(ram, name)}

\* What an open handle reads.
Content(ram, file) ==
  CASE file.partition = "ram"  -> ram.node[file.fd].data
    [] file.partition = "rom"  -> Rom[file.fd]
    [] file.partition = "disk" -> Disk[file.fd]

fsize(ram, file) == Len(Content(ram, file))

\* Whether xxxws_fs_fseek returns.
Seeks(ram, file, pos) == file.partition = "ram" => ram_seeks(ram, file, pos)
fseek(file, pos) == [file EXCEPT !.pos = pos, !.seen = SubSeq(@, 1, pos)]

\* Bug: every read starts at the beginning.
Bug_fread(ram, file, size) ==
  LET bytes == SubSeq(Content(ram, file), 1, Min({size, fsize(ram, file)}))
  IN  [file EXCEPT !.pos = @ + Len(bytes), !.seen = @ \o bytes]

\* xxxws_fs_fread into size bytes.
fread(ram, file, size) ==
  LET bytes == SubSeq(Content(ram, file), file.pos + 1,
                      Min({file.pos + size, fsize(ram, file)}))
  IN  [file EXCEPT !.pos = @ + Len(bytes), !.seen = @ \o bytes]

\* xxxws_fs_fwrite: a DISK file, opened for reading, takes nothing.
fwrite(ram, file, bytes) ==
  IF file.partition = "ram" THEN ram_fwrite(ram, file, bytes) ELSE {ram}

\* xxxws_fs_fclose.
fclose(ram, file) == IF file.partition = "ram" THEN ram_fclose(ram, file) ELSE ram

\* xxxws_fs_fremove of a RAM file.
fremove(ram, path) == ram_fremove(ram, AbsPath(path))
=============================================================================
