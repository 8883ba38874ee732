------------------------------ MODULE VfsTree -------------------------------
(***************************************************************************)
(* The tree that init_vfs makes of an ext2 directory tree                  *)
(* (loop_over_filesystem), and the calls that use it: open, stat, chdir,   *)
(* mkfifo and getdents.                                                    *)
(*                                                                         *)
(* Inodes are numbers from 2, the root.  A directory is the sequence of    *)
(* its entries; entries of inode 0 are deleted ones.  A directory stream   *)
(* is a place in this sequence.                                            *)
(***************************************************************************)
EXTENDS VfsNodes

CONSTANTS Dirs,         \* the directories that the disk may hold
          Home,         \* the first working directory
          Paths,        \* the paths that tasks use
          Counts,       \* sizes of the buffers for getdents
          Strays,       \* whether a byte beyond a buffer may be a slash
          MaxCalls      \* bound on the calls of all tasks

VARIABLES disk,         \* the directories: entries of each directory's inode
          mounting,     \* the calls of loop_over_filesystem, the current first
          fd,           \* the directory a task has open, and its stream
          listed,       \* the entries that getdents has given to it
          skipped,      \* the entries it has read and not given
          calls

vars == <<tree, call, cwd, disk, mounting, fd, listed, skipped, calls>>
streams == <<fd, listed, skipped>>

EXT2_ROOT_INODE == 2
IsDir(ino) == ino \in DOMAIN disk
Dots == {".", ".."}

ASSUME TreeAssumption ==
  /\ MaxCalls \in Nat /\ Counts \subseteq Nat /\ Strays \subseteq BOOLEAN
  /\ \A d \in Dirs : EXT2_ROOT_INODE \in DOMAIN d
  /\ \A d \in Dirs : \A i \in DOMAIN d : \A k \in 1..Len(d[i]) :
       d[i][k].ino \in Nat /\ d[i][k].reclen \in Nat \ {0}

\* ext2_read_dir: whether the stream of a directory has an entry at a place.
HasEntry(ino, place) == place <= Len(disk[ino]) /\ disk[ino][place].ino # 0

-----------------------------------------------------------------------------
\* A call of loop_over_filesystem: the inode, the place in its stream, and the
\* node that the next one is hung on, as first child or as next one.
Loop(ino, node) == [ino |-> ino, place |-> 1, prev |-> node, first |-> TRUE]

Init ==
  /\ disk \in Dirs
  /\ nodes = <<Node("", EXT2_ROOT_INODE)>>
  /\ mounting = <<Loop(EXT2_ROOT_INODE, Root)>>
  /\ call = [t \in Tasks |-> NoCall]
  /\ cwd = [t \in Tasks |-> Home]
  /\ linked = {} /\ raced = {}
  /\ fd = [t \in Tasks |-> [ino |-> 0, place |-> 0]]
  /\ listed = [t \in Tasks |-> <<>>]
  /\ skipped = [t \in Tasks |-> {}]
  /\ calls = 0

\* Mutant of mount_entry: after a directory, the next node is hung on the last
\* one of the directory.
mount_entry_inner ==
  LET top == Head(mounting)
      e == disk[top.ino][top.place]
      n == Len(nodes) + 1
      hung == IF top.first THEN [nodes EXCEPT ![top.prev].dirlist = n]
                           ELSE [nodes EXCEPT ![top.prev].next = n]
      up == [top EXCEPT !.place = @ + 1, !.prev = n, !.first = FALSE]
  IN /\ mounting # <<>> /\ HasEntry(top.ino, top.place)
     /\ nodes' = Append(hung, Node(e.name, e.ino))
     /\ mounting' = IF IsDir(e.ino) /\ e.name \notin Dots
                      THEN <<Loop(e.ino, n), [up EXCEPT !.prev = top.prev]>> \o Tail(mounting)
                      ELSE <<up>> \o Tail(mounting)
     /\ UNCHANGED <<linked, raced, call, cwd, disk, streams, calls>>

\* An entry becomes a node; a directory is looped over at once.
mount_entry ==
  LET top == Head(mounting)
      e == disk[top.ino][top.place]
      n == Len(nodes) + 1
      hung == IF top.first THEN [nodes EXCEPT ![top.prev].dirlist = n]
                           ELSE [nodes EXCEPT ![top.prev].next = n]
      up == [top EXCEPT !.place = @ + 1, !.prev = n, !.first = FALSE]
  IN /\ mounting # <<>> /\ HasEntry(top.ino, top.place)
     /\ nodes' = Append(hung, Node(e.name, e.ino))
     /\ mounting' = IF IsDir(e.ino) /\ e.name \notin Dots
                      THEN <<Loop(e.ino, n), up>> \o Tail(mounting)
                      ELSE <<up>> \o Tail(mounting)
     /\ UNCHANGED <<linked, raced, call, cwd, disk, streams, calls>>

mount_end ==
  /\ mounting # <<>> /\ ~HasEntry(Head(mounting).ino, Head(mounting).place)
  /\ mounting' = Tail(mounting)
  /\ UNCHANGED <<tree, call, cwd, disk, streams, calls>>

-----------------------------------------------------------------------------
Mounted == mounting = <<>>

Enter(t) ==
  /\ Mounted /\ call[t].pc = "idle" /\ calls < MaxCalls
  /\ calls' = calls + 1

Started(op, path) == [NoCall EXCEPT !.op = op, !.path = path]

\* vfs_open_fd (with O_DIRECTORY) and vfs_stat begin.
vfs_open_fd(t, path) ==
  /\ Enter(t)
  /\ call' = [call EXCEPT ![t] = find(t, Started("open", path), path)]
  /\ UNCHANGED <<tree, cwd, disk, mounting, streams>>

\* sys_chdir: vfs_fullpath makes the path absolute.  The root loses its only
\* slash there and becomes the empty path, which is not found.
FullPath(t, path) == [abs |-> TRUE, names |-> Sought(t, path)]
sys_chdir(t, path) ==
  /\ Enter(t)
  /\ call' = [call EXCEPT ![t] =
       IF Sought(t, path) = <<>> THEN [Started("chdir", path) EXCEPT !.pc = "found"]
       ELSE find(t, Started("chdir", FullPath(t, path)), FullPath(t, path))]
  /\ UNCHANGED <<tree, cwd, disk, mounting, streams>>

\* mkfifo: the node is made, then linked.
mkfifo(t, path, stray, over) ==
  LET n == Len(nodes) + 1
  IN /\ Enter(t) /\ path.names # <<>>
     /\ nodes' = Append(nodes, Node(get_name(path, stray), 0))
     /\ call' = [call EXCEPT ![t] =
          link(t, [Started("mkfifo", path) EXCEPT !.new = n], path, over)]
     /\ UNCHANGED <<linked, raced, cwd, disk, mounting, streams>>

\* open, chdir and stat have their node, or NULL.  ext2_open_dir_stream looks at
\* the type of the inode; a node that is not the filesystem's has no stream.
Return(t) ==
  LET c == call[t]
      ino == IF c.at = 0 THEN 0 ELSE nodes[c.at].offset
  IN /\ \/ c.pc = "found" /\ c.op \in {"open", "chdir"}
        \/ c.pc \in {"linked", "failed"} /\ c.op = "mkfifo"
     /\ call' = [call EXCEPT ![t] = NoCall]
     /\ cwd' = IF c.op = "chdir" /\ c.at # 0 THEN [cwd EXCEPT ![t] = c.path.names] ELSE cwd
     /\ IF c.op = "open" /\ IsDir(ino)
          THEN /\ fd' = [fd EXCEPT ![t] = [ino |-> ino, place |-> 1]]
               /\ listed' = [listed EXCEPT ![t] = <<>>]
               /\ skipped' = [skipped EXCEPT ![t] = {}]
          ELSE UNCHANGED streams
     /\ UNCHANGED <<tree, disk, mounting, calls>>

-----------------------------------------------------------------------------
\* The bytes of the entries from one place up to before another.
RECURSIVE Bytes(_, _, _)
Bytes(ino, from, to) ==
  IF from = to THEN 0 ELSE disk[ino][from].reclen + Bytes(ino, from + 1, to)

\* The places that the loop of getdents may end at, after it has filled the
\* buffer with the entries before: the buffer is full, the stream has ended, or
\* the entry is too large for what is left.
StopsAt(ino, from, stop, count) ==
  /\ stop >= from /\ Bytes(ino, from, stop) <= count
  /\ \A k \in from..stop - 1 : HasEntry(ino, k) /\ Bytes(ino, from, k) < count
  /\ \/ Bytes(ino, from, stop) = count
     \/ ~HasEntry(ino, stop)
     \/ HasEntry(ino, stop) /\ Bytes(ino, from, stop + 1) > count

TooLarge(ino, from, stop, count) ==
  HasEntry(ino, stop) /\ Bytes(ino, from, stop) < count

\* Mutant of getdents: the entry that does not fit is given as well.
getdents_all(t, count) ==
  LET ino == fd[t].ino
      from == fd[t].place
  IN /\ Enter(t) /\ ino # 0
     /\ \E stop \in from..Len(disk[ino]) + 1 :
          /\ StopsAt(ino, from, stop, count)
          /\ LET over == IF TooLarge(ino, from, stop, count) THEN 1 ELSE 0
             IN /\ fd' = [fd EXCEPT ![t].place = stop]
                /\ listed' = [listed EXCEPT ![t] = @ \o SubSeq(disk[ino], from, stop + over - 1)]
          /\ UNCHANGED skipped
     /\ UNCHANGED <<tree, call, cwd, disk, mounting>>

\* getdents.  The entry that does not fit has been read from the stream, and is
\* not given back.
getdents(t, count) ==
  LET ino == fd[t].ino
      from == fd[t].place
  IN /\ Enter(t) /\ ino # 0
     /\ \E stop \in from..Len(disk[ino]) + 1 :
          /\ StopsAt(ino, from, stop, count)
          /\ LET over == TooLarge(ino, from, stop, count)
             IN /\ fd' = [fd EXCEPT ![t].place = IF over THEN stop + 1 ELSE stop]
                /\ skipped' = [skipped EXCEPT ![t] = IF over THEN @ \cup {stop} ELSE @]
          /\ listed' = [listed EXCEPT ![t] = @ \o SubSeq(disk[ino], from, stop - 1)]
     /\ UNCHANGED <<tree, call, cwd, disk, mounting>>

Next ==
  \/ mount_entry \/ mount_end
  \/ \E t \in Tasks :
       \/ Walking(t) /\ UNCHANGED <<disk, mounting, streams, calls>>
       \/ Return(t)
       \/ \E p \in Paths : vfs_open_fd(t, p) \/ sys_chdir(t, p)
       \/ \E p \in Paths, stray, over \in Strays : mkfifo(t, p, stray, over)
       \/ \E n \in Counts : getdents(t, n)

Spec == Init /\ [][Next]_vars

-----------------------------------------------------------------------------
\* What a path without dots stands for on the disk: the inode, or 0.
Readable(ino) == {k \in 1..Len(disk[ino]) : \A j \in 1..k : HasEntry(ino, j)}
RECURSIVE Resolve(_, _)
Resolve(ino, names) ==
  IF names = <<>> THEN ino
  ELSE IF ~IsDir(ino) THEN 0
  ELSE LET hits == {k \in Readable(ino) : disk[ino][k].name = Head(names)}
       IN IF hits = {} \/ Head(names) \in Dots THEN 0
          ELSE Resolve(disk[ino][CHOOSE k \in hits : \A j \in hits : k <= j].ino, Tail(names))

OnDisk(path) == IF path.abs THEN Resolve(EXT2_ROOT_INODE, path.names) ELSE 0

\* Types; the lists of nodes are within the table.
TypeOK ==
  /\ \A n \in DOMAIN nodes : {nodes[n].dirlist, nodes[n].next} \subseteq 0..Len(nodes)
  /\ \A t \in Tasks : call[t].at \in 0..Len(nodes) /\ fd[t].place \in Nat
  /\ \A i \in DOMAIN mounting : mounting[i].prev \in DOMAIN nodes

\* Once init_vfs is done, vfs_find_path finds the inode of every file of the disk
\* under its absolute path, whatever other tasks link meanwhile, also under the
\* same path; what it finds under one that is not on the disk was linked there,
\* and has the last name of the path.
FindsFiles ==
  \A t \in Tasks : At(t, "found") /\ call[t].op = "open" =>
    LET c == call[t]
        ino == OnDisk(c.path)
    IN /\ ino # 0 => c.at # 0 /\ nodes[c.at].offset = ino
       /\ ino = 0 /\ c.path.abs /\ c.path.names # <<>> /\ Last(c.path.names) \notin Dots
            /\ c.at # 0 =>
          \E l \in linked : l[1] = c.at /\ nodes[c.at].name = Last(c.path.names)

\* A directory node's list has its readable entries first, in their order, and
\* after them what was linked: mounting loses no file and links move none.
DirectoriesWhole ==
  /\ TypeOK
  /\ Mounted => \A n \in DOMAIN nodes : nodes[n].dirlist # 0 =>
    LET l == List(nodes[n].dirlist)
        ino == nodes[n].offset
    IN \A k \in Readable(ino) : k \in DOMAIN l /\ nodes[l[k]].offset = disk[ino][k].ino

\* The entries that getdents has given are those before its place, in order,
\* each once, but for those it has read and found too large.
Listed ==
  \A t \in Tasks : fd[t].ino # 0 =>
    LET read == 1..fd[t].place - 1
        given == read \ skipped[t]
    IN /\ Len(listed[t]) = Cardinality(given)
       /\ \A k \in given :
            listed[t][Cardinality({j \in given : j <= k})] = disk[fd[t].ino][k]
=============================================================================
