------------------------------- MODULE FileIO -------------------------------
(***************************************************************************)
(* Files that several tasks read and write: fs_read and fs_write of        *)
(* fs/fs.c, vfs_lseek and the calls around them, on the blocks of Ext2.    *)
(*                                                                         *)
(* System calls run with interrupts on.  A step is one block read or       *)
(* written, which the disk driver does under its lock; other tasks come in *)
(* between.  Junk is a byte of which nothing is known: one that nobody has *)
(* written, or what a request that the drive failed has left in a buffer.  *)
(*                                                                         *)
(* What the model leaves out: the Disks are images without lost pointers,  *)
(* nothing beside a buffer misleads the guess at a missing one (see Ext2), *)
(* and the drive fails only requests for data blocks, not for pointers and *)
(* inodes.                                                                 *)
(***************************************************************************)
EXTENDS Ext2

CONSTANTS Procs,
          Disks,            \* the images that tasks use
          Heap,             \* what lies beside the buffers while the tasks run
          Inode, SECTOR,    \* the inodes of the files; bytes of a sector
          Seeks, Amounts,   \* arguments of lseek, and of read and write
          Aligned,          \* TRUE: tasks keep to requests that are Simple
          MaxCalls,         \* bound on the calls of a task
          MaxSpoilt         \* bound on the blocks that the drive fails at

ASSUME FileIOAssumption ==
  /\ Seeks \subseteq Nat /\ Amounts \subseteq Nat \ {0}
  /\ Aligned \in BOOLEAN /\ MaxCalls \in Nat /\ MaxSpoilt \in Nat
  /\ Disks \subseteq Images /\ Heap \subseteq Strays
  /\ \A i \in Disks, f \in Files : \A k \in 0..Len(i.list[f]) - 1 : ~Lost(i, f, k)
  /\ SECTOR \in Nat \ {0} /\ Inode \in [Files -> Nat \ {0}]
  /\ "junk" \notin Procs

VARIABLES im,          \* the image on the disk; pointers never change
          data,        \* the contents of its data blocks
          size,        \* the sizes in the inodes
          filelength,  \* the sizes in the vfs nodes
          fd,          \* the descriptor of each task: its file and seek
          call,        \* the call it is in
          buf,         \* what it has read
          tmp,         \* the block that it is about to change in part
          sector,      \* the sizes in the sector that it writes an inode to
          calls,       \* calls so far
          spoilt,      \* the data blocks for which a request has failed
          seen,        \* the values each byte of a read has had during it
          dirtied,     \* the blocks that others wrote during a write
          overlap      \* files that two writes were in at once, or whose inode
                       \* was in a sector that two tasks wrote at once, until
                       \* a write that is alone sets the length

files == <<im, data, size, filelength>>
task == <<fd, call, buf, tmp, sector, calls, spoilt>>
history == <<seen, dirtied, overlap>>
vars == <<files, task, history>>

Junk == <<"junk", 0, 0>>
Blocks(i) == UNION {{i.list[f][k] : k \in 1..Len(i.list[f])} : f \in Files}
NoBlock == [i \in 0..BLOCK - 1 |-> Junk]
NoCall == [op |-> "none", phase |-> "end", blk |-> 0, left |-> 0, rest |-> 0,
           done |-> 0, amount |-> 0, size |-> 0]

Init ==
  /\ im \in Disks
  /\ data = [b \in Blocks(im) |-> [i \in 0..BLOCK - 1 |-> <<"disk", b, i>>]]
  /\ size = [f \in Files |-> Len(im.list[f]) * BLOCK]
  /\ filelength = size
  /\ fd \in [Procs -> {[file |-> f, seek |-> 0] : f \in Files}]
  /\ call = [p \in Procs |-> NoCall]
  /\ buf = [p \in Procs |-> <<>>]
  /\ tmp = [p \in Procs |-> NoBlock]
  /\ sector = [p \in Procs |-> <<>>]
  /\ calls = [p \in Procs |-> 0]
  /\ spoilt = {}
  /\ seen = [p \in Procs |-> <<>>]
  /\ dirtied = [p \in Procs |-> {}]
  /\ overlap = {}

-----------------------------------------------------------------------------
File(p) == fd[p].file
Position(p, i) == fd[p].seek + i
Idle(p) == call[p].op = "none"
In(p, op, phases) == call[p].op = op /\ call[p].phase \in phases

\* A request that begins with a block, or ends before the end of the block it
\* begins in.
Simple(seek, amount) == seek % BLOCK = 0 \/ (seek % BLOCK) + amount < BLOCK

\* The bytes after the last whole block.  For a request that begins inside a
\* block, fs_read and fs_write add the rest of that block where they should
\* subtract it.
e_rest(seek, amount) ==
  LET s_rest == seek % BLOCK
  IN IF s_rest # 0 /\ BLOCK - s_rest > amount THEN 0
     ELSE (amount + (BLOCK - s_rest)) % BLOCK

\* What comes next: the whole blocks, then the bytes after them.
Phase(c) == IF c.left > 0 THEN "whole" ELSE IF c.rest > 0 THEN "rest" ELSE "end"
First(p, c) == IF fd[p].seek % BLOCK # 0 THEN "part" ELSE Phase(c)

\* Which bytes of the block, and how many, the phase is about.
From(p) == IF call[p].phase = "part" THEN fd[p].seek % BLOCK ELSE 0
Length(p) ==
  LET room == BLOCK - From(p)
  IN CASE call[p].phase = "part" ->
            IF call[p].amount < room THEN call[p].amount ELSE room
       [] call[p].phase = "whole" -> BLOCK
       [] OTHER -> call[p].rest

\* The call after the block is done.
Onward(p) ==
  LET c == call[p]
      left == IF c.phase = "whole" THEN c.left - 1 ELSE c.left
      rest == IF c.phase = "rest" THEN 0 ELSE c.rest
      n == [c EXCEPT !.left = left, !.rest = rest, !.blk = @ + 1,
                     !.done = @ + Length(p)]
  IN [n EXCEPT !.phase = Phase(n)]

\* The block that the phase is about.  What is beside the buffers (Heap) does
\* not happen to continue a run of pointers.
Moves(p) == In(p, "read", {"part", "whole", "rest"}) \/ In(p, "write", {"part", "whole", "rest"})
Harmless(p) == {stray \in Heap : Moves(p) /\ ~Misled(im, File(p), call[p].blk, stray)}
Offset(p, stray) == data_offset(im, File(p), call[p].blk, stray)

\* The intended place of byte a of file f, and what is there.
Place(f, a) == Intended(im, f, a \div BLOCK)
ByteOf(d, f, a) == IF Place(f, a) = 0 THEN Junk ELSE d[Place(f, a)][a % BLOCK]

\* What the steps of others do to the history of a task.
Observe(p, b) ==
  /\ seen' = [q \in Procs |-> [i \in DOMAIN seen[q] |->
       seen[q][i] \cup {ByteOf(data', File(q), Position(q, i))}]]
  /\ dirtied' = [q \in Procs |-> IF q # p /\ call[q].op = "write"
                                   THEN dirtied[q] \cup {b} ELSE dirtied[q]]
-----------------------------------------------------------------------------
\* vfs_lseek.
vfs_lseek(p, offset, whence) ==
  /\ Idle(p) /\ calls[p] < MaxCalls
  /\ fd' = [fd EXCEPT ![p].seek = offset + CASE whence = "set" -> 0
                                            [] whence = "cur" -> @
                                            [] whence = "end" -> filelength[File(p)]]
  /\ calls' = [calls EXCEPT ![p] = @ + 1]
  /\ UNCHANGED <<files, call, buf, tmp, sector, spoilt, history>>

Enter(p, op, amount, left) ==
  LET c == [NoCall EXCEPT !.op = op, !.blk = fd[p].seek \div BLOCK,
              !.left = left, !.rest = e_rest(fd[p].seek, amount), !.amount = amount]
  IN /\ Idle(p) /\ calls[p] < MaxCalls
     /\ Aligned => Simple(fd[p].seek, amount)
     /\ call' = [call EXCEPT ![p] = [c EXCEPT !.phase = First(p, c)]]
     /\ calls' = [calls EXCEPT ![p] = @ + 1]

\* _vfs_read: fs_read begins ...
fs_read(p, amount) ==
  /\ Enter(p, "read", amount, amount \div BLOCK)
  /\ buf' = [buf EXCEPT ![p] = [i \in 0..amount - 1 |-> Junk]]
  /\ seen' = [seen EXCEPT ![p] = [i \in 0..amount - 1 |->
                                    {ByteOf(data, File(p), Position(p, i))}]]
  /\ UNCHANGED <<files, fd, tmp, sector, spoilt, dirtied, overlap>>

\* A request of the drive for data block b, which may fail.  That it returns -1
\* then is taken for success.
Request(b, ok) ==
  /\ b = 0 => ok
  /\ spoilt' = IF ok THEN spoilt ELSE spoilt \cup {b}
  /\ Cardinality(spoilt') <= MaxSpoilt
Fetched(b, ok) == IF b # 0 /\ ok THEN data[b] ELSE NoBlock

\* Mutant of read_block: a part of a block is taken from its start.
read_block_start(p, stray, ok) ==
  /\ In(p, "read", {"part", "whole", "rest"})
  /\ LET b == Offset(p, stray)
         at == call[p].done
     IN /\ Request(b, ok)
        /\ IF b = 0 THEN call' = [call EXCEPT ![p].phase = "end"] /\ UNCHANGED buf
           ELSE /\ buf' = [buf EXCEPT ![p] = [i \in DOMAIN @ |->
                     IF i \in at..at + Length(p) - 1
                       THEN Fetched(b, ok)[i - at] ELSE @[i]]]
                /\ call' = [call EXCEPT ![p] = Onward(p)]
  /\ UNCHANGED <<files, fd, tmp, sector, calls, history>>

\* ... reads a block; it ends at one that the file does not have ...
read_block(p, stray, ok) ==
  /\ In(p, "read", {"part", "whole", "rest"})
  /\ LET b == Offset(p, stray)
         at == call[p].done
     IN /\ Request(b, ok)
        /\ IF b = 0 THEN call' = [call EXCEPT ![p].phase = "end"] /\ UNCHANGED buf
           ELSE /\ buf' = [buf EXCEPT ![p] = [i \in DOMAIN @ |->
                     IF i \in at..at + Length(p) - 1
                       THEN Fetched(b, ok)[From(p) + i - at] ELSE @[i]]]
                /\ call' = [call EXCEPT ![p] = Onward(p)]
  /\ UNCHANGED <<files, fd, tmp, sector, calls, history>>

-----------------------------------------------------------------------------
\* _vfs_write: fs_write begins ...
Writes(f) == {p \in Procs : call[p].op = "write" /\ File(p) = f}

fs_write(p, amount) ==
  /\ Enter(p, "write", amount,
           ((amount - e_rest(fd[p].seek, amount)) % UINT) \div BLOCK)
  /\ dirtied' = [dirtied EXCEPT ![p] = {}]
  /\ overlap' = IF Writes(File(p)) = {} THEN overlap ELSE overlap \cup {File(p)}
  /\ UNCHANGED <<files, fd, buf, tmp, sector, spoilt, seen>>

\* ... reads a block that it changes in part; that it may not get one is not
\* noticed ...
write_fetch(p, stray, ok) ==
  /\ In(p, "write", {"part", "rest"}) /\ call[p].size = 0
  /\ LET b == Offset(p, stray)
     IN Request(b, ok) /\ tmp' = [tmp EXCEPT ![p] = Fetched(b, ok)]
  /\ call' = [call EXCEPT ![p].size = 1]
  /\ UNCHANGED <<files, fd, buf, sector, calls, history>>

\* Byte i of the caller's buffer, with the file and the place it is for.
Given(p, i) == IF i < call[p].amount THEN <<p, File(p), Position(p, i)>> ELSE Junk
\* Mutant of Changed: the pointer into the caller's buffer stays where it is.
Changed_start(p, old) ==
  [i \in 0..BLOCK - 1 |-> IF i \in From(p)..From(p) + Length(p) - 1
                            THEN Given(p, i - From(p)) ELSE old[i]]

\* The block after the bytes of this phase were copied into it.
Changed(p, old) ==
  [i \in 0..BLOCK - 1 |-> IF i \in From(p)..From(p) + Length(p) - 1
                            THEN Given(p, call[p].done + i - From(p)) ELSE old[i]]

\* The call after a block was written; the length comes after the last.
Written(p) == LET c == Onward(p)
              IN [c EXCEPT !.phase = IF @ = "end" THEN "length" ELSE @, !.size = 0]

\* A write that fails leaves the sectors from some on as they were.
Stored(b, new, ok) ==
  IF ok THEN {new}
  ELSE {[i \in 0..BLOCK - 1 |-> IF i < n THEN new[i] ELSE data[b][i]] :
          n \in {n \in 0..BLOCK - 1 : n % SECTOR = 0}}

\* Mutant of write_block: what was read of the block is not used.
write_block_over(p, stray, ok) ==
  /\ In(p, "write", {"part", "whole", "rest"})
  /\ call[p].phase # "whole" => call[p].size = 1
  /\ LET b == Offset(p, stray)
     IN /\ Request(b, ok)
        /\ IF b = 0 THEN UNCHANGED <<data, history>>
           ELSE /\ \E new \in Stored(b, Changed(p, NoBlock), ok) :
                     data' = [data EXCEPT ![b] = new]
                /\ Observe(p, b) /\ UNCHANGED overlap
        /\ call' = [call EXCEPT ![p] =
             IF b = 0 /\ @.phase = "whole" THEN [@ EXCEPT !.phase = "end"]
                                           ELSE Written(p)]
  /\ tmp' = [tmp EXCEPT ![p] = NoBlock]
  /\ UNCHANGED <<im, size, filelength, fd, buf, sector, calls>>

\* ... and writes it back, or writes a whole block.  Only a whole block that
\* the file does not have ends the call, and then the length is not set.
write_block(p, stray, ok) ==
  /\ In(p, "write", {"part", "whole", "rest"})
  /\ call[p].phase # "whole" => call[p].size = 1
  /\ LET b == Offset(p, stray)
     IN /\ Request(b, ok)
        /\ IF b = 0 THEN UNCHANGED <<data, history>>
           ELSE /\ \E new \in Stored(b, Changed(p, tmp[p]), ok) :
                     data' = [data EXCEPT ![b] = new]
                /\ Observe(p, b) /\ UNCHANGED overlap
        /\ call' = [call EXCEPT ![p] =
             IF b = 0 /\ @.phase = "whole" THEN [@ EXCEPT !.phase = "end"]
                                           ELSE Written(p)]
  /\ tmp' = [tmp EXCEPT ![p] = NoBlock]
  /\ UNCHANGED <<im, size, filelength, fd, buf, sector, calls>>

\* ... sets the length of the node ...
write_length(p) ==
  /\ In(p, "write", {"length"})
  /\ filelength' = [filelength EXCEPT ![File(p)] = call[p].done + fd[p].seek]
  /\ call' = [call EXCEPT ![p].phase = "inode"]
  /\ overlap' = IF Writes(File(p)) = {p} THEN overlap \ {File(p)} ELSE overlap
  /\ UNCHANGED <<im, data, size, fd, buf, tmp, sector, calls, spoilt, seen, dirtied>>

\* ... and ext2_update_node reads the inode and sets that length in it.
update_node(p) ==
  /\ In(p, "write", {"inode"})
  /\ call' = [call EXCEPT ![p].phase = "size", ![p].size = filelength[File(p)]]
  /\ UNCHANGED <<files, fd, buf, tmp, sector, calls, spoilt, history>>

\* An inode is written by disk_write, which reads the sector that it is in, ...
Sector(f) == inode_offset(Inode[f]) \div SECTOR
InSector(f) == {g \in Files : Sector(g) = Sector(f)}
fetch_sector(p) ==
  /\ In(p, "write", {"size"})
  /\ sector' = [sector EXCEPT ![p] = [f \in InSector(File(p)) |-> size[f]]]
  /\ call' = [call EXCEPT ![p].phase = "sector"]
  /\ overlap' = IF \E q \in Procs : In(q, "write", {"sector"}) /\ File(q) \in InSector(File(p))
                  THEN overlap \cup InSector(File(p)) ELSE overlap
  /\ UNCHANGED <<files, fd, buf, tmp, calls, spoilt, seen, dirtied>>

\* Mutant of write_inode: the inode is written as it was read.
write_inode_old(p) ==
  /\ In(p, "write", {"sector"})
  /\ size' = [f \in Files |-> IF f = File(p) THEN size[f]
                             ELSE IF f \in DOMAIN sector[p] THEN sector[p][f] ELSE size[f]]
  /\ call' = [call EXCEPT ![p].phase = "end"]
  /\ sector' = [sector EXCEPT ![p] = <<>>]
  /\ UNCHANGED <<im, data, filelength, fd, buf, tmp, calls, spoilt, history>>

\* ... and writes all of it back.
write_inode(p) ==
  /\ In(p, "write", {"sector"})
  /\ size' = [f \in Files |-> IF f = File(p) THEN call[p].size
                             ELSE IF f \in DOMAIN sector[p] THEN sector[p][f] ELSE size[f]]
  /\ call' = [call EXCEPT ![p].phase = "end"]
  /\ sector' = [sector EXCEPT ![p] = <<>>]
  /\ UNCHANGED <<im, data, filelength, fd, buf, tmp, calls, spoilt, history>>

-----------------------------------------------------------------------------
\* The end of _vfs_read and _vfs_write.
Return(p) ==
  /\ ~Idle(p) /\ call[p].phase = "end"
  /\ fd' = [fd EXCEPT ![p].seek = @ + call[p].done]
  /\ call' = [call EXCEPT ![p] = NoCall]
  /\ buf' = [buf EXCEPT ![p] = <<>>]
  /\ seen' = [seen EXCEPT ![p] = <<>>]
  /\ dirtied' = [dirtied EXCEPT ![p] = {}]
  /\ UNCHANGED <<files, tmp, sector, calls, spoilt, overlap>>

Inside(p) ==
  \/ \E stray \in Harmless(p), ok \in BOOLEAN :
          read_block(p, stray, ok) \/ write_fetch(p, stray, ok) \/ write_block(p, stray, ok)
  \/ write_length(p) \/ update_node(p) \/ fetch_sector(p) \/ write_inode(p) \/ Return(p)

Next == \E p \in Procs :
          \/ Inside(p)
          \/ \E n \in Amounts : fs_read(p, n) \/ fs_write(p, n)
          \/ \E o \in Seeks, w \in {"set", "cur", "end"} : vfs_lseek(p, o, w)

Spec == Init /\ [][Next]_vars

-----------------------------------------------------------------------------
Calls == [op: {"none", "read", "write"},
          phase: {"part", "whole", "rest", "length", "inode", "size", "sector", "end"},
          blk: Nat, left: Nat, rest: 0..BLOCK - 1, done: Nat, amount: Nat, size: Nat]

\* Types; a block that is written in part is complete in memory.
TypeOK ==
  /\ size \in [Files -> Nat] /\ filelength \in [Files -> Nat]
  /\ \A p \in Procs : call[p] \in Calls /\ fd[p].file \in Files /\ fd[p].seek \in Nat
  /\ \A b \in DOMAIN data : DOMAIN data[b] = 0..BLOCK - 1
  /\ \A p \in Procs : call[p].op = "read" => DOMAIN buf[p] = DOMAIN seen[p]
  /\ spoilt \subseteq DOMAIN data

\* _ext2_get_inode_data_offset finds the blocks of the files of every image, up
\* to what BlocksFound excepts, and _ext2_get_inode_offset the inodes (see Ext2).
\* That does not change, so that the first state stands for all.
ImagesFound == \A i \in Images : BlocksFound(i)
AllFound == (\A p \in Procs : calls[p] = 0) => ImagesFound /\ InodesFound

Ends(p, op) == call[p].op = op /\ call[p].phase = "end"

\* fs_read, when it returns: each byte it counts is one that was at that place
\* of the file at some time during the call, whatever other tasks write, and
\* it stops short only at a block that the file does not have.  Bytes of a
\* block for which the drive has failed a request are excepted: fs_read counts
\* them all the same.
ReadFresh ==
  \A p \in Procs : Ends(p, "read") =>
    /\ \A i \in 0..call[p].done - 1 :
         \/ buf[p][i] \in seen[p][i] /\ buf[p][i] # Junk
         \/ Place(File(p), Position(p, i)) \in spoilt
    /\ call[p].done < call[p].amount => Place(File(p), Position(p, call[p].done)) = 0

\* fs_read and fs_write return at most what they were asked for.
NoMoreThanAsked == \A p \in Procs : call[p].done <= call[p].amount

\* fs_write, when it returns: each byte that it counts and that the file has a
\* place for is there, unless another task has written to that block meanwhile
\* or the drive has failed a request for it.
WriteLands ==
  \A p \in Procs : Ends(p, "write") =>
    \A i \in 0..call[p].done - 1 :
      LET b == Place(File(p), Position(p, i))
      IN \/ b = 0 \/ b \in dirtied[p] \/ b \in spoilt
         \/ data[b][Position(p, i) % BLOCK] = Given(p, i)

\* Whatever the tasks write, and in whatever order: a byte of the disk is what
\* was there at first or what a task has written for this very byte.  No write
\* ends up in another file or at another place.  Only of a block for which the
\* drive has failed a request nothing may be known any more.
InPlace ==
  \A b \in DOMAIN data, i \in 0..BLOCK - 1 :
    LET x == data[b][i]
    IN \/ x = <<"disk", b, i>>
       \/ x = Junk /\ b \in spoilt
       \/ x[1] \in Procs /\ Place(x[2], x[3]) = b /\ x[3] % BLOCK = i

\* The size in the inode is that of the vfs node, when nobody writes the file
\* and the last write to set the length was alone from there on, with the file
\* and with the sector of its inode.
SizeAgrees ==
  TypeOK /\ \A f \in Files : Writes(f) = {} /\ f \notin overlap => size[f] = filelength[f]
=============================================================================
