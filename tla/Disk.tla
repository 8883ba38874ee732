-------------------------------- MODULE Disk --------------------------------
(***************************************************************************)
(* The byte interface to a disk, drivers/disk.c, on the ATA driver: a      *)
(* request for `size` bytes at `offset` becomes device calls for a first   *)
(* sector in part, whole sectors, and a last sector in part, each of which *)
(* takes the lock anew.  A write reads the sectors it changes in part      *)
(* first, and writes them back.                                            *)
(*                                                                         *)
(* The requests are those of the filesystem driver: at the start of a      *)
(* sector (superblock, descriptors, blocks), or within one (inodes).       *)
(***************************************************************************)
EXTENDS Ata, Integers

CONSTANTS UINT,        \* 2^32
          Requests,    \* [op, drive, offset, size]
          MaxRequests  \* bound on the requests of a task

\* What ext2.c asks for.
FromExt2(r) == r.offset % SECTOR = 0 \/ (r.offset % SECTOR) + r.size <= SECTOR

ASSUME DiskAssumption ==
  /\ UINT \in Nat \ {0} /\ MaxRequests \in Nat
  /\ \A r \in Requests : /\ r.op \in {"read", "write"} /\ r.drive \in Drives
                         /\ r.offset \in Nat /\ r.size \in Nat \ {0}
                         /\ FromExt2(r)

\* One drive, with sectors that the three LBA registers can name, and requests
\* that are on it and fit the sector count register.  With more drives, or larger
\* ones, ata_select_drive may leave the register as it was for another call.
SmallDrive ==
  /\ \A d, e \in Drives : d = e
  /\ NSectors <= LBA_LOW
  /\ \A r \in Requests : /\ r.offset + r.size <= NSectors * SECTOR
                         /\ r.size <= SECCOUNT * SECTOR

VARIABLES req,         \* the request a task is in
          job,         \* its device calls still to come
          buf,         \* the caller's buffer
          count,       \* requests so far
          seen,        \* the values each byte of a request has had during it
          dirtied      \* the sectors others wrote during it

requests == <<req, job, buf, count, seen, dirtied>>
diskVars == <<ataVars, requests>>

NoRequest == [op |-> "none"]

DiskInit ==
  /\ AtaInit
  /\ req = [p \in Procs |-> NoRequest]
  /\ job = [p \in Procs |-> <<>>]
  /\ buf = [p \in Procs |-> <<>>]
  /\ count = [p \in Procs |-> 0]
  /\ seen = [p \in Procs |-> <<>>]
  /\ dirtied = [p \in Procs |-> {}]

-----------------------------------------------------------------------------
\* A device call for n sectors at lba.  Bytes at..at+len-1 of these sectors
\* are bytes pos.. of the caller's buffer.
DeviceCall(op, lba, n, start, len, pos) ==
  [op |-> op, lba |-> lba, n |-> n, start |-> start, len |-> len, pos |-> pos]
When(condition, seq) == IF condition THEN seq ELSE <<>>

\* Mutant of disk_read: the sectors after a first one in part are not counted
\* from its end.
disk_read_lba(offset, size) ==
  LET n == size \div SECTOR
      l_rest == offset % SECTOR
      lba == offset \div SECTOR
  IN When(n > 0, <<DeviceCall("read", lba, n, 0, n * SECTOR, 0)>>)
     \o When(size % SECTOR # 0, <<DeviceCall("read", lba, 1, l_rest,
                                       size % SECTOR, n * SECTOR)>>)

\* disk_read
disk_read(offset, size) ==
  LET n0 == size \div SECTOR
      rest == size % SECTOR
      lba0 == offset \div SECTOR
      l_rest == offset % SECTOR
      part == l_rest # 0
      l_size == IF n0 = 0 THEN rest ELSE SECTOR - l_rest
      n == IF part THEN (IF n0 = 0 THEN 1 ELSE n0) - 1 ELSE n0
      c_rest == IF ~part THEN rest
                ELSE IF n0 = 0 THEN 0 ELSE (rest - l_rest) % UINT
      lba == IF part THEN lba0 + 1 ELSE lba0
      from == IF part THEN l_size ELSE 0
  IN When(part, <<DeviceCall("read", lba0, 1, l_rest, l_size, 0)>>)
     \o When(n > 0, <<DeviceCall("read", lba, n, 0, n * SECTOR, from)>>)
     \o When(c_rest > 0, <<DeviceCall("read", lba + n, 1, 0, c_rest,
                                      from + n * SECTOR)>>)

\* Mutant of Update: a sector that is changed in part is not read first.
Update_blind(lba, start, len, pos) ==
  <<DeviceCall("write", lba, 1, start, len, pos)>>

\* A sector is read, changed in part and written back.
Update(lba, start, len, pos) ==
  <<DeviceCall("read", lba, 1, start, len, pos),
    DeviceCall("write", lba, 1, start, len, pos)>>

\* Mutant of disk_write: the rest of the last sector is rounded up to all of it.
disk_write_whole(offset, size) ==
  LET n == (size + SECTOR - 1) \div SECTOR
  IN <<DeviceCall("write", offset \div SECTOR, n, 0, n * SECTOR, 0)>>

\* disk_write
disk_write(offset, size) ==
  LET block0 == offset \div SECTOR
      s_rest == offset % SECTOR
      part == s_rest # 0
      e_rest == IF part /\ SECTOR - s_rest > size THEN 0
                ELSE (size + s_rest) % SECTOR
      n == (size - e_rest) \div SECTOR
      len == IF size < SECTOR - s_rest THEN size ELSE SECTOR - s_rest
      block == IF part THEN block0 + 1 ELSE block0
      from == IF part THEN SECTOR ELSE 0
  IN When(part, Update(block0, s_rest, len, 0))
     \o When(n > 0, <<DeviceCall("write", block, n, 0, n * SECTOR, from)>>)
     \o When(e_rest > 0, Update(block + n, 0, e_rest, from + n * SECTOR))

-----------------------------------------------------------------------------
ByteOn(s, r, i) == s[r.drive][(r.offset + i) \div SECTOR][(r.offset + i) % SECTOR]
Byte(r, i) == ByteOn(sectors, r, i)
Bytes(r) == 0..r.size - 1

\* The filesystem makes a request; byte i of what p writes is <<p, i>>.
Request(p, r) ==
  /\ req[p] = NoRequest /\ count[p] < MaxRequests
  /\ req' = [req EXCEPT ![p] = r]
  /\ job' = [job EXCEPT ![p] = IF r.op = "read" THEN disk_read(r.offset, r.size)
                                               ELSE disk_write(r.offset, r.size)]
  /\ buf' = [buf EXCEPT ![p] = [i \in Bytes(r) |->
                                 IF r.op = "read" THEN Junk ELSE <<p, i>>]]
  /\ count' = [count EXCEPT ![p] = @ + 1]
  /\ seen' = [seen EXCEPT ![p] = [i \in Bytes(r) |-> {Byte(r, i)}]]
  /\ dirtied' = [dirtied EXCEPT ![p] = {}]
  /\ UNCHANGED ataVars

\* Byte i of a sequence of sectors; what a failed call left out is junk.
Received_byte(s, i) == IF i \div SECTOR < Len(s)
                         THEN s[i \div SECTOR + 1][i % SECTOR] ELSE Junk

\* The sectors of a write: the old ones, with the bytes of the buffer in place.
Merged(p, c) ==
  [k \in 1..c.n |-> [i \in 0..SECTOR - 1 |->
    LET j == (k - 1) * SECTOR + i
        b == c.pos + j - c.start
    IN IF j \in c.start..c.start + c.len - 1
         THEN IF b \in DOMAIN buf[p] THEN buf[p][b] ELSE Junk
         ELSE Received_byte(tmp[p], j)]]

\* The next device call of p's request.
disk_call(p) ==
  /\ job[p] # <<>>
  /\ LET c == Head(job[p])
         args == [op |-> c.op, drive |-> req[p].drive, lba |-> c.lba,
                  count |-> c.n]
     IN atapio(p, IF c.op = "read" THEN args
                  ELSE [op |-> c.op, drive |-> req[p].drive, lba |-> c.lba,
                        count |-> c.n, out |-> Merged(p, c)])
  /\ UNCHANGED requests

\* The device call returns, and what was read is copied.  Only disk_write's
\* whole sectors are checked for an error.
disk_return(p) ==
  LET c == Head(job[p])
  IN /\ atapio_return(p)
     /\ buf' = [buf EXCEPT ![p] =
          IF req[p].op = "write" THEN @
          ELSE [i \in DOMAIN @ |-> IF i \in c.pos..c.pos + c.len - 1
                  THEN Received_byte(tmp[p], c.start + i - c.pos) ELSE @[i]]]
     /\ job' = [job EXCEPT ![p] =
          IF c.op = "write" /\ c.len = c.n * SECTOR /\ ~drv[p].ok
            THEN <<>> ELSE Tail(@)]
     /\ UNCHANGED <<req, count, seen, dirtied>>

\* While p is in its call, the others see the sector it writes.
disk_inside(p) ==
  /\ AtaInside(p)
  /\ seen' = [q \in Procs |->
       IF req[q] = NoRequest \/ sectors' = sectors THEN seen[q]
       ELSE [i \in DOMAIN seen[q] |-> seen[q][i] \cup {ByteOn(sectors', req[q], i)}]]
  /\ dirtied' = [q \in Procs |->
       IF q = p \/ req[q] = NoRequest THEN dirtied[q]
       ELSE dirtied[q] \cup {s \in 0..NSectors - 1 :
              sectors'[req[q].drive][s] # sectors[req[q].drive][s]}]
  /\ UNCHANGED <<req, job, buf, count>>

\* The request returns to the filesystem.
Done(p) ==
  /\ req[p] # NoRequest /\ job[p] = <<>>
  /\ req' = [req EXCEPT ![p] = NoRequest]
  /\ buf' = [buf EXCEPT ![p] = <<>>]
  /\ seen' = [seen EXCEPT ![p] = <<>>]
  /\ dirtied' = [dirtied EXCEPT ![p] = {}]
  /\ tmp' = [tmp EXCEPT ![p] = <<>>]
  /\ UNCHANGED <<word, at, sectors, chan, selected, call, drv, faults, bad,
                 job, count>>

DiskStep(p) == disk_call(p) \/ disk_inside(p) \/ disk_return(p) \/ Done(p)
DiskNext == \E p \in Procs : DiskStep(p) \/ \E r \in Requests : Request(p, r)

DiskSpec == DiskInit /\ [][DiskNext]_diskVars

\* Tasks that wait for the disk or use it are not kept off the processor, and
\* the drive answers every poll in the end.
DiskFairSpec == DiskSpec /\ \A p \in Procs : WF_diskVars(DiskStep(p))

-----------------------------------------------------------------------------
Returning(p) == req[p] # NoRequest /\ job[p] = <<>>

\* disk_read gives the bytes asked for: each byte of the buffer was at its
\* place on the disk at some moment of the request, however the writes of other
\* tasks fall between the device calls and also if the drive aborts a command
\* before it has handed over a sector.  Excused (bad) are errors, which disk_read
\* does not look at, and an abort after a sector of the same call: the retry of
\* _atapio_read does not rewind its buffer, so that it reports success with the
\* data in the wrong place.
ReadFresh ==
  \A p \in Procs : Returning(p) /\ req[p].op = "read" /\ p \notin bad
                     => \A i \in Bytes(req[p]) : buf[p][i] \in seen[p][i]

\* disk_write has put its bytes at their place when it returns, in the sectors
\* that no other task wrote during the request.
WriteLands ==
  \A p \in Procs :
    Returning(p) /\ req[p].op = "write" /\ p \notin bad
      => \A i \in Bytes(req[p]) :
           (req[p].offset + i) \div SECTOR \notin dirtied[p]
             => Byte(req[p], i) = <<p, i>>

\* Every byte on a drive is the one that was there at first or the one that a
\* write request has for that very place, though the sector around it is read
\* and written back by several tasks.
BytesInPlace ==
  bad = {} =>
    \A d \in Drives, a \in 0..NSectors * SECTOR - 1 :
      LET b == sectors[d][a \div SECTOR][a % SECTOR]
      IN \/ b = <<d, a>>
         \/ \E r \in Requests, p \in Procs :
              /\ r.op = "write" /\ r.drive = d /\ a - r.offset \in Bytes(r)
              /\ b = <<p, a - r.offset>>

\* Every request returns, also when the drive aborts commands.
RequestsReturn == \A p \in Procs : req[p] # NoRequest ~> req[p] = NoRequest
=============================================================================
