-------------------------------- MODULE Pipe --------------------------------
(***************************************************************************)
(* A pipe and the ring buffer under it: fs/vfs/pipe.c and                  *)
(* yanix/ds/ringbuffer.c, as used by pipes, fifos, character devices,      *)
(* standard input and sockets.                                             *)
(*                                                                         *)
(* Bytes are numbered by their place in the stream, the `virtual` index,   *)
(* and the buffer holds those numbers: the byte at index j is right when   *)
(* it is j.  ringbuffer_write runs with interrupts off, in a task or in    *)
(* the keyboard interrupt, and is one step; so is a blocking read once it  *)
(* is woken.  A read with O_NONBLOCK runs with interrupts on and is        *)
(* interrupted between its accesses to the shared fields.  The spinlock    *)
(* around reads and writes never makes anyone wait, since spinlock_lock    *)
(* goes on as soon as its exchange finds the lock taken, and is left out.  *)
(***************************************************************************)
EXTENDS Integers, FiniteSetsExt

CONSTANTS SHORT,        \* 2^16: what an unsigned short index wraps at
          LONG,         \* 2^32: what the unsigned long fields wrap at
          Readers,      \* the tasks that read
          ReadSizes,    \* the sizes they ask for
          WriteSizes,   \* the sizes of writes
          Cap,          \* bound on unread bytes: the code does not stop writers
          Uses          \* the ways the pipe is used, sets of AllUses

\* Blocking and non-blocking reads, and non-blocking writes.
AllUses == {"block", "nonblock", "nbwrite"}

ASSUME PipeAssumption ==
  /\ {SHORT, LONG, Cap} \subseteq Nat \ {0} /\ Cap <= SHORT
  /\ LONG % SHORT = 0 /\ SHORT < LONG
  /\ ReadSizes \subseteq Nat \ {0} /\ WriteSizes \subseteq Nat \ {0}
  /\ Uses \subseteq SUBSET AllUses

VARIABLES virtual_begin, virtual_end, cursize,
          buffer,       \* what is behind buffer_start, up to the wrap (the
                        \* last byte is not part of the allocation)
          uses,         \* which kinds of reads and writes there are
          nonblock,     \* flags & O_NONBLOCK, never cleared
          rd,           \* each reader: pc and the locals of its read
          last,         \* how many bytes each reader's last read gave, and
                        \* whether they were the right ones
          mark          \* history: the end of the last byte that was counted

vars == <<virtual_begin, virtual_end, cursize, buffer, uses, nonblock, rd, last,
          mark>>
ring == <<virtual_begin, virtual_end, cursize, buffer, uses, nonblock>>

NONE == -1
Local == [pc |-> "idle", size |-> 0, index |-> 0, max |-> 0, left |-> 0,
          ok |-> TRUE]

Init ==
  /\ virtual_begin = 0 /\ virtual_end = 0 /\ cursize = 0
  /\ buffer = [k \in 0..(SHORT - 1) |-> NONE]
  /\ uses \in Uses /\ nonblock = FALSE
  /\ rd = [r \in Readers |-> Local]
  /\ last = [r \in Readers |-> [n |-> 1, ok |-> TRUE]]
  /\ mark = 0

\* The virtual indices are unsigned longs.
Advance(index, n) == (index + n) % LONG

Unread == (virtual_end - virtual_begin) % LONG

-----------------------------------------------------------------------------
\* Mutant of Counted: the byte itself is not counted.
Counted_before(i) == (Unread + i) % LONG

\* ringbuffer_write_index: cursize when the i-th byte of a write is counted.
Counted(i) == (Unread + i + 1) % LONG

\* pipe_write_raw, ringbuffer_write: n bytes, those at `lines` newlines.  Up to
\* the last newline, or all with O_NONBLOCK, they are counted in cursize.
pipe_write_raw(n, lines, flag) ==
  LET counted == IF nonblock \/ flag THEN 0..(n - 1) ELSE lines
  IN /\ Unread <= Cap => Unread + n <= Cap
     /\ nonblock' = (nonblock \/ flag)
     /\ buffer' = [k \in DOMAIN buffer |->
                     LET i == (k - virtual_end) % SHORT
                     IN IF i < n THEN (virtual_end + i) % LONG ELSE buffer[k]]
     /\ virtual_end' = Advance(virtual_end, n)
     /\ \/ counted = {} /\ UNCHANGED <<cursize, mark>>
        \/ /\ counted # {}
           /\ cursize' = Counted(Max(counted))
           /\ mark' = (virtual_end + Max(counted) + 1) % LONG
     /\ UNCHANGED <<virtual_begin, uses, rd, last>>

-----------------------------------------------------------------------------
\* ringbuffer_read_index: no more than what is counted, if anything is, and no
\* more than there is.
Limit(n) == IF cursize # 0 THEN Min({cursize, n}) ELSE n

\* The copy from the buffer gives the bytes numbered from index on.
Right(index, n) == \A i \in 0..(n - 1) :
                     buffer[(index + i) % SHORT] = (index + i) % LONG

Goes(r, from, to) == rd[r].pc = from /\ rd' = [rd EXCEPT ![r].pc = to]
Returns(r, n, ok) == /\ rd' = [rd EXCEPT ![r] = Local]
                     /\ last' = [last EXCEPT ![r] = [n |-> n, ok |-> ok]]

pipe_read_raw(r, n, to) ==
  /\ rd[r].pc = "idle"
  /\ rd' = [rd EXCEPT ![r].pc = to, ![r].size = n]
  /\ UNCHANGED <<ring, last, mark>>

\* ringbuffer_block, with interrupts on: the reader loops until cursize is set.
ringbuffer_block(r) == /\ cursize # 0
                       /\ Goes(r, "blocked", "woken")
                       /\ UNCHANGED <<ring, last, mark>>

\* Mutant of Taken: what is left of a line is not counted.
Taken_all(n) == 0

\* cursize after a read of n bytes.
Taken(n) == IF cursize # 0 THEN (cursize - n) % LONG ELSE 0

\* ringbuffer_read of a blocking read: interrupts are off again.
ringbuffer_read(r) ==
  LET n == Min({Limit(rd[r].size), Unread})
  IN /\ rd[r].pc = "woken"
     /\ virtual_begin' = Advance(virtual_begin, n)
     /\ cursize' = Taken(n)
     /\ Returns(r, n, Right(virtual_begin, n))
     /\ UNCHANGED <<virtual_end, buffer, uses, nonblock, mark>>

\* ringbuffer_read of a read with O_NONBLOCK, step by step: the limit by
\* cursize, the limit by what there is, the copy, the new virtual_begin, the
\* load of cursize and the store of what is left of it.
ReadLimit(r) ==
  /\ rd[r].pc = "limit"
  /\ rd' = [rd EXCEPT ![r].pc = "max", ![r].size = Limit(@),
                      ![r].index = virtual_begin]
  /\ UNCHANGED <<virtual_begin, virtual_end, cursize, buffer, uses, nonblock,
                 last, mark>>

\* Mutant of ReadMax: what there is does not limit the read.
ReadMax_unlimited(r) ==
  /\ rd[r].pc = "max"
  /\ rd' = [rd EXCEPT ![r].pc = "copy", ![r].max = rd[r].size]
  /\ UNCHANGED <<ring, last, mark>>

ReadMax(r) ==
  /\ rd[r].pc = "max"
  /\ rd' = [rd EXCEPT ![r].pc = "copy", ![r].max = Min({rd[r].size, Unread})]
  /\ UNCHANGED <<ring, last, mark>>

ReadCopy(r) ==
  /\ rd[r].pc = "copy"
  /\ rd' = [rd EXCEPT ![r].pc = "begin",
                      ![r].ok = Right(rd[r].index, rd[r].max)]
  /\ UNCHANGED <<ring, last, mark>>

ReadBegin(r) ==
  /\ Goes(r, "begin", "load")
  /\ virtual_begin' = Advance(rd[r].index, rd[r].max)
  /\ UNCHANGED <<virtual_end, cursize, buffer, uses, nonblock, last,
                 mark>>

ReadLoad(r) ==
  /\ rd[r].pc = "load"
  /\ \/ /\ cursize = 0
        /\ Returns(r, rd[r].max, rd[r].ok)
     \/ /\ cursize # 0
        /\ rd' = [rd EXCEPT ![r].pc = "store", ![r].left = Taken(rd[r].max)]
        /\ UNCHANGED last
  /\ UNCHANGED <<virtual_begin, virtual_end, cursize, buffer, uses, nonblock,
                 mark>>

ReadStore(r) ==
  /\ rd[r].pc = "store"
  /\ cursize' = rd[r].left
  /\ Returns(r, rd[r].max, rd[r].ok)
  /\ UNCHANGED <<virtual_begin, virtual_end, buffer, uses, nonblock, mark>>

-----------------------------------------------------------------------------
Write == \E n \in WriteSizes, flag \in BOOLEAN : \E lines \in SUBSET (0..(n - 1)) :
           /\ flag => "nbwrite" \in uses
           /\ pipe_write_raw(n, lines, flag)

Call(r) == \E n \in ReadSizes :
             \/ "block" \in uses /\ pipe_read_raw(r, n, "blocked")
             \/ "nonblock" \in uses /\ pipe_read_raw(r, n, "limit")

Read(r) == \/ ringbuffer_block(r) \/ ringbuffer_read(r)
           \/ ReadLimit(r) \/ ReadMax(r) \/ ReadCopy(r) \/ ReadBegin(r)
           \/ ReadLoad(r) \/ ReadStore(r)

Next == Write \/ \E r \in Readers : Call(r) \/ Read(r)

\* A read that can go on does: the scheduler runs every ready task.
Spec == Init /\ [][Next]_vars /\ \A r \in Readers : WF_vars(Read(r))
-----------------------------------------------------------------------------
TypeOK ==
  /\ {virtual_begin, virtual_end, cursize, mark} \subseteq 0..(LONG - 1)
  /\ buffer \in [0..(SHORT - 1) -> -1..(LONG - 1)]
  /\ uses \in Uses /\ nonblock \in BOOLEAN
  /\ \A r \in Readers : rd[r].pc \in {"idle", "blocked", "woken", "limit", "max",
                                      "copy", "begin", "load", "store"}

\* cursize, which is set by writes and counted down by reads, is what a reader
\* may be given: the unread bytes up to the last one that was counted.
CursizeRight ==
  TypeOK /\ ("nonblock" \notin uses => cursize = (mark - virtual_begin) % LONG)

\* Reads give the bytes of the stream in order, although the index wraps and
\* a write can come in the middle of a read.
ReadsInOrder == \A r \in Readers : last[r].ok

\* A line in the pipe, however the writes that made it up were split, is given
\* to the reader that waits for it.
LineDelivered == \A r \in Readers :
  ("nonblock" \notin uses /\ rd[r].pc = "blocked" /\ mark # virtual_begin)
    ~> (rd[r].pc = "idle")
=============================================================================
