------------------------------- MODULE Paging -------------------------------
(***************************************************************************)
(* Frames and pages, mm/paging.c, and the copy of a directory at fork.     *)
(*                                                                         *)
(* The kernel's page tables are linked into every directory; they are left *)
(* out but for the frames they hold (`kernel`).  The model is about the    *)
(* pages of the other tables, UPages, which a directory has for itself.  A *)
(* table is made when a page of it is first needed.  In the order of       *)
(* addresses, UPages are the heap for user stacks, the program with its    *)
(* break, and nothing up to the kernel heap.                               *)
(*                                                                         *)
(* fork, page faults and the making of a user stack run with interrupts    *)
(* off, one step each.  In the other calls a task may be preempted between *)
(* the look for a free frame and the setting of its bit (found).           *)
(***************************************************************************)
EXTENDS Integers, Sequences, FiniteSets

CONSTANTS Tasks, Main,     \* Main is the first task
          NFRAMES, WORD,   \* frames; bits of a word of g_frames
          KERNEL,          \* frames of the kernel at first, 0..KERNEL - 1
          PAGE,            \* bytes of a page
          SHEAP, PROGRAMS, \* first pages of the stack heap and the programs
          LAST,            \* last page of UPages
          STACK,           \* pages of a user stack
          Images,          \* the ELF files: the program headers of each
          Addresses,       \* the addresses that programs write to
          Increments,      \* the arguments of sbrk
          MaxKernel, MaxOps, MaxExecs, MaxBreak  \* bounds

UPages == SHEAP..LAST
Words == NFRAMES \div WORD
Frames == 0..NFRAMES - 1

ASSUME PagingAssumption ==
  /\ {NFRAMES, WORD, KERNEL, PAGE, STACK, SHEAP} \subseteq Nat \ {0}
  /\ {PROGRAMS, LAST, MaxKernel, MaxOps, MaxExecs, MaxBreak} \subseteq Nat
  /\ KERNEL < Words * WORD /\ SHEAP < PROGRAMS /\ PROGRAMS < LAST
  /\ Words * WORD <= NFRAMES
  /\ Main \in Tasks /\ Increments \subseteq Int
  /\ Addresses \subseteq SHEAP * PAGE..LAST * PAGE + PAGE - 1

HeaderType == [load: BOOLEAN, vaddr: Nat, memsize: Nat, filesize: Nat, rw: BOOLEAN]
\* Programs are linked to addresses from PROGRAMS on.
ASSUME ImagesAssumption ==
  \A m \in DOMAIN Images :
    /\ Images[m] \in Seq(HeaderType) /\ Images[m] # <<>>
    /\ \A k \in 1..Len(Images[m]) :
         LET h == Images[m][k]
         IN h.load => /\ PROGRAMS * PAGE <= h.vaddr
                      /\ h.vaddr + h.memsize <= LAST * PAGE + PAGE

VARIABLES g_frames,  \* the frames whose bit is set
          kernel,    \* the frames of the kernel's tables
          map,       \* the pages of each task's directory
          mem,       \* what is in the frames
          live,      \* the tasks
          prog,      \* program_start, program_break, ring, stacks of a task
          call,      \* the call that a task is in
          loop,      \* where its loop over pages is, and ends
          found,     \* the frame a task has found and not yet marked, or 0
          raced,     \* a frame was handed out while a task had found it
          hung,      \* a task is in the endless loop of error_message
          ops        \* calls and writes so far

vars == <<g_frames, kernel, map, mem, live, prog, call, loop, found, raced, hung,
          ops>>

NoPage == [frame |-> 0, user |-> FALSE, rw |-> FALSE]
NoCall == [step |-> "none", image |-> "none", k |-> 0, sbrk |-> FALSE, rw |-> FALSE]
NoLoop == [at |-> 0, end |-> 0]
NoProgram == [start |-> 0, brk |-> 0, image |-> "none", ring |-> 0, execs |-> 0,
              stack |-> 0]
Junk == <<"junk", 0>>
Zero == <<"zero", 0>>
Data(t) == <<"data", t>>

\* After init_paging and init_tasking; the pages of Main's directory that are
\* not the kernel's are its stack, which no program uses.
Init ==
  /\ g_frames = 0..KERNEL - 1
  /\ kernel = 0..KERNEL - 1
  /\ map = [t \in Tasks |-> [p \in UPages |-> NoPage]]
  /\ mem = [f \in Frames |-> [i \in 0..PAGE - 1 |-> Junk]]
  /\ live = {Main}
  /\ prog = [t \in Tasks |-> NoProgram]
  /\ call = [t \in Tasks |-> NoCall]
  /\ loop = [t \in Tasks |-> NoLoop]
  /\ found = [t \in Tasks |-> 0]
  /\ raced = FALSE /\ hung = FALSE /\ ops = 0

-----------------------------------------------------------------------------
\* first_frame looks at whole words only.
Free == (0..Words * WORD - 1) \ g_frames
First == CHOOSE f \in Free : \A e \in Free : f <= e

Rank(S, x) == Cardinality({y \in S : y < x})

\* Mutant of Handed: the bits are not set before the next frame is looked for.
Handed_same(Q) == [p \in {q \in Q : Free # {}} |-> First]

\* alloc_frame, with interrupts off, for the pages of Q, none of which has a
\* frame, in the order of their addresses: the frames they get.  Once no frame
\* is left, the remaining pages get none.
Handed(Q) == [p \in {q \in Q : \E f \in Free : Rank(Free, f) = Rank(Q, q)} |->
                CHOOSE f \in Free : Rank(Free, f) = Rank(Q, p)]

Got(h) == {h[p] : p \in DOMAIN h}

\* The bits of the frames S are set, by task t.
Mark(t, S) ==
  /\ g_frames' = g_frames \cup S
  /\ raced' = (raced \/ \E u \in Tasks \ {t} : found[u] # 0 /\ found[u] \in S)

WithoutFrame(t, S) == {p \in S \cap UPages : map[t][p].frame = 0}

\* alloc_frame, with interrupts off, for the pages of S.
alloc_frame(t, S, user, rw) ==
  LET h == Handed(WithoutFrame(t, S))
  IN /\ Mark(t, Got(h))
     /\ map' = [map EXCEPT ![t] = [p \in UPages |->
          IF p \in DOMAIN h THEN [frame |-> h[p], user |-> user, rw |-> rw]
                            ELSE map[t][p]]]

-----------------------------------------------------------------------------
\* The loop of map_memory_block, and that of sbrk, with interrupts on: a task
\* is at an address below an end, and steps by whole pages.
Looping(t) == t \in live /\ ~hung /\ call[t].step = "alloc"
              /\ loop[t].at < loop[t].end
At(t) == loop[t].at \div PAGE
Step(t) == loop' = [loop EXCEPT ![t].at = @ + PAGE]
\* The call returns.
Return(t) == call' = [call EXCEPT ![t] = NoCall] /\ loop' = [loop EXCEPT ![t] = NoLoop]

\* flagforce_alloc_frame: alloc_frame finds a frame ...
look(t) ==
  /\ Looping(t) /\ found[t] = 0 /\ map[t][At(t)].frame = 0 /\ Free # {}
  /\ found' = [found EXCEPT ![t] = First]
  /\ UNCHANGED <<g_frames, kernel, map, mem, live, prog, call, loop, raced, hung, ops>>

\* ... sets its bit and fills in the page ...
take(t) ==
  /\ Looping(t) /\ found[t] # 0
  /\ Mark(t, {found[t]})
  /\ map' = [map EXCEPT ![t][At(t)] =
               [frame |-> found[t], user |-> TRUE, rw |-> call[t].rw]]
  /\ found' = [found EXCEPT ![t] = 0]
  /\ Step(t)
  /\ UNCHANGED <<kernel, mem, live, prog, call, hung, ops>>

\* Mutant of reflag: pages that are there keep their flags.
reflag_keep(t) ==
  /\ Looping(t) /\ found[t] = 0 /\ map[t][At(t)].frame # 0
  /\ Step(t)
  /\ UNCHANGED <<g_frames, kernel, map, mem, live, prog, call, found, raced, hung, ops>>

\* ... or finds that the page has one, and sets its flags ...
reflag(t) ==
  /\ Looping(t) /\ found[t] = 0 /\ map[t][At(t)].frame # 0
  /\ map' = [map EXCEPT ![t][At(t)] =
               [frame |-> @.frame, user |-> TRUE, rw |-> call[t].rw]]
  /\ Step(t)
  /\ UNCHANGED <<g_frames, kernel, mem, live, prog, call, found, raced, hung, ops>>

\* ... or that there is none: map_memory_block goes on, sbrk returns -1.
no_memory(t) ==
  /\ Looping(t) /\ found[t] = 0 /\ map[t][At(t)].frame = 0 /\ Free = {}
  /\ IF call[t].sbrk THEN Return(t) ELSE Step(t) /\ UNCHANGED call
  /\ UNCHANGED <<g_frames, kernel, map, mem, live, prog, found, raced, hung, ops>>

-----------------------------------------------------------------------------
\* The frame that copy_page's buffer page stands for while page p is copied;
\* it is 0 if no frame was left.
Buffer(h, p) == IF p \in DOMAIN h THEN h[p] ELSE 0

\* Mutant of duplicate: the buffer page still stands for the frame of the first
\* page copied, for want of a flush of the TLB.
duplicate_stale(h, pages, t) ==
  LET first == CHOOSE p \in pages : \A q \in pages : p <= q
  IN [f \in Frames |-> IF \E p \in pages : Buffer(h, first) = f
        THEN mem[map[t][CHOOSE p \in pages : \A q \in pages : q <= p].frame]
        ELSE mem[f]]

\* Memory after copy_page was called for the pages, in the order of addresses.
duplicate(h, pages, t) ==
  [f \in Frames |->
     IF \E p \in pages : Buffer(h, p) = f
       THEN LET last == CHOOSE p \in pages :
                          /\ Buffer(h, p) = f
                          /\ \A q \in pages : Buffer(h, q) = f => q <= p
            IN mem[map[t][last].frame]
       ELSE mem[f]]

\* Mutant of fork: the tables of the program are linked too.
fork_linked(t, c) ==
  /\ call[t] = NoCall /\ ~hung /\ t \in live /\ c \notin live
  /\ map' = [map EXCEPT ![c] = map[t]]
  /\ live' = live \cup {c}
  /\ prog' = [prog EXCEPT ![c] = [prog[t] EXCEPT !.execs = 0]]
  /\ UNCHANGED <<g_frames, mem, kernel, call, loop, found, raced, hung, ops>>

\* duplicate_current_page_directory, in fork: the tables that are the kernel's
\* are linked, the pages of the others are copied.
fork(t, c) ==
  LET pages == {p \in UPages : map[t][p].frame # 0}
      h == Handed(pages)
  IN /\ call[t] = NoCall /\ ~hung /\ t \in live /\ c \notin live
     /\ Mark(t, Got(h))
     /\ map' = [map EXCEPT ![c] = [p \in UPages |->
                  IF p \in DOMAIN h THEN [map[t][p] EXCEPT !.frame = h[p]]
                                    ELSE NoPage]]
     /\ mem' = duplicate(h, pages, t)
     /\ live' = live \cup {c}
     /\ prog' = [prog EXCEPT ![c] = [prog[t] EXCEPT !.execs = 0]]
     /\ UNCHANGED <<kernel, call, loop, found, hung, ops>>

-----------------------------------------------------------------------------
\* A page of the kernel heap: kmalloc_base for a page table, which a task may
\* be preempted in ...
kernel_look(t) ==
  /\ call[t] = NoCall /\ ~hung /\ t \in live
  /\ Cardinality(kernel) < KERNEL + MaxKernel /\ Free # {}
  /\ found' = [found EXCEPT ![t] = First]
  /\ call' = [call EXCEPT ![t].step = "kernel"]
  /\ UNCHANGED <<loop, g_frames, kernel, map, mem, live, prog, raced, hung, ops>>

kernel_take(t) ==
  /\ call[t].step = "kernel" /\ ~hung
  /\ Mark(t, {found[t]})
  /\ kernel' = kernel \cup {found[t]}
  /\ found' = [found EXCEPT ![t] = 0]
  /\ Return(t)
  /\ UNCHANGED <<map, mem, live, prog, hung, ops>>
=============================================================================
