------------------------------ MODULE Programs ------------------------------
(***************************************************************************)
(* Programs on top of Paging: execve loads the segments of an ELF file and *)
(* makes a user stack, programs write to their memory, page faults fill    *)
(* gaps in it, sbrk makes it larger.                                       *)
(*                                                                         *)
(* A program header is [load, vaddr, memsize, filesize, rw]; byte i of     *)
(* header k in the file of image m is FileByte(m, k, i).                   *)
(***************************************************************************)
EXTENDS Paging

FileByte(m, k, i) == <<m, k, i>>
End(h) == h.vaddr + h.memsize
\* The byte that header k of image m wants at address a.
Wanted(m, k, a) == LET h == Images[m][k]
                   IN IF a < h.vaddr + h.filesize THEN FileByte(m, k, a - h.vaddr)
                                                  ELSE Zero

-----------------------------------------------------------------------------
\* zero_page does not zero the page.
zero_page(t, p, user) == alloc_frame(t, {p}, user, user) /\ UNCHANGED hung

\* is_addr_in_heap gives the first heap made for the address: that of Main's
\* stacks, which is the kernel's.
InStackHeap(a) == a \div PAGE < PROGRAMS

\* page_fault, for a page that is not present.
page_fault(t, a) ==
  IF InStackHeap(a) THEN zero_page(t, a \div PAGE, FALSE)
  ELSE IF a >= prog[t].start /\ a <= prog[t].brk
    THEN zero_page(t, a \div PAGE, prog[t].ring = 3)
    ELSE hung' = TRUE /\ UNCHANGED <<g_frames, map, raced>>

-----------------------------------------------------------------------------
\* _execve, up to the first program header.  elf_check_support has accepted
\* the file; one that it rejects changes nothing.
execve(t, m) ==
  /\ call[t] = NoCall /\ ~hung /\ t \in live /\ prog[t].execs < MaxExecs
  /\ ops < MaxOps /\ ops' = ops + 1
  /\ call' = [call EXCEPT ![t].step = "header", ![t].image = m, ![t].k = 1]
  /\ UNCHANGED <<loop, g_frames, kernel, map, mem, live, prog, found, raced, hung>>

Loading(t, step) == call[t].step = step /\ ~hung
\* The header that is being loaded.
Header(t) == Images[call[t].image][call[t].k]
InTable(t) == call[t].k <= Len(Images[call[t].image])
Proceed(t) ==
  /\ call' = [call EXCEPT ![t].step = "header", ![t].k = @ + 1, ![t].rw = FALSE]
  /\ loop' = [loop EXCEPT ![t] = NoLoop]

\* A header that is not to be loaded, and one that cannot be: execve returns
\* to the program, whose memory the headers before have changed.
skip_header(t) ==
  /\ Loading(t, "header") /\ InTable(t)
  /\ Header(t).filesize <= Header(t).memsize /\ ~Header(t).load
  /\ Proceed(t)
  /\ UNCHANGED <<g_frames, kernel, map, mem, live, prog, found, raced, hung, ops>>

bad_header(t) ==
  /\ Loading(t, "header") /\ InTable(t) /\ Header(t).filesize > Header(t).memsize
  /\ Return(t)
  /\ UNCHANGED <<g_frames, kernel, map, mem, live, prog, found, raced, hung, ops>>

\* _elf_load_pheader: map_mem begins.
map_header(t) ==
  /\ Loading(t, "header") /\ InTable(t)
  /\ Header(t).filesize <= Header(t).memsize /\ Header(t).load
  /\ call' = [call EXCEPT ![t].step = "alloc", ![t].rw = Header(t).rw]
  /\ loop' = [loop EXCEPT ![t] = [at |-> Header(t).vaddr, end |-> End(Header(t))]]
  /\ UNCHANGED <<g_frames, kernel, map, mem, live, prog, found, raced, hung, ops>>

\* The pages that hold the bytes from start to end - 1.
Covered(start, end) ==
  {p \in UPages : p >= start \div PAGE /\ p * PAGE < end}
\* What memset and vfs_read, which write to the bytes of the header, find.
Missing(t) == WithoutFrame(t, Covered(Header(t).vaddr, End(Header(t))))

\* map_mem is done.
Filling(t) == Loading(t, "alloc") /\ found[t] = 0 /\ ~call[t].sbrk
              /\ loop[t].at >= loop[t].end

\* They fault on the first page that is not there ...
fill_fault(t) ==
  /\ Filling(t) /\ Missing(t) # {}
  /\ LET p == CHOOSE q \in Missing(t) : \A r \in Missing(t) : q <= r
         a == IF p * PAGE < Header(t).vaddr THEN Header(t).vaddr ELSE p * PAGE
     IN page_fault(t, a)
  /\ UNCHANGED <<kernel, mem, live, prog, call, loop, found, ops>>

\* ... and then write, the file's bytes and zeros.
Filled(t, first, last) ==
  [f \in Frames |-> [i \in 0..PAGE - 1 |->
     LET here == {a \in first..last :
                    a % PAGE = i /\ map[t][a \div PAGE].frame = f}
     IN IF here = {} THEN mem[f][i]
        ELSE Wanted(call[t].image, call[t].k, CHOOSE a \in here : TRUE)]]

\* Mutant of fill_header: what the file does not have is left as it is.
fill_header_file(t) ==
  /\ Filling(t) /\ Missing(t) = {}
  /\ mem' = Filled(t, Header(t).vaddr, Header(t).vaddr + Header(t).filesize - 1)
  /\ Proceed(t)
  /\ UNCHANGED <<g_frames, kernel, map, live, prog, found, raced, hung, ops>>

fill_header(t) ==
  /\ Filling(t) /\ Missing(t) = {}
  /\ mem' = Filled(t, Header(t).vaddr, End(Header(t)) - 1)
  /\ Proceed(t)
  /\ UNCHANGED <<g_frames, kernel, map, live, prog, found, raced, hung, ops>>

\* The end of _elf_loop_over_program_table; all headers count.
Least(S) == CHOOSE a \in S : \A b \in S : a <= b
Greatest(S) == CHOOSE a \in S : \A b \in S : a >= b
Headers(m) == {Images[m][k] : k \in 1..Len(Images[m])}
Start(m) == Least({h.vaddr : h \in Headers(m)})
Top(m) == Greatest({End(h) : h \in Headers(m)})

program_break(t) ==
  /\ Loading(t, "header") /\ ~InTable(t)
  /\ LET m == call[t].image
     IN /\ prog' = [prog EXCEPT ![t].image = m, ![t].start = Start(m),
                                ![t].brk = Top(m)]
        /\ call' = [call EXCEPT ![t].step = "stack", ![t].k = 0]
  /\ UNCHANGED <<loop, g_frames, kernel, map, mem, live, found, raced, hung, ops>>

-----------------------------------------------------------------------------
\* kmalloc_gen_base on the task's stack heap, from which nothing is freed: the
\* page with the header of the block, and the block, STACK pages after it.
BlockHeader(n) == SHEAP + n * (STACK + 1)
\* stack_alloc: the stack is behind the block.
StackPage(n) == BlockHeader(n) + 1 + STACK

\* initialize_mem: `start < start + size` is true up to the end of memory, so
\* all pages from the first get a frame, up to one that has one.
Unbroken(t, first) ==
  {p \in UPages : p >= first /\ \A q \in first..p : map[t][q].frame = 0}

\* set_user_stack and jump_userspace, with interrupts off.
set_user_stack(t) ==
  LET n == prog[t].execs
      header == WithoutFrame(t, {BlockHeader(n)})
      stack == Unbroken(t, StackPage(n))
      h == Handed(header \cup stack)
  IN /\ Loading(t, "stack")
     /\ header \subseteq DOMAIN h
     /\ Mark(t, Got(h))
     /\ map' = [map EXCEPT ![t] = [p \in UPages |->
                  IF p \in DOMAIN h
                    THEN [frame |-> h[p], user |-> p \in stack, rw |-> p \in stack]
                    ELSE map[t][p]]]
     /\ prog' = [prog EXCEPT ![t].ring = 3, ![t].execs = n + 1,
                             ![t].stack = StackPage(n)]
     /\ Return(t)
     /\ UNCHANGED <<kernel, mem, live, found, hung, ops>>

\* sys_sbrk, from a program: the loop begins ...
sys_sbrk(t, incr) ==
  LET brk == prog[t].brk
  IN /\ call[t] = NoCall /\ ~hung /\ t \in live /\ prog[t].ring = 3
     /\ brk + incr \in Top(prog[t].image)..MaxBreak
     /\ ops < MaxOps /\ ops' = ops + 1
     /\ call' = [call EXCEPT ![t].step = "alloc", ![t].sbrk = TRUE, ![t].rw = TRUE]
     /\ loop' = [loop EXCEPT ![t] = [at |-> brk, end |-> brk + incr]]
     /\ UNCHANGED <<g_frames, kernel, map, mem, live, prog, found, raced, hung>>

\* ... and is done.
sbrk_done(t) ==
  /\ Loading(t, "alloc") /\ found[t] = 0 /\ call[t].sbrk /\ loop[t].at >= loop[t].end
  /\ prog' = [prog EXCEPT ![t].brk = loop[t].end]
  /\ Return(t)
  /\ UNCHANGED <<g_frames, kernel, map, mem, live, found, raced, hung, ops>>

-----------------------------------------------------------------------------
\* The addresses that a program may write to: its writable segments, what is
\* below its break and not in a segment of the file, and its stack.
InHeader(h, a) == h.load /\ a \in h.vaddr..End(h) - 1
Writable(t) ==
  LET at(a) == {h \in Headers(prog[t].image) : InHeader(h, a)}
  IN {a \in Addresses :
        \/ at(a) # {} /\ \A h \in at(a) : h.rw
        \/ a \in Top(prog[t].image)..prog[t].brk - 1
        \/ a \div PAGE \in prog[t].stack..prog[t].stack + STACK - 1}

\* The program writes to address a.
Present(t, a) == map[t][a \div PAGE].frame # 0
Allowed(t, a) == map[t][a \div PAGE].user /\ map[t][a \div PAGE].rw

write(t, a) ==
  /\ call[t] = NoCall /\ ~hung /\ t \in live /\ prog[t].ring = 3
  /\ ops < MaxOps /\ a \in Writable(t)
  /\ Present(t, a) /\ Allowed(t, a)
  /\ mem' = [mem EXCEPT ![map[t][a \div PAGE].frame][a % PAGE] = Data(t)]
  /\ ops' = ops + 1
  /\ UNCHANGED <<g_frames, kernel, map, live, prog, call, loop, found, raced, hung>>

\* It is interrupted by page_fault, because the page is not present or not its.
write_fault(t, a) ==
  /\ call[t] = NoCall /\ ~hung /\ t \in live /\ prog[t].ring = 3
  /\ ops < MaxOps /\ a \in Writable(t)
  /\ ~(Present(t, a) /\ Allowed(t, a))
  /\ IF Present(t, a) THEN hung' = TRUE /\ UNCHANGED <<g_frames, map, raced>>
                       ELSE page_fault(t, a)
  /\ UNCHANGED <<kernel, mem, live, prog, call, loop, found, ops>>

Loader(t) == \/ skip_header(t) \/ bad_header(t) \/ map_header(t)
             \/ fill_fault(t) \/ fill_header(t)
             \/ program_break(t) \/ set_user_stack(t)
Alloc(t) == \/ look(t) \/ take(t) \/ reflag(t) \/ no_memory(t)
            \/ kernel_look(t) \/ kernel_take(t)

Next == \E t \in Tasks :
          \/ Loader(t) \/ Alloc(t) \/ sbrk_done(t)
          \/ \E c \in Tasks : fork(t, c)
          \/ \E m \in DOMAIN Images : execve(t, m)
          \/ \E i \in Increments : sys_sbrk(t, i)
          \/ \E a \in Addresses : write(t, a) \/ write_fault(t, a)

Spec == Init /\ [][Next]_vars

-----------------------------------------------------------------------------
PageType == [frame: Frames, user: BOOLEAN, rw: BOOLEAN]
CallType ==
  [step: {"none", "kernel", "header", "alloc", "stack"},
   image: DOMAIN Images \cup {"none"}, k: Nat, sbrk: BOOLEAN, rw: BOOLEAN]
TypeOK ==
  /\ g_frames \subseteq Frames /\ kernel \subseteq Frames
  /\ map \in [Tasks -> [UPages -> PageType]]
  /\ call \in [Tasks -> CallType]
  /\ found \in [Tasks -> Frames]
  /\ DOMAIN mem = Frames /\ live \subseteq Tasks
  /\ hung \in BOOLEAN /\ raced \in BOOLEAN

\* No frame is in two places: two pages, of one task or of two, that have a
\* frame have different ones, and none of the kernel's.
NoSharedFrame ==
  /\ \A t, u \in Tasks, p, q \in UPages :
       map[t][p].frame # 0 /\ map[t][p].frame = map[u][q].frame
         => t = u /\ p = q
  /\ \A t \in Tasks, p \in UPages :
       map[t][p].frame # 0 => map[t][p].frame \notin kernel

\* The one way to a frame in two places is that alloc_frame handed a frame out
\* between the look and the mark of another task in alloc_frame.
SharedOnlyByRace == ~raced => NoSharedFrame

\* What a task sees of its memory.
Space(t) ==
  [a \in {b \in SHEAP * PAGE..LAST * PAGE + PAGE - 1 : Present(t, b)} |->
     mem[map[t][a \div PAGE].frame][a % PAGE]]
A == INSTANCE AddressSpaces WITH space <- [t \in Tasks |-> Space(t)]

\* Paging keeps the memories of tasks apart, up to the first such race: fork,
\* execve, sbrk and page faults are steps of separate address spaces.
SeparateSpaces ==
  A!Init /\ [][~raced' => A!Next]_<<live, [t \in Tasks |-> Space(t)]>>

\* fork gives the child every page of its parent, with its contents and flags,
\* if there are frames enough, whatever other tasks are in the middle of.
ForkCopies ==
  [][\A t, c \in Tasks :
       fork(t, c) /\ Cardinality({p \in UPages : map[t][p].frame # 0})
                       <= Cardinality(Free)
         => /\ \A p \in UPages :
                 /\ map'[c][p].user = map[t][p].user
                 /\ map'[c][p].rw = map[t][p].rw
            /\ Space(c)' = Space(t)']_vars

\* execve has loaded all segments when it jumps to the program: each byte is the
\* file's, or zero, whatever the pages held before and however segments share
\* them.
ExecLoads ==
  \A t \in Tasks : call[t].step = "stack" /\ ~raced =>
    \A k \in 1..Len(Images[call[t].image]) :
      LET h == Images[call[t].image][k]
      IN h.load => \A a \in h.vaddr..End(h) - 1 :
                     /\ a \in DOMAIN Space(t)
                     /\ Space(t)[a] = Wanted(call[t].image, k, a)

\* As long as there are frames, a program that keeps to its segments, its
\* break and its stack is not killed, and neither is execve.
NotKilled == Free # {} => ~hung
=============================================================================
