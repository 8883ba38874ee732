-------------------------------- MODULE Heap --------------------------------
(***************************************************************************)
(* The kernel heap: kernel/mm/linkedlist.c behind kernel/mm/heap.c.        *)
(*                                                                         *)
(* A block is a header (struct ll_node, HDR bytes) followed by its payload.*)
(* The two lists of blocks are sequences in list order: `used` in order of *)
(* allocation, `free` by size.  A block is the record of its header's      *)
(* address and its payload's size; the payload starts at addr + HDR.       *)
(*                                                                         *)
(* Addresses and sizes are 32-bit in the code.  MEMSTART, MAXSIZE and the  *)
(* largest request add up to less than 2^32 for the heaps the kernel       *)
(* creates, so no sum below wraps and no "% 2^32" is written.              *)
(***************************************************************************)
EXTENDS Integers, Sequences, SequencesExt

CONSTANTS HDR,           \* sizeof(struct ll_node)
          NODESIZE_MAX,  \* smallest payload (sic), linkedlist.h
          PAGE,          \* 0x1000
          MEMSTART,      \* list->memstart
          MAXSIZE,       \* list->maxsize
          REQUESTS       \* sizes callers pass to kmalloc_base

\* Sizes are numbers, headers are not empty, and a page holds two headers and
\* a smallest payload (0x1000 against 2*12 + 32).
ASSUME HeapAssumption ==
  /\ HDR \in Nat \ {0}
  /\ NODESIZE_MAX \in Nat
  /\ PAGE \in Nat
  /\ PAGE >= 2 * HDR + NODESIZE_MAX
  /\ MEMSTART \in Nat
  /\ MAXSIZE \in Nat
  /\ REQUESTS \subseteq Nat

VARIABLES used,      \* list->start_used and its next pointers
          free,      \* list->start_free and its next pointers
          cursize,   \* list->cursize
          errno      \* the kernel's errno: none, or the last error of the heap

lists == <<used, free, cursize>>
vars == <<used, free, cursize, errno>>

BlockType == [addr : Nat, size : Nat]

Block(a, n) == [addr |-> a, size |-> n]

Blocks == ToSet(used) \union ToSet(free)

End(b) == b.addr + HDR + b.size

\* The address after the last block: memstart + cursize.
HeapEnd == MEMSTART + cursize

-----------------------------------------------------------------------------
\* create_linkedlist: both lists empty, nothing of the region in use.
Init == /\ used = << >>
        /\ free = << >>
        /\ cursize = 0
        /\ errno = "none"

\* The position add_to_free inserts at: before the first block that is larger.
InsertPos(s, b) ==
  IF \E i \in 1..Len(s) : s[i].size > b.size
    THEN CHOOSE i \in 1..Len(s) : /\ s[i].size > b.size
                                  /\ \A j \in 1..(i-1) : s[j].size <= b.size
    ELSE Len(s) + 1

\* Mutant of add_to_free: always at the end, as add_to_used does.
add_to_free_last(s, b) == Append(s, b)

add_to_free(s, b) == InsertAt(s, InsertPos(s, b), b)

\* Mutant of Fits: the payload's alignment is not looked at.
Fits_unaligned(i, n, align) == free[i].size >= n

\* Is free[i] taken by a search for n bytes?  An aligned search only takes a
\* block whose payload already starts on a page.
Fits(i, n, align) == /\ free[i].size >= n
                     /\ align => (free[i].addr + HDR) % PAGE = 0

FirstFit(i, n, align) == /\ Fits(i, n, align)
                         /\ \A j \in 1..(i-1) : ~Fits(j, n, align)

\* Mutant of TakeWhole: add_to_used forgets the list it appends to.
TakeWhole_lost(i, n) ==
  /\ free[i].size - n < NODESIZE_MAX + HDR
  /\ used' = <<free[i]>>
  /\ free' = RemoveAt(free, i)
  /\ UNCHANGED <<cursize, errno>>

\* perfect_fit, and split_fit when the rest cannot hold a block of its own:
\* mark_used moves the whole block.
TakeWhole(i, n) ==
  /\ free[i].size - n < NODESIZE_MAX + HDR
  /\ used' = Append(used, free[i])
  /\ free' = RemoveAt(free, i)
  /\ UNCHANGED <<cursize, errno>>

\* split_fit: the rest becomes a free block behind the n bytes handed out.
TakeSplit(i, n) ==
  LET b == free[i]
      rest == Block(b.addr + n + HDR, b.size - (n + HDR))
  IN /\ b.size - n >= NODESIZE_MAX + HDR
     /\ used' = Append(used, Block(b.addr, n))
     /\ free' = add_to_free(RemoveAt(free, i), rest)
     /\ UNCHANGED <<cursize, errno>>

\* expand_heap without alignment: one block behind the last one.
ExpandPlain(n) ==
  /\ cursize + n + HDR <= MAXSIZE
  /\ used' = Append(used, Block(HeapEnd, n))
  /\ cursize' = cursize + n + HDR
  /\ UNCHANGED <<free, errno>>

next_page_address(mem) == (mem - (mem % PAGE)) + PAGE

AlignOffset == next_page_address(HeapEnd) - HeapEnd

\* Mutant of expand_heap_align_split: one of the two headers is forgotten.
expand_heap_align_split_header(n, offset) ==
  /\ free' = add_to_free(free, Block(HeapEnd, offset - HDR))
  /\ used' = Append(used, Block(HeapEnd + offset - HDR, n))
  /\ cursize' = cursize + offset + n
  /\ UNCHANGED errno

\* expand_heap_align_split: a free block up to the page, then the block whose
\* payload starts there.
expand_heap_align_split(n, offset) ==
  /\ free' = add_to_free(free, Block(HeapEnd, offset - 2 * HDR))
  /\ used' = Append(used, Block(HeapEnd + offset - HDR, n))
  /\ cursize' = cursize + offset + n
  /\ UNCHANGED errno

\* expand_heap with alignment.  The bound is checked for the next page even
\* when the page after that one is used.
ExpandAligned(n) ==
  /\ AlignOffset + n + cursize <= MAXSIZE
  /\ \/ /\ AlignOffset >= 2 * HDR + NODESIZE_MAX
        /\ expand_heap_align_split(n, AlignOffset)
     \/ /\ AlignOffset < 2 * HDR + NODESIZE_MAX
        /\ AlignOffset = HDR
        /\ used' = Append(used, Block(HeapEnd, n))
        /\ cursize' = cursize + n + AlignOffset
        /\ UNCHANGED <<free, errno>>
     \/ /\ AlignOffset < 2 * HDR + NODESIZE_MAX
        /\ AlignOffset # HDR
        /\ expand_heap_align_split(n, AlignOffset + PAGE)

\* No room: errno is set and NULL returned.  get_free still hands the NULL to
\* add_to_used, whose writes through it go to low memory and leave the lists
\* as they are.
OutOfMemory(n, align) ==
  /\ IF align THEN AlignOffset + n + cursize > MAXSIZE
              ELSE cursize + n + HDR > MAXSIZE
  /\ errno' = "ENOMEM"
  /\ UNCHANGED lists

expand_heap(n, align) == \/ align /\ ExpandAligned(n)
                         \/ ~align /\ ExpandPlain(n)
                         \/ OutOfMemory(n, align)

\* get_free raises small requests to the smallest payload.
SearchSize(size) == IF size < NODESIZE_MAX THEN NODESIZE_MAX ELSE size

\* get_free: first fit in the free list, else a new block at the end.
get_free(size, align) ==
  LET n == SearchSize(size)
  IN \/ \E i \in 1..Len(free) : /\ FirstFit(i, n, align)
                                /\ TakeWhole(i, n) \/ TakeSplit(i, n)
     \/ /\ \A i \in 1..Len(free) : ~Fits(i, n, align)
        /\ expand_heap(n, align)

\* free_node: the block is looked up on the used list and moved to the free
\* list; an address that is not there is refused.
free_node(addr) ==
  \/ \E i \in 1..Len(used) :
        /\ used[i].addr = addr
        /\ used' = RemoveAt(used, i)
        /\ free' = add_to_free(free, used[i])
        /\ UNCHANGED <<cursize, errno>>
  \/ /\ \A i \in 1..Len(used) : used[i].addr # addr
     /\ errno' = "EFAULT"
     /\ UNCHANGED lists

\* Callers free addresses they were once given, twice at times.
Next == \/ \E size \in REQUESTS, align \in BOOLEAN : get_free(size, align)
        \/ \E b \in Blocks : free_node(b.addr)

Spec == Init /\ [][Next]_vars

-----------------------------------------------------------------------------
\* The heap's variables have their types.
TypeOK == /\ used \in Seq(BlockType)
          /\ free \in Seq(BlockType)
          /\ cursize \in Nat
          /\ errno \in {"none", "ENOMEM", "EFAULT"}

\* No list holds a block twice, and no block is on both lists: mark_used and
\* mark_free move a block, they never copy it.
ListsApart == /\ \A i, j \in 1..Len(used) : used[i] = used[j] => i = j
              /\ \A i, j \in 1..Len(free) : free[i] = free[j] => i = j
              /\ ToSet(used) \intersect ToSet(free) = {}

\* Header and payload of two blocks never share a byte, however blocks were
\* split, reused and expanded.
NoOverlap == \A b, c \in Blocks :
               b # c => End(b) <= c.addr \/ End(c) <= b.addr

\* Nothing of the heap is lost: every block ends where another starts, or at
\* memstart + cursize, and starts where another ends, or at memstart.
NoGap == /\ HeapEnd = MEMSTART \/ \E c \in Blocks : End(c) = HeapEnd
         /\ \A b \in Blocks :
              /\ b.addr = MEMSTART \/ \E c \in Blocks : End(c) = b.addr
              /\ End(b) = HeapEnd \/ \E c \in Blocks : End(b) = c.addr

\* Every block lies between memstart and memstart + cursize and can hold the
\* smallest payload.
InBounds == \A b \in Blocks : /\ b.addr >= MEMSTART
                              /\ End(b) <= HeapEnd
                              /\ b.size >= NODESIZE_MAX

\* The blocks tile the heap.
Tiling == NoOverlap /\ NoGap /\ InBounds

SortedBySize(s) == \A i, j \in 1..Len(s) : i < j => s[i].size <= s[j].size

\* The free list stays sorted by size, which makes first fit a best fit.
FreeSorted == SortedBySize(free)

\* A block handed out keeps its address and its size until it is freed: no
\* call moves, shrinks or reuses it.
KeptUntilFreed ==
  [][\A b \in ToSet(used) :
        \/ b \in ToSet(used')
        \/ b \in ToSet(free') /\ ToSet(used') = ToSet(used) \ {b}]_vars

\* A page-aligned request gets a payload that starts on a page, whether it is a
\* block of the free list or one of the three ways to expand the heap.
AlignedWhenAsked ==
  [][\A size \in REQUESTS : get_free(size, TRUE) =>
        \A b \in ToSet(used') \ ToSet(used) : (b.addr + HDR) % PAGE = 0]_vars

\* The payloads in use, as an allocator's client sees them.
Live == {[start |-> b.addr + HDR, size |-> b.size] : b \in ToSet(used)}

A == INSTANCE Allocator WITH live <- Live

\* The heap implements the abstract allocator: get_free hands out memory that
\* is apart from every live allocation, free_node
\* gives exactly that allocation back.
ImplementsAllocator == A!Spec
=============================================================================
