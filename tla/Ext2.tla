-------------------------------- MODULE Ext2 --------------------------------
(***************************************************************************)
(* Where the blocks of a file are, fs/ext2/ext2.c: direct pointers, a      *)
(* single and a double indirect block, and the guess at pointers that are  *)
(* missing.  Block 0 stands for none.  Blocks are named by their pointers: *)
(* the offsets in bytes that the code computes of them fit its 32 bits.    *)
(*                                                                         *)
(* An image has, for each file f, the blocks it consists of (list), and    *)
(* what the driver finds of them: the pointers of the inode and the        *)
(* contents of the pointer blocks (ptr).                                   *)
(***************************************************************************)
EXTENDS Integers, Sequences, FiniteSets

CONSTANTS BLOCK,       \* block_size in bytes
          POINTERS,    \* pointers in a block
          DIRECT,      \* EXT2_DIRECT_BLOCK_POINTER_AMOUNT, 12
          Files,       \* the files of an image
          INODE,       \* inode_size
          GROUP,       \* inodes_in_blockgroup
          Tables,      \* start_inode_table of the block groups, from 0
          Images,      \* the images a disk may hold
          UINT,        \* 2^32, the width of a pointer
          Strays       \* what may lie beside a buffer in the heap

\* The words beside a buffer that the guess at a missing pointer may read.
Beside == {-2, -1, POINTERS, POINTERS + 1}

ASSUME Ext2Assumption ==
  /\ {BLOCK, POINTERS, DIRECT, INODE, GROUP, UINT} \subseteq Nat \ {0}
  /\ BLOCK % INODE = 0
  /\ Strays \subseteq [Beside -> Nat]
  /\ \A im \in Images : \A f \in Files :
       /\ im.list[f] \in Seq(Nat \ {0})
       /\ \A j, k \in DOMAIN im.list[f] : im.list[f][j] = im.list[f][k] => j = k
       /\ im.direct[f] \in [0..DIRECT - 1 -> Nat]
       /\ {im.single[f], im.double[f], 0} \subseteq DOMAIN im.ptr

\* The blocks a file consists of: what data_offset should say.
Intended(im, f, k) == IF k < Len(im.list[f]) THEN im.list[f][k + 1] ELSE 0

-----------------------------------------------------------------------------
\* A word of the buffer that handle_indirect_bp has read, or one beside it.
Word(im, block, i, stray) ==
  IF i \in 0..POINTERS - 1 THEN im.ptr[block][i] ELSE stray[i]

\* Pointer x is the n-th after pointer y of a run.
Follows(x, y, n) == x = (y + n) % UINT

\* Mutant of handle_indirect_bp: the second of two missing pointers is taken
\* for the first.
handle_indirect_bp_first(im, block, i, stray) ==
  LET bp(j) == Word(im, block, j, stray)
  IN IF bp(i) # 0 THEN bp(i)
     ELSE IF bp(i + 1) # 0 \/ bp(i + 2) # 0
       THEN IF Follows(bp(i + 1), bp(i - 1), 2) \/ Follows(bp(i + 2), bp(i - 1), 3)
              THEN (bp(i - 1) + 1) % UINT
              ELSE IF Follows(bp(i + 1), bp(i - 2), 3) THEN (bp(i - 2) + 1) % UINT
                   ELSE 0
       ELSE 0

\* handle_indirect_bp
handle_indirect_bp(im, block, i, stray) ==
  LET bp(j) == Word(im, block, j, stray)
  IN IF bp(i) # 0 THEN bp(i)
     ELSE IF bp(i + 1) # 0 \/ bp(i + 2) # 0
       THEN IF Follows(bp(i + 1), bp(i - 1), 2) \/ Follows(bp(i + 2), bp(i - 1), 3)
              THEN (bp(i - 1) + 1) % UINT
              ELSE IF Follows(bp(i + 1), bp(i - 2), 3) THEN (bp(i - 2) + 2) % UINT
                   ELSE 0
       ELSE 0

\* _ext2_get_inode_data_offset.  The double indirect block is used up to
\* POINTERS ^ 2 blocks, not counting that the single one comes before it;
\* triple indirect blocks are not supported.
data_offset(im, f, k, stray) ==
  CASE k < DIRECT -> im.direct[f][k]
    [] k >= DIRECT /\ k < POINTERS + DIRECT ->
         handle_indirect_bp(im, im.single[f], k - DIRECT, stray)
    [] k >= POINTERS + DIRECT /\ k < POINTERS * POINTERS + DIRECT ->
         LET j == k - POINTERS - DIRECT
             block == Word(im, im.double[f], j \div POINTERS, stray)
         IN IF im.double[f] = 0 \/ block = 0 THEN 0
            ELSE handle_indirect_bp(im, block, j % POINTERS, stray)
    [] OTHER -> 0

\* _ext2_get_inode_offset, of inodes that are counted from 1.
inode_offset(inode) ==
  LET blockgroup == (inode - 1) \div GROUP
      index == (inode - 1) % GROUP
      containing_block == (index * INODE) \div BLOCK
  IN (Tables[blockgroup] + containing_block) * BLOCK
     + (index % (BLOCK \div INODE)) * INODE

-----------------------------------------------------------------------------
\* Where the pointer to block k of f is: the pointer block, and the index in it.
Indirect(k) == k \in DIRECT..POINTERS * POINTERS + DIRECT - 1
Slot(im, f, k) ==
  LET j == k - POINTERS - DIRECT
  IN IF k < POINTERS + DIRECT THEN <<im.single[f], k - DIRECT>>
     ELSE <<im.ptr[im.double[f]][j \div POINTERS], j % POINTERS>>

\* The pointer is missing, and so are all before it or all after it in its block.
Lost(im, f, k) ==
  LET word == im.ptr[Slot(im, f, k)[1]]
      i == Slot(im, f, k)[2]
  IN Indirect(k) /\ (\/ \A j \in 0..i : word[j] = 0
                     \/ \A j \in i..POINTERS - 1 : word[j] = 0)

\* A word beside the buffer happens to continue the run around a missing pointer.
Misled(im, f, k, stray) ==
  LET i == Slot(im, f, k)[2]
      bp(j) == Word(im, Slot(im, f, k)[1], j, stray)
  IN Indirect(k) /\ bp(i) = 0 /\
     \E g \in {<<i + 1, i - 1, 2>>, <<i + 2, i - 1, 3>>, <<i + 1, i - 2, 3>>} :
       /\ {g[1], g[2]} \cap Beside # {}
       /\ Follows(bp(g[1]), bp(g[2]), g[3])

\* The driver finds every block of every file, also where one or two pointers
\* are missing from a run of blocks, and none after the last, with two
\* exceptions.  A pointer that is missing with all before or after it in its
\* block may stay missing; it is not taken for another.  And the guess reads
\* words beside its buffer: one that happens to continue the run misleads it.
BlocksFound(im) ==
  \A f \in Files, stray \in Strays, k \in 0..POINTERS * POINTERS + DIRECT :
    \/ data_offset(im, f, k, stray) = Intended(im, f, k)
    \/ data_offset(im, f, k, stray) = 0 /\ Lost(im, f, k)
    \/ Misled(im, f, k, stray)

\* An inode is at its place in the table of its block group: the tables are
\* filled without holes, and no two inodes share a byte.
InodesFound ==
  \A g \in DOMAIN Tables, i \in 0..GROUP - 1 :
    inode_offset(g * GROUP + i + 1) = Tables[g] * BLOCK + i * INODE
=============================================================================
