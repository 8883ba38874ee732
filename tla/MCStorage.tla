----------------------------- MODULE MCStorage ------------------------------
\* FileIO with two small files, whose inodes share a sector.  The first has a
\* direct block, a full single indirect block and two blocks in the double
\* indirect one; the second has one block.  In some images, pointers are missing
\* from the run of blocks, also at the borders of the indirect block.
EXTENDS FileIO, TLC

CONSTANTS p1, p2, f1, f2

MCFiles == {f1, f2}
Symmetry == Permutations(Procs)

Row(w) == [i \in 0..4 |-> w[i + 1]]
Zeros == Row(<<0, 0, 0, 0, 0>>)
Without(gap) ==
  [list |-> f1 :> [k \in 1..8 |-> 9 + k] @@ f2 :> <<18>>,
   direct |-> f1 :> [i \in {0} |-> 10] @@ f2 :> [i \in {0} |-> 18],
   single |-> f1 :> 20 @@ f2 :> 0,
   double |-> f1 :> 21 @@ f2 :> 0,
   ptr |-> 0 :> Zeros @@ 21 :> Row(<<22, 0, 0, 0, 0>>) @@ 22 :> Row(<<16, 17, 0, 0, 0>>)
           @@ 20 :> [i \in 0..4 |-> IF i \in gap THEN 0 ELSE 11 + i]]
MCTables == 0 :> 30 @@ 1 :> 40
MCImages == {Without(gap) : gap \in {{}, {1}, {1, 2}, {2, 3}, {0}, {4}, {0, 1}, {3, 4}}}
MCDisks == {Without({1, 2})}
MCInode == f1 :> 1 @@ f2 :> 2

\* What lies beside a buffer: words that match nothing, and words that match
\* pointers of the images or the zeros of missing ones, by wrapping too.
Words(left, right) == [i \in Beside |-> IF i < 0 THEN left[-i] ELSE right[i - POINTERS + 1]]
MCStrays == {Words(l, r) : l \in {0, 7, 9, 10, 253, 254} \X {0, 9, 253},
                           r \in {0, 2, 3, 16, 17} \X {0, 3, 16, 17}}
MCHeap == {Words(<<10, 9>>, <<16, 0>>)}
=============================================================================
