------------------------------ MODULE MCTree --------------------------------
\* VfsTree with a disk of three directories, one of them empty but for its dots,
\* and with one whose entries were in part deleted.
EXTENDS VfsTree, TLC

CONSTANTS t1, t2

MCTasks == {t1, t2}
Symmetry == Permutations(MCTasks)
MCHome == <<"e">>
MCRest == "ad" :> "d" @@ "d" :> "" @@ "a" :> ""
E(name, ino, reclen) == [name |-> name, ino |-> ino, reclen |-> reclen]
Whole == 2 :> <<E(".", 2, 1), E("d", 3, 1), E("a", 4, 2), E("e", 5, 1)>>
         @@ 3 :> <<E(".", 3, 1), E("..", 2, 1), E("a", 6, 1)>>
         @@ 5 :> <<E(".", 5, 1)>>
Holes == 2 :> <<E(".", 2, 1), E("d", 3, 1), E("a", 0, 1), E("e", 5, 2)>>
         @@ 3 :> <<E(".", 3, 1), E("..", 2, 1), E("a", 4, 1)>>
         @@ 5 :> <<E(".", 5, 1)>>
MCDirs == {Whole, Holes}

P(abs, names) == [abs |-> abs, names |-> names]
MCPaths == {P(TRUE, <<>>), P(TRUE, <<"d">>), P(TRUE, <<"d", "a">>),
            P(TRUE, <<"d", "b">>), P(FALSE, <<"ad", "b">>)}
=============================================================================
