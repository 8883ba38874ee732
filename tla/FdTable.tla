------------------------------ MODULE FdTable ------------------------------
(***************************************************************************)
(* What file descriptors promise a program, with nothing said of vectors:  *)
(* each task has a table from small numbers to open files.  An open takes  *)
(* the lowest number that is free, a duplicate opens the same file, every  *)
(* other number keeps its file, and no task changes another's table.       *)
(***************************************************************************)
EXTENDS Naturals

CONSTANTS Nodes,        \* the files
          FLAGS         \* the flag words of open and fcntl

VARIABLE table          \* table[t][fd] is what fd is open on in task t

OpenFile == [node : Nodes, flags : FLAGS]

Put(f, fd, e) == [i \in DOMAIN f \union {fd} |-> IF i = fd THEN e ELSE f[i]]
Without(f, S) == [i \in DOMAIN f \ S |-> f[i]]
Lowest(f, fd) == fd \notin DOMAIN f /\ \A i \in 0..(fd - 1) : i \in DOMAIN f

\* Task t's table becomes f.
Becomes(t, f) == table' = [table EXCEPT ![t] = f]

Init == \E t \in DOMAIN table : table = [u \in {t} |-> [i \in {} |-> 0]]

Open(t) == \E fd \in DOMAIN table'[t], e \in OpenFile :
             Lowest(table[t], fd) /\ Becomes(t, Put(table[t], fd, e))

\* dup, dup2 and F_DUPFD: the number it goes to is free, or loses its file.
Dup(t) == \E old \in DOMAIN table[t], new \in DOMAIN table'[t] :
            Becomes(t, Put(table[t], new, table[t][old]))

Close(t) == \E fd \in DOMAIN table[t] : Becomes(t, Without(table[t], {fd}))

SetFlags(t) == \E fd \in DOMAIN table[t], flags \in FLAGS :
                 Becomes(t, [table[t] EXCEPT ![fd].flags = flags])

\* A new task starts with a copy of its parent's table.
Fork(t) == \E c \in DOMAIN table' \ DOMAIN table :
             table' = [u \in DOMAIN table \union {c} |->
                         IF u = c THEN table[t] ELSE table[u]]

\* A new program keeps the descriptors that are not to be closed.
CloseOnExec(e) == e.flags % 2 = 1
Exec(t) == Becomes(t, Without(table[t], {fd \in DOMAIN table[t] :
                                           CloseOnExec(table[t][fd])}))

Next == \E t \in DOMAIN table :
          Open(t) \/ Dup(t) \/ Close(t) \/ SetFlags(t) \/ Fork(t) \/ Exec(t)

Spec == Init /\ [][Next]_table
=============================================================================
