-------------------------- MODULE FileDescriptors --------------------------
(***************************************************************************)
(* The tasks' file descriptors: fs/filedescriptor.c on the vectors of      *)
(* yanix/ds/fd_vector.c, under the system calls open, close, dup, dup2,    *)
(* fcntl, fork and execve.                                                 *)
(*                                                                         *)
(* A vector is a buffer of `max` entries of which the first `size` are in  *)
(* use; an entry whose node is NULL is free and keeps the flags of its     *)
(* last file.  Modes and file offsets are left out, and kmalloc is taken   *)
(* to succeed.                                                             *)
(***************************************************************************)
EXTENDS Integers, FiniteSetsExt

CONSTANTS Tasks, Nodes,
          FLAGS,         \* the flag words of open
          WORDS,         \* the words programs set with fcntl(F_SETFD)
          first,         \* the task that starts, with an empty vector
          NULL,
          BEGIN,         \* VECTOR_BEGIN_AMOUNT
          STD,           \* descriptors that close() leaves alone: 0 to STD - 1
          Targets,       \* what programs give dup2 and F_DUPFD as new number
          MaxSize,       \* bound on the length of a buffer, and
          MaxUse         \* on the entries in use in all, for model checking

ASSUME FdAssumption ==
  /\ first \in Tasks /\ NULL \notin Nodes
  /\ FLAGS \subseteq Nat /\ 0 \in FLAGS /\ WORDS \subseteq FLAGS
  /\ BEGIN \in Nat \ {0} /\ {STD, MaxSize, MaxUse} \subseteq Nat
  /\ Targets \subseteq Nat

VARIABLE fds             \* fds[t]: the vector of each task there is

Zero == [node |-> NULL, flags |-> 0]

-----------------------------------------------------------------------------
vector_create == [size |-> 0, max |-> BEGIN,
                  buf |-> [i \in 0..(BEGIN - 1) |-> Zero]]

roundup(x, y) == IF x % y = 0 THEN x \div y ELSE x \div y + 1

\* Mutant of vector_expand: one entry less is copied.
vector_expand_short(v, amount) ==
  [v EXCEPT !.max = v.max * amount,
            !.buf = [i \in 0..(v.max * amount - 1) |->
                       IF i < v.max - 1 THEN v.buf[i] ELSE Zero]]

vector_expand(v, amount) ==
  [v EXCEPT !.max = v.max * amount,
            !.buf = [i \in 0..(v.max * amount - 1) |->
                       IF i < v.max THEN v.buf[i] ELSE Zero]]

\* The entry i of v, which is in the buffer, is set to e.
Store(v, i, e) == [v EXCEPT !.buf[i] = e, !.size = IF i >= @ THEN i + 1 ELSE @]

vector_push(v, e) ==
  Store(IF v.size = v.max THEN vector_expand(v, 2) ELSE v, v.size, e)

vector_add(v, e) ==
  LET free == {i \in 0..(v.size - 1) : v.buf[i].node = NULL}
  IN IF free # {} THEN Store(v, Min(free), e) ELSE vector_push(v, e)

vector_add_from(v, e, from) ==
  LET g == IF from > v.max THEN vector_expand(v, roundup(from, v.max)) ELSE v
      free == {i \in from..(g.max - 1) : g.buf[i].node = NULL}
  IN IF free # {} THEN Store(g, Min(free), e) ELSE vector_push(g, e)

\* A store behind the end of the buffer is lost; size counts it all the same.
vector_set(v, e, fd) ==
  LET g == IF fd >= v.max THEN vector_expand(v, roundup(fd, v.max)) ELSE v
  IN IF fd < g.max THEN Store(g, fd, e) ELSE [g EXCEPT !.size = fd + 1]

vector_clear(v, fd) == [v EXCEPT !.buf[fd].node = NULL]

-----------------------------------------------------------------------------
Init == fds = [t \in {first} |-> vector_create]

\* Task t's vector becomes v.  What happens once an entry has been stored
\* behind the end of a buffer is not modelled.
Sound(v) == v.size <= v.max
InUseInAll(f) == MapThenSumSet(LAMBDA u : f[u].size, DOMAIN f)
Becomes(t, v) == /\ \A u \in DOMAIN fds : Sound(fds[u])
                 /\ v.max <= MaxSize
                 /\ fds' = [fds EXCEPT ![t] = v]
                 /\ InUseInAll(fds') <= MaxUse

\* get_filedescriptor gives any entry below size, free ones too.
InUse(t, fd) == t \in DOMAIN fds /\ fd \in 0..(fds[t].size - 1)
IsOpen(t, fd) == InUse(t, fd) /\ fds[t].buf[fd].node # NULL

register_filedescriptor(t, node, flags) ==
  /\ t \in DOMAIN fds
  /\ Becomes(t, vector_add(fds[t],
                           [node |-> node, flags |-> flags]))

close_filedescriptor(t, fd) ==
  /\ fd >= STD /\ IsOpen(t, fd)
  /\ Becomes(t, vector_clear(fds[t], fd))

dup_filedescriptor(t, fd, from) ==
  /\ IsOpen(t, fd)
  /\ Becomes(t, IF from = -1 THEN vector_add(fds[t], fds[t].buf[fd])
                ELSE vector_add_from(fds[t], fds[t].buf[fd], from))

\* new is closed first when it is in use, and when it is old itself what is
\* copied is an entry that is now free.
dup2_filedescriptor(t, old, new) ==
  LET v == IF InUse(t, new) THEN vector_clear(fds[t], new) ELSE fds[t]
  IN /\ IsOpen(t, old)
     /\ Becomes(t, vector_set(v, v.buf[old], new))

\* fcntl(F_SETFD) replaces the whole flag word.
setflags_filedescriptor(t, fd, flags) ==
  /\ InUse(t, fd)
  /\ Becomes(t, [fds[t] EXCEPT !.buf[fd].flags = flags])

\* fork: create_task copies the vector of the running task.
fork(t, c) ==
  /\ t \in DOMAIN fds /\ c \in Tasks \ DOMAIN fds
  /\ Sound(fds[t]) /\ InUseInAll(fds) + fds[t].size <= MaxUse
  /\ fds' = [u \in DOMAIN fds \union {c} |-> IF u = c THEN fds[t] ELSE fds[u]]

\* Every entry in use with the bit E_CLOEXEC is cleared.
check_filedescriptors(v) ==
  [v EXCEPT !.buf = [i \in DOMAIN v.buf |->
                       IF i < v.size /\ v.buf[i].flags % 2 = 1
                         THEN [v.buf[i] EXCEPT !.node = NULL] ELSE v.buf[i]]]

\* execve opens the program, loads and closes it, then closes the descriptors
\* that are marked.
execve(t, node) ==
  LET free == {i \in 0..(fds[t].size - 1) : fds[t].buf[i].node = NULL}
      fd == IF free = {} THEN fds[t].size ELSE Min(free)
      opened == vector_add(fds[t], [node |-> node, flags |-> 0])
  IN /\ t \in DOMAIN fds
     /\ Becomes(t, check_filedescriptors(vector_clear(opened, fd)))

Next == \E t \in Tasks :
  \/ \E node \in Nodes, flags \in FLAGS : register_filedescriptor(t, node, flags)
  \/ \E fd \in 0..(MaxSize - 1) : close_filedescriptor(t, fd)
  \/ \E fd \in 0..(MaxSize - 1), from \in Targets \union {-1} :
       dup_filedescriptor(t, fd, from)
  \/ \E old \in 0..(MaxSize - 1), new \in Targets :
       dup2_filedescriptor(t, old, new)
  \/ \E fd \in 0..(MaxSize - 1), flags \in WORDS :
       setflags_filedescriptor(t, fd, flags)
  \/ \E c \in Tasks : fork(t, c)
  \/ \E node \in Nodes : execve(t, node)

Spec == Init /\ [][Next]_fds

-----------------------------------------------------------------------------
\* The open descriptors as a program sees them.
Table == [t \in DOMAIN fds |->
            [fd \in {i \in 0..(fds[t].size - 1) : IsOpen(t, i)} |->
               [node |-> fds[t].buf[fd].node, flags |-> fds[t].buf[fd].flags]]]

A == INSTANCE FdTable WITH table <- Table

\* The vectors implement the tables: opens take the lowest free number, and
\* growing, holes, stale entries and forks never change another descriptor.
ImplementsFdTable == A!Spec
=============================================================================
