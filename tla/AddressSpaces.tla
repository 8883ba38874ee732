--------------------------- MODULE AddressSpaces ---------------------------
(***************************************************************************)
(* What paging promises to programs: every task has a memory of its own.   *)
(* A step changes the memory of one task at most, and a task that starts   *)
(* has a copy of what its parent has, or of a part of it.                  *)
(***************************************************************************)
CONSTANT Tasks
VARIABLES live,   \* the tasks
          space   \* the memory of each task, a function from addresses

\* The memory f has nothing that g does not have.
PartOf(f, g) == \A a \in DOMAIN f : a \in DOMAIN g /\ f[a] = g[a]

OthersKeep(t) == \A u \in Tasks \ {t} : space'[u] = space[u]

Init == \E t \in Tasks : live = {t}

\* t writes, grows, or loads a program.
Own(t) == t \in live /\ live' = live /\ OthersKeep(t)

\* c starts with what t has.
Fork(t, c) == /\ t \in live /\ c \notin live
              /\ live' = live \cup {c}
              /\ PartOf(space'[c], space[t])
              /\ OthersKeep(c)

Next == \E t \in Tasks : Own(t) \/ \E c \in Tasks : Fork(t, c)

Spec == Init /\ [][Next]_<<live, space>>
=============================================================================
