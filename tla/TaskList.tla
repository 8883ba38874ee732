------------------------------ MODULE TaskList ------------------------------
(***************************************************************************)
(* The scheduler's intrusive task lists, kernel/proc/sched.c.              *)
(*                                                                         *)
(* A list is a struct task_list: a `head` and the cursor `next` of the     *)
(* round robin.  The links are the tasks' own `next` fields, one function  *)
(* `link` for all lists: a task taken off a list keeps the link it had     *)
(* there.  Tasks are named by their pid and NULL is 0.                     *)
(***************************************************************************)
EXTENDS Integers, FiniteSets

CONSTANT Pids      \* the pids that tasks can get, a set of positive numbers

\* Pids are handed out from 1 on; the kernel's own two tasks are the first.
ASSUME PidsAssumption ==
  IsFiniteSet(Pids) /\ Cardinality(Pids) >= 2 /\ Pids = 1..Cardinality(Pids)

NULL == 0

TaskListType == [head : Pids \union {NULL}, next : Pids \union {NULL}]

\* The tasks met when walking from h along the links.  A walk longer than the
\* number of tasks has met every task it will meet.
Members(h, link) ==
  LET node[k \in 0..Cardinality(Pids)] ==
        IF k = 0 THEN h
        ELSE IF node[k-1] = NULL THEN NULL ELSE link[node[k-1]]
  IN {node[k] : k \in 0..Cardinality(Pids)} \ {NULL}

set_list(t) == [head |-> t, next |-> t]

\* add_to_list: the new task's link is cleared, then it goes behind the last.
add_to_list(list, link, t) ==
  LET cleared == [link EXCEPT ![t] = NULL]
      last == CHOOSE m \in Members(list.head, cleared) : cleared[m] = NULL
  IN IF list.head = NULL
       THEN [list |-> set_list(t), link |-> cleared]
       ELSE [list |-> list, link |-> [cleared EXCEPT ![last] = t]]

\* Mutant of remove_from_list: the head is unlinked without set_list.
remove_from_list_head(list, link, t) ==
  [list |-> list,
   link |-> [m \in Pids |-> IF link[m] = t THEN link[t] ELSE link[m]]]

\* remove_from_list: taking the head resets the cursor; taking any other task
\* leaves the cursor where it is, even on the task that is taken.  A task
\* that is not on the list changes nothing (the code returns -1).
remove_from_list(list, link, t) ==
  LET on == Members(list.head, link)
      prev == CHOOSE m \in on : link[m] = t
  IN IF t \notin on THEN [list |-> list, link |-> link]
     ELSE IF list.head = t
       THEN [list |-> set_list(link[t]), link |-> link]
       ELSE [list |-> list, link |-> [link EXCEPT ![prev] = link[t]]]

\* get_next_from_list: the task at the cursor, or the head when the cursor has
\* run off the end; the cursor moves to that task's successor.
NextTask(list) == IF list.next # NULL THEN list.next ELSE list.head

\* Mutant of Advanced: the cursor stays on the last task.
Advanced_stays(list, link) ==
  LET n == NextTask(list)
  IN [list EXCEPT !.next = IF link[n] = NULL THEN n ELSE link[n]]

Advanced(list, link) == [list EXCEPT !.next = link[NextTask(list)]]
=============================================================================
