------------------------------ MODULE Tasking ------------------------------
(***************************************************************************)
(* Tasks and the scheduler: kernel/proc/sched.c, kernel/proc/tasking.c,    *)
(* the interrupt path that drives them (arch/i386/cpu/isr.c and its        *)
(* stubs, core/timer.c, proc/syscalls/handler.c) and the kernel's own two  *)
(* tasks (yanix/kernel.c): `main`, which forks and then idles, and the     *)
(* login task, which forks a shell and waits for it, for ever.             *)
(*                                                                         *)
(* One processor.  Only the running task takes steps; interrupts come      *)
(* between its steps while the interrupt flag is set and the interrupt     *)
(* controller (PIC) has none of the same or a higher priority in service.  *)
(* Code between a cli and the next point where the flag may be set again   *)
(* is one step.                                                            *)
(*                                                                         *)
(* A task that is switched out remembers where (ctx):                      *)
(*   "irq"    in schedule(), called by the timer interrupt                 *)
(*   "block"  in schedule(), called by task_block()                        *)
(*   "child"  in fork(), never run yet                                     *)
(*   "dead"   in kill_proc(), of itself                                    *)
(***************************************************************************)
EXTENDS TaskList, Sequences

CONSTANTS MaxLocks,   \* bound on scheduler_locks, for model checking
          MaxHits,    \* bound on the kills and Ctrl-Cs
          Events      \* what else happens, a subset of AllEvents

\* kill: a program kills another; ctrlc: the user interrupts the running task;
\* nofile: the shell cannot be executed; segv: a program faults.
AllEvents == {"kill", "ctrlc", "nofile", "segv"}

ASSUME TaskingAssumption ==
  MaxLocks \in Nat /\ MaxHits \in Nat /\ Events \subseteq AllEvents

VARIABLES ready, blocked,   \* struct task_list ready_list, blocked_list
          link,             \* task->next
          running,          \* g_runningtask
          locks,            \* scheduler_locks
          iflag,            \* the processor's interrupt flag
          inservice,        \* IRQs the PIC waits for an end of interrupt for
          PIDS,             \* the next pid
          zombie,           \* tasks whose state is TASK_ZOMBIE
          parent,           \* task->parent
          childamount,      \* task->childamount
          ring,             \* task->ring
          pc,               \* where each task is
          ctx,              \* how each task was switched out
          victim,           \* the argument of a kill_proc() in progress
          frames,           \* what a keyboard interrupt has interrupted
          hits,             \* how many kills and Ctrl-Cs there were
          fault             \* the cursor was read through NULL: all is lost

lists == <<ready, blocked, link>>
family == <<PIDS, zombie, parent, childamount, ring>>
tally == <<hits, fault>>
vars == <<ready, blocked, link, running, locks, iflag, inservice, PIDS, zombie,
          parent, childamount, ring, pc, ctx, victim, frames, hits, fault>>

main == 1
TIMER == 0
KEYBOARD == 1

Ready == Members(ready.head, link)
Blocked == Members(blocked.head, link)
Created == 1..(PIDS - 1)

-----------------------------------------------------------------------------
\* init_tasking, init_scheduler; main is about to fork, interrupts are on.
Init ==
  /\ ready = set_list(main) /\ blocked = set_list(NULL)
  /\ link = [t \in Pids |-> NULL]
  /\ running = main /\ locks = 0
  /\ iflag = TRUE /\ inservice = {}
  /\ PIDS = 2 /\ zombie = {}
  /\ parent = [t \in Pids |-> NULL]
  /\ childamount = [t \in Pids |-> 0]
  /\ ring = [t \in Pids |-> 0]
  /\ pc = [t \in Pids |-> IF t = main THEN "boot" ELSE "none"]
  /\ ctx = [t \in Pids |-> "none"]
  /\ victim = [t \in Pids |-> NULL]
  /\ frames = [t \in Pids |-> <<>>]
  /\ hits = 0 /\ fault = FALSE

\* Mutant of end_of_interrupt: the PIC is not told.
end_of_interrupt_lost(s) == s

\* pic_send_eio: a non-specific end of interrupt ends the one of the highest
\* priority, the lowest number.
end_of_interrupt(s) == {i \in s : \E j \in s : j < i}

\* Where a task is when a call into the kernel returns: user code, or the loop
\* of the login task.
Return(t) == IF ring[t] = 3 THEN "user" ELSE "login"

\* The step belongs to t, and the machine has not run off its lists.
Runs(t, label) == running = t /\ pc[t] = label /\ ~fault

\* Mutant of unlock_scheduler: interrupts are enabled whatever the count.
unlock_scheduler_always(count) == TRUE

\* unlock_scheduler enables interrupts when it takes the count to 0.
unlock_scheduler(count) == count = 0

\* Mutant of Unlocked: the unlock is thought to follow every switch.
Unlocked_always(c, held) == held - 1

\* The count after a switch to a task that was switched out as c says: only
\* schedule() goes on to unlock_scheduler.
Unlocked(c, held) == IF c \in {"irq", "block"} THEN held - 1 ELSE held

\* An early return behind lock_scheduler leaves the scheduler locked.
LeakLock == locks < MaxLocks /\ locks' = locks + 1

\* Mutant of remove_from_ready_list: the task stays where it is.
remove_from_ready_list_kept(t) == [list |-> ready, link |-> link]

remove_from_ready_list(t) == remove_from_list(ready, link, t)

\* kill_proc(t) returns to its caller in t: sys_exit, which loops, or the end
\* of the keyboard interrupt, which goes back to what it interrupted.
Interrupted(t) == frames[t] # <<>>
Outlived(t) ==
  IF Interrupted(t)
    THEN [pc |-> Head(frames[t]).pc, victim |-> Head(frames[t]).victim,
          frames |-> Tail(frames[t])]
    ELSE [pc |-> "spin", victim |-> victim[t], frames |-> <<>>]

\* switch_task(n), called with `held` scheduler locks and IRQs `served` in
\* service: t stays where `how` says, and n goes on where it was, up to the
\* point where interrupts are on again or it is back from its call.
\*   irq:   unlock_scheduler, end_of_interrupt, iret
\*   block: unlock_scheduler, task_wait returns
\*   child: fork returns 0; nothing is unlocked
\*   dead:  kill_proc returns; nothing is unlocked
switch_task(t, n, how, held, served) ==
  LET c == ctx[n]
      left == Unlocked(c, held)
      iret == c = "irq" \/ (c = "dead" /\ Interrupted(n))
      back == IF c = "dead"
                THEN Outlived(n)
                ELSE [pc |-> IF c = "block" THEN Return(n) ELSE pc[n],
                      victim |-> victim[n], frames |-> frames[n]]
  IN /\ running' = n
     /\ ctx' = [ctx EXCEPT ![t] = how, ![n] = "none"]
     /\ locks' = left
     /\ inservice' = IF iret THEN end_of_interrupt(served) ELSE served
     /\ iflag' = \/ iret
                 \/ c \in {"block", "child"} /\ ring[n] = 3
                 \/ c = "block" /\ unlock_scheduler(left)
     /\ pc' = [pc EXCEPT ![n] = back.pc]
     /\ victim' = [victim EXCEPT ![n] = back.victim]
     /\ frames' = [frames EXCEPT ![n] = back.frames]

\* The ready list is empty: get_next_from_list reads through NULL.
RunOff == /\ ready.head = NULL
          /\ fault' = TRUE
          /\ UNCHANGED <<ready, blocked, link, running, locks, iflag, inservice,
                         family, pc, ctx, victim, frames, hits>>

-----------------------------------------------------------------------------
\* irq_handler for the timer: schedule(), which switches or, when the task at
\* the cursor is the running one, only moves the cursor.
timer_callback(t) ==
  /\ running = t /\ ~fault /\ iflag /\ TIMER \notin inservice
  /\ \/ RunOff
     \/ /\ ready.head # NULL
        /\ LET n == NextTask(ready)
           IN IF n = t
                THEN UNCHANGED <<running, locks, iflag, inservice, pc, ctx,
                                 victim, frames>>
                ELSE switch_task(t, n, "irq", locks + 1,
                                 inservice \union {TIMER})
        /\ ready' = Advanced(ready, link)
        /\ UNCHANGED <<blocked, link, family, tally>>

\* fork: interrupts are off from the copy of the task on; the parent turns
\* them on, the child inherits childamount with the rest of the structure.
fork(t) ==
  /\ \E label \in {"boot", "login", "fork"} : Runs(t, label)
  /\ PIDS \in Pids
  /\ LET new == add_to_list(ready, link, PIDS)
     IN ready' = new.list /\ link' = new.link
  /\ PIDS' = PIDS + 1
  /\ parent' = [parent EXCEPT ![PIDS] = t]
  /\ childamount' = [childamount EXCEPT ![PIDS] = childamount[t], ![t] = @ + 1]
  /\ ring' = [ring EXCEPT ![PIDS] = ring[t]]
  /\ ctx' = [ctx EXCEPT ![PIDS] = "child"]
  /\ pc' = [pc EXCEPT ![t] = CASE @ = "boot" -> "idle"
                               [] @ = "login" -> "wait"
                               [] @ = "fork" -> "user",
                      ![PIDS] = CASE pc[t] = "boot" -> "login"
                                  [] pc[t] = "login" -> "exec"
                                  [] pc[t] = "fork" -> "user"]
  /\ iflag' = TRUE
  /\ UNCHANGED <<blocked, running, locks, inservice, zombie, victim,
                 frames, tally>>

\* execve_user of the shell, by the login task's child: an end of interrupt is
\* sent and the task drops to ring 3 with interrupts on; or it fails and the
\* child goes on in the login loop.
execve_user(t) ==
  /\ Runs(t, "exec")
  /\ \/ /\ inservice' = end_of_interrupt(inservice)
        /\ iflag' = TRUE
        /\ ring' = [ring EXCEPT ![t] = 3]
        /\ pc' = [pc EXCEPT ![t] = "user"]
     \/ /\ "nofile" \in Events
        /\ pc' = [pc EXCEPT ![t] = "login"]
        /\ UNCHANGED <<inservice, iflag, ring>>
  /\ UNCHANGED <<lists, running, locks, PIDS, zombie, parent, childamount, ctx,
                 victim, frames, tally>>

\* syscall_handler: an end of interrupt is sent and interrupts are turned on,
\* whatever the call is.  Calls that do not touch tasks return at once.
syscall_handler(t, call, v) ==
  /\ Runs(t, "user")
  /\ inservice' = end_of_interrupt(inservice)
  /\ iflag' = TRUE
  /\ pc' = [pc EXCEPT ![t] = call]
  /\ victim' = [victim EXCEPT ![t] = v]
  /\ UNCHANGED <<lists, running, locks, family, ctx, frames, fault>>

sys_other(t) == syscall_handler(t, "user", NULL) /\ UNCHANGED hits
sys_read(t) == syscall_handler(t, "read", NULL) /\ UNCHANGED hits
sys_fork(t) == syscall_handler(t, "fork", NULL) /\ UNCHANGED hits
sys_wait(t) == syscall_handler(t, "wait", NULL) /\ UNCHANGED hits
sys_exit(t) == syscall_handler(t, "kill", t) /\ UNCHANGED hits

\* send_pid_sig(v, SIGINT) to a task without a handler; find_task_by_pid finds
\* it on a list.
sys_kill(t, v) == /\ "kill" \in Events
                  /\ hits < MaxHits /\ hits' = hits + 1
                  /\ v \in (Ready \union Blocked) \ {t}
                  /\ syscall_handler(t, "kill", v)

\* Ctrl-C: the keyboard interrupt sends SIGINT to the running task.  Writing
\* the event to its pipe has turned interrupts on before kill_proc starts.
send_sig(t) ==
  /\ "ctrlc" \in Events
  /\ hits < MaxHits /\ hits' = hits + 1
  /\ running = t /\ ~fault /\ iflag /\ inservice = {}
  /\ inservice' = {KEYBOARD}
  /\ frames' = [frames EXCEPT ![t] = <<[pc |-> pc[t], victim |-> victim[t]]>>
                                       \o @]
  /\ pc' = [pc EXCEPT ![t] = "kill"]
  /\ victim' = [victim EXCEPT ![t] = t]
  /\ UNCHANGED <<lists, running, locks, iflag, family, ctx, fault>>

\* page_fault in a program: error_message sends a signal that does nothing and
\* loops inside the exception, where interrupts are off.
page_fault(t) ==
  /\ "segv" \in Events
  /\ Runs(t, "user")
  /\ iflag' = FALSE
  /\ pc' = [pc EXCEPT ![t] = "spin"]
  /\ UNCHANGED <<lists, running, locks, inservice, family, ctx, victim,
                 frames, tally>>

\* pipe_read_raw: before it waits for a writer it sends another end of
\* interrupt, whatever is in service.
pipe_read_raw(t) ==
  /\ Runs(t, "read")
  /\ inservice' = end_of_interrupt(inservice)
  /\ iflag' = TRUE
  /\ pc' = [pc EXCEPT ![t] = "user"]
  /\ UNCHANGED <<lists, running, locks, family, ctx, victim, frames, tally>>

\* task_wait: without children it returns; else the task will block itself.
\* Nothing is locked between the look at childamount and task_block.
task_wait(t) ==
  /\ Runs(t, "wait")
  /\ pc' = [pc EXCEPT ![t] = IF childamount[t] # 0 THEN "block" ELSE Return(t)]
  /\ iflag' = (iflag \/ (childamount[t] = 0 /\ ring[t] = 3))
  /\ UNCHANGED <<lists, running, locks, inservice, family, ctx, victim,
                 frames, tally>>

\* task_block up to its call of schedule().  A task that is not on the ready
\* list gets -1 back, with the scheduler still locked.
task_block(t) ==
  /\ Runs(t, "block")
  /\ \/ /\ t \notin Ready
        /\ LeakLock
        /\ iflag' = (ring[t] = 3)
        /\ pc' = [pc EXCEPT ![t] = Return(t)]
        /\ UNCHANGED lists
     \/ /\ t \in Ready
        /\ LET off == remove_from_list(ready, link, t)
               on == add_to_list(blocked, off.link, t)
           IN ready' = off.list /\ blocked' = on.list /\ link' = on.link
        /\ iflag' = unlock_scheduler(locks)
        /\ pc' = [pc EXCEPT ![t] = "yield"]
        /\ UNCHANGED locks
  /\ UNCHANGED <<running, inservice, family, ctx, victim, frames, tally>>

\* schedule(), called by task_block.
schedule(t) ==
  /\ Runs(t, "yield")
  /\ \/ RunOff
     \/ /\ ready.head # NULL
        /\ LET n == NextTask(ready)
           IN IF n = t
                THEN /\ iflag' = (unlock_scheduler(locks) \/ ring[t] = 3)
                     /\ pc' = [pc EXCEPT ![t] = Return(t)]
                     /\ UNCHANGED <<running, locks, inservice, ctx, victim,
                                    frames>>
                ELSE switch_task(t, n, "block", locks + 1, inservice)
        /\ ready' = Advanced(ready, link)
        /\ UNCHANGED <<blocked, link, family, tally>>

\* kill_proc(v), first part: v is a zombie and its parent, if it is on a list,
\* has a child less (else the count is written through NULL).
kill_proc(t) ==
  LET v == victim[t]
      p == parent[v]
  IN /\ Runs(t, "kill")
     /\ zombie' = zombie \union {v}
     /\ childamount' = IF p \in Ready \union Blocked
                         THEN [childamount EXCEPT ![p] = @ - 1]
                         ELSE childamount
     /\ pc' = [pc EXCEPT ![t] = IF p = NULL THEN "unlink" ELSE "resume"]
     /\ UNCHANGED <<lists, running, locks, iflag, inservice, PIDS, parent, ring,
                    ctx, victim, frames, tally>>

\* task_resume(v's parent).  A parent that is not blocked gives -1, with the
\* scheduler still locked.
task_resume(t) ==
  LET p == parent[victim[t]]
  IN /\ Runs(t, "resume")
     /\ \/ /\ p \notin Blocked
           /\ LeakLock
           /\ iflag' = FALSE
           /\ UNCHANGED lists
        \/ /\ p \in Blocked
           /\ LET off == remove_from_list(blocked, link, p)
                  on == add_to_list(ready, off.link, p)
              IN blocked' = off.list /\ ready' = on.list /\ link' = on.link
           /\ iflag' = unlock_scheduler(locks)
           /\ UNCHANGED locks
     /\ pc' = [pc EXCEPT ![t] = "unlink"]
     /\ UNCHANGED <<running, inservice, family, ctx, victim, frames, tally>>

\* kill_proc, last part: v leaves the ready list, if it is there, and if it is
\* the running task the next one is switched to, without a lock.  When the
\* next one is v itself, which the cursor still points at, kill_proc returns.
unlink(t) ==
  LET v == victim[t]
      off == remove_from_ready_list(v)
      n == NextTask(off.list)
  IN /\ Runs(t, "unlink")
     /\ link' = off.link
     /\ \/ /\ v # t
           /\ ready' = off.list
           /\ iflag' = TRUE
           /\ pc' = [pc EXCEPT ![t] = Return(t)]
           /\ UNCHANGED <<running, locks, inservice, ctx, victim, frames, fault>>
        \/ /\ v = t /\ off.list.head = NULL
           /\ ready' = off.list
           /\ fault' = TRUE
           /\ UNCHANGED <<running, locks, iflag, inservice, pc, ctx, victim,
                          frames>>
        \/ /\ v = t /\ off.list.head # NULL
           /\ ready' = Advanced(off.list, off.link)
           /\ IF n # t
                THEN switch_task(t, n, "dead", locks, inservice)
                ELSE /\ pc' = [pc EXCEPT ![t] = Outlived(t).pc]
                     /\ victim' = [victim EXCEPT ![t] = Outlived(t).victim]
                     /\ frames' = [frames EXCEPT ![t] = Outlived(t).frames]
                     /\ iflag' = (iflag \/ Interrupted(t))
                     /\ inservice' = IF Interrupted(t)
                                       THEN end_of_interrupt(inservice)
                                       ELSE inservice
                     /\ UNCHANGED <<running, locks, ctx>>
           /\ UNCHANGED fault
     /\ UNCHANGED <<blocked, family, hits>>

-----------------------------------------------------------------------------
\* What the running task does in the kernel, and what a program makes it do.
Kernel(t) == \/ fork(t) \/ execve_user(t) \/ pipe_read_raw(t)
             \/ task_wait(t) \/ task_block(t) \/ schedule(t)
             \/ kill_proc(t) \/ task_resume(t) \/ unlink(t)

Program(t) == \/ sys_other(t) \/ sys_read(t) \/ sys_fork(t)
              \/ sys_wait(t) \/ sys_exit(t)
              \/ \E v \in Pids : sys_kill(t, v)

Next == \E t \in Pids : \/ timer_callback(t) \/ send_sig(t) \/ page_fault(t)
                        \/ Kernel(t) \/ Program(t)

Spec == Init /\ [][Next]_vars

\* The timer keeps ticking and the processor goes on executing kernel code.
\* Programs need not make system calls.
FairSpec == Spec /\ \A t \in Pids : /\ WF_vars(timer_callback(t))
                                    /\ WF_vars(Kernel(t))

-----------------------------------------------------------------------------
Labels == {"none", "boot", "idle", "login", "exec", "user", "read", "fork",
           "wait", "block", "yield", "kill", "resume", "unlink", "spin"}

\* Every variable has its type.  In particular scheduler_locks, an unsigned
\* counter, is never taken below 0 by unlock_scheduler.
TypeOK ==
  /\ ready \in TaskListType /\ blocked \in TaskListType
  /\ link \in [Pids -> Pids \union {NULL}]
  /\ running \in Pids
  /\ locks \in Nat
  /\ iflag \in BOOLEAN /\ inservice \subseteq {TIMER, KEYBOARD}
  /\ PIDS \in Nat /\ zombie \subseteq Pids
  /\ parent \in [Pids -> Pids \union {NULL}]
  /\ childamount \in [Pids -> Int]
  /\ ring \in [Pids -> {0, 3}]
  /\ pc \in [Pids -> Labels]
  /\ ctx \in [Pids -> {"none", "irq", "block", "child", "dead"}]
  /\ victim \in [Pids -> Pids \union {NULL}]
  /\ frames \in [Pids -> Seq([pc : Labels, victim : Pids \union {NULL}])]
  /\ hits \in 0..MaxHits /\ fault \in BOOLEAN

\* The lists share the tasks' one link field, and tasks are moved between them
\* by fork, task_block, task_resume and kill_proc at any point of each other:
\* no task is ever on both lists, and none that lives is lost from both.
ListsSound == /\ TypeOK
              /\ Ready \intersect Blocked = {}
              /\ Created \ zombie \subseteq Ready \union Blocked
              /\ Ready \union Blocked \subseteq Created

\* remove_from_list leaves the cursor alone unless it takes the head; still the
\* round robin's cursor never points at a task that has left the ready list,
\* because a task that blocks or exits by itself is behind the cursor.
CursorOnList == ready.next \in Ready \union {NULL}

\* The scheduler lock leaks: a new task runs without the unlock of the switch
\* to it, and task_resume returns -1 with the lock held.  The leak never runs
\* out: one lock at least is left for each task but main that has run and can
\* run again, so the unlock after its next switch does not underflow.
Started == {t \in Created \ {main} : ctx[t] \notin {"child", "dead"}}
LockAccounting == locks >= Cardinality(Started)

\* kill_proc takes no lock for its last part, where it edits the ready list and
\* the cursor and switches away: yet interrupts are always off there when the
\* task has a parent, because of the locks that have leaked.
ExitAtomic ==
  pc[running] = "unlink" /\ parent[victim[running]] # NULL => ~iflag

\* The loop behind kill_proc in sys_exit is not reached: an exiting task is
\* never the one its own get_next_task returns, and is not switched to again.
ExitNeverReturns == \A t \in Pids : pc[t] # "spin"

\* The only way the model stops that the kernel does not have: no pid is left
\* for a fork.
OutOfPids == PIDS \notin Pids /\ pc[running] \in {"login", "fork"}

\* A program runs that the timer cannot interrupt: the task was new when the
\* timer switched to it, so that irq_handler has not sent the end of interrupt,
\* and it has made no system call since.
Unpreempted == pc[running] = "user" /\ TIMER \in inservice

\* "Schedule function (simple round robin)": a task on the ready list gets the
\* processor, whatever programs do, but for one case.  The program of a new task
\* that computes for ever without a system call is never preempted, and then
\* nobody else runs again.
RoundRobin == \A t \in Pids :
  (t \in Ready) ~> (running = t \/ t \notin Ready \/ OutOfPids \/ []Unpreempted)
=============================================================================
