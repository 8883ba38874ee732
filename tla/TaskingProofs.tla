--------------------------- MODULE TaskingProofs ---------------------------
(***************************************************************************)
(* Proofs about Tasking, for any number of pids.                           *)
(*                                                                         *)
(* TaskInv is inductive whatever happens: kills, Ctrl-C and faults too.    *)
(* It implies ListsSound and ExitAtomic.  What the operations of sched.c   *)
(* make of the lists is proved in TaskListProofs.                          *)
(***************************************************************************)
EXTENDS Tasking, TaskListProofs

\* The lists that a step leaves are Ready and Blocked after it.
LEMMA ListsNext ==
  ASSUME NEW C, NEW R, NEW B, Lists(C, ready', blocked', link', R, B)
  PROVE  Ready' = R /\ Blocked' = B
<1>1. Members(ready'.head, link') = R /\ Members(blocked'.head, link') = B
  BY ListsElements
<1>. QED
  BY <1>1, Zenon DEF Ready, Blocked

\* A call of kill_proc(v) that is at label p: v is a task, and a zombie once the
\* first part is done.
KillOk(p, v) == /\ p \in {"kill", "resume", "unlink"} => v \in Created
                /\ p \in {"resume", "unlink"} => v \in zombie

\* The frame of a call that a keyboard interrupt interrupted.
FrameOk(f) == KillOk(f.pc, f.victim) /\ (f.pc = "unlink" => parent[f.victim] = NULL)

\* main and the login task stay in the kernel and are killed by Ctrl-C only.
login == 2
MainLabels == {"boot", "idle", "kill", "resume", "unlink", "spin"}
LoginLabels == {"none", "login", "wait", "block", "yield", "kill", "resume", "unlink", "spin"}
OfKernel(t, labels) ==
  /\ ring[t] = 0
  /\ pc[t] \in labels /\ (pc[t] \in {"kill", "resume", "unlink"} => victim[t] = t)
  /\ \A i \in 1..Len(frames[t]) :
        LET f == frames[t][i]
        IN f.pc \in labels /\ (f.pc \in {"kill", "resume", "unlink"} => f.victim = t)

\* The tasks that have run and can go on.
Awake == {t \in Created : ctx[t] \notin {"child", "dead"}}

Shape ==
  /\ PIDS \in 2..(Cardinality(Pids) + 1)
  /\ running \in Created
  /\ Lists(Created, ready, blocked, link, Ready, Blocked)
  /\ ready.next \in Created \union {NULL}
  /\ Created \ zombie \subseteq Ready \union Blocked

\* What holds of each task.
ContextOk(t) ==
  /\ ctx[t] = "none" <=> t \notin Created \/ t = running
  /\ ctx[t] = "child" => pc[t] \in {"login", "exec", "user"}
  /\ ctx[t] = "block" => pc[t] = "yield"

KillsOk(t) ==
  /\ KillOk(pc[t], victim[t])
  /\ \A i \in 1..Len(frames[t]) : FrameOk(frames[t][i])
  /\ pc[t] = "unlink" /\ parent[victim[t]] # NULL
       => (t = running /\ ~iflag) \/ ctx[t] = "dead"

KernelOk(t) == /\ t = main => OfKernel(t, MainLabels)
               /\ t = login => OfKernel(t, LoginLabels)

TaskOk(t) == ContextOk(t) /\ KillsOk(t) /\ KernelOk(t)

Kernels == /\ main \notin Blocked
           /\ parent[main] = NULL /\ (PIDS > 2 => parent[login] = main)

\* main forks once, and no one else forks before the login task runs.
Boot == /\ pc[main] = "boot" => PIDS = 2 /\ frames[main] = <<>>
        /\ \A i \in 1..Len(frames[main]) : frames[main][i].pc = "boot" => PIDS = 2
        /\ ctx[login] = "child" => PIDS = 3

LocksLeft ==
  /\ locks + 1 >= Cardinality(Awake)
  /\ ctx[login] = "dead" \/ pc[login] = "unlink" => locks >= Cardinality(Awake)

TaskInv == TypeOK /\ Shape /\ (\A t \in Pids : TaskOk(t)) /\ Kernels /\ Boot
           /\ LocksLeft

-----------------------------------------------------------------------------
\* The pids handed out so far; main's is one of them.
LEMMA CreatedFacts ==
  ASSUME TypeOK, Shape
  PROVE  /\ Created \subseteq Pids /\ IsFiniteSet(Created)
         /\ main \in Created /\ main \in Pids /\ login \in Pids /\ login # main
         /\ PIDS \notin Created /\ (PIDS \in Pids \/ PIDS = Cardinality(Pids) + 1)
         /\ login \in Created <=> PIDS > 2
         /\ main # NULL /\ NULL \notin Pids
<1>1. Created \subseteq Pids
  BY PidFacts DEF Shape, Created
<1>. QED
  BY <1>1, PidFacts, FS_Subset DEF Shape, Created, main, login, NULL

\* The lists of the scheduler are lists.
LEMMA ListTypes ==
  ASSUME TaskInv
  PROVE  /\ Lists(Created, ready, blocked, link, Ready, Blocked)
         /\ Lists(Created, blocked, ready, link, Blocked, Ready)
         /\ Ready \subseteq Created /\ Blocked \subseteq Created
         /\ Ready \intersect Blocked = {}
         /\ ready.head \in Ready \union {NULL} /\ (ready.head = NULL <=> Ready = {})
         /\ \A m \in Ready : link[m] \in (Ready \ {m}) \union {NULL}
         /\ link \in Links(Created)
<1>1. Lists(Created, ready, blocked, link, Ready, Blocked)
  BY Zenon DEF TaskInv, Shape
<1>2. /\ Ready \subseteq Created /\ Blocked \subseteq Created /\ link \in Links(Created)
      /\ Ready \intersect Blocked = {}
  BY <1>1, Zenon DEF Lists
<1>3. /\ Lists(Created, blocked, ready, link, Blocked, Ready)
      /\ ready.head \in Ready \union {NULL} /\ (ready.head = NULL <=> Ready = {})
      /\ \A m \in Ready : link[m] \in (Ready \ {m}) \union {NULL}
  BY <1>1, ListsFacts, SMTT(30)
<1>. QED
  BY <1>1, <1>2, <1>3, Zenon

\* A step of another task leaves a task as it is.
LEMMA OtherTask ==
  ASSUME TaskInv, NEW u \in Pids, u # running, u # running',
         pc'[u] = pc[u], victim'[u] = victim[u], frames'[u] = frames[u],
         ring'[u] = ring[u], ctx'[u] = ctx[u],
         u \in Created <=> u \in Created', Created \subseteq Created',
         zombie \subseteq zombie', \A v \in Created : parent'[v] = parent[v]
  PROVE  TaskOk(u)'
<1>1. ContextOk(u) /\ KillsOk(u) /\ KernelOk(u)
  BY Zenon DEF TaskInv, TaskOk
<1>2. ContextOk(u)'
  BY <1>1, Zenon DEF ContextOk
<1>3. KillsOk(u)'
  <2>1. KillOk(pc[u], victim[u])'
    BY <1>1, Zenon DEF KillsOk, KillOk
  <2>2. ASSUME NEW i \in 1..Len(frames[u]) PROVE FrameOk(frames[u][i])'
    BY <1>1, Zenon DEF KillsOk, KillOk, FrameOk
  <2>3. (pc[u] = "unlink" /\ parent[victim[u]] # NULL
           => (u = running /\ ~iflag) \/ ctx[u] = "dead")'
    BY <1>1, Zenon DEF KillsOk, KillOk
  <2>. QED
    BY <2>1, <2>2, <2>3, Zenon DEF KillsOk
<1>4. KernelOk(u)'
  BY <1>1, ZenonT(30) DEF KernelOk, OfKernel
<1>. QED
  BY <1>2, <1>3, <1>4, Zenon DEF TaskOk

\* Awake tasks are counted.
LEMMA AwakeFacts ==
  ASSUME TaskInv
  PROVE  /\ IsFiniteSet(Awake) /\ Cardinality(Awake) \in Nat
         /\ running \in Awake /\ running \in Pids /\ ctx[running] = "none"
         /\ Cardinality(Awake) >= 1
<1>1. IsFiniteSet(Created) /\ Created \subseteq Pids
  BY CreatedFacts, Zenon DEF TaskInv
<1>2. Awake \in SUBSET Created
  BY Zenon DEF Awake
<1>3. IsFiniteSet(Awake)
  BY <1>1, <1>2, FS_Subset, Zenon
<1>4. running \in Created /\ running \in Pids
  BY Zenon DEF TaskInv, Shape, TypeOK
<1>5. ctx[running] = "none"
  BY <1>4, Zenon DEF TaskInv, TaskOk, ContextOk
<1>6. running \in Awake
  BY <1>4, <1>5, Zenon DEF Awake
<1>7. Cardinality(Awake) \in Nat /\ Cardinality(Awake) # 0
  BY <1>3, <1>6, FS_CardinalityType, FS_EmptySet, Zenon
<1>. QED
  BY <1>3, <1>4, <1>5, <1>6, <1>7

\* switch_task leaves the scheduler locks in step with the awake tasks.
LEMMA SwitchLocks ==
  ASSUME TaskInv, NEW n \in Created, n # running, NEW how \in {"irq", "block", "dead"},
         ctx' = [ctx EXCEPT ![running] = how, ![n] = "none"], PIDS' = PIDS,
         locks' = Unlocked(ctx[n], IF how = "dead" THEN locks ELSE locks + 1)
  PROVE  /\ locks' \in Nat
         /\ locks' - Cardinality(Awake)' = locks - Cardinality(Awake)
         /\ Cardinality(Awake)' \in Nat
<1>. DEFINE t == running
            A == Awake
            B == Awake \ {running}
<1>1. IsFiniteSet(A) /\ Cardinality(A) \in Nat /\ t \in A /\ t \in Pids
  BY AwakeFacts, Zenon
<1>2. /\ n \in Pids /\ ctx[n] \in {"irq", "block", "child", "dead"}
      /\ ctx \in [Pids -> {"none", "irq", "block", "child", "dead"}]
      /\ locks \in Nat /\ locks + 1 >= Cardinality(A)
  <2>1. n \in Pids
    BY CreatedFacts, Zenon DEF TaskInv
  <2>2. TaskOk(n)
    BY <2>1, Zenon DEF TaskInv
  <2>. QED
    BY <2>1, <2>2, Zenon DEF TaskInv, TypeOK, TaskOk, ContextOk, LocksLeft
<1>3. n \in A <=> ctx[n] \in {"irq", "block"}
  BY <1>2, Zenon DEF Awake
<1>4. Awake' = IF how = "dead" THEN B \union {n} ELSE A \union {n}
  <2>1. Created' = Created
    BY Zenon DEF Created
  <2>2. \A u \in Pids : ctx'[u] = IF u = n THEN "none" ELSE IF u = t THEN how ELSE ctx[u]
    BY <1>1, <1>2, Zenon
  <2>3. Created \subseteq Pids /\ t \in Created
    BY CreatedFacts, Zenon DEF TaskInv, Shape
  <2>4. \A u \in Pids : u \in Awake' <=> u \in Created /\ ctx'[u] \notin {"child", "dead"}
    BY <2>1, <2>3, Zenon DEF Awake
  <2>5. \A u \in Pids : u \in Awake <=> u \in Created /\ ctx[u] \notin {"child", "dead"}
    BY <2>3, Zenon DEF Awake
  <2>6. Awake \subseteq Pids /\ Awake' \subseteq Pids
    BY <2>1, <2>3, Zenon DEF Awake
  <2>. QED
    BY <1>1, <1>2, <2>2, <2>3, <2>4, <2>5, <2>6, SMTT(30)
<1>5. /\ IsFiniteSet(B) /\ Cardinality(B) = Cardinality(A) - 1
      /\ Cardinality(A \union {n}) = IF n \in A THEN Cardinality(A) ELSE Cardinality(A) + 1
  BY <1>1, FS_RemoveElement, FS_AddElement, Zenon
<1>6. Cardinality(B \union {n}) = IF n \in A THEN Cardinality(A) - 1 ELSE Cardinality(A)
  <2>1. n \in B <=> n \in A
    BY Zenon
  <2>2. Cardinality(B \union {n}) = IF n \in B THEN Cardinality(B) ELSE Cardinality(B) + 1
    BY <1>5, FS_AddElement, Zenon
  <2>. QED
    BY <1>1, <1>5, <2>1, <2>2
<1>7. n \in A => Cardinality(A) >= 2
  <2>1. ASSUME n \in A PROVE Cardinality(B) # 0
    BY <1>5, <2>1, FS_EmptySet, SMTT(30)
  <2>2. Cardinality(B) \in Nat
    BY <1>5, FS_CardinalityType, Zenon
  <2>. QED
    BY <1>1, <1>5, <2>1, <2>2, SMTT(30)
<1>8. Cardinality(Awake)' = Cardinality(Awake')
  BY Zenon
<1>. HIDE DEF A, B
<1>. QED
  BY <1>1, <1>2, <1>3, <1>4, <1>5, <1>6, <1>7, <1>8, SMTT(30) DEF Unlocked, A
Frame == [pc : Labels, victim : Pids \union {NULL}]

\* A task that outlives its own kill_proc goes on where it was interrupted.
LEMMA OutlivedFacts ==
  ASSUME TaskInv, NEW t \in Pids
  PROVE  LET o == Outlived(t) IN
            /\ o.pc \in Labels /\ o.victim \in Pids \union {NULL}
            /\ o.frames \in Seq(Frame)
            /\ o.pc = "spin" \/ FrameOk([pc |-> o.pc, victim |-> o.victim])
            /\ \A i \in 1..Len(o.frames) : FrameOk(o.frames[i])
            /\ \A labels : OfKernel(t, labels) /\ "spin" \in labels =>
                 /\ o.pc \in labels
                 /\ o.pc \in {"kill", "resume", "unlink"} => o.victim = t
                 /\ \A i \in 1..Len(o.frames) :
                      LET f == o.frames[i]
                      IN /\ f.pc \in labels
                         /\ f.pc \in {"kill", "resume", "unlink"} => f.victim = t
<1>. DEFINE o == Outlived(t)
<1>1. frames[t] \in Seq(Frame) /\ victim[t] \in Pids \union {NULL}
  BY ZenonT(30) DEF TaskInv, TypeOK, Frame
<1>2. \A i \in 1..Len(frames[t]) : FrameOk(frames[t][i])
  BY Zenon DEF TaskInv, TaskOk, KillsOk
<1>3. CASE frames[t] = <<>>
  <2>1. o = [pc |-> "spin", victim |-> victim[t], frames |-> <<>>]
    BY <1>3, Zenon DEF Outlived, Interrupted
  <2>. QED
    BY <1>1, <2>1, SMTT(30) DEF Labels
<1>4. CASE frames[t] # <<>>
  <2>1. o = [pc |-> Head(frames[t]).pc, victim |-> Head(frames[t]).victim,
             frames |-> Tail(frames[t])]
    BY <1>4, Zenon DEF Outlived, Interrupted
  <2>2. /\ Head(frames[t]) = frames[t][1] /\ Head(frames[t]) \in Frame
        /\ Tail(frames[t]) \in Seq(Frame) /\ 1 \in 1..Len(frames[t])
        /\ \A i \in 1..Len(Tail(frames[t])) :
             /\ i + 1 \in 1..Len(frames[t])
             /\ Tail(frames[t])[i] = frames[t][i + 1]
    <3>1. Len(frames[t]) \in Nat \ {0}
      BY <1>1, <1>4
    <3>2. /\ Head(frames[t]) \in Frame /\ Tail(frames[t]) \in Seq(Frame)
          /\ Len(Tail(frames[t])) = Len(frames[t]) - 1
          /\ \A i \in 1..Len(Tail(frames[t])) : Tail(frames[t])[i] = frames[t][i + 1]
      BY <1>1, <1>4, SMTT(30)
    <3>3. Head(frames[t]) = frames[t][1]
      BY <1>1, <1>4, SMTT(30)
    <3>. QED
      BY <3>1, <3>2, <3>3, SMTT(30)
  <2>3. o.pc \in Labels /\ o.victim \in Pids \union {NULL} /\ o.frames \in Seq(Frame)
    BY <2>1, <2>2, SMTT(30) DEF Frame
  <2>4. FrameOk([pc |-> o.pc, victim |-> o.victim])
    BY <1>2, <2>1, <2>2, SMTT(30) DEF FrameOk
  <2>5. \A i \in 1..Len(o.frames) : FrameOk(o.frames[i])
    BY <1>2, <2>1, <2>2, SMTT(30)
  <2>6. ASSUME NEW labels, OfKernel(t, labels)
        PROVE  /\ o.pc \in labels
               /\ o.pc \in {"kill", "resume", "unlink"} => o.victim = t
               /\ \A i \in 1..Len(o.frames) :
                    LET f == o.frames[i]
                    IN /\ f.pc \in labels
                       /\ f.pc \in {"kill", "resume", "unlink"} => f.victim = t
    BY <2>1, <2>2, <2>6, SMTT(30) DEF OfKernel
  <2>. QED
    BY <2>3, <2>4, <2>5, <2>6, Zenon
<1>. QED
  BY <1>3, <1>4, Zenon
\* How the running task may leave the processor.
Leaves(how) == \/ how = "irq" /\ iflag
               \/ how = "block" /\ pc[running] = "yield"
               \/ how = "dead" /\ pc[running] = "unlink"

\* switch_task leaves every task in order, and the locks in step.
LEMMA SwitchFacts ==
  ASSUME TaskInv, NEW t, t = running, NEW n \in Created, n # t, NEW how, Leaves(how),
         NEW served \in SUBSET {TIMER, KEYBOARD},
         switch_task(t, n, how, IF how = "dead" THEN locks ELSE locks + 1, served),
         UNCHANGED <<PIDS, zombie, parent, ring>>
  PROVE  /\ running' = n /\ n \in Pids /\ locks' \in Nat /\ iflag' \in BOOLEAN
         /\ inservice' \in SUBSET {TIMER, KEYBOARD}
         /\ pc' \in [Pids -> Labels]
         /\ ctx' \in [Pids -> {"none", "irq", "block", "child", "dead"}]
         /\ victim' \in [Pids -> Pids \union {NULL}]
         /\ frames' \in [Pids -> Seq(Frame)]
         /\ \A u \in Pids : TaskOk(u)'
         /\ LocksLeft' /\ Boot'
<1>. DEFINE c == ctx[n]
            o == Outlived(n)
            back == IF c = "dead"
                      THEN o
                      ELSE [pc |-> IF c = "block" THEN Return(n) ELSE pc[n],
                            victim |-> victim[n], frames |-> frames[n]]
<1>1. how \in {"irq", "block", "dead"} /\ t \in Pids /\ t \in Created /\ ctx[t] = "none"
  BY AwakeFacts, ZenonT(30) DEF Leaves, TaskInv, Shape
<1>2. n \in Pids /\ TaskOk(n) /\ TaskOk(t)
  <2>1. n \in Pids
    BY CreatedFacts, Zenon DEF TaskInv
  <2>. QED
    BY <1>1, <2>1, Zenon DEF TaskInv
<1>3. c \in {"irq", "block", "child", "dead"}
  BY <1>2, Zenon DEF TaskInv, TypeOK, TaskOk, ContextOk
<1>4. /\ locks' = Unlocked(c, IF how = "dead" THEN locks ELSE locks + 1)
      /\ ctx' = [ctx EXCEPT ![t] = how, ![n] = "none"]
      /\ running' = n
      /\ pc' = [pc EXCEPT ![n] = back.pc]
      /\ victim' = [victim EXCEPT ![n] = back.victim]
      /\ frames' = [frames EXCEPT ![n] = back.frames]
      /\ iflag' \in BOOLEAN
      /\ inservice' \in {end_of_interrupt(served), served}
  BY Zenon DEF switch_task
<1>5. /\ o.pc \in Labels /\ o.victim \in Pids \union {NULL}
      /\ o.frames \in Seq(Frame)
      /\ o.pc = "spin" \/ FrameOk([pc |-> o.pc, victim |-> o.victim])
      /\ \A i \in 1..Len(o.frames) : FrameOk(o.frames[i])
      /\ \A labels : OfKernel(n, labels) /\ "spin" \in labels =>
           /\ o.pc \in labels
           /\ o.pc \in {"kill", "resume", "unlink"} => o.victim = n
           /\ \A i \in 1..Len(o.frames) :
                LET f == o.frames[i]
                IN /\ f.pc \in labels
                   /\ f.pc \in {"kill", "resume", "unlink"} => f.victim = n
  BY <1>2, OutlivedFacts, Zenon
<1>6. /\ pc \in [Pids -> Labels] /\ victim \in [Pids -> Pids \union {NULL}]
      /\ frames \in [Pids -> Seq(Frame)] /\ ring[n] \in {0, 3}
      /\ ctx \in [Pids -> {"none", "irq", "block", "child", "dead"}]
  BY <1>2, Zenon DEF TaskInv, TypeOK, Frame
<1>. HIDE DEF o
<1>7. /\ back.pc \in Labels /\ back.victim \in Pids \union {NULL}
      /\ back.frames \in Seq(Frame)
  BY <1>2, <1>5, <1>6, ZenonT(30) DEF Return, Labels
<1>. HIDE DEF back, c
<1>8. /\ pc' \in [Pids -> Labels] /\ victim' \in [Pids -> Pids \union {NULL}]
      /\ frames' \in [Pids -> Seq(Frame)]
      /\ ctx' \in [Pids -> {"none", "irq", "block", "child", "dead"}]
  BY <1>1, <1>4, <1>6, <1>7, ZenonT(30)
<1>9. /\ pc'[n] = back.pc /\ victim'[n] = back.victim /\ frames'[n] = back.frames
      /\ ctx'[n] = "none" /\ ctx'[t] = how
      /\ pc'[t] = pc[t] /\ victim'[t] = victim[t] /\ frames'[t] = frames[t]
      /\ \A u \in Pids \ {t, n} :
            /\ pc'[u] = pc[u] /\ victim'[u] = victim[u] /\ frames'[u] = frames[u]
            /\ ctx'[u] = ctx[u]
  BY <1>1, <1>2, <1>4, <1>6, Zenon
<1>10. Created' = Created /\ ring' = ring /\ zombie' = zombie /\ parent' = parent
  BY Zenon DEF Created
<1>11. /\ locks' \in Nat
       /\ locks' - Cardinality(Awake)' = locks - Cardinality(Awake)
       /\ Cardinality(Awake)' \in Nat
  BY <1>1, <1>4, SwitchLocks, ZenonT(30) DEF c
<1>12. inservice' \in SUBSET {TIMER, KEYBOARD}
  BY <1>4, Zenon DEF end_of_interrupt
<1>13. ASSUME NEW u \in Pids, u # t, u # n PROVE TaskOk(u)'
  BY <1>4, <1>9, <1>10, <1>13, OtherTask, ZenonT(30)
<1>14. TaskOk(t)'
  <2>1. ContextOk(t)'
    BY <1>1, <1>4, <1>9, <1>10, Zenon DEF ContextOk, Leaves
  <2>2. KillsOk(t)'
    <3>1. KillOk(pc[t], victim[t])'
      BY <1>2, <1>9, <1>10, ZenonT(30) DEF TaskOk, KillsOk, KillOk
    <3>2. (\A i \in 1..Len(frames[t]) : FrameOk(frames[t][i]))'
      BY <1>2, <1>9, <1>10 DEF TaskOk, KillsOk, FrameOk, KillOk
    <3>3. (pc[t] = "unlink" /\ parent[victim[t]] # NULL
             => (t = running /\ ~iflag) \/ ctx[t] = "dead")'
      BY <1>1, <1>2, <1>9, <1>10, Zenon DEF TaskOk, KillsOk, Leaves
    <3>. QED
      BY <3>1, <3>2, <3>3, ZenonT(30) DEF KillsOk
  <2>3. KernelOk(t)'
    BY <1>2, <1>9, <1>10 DEF TaskOk, KernelOk, OfKernel
  <2>. QED
    BY <2>1, <2>2, <2>3, Zenon DEF TaskOk
<1>15. TaskOk(n)'
  <2>1. ContextOk(n)'
    BY <1>4, <1>9, <1>10, Zenon DEF ContextOk
  <2>2. KillsOk(n)'
    <3>1. CASE c = "dead"
      <4>1. back = o
        BY <3>1, Zenon DEF back
      <4>2. /\ pc'[n] = "spin" \/ FrameOk([pc |-> pc'[n], victim |-> victim'[n]])
            /\ \A i \in 1..Len(frames'[n]) : FrameOk(frames'[n][i])
        BY <1>5, <1>9, <4>1, ZenonT(30)
      <4>. QED
        BY <1>10, <4>2, ZenonT(30) DEF KillsOk, KillOk, FrameOk
    <3>2. CASE c = "block"
      <4>1. pc'[n] \in {"user", "login"} /\ frames'[n] = frames[n]
        BY <1>9, <3>2, ZenonT(30) DEF back, Return
      <4>. QED
        BY <1>2, <1>10, <4>1, ZenonT(30) DEF TaskOk, KillsOk, KillOk, FrameOk
    <3>3. CASE c \in {"irq", "child"}
      <4>1. pc'[n] = pc[n] /\ frames'[n] = frames[n] /\ victim'[n] = victim[n]
        BY <1>9, <3>3, Zenon DEF back
      <4>. QED
        BY <1>2, <1>10, <3>3, <4>1, ZenonT(30) DEF TaskOk, KillsOk, KillOk, FrameOk, c
    <3>. QED
      BY <1>3, <3>1, <3>2, <3>3, Zenon
  <2>3. KernelOk(n)'
    <3>1. ASSUME NEW labels, OfKernel(n, labels), "spin" \in labels,
                 c = "block" => "login" \in labels
          PROVE  OfKernel(n, labels)'
      <4>1. ring'[n] = 0 /\ Return(n) = "login"
        BY <1>10, <3>1, SMTT(30) DEF OfKernel, Return
      <4>2. CASE c = "dead"
        BY <1>5, <1>9, <3>1, <4>1, <4>2, ZenonT(30) DEF back, OfKernel
      <4>3. CASE c # "dead"
        <5>1. /\ pc'[n] = IF c = "block" THEN "login" ELSE pc[n]
              /\ frames'[n] = frames[n] /\ victim'[n] = victim[n]
          BY <1>9, <4>1, <4>3, Zenon DEF back
        <5>. QED
          BY <3>1, <4>1, <5>1, ZenonT(30) DEF OfKernel
      <4>. QED
        BY <4>2, <4>3, Zenon
    <3>2. n = main => c # "block"
      BY <1>2, Zenon DEF TaskOk, ContextOk, KernelOk, OfKernel, MainLabels, c
    <3>3. n = main => OfKernel(n, MainLabels)'
      <4>1. n = main => OfKernel(n, MainLabels) /\ "spin" \in MainLabels
        BY <1>2, Zenon DEF TaskOk, KernelOk, MainLabels
      <4>. QED
        BY <3>1, <3>2, <4>1, Zenon
    <3>4. n = login => OfKernel(n, LoginLabels)'
      <4>1. n = login => OfKernel(n, LoginLabels)
        BY <1>2, Zenon DEF TaskOk, KernelOk
      <4>2. "spin" \in LoginLabels /\ "login" \in LoginLabels
        BY Zenon DEF LoginLabels
      <4>. QED
        BY <3>1, <4>1, <4>2, Zenon
    <3>. QED
      BY <3>3, <3>4, Zenon DEF KernelOk
  <2>. QED
    BY <2>1, <2>2, <2>3, Zenon DEF TaskOk
<1>16. LocksLeft'
  <2>1. Cardinality(Awake) \in Nat /\ locks \in Nat
    BY AwakeFacts, ZenonT(30) DEF TaskInv, TypeOK
  <2>2. (ctx'[login] = "dead" \/ pc'[login] = "unlink")
           => ctx[login] = "dead" \/ pc[login] = "unlink"
    <3>1. CASE login = n
      <4>1. parent[login] = main /\ main # NULL /\ OfKernel(n, LoginLabels)
        BY <1>2, <3>1, CreatedFacts, Zenon DEF TaskInv, Kernels, TaskOk, KernelOk
      <4>2. CASE c = "dead"
        BY <3>1, <4>2, Zenon DEF c
      <4>3. CASE c # "dead"
        <5>1. pc'[n] = IF c = "block" THEN Return(n) ELSE pc[n]
          BY <1>9, <4>3, ZenonT(30) DEF back
        <5>. QED
          BY <1>9, <3>1, <5>1, Zenon DEF Return
      <4>. QED
        BY <4>2, <4>3, Zenon
    <3>2. CASE login = t
      BY <1>1, <1>9, <3>2, Zenon DEF Leaves
    <3>3. CASE login # n /\ login # t
      BY <1>9, <3>3, CreatedFacts, ZenonT(30) DEF TaskInv
    <3>. QED
      BY <3>1, <3>2, <3>3, Zenon
  <2>3. locks + 1 >= Cardinality(Awake)
    BY ZenonT(30) DEF TaskInv, LocksLeft
  <2>4. ctx[login] = "dead" \/ pc[login] = "unlink" => locks >= Cardinality(Awake)
    BY ZenonT(30) DEF TaskInv, LocksLeft
  <2>5. /\ locks' + 1 >= Cardinality(Awake)'
        /\ locks >= Cardinality(Awake) => locks' >= Cardinality(Awake)'
    BY <1>11, <2>1, <2>3, SMTT(30)
  <2>. QED
    BY <2>2, <2>4, <2>5, ZenonT(30) DEF LocksLeft
<1>17. \A u \in Pids : TaskOk(u)'
  BY <1>13, <1>14, <1>15, Zenon
<1>18. Boot'
  <2>1. main \in Pids /\ login \in Pids /\ PIDS # 2
    BY <1>1, CreatedFacts, SMTT(30) DEF TaskInv, Shape, Created
  <2>2. pc[main] # "boot" /\ \A i \in 1..Len(frames[main]) : frames[main][i].pc # "boot"
    BY <2>1, Zenon DEF TaskInv, Boot
  <2>3. pc'[main] # "boot" /\ \A i \in 1..Len(frames'[main]) : frames'[main][i].pc # "boot"
    <3>1. CASE n = main /\ c = "dead"
      <4>1. OfKernel(n, MainLabels \ {"boot"})
        BY <1>2, <2>2, <3>1, Zenon DEF TaskOk, KernelOk, OfKernel
      <4>2. "spin" \in MainLabels \ {"boot"}
        BY Zenon DEF MainLabels
      <4>3. pc'[n] = o.pc /\ frames'[n] = o.frames
        BY <1>9, <3>1, ZenonT(30) DEF back
      <4>. QED
        BY <1>5, <3>1, <4>1, <4>2, <4>3
    <3>2. CASE n = main /\ c # "dead"
      <4>1. pc'[n] \in {pc[n], Return(n)} /\ frames'[n] = frames[n]
        BY <1>9, <3>2, ZenonT(30) DEF back
      <4>. QED
        BY <2>2, <3>2, <4>1, ZenonT(30) DEF Return
    <3>3. CASE n # main
      BY <1>9, <2>1, <2>2, <3>3
    <3>. QED
      BY <3>1, <3>2, <3>3, Zenon
  <2>4. ctx'[login] = "child" => PIDS' = 3
    BY <1>1, <1>9, <2>1, Zenon DEF TaskInv, Boot
  <2>. QED
    BY <2>3, <2>4, Zenon DEF Boot
<1>. QED
  BY <1>2, <1>4, <1>8, <1>11, <1>12, <1>16, <1>17, <1>18, SMTT(30)
-----------------------------------------------------------------------------
\* A step of the running task that switches to no other task.
LEMMA Stays ==
  ASSUME TaskInv, NEW t \in Pids, t = running, TypeOK',
         UNCHANGED <<running, PIDS, parent, ctx>>, zombie \subseteq zombie',
         Shape', main \notin Blocked',
         \A u \in Pids \ {t} : /\ pc'[u] = pc[u] /\ victim'[u] = victim[u]
                               /\ frames'[u] = frames[u] /\ ring'[u] = ring[u],
         KillsOk(t)', KernelOk(t)',
         t = main => /\ pc'[t] # "boot"
                     /\ \A i \in 1..Len(frames'[t]) : frames'[t][i].pc = "boot" => PIDS = 2,
         locks' >= locks,
         pc'[login] = "unlink" => pc[login] = "unlink" \/ locks' >= locks + 1
  PROVE  TaskInv'
<1>1. Created' = Created /\ main \in Pids
  BY CreatedFacts, ZenonT(30) DEF TaskInv, Created
<1>2. ContextOk(t)'
  BY <1>1, AwakeFacts, ZenonT(30) DEF TaskInv, TaskOk, ContextOk
<1>3. \A u \in Pids : TaskOk(u)'
  <2>1. ASSUME NEW u \in Pids, u # t PROVE TaskOk(u)'
    BY <1>1, <2>1, OtherTask, ZenonT(30)
  <2>. QED
    BY <1>2, <2>1, ZenonT(30) DEF TaskOk
<1>4. Kernels' /\ Boot'
  BY <1>1, ZenonT(30) DEF TaskInv, Kernels, Boot
<1>5. LocksLeft'
  <2>1. Awake' = Awake
    BY <1>1, Zenon DEF Awake
  <2>2. Cardinality(Awake) \in Nat /\ locks \in Nat /\ locks' \in Nat
    BY AwakeFacts, ZenonT(30) DEF TaskInv, TypeOK
  <2>. QED
    BY <2>1, <2>2 DEF TaskInv, LocksLeft
<1>. QED
  BY <1>3, <1>4, <1>5, ZenonT(30) DEF TaskInv

\* A step that leaves the lists alone.
LEMMA SameLists ==
  ASSUME TaskInv, UNCHANGED <<lists, running, PIDS>>, zombie \subseteq zombie'
  PROVE  Shape' /\ main \notin Blocked'
<1>1. Created' = Created /\ Ready' = Ready /\ Blocked' = Blocked
  BY Zenon DEF Created, Ready, Blocked, lists
<1>. QED
  BY <1>1, ZenonT(30) DEF TaskInv, Shape, Kernels, lists

\* What the running task's label says: main and the login task are never in a
\* program, nor in the system calls that only programs make.
LEMMA KernelTasks ==
  ASSUME TaskInv, NEW t \in Pids
  PROVE  /\ pc[t] \in {"exec", "user", "read", "fork"} => t # main /\ t # login
         /\ pc[t] \in {"login", "wait", "block", "yield"} => t # main
         /\ pc[t] = "boot" => t # login
         /\ t \in {main, login} => ring[t] = 0 /\ Return(t) = "login"
         /\ t \in {main, login} /\ pc[t] \in {"kill", "resume", "unlink"} => victim[t] = t
<1>1. KernelOk(t)
  BY Zenon DEF TaskInv, TaskOk
<1>. QED
  BY <1>1 DEF KernelOk, OfKernel, MainLabels, LoginLabels, Return

\* A step of a program.
LEMMA ProgramStays ==
  ASSUME TaskInv, NEW t \in Pids, Runs(t, "user"), TypeOK',
         UNCHANGED <<lists, running, PIDS, zombie, parent, ctx, locks, frames, ring>>,
         pc' = [pc EXCEPT ![t] = pc'[t]], victim' = [victim EXCEPT ![t] = victim'[t]],
         pc'[t] \notin {"resume", "unlink"}, pc'[t] = "kill" => victim'[t] \in Created
  PROVE  TaskInv'
<1>1. t # main /\ t # login /\ t = running /\ pc[t] = "user" /\ TaskOk(t)
  BY KernelTasks, Zenon DEF Runs, TaskInv
<1>2. /\ pc \in [Pids -> Labels] /\ victim \in [Pids -> Pids \union {NULL}]
      /\ login \in Pids /\ locks \in Nat
  BY CreatedFacts, ZenonT(30) DEF TaskInv, TypeOK
<1>3. \A u \in Pids \ {t} : pc'[u] = pc[u] /\ victim'[u] = victim[u]
  BY <1>2, Zenon
<1>4. KernelOk(t)'
  BY <1>1, Zenon DEF KernelOk
<1>5. KillsOk(t)'
  <2>1. \A i \in 1..Len(frames[t]) : FrameOk(frames[t][i])
    BY <1>1, ZenonT(30) DEF TaskOk, KillsOk
  <2>2. Created' = Created
    BY Zenon DEF Created
  <2>3. (\A i \in 1..Len(frames[t]) : FrameOk(frames[t][i]))'
    BY <2>1, <2>2, ZenonT(30) DEF FrameOk, KillOk
  <2>. QED
    BY <2>2, <2>3, ZenonT(30) DEF KillsOk, KillOk
<1>. QED
  BY <1>1, <1>2, <1>3, <1>4, <1>5, SameLists, Stays

\* syscall_handler keeps the invariant.
LEMMA SyscallInv ==
  ASSUME TaskInv, NEW t \in Pids, NEW call \in {"user", "read", "fork", "wait", "kill"},
         NEW v \in Created \union {NULL}, call = "kill" => v # NULL,
         syscall_handler(t, call, v), hits' \in 0..MaxHits
  PROVE  TaskInv'
<1>1. v \in Pids \union {NULL} /\ NULL \notin Pids
  BY CreatedFacts, Zenon DEF TaskInv
<1>2. TypeOK'
  BY <1>1, Zenon DEF TaskInv, TypeOK, syscall_handler, end_of_interrupt, Labels, lists, family
<1>3. /\ Runs(t, "user")
      /\ UNCHANGED <<lists, running, PIDS, zombie, parent, ctx, locks, frames, ring>>
      /\ pc' = [pc EXCEPT ![t] = call] /\ victim' = [victim EXCEPT ![t] = v]
  BY Zenon DEF syscall_handler, family
<1>4. pc'[t] = call /\ victim'[t] = v
  BY <1>3, Zenon DEF TaskInv, TypeOK
<1>. QED
  BY <1>2, <1>3, <1>4, ProgramStays, ZenonT(30)

\* So do the system calls a program makes.
LEMMA ProgramInv ==
  ASSUME TaskInv, NEW t \in Pids, Program(t)
  PROVE  TaskInv'
<1>1. hits \in 0..MaxHits /\ MaxHits \in Nat /\ running \in Created
  BY PidsAssumption, TaskingAssumption, Zenon DEF TaskInv, TypeOK, Shape
<1>2. CASE sys_other(t)
  BY <1>1, <1>2, SyscallInv, Zenon DEF sys_other
<1>3. CASE sys_read(t)
  BY <1>1, <1>3, SyscallInv, Zenon DEF sys_read
<1>4. CASE sys_fork(t)
  BY <1>1, <1>4, SyscallInv, Zenon DEF sys_fork
<1>5. CASE sys_wait(t)
  BY <1>1, <1>5, SyscallInv, Zenon DEF sys_wait
<1>6. CASE sys_exit(t)
  <2>1. t \in Created /\ t # NULL
    BY <1>1, <1>6, PidFacts, Zenon DEF sys_exit, syscall_handler, Runs
  <2>. QED
    BY <1>1, <1>6, <2>1, SyscallInv, Zenon DEF sys_exit
<1>7. ASSUME NEW v \in Pids, sys_kill(t, v) PROVE TaskInv'
  <2>1. v \in Created /\ v # NULL /\ hits' \in 0..MaxHits
    BY <1>1, <1>7, PidFacts, ListTypes, SMTT(30) DEF sys_kill
  <2>. QED
    BY <1>7, <2>1, SyscallInv, Zenon DEF sys_kill
<1>. QED
  BY <1>2, <1>3, <1>4, <1>5, <1>6, <1>7, Zenon DEF Program

\* A step of the running task in the kernel that only moves it to a label where
\* it kills no one.
LEMMA LabelStays ==
  ASSUME TaskInv, NEW t \in Pids, t = running, TypeOK', NEW x,
         UNCHANGED <<running, PIDS, zombie, parent, ctx, frames, victim>>,
         Shape', main \notin Blocked',
         locks' >= locks, pc' = [pc EXCEPT ![t] = x],
         \A u \in Pids \ {t} : ring'[u] = ring[u],
         x \notin {"kill", "resume", "unlink"},
         t \in {main, login} => ring'[t] = ring[t],
         t # main, t = login => x \in LoginLabels
  PROVE  TaskInv'
<1>1. TaskOk(t) /\ login \in Pids
  BY CreatedFacts, Zenon DEF TaskInv
<1>2. pc'[t] = x /\ \A u \in Pids \ {t} : pc'[u] = pc[u]
  BY ZenonT(30) DEF TaskInv, TypeOK
<1>3. KernelOk(t)'
  BY <1>1, <1>2, ZenonT(30) DEF TaskOk, KernelOk, OfKernel
<1>4. KillsOk(t)'
  <2>1. \A i \in 1..Len(frames[t]) : FrameOk(frames[t][i])
    BY <1>1, Zenon DEF TaskOk, KillsOk
  <2>2. Created' = Created
    BY Zenon DEF Created
  <2>3. (\A i \in 1..Len(frames[t]) : FrameOk(frames[t][i]))'
    BY <2>1, <2>2, Zenon DEF FrameOk, KillOk
  <2>. QED
    BY <1>2, <2>3, Zenon DEF KillsOk, KillOk
<1>. QED
  BY <1>1, <1>2, <1>3, <1>4, Stays, Zenon

\* execve_user.
LEMMA ExecInv ==
  ASSUME TaskInv, NEW t \in Pids, execve_user(t)
  PROVE  TaskInv'
<1>1. t = running /\ t # main /\ t # login
  BY KernelTasks, Zenon DEF execve_user, Runs
<1>2. PICK x \in {"user", "login"} : pc' = [pc EXCEPT ![t] = x]
  BY Zenon DEF execve_user
<1>3. \A u \in Pids \ {t} : ring'[u] = ring[u]
  BY Zenon DEF execve_user, TaskInv, TypeOK
<1>4. TypeOK'
  BY Zenon DEF TaskInv, TypeOK, execve_user, end_of_interrupt, Labels, lists, tally
<1>5. /\ UNCHANGED <<lists, running, PIDS, zombie, parent, ctx, frames, victim>>
      /\ locks' >= locks
  BY DEF execve_user, TaskInv, TypeOK
<1>. QED
  BY <1>1, <1>2, <1>3, <1>4, <1>5, LabelStays, SameLists, ZenonT(30)

\* pipe_read_raw.
LEMMA ReadInv ==
  ASSUME TaskInv, NEW t \in Pids, pipe_read_raw(t)
  PROVE  TaskInv'
<1>1. t = running /\ t # main /\ t # login
  BY KernelTasks, Zenon DEF pipe_read_raw, Runs
<1>2. TypeOK'
  BY Zenon DEF TaskInv, TypeOK, pipe_read_raw, end_of_interrupt, Labels, lists, family, tally
<1>3. /\ UNCHANGED <<lists, running, PIDS, zombie, parent, ctx, frames, victim, ring>>
      /\ locks' >= locks /\ pc' = [pc EXCEPT ![t] = "user"]
  BY DEF pipe_read_raw, TaskInv, TypeOK, family
<1>. QED
  BY <1>1, <1>2, <1>3, LabelStays, SameLists, ZenonT(30)

\* page_fault.
LEMMA FaultInv ==
  ASSUME TaskInv, NEW t \in Pids, page_fault(t)
  PROVE  TaskInv'
<1>1. t = running /\ t # main /\ t # login
  BY KernelTasks, Zenon DEF page_fault, Runs
<1>2. TypeOK'
  BY ZenonT(30) DEF TaskInv, TypeOK, page_fault, Labels, lists, family, tally
<1>3. /\ UNCHANGED <<lists, running, PIDS, zombie, parent, ctx, frames, victim, ring>>
      /\ locks' >= locks /\ pc' = [pc EXCEPT ![t] = "spin"]
  BY SMTT(30) DEF page_fault, TaskInv, TypeOK, family
<1>. QED
  BY <1>1, <1>2, <1>3, LabelStays, SameLists, ZenonT(30)

\* task_wait.
LEMMA WaitInv ==
  ASSUME TaskInv, NEW t \in Pids, task_wait(t)
  PROVE  TaskInv'
<1>1. t = running /\ t # main /\ (t = login => Return(t) = "login")
  BY KernelTasks, Zenon DEF task_wait, Runs
<1>2. PICK x \in {"block", Return(t)} : pc' = [pc EXCEPT ![t] = x]
  BY ZenonT(30) DEF task_wait
<1>3. TypeOK'
  BY Zenon DEF TaskInv, TypeOK, task_wait, Return, Labels, lists, family, tally
<1>4. /\ UNCHANGED <<lists, running, PIDS, zombie, parent, ctx, frames, victim, ring>>
      /\ locks' >= locks
  BY DEF task_wait, TaskInv, TypeOK, family
<1>5. x \notin {"kill", "resume", "unlink"} /\ (t = login => x \in LoginLabels)
  BY <1>1, <1>2, Zenon DEF Return, LoginLabels
<1>. QED
  BY <1>1, <1>2, <1>3, <1>4, <1>5, LabelStays, SameLists, ZenonT(30)

\* send_sig: what was interrupted becomes a frame.
LEMMA SignalInv ==
  ASSUME TaskInv, NEW t \in Pids, send_sig(t)
  PROVE  TaskInv'
<1>f. PICK f : f = [pc |-> pc[t], victim |-> victim[t]]
  BY Zenon
<1>q. PICK q : q = <<f>> \o frames[t]
  BY ZenonT(30)
<1>1. t = running /\ TaskOk(t) /\ iflag /\ t \in Created /\ ctx[t] = "none"
  BY AwakeFacts, Zenon DEF send_sig, TaskInv, Shape
<1>2. f \in Frame /\ frames \in [Pids -> Seq(Frame)] /\ login \in Pids /\ locks \in Nat
  BY <1>f, CreatedFacts, ZenonT(30) DEF TaskInv, TypeOK, Frame
<1>3. /\ q \in Seq(Frame) /\ Len(q) = Len(frames[t]) + 1 /\ Len(frames[t]) \in Nat
      /\ q[1] = f /\ \A i \in 1..Len(frames[t]) : q[i+1] = frames[t][i]
  <2>1. frames[t] \in Seq(Frame)
    BY <1>2, Zenon
  <2>. QED
    BY <1>q, <1>2, <2>1, SMTT(30)
<1>4. \A i \in 1..Len(q) : q[i] = f \/ \E j \in 1..Len(frames[t]) : q[i] = frames[t][j]
  <2>1. ASSUME NEW i \in 1..Len(q), i # 1 PROVE \E j \in 1..Len(frames[t]) : q[i] = frames[t][j]
    <3>1. i - 1 \in 1..Len(frames[t]) /\ (i - 1) + 1 = i
      BY <1>3, <2>1, SMTT(30)
    <3>. QED
      BY <1>3, <3>1, Zenon
  <2>. QED
    BY <1>3, <2>1, Zenon
<1>5. /\ frames' = [frames EXCEPT ![t] = q] /\ pc' = [pc EXCEPT ![t] = "kill"]
      /\ victim' = [victim EXCEPT ![t] = t]
      /\ UNCHANGED <<lists, running, PIDS, zombie, parent, ctx, locks, iflag, ring,
                     childamount, fault>>
      /\ inservice' = {KEYBOARD} /\ hits' = hits + 1 /\ hits < MaxHits
  BY <1>f, <1>q, Zenon DEF send_sig, family
<1>6. /\ frames'[t] = q /\ pc'[t] = "kill" /\ victim'[t] = t
      /\ \A u \in Pids \ {t} : /\ pc'[u] = pc[u] /\ victim'[u] = victim[u]
                               /\ frames'[u] = frames[u]
  BY <1>2, <1>5, ZenonT(30) DEF TaskInv, TypeOK
<1>7. frames' \in [Pids -> Seq(Frame)]
  BY <1>2, <1>3, <1>5, Zenon
<1>8. TypeOK'
  <2>1. hits' \in 0..MaxHits
    BY <1>5, PidsAssumption, TaskingAssumption, SMTT(30) DEF TaskInv, TypeOK
  <2>2. pc' \in [Pids -> Labels] /\ victim' \in [Pids -> Pids \union {NULL}]
    BY <1>5, Zenon DEF TaskInv, TypeOK, Labels
  <2>. QED
    BY <1>5, <1>7, <2>1, <2>2, ZenonT(30) DEF TaskInv, TypeOK, Frame, lists
<1>9. Created' = Created
  BY <1>5, Zenon DEF Created
<1>10. FrameOk(f)
  BY <1>f, <1>1, ZenonT(30) DEF TaskOk, KillsOk, FrameOk, KillOk
<1>11. KillsOk(t)'
  <2>1. \A i \in 1..Len(q) : FrameOk(q[i])
    <3>1. \A j \in 1..Len(frames[t]) : FrameOk(frames[t][j])
      BY <1>1, Zenon DEF TaskOk, KillsOk
    <3>. QED
      BY <1>4, <1>10, <3>1, Zenon
  <2>2. \A i \in 1..Len(q) : FrameOk(q[i])'
    BY <1>5, <1>9, <2>1, Zenon DEF FrameOk, KillOk
  <2>. QED
    BY <1>1, <1>6, <1>9, <2>2, ZenonT(30) DEF KillsOk, KillOk
<1>12. KernelOk(t)'
  <2>1. ASSUME NEW labels, OfKernel(t, labels), "kill" \in labels
        PROVE  OfKernel(t, labels)'
    BY <1>f, <1>4, <1>5, <1>6, <2>1 DEF OfKernel
  <2>. QED
    BY <1>1, <2>1, Zenon DEF TaskOk, KernelOk, MainLabels, LoginLabels
<1>13. t = main => \A i \in 1..Len(q) : q[i].pc = "boot" => PIDS = 2
  BY <1>f, <1>4 DEF TaskInv, Boot
<1>14. Shape' /\ main \notin Blocked'
  BY <1>5, SameLists, Zenon
<1>. QED
  BY <1>1, <1>2, <1>5, <1>6, <1>8, <1>11, <1>12, <1>13, <1>14, Stays

\* The frames of a task stay right while no task is forked.
LEMMA FramesStay ==
  ASSUME TaskInv, NEW t \in Pids, UNCHANGED <<PIDS, parent>>, zombie \subseteq zombie',
         frames'[t] = frames[t]
  PROVE  (\A i \in 1..Len(frames[t]) : FrameOk(frames[t][i]))'
<1>1. \A i \in 1..Len(frames[t]) : FrameOk(frames[t][i])
  BY ZenonT(30) DEF TaskInv, TaskOk, KillsOk
<1>2. Created' = Created
  BY Zenon DEF Created
<1>. QED
  BY <1>1, <1>2, Zenon DEF FrameOk, KillOk

\* The running task moves on in its call of kill_proc.
LEMMA KillMoves ==
  ASSUME TaskInv, NEW t \in Pids, t = running, TypeOK',
         UNCHANGED <<running, PIDS, parent, ctx, ring, victim, frames>>,
         zombie \subseteq zombie', Shape', main \notin Blocked', locks' >= locks,
         pc[t] \in {"kill", "resume"}, victim[t] \in zombie',
         NEW x \in {"resume", "unlink"}, pc' = [pc EXCEPT ![t] = x],
         x = "unlink" /\ parent[victim[t]] # NULL => ~iflag',
         t = login /\ x = "unlink" => locks' >= locks + 1
  PROVE  TaskInv'
<1>1. TaskOk(t) /\ login \in Pids /\ locks \in Nat
  BY CreatedFacts, ZenonT(30) DEF TaskInv, TypeOK
<1>2. pc'[t] = x /\ \A u \in Pids \ {t} : pc'[u] = pc[u]
  BY ZenonT(30) DEF TaskInv, TypeOK
<1>3. KernelOk(t)'
  BY <1>1, <1>2, ZenonT(30) DEF TaskOk, KernelOk, OfKernel, MainLabels, LoginLabels
<1>4. KillsOk(t)'
  <2>1. victim[t] \in Created /\ Created' = Created
    BY <1>1, ZenonT(30) DEF TaskOk, KillsOk, KillOk, Created
  <2>2. (\A i \in 1..Len(frames[t]) : FrameOk(frames[t][i]))'
    BY FramesStay, Zenon
  <2>. QED
    BY <1>2, <2>1, <2>2, ZenonT(30) DEF KillsOk, KillOk
<1>5. t = main => \A i \in 1..Len(frames'[t]) : frames'[t][i].pc = "boot" => PIDS = 2
  BY Zenon DEF TaskInv, Boot
<1>. QED
  BY <1>1, <1>2, <1>3, <1>4, <1>5, Stays, ZenonT(30)

\* The first part of kill_proc.
LEMMA KillInv ==
  ASSUME TaskInv, NEW t \in Pids, kill_proc(t)
  PROVE  TaskInv'
<1>1. t = running /\ pc[t] = "kill" /\ TaskOk(t)
  BY ZenonT(30) DEF kill_proc, Runs, TaskInv
<1>2. victim[t] \in Created /\ victim[t] \in Pids /\ parent[victim[t]] \in Pids \union {NULL}
  <2>1. victim[t] \in Created
    BY <1>1, Zenon DEF TaskOk, KillsOk, KillOk
  <2>2. Created \subseteq Pids
    BY CreatedFacts, Zenon DEF TaskInv
  <2>. QED
    BY <2>1, <2>2, Zenon DEF TaskInv, TypeOK
<1>3. PICK x \in {"resume", "unlink"} :
        /\ pc' = [pc EXCEPT ![t] = x]
        /\ x = "unlink" <=> parent[victim[t]] = NULL
  BY Zenon DEF kill_proc
<1>4. /\ zombie' = zombie \union {victim[t]}
      /\ UNCHANGED <<lists, running, locks, iflag, inservice, PIDS, parent, ring,
                     ctx, victim, frames, tally>>
      /\ childamount' \in {childamount,
                           [childamount EXCEPT ![parent[victim[t]]] = @ - 1]}
  BY Zenon DEF kill_proc
<1>5. TypeOK'
  <2>1. childamount' \in [Pids -> Int]
    BY <1>4, SMTT(30) DEF TaskInv, TypeOK
  <2>2. pc' \in [Pids -> Labels] /\ zombie' \subseteq Pids
    BY <1>2, <1>3, <1>4, Zenon DEF TaskInv, TypeOK, Labels
  <2>. QED
    BY <1>4, <2>1, <2>2, Zenon DEF TaskInv, TypeOK, lists, tally
<1>6. Shape' /\ main \notin Blocked'
  BY <1>4, SameLists, ZenonT(30)
<1>7. t = login => x # "unlink"
  <2>1. t = login => victim[t] = login
    BY <1>1, KernelTasks, Zenon
  <2>2. login \in Created => parent[login] = main /\ main # NULL
    BY CreatedFacts, Zenon DEF TaskInv, Kernels
  <2>. QED
    BY <1>2, <1>3, <2>1, <2>2, Zenon
<1>8. locks' >= locks
  BY <1>4, SMTT(30) DEF TaskInv, TypeOK
<1>9. pc[t] \in {"kill", "resume"} /\ victim[t] \in zombie' /\ zombie \subseteq zombie'
  BY <1>1, <1>4, Zenon
<1>10. x = "unlink" /\ parent[victim[t]] # NULL => ~iflag'
  BY <1>3, Zenon
<1>. QED
  BY <1>1, <1>3, <1>4, <1>5, <1>6, <1>7, <1>8, <1>9, <1>10, KillMoves, ZenonT(30)

\* A task that kills the child of a blocked task runs with the scheduler locked:

\* the login task runs too, or it has left its lock.
LEMMA LockedEnough ==
  ASSUME TaskInv, NEW t \in Pids, t = running, pc[t] = "resume",
         parent[victim[t]] \in Blocked
  PROVE  locks # 0
<1>1. locks \in Nat /\ Cardinality(Awake) \in Nat /\ IsFiniteSet(Awake) /\ t \in Awake
      /\ t \in Created /\ Cardinality(Awake) >= 1
  BY AwakeFacts, ZenonT(30) DEF TaskInv, TypeOK, Shape
<1>2. NULL \notin Blocked /\ main \notin Blocked /\ parent[main] = NULL
      /\ (PIDS > 2 => parent[login] = main)
  BY CreatedFacts, ListTypes, Zenon DEF TaskInv, Kernels
<1>3. t # main /\ t # login
  <2>1. t \in {main, login} => victim[t] = t
    BY KernelTasks, ZenonT(30)
  <2>2. t = login => PIDS > 2
    BY <1>1, CreatedFacts, Zenon DEF TaskInv
  <2>. QED
    BY <1>2, <2>1, <2>2, Zenon
<1>4. PIDS > 3 /\ login \in Created
  BY <1>1, <1>3, PidFacts, SMTT(30) DEF TaskInv, Shape, Created, main, login
<1>5. ctx[login] # "child"
  BY <1>4, SMTT(30) DEF TaskInv, Boot
<1>6. CASE ctx[login] = "dead"
  BY <1>1, <1>6, SMTT(30) DEF TaskInv, LocksLeft
<1>7. CASE ctx[login] # "dead"
  <2>1. login \in Awake \ {t}
    BY <1>3, <1>4, <1>5, <1>7, Zenon DEF Awake
  <2>2. IsFiniteSet(Awake \ {t}) /\ Cardinality(Awake \ {t}) = Cardinality(Awake) - 1
    BY <1>1, FS_RemoveElement, Zenon
  <2>3. Cardinality(Awake \ {t}) # 0
    BY <2>1, <2>2, FS_EmptySet, Zenon
  <2>4. locks + 1 >= Cardinality(Awake)
    BY Zenon DEF TaskInv, LocksLeft
  <2>. QED
    BY <1>1, <2>2, <2>3, <2>4, SMTT(30)
<1>. QED
  BY <1>6, <1>7, Zenon

\* The state after the lists have changed, from what they hold.
LEMMA NewShape ==
  ASSUME TaskInv, PIDS' \in 2..(Cardinality(Pids) + 1), running' \in Created',
         NEW R, NEW B, Lists(Created', ready', blocked', link', R, B),
         ready'.next \in Created' \union {NULL},
         Created' \ zombie' \subseteq R \union B
  PROVE  /\ Shape' /\ Ready' = R /\ Blocked' = B
         /\ ready' \in TaskListType /\ blocked' \in TaskListType
         /\ link' \in [Pids -> Pids \union {NULL}]
<1>1. Members(ready'.head, link') = R /\ Members(blocked'.head, link') = B
      /\ link' \in [Pids -> Pids \union {NULL}]
  BY ListsFacts, ZenonT(30)
<1>2. Ready' = R /\ Blocked' = B
  BY <1>1, Zenon DEF Ready, Blocked
<1>3. ready' \in TaskListType /\ blocked' \in TaskListType
  BY Zenon DEF Lists
<1>. QED
  BY <1>1, <1>2, <1>3, Zenon DEF Shape

\* task_resume: a parent that was blocked is ready, or a lock leaks.
LEMMA ResumeInv ==
  ASSUME TaskInv, NEW t \in Pids, task_resume(t)
  PROVE  TaskInv'
<1>1. t = running /\ pc[t] = "resume" /\ TaskOk(t)
  BY ZenonT(30) DEF task_resume, Runs, TaskInv
<1>2. victim[t] \in zombie
  BY <1>1, Zenon DEF TaskOk, KillsOk, KillOk
<1>3. /\ UNCHANGED <<running, inservice, PIDS, zombie, parent, childamount, ring, ctx,
                     victim, frames, tally>>
      /\ pc' = [pc EXCEPT ![t] = "unlink"]
  BY ZenonT(30) DEF task_resume, family
<1>4. pc' \in [Pids -> Labels] /\ locks \in Nat
  BY <1>3, Zenon DEF TaskInv, TypeOK, Labels
<1>p. PICK p : p = parent[victim[t]]
  BY Zenon
<1>5. CASE p \notin Blocked
  <2>1. locks' = locks + 1 /\ ~iflag' /\ iflag' \in BOOLEAN /\ UNCHANGED lists
    BY <1>p, <1>5, ZenonT(30) DEF task_resume, LeakLock
  <2>2. TypeOK'
    <3>1. locks' \in Nat
      BY <1>4, <2>1, SMTT(30)
    <3>. QED
      BY <1>3, <1>4, <2>1, <3>1, ZenonT(30) DEF TaskInv, TypeOK, lists, tally
  <2>3. Shape' /\ main \notin Blocked'
    BY <1>3, <2>1, SameLists, Zenon
  <2>4. locks' >= locks + 1 /\ locks' >= locks
    BY <1>4, <2>1, SMTT(30)
  <2>. QED
    BY <1>1, <1>2, <1>3, <2>1, <2>2, <2>3, <2>4, KillMoves, ZenonT(30)
<1>6. CASE p \in Blocked
  <2>1. PICK off, on : /\ off = remove_from_list(blocked, link, p)
                       /\ on = add_to_list(ready, off.link, p)
    BY Zenon
  <2>2. /\ blocked' = off.list /\ ready' = on.list /\ link' = on.link
        /\ iflag' = unlock_scheduler(locks) /\ locks' = locks
    BY <1>p, <1>6, <2>1, ZenonT(30) DEF task_resume
  <2>3. /\ Lists(Created, blocked', ready', link', Blocked \ {p}, Ready \union {p})
        /\ ready' = IF ready.head = NULL THEN set_list(p) ELSE ready
    <3>1. Lists(Created, blocked, ready, link, Blocked, Ready)
      BY ListTypes, ZenonT(30)
    <3>2. /\ Lists(Created, off.list, on.list, on.link, Blocked \ {p}, Ready \union {p})
          /\ on.list = IF ready.head = NULL THEN set_list(p) ELSE ready
      <4>1. Moved(Created, blocked, ready, link, Blocked, Ready, p, off, on,
                  Blocked \ {p}, Ready \union {p})
        BY <1>6, <2>1, <3>1, Zenon DEF Moved
      <4>. QED
        BY <4>1, ListsMove
    <3>. QED
      BY <2>2, <3>2, Zenon
  <2>4. Created' = Created /\ p \in Created
    BY <1>3, <1>6, ListTypes, Zenon DEF Created
  <2>5. /\ Shape' /\ Blocked' = Blocked \ {p}
        /\ ready' \in TaskListType /\ blocked' \in TaskListType
        /\ link' \in [Pids -> Pids \union {NULL}]
    <3>1. Lists(Created', ready', blocked', link', Ready \union {p}, Blocked \ {p})
      BY <2>3, <2>4, ListsFacts
    <3>2. ready'.next \in Created' \union {NULL}
      BY <2>3, <2>4, Zenon DEF TaskInv, Shape, set_list
    <3>3. PIDS' \in 2..(Cardinality(Pids) + 1) /\ running' \in Created'
      BY <1>3, <2>4, Zenon DEF TaskInv, Shape
    <3>4. Created' \ zombie' \subseteq (Ready \union {p}) \union (Blocked \ {p})
      BY <1>3, <2>4, ZenonT(30) DEF TaskInv, Shape
    <3>. QED
      BY <3>1, <3>2, <3>3, <3>4, NewShape, Zenon
  <2>6. TypeOK'
    <3>1. iflag' \in BOOLEAN
      BY <2>2, Zenon DEF unlock_scheduler
    <3>. QED
      BY <1>3, <1>4, <2>2, <2>5, <3>1, ZenonT(30) DEF TaskInv, TypeOK, tally
  <2>7. ~iflag'
    BY <1>p, <1>1, <1>6, <2>2, LockedEnough, ZenonT(30) DEF unlock_scheduler
  <2>8. t # login
    <3>1. t = login => victim[t] = login
      BY <1>1, KernelTasks, Zenon
    <3>2. login \in Created => parent[login] = main
      BY CreatedFacts, Zenon DEF TaskInv, Kernels
    <3>3. t \in Created /\ main \notin Blocked
      BY <1>1, ZenonT(30) DEF TaskInv, Shape, Kernels
    <3>. QED
      BY <1>p, <1>6, <3>1, <3>2, <3>3, Zenon
  <2>9. main \notin Blocked' /\ locks' >= locks
    BY <1>4, <2>2, <2>5 DEF TaskInv, Kernels
  <2>. QED
    BY <1>1, <1>2, <1>3, <2>5, <2>6, <2>7, <2>8, <2>9, KillMoves, ZenonT(30)
<1>. QED
  BY <1>5, <1>6, Zenon

\* task_block up to its call of schedule().
LEMMA BlockInv ==
  ASSUME TaskInv, NEW t \in Pids, task_block(t)
  PROVE  TaskInv'
<1>1. /\ t = running /\ pc[t] = "block" /\ t # main
      /\ t = login => Return(t) = "login"
      /\ Return(t) \in {"user", "login"}
  BY KernelTasks, ZenonT(30) DEF task_block, Runs, Return
<1>2. UNCHANGED <<running, inservice, PIDS, zombie, parent, childamount, ring, ctx,
                  victim, frames, tally>>
  BY ZenonT(30) DEF task_block, family
<1>3. locks \in Nat
  BY Zenon DEF TaskInv, TypeOK
<1>4. CASE t \notin Ready
  <2>1. /\ locks' = locks + 1 /\ iflag' \in BOOLEAN /\ UNCHANGED lists
        /\ pc' = [pc EXCEPT ![t] = Return(t)]
    BY <1>4, ZenonT(30) DEF task_block, LeakLock
  <2>2. TypeOK'
    <3>1. locks' \in Nat /\ pc' \in [Pids -> Labels]
      BY <1>1, <1>3, <2>1 DEF TaskInv, TypeOK, Labels
    <3>. QED
      BY <1>2, <2>1, <3>1, Zenon DEF TaskInv, TypeOK, lists, tally
  <2>3. Shape' /\ main \notin Blocked'
    BY <1>2, <2>1, SameLists, Zenon
  <2>4. /\ locks' >= locks
        /\ Return(t) \notin {"kill", "resume", "unlink"}
        /\ t = login => Return(t) \in LoginLabels
    BY <1>1, <1>3, <2>1, SMTT(30) DEF LoginLabels
  <2>. QED
    BY <1>1, <1>2, <2>1, <2>2, <2>3, <2>4, LabelStays, ZenonT(30)
<1>5. CASE t \in Ready
  <2>1. PICK off, on : /\ off = remove_from_list(ready, link, t)
                       /\ on = add_to_list(blocked, off.link, t)
    BY Zenon
  <2>2. /\ ready' = off.list /\ blocked' = on.list /\ link' = on.link
        /\ iflag' = unlock_scheduler(locks) /\ locks' = locks
        /\ pc' = [pc EXCEPT ![t] = "yield"]
    BY <1>5, <2>1, ZenonT(30) DEF task_block
  <2>3. /\ Lists(Created, ready', blocked', link', Ready \ {t}, Blocked \union {t})
        /\ ready' = IF ready.head = t THEN set_list(link[t]) ELSE ready
    <3>1. Lists(Created, ready, blocked, link, Ready, Blocked)
      BY ListTypes, Zenon
    <3>2. /\ Lists(Created, off.list, on.list, on.link, Ready \ {t}, Blocked \union {t})
          /\ off.list = IF ready.head = t THEN set_list(link[t]) ELSE ready
      <4>1. Moved(Created, ready, blocked, link, Ready, Blocked, t, off, on,
                  Ready \ {t}, Blocked \union {t})
        BY <1>5, <2>1, <3>1, Zenon DEF Moved
      <4>. QED
        BY <4>1, ListsMove
    <3>. QED
      BY <2>2, <3>2, ZenonT(30)
  <2>4. Created' = Created
    BY <1>2, Zenon DEF Created
  <2>5. /\ Shape' /\ Blocked' = Blocked \union {t}
        /\ ready' \in TaskListType /\ blocked' \in TaskListType
        /\ link' \in [Pids -> Pids \union {NULL}]
    <3>1. link[t] \in Created \union {NULL}
      BY ListTypes, ZenonT(30) DEF Links
    <3>2. ready'.next \in Created' \union {NULL}
      BY <2>3, <2>4, <3>1, ZenonT(30) DEF TaskInv, Shape, set_list
    <3>3. PIDS' \in 2..(Cardinality(Pids) + 1) /\ running' \in Created'
      BY <1>2, <2>4, Zenon DEF TaskInv, Shape
    <3>4. Created' \ zombie' \subseteq (Ready \ {t}) \union (Blocked \union {t})
      BY <1>2, <2>4, ZenonT(30) DEF TaskInv, Shape
    <3>. QED
      BY <2>3, <2>4, <3>2, <3>3, <3>4, NewShape, ZenonT(30)
  <2>6. TypeOK'
    <3>1. iflag' \in BOOLEAN /\ pc' \in [Pids -> Labels]
      BY <2>2, ZenonT(30) DEF unlock_scheduler, TaskInv, TypeOK, Labels
    <3>. QED
      BY <1>2, <2>2, <2>5, <3>1, ZenonT(30) DEF TaskInv, TypeOK, tally
  <2>7. main \notin Blocked' /\ locks' >= locks /\ "yield" \in LoginLabels
    BY <1>1, <1>3, <2>2, <2>5 DEF TaskInv, Kernels, LoginLabels
  <2>. QED
    BY <1>1, <1>2, <2>2, <2>5, <2>6, <2>7, LabelStays, ZenonT(30)
<1>. QED
  BY <1>4, <1>5, Zenon

-----------------------------------------------------------------------------
\* The task at the cursor, or the first, is a task.
LEMMA CursorFacts ==
  ASSUME TaskInv, ready.head # NULL
  PROVE  /\ NextTask(ready) \in Created /\ NextTask(ready) \in Pids
         /\ link[NextTask(ready)] \in Created \union {NULL}
<1>1. NextTask(ready) \in Created
  BY ListTypes, ZenonT(30) DEF TaskInv, Shape, NextTask
<1>2. Created \subseteq Pids
  BY CreatedFacts, Zenon DEF TaskInv
<1>. QED
  BY <1>1, <1>2, ListTypes, ZenonT(30) DEF Links

\* schedule() moves the cursor to a task or to NULL.
LEMMA AdvanceShape ==
  ASSUME TaskInv, ready.head # NULL, ready' = Advanced(ready, link),
         UNCHANGED <<blocked, link, PIDS, zombie>>, running' \in Created
  PROVE  /\ Shape' /\ Ready' = Ready /\ Blocked' = Blocked
         /\ ready' \in TaskListType
<1>1. Created' = Created /\ ready \in TaskListType /\ blocked \in TaskListType
      /\ Created \subseteq Pids
  BY CreatedFacts, ZenonT(30) DEF Created, TaskInv, TypeOK
<1>2. ready'.head = ready.head /\ ready'.next = link[NextTask(ready)]
  BY <1>1, Zenon DEF Advanced, TaskListType
<1>3. ready' \in TaskListType
  BY <1>1, <1>2, CursorFacts, Zenon DEF Advanced, TaskListType
<1>4. Lists(Created', ready', blocked', link', Ready, Blocked)
  BY <1>1, <1>2, <1>3, ListTypes, ZenonT(30) DEF Lists
<1>5. /\ ready'.next \in Created' \union {NULL}
      /\ PIDS' \in 2..(Cardinality(Pids) + 1) /\ running' \in Created'
      /\ Created' \ zombie' \subseteq Ready \union Blocked
  BY <1>1, <1>2, CursorFacts, ZenonT(30) DEF TaskInv, Shape
<1>. QED
  BY <1>3, <1>4, <1>5, NewShape, ZenonT(30)

\* Only the cursor or the fault changes.
LEMMA SameTasks ==
  ASSUME TaskInv, TypeOK', Shape', Blocked' = Blocked,
         UNCHANGED <<running, locks, iflag, PIDS, zombie, parent, ring, pc, ctx, victim, frames>>
  PROVE  TaskInv'
<1>1. Created' = Created
  BY Zenon DEF Created
<1>2. Kernels' /\ Boot'
  BY ZenonT(30) DEF TaskInv, Kernels, Boot
<1>3. LocksLeft'
  <2>1. Awake' = Awake
    BY <1>1, Zenon DEF Awake
  <2>. QED
    BY <2>1, ZenonT(30) DEF TaskInv, LocksLeft
<1>4. ASSUME NEW u \in Pids PROVE TaskOk(u)'
  BY <1>1, ZenonT(30) DEF TaskInv, TaskOk, ContextOk, KillsOk, KillOk, FrameOk, KernelOk, OfKernel
<1>. QED
  BY <1>2, <1>3, <1>4, Zenon DEF TaskInv

\* The cursor is read through NULL.
LEMMA RunOffInv ==
  ASSUME TaskInv, RunOff
  PROVE  TaskInv'
<1>1. /\ UNCHANGED <<ready, blocked, link, running, locks, iflag, inservice, PIDS, zombie,
                     parent, childamount, ring, pc, ctx, victim, frames, hits>>
      /\ fault' = TRUE
  BY ZenonT(30) DEF RunOff, family
<1>2. TypeOK'
  BY <1>1, ZenonT(30) DEF TaskInv, TypeOK
<1>3. Created' = Created /\ Ready' = Ready /\ Blocked' = Blocked
  BY <1>1, ZenonT(30) DEF Created, Ready, Blocked
<1>4. Shape'
  BY <1>1, <1>3, ZenonT(30) DEF TaskInv, Shape
<1>. QED
  BY <1>1, <1>2, <1>3, <1>4, SameTasks, ZenonT(30)

\* A step of another part of the kernel.
LEMMA TaskStutter ==
  ASSUME TaskInv, UNCHANGED vars
  PROVE  TaskInv'
<1>1. UNCHANGED <<ready, blocked, link, running, locks, iflag, inservice, PIDS, zombie,
                  parent, childamount, ring, pc, ctx, victim, frames, hits, fault>>
  BY Zenon DEF vars
<1>2. TypeOK'
  BY <1>1, ZenonT(30) DEF TaskInv, TypeOK
<1>3. Created' = Created /\ Ready' = Ready /\ Blocked' = Blocked
  BY <1>1, ZenonT(30) DEF Created, Ready, Blocked
<1>4. Shape'
  BY <1>1, <1>3, ZenonT(30) DEF TaskInv, Shape
<1>. QED
  BY <1>1, <1>2, <1>3, <1>4, SameTasks, Zenon

\* schedule() switches to the task at the cursor.
LEMMA SwitchInv ==
  ASSUME TaskInv, NEW t \in Pids, t = running, NEW n \in Created, n # t,
         NEW how \in {"irq", "block"}, Leaves(how),
         NEW served \in SUBSET {TIMER, KEYBOARD},
         switch_task(t, n, how, locks + 1, served),
         ready.head # NULL, ready' = Advanced(ready, link),
         UNCHANGED <<blocked, link, PIDS, zombie, parent, childamount, ring, tally>>
  PROVE  TaskInv'
<1>1. (IF how = "dead" THEN locks ELSE locks + 1) = locks + 1
  BY Zenon
<1>2. /\ running' = n /\ n \in Pids /\ locks' \in Nat /\ iflag' \in BOOLEAN
      /\ inservice' \in SUBSET {TIMER, KEYBOARD}
      /\ pc' \in [Pids -> Labels]
      /\ ctx' \in [Pids -> {"none", "irq", "block", "child", "dead"}]
      /\ victim' \in [Pids -> Pids \union {NULL}]
      /\ frames' \in [Pids -> Seq(Frame)]
      /\ \A u \in Pids : TaskOk(u)'
      /\ LocksLeft' /\ Boot'
  BY <1>1, SwitchFacts, ZenonT(30)
<1>3. Shape' /\ Blocked' = Blocked /\ ready' \in TaskListType
  BY <1>2, AdvanceShape, ZenonT(30)
<1>4. TypeOK'
  BY <1>2, <1>3, ZenonT(30) DEF TaskInv, TypeOK, tally, Frame
<1>5. Kernels'
  BY <1>3, ZenonT(30) DEF TaskInv, Kernels
<1>. QED
  BY <1>2, <1>3, <1>4, <1>5, ZenonT(30) DEF TaskInv

\* The timer interrupt keeps the invariant.
LEMMA TimerInv ==
  ASSUME TaskInv, NEW t \in Pids, timer_callback(t)
  PROVE  TaskInv'
<1>1. CASE RunOff
  BY <1>1, RunOffInv, Zenon
<1>2. CASE ~RunOff
  <2>1. PICK n : n = NextTask(ready)
    BY Zenon
  <2>2. /\ t = running /\ iflag /\ ready.head # NULL /\ ready' = Advanced(ready, link)
        /\ UNCHANGED <<blocked, link, PIDS, zombie, parent, childamount, ring, tally>>
    BY <1>2, ZenonT(30) DEF timer_callback, family
  <2>3. n \in Created /\ n \in Pids
    BY <2>1, <2>2, CursorFacts, Zenon
  <2>4. CASE n = t
    <3>1. UNCHANGED <<running, locks, iflag, inservice, pc, ctx, victim, frames>>
      BY <1>2, <2>1, <2>4, ZenonT(30) DEF timer_callback
    <3>2. running' \in Created
      BY <3>1, Zenon DEF TaskInv, Shape
    <3>3. Shape' /\ Blocked' = Blocked /\ ready' \in TaskListType
      BY <2>2, <3>2, AdvanceShape, Zenon
    <3>4. TypeOK'
      BY <2>2, <3>1, <3>3, ZenonT(30) DEF TaskInv, TypeOK, tally
    <3>. QED
      BY <2>2, <3>1, <3>3, <3>4, SameTasks, Zenon
  <2>5. CASE n # t
    <3>1. switch_task(t, n, "irq", locks + 1, inservice \union {TIMER})
      BY <1>2, <2>1, <2>5, Zenon DEF timer_callback
    <3>2. Leaves("irq") /\ inservice \union {TIMER} \in SUBSET {TIMER, KEYBOARD}
      BY <2>2, ZenonT(30) DEF Leaves, TaskInv, TypeOK
    <3>. QED
      BY <2>2, <2>3, <2>5, <3>1, <3>2, SwitchInv, SMTT(30)
  <2>. QED
    BY <2>4, <2>5, Zenon
<1>. QED
  BY <1>1, <1>2, Zenon

\* schedule(), called by task_block.
LEMMA ScheduleInv ==
  ASSUME TaskInv, NEW t \in Pids, schedule(t)
  PROVE  TaskInv'
<1>1. CASE RunOff
  BY <1>1, RunOffInv, Zenon
<1>2. CASE ~RunOff
  <2>1. PICK n : n = NextTask(ready)
    BY Zenon
  <2>2. /\ t = running /\ pc[t] = "yield" /\ ready.head # NULL
        /\ ready' = Advanced(ready, link)
        /\ UNCHANGED <<blocked, link, PIDS, zombie, parent, childamount, ring, tally>>
    BY <1>2, Zenon DEF schedule, Runs, family
  <2>3. n \in Created /\ n \in Pids
    BY <2>1, <2>2, CursorFacts, ZenonT(30)
  <2>4. CASE n = t
    <3>1. /\ UNCHANGED <<running, locks, inservice, ctx, victim, frames>>
          /\ iflag' \in BOOLEAN /\ pc' = [pc EXCEPT ![t] = Return(t)]
      BY <1>2, <2>1, <2>4, ZenonT(30) DEF schedule
    <3>2. running' \in Created
      BY <3>1, Zenon DEF TaskInv, Shape
    <3>3. Shape' /\ Blocked' = Blocked /\ ready' \in TaskListType
      BY <2>2, <3>2, AdvanceShape, Zenon
    <3>4. /\ Return(t) \in {"user", "login"} /\ t # main
          /\ t = login => Return(t) = "login"
      BY <2>2, KernelTasks, ZenonT(30) DEF Return
    <3>5. TypeOK'
      <4>1. pc' \in [Pids -> Labels]
        BY <3>1, <3>4, Zenon DEF TaskInv, TypeOK, Labels
      <4>. QED
        BY <2>2, <3>1, <3>3, <4>1, ZenonT(30) DEF TaskInv, TypeOK, tally
    <3>6. /\ main \notin Blocked' /\ locks' >= locks
          /\ Return(t) \notin {"kill", "resume", "unlink"}
          /\ t = login => Return(t) \in LoginLabels
      BY <3>1, <3>3, <3>4, SMTT(30) DEF TaskInv, Kernels, TypeOK, LoginLabels
    <3>. QED
      BY <2>2, <3>1, <3>3, <3>4, <3>5, <3>6, LabelStays, Zenon
  <2>5. CASE n # t
    <3>1. switch_task(t, n, "block", locks + 1, inservice)
      BY <1>2, <2>1, <2>5, Zenon DEF schedule
    <3>2. Leaves("block") /\ inservice \in SUBSET {TIMER, KEYBOARD}
      BY <2>2, ZenonT(30) DEF Leaves, TaskInv, TypeOK
    <3>. QED
      BY <2>2, <2>3, <2>5, <3>1, <3>2, SwitchInv, Zenon
  <2>. QED
    BY <2>4, <2>5, Zenon
<1>. QED
  BY <1>1, <1>2, Zenon

\* The ready list without the victim of kill_proc, and the cursor on it.
LEMMA UnlinkFacts ==
  ASSUME TaskInv, NEW t \in Pids, t = running, pc[t] = "unlink",
         NEW v, v = victim[t], NEW off, off = remove_from_ready_list(v)
  PROVE  /\ Lists(Created, off.list, blocked, off.link, Ready \ {v}, Blocked)
         /\ v \in Created /\ v \in zombie
         /\ off.list.next \in Created \union {NULL}
         /\ off.list \in TaskListType /\ off.link \in Links(Created)
         /\ off.list.head = NULL <=> Ready \ {v} = {}
         /\ off.list.head # NULL =>
              /\ NextTask(off.list) \in Created
              /\ Lists(Created, Advanced(off.list, off.link), blocked, off.link,
                       Ready \ {v}, Blocked)
              /\ Advanced(off.list, off.link).next \in Created \union {NULL}
<1>1. v \in Created /\ v \in zombie
  BY ZenonT(30) DEF TaskInv, TaskOk, KillsOk, KillOk
<1>2. off = remove_from_list(ready, link, v)
  BY ZenonT(30) DEF remove_from_ready_list
<1>3. /\ Lists(Created, off.list, blocked, off.link, Ready \ {v}, Blocked)
      /\ off.list = IF v \in Ready /\ ready.head = v THEN set_list(link[v]) ELSE ready
  <2>1. Removed(Created, ready, blocked, link, Ready, Blocked, v, off, Ready \ {v})
    BY <1>2, ListTypes, Zenon DEF Removed
  <2>. QED
    BY <2>1, ListsRemove
<1>4. /\ off.list.head \in (Ready \ {v}) \union {NULL}
      /\ off.list.head = NULL <=> Ready \ {v} = {}
  BY <1>3, ListsFacts
<1>5. off.list \in TaskListType /\ off.link \in Links(Created) /\ Created \subseteq Pids
  BY <1>3, CreatedFacts, Zenon DEF Lists, TaskInv
<1>6. off.list.next \in Created \union {NULL}
  <2>1. link[v] \in Created \union {NULL} /\ ready.next \in Created \union {NULL}
    <3>1. link \in Links(Created)
      BY ListTypes, ZenonT(30)
    <3>2. link[v] \in Created \union {NULL}
      BY <1>1, <1>5, <3>1, ZenonT(30) DEF Links
    <3>. QED
      BY <3>2, ZenonT(30) DEF TaskInv, Shape
  <2>2. off.list \in {set_list(link[v]), ready}
    BY <1>3, ZenonT(30)
  <2>3. set_list(link[v]).next = link[v]
    BY Zenon DEF set_list
  <2>. QED
    BY <2>1, <2>2, <2>3, ZenonT(30)
<1>7. ASSUME off.list.head # NULL
      PROVE  /\ NextTask(off.list) \in Created
             /\ Lists(Created, Advanced(off.list, off.link), blocked, off.link,
                      Ready \ {v}, Blocked)
             /\ Advanced(off.list, off.link).next \in Created \union {NULL}
  <2>1. PICK n : n = NextTask(off.list)
    BY Zenon
  <2>2. n \in Created
    BY <1>4, <1>6, <1>7, <2>1, ListTypes, ZenonT(30) DEF NextTask
  <2>3. off.link[n] \in Created \union {NULL}
    BY <1>5, <2>2, Zenon DEF Links
  <2>4. PICK a : a = Advanced(off.list, off.link)
    BY Zenon
  <2>5. a.head = off.list.head /\ a.next = off.link[n] /\ a \in TaskListType
    BY <1>5, <2>1, <2>3, <2>4, SMTT(30) DEF Advanced, TaskListType
  <2>6. Lists(Created, a, blocked, off.link, Ready \ {v}, Blocked)
    BY <1>3, <2>5, ZenonT(30) DEF Lists
  <2>. QED
    BY <2>1, <2>2, <2>3, <2>4, <2>5, <2>6, ZenonT(30)
<1>. QED
  BY <1>1, <1>3, <1>4, <1>5, <1>6, <1>7, ZenonT(30)

\* The last part of kill_proc: another task was killed, the list is empty, the

\* next task runs, or the killed task goes on.
LEMMA UnlinkInv ==
  ASSUME TaskInv, NEW t \in Pids, unlink(t)
  PROVE  TaskInv'
<1>1. PICK v, off : v = victim[t] /\ off = remove_from_ready_list(v)
  BY Zenon
<1>2. /\ t = running /\ pc[t] = "unlink" /\ link' = off.link
      /\ UNCHANGED <<blocked, PIDS, zombie, parent, childamount, ring, hits>>
  BY <1>1, ZenonT(30) DEF unlink, Runs, family
<1>3. /\ v \in Created /\ v \in zombie
      /\ Lists(Created, off.list, blocked, off.link, Ready \ {v}, Blocked)
      /\ off.list.next \in Created \union {NULL}
      /\ off.list.head = NULL <=> Ready \ {v} = {}
      /\ off.list.head # NULL =>
           /\ NextTask(off.list) \in Created
           /\ Lists(Created, Advanced(off.list, off.link), blocked, off.link,
                    Ready \ {v}, Blocked)
           /\ Advanced(off.list, off.link).next \in Created \union {NULL}
  BY <1>1, <1>2, UnlinkFacts, ZenonT(30)
<1>4. Created' = Created /\ t \in Created
  BY <1>2, Zenon DEF Created, TaskInv, Shape
<1>5. /\ PIDS' \in 2..(Cardinality(Pids) + 1)
      /\ Created' \ zombie' \subseteq (Ready \ {v}) \union Blocked
  BY <1>2, <1>3, <1>4, Zenon DEF TaskInv, Shape
<1>6. CASE v # t
  <2>1. /\ ready' = off.list /\ iflag' = TRUE /\ pc' = [pc EXCEPT ![t] = Return(t)]
        /\ UNCHANGED <<running, locks, inservice, ctx, victim, frames, fault>>
    BY <1>1, <1>6, Zenon DEF unlink
  <2>2. running' \in Created'
    BY <1>2, <1>4, <2>1, Zenon
  <2>3. /\ Shape' /\ Blocked' = Blocked
        /\ ready' \in TaskListType /\ blocked' \in TaskListType
        /\ link' \in [Pids -> Pids \union {NULL}]
    BY <1>2, <1>3, <1>4, <1>5, <2>1, <2>2, NewShape
  <2>4. t \notin {main, login}
    BY <1>1, <1>2, <1>6, KernelTasks, Zenon
  <2>5. Return(t) \in {"user", "login"}
    BY Zenon DEF Return
  <2>6. TypeOK'
    <3>1. pc' \in [Pids -> Labels]
      BY <2>1, <2>5, Zenon DEF TaskInv, TypeOK, Labels
    <3>. QED
      BY <1>2, <2>1, <2>3, <3>1 DEF TaskInv, TypeOK
  <2>7. /\ main \notin Blocked' /\ locks' >= locks
        /\ Return(t) \notin {"kill", "resume", "unlink"}
    BY <2>1, <2>3, <2>5 DEF TaskInv, Kernels, TypeOK
  <2>. QED
    BY <1>2, <2>1, <2>3, <2>4, <2>6, <2>7, LabelStays
<1>7. CASE v = t /\ off.list.head = NULL
  <2>1. /\ ready' = off.list /\ fault' = TRUE
        /\ UNCHANGED <<running, locks, iflag, inservice, pc, ctx, victim, frames>>
    BY <1>1, <1>7, Zenon DEF unlink
  <2>2. running' \in Created'
    BY <1>2, <1>4, <2>1, Zenon
  <2>3. /\ Shape' /\ Blocked' = Blocked
        /\ ready' \in TaskListType /\ blocked' \in TaskListType
        /\ link' \in [Pids -> Pids \union {NULL}]
    BY <1>2, <1>3, <1>4, <1>5, <2>1, <2>2, NewShape
  <2>4. TypeOK'
    BY <1>2, <2>1, <2>3, Zenon DEF TaskInv, TypeOK
  <2>. QED
    BY <1>2, <2>1, <2>3, <2>4, SameTasks, Zenon
<1>8. CASE v = t /\ off.list.head # NULL
  <2>1. PICK n : n = NextTask(off.list)
    BY Zenon
  <2>2. /\ ready' = Advanced(off.list, off.link) /\ fault' = fault
        /\ n \in Created
        /\ Lists(Created', ready', blocked', link', Ready \ {v}, Blocked)
        /\ ready'.next \in Created' \union {NULL}
    BY <1>1, <1>2, <1>3, <1>4, <1>8, <2>1 DEF unlink
  <2>3. CASE n # t
    <3>1. switch_task(t, n, "dead", locks, inservice)
      BY <1>1, <1>8, <2>1, <2>3 DEF unlink
    <3>2. /\ Leaves("dead") /\ inservice \in SUBSET {TIMER, KEYBOARD}
          /\ (IF "dead" = "dead" THEN locks ELSE locks + 1) = locks
      BY <1>2, Zenon DEF Leaves, TaskInv, TypeOK
    <3>3. /\ running' = n /\ n \in Pids /\ locks' \in Nat /\ iflag' \in BOOLEAN
          /\ inservice' \in SUBSET {TIMER, KEYBOARD}
          /\ pc' \in [Pids -> Labels]
          /\ ctx' \in [Pids -> {"none", "irq", "block", "child", "dead"}]
          /\ victim' \in [Pids -> Pids \union {NULL}]
          /\ frames' \in [Pids -> Seq(Frame)]
          /\ \A u \in Pids : TaskOk(u)'
          /\ LocksLeft' /\ Boot'
      BY <1>2, <2>2, <2>3, <3>1, <3>2, SwitchFacts
    <3>4. running' \in Created'
      BY <1>4, <2>2, <3>3, Zenon
    <3>5. /\ Shape' /\ Blocked' = Blocked
          /\ ready' \in TaskListType /\ blocked' \in TaskListType
          /\ link' \in [Pids -> Pids \union {NULL}]
      BY <1>5, <2>2, <3>4, NewShape
    <3>6. TypeOK'
      BY <1>2, <2>2, <3>3, <3>5 DEF TaskInv, TypeOK, Frame
    <3>7. Kernels'
      BY <1>2, <3>5, Zenon DEF TaskInv, Kernels
    <3>. QED
      BY <3>3, <3>5, <3>6, <3>7, Zenon DEF TaskInv
  <2>4. CASE n = t
    <3>1. PICK o : o = Outlived(t)
      BY Zenon
    <3>2. /\ pc' = [pc EXCEPT ![t] = o.pc]
          /\ victim' = [victim EXCEPT ![t] = o.victim]
          /\ frames' = [frames EXCEPT ![t] = o.frames]
          /\ iflag' = (iflag \/ Interrupted(t))
          /\ inservice' = IF Interrupted(t) THEN end_of_interrupt(inservice) ELSE inservice
          /\ UNCHANGED <<running, locks, ctx>>
      BY <1>1, <1>8, <2>1, <2>4, <3>1, Zenon DEF unlink
    <3>3. /\ o.pc \in Labels /\ o.victim \in Pids \union {NULL}
          /\ o.frames \in Seq(Frame)
          /\ o.pc = "spin" \/ FrameOk([pc |-> o.pc, victim |-> o.victim])
          /\ \A i \in 1..Len(o.frames) : FrameOk(o.frames[i])
          /\ \A labels : OfKernel(t, labels) /\ "spin" \in labels =>
               /\ o.pc \in labels
               /\ o.pc \in {"kill", "resume", "unlink"} => o.victim = t
               /\ \A i \in 1..Len(o.frames) :
                    LET f == o.frames[i]
                    IN /\ f.pc \in labels
                       /\ f.pc \in {"kill", "resume", "unlink"} => f.victim = t
      BY <3>1, OutlivedFacts, Zenon
    <3>4. /\ \A u \in Pids \ {t} : /\ pc'[u] = pc[u] /\ victim'[u] = victim[u]
                                   /\ frames'[u] = frames[u] /\ ring'[u] = ring[u]
          /\ pc'[t] = o.pc /\ victim'[t] = o.victim /\ frames'[t] = o.frames
          /\ ring'[t] = ring[t]
      BY <1>2, <3>2, Zenon DEF TaskInv, TypeOK
    <3>5. running' \in Created'
      BY <1>2, <1>4, <3>2
    <3>6. /\ Shape' /\ Blocked' = Blocked
          /\ ready' \in TaskListType /\ blocked' \in TaskListType
          /\ link' \in [Pids -> Pids \union {NULL}]
      BY <1>5, <2>2, <3>5, NewShape, Zenon
    <3>7. TypeOK'
      <4>1. /\ pc' \in [Pids -> Labels] /\ victim' \in [Pids -> Pids \union {NULL}]
            /\ frames' \in [Pids -> Seq(Frame)]
        BY <3>2, <3>3, Zenon DEF TaskInv, TypeOK, Frame
      <4>2. inservice' \in SUBSET {TIMER, KEYBOARD} /\ iflag' \in BOOLEAN
        BY <3>2, Zenon DEF TaskInv, TypeOK, end_of_interrupt, Interrupted
      <4>. QED
        BY <1>2, <2>2, <3>2, <3>6, <4>1, <4>2 DEF TaskInv, TypeOK, Frame
    <3>8. KillsOk(t)'
      <4>1. KillOk(pc[t], victim[t])'
        BY <1>2, <1>4, <3>3, <3>4 DEF FrameOk, KillOk
      <4>2. (\A i \in 1..Len(frames[t]) : FrameOk(frames[t][i]))'
        BY <1>2, <1>4, <3>3, <3>4 DEF FrameOk, KillOk
      <4>3. (pc[t] = "unlink" => parent[victim[t]] = NULL)'
        BY <1>2, <3>3, <3>4, Zenon DEF FrameOk
      <4>. QED
        BY <4>1, <4>2, <4>3, Zenon DEF KillsOk
    <3>9. KernelOk(t)'
      <4>1. /\ "spin" \in MainLabels /\ "spin" \in LoginLabels /\ KernelOk(t)
        BY Zenon DEF MainLabels, LoginLabels, TaskInv, TaskOk
      <4>. QED
        BY <3>3, <3>4, <4>1 DEF KernelOk, OfKernel
    <3>10. t = main => /\ o.pc # "boot"
                       /\ \A i \in 1..Len(o.frames) : o.frames[i].pc = "boot" => PIDS = 2
      <4>. SUFFICES ASSUME t = main
                    PROVE  /\ o.pc # "boot"
                           /\ \A i \in 1..Len(o.frames) : o.frames[i].pc = "boot" => PIDS = 2
        BY Zenon
      <4>1. PIDS # 2
        <5>1. PIDS = 2 => Ready \subseteq {main}
          BY ListTypes DEF Created, main
        <5>. QED
          BY <1>3, <1>8, <5>1, Zenon
      <4>2. \A i \in 1..Len(frames[main]) : frames[main][i].pc # "boot"
        BY <4>1, Zenon DEF TaskInv, Boot
      <4>3. frames[t] \in Seq(Frame)
        BY Zenon DEF TaskInv, TypeOK, Frame
      <4>4. CASE Interrupted(t)
        <5>1. o.pc = Head(frames[t]).pc /\ o.frames = Tail(frames[t])
          BY <3>1, <4>4, Zenon DEF Outlived
        <5>2. 1 \in 1..Len(frames[t]) /\ Head(frames[t]) = frames[t][1]
          BY <4>3, <4>4 DEF Interrupted
        <5>3. \A i \in 1..Len(Tail(frames[t])) : /\ i + 1 \in 1..Len(frames[t])
                                                 /\ Tail(frames[t])[i] = frames[t][i + 1]
          BY <4>3, <4>4 DEF Interrupted
        <5>. QED
          BY <4>2, <5>1, <5>2, <5>3
      <4>5. CASE ~Interrupted(t)
        BY <3>1, <4>5 DEF Outlived
      <4>. QED
        BY <4>4, <4>5, Zenon
    <3>11. /\ main \notin Blocked' /\ locks' >= locks
           /\ pc'[login] = "unlink" => pc[login] = "unlink"
      <4>1. login \in Pids
        BY CreatedFacts, Zenon DEF TaskInv
      <4>. QED
        BY <1>2, <3>2, <3>4, <3>6, <4>1 DEF TaskInv, Kernels, TypeOK
    <3>. QED
      BY <1>2, <3>2, <3>4, <3>6, <3>7, <3>8, <3>9, <3>10, <3>11, Stays
  <2>. QED
    BY <2>3, <2>4, Zenon
<1>. QED
  BY <1>6, <1>7, <1>8, Zenon

\* A frame that is in order stays in order when a task is created.
LEMMA FrameKept ==
  ASSUME NEW f, FrameOk(f), Created \subseteq Created', zombie \subseteq zombie',
         \A v \in Created : parent'[v] = parent[v]
  PROVE  FrameOk(f)'
BY Zenon DEF FrameOk, KillOk

\* fork: the child is on the ready list and has not run.
LEMMA ForkInv ==
  ASSUME TaskInv, NEW t \in Pids, fork(t)
  PROVE  TaskInv'
<1>1. PICK c, new : c = PIDS /\ new = add_to_list(ready, link, c)
  BY Zenon
<1>2. /\ t = running /\ c \in Pids /\ pc[t] \in {"boot", "login", "fork"}
      /\ ready' = new.list /\ link' = new.link /\ PIDS' = c + 1
      /\ parent' = [parent EXCEPT ![c] = t]
      /\ childamount' = [childamount EXCEPT ![c] = childamount[t], ![t] = @ + 1]
      /\ ring' = [ring EXCEPT ![c] = ring[t]]
      /\ ctx' = [ctx EXCEPT ![c] = "child"]
      /\ iflag' = TRUE
      /\ UNCHANGED <<blocked, running, locks, inservice, zombie, victim, frames, tally>>
  BY <1>1, Zenon DEF fork, Runs
<1>3. /\ Created' = Created \union {c} /\ c \notin Created /\ c >= 2
      /\ t \in Created /\ c # t /\ c # main /\ Created \subseteq Pids
      /\ c \in Nat /\ c <= Cardinality(Pids) /\ main \in Pids /\ login \in Pids
      /\ (login \in Created <=> PIDS > 2) /\ main \in Created
  <2>1. /\ Created \subseteq Pids /\ main \in Created /\ main \in Pids /\ login \in Pids
        /\ c \notin Created /\ (login \in Created <=> PIDS > 2)
    BY <1>1, CreatedFacts, Zenon DEF TaskInv
  <2>2. c \in Nat /\ c >= 2 /\ c <= Cardinality(Pids)
    BY <1>1, <1>2, PidFacts DEF TaskInv, Shape
  <2>3. t \in Created
    BY <1>2, Zenon DEF TaskInv, Shape
  <2>4. Created' = Created \union {c}
    BY <1>1, <1>2, <2>2 DEF Created
  <2>. QED
    BY <2>1, <2>2, <2>3, <2>4, Zenon
<1>4. /\ pc' = [pc EXCEPT ![t] = pc'[t], ![c] = pc'[c]]
      /\ pc[t] = "boot" => pc'[t] = "idle" /\ pc'[c] = "login"
      /\ pc[t] = "login" => pc'[t] = "wait" /\ pc'[c] = "exec"
      /\ pc[t] = "fork" => pc'[t] = "user" /\ pc'[c] = "user"
  <2>1. pc \in [Pids -> Labels]
    BY Zenon DEF TaskInv, TypeOK
  <2>2. PICK x, y : /\ pc' = [pc EXCEPT ![t] = x, ![c] = y]
                    /\ pc[t] = "boot" => x = "idle" /\ y = "login"
                    /\ pc[t] = "login" => x = "wait" /\ y = "exec"
                    /\ pc[t] = "fork" => x = "user" /\ y = "user"
    BY <1>1, <1>2, Zenon DEF fork
  <2>3. pc'[t] = x /\ pc'[c] = y
    BY <1>2, <1>3, <2>1, <2>2
  <2>. QED
    BY <2>2, <2>3, Zenon
<1>5. /\ Lists(Created', ready', blocked', link', Ready \union {c}, Blocked)
      /\ ready' = IF ready.head = NULL THEN set_list(c) ELSE ready
  <2>1. Lists(Created', ready, blocked, link, Ready, Blocked)
    BY <1>2, <1>3, ListTypes, Zenon DEF Lists, Links
  <2>2. Added(Created', ready, blocked, link, Ready, Blocked, c, new, Ready \union {c})
    BY <1>1, <1>3, <2>1, ListTypes DEF Added
  <2>3. /\ Lists(Created', new.list, blocked, new.link, Ready \union {c}, Blocked)
        /\ new.list = IF ready.head = NULL THEN set_list(c) ELSE ready
    BY <2>2, ListsAdd
  <2>. QED
    BY <1>2, <2>3, Zenon
<1>6. /\ Shape' /\ Ready' = Ready \union {c} /\ Blocked' = Blocked
      /\ ready' \in TaskListType /\ blocked' \in TaskListType
      /\ link' \in [Pids -> Pids \union {NULL}]
  <2>1. PIDS' \in 2..(Cardinality(Pids) + 1) /\ running' \in Created'
    BY <1>2, <1>3, PidFacts
  <2>2. ready'.next \in Created' \union {NULL}
    <3>1. set_list(c).next = c
      BY Zenon DEF set_list
    <3>2. ready.next \in Created \union {NULL}
      BY Zenon DEF TaskInv, Shape
    <3>. QED
      BY <1>3, <1>5, <3>1, <3>2, Zenon
  <2>3. Created' \ zombie' \subseteq (Ready \union {c}) \union Blocked
    BY <1>2, <1>3, Zenon DEF TaskInv, Shape
  <2>. QED
    BY <1>5, <2>1, <2>2, <2>3, NewShape, Zenon
<1>7. /\ \A u \in Pids \ {c} : /\ ctx'[u] = ctx[u] /\ parent'[u] = parent[u]
                               /\ ring'[u] = ring[u]
      /\ ctx'[c] = "child" /\ parent'[c] = t /\ ring'[c] = ring[t]
      /\ \A u \in Pids \ {c, t} : pc'[u] = pc[u]
      /\ pc'[t] \in Labels /\ pc'[c] \in Labels
  BY <1>2, <1>3, <1>4 DEF TaskInv, TypeOK, Labels
<1>8. TypeOK'
  <2>1. /\ parent' \in [Pids -> Pids \union {NULL}]
        /\ ring' \in [Pids -> {0, 3}]
        /\ ctx' \in [Pids -> {"none", "irq", "block", "child", "dead"}]
    BY <1>2, <1>3, Zenon DEF TaskInv, TypeOK
  <2>2. childamount' \in [Pids -> Int]
    <3>1. childamount \in [Pids -> Int] /\ childamount[t] \in Int
      BY Zenon DEF TaskInv, TypeOK
    <3>2. childamount' = [childamount EXCEPT ![c] = childamount[t],
                                             ![t] = childamount[t] + 1]
      BY <1>2, <1>3, <3>1, Zenon
    <3>. QED
      BY <1>2, <3>1, <3>2
  <2>4. pc' \in [Pids -> Labels]
    <3>1. PICK x, y : x = pc'[t] /\ y = pc'[c]
      BY Zenon
    <3>2. pc' = [pc EXCEPT ![t] = x, ![c] = y] /\ x \in Labels /\ y \in Labels
      BY <1>4, <1>7, <3>1, Zenon
    <3>. QED
      BY <1>2, <3>2, Zenon DEF TaskInv, TypeOK
  <2>3. PIDS' \in Nat
    BY <1>2, <1>3
  <2>. QED
    BY <1>2, <1>6, <2>1, <2>2, <2>3, <2>4 DEF TaskInv, TypeOK, tally
<1>9. TaskOk(t) /\ TaskOk(c) /\ TaskOk(main) /\ TaskOk(login)
  BY <1>2, <1>3, Zenon DEF TaskInv
<1>10. /\ pc[t] = "boot" => t # login
       /\ pc[t] \in {"login", "fork"} => t # main
       /\ pc[t] = "fork" => t # login
       /\ t \in {main, login} => ring[t] = 0
  BY KernelTasks, Zenon
<1>11. /\ c = login => t = main /\ pc[t] = "boot"
       /\ t = main => c = login /\ pc[t] = "boot" /\ frames[main] = <<>>
       /\ t # main => PIDS > 3 \/ PIDS = 3
  <2>1. PIDS = 2 => t = main
    BY <1>3 DEF Created, main
  <2>2. t = main => PIDS = 2 /\ frames[main] = <<>> /\ pc[t] = "boot"
    BY <1>2, <1>10, Zenon DEF TaskInv, Boot
  <2>. QED
    BY <1>1, <1>3, <2>1, <2>2 DEF login
<1>12. \A u \in Pids : TaskOk(u)'
  <2>1. ASSUME NEW u \in Pids, u # t, u # c PROVE TaskOk(u)'
    BY <1>2, <1>3, <1>7, <2>1, OtherTask
  <2>2. TaskOk(t)'
    <3>1. ContextOk(t)'
      BY <1>2, <1>3, <1>7, <1>9 DEF TaskOk, ContextOk
    <3>2. pc'[t] \in {"idle", "wait", "user"}
      BY <1>2, <1>4, Zenon
    <3>3. KillsOk(t)'
      <4>1. ASSUME NEW i \in 1..Len(frames[t]) PROVE FrameOk(frames[t][i])'
        <5>1. PICK f : f = frames[t][i]
          BY Zenon
        <5>2. FrameOk(f)
          BY <1>9, <5>1, Zenon DEF TaskOk, KillsOk
        <5>3. \A v \in Created : parent'[v] = parent[v]
          BY <1>3, <1>7, Zenon
        <5>4. FrameOk(f)'
          BY <1>2, <1>3, <5>2, <5>3, FrameKept, Zenon
        <5>. QED
          BY <1>2, <5>1, <5>4, Zenon
      <4>2. KillOk(pc[t], victim[t])' /\ pc'[t] # "unlink"
        BY <3>2, Zenon DEF KillOk
      <4>3. \A i \in 1..Len(frames[t])' : FrameOk(frames[t][i])'
        BY <1>2, <4>1, Zenon
      <4>. QED
        BY <4>2, <4>3, Zenon DEF KillsOk
    <3>4. KernelOk(t)'
      <4>1. t = main => pc'[t] = "idle"
        BY <1>4, <1>11, Zenon
      <4>2. t = login => pc'[t] = "wait"
        BY <1>2, <1>4, <1>10, Zenon
      <4>3. ring'[t] = ring[t] /\ frames'[t] = frames[t] /\ KernelOk(t)
        BY <1>2, <1>3, <1>7, <1>9 DEF TaskOk
      <4>. QED
        BY <4>1, <4>2, <4>3, Zenon DEF KernelOk, OfKernel, MainLabels, LoginLabels
    <3>. QED
      BY <3>1, <3>3, <3>4, Zenon DEF TaskOk
  <2>3. TaskOk(c)'
    <3>1. pc'[c] \in {"login", "exec", "user"}
      BY <1>2, <1>4, Zenon
    <3>2. ContextOk(c)'
      BY <1>2, <1>3, <1>7, <3>1, Zenon DEF ContextOk
    <3>3. KillsOk(c)'
      <4>1. ASSUME NEW i \in 1..Len(frames[c]) PROVE FrameOk(frames[c][i])'
        <5>1. PICK f : f = frames[c][i]
          BY Zenon
        <5>2. FrameOk(f)
          BY <1>9, <5>1, Zenon DEF TaskOk, KillsOk
        <5>3. \A v \in Created : parent'[v] = parent[v]
          BY <1>3, <1>7, Zenon
        <5>4. FrameOk(f)'
          BY <1>2, <1>3, <5>2, <5>3, FrameKept
        <5>. QED
          BY <1>2, <5>1, <5>4, Zenon
      <4>. QED
        BY <1>2, <3>1, <4>1, Zenon DEF KillsOk, KillOk
    <3>4. KernelOk(c)'
      <4>1. c = login => pc'[c] = "login" /\ ring'[c] = 0
        BY <1>4, <1>7, <1>10, <1>11, Zenon
      <4>. QED
        BY <1>2, <1>3, <1>9, <4>1, Zenon DEF TaskOk, KernelOk, OfKernel, LoginLabels
    <3>. QED
      BY <3>2, <3>3, <3>4 DEF TaskOk
  <2>. QED
    BY <2>1, <2>2, <2>3, Zenon
<1>13. Kernels'
  <2>1. parent'[main] = NULL /\ main \notin Blocked'
    BY <1>3, <1>6, <1>7, Zenon DEF TaskInv, Kernels
  <2>2. parent'[login] = main
    BY <1>1, <1>3, <1>7, <1>11 DEF TaskInv, Kernels
  <2>. QED
    BY <2>1, <2>2, Zenon DEF Kernels
<1>14. Boot'
  <2>1. pc'[main] # "boot" /\ \A i \in 1..Len(frames[main]) : frames[main][i].pc # "boot"
    <3>1. CASE t = main
      BY <1>4, <1>11, <3>1
    <3>2. CASE t # main
      BY <1>3, <1>7, <1>11, <3>2 DEF TaskInv, Boot
    <3>. QED
      BY <3>1, <3>2, Zenon
  <2>2. ctx'[login] = "child" => PIDS' = 3
    <3>1. CASE t = main
      BY <1>1, <1>2, <1>11, <3>1 DEF login
    <3>2. CASE t # main
      <4>1. ctx[login] = "child" => PIDS = 3
        BY Zenon DEF TaskInv, Boot
      <4>2. PIDS = 3 => t = login
        BY <1>3, <3>2 DEF Created, main, login
      <4>3. ctx[t] = "none"
        BY <1>2, AwakeFacts, Zenon
      <4>. QED
        BY <1>1, <1>3, <1>7, <1>11, <3>2, <4>1, <4>2, <4>3
    <3>. QED
      BY <3>1, <3>2, Zenon
  <2>. QED
    BY <1>2, <2>1, <2>2, Zenon DEF Boot
<1>15. LocksLeft'
  <2>1. Awake' = Awake
    BY <1>3, <1>7, Zenon DEF Awake
  <2>2. pc'[login] # "unlink" \/ pc[login] = "unlink"
    BY <1>2, <1>3, <1>4, <1>7, Zenon
  <2>3. ctx'[login] # "dead" \/ ctx[login] = "dead"
    BY <1>3, <1>7, Zenon
  <2>. QED
    BY <1>2, <2>1, <2>2, <2>3, Zenon DEF TaskInv, LocksLeft
<1>. QED
  BY <1>6, <1>8, <1>12, <1>13, <1>14, <1>15 DEF TaskInv

-----------------------------------------------------------------------------
\* The invariant holds after init_tasking and init_scheduler.
LEMMA TaskInit ==
  ASSUME Init
  PROVE  TaskInv
<1>1. Created = {main} /\ main \in Pids /\ NULL \notin Pids /\ login \in Pids /\ login # main
  BY PidFacts DEF Init, Created, main, login
<1>2. Lists(Created, ready, blocked, link, {main}, {})
  <2>1. ready \in TaskListType /\ blocked \in TaskListType /\ link \in Links(Created)
    BY <1>1, Zenon DEF Init, set_list, TaskListType, Links
  <2>2. IsList(ready.head, link, <<main>>) /\ Range(<<main>>) = {main}
    BY <1>1 DEF Init, set_list, IsList, Distinct, Range
  <2>3. IsList(blocked.head, link, <<>>) /\ Range(<<>>) = {}
    BY <1>1 DEF Init, set_list, IsList, Distinct, Range
  <2>. QED
    BY <1>1, <2>1, <2>2, <2>3, Zenon DEF Lists
<1>3. Ready = {main} /\ Blocked = {}
  BY <1>2, ListsElements, Zenon DEF Ready, Blocked
<1>4. TypeOK
  <2>1. ready \in TaskListType /\ blocked \in TaskListType
    BY <1>2, Zenon DEF Lists
  <2>2. frames \in [Pids -> Seq(Frame)]
    BY DEF Init
  <2>3. MaxHits \in Nat
    BY PidsAssumption, TaskingAssumption, Zenon
  <2>4. pc \in [Pids -> Labels] /\ ctx \in [Pids -> {"none", "irq", "block", "child", "dead"}]
    BY Zenon DEF Init, Labels
  <2>5. /\ link \in [Pids -> Pids \union {NULL}] /\ parent \in [Pids -> Pids \union {NULL}]
        /\ victim \in [Pids -> Pids \union {NULL}] /\ childamount \in [Pids -> Int]
        /\ ring \in [Pids -> {0, 3}]
    BY DEF Init
  <2>6. /\ running \in Pids /\ locks \in Nat /\ PIDS \in Nat /\ zombie \subseteq Pids
        /\ inservice \subseteq {TIMER, KEYBOARD} /\ hits \in 0..MaxHits
    BY <1>1, <2>3 DEF Init
  <2>7. iflag \in BOOLEAN /\ fault \in BOOLEAN
    BY Zenon DEF Init
  <2>. QED
    BY <2>1, <2>2, <2>4, <2>5, <2>6, <2>7, Zenon DEF TypeOK, Frame
<1>5. Shape
  <2>1. PIDS \in 2..(Cardinality(Pids) + 1)
    BY PidFacts, PidsAssumption, TaskingAssumption DEF Init
  <2>2. ready.next \in Created \union {NULL} /\ running \in Created
    BY <1>1, Zenon DEF Init, set_list
  <2>. QED
    BY <1>1, <1>2, <1>3, <2>1, <2>2, Zenon DEF Shape
<1>6. ASSUME NEW t \in Pids PROVE TaskOk(t)
  <2>1. frames[t] = <<>> /\ pc[t] \in {"boot", "none"} /\ ring[t] = 0 /\ ctx[t] = "none"
        /\ (t = main => pc[t] = "boot") /\ (t # main => pc[t] = "none")
    BY Zenon DEF Init
  <2>2. ContextOk(t)
    BY <1>1, <2>1, Zenon DEF Init, ContextOk
  <2>3. KillsOk(t)
    BY <2>1 DEF KillsOk, KillOk
  <2>4. KernelOk(t)
    BY <1>1, <2>1 DEF KernelOk, OfKernel, MainLabels, LoginLabels
  <2>. QED
    BY <2>2, <2>3, <2>4, Zenon DEF TaskOk
<1>7. Kernels
  BY <1>1, <1>3 DEF Init, Kernels
<1>8. Boot
  BY <1>1, Zenon DEF Init, Boot
<1>9. LocksLeft
  <2>1. Awake = {main}
    BY <1>1, Zenon DEF Init, Awake
  <2>2. Cardinality(Awake) = 1
    BY <2>1, FS_Singleton, Zenon
  <2>. QED
    BY <1>1, <2>2 DEF Init, LocksLeft
<1>. QED
  BY <1>4, <1>5, <1>6, <1>7, <1>8, <1>9 DEF TaskInv

\* Every step keeps the invariant.
LEMMA TaskStep ==
  ASSUME TaskInv, [Next]_vars
  PROVE  TaskInv'
<1>1. CASE UNCHANGED vars
  BY <1>1, TaskStutter, Zenon
<1>2. ASSUME NEW t \in Pids, timer_callback(t) PROVE TaskInv'
  BY <1>2, TimerInv, Zenon
<1>3. ASSUME NEW t \in Pids, send_sig(t) PROVE TaskInv'
  BY <1>3, SignalInv, Zenon
<1>4. ASSUME NEW t \in Pids, page_fault(t) PROVE TaskInv'
  BY <1>4, FaultInv, Zenon
<1>5. ASSUME NEW t \in Pids, Kernel(t) PROVE TaskInv'
  BY <1>5, ForkInv, ExecInv, ReadInv, WaitInv, BlockInv, ScheduleInv, KillInv,
     ResumeInv, UnlinkInv DEF Kernel
<1>6. ASSUME NEW t \in Pids, Program(t) PROVE TaskInv'
  BY <1>6, ProgramInv, Zenon
<1>. QED
  BY <1>1, <1>2, <1>3, <1>4, <1>5, <1>6 DEF Next

\* TaskInv is an invariant of the scheduler, whatever else happens.
THEOREM TasksInOrder == Spec => []TaskInv
<1>1. Init => TaskInv
  BY TaskInit, Zenon
<1>2. TaskInv /\ [Next]_vars => TaskInv'
  BY TaskStep, Zenon
<1>. QED
  BY <1>1, <1>2, PTL DEF Spec

\* The ready and the blocked list stay lists of different tasks, and hold every
\* task that is not a zombie.
THEOREM ListsAreSound == Spec => []ListsSound
<1>1. TaskInv => ListsSound
  BY ListTypes DEF TaskInv, Shape, ListsSound
<1>. QED
  BY <1>1, TasksInOrder, PTL

\* kill_proc edits the ready list with interrupts off, when the task has a
\* parent.
THEOREM ExitIsAtomic == Spec => []ExitAtomic
<1>1. TaskInv => ExitAtomic
  <2>. SUFFICES ASSUME TaskInv, pc[running] = "unlink", parent[victim[running]] # NULL
                PROVE  ~iflag
    BY Zenon DEF ExitAtomic
  <2>1. TaskOk(running) /\ ctx[running] = "none"
    BY AwakeFacts, Zenon DEF TaskInv
  <2>. QED
    BY <2>1, Zenon DEF TaskOk, KillsOk
<1>. QED
  BY <1>1, TasksInOrder, PTL

=============================================================================
