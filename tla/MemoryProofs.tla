---------------------------- MODULE MemoryProofs ----------------------------
(***************************************************************************)
(* Memory, for any number of tasks, frames and pages, and any images:      *)
(* frames are handed out once, tasks have memories of their own, fork      *)
(* copies all of it, and execve loads all of an image, all but the copy up *)
(* to the first race in alloc_frame.                                       *)
(***************************************************************************)
EXTENDS Programs, FiniteSetTheorems, WellFoundedInduction, TLAPS

\* The frames that first_frame can give are frames, and are finite in number.
LEMMA FreeFrames == Free \subseteq Frames /\ Free \subseteq Nat /\ IsFiniteSet(Free)
<1>1. Words * WORD <= NFRAMES /\ NFRAMES \in Nat /\ Words \in Int /\ WORD \in Int
  BY PagingAssumption DEF Words
<1> DEFINE n == Words * WORD - 1
<1>2. n \in Int /\ n <= NFRAMES - 1
  BY <1>1
<1>3. IsFiniteSet(0..n)
  BY <1>2, FS_Interval
<1>4. Free = (0..n) \ g_frames
  BY Zenon DEF Free
<1> HIDE DEF n
<1>5. Free \subseteq 0..n
  BY <1>4, Zenon
<1>6. IsFiniteSet(Free)
  BY <1>3, <1>5, FS_Subset, Zenon
<1> QED
  BY <1>1, <1>2, <1>5, <1>6 DEF Frames

\* The order of the elements of a finite set of integers is that of their ranks.
LEMMA RankInjective ==
  ASSUME NEW Q, Q \subseteq Int, IsFiniteSet(Q), NEW x \in Q, NEW y \in Q,
         Rank(Q, x) = Rank(Q, y)
  PROVE  x = y
<1>1. ASSUME NEW a \in Q, NEW b \in Q, Rank(Q, a) = Rank(Q, b) PROVE ~(a < b)
  <2> SUFFICES ASSUME a < b PROVE FALSE
    BY Zenon
  <2> DEFINE A1 == {z \in Q : z < a}
             B1 == {z \in Q : z < b}
  <2>0. \A z \in Q : z \in Int
    BY Zenon
  <2>1. A1 \subseteq B1 /\ a \in B1 /\ a \notin A1
    <3>1. ASSUME NEW z \in Q, z < a PROVE z < b
      BY <2>0, <3>1
    <3>2. A1 \subseteq B1
      BY <3>1, Zenon
    <3>3. a \in B1
      BY Zenon
    <3>4. a \notin A1
      BY <2>0
    <3> QED
      BY <3>2, <3>3, <3>4, Zenon
  <2>2. IsFiniteSet(B1)
    BY FS_Subset, Zenon
  <2>3. Cardinality(A1) = Cardinality(B1)
    BY <1>1, Zenon DEF Rank
  <2> HIDE DEF A1, B1
  <2> QED
    BY <2>1, <2>2, <2>3, FS_Subset, Zenon
<1>2. ~(x < y) /\ ~(y < x)
  BY <1>1, Zenon
<1> QED
  BY <1>2

\* alloc_frame hands out frames that are free, and no frame twice.
LEMMA HandedOnce ==
  ASSUME NEW Q, Q \subseteq UPages
  PROVE  /\ DOMAIN Handed(Q) \subseteq Q
         /\ \A p \in DOMAIN Handed(Q) : Handed(Q)[p] \in Free
         /\ \A p, q \in DOMAIN Handed(Q) : Handed(Q)[p] = Handed(Q)[q] => p = q
<1> DEFINE D == {q \in Q : \E f \in Free : Rank(Free, f) = Rank(Q, q)}
           H == [p \in D |-> CHOOSE f \in Free : Rank(Free, f) = Rank(Q, p)]
<1>1. Q \subseteq Int /\ IsFiniteSet(Q)
  <2>1. SHEAP \in Int /\ LAST \in Int
    BY PagingAssumption
  <2>2. IsFiniteSet(UPages)
    BY <2>1, FS_Interval, Zenon DEF UPages
  <2>3. IsFiniteSet(Q)
    BY <2>2, FS_Subset, Zenon
  <2> QED
    BY <2>1, <2>3 DEF UPages
<1>2. \A p \in D : H[p] \in Free /\ Rank(Free, H[p]) = Rank(Q, p)
  BY Zenon
<1>3. \A p, q \in D : H[p] = H[q] => p = q
  BY <1>1, <1>2, RankInjective, ZenonT(30)
<1>4. Handed(Q) = H
  BY Zenon DEF Handed
<1>5. DOMAIN H = D /\ D \subseteq Q
  BY Zenon
<1> HIDE DEF H, D
<1> QED
  BY <1>2, <1>3, <1>4, <1>5, Zenon

\* first_frame finds a free frame when there is one.
LEMMA FirstFree == Free # {} => First \in Free
<1> SUFFICES ASSUME Free # {} PROVE First \in Free
  BY Zenon
<1>1. PICK f \in Free : \A e \in Free : <<e, f>> \notin OpToRel(<, Nat)
  BY FreeFrames, NatLessThanWellFounded, WFMin, Zenon
<1>2. \A e \in Free : ~(e < f)
  BY <1>1, FreeFrames, Zenon DEF OpToRel
<1>3. \A e \in Free : f <= e
  BY <1>2, FreeFrames
<1> QED
  BY <1>3, Zenon DEF First

-----------------------------------------------------------------------------
\* The inductive invariant.  FrameTypes is what it needs of the types;
\* a frame that is found is found inside alloc_frame.
LoadsImage(c) == c.step = "header" \/ (c.step = "alloc" /\ ~c.sbrk)
FrameTypes ==
  /\ 0 \in g_frames /\ g_frames \subseteq Frames /\ raced \in BOOLEAN
  /\ map \in [Tasks -> [UPages -> PageType]]
  /\ call \in [Tasks -> CallType] /\ found \in [Tasks -> Frames]
  /\ \A t \in Tasks :
       /\ LoadsImage(call[t]) => call[t].image \in DOMAIN Images /\ call[t].k > 0
       /\ found[t] # 0 => call[t].step \in {"alloc", "kernel"}

\* Up to a race, whatever is in use has its bit set, and what a task has found
\* does not.
BitsAreRight ==
  ~raced => /\ kernel \subseteq g_frames
            /\ \A t \in Tasks, p \in UPages : map[t][p].frame \in g_frames
            /\ \A t \in Tasks : found[t] # 0 => found[t] \notin g_frames

FrameInv == FrameTypes /\ BitsAreRight /\ SharedOnlyByRace

\* A directory c that gets the frames handed out for its pages Q, and loses or
\* keeps its other pages, keeps the invariant.
LEMMA GiveFrames ==
  ASSUME FrameInv, NEW t \in Tasks, found[t] = 0, NEW c \in Tasks,
         NEW Q, Q \subseteq UPages, NEW new \in [UPages -> PageType],
         \A p \in UPages : IF p \in DOMAIN Handed(Q)
                             THEN new[p].frame = Handed(Q)[p]
                             ELSE new[p].frame \in {0, map[c][p].frame},
         Mark(t, Got(Handed(Q))), map' = [map EXCEPT ![c] = new],
         kernel' = kernel, found' = found
  PROVE  /\ 0 \in g_frames' /\ g_frames' \subseteq Frames /\ raced' \in BOOLEAN
         /\ map' \in [Tasks -> [UPages -> PageType]]
         /\ BitsAreRight' /\ SharedOnlyByRace'
<1> DEFINE h == Handed(Q)
<1>1. /\ \A p \in DOMAIN h : h[p] \in Free /\ h[p] \in Frames /\ h[p] \notin g_frames
      /\ \A p, q \in DOMAIN h : h[p] = h[q] => p = q
  BY HandedOnce, FreeFrames, Zenon DEF Free
<1>2. \A p \in UPages : IF p \in DOMAIN h THEN new[p].frame = h[p]
                                          ELSE new[p].frame \in {0, map[c][p].frame}
  BY Zenon
<1>3. Mark(t, Got(h))
  BY Zenon
<1> HIDE DEF h
<1> USE DEF FrameInv, FrameTypes
<1>4. g_frames' = g_frames \cup Got(h) /\ Got(h) \subseteq Frames
  BY <1>1, <1>3, SMTT(30) DEF Mark, Got
<1>5. /\ 0 \in g_frames' /\ g_frames' \subseteq Frames /\ raced' \in BOOLEAN
      /\ map' \in [Tasks -> [UPages -> PageType]]
  BY <1>3, <1>4, Zenon DEF Mark
<1>6. ASSUME ~raced' PROVE ~raced /\ \A u \in Tasks : found[u] # 0 => found[u] \notin Got(h)
  BY <1>3, <1>6, ZenonT(30) DEF Mark
<1>7. \A p \in DOMAIN h : h[p] \in Got(h)
  BY Zenon DEF Got
<1>8. \A u \in Tasks, p \in UPages :
        map'[u][p].frame = IF u = c THEN new[p].frame ELSE map[u][p].frame
  BY Zenon
<1>9. BitsAreRight'
  <2> SUFFICES ASSUME ~raced' PROVE
        /\ kernel' \subseteq g_frames'
        /\ \A u \in Tasks, p \in UPages : map'[u][p].frame \in g_frames'
        /\ \A u \in Tasks : found'[u] # 0 => found'[u] \notin g_frames'
    BY Zenon DEF BitsAreRight
  <2>1. kernel' \subseteq g_frames'
    BY <1>4, <1>6, Zenon DEF BitsAreRight
  <2>2. ASSUME NEW u \in Tasks, NEW p \in UPages PROVE map'[u][p].frame \in g_frames'
    BY <1>2, <1>4, <1>6, <1>7, <1>8, ZenonT(30) DEF BitsAreRight
  <2>3. ASSUME NEW u \in Tasks, found'[u] # 0 PROVE found'[u] \notin g_frames'
    BY <1>4, <1>6, <2>3, Zenon DEF BitsAreRight
  <2> QED
    BY <2>1, <2>2, <2>3, Zenon
<1>10. SharedOnlyByRace'
  <2> SUFFICES ASSUME ~raced' PROVE NoSharedFrame'
    BY Zenon DEF SharedOnlyByRace
  <2>0. ~raced /\ NoSharedFrame
    BY <1>6, Zenon DEF SharedOnlyByRace
  <2>1. \A u \in Tasks, p \in UPages : map[u][p].frame \in g_frames
    BY <2>0, Zenon DEF BitsAreRight
  <2>2. ASSUME NEW u \in Tasks, NEW v \in Tasks, NEW p \in UPages, NEW q \in UPages,
               map'[u][p].frame # 0, map'[u][p].frame = map'[v][q].frame
        PROVE  u = v /\ p = q
    <3>1. CASE u = c /\ p \in DOMAIN h
      BY <1>1, <1>2, <1>8, <2>0, <2>1, <2>2, <3>1, SMTT(30) DEF NoSharedFrame
    <3>2. CASE v = c /\ q \in DOMAIN h
      BY <1>1, <1>2, <1>8, <2>0, <2>1, <2>2, <3>2, SMTT(30) DEF NoSharedFrame
    <3>3. CASE ~(u = c /\ p \in DOMAIN h) /\ ~(v = c /\ q \in DOMAIN h)
      <4>1. map'[u][p].frame = map[u][p].frame /\ map'[v][q].frame = map[v][q].frame
        BY <1>2, <1>8, <2>2, <3>3, SMTT(30)
      <4> QED
        BY <2>0, <2>2, <4>1, SMTT(30) DEF NoSharedFrame
    <3> QED
      BY <3>1, <3>2, <3>3, Zenon
  <2>3. ASSUME NEW u \in Tasks, NEW p \in UPages, map'[u][p].frame # 0
        PROVE  map'[u][p].frame \notin kernel'
    BY <1>1, <1>2, <1>8, <2>0, <2>3, SMTT(30) DEF NoSharedFrame, BitsAreRight
  <2> QED
    BY <2>2, <2>3 DEF NoSharedFrame
<1> QED
  BY <1>5, <1>9, <1>10, Zenon

\* A step that moves no frame keeps the two clauses about frames.
LEMMA SameFrames ==
  ASSUME FrameInv, UNCHANGED <<g_frames, kernel, raced, found>>,
         \A t \in Tasks, p \in UPages : map'[t][p].frame = map[t][p].frame
  PROVE  BitsAreRight' /\ SharedOnlyByRace'
<1>1. BitsAreRight'
  BY Zenon DEF FrameInv, BitsAreRight
<1>2. ASSUME ~raced' PROVE NoSharedFrame'
  <2>1. NoSharedFrame
    BY <1>2, Zenon DEF FrameInv, SharedOnlyByRace
  <2>2. ASSUME NEW u \in Tasks, NEW v \in Tasks, NEW p \in UPages, NEW q \in UPages,
               map'[u][p].frame # 0, map'[u][p].frame = map'[v][q].frame
        PROVE  u = v /\ p = q
    <3>1. map[u][p].frame # 0 /\ map[u][p].frame = map[v][q].frame
      BY <2>2, Zenon
    <3> QED
      BY <2>1, <3>1, Zenon DEF NoSharedFrame
  <2>3. ASSUME NEW u \in Tasks, NEW p \in UPages, map'[u][p].frame # 0
        PROVE  map'[u][p].frame \notin kernel'
    BY <2>1, <2>3, Zenon DEF NoSharedFrame
  <2> QED
    BY <2>2, <2>3, SMTT(30) DEF NoSharedFrame
<1> QED
  BY <1>1, <1>2, Zenon DEF SharedOnlyByRace

\* A step that leaves all of that alone keeps them.
LEMMA NoFrames ==
  ASSUME FrameInv, UNCHANGED <<g_frames, kernel, raced, map, found>>
  PROVE  BitsAreRight' /\ SharedOnlyByRace'
  BY SameFrames, Zenon

\* The header that is being loaded is one of an image.
LEMMA HeaderTyped ==
  ASSUME FrameInv, NEW t \in Tasks, LoadsImage(call[t]), InTable(t)
  PROVE  Header(t) \in HeaderType
<1>1. call[t].image \in DOMAIN Images /\ call[t].k \in Nat /\ call[t].k > 0
  BY Zenon DEF FrameInv, FrameTypes, CallType
<1>2. Images[call[t].image] \in Seq(HeaderType)
  BY <1>1, ImagesAssumption, Zenon
<1> QED
  BY <1>1, <1>2 DEF Header, InTable

\* The steps of a task that neither hand out a frame nor look for one.
LEMMA CallSteps ==
  ASSUME FrameInv, NEW t \in Tasks,
         \/ skip_header(t) \/ bad_header(t) \/ map_header(t) \/ fill_header(t)
         \/ program_break(t) \/ no_memory(t) \/ sbrk_done(t)
         \/ \E m \in DOMAIN Images : execve(t, m)
         \/ \E i \in Increments : sys_sbrk(t, i)
  PROVE  FrameInv'
<1>1. UNCHANGED <<g_frames, kernel, raced, map, found>>
  BY Zenon DEF skip_header, bad_header, map_header, fill_header, program_break,
         no_memory, sbrk_done, execve, sys_sbrk
<1> USE DEF FrameInv, FrameTypes, LoadsImage, CallType
<1>2. ASSUME NEW x, x \in CallType, call' = [call EXCEPT ![t] = x],
             LoadsImage(x) => x.image \in DOMAIN Images /\ x.k > 0,
             found[t] # 0 => x.step \in {"alloc", "kernel"}
      PROVE  FrameTypes'
  BY <1>1, <1>2, Zenon
<1>3. NoCall \in CallType /\ ~LoadsImage(NoCall)
  BY Zenon DEF NoCall
<1>4. FrameTypes'
  <2>1. CASE Return(t) /\ found[t] = 0
    BY <1>2, <1>3, <2>1, Zenon DEF Return
  <2>2. CASE call[t].step # "alloc" /\ call[t].step # "kernel" /\ Return(t)
    BY <1>2, <1>3, <2>2, Zenon DEF Return
  <2>3. ASSUME Proceed(t), LoadsImage(call[t]), found[t] = 0 PROVE FrameTypes'
    <3> DEFINE x == [call[t] EXCEPT !.step = "header", !.k = @ + 1, !.rw = FALSE]
    <3>1. call' = [call EXCEPT ![t] = x]
      BY <2>3, Zenon DEF Proceed
    <3>2. call[t] \in CallType /\ call[t].k \in Nat
      BY Zenon
    <3>3. x \in CallType
      <4> DEFINE n == call[t].k + 1
                 y == [call[t] EXCEPT !.step = "header", !.k = n]
      <4>0. n \in Nat
        BY <3>2
      <4> HIDE DEF n
      <4>1. y \in CallType
        BY <3>2, <4>0, Zenon
      <4> USE DEF n
      <4>2. x = [y EXCEPT !.rw = FALSE]
        BY Zenon
      <4> HIDE DEF x, y
      <4> QED
        BY <4>1, <4>2, Zenon
    <3>4. x.image \in DOMAIN Images /\ x.k > 0
      BY <2>3, <3>2, SMTT(30)
    <3> HIDE DEF x
    <3> QED
      BY <1>2, <2>3, <3>1, <3>3, <3>4, Zenon
  <2>4. CASE skip_header(t)
    BY <2>3, <2>4, Zenon DEF skip_header, Loading
  <2>5. CASE bad_header(t)
    BY <2>2, <2>5, Zenon DEF bad_header, Loading
  <2>6. CASE map_header(t)
    <3> DEFINE x == [call[t] EXCEPT !.step = "alloc", !.rw = Header(t).rw]
    <3>1. Header(t).rw \in BOOLEAN
      BY <2>6, HeaderTyped, Zenon DEF map_header, Loading, HeaderType
    <3>2. call' = [call EXCEPT ![t] = x]
      BY <2>6, Zenon DEF map_header
    <3>3. x \in CallType /\ x.image \in DOMAIN Images /\ x.k > 0
      BY <2>6, <3>1, ZenonT(30) DEF map_header, Loading
    <3>4. x.step = "alloc"
      BY Zenon
    <3> HIDE DEF x
    <3> QED
      BY <1>2, <3>2, <3>3, <3>4, Zenon
  <2>7. CASE fill_header(t)
    BY <2>3, <2>7, Zenon DEF fill_header, Filling, Loading
  <2>8. CASE program_break(t)
    BY <1>1, <2>8, ZenonT(30) DEF program_break, Loading
  <2>9. CASE no_memory(t)
    BY <1>1, <2>1, <2>9, Zenon DEF no_memory
  <2>10. CASE sbrk_done(t)
    BY <2>1, <2>10, Zenon DEF sbrk_done
  <2>11. ASSUME NEW m \in DOMAIN Images, execve(t, m) PROVE FrameTypes'
    <3> DEFINE x == [call[t] EXCEPT !.step = "header", !.image = m, !.k = 1]
    <3>1. call' = [call EXCEPT ![t] = x]
      BY <2>11, ZenonT(30) DEF execve
    <3>0. call[t] = NoCall
      BY <2>11, Zenon DEF execve
    <3>2. call[t] \in CallType /\ call[t].step = "none"
      BY <1>3, <3>0, Zenon DEF NoCall
    <3>3. x \in CallType
      <4> DEFINE y == [call[t] EXCEPT !.step = "header", !.image = m]
      <4>1. y \in CallType
        BY <3>2, Zenon
      <4>2. x = [y EXCEPT !.k = 1]
        BY Zenon
      <4> HIDE DEF x, y
      <4> QED
        BY <4>1, <4>2, Zenon
    <3>4. x.image \in DOMAIN Images /\ x.k > 0
      BY <3>2
    <3>5. found[t] = 0
      BY <3>2, Zenon
    <3> HIDE DEF x
    <3> QED
      BY <1>2, <3>1, <3>3, <3>4, <3>5, ZenonT(30)
  <2>12. ASSUME NEW i \in Increments, sys_sbrk(t, i) PROVE FrameTypes'
    BY <1>1, <2>12, SMTT(30) DEF sys_sbrk, NoCall
  <2> QED
    BY <2>4, <2>5, <2>6, <2>7, <2>8, <2>9, <2>10, <2>11, <2>12, Zenon
<1>5. BitsAreRight' /\ SharedOnlyByRace'
  BY <1>1, NoFrames, Zenon
<1> QED
  BY <1>4, <1>5, Zenon

\* alloc_frame with interrupts off, by a task that is not inside alloc_frame.
LEMMA AllocFrame ==
  ASSUME FrameInv, NEW t \in Tasks, found[t] = 0, NEW S, NEW u \in BOOLEAN,
         NEW w \in BOOLEAN, alloc_frame(t, S, u, w),
         UNCHANGED <<kernel, found, call>>
  PROVE  FrameInv'
<1> DEFINE Q == WithoutFrame(t, S)
           h == Handed(Q)
           new == [p \in UPages |-> IF p \in DOMAIN h
                                      THEN [frame |-> h[p], user |-> u, rw |-> w]
                                      ELSE map[t][p]]
<1>1. Q \subseteq UPages
  BY Zenon DEF WithoutFrame
<1>2. Mark(t, Got(h)) /\ map' = [map EXCEPT ![t] = new]
  BY Zenon DEF alloc_frame
<1>3. \A p \in DOMAIN h : h[p] \in Frames
  BY <1>1, HandedOnce, FreeFrames, Zenon
<1>4. map[t] \in [UPages -> PageType]
  BY Zenon DEF FrameInv, FrameTypes
<1> HIDE DEF Q
<1>5. /\ new \in [UPages -> PageType]
      /\ \A p \in UPages : IF p \in DOMAIN h THEN new[p].frame = h[p]
                             ELSE new[p].frame \in {0, map[t][p].frame}
  BY <1>3, <1>4, Zenon DEF PageType
<1> HIDE DEF new
<1>6. /\ 0 \in g_frames' /\ g_frames' \subseteq Frames /\ raced' \in BOOLEAN
      /\ map' \in [Tasks -> [UPages -> PageType]]
      /\ BitsAreRight' /\ SharedOnlyByRace'
  BY <1>1, <1>2, <1>5, GiveFrames, Zenon
<1> QED
  BY <1>6, Zenon DEF FrameInv, FrameTypes

\* page_fault, by a task that is not inside alloc_frame.
LEMMA PageFault ==
  ASSUME FrameInv, NEW t \in Tasks, found[t] = 0, NEW a, page_fault(t, a),
         UNCHANGED <<kernel, found, call>>
  PROVE  FrameInv'
<1>1. ASSUME NEW u \in BOOLEAN, zero_page(t, a \div PAGE, u) PROVE FrameInv'
  BY <1>1, AllocFrame, Zenon DEF zero_page
<1>2. CASE UNCHANGED <<g_frames, map, raced>>
  BY <1>2, NoFrames, Zenon DEF FrameInv, FrameTypes
<1> QED
  BY <1>1, <1>2, Zenon DEF page_fault

\* fork gives the pages of the child frames.
LEMMA ForkFrames ==
  ASSUME FrameInv, NEW t \in Tasks, NEW c \in Tasks, fork(t, c)
  PROVE  FrameInv'
<1> DEFINE Q == {p \in UPages : map[t][p].frame # 0}
           h == Handed(Q)
           new == [p \in UPages |-> IF p \in DOMAIN h
                                      THEN [map[t][p] EXCEPT !.frame = h[p]]
                                      ELSE NoPage]
<1>1. Q \subseteq UPages
  BY Zenon
<1>2. Mark(t, Got(h)) /\ map' = [map EXCEPT ![c] = new]
  BY Zenon DEF fork
<1>3. \A p \in DOMAIN h : h[p] \in Frames
  BY <1>1, HandedOnce, FreeFrames, ZenonT(30)
<1>4. map[t] \in [UPages -> PageType] /\ 0 \in Frames
  BY Zenon DEF FrameInv, FrameTypes
<1> HIDE DEF Q
<1>5. /\ new \in [UPages -> PageType]
      /\ \A p \in UPages : IF p \in DOMAIN h THEN new[p].frame = h[p]
                             ELSE new[p].frame \in {0, map[c][p].frame}
  BY <1>3, <1>4, Zenon DEF PageType, NoPage
<1>6. call[t] = NoCall /\ UNCHANGED <<kernel, call, found>>
  BY Zenon DEF fork
<1>7. found[t] = 0
  BY <1>6 DEF NoCall, FrameInv, FrameTypes
<1> HIDE DEF new
<1>8. /\ 0 \in g_frames' /\ g_frames' \subseteq Frames /\ raced' \in BOOLEAN
      /\ map' \in [Tasks -> [UPages -> PageType]]
      /\ BitsAreRight' /\ SharedOnlyByRace'
  BY <1>1, <1>2, <1>5, <1>6, <1>7, GiveFrames, Zenon
<1> QED
  BY <1>6, <1>8, Zenon DEF FrameInv, FrameTypes

\* set_user_stack gives the stack frames.
LEMMA StackFrames ==
  ASSUME FrameInv, NEW t \in Tasks, set_user_stack(t)
  PROVE  FrameInv'
<1> DEFINE stack == Unbroken(t, StackPage(prog[t].execs))
           Q == WithoutFrame(t, {BlockHeader(prog[t].execs)}) \cup stack
           h == Handed(Q)
           new == [p \in UPages |-> IF p \in DOMAIN h
                     THEN [frame |-> h[p], user |-> p \in stack, rw |-> p \in stack]
                     ELSE map[t][p]]
<1>1. Q \subseteq UPages
  BY Zenon DEF WithoutFrame, Unbroken
<1>2. /\ Mark(t, Got(h)) /\ map' = [map EXCEPT ![t] = new]
      /\ call[t].step = "stack" /\ UNCHANGED <<kernel, found>>
      /\ call' = [call EXCEPT ![t] = NoCall]
  BY Zenon DEF set_user_stack, Loading, Return
<1>3. \A p \in DOMAIN h : h[p] \in Frames
  BY <1>1, HandedOnce, FreeFrames, ZenonT(30)
<1>4. map[t] \in [UPages -> PageType]
  BY Zenon DEF FrameInv, FrameTypes
<1>5. found[t] = 0
  BY <1>2, ZenonT(30) DEF FrameInv, FrameTypes
<1> HIDE DEF Q, stack
<1>6. /\ new \in [UPages -> PageType]
      /\ \A p \in UPages : IF p \in DOMAIN h THEN new[p].frame = h[p]
                             ELSE new[p].frame \in {0, map[t][p].frame}
  BY <1>3, <1>4, SMTT(30) DEF PageType
<1> HIDE DEF new
<1>7. /\ 0 \in g_frames' /\ g_frames' \subseteq Frames /\ raced' \in BOOLEAN
      /\ map' \in [Tasks -> [UPages -> PageType]]
      /\ BitsAreRight' /\ SharedOnlyByRace'
  BY <1>1, <1>2, <1>5, <1>6, GiveFrames, Zenon
<1>8. NoCall \in CallType /\ ~LoadsImage(NoCall)
  BY Zenon DEF NoCall, CallType, LoadsImage
<1> QED
  BY <1>2, <1>5, <1>7, <1>8, Zenon DEF FrameInv, FrameTypes

\* A task that has found a frame sets its bit and gives it to its page, or to
\* the kernel's tables; anyone else who had found it has raced.
LEMMA TakeFrame ==
  ASSUME FrameInv, NEW t \in Tasks, take(t) \/ kernel_take(t)
  PROVE  BitsAreRight' /\ SharedOnlyByRace'
<1>0. map \in [Tasks -> [UPages -> PageType]] /\ found \in [Tasks -> Frames]
  BY Zenon DEF FrameInv, FrameTypes
<1>1. /\ g_frames' = g_frames \cup {found[t]}
      /\ raced' = (raced \/ \E u \in Tasks \ {t} : found[u] # 0 /\ found[u] \in {found[t]})
      /\ found' = [found EXCEPT ![t] = 0]
  BY Zenon DEF take, kernel_take, Mark
<1> SUFFICES ASSUME ~raced' PROVE BitsAreRight' /\ NoSharedFrame'
  BY Zenon DEF SharedOnlyByRace, BitsAreRight
<1>2. ~raced /\ NoSharedFrame /\ \A u \in Tasks \ {t} : found[u] # 0 => found[u] # found[t]
  BY <1>1, Zenon DEF SharedOnlyByRace, FrameInv
<1>3. \A u \in Tasks : found'[u] # 0 => u # t /\ found'[u] = found[u]
  BY <1>0, <1>1, Zenon
<1>4. /\ kernel \subseteq g_frames
      /\ \A u \in Tasks, p \in UPages : map[u][p].frame \in g_frames
      /\ \A u \in Tasks : found[u] # 0 => found[u] \notin g_frames
  BY <1>2, Zenon DEF BitsAreRight, FrameInv
<1>5. CASE take(t)
  <2> DEFINE q == At(t)
  <2>1. \A u \in Tasks, p \in UPages :
          map'[u][p].frame = IF u = t /\ p = q THEN found[t] ELSE map[u][p].frame
    BY <1>0, <1>5, Zenon DEF take, PageType
  <2>2. kernel' = kernel /\ found[t] # 0
    BY <1>5, Zenon DEF take
  <2> HIDE DEF q
  <2>3. BitsAreRight'
    <3>1. kernel' \subseteq g_frames'
      BY <1>1, <1>4, <2>2, Zenon
    <3>2. \A u \in Tasks, p \in UPages : map'[u][p].frame \in g_frames'
      BY <1>1, <1>4, <2>1, SMTT(30)
    <3>3. \A u \in Tasks : found'[u] # 0 => found'[u] \notin g_frames'
      BY <1>1, <1>2, <1>3, <1>4, SMTT(30)
    <3> QED
      BY <3>1, <3>2, <3>3, Zenon DEF BitsAreRight
  <2>4. NoSharedFrame'
    <3>1. ASSUME NEW u \in Tasks, NEW v \in Tasks, NEW p \in UPages, NEW r \in UPages,
                 map'[u][p].frame # 0, map'[u][p].frame = map'[v][r].frame
          PROVE  u = v /\ p = r
      <4>1. CASE u = t /\ p = q
        BY <1>4, <2>1, <2>2, <3>1, <4>1, SMTT(30)
      <4>2. CASE v = t /\ r = q
        BY <1>4, <2>1, <2>2, <3>1, <4>2, SMTT(30)
      <4>3. CASE ~(u = t /\ p = q) /\ ~(v = t /\ r = q)
        BY <1>2, <2>1, <3>1, <4>3, SMTT(30) DEF NoSharedFrame
      <4> QED
        BY <4>1, <4>2, <4>3, Zenon
    <3>2. ASSUME NEW u \in Tasks, NEW p \in UPages, map'[u][p].frame # 0
          PROVE  map'[u][p].frame \notin kernel'
      BY <1>2, <1>4, <2>1, <2>2, <3>2, Zenon DEF NoSharedFrame
    <3> QED
      BY <3>1, <3>2 DEF NoSharedFrame
  <2> QED
    BY <2>3, <2>4, Zenon
<1>6. CASE kernel_take(t)
  <2>1. map' = map /\ kernel' = kernel \cup {found[t]}
    BY <1>6, Zenon DEF kernel_take
  <2>2. BitsAreRight'
    BY <1>1, <1>2, <1>3, <1>4, <2>1, SMTT(30) DEF BitsAreRight
  <2>3. NoSharedFrame'
    BY <1>2, <1>4, <2>1, SMTT(30) DEF NoSharedFrame
  <2> QED
    BY <2>2, <2>3, Zenon
<1> QED
  BY <1>5, <1>6, Zenon

\* The look for a frame and the taking of it, in map_memory_block, sbrk and the
\* kernel heap.
LEMMA LookAndTake ==
  ASSUME FrameInv, NEW t \in Tasks,
         look(t) \/ take(t) \/ reflag(t) \/ kernel_look(t) \/ kernel_take(t)
  PROVE  FrameInv'
<1> USE DEF FrameInv, FrameTypes, CallType
<1>1. ASSUME Free # {}, found' = [found EXCEPT ![t] = First],
             UNCHANGED <<g_frames, kernel, map, raced>>
      PROVE  BitsAreRight' /\ SharedOnlyByRace' /\ found' \in [Tasks -> Frames]
  <2>1. First \in Frames /\ First \notin g_frames
    BY <1>1, FirstFree, FreeFrames, Zenon DEF Free
  <2> QED
    BY <1>1, <2>1, SMTT(30) DEF BitsAreRight, SharedOnlyByRace, NoSharedFrame
<1>2. CASE look(t)
  <2>1. BitsAreRight' /\ SharedOnlyByRace' /\ found' \in [Tasks -> Frames]
    BY <1>1, <1>2, Zenon DEF look
  <2>2. FrameTypes'
    BY <1>2, <2>1, Zenon DEF look, Looping, LoadsImage
  <2> QED
    BY <2>1, <2>2, Zenon
<1>3. CASE take(t)
  <2>1. BitsAreRight' /\ SharedOnlyByRace'
    BY <1>3, TakeFrame, Zenon
  <2>2. map' \in [Tasks -> [UPages -> PageType]]
    BY <1>3, Zenon DEF take, PageType
  <2>3. FrameTypes'
    BY <1>3, <2>2 DEF take, Mark, LoadsImage
  <2> QED
    BY <2>1, <2>3, Zenon
<1>4. CASE reflag(t)
  <2>1. map' \in [Tasks -> [UPages -> PageType]]
    <3> DEFINE r == [frame |-> map[t][At(t)].frame, user |-> TRUE, rw |-> call[t].rw]
    <3>1. At(t) \in UPages => r \in PageType
      BY DEF PageType
    <3>2. map' = [map EXCEPT ![t] = [map[t] EXCEPT ![At(t)] = r]]
      BY <1>4, Zenon DEF reflag
    <3> HIDE DEF r
    <3> QED
      BY <3>1, <3>2, ZenonT(30)
  <2>2. \A u \in Tasks, p \in UPages : map'[u][p].frame = map[u][p].frame
    BY <1>4, Zenon DEF reflag, PageType
  <2>3. UNCHANGED <<g_frames, kernel, raced, found, call>>
    BY <1>4, Zenon DEF reflag
  <2>4. BitsAreRight' /\ SharedOnlyByRace'
    BY <2>2, <2>3, SameFrames, Zenon
  <2> QED
    BY <2>1, <2>3, <2>4, Zenon
<1>5. CASE kernel_look(t)
  <2>1. BitsAreRight' /\ SharedOnlyByRace' /\ found' \in [Tasks -> Frames]
    BY <1>1, <1>5, Zenon DEF kernel_look
  <2>2. FrameTypes'
    BY <1>5, <2>1, ZenonT(30) DEF kernel_look, LoadsImage
  <2> QED
    BY <2>1, <2>2, Zenon
<1>6. CASE kernel_take(t)
  <2>1. BitsAreRight' /\ SharedOnlyByRace'
    BY <1>6, TakeFrame, Zenon
  <2>2. NoCall \in CallType /\ ~LoadsImage(NoCall)
    BY Zenon DEF NoCall, LoadsImage
  <2>3. FrameTypes'
    BY <1>6, <2>2 DEF kernel_take, Mark, Return
  <2> QED
    BY <2>1, <2>3, Zenon
<1> QED
  BY <1>2, <1>3, <1>4, <1>5, <1>6, Zenon

\* Every step keeps the invariant.
LEMMA FrameNext == FrameInv /\ [Next]_vars => FrameInv'
<1> SUFFICES ASSUME FrameInv, [Next]_vars PROVE FrameInv'
  BY ZenonT(30)
<1>1. CASE UNCHANGED vars
  BY <1>1, NoFrames, Zenon DEF vars, FrameInv, FrameTypes
<1>2. ASSUME NEW t \in Tasks, fill_fault(t) PROVE FrameInv'
  <2>1. found[t] = 0 /\ UNCHANGED <<kernel, found, call>>
    BY <1>2, Zenon DEF fill_fault, Filling
  <2> QED
    BY <1>2, <2>1, PageFault, Zenon DEF fill_fault
<1>3. ASSUME NEW t \in Tasks, NEW a \in Addresses, write(t, a) PROVE FrameInv'
  BY <1>3, NoFrames, Zenon DEF write, FrameInv, FrameTypes
<1>4. ASSUME NEW t \in Tasks, NEW a \in Addresses, write_fault(t, a) PROVE FrameInv'
  <2>1. found[t] = 0 /\ UNCHANGED <<kernel, found, call>>
    BY <1>4, SMTT(30) DEF write_fault, NoCall, FrameInv, FrameTypes
  <2>2. CASE UNCHANGED <<g_frames, map, raced>>
    BY <2>1, <2>2, NoFrames, Zenon DEF FrameInv, FrameTypes
  <2> QED
    BY <1>4, <2>1, <2>2, PageFault, Zenon DEF write_fault
<1>5. ASSUME NEW t \in Tasks, Loader(t) PROVE FrameInv'
  BY <1>2, <1>5, CallSteps, StackFrames, Zenon DEF Loader
<1>6. ASSUME NEW t \in Tasks, Alloc(t) PROVE FrameInv'
  BY <1>6, CallSteps, LookAndTake, Zenon DEF Alloc
<1> QED
  BY <1>1, <1>3, <1>4, <1>5, <1>6, CallSteps, ForkFrames, Zenon DEF Next

\* At first only the kernel has frames.
LEMMA FrameInit == Init => FrameInv
<1> SUFFICES ASSUME Init PROVE FrameInv
  BY Zenon
<1>1. 0 \in 0..KERNEL - 1 /\ 0..KERNEL - 1 \subseteq Frames /\ 0 \in Frames
  BY PagingAssumption, SMTT(30) DEF Frames, Words
<1>2. NoCall \in CallType /\ ~LoadsImage(NoCall) /\ NoPage \in PageType /\ NoPage.frame = 0
  BY <1>1, Zenon DEF NoCall, LoadsImage, CallType, NoPage, PageType
<1>3. FrameTypes
  BY <1>1, <1>2, Zenon DEF Init, FrameTypes
<1>4. BitsAreRight /\ SharedOnlyByRace
  BY <1>1, <1>2, Zenon DEF Init, BitsAreRight, SharedOnlyByRace, NoSharedFrame
<1> QED
  BY <1>3, <1>4, Zenon DEF FrameInv

\* No frame is in two places, of any tasks or of the kernel, unless alloc_frame
\* has handed out a frame that another task was about to mark.
THEOREM FramesNotShared == Spec => []SharedOnlyByRace
<1>1. FrameInv => SharedOnlyByRace
  BY Zenon DEF FrameInv
<1> QED
  BY <1>1, FrameInit, FrameNext, PTL DEF Spec
-----------------------------------------------------------------------------
\* The addresses of the pages of UPages.
Addr == SHEAP * PAGE..LAST * PAGE + PAGE - 1

\* Each of these addresses is in a page, and is told by its page and its place
\* in it.
LEMMA Quotient ==
  ASSUME NEW a \in Nat
  PROVE  /\ a \div PAGE \in Nat /\ a % PAGE \in 0..PAGE - 1
         /\ a = PAGE * (a \div PAGE) + (a % PAGE)
<1>1. PAGE \in Nat \ {0}
  BY PagingAssumption, Zenon
<1>. QED
  BY <1>1

\* The page of such an address is one of UPages.
LEMMA PageOf ==
  ASSUME NEW a \in Addr
  PROVE  a \in Nat /\ a \div PAGE \in UPages
<1>1. PAGE \in Nat \ {0} /\ SHEAP \in Nat /\ LAST \in Nat
  BY PagingAssumption, Zenon
<1>2. PICK x \in Nat, y \in Nat : x = SHEAP * PAGE /\ y = LAST * PAGE
  BY <1>1
<1>3. a \in Nat /\ x <= a /\ a < y + PAGE
  BY <1>1, <1>2, SMTT(30) DEF Addr
<1>4. PICK q \in Nat, r \in 0..PAGE - 1 : q = a \div PAGE /\ a = PAGE * q + r
  BY <1>3, Quotient, Zenon
<1>5. q >= SHEAP
  BY <1>1, <1>2, <1>3, <1>4, SMTT(30)
<1>6. q <= LAST
  BY <1>1, <1>2, <1>3, <1>4, SMTT(30)
<1>. QED
  BY <1>1, <1>3, <1>4, <1>5, <1>6 DEF UPages

\* Two addresses with the same page and the same place in it are one.
LEMMA SameAddress ==
  ASSUME NEW a \in Nat, NEW b \in Nat, a \div PAGE = b \div PAGE, a % PAGE = b % PAGE
  PROVE  a = b
BY Quotient, Zenon

\* A task sees the same memory as before when its pages have the same frames and
\* these the same contents.
LEMMA SpaceKept ==
  ASSUME NEW u \in Tasks,
         \A p \in UPages : /\ map'[u][p].frame = map[u][p].frame
                           /\ map[u][p].frame # 0
                                => mem'[map[u][p].frame] = mem[map[u][p].frame]
  PROVE  Space(u)' = Space(u)
<1>1. ASSUME NEW a \in Addr
      PROVE  /\ Present(u, a)' <=> Present(u, a)
             /\ Present(u, a) => mem'[map'[u][a \div PAGE].frame][a % PAGE]
                                   = mem[map[u][a \div PAGE].frame][a % PAGE]
  BY PageOf, Zenon DEF Present
<1>. QED
  BY <1>1, ZenonT(30) DEF Space, Addr

-----------------------------------------------------------------------------
\* What the proofs about the memories of tasks need besides FrameInv: the frames
\* of pages are marked, also after a race; a page without a frame is empty; only
\* live tasks make calls; what map_mem is called for is a segment to be loaded.
Marked == \A t \in Tasks, p \in UPages : map[t][p].frame \in g_frames
EmptyPages == \A t \in Tasks, p \in UPages : map[t][p].frame = 0 => map[t][p] = NoPage
LiveCalls == \A t \in Tasks : call[t] # NoCall => t \in live
Segments == \A t \in Tasks : call[t].step = "alloc" /\ ~call[t].sbrk
                                => InTable(t) /\ Header(t).load
MemTyped == /\ DOMAIN mem = Frames
            /\ \A f \in Frames : mem[f] = [i \in 0..PAGE - 1 |-> mem[f][i]]
SpaceInv == Marked /\ EmptyPages /\ LiveCalls /\ Segments /\ MemTyped

\* What a step of task t other than fork leaves alone: the pages, the calls and,
\* up to a race, the memory of other tasks.
StepOf(t) ==
  /\ t \in live /\ live' = live
  /\ \A u \in Tasks \ {t} : map'[u] = map[u] /\ call'[u] = call[u]
  /\ \A p \in UPages : map'[t][p].frame \in g_frames'
  /\ \A p \in UPages : map'[t][p].frame = 0 => map'[t][p] = NoPage
  /\ g_frames \subseteq g_frames' /\ (raced => raced') /\ MemTyped'
  /\ ~raced => \A u \in Tasks \ {t}, p \in UPages :
       map[u][p].frame # 0 => mem'[map[u][p].frame] = mem[map[u][p].frame]

\* Such a step keeps SpaceInv.
LEMMA StepKeeps ==
  ASSUME FrameInv, SpaceInv, NEW t \in Tasks, StepOf(t),
         \/ call'[t] = call[t] \/ call'[t].step # "alloc" \/ call'[t].sbrk
         \/ InTable(t)' /\ Header(t)'.load
  PROVE  SpaceInv'
<1>1. Marked'
  BY Zenon DEF SpaceInv, Marked, StepOf
<1>2. EmptyPages'
  BY SMTT(30) DEF SpaceInv, EmptyPages, StepOf
<1>3. LiveCalls'
  BY Zenon DEF SpaceInv, LiveCalls, StepOf
<1>4. Segments'
  <2>. SUFFICES ASSUME NEW u \in Tasks, call'[u].step = "alloc", ~call'[u].sbrk
                PROVE  InTable(u)' /\ Header(u)'.load
    BY Zenon DEF Segments
  <2>1. CASE call'[u] = call[u]
    BY <2>1, Zenon DEF SpaceInv, Segments, InTable, Header
  <2>2. CASE call'[u] # call[u]
    BY <2>2, Zenon DEF StepOf
  <2>. QED
    BY <2>1, <2>2, Zenon
<1>. QED
  BY <1>1, <1>2, <1>3, <1>4, ZenonT(30) DEF SpaceInv, StepOf

\* The frames that are handed out were not marked, and are now.
LEMMA HandedMarked ==
  ASSUME FrameInv, NEW t \in Tasks, NEW Q, Q \subseteq UPages, Mark(t, Got(Handed(Q)))
  PROVE  /\ DOMAIN Handed(Q) \subseteq Q
         /\ \A p \in DOMAIN Handed(Q) :
              /\ Handed(Q)[p] \in g_frames' /\ Handed(Q)[p] \notin g_frames
              /\ Handed(Q)[p] # 0 /\ Handed(Q)[p] \in Frames
         /\ \A p, q \in DOMAIN Handed(Q) : Handed(Q)[p] = Handed(Q)[q] => p = q
         /\ g_frames \subseteq g_frames' /\ (raced => raced')
<1>1. /\ DOMAIN Handed(Q) \subseteq Q
      /\ \A p \in DOMAIN Handed(Q) : Handed(Q)[p] \in Free
      /\ \A p, q \in DOMAIN Handed(Q) : Handed(Q)[p] = Handed(Q)[q] => p = q
  BY HandedOnce, Zenon
<1>2. \A f \in Free : f \in Frames /\ f \notin g_frames /\ f # 0
  BY FreeFrames, Zenon DEF Free, FrameInv, FrameTypes
<1>3. \A p \in DOMAIN Handed(Q) : Handed(Q)[p] \in Got(Handed(Q))
  BY DEF Got
<1>. QED
  BY <1>1, <1>2, <1>3, ZenonT(30) DEF Mark

\* Steps that change neither memory nor the pages of t.
LEMMA QuietStep ==
  ASSUME FrameInv, SpaceInv, NEW t \in Tasks, t \in live, live' = live, mem' = mem,
         NEW x, call' = [call EXCEPT ![t] = x], UNCHANGED <<g_frames, map, raced>>
  PROVE  StepOf(t)
BY Zenon DEF StepOf, SpaceInv, Marked, EmptyPages, MemTyped, FrameInv, FrameTypes

\* Steps that only give frames to pages of t.
LEMMA GiveStep ==
  ASSUME FrameInv, SpaceInv, NEW t \in Tasks, t \in live, live' = live, mem' = mem,
         NEW x, call' = [call EXCEPT ![t] = x],
         NEW Q, Q \subseteq UPages, Mark(t, Got(Handed(Q))),
         NEW new, map' = [map EXCEPT ![t] = new],
         \A p \in UPages : IF p \in DOMAIN Handed(Q) THEN new[p].frame = Handed(Q)[p]
                                                     ELSE new[p] = map[t][p]
  PROVE  StepOf(t)
<1>. DEFINE h == Handed(Q)
<1>1. /\ \A p \in DOMAIN h : h[p] \in g_frames' /\ h[p] # 0
      /\ g_frames \subseteq g_frames' /\ (raced => raced')
  BY HandedMarked, Zenon
<1>2. map'[t] = new /\ \A u \in Tasks \ {t} : map'[u] = map[u] /\ call'[u] = call[u]
  BY Zenon DEF FrameInv, FrameTypes
<1>3. \A p \in UPages : IF p \in DOMAIN h THEN new[p].frame = h[p] ELSE new[p] = map[t][p]
  BY Zenon
<1>. HIDE DEF h
<1>4. ASSUME NEW p \in UPages
      PROVE  map'[t][p].frame \in g_frames' /\ (map'[t][p].frame = 0 => map'[t][p] = NoPage)
  BY <1>1, <1>2, <1>3, SMTT(30) DEF SpaceInv, Marked, EmptyPages
<1>. QED
  BY <1>1, <1>2, <1>4, Zenon DEF StepOf, SpaceInv, MemTyped

\* A task in a call is live.
LEMMA InCall ==
  ASSUME SpaceInv, NEW t \in Tasks, call[t].step # "none"
  PROVE  t \in live
BY SMTT(30) DEF SpaceInv, LiveCalls, NoCall

\* page_fault is such a step.
LEMMA FaultStep ==
  ASSUME FrameInv, SpaceInv, NEW t \in Tasks, t \in live, NEW a, page_fault(t, a),
         UNCHANGED <<kernel, mem, live, call>>
  PROVE  StepOf(t)
<1>0. call' = [call EXCEPT ![t] = call[t]]
  BY Zenon DEF FrameInv, FrameTypes
<1>1. ASSUME NEW u, zero_page(t, a \div PAGE, u) PROVE StepOf(t)
  <2>1. PICK Q : Q = WithoutFrame(t, {a \div PAGE})
    BY Zenon
  <2>2. Q \subseteq UPages
    BY <2>1, Zenon DEF WithoutFrame
  <2>3. PICK new : new = [p \in UPages |-> IF p \in DOMAIN Handed(Q)
                            THEN [frame |-> Handed(Q)[p], user |-> u, rw |-> u]
                            ELSE map[t][p]]
    BY ZenonT(30)
  <2>4. Mark(t, Got(Handed(Q))) /\ map' = [map EXCEPT ![t] = new]
    BY <1>1, <2>1, <2>3, Zenon DEF zero_page, alloc_frame
  <2>5. \A p \in UPages : IF p \in DOMAIN Handed(Q) THEN new[p].frame = Handed(Q)[p]
                                                    ELSE new[p] = map[t][p]
    BY <2>3, Zenon
  <2>. QED
    BY <1>0, <2>2, <2>4, <2>5, GiveStep, ZenonT(30)
<1>2. CASE UNCHANGED <<g_frames, map, raced>>
  BY <1>0, <1>2, QuietStep, Zenon
<1>. QED
  BY <1>1, <1>2, ZenonT(30) DEF page_fault

\* set_user_stack is.
LEMMA StackStep ==
  ASSUME FrameInv, SpaceInv, NEW t \in Tasks, set_user_stack(t)
  PROVE  StepOf(t)
<1>1. PICK stack, Q : /\ stack = Unbroken(t, StackPage(prog[t].execs))
                      /\ Q = WithoutFrame(t, {BlockHeader(prog[t].execs)}) \cup stack
  BY Zenon
<1>2. Q \subseteq UPages
  BY <1>1, Zenon DEF WithoutFrame, Unbroken
<1>3. PICK new : new = [p \in UPages |-> IF p \in DOMAIN Handed(Q)
                     THEN [frame |-> Handed(Q)[p], user |-> p \in stack, rw |-> p \in stack]
                     ELSE map[t][p]]
  BY Zenon
<1>4. Mark(t, Got(Handed(Q))) /\ map' = [map EXCEPT ![t] = new]
  BY <1>1, <1>3, Zenon DEF set_user_stack
<1>5. \A p \in UPages : IF p \in DOMAIN Handed(Q) THEN new[p].frame = Handed(Q)[p]
                                                  ELSE new[p] = map[t][p]
  BY <1>3, Zenon
<1>6. t \in live
  BY InCall, Zenon DEF set_user_stack, Loading
<1>7. live' = live /\ mem' = mem /\ call' = [call EXCEPT ![t] = NoCall]
  BY Zenon DEF set_user_stack, Return
<1>. QED
  BY <1>2, <1>4, <1>5, <1>6, <1>7, GiveStep, ZenonT(30)

\* So are the look for a frame and the taking of it.
LEMMA TakeStep ==
  ASSUME FrameInv, SpaceInv, NEW t \in Tasks,
         look(t) \/ take(t) \/ reflag(t) \/ kernel_look(t) \/ kernel_take(t)
  PROVE  StepOf(t)
<1>0. call' = [call EXCEPT ![t] = call'[t]] /\ t \in live /\ live' = live /\ mem' = mem
  <2>1. t \in live
    BY InCall, Zenon DEF look, take, reflag, Looping, kernel_look, kernel_take
  <2>2. call' = [call EXCEPT ![t] = call'[t]]
    BY Zenon
       DEF look, take, reflag, kernel_look, kernel_take, FrameInv, FrameTypes, Return
  <2>. QED
    BY <2>1, <2>2, Zenon DEF look, take, reflag, kernel_look, kernel_take
<1>1. CASE look(t) \/ kernel_look(t)
  BY <1>0, <1>1, QuietStep, Zenon DEF look, kernel_look
<1>2. ASSUME NEW q, NEW r, map' = [map EXCEPT ![t][q] = r], r.frame # 0,
             q \in UPages => r.frame \in g_frames', g_frames \subseteq g_frames',
             raced => raced'
      PROVE  StepOf(t)
  <2>1. /\ \A u \in Tasks \ {t} : map'[u] = map[u] /\ call'[u] = call[u]
        /\ \A p \in UPages : map'[t][p] = IF p = q THEN r ELSE map[t][p]
    BY <1>0, <1>2, Zenon DEF FrameInv, FrameTypes
  <2>. QED
    BY <1>0, <1>2, <2>1, SMTT(30) DEF StepOf, SpaceInv, Marked, EmptyPages, MemTyped
<1>3. CASE take(t)
  <2>1. PICK r : r = [frame |-> found[t], user |-> TRUE, rw |-> call[t].rw]
    BY ZenonT(30)
  <2>2. r.frame = found[t] /\ found[t] # 0 /\ Mark(t, {found[t]})
        /\ map' = [map EXCEPT ![t][At(t)] = r]
    BY <1>3, <2>1, Zenon DEF take
  <2>. QED
    BY <1>2, <2>2, Zenon DEF Mark
<1>4. CASE reflag(t)
  <2>1. PICK r : r = [frame |-> map[t][At(t)].frame, user |-> TRUE, rw |-> call[t].rw]
    BY ZenonT(30)
  <2>2. /\ r.frame = map[t][At(t)].frame /\ map[t][At(t)].frame # 0
        /\ UNCHANGED <<g_frames, raced>>
    BY <1>4, <2>1, Zenon DEF reflag
  <2>3. map' = [map EXCEPT ![t][At(t)] = r]
    BY <1>4, <2>1, ZenonT(30) DEF reflag
  <2>4. At(t) \in UPages => r.frame \in g_frames
    BY <2>2, ZenonT(30) DEF SpaceInv, Marked
  <2>. QED
    BY <1>2, <2>2, <2>3, <2>4, Zenon
<1>5. CASE kernel_take(t)
  BY <1>0, <1>5 DEF kernel_take, Mark, StepOf, SpaceInv, Marked, EmptyPages, MemTyped,
                    FrameInv, FrameTypes
<1>. QED
  BY <1>1, <1>3, <1>4, <1>5, Zenon

\* The bytes of the header that is being loaded are in the task's pages.
LEMMA HeaderThere ==
  ASSUME FrameInv, NEW t \in Tasks, Filling(t), InTable(t), Header(t).load,
         NEW a \in Header(t).vaddr..End(Header(t)) - 1
  PROVE  a \in Addr
<1>1. call[t].image \in DOMAIN Images /\ call[t].k \in Nat /\ call[t].k > 0
  BY ZenonT(30) DEF FrameInv, FrameTypes, CallType, Filling, Loading, LoadsImage
<1>2. Images[call[t].image] \in Seq(HeaderType)
  BY <1>1, ImagesAssumption, Zenon
<1>3. call[t].k \in 1..Len(Images[call[t].image])
  BY <1>1, <1>2 DEF InTable
<1>4. PICK h : h = Header(t)
  BY Zenon
<1>5. PROGRAMS * PAGE <= h.vaddr /\ h.vaddr + h.memsize <= LAST * PAGE + PAGE
  BY <1>1, <1>3, <1>4, ImagesAssumption, Zenon DEF Header
<1>6. h.vaddr \in Nat /\ h.memsize \in Nat
  <2>1. h \in HeaderType
    BY <1>4, HeaderTyped, Zenon DEF Filling, Loading, LoadsImage
  <2>. QED
    BY <2>1, Zenon DEF HeaderType
<1>7. PICK x \in Nat, y \in Nat, z \in Nat :
        x = PROGRAMS * PAGE /\ y = LAST * PAGE /\ z = SHEAP * PAGE /\ z <= x
  <2>1. PROGRAMS \in Nat /\ LAST \in Nat /\ SHEAP \in Nat /\ PAGE \in Nat /\ SHEAP < PROGRAMS
    BY PagingAssumption, Zenon
  <2>2. SHEAP * PAGE <= PROGRAMS * PAGE
    BY <2>1, SMTT(30)
  <2>. QED
    BY <2>1, <2>2, SMTT(30)
<1>8. PAGE \in Nat
  BY PagingAssumption, Zenon
<1>. QED
  BY <1>4, <1>5, <1>6, <1>7, <1>8 DEF Addr, End

\* The loading of a segment writes to the task's own frames.
LEMMA FillStep ==
  ASSUME FrameInv, SpaceInv, NEW t \in Tasks, fill_header(t)
  PROVE  StepOf(t)
<1>1. Filling(t) /\ InTable(t) /\ Header(t).load /\ t \in live
  BY InCall, Zenon DEF fill_header, Filling, Loading, SpaceInv, Segments
<1>2. mem' = Filled(t, Header(t).vaddr, End(Header(t)) - 1)
  BY Zenon DEF fill_header
<1>3. /\ UNCHANGED <<live, map, g_frames, raced>>
      /\ \A u \in Tasks \ {t} : call'[u] = call[u]
  BY Zenon DEF fill_header, Proceed, FrameInv, FrameTypes
<1>4. ASSUME ~raced, NEW u \in Tasks \ {t}, NEW p \in UPages, map[u][p].frame # 0
      PROVE  mem'[map[u][p].frame] = mem[map[u][p].frame]
  <2>1. PICK f : f = map[u][p].frame
    BY Zenon
  <2>2. f \in Frames
    BY <2>1 DEF FrameInv, FrameTypes, PageType
  <2>3. \A a \in Header(t).vaddr..End(Header(t)) - 1 : map[t][a \div PAGE].frame # f
    <3>. SUFFICES ASSUME NEW a \in Header(t).vaddr..End(Header(t)) - 1,
                         map[t][a \div PAGE].frame = f
                  PROVE  FALSE
      BY Zenon
    <3>1. a \div PAGE \in UPages
      BY <1>1, HeaderThere, PageOf, Zenon
    <3>2. NoSharedFrame
      BY <1>4, Zenon DEF FrameInv, SharedOnlyByRace
    <3>. QED
      BY <1>4, <2>1, <3>1, <3>2, SMTT(30) DEF NoSharedFrame
  <2>4. mem'[f] = [i \in 0..PAGE - 1 |-> mem[f][i]]
    BY <1>2, <2>2, <2>3, ZenonT(30) DEF Filled
  <2>. QED
    BY <2>1, <2>2, <2>4, ZenonT(30) DEF SpaceInv, MemTyped
<1>5. MemTyped'
  BY <1>2, SMTT(30) DEF Filled, MemTyped
<1>. QED
  BY <1>1, <1>3, <1>4, <1>5, ZenonT(30) DEF StepOf, SpaceInv, Marked, EmptyPages

\* A program writes to its own frames.
LEMMA WriteStep ==
  ASSUME FrameInv, SpaceInv, NEW t \in Tasks, NEW a \in Addresses, write(t, a)
  PROVE  StepOf(t)
<1>1. PICK q, f, i, d : q = a \div PAGE /\ f = map[t][q].frame /\ i = a % PAGE /\ d = Data(t)
  BY Zenon
<1>2. q \in UPages
  BY <1>1, PagingAssumption, PageOf, Zenon DEF Addr
<1>3. /\ t \in live /\ f # 0 /\ mem' = [mem EXCEPT ![f][i] = d]
      /\ UNCHANGED <<live, call, map, g_frames, raced>>
  BY <1>1, Zenon DEF write, Present
<1>4. ASSUME ~raced, NEW u \in Tasks \ {t}, NEW p \in UPages, map[u][p].frame # 0
      PROVE  mem'[map[u][p].frame] = mem[map[u][p].frame]
  <2>1. NoSharedFrame
    BY <1>4, Zenon DEF FrameInv, SharedOnlyByRace
  <2>2. map[u][p].frame # f /\ map[u][p].frame \in Frames
    BY <1>1, <1>2, <1>4, <2>1 DEF NoSharedFrame, FrameInv, FrameTypes, PageType
  <2>. QED
    BY <1>3, <2>2, Zenon DEF SpaceInv, MemTyped
<1>5. MemTyped'
  <2>1. DOMAIN mem' = Frames
    BY <1>3, Zenon DEF SpaceInv, MemTyped
  <2>2. ASSUME NEW g \in Frames PROVE mem'[g] = [j \in 0..PAGE - 1 |-> mem'[g][j]]
    <3>1. mem[g] = [j \in 0..PAGE - 1 |-> mem[g][j]]
      BY Zenon DEF SpaceInv, MemTyped
    <3>2. mem'[g] = IF g = f THEN [mem[g] EXCEPT ![i] = d] ELSE mem[g]
      BY <1>3, Zenon DEF SpaceInv, MemTyped
    <3>3. [mem[g] EXCEPT ![i] = d] = [j \in 0..PAGE - 1 |-> [mem[g] EXCEPT ![i] = d][j]]
      BY <3>1, Zenon
    <3>. QED
      BY <3>1, <3>2, <3>3, Zenon
  <2>. QED
    BY <2>1, <2>2, Zenon DEF MemTyped
<1>. QED
  BY <1>3, <1>4, <1>5, Zenon DEF StepOf, SpaceInv, Marked, EmptyPages

\* The steps that are about the call only.
LEMMA CallStep ==
  ASSUME FrameInv, SpaceInv, NEW t \in Tasks,
         \/ skip_header(t) \/ bad_header(t) \/ map_header(t)
         \/ program_break(t) \/ no_memory(t) \/ sbrk_done(t)
         \/ \E m \in DOMAIN Images : execve(t, m)
         \/ \E i \in Increments : sys_sbrk(t, i)
  PROVE  StepOf(t)
<1>1. t \in live
  BY InCall, ZenonT(30) DEF skip_header, bad_header, map_header, program_break, no_memory, Looping,
                sbrk_done, execve, sys_sbrk, Loading
<1>2. UNCHANGED <<live, mem, g_frames, map, raced>>
  BY ZenonT(30) DEF skip_header, bad_header, map_header, program_break, no_memory, sbrk_done,
         execve, sys_sbrk
<1>3. \A u \in Tasks \ {t} : call'[u] = call[u]
  BY ZenonT(30) DEF skip_header, bad_header, map_header, program_break, no_memory, sbrk_done,
         execve, sys_sbrk, Proceed, Return, FrameInv, FrameTypes
<1>. QED
  BY <1>1, <1>2, <1>3, ZenonT(30) DEF StepOf, SpaceInv, Marked, EmptyPages, MemTyped

\* A step of task t other than fork.
OwnStep(t) ==
  \/ Loader(t) \/ Alloc(t) \/ sbrk_done(t)
  \/ \E m \in DOMAIN Images : execve(t, m)
  \/ \E i \in Increments : sys_sbrk(t, i)
  \/ \E a \in Addresses : write(t, a) \/ write_fault(t, a)

\* Whatever it is, it leaves the other tasks alone.
LEMMA OwnStepOf ==
  ASSUME FrameInv, SpaceInv, NEW t \in Tasks, OwnStep(t)
  PROVE  StepOf(t)
<1>1. ASSUME NEW a \in Addresses, write_fault(t, a) PROVE StepOf(t)
  <2>1. t \in live /\ UNCHANGED <<kernel, mem, live, call>>
    BY <1>1, Zenon DEF write_fault
  <2>2. CASE page_fault(t, a)
    BY <2>1, <2>2, FaultStep, Zenon
  <2>3. CASE UNCHANGED <<g_frames, map, raced>>
    <3>1. call' = [call EXCEPT ![t] = call[t]]
      BY <2>1, Zenon DEF FrameInv, FrameTypes
    <3>. QED
      BY <2>1, <2>3, <3>1, QuietStep, Zenon
  <2>. QED
    BY <1>1, <2>2, <2>3, Zenon DEF write_fault
<1>2. CASE fill_fault(t)
  <2>1. t \in live /\ UNCHANGED <<kernel, mem, live, call>>
    BY <1>2, InCall, Zenon DEF fill_fault, Filling, Loading
  <2>2. \E a : page_fault(t, a)
    BY <1>2, Zenon DEF fill_fault
  <2>. QED
    BY <2>1, <2>2, FaultStep, Zenon
<1>3. CASE Loader(t)
  BY <1>2, <1>3, CallStep, FillStep, StackStep, Zenon DEF Loader
<1>4. CASE Alloc(t)
  BY <1>4, CallStep, TakeStep, Zenon DEF Alloc
<1>. QED
  BY <1>1, <1>3, <1>4, CallStep, WriteStep, Zenon DEF OwnStep

\* ... keeps SpaceInv.
LEMMA OwnKeeps ==
  ASSUME FrameInv, SpaceInv, NEW t \in Tasks, OwnStep(t)
  PROVE  SpaceInv'
<1>1. CASE map_header(t)
  <2>1. call'[t] = [call[t] EXCEPT !.step = "alloc", !.rw = Header(t).rw]
    BY <1>1, Zenon DEF map_header, FrameInv, FrameTypes
  <2>2. call'[t].image = call[t].image /\ call'[t].k = call[t].k
    BY <2>1, Zenon DEF FrameInv, FrameTypes, CallType
  <2>3. InTable(t)' /\ Header(t)'.load
    BY <1>1, <2>2, ZenonT(30) DEF map_header, InTable, Header
  <2>. QED
    BY <2>3, OwnStepOf, StepKeeps, Zenon
<1>2. CASE ~map_header(t)
  <2>1. \/ call'[t] = call[t] \/ call'[t].step # "alloc" \/ call'[t].sbrk
    <3>1. ASSUME Return(t) PROVE call'[t].step # "alloc"
      BY <3>1, Zenon DEF Return, NoCall, FrameInv, FrameTypes
    <3>2. ASSUME Proceed(t) PROVE call'[t].step # "alloc"
      BY <3>2, Zenon DEF Proceed, FrameInv, FrameTypes, CallType
    <3>3. CASE Loader(t)
      <4>1. CASE program_break(t)
        BY <4>1, Zenon DEF program_break, FrameInv, FrameTypes, CallType
      <4>. QED
        BY <1>2, <3>1, <3>2, <3>3, <4>1, Zenon
           DEF Loader, skip_header, bad_header, fill_fault, fill_header, set_user_stack
    <3>4. CASE Alloc(t)
      <4>1. CASE kernel_look(t)
        BY <4>1, Zenon DEF kernel_look, FrameInv, FrameTypes, CallType
      <4>. QED
        BY <3>1, <3>4, <4>1, Zenon DEF Alloc, look, take, reflag, no_memory, kernel_take
    <3>5. ASSUME NEW m \in DOMAIN Images, execve(t, m) PROVE call'[t].step # "alloc"
      BY <3>5, Zenon DEF execve, FrameInv, FrameTypes, CallType
    <3>6. ASSUME NEW n \in Increments, sys_sbrk(t, n) PROVE call'[t].sbrk
      BY <3>6 DEF sys_sbrk, FrameInv, FrameTypes, CallType
    <3>. QED
      BY <3>1, <3>3, <3>4, <3>5, <3>6, ZenonT(30) DEF OwnStep, sbrk_done, write, write_fault
  <2>. QED
    BY <2>1, OwnStepOf, StepKeeps, Zenon
<1>. QED
  BY <1>1, <1>2, Zenon

-----------------------------------------------------------------------------
\* The pages of a task that have a frame.
PagesOf(t) == {p \in UPages : map[t][p].frame # 0}

\* A set of numbers has a least one.
LEMMA LeastOf ==
  ASSUME NEW S, S \subseteq Nat, S # {}
  PROVE  \E x \in S : \A y \in S : x <= y
<1>1. PICK x \in S : \A y \in S : <<y, x>> \notin OpToRel(<, Nat)
  BY NatLessThanWellFounded, WFMin, Zenon
<1>2. \A y \in S : ~(y < x)
  BY <1>1, Zenon DEF OpToRel
<1>. QED
  BY <1>2

\* A bounded set of numbers has a greatest one ...
LEMMA GreatestOf ==
  ASSUME NEW N \in Nat, NEW S, S \subseteq 0..N, S # {}
  PROVE  \E x \in S : \A y \in S : y <= x
<1>. DEFINE T == {N - x : x \in S}
<1>1. T \subseteq Nat /\ T # {}
  <2>1. \A x \in S : N - x \in Nat
    OBVIOUS
  <2>2. \E x \in S : N - x \in T
    BY Zenon
  <2>. QED
    BY <2>1, <2>2, Zenon
<1>2. PICK z \in T : \A y \in T : z <= y
  <2>. HIDE DEF T
  <2>. QED
    BY <1>1, LeastOf, Zenon
<1>3. PICK x \in S : z = N - x
  BY Zenon
<1>4. \A y \in S : N - x <= N - y
  BY <1>2, <1>3, Zenon
<1>. QED
  BY <1>4, SMTT(30)

\* ... and so of some pages one is the last.
LEMMA LastPage ==
  ASSUME NEW S, S \subseteq UPages, S # {}
  PROVE  \E p \in S : \A q \in S : q <= p
<1>1. LAST \in Nat /\ S \subseteq 0..LAST
  BY PagingAssumption DEF UPages
<1>. QED
  BY <1>1, GreatestOf, ZenonT(30)

\* What fork does: the pages of the child that get a frame get one that nobody
\* has, with the contents of the parent's page, and no other memory changes.
LEMMA ForkCopy ==
  ASSUME FrameInv, SpaceInv, NEW t \in Tasks, NEW c \in Tasks, fork(t, c),
         NEW Q, Q = PagesOf(t)
  PROVE  /\ t \in live /\ c \notin live /\ c # t /\ live' = live \cup {c}
         /\ UNCHANGED call /\ Mark(t, Got(Handed(Q)))
         /\ \A u \in Tasks \ {c} : map'[u] = map[u]
         /\ \A p \in DOMAIN Handed(Q) :
              /\ p \in Q /\ map'[c][p] = [map[t][p] EXCEPT !.frame = Handed(Q)[p]]
              /\ mem'[Handed(Q)[p]] = mem[map[t][p].frame]
         /\ \A p \in UPages : p \notin DOMAIN Handed(Q) => map'[c][p] = NoPage
         /\ \A f \in g_frames : f # 0 => mem'[f] = mem[f]
<1>. DEFINE h == Handed(Q)
<1>1. /\ t \in live /\ c \notin live /\ live' = live \cup {c} /\ UNCHANGED call
      /\ Mark(t, Got(h)) /\ mem' = duplicate(h, Q, t)
      /\ map' = [map EXCEPT ![c] = [p \in UPages |->
                   IF p \in DOMAIN h THEN [map[t][p] EXCEPT !.frame = h[p]] ELSE NoPage]]
  BY ZenonT(30) DEF fork, PagesOf
<1>0. Q \subseteq UPages
  BY Zenon DEF PagesOf
<1>2. /\ DOMAIN h \subseteq Q /\ g_frames \subseteq Frames
      /\ \A p \in DOMAIN h : h[p] \notin g_frames /\ h[p] # 0 /\ h[p] \in Frames
      /\ \A p, q \in DOMAIN h : h[p] = h[q] => p = q
  BY <1>0, <1>1, HandedMarked, Zenon DEF FrameInv, FrameTypes
<1>. HIDE DEF h
<1>3. \A u \in Tasks \ {c} : map'[u] = map[u]
  BY <1>1, Zenon DEF FrameInv, FrameTypes
<1>4. \A p \in UPages : map'[c][p] = IF p \in DOMAIN h THEN [map[t][p] EXCEPT !.frame = h[p]]
                                                       ELSE NoPage
  BY <1>1, Zenon DEF FrameInv, FrameTypes
<1>5. ASSUME NEW f \in g_frames, f # 0 PROVE mem'[f] = mem[f]
  <2>1. \A p \in Q : Buffer(h, p) # f
    BY <1>2, <1>5, Zenon DEF Buffer
  <2>. QED
    BY <1>1, <1>2, <2>1, Zenon DEF duplicate
<1>6. ASSUME NEW p \in DOMAIN h PROVE mem'[h[p]] = mem[map[t][p].frame]
  <2>1. p \in Q /\ Buffer(h, p) = h[p] /\ h[p] \in Frames
    BY <1>2, Zenon DEF Buffer
  <2>2. \A q \in Q : Buffer(h, q) = h[p] => q = p
    BY <1>2, Zenon DEF Buffer
  <2>3. \A q \in Q : Buffer(h, q) = h[p] => q <= p
    BY <1>0, <2>1, <2>2, PagingAssumption DEF UPages
  <2>4. p = CHOOSE r \in Q : /\ Buffer(h, r) = h[p]
                             /\ \A q \in Q : Buffer(h, q) = h[p] => q <= r
    BY <2>1, <2>2, <2>3, Zenon
  <2>. QED
    BY <1>1, <2>1, <2>4, ZenonT(30) DEF duplicate
<1>7. /\ \A p \in DOMAIN h : p \in Q /\ map'[c][p] = [map[t][p] EXCEPT !.frame = h[p]]
      /\ \A p \in UPages : p \notin DOMAIN h => map'[c][p] = NoPage
  BY <1>0, <1>2, <1>4, Zenon
<1>8. c # t
  BY <1>1, Zenon
<1>. QED
  BY <1>1, <1>3, <1>5, <1>6, <1>7, <1>8, Zenon DEF h

\* fork keeps SpaceInv.
LEMMA ForkKeeps ==
  ASSUME FrameInv, SpaceInv, NEW t \in Tasks, NEW c \in Tasks, fork(t, c)
  PROVE  SpaceInv'
<1>1. PICK Q : Q = PagesOf(t)
  BY Zenon
<1>0. Q \subseteq UPages
  BY <1>1, Zenon DEF PagesOf
<1>. DEFINE h == Handed(Q)
<1>2. /\ c # t /\ live' = live \cup {c} /\ UNCHANGED call
      /\ \A u \in Tasks \ {c} : map'[u] = map[u]
      /\ \A p \in DOMAIN h : map'[c][p] = [map[t][p] EXCEPT !.frame = h[p]]
      /\ \A p \in UPages : p \notin DOMAIN h => map'[c][p] = NoPage
      /\ Mark(t, Got(h))
  BY <1>1, ForkCopy, SMTT(30)
<1>3. /\ DOMAIN h \subseteq UPages /\ \A p \in DOMAIN h : h[p] \in g_frames' /\ h[p] # 0
      /\ g_frames \subseteq g_frames'
  BY <1>0, <1>2, HandedMarked, Zenon
<1>4. mem' = duplicate(h, Q, t)
  BY <1>1, Zenon DEF fork, PagesOf
<1>. HIDE DEF h
<1>5. ASSUME NEW p \in UPages
      PROVE  IF p \in DOMAIN h THEN map'[c][p].frame = h[p] ELSE map'[c][p] = NoPage
  <2>1. CASE p \in DOMAIN h
    <3>1. map[t][p] \in PageType
      BY Zenon DEF FrameInv, FrameTypes
    <3>2. [map[t][p] EXCEPT !.frame = h[p]].frame = h[p]
      BY <3>1, Zenon DEF PageType
    <3>. QED
      BY <1>2, <2>1, <3>2, ZenonT(30)
  <2>. QED
    BY <1>2, <2>1, Zenon
<1>6. 0 \in g_frames /\ NoPage.frame = 0
  BY Zenon DEF NoPage, FrameInv, FrameTypes
<1>7. Marked'
  BY <1>2, <1>3, <1>5, <1>6, Zenon DEF SpaceInv, Marked
<1>8. EmptyPages'
  BY <1>2, <1>3, <1>5, <1>6, SMTT(30) DEF SpaceInv, EmptyPages
<1>9. LiveCalls' /\ Segments'
  BY <1>2, Zenon DEF SpaceInv, LiveCalls, Segments, InTable, Header
<1>10. MemTyped'
  <2>1. DOMAIN mem' = Frames
    BY <1>4, ZenonT(30) DEF duplicate
  <2>2. ASSUME NEW f \in Frames PROVE \E g \in Frames : mem'[f] = mem[g]
    <3>1. CASE ~\E p \in Q : Buffer(h, p) = f
      BY <1>4, <3>1, Zenon DEF duplicate
    <3>2. CASE \E p \in Q : Buffer(h, p) = f
      <4>1. PICK r : r = CHOOSE p \in Q : /\ Buffer(h, p) = f
                                          /\ \A q \in Q : Buffer(h, q) = f => q <= p
        BY Zenon
      <4>2. mem'[f] = mem[map[t][r].frame]
        BY <1>4, <3>2, <4>1, Zenon DEF duplicate
      <4>3. PICK S : S = {p \in Q : Buffer(h, p) = f}
        BY ZenonT(30)
      <4>4. \E p \in S : \A q \in S : q <= p
        <5>1. S \subseteq UPages /\ S # {}
          BY <1>0, <3>2, <4>3, Zenon
        <5>. QED
          BY <5>1, LastPage, Zenon
      <4>5. r \in Q
        BY <4>1, <4>3, <4>4, Zenon
      <4>6. map[t][r].frame \in Frames
        BY <1>0, <4>5, Zenon DEF FrameInv, FrameTypes, PageType
      <4>. QED
        BY <4>2, <4>6, Zenon
    <3>. QED
      BY <3>1, <3>2, Zenon
  <2>. QED
    BY <2>1, <2>2, Zenon DEF SpaceInv, MemTyped
<1>. QED
  BY <1>7, <1>8, <1>9, <1>10, Zenon DEF SpaceInv

\* At first nobody has a page.
LEMMA SpaceInit == Init => SpaceInv
<1>. SUFFICES ASSUME Init PROVE SpaceInv
  BY Zenon
<1>1. 0 \in 0..KERNEL - 1
  BY PagingAssumption, SMTT(30)
<1>2. Marked /\ EmptyPages
  BY <1>1, Zenon DEF Init, Marked, EmptyPages, NoPage
<1>3. LiveCalls /\ Segments
  BY Zenon DEF Init, LiveCalls, Segments, NoCall
<1>4. MemTyped
  BY Zenon DEF Init, MemTyped
<1>. QED
  BY <1>2, <1>3, <1>4, Zenon DEF SpaceInv

\* Every step is a step of one task, or a fork.
LEMMA StepsAre == Next => \E t \in Tasks : OwnStep(t) \/ \E c \in Tasks : fork(t, c)
BY Zenon DEF Next, OwnStep

\* Every step keeps SpaceInv.
LEMMA SpaceNext == FrameInv /\ SpaceInv /\ [Next]_vars => SpaceInv'
<1>. SUFFICES ASSUME FrameInv, SpaceInv, [Next]_vars PROVE SpaceInv'
  BY Zenon
<1>1. CASE UNCHANGED vars
  BY <1>1, Zenon DEF vars, SpaceInv, Marked, EmptyPages, LiveCalls, Segments, InTable, Header, MemTyped
<1>2. CASE Next
  BY <1>2, StepsAre, OwnKeeps, ForkKeeps, Zenon
<1>. QED
  BY <1>1, <1>2, Zenon

\* The frames of all pages are marked, pages without a frame are empty, calls are
\* made by live tasks, and execve maps segments that are to be loaded: what
\* alloc_frame, page_fault and fork rely on.
THEOREM SpacesTyped == Spec => [](FrameInv /\ SpaceInv)
<1>1. Init => FrameInv /\ SpaceInv
  BY FrameInit, SpaceInit, Zenon
<1>2. FrameInv /\ SpaceInv /\ [Next]_vars => (FrameInv /\ SpaceInv)'
  BY FrameNext, SpaceNext, Zenon
<1>. QED
  BY <1>1, <1>2, PTL DEF Spec

-----------------------------------------------------------------------------
\* A step of one task leaves the memories of the others alone, up to a race.
LEMMA OthersSame ==
  ASSUME FrameInv, SpaceInv, NEW t \in Tasks, OwnStep(t), ~raced',
         NEW u \in Tasks, u # t
  PROVE  Space(u)' = Space(u)
<1>1. StepOf(t)
  BY OwnStepOf, Zenon
<1>2. ~raced
  BY <1>1, ZenonT(30) DEF StepOf
<1>. QED
  BY <1>1, <1>2, SpaceKept, Zenon DEF StepOf

\* fork changes the memory of no task but the child, ...
LEMMA ForkSame ==
  ASSUME FrameInv, SpaceInv, NEW t \in Tasks, NEW c \in Tasks, fork(t, c),
         NEW u \in Tasks, u # c
  PROVE  Space(u)' = Space(u)
<1>1. PICK Q : Q = PagesOf(t)
  BY Zenon
<1>2. /\ \A v \in Tasks \ {c} : map'[v] = map[v]
      /\ \A f \in g_frames : f # 0 => mem'[f] = mem[f]
  BY <1>1, ForkCopy, SMTT(30)
<1>. QED
  BY <1>2, SpaceKept, Zenon DEF SpaceInv, Marked

\* ... what it gives the child is what the parent has there.
LEMMA ForkPart ==
  ASSUME FrameInv, SpaceInv, NEW t \in Tasks, NEW c \in Tasks, fork(t, c)
  PROVE  \A a \in DOMAIN Space(c)' : a \in DOMAIN Space(t) /\ Space(c)'[a] = Space(t)[a]
<1>1. PICK Q : Q = PagesOf(t)
  BY Zenon
<1>. DEFINE h == Handed(Q)
<1>2. /\ \A p \in DOMAIN h : /\ p \in Q /\ map'[c][p] = [map[t][p] EXCEPT !.frame = h[p]]
                             /\ mem'[h[p]] = mem[map[t][p].frame]
      /\ \A p \in UPages : p \notin DOMAIN h => map'[c][p] = NoPage
  BY <1>1, ForkCopy
<1>. HIDE DEF h
<1>. SUFFICES ASSUME NEW a \in Addr, Present(c, a)'
              PROVE  /\ Present(t, a)
                     /\ mem'[map'[c][a \div PAGE].frame][a % PAGE]
                          = mem[map[t][a \div PAGE].frame][a % PAGE]
  BY Zenon DEF Space, Addr
<1>3. PICK p \in UPages : p = a \div PAGE
  BY PageOf, Zenon
<1>4. p \in DOMAIN h
  BY <1>2, <1>3, SMTT(30) DEF Present, NoPage
<1>5. map[t][p] \in PageType
  BY Zenon DEF FrameInv, FrameTypes
<1>6. map'[c][p].frame = h[p]
  BY <1>2, <1>4, <1>5, Zenon DEF PageType
<1>7. map[t][p].frame # 0
  BY <1>1, <1>2, <1>4, ZenonT(30) DEF PagesOf
<1>. QED
  BY <1>2, <1>3, <1>4, <1>6, <1>7, Zenon DEF Present

\* Paging keeps the memories of tasks apart (duplicate_current_page_directory,
\* alloc_frame, page_fault, map_memory_block): every step is one of separate
\* address spaces, up to the first race for a frame in alloc_frame.
THEOREM SpacesSeparate == Spec => SeparateSpaces
<1>1. Init => A!Init
  BY PagingAssumption, Zenon DEF Init, A!Init
<1>. DEFINE space == [t \in Tasks |-> Space(t)]
<1>2. FrameInv /\ SpaceInv /\ [Next]_vars => [~raced' => A!Next]_<<live, space>>
  <2>. SUFFICES ASSUME FrameInv, SpaceInv, [Next]_vars, ~raced'
                PROVE  A!Next \/ UNCHANGED <<live, space>>
    BY Zenon
  <2>1. ASSUME NEW t \in Tasks, OwnStep(t) PROVE A!Next
    <3>1. t \in live /\ live' = live
      BY <2>1, OwnStepOf, Zenon DEF StepOf
    <3>2. \A u \in Tasks \ {t} : Space(u)' = Space(u)
      BY <2>1, OthersSame, Zenon
    <3>3. A!OthersKeep(t)
      BY <3>2, Zenon DEF A!OthersKeep
    <3>. QED
      BY <3>1, <3>3, Zenon DEF A!Next, A!Own
  <2>2. ASSUME NEW t \in Tasks, NEW c \in Tasks, fork(t, c) PROVE A!Next
    <3>1. t \in live /\ c \notin live /\ live' = live \cup {c}
      BY <2>2, Zenon DEF fork
    <3>2. \A u \in Tasks \ {c} : Space(u)' = Space(u)
      BY <2>2, ForkSame, Zenon
    <3>3. A!OthersKeep(c)
      BY <3>2, Zenon DEF A!OthersKeep
    <3>4. A!PartOf(Space(c)', Space(t))
      BY <2>2, ForkPart, Zenon DEF A!PartOf
    <3>. QED
      BY <3>1, <3>3, <3>4, Zenon DEF A!Next, A!Fork
  <2>3. CASE UNCHANGED vars
    <3>1. UNCHANGED <<live, map, mem>>
      BY <2>3, Zenon DEF vars
    <3>2. \A u \in Tasks : Space(u)' = Space(u)
      BY <3>1, SpaceKept, Zenon
    <3>. QED
      BY <3>1, <3>2, Zenon
  <2>. QED
    BY <2>1, <2>2, <2>3, StepsAre, Zenon
<1>. HIDE DEF space
<1>3. SeparateSpaces <=> A!Init /\ [][~raced' => A!Next]_<<live, space>>
  BY Zenon DEF SeparateSpaces, space
<1>. QED
  BY <1>1, <1>2, <1>3, SpacesTyped, PTL DEF Spec

-----------------------------------------------------------------------------
\* Every number below the size of a set is the rank of a member.
LEMMA RankOnto ==
  ASSUME NEW N \in Nat, NEW S, S \subseteq 0..N, NEW r \in Nat, r < Cardinality(S)
  PROVE  \E x \in S : Rank(S, x) = r
<1>. DEFINE Below(x) == {y \in S : y < x}
            T == {x \in S : Rank(S, x) >= r}
<1>0. IsFiniteSet(S) /\ \A x \in S : x \in Int
  <2>1. PICK I : I = 0..N
    BY Zenon
  <2>2. IsFiniteSet(I) /\ S \in SUBSET I
    BY <2>1, FS_Interval, SMTT(30)
  <2>3. IsFiniteSet(S)
    BY <2>2, FS_Subset, ZenonT(30)
  <2>. QED
    BY <2>3, SMTT(30)
<1>1. \A x \in S : /\ Below(x) \subseteq S /\ x \notin Below(x) /\ Rank(S, x) = Cardinality(Below(x))
                   /\ IsFiniteSet(Below(x)) /\ Cardinality(Below(x)) \in Nat
  BY <1>0, FS_Subset, FS_CardinalityType DEF Rank
<1>2. ASSUME NEW P, P \subseteq S, P # {},
             NEW g \in P, \A y \in P : y <= g, \A y \in S : y < g => y \in P
      PROVE  Rank(S, g) + 1 = Cardinality(P)
  <2>1. IsFiniteSet(P) /\ Below(g) = P \ {g}
    <3>1. P \in SUBSET S
      BY <1>2, Zenon
    <3>2. \A y \in S : y < g <=> y \in P /\ y # g
      BY <1>0, <1>2
    <3>. QED
      BY <1>0, <3>1, <3>2, FS_Subset, ZenonT(30)
  <2>2. Cardinality(P \ {g}) = Cardinality(P) - 1 /\ Cardinality(P) \in Nat
    BY <2>1, FS_RemoveElement, FS_CardinalityType, Zenon
  <2>. QED
    BY <1>1, <1>2, <2>1, <2>2, SMTT(30)
<1>3. T # {}
  <2>1. Cardinality(S) \in Nat /\ S # {}
    BY <1>0, FS_CardinalityType, FS_EmptySet, SMTT(30)
  <2>2. PICK m \in S : \A y \in S : y <= m
    BY <2>1, GreatestOf, Zenon
  <2>3. Rank(S, m) + 1 = Cardinality(S)
    BY <1>2, <2>1, <2>2, Zenon
  <2>4. Rank(S, m) \in Nat
    BY <1>1, Zenon
  <2>. QED
    BY <2>1, <2>3, <2>4, SMTT(30)
<1>4. PICK x \in T : \A y \in T : x <= y
  <2>1. T \subseteq Nat
    <3>1. S \subseteq Nat
      BY SMTT(30)
    <3>. QED
      BY <3>1, Zenon
  <2>. HIDE DEF T
  <2>. QED
    BY <1>3, <2>1, LeastOf, Zenon
<1>5. Rank(S, x) <= r
  <2>1. CASE Below(x) = {}
    BY <1>1, <2>1, FS_EmptySet, SMTT(30)
  <2>2. CASE Below(x) # {}
    <3>1. PICK g \in Below(x) : \A y \in Below(x) : y <= g
      <4>1. Below(x) \subseteq 0..N
        BY Zenon
      <4>. HIDE DEF Below
      <4>. QED
        BY <2>2, <4>1, GreatestOf, Zenon
    <3>2. g \in S /\ g < x /\ \A y \in S : y < g => y \in Below(x)
      BY <1>0
    <3>3. Rank(S, g) + 1 = Cardinality(Below(x))
      BY <1>2, <2>2, <3>1, <3>2, ZenonT(30)
    <3>4. Rank(S, g) \in Nat /\ ~(Rank(S, g) >= r)
      <4>1. Rank(S, g) \in Nat /\ g \in Int /\ x \in Int
        BY <1>0, <1>1, <3>2, ZenonT(30)
      <4>2. g \notin T
        <5>1. g \in T => x <= g
          <6>. HIDE DEF T
          <6>. QED
            BY <1>4, Zenon
        <5>. QED
          BY <3>2, <4>1, <5>1
      <4>. QED
        BY <3>2, <4>1, <4>2, Zenon
    <3>. QED
      BY <1>1, <3>3, <3>4, SMTT(30)
  <2>. QED
    BY <2>1, <2>2, Zenon
<1>6. x \in S /\ Rank(S, x) >= r
  BY <1>4, Zenon
<1>7. Rank(S, x) \in Nat
  BY <1>1, <1>6, Zenon
<1>. QED
  BY <1>5, <1>6, <1>7, SMTT(30)

\* With frames enough every page gets one.
LEMMA AllHanded ==
  ASSUME NEW Q, Q \subseteq UPages, Cardinality(Q) <= Cardinality(Free)
  PROVE  DOMAIN Handed(Q) = Q
<1>1. IsFiniteSet(Q) /\ Q \subseteq Int
  <2>1. SHEAP \in Int /\ LAST \in Int
    BY PagingAssumption
  <2>2. IsFiniteSet(UPages)
    BY <2>1, FS_Interval, Zenon DEF UPages
  <2>3. Q \in SUBSET UPages /\ UPages \subseteq Int
    BY <2>1, SMTT(30) DEF UPages
  <2>. QED
    BY <2>2, <2>3, FS_Subset, Zenon
<1>2. NFRAMES \in Nat /\ Free \subseteq 0..NFRAMES /\ IsFiniteSet(Free)
  BY FreeFrames, PagingAssumption, SMTT(30) DEF Frames
<1>3. ASSUME NEW q \in Q PROVE \E f \in Free : Rank(Free, f) = Rank(Q, q)
  <2>1. PICK B : B = {y \in Q : y < q}
    BY ZenonT(30)
  <2>2. B \subseteq Q /\ q \notin B
    BY <1>1, <2>1
  <2>3. Cardinality(B) < Cardinality(Q) /\ Cardinality(B) \in Nat /\ Cardinality(Q) \in Nat
    <3>1. B \in SUBSET Q /\ Q # B
      BY <2>2, Zenon
    <3>2. IsFiniteSet(B) /\ Cardinality(B) <= Cardinality(Q) /\ Cardinality(B) # Cardinality(Q)
      BY <1>1, <3>1, FS_Subset, Zenon
    <3>3. Cardinality(B) \in Nat /\ Cardinality(Q) \in Nat
      BY <1>1, <3>2, FS_CardinalityType, Zenon
    <3>. QED
      BY <3>2, <3>3, SMTT(30)
  <2>4. Rank(Q, q) = Cardinality(B)
    BY <2>1, Zenon DEF Rank
  <2>5. Cardinality(Free) \in Nat
    BY <1>2, FS_CardinalityType, Zenon
  <2>. QED
    <3>1. PICK r \in Nat : r = Rank(Q, q)
      BY <2>3, <2>4, Zenon
    <3>2. r < Cardinality(Free)
      BY <2>3, <2>4, <2>5, <3>1, SMTT(30)
    <3>3. \E f \in Free : Rank(Free, f) = r
      BY <1>2, <3>2, RankOnto, Zenon
    <3>. QED
      BY <3>1, <3>3, Zenon
<1>. QED
  BY <1>3, Zenon DEF Handed

\* fork (duplicate_current_page_directory, copy_page) gives the child every page
\* of its parent, with its contents and flags, if there are frames enough,
\* whatever other tasks are in the middle of, and also after a race.
THEOREM ForkGivesCopy == Spec => ForkCopies
<1>1. ASSUME FrameInv, SpaceInv, NEW t \in Tasks, NEW c \in Tasks, fork(t, c),
             Cardinality({p \in UPages : map[t][p].frame # 0}) <= Cardinality(Free)
      PROVE  /\ \A p \in UPages : /\ map'[c][p].user = map[t][p].user
                                  /\ map'[c][p].rw = map[t][p].rw
             /\ Space(c)' = Space(t)'
  <2>1. PICK Q : Q = PagesOf(t)
    BY Zenon
  <2>. DEFINE h == Handed(Q)
  <2>2. /\ c # t
        /\ \A p \in DOMAIN h : /\ p \in Q /\ map'[c][p] = [map[t][p] EXCEPT !.frame = h[p]]
                               /\ mem'[h[p]] = mem[map[t][p].frame]
        /\ \A p \in UPages : p \notin DOMAIN h => map'[c][p] = NoPage
        /\ Mark(t, Got(h))
    BY <1>1, <2>1, ForkCopy, SMTT(30)
  <2>3. DOMAIN h = Q
    BY <1>1, <2>1, AllHanded, Zenon DEF PagesOf
  <2>4. \A p \in Q : h[p] # 0
    <3>1. Q \subseteq UPages
      BY <2>1, Zenon DEF PagesOf
    <3>. QED
      BY <1>1, <2>2, <2>3, <3>1, HandedMarked, Zenon
  <2>. HIDE DEF h
  <2>5. ASSUME NEW p \in UPages
        PROVE  /\ map'[c][p].user = map[t][p].user /\ map'[c][p].rw = map[t][p].rw
               /\ map'[c][p].frame # 0 <=> map[t][p].frame # 0
               /\ map[t][p].frame # 0 => mem'[map'[c][p].frame] = mem[map[t][p].frame]
    <3>1. map[t][p] \in PageType
      BY <1>1, Zenon DEF FrameInv, FrameTypes
    <3>2. CASE p \in Q
      <4>1. map[t][p].frame # 0
        BY <2>1, <3>2, Zenon DEF PagesOf
      <4>2. PICK x : x = [map[t][p] EXCEPT !.frame = h[p]]
        BY Zenon
      <4>3. x.user = map[t][p].user /\ x.rw = map[t][p].rw /\ x.frame = h[p]
        BY <3>1, <4>2, Zenon DEF PageType
      <4>4. map'[c][p] = x
        BY <2>2, <2>3, <3>2, <4>2, Zenon
      <4>. QED
        BY <2>2, <2>3, <2>4, <3>2, <4>1, <4>3, <4>4, Zenon
    <3>3. CASE p \notin Q
      <4>1. map[t][p].frame = 0 /\ map'[c][p] = NoPage
        BY <2>1, <2>2, <2>3, <3>3, Zenon DEF PagesOf
      <4>2. map[t][p] = NoPage
        BY <1>1, <4>1, Zenon DEF SpaceInv, EmptyPages
      <4>. QED
        BY <4>1, <4>2, Zenon
    <3>. QED
      BY <3>2, <3>3, ZenonT(30)
  <2>6. Space(c)' = Space(t)
    <3>1. ASSUME NEW a \in Addr
          PROVE  /\ Present(c, a)' <=> Present(t, a)
                 /\ Present(t, a) => mem'[map'[c][a \div PAGE].frame][a % PAGE]
                                       = mem[map[t][a \div PAGE].frame][a % PAGE]
      BY <2>5, PageOf, Zenon DEF Present
    <3>. QED
      BY <3>1, ZenonT(30) DEF Space, Addr
  <2>7. Space(t)' = Space(t)
    BY <1>1, <2>2, ForkSame, Zenon
  <2>. QED
    BY <2>5, <2>6, <2>7, Zenon
<1>2. FrameInv /\ SpaceInv /\ [Next]_vars =>
        [\A t, c \in Tasks :
           fork(t, c) /\ Cardinality({p \in UPages : map[t][p].frame # 0})
                           <= Cardinality(Free)
             => /\ \A p \in UPages :
                     /\ map'[c][p].user = map[t][p].user
                     /\ map'[c][p].rw = map[t][p].rw
                /\ Space(c)' = Space(t)']_vars
  BY <1>1, ZenonT(30)
<1>. QED
  BY <1>2, SpacesTyped, PTL DEF Spec, ForkCopies

-----------------------------------------------------------------------------
\* The bytes of two segments of a program do not overlap; where they do, the
\* later one of the file wins.
SegmentsApart ==
  \A m \in DOMAIN Images : \A i, j \in 1..Len(Images[m]) :
    i # j => \A a \in Nat : ~(InHeader(Images[m][i], a) /\ InHeader(Images[m][j], a))

\* Task t has header k of image m in its memory.
Loaded(t, m, k) ==
  LET h == Images[m][k]
  IN h.load => \A a \in h.vaddr..End(h) - 1 :
                 a \in DOMAIN Space(t) /\ Space(t)[a] = Wanted(m, k, a)

\* Up to a race, a task in execve has loaded the headers before the one that it
\* is at; and the page that a frame was found for still has none.
LoadedSoFar ==
  ~raced => \A t \in Tasks : LET m == call[t].image
    IN /\ LoadsImage(call[t])
            => \A k \in 1..Len(Images[m]) : k < call[t].k => Loaded(t, m, k)
       /\ call[t].step = "stack" => \A k \in 1..Len(Images[m]) : Loaded(t, m, k)
FoundEmpty ==
  /\ loop = [t \in Tasks |-> loop[t]]
  /\ \A t \in Tasks : found[t] # 0 /\ call[t].step = "alloc" /\ At(t) \in UPages
                        => map[t][At(t)].frame = 0
LoadInv == LoadedSoFar /\ FoundEmpty

\* What is loaded stays loaded in a memory that only grows.
LEMMA LoadedKept ==
  ASSUME NEW t, NEW m, NEW k, Loaded(t, m, k),
         \A a \in DOMAIN Space(t) : a \in DOMAIN Space(t)' /\ Space(t)'[a] = Space(t)[a]
  PROVE  Loaded(t, m, k)'
BY ZenonT(30) DEF Loaded

\* It grows when the pages that have a frame keep it.
LEMMA SpaceGrows ==
  ASSUME NEW t, mem' = mem,
         \A p \in UPages : map[t][p].frame # 0 => map'[t][p].frame = map[t][p].frame
  PROVE  \A a \in DOMAIN Space(t) : a \in DOMAIN Space(t)' /\ Space(t)'[a] = Space(t)[a]
<1>1. ASSUME NEW a \in Addr, Present(t, a)
      PROVE  /\ Present(t, a)'
             /\ mem'[map'[t][a \div PAGE].frame][a % PAGE]
                  = mem[map[t][a \div PAGE].frame][a % PAGE]
  BY <1>1, PageOf, ZenonT(30) DEF Present
<1>. QED
  BY <1>1, ZenonT(30) DEF Space, Addr

\* page_fault gives a frame only to a page that has none.
LEMMA FaultGrows ==
  ASSUME FrameInv, NEW t \in Tasks, NEW a, page_fault(t, a), NEW p \in UPages,
         map[t][p].frame # 0
  PROVE  map'[t][p].frame = map[t][p].frame
<1>1. ASSUME NEW u, zero_page(t, a \div PAGE, u) PROVE map'[t][p] = map[t][p]
  <2>1. PICK Q : Q = WithoutFrame(t, {a \div PAGE})
    BY Zenon
  <2>2. Q \subseteq UPages /\ p \notin Q
    BY <2>1, Zenon DEF WithoutFrame
  <2>3. p \notin DOMAIN Handed(Q)
    BY <2>2, HandedOnce, Zenon
  <2>4. map' = [map EXCEPT ![t] = [q \in UPages |-> IF q \in DOMAIN Handed(Q)
                            THEN [frame |-> Handed(Q)[q], user |-> u, rw |-> u]
                            ELSE map[t][q]]]
    BY <1>1, <2>1, ZenonT(30) DEF zero_page, alloc_frame
  <2>. QED
    BY <2>3, <2>4, Zenon DEF FrameInv, FrameTypes
<1>. QED
  BY <1>1, ZenonT(30) DEF page_fault

\* The loop over pages does too: alloc_frame has found that the page has none.
LEMMA TakeGrows ==
  ASSUME FrameInv, FoundEmpty, NEW t \in Tasks, take(t) \/ reflag(t), NEW p \in UPages,
         map[t][p].frame # 0
  PROVE  map'[t][p].frame = map[t][p].frame
<1>1. CASE take(t)
  <2>1. p # At(t)
    BY <1>1, Zenon DEF take, Looping, FoundEmpty
  <2>. QED
    BY <1>1, <2>1, ZenonT(30) DEF take, FrameInv, FrameTypes
<1>2. CASE reflag(t)
  BY <1>2, ZenonT(30) DEF reflag, FrameInv, FrameTypes
<1>. QED
  BY <1>1, <1>2, ZenonT(30)

\* The only step of a task that has found a frame is to take it.
LEMMA FoundStep ==
  ASSUME FrameInv, NEW t \in Tasks, OwnStep(t), FoundEmpty
  PROVE  /\ \A u \in Tasks \ {t} : found'[u] = found[u] /\ loop'[u] = loop[u]
         /\ loop' = [u \in Tasks |-> loop'[u]]
         /\ found'[t] = 0 \/ look(t) \/ kernel_look(t)
<1>1. /\ found \in [Tasks -> Frames] /\ loop = [u \in Tasks |-> loop[u]]
      /\ found[t] # 0 => call[t].step \in {"alloc", "kernel"}
  BY Zenon DEF FrameInv, FrameTypes, FoundEmpty
<1>. USE DEF Loading, Filling, Looping, Step, Return, Proceed, NoCall
<1>2. CASE Loader(t)
  <2>1. UNCHANGED found /\ found[t] = 0
    BY <1>1, <1>2, Zenon DEF Loader, skip_header, bad_header, map_header, fill_fault, fill_header,
         program_break, set_user_stack
  <2>2. UNCHANGED loop \/ \E x : loop' = [loop EXCEPT ![t] = x]
    BY <1>2, Zenon DEF Loader, skip_header, bad_header, map_header, fill_fault, fill_header,
         program_break, set_user_stack
  <2>. QED
    BY <1>1, <2>1, <2>2, Zenon
<1>3. CASE Alloc(t)
  <2>1. UNCHANGED loop \/ \E x : loop' = [loop EXCEPT ![t] = x]
    BY <1>3, Zenon DEF Alloc, look, take, reflag, no_memory, kernel_look, kernel_take
  <2>2. UNCHANGED found \/ \E x : found' = [found EXCEPT ![t] = x]
    BY <1>3, Zenon DEF Alloc, look, take, reflag, no_memory, kernel_look, kernel_take
  <2>3. found'[t] = 0 \/ look(t) \/ kernel_look(t)
    BY <1>1, <1>3, Zenon DEF Alloc, take, reflag, no_memory, kernel_take
  <2>. QED
    BY <1>1, <2>1, <2>2, <2>3, Zenon
<1>4. CASE ~Loader(t) /\ ~Alloc(t)
  <2>2. ASSUME NEW m \in DOMAIN Images, execve(t, m)
        PROVE  found' = found /\ loop' = loop /\ found[t] = 0
    BY <1>1, <2>2, SMTT(30) DEF execve
  <2>3. ASSUME NEW i \in Increments, sys_sbrk(t, i)
        PROVE  found' = found /\ found[t] = 0 /\ \E x : loop' = [loop EXCEPT ![t] = x]
    <3>1. PICK x : x = [at |-> prog[t].brk, end |-> prog[t].brk + i]
      BY ZenonT(30)
    <3>2. found' = found /\ call[t] = NoCall /\ loop' = [loop EXCEPT ![t] = x]
      BY <2>3, <3>1, Zenon DEF sys_sbrk
    <3>3. found[t] = 0
      BY <1>1, <3>2
    <3>. QED
      BY <3>2, <3>3, ZenonT(30)
  <2>4. ASSUME NEW a \in Addresses, write(t, a) \/ write_fault(t, a)
        PROVE  found' = found /\ loop' = loop /\ found[t] = 0
    <3>1. found' = found /\ loop' = loop /\ call[t] = NoCall
      <4>1. CASE write(t, a)
        BY <4>1, Zenon DEF write
      <4>2. CASE write_fault(t, a)
        BY <4>2, Zenon DEF write_fault
      <4>. QED
        BY <2>4, <4>1, <4>2, Zenon
    <3>. QED
      BY <1>1, <3>1, SMTT(30)
  <2>5. found' = found /\ found[t] = 0 /\ (loop' = loop \/ \E x : loop' = [loop EXCEPT ![t] = x])
    <3>1. CASE sbrk_done(t)
      BY <1>1, <3>1, ZenonT(30) DEF sbrk_done
    <3>. QED
      BY <1>4, <2>2, <2>3, <2>4, <3>1, Zenon DEF OwnStep
  <2>. QED
    BY <1>1, <2>5, Zenon
<1>. QED
  BY <1>2, <1>3, <1>4, Zenon

\* So the page that a frame was found for has none until it is taken.
LEMMA FoundKept ==
  ASSUME FrameInv, SpaceInv, FoundEmpty, NEW t \in Tasks, OwnStep(t)
  PROVE  FoundEmpty'
<1>1. /\ \A u \in Tasks \ {t} : found'[u] = found[u] /\ loop'[u] = loop[u]
      /\ loop' = [u \in Tasks |-> loop'[u]]
      /\ found'[t] = 0 \/ look(t) \/ kernel_look(t)
  BY FoundStep
<1>2. \A u \in Tasks \ {t} : map'[u] = map[u] /\ call'[u] = call[u]
  BY OwnStepOf, Zenon DEF StepOf
<1>. SUFFICES ASSUME NEW u \in Tasks, found'[u] # 0, call'[u].step = "alloc", At(u)' \in UPages
              PROVE  map'[u][At(u)'].frame = 0
  BY <1>1, Zenon DEF FoundEmpty
<1>3. CASE u # t
  BY <1>1, <1>2, <1>3, Zenon DEF FoundEmpty, At
<1>4. CASE u = t /\ look(t)
  BY <1>4, Zenon DEF look, At
<1>5. CASE u = t /\ kernel_look(t)
  BY <1>5, Zenon DEF kernel_look, FrameInv, FrameTypes, CallType
<1>. QED
  BY <1>1, <1>3, <1>4, <1>5, Zenon

\* fill_header: the bytes of the segment are the file's, and all others are what
\* they were.
LEMMA FillBytes ==
  ASSUME FrameInv, SpaceInv, ~raced, NEW t \in Tasks, fill_header(t), NEW a \in Addr,
         Present(t, a)
  PROVE  /\ a \in DOMAIN Space(t)'
         /\ Space(t)'[a] = IF a \in Header(t).vaddr..End(Header(t)) - 1
                             THEN Wanted(call[t].image, call[t].k, a) ELSE Space(t)[a]
<1>1. PICK R, f, i : /\ R = Header(t).vaddr..End(Header(t)) - 1
                     /\ f = map[t][a \div PAGE].frame /\ i = a % PAGE
  BY Zenon
<1>2. Filling(t) /\ InTable(t) /\ Header(t).load
  BY ZenonT(30) DEF fill_header, Filling, Loading, SpaceInv, Segments
<1>3. a \in Nat /\ a \div PAGE \in UPages /\ f # 0 /\ f \in Frames /\ i \in 0..PAGE - 1
  BY <1>1, PageOf, Quotient, ZenonT(30) DEF Present, FrameInv, FrameTypes, PageType
<1>4. PICK here : here = {b \in R : b % PAGE = i /\ map[t][b \div PAGE].frame = f}
  BY Zenon
<1>5. \A b \in here : b = a
  <2>. SUFFICES ASSUME NEW b \in here PROVE b = a
    BY Zenon
  <2>1. b \in Addr
    BY <1>1, <1>2, <1>4, HeaderThere, ZenonT(30)
  <2>2. b \in Nat /\ b \div PAGE \in UPages
    BY <2>1, PageOf, Zenon
  <2>3. b \div PAGE = a \div PAGE
    BY <1>1, <1>3, <1>4, <2>2, ZenonT(30) DEF FrameInv, SharedOnlyByRace, NoSharedFrame
  <2>. QED
    BY <1>1, <1>3, <1>4, <2>2, <2>3, SameAddress
<1>6. a \in R <=> a \in here
  BY <1>1, <1>4, Zenon
<1>7. mem'[f][i] = IF here = {} THEN mem[f][i]
                   ELSE Wanted(call[t].image, call[t].k, CHOOSE b \in here : TRUE)
  <2>1. mem' = Filled(t, Header(t).vaddr, End(Header(t)) - 1)
    BY Zenon DEF fill_header
  <2>2. PICK vaddr, last : vaddr = Header(t).vaddr /\ last = End(Header(t)) - 1
    BY Zenon
  <2>3. R = vaddr..last /\ mem' = Filled(t, vaddr, last)
    BY <1>1, <2>1, <2>2, ZenonT(30)
  <2>4. {b \in vaddr..last : b % PAGE = i /\ map[t][b \div PAGE].frame = f} = here
    BY <1>4, <2>3, Zenon
  <2>5. Filled(t, vaddr, last)[f][i] =
          IF {b \in vaddr..last : b % PAGE = i /\ map[t][b \div PAGE].frame = f} = {}
            THEN mem[f][i]
            ELSE Wanted(call[t].image, call[t].k,
                   CHOOSE b \in {b \in vaddr..last : b % PAGE = i /\ map[t][b \div PAGE].frame = f} : TRUE)
    BY <1>3, ZenonT(30) DEF Filled
  <2>. QED
    BY <2>3, <2>4, <2>5, ZenonT(30)
<1>8. mem'[f][i] = IF a \in R THEN Wanted(call[t].image, call[t].k, a) ELSE mem[f][i]
  <2>1. CASE a \in R
    <3>1. here # {} /\ (CHOOSE b \in here : TRUE) = a
      BY <1>5, <1>6, <2>1, Zenon
    <3>. QED
      BY <1>7, <2>1, <3>1, ZenonT(30)
  <2>2. CASE a \notin R
    <3>1. here = {}
      BY <1>5, <1>6, <2>2, Zenon
    <3>. QED
      BY <1>7, <2>2, <3>1, ZenonT(30)
  <2>. QED
    BY <2>1, <2>2, ZenonT(30)
<1>9. map' = map
  BY Zenon DEF fill_header
<1>10. a \in DOMAIN Space(t) /\ Space(t)[a] = mem[f][i]
  BY <1>1, Zenon DEF Space, Addr
<1>11. a \in DOMAIN Space(t)' /\ Space(t)'[a] = mem'[f][i]
  BY <1>1, <1>9, ZenonT(30) DEF Space, Addr, Present
<1>. QED
  BY <1>1, <1>8, <1>10, <1>11, ZenonT(30)

\* It loads its header, and no other one is touched.
LEMMA FillLoads ==
  ASSUME FrameInv, SpaceInv, SegmentsApart, ~raced, NEW t \in Tasks, fill_header(t),
         NEW m, m = call[t].image, NEW k \in 1..Len(Images[m]),
         k = call[t].k \/ Loaded(t, m, k)
  PROVE  Loaded(t, m, k)'
<1>1. PICK h : h = Images[m][k]
  BY ZenonT(30)
<1>. SUFFICES ASSUME h.load, NEW a \in h.vaddr..End(h) - 1
              PROVE  a \in DOMAIN Space(t)' /\ Space(t)'[a] = Wanted(m, k, a)
  BY <1>1, ZenonT(30) DEF Loaded
<1>2. Filling(t) /\ InTable(t) /\ Header(t).load /\ LoadsImage(call[t])
  BY ZenonT(30) DEF fill_header, Filling, Loading, SpaceInv, Segments, LoadsImage
<1>3. m \in DOMAIN Images /\ call[t].k \in Nat /\ call[t].k > 0
  BY <1>2, Zenon DEF FrameInv, FrameTypes, CallType
<1>4. Images[m] \in Seq(HeaderType)
  BY <1>3, ImagesAssumption, ZenonT(30)
<1>5. call[t].k \in 1..Len(Images[m])
  BY <1>2, <1>3, <1>4 DEF InTable
<1>6. CASE k = call[t].k
  <2>1. h = Header(t)
    BY <1>1, <1>6, ZenonT(30) DEF Header
  <2>2. a \in Addr
    BY <1>2, <2>1, HeaderThere, ZenonT(30)
  <2>3. a \div PAGE \in Covered(h.vaddr, End(h))
    <3>1. a \in Nat /\ a \div PAGE \in UPages /\ h.vaddr \in Nat /\ h.memsize \in Nat
      <4>1. h \in HeaderType
        BY <1>1, <1>4, SMTT(30)
      <4>. QED
        BY <2>2, <4>1, PageOf, Zenon DEF HeaderType
    <3>2. PAGE \in Nat \ {0}
      BY PagingAssumption, ZenonT(30)
    <3>3. h.vaddr <= a /\ a < End(h) /\ End(h) \in Int
      BY <3>1, SMTT(30) DEF End
    <3>4. PICK q \in Nat, r \in 0..PAGE - 1 : q = a \div PAGE /\ a = PAGE * q + r
      BY <3>1, Quotient, Zenon
    <3>5. PICK p \in Nat, s \in 0..PAGE - 1 : p = h.vaddr \div PAGE /\ h.vaddr = PAGE * p + s
      BY <3>1, Quotient, ZenonT(30)
    <3>6. p <= q
      <4>1. PAGE * p <= PAGE * q + r
        <5>1. PAGE * p \in Int /\ PAGE * q \in Int
          BY <3>2
        <5>. QED
          BY <3>3, <3>4, <3>5, <5>1
      <4>2. PAGE * (q + 1) = PAGE * q + PAGE
        BY <3>2, SMTT(30)
      <4>3. q + 1 <= p => PAGE * (q + 1) <= PAGE * p
        BY <3>2
      <4>4. PAGE * p \in Int /\ PAGE * q \in Int
        BY <3>2, SMTT(30)
      <4>. QED
        BY <3>2, <4>1, <4>2, <4>3, <4>4
    <3>7. PAGE * q <= a /\ PAGE * q \in Int /\ q * PAGE = PAGE * q
      <4>1. PAGE * q \in Int /\ q * PAGE = PAGE * q
        BY <3>2
      <4>. QED
        BY <3>1, <3>4, <4>1
    <3>8. q * PAGE < End(h)
      BY <3>1, <3>3, <3>7
    <3>. QED
      BY <3>1, <3>3, <3>4, <3>5, <3>6, <3>7, <3>8, ZenonT(30) DEF Covered
  <2>4. Present(t, a)
    BY <2>1, <2>3, ZenonT(30) DEF fill_header, Missing, WithoutFrame, Covered, Present
  <2>. QED
    BY <1>6, <2>1, <2>2, <2>4, FillBytes, ZenonT(30)
<1>7. CASE k # call[t].k
  <2>1. a \in DOMAIN Space(t) /\ Space(t)[a] = Wanted(m, k, a)
    BY <1>1, <1>7, ZenonT(30) DEF Loaded
  <2>2. a \in Addr /\ Present(t, a) /\ a \in Nat
    BY <2>1, PageOf, ZenonT(30) DEF Space, Addr
  <2>3. a \notin Header(t).vaddr..End(Header(t)) - 1
    BY <1>1, <1>2, <1>3, <1>5, <1>7, <2>2, ZenonT(30) DEF SegmentsApart, InHeader, Header
  <2>. QED
    BY <2>1, <2>2, <2>3, FillBytes, ZenonT(30)
<1>. QED
  BY <1>6, <1>7, ZenonT(30)

\* The calls that a step of task t leaves it in, when that is one of execve.
LEMMA LoadStep ==
  ASSUME FrameInv, SpaceInv, NEW t \in Tasks, OwnStep(t),
         LoadsImage(call'[t]) \/ call'[t].step = "stack"
  PROVE  \/ /\ fill_header(t) /\ LoadsImage(call[t]) /\ LoadsImage(call'[t])
            /\ call'[t].image = call[t].image /\ call'[t].k = call[t].k + 1
         \/ /\ UNCHANGED <<mem, map>> \/ take(t) \/ reflag(t) \/ fill_fault(t)
            /\ \/ call'[t] = call[t]
               \/ /\ LoadsImage(call[t]) /\ call'[t].image = call[t].image
                  /\ \/ LoadsImage(call'[t]) /\ call'[t].k = call[t].k
                     \/ /\ LoadsImage(call'[t]) /\ call'[t].k = call[t].k + 1
                        /\ ~Header(t).load
                     \/ ~InTable(t)
               \/ call'[t].step = "header" /\ call'[t].k = 1
<1>0. call \in [Tasks -> CallType] /\ ~LoadsImage(NoCall) /\ NoCall.step # "stack"
  BY ZenonT(30) DEF FrameInv, FrameTypes, LoadsImage, NoCall
<1>1. ~(call' = [call EXCEPT ![t] = NoCall])
  BY <1>0, Zenon
<1>2. ASSUME Proceed(t), call[t].step \in {"header", "alloc"}
      PROVE  LoadsImage(call'[t]) /\ call'[t].image = call[t].image /\ call'[t].k = call[t].k + 1
  BY <1>0, <1>2, SMTT(30) DEF Proceed, LoadsImage, CallType
<1>3. CASE fill_header(t)
  BY <1>2, <1>3, ZenonT(30) DEF fill_header, Filling, Loading, LoadsImage
<1>4. CASE skip_header(t)
  BY <1>2, <1>4, ZenonT(30) DEF skip_header, Loading, LoadsImage
<1>5. CASE map_header(t)
  <2>1. call'[t] = [call[t] EXCEPT !.step = "alloc", !.rw = Header(t).rw]
    BY <1>0, <1>5, Zenon DEF map_header
  <2>2. call'[t].image = call[t].image /\ call'[t].k = call[t].k /\ call'[t].step = "alloc"
    BY <1>0, <2>1, SMTT(30) DEF CallType
  <2>3. LoadsImage(call'[t]) /\ LoadsImage(call[t]) /\ UNCHANGED <<mem, map>>
    BY <1>5, <2>2, Zenon DEF map_header, Loading, LoadsImage
  <2>. QED
    BY <2>2, <2>3, Zenon
<1>6. CASE program_break(t)
  <2>1. call'[t] = [call[t] EXCEPT !.step = "stack", !.k = 0]
    BY <1>0, <1>6, Zenon DEF program_break
  <2>2. call'[t].image = call[t].image
    BY <1>0, <2>1, SMTT(30) DEF CallType
  <2>. QED
    BY <1>6, <2>2, Zenon DEF program_break, Loading, LoadsImage
<1>7. CASE fill_fault(t)
  BY <1>7, ZenonT(30) DEF fill_fault
<1>8. CASE Alloc(t)
  <2>1. ~kernel_take(t)
    BY <1>1, Zenon DEF kernel_take, Return
  <2>2. ~kernel_look(t)
    <3>1. kernel_look(t) => call'[t].step = "kernel"
      BY <1>0, Zenon DEF kernel_look, CallType
    <3>. QED
      BY <3>1, Zenon DEF LoadsImage
  <2>3. CASE look(t) \/ no_memory(t)
    BY <1>1, <2>3, ZenonT(30) DEF look, no_memory, Return
  <2>. QED
    BY <1>8, <2>1, <2>2, <2>3, ZenonT(30) DEF Alloc, take, reflag
<1>9. ASSUME NEW m \in DOMAIN Images, execve(t, m)
      PROVE  call'[t].step = "header" /\ call'[t].k = 1 /\ UNCHANGED <<mem, map>>
  BY <1>0, <1>9, Zenon DEF execve, CallType
<1>10. ASSUME NEW i \in Increments, sys_sbrk(t, i) PROVE FALSE
  <2>1. call'[t].step = "alloc" /\ call'[t].sbrk
    BY <1>0, <1>10, SMTT(30) DEF sys_sbrk, CallType
  <2>. QED
    BY <2>1, ZenonT(30) DEF LoadsImage
<1>11. ASSUME NEW a \in Addresses, write(t, a) \/ write_fault(t, a) PROVE FALSE
  <2>1. call[t] = NoCall /\ call' = call
    BY <1>11, ZenonT(30) DEF write, write_fault
  <2>. QED
    BY <1>0, <2>1, Zenon
<1>12. ~bad_header(t) /\ ~set_user_stack(t) /\ ~sbrk_done(t)
  BY <1>1, Zenon DEF bad_header, set_user_stack, sbrk_done, Return
<1>13. CASE Loader(t)
  BY <1>3, <1>4, <1>5, <1>6, <1>7, <1>12, <1>13, ZenonT(30) DEF Loader
<1>14. CASE \E m \in DOMAIN Images : execve(t, m)
  BY <1>9, <1>14, ZenonT(30)
<1>. QED
  BY <1>8, <1>10, <1>11, <1>12, <1>13, <1>14, ZenonT(30) DEF OwnStep

\* A step of task t keeps what t has loaded.
LEMMA LoadedOwn ==
  ASSUME FrameInv, SpaceInv, LoadInv, SegmentsApart, NEW t \in Tasks, OwnStep(t), ~raced',
         NEW m, m = call'[t].image, NEW k \in 1..Len(Images[m]),
         (LoadsImage(call'[t]) /\ k < call'[t].k) \/ call'[t].step = "stack"
  PROVE  Loaded(t, m, k)'
<1>1. m = call'[t].image
  BY Zenon
<1>2. ~raced
  BY OwnStepOf, ZenonT(30) DEF StepOf
<1>3. /\ LoadsImage(call[t]) /\ m = call[t].image /\ k < call[t].k => Loaded(t, m, k)
      /\ call[t].step = "stack" /\ m = call[t].image => Loaded(t, m, k)
  BY <1>2, ZenonT(30) DEF LoadInv, LoadedSoFar
<1>4. call[t].k \in Nat /\ k \in Nat
  BY DEF FrameInv, FrameTypes, CallType
<1>5. CASE /\ fill_header(t) /\ LoadsImage(call[t]) /\ LoadsImage(call'[t])
           /\ call'[t].image = call[t].image /\ call'[t].k = call[t].k + 1
  <2>1. k < call'[t].k
    BY <1>5, ZenonT(30) DEF LoadsImage
  <2>2. k = call[t].k \/ Loaded(t, m, k)
    BY <1>1, <1>3, <1>4, <1>5, <2>1
  <2>. QED
    BY <1>1, <1>2, <1>5, <2>2, FillLoads, Zenon
<1>6. CASE /\ UNCHANGED <<mem, map>> \/ take(t) \/ reflag(t) \/ fill_fault(t)
           /\ \/ call'[t] = call[t]
              \/ /\ LoadsImage(call[t]) /\ call'[t].image = call[t].image
                 /\ \/ LoadsImage(call'[t]) /\ call'[t].k = call[t].k
                    \/ /\ LoadsImage(call'[t]) /\ call'[t].k = call[t].k + 1
                       /\ ~Header(t).load
                    \/ ~InTable(t)
              \/ call'[t].step = "header" /\ call'[t].k = 1
  <2>1. \/ Loaded(t, m, k)
        \/ m = call[t].image /\ k = call[t].k /\ ~Header(t).load
    <3>1. CASE call'[t] = call[t]
      BY <1>1, <1>3, <3>1, ZenonT(30)
    <3>2. CASE LoadsImage(call[t]) /\ call'[t].image = call[t].image
      <4>1. LoadsImage(call'[t]) => k < call'[t].k
        BY ZenonT(30) DEF LoadsImage
      <4>2. CASE LoadsImage(call'[t]) /\ call'[t].k = call[t].k
        BY <1>1, <1>3, <3>2, <4>1, <4>2, ZenonT(30)
      <4>3. CASE LoadsImage(call'[t]) /\ call'[t].k = call[t].k + 1 /\ ~Header(t).load
        BY <1>1, <1>3, <1>4, <3>2, <4>1, <4>3
      <4>4. CASE ~InTable(t)
        <5>1. m \in DOMAIN Images
          BY <1>1, <3>2, ZenonT(30) DEF FrameInv, FrameTypes
        <5>2. Len(Images[m]) \in Nat
          BY <5>1, ImagesAssumption
        <5>3. k < call[t].k
          BY <1>1, <1>4, <3>2, <4>4, <5>2 DEF InTable
        <5>. QED
          BY <1>1, <1>3, <3>2, <5>3, ZenonT(30)
      <4>5. CASE call'[t].step = "header" /\ call'[t].k = 1
        BY <1>4, <4>1, <4>5 DEF LoadsImage
      <4>. QED
        BY <1>6, <3>1, <4>2, <4>3, <4>4, <4>5, ZenonT(30)
    <3>3. CASE call'[t].step = "header" /\ call'[t].k = 1
      BY <1>4, <3>3 DEF LoadsImage
    <3>. QED
      BY <1>6, <3>1, <3>2, <3>3, ZenonT(30)
  <2>2. CASE m = call[t].image /\ k = call[t].k /\ ~Header(t).load
    BY <2>2, ZenonT(30) DEF Loaded, Header
  <2>3. mem' = mem /\ \A p \in UPages : map[t][p].frame # 0
                                          => map'[t][p].frame = map[t][p].frame
    <3>1. CASE fill_fault(t)
      <4>1. mem' = mem /\ \E a : page_fault(t, a)
        BY <3>1, ZenonT(30) DEF fill_fault
      <4>. QED
        BY <4>1, FaultGrows, ZenonT(30)
    <3>2. CASE take(t) \/ reflag(t)
      <4>1. mem' = mem
        BY <3>2, ZenonT(30) DEF take, reflag
      <4>. QED
        BY <3>2, <4>1, TakeGrows, ZenonT(30) DEF LoadInv
    <3>. QED
      BY <1>6, <3>1, <3>2, ZenonT(30)
  <2>4. ASSUME Loaded(t, m, k) PROVE Loaded(t, m, k)'
    BY <2>3, <2>4, SpaceGrows, LoadedKept, ZenonT(30)
  <2>. QED
    BY <2>1, <2>2, <2>4, ZenonT(30)
<1>. QED
  BY <1>5, <1>6, LoadStep, ZenonT(30)

\* Every step keeps LoadInv.
LEMMA LoadNext ==
  ASSUME SegmentsApart, FrameInv, SpaceInv, LoadInv, [Next]_vars
  PROVE  LoadInv'
<1>1. ASSUME NEW t \in Tasks, OwnStep(t) PROVE LoadInv'
  <2>1. FoundEmpty'
    BY <1>1, FoundKept, Zenon DEF LoadInv
  <2>2. ASSUME ~raced', NEW u \in Tasks, NEW m, m = call'[u].image,
               NEW k \in 1..Len(Images[m]),
               (LoadsImage(call'[u]) /\ k < call'[u].k) \/ call'[u].step = "stack"
        PROVE  Loaded(u, m, k)'
    <3>1. CASE u = t
      BY <1>1, <2>2, <3>1, LoadedOwn, Zenon
    <3>2. CASE u # t
      <4>1. StepOf(t) /\ Space(u)' = Space(u)
        BY <1>1, <2>2, <3>2, OwnStepOf, OthersSame, ZenonT(30)
      <4>2. ~raced /\ call'[u] = call[u]
        BY <2>2, <3>2, <4>1, ZenonT(30) DEF StepOf
      <4>3. Loaded(u, m, k)
        BY <2>2, <4>2, ZenonT(30) DEF LoadInv, LoadedSoFar
      <4>. QED
        BY <4>1, <4>3, LoadedKept, Zenon
    <3>. QED
      BY <3>1, <3>2, Zenon
  <2>. QED
    BY <2>1, <2>2, Zenon DEF LoadInv, LoadedSoFar
<1>2. ASSUME NEW t \in Tasks, NEW c \in Tasks, fork(t, c) PROVE LoadInv'
  <2>1. /\ call' = call /\ found' = found /\ loop' = loop /\ c \notin live
        /\ \A u \in Tasks \ {c} : map'[u] = map[u]
        /\ raced => raced'
    BY <1>2, Zenon DEF fork, Mark, FrameInv, FrameTypes
  <2>2. call[c] = NoCall /\ NoCall.step = "none"
    BY <2>1, ZenonT(30) DEF SpaceInv, LiveCalls, NoCall
  <2>3. FoundEmpty'
    <3>. SUFFICES ASSUME NEW u \in Tasks, found'[u] # 0, call'[u].step = "alloc",
                         At(u)' \in UPages
                  PROVE  map'[u][At(u)'].frame = 0
      BY <2>1, Zenon DEF FoundEmpty, LoadInv
    <3>1. u # c /\ At(u)' = At(u)
      BY <2>1, <2>2, Zenon DEF At
    <3>. QED
      BY <2>1, <3>1, Zenon DEF FoundEmpty, LoadInv
  <2>4. ASSUME ~raced', NEW u \in Tasks, NEW m, m = call'[u].image,
               NEW k \in 1..Len(Images[m]),
               (LoadsImage(call'[u]) /\ k < call'[u].k) \/ call'[u].step = "stack"
        PROVE  Loaded(u, m, k)'
    <3>1. u # c
      BY <2>1, <2>2, <2>4, Zenon DEF LoadsImage
    <3>2. Loaded(u, m, k)
      BY <2>1, <2>4, Zenon DEF LoadInv, LoadedSoFar
    <3>3. Space(u)' = Space(u)
      BY <1>2, <3>1, ForkSame, Zenon
    <3>. QED
      BY <3>2, <3>3, LoadedKept, Zenon
  <2>. QED
    BY <2>3, <2>4, ZenonT(30) DEF LoadInv, LoadedSoFar
<1>3. CASE UNCHANGED vars
  <2>1. UNCHANGED <<map, mem, call, loop, found, raced>>
    BY <1>3, Zenon DEF vars
  <2>2. FoundEmpty'
    BY <2>1, Zenon DEF LoadInv, FoundEmpty, At
  <2>3. \A u \in Tasks : Space(u)' = Space(u)
    BY <2>1, SpaceKept, ZenonT(30)
  <2>4. ASSUME NEW u \in Tasks, NEW m, NEW k, Loaded(u, m, k) PROVE Loaded(u, m, k)'
    BY <2>3, <2>4, LoadedKept, Zenon
  <2>. QED
    BY <2>1, <2>2, <2>4, ZenonT(30) DEF LoadInv, LoadedSoFar
<1>. QED
  BY <1>1, <1>2, <1>3, StepsAre, Zenon

\* execve (_elf_load_pheader, _elf_loop_over_program_table, map_memory_block)
\* has loaded every segment when it makes the stack and jumps to the program:
\* each byte is the file's or zero, whatever the pages held before, however
\* segments share pages, and whatever other tasks did in the meantime, up to a
\* race for a frame.
THEOREM ExecLoadsImage == SegmentsApart => (Spec => []ExecLoads)
<1>. SUFFICES ASSUME SegmentsApart PROVE Spec => []ExecLoads
  BY Zenon
<1>1. Init => LoadInv
  <2>1. NoCall.step = "none"
    BY Zenon DEF NoCall
  <2>. QED
    BY <2>1, Zenon DEF Init, LoadInv, LoadedSoFar, FoundEmpty, LoadsImage
<1>2. (FrameInv /\ SpaceInv) /\ LoadInv /\ [Next]_vars => LoadInv'
  BY LoadNext, Zenon
<1>3. LoadInv => ExecLoads
  BY Zenon DEF LoadInv, LoadedSoFar, Loaded, ExecLoads
<1>. QED
  BY <1>1, <1>2, <1>3, SpacesTyped, PTL DEF Spec
=============================================================================
