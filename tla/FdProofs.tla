------------------------------ MODULE FdProofs ------------------------------
(***************************************************************************)
(* The vectors of file descriptors implement the tables of FdTable, for    *)
(* any number of tasks, files and descriptors.                             *)
(***************************************************************************)
EXTENDS FileDescriptors, WellFoundedInduction, TLAPS

\* Programs do not give dup2 a number that is a multiple of the size a vector
\* begins with: vector_set makes no room for it (fd_vector.c, roundup).
TargetsInside == \A n \in Targets : n = 0 \/ n % BEGIN # 0

Entry == [node : Nodes \union {NULL}, flags : FLAGS]

\* A vector is a buffer of whole blocks; what is behind the entries in use is
\* free.
VectorOk(v) ==
  /\ v = [size |-> v.size, max |-> v.max, buf |-> v.buf]
  /\ v.size \in Nat /\ v.max \in Nat \ {0} /\ v.size <= v.max /\ v.max % BEGIN = 0
  /\ v.buf \in [0..(v.max - 1) -> Entry]
  /\ \A i \in 0..(v.max - 1) : i >= v.size => v.buf[i].node = NULL

FdInv == /\ fds = [t \in DOMAIN fds |-> fds[t]]
         /\ \A t \in DOMAIN fds : VectorOk(fds[t])

\* What a program sees of a vector.
View(v) == [fd \in {i \in 0..(v.size - 1) : v.buf[i].node # NULL} |-> v.buf[fd]]

\* A number is open iff it is in the buffer and not free.
LEMMA ViewOf ==
  ASSUME NEW v, VectorOk(v)
  PROVE  /\ DOMAIN View(v) \subseteq 0..(v.max - 1)
         /\ \A i \in 0..(v.max - 1) : i \in DOMAIN View(v) <=> v.buf[i].node # NULL
         /\ \A i \in DOMAIN View(v) : View(v)[i] = v.buf[i]
         /\ View(v) = [i \in DOMAIN View(v) |-> v.buf[i]]
BY DEF View, VectorOk

\* Two vectors look alike when the same numbers are open, on the same entries.
LEMMA SameView ==
  ASSUME NEW v, VectorOk(v), NEW f, f = [i \in DOMAIN f |-> f[i]],
         DOMAIN f \subseteq 0..(v.max - 1),
         \A i \in 0..(v.max - 1) :
           IF v.buf[i].node # NULL THEN i \in DOMAIN f /\ f[i] = v.buf[i]
                                   ELSE i \notin DOMAIN f
  PROVE  View(v) = f
<1>1. DOMAIN View(v) = DOMAIN f
  BY ViewOf
<1>2. \A i \in DOMAIN f : View(v)[i] = f[i]
  BY <1>1, ViewOf, Zenon
<1>3. View(v) = [i \in DOMAIN View(v) |-> View(v)[i]]
  BY Zenon DEF View
<1>. QED
  BY <1>1, <1>2, <1>3

\* A set of numbers has a least one.
LEMMA MinIn ==
  ASSUME NEW S, S \subseteq Nat, S # {}
  PROVE  Min(S) \in S /\ \A y \in S : Min(S) <= y
<1>1. PICK x \in S : \A y \in S : <<y, x>> \notin OpToRel(<, Nat)
  BY NatLessThanWellFounded, WFMin, Zenon
<1>2. \A y \in S : ~(y < x)
  BY <1>1, Zenon DEF OpToRel
<1>3. \A y \in S : x <= y
  BY <1>2
<1>. QED
  BY <1>3, Zenon DEF Min

-----------------------------------------------------------------------------
\* vector_expand keeps what a vector shows.
LEMMA ExpandOk ==
  ASSUME NEW v, VectorOk(v), NEW amount \in Nat \ {0}, NEW g, g = vector_expand(v, amount)
  PROVE  /\ VectorOk(g) /\ View(g) = View(v)
         /\ g.size = v.size /\ g.max = v.max * amount /\ g.max >= v.max
         /\ \A i \in 0..(v.max - 1) : g.buf[i] = v.buf[i]
<1>1. PICK max : max = v.max * amount
  BY Zenon
<1>2. max \in Nat \ {0} /\ max >= v.max /\ max % BEGIN = 0
  <2>1. v.max \in Nat \ {0} /\ BEGIN \in Nat \ {0} /\ v.max % BEGIN = 0
    BY FdAssumption, Zenon DEF VectorOk
  <2>2. PICK k \in Int : v.max = BEGIN * k
    BY <2>1
  <2>3. max = BEGIN * (k * amount)
    BY <1>1, <2>1, <2>2
  <2>4. PICK n \in Int : n = k * amount /\ max = BEGIN * n
    BY <2>3
  <2>5. max % BEGIN = 0
    BY <2>1, <2>4
  <2>6. max \in Nat \ {0} /\ max >= v.max
    BY <1>1, <2>1
  <2>. QED
    BY <2>5, <2>6, Zenon
<1>3. g = [size |-> v.size, max |-> max,
           buf |-> [i \in 0..(max - 1) |-> IF i < v.max THEN v.buf[i] ELSE Zero]]
  BY <1>1, Zenon DEF VectorOk, vector_expand
<1>4. Zero \in Entry /\ Zero.node = NULL
  BY FdAssumption, Zenon DEF Zero, Entry
<1>5. /\ g.size = v.size /\ g.max = max
      /\ g.buf = [i \in 0..(max - 1) |-> IF i < v.max THEN v.buf[i] ELSE Zero]
  BY <1>3
<1>6. \A i \in 0..(max - 1) : /\ i < v.max => i \in 0..(v.max - 1) /\ g.buf[i] = v.buf[i]
                              /\ ~(i < v.max) => g.buf[i] = Zero
  BY <1>2, <1>5 DEF VectorOk
<1>7. g.buf \in [0..(max - 1) -> Entry]
  BY <1>4, <1>5, <1>6 DEF VectorOk
<1>8. VectorOk(g)
  <2>1. \A i \in 0..(max - 1) : i >= v.size => g.buf[i].node = NULL
    BY <1>4, <1>6 DEF VectorOk
  <2>2. v.size \in Nat /\ v.size <= max
    BY <1>2 DEF VectorOk
  <2>. QED
    BY <1>2, <1>3, <1>5, <1>7, <2>1, <2>2, Zenon DEF VectorOk
<1>9. View(g) = View(v)
  <2>0. v.max \in Nat /\ DOMAIN View(v) \subseteq 0..(v.max - 1)
    BY ViewOf, Zenon DEF VectorOk
  <2>1. ASSUME NEW i \in 0..(max - 1) PROVE i \in DOMAIN View(v) <=> g.buf[i].node # NULL
    <3>1. CASE i < v.max
      BY <1>6, <3>1, ViewOf
    <3>2. CASE ~(i < v.max)
      BY <1>4, <1>6, <2>0, <3>2
    <3>. QED
      BY <3>1, <3>2, Zenon
  <2>2. \A i \in DOMAIN View(v) : i \in 0..(max - 1) /\ View(v)[i] = g.buf[i]
    BY <1>2, <1>6, ViewOf DEF VectorOk
  <2>3. View(v) = [i \in DOMAIN View(v) |-> View(v)[i]]
    BY Zenon DEF View
  <2>4. PICK f : f = View(v)
    BY Zenon
  <2>5. /\ f = [i \in DOMAIN f |-> f[i]] /\ DOMAIN f \subseteq 0..(g.max - 1)
        /\ \A i \in 0..(g.max - 1) :
             IF g.buf[i].node # NULL THEN i \in DOMAIN f /\ f[i] = g.buf[i]
                                     ELSE i \notin DOMAIN f
    BY <1>5, <2>1, <2>2, <2>3, <2>4, Zenon
  <2>. QED
    BY <1>8, <2>4, <2>5, SameView
<1>10. \A i \in 0..(v.max - 1) : g.buf[i] = v.buf[i]
  BY <1>2, <1>6 DEF VectorOk
<1>. QED
  BY <1>1, <1>2, <1>5, <1>8, <1>9, <1>10, Zenon

\* Storing an entry opens its number, or frees it, and does nothing else.
LEMMA StoreOk ==
  ASSUME NEW v, VectorOk(v), NEW i \in 0..(v.max - 1), NEW e \in Entry
  PROVE  /\ VectorOk(Store(v, i, e)) /\ Store(v, i, e).max = v.max
         /\ e.node # NULL => View(Store(v, i, e)) = A!Put(View(v), i, e)
         /\ e.node = NULL => View(Store(v, i, e)) = A!Without(View(v), {i})
<1>0. PICK w : w = Store(v, i, e)
  BY Zenon
<1>1. PICK size : size = IF i >= v.size THEN i + 1 ELSE v.size
  BY Zenon
<1>2. w = [size |-> size, max |-> v.max, buf |-> [v.buf EXCEPT ![i] = e]]
  BY <1>0, <1>1, Zenon DEF Store, VectorOk
<1>3. w.size = size /\ w.max = v.max /\ w.buf = [v.buf EXCEPT ![i] = e]
  BY <1>2, Zenon
<1>4. /\ w.buf \in [0..(v.max - 1) -> Entry]
      /\ \A j \in 0..(v.max - 1) : w.buf[j] = IF j = i THEN e ELSE v.buf[j]
  BY <1>3 DEF VectorOk
<1>5. VectorOk(w)
  <2>1. size \in Nat /\ size <= v.max /\ size >= v.size /\ size > i
    BY <1>1 DEF VectorOk
  <2>2. \A j \in 0..(v.max - 1) : j >= size => w.buf[j].node = NULL
    BY <1>4, <2>1 DEF VectorOk
  <2>. QED
    BY <1>2, <1>3, <1>4, <2>1, <2>2, Zenon DEF VectorOk
<1>6. ASSUME e.node # NULL PROVE View(w) = A!Put(View(v), i, e)
  <2>1. PICK f : f = A!Put(View(v), i, e)
    BY Zenon
  <2>2. /\ f = [j \in DOMAIN f |-> f[j]] /\ DOMAIN f = DOMAIN View(v) \union {i}
        /\ \A j \in DOMAIN f : f[j] = IF j = i THEN e ELSE View(v)[j]
    BY <2>1, Zenon DEF A!Put
  <2>3. /\ DOMAIN f \subseteq 0..(w.max - 1)
        /\ \A j \in 0..(w.max - 1) :
             IF w.buf[j].node # NULL THEN j \in DOMAIN f /\ f[j] = w.buf[j]
                                     ELSE j \notin DOMAIN f
    BY <1>3, <1>4, <1>6, <2>2, ViewOf
  <2>. QED
    BY <1>5, <2>1, <2>2, <2>3, SameView
<1>7. ASSUME e.node = NULL PROVE View(w) = A!Without(View(v), {i})
  <2>1. PICK f : f = A!Without(View(v), {i})
    BY Zenon
  <2>2. /\ f = [j \in DOMAIN f |-> f[j]] /\ DOMAIN f = DOMAIN View(v) \ {i}
        /\ \A j \in DOMAIN f : f[j] = View(v)[j]
    BY <2>1, Zenon DEF A!Without
  <2>3. /\ DOMAIN f \subseteq 0..(w.max - 1)
        /\ \A j \in 0..(w.max - 1) :
             IF w.buf[j].node # NULL THEN j \in DOMAIN f /\ f[j] = w.buf[j]
                                     ELSE j \notin DOMAIN f
    <3>1. \A j \in 0..(v.max - 1) : w.buf[j].node # NULL <=> j \in DOMAIN f
      BY <1>4, <1>7, <2>2, ViewOf
    <3>2. \A j \in DOMAIN f : j \in 0..(v.max - 1) /\ f[j] = w.buf[j]
      BY <1>4, <2>2, ViewOf
    <3>. QED
      BY <1>3, <3>1, <3>2, Zenon
  <2>4. View(w) = f
    BY <1>5, <2>2, <2>3, SameView, Zenon
  <2>. QED
    BY <2>1, <2>4, Zenon
<1>. QED
  BY <1>0, <1>3, <1>5, <1>6, <1>7, Zenon

\* vector_add opens the lowest number that is free.
LEMMA AddOk ==
  ASSUME NEW v, VectorOk(v), NEW e \in Entry, e.node # NULL,
         NEW S, S = {i \in 0..(v.size - 1) : v.buf[i].node = NULL},
         NEW fd, fd = IF S = {} THEN v.size ELSE Min(S)
  PROVE  /\ VectorOk(vector_add(v, e)) /\ A!Lowest(View(v), fd) /\ fd \in Nat
         /\ View(vector_add(v, e)) = A!Put(View(v), fd, e)
         /\ fd \in 0..(vector_add(v, e).max - 1)
<1>1. v.size \in Nat /\ v.max \in Nat \ {0} /\ v.size <= v.max
  BY Zenon DEF VectorOk
<1>2. CASE S # {}
  <2>1. S \subseteq Nat
    BY <1>1
  <2>2. fd \in S /\ \A y \in S : fd <= y
    BY <1>2, <2>1, MinIn, Zenon
  <2>3. fd \in 0..(v.max - 1) /\ fd \in 0..(v.size - 1)
    BY <1>1, <2>2
  <2>4. vector_add(v, e) = Store(v, fd, e)
    BY <1>2, Zenon DEF vector_add
  <2>5. A!Lowest(View(v), fd)
    <3>1. fd \notin DOMAIN View(v)
      BY <2>2, <2>3, ViewOf, Zenon
    <3>2. ASSUME NEW i \in 0..(fd - 1) PROVE i \in DOMAIN View(v)
      <4>1. i \in 0..(v.size - 1) /\ i < fd
        BY <1>1, <2>3
      <4>2. i \notin S
        BY <2>2, <2>3, <4>1
      <4>. QED
        BY <4>1, <4>2, Zenon DEF View
    <3>. QED
      BY <3>1, <3>2, Zenon DEF A!Lowest
  <2>6. /\ VectorOk(Store(v, fd, e)) /\ Store(v, fd, e).max = v.max
        /\ View(Store(v, fd, e)) = A!Put(View(v), fd, e)
    BY <2>3, StoreOk, Zenon
  <2>. QED
    BY <2>3, <2>4, <2>5, <2>6
<1>3. CASE S = {}
  <2>1. PICK g : g = IF v.size = v.max THEN vector_expand(v, 2) ELSE v
    BY Zenon
  <2>2. VectorOk(g) /\ View(g) = View(v) /\ v.size < g.max /\ g.max \in Nat
    <3>1. CASE v.size = v.max
      <4>1. VectorOk(g) /\ View(g) = View(v) /\ g.max = v.max * 2
        BY <2>1, <3>1, ExpandOk
      <4>. QED
        BY <1>1, <4>1
    <3>2. CASE v.size # v.max
      BY <1>1, <2>1, <3>2
    <3>. QED
      BY <3>1, <3>2, Zenon
  <2>3. vector_add(v, e) = Store(g, v.size, e)
    BY <1>3, <2>1, Zenon DEF vector_add, vector_push
  <2>4. A!Lowest(View(v), fd)
    <3>1. fd \notin DOMAIN View(v)
      BY <1>1, <1>3 DEF View
    <3>2. ASSUME NEW i \in 0..(fd - 1) PROVE i \in DOMAIN View(v)
      <4>1. i \in 0..(v.size - 1) /\ i \notin S
        BY <1>3, Zenon
      <4>. QED
        BY <4>1, Zenon DEF View
    <3>. QED
      BY <3>1, <3>2, Zenon DEF A!Lowest
  <2>5. fd \in 0..(g.max - 1)
    BY <1>1, <1>3, <2>2
  <2>6. /\ VectorOk(Store(g, fd, e)) /\ Store(g, fd, e).max = g.max
        /\ View(Store(g, fd, e)) = A!Put(View(g), fd, e)
    BY <2>2, <2>5, StoreOk, Zenon
  <2>7. VectorOk(Store(g, fd, e)) /\ View(Store(g, fd, e)) = A!Put(View(v), fd, e)
    BY <2>2, <2>6, Zenon
  <2>. QED
    BY <1>1, <1>3, <2>3, <2>4, <2>5, <2>6, <2>7, Zenon
<1>. QED
  BY <1>2, <1>3, Zenon

\* vector_push puts an entry behind those in use.
LEMMA PushOk ==
  ASSUME NEW v, VectorOk(v), NEW e \in Entry, e.node # NULL
  PROVE  /\ VectorOk(vector_push(v, e))
         /\ View(vector_push(v, e)) = A!Put(View(v), v.size, e)
<1>1. v.size \in Nat /\ v.max \in Nat \ {0} /\ v.size <= v.max
  BY Zenon DEF VectorOk
<1>2. PICK g : g = IF v.size = v.max THEN vector_expand(v, 2) ELSE v
  BY Zenon
<1>3. VectorOk(g) /\ View(g) = View(v) /\ v.size < g.max /\ g.max \in Nat
  <2>1. CASE v.size = v.max
    <3>1. VectorOk(g) /\ View(g) = View(v) /\ g.max = v.max * 2
      BY <1>2, <2>1, ExpandOk
    <3>. QED
      BY <1>1, <2>1, <3>1
  <2>2. CASE v.size # v.max
    BY <1>1, <1>2, <2>2
  <2>. QED
    BY <2>1, <2>2, Zenon
<1>4. vector_push(v, e) = Store(g, v.size, e) /\ v.size \in 0..(g.max - 1)
  BY <1>1, <1>2, <1>3 DEF vector_push
<1>. QED
  BY <1>3, <1>4, StoreOk, Zenon

\* x rounded up to whole blocks of y, and its multiple.
LEMMA Roundup ==
  ASSUME NEW x \in Nat, NEW y \in Nat \ {0}, x >= y
  PROVE  /\ roundup(x, y) \in Nat \ {0} /\ y * roundup(x, y) >= x
         /\ x % y # 0 => y * roundup(x, y) > x
<1>1. PICK q \in Int, r \in Int : /\ q = x \div y /\ r = x % y /\ x = y * q + r
                                  /\ 0 <= r /\ r < y
  OBVIOUS
<1>2. q > 0
  <2>1. q <= 0 => y * q <= 0
    OBVIOUS
  <2>2. y * q \in Int
    OBVIOUS
  <2>. QED
    BY <1>1, <2>1, <2>2
<1>3. y * (q + 1) = y * q + y /\ y * q \in Int
  OBVIOUS
<1>4. roundup(x, y) = IF r = 0 THEN q ELSE q + 1
  BY <1>1, Zenon DEF roundup
<1>. QED
  BY <1>1, <1>2, <1>3, <1>4

\* vector_add_from opens some number.
LEMMA AddFromOk ==
  ASSUME NEW v, VectorOk(v), NEW e \in Entry, e.node # NULL, NEW from \in Nat
  PROVE  /\ VectorOk(vector_add_from(v, e, from))
         /\ \E fd : View(vector_add_from(v, e, from)) = A!Put(View(v), fd, e)
<1>1. v.size \in Nat /\ v.max \in Nat \ {0} /\ v.size <= v.max
  BY Zenon DEF VectorOk
<1>2. PICK g : g = IF from > v.max THEN vector_expand(v, roundup(from, v.max)) ELSE v
  BY Zenon
<1>3. VectorOk(g) /\ View(g) = View(v)
  <2>1. CASE from > v.max
    <3>1. PICK n \in Nat \ {0} : n = roundup(from, v.max)
      BY <1>1, <2>1, Roundup
    <3>. QED
      BY <1>2, <2>1, <3>1, ExpandOk
  <2>. QED
    BY <1>2, <2>1, Zenon
<1>4. PICK S : S = {i \in from..(g.max - 1) : g.buf[i].node = NULL}
  BY Zenon
<1>5. vector_add_from(v, e, from) = IF S # {} THEN Store(g, Min(S), e) ELSE vector_push(g, e)
  BY <1>2, <1>4, Zenon DEF vector_add_from
<1>6. CASE S # {}
  <2>1. S \subseteq Nat /\ S \subseteq 0..(g.max - 1)
    BY <1>3, <1>4 DEF VectorOk
  <2>2. Min(S) \in 0..(g.max - 1)
    BY <1>6, <2>1, MinIn, Zenon
  <2>3. VectorOk(Store(g, Min(S), e)) /\ View(Store(g, Min(S), e)) = A!Put(View(g), Min(S), e)
    BY <1>3, <2>2, StoreOk, Zenon
  <2>. QED
    BY <1>3, <1>5, <1>6, <2>3, Zenon
<1>7. CASE S = {}
  BY <1>3, <1>5, <1>7, PushOk, Zenon
<1>. QED
  BY <1>6, <1>7, Zenon

\* vector_set stores at the number it is given, if that is not a multiple of the
\* size of the first block.
LEMMA SetOk ==
  ASSUME NEW v, VectorOk(v), NEW e \in Entry, NEW fd \in Nat, fd = 0 \/ fd % BEGIN # 0
  PROVE  /\ VectorOk(vector_set(v, e, fd))
         /\ e.node # NULL => View(vector_set(v, e, fd)) = A!Put(View(v), fd, e)
         /\ e.node = NULL => View(vector_set(v, e, fd)) = A!Without(View(v), {fd})
<1>1. v.max \in Nat \ {0} /\ v.max % BEGIN = 0 /\ BEGIN \in Nat \ {0}
  BY FdAssumption, Zenon DEF VectorOk
<1>2. PICK g : g = IF fd >= v.max THEN vector_expand(v, roundup(fd, v.max)) ELSE v
  BY Zenon
<1>3. VectorOk(g) /\ View(g) = View(v) /\ fd < g.max /\ g.max \in Nat
  <2>1. CASE fd >= v.max
    <3>1. fd % v.max # 0
      <4>. SUFFICES ASSUME fd % v.max = 0 PROVE FALSE
        BY Zenon
      <4>0. PICK max \in Nat \ {0} : max = v.max
        BY <1>1, Zenon
      <4>1. PICK m \in Int : fd = max * m
        <5>1. fd = max * (fd \div max) + (fd % max) /\ fd \div max \in Int
          OBVIOUS
        <5>. QED
          BY <4>0, <5>1
      <4>2. PICK k \in Int : max = BEGIN * k
        <5>1. max = BEGIN * (max \div BEGIN) + (max % BEGIN) /\ max \div BEGIN \in Int
          BY <1>1
        <5>2. PICK k \in Int : k = max \div BEGIN
          BY <5>1, Zenon
        <5>3. max % BEGIN = 0 /\ BEGIN * k \in Int
          BY <1>1, <4>0
        <5>4. max = BEGIN * k
          BY <5>1, <5>2, <5>3
        <5>. QED
          BY <5>4, Zenon
      <4>3. fd = BEGIN * (k * m)
        BY <1>1, <4>1, <4>2
      <4>4. PICK n \in Int : n = k * m /\ fd = BEGIN * n
        BY <4>3
      <4>5. fd % BEGIN = 0
        BY <1>1, <4>4
      <4>. QED
        BY <1>1, <2>1, <4>5
    <3>2. PICK n \in Nat \ {0} : n = roundup(fd, v.max) /\ v.max * n > fd
      BY <1>1, <2>1, <3>1, Roundup, Zenon
    <3>3. VectorOk(g) /\ View(g) = View(v) /\ g.max = v.max * n
      BY <1>2, <2>1, <3>2, ExpandOk
    <3>4. v.max * n \in Nat
      BY <1>1
    <3>. QED
      BY <3>2, <3>3, <3>4, Zenon
  <2>2. CASE ~(fd >= v.max)
    BY <1>1, <1>2, <2>2
  <2>. QED
    BY <2>1, <2>2, Zenon
<1>4. vector_set(v, e, fd) = Store(g, fd, e) /\ fd \in 0..(g.max - 1)
  BY <1>2, <1>3 DEF vector_set
<1>. QED
  BY <1>3, <1>4, StoreOk, Zenon

\* An entry whose node or flags are set keeps the rest.
LEMMA ClearOk ==
  ASSUME NEW v, VectorOk(v), NEW fd \in 0..(v.size - 1), NEW w, w = vector_clear(v, fd)
  PROVE  /\ VectorOk(w) /\ View(w) = A!Without(View(v), {fd}) /\ w.size = v.size
         /\ w.max = v.max /\ w.buf = [v.buf EXCEPT ![fd].node = NULL]
<1>1. fd \in 0..(v.max - 1) /\ v.buf[fd] \in Entry
  BY DEF VectorOk
<1>2. PICK e : e = [v.buf[fd] EXCEPT !.node = NULL]
  BY Zenon
<1>3. e \in Entry /\ e.node = NULL
  BY <1>1, <1>2, Zenon DEF Entry
<1>4. w = [size |-> v.size, max |-> v.max, buf |-> [v.buf EXCEPT ![fd] = e]]
  <2>1. v = [size |-> v.size, max |-> v.max, buf |-> v.buf]
    BY Zenon DEF VectorOk
  <2>. QED
    BY <1>2, <2>1, Zenon DEF vector_clear
<1>5. w = Store(v, fd, e)
  <2>1. ~(fd >= v.size)
    BY DEF VectorOk
  <2>2. v = [size |-> v.size, max |-> v.max, buf |-> v.buf]
    BY Zenon DEF VectorOk
  <2>3. PICK b : b = [v.buf EXCEPT ![fd] = e]
    BY Zenon
  <2>4. Store(v, fd, e) = [size |-> v.size, max |-> v.max, buf |-> b]
    <3>1. Store(v, fd, e) = [v EXCEPT !.buf = b, !.size = v.size]
      BY <2>1, <2>3, Zenon DEF Store
    <3>. QED
      BY <2>2, <3>1, Zenon
  <2>. QED
    BY <1>4, <2>3, <2>4, Zenon
<1>6. VectorOk(w) /\ View(w) = A!Without(View(v), {fd})
  BY <1>1, <1>3, <1>5, StoreOk, Zenon
<1>7. w.size = v.size /\ w.max = v.max /\ w.buf = [v.buf EXCEPT ![fd] = e]
  BY <1>4
<1>. QED
  BY <1>2, <1>6, <1>7, Zenon

\* fcntl(F_SETFD) on a number that is free changes nothing that can be seen.
LEMMA FlagsOk ==
  ASSUME NEW v, VectorOk(v), NEW fd \in 0..(v.size - 1), NEW flags \in FLAGS,
         NEW w, w = [v EXCEPT !.buf[fd].flags = flags]
  PROVE  /\ VectorOk(w)
         /\ View(w) = IF fd \in DOMAIN View(v) THEN [View(v) EXCEPT ![fd].flags = flags]
                                               ELSE View(v)
<1>1. fd \in 0..(v.max - 1) /\ v.buf[fd] \in Entry
  BY DEF VectorOk
<1>2. PICK e : e = [v.buf[fd] EXCEPT !.flags = flags]
  BY Zenon
<1>3. e \in Entry /\ e.node = v.buf[fd].node
  BY <1>1, <1>2, Zenon DEF Entry
<1>4. v = [size |-> v.size, max |-> v.max, buf |-> v.buf]
  BY Zenon DEF VectorOk
<1>5. w = Store(v, fd, e)
  <2>1. ~(fd >= v.size)
    BY DEF VectorOk
  <2>2. PICK b : b = [v.buf EXCEPT ![fd] = e]
    BY Zenon
  <2>3. Store(v, fd, e) = [v EXCEPT !.buf = b, !.size = v.size]
    BY <2>1, <2>2, Zenon DEF Store
  <2>4. w = [v EXCEPT !.buf = b]
    BY <1>2, <2>2, Zenon
  <2>. QED
    BY <1>4, <2>3, <2>4, Zenon
<1>6. /\ VectorOk(w)
      /\ e.node # NULL => View(w) = A!Put(View(v), fd, e)
      /\ e.node = NULL => View(w) = A!Without(View(v), {fd})
  <2>1. /\ VectorOk(Store(v, fd, e))
        /\ e.node # NULL => View(Store(v, fd, e)) = A!Put(View(v), fd, e)
        /\ e.node = NULL => View(Store(v, fd, e)) = A!Without(View(v), {fd})
    BY <1>1, <1>3, StoreOk, Zenon
  <2>. QED
    BY <1>5, <2>1, Zenon
<1>7. fd \in DOMAIN View(v) <=> v.buf[fd].node # NULL
  BY <1>1, ViewOf, Zenon
<1>8. View(v) = [i \in DOMAIN View(v) |-> View(v)[i]]
  BY Zenon DEF View
<1>9. CASE fd \in DOMAIN View(v)
  <2>1. View(v)[fd] = v.buf[fd]
    BY <1>9, ViewOf, Zenon
  <2>2. PICK f, g : f = View(v) /\ g = A!Put(View(v), fd, e)
    BY Zenon
  <2>3. e = [f[fd] EXCEPT !.flags = flags] /\ f = [i \in DOMAIN f |-> f[i]] /\ fd \in DOMAIN f
    BY <1>2, <1>8, <1>9, <2>1, <2>2, Zenon
  <2>4. g = [i \in DOMAIN f \union {fd} |-> IF i = fd THEN e ELSE f[i]]
    BY <2>2, Zenon DEF A!Put
  <2>5. [f EXCEPT ![fd] = e] = g
    BY <2>3, <2>4, Zenon
  <2>6. [f EXCEPT ![fd].flags = flags] = [f EXCEPT ![fd] = e]
    BY <2>3, Zenon
  <2>. QED
    BY <1>3, <1>6, <1>7, <1>9, <2>2, <2>5, <2>6, Zenon
<1>10. CASE fd \notin DOMAIN View(v)
  <2>1. A!Without(View(v), {fd}) = View(v)
    <3>1. DOMAIN View(v) \ {fd} = DOMAIN View(v)
      BY <1>10, Zenon
    <3>2. A!Without(View(v), {fd}) = [i \in DOMAIN View(v) |-> View(v)[i]]
      BY <3>1, Zenon DEF A!Without
    <3>. QED
      BY <1>8, <3>2, Zenon
  <2>. QED
    BY <1>3, <1>6, <1>7, <1>10, <2>1, Zenon
<1>. QED
  BY <1>9, <1>10, Zenon

\* check_filedescriptors closes the marked ones.
LEMMA CheckOk ==
  ASSUME NEW v, VectorOk(v), NEW w, w = check_filedescriptors(v)
  PROVE  /\ VectorOk(w)
         /\ View(w) = A!Without(View(v), {fd \in DOMAIN View(v) : A!CloseOnExec(View(v)[fd])})
<1>1. PICK b : b = [i \in DOMAIN v.buf |-> IF i < v.size /\ v.buf[i].flags % 2 = 1
                      THEN [v.buf[i] EXCEPT !.node = NULL] ELSE v.buf[i]]
  BY Zenon
<1>2. DOMAIN v.buf = 0..(v.max - 1) /\ \A i \in 0..(v.max - 1) : v.buf[i] \in Entry
  BY Zenon DEF VectorOk
<1>3. w = [size |-> v.size, max |-> v.max, buf |-> b]
  <2>1. w = [v EXCEPT !.buf = b]
    BY <1>1, Zenon DEF check_filedescriptors
  <2>2. v = [size |-> v.size, max |-> v.max, buf |-> v.buf]
    BY Zenon DEF VectorOk
  <2>. QED
    BY <2>1, <2>2, Zenon
<1>4. w.size = v.size /\ w.max = v.max /\ w.buf = b
  BY <1>3
<1>5. ASSUME NEW i \in 0..(v.max - 1)
      PROVE  /\ b[i] \in Entry
             /\ i < v.size /\ v.buf[i].flags % 2 = 1 => b[i].node = NULL
             /\ ~(i < v.size /\ v.buf[i].flags % 2 = 1) => b[i] = v.buf[i]
  <2>1. [v.buf[i] EXCEPT !.node = NULL] \in Entry
        /\ [v.buf[i] EXCEPT !.node = NULL].node = NULL
    BY <1>2, Zenon DEF Entry
  <2>. QED
    BY <1>1, <1>2, <2>1, Zenon
<1>6. VectorOk(w)
  <2>1. b \in [0..(v.max - 1) -> Entry]
    BY <1>1, <1>2, <1>5, Zenon
  <2>2. \A i \in 0..(v.max - 1) : i >= v.size => b[i].node = NULL
    BY <1>5, Zenon DEF VectorOk
  <2>. QED
    BY <1>3, <1>4, <2>1, <2>2, Zenon DEF VectorOk
<1>7. PICK f, M : /\ M = {fd \in DOMAIN View(v) : A!CloseOnExec(View(v)[fd])}
                  /\ f = A!Without(View(v), M)
  BY Zenon
<1>8. /\ f = [j \in DOMAIN f |-> f[j]] /\ DOMAIN f = DOMAIN View(v) \ M
      /\ \A j \in DOMAIN f : f[j] = View(v)[j]
  BY <1>7, Zenon DEF A!Without
<1>9. ASSUME NEW i \in 0..(v.max - 1)
      PROVE  IF w.buf[i].node # NULL THEN i \in DOMAIN f /\ f[i] = w.buf[i] ELSE i \notin DOMAIN f
  <2>1. i \in DOMAIN View(v) <=> v.buf[i].node # NULL
    BY ViewOf, Zenon
  <2>2. i \in DOMAIN View(v) => View(v)[i] = v.buf[i] /\ i < v.size
    <3>1. i \in DOMAIN View(v) => View(v)[i] = v.buf[i]
      BY ViewOf, Zenon
    <3>2. i \in DOMAIN View(v) => i < v.size
      BY <2>1 DEF VectorOk
    <3>. QED
      BY <3>1, <3>2, Zenon
  <2>3. i \in M <=> i \in DOMAIN View(v) /\ v.buf[i].flags % 2 = 1
    BY <1>7, <2>2, Zenon DEF A!CloseOnExec
  <2>. QED
    BY <1>4, <1>5, <1>8, <2>1, <2>2, <2>3, Zenon
<1>10. DOMAIN f \subseteq 0..(v.max - 1)
  BY <1>8, ViewOf, Zenon
<1>11. View(w) = f
  BY <1>4, <1>6, <1>8, <1>9, <1>10, SameView, Zenon
<1>. QED
  BY <1>6, <1>7, <1>11, Zenon

-----------------------------------------------------------------------------
\* An entry is its node and its flags.
LEMMA EntryIs ==
  ASSUME NEW v, VectorOk(v), NEW fd \in 0..(v.size - 1)
  PROVE  [node |-> v.buf[fd].node, flags |-> v.buf[fd].flags] = v.buf[fd]
<1>1. fd \in 0..(v.max - 1)
  BY DEF VectorOk
<1>2. v.buf[fd] \in Entry
  BY <1>1, Zenon DEF VectorOk
<1>. QED
  BY <1>2, Zenon DEF Entry

\* The table is what the vectors show ...
LEMMA TableIs == FdInv => Table = [t \in DOMAIN fds |-> View(fds[t])]
<1>. SUFFICES ASSUME FdInv PROVE Table = [t \in DOMAIN fds |-> View(fds[t])]
  BY Zenon
<1>1. ASSUME NEW t \in DOMAIN fds
      PROVE  [fd \in {i \in 0..(fds[t].size - 1) : IsOpen(t, i)} |->
                [node |-> fds[t].buf[fd].node, flags |-> fds[t].buf[fd].flags]]
               = View(fds[t])
  <2>1. VectorOk(fds[t])
    BY Zenon DEF FdInv
  <2>. QED
    BY <2>1, EntryIs, Zenon DEF IsOpen, InUse, View
<1>. QED
  BY <1>1, Zenon DEF Table

\* ... the same for the next state.
LEMMA TableNext == FdInv' => Table' = [t \in DOMAIN fds' |-> View(fds'[t])]
<1>. SUFFICES ASSUME FdInv' PROVE Table' = [t \in DOMAIN fds' |-> View(fds'[t])]
  BY Zenon
<1>1. ASSUME NEW t \in DOMAIN fds'
      PROVE  [fd \in {i \in 0..(fds'[t].size - 1) : IsOpen(t, i)'} |->
                [node |-> fds'[t].buf[fd].node, flags |-> fds'[t].buf[fd].flags]]
               = View(fds'[t])
  <2>1. VectorOk(fds'[t])
    BY Zenon DEF FdInv
  <2>. QED
    BY <2>1, EntryIs, Zenon DEF IsOpen, InUse, View
<1>. QED
  BY <1>1, Zenon DEF Table

\* A step that makes a sound vector of a task's keeps the invariant, and changes
\* the table of no other task.
LEMMA StepView ==
  ASSUME FdInv, NEW t \in DOMAIN fds, NEW w, VectorOk(w), Becomes(t, w)
  PROVE  FdInv' /\ A!Becomes(t, View(w)) /\ t \in DOMAIN Table /\ Table[t] = View(fds[t])
         /\ Table'[t] = View(w)
<1>1. fds' = [fds EXCEPT ![t] = w] /\ fds = [u \in DOMAIN fds |-> fds[u]]
  BY Zenon DEF Becomes, FdInv
<1>2. /\ DOMAIN fds' = DOMAIN fds /\ fds'[t] = w /\ fds' = [u \in DOMAIN fds' |-> fds'[u]]
      /\ \A u \in DOMAIN fds \ {t} : fds'[u] = fds[u]
  BY <1>1, Zenon
<1>3. FdInv'
  BY <1>2, Zenon DEF FdInv
<1>4. Table = [u \in DOMAIN fds |-> View(fds[u])]
  BY TableIs, Zenon
<1>5. Table' = [u \in DOMAIN fds' |-> View(fds'[u])]
  BY <1>3, TableNext, Zenon
<1>6. Table' = [Table EXCEPT ![t] = View(w)]
  BY <1>2, <1>4, <1>5, Zenon
<1>. QED
  BY <1>2, <1>3, <1>4, <1>5, <1>6, Zenon DEF A!Becomes

\* The entry of an open number is a file.
LEMMA OpenEntry ==
  ASSUME FdInv, NEW t, NEW fd, IsOpen(t, fd)
  PROVE  /\ t \in DOMAIN fds /\ fd \in DOMAIN View(fds[t]) /\ fds[t].buf[fd] \in Entry
         /\ View(fds[t])[fd] = fds[t].buf[fd] /\ fds[t].buf[fd].node # NULL
         /\ fd \in 0..(fds[t].size - 1) /\ VectorOk(fds[t])
<1>1. /\ t \in DOMAIN fds /\ fd \in 0..(fds[t].size - 1) /\ fds[t].buf[fd].node # NULL
      /\ VectorOk(fds[t])
  BY Zenon DEF IsOpen, InUse, FdInv
<1>2. fd \in 0..(fds[t].max - 1) /\ fds[t].buf[fd] \in Entry
  BY <1>1 DEF VectorOk
<1>3. fd \in DOMAIN View(fds[t]) /\ View(fds[t])[fd] = fds[t].buf[fd]
  BY <1>1, Zenon DEF View
<1>. QED
  BY <1>1, <1>2, <1>3, Zenon

\* open takes the lowest free number.
LEMMA OpenStep ==
  ASSUME FdInv, NEW t \in Tasks, NEW node \in Nodes, NEW flags \in FLAGS,
         register_filedescriptor(t, node, flags)
  PROVE  FdInv' /\ A!Next
<1>1. PICK e, v, w : e = [node |-> node, flags |-> flags] /\ v = fds[t] /\ w = vector_add(v, e)
  BY Zenon
<1>2. t \in DOMAIN fds /\ Becomes(t, w) /\ VectorOk(v)
  BY <1>1, Zenon DEF register_filedescriptor, FdInv
<1>3. e \in Entry /\ e.node # NULL /\ e \in A!OpenFile
  BY <1>1, FdAssumption, Zenon DEF Entry, A!OpenFile
<1>4. PICK S, fd : /\ S = {i \in 0..(v.size - 1) : v.buf[i].node = NULL}
                   /\ fd = IF S = {} THEN v.size ELSE Min(S)
  BY Zenon
<1>5. VectorOk(w) /\ A!Lowest(View(v), fd) /\ View(w) = A!Put(View(v), fd, e)
  BY <1>1, <1>2, <1>3, <1>4, AddOk
<1>6. FdInv' /\ A!Becomes(t, View(w)) /\ t \in DOMAIN Table /\ Table[t] = View(v)
      /\ Table'[t] = View(w)
  BY <1>1, <1>2, <1>5, StepView, Zenon
<1>7. fd \in DOMAIN Table'[t]
  BY <1>5, <1>6, Zenon DEF A!Put
<1>8. A!Open(t)
  BY <1>3, <1>5, <1>6, <1>7, Zenon DEF A!Open
<1>. QED
  BY <1>6, <1>8, Zenon DEF A!Next

\* close frees the number.
LEMMA CloseStep ==
  ASSUME FdInv, NEW t \in Tasks, NEW fd \in Nat, close_filedescriptor(t, fd)
  PROVE  FdInv' /\ A!Next
<1>1. PICK v, w : v = fds[t] /\ w = vector_clear(v, fd)
  BY Zenon
<1>2. IsOpen(t, fd) /\ Becomes(t, w)
  BY <1>1, Zenon DEF close_filedescriptor
<1>3. t \in DOMAIN fds /\ fd \in DOMAIN View(v) /\ fd \in 0..(v.size - 1) /\ VectorOk(v)
  BY <1>1, <1>2, OpenEntry, Zenon
<1>4. VectorOk(w) /\ View(w) = A!Without(View(v), {fd})
  BY <1>1, <1>3, ClearOk
<1>5. FdInv' /\ A!Becomes(t, View(w)) /\ t \in DOMAIN Table /\ Table[t] = View(v)
  BY <1>1, <1>2, <1>3, <1>4, StepView, Zenon
<1>6. A!Close(t)
  BY <1>3, <1>4, <1>5, Zenon DEF A!Close
<1>. QED
  BY <1>5, <1>6, Zenon DEF A!Next

\* dup and fcntl(F_DUPFD) open another number on the same file.
LEMMA DupStep ==
  ASSUME FdInv, NEW t \in Tasks, NEW fd \in Nat, NEW from \in Nat \union {-1},
         dup_filedescriptor(t, fd, from)
  PROVE  FdInv' /\ A!Next
<1>1. PICK v, e : v = fds[t] /\ e = v.buf[fd]
  BY Zenon
<1>2. PICK w : w = IF from = -1 THEN vector_add(v, e) ELSE vector_add_from(v, e, from)
  BY Zenon
<1>3. IsOpen(t, fd) /\ Becomes(t, w)
  BY <1>1, <1>2, Zenon DEF dup_filedescriptor
<1>4. /\ t \in DOMAIN fds /\ fd \in DOMAIN View(v) /\ VectorOk(v)
      /\ e \in Entry /\ e.node # NULL /\ View(v)[fd] = e
  BY <1>1, <1>3, OpenEntry, Zenon
<1>5. VectorOk(w) /\ \E new : View(w) = A!Put(View(v), new, e)
  <2>1. CASE from = -1
    <3>1. PICK S, new : /\ S = {i \in 0..(v.size - 1) : v.buf[i].node = NULL}
                        /\ new = IF S = {} THEN v.size ELSE Min(S)
      BY Zenon
    <3>. QED
      BY <1>2, <1>4, <2>1, <3>1, AddOk, Zenon
  <2>2. CASE from # -1
    BY <1>2, <1>4, <2>2, AddFromOk
  <2>. QED
    BY <2>1, <2>2, Zenon
<1>6. PICK new : View(w) = A!Put(View(v), new, e)
  BY <1>5, Zenon
<1>7. FdInv' /\ A!Becomes(t, View(w)) /\ t \in DOMAIN Table /\ Table[t] = View(v)
      /\ Table'[t] = View(w)
  BY <1>1, <1>3, <1>4, <1>5, StepView, Zenon
<1>8. new \in DOMAIN Table'[t]
  BY <1>6, <1>7, Zenon DEF A!Put
<1>9. A!Dup(t)
  BY <1>4, <1>6, <1>7, <1>8, Zenon DEF A!Dup
<1>. QED
  BY <1>7, <1>9, Zenon DEF A!Next

\* dup2 of a number to another one opens that on the same file; dup2 of a number
\* to itself closes it.
LEMMA Dup2Step ==
  ASSUME FdInv, NEW t \in Tasks, NEW old \in Nat, NEW new \in Nat,
         new = 0 \/ new % BEGIN # 0, dup2_filedescriptor(t, old, new)
  PROVE  FdInv' /\ A!Next
<1>1. PICK v, u : v = fds[t] /\ u = IF InUse(t, new) THEN vector_clear(v, new) ELSE v
  BY Zenon
<1>2. PICK e, w : e = u.buf[old] /\ w = vector_set(u, e, new)
  BY Zenon
<1>3. IsOpen(t, old) /\ Becomes(t, w)
  BY <1>1, <1>2, Zenon DEF dup2_filedescriptor
<1>4. /\ t \in DOMAIN fds /\ old \in DOMAIN View(v) /\ VectorOk(v)
      /\ v.buf[old] \in Entry /\ v.buf[old].node # NULL /\ View(v)[old] = v.buf[old]
      /\ old \in 0..(v.size - 1)
  BY <1>1, <1>3, OpenEntry, Zenon
<1>5. ASSUME InUse(t, new)
      PROVE  /\ VectorOk(u) /\ View(u) = A!Without(View(v), {new})
             /\ e = IF old = new THEN [v.buf[old] EXCEPT !.node = NULL] ELSE v.buf[old]
  <2>1. new \in 0..(v.size - 1)
    BY <1>1, <1>5, Zenon DEF InUse
  <2>2. /\ VectorOk(u) /\ View(u) = A!Without(View(v), {new})
        /\ u.buf = [v.buf EXCEPT ![new].node = NULL]
    <3>1. u = vector_clear(v, new)
      BY <1>1, <1>5, Zenon
    <3>2. VectorOk(v)
      BY <1>4, Zenon
    <3>3. VectorOk(u) /\ View(u) = A!Without(View(v), {new})
      BY <2>1, <3>1, <3>2, ClearOk, Zenon
    <3>4. v = [size |-> v.size, max |-> v.max, buf |-> v.buf]
      BY <3>2, Zenon DEF VectorOk
    <3>. QED
      BY <3>1, <3>3, <3>4, Zenon DEF vector_clear
  <2>3. old \in DOMAIN v.buf
    BY <1>4 DEF VectorOk
  <2>4. PICK x : x = [v.buf[new] EXCEPT !.node = NULL]
    BY Zenon
  <2>5. u.buf = [v.buf EXCEPT ![new] = x]
    BY <2>2, <2>4, Zenon
  <2>6. u.buf[old] = IF old = new THEN x ELSE v.buf[old]
    BY <2>3, <2>5, Zenon
  <2>. QED
    BY <1>2, <2>2, <2>4, <2>6, Zenon
<1>6. VectorOk(u) /\ e \in Entry /\ (e.node # NULL => e = v.buf[old])
      /\ (e.node = NULL <=> old = new)
  <2>1. CASE InUse(t, new)
    <3>1. /\ [v.buf[old] EXCEPT !.node = NULL] \in Entry
          /\ [v.buf[old] EXCEPT !.node = NULL].node = NULL
      BY <1>4, Zenon DEF Entry
    <3>. QED
      BY <1>4, <1>5, <2>1, <3>1, Zenon
  <2>2. CASE ~InUse(t, new)
    <3>1. InUse(t, old)
      BY <1>3, Zenon DEF IsOpen
    <3>. QED
      BY <1>1, <1>2, <1>4, <2>2, <3>1, Zenon
  <2>. QED
    BY <2>1, <2>2, Zenon
<1>7. /\ VectorOk(w)
      /\ e.node # NULL => View(w) = A!Put(View(u), new, e)
      /\ e.node = NULL => View(w) = A!Without(View(u), {new})
  BY <1>2, <1>6, SetOk, Zenon
<1>8. FdInv' /\ A!Becomes(t, View(w)) /\ t \in DOMAIN Table /\ Table[t] = View(v)
      /\ Table'[t] = View(w)
  BY <1>1, <1>3, <1>4, <1>7, StepView, Zenon
<1>9. CASE old = new
  <2>1. InUse(t, new)
    BY <1>3, <1>9, Zenon DEF IsOpen
  <2>2. View(w) = A!Without(A!Without(View(v), {new}), {new})
    BY <1>5, <1>6, <1>7, <1>9, <2>1, Zenon
  <2>3. View(w) = A!Without(View(v), {old})
    BY <1>9, <2>2, Zenon DEF A!Without
  <2>4. A!Close(t)
    BY <1>4, <1>8, <2>3, Zenon DEF A!Close
  <2>. QED
    BY <1>8, <2>4, Zenon DEF A!Next
<1>10. CASE old # new
  <2>1. View(w) = A!Put(View(u), new, e) /\ e = v.buf[old]
    BY <1>6, <1>7, <1>10, Zenon
  <2>2. View(w) = A!Put(View(v), new, e)
    <3>1. CASE InUse(t, new)
      <4>1. View(w) = A!Put(A!Without(View(v), {new}), new, e)
        BY <1>5, <2>1, <3>1, Zenon
      <4>2. A!Put(A!Without(View(v), {new}), new, e) = A!Put(View(v), new, e)
        BY Zenon DEF A!Put, A!Without
      <4>. QED
        BY <4>1, <4>2, Zenon
    <3>2. CASE ~InUse(t, new)
      BY <1>1, <2>1, <3>2, Zenon
    <3>. QED
      BY <3>1, <3>2, Zenon
  <2>3. new \in DOMAIN Table'[t]
    BY <1>8, <2>2, Zenon DEF A!Put
  <2>4. A!Dup(t)
    BY <1>4, <1>8, <2>1, <2>2, <2>3, Zenon DEF A!Dup
  <2>. QED
    BY <1>8, <2>4, Zenon DEF A!Next
<1>. QED
  BY <1>9, <1>10, Zenon

\* fcntl(F_SETFD) sets the flags of an open number.
LEMMA FlagsStep ==
  ASSUME FdInv, NEW t \in Tasks, NEW fd \in Nat, NEW flags \in WORDS,
         setflags_filedescriptor(t, fd, flags)
  PROVE  FdInv' /\ (A!Next \/ Table' = Table)
<1>1. PICK v, w : v = fds[t] /\ w = [v EXCEPT !.buf[fd].flags = flags]
  BY Zenon
<1>2. t \in DOMAIN fds /\ fd \in 0..(v.size - 1) /\ Becomes(t, w) /\ VectorOk(v)
  BY <1>1, Zenon DEF setflags_filedescriptor, InUse, FdInv
<1>3. flags \in FLAGS
  BY FdAssumption, Zenon
<1>4. /\ VectorOk(w)
      /\ View(w) = IF fd \in DOMAIN View(v) THEN [View(v) EXCEPT ![fd].flags = flags]
                                            ELSE View(v)
  BY <1>1, <1>2, <1>3, FlagsOk
<1>5. FdInv' /\ A!Becomes(t, View(w)) /\ t \in DOMAIN Table /\ Table[t] = View(v)
  BY <1>1, <1>2, <1>4, StepView, Zenon
<1>6. CASE fd \in DOMAIN View(v)
  <2>1. A!SetFlags(t)
    <3>1. View(w) = [Table[t] EXCEPT ![fd].flags = flags] /\ fd \in DOMAIN Table[t]
      BY <1>4, <1>5, <1>6, Zenon
    <3>2. A!Becomes(t, [Table[t] EXCEPT ![fd].flags = flags])
      BY <1>5, <3>1, Zenon
    <3>. QED
      BY <1>3, <3>1, <3>2, Zenon DEF A!SetFlags
  <2>. QED
    BY <1>5, <2>1, Zenon DEF A!Next
<1>7. CASE fd \notin DOMAIN View(v)
  <2>1. Table' = [Table EXCEPT ![t] = Table[t]]
    BY <1>4, <1>5, <1>7, Zenon DEF A!Becomes
  <2>2. Table = [u \in DOMAIN Table |-> Table[u]]
    BY Zenon DEF Table
  <2>. QED
    BY <1>5, <2>1, <2>2, Zenon
<1>. QED
  BY <1>6, <1>7, Zenon

\* fork gives the child the table of its parent.
LEMMA ForkStep ==
  ASSUME FdInv, NEW t \in Tasks, NEW c \in Tasks, fork(t, c)
  PROVE  FdInv' /\ A!Next
<1>1. /\ t \in DOMAIN fds /\ c \notin DOMAIN fds
      /\ fds' = [u \in DOMAIN fds \union {c} |-> IF u = c THEN fds[t] ELSE fds[u]]
  BY Zenon DEF fork
<1>2. /\ DOMAIN fds' = DOMAIN fds \union {c} /\ fds'[c] = fds[t]
      /\ \A u \in DOMAIN fds : fds'[u] = fds[u]
      /\ fds' = [u \in DOMAIN fds' |-> fds'[u]]
  BY <1>1, Zenon
<1>3. FdInv'
  BY <1>1, <1>2, Zenon DEF FdInv
<1>4. Table = [u \in DOMAIN fds |-> View(fds[u])]
  BY TableIs, Zenon
<1>5. Table' = [u \in DOMAIN fds' |-> View(fds'[u])]
  BY <1>3, TableNext, Zenon
<1>6. DOMAIN Table = DOMAIN fds /\ DOMAIN Table' = DOMAIN fds \union {c}
  BY <1>2, <1>4, <1>5, Zenon
<1>7. Table' = [u \in DOMAIN Table \union {c} |-> IF u = c THEN Table[t] ELSE Table[u]]
  BY <1>1, <1>2, <1>4, <1>5, <1>6, Zenon
<1>8. c \in DOMAIN Table' \ DOMAIN Table
  BY <1>1, <1>6, Zenon
<1>9. A!Fork(t)
  BY <1>7, <1>8, Zenon DEF A!Fork
<1>. QED
  BY <1>1, <1>3, <1>6, <1>9, Zenon DEF A!Next

\* execve keeps the descriptors that are not to be closed; the one it opens the
\* program with is gone.
LEMMA ExecStep ==
  ASSUME FdInv, NEW t \in Tasks, NEW node \in Nodes, execve(t, node)
  PROVE  FdInv' /\ A!Next
<1>1. PICK v, S, e : /\ v = fds[t] /\ S = {i \in 0..(v.size - 1) : v.buf[i].node = NULL}
                     /\ e = [node |-> node, flags |-> 0]
  BY Zenon
<1>2. PICK fd : fd = IF S = {} THEN v.size ELSE Min(S)
  BY Zenon
<1>3. PICK o, x, w : o = vector_add(v, e) /\ x = vector_clear(o, fd) /\ w = check_filedescriptors(x)
  BY Zenon
<1>4. t \in DOMAIN fds /\ Becomes(t, w) /\ VectorOk(v)
  BY <1>1, <1>2, <1>3, Zenon DEF execve, FdInv
<1>5. e \in Entry /\ e.node # NULL
  BY <1>1, FdAssumption, Zenon DEF Entry
<1>6. /\ VectorOk(o) /\ A!Lowest(View(v), fd) /\ fd \in Nat
      /\ View(o) = A!Put(View(v), fd, e) /\ fd \in 0..(o.max - 1)
  BY <1>1, <1>2, <1>3, <1>4, <1>5, AddOk
<1>7. fd \in DOMAIN View(o) /\ fd \notin DOMAIN View(v)
  BY <1>6, Zenon DEF A!Put, A!Lowest
<1>8. fd \in 0..(o.size - 1)
  BY <1>7, Zenon DEF View
<1>9. VectorOk(x) /\ View(x) = A!Without(View(o), {fd})
  BY <1>3, <1>6, <1>8, ClearOk, Zenon
<1>10. View(x) = View(v)
  <2>1. PICK f : f = View(v)
    BY Zenon
  <2>2. f = [i \in DOMAIN f |-> f[i]] /\ fd \notin DOMAIN f
    BY <1>7, <2>1, Zenon DEF View
  <2>3. A!Without(A!Put(f, fd, e), {fd}) = [i \in DOMAIN f |-> f[i]]
    <3>1. DOMAIN A!Put(f, fd, e) = DOMAIN f \union {fd}
          /\ \A i \in DOMAIN f : A!Put(f, fd, e)[i] = f[i]
      BY <2>2, Zenon DEF A!Put
    <3>2. DOMAIN A!Put(f, fd, e) \ {fd} = DOMAIN f
      BY <2>2, <3>1, Zenon
    <3>. QED
      BY <3>1, <3>2, Zenon DEF A!Without
  <2>. QED
    BY <1>6, <1>9, <2>1, <2>2, <2>3, Zenon
<1>11. /\ VectorOk(w)
       /\ View(w) = A!Without(View(v), {i \in DOMAIN View(v) : A!CloseOnExec(View(v)[i])})
  BY <1>3, <1>9, <1>10, CheckOk, Zenon
<1>12. FdInv' /\ A!Becomes(t, View(w)) /\ t \in DOMAIN Table /\ Table[t] = View(v)
  BY <1>1, <1>4, <1>11, StepView, Zenon
<1>13. A!Exec(t)
  BY <1>11, <1>12, Zenon DEF A!Exec
<1>. QED
  BY <1>12, <1>13, Zenon DEF A!Next

-----------------------------------------------------------------------------
\* Every step of a task is a step of the tables, or changes nothing of them.
LEMMA FdNext ==
  ASSUME TargetsInside, FdInv, [Next]_fds
  PROVE  FdInv' /\ [A!Next]_Table
<1>1. CASE UNCHANGED fds
  <2>1. FdInv' /\ Table' = Table
    BY <1>1 DEF FdInv, Table, IsOpen, InUse
  <2>. QED
    BY <2>1, Zenon
<1>2. ASSUME NEW t \in Tasks,
             \/ \E node \in Nodes, flags \in FLAGS : register_filedescriptor(t, node, flags)
             \/ \E fd \in 0..(MaxSize - 1) : close_filedescriptor(t, fd)
             \/ \E fd \in 0..(MaxSize - 1), from \in Targets \union {-1} :
                  dup_filedescriptor(t, fd, from)
             \/ \E old \in 0..(MaxSize - 1), new \in Targets :
                  dup2_filedescriptor(t, old, new)
             \/ \E fd \in 0..(MaxSize - 1), flags \in WORDS :
                  setflags_filedescriptor(t, fd, flags)
             \/ \E c \in Tasks : fork(t, c)
             \/ \E node \in Nodes : execve(t, node)
      PROVE  FdInv' /\ (A!Next \/ Table' = Table)
  <2>1. MaxSize \in Nat /\ Targets \subseteq Nat
    BY FdAssumption, Zenon
  <2>2. \A fd \in 0..(MaxSize - 1) : fd \in Nat
    BY <2>1
  <2>3. ASSUME NEW node \in Nodes, NEW flags \in FLAGS, register_filedescriptor(t, node, flags)
        PROVE  FdInv' /\ A!Next
    BY <2>3, OpenStep, Zenon
  <2>4. ASSUME NEW fd \in 0..(MaxSize - 1), close_filedescriptor(t, fd)
        PROVE  FdInv' /\ A!Next
    BY <2>2, <2>4, CloseStep, Zenon
  <2>5. ASSUME NEW fd \in 0..(MaxSize - 1), NEW from \in Targets \union {-1},
               dup_filedescriptor(t, fd, from)
        PROVE  FdInv' /\ A!Next
    BY <2>1, <2>2, <2>5, DupStep, Zenon
  <2>6. ASSUME NEW old \in 0..(MaxSize - 1), NEW new \in Targets,
               dup2_filedescriptor(t, old, new)
        PROVE  FdInv' /\ A!Next
    BY <2>1, <2>2, <2>6, Dup2Step, Zenon DEF TargetsInside
  <2>7. ASSUME NEW fd \in 0..(MaxSize - 1), NEW flags \in WORDS,
               setflags_filedescriptor(t, fd, flags)
        PROVE  FdInv' /\ (A!Next \/ Table' = Table)
    BY <2>2, <2>7, FlagsStep, Zenon
  <2>8. ASSUME NEW c \in Tasks, fork(t, c) PROVE FdInv' /\ A!Next
    BY <2>8, ForkStep, Zenon
  <2>9. ASSUME NEW node \in Nodes, execve(t, node) PROVE FdInv' /\ A!Next
    BY <2>9, ExecStep, Zenon
  <2>. QED
    BY <1>2, <2>3, <2>4, <2>5, <2>6, <2>7, <2>8, <2>9, Zenon
<1>. QED
  BY <1>1, <1>2, Zenon DEF Next

\* The vector of the first task is empty.
LEMMA FdInit == Init => FdInv /\ A!Init
<1>. SUFFICES ASSUME Init PROVE FdInv /\ A!Init
  BY Zenon
<1>1. fds = [t \in {first} |-> vector_create] /\ DOMAIN fds = {first}
  BY Zenon DEF Init
<1>2. BEGIN \in Nat \ {0} /\ Zero \in Entry /\ Zero.node = NULL
  BY FdAssumption, Zenon DEF Zero, Entry
<1>3. VectorOk(vector_create)
  <2>1. BEGIN % BEGIN = 0
    BY <1>2
  <2>. QED
    BY <1>2, <2>1 DEF VectorOk, vector_create
<1>4. FdInv
  BY <1>1, <1>3, Zenon DEF FdInv
<1>5. View(vector_create) = [i \in {} |-> 0]
  <2>1. DOMAIN View(vector_create) = {}
    BY DEF View, vector_create
  <2>. QED
    BY <2>1, Zenon DEF View
<1>6. Table = [u \in {first} |-> [i \in {} |-> 0]]
  BY <1>1, <1>4, <1>5, TableIs, Zenon
<1>. QED
  BY <1>4, <1>6, Zenon DEF A!Init

\* The vectors of tasks (vector_add, vector_set, vector_expand, fork, execve) are
\* the tables that FdTable promises programs: opens take the lowest free number,
\* and growing, holes, stale entries and forks never change another descriptor,
\* for any number of tasks and descriptors, if programs keep away from the
\* numbers that vector_set makes no room for.
THEOREM VectorsImplementTables == TargetsInside => (Spec => ImplementsFdTable)
<1>. SUFFICES ASSUME TargetsInside PROVE Spec => ImplementsFdTable
  BY Zenon
<1>1. FdInv /\ [Next]_fds => FdInv' /\ [A!Next]_Table
  BY FdNext, Zenon
<1>. QED
  BY <1>1, FdInit, PTL DEF Spec, ImplementsFdTable, A!Spec
=============================================================================
