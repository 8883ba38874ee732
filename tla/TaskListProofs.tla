--------------------------- MODULE TaskListProofs ---------------------------
(***************************************************************************)
(* The scheduler's lists, for any number of tasks: what add_to_list and    *)
(* remove_from_list make of two lists that share the tasks' links.         *)
(*                                                                         *)
(* The walk along the links from the head of a list is a recursive         *)
(* function; MembersOfList says what it meets when the links form a        *)
(* sequence of different tasks (IsList).  Lists(...) then says that two    *)
(* lists share one link field, and ListsAdd, ListsRemove and ListsMove     *)
(* what the operations of sched.c make of them.                            *)
(***************************************************************************)
EXTENDS TaskList, Sequences, FiniteSetTheorems, TLAPS

Distinct(s) == \A i, j \in 1..Len(s) : s[i] = s[j] => i = j

\* A non-empty set of natural numbers has a least element.
LEMMA LeastNatural ==
  ASSUME NEW T, T \subseteq Nat, T # {}
  PROVE  \E m \in T : \A k \in T : m <= k
<1>1. PICK x \in T : \A y \in T : <<y, x>> \notin OpToRel(<, Nat)
  BY NatLessThanWellFounded, WFMin, Zenon
<1>2. \A y \in T : ~(y < x)
  BY <1>1, Zenon DEF OpToRel
<1>. QED
  BY <1>2

\* What a sequence is, ...
LEMMA SeqFacts ==
  ASSUME NEW S, NEW s \in Seq(S)
  PROVE  /\ Len(s) \in Nat /\ DOMAIN s = 1..Len(s) /\ s \in [1..Len(s) -> S]
         /\ \A i \in 1..Len(s) : s[i] \in S
OBVIOUS

\* ... which function is one, ...
LEMMA SeqOf ==
  ASSUME NEW S, NEW n \in Nat, NEW f \in [1..n -> S]
  PROVE  f \in Seq(S) /\ Len(f) = n
OBVIOUS

\* ... and when it is empty.
LEMMA SeqEmpty ==
  ASSUME NEW S, NEW s \in Seq(S)
  PROVE  s = <<>> <=> Len(s) = 0
OBVIOUS

\* The elements of a sequence are the values at its positions.
LEMMA RangeIs ==
  ASSUME NEW S, NEW s \in Seq(S)
  PROVE  /\ Range(s) = {s[i] : i \in 1..Len(s)}
         /\ Range(s) \subseteq S
         /\ \A x : x \in Range(s) <=> \E i \in 1..Len(s) : s[i] = x
  BY SeqFacts DEF Range

\* ... as a fact about each value.
LEMMA RangeHas ==
  ASSUME NEW S, NEW s, s \in Seq(S)
  PROVE  \A x : x \in Range(s) <=> \E i \in 1..Len(s) : s[i] = x
BY RangeIs, Zenon

\* Appending adds one element, at the end.
LEMMA AppendElements ==
  ASSUME NEW S, NEW s \in Seq(S), NEW e \in S
  PROVE  /\ Append(s, e) \in Seq(S)
         /\ Len(Append(s, e)) = Len(s) + 1
         /\ \A i \in 1..Len(s) : Append(s, e)[i] = s[i]
         /\ Append(s, e)[Len(s) + 1] = e
         /\ Range(Append(s, e)) = Range(s) \union {e}
         /\ Distinct(s) /\ e \notin Range(s) => Distinct(Append(s, e))
<1>1. PICK t : t = Append(s, e)
  BY Zenon
<1>2. /\ t \in Seq(S) /\ Len(t) = Len(s) + 1 /\ Len(s) \in Nat
      /\ \A i \in 1..Len(s) : t[i] = s[i]
      /\ t[Len(s) + 1] = e
  BY <1>1
<1>3. \A x : x \in Range(t) <=> \E i \in 1..(Len(s) + 1) : t[i] = x
  BY <1>2, RangeIs
<1>4. \A x : x \in Range(s) <=> \E i \in 1..Len(s) : s[i] = x
  BY RangeIs, Zenon
<1>5. \A x : x \in Range(t) <=> x \in Range(s) \/ x = e
  <2>1. \A i \in 1..(Len(s) + 1) : i \in 1..Len(s) \/ i = Len(s) + 1
    BY <1>2
  <2>2. 1..Len(s) \subseteq 1..(Len(s) + 1) /\ Len(s) + 1 \in 1..(Len(s) + 1)
    BY <1>2
  <2>. QED
    BY <1>2, <1>3, <1>4, <2>1, <2>2, Zenon
<1>6. Distinct(s) /\ e \notin Range(s) => Distinct(t)
  BY <1>2, <1>4 DEF Distinct
<1>. QED
  BY <1>1, <1>2, <1>5, <1>6, Zenon

\* Leaving out position p of a sequence takes one element away.
LEMMA CutElements ==
  ASSUME NEW S, NEW s \in Seq(S), Distinct(s), NEW p \in 1..Len(s),
         NEW q, q = [j \in 1..(Len(s) - 1) |-> IF j < p THEN s[j] ELSE s[j + 1]]
  PROVE  /\ q \in Seq(S) /\ Len(q) = Len(s) - 1 /\ Distinct(q)
         /\ Range(q) = Range(s) \ {s[p]}
<1>1. Len(s) \in Nat /\ \A i \in 1..Len(s) : s[i] \in S
  BY SeqFacts, Zenon
<1>2. Len(s) - 1 \in Nat /\ \A j \in 1..(Len(s) - 1) : q[j] \in S
  BY <1>1
<1>3. q \in Seq(S) /\ Len(q) = Len(s) - 1
  <2>1. q \in [1..(Len(s) - 1) -> S]
    BY <1>2, Zenon
  <2>. QED
    BY <1>2, <2>1, SeqOf
<1>4. Distinct(q)
  BY <1>1, <1>3 DEF Distinct
<1>5. \A x : x \in Range(q) <=> \E j \in 1..(Len(s) - 1) : q[j] = x
  <2>1. \A x : x \in Range(q) <=> \E j \in 1..Len(q) : q[j] = x
    BY <1>3, RangeHas, Zenon
  <2>. QED
    BY <1>3, <2>1, Zenon
<1>6. \A x : x \in Range(s) <=> \E i \in 1..Len(s) : s[i] = x
  BY RangeIs, Zenon
<1>7. ASSUME NEW j \in 1..(Len(s) - 1)
      PROVE  q[j] \in Range(s) /\ q[j] # s[p]
  <2>1. PICK i \in 1..Len(s) : q[j] = s[i] /\ i # p
    BY <1>1
  <2>. QED
    BY <1>6, <2>1, Zenon DEF Distinct
<1>8. ASSUME NEW i \in 1..Len(s), i # p
      PROVE  \E j \in 1..(Len(s) - 1) : q[j] = s[i]
  <2>1. CASE i < p
    <3>1. i \in 1..(Len(s) - 1) /\ q[i] = s[i]
      BY <1>1, <2>1
    <3>. QED
      BY <3>1, Zenon
  <2>2. CASE i > p
    <3>1. i - 1 \in 1..(Len(s) - 1) /\ q[i - 1] = s[i]
      BY <1>1, <2>2
    <3>. QED
      BY <3>1, Zenon
  <2>. QED
    BY <1>1, <1>8, <2>1, <2>2
<1>9. Range(q) = Range(s) \ {s[p]}
  <2>1. \A x : x \in Range(q) <=> x \in Range(s) /\ x # s[p]
    BY <1>5, <1>6, <1>7, <1>8, ZenonT(30)
  <2>. QED
    BY <2>1, Zenon
<1>. QED
  BY <1>3, <1>4, <1>9, Zenon

-----------------------------------------------------------------------------

\* s is the list that begins with h, and its elements are linked in that order.
IsList(h, lk, s) ==
  /\ s \in Seq(Pids) /\ Distinct(s)
  /\ h = IF s = <<>> THEN NULL ELSE s[1]
  /\ \A i \in 1..Len(s) : lk[s[i]] = IF i = Len(s) THEN NULL ELSE s[i + 1]

\* NULL is no task, and there are finitely many tasks.
LEMMA PidFacts ==
  /\ NULL \notin Pids /\ IsFiniteSet(Pids) /\ Cardinality(Pids) \in Nat
  /\ Pids = 1..Cardinality(Pids) /\ Pids \subseteq Nat \ {0}
  /\ 1 \in Pids /\ 2 \in Pids
<1>1. IsFiniteSet(Pids) /\ Pids = 1..Cardinality(Pids) /\ Cardinality(Pids) >= 2
  BY PidsAssumption, Zenon
<1>2. Cardinality(Pids) \in Nat
  BY <1>1, FS_CardinalityType, Zenon
<1>. QED
  BY <1>1, <1>2 DEF NULL

\* A list has no more elements than there are tasks.
LEMMA ListLength ==
  ASSUME NEW s \in Seq(Pids), Distinct(s)
  PROVE  Len(s) <= Cardinality(Pids)
<1>1. s \in Injection(1..Len(s), Pids)
  BY SeqFacts, Zenon DEF Injection, IsInjective, Distinct
<1>2. IsFiniteSet(Pids)
  BY PidsAssumption, Zenon
<1>3. Cardinality(1..Len(s)) <= Cardinality(Pids)
  BY <1>1, <1>2, FS_Injection, Zenon
<1>4. Cardinality(1..Len(s)) = Len(s)
  <2>1. PICK n \in Nat : n = Len(s)
    BY SeqFacts, Zenon
  <2>2. Cardinality(1..n) = IF 1 > n THEN 0 ELSE n - 1 + 1
    BY FS_Interval
  <2>. QED
    BY <2>1, <2>2, SMTT(30)
<1>. QED
  BY <1>3, <1>4, Zenon

\* The walk of Members along a list meets the elements of the list.
LEMMA MembersOfList ==
  ASSUME NEW h, NEW lk \in [Pids -> Pids \union {NULL}], NEW s, IsList(h, lk, s)
  PROVE  Members(h, lk) = Range(s)
<1>. DEFINE N == Cardinality(Pids)
            Eq(f) == f = [k \in 0..N |-> IF k = 0 THEN h
                                         ELSE IF f[k-1] = NULL THEN NULL
                                              ELSE lk[f[k-1]]]
            g == [k \in 0..N |-> IF k < Len(s) THEN s[k+1] ELSE NULL]
            node == CHOOSE f : Eq(f)
            Bad == {k \in 0..N : node[k] # g[k]}
<1>1. N \in Nat /\ Len(s) \in Nat /\ Len(s) <= N /\ NULL \notin Pids
  BY ListLength, PidFacts, SeqFacts, Zenon DEF IsList
<1>2. Eq(g)
  BY <1>1, SMTT(30) DEF IsList, NULL
<1>3. Eq(node)
  BY <1>2, Zenon
<1>4. Members(h, lk) = {node[k] : k \in 0..N} \ {NULL}
  BY Zenon DEF Members
<1>. HIDE DEF N, node, g
<1>5. Bad = {}
  <2>1. SUFFICES ASSUME Bad # {} PROVE FALSE
    BY Zenon
  <2>2. PICK m \in Bad : \A k \in Bad : m <= k
    <3>1. Bad \subseteq Nat
      BY <1>1
    <3>. HIDE DEF Bad
    <3>. QED
      BY <2>1, <3>1, LeastNatural, Zenon
  <2>3. m # 0
    BY <1>1, <1>2, <1>3, <2>2, Zenon
  <2>4. m - 1 \in 0..N /\ node[m-1] = g[m-1]
    BY <1>1, <2>2, <2>3
  <2>. QED
    BY <1>1, <1>2, <1>3, <2>2, <2>3, <2>4, SMTT(30)
<1>6. \A k \in 0..N : node[k] = g[k]
  BY <1>5, Zenon
<1>7. \A k \in 0..N : g[k] = IF k < Len(s) THEN s[k+1] ELSE NULL
  BY Zenon DEF g
<1>8. \A i \in 1..Len(s) : s[i] \in Pids /\ i - 1 \in 0..N /\ i - 1 < Len(s)
  BY <1>1 DEF IsList
<1>9. \A x : x \in Members(h, lk) <=> \E i \in 1..Len(s) : s[i] = x
  <2>1. ASSUME NEW x \in Members(h, lk) PROVE \E i \in 1..Len(s) : s[i] = x
    <3>1. PICK k \in 0..N : node[k] = x /\ x # NULL
      BY <1>4, <2>1, Zenon
    <3>2. k < Len(s) /\ s[k+1] = x /\ k + 1 \in 1..Len(s)
      BY <1>1, <1>6, <1>7, <3>1, SMTT(30)
    <3>. QED
      BY <3>2, Zenon
  <2>2. ASSUME NEW i \in 1..Len(s) PROVE s[i] \in Members(h, lk)
    <3>1. node[i-1] = s[i] /\ s[i] # NULL
      BY <1>1, <1>6, <1>7, <1>8, SMTT(30)
    <3>. QED
      BY <1>4, <1>8, <3>1, Zenon
  <2>. QED
    BY <2>1, <2>2, Zenon
<1>. QED
  BY <1>9, RangeIs, Zenon DEF IsList

-----------------------------------------------------------------------------
Links(C) == [Pids -> C \union {NULL}]

\* The head, the elements and the links of a list.
LEMMA ListFacts ==
  ASSUME NEW h, NEW lk \in Links(Pids), NEW s, IsList(h, lk, s)
  PROVE  /\ Range(s) \subseteq Pids
         /\ h \in Range(s) \union {NULL}
         /\ h = NULL <=> Range(s) = {}
         /\ \A m \in Range(s) : lk[m] \in (Range(s) \ {m}) \union {NULL}
<1>1. Len(s) \in Nat /\ NULL \notin Pids
  BY SeqFacts, PidFacts, Zenon DEF IsList
<1>2. /\ Range(s) \subseteq Pids
      /\ \A x : x \in Range(s) <=> \E i \in 1..Len(s) : s[i] = x
  BY RangeIs, Zenon DEF IsList
<1>3. h \in Range(s) \union {NULL} /\ (h = NULL <=> Range(s) = {})
  <2>1. CASE s = <<>>
    BY <1>2, <2>1 DEF IsList
  <2>2. CASE s # <<>>
    <3>1. 1 \in 1..Len(s)
      BY <1>1, <2>2, SeqEmpty DEF IsList
    <3>. QED
      BY <1>1, <1>2, <2>2, <3>1, Zenon DEF IsList
  <2>. QED
    BY <2>1, <2>2, Zenon
<1>4. ASSUME NEW m \in Range(s) PROVE lk[m] \in (Range(s) \ {m}) \union {NULL}
  <2>1. PICK i \in 1..Len(s) : s[i] = m
    BY <1>2, Zenon
  <2>2. CASE i = Len(s)
    BY <2>1, <2>2, Zenon DEF IsList
  <2>3. CASE i # Len(s)
    <3>1. i + 1 \in 1..Len(s) /\ lk[m] = s[i+1] /\ s[i+1] # m
      BY <1>1, <2>1, <2>3 DEF IsList, Distinct
    <3>. QED
      BY <1>2, <3>1, Zenon
  <2>. QED
    BY <2>2, <2>3, Zenon
<1>. QED
  BY <1>2, <1>3, <1>4, Zenon

\* A list does not change when the link of a task that is not on it does.
LEMMA OtherList ==
  ASSUME NEW h, NEW lk \in Links(Pids), NEW lk2, NEW s, IsList(h, lk, s),
         \A m \in Range(s) : lk2[m] = lk[m]
  PROVE  IsList(h, lk2, s)
<1>1. \A i \in 1..Len(s) : s[i] \in Range(s)
  BY RangeIs, Zenon DEF IsList
<1>. QED
  BY <1>1, Zenon DEF IsList

\* add_to_list appends.
LEMMA AddAppends ==
  ASSUME NEW l \in TaskListType, NEW lk \in Links(Pids), NEW s,
         IsList(l.head, lk, s), NEW t \in Pids, t \notin Range(s)
  PROVE  LET a == add_to_list(l, lk, t)
         IN /\ IsList(a.list.head, a.link, Append(s, t))
            /\ a.list = IF l.head = NULL THEN set_list(t) ELSE l
            /\ a.link \in Links(Pids)
            /\ \A m \in Pids \ {t} : a.link[m] \in {lk[m], t}
            /\ a.link[t] = NULL
            /\ \A m \in Pids \ ({t} \union Range(s)) : a.link[m] = lk[m]
<1>. DEFINE cleared == [lk EXCEPT ![t] = NULL]
            last == CHOOSE m \in Members(l.head, cleared) : cleared[m] = NULL
            a == add_to_list(l, lk, t)
            q == Append(s, t)
<1>1. Len(s) \in Nat /\ NULL \notin Pids
  BY SeqFacts, PidFacts, Zenon DEF IsList
<1>2. /\ Range(s) \subseteq Pids
      /\ \A x : x \in Range(s) <=> \E i \in 1..Len(s) : s[i] = x
  BY RangeIs, Zenon DEF IsList
<1>3. /\ q \in Seq(Pids) /\ Len(q) = Len(s) + 1 /\ Distinct(q)
      /\ \A i \in 1..Len(s) : q[i] = s[i]
      /\ q[Len(s) + 1] = t
  BY AppendElements DEF IsList
<1>4. cleared \in Links(Pids) /\ cleared[t] = NULL
      /\ \A m \in Pids \ {t} : cleared[m] = lk[m]
  BY Zenon DEF Links
<1>5. IsList(l.head, cleared, s)
  BY <1>2, <1>4, OtherList, ZenonT(30)
<1>6. Members(l.head, cleared) = Range(s)
  BY <1>4, <1>5, MembersOfList, Zenon DEF Links
<1>7. a = IF l.head = NULL
            THEN [list |-> set_list(t), link |-> cleared]
            ELSE [list |-> l, link |-> [cleared EXCEPT ![last] = t]]
  BY Zenon DEF add_to_list
<1>. HIDE DEF cleared, last, a, q
<1>8. CASE l.head = NULL
  <2>1. s = <<>> /\ Len(s) = 0
    BY <1>1, <1>8, SeqEmpty, SeqFacts, SMTT(30) DEF IsList
  <2>2. a.list = set_list(t) /\ a.link = cleared
    BY <1>7, <1>8, Zenon
  <2>3. IsList(t, cleared, q)
    <3>1. Len(q) = 1 /\ q[1] = t
      BY <1>3, <2>1
    <3>2. q # <<>>
      BY <1>3, <3>1, SeqEmpty, SMTT(30)
    <3>3. \A i \in 1..Len(q) : cleared[q[i]] = IF i = Len(q) THEN NULL ELSE q[i + 1]
      BY <1>4, <3>1, SMTT(30)
    <3>. QED
      BY <1>3, <3>1, <3>2, <3>3, Zenon DEF IsList
  <2>4. a.list.head = t
    BY <2>2, SMTT(30) DEF set_list
  <2>. QED
    BY <1>2, <1>4, <1>8, <2>1, <2>2, <2>3, <2>4, Zenon DEF a, q
<1>9. CASE l.head # NULL
  <2>1. s # <<>> /\ Len(s) \in 1..Len(s)
    BY <1>1, <1>9, SeqEmpty, SMTT(30) DEF IsList
  <2>2. last = s[Len(s)] /\ last \in Range(s)
    <3>1. \E m \in Range(s) : cleared[m] = NULL
      BY <1>2, <1>5, <2>1, Zenon DEF IsList
    <3>2. last \in Range(s) /\ cleared[last] = NULL
      BY <1>6, <3>1, Zenon DEF last
    <3>3. PICK i \in 1..Len(s) : s[i] = last
      BY <1>2, <3>2, Zenon
    <3>4. i = Len(s)
      <4>1. SUFFICES ASSUME i # Len(s) PROVE FALSE
        BY Zenon
      <4>2. i + 1 \in 1..Len(s) /\ cleared[last] = s[i+1] /\ s[i+1] \in Pids
        BY <1>1, <1>5, <3>3, <4>1, SMTT(30) DEF IsList
      <4>. QED
        BY <1>1, <3>2, <4>2, Zenon
    <3>. QED
      BY <3>2, <3>3, <3>4, Zenon
  <2>3. a.list = l /\ a.link = [cleared EXCEPT ![last] = t]
    BY <1>7, <1>9, Zenon
  <2>4. last # t /\ last \in Pids
    BY <1>2, <2>2, Zenon
  <2>5. /\ a.link[last] = t
        /\ \A m \in Pids \ {last} : a.link[m] = cleared[m]
        /\ a.link \in Links(Pids)
    BY <1>4, <2>3, <2>4, Zenon DEF Links
  <2>6. IsList(l.head, a.link, q)
    <3>1. l.head = q[1] /\ q # <<>>
      BY <1>1, <1>3, <2>1, SMTT(30) DEF IsList, q
    <3>2. ASSUME NEW i \in 1..Len(q)
          PROVE  a.link[q[i]] = IF i = Len(q) THEN NULL ELSE q[i + 1]
      <4>1. CASE i = Len(q)
        BY <1>3, <1>4, <2>4, <2>5, <4>1, Zenon
      <4>2. CASE i = Len(s)
        BY <1>1, <1>3, <2>1, <2>2, <2>5, <4>2, SMTT(30)
      <4>3. CASE i \in 1..(Len(s) - 1)
        <5>1. s[i] # last /\ s[i] \in Pids /\ i + 1 \in 1..Len(s)
          BY <1>1, <2>2, <4>3, <2>1, SMTT(30) DEF IsList, Distinct
        <5>2. a.link[s[i]] = s[i+1]
          BY <1>1, <1>5, <2>5, <4>3, <5>1, SMTT(30) DEF IsList
        <5>. QED
          BY <1>1, <1>3, <4>3, <5>1, <5>2, SMTT(30)
      <4>. QED
        BY <1>1, <1>3, <4>1, <4>2, <4>3, SMTT(30)
    <3>. QED
      BY <1>3, <3>1, <3>2, Zenon DEF IsList
  <2>. QED
    BY <1>4, <1>9, <2>2, <2>3, <2>4, <2>5, <2>6, Zenon DEF a, q
<1>. QED
  BY <1>8, <1>9, Zenon

\* remove_from_list takes a task out of the list it is on.
LEMMA RemoveRemoves ==
  ASSUME NEW l \in TaskListType, NEW lk \in Links(Pids), NEW s,
         IsList(l.head, lk, s), NEW t \in Range(s)
  PROVE  LET o == remove_from_list(l, lk, t)
         IN /\ \E q : IsList(o.list.head, o.link, q) /\ Range(q) = Range(s) \ {t}
            /\ o.list = IF l.head = t THEN set_list(lk[t]) ELSE l
            /\ o.link \in Links(Pids)
            /\ o.link[t] = lk[t]
            /\ \A m \in Range(s) : o.link[m] \in {lk[m], lk[t]}
            /\ \A m \in Pids \ Range(s) : o.link[m] = lk[m]
<1>. DEFINE on == Members(l.head, lk)
            prev == CHOOSE m \in on : lk[m] = t
            o == remove_from_list(l, lk, t)
<1>1. Len(s) \in Nat /\ NULL \notin Pids
  BY SeqFacts, PidFacts, Zenon DEF IsList
<1>2. /\ Range(s) \subseteq Pids
      /\ \A x : x \in Range(s) <=> \E i \in 1..Len(s) : s[i] = x
  BY RangeIs, Zenon DEF IsList
<1>3. PICK p \in 1..Len(s) : s[p] = t
  BY <1>2, Zenon
<1>. DEFINE q == [j \in 1..(Len(s) - 1) |-> IF j < p THEN s[j] ELSE s[j + 1]]
<1>4. /\ q \in Seq(Pids) /\ Len(q) = Len(s) - 1 /\ Distinct(q)
      /\ \A j \in 1..(Len(s) - 1) : q[j] = IF j < p THEN s[j] ELSE s[j+1]
      /\ Range(q) = Range(s) \ {t}
  <2>1. s \in Seq(Pids) /\ Distinct(s)
    BY Zenon DEF IsList
  <2>. QED
    BY <1>1, <1>3, <2>1, CutElements, SMTT(30)
<1>5. on = Range(s)
  BY MembersOfList, Zenon DEF Links
<1>6. o = IF l.head = t THEN [list |-> set_list(lk[t]), link |-> lk]
          ELSE [list |-> l, link |-> [lk EXCEPT ![prev] = lk[t]]]
  BY <1>5, Zenon DEF remove_from_list
<1>7. s # <<>> /\ l.head = s[1] /\ t \in Pids /\ 1 \in 1..Len(s)
  <2>1. Len(s) # 0 /\ 1 \in 1..Len(s)
    BY <1>1, <1>3
  <2>2. s # <<>>
    BY <2>1
  <2>. QED
    BY <1>2, <2>1, <2>2, Zenon DEF IsList
<1>8. q = <<>> <=> Len(s) = 1
  <2>1. Len(q) = 0 <=> q = <<>>
    BY <1>4, SeqEmpty, Zenon
  <2>. QED
    BY <1>1, <1>3, <1>4, <2>1, SMTT(30)
<1>. HIDE DEF on, prev, o, q
<1>9. CASE l.head = t
  <2>1. p = 1
    BY <1>1, <1>3, <1>7, <1>9, Zenon DEF IsList, Distinct
  <2>2. o.list = set_list(lk[t]) /\ o.link = lk /\ o.list.head = lk[t]
    BY <1>6, <1>9, Zenon DEF set_list
  <2>3. IsList(lk[t], lk, q)
    <3>1. lk[t] = IF q = <<>> THEN NULL ELSE q[1]
      BY <1>1, <1>3, <1>4, <1>8, <2>1, SMTT(30) DEF IsList
    <3>2. ASSUME NEW i \in 1..Len(q)
          PROVE  lk[q[i]] = IF i = Len(q) THEN NULL ELSE q[i + 1]
      <4>1. i + 1 \in 1..Len(s) /\ q[i] = s[i+1]
        BY <1>1, <1>4, <2>1, SMTT(30)
      <4>2. i # Len(q) => i + 1 \in 1..(Len(s) - 1) /\ q[i+1] = s[i+2]
        BY <1>1, <1>4, <2>1, SMTT(30)
      <4>. QED
        BY <1>1, <1>4, <4>1, <4>2, SMTT(30) DEF IsList
    <3>. QED
      BY <1>4, <3>1, <3>2, Zenon DEF IsList
  <2>. QED
    BY <1>4, <1>9, <2>2, <2>3, Zenon DEF o, Links
<1>10. CASE l.head # t
  <2>1. p # 1 /\ p - 1 \in 1..Len(s) /\ p \in 2..Len(s)
    BY <1>1, <1>3, <1>7, <1>10, SMTT(30)
  <2>2. prev = s[p-1] /\ prev \in Range(s) /\ prev # t
    <3>1. lk[s[p-1]] = t /\ s[p-1] \in Range(s)
      BY <1>1, <1>2, <1>3, <2>1, SMTT(30) DEF IsList
    <3>2. prev \in Range(s) /\ lk[prev] = t
      BY <1>5, <3>1, Zenon DEF prev
    <3>3. PICK i \in 1..Len(s) : s[i] = prev
      BY <1>2, <3>2, Zenon
    <3>4. i # Len(s) /\ i + 1 \in 1..Len(s) /\ s[i+1] = t
      BY <1>1, <1>7, <3>2, <3>3, SMTT(30) DEF IsList
    <3>5. i + 1 = p
      BY <1>3, <3>4, Zenon DEF IsList, Distinct
    <3>6. prev = s[p-1]
      BY <1>1, <3>3, <3>5
    <3>7. s[p-1] # s[p]
      BY <1>1, <2>1, <1>3 DEF IsList, Distinct
    <3>. QED
      BY <1>3, <3>2, <3>6, <3>7, Zenon
  <2>3. o.list = l /\ o.link = [lk EXCEPT ![prev] = lk[t]]
    BY <1>6, <1>10, Zenon
  <2>4. /\ o.link[prev] = lk[t]
        /\ \A m \in Pids \ {prev} : o.link[m] = lk[m]
        /\ o.link \in Links(Pids)
    BY <1>2, <1>7, <2>2, <2>3, SMTT(30) DEF Links
  <2>5. IsList(l.head, o.link, q)
    <3>1. l.head = q[1] /\ q # <<>>
      BY <1>1, <1>4, <1>7, <1>8, <2>1, SMTT(30)
    <3>2. ASSUME NEW i \in 1..Len(q)
          PROVE  o.link[q[i]] = IF i = Len(q) THEN NULL ELSE q[i + 1]
      <4>1. CASE i = p - 1
        <5>1. q[i] = prev /\ o.link[q[i]] = lk[t]
          BY <1>1, <1>4, <2>1, <2>2, <2>4, <4>1, SMTT(30)
        <5>2. lk[t] = IF p = Len(s) THEN NULL ELSE s[p + 1]
          BY <1>3, Zenon DEF IsList
        <5>3. p # Len(s) => p \in 1..(Len(s) - 1) /\ q[p] = s[p+1]
          <6>1. p # Len(s) => p \in 1..(Len(s) - 1)
            BY <1>1, SMTT(30)
          <6>. QED
            BY <1>1, <1>4, <6>1, SMTT(30)
        <5>. QED
          BY <1>1, <1>4, <4>1, <5>1, <5>2, <5>3, SMTT(30)
      <4>2. CASE i # p - 1
        <5>. DEFINE j == IF i < p THEN i ELSE i + 1
        <5>1. j \in 1..Len(s) /\ q[i] = s[j] /\ j # p - 1 /\ j # p
          BY <1>1, <1>4, <4>2, SMTT(30)
        <5>2. s[j] # prev /\ s[j] \in Pids
          BY <1>1, <1>2, <2>1, <2>2, <5>1, Zenon DEF IsList, Distinct
        <5>3. o.link[q[i]] = IF j = Len(s) THEN NULL ELSE s[j + 1]
          <6>. HIDE DEF j
          <6>1. o.link[s[j]] = lk[s[j]]
            BY <2>4, <5>2, Zenon
          <6>2. lk[s[j]] = IF j = Len(s) THEN NULL ELSE s[j + 1]
            BY <5>1, Zenon DEF IsList
          <6>. QED
            BY <5>1, <6>1, <6>2, Zenon
        <5>4. i # Len(q) => i + 1 \in 1..(Len(s) - 1) /\ q[i+1] = s[j+1]
          <6>1. i # Len(q) => i + 1 \in 1..(Len(s) - 1)
            BY <1>1, <1>4, SMTT(30)
          <6>2. i # Len(q) => q[i+1] = IF i + 1 < p THEN s[i+1] ELSE s[i+1+1]
            BY <1>4, <6>1, Zenon
          <6>3. (i + 1 < p => j + 1 = i + 1) /\ (~(i + 1 < p) => j + 1 = i + 1 + 1)
            BY <1>1, <4>2, <2>1, SMTT(30)
          <6>. QED
            BY <6>1, <6>2, <6>3, Zenon
        <5>5. i = Len(q) <=> j = Len(s)
          BY <1>1, <1>4, <4>2, <2>1, SMTT(30)
        <5>. QED
          BY <5>3, <5>4, <5>5, Zenon
      <4>. QED
        BY <4>1, <4>2, Zenon
    <3>. QED
      BY <1>4, <3>1, <3>2, Zenon DEF IsList
  <2>. QED
    BY <1>2, <1>4, <1>7, <1>10, <2>2, <2>3, <2>4, <2>5, Zenon DEF o
<1>. QED
  BY <1>9, <1>10, Zenon
-----------------------------------------------------------------------------
\* Two lists l and m of the tasks C that have been created have the elements R
\* and B, and none in common.
Lists(C, l, m, lk, R, B) ==
  /\ C \in SUBSET Pids /\ R \in SUBSET C /\ B \in SUBSET C
  /\ l \in TaskListType /\ m \in TaskListType /\ lk \in Links(C)
  /\ R \intersect B = {}
  /\ \E s : IsList(l.head, lk, s) /\ Range(s) = R
  /\ \E u : IsList(m.head, lk, u) /\ Range(u) = B

\* The walks along the two lists meet their elements.
LEMMA ListsElements ==
  ASSUME NEW C, NEW l, NEW m, NEW lk, NEW R, NEW B, Lists(C, l, m, lk, R, B)
  PROVE  Members(l.head, lk) = R /\ Members(m.head, lk) = B
<1>1. PICK s : IsList(l.head, lk, s) /\ Range(s) = R
  BY Zenon DEF Lists
<1>2. PICK u : IsList(m.head, lk, u) /\ Range(u) = B
  BY Zenon DEF Lists
<1>3. lk \in Links(Pids) /\ lk \in [Pids -> Pids \union {NULL}]
  BY Zenon DEF Lists, Links
<1>. QED
  BY <1>1, <1>2, <1>3, MembersOfList, Zenon

\* Which of them is named first does not matter.
LEMMA ListsSwap ==
  ASSUME NEW C, NEW l, NEW m, NEW lk, NEW R, NEW B, Lists(C, l, m, lk, R, B)
  PROVE  Lists(C, m, l, lk, B, R)
BY Zenon DEF Lists

\* What the walk along two disjoint lists meets, and how they are linked.
LEMMA ListsFacts ==
  ASSUME NEW C, NEW l, NEW m, NEW lk, NEW R, NEW B, Lists(C, l, m, lk, R, B)
  PROVE  /\ Members(l.head, lk) = R /\ Members(m.head, lk) = B
         /\ l.head \in R \union {NULL}
         /\ l.head = NULL <=> R = {}
         /\ \A x \in R : lk[x] \in (R \ {x}) \union {NULL}
         /\ Lists(C, m, l, lk, B, R)
         /\ lk \in [Pids -> Pids \union {NULL}] /\ R \subseteq Pids /\ B \subseteq Pids
         /\ R \intersect B = {}
<1>1. PICK s : IsList(l.head, lk, s) /\ Range(s) = R
  BY Zenon DEF Lists
<1>2. PICK u : IsList(m.head, lk, u) /\ Range(u) = B
  BY Zenon DEF Lists
<1>3. lk \in Links(Pids) /\ lk \in [Pids -> Pids \union {NULL}]
  BY Zenon DEF Lists, Links
<1>4. Members(l.head, lk) = R /\ Members(m.head, lk) = B
  BY ListsElements
<1>5. /\ R \subseteq Pids /\ l.head \in R \union {NULL}
      /\ l.head = NULL <=> R = {}
      /\ \A x \in R : lk[x] \in (R \ {x}) \union {NULL}
  BY <1>1, <1>3, ListFacts, Zenon
<1>6. Lists(C, m, l, lk, B, R)
  BY ListsSwap, Zenon
<1>. QED
  BY <1>3, <1>4, <1>5, <1>6, Zenon DEF Lists

Added(C, l, m, lk, R, B, t, a, S) ==
  /\ Lists(C, l, m, lk, R, B) /\ a = add_to_list(l, lk, t) /\ S = R \union {t}
  /\ t \in C /\ t \notin R \union B

\* add_to_list of a task that is on neither list.
LEMMA ListsAdd ==
  ASSUME NEW C, NEW l, NEW m, NEW lk, NEW R, NEW B, NEW t, NEW a, NEW S,
         Added(C, l, m, lk, R, B, t, a, S)
  PROVE  /\ Lists(C, a.list, m, a.link, S, B)
         /\ a.list = IF l.head = NULL THEN set_list(t) ELSE l
<1>. /\ Lists(C, l, m, lk, R, B) /\ a = add_to_list(l, lk, t) /\ S = R \union {t}
     /\ t \in C /\ t \notin R \union B
  BY Zenon DEF Added
<1>1. PICK s : IsList(l.head, lk, s) /\ Range(s) = R
  BY Zenon DEF Lists
<1>2. PICK u : IsList(m.head, lk, u) /\ Range(u) = B
  BY Zenon DEF Lists
<1>3. lk \in Links(Pids) /\ t \in Pids /\ l \in TaskListType /\ B \subseteq Pids
      /\ R \intersect B = {}
  BY Zenon DEF Links, Lists
<1>4. /\ IsList(a.list.head, a.link, Append(s, t))
      /\ a.list = IF l.head = NULL THEN set_list(t) ELSE l
      /\ a.link \in Links(Pids) /\ a.link[t] = NULL
      /\ \A x \in Pids \ {t} : a.link[x] \in {lk[x], t}
      /\ \A x \in Pids \ ({t} \union R) : a.link[x] = lk[x]
  BY <1>1, <1>3, AddAppends, SMTT(30)
<1>5. Range(Append(s, t)) = R \union {t}
  BY <1>1, <1>3, AppendElements, SMTT(30) DEF IsList
<1>6. \A x \in B : a.link[x] = lk[x]
  BY <1>3, <1>4, Zenon
<1>7. IsList(m.head, a.link, u)
  BY <1>2, <1>3, <1>6, OtherList, Zenon
<1>8. a.link \in Links(C) /\ a.list \in TaskListType
  BY <1>3, <1>4, SMTT(30) DEF Links, Lists, set_list, TaskListType
<1>9. R \union {t} \in SUBSET C /\ (R \union {t}) \intersect B = {}
  BY Zenon DEF Lists
<1>. QED
  BY <1>2, <1>4, <1>5, <1>7, <1>8, <1>9, Zenon DEF Lists

Removed(C, l, m, lk, R, B, t, o, S) ==
  Lists(C, l, m, lk, R, B) /\ o = remove_from_list(l, lk, t) /\ S = R \ {t}

\* remove_from_list; a task that is not on the list changes nothing.
LEMMA ListsRemove ==
  ASSUME NEW C, NEW l, NEW m, NEW lk, NEW R, NEW B, NEW t, NEW o, NEW S,
         Removed(C, l, m, lk, R, B, t, o, S)
  PROVE  /\ Lists(C, o.list, m, o.link, S, B)
         /\ t \in R /\ l.head = t => o.list = set_list(lk[t])
         /\ ~(t \in R /\ l.head = t) => o.list = l
<1>. Lists(C, l, m, lk, R, B) /\ o = remove_from_list(l, lk, t) /\ S = R \ {t}
  BY Zenon DEF Removed
<1>1. PICK s : IsList(l.head, lk, s) /\ Range(s) = R
  BY Zenon DEF Lists
<1>2. PICK u : IsList(m.head, lk, u) /\ Range(u) = B
  BY Zenon DEF Lists
<1>3. lk \in Links(Pids) /\ l \in TaskListType /\ R \subseteq Pids /\ B \subseteq Pids
      /\ R \intersect B = {}
  BY Zenon DEF Links, Lists
<1>4. CASE t \in R
  <2>1. /\ \E q : IsList(o.list.head, o.link, q) /\ Range(q) = R \ {t}
        /\ o.list = IF l.head = t THEN set_list(lk[t]) ELSE l
        /\ o.link \in Links(Pids)
        /\ \A x \in R : o.link[x] \in {lk[x], lk[t]}
        /\ \A x \in Pids \ R : o.link[x] = lk[x]
    BY <1>1, <1>3, <1>4, RemoveRemoves, SMTT(30)
  <2>2. \A x \in B : o.link[x] = lk[x]
    BY <1>3, <2>1, Zenon
  <2>3. IsList(m.head, o.link, u)
    BY <1>2, <1>3, <2>2, OtherList, Zenon
  <2>4. o.link \in Links(C) /\ o.list \in TaskListType
    BY <1>3, <1>4, <2>1 DEF Links, Lists, set_list, TaskListType
  <2>5. R \ {t} \in SUBSET C /\ (R \ {t}) \intersect B = {}
    BY Zenon DEF Lists
  <2>. QED
    BY <1>2, <1>4, <2>1, <2>3, <2>4, <2>5, Zenon DEF Lists
<1>5. CASE t \notin R
  <2>1. Members(l.head, lk) = R
    BY ListsFacts, Zenon
  <2>2. o = [list |-> l, link |-> lk]
    BY <1>5, <2>1, Zenon DEF remove_from_list
  <2>3. R \ {t} = R
    BY <1>5, Zenon
  <2>. QED
    BY <1>5, <2>2, <2>3, SMTT(30)
<1>. QED
  BY <1>4, <1>5, Zenon

Moved(C, l, m, lk, R, B, p, off, on, S, T) ==
  /\ Lists(C, l, m, lk, R, B) /\ p \in R /\ S = R \ {p} /\ T = B \union {p}
  /\ off = remove_from_list(l, lk, p) /\ on = add_to_list(m, off.link, p)

\* A task leaves one list and goes behind the last of the other.
LEMMA ListsMove ==
  ASSUME NEW C, NEW l, NEW m, NEW lk, NEW R, NEW B, NEW p, NEW off, NEW on, NEW S, NEW T,
         Moved(C, l, m, lk, R, B, p, off, on, S, T)
  PROVE  /\ Lists(C, off.list, on.list, on.link, S, T)
         /\ off.list = IF l.head = p THEN set_list(lk[p]) ELSE l
         /\ on.list = IF m.head = NULL THEN set_list(p) ELSE m
<1>. /\ Lists(C, l, m, lk, R, B) /\ p \in R /\ S = R \ {p} /\ T = B \union {p}
     /\ off = remove_from_list(l, lk, p) /\ on = add_to_list(m, off.link, p)
  BY Zenon DEF Moved
<1>1. p \in C /\ p \notin B \union S
  BY Zenon DEF Lists
<1>2. /\ Lists(C, off.list, m, off.link, S, B)
      /\ off.list = IF l.head = p THEN set_list(lk[p]) ELSE l
  <2>1. Removed(C, l, m, lk, R, B, p, off, S)
    BY Zenon DEF Removed
  <2>. QED
    BY <2>1, ListsRemove
<1>3. Lists(C, m, off.list, off.link, B, S)
  BY <1>2, ListsSwap, Zenon
<1>4. /\ Lists(C, on.list, off.list, on.link, T, S)
      /\ on.list = IF m.head = NULL THEN set_list(p) ELSE m
  <2>1. Added(C, m, off.list, off.link, B, S, p, on, T)
    BY <1>1, <1>3, Zenon DEF Added
  <2>. QED
    BY <2>1, ListsAdd
<1>5. Lists(C, off.list, on.list, on.link, S, T)
  BY <1>4, ListsSwap, Zenon
<1>. QED
  BY <1>2, <1>4, <1>5, Zenon

=============================================================================
