----------------------------- MODULE HeapProofs -----------------------------
(***************************************************************************)
(* Proofs about the kernel heap, for every header, page and heap size that *)
(* HeapAssumption allows and every sequence of requests.                   *)
(***************************************************************************)
EXTENDS Heap, SequenceTheorems, WellFoundedInduction, TLAPS

-----------------------------------------------------------------------------
(* Facts about the sequences that stand for the two lists: what appending, *)
(* inserting and removing do to their elements and to their being free of  *)
(* duplicates.                                                             *)

Distinct(s) == \A i, j \in 1..Len(s) : s[i] = s[j] => i = j

\* A non-empty set of natural numbers has a least element.
LEMMA LeastNatural ==
  ASSUME NEW T, T \subseteq Nat, T # {}
  PROVE  \E m \in T : \A k \in T : m <= k
<1>1. \E x \in T : \A y \in T : ~(<<y, x>> \in OpToRel(<, Nat))
  BY NatLessThanWellFounded, WFMin, Zenon
<1>2. \A x, y \in Nat : (<<y, x>> \in OpToRel(<, Nat)) <=> y < x
  BY Zenon DEF OpToRel
<1>3. PICK x \in T : \A y \in T : ~(<<y, x>> \in OpToRel(<, Nat))
  BY <1>1, Zenon
<1>4. \A y \in T : ~(y < x)
  BY <1>2, <1>3, Zenon
<1>5. \A y \in T : x <= y
  BY <1>4
<1>. QED
  BY <1>5, Zenon

\* The elements of a sequence are the values at its positions.
LEMMA ToSetRange ==
  ASSUME NEW S, NEW s \in Seq(S)
  PROVE  /\ ToSet(s) = {s[i] : i \in 1..Len(s)}
         /\ ToSet(s) \subseteq S
         /\ \A x : x \in ToSet(s) <=> \E i \in 1..Len(s) : s[i] = x
  BY LenProperties, ElementOfSeq DEF ToSet

\* Appending adds one element, at the end.
LEMMA AppendElements ==
  ASSUME NEW S, NEW s \in Seq(S), NEW e \in S
  PROVE  /\ Append(s, e) \in Seq(S)
         /\ Len(Append(s, e)) = Len(s) + 1
         /\ \A i \in 1..Len(s) : Append(s, e)[i] = s[i]
         /\ Append(s, e)[Len(s) + 1] = e
         /\ ToSet(Append(s, e)) = ToSet(s) \union {e}
         /\ Distinct(s) /\ e \notin ToSet(s) => Distinct(Append(s, e))
<1>1. /\ Append(s, e) \in Seq(S)
      /\ Len(Append(s, e)) = Len(s) + 1
      /\ \A i \in 1..Len(s) : Append(s, e)[i] = s[i]
      /\ Append(s, e)[Len(s) + 1] = e
  OBVIOUS
<1>2. ToSet(Append(s, e)) = ToSet(s) \union {e}
  <2>. DEFINE t == Append(s, e)
  <2>1. Len(s) \in Nat
    BY LenProperties, Zenon
  <2>2. \A x : x \in ToSet(t) <=> \E i \in 1..(Len(s) + 1) : t[i] = x
    <3>1. t \in Seq(S) /\ Len(t) = Len(s) + 1
      BY <1>1, Zenon
    <3>. HIDE DEF t
    <3>2. \A x : x \in ToSet(t) <=> \E i \in 1..Len(t) : t[i] = x
      BY <3>1, ToSetRange, Zenon
    <3>. QED
      BY <3>1, <3>2, Zenon
  <2>3. \A x : x \in ToSet(s) <=> \E i \in 1..Len(s) : s[i] = x
    BY ToSetRange, Zenon
  <2>4. \A i \in 1..(Len(s) + 1) : i \in 1..Len(s) \/ i = Len(s) + 1
    BY <2>1
  <2>5. 1..Len(s) \subseteq 1..(Len(s) + 1) /\ Len(s) + 1 \in 1..(Len(s) + 1)
    BY <2>1
  <2>6. (\A i \in 1..Len(s) : t[i] = s[i]) /\ t[Len(s) + 1] = e
    BY <1>1, Zenon
  <2>. HIDE DEF t
  <2>7. \A x : x \in ToSet(t) <=> x \in ToSet(s) \/ x = e
    BY <2>2, <2>3, <2>4, <2>5, <2>6
  <2>. QED
    BY <2>7, Zenon DEF t
<1>3. Distinct(s) /\ e \notin ToSet(s) => Distinct(Append(s, e))
  BY <1>1, ToSetRange, LenProperties DEF Distinct
<1>. QED
  BY <1>1, <1>2, <1>3, Zenon

\* Inserting at position p shifts what is behind it and adds one element.
LEMMA InsertAtElements ==
  ASSUME NEW S, NEW s \in Seq(S), NEW e \in S, NEW p \in 1..(Len(s) + 1)
  PROVE  /\ InsertAt(s, p, e) \in Seq(S)
         /\ Len(InsertAt(s, p, e)) = Len(s) + 1
         /\ \A j \in 1..(Len(s) + 1) :
               InsertAt(s, p, e)[j] = IF j < p THEN s[j]
                                      ELSE IF j = p THEN e ELSE s[j-1]
         /\ ToSet(InsertAt(s, p, e)) = ToSet(s) \union {e}
         /\ Distinct(s) /\ e \notin ToSet(s) => Distinct(InsertAt(s, p, e))
<1>. DEFINE pre  == SubSeq(s, 1, p - 1)
            post == SubSeq(s, p, Len(s))
            t    == InsertAt(s, p, e)
<1>1. /\ Len(s) \in Nat
      /\ \A i \in 1..Len(s) : s[i] \in S
  BY LenProperties, ElementOfSeq, Zenon
<1>2. /\ pre \in Seq(S)
      /\ Len(pre) = p - 1
      /\ \A i \in 1..(p - 1) : pre[i] = s[i]
  <2>1. \A i \in 1..(p - 1) : s[i] \in S
    BY <1>1
  <2>. QED
    BY <1>1, <2>1, SubSeqProperties
<1>3. /\ post \in Seq(S)
      /\ Len(post) = Len(s) - p + 1
      /\ \A i \in 1..(Len(s) - p + 1) : post[i] = s[p + i - 1]
  <2>1. \A i \in p..Len(s) : s[i] \in S
    BY <1>1
  <2>. QED
    BY <1>1, <2>1, SubSeqProperties
<1>4. /\ pre \o <<e>> \in Seq(S)
      /\ Len(pre \o <<e>>) = p
      /\ \A i \in 1..p : (pre \o <<e>>)[i] = IF i < p THEN s[i] ELSE e
  <2>1. /\ <<e>> \in Seq(S)
        /\ Len(<<e>>) = 1
        /\ <<e>>[1] = e
    OBVIOUS
  <2>2. /\ pre \o <<e>> \in Seq(S)
        /\ Len(pre \o <<e>>) = Len(pre) + Len(<<e>>)
        /\ \A i \in 1..(Len(pre) + Len(<<e>>)) : (pre \o <<e>>)[i] =
               IF i <= Len(pre) THEN pre[i] ELSE <<e>>[i - Len(pre)]
    BY <1>2, <2>1, ConcatProperties
  <2>. HIDE DEF pre
  <2>. QED
    BY <1>2, <2>1, <2>2
<1>5. t = (pre \o <<e>>) \o post
  BY Zenon DEF InsertAt
<1>6. /\ t \in Seq(S)
      /\ Len(t) = Len(pre \o <<e>>) + Len(post)
      /\ \A i \in 1..(Len(pre \o <<e>>) + Len(post)) : t[i] =
            IF i <= Len(pre \o <<e>>) THEN (pre \o <<e>>)[i]
                                      ELSE post[i - Len(pre \o <<e>>)]
  <2>. DEFINE q == pre \o <<e>>
  <2>1. q \in Seq(S) /\ post \in Seq(S) /\ t = q \o post
    BY <1>3, <1>4, <1>5, Zenon
  <2>. HIDE DEF q, post, t
  <2>2. /\ t \in Seq(S)
        /\ Len(t) = Len(q) + Len(post)
        /\ \A i \in 1..(Len(q) + Len(post)) :
              t[i] = IF i <= Len(q) THEN q[i] ELSE post[i - Len(q)]
    BY <2>1, ConcatProperties, Zenon
  <2>. QED
    BY <2>2, Zenon DEF q
<1>7. /\ Len(t) = Len(s) + 1
      /\ \A j \in 1..(Len(s) + 1) :
            t[j] = IF j < p THEN s[j] ELSE IF j = p THEN e ELSE s[j-1]
  <2>. DEFINE q == pre \o <<e>>
  <2>1. /\ Len(q) = p
        /\ \A i \in 1..p : q[i] = IF i < p THEN s[i] ELSE e
        /\ Len(t) = Len(q) + Len(post)
        /\ \A i \in 1..(Len(q) + Len(post)) :
              t[i] = IF i <= Len(q) THEN q[i] ELSE post[i - Len(q)]
    BY <1>4, <1>6, Zenon
  <2>2. /\ Len(post) = Len(s) - p + 1
        /\ \A i \in 1..(Len(s) - p + 1) : post[i] = s[p + i - 1]
    BY <1>3, Zenon
  <2>. HIDE DEF q, pre, post, t
  <2>3. Len(t) = Len(s) + 1
    BY <1>1, <2>1, <2>2
  <2>4. \A j \in 1..p : t[j] = IF j < p THEN s[j] ELSE e
    BY <1>1, <2>1, <2>2
  <2>5. ASSUME NEW j \in (p + 1)..(Len(s) + 1)
        PROVE  t[j] = s[j - 1]
    <3>1. t[j] = post[j - p]
      BY <1>1, <2>1, <2>2
    <3>2. post[j - p] = s[p + (j - p) - 1]
      BY <1>1, <2>2
    <3>3. p + (j - p) - 1 = j - 1
      BY <1>1
    <3>. QED
      BY <3>1, <3>2, <3>3, Zenon
  <2>. QED
    BY <1>1, <2>3, <2>4, <2>5
<1>8. ToSet(t) = ToSet(s) \union {e}
  <2>. HIDE DEF pre, post, t
  <2>1. \A i \in 1..Len(s) : \E j \in 1..Len(t) : t[j] = s[i]
    <3>. TAKE i \in 1..Len(s)
    <3>1. CASE i < p
      BY <1>1, <1>7, <3>1
    <3>2. CASE i >= p
      <4>1. i + 1 \in 1..Len(t) /\ t[i + 1] = s[i]
        BY <1>1, <1>7, <3>2
      <4>. QED
        BY <4>1, Zenon
    <3>. QED
      BY <1>1, <3>1, <3>2
  <2>2. \A j \in 1..Len(t) : t[j] = e \/ \E i \in 1..Len(s) : t[j] = s[i]
    <3>. TAKE j \in 1..Len(t)
    <3>1. CASE j < p
      BY <1>1, <1>7, <3>1
    <3>2. CASE j = p
      BY <1>1, <1>7, <3>2
    <3>3. CASE j > p
      <4>1. j - 1 \in 1..Len(s) /\ t[j] = s[j - 1]
        BY <1>1, <1>7, <3>3
      <4>. QED
        BY <4>1, Zenon
    <3>. QED
      BY <1>1, <1>7, <3>1, <3>2, <3>3
  <2>3. p \in 1..Len(t) /\ t[p] = e
    BY <1>1, <1>7
  <2>4. \A x : x \in ToSet(t) <=> \E j \in 1..Len(t) : t[j] = x
    BY <1>6, ToSetRange, Zenon
  <2>5. \A x : x \in ToSet(s) <=> \E i \in 1..Len(s) : s[i] = x
    BY ToSetRange
  <2>6. ASSUME NEW x, x \in ToSet(t)
        PROVE  x \in ToSet(s) \/ x = e
    <3>1. PICK j \in 1..Len(t) : t[j] = x
      BY <2>4, <2>6, Zenon
    <3>. QED
      BY <2>2, <2>5, <3>1, Zenon
  <2>7. ASSUME NEW x, x \in ToSet(s)
        PROVE  x \in ToSet(t)
    <3>1. PICK i \in 1..Len(s) : s[i] = x
      BY <2>5, <2>7, Zenon
    <3>. QED
      BY <2>1, <2>4, <3>1
  <2>8. e \in ToSet(t)
    BY <2>3, <2>4
  <2>. QED
    BY <2>6, <2>7, <2>8, Zenon
<1>9. Distinct(s) /\ e \notin ToSet(s) => Distinct(t)
  <2>. HIDE DEF pre, post, t
  <2>1. e \notin ToSet(s) => \A i \in 1..Len(s) : s[i] # e
    BY ToSetRange, Zenon
  <2>. QED
    BY <1>1, <1>7, <2>1 DEF Distinct
<1>. QED
  BY <1>6, <1>7, <1>8, <1>9, Zenon

\* Removing position p closes the gap and, in a list without duplicates,
\* takes away exactly one element.
LEMMA RemoveAtElements ==
  ASSUME NEW S, NEW s \in Seq(S), NEW p \in 1..Len(s)
  PROVE  /\ RemoveAt(s, p) \in Seq(S)
         /\ Len(RemoveAt(s, p)) = Len(s) - 1
         /\ \A j \in 1..(Len(s) - 1) :
               RemoveAt(s, p)[j] = IF j < p THEN s[j] ELSE s[j+1]
         /\ Distinct(s) => /\ ToSet(RemoveAt(s, p)) = ToSet(s) \ {s[p]}
                           /\ Distinct(RemoveAt(s, p))
<1>. DEFINE pre  == SubSeq(s, 1, p - 1)
            post == SubSeq(s, p + 1, Len(s))
            t    == RemoveAt(s, p)
<1>1. /\ Len(s) \in Nat
      /\ \A i \in 1..Len(s) : s[i] \in S
  BY LenProperties, ElementOfSeq, Zenon
<1>2. /\ pre \in Seq(S)
      /\ Len(pre) = p - 1
      /\ \A i \in 1..(p - 1) : pre[i] = s[i]
  <2>1. \A i \in 1..(p - 1) : s[i] \in S
    BY <1>1
  <2>. QED
    BY <1>1, <2>1, SubSeqProperties
<1>3. /\ post \in Seq(S)
      /\ Len(post) = Len(s) - p
      /\ \A i \in 1..(Len(s) - p) : post[i] = s[p + i]
  <2>1. \A i \in (p + 1)..Len(s) : s[i] \in S
    BY <1>1
  <2>2. /\ post \in Seq(S)
        /\ Len(post) = IF p + 1 <= Len(s) THEN Len(s) - (p + 1) + 1 ELSE 0
        /\ \A i \in 1..(Len(s) - (p + 1) + 1) : post[i] = s[p + 1 + i - 1]
    BY <1>1, <2>1, SubSeqProperties
  <2>. HIDE DEF post
  <2>3. \A i \in 1..(Len(s) - p) : p + 1 + i - 1 = p + i
    BY <1>1
  <2>. QED
    BY <1>1, <2>2, <2>3
<1>4. /\ t \in Seq(S)
      /\ Len(t) = Len(pre) + Len(post)
      /\ \A i \in 1..(Len(pre) + Len(post)) :
            t[i] = IF i <= Len(pre) THEN pre[i] ELSE post[i - Len(pre)]
  BY <1>2, <1>3, ConcatProperties DEF RemoveAt
<1>5. /\ Len(t) = Len(s) - 1
      /\ \A j \in 1..(Len(s) - 1) : t[j] = IF j < p THEN s[j] ELSE s[j+1]
  <2>. HIDE DEF pre, post, t
  <2>1. Len(t) = Len(s) - 1
    BY <1>1, <1>2, <1>3, <1>4
  <2>2. ASSUME NEW j \in 1..(p - 1)
        PROVE  t[j] = s[j]
    <3>1. j \in 1..(Len(pre) + Len(post)) /\ j <= Len(pre)
      BY <1>1, <1>2, <1>3
    <3>2. t[j] = pre[j]
      BY <1>4, <3>1, Zenon
    <3>. QED
      BY <1>2, <3>2, Zenon
  <2>3. ASSUME NEW j \in p..(Len(s) - 1)
        PROVE  t[j] = s[j + 1]
    <3>1. t[j] = post[j - (p - 1)]
      BY SMTT(30), <1>1, <1>2, <1>3, <1>4
    <3>2. post[j - (p - 1)] = s[p + (j - (p - 1))]
      BY <1>1, <1>3
    <3>3. p + (j - (p - 1)) = j + 1
      BY <1>1
    <3>. QED
      BY <3>1, <3>2, <3>3
  <2>. QED
    BY <1>1, <2>1, <2>2, <2>3
<1>6. ASSUME Distinct(s)
      PROVE  ToSet(t) = ToSet(s) \ {s[p]} /\ Distinct(t)
  <2>. HIDE DEF pre, post, t
  <2>1. \A i \in 1..Len(s) : i # p => \E j \in 1..Len(t) : t[j] = s[i]
    <3>. TAKE i \in 1..Len(s)
    <3>1. CASE i < p
      BY <1>1, <1>5, <3>1
    <3>2. CASE i > p
      <4>1. i - 1 \in 1..Len(t) /\ t[i - 1] = s[i]
        BY <1>1, <1>5, <3>2
      <4>. QED
        BY <4>1, Zenon
    <3>. QED
      BY <1>1, <3>1, <3>2
  <2>2. \A j \in 1..Len(t) : \E i \in 1..Len(s) : i # p /\ t[j] = s[i]
    <3>. TAKE j \in 1..Len(t)
    <3>1. CASE j < p
      BY <1>1, <1>5, <3>1
    <3>2. CASE j >= p
      <4>1. j + 1 \in 1..Len(s) /\ j + 1 # p /\ t[j] = s[j + 1]
        BY <1>1, <1>5, <3>2
      <4>. QED
        BY <4>1, Zenon
    <3>. QED
      BY <1>1, <1>5, <3>1, <3>2
  <2>3. \A i \in 1..Len(s) : i # p => s[i] # s[p]
    BY <1>6, Zenon DEF Distinct
  <2>4. ToSet(t) = ToSet(s) \ {s[p]}
    <3>1. \A x : x \in ToSet(t) <=> \E j \in 1..Len(t) : t[j] = x
      BY <1>4, ToSetRange
    <3>2. \A x : x \in ToSet(s) <=> \E i \in 1..Len(s) : s[i] = x
      BY ToSetRange, Zenon
    <3>3. \A x : x \in ToSet(t) <=> x \in ToSet(s) /\ x # s[p]
      <4>1. ASSUME NEW x, x \in ToSet(t)
            PROVE  x \in ToSet(s) /\ x # s[p]
        <5>1. PICK j \in 1..Len(t) : t[j] = x
          BY <3>1, <4>1
        <5>2. PICK i \in 1..Len(s) : i # p /\ t[j] = s[i]
          BY <2>2, Zenon
        <5>. QED
          BY <2>3, <3>2, <5>1, <5>2
      <4>2. ASSUME NEW x, x \in ToSet(s), x # s[p]
            PROVE  x \in ToSet(t)
        <5>1. PICK i \in 1..Len(s) : s[i] = x
          BY <3>2, <4>2, Zenon
        <5>2. PICK j \in 1..Len(t) : t[j] = s[i]
          BY <2>1, <4>2, <5>1
        <5>. QED
          BY <3>1, <5>1, <5>2, Zenon
      <4>. QED
        BY <4>1, <4>2
    <3>. QED
      BY <3>3, Zenon
  <2>5. Distinct(t)
    BY <1>1, <1>5, <1>6 DEF Distinct
  <2>. QED
    BY <2>4, <2>5, Zenon
<1>. QED
  BY <1>4, <1>5, <1>6, Zenon

-----------------------------------------------------------------------------

\* Tiling, for any set of blocks B below the address h.
Tile(B, h) ==
  /\ \A b, c \in B : b # c => End(b) <= c.addr \/ End(c) <= b.addr
  /\ h = MEMSTART \/ \E c \in B : End(c) = h
  /\ \A b \in B :
       /\ b.addr = MEMSTART \/ \E c \in B : End(c) = b.addr
       /\ End(b) = h \/ \E c \in B : End(b) = c.addr
  /\ \A b \in B : b.addr >= MEMSTART /\ End(b) <= h /\ b.size >= NODESIZE_MAX

\* Tiling is Tile of the heap's own blocks.
LEMMA TilingIsTile == Tiling <=> Tile(Blocks, HeapEnd)
  BY Zenon DEF Tiling, NoOverlap, NoGap, InBounds, Tile

-----------------------------------------------------------------------------
(* The position add_to_free inserts at.                                    *)

\* Everything before the position is no larger than b, what is there is larger.
LEMMA InsertPosition ==
  ASSUME NEW s \in Seq(BlockType), NEW b \in BlockType
  PROVE  /\ InsertPos(s, b) \in 1..(Len(s) + 1)
         /\ \A j \in 1..(InsertPos(s, b) - 1) : s[j].size <= b.size
         /\ InsertPos(s, b) <= Len(s) => s[InsertPos(s, b)].size > b.size
<1>. DEFINE T == {i \in 1..Len(s) : s[i].size > b.size}
            First(i) == /\ s[i].size > b.size
                        /\ \A j \in 1..(i-1) : s[j].size <= b.size
<1>1. /\ Len(s) \in Nat
      /\ \A i \in 1..Len(s) : s[i] \in BlockType
  BY LenProperties, ElementOfSeq, Zenon
<1>2. /\ b.size \in Nat
      /\ \A i \in 1..Len(s) : s[i].size \in Nat
  BY <1>1, Zenon DEF BlockType
<1>3. CASE T = {}
  <2>1. \A i \in 1..Len(s) : ~(s[i].size > b.size)
    BY <1>3, Zenon
  <2>2. InsertPos(s, b) = Len(s) + 1
    BY <2>1, Zenon DEF InsertPos
  <2>3. \A i \in 1..Len(s) : s[i].size <= b.size
    BY <1>2, <2>1
  <2>. QED
    BY <1>1, <2>2, <2>3
<1>4. CASE T # {}
  <2>1. T \subseteq Nat
    BY <1>1
  <2>2. PICK m \in T : \A k \in T : m <= k
    BY <1>4, <2>1, LeastNatural, Zenon
  <2>3. m \in 1..Len(s) /\ First(m)
    <3>1. m \in 1..Len(s) /\ s[m].size > b.size
      BY <2>2, Zenon
    <3>2. ASSUME NEW j \in 1..(m - 1)
          PROVE  s[j].size <= b.size
      <4>1. j \in 1..Len(s) /\ ~(m <= j)
        BY <1>1, <3>1
      <4>2. j \notin T
        BY <2>2, <4>1, Zenon
      <4>. QED
        BY <1>2, <4>1, <4>2
    <3>. QED
      BY <3>1, <3>2, Zenon
  <2>4. \E i \in 1..Len(s) : s[i].size > b.size
    BY <1>4, Zenon
  <2>5. InsertPos(s, b) = CHOOSE i \in 1..Len(s) : First(i)
    BY <2>4, Zenon DEF InsertPos
  <2>. HIDE DEF First
  <2>6. InsertPos(s, b) \in 1..Len(s) /\ First(InsertPos(s, b))
    BY <2>3, <2>5, Zenon
  <2>. QED
    BY <1>1, <2>6 DEF First
<1>. QED
  BY <1>3, <1>4, Zenon

\* add_to_free adds one block and keeps the list duplicate-free and sorted.
LEMMA AddToFree ==
  ASSUME NEW s \in Seq(BlockType), NEW b \in BlockType
  PROVE  /\ add_to_free(s, b) \in Seq(BlockType)
         /\ ToSet(add_to_free(s, b)) = ToSet(s) \union {b}
         /\ Distinct(s) /\ b \notin ToSet(s) => Distinct(add_to_free(s, b))
         /\ SortedBySize(s) => SortedBySize(add_to_free(s, b))
<1>. DEFINE p == InsertPos(s, b)
            t == add_to_free(s, b)
<1>1. /\ p \in 1..(Len(s) + 1)
      /\ \A j \in 1..(p - 1) : s[j].size <= b.size
      /\ p <= Len(s) => s[p].size > b.size
  BY InsertPosition, Zenon
<1>2. t = InsertAt(s, p, b)
  BY Zenon DEF add_to_free
<1>. HIDE DEF p, t
<1>3. /\ t \in Seq(BlockType)
      /\ Len(t) = Len(s) + 1
      /\ \A j \in 1..(Len(s) + 1) :
            t[j] = IF j < p THEN s[j] ELSE IF j = p THEN b ELSE s[j-1]
      /\ ToSet(t) = ToSet(s) \union {b}
      /\ Distinct(s) /\ b \notin ToSet(s) => Distinct(t)
  <2>1. /\ InsertAt(s, p, b) \in Seq(BlockType)
        /\ Len(InsertAt(s, p, b)) = Len(s) + 1
        /\ \A j \in 1..(Len(s) + 1) :
              InsertAt(s, p, b)[j] = IF j < p THEN s[j]
                                     ELSE IF j = p THEN b ELSE s[j-1]
        /\ ToSet(InsertAt(s, p, b)) = ToSet(s) \union {b}
        /\ Distinct(s) /\ b \notin ToSet(s) => Distinct(InsertAt(s, p, b))
    BY <1>1, InsertAtElements, Zenon
  <2>. QED
    BY <1>2, <2>1, Zenon
<1>4. ASSUME SortedBySize(s)
      PROVE  SortedBySize(t)
  <2>1. /\ Len(s) \in Nat
        /\ b.size \in Nat
        /\ \A i \in 1..Len(s) : s[i].size \in Nat
    <3>1. Len(s) \in Nat /\ \A i \in 1..Len(s) : s[i] \in BlockType
      BY LenProperties, ElementOfSeq, Zenon
    <3>. QED
      BY <3>1, Zenon DEF BlockType
  <2>2. \A i, j \in 1..Len(s) : i < j => s[i].size <= s[j].size
    BY <1>4, Zenon DEF SortedBySize
  <2>3. \A j \in p..Len(s) : b.size <= s[j].size
    <3>. TAKE j \in p..Len(s)
    <3>1. p \in 1..Len(s) /\ j \in 1..Len(s) /\ b.size <= s[p].size
      BY <1>1, <2>1
    <3>2. p < j => s[p].size <= s[j].size
      BY <2>2, <3>1, Zenon
    <3>. QED
      BY <1>1, <2>1, <3>1, <3>2
  <2>4. SUFFICES ASSUME NEW i \in 1..(Len(s) + 1), NEW j \in 1..(Len(s) + 1),
                        i < j
                 PROVE  t[i].size <= t[j].size
    BY <1>3, Zenon DEF SortedBySize
  <2>5. CASE j < p
    <3>1. t[i] = s[i] /\ t[j] = s[j] /\ i \in 1..Len(s) /\ j \in 1..Len(s)
      BY <1>1, <1>3, <2>1, <2>4, <2>5
    <3>. QED
      BY <2>2, <2>4, <3>1
  <2>6. CASE j = p
    <3>1. t[i] = s[i] /\ t[j] = b /\ i \in 1..(p - 1)
      BY SMTT(30), <1>1, <1>3, <2>1, <2>4, <2>6
    <3>. QED
      BY <1>1, <3>1, Zenon
  <2>7. CASE j > p
    <3>1. t[j] = s[j - 1] /\ j - 1 \in p..Len(s) /\ j - 1 \in 1..Len(s)
      BY <1>1, <1>3, <2>1, <2>7
    <3>2. CASE i < p
      <4>1. t[i] = s[i] /\ i \in 1..Len(s) /\ i < j - 1
        BY <1>1, <1>3, <2>1, <2>7, <3>2
      <4>. QED
        BY <2>2, <3>1, <4>1
    <3>3. CASE i = p
      <4>1. t[i] = b
        BY <1>3, <3>3
      <4>. QED
        BY <2>3, <3>1, <4>1
    <3>4. CASE i > p
      <4>1. t[i] = s[i - 1] /\ i - 1 \in 1..Len(s) /\ i - 1 < j - 1
        BY SMTT(30), <1>1, <1>3, <2>1, <2>4, <3>4
      <4>. QED
        BY <2>2, <3>1, <4>1
    <3>. QED
      BY SMTT(30), <1>1, <2>1, <3>2, <3>3, <3>4
  <2>. QED
    BY <1>1, <2>1, <2>5, <2>6, <2>7
<1>. QED
  BY <1>3, <1>4, Zenon DEF t

\* Taking a block out of a sorted list leaves it sorted.
LEMMA RemoveSorted ==
  ASSUME NEW s \in Seq(BlockType), NEW p \in 1..Len(s), SortedBySize(s)
  PROVE  SortedBySize(RemoveAt(s, p))
<1>. DEFINE t == RemoveAt(s, p)
<1>1. Len(s) \in Nat
  BY LenProperties, Zenon
<1>2. /\ Len(t) = Len(s) - 1
      /\ \A j \in 1..(Len(s) - 1) : t[j] = IF j < p THEN s[j] ELSE s[j+1]
  BY RemoveAtElements
<1>. HIDE DEF t
<1>3. SUFFICES ASSUME NEW i \in 1..(Len(s) - 1), NEW j \in 1..(Len(s) - 1),
                      i < j
               PROVE  t[i].size <= t[j].size
  BY <1>2, Zenon DEF SortedBySize, t
<1>4. PICK k \in 1..Len(s) : t[i] = s[k] /\ k = IF i < p THEN i ELSE i + 1
  BY <1>1, <1>2
<1>5. PICK l \in 1..Len(s) : t[j] = s[l] /\ l = IF j < p THEN j ELSE j + 1
  BY <1>1, <1>2
<1>6. k < l
  BY <1>1, <1>3, <1>4, <1>5
<1>. QED
  BY <1>4, <1>5, <1>6, Zenon DEF SortedBySize

-----------------------------------------------------------------------------
(* What growing the heap and splitting a block do to the tiling.           *)

\* A block that starts where the heap ended is a new last tile.
LEMMA GrowTile ==
  ASSUME NEW B, B \subseteq BlockType, NEW h \in Nat, h >= MEMSTART,
         Tile(B, h),
         NEW c \in BlockType, c.addr = h, c.size >= NODESIZE_MAX
  PROVE  /\ Tile(B \union {c}, End(c))
         /\ c \notin B
         /\ End(c) \in Nat /\ End(c) >= MEMSTART
<1>. USE HeapAssumption
<1>1. /\ c.addr \in Nat /\ c.size \in Nat
      /\ \A b \in B : b.addr \in Nat /\ b.size \in Nat
  BY Zenon DEF BlockType
<1>2. /\ \A b \in B : End(b) \in Nat /\ End(b) > b.addr
      /\ End(c) \in Nat /\ End(c) > h
  BY <1>1 DEF End
<1>3. /\ \A b, d \in B : b # d => End(b) <= d.addr \/ End(d) <= b.addr
      /\ h = MEMSTART \/ \E d \in B : End(d) = h
      /\ \A b \in B : b.addr = MEMSTART \/ \E d \in B : End(d) = b.addr
      /\ \A b \in B : End(b) = h \/ \E d \in B : End(b) = d.addr
      /\ \A b \in B : b.addr >= MEMSTART /\ End(b) <= h
                                         /\ b.size >= NODESIZE_MAX
  BY Zenon DEF Tile
<1>. HIDE DEF End
<1>4. c \notin B
  BY <1>1, <1>2, <1>3
<1>5. \A b, d \in B \union {c} : b # d => End(b) <= d.addr \/ End(d) <= b.addr
  BY <1>1, <1>2, <1>3, Zenon
<1>6. \A b \in B \union {c} :
        b.addr = MEMSTART \/ \E d \in B \union {c} : End(d) = b.addr
  BY <1>3, Zenon
<1>7. \A b \in B \union {c} :
        End(b) = End(c) \/ \E d \in B \union {c} : End(b) = d.addr
  BY <1>3, Zenon
<1>8. \A b \in B \union {c} : b.addr >= MEMSTART /\ End(b) <= End(c)
                                                 /\ b.size >= NODESIZE_MAX
  BY <1>1, <1>2, <1>3
<1>9. \E d \in B \union {c} : End(d) = End(c)
  BY Zenon
<1>10. Tile(B \union {c}, End(c))
  BY Zenon, <1>5, <1>6, <1>7, <1>8, <1>9 DEF Tile
<1>. QED
  BY <1>2, <1>4, <1>10

\* Two blocks that cover the tile b and nothing else can take its place.
LEMMA SplitTile ==
  ASSUME NEW B, B \subseteq BlockType, NEW h \in Nat, Tile(B, h),
         NEW b \in B, NEW l \in BlockType, NEW r \in BlockType,
         l.addr = b.addr, End(l) = r.addr, End(r) = End(b),
         l.size >= NODESIZE_MAX, r.size >= NODESIZE_MAX
  PROVE  /\ Tile((B \ {b}) \union {l, r}, h)
         /\ l \notin B /\ r \notin B /\ l # r
<1>. USE HeapAssumption
<1>. DEFINE C == (B \ {b}) \union {l, r}
<1>1. /\ l.addr \in Nat /\ r.addr \in Nat
      /\ \A d \in B : d.addr \in Nat
  BY Zenon DEF BlockType
<1>2. /\ \A d \in B : End(d) \in Nat /\ End(d) > d.addr
      /\ End(l) \in Nat /\ End(l) > l.addr
      /\ End(r) \in Nat /\ End(r) > r.addr
  BY DEF End, BlockType
<1>3. /\ \A c, d \in B : c # d => End(c) <= d.addr \/ End(d) <= c.addr
      /\ h = MEMSTART \/ \E d \in B : End(d) = h
      /\ \A c \in B : c.addr = MEMSTART \/ \E d \in B : End(d) = c.addr
      /\ \A c \in B : End(c) = h \/ \E d \in B : End(c) = d.addr
      /\ \A c \in B : c.addr >= MEMSTART /\ End(c) <= h
                                         /\ c.size >= NODESIZE_MAX
  BY Zenon DEF Tile
<1>. HIDE DEF End
<1>4. \A d \in B \ {b} : End(d) <= l.addr \/ End(r) <= d.addr
  BY <1>3, Zenon
<1>5. l \notin B /\ r \notin B /\ l # r
  <2>1. l # b
    BY <1>1, <1>2
  <2>2. r # b
    BY <1>1, <1>2
  <2>3. \A d \in B \ {b} : d # l /\ d # r
    BY SMTT(30), <1>1, <1>2, <1>4
  <2>. QED
    BY SMTT(30), <1>1, <1>2, <2>1, <2>2, <2>3
<1>6. \A c, d \in C : c # d => End(c) <= d.addr \/ End(d) <= c.addr
  <2>1. \A d \in B \ {b} : End(d) <= l.addr \/ End(l) <= d.addr
    BY <1>1, <1>2, <1>4
  <2>2. \A d \in B \ {b} : End(d) <= r.addr \/ End(r) <= d.addr
    BY <1>1, <1>2, <1>4
  <2>3. End(l) <= r.addr
    BY <1>1, <1>2
  <2>. QED
    BY Zenon, <1>3, <2>1, <2>2, <2>3
<1>7. h = MEMSTART \/ \E d \in C : End(d) = h
  BY <1>3, Zenon
<1>8. \A c \in C : c.addr = MEMSTART \/ \E d \in C : End(d) = c.addr
  <2>1. \A d \in B : \E e \in C : End(e) = End(d)
    BY Zenon
  <2>2. \A c \in B : c.addr = MEMSTART \/ \E d \in C : End(d) = c.addr
    BY <1>3, <2>1, Zenon
  <2>3. l.addr = MEMSTART \/ \E d \in C : End(d) = l.addr
    BY <2>2, Zenon
  <2>4. \E d \in C : End(d) = r.addr
    BY Zenon
  <2>. QED
    BY <2>2, <2>3, <2>4
<1>9. \A c \in C : End(c) = h \/ \E d \in C : End(c) = d.addr
  <2>1. \A d \in B : \E e \in C : e.addr = d.addr
    BY Zenon
  <2>2. \A c \in B : End(c) = h \/ \E d \in C : End(c) = d.addr
    BY <1>3, <2>1
  <2>3. End(r) = h \/ \E d \in C : End(r) = d.addr
    BY <2>2, Zenon
  <2>4. \E d \in C : End(l) = d.addr
    BY Zenon
  <2>. QED
    BY <2>2, <2>3, <2>4
<1>10. \A c \in C : c.addr >= MEMSTART /\ End(c) <= h /\ c.size >= NODESIZE_MAX
  BY <1>1, <1>2, <1>3
<1>11. Tile(C, h)
  BY <1>6, <1>7, <1>8, <1>9, <1>10, Zenon DEF Tile
<1>. QED
  BY <1>5, <1>11

-----------------------------------------------------------------------------
(* The inductive invariant.  Tiling needs ListsApart, so that taking a     *)
(* block off one list and putting it on the other loses none; FreeSorted   *)
(* stands beside them.                                                     *)

IInv == TypeOK /\ ListsApart /\ Tiling /\ FreeSorted

\* ListsApart, in terms of Distinct.
LEMMA ListsApartDistinct ==
  ListsApart <=> /\ Distinct(used) /\ Distinct(free)
                 /\ ToSet(used) \intersect ToSet(free) = {}
  BY Zenon DEF ListsApart, Distinct

\* The blocks on the lists are blocks, and the end of the heap is a number.
LEMMA BlocksTyped ==
  ASSUME TypeOK
  PROVE  /\ ToSet(used) \subseteq BlockType
         /\ ToSet(free) \subseteq BlockType
         /\ Blocks \subseteq BlockType
         /\ HeapEnd \in Nat /\ HeapEnd >= MEMSTART
<1>1. ToSet(used) \subseteq BlockType /\ ToSet(free) \subseteq BlockType
  BY ToSetRange, Zenon DEF TypeOK
<1>2. HeapEnd \in Nat /\ HeapEnd >= MEMSTART
  BY HeapAssumption DEF TypeOK, HeapEnd
<1>. QED
  BY <1>1, <1>2, Zenon DEF Blocks

\* The initial heap is empty.
LEMMA InitIInv == Init => IInv
<1>. SUFFICES ASSUME Init PROVE IInv
  BY Zenon
<1>. USE HeapAssumption
<1>1. used = << >> /\ free = << >> /\ cursize = 0 /\ errno = "none"
  BY Zenon DEF Init
<1>2. TypeOK
  BY <1>1 DEF TypeOK
<1>3. ToSet(used) = {} /\ ToSet(free) = {} /\ Blocks = {}
  BY <1>1 DEF ToSet, Blocks
<1>4. ListsApart
  BY <1>1, <1>3 DEF ListsApart
<1>5. FreeSorted
  BY <1>1 DEF FreeSorted, SortedBySize
<1>6. HeapEnd = MEMSTART
  BY <1>1 DEF HeapEnd
<1>7. Tile(Blocks, HeapEnd)
  BY <1>3, <1>6, Zenon DEF Tile
<1>. QED
  BY <1>2, <1>4, <1>5, <1>7, TilingIsTile DEF IInv

\* A step that leaves the lists alone keeps the invariant.
LEMMA SameLists ==
  ASSUME IInv, UNCHANGED lists, errno' \in {"none", "ENOMEM", "EFAULT"}
  PROVE  IInv'
<1>1. used' = used /\ free' = free /\ cursize' = cursize
  BY Zenon DEF lists
<1>2. TypeOK'
  BY <1>1, Zenon DEF IInv, TypeOK
<1>3. ListsApart'
  BY <1>1 DEF IInv, ListsApart
<1>4. Blocks' = Blocks /\ HeapEnd' = HeapEnd
  BY <1>1, Zenon DEF Blocks, HeapEnd
<1>5. Tiling'
  BY <1>4, Zenon DEF IInv, Tiling, NoOverlap, NoGap, InBounds, End
<1>6. FreeSorted'
  BY <1>1, Zenon DEF IInv, FreeSorted
<1>. QED
  BY <1>2, <1>3, <1>5, <1>6 DEF IInv

\* Taking a free block as it is moves it to the used list.
LEMMA TakeWholeEffect ==
  ASSUME IInv, NEW n, NEW i \in 1..Len(free), TakeWhole(i, n)
  PROVE  /\ IInv'
         /\ free[i] \in BlockType /\ free[i] \in ToSet(free)
         /\ ToSet(used') = ToSet(used) \union {free[i]}
         /\ ToSet(free') = ToSet(free) \ {free[i]}
<1>1. /\ used \in Seq(BlockType) /\ free \in Seq(BlockType)
      /\ cursize \in Nat /\ errno \in {"none", "ENOMEM", "EFAULT"}
      /\ Distinct(used) /\ Distinct(free) /\ SortedBySize(free)
      /\ ToSet(used) \intersect ToSet(free) = {}
      /\ Tile(Blocks, HeapEnd)
  BY ListsApartDistinct, TilingIsTile, Zenon DEF IInv, TypeOK, FreeSorted
<1>2. /\ used' = Append(used, free[i])
      /\ free' = RemoveAt(free, i)
      /\ cursize' = cursize /\ errno' = errno
  BY Zenon DEF TakeWhole
<1>3. free[i] \in BlockType /\ free[i] \in ToSet(free)
  BY Zenon, <1>1, ElementOfSeq, ToSetRange
<1>4. /\ used' \in Seq(BlockType)
      /\ ToSet(used') = ToSet(used) \union {free[i]}
      /\ Distinct(used')
  <2>1. free[i] \notin ToSet(used)
    BY <1>1, <1>3
  <2>. QED
    BY SMTT(30), <1>1, <1>2, <1>3, <2>1, AppendElements
<1>5. /\ free' \in Seq(BlockType)
      /\ ToSet(free') = ToSet(free) \ {free[i]}
      /\ Distinct(free')
      /\ SortedBySize(free')
  BY SMTT(30), <1>1, <1>2, RemoveAtElements, RemoveSorted
<1>6. Blocks' = Blocks /\ HeapEnd' = HeapEnd
  BY <1>2, <1>3, <1>4, <1>5, Zenon DEF Blocks, HeapEnd
<1>7. TypeOK'
  BY <1>1, <1>2, <1>4, <1>5 DEF TypeOK
<1>8. ListsApart'
  BY <1>1, <1>4, <1>5 DEF ListsApart, Distinct
<1>9. Tiling'
  BY <1>1, <1>6, Zenon DEF Tile, Tiling, NoOverlap, NoGap, InBounds, End
<1>10. FreeSorted'
  BY <1>5, Zenon DEF FreeSorted
<1>. QED
  BY SMTT(30), <1>3, <1>4, <1>5, <1>7, <1>8, <1>9, <1>10 DEF IInv

\* Freeing a used block moves it to the free list.
LEMMA FreeEffect ==
  ASSUME IInv, NEW i \in 1..Len(used),
         used' = RemoveAt(used, i),
         free' = add_to_free(free, used[i]),
         UNCHANGED <<cursize, errno>>
  PROVE  /\ IInv'
         /\ used[i] \in BlockType /\ used[i] \in ToSet(used)
         /\ ToSet(used') = ToSet(used) \ {used[i]}
         /\ ToSet(free') = ToSet(free) \union {used[i]}
<1>1. /\ used \in Seq(BlockType) /\ free \in Seq(BlockType)
      /\ cursize \in Nat /\ errno \in {"none", "ENOMEM", "EFAULT"}
      /\ Distinct(used) /\ Distinct(free) /\ SortedBySize(free)
      /\ ToSet(used) \intersect ToSet(free) = {}
      /\ Tile(Blocks, HeapEnd)
  BY ListsApartDistinct, TilingIsTile DEF IInv, TypeOK, FreeSorted
<1>3. used[i] \in BlockType /\ used[i] \in ToSet(used)
  BY Zenon, <1>1, ElementOfSeq, ToSetRange
<1>4. /\ used' \in Seq(BlockType)
      /\ ToSet(used') = ToSet(used) \ {used[i]}
      /\ Distinct(used')
  BY <1>1, RemoveAtElements
<1>5. /\ free' \in Seq(BlockType)
      /\ ToSet(free') = ToSet(free) \union {used[i]}
      /\ Distinct(free')
      /\ SortedBySize(free')
  <2>1. used[i] \notin ToSet(free)
    BY <1>1, <1>3, Zenon
  <2>. QED
    BY <1>1, <1>3, <2>1, AddToFree, Zenon
<1>6. Blocks' = Blocks /\ HeapEnd' = HeapEnd
  BY <1>3, <1>4, <1>5 DEF Blocks, HeapEnd
<1>7. TypeOK'
  BY <1>1, <1>4, <1>5 DEF TypeOK
<1>8. ListsApart'
  BY Zenon, <1>1, <1>4, <1>5 DEF ListsApart, Distinct
<1>9. Tiling'
  BY <1>1, <1>6 DEF Tile, Tiling, NoOverlap, NoGap, InBounds, End
<1>10. FreeSorted'
  BY <1>5, Zenon DEF FreeSorted
<1>. QED
  BY SMTT(30), <1>3, <1>4, <1>5, <1>7, <1>8, <1>9, <1>10 DEF IInv

\* Arithmetic of a split: a block of size s at a, with room for m bytes and a
\* header of h behind the first n.
LEMMA SplitSizes ==
  ASSUME NEW a \in Nat, NEW s \in Nat, NEW n \in Nat, NEW h \in Nat,
         NEW m \in Nat, s - n >= m + h
  PROVE  /\ a + n + h \in Nat
         /\ s - (n + h) \in Nat
         /\ s - (n + h) >= m
         /\ a + h + n = a + n + h
         /\ (a + n + h) + h + (s - (n + h)) = a + h + s
  OBVIOUS

\* Splitting a free block hands out its front and keeps its rest free.
LEMMA TakeSplitEffect ==
  ASSUME IInv, NEW n \in Nat, n >= NODESIZE_MAX,
         NEW i \in 1..Len(free), TakeSplit(i, n)
  PROVE  /\ IInv'
         /\ Block(free[i].addr, n) \in BlockType
         /\ Block(free[i].addr, n) \notin Blocks
         /\ free[i] \in ToSet(free)
         /\ ToSet(used') = ToSet(used) \union {Block(free[i].addr, n)}
<1>. USE HeapAssumption
<1>. DEFINE b == free[i]
            l == Block(b.addr, n)
            r == Block(b.addr + n + HDR, b.size - (n + HDR))
            rem == RemoveAt(free, i)
<1>1. /\ used \in Seq(BlockType) /\ free \in Seq(BlockType)
      /\ cursize \in Nat /\ errno \in {"none", "ENOMEM", "EFAULT"}
      /\ Distinct(used) /\ Distinct(free) /\ SortedBySize(free)
      /\ ToSet(used) \intersect ToSet(free) = {}
      /\ Tile(Blocks, HeapEnd)
  BY ListsApartDistinct, TilingIsTile DEF IInv, TypeOK, FreeSorted
<1>2. /\ b.size - n >= NODESIZE_MAX + HDR
      /\ used' = Append(used, l)
      /\ free' = add_to_free(rem, r)
      /\ cursize' = cursize /\ errno' = errno
  BY Zenon DEF TakeSplit
<1>3. b \in BlockType /\ b \in ToSet(free) /\ b \in Blocks
  BY Zenon, <1>1, ElementOfSeq, ToSetRange DEF Blocks
<1>4. /\ l \in BlockType /\ r \in BlockType
      /\ l.addr = b.addr /\ End(l) = r.addr /\ End(r) = End(b)
      /\ l.size >= NODESIZE_MAX /\ r.size >= NODESIZE_MAX
  <2>. HIDE DEF b
  <2>0. b.size - n >= NODESIZE_MAX + HDR
    BY <1>2, Zenon
  <2>1. b.addr \in Nat /\ b.size \in Nat
    BY <1>3, Zenon DEF BlockType
  <2>2. /\ l.addr = b.addr /\ l.size = n
        /\ r.addr = b.addr + n + HDR /\ r.size = b.size - (n + HDR)
    BY Zenon DEF Block
  <2>3. /\ b.addr + n + HDR \in Nat
        /\ b.size - (n + HDR) \in Nat
        /\ b.size - (n + HDR) >= NODESIZE_MAX
        /\ b.addr + HDR + n = b.addr + n + HDR
        /\ (b.addr + n + HDR) + HDR + (b.size - (n + HDR))
             = b.addr + HDR + b.size
    <3>. DEFINE a == b.addr
                s == b.size
    <3>1. HDR \in Nat /\ NODESIZE_MAX \in Nat
      BY Zenon
    <3>2. a \in Nat /\ s \in Nat /\ s - n >= NODESIZE_MAX + HDR
      BY <2>0, <2>1
    <3>. HIDE DEF a, s
    <3>3. /\ a + n + HDR \in Nat
          /\ s - (n + HDR) \in Nat
          /\ s - (n + HDR) >= NODESIZE_MAX
          /\ a + HDR + n = a + n + HDR
          /\ (a + n + HDR) + HDR + (s - (n + HDR)) = a + HDR + s
      BY <3>1, <3>2, SplitSizes, SMTT(30)
    <3>. QED
      BY <3>3, Zenon DEF a, s
  <2>4. l \in BlockType /\ r \in BlockType
    BY <2>1, <2>3 DEF BlockType, Block
  <2>. HIDE DEF l, r
  <2>5. End(l) = r.addr /\ End(r) = End(b)
    BY <2>2, <2>3 DEF End
  <2>. QED
    BY Zenon, <2>2, <2>3, <2>4, <2>5
<1>5. Blocks \subseteq BlockType /\ HeapEnd \in Nat
  BY BlocksTyped, Zenon DEF IInv
<1>. HIDE DEF b, l, r, rem
<1>6. /\ Tile((Blocks \ {b}) \union {l, r}, HeapEnd)
      /\ l \notin Blocks /\ r \notin Blocks /\ l # r
  BY <1>1, <1>3, <1>4, <1>5, SplitTile
<1>7. /\ used' \in Seq(BlockType)
      /\ ToSet(used') = ToSet(used) \union {l}
      /\ Distinct(used')
  <2>1. l \notin ToSet(used)
    BY <1>6, Zenon DEF Blocks
  <2>. QED
    BY <1>1, <1>2, <1>4, <2>1, AppendElements
<1>8. /\ rem \in Seq(BlockType)
      /\ ToSet(rem) = ToSet(free) \ {b}
      /\ Distinct(rem)
      /\ SortedBySize(rem)
  BY SMTT(30), <1>1, RemoveAtElements, RemoveSorted DEF rem, b
<1>9. /\ free' \in Seq(BlockType)
      /\ ToSet(free') = (ToSet(free) \ {b}) \union {r}
      /\ Distinct(free')
      /\ SortedBySize(free')
  <2>1. r \notin ToSet(rem)
    BY <1>6, <1>8 DEF Blocks
  <2>. QED
    BY <1>2, <1>4, <1>8, <2>1, AddToFree
<1>10. Blocks' = (Blocks \ {b}) \union {l, r} /\ HeapEnd' = HeapEnd
  <2>1. b \notin ToSet(used)
    BY Zenon, <1>1, <1>3
  <2>. QED
    BY SMTT(30), <1>2, <1>7, <1>9, <2>1 DEF Blocks, HeapEnd
<1>11. TypeOK'
  BY Zenon, <1>1, <1>2, <1>7, <1>9 DEF TypeOK
<1>12. ListsApart'
  <2>1. ToSet(used') \intersect ToSet(free') = {}
    BY <1>1, <1>6, <1>7, <1>9 DEF Blocks
  <2>. QED
    BY <1>7, <1>9, <2>1 DEF ListsApart, Distinct
<1>13. Tiling'
  BY <1>6, <1>10 DEF Tile, Tiling, NoOverlap, NoGap, InBounds, End
<1>14. FreeSorted'
  BY <1>9 DEF FreeSorted
<1>15. IInv'
  BY Zenon, <1>11, <1>12, <1>13, <1>14 DEF IInv
<1>. QED
  BY SMTT(30), <1>3, <1>4, <1>6, <1>7, <1>15 DEF b, l

\* One new block at the end of the heap, used at once.
LEMMA ExpandOneEffect ==
  ASSUME IInv, NEW n \in Nat, n >= NODESIZE_MAX,
         used' = Append(used, Block(HeapEnd, n)),
         cursize' = cursize + n + HDR,
         UNCHANGED <<free, errno>>
  PROVE  /\ IInv'
         /\ Block(HeapEnd, n) \in BlockType
         /\ Block(HeapEnd, n) \notin Blocks
         /\ ToSet(used') = ToSet(used) \union {Block(HeapEnd, n)}
<1>. USE HeapAssumption
<1>. DEFINE c == Block(HeapEnd, n)
<1>1. /\ used \in Seq(BlockType) /\ free \in Seq(BlockType)
      /\ cursize \in Nat /\ errno \in {"none", "ENOMEM", "EFAULT"}
      /\ Distinct(used) /\ Distinct(free) /\ SortedBySize(free)
      /\ ToSet(used) \intersect ToSet(free) = {}
      /\ Tile(Blocks, HeapEnd)
  BY ListsApartDistinct, TilingIsTile DEF IInv, TypeOK, FreeSorted
<1>2. Blocks \subseteq BlockType /\ HeapEnd \in Nat /\ HeapEnd >= MEMSTART
  BY BlocksTyped, Zenon DEF IInv
<1>3. /\ c \in BlockType /\ c.addr = HeapEnd /\ c.size >= NODESIZE_MAX
      /\ End(c) = HeapEnd'
  BY <1>1, <1>2 DEF BlockType, Block, End, HeapEnd
<1>. HIDE DEF c
<1>4. Tile(Blocks \union {c}, HeapEnd') /\ c \notin Blocks
  BY <1>1, <1>2, <1>3, GrowTile, Zenon
<1>5. /\ used' \in Seq(BlockType)
      /\ ToSet(used') = ToSet(used) \union {c}
      /\ Distinct(used')
  <2>1. c \notin ToSet(used)
    BY <1>4 DEF Blocks
  <2>. QED
    BY <1>1, <1>3, <2>1, AppendElements DEF c
<1>6. Blocks' = Blocks \union {c}
  BY <1>5, Zenon DEF Blocks
<1>7. TypeOK'
  BY <1>1, <1>5 DEF TypeOK
<1>8. ListsApart'
  BY SMTT(30), <1>1, <1>4, <1>5 DEF ListsApart, Distinct, Blocks
<1>9. Tiling'
  BY <1>4, <1>6 DEF Tile, Tiling, NoOverlap, NoGap, InBounds, End
<1>10. FreeSorted'
  BY <1>1 DEF FreeSorted
<1>. QED
  BY SMTT(30), <1>3, <1>4, <1>5, <1>7, <1>8, <1>9, <1>10 DEF IInv, c

\* A free block up to the page and a used one behind it.
LEMMA AlignSplitEffect ==
  ASSUME IInv, NEW n \in Nat, n >= NODESIZE_MAX,
         NEW offset \in Nat, offset >= 2 * HDR + NODESIZE_MAX,
         expand_heap_align_split(n, offset)
  PROVE  /\ IInv'
         /\ Block(HeapEnd + offset - HDR, n) \in BlockType
         /\ Block(HeapEnd + offset - HDR, n) \notin Blocks
         /\ ToSet(used') =
              ToSet(used) \union {Block(HeapEnd + offset - HDR, n)}
<1>. USE HeapAssumption
<1>. DEFINE l == Block(HeapEnd, offset - 2 * HDR)
            c == Block(HeapEnd + offset - HDR, n)
<1>1. /\ used \in Seq(BlockType) /\ free \in Seq(BlockType)
      /\ cursize \in Nat /\ errno \in {"none", "ENOMEM", "EFAULT"}
      /\ Distinct(used) /\ Distinct(free) /\ SortedBySize(free)
      /\ ToSet(used) \intersect ToSet(free) = {}
      /\ Tile(Blocks, HeapEnd)
  BY ListsApartDistinct, TilingIsTile DEF IInv, TypeOK, FreeSorted
<1>2. /\ free' = add_to_free(free, l)
      /\ used' = Append(used, c)
      /\ cursize' = cursize + offset + n
      /\ errno' = errno
  BY Zenon DEF expand_heap_align_split
<1>3. Blocks \subseteq BlockType /\ HeapEnd \in Nat /\ HeapEnd >= MEMSTART
  BY BlocksTyped DEF IInv
<1>4. /\ l \in BlockType /\ l.addr = HeapEnd /\ l.size >= NODESIZE_MAX
      /\ c \in BlockType /\ c.addr = End(l) /\ c.size >= NODESIZE_MAX
      /\ End(c) = HeapEnd' /\ l # c
  BY SMTT(30), <1>1, <1>2, <1>3 DEF BlockType, Block, End, HeapEnd
<1>. HIDE DEF l, c
<1>5. /\ Tile(Blocks \union {l}, End(l)) /\ l \notin Blocks
      /\ End(l) \in Nat /\ End(l) >= MEMSTART
  BY <1>1, <1>3, <1>4, GrowTile
<1>6. /\ Tile((Blocks \union {l}) \union {c}, End(c))
      /\ c \notin Blocks \union {l}
  <2>1. Blocks \union {l} \subseteq BlockType
    BY <1>3, <1>4
  <2>. QED
    BY <1>4, <1>5, <2>1, GrowTile
<1>7. /\ used' \in Seq(BlockType)
      /\ ToSet(used') = ToSet(used) \union {c}
      /\ Distinct(used')
  <2>1. c \notin ToSet(used)
    BY <1>6, Zenon DEF Blocks
  <2>. QED
    BY SMTT(30), <1>1, <1>2, <1>4, <2>1, AppendElements
<1>8. /\ free' \in Seq(BlockType)
      /\ ToSet(free') = ToSet(free) \union {l}
      /\ Distinct(free')
      /\ SortedBySize(free')
  <2>1. l \notin ToSet(free)
    BY <1>5, Zenon DEF Blocks
  <2>. QED
    BY <1>1, <1>2, <1>4, <2>1, AddToFree
<1>9. Blocks' = (Blocks \union {l}) \union {c}
  BY <1>7, <1>8 DEF Blocks
<1>10. TypeOK'
  BY SMTT(30), <1>1, <1>2, <1>7, <1>8 DEF TypeOK
<1>11. ListsApart'
  <2>1. ToSet(used') \intersect ToSet(free') = {}
    BY SMTT(30), <1>1, <1>4, <1>5, <1>6, <1>7, <1>8 DEF Blocks
  <2>. QED
    BY Zenon, <1>7, <1>8, <2>1 DEF ListsApart, Distinct
<1>12. Tiling'
  <2>1. Tile(Blocks', HeapEnd')
    BY <1>4, <1>6, <1>9
  <2>. QED
    BY <2>1, Zenon DEF Tile, Tiling, NoOverlap, NoGap, InBounds, End
<1>13. FreeSorted'
  BY <1>8, Zenon DEF FreeSorted
<1>14. IInv'
  BY SMTT(30), <1>10, <1>11, <1>12, <1>13 DEF IInv
<1>. QED
  BY Zenon, <1>4, <1>6, <1>7, <1>14 DEF c

-----------------------------------------------------------------------------
(* Page arithmetic.                                                        *)

\* Adding a page to a multiple of the page size gives a multiple again.
LEMMA PageMultiple ==
  ASSUME NEW k \in Nat, PAGE > 0
  PROVE  (PAGE * k) % PAGE = 0
  BY HeapAssumption, SMTT(30)

\* The end of the heap is less than two pages from the page after it, which
\* is aligned, as is the page behind that one.
LEMMA AlignOffsetRange ==
  ASSUME TypeOK
  PROVE  /\ AlignOffset \in Nat /\ AlignOffset >= 1 /\ AlignOffset <= PAGE
         /\ (HeapEnd + AlignOffset) % PAGE = 0
         /\ (HeapEnd + AlignOffset + PAGE) % PAGE = 0
<1>1. HeapEnd \in Nat /\ PAGE \in Nat /\ PAGE > 0
  BY HeapAssumption, BlocksTyped
<1>. DEFINE m == HeapEnd
            q == m \div PAGE
<1>2. /\ q \in Nat /\ m % PAGE \in 0..(PAGE - 1)
      /\ m = PAGE * q + (m % PAGE)
  <2>. HIDE DEF m
  <2>. QED
    BY <1>1, SMTT(30) DEF m
<1>3. AlignOffset = PAGE - (m % PAGE)
  BY <1>1, <1>2 DEF AlignOffset, next_page_address
<1>4. /\ AlignOffset \in Nat /\ AlignOffset >= 1 /\ AlignOffset <= PAGE
  BY <1>1, <1>2, <1>3
<1>5. m + AlignOffset = PAGE * (q + 1)
  BY <1>1, <1>2, <1>3, SMTT(30)
<1>6. m + AlignOffset + PAGE = PAGE * (q + 2)
  BY <1>1, <1>2, <1>3, SMTT(30)
<1>7. (PAGE * (q + 1)) % PAGE = 0 /\ (PAGE * (q + 2)) % PAGE = 0
  BY <1>1, <1>2, PageMultiple
<1>. QED
  BY <1>4, <1>5, <1>6, <1>7

-----------------------------------------------------------------------------
(* Every step: the invariant, and what becomes of the used list.           *)

\* A new allocation b of at least `size` bytes, aligned when asked for.
Granted(size, align, b) ==
  /\ b \in BlockType
  /\ b \notin ToSet(used)
  /\ b.size >= size
  /\ align => (b.addr + HDR) % PAGE = 0
  /\ ToSet(used') = ToSet(used) \union {b}

\* A request is raised to the smallest payload, never lowered.
LEMMA SearchSizeBound ==
  ASSUME NEW size \in REQUESTS
  PROVE  /\ SearchSize(size) \in Nat
         /\ SearchSize(size) >= NODESIZE_MAX
         /\ SearchSize(size) >= size
  BY HeapAssumption DEF SearchSize

\* get_free keeps the invariant; it grants one new block or changes nothing
\* on the used list.
LEMMA GetFreeEffect ==
  ASSUME IInv, NEW size \in REQUESTS, NEW align \in BOOLEAN,
         get_free(size, align)
  PROVE  /\ IInv'
         /\ used' = used \/ \E b \in BlockType : Granted(size, align, b)
<1>. USE HeapAssumption
<1>. DEFINE n == SearchSize(size)
<1>1. n \in Nat /\ n >= NODESIZE_MAX /\ n >= size /\ size \in Nat
  BY SearchSizeBound, Zenon
<1>2. ASSUME NEW i \in 1..Len(free), FirstFit(i, n, align), TakeWhole(i, n)
      PROVE  IInv' /\ \E b \in BlockType : Granted(size, align, b)
  <2>1. /\ IInv'
        /\ free[i] \in BlockType /\ free[i] \in ToSet(free)
        /\ ToSet(used') = ToSet(used) \union {free[i]}
    BY <1>2, TakeWholeEffect
  <2>2. free[i] \notin ToSet(used)
    BY <2>1, Zenon DEF IInv, ListsApart
  <2>3. free[i].size >= n /\ (align => (free[i].addr + HDR) % PAGE = 0)
    BY <1>2, Zenon DEF FirstFit, Fits
  <2>4. free[i].size >= size
    BY <1>1, <2>1, <2>3 DEF BlockType
  <2>5. Granted(size, align, free[i])
    BY <2>1, <2>2, <2>3, <2>4, Zenon DEF Granted
  <2>. QED
    BY <2>1, <2>5
<1>3. ASSUME NEW i \in 1..Len(free), FirstFit(i, n, align), TakeSplit(i, n)
      PROVE  IInv' /\ \E b \in BlockType : Granted(size, align, b)
  <2>. DEFINE b == Block(free[i].addr, n)
  <2>1. /\ IInv'
        /\ b \in BlockType /\ b \notin Blocks
        /\ ToSet(used') = ToSet(used) \union {b}
    BY <1>1, <1>3, TakeSplitEffect
  <2>2. align => (free[i].addr + HDR) % PAGE = 0
    BY <1>3, Zenon DEF FirstFit, Fits
  <2>3. b.addr = free[i].addr /\ b.size = n
    BY Zenon DEF Block
  <2>4. b \notin ToSet(used)
    BY <2>1, Zenon DEF Blocks
  <2>. HIDE DEF b
  <2>5. Granted(size, align, b)
    BY <1>1, <2>1, <2>2, <2>3, <2>4 DEF Granted
  <2>. QED
    BY <2>1, <2>5
<1>4. ASSUME ~align, ExpandPlain(n)
      PROVE  IInv' /\ \E b \in BlockType : Granted(size, align, b)
  <2>. DEFINE b == Block(HeapEnd, n)
  <2>1. /\ IInv'
        /\ b \in BlockType /\ b \notin Blocks
        /\ ToSet(used') = ToSet(used) \union {b}
    BY <1>1, <1>4, ExpandOneEffect DEF ExpandPlain
  <2>2. b.size = n /\ b \notin ToSet(used)
    BY <2>1, Zenon DEF Block, Blocks
  <2>. HIDE DEF b
  <2>3. Granted(size, align, b)
    BY <1>1, <1>4, <2>1, <2>2 DEF Granted
  <2>. QED
    BY <2>1, <2>3, Zenon
<1>5. ASSUME NEW offset \in Nat, offset >= 2 * HDR + NODESIZE_MAX,
             (HeapEnd + offset) % PAGE = 0,
             expand_heap_align_split(n, offset)
      PROVE  IInv' /\ \E b \in BlockType : Granted(size, align, b)
  <2>. DEFINE b == Block(HeapEnd + offset - HDR, n)
  <2>1. /\ IInv'
        /\ b \in BlockType /\ b \notin Blocks
        /\ ToSet(used') = ToSet(used) \union {b}
    BY <1>1, <1>5, AlignSplitEffect
  <2>2. b.size = n /\ b.addr = HeapEnd + offset - HDR /\ b \notin ToSet(used)
    BY <2>1, Zenon DEF Block, Blocks
  <2>3. b.addr + HDR = HeapEnd + offset
    <3>1. HeapEnd \in Nat
      BY BlocksTyped, Zenon DEF IInv
    <3>. HIDE DEF b
    <3>. QED
      BY <2>2, <3>1
  <2>. HIDE DEF b
  <2>4. Granted(size, align, b)
    BY SMTT(30), <1>1, <1>5, <2>1, <2>2, <2>3 DEF Granted
  <2>. QED
    BY <2>1, <2>4, Zenon
<1>6. ASSUME AlignOffset = HDR,
             used' = Append(used, Block(HeapEnd, n)),
             cursize' = cursize + n + AlignOffset,
             UNCHANGED <<free, errno>>
      PROVE  IInv' /\ \E b \in BlockType : Granted(size, align, b)
  <2>. DEFINE b == Block(HeapEnd, n)
  <2>1. /\ IInv'
        /\ b \in BlockType /\ b \notin Blocks
        /\ ToSet(used') = ToSet(used) \union {b}
    BY <1>1, <1>6, ExpandOneEffect
  <2>2. b.size = n /\ b.addr = HeapEnd /\ b \notin ToSet(used)
    BY <2>1, Zenon DEF Block, Blocks
  <2>3. (HeapEnd + HDR) % PAGE = 0
    BY <1>6, AlignOffsetRange DEF IInv
  <2>. HIDE DEF b
  <2>4. Granted(size, align, b)
    BY Zenon, <1>1, <2>1, <2>2, <2>3 DEF Granted
  <2>. QED
    BY <2>1, <2>4, Zenon
<1>7. ASSUME align, ExpandAligned(n)
      PROVE  IInv' /\ \E b \in BlockType : Granted(size, align, b)
  <2>1. /\ AlignOffset \in Nat /\ AlignOffset >= 1 /\ AlignOffset <= PAGE
        /\ (HeapEnd + AlignOffset) % PAGE = 0
        /\ (HeapEnd + AlignOffset + PAGE) % PAGE = 0
        /\ HeapEnd \in Nat
    BY AlignOffsetRange, BlocksTyped DEF IInv
  <2>2. CASE /\ AlignOffset >= 2 * HDR + NODESIZE_MAX
             /\ expand_heap_align_split(n, AlignOffset)
    BY <1>5, <2>1, <2>2
  <2>3. CASE /\ AlignOffset = HDR
             /\ used' = Append(used, Block(HeapEnd, n))
             /\ cursize' = cursize + n + AlignOffset
             /\ UNCHANGED <<free, errno>>
    BY <1>6, <2>3
  <2>4. CASE expand_heap_align_split(n, AlignOffset + PAGE)
    <3>. DEFINE o == AlignOffset + PAGE
    <3>1. o \in Nat /\ o >= 2 * HDR + NODESIZE_MAX /\ (HeapEnd + o) % PAGE = 0
      <4>1. HeapEnd + o = HeapEnd + AlignOffset + PAGE
        BY <2>1
      <4>. QED
        BY <2>1, <4>1
    <3>2. expand_heap_align_split(n, o)
      BY <2>4, Zenon
    <3>. QED
      BY <1>5, <3>1, <3>2
  <2>. QED
    BY <1>7, <2>2, <2>3, <2>4 DEF ExpandAligned
<1>8. ASSUME OutOfMemory(n, align)
      PROVE  IInv' /\ used' = used
  BY <1>8, SameLists DEF OutOfMemory, lists
<1>9. ASSUME expand_heap(n, align)
      PROVE  IInv' /\ (used' = used \/ \E b \in BlockType : Granted(size, align, b))
  BY <1>4, <1>7, <1>8, <1>9 DEF expand_heap
<1>10. \/ \E i \in 1..Len(free) : /\ FirstFit(i, n, align)
                                  /\ TakeWhole(i, n) \/ TakeSplit(i, n)
       \/ expand_heap(n, align)
  BY Zenon DEF get_free
<1>. QED
  BY <1>2, <1>3, <1>9, <1>10

\* free_node keeps the invariant; it takes one block off the used list or
\* changes nothing there.
LEMMA FreeNodeEffect ==
  ASSUME IInv, NEW addr, free_node(addr)
  PROVE  /\ IInv'
         /\ \/ used' = used
            \/ \E b \in ToSet(used) : /\ b \in BlockType
                                      /\ b \in ToSet(free')
                                      /\ ToSet(used') = ToSet(used) \ {b}
<1>1. ASSUME NEW i \in 1..Len(used),
             used' = RemoveAt(used, i),
             free' = add_to_free(free, used[i]),
             UNCHANGED <<cursize, errno>>
      PROVE  IInv' /\ \E b \in ToSet(used) : /\ b \in BlockType
                                             /\ b \in ToSet(free')
                                             /\ ToSet(used') = ToSet(used) \ {b}
  BY <1>1, FreeEffect
<1>2. ASSUME errno' = "EFAULT", UNCHANGED lists
      PROVE  IInv' /\ used' = used
  BY <1>2, SameLists DEF lists
<1>. QED
  BY <1>1, <1>2 DEF free_node

\* Every step of the heap keeps the invariant.
LEMMA NextIInv == IInv /\ [Next]_vars => IInv'
<1>. SUFFICES ASSUME IInv, [Next]_vars PROVE IInv'
  BY Zenon
<1>1. ASSUME NEW size \in REQUESTS, NEW align \in BOOLEAN,
             get_free(size, align)
      PROVE  IInv'
  BY <1>1, GetFreeEffect
<1>2. ASSUME NEW b \in Blocks, free_node(b.addr)
      PROVE  IInv'
  BY <1>2, FreeNodeEffect
<1>3. CASE UNCHANGED vars
  BY <1>3, SameLists DEF vars, lists, IInv, TypeOK
<1>. QED
  BY <1>1, <1>2, <1>3 DEF Next

-----------------------------------------------------------------------------
(* The theorems.                                                           *)

\* The inductive invariant holds of the heap.
THEOREM HeapInvariant == Spec => []IInv
  BY InitIInv, NextIInv, PTL DEF Spec

\* The variables of the heap have their types.
THEOREM TypeCorrect == Spec => []TypeOK
<1>1. IInv => TypeOK
  BY DEF IInv
<1>. QED
  BY <1>1, HeapInvariant, PTL

\* No block is on a list twice or on both lists.
THEOREM ListsStayApart == Spec => []ListsApart
<1>1. IInv => ListsApart
  BY DEF IInv
<1>. QED
  BY <1>1, HeapInvariant, PTL

\* The blocks tile the heap: no byte in two blocks, no byte in none.
THEOREM HeapTiled == Spec => []Tiling
<1>1. IInv => Tiling
  BY DEF IInv
<1>. QED
  BY <1>1, HeapInvariant, PTL

\* The free list stays sorted by size.
THEOREM FreeListSorted == Spec => []FreeSorted
<1>1. IInv => FreeSorted
  BY Zenon DEF IInv
<1>. QED
  BY <1>1, HeapInvariant, PTL

\* A block handed out keeps its place and size until it is freed.
THEOREM BlocksKept == Spec => KeptUntilFreed
<1>. DEFINE Kept == \A b \in ToSet(used) :
                      \/ b \in ToSet(used')
                      \/ b \in ToSet(free') /\ ToSet(used') = ToSet(used) \ {b}
<1>1. ASSUME IInv, [Next]_vars
      PROVE  [Kept]_vars
  <2>1. ASSUME NEW size \in REQUESTS, NEW align \in BOOLEAN,
               get_free(size, align)
        PROVE  Kept
    BY <1>1, <2>1, GetFreeEffect DEF Granted
  <2>2. ASSUME NEW b \in Blocks, free_node(b.addr)
        PROVE  Kept
    <3>1. CASE used' = used
      BY <3>1, Zenon
    <3>2. CASE \E c \in ToSet(used) : /\ c \in ToSet(free')
                                      /\ ToSet(used') = ToSet(used) \ {c}
      <4>1. PICK c \in ToSet(used) : /\ c \in ToSet(free')
                                     /\ ToSet(used') = ToSet(used) \ {c}
        BY <3>2
      <4>. QED
        BY <4>1, Zenon
    <3>. QED
      BY SMTT(30), <1>1, <2>2, <3>1, <3>2, FreeNodeEffect
  <2>. QED
    BY <1>1, <2>1, <2>2 DEF Next
<1>2. Spec => [][Kept]_vars
  BY <1>1, HeapInvariant, PTL DEF Spec
<1>. QED
  BY <1>2, Zenon DEF KeptUntilFreed

\* An aligned request gets an aligned payload, in each of get_free's branches.
THEOREM AlignedGranted == Spec => AlignedWhenAsked
<1>. DEFINE Aligned == \A size \in REQUESTS : get_free(size, TRUE) =>
               \A b \in ToSet(used') \ ToSet(used) : (b.addr + HDR) % PAGE = 0
<1>1. ASSUME IInv
      PROVE  Aligned
  <2>1. ASSUME NEW size \in REQUESTS, get_free(size, TRUE)
        PROVE  \/ used' = used
               \/ \E b \in BlockType : /\ (b.addr + HDR) % PAGE = 0
                                       /\ ToSet(used') = ToSet(used) \union {b}
    <3>1. used' = used \/ \E b \in BlockType : Granted(size, TRUE, b)
      BY <1>1, <2>1, GetFreeEffect
    <3>. QED
      BY <3>1, Zenon DEF Granted
  <2>. QED
    BY <2>1, Zenon
<1>2. Spec => [][Aligned]_vars
  BY <1>1, HeapInvariant, PTL DEF Spec
<1>. QED
  BY <1>2, Zenon DEF AlignedWhenAsked

-----------------------------------------------------------------------------
(* The heap implements the abstract allocator.                             *)

PayloadOf(b) == [start |-> b.addr + HDR, size |-> b.size]

\* Blocks that are apart have payloads that are apart.
LEMMA PayloadsApart ==
  ASSUME NEW b \in BlockType, NEW c \in BlockType,
         End(b) <= c.addr \/ End(c) <= b.addr
  PROVE  ~A!Overlap(PayloadOf(b), PayloadOf(c))
  BY HeapAssumption DEF A!Overlap, PayloadOf, End, BlockType

\* A block is known by its payload.
LEMMA PayloadInjective ==
  ASSUME NEW b \in BlockType, NEW c \in BlockType, PayloadOf(b) = PayloadOf(c)
  PROVE  b = c
<1>1. /\ PayloadOf(b).start = PayloadOf(c).start
      /\ PayloadOf(b).size = PayloadOf(c).size
  BY Zenon
<1>2. b.addr + HDR = c.addr + HDR /\ b.size = c.size
  BY <1>1 DEF PayloadOf
<1>3. b.addr = c.addr
  BY <1>2, HeapAssumption DEF BlockType
<1>. QED
  BY <1>2, <1>3 DEF BlockType

\* Spec implements A!Spec under the mapping of the used blocks to payloads.
THEOREM HeapImplementsAllocator == Spec => ImplementsAllocator
<1>. USE HeapAssumption
<1>1. Init => A!Init
  BY DEF Init, A!Init, Live, ToSet
<1>2. Live = {PayloadOf(b) : b \in ToSet(used)}
  BY Zenon DEF Live, PayloadOf
<1>3. Live' = {PayloadOf(b) : b \in ToSet(used')}
  BY Zenon DEF Live, PayloadOf
<1>4. ASSUME IInv, IInv', [Next]_vars
      PROVE  [A!Next]_Live
  <2>1. ASSUME used' = used
        PROVE  Live' = Live
    BY <2>1, Zenon DEF Live
  <2>2. ASSUME NEW size \in REQUESTS, NEW align \in BOOLEAN,
               NEW b \in BlockType, Granted(size, align, b)
        PROVE  A!Alloc(size)
    <3>. DEFINE p == PayloadOf(b)
    <3>1. /\ b \notin ToSet(used) /\ b.size >= size
          /\ ToSet(used') = ToSet(used) \union {b}
      BY <2>2 DEF Granted
    <3>2. ToSet(used) \subseteq BlockType
      BY <1>4, BlocksTyped DEF IInv
    <3>3. p \in A!Payload
      BY DEF PayloadOf, A!Payload, BlockType
    <3>4. p.size >= size
      BY <3>1, Zenon DEF PayloadOf
    <3>5. Live' = Live \union {p}
      BY <1>2, <1>3, <3>1, Zenon
    <3>6. ASSUME NEW c \in ToSet(used)
          PROVE  c # b /\ (End(b) <= c.addr \/ End(c) <= b.addr)
      <4>1. b \in Blocks' /\ c \in Blocks' /\ b # c
        BY <3>1, Zenon DEF Blocks
      <4>2. \A d, e \in Blocks' : d # e => End(d) <= e.addr \/ End(e) <= d.addr
        BY <1>4, Zenon DEF IInv, Tiling, NoOverlap, End
      <4>. QED
        BY <4>1, <4>2
    <3>. HIDE DEF p
    <3>7. p \notin Live
      BY Zenon, <1>2, <3>2, <3>6, PayloadInjective DEF p
    <3>8. \A q \in Live : ~A!Overlap(p, q)
      BY SMTT(30), <1>2, <3>2, <3>6, PayloadsApart DEF p
    <3>. QED
      BY SMTT(30), <3>3, <3>4, <3>5, <3>7, <3>8 DEF A!Alloc
  <2>3. ASSUME NEW b \in ToSet(used), b \in BlockType,
               ToSet(used') = ToSet(used) \ {b}
        PROVE  \E p \in Live : A!Free(p)
    <3>1. ToSet(used) \subseteq BlockType
      BY <1>4, BlocksTyped DEF IInv
    <3>2. PayloadOf(b) \in Live
      BY <1>2
    <3>3. \A c \in ToSet(used) : PayloadOf(c) = PayloadOf(b) => c = b
      BY <2>3, <3>1, PayloadInjective
    <3>4. Live' = Live \ {PayloadOf(b)}
      BY Zenon, <1>2, <1>3, <2>3, <3>3
    <3>. QED
      BY <3>2, <3>4 DEF A!Free
  <2>4. ASSUME NEW size \in REQUESTS, NEW align \in BOOLEAN,
               get_free(size, align)
        PROVE  [A!Next]_Live
    <3>1. used' = used \/ \E b \in BlockType : Granted(size, align, b)
      BY Zenon, <1>4, <2>4, GetFreeEffect
    <3>. QED
      BY Zenon, <2>1, <2>2, <3>1 DEF A!Next
  <2>5. ASSUME NEW c \in Blocks, free_node(c.addr)
        PROVE  [A!Next]_Live
    <3>1. \/ used' = used
          \/ \E b \in ToSet(used) : /\ b \in BlockType
                                    /\ ToSet(used') = ToSet(used) \ {b}
      BY <1>4, <2>5, FreeNodeEffect
    <3>. QED
      BY <2>1, <2>3, <3>1 DEF A!Next
  <2>6. CASE UNCHANGED vars
    BY <2>1, <2>6 DEF vars
  <2>. QED
    BY Zenon, <1>4, <2>4, <2>5, <2>6 DEF Next
<1>5. Spec => A!Spec
  BY <1>1, <1>4, HeapInvariant, PTL DEF Spec, A!Spec
<1>. QED
  BY Zenon, <1>5 DEF ImplementsAllocator
=============================================================================
