----------------------------- MODULE PipeProofs -----------------------------
(***************************************************************************)
(* Proofs about the ring buffer of a pipe, for indices of every width and  *)
(* reads and writes of every size.  What makes them work is the window:    *)
(* the unread bytes, from virtual_begin on, are in the buffer, each at its *)
(* place modulo SHORT.  A write adds to its end without reaching its       *)
(* beginning, because no more than Cap bytes are unread, and a read takes  *)
(* from its beginning.  The indices wrap, so most of this is arithmetic    *)
(* modulo LONG and SHORT: LONG is a multiple of SHORT, so that an index    *)
(* that wraps at LONG does not lose its place in the buffer.               *)
(*                                                                         *)
(* Two readers with O_NONBLOCK can read the same bytes, and two blocking   *)
(* readers that were woken by one line leave cursize at 0 for the second;  *)
(* the theorems say for which readers they hold.                           *)
(***************************************************************************)
EXTENDS Pipe, WellFoundedInduction, TLAPS

-----------------------------------------------------------------------------
\* A non-empty set of natural numbers has a least element.
LEMMA LeastNatural ==
  ASSUME NEW T, T \subseteq Nat, T # {}
  PROVE  \E m \in T : \A k \in T : m <= k
<1>1. PICK x \in T : \A y \in T : <<y, x>> \notin OpToRel(<, Nat)
  BY NatLessThanWellFounded, WFMin, Zenon
<1>2. \A y \in T : ~(y < x)
  BY <1>1, Zenon DEF OpToRel
<1>. QED
  BY <1>2

-----------------------------------------------------------------------------
\* A number has one quotient and one remainder.
LEMMA ModUnique ==
  ASSUME NEW m \in Nat \ {0}, NEW a \in Int, NEW q \in Int, NEW r \in 0..(m - 1),
         a = m * q + r
  PROVE  a % m = r
OBVIOUS

\* Every number has a remainder.
LEMMA Division ==
  ASSUME NEW m \in Nat \ {0}, NEW a \in Int
  PROVE  \E q \in Int, r \in 0..(m - 1) : a = m * q + r /\ a % m = r
<1>1. a \div m \in Int /\ a % m \in 0..(m - 1) /\ a = m * (a \div m) + (a % m)
  OBVIOUS
<1>. QED
  BY <1>1, Zenon

\* Numbers that differ by a multiple have the same remainder.
LEMMA ModShift ==
  ASSUME NEW m \in Nat \ {0}, NEW a \in Int, NEW b \in Int, NEW k \in Int, b = a + m * k
  PROVE  b % m = a % m
<1>1. PICK q \in Int, r \in 0..(m - 1) : a = m * q + r /\ a % m = r
  BY Division, Zenon
<1>3. PICK x \in Int, y \in Int : x = m * q /\ y = m * k
  OBVIOUS
<1>4. PICK z \in Int : z = q + k
  OBVIOUS
<1>5. m * z = x + y
  BY <1>3, <1>4
<1>6. a = x + r /\ b = a + y
  BY <1>1, <1>3, Zenon
<1>7. PICK w \in Int : w = m * z
  OBVIOUS
<1>8. b = w + r
  BY <1>5, <1>6, <1>7
<1>9. b = m * z + r
  BY <1>7, <1>8, Zenon
<1>. QED
  BY <1>1, <1>9, ModUnique, Zenon

\* The remainder of a number that is not far off.
LEMMA ModSmall ==
  ASSUME NEW m \in Nat \ {0}, NEW x \in Int, -m <= x, x < m + m
  PROVE  x % m = IF x < 0 THEN x + m ELSE IF x < m THEN x ELSE x - m
<1>1. CASE x < 0
  <2>1. x = m * (-1) + (x + m)
    OBVIOUS
  <2>. QED
    BY <1>1, <2>1, ModUnique
<1>2. CASE x >= 0 /\ x < m
  <2>1. x = m * 0 + x
    OBVIOUS
  <2>. QED
    BY <1>2, <2>1, ModUnique
<1>3. CASE x >= m
  <2>1. x = m * 1 + (x - m)
    OBVIOUS
  <2>. QED
    BY <1>3, <2>1, ModUnique
<1>. QED
  BY <1>1, <1>2, <1>3

\* The least of two numbers is one of them ...
LEMMA MinTwo ==
  ASSUME NEW a \in Int, NEW b \in Int
  PROVE  Min({a, b}) = IF a <= b THEN a ELSE b
BY DEF Min

\* ... and a bounded set that is not empty has a greatest.
LEMMA MaxIn ==
  ASSUME NEW n \in Nat, NEW S \in SUBSET (0..(n - 1)), S # {}
  PROVE  Max(S) \in S
<1>. DEFINE T == {n - x : x \in S}
<1>1. T \subseteq Nat /\ T # {}
  <2>1. \A x \in S : n - x \in Nat
    OBVIOUS
  <2>2. PICK e : e \in S
    BY Zenon
  <2>3. n - e \in T
    BY <2>2, Zenon
  <2>. QED
    BY <2>1, <2>3, Zenon
<1>2. PICK y \in T : \A k \in T : y <= k
  <2>. HIDE DEF T
  <2>. QED
    BY <1>1, LeastNatural, Zenon
<1>3. PICK x \in S : y = n - x
  BY Zenon
<1>4. \A z \in S : x >= z
  BY <1>2, <1>3
<1>. QED
  BY <1>3, <1>4, Zenon DEF Max

-----------------------------------------------------------------------------
\* The sizes of the indices.
LEMMA Sizes ==
  /\ SHORT \in Nat \ {0} /\ LONG \in Nat \ {0} /\ Cap \in Nat \ {0}
  /\ Cap <= SHORT /\ SHORT < LONG /\ Cap < LONG
BY PipeAssumption

\* Indices wrap around at a multiple of the buffer's modulus.
LEMMA LongOfShort == \E k \in Int : LONG = SHORT * k
<1>1. /\ SHORT \in Nat \ {0} /\ LONG \in Nat \ {0} /\ Cap \in Nat \ {0}
      /\ Cap <= SHORT /\ SHORT < LONG /\ LONG % SHORT = 0
  BY PipeAssumption, Zenon
<1>2. PICK k \in Int, r \in 0..(SHORT - 1) : LONG = SHORT * k + r /\ LONG % SHORT = r
  BY <1>1, Division
<1>3. PICK w \in Int : w = SHORT * k
  BY <1>1
<1>4. LONG = w
  BY <1>1, <1>2, <1>3
<1>. QED
  BY <1>1, <1>3, <1>4, Zenon

Long == 0..(LONG - 1)

\* virtual_end is so many unread bytes behind virtual_begin, as far as it has
\* not wrapped.
LEMMA UnreadFacts ==
  ASSUME NEW b \in Long, NEW e \in Long, NEW u, u = (e - b) % LONG
  PROVE  u \in Long /\ (e = b + u \/ e = b + u - LONG)
<1>0. PICK x \in Int : x = e - b /\ -LONG <= x /\ x < LONG
  BY Sizes DEF Long
<1>1. u = IF e - b < 0 THEN e - b + LONG ELSE e - b
  <2>1. x % LONG = IF x < 0 THEN x + LONG ELSE x
    BY <1>0, Sizes, ModSmall
  <2>. QED
    BY <1>0, <2>1, Zenon
<1>2. u \in Long
  BY <1>1, Sizes DEF Long
<1>3. CASE e - b < 0
  BY <1>1, <1>3, Sizes DEF Long
<1>4. CASE e - b >= 0
  BY <1>1, <1>4, Sizes DEF Long
<1>. QED
  BY <1>2, <1>3, <1>4

\* An index moves on and wraps.
LEMMA AdvanceFacts ==
  ASSUME NEW b \in Long, NEW n \in 0..LONG
  PROVE  Advance(b, n) \in Long /\ (\/ Advance(b, n) = b + n
                                     \/ Advance(b, n) = b + n - LONG)
<1>0. PICK x \in Int : x = b + n /\ 0 <= x /\ x < LONG + LONG
  BY Sizes DEF Long
<1>1. Advance(b, n) = IF b + n < LONG THEN b + n ELSE b + n - LONG
  <2>1. x % LONG = IF x < LONG THEN x ELSE x - LONG
    BY <1>0, Sizes, ModSmall
  <2>. QED
    BY <1>0, <2>1, Sizes DEF Advance, Long
<1>2. CASE b + n < LONG
  BY <1>1, <1>2, Sizes DEF Long
<1>3. CASE b + n >= LONG
  BY <1>1, <1>3, Sizes DEF Long
<1>. QED
  BY <1>2, <1>3, Sizes DEF Long

\* A byte has the same number and the same place however its index has wrapped.
LEMMA SamePlace ==
  ASSUME NEW a \in Int, NEW b \in Int, b \in {a - LONG, a, a + LONG}
  PROVE  b % LONG = a % LONG /\ b % SHORT = a % SHORT
<1>1. PICK k \in Int : LONG = SHORT * k
  BY LongOfShort, Zenon
<1>2. PICK w \in {-1, 0, 1} : b = a + LONG * w
  <2>1. CASE b = a - LONG
    <3>1. b = a + LONG * (-1)
      BY <2>1, Sizes
    <3>. QED
      BY <3>1, Zenon
  <2>2. CASE b = a
    <3>1. b = a + LONG * 0
      BY <2>2, Sizes
    <3>. QED
      BY <3>1, Zenon
  <2>3. CASE b = a + LONG
    <3>1. b = a + LONG * 1
      BY <2>3, Sizes
    <3>. QED
      BY <3>1, Zenon
  <2>. QED
    BY <2>1, <2>2, <2>3, Zenon
<1>3. b % LONG = a % LONG
  <2>1. w \in Int /\ LONG \in Nat \ {0}
    BY Sizes
  <2>. QED
    BY <1>2, <2>1, ModShift, Zenon
<1>4. PICK z \in Int : z = k * w
  OBVIOUS
<1>5. PICK x \in Int : x = LONG * w
  BY Sizes
<1>6. SHORT * z = x
  BY <1>1, <1>4, <1>5, Sizes
<1>7. b = a + SHORT * z
  BY <1>2, <1>5, <1>6, Zenon
<1>8. b % SHORT = a % SHORT
  BY <1>7, Sizes, ModShift, Zenon
<1>. QED
  BY <1>3, <1>8, Zenon

\* What a write does to the bytes of the window of the reader: those that were
\* there stay, the others are the bytes of the write.
LEMMA Slot ==
  ASSUME NEW b \in Long, NEW e \in Long, NEW u, u = (e - b) % LONG,
         NEW n \in Nat, u + n <= SHORT, NEW j \in 0..(u + n - 1),
         NEW k, k = (b + j) % SHORT
  PROVE  /\ k \in 0..(SHORT - 1)
         /\ (k - e) % SHORT = IF j < u THEN j - u + SHORT ELSE j - u
         /\ j >= u => (e + (j - u)) % LONG = (b + j) % LONG
<1>0. b \in Int /\ e \in Int /\ u \in Int /\ u >= 0 /\ (e = b + u \/ e = b + u - LONG)
  <2>1. u \in Long /\ (e = b + u \/ e = b + u - LONG)
    BY UnreadFacts
  <2>. QED
    BY <2>1, Sizes DEF Long
<1>a. PICK a \in Int : a = b + j
  BY <1>0
<1>1. PICK q \in Int, r \in 0..(SHORT - 1) : a = SHORT * q + r /\ a % SHORT = r
  BY Sizes, Division, Zenon
<1>2. k = r
  BY <1>1, <1>a, Zenon
<1>3. PICK y \in Int : y = SHORT * (-q)
  BY Sizes
<1>4. r = a + y
  BY <1>1, <1>3, Sizes
<1>5. PICK c \in Int, d \in Int, f \in Int : c = k - e /\ d = a - e /\ f = j - u
  BY <1>0, <1>2
<1>6. c % SHORT = d % SHORT
  <2>1. -q \in Int /\ c = d + SHORT * (-q)
    BY <1>0, <1>2, <1>3, <1>4, <1>5
  <2>. QED
    BY <2>1, Sizes, ModShift, Zenon
<1>7. d % SHORT = f % SHORT
  <2>1. d \in {f - LONG, f, f + LONG}
    BY <1>0, <1>a, <1>5, Sizes
  <2>. QED
    BY <2>1, SamePlace, Zenon
<1>8. f % SHORT = IF f < 0 THEN f + SHORT ELSE f
  <2>1. -SHORT <= f /\ f < SHORT /\ f < SHORT + SHORT
    BY <1>0, <1>5, Sizes
  <2>. QED
    BY <2>1, Sizes, ModSmall, Zenon
<1>9. ASSUME j >= u PROVE (e + (j - u)) % LONG = (b + j) % LONG
  <2>1. PICK g \in Int : g = e + (j - u)
    BY <1>0
  <2>2. g \in {a - LONG, a, a + LONG}
    BY <1>0, <1>a, <2>1, Sizes
  <2>3. g % LONG = a % LONG
    BY <2>2, SamePlace, Zenon
  <2>. QED
    BY <2>1, <2>3, <1>a, Zenon
<1>10. (k - e) % SHORT = IF j < u THEN j - u + SHORT ELSE j - u
  BY <1>0, <1>5, <1>6, <1>7, <1>8, Sizes
<1>. QED
  BY <1>2, <1>9, <1>10, Zenon
-----------------------------------------------------------------------------
\* There is one reader; no read is made with O_NONBLOCK.
OneReader == \A r, s \in Readers : r = s
OnlyBlocking == \A u \in Uses : "nonblock" \notin u

RdType == [pc : {"idle", "blocked", "woken", "limit", "max", "copy", "begin", "load", "store"},
           size : Nat, index : Long, max : Nat, left : Long, ok : BOOLEAN]

\* A reader in the middle of its read: where it reads is where the unread bytes
\* begin, and it takes no more than there are.
ReaderOk(r) ==
  /\ rd[r].pc \in {"max", "copy", "begin"} => rd[r].index = virtual_begin
  /\ rd[r].pc \in {"copy", "begin"} => rd[r].max <= Unread
  /\ rd[r].pc \in {"begin", "load", "store"} => rd[r].ok
  /\ last[r].ok

Blocking(r) ==
  /\ rd[r].pc \in {"idle", "blocked", "woken"}
  /\ OneReader /\ rd[r].pc = "woken" => cursize # 0

Types ==
  /\ virtual_begin \in Long /\ virtual_end \in Long /\ cursize \in Long /\ mark \in Long
  /\ buffer \in [0..(SHORT - 1) -> -1..(LONG - 1)]
  /\ rd \in [Readers -> RdType]
  /\ last \in [Readers -> [n : Nat, ok : BOOLEAN]]

Flags == uses \in Uses /\ nonblock \in BOOLEAN

\* The unread bytes are in the buffer, each at its place.
Window == Unread <= Cap /\ Right(virtual_begin, Unread)

Count == cursize = (mark - virtual_begin) % LONG /\ cursize <= Unread

\* The inductive invariant.
PipeInv ==
  /\ Types /\ Flags /\ Window
  /\ \A r \in Readers : ReaderOk(r)
  /\ "nonblock" \notin uses => \A r \in Readers : Blocking(r)
  /\ "nonblock" \notin uses /\ OneReader => Count

\* At the start nothing is unread.
LEMMA InvInit == Init => PipeInv
<1>. SUFFICES ASSUME Init PROVE PipeInv
  BY Zenon
<1>1. virtual_begin = 0 /\ virtual_end = 0 /\ cursize = 0 /\ mark = 0
  BY Zenon DEF Init
<1>2. 0 % LONG = 0 /\ 0 - 0 = 0
  BY Sizes, ModSmall
<1>3. Unread = 0 /\ (mark - virtual_begin) % LONG = 0
  BY <1>1, <1>2, Zenon DEF Unread
<1>4. Types
  <2>1. Local \in RdType
    BY Sizes DEF Local, RdType, Long
  <2>2. buffer \in [0..(SHORT - 1) -> -1..(LONG - 1)]
    BY Sizes DEF Init, NONE
  <2>3. 0 \in Long
    BY Sizes DEF Long
  <2>4. rd \in [Readers -> RdType] /\ last \in [Readers -> [n : Nat, ok : BOOLEAN]]
    BY <2>1, Zenon DEF Init
  <2>. QED
    BY <1>1, <2>2, <2>3, <2>4, Zenon DEF Types
<1>5. Flags
  BY Zenon DEF Init, Flags
<1>6. Window
  BY <1>3, Sizes DEF Window, Right
<1>7. \A r \in Readers : rd[r].pc = "idle" /\ last[r].ok
  BY Zenon DEF Init, Local
<1>8. \A r \in Readers : ReaderOk(r)
  BY <1>7, Zenon DEF ReaderOk
<1>9. \A r \in Readers : Blocking(r)
  BY <1>7, Zenon DEF Blocking
<1>10. Count
  BY <1>1, <1>3 DEF Count
<1>. QED
  BY <1>4, <1>5, <1>6, <1>8, <1>9, <1>10, Zenon DEF PipeInv

-----------------------------------------------------------------------------
\* A remainder is in range.
LEMMA ModIn ==
  ASSUME NEW a \in Int
  PROVE  a % LONG \in Long
<1>1. PICK q \in Int, r \in 0..(LONG - 1) : a = LONG * q + r /\ a % LONG = r
  BY Sizes, Division, Zenon
<1>. QED
  BY <1>1, Zenon DEF Long

\* A number in range is its own remainder.
LEMMA LongMod ==
  ASSUME NEW d \in Long
  PROVE  d % LONG = d
<1>1. d \in Int /\ -LONG <= d /\ d < LONG + LONG /\ 0 <= d /\ d < LONG
  BY Sizes DEF Long
<1>. QED
  BY <1>1, Sizes, ModSmall

\* The distance from b of an index that is d bytes behind b, in whatever way it
\* has wrapped.
LEMMA Distance ==
  ASSUME NEW b \in Int, NEW d \in Long, NEW x \in Int,
         x \in {b + d, b + d - LONG, b + d - LONG - LONG, b + d + LONG}
  PROVE  (x - b) % LONG = d
<1>1. PICK y \in Int, z \in Int : y = x - b /\ z = IF y = d - LONG - LONG THEN y + LONG ELSE y
  BY Sizes
<1>2. d \in Int /\ y \in {z - LONG, z, z + LONG} /\ z \in {d - LONG, d, d + LONG}
  BY <1>1, Sizes DEF Long
<1>3. y % LONG = z % LONG
  BY <1>2, SamePlace, Zenon
<1>4. z % LONG = d % LONG
  BY <1>2, SamePlace, Zenon
<1>5. d % LONG = d
  BY LongMod, Zenon
<1>. QED
  BY <1>1, <1>3, <1>4, <1>5, Zenon

\* A write of n bytes, while there is room for them: the window of the unread
\* bytes grows by n.
LEMMA WriteGrows ==
  ASSUME Types, Window, NEW n \in Nat, Unread + n <= Cap,
         virtual_end' = Advance(virtual_end, n), virtual_begin' = virtual_begin,
         buffer' = [k \in DOMAIN buffer |->
                      LET i == (k - virtual_end) % SHORT
                      IN IF i < n THEN (virtual_end + i) % LONG ELSE buffer[k]]
  PROVE  /\ Unread' = Unread + n /\ Window'
         /\ virtual_end' \in Long /\ buffer' \in [0..(SHORT - 1) -> -1..(LONG - 1)]
<1>1. PICK b, e, u : b = virtual_begin /\ e = virtual_end /\ u = Unread
  BY Zenon
<1>2. b \in Long /\ e \in Long /\ u = (e - b) % LONG
  BY <1>1, Zenon DEF Types, Unread
<1>3. u \in Long /\ (e = b + u \/ e = b + u - LONG)
  BY <1>2, UnreadFacts
<1>4. u + n \in Long /\ n \in 0..LONG /\ u + n <= SHORT /\ u + n <= Cap /\ b \in Int /\ u \in Nat /\ e \in Int
  BY <1>1, <1>2, <1>3, Sizes DEF Long
<1>5. PICK f : f = Advance(e, n)
  BY Zenon
<1>6. f \in Long /\ (f = e + n \/ f = e + n - LONG)
  BY <1>2, <1>4, <1>5, AdvanceFacts, Zenon
<1>7. Unread' = u + n
  <2>1. PICK d \in Long : d = u + n
    BY <1>4, Zenon
  <2>2. f \in Int /\ f \in {b + d, b + d - LONG, b + d - LONG - LONG, b + d + LONG}
    BY <1>3, <1>4, <1>6, <2>1, Sizes DEF Long
  <2>3. (f - b) % LONG = d
    BY <1>4, <2>2, Distance, Zenon
  <2>. QED
    BY <1>1, <1>5, <2>1, <2>3, Zenon DEF Unread
<1>8. ASSUME NEW j \in 0..(u + n - 1) PROVE buffer'[(b + j) % SHORT] = (b + j) % LONG
  <2>1. PICK k : k = (b + j) % SHORT
    BY Zenon
  <2>2. /\ k \in 0..(SHORT - 1)
        /\ (k - e) % SHORT = IF j < u THEN j - u + SHORT ELSE j - u
        /\ j >= u => (e + (j - u)) % LONG = (b + j) % LONG
    BY <1>2, <1>4, <2>1, Slot
  <2>3. PICK i : i = (k - e) % SHORT
    BY Zenon
  <2>4. buffer'[k] = IF i < n THEN (e + i) % LONG ELSE buffer[k]
    BY <1>1, <2>2, <2>3, Zenon DEF Types
  <2>5. CASE j < u
    <3>1. i = j - u + SHORT /\ ~(i < n)
      BY <1>4, <2>2, <2>3, <2>5, Sizes
    <3>2. j \in 0..(u - 1)
      BY <1>4, <2>5
    <3>3. buffer[(b + j) % SHORT] = (b + j) % LONG
      BY <1>1, <3>2, Zenon DEF Window, Right
    <3>. QED
      BY <2>1, <2>4, <3>1, <3>3, Zenon
  <2>6. CASE j >= u
    <3>1. i = j - u /\ i < n
      BY <1>4, <2>2, <2>3, <2>6, Sizes
    <3>. QED
      BY <2>1, <2>2, <2>4, <2>6, <3>1, Zenon
  <2>. QED
    BY <1>4, <2>5, <2>6
<1>9. Window'
  <2>0. virtual_begin' = b
    BY <1>1, Zenon
  <2>1. PICK B : B = buffer'
    BY Zenon
  <2>2. \A j \in 0..(u + n - 1) : B[(b + j) % SHORT] = (b + j) % LONG
    BY <1>8, <2>1, Zenon
  <2>3. Right(virtual_begin, Unread)'
    <3>1. ASSUME NEW i \in 0..(Unread' - 1)
          PROVE  buffer'[(virtual_begin' + i) % SHORT] = (virtual_begin' + i) % LONG
      <4>1. i \in 0..(u + n - 1)
        BY <1>4, <1>7
      <4>2. B[(b + i) % SHORT] = (b + i) % LONG
        BY <2>2, <4>1, Zenon
      <4>. QED
        BY <2>0, <2>1, <4>2, Zenon
    <3>. QED
      BY <3>1, Zenon DEF Right
  <2>. QED
    BY <1>4, <1>7, <2>3, Zenon DEF Window
<1>10. buffer' \in [0..(SHORT - 1) -> -1..(LONG - 1)]
  <2>1. DOMAIN buffer = 0..(SHORT - 1)
    BY Zenon DEF Types
  <2>2. ASSUME NEW k \in 0..(SHORT - 1) PROVE buffer'[k] \in -1..(LONG - 1)
    <3>1. PICK i : i = (k - e) % SHORT
      BY Zenon
    <3>2. i \in Int
      <4>1. PICK c \in Int : c = k - e
        BY <1>4
      <4>2. PICK q \in Int, r \in 0..(SHORT - 1) : c = SHORT * q + r /\ c % SHORT = r
        BY Sizes, Division, Zenon
      <4>. QED
        BY <3>1, <4>1, <4>2
    <3>3. (e + i) % LONG \in -1..(LONG - 1)
      <4>1. PICK c \in Int : c = e + i
        BY <1>4, <3>2
      <4>2. c % LONG \in 0..(LONG - 1)
        BY ModIn, Zenon DEF Long
      <4>. QED
        BY <4>1, <4>2, Sizes
    <3>4. buffer'[k] = IF i < n THEN (e + i) % LONG ELSE buffer[k]
      BY <1>1, <2>1, <3>1, Zenon
    <3>5. buffer[k] \in -1..(LONG - 1)
      BY Zenon DEF Types
    <3>. QED
      BY <3>3, <3>4, <3>5, Zenon
  <2>. QED
    BY <2>1, <2>2, Zenon
<1>. QED
  BY <1>1, <1>5, <1>6, <1>7, <1>9, <1>10, Zenon

\* A read takes n bytes of the window.
LEMMA ReadShrinks ==
  ASSUME Types, Window, NEW n \in Nat, n <= Unread,
         virtual_begin' = Advance(virtual_begin, n), virtual_end' = virtual_end,
         buffer' = buffer
  PROVE  Unread' = Unread - n /\ Window' /\ virtual_begin' \in Long
<1>1. PICK b, e, u, c : /\ b = virtual_begin /\ e = virtual_end /\ u = Unread
                        /\ c = Advance(b, n)
  BY Zenon
<1>2. b \in Long /\ e \in Long /\ u = (e - b) % LONG
  BY <1>1, Zenon DEF Types, Unread
<1>3. u \in Long /\ (e = b + u \/ e = b + u - LONG)
  BY <1>2, UnreadFacts
<1>4. u - n \in Long /\ n \in 0..LONG /\ u - n <= Cap /\ b \in Int /\ u \in Nat /\ e \in Int
  BY <1>1, <1>2, <1>3, Sizes DEF Long, Window
<1>5. c \in Long /\ (c = b + n \/ c = b + n - LONG)
  BY <1>1, <1>2, <1>4, AdvanceFacts, Zenon
<1>6. Unread' = u - n
  <2>1. PICK d \in Long : d = u - n
    BY <1>4, Zenon
  <2>2. c \in Int /\ e \in {c + d, c + d - LONG, c + d - LONG - LONG, c + d + LONG}
    BY <1>3, <1>4, <1>5, <2>1, Sizes DEF Long
  <2>3. (e - c) % LONG = d
    BY <1>4, <2>2, Distance, Zenon
  <2>. QED
    BY <1>1, <2>1, <2>3, Zenon DEF Unread
<1>7. ASSUME NEW j \in 0..(u - n - 1) PROVE buffer[(c + j) % SHORT] = (c + j) % LONG
  <2>1. PICK i \in 0..(u - 1) : i = n + j
    BY <1>4
  <2>2. buffer[(b + i) % SHORT] = (b + i) % LONG
    BY <1>1, Zenon DEF Window, Right
  <2>3. PICK x \in Int, y \in Int : x = b + i /\ y = c + j
    BY <1>4, <1>5 DEF Long
  <2>4. y \in {x - LONG, x, x + LONG}
    BY <1>4, <1>5, <2>1, <2>3, Sizes
  <2>5. y % LONG = x % LONG /\ y % SHORT = x % SHORT
    BY <2>4, SamePlace, Zenon
  <2>. QED
    BY <2>2, <2>3, <2>5, Zenon
<1>8. Window'
  <2>1. virtual_begin' = c
    BY <1>1, Zenon
  <2>2. Right(virtual_begin, Unread)'
    BY <1>6, <1>7, <2>1, Zenon DEF Right
  <2>. QED
    BY <1>4, <1>6, <2>2, Zenon DEF Window
<1>. QED
  BY <1>1, <1>5, <1>6, <1>8, Zenon

\* Unread is a number.
LEMMA UnreadNat == Types => Unread \in Nat /\ Unread \in Long
<1>1. ASSUME Types PROVE Unread \in Long
  BY <1>1, UnreadFacts, Zenon DEF Types, Unread
<1>. QED
  BY <1>1, Sizes DEF Long

\* What a read copies from the beginning of the window is right.
LEMMA CopyRight ==
  ASSUME Types, Window, NEW n \in Nat, n <= Unread
  PROVE  Right(virtual_begin, n)
<1>1. Unread \in Nat
  BY UnreadNat, Zenon
<1>2. 0..(n - 1) \subseteq 0..(Unread - 1)
  BY <1>1
<1>. QED
  BY <1>2, Zenon DEF Window, Right

\* cursize after a write that counts its i-th byte last.
LEMMA WriteCounts ==
  ASSUME Types, Window, NEW n \in Nat, Unread + n <= Cap, NEW i \in 0..(n - 1)
  PROVE  /\ Counted(i) = Unread + i + 1
         /\ (virtual_end + i + 1) % LONG \in Long
         /\ (((virtual_end + i + 1) % LONG) - virtual_begin) % LONG = Unread + i + 1
<1>1. PICK b, e, u, m : /\ b = virtual_begin /\ e = virtual_end /\ u = Unread
                        /\ m = Advance(e, i + 1)
  BY Zenon
<1>2. b \in Long /\ e \in Long /\ u = (e - b) % LONG
  BY <1>1, Zenon DEF Types, Unread
<1>3. u \in Long /\ (e = b + u \/ e = b + u - LONG)
  BY <1>2, UnreadFacts
<1>4. /\ u + i + 1 \in Long /\ i + 1 \in 0..LONG
      /\ b \in Int /\ u \in Nat /\ e \in Int /\ i \in Int
  BY <1>1, <1>2, <1>3, Sizes DEF Long
<1>5. m \in Long /\ (m = e + (i + 1) \/ m = e + (i + 1) - LONG)
  BY <1>1, <1>2, <1>4, AdvanceFacts, Zenon
<1>6. PICK d \in Long : d = u + i + 1
  BY <1>4, Zenon
<1>7. (m - b) % LONG = d
  <2>1. m \in Int /\ m \in {b + d, b + d - LONG, b + d - LONG - LONG, b + d + LONG}
    BY <1>3, <1>4, <1>5, <1>6, Sizes DEF Long
  <2>. QED
    BY <1>4, <2>1, Distance, Zenon
<1>8. e + i + 1 = e + (i + 1)
  BY <1>4
<1>9. m = (e + i + 1) % LONG
  BY <1>1, <1>8, Zenon DEF Advance
<1>10. d % LONG = d
  BY LongMod, Zenon
<1>. QED
  BY <1>1, <1>5, <1>6, <1>7, <1>9, <1>10, Zenon DEF Counted

\* cursize after a read of no more bytes than were counted.
LEMMA ReadCounts ==
  ASSUME Types, Count, NEW n \in Nat, n <= cursize
  PROVE  /\ (cursize - n) % LONG = cursize - n
         /\ (mark - Advance(virtual_begin, n)) % LONG = cursize - n
<1>1. PICK b, m, u, c : /\ b = virtual_begin /\ m = mark /\ u = cursize
                        /\ c = Advance(b, n)
  BY Zenon
<1>2. b \in Long /\ m \in Long /\ u = (m - b) % LONG
  BY <1>1, Zenon DEF Types, Count
<1>3. u \in Long /\ (m = b + u \/ m = b + u - LONG)
  BY <1>2, UnreadFacts
<1>4. n \in 0..LONG /\ b \in Int /\ u \in Nat /\ m \in Int
  BY <1>1, <1>2, <1>3, Sizes DEF Long
<1>5. c \in Long /\ (c = b + n \/ c = b + n - LONG)
  BY <1>1, <1>2, <1>4, AdvanceFacts, Zenon
<1>6. PICK d \in Long : d = u - n
  BY <1>1, <1>3, <1>4, Sizes DEF Long
<1>7. (m - c) % LONG = d
  <2>1. c \in Int /\ m \in {c + d, c + d - LONG, c + d - LONG - LONG, c + d + LONG}
    BY <1>3, <1>4, <1>5, <1>6, Sizes DEF Long
  <2>. QED
    BY <1>4, <2>1, Distance, Zenon
<1>8. d % LONG = d
  BY LongMod, Zenon
<1>. QED
  BY <1>1, <1>6, <1>7, <1>8, Zenon

-----------------------------------------------------------------------------
\* A write preserves the invariant.
LEMMA WriteKeeps == PipeInv /\ Write => PipeInv'
<1>. SUFFICES ASSUME PipeInv, Write PROVE PipeInv'
  BY Zenon
<1>0. PICK n \in WriteSizes, flag \in BOOLEAN :
        \E lines \in SUBSET (0..(n - 1)) : pipe_write_raw(n, lines, flag)
  BY Zenon DEF Write
<1>1. PICK lines \in SUBSET (0..(n - 1)) : pipe_write_raw(n, lines, flag)
  BY <1>0, Zenon
<1>2. PICK counted : counted = IF nonblock \/ flag THEN 0..(n - 1) ELSE lines
  BY Zenon
<1>3. /\ Unread <= Cap => Unread + n <= Cap
      /\ nonblock' = (nonblock \/ flag)
      /\ virtual_end' = Advance(virtual_end, n)
      /\ \/ counted = {} /\ cursize' = cursize /\ mark' = mark
         \/ /\ counted # {}
            /\ cursize' = Counted(Max(counted))
            /\ mark' = (virtual_end + Max(counted) + 1) % LONG
      /\ virtual_begin' = virtual_begin /\ uses' = uses /\ rd' = rd /\ last' = last
  BY <1>1, <1>2, Zenon DEF pipe_write_raw
<1>4. buffer' = [k \in DOMAIN buffer |->
                   LET i == (k - virtual_end) % SHORT
                   IN IF i < n THEN (virtual_end + i) % LONG ELSE buffer[k]]
  BY <1>1, Zenon DEF pipe_write_raw
<1>5. Types /\ Flags /\ Window
  BY Zenon DEF PipeInv
<1>6. n \in Nat /\ n > 0 /\ Unread \in Nat
  BY <1>5, UnreadNat, PipeAssumption
<1>7. Unread + n <= Cap
  BY <1>3, <1>5, Zenon DEF Window
<1>8. /\ Unread' = Unread + n /\ Window'
      /\ virtual_end' \in Long /\ buffer' \in [0..(SHORT - 1) -> -1..(LONG - 1)]
  BY <1>3, <1>4, <1>5, <1>6, <1>7, WriteGrows, Zenon
<1>9. /\ cursize' \in Long /\ mark' \in Long
      /\ cursize # 0 => cursize' # 0
      /\ Count => Count'
  <2>1. CASE counted = {}
    <3>1. cursize' = cursize /\ mark' = mark
      BY <1>3, <2>1, Zenon
    <3>. QED
      BY <1>3, <1>5, <1>6, <1>8, <3>1 DEF Types, Count, Long
  <2>2. CASE counted # {}
    <3>1. counted \in SUBSET (0..(n - 1))
      BY <1>2, Zenon
    <3>2. PICK i \in 0..(n - 1) : i = Max(counted)
      BY <1>6, <2>2, <3>1, MaxIn, Zenon
    <3>3. cursize' = Counted(i) /\ mark' = (virtual_end + i + 1) % LONG
      BY <1>3, <2>2, <3>2, Zenon
    <3>4. /\ Counted(i) = Unread + i + 1
          /\ (virtual_end + i + 1) % LONG \in Long
          /\ (((virtual_end + i + 1) % LONG) - virtual_begin) % LONG = Unread + i + 1
      BY <1>5, <1>6, <1>7, WriteCounts, Zenon
    <3>5. cursize' = Unread + i + 1 /\ mark' \in Long
      BY <3>3, <3>4, Zenon
    <3>6. (mark' - virtual_begin') % LONG = Unread + i + 1
      BY <1>3, <3>3, <3>4, Zenon
    <3>7. Unread + i + 1 \in Long /\ Unread + i + 1 <= Unread + n /\ Unread + i + 1 # 0
      BY <1>6, <1>7, Sizes DEF Long
    <3>. QED
      BY <1>8, <3>5, <3>6, <3>7, Zenon DEF Count
  <2>. QED
    BY <2>1, <2>2, Zenon
<1>10. Types'
  BY <1>3, <1>5, <1>8, <1>9, Zenon DEF Types
<1>11. Flags'
  <2>1. nonblock \in BOOLEAN /\ uses \in Uses
    BY <1>5, Zenon DEF Flags
  <2>. QED
    BY <1>3, <2>1, Zenon DEF Flags
<1>12. \A r \in Readers : ReaderOk(r)'
  <2>. SUFFICES ASSUME NEW r \in Readers PROVE ReaderOk(r)'
    BY Zenon
  <2>1. ReaderOk(r)
    BY Zenon DEF PipeInv
  <2>2. rd[r].max \in Nat
    BY <1>5, Zenon DEF Types, RdType
  <2>. QED
    BY <1>3, <1>6, <1>8, <2>1, <2>2 DEF ReaderOk
<1>13. "nonblock" \notin uses' => \A r \in Readers : Blocking(r)'
  BY <1>3, <1>9, Zenon DEF PipeInv, Blocking
<1>14. "nonblock" \notin uses' /\ OneReader => Count'
  BY <1>3, <1>9, Zenon DEF PipeInv
<1>. QED
  BY <1>8, <1>10, <1>11, <1>12, <1>13, <1>14, Zenon DEF PipeInv

\* A step of reader r preserves the invariant when it keeps the part of it that
\* is about r and about the ring: other readers either do not exist, or are at
\* no point where they rely on the ring.
LEMMA ReaderKeeps ==
  ASSUME PipeInv, OneReader \/ "nonblock" \notin uses, NEW r \in Readers,
         NEW x \in RdType, NEW y \in [n : Nat, ok : BOOLEAN],
         rd' = [rd EXCEPT ![r] = x], last' = [last EXCEPT ![r] = y],
         uses' = uses, nonblock' = nonblock, mark' = mark,
         virtual_begin' \in Long, virtual_end' = virtual_end, cursize' \in Long,
         buffer' = buffer, Window',
         ReaderOk(r)', "nonblock" \notin uses => Blocking(r)',
         "nonblock" \notin uses /\ OneReader => Count'
  PROVE  PipeInv'
<1>1. Types'
  BY Zenon DEF PipeInv, Types
<1>2. Flags'
  BY Zenon DEF PipeInv, Flags
<1>3. ASSUME NEW s \in Readers, s # r
      PROVE  ReaderOk(s)' /\ ("nonblock" \notin uses => Blocking(s)')
  <2>1. ~OneReader /\ "nonblock" \notin uses
    BY <1>3, Zenon DEF OneReader
  <2>2. rd'[s] = rd[s] /\ last'[s] = last[s]
    BY <1>3, Zenon DEF PipeInv, Types
  <2>3. Blocking(s) /\ ReaderOk(s)
    BY <2>1, Zenon DEF PipeInv
  <2>. QED
    BY <2>1, <2>2, <2>3, Zenon DEF ReaderOk, Blocking
<1>. QED
  BY <1>1, <1>2, <1>3, Zenon DEF PipeInv

\* The same for a step that changes nothing but the locals of r.
LEMMA LocalKeeps ==
  ASSUME PipeInv, OneReader \/ "nonblock" \notin uses, NEW r \in Readers,
         NEW x \in RdType, NEW y \in [n : Nat, ok : BOOLEAN],
         rd' = [rd EXCEPT ![r] = x], last' = [last EXCEPT ![r] = y],
         UNCHANGED <<virtual_begin, virtual_end, cursize, buffer, uses, nonblock, mark>>,
         ReaderOk(r)', "nonblock" \notin uses => Blocking(r)'
  PROVE  PipeInv'
<1>1. Unread' = Unread
  BY Zenon DEF Unread
<1>2. Window'
  BY <1>1, Zenon DEF PipeInv, Window, Right
<1>3. "nonblock" \notin uses /\ OneReader => Count'
  BY <1>1, Zenon DEF PipeInv, Count
<1>4. virtual_begin' \in Long /\ cursize' \in Long
  BY Zenon DEF PipeInv, Types
<1>. QED
  BY <1>2, <1>3, <1>4, ReaderKeeps, Zenon

\* A read begins.
LEMMA CallKeeps ==
  ASSUME PipeInv, OneReader \/ "nonblock" \notin uses, NEW r \in Readers, Call(r)
  PROVE  PipeInv'
<1>1. PICK n \in ReadSizes, to \in {"blocked", "limit"} :
        pipe_read_raw(r, n, to) /\ ("nonblock" \notin uses => to = "blocked")
  BY Zenon DEF Call
<1>2. Types /\ rd[r] \in RdType /\ last[r] \in [n : Nat, ok : BOOLEAN]
  BY Zenon DEF PipeInv, Types
<1>3. PICK x : x = [rd[r] EXCEPT !.pc = to, !.size = n]
  BY Zenon
<1>4. n \in Nat
  BY PipeAssumption, Zenon
<1>5. x \in RdType /\ x.pc = to
  BY <1>2, <1>3, <1>4, Zenon DEF RdType
<1>6. rd' = [rd EXCEPT ![r] = x] /\ last' = [last EXCEPT ![r] = last[r]]
  BY <1>1, <1>2, <1>3, Zenon DEF pipe_read_raw, Types, RdType
<1>7. rd'[r] = x /\ last'[r] = last[r]
  BY <1>2, <1>6, Zenon DEF Types
<1>8. ReaderOk(r)'
  BY <1>1, <1>5, <1>7, Zenon DEF PipeInv, ReaderOk
<1>9. "nonblock" \notin uses => Blocking(r)'
  BY <1>1, <1>5, <1>7, Zenon DEF Blocking
<1>. QED
  BY <1>1, <1>2, <1>5, <1>6, <1>8, <1>9, LocalKeeps, Zenon DEF pipe_read_raw, ring

\* A blocking read is woken.
LEMMA BlockKeeps ==
  ASSUME PipeInv, OneReader \/ "nonblock" \notin uses, NEW r \in Readers,
         ringbuffer_block(r)
  PROVE  PipeInv'
<1>2. Types /\ rd[r] \in RdType /\ last[r] \in [n : Nat, ok : BOOLEAN]
  BY Zenon DEF PipeInv, Types
<1>3. PICK x : x = [rd[r] EXCEPT !.pc = "woken"]
  BY Zenon
<1>5. x \in RdType /\ x.pc = "woken"
  BY <1>2, <1>3, Zenon DEF RdType
<1>6. rd' = [rd EXCEPT ![r] = x] /\ last' = [last EXCEPT ![r] = last[r]]
  BY <1>2, <1>3, Zenon DEF ringbuffer_block, Goes, Types, RdType
<1>7. rd'[r] = x /\ last'[r] = last[r]
  BY <1>2, <1>6, Zenon DEF Types
<1>8. ReaderOk(r)'
  BY <1>5, <1>7, Zenon DEF PipeInv, ReaderOk
<1>9. Blocking(r)'
  BY <1>5, <1>7, Zenon DEF Blocking, ringbuffer_block, ring
<1>. QED
  BY <1>2, <1>5, <1>6, <1>8, <1>9, LocalKeeps, Zenon DEF ringbuffer_block, ring

\* The read of a reader that was woken.
LEMMA ReadKeeps ==
  ASSUME PipeInv, OneReader \/ "nonblock" \notin uses, NEW r \in Readers,
         ringbuffer_read(r)
  PROVE  PipeInv'
<1>1. PICK n : n = Min({Limit(rd[r].size), Unread})
  BY Zenon
<1>2. Types /\ Window /\ rd[r] \in RdType /\ last[r] \in [n : Nat, ok : BOOLEAN]
  BY Zenon DEF PipeInv, Types
<1>3. Unread \in Nat /\ cursize \in Nat /\ cursize \in Int /\ rd[r].size \in Nat
  BY <1>2, UnreadNat DEF Types, Long, RdType
<1>4. PICK z : z = Limit(rd[r].size)
  BY Zenon
<1>5. z \in Nat /\ (cursize # 0 => z <= cursize)
  BY <1>3, <1>4, MinTwo DEF Limit
<1>6. n \in Nat /\ n <= Unread /\ (cursize # 0 => n <= cursize)
  <2>1. n = IF z <= Unread THEN z ELSE Unread
    BY <1>1, <1>3, <1>4, <1>5, MinTwo
  <2>. QED
    BY <1>3, <1>5, <2>1
<1>7. /\ rd[r].pc = "woken"
      /\ virtual_begin' = Advance(virtual_begin, n)
      /\ cursize' = Taken(n)
      /\ rd' = [rd EXCEPT ![r] = Local]
      /\ last' = [last EXCEPT ![r] = [n |-> n, ok |-> Right(virtual_begin, n)]]
      /\ UNCHANGED <<virtual_end, buffer, uses, nonblock, mark>>
  BY <1>1, Zenon DEF ringbuffer_read, Returns
<1>8. Unread' = Unread - n /\ Window' /\ virtual_begin' \in Long
  BY <1>2, <1>6, <1>7, ReadShrinks, Zenon
<1>9. Right(virtual_begin, n)
  BY <1>2, <1>6, CopyRight, Zenon
<1>10. PICK y : y = [n |-> n, ok |-> Right(virtual_begin, n)]
  BY Zenon
<1>11. y \in [n : Nat, ok : BOOLEAN] /\ y.ok
  <2>1. Right(virtual_begin, n) = TRUE
    BY <1>9, Zenon DEF Right
  <2>. QED
    BY <1>6, <1>10, <2>1, Zenon
<1>12. Local \in RdType /\ Local.pc = "idle"
  BY Sizes DEF Local, RdType, Long
<1>13. rd'[r] = Local /\ last'[r] = y
  BY <1>2, <1>7, <1>10, Zenon DEF Types
<1>14. ReaderOk(r)'
  BY <1>11, <1>12, <1>13, Zenon DEF ReaderOk
<1>15. Blocking(r)'
  BY <1>12, <1>13, Zenon DEF Blocking
<1>16. cursize' \in Long
  <2>1. PICK c \in Int : c = cursize - n
    BY <1>3, <1>6
  <2>2. c % LONG \in Long /\ 0 \in Long
    BY ModIn, Sizes DEF Long
  <2>. QED
    BY <1>7, <2>1, <2>2, Zenon DEF Taken
<1>17. ASSUME "nonblock" \notin uses, OneReader PROVE Count'
  <2>1. Count /\ cursize # 0
    BY <1>7, <1>17, Zenon DEF PipeInv, Blocking
  <2>2. /\ (cursize - n) % LONG = cursize - n
        /\ (mark - Advance(virtual_begin, n)) % LONG = cursize - n
    BY <1>2, <1>6, <2>1, ReadCounts, Zenon
  <2>3. cursize' = cursize - n /\ (mark' - virtual_begin') % LONG = cursize - n
    BY <1>7, <2>1, <2>2, Zenon DEF Taken
  <2>4. cursize <= Unread
    BY <2>1, Zenon DEF Count
  <2>. QED
    BY <1>3, <1>6, <1>8, <2>3, <2>4 DEF Count
<1>. QED
  BY <1>7, <1>8, <1>10, <1>11, <1>12, <1>14, <1>15, <1>16, <1>17, ReaderKeeps, Zenon

\* A read with O_NONBLOCK: the limit by cursize and the place to read at.
LEMMA LimitKeeps ==
  ASSUME PipeInv, OneReader \/ "nonblock" \notin uses, NEW r \in Readers,
         ReadLimit(r)
  PROVE  PipeInv'
<1>1. Types /\ Window /\ rd[r] \in RdType /\ last[r] \in [n : Nat, ok : BOOLEAN]
  BY Zenon DEF PipeInv, Types
<1>2. ReaderOk(r) /\ "nonblock" \in uses
  BY Zenon DEF PipeInv, Blocking, ReadLimit
<1>3. PICK z \in Nat : z = Limit(rd[r].size)
  <2>1. /\ cursize \in Nat /\ cursize \in Int
        /\ rd[r].size \in Nat /\ rd[r].size \in Int
    BY <1>1 DEF Types, Long, RdType
  <2>2. Min({cursize, rd[r].size}) = IF cursize <= rd[r].size THEN cursize ELSE rd[r].size
    BY <2>1, MinTwo, Zenon
  <2>3. Limit(rd[r].size) \in Nat
    BY <2>1, <2>2, Zenon DEF Limit
  <2>. QED
    BY <2>3, Zenon
<1>4. PICK x : x = [rd[r] EXCEPT !.pc = "max", !.size = z, !.index = virtual_begin]
  BY Zenon
<1>5. x \in RdType /\ x.pc = "max" /\ x.index = virtual_begin
  BY <1>1, <1>3, <1>4, Zenon DEF RdType, Types
<1>6. rd' = [rd EXCEPT ![r] = x] /\ last' = [last EXCEPT ![r] = last[r]]
  BY <1>1, <1>3, <1>4, Zenon DEF ReadLimit, Types, RdType
<1>7. rd'[r] = x /\ last'[r] = last[r] /\ Unread' = Unread
  BY <1>1, <1>6, Zenon DEF Types, ReadLimit, ring, Unread
<1>8. ReaderOk(r)'
  <2>1. virtual_begin' = virtual_begin /\ rd[r].pc = "limit"
    BY Zenon DEF ReadLimit, ring
  <2>. QED
    BY <1>2, <1>3, <1>5, <1>7, <2>1, Zenon DEF ReaderOk
<1>. QED
  BY <1>1, <1>2, <1>5, <1>6, <1>8, LocalKeeps, Zenon DEF ReadLimit, ring

\* The limit by what there is.
LEMMA MaxKeeps ==
  ASSUME PipeInv, OneReader \/ "nonblock" \notin uses, NEW r \in Readers,
         ReadMax(r)
  PROVE  PipeInv'
<1>1. Types /\ Window /\ rd[r] \in RdType /\ last[r] \in [n : Nat, ok : BOOLEAN]
  BY Zenon DEF PipeInv, Types
<1>2. ReaderOk(r) /\ "nonblock" \in uses
  BY Zenon DEF PipeInv, Blocking, ReadMax
<1>3. PICK z \in Nat : z = Min({rd[r].size, Unread}) /\ z <= Unread
  <2>1. Unread \in Nat /\ rd[r].size \in Nat
    BY <1>1, UnreadNat, Zenon DEF RdType
  <2>2. PICK a \in Nat, b \in Nat : a = rd[r].size /\ b = Unread
    BY <2>1, Zenon
  <2>3. Min({a, b}) \in Nat /\ Min({a, b}) <= b
    BY MinTwo
  <2>. QED
    BY <2>2, <2>3, Zenon
<1>4. PICK x : x = [rd[r] EXCEPT !.pc = "copy", !.max = z]
  BY Zenon
<1>5. x \in RdType /\ x.pc = "copy" /\ x.index = rd[r].index /\ x.max = z
  BY <1>1, <1>3, <1>4, Zenon DEF RdType
<1>6. rd' = [rd EXCEPT ![r] = x] /\ last' = [last EXCEPT ![r] = last[r]]
  BY <1>1, <1>3, <1>4, Zenon DEF ReadMax, Types, RdType
<1>7. rd'[r] = x /\ last'[r] = last[r] /\ Unread' = Unread
  BY <1>1, <1>6, Zenon DEF Types, ReadMax, ring, Unread
<1>8. ReaderOk(r)'
  <2>1. virtual_begin' = virtual_begin /\ rd[r].pc = "max"
    BY Zenon DEF ReadMax, ring
  <2>. QED
    BY <1>2, <1>3, <1>5, <1>7, <2>1, Zenon DEF ReaderOk
<1>. QED
  BY <1>1, <1>2, <1>5, <1>6, <1>8, LocalKeeps, Zenon DEF ReadMax, ring

\* The copy: nothing has come between the place to read at and the bytes.
LEMMA CopyKeeps ==
  ASSUME PipeInv, OneReader \/ "nonblock" \notin uses, NEW r \in Readers,
         ReadCopy(r)
  PROVE  PipeInv'
<1>1. Types /\ Window /\ rd[r] \in RdType /\ last[r] \in [n : Nat, ok : BOOLEAN]
  BY Zenon DEF PipeInv, Types
<1>2. ReaderOk(r) /\ "nonblock" \in uses
  BY Zenon DEF PipeInv, Blocking, ReadCopy
<1>3. PICK z \in BOOLEAN : z = Right(rd[r].index, rd[r].max) /\ z
  <2>1. rd[r].index = virtual_begin /\ rd[r].max \in Nat /\ rd[r].max <= Unread
    BY <1>1, <1>2, Zenon DEF ReaderOk, RdType, ReadCopy
  <2>2. Right(virtual_begin, rd[r].max)
    BY <1>1, <2>1, CopyRight, Zenon
  <2>3. Right(virtual_begin, rd[r].max) = TRUE
    BY <2>2, Zenon DEF Right
  <2>. QED
    BY <2>1, <2>3, Zenon
<1>4. PICK x : x = [rd[r] EXCEPT !.pc = "begin", !.ok = z]
  BY Zenon
<1>5. x \in RdType /\ x.pc = "begin" /\ x.index = rd[r].index /\ x.max = rd[r].max /\ x.ok = z
  BY <1>1, <1>3, <1>4, Zenon DEF RdType
<1>6. rd' = [rd EXCEPT ![r] = x] /\ last' = [last EXCEPT ![r] = last[r]]
  BY <1>1, <1>3, <1>4, Zenon DEF ReadCopy, Types, RdType
<1>7. rd'[r] = x /\ last'[r] = last[r] /\ Unread' = Unread
  BY <1>1, <1>6, Zenon DEF Types, ReadCopy, ring, Unread
<1>8. ReaderOk(r)'
  <2>1. virtual_begin' = virtual_begin /\ rd[r].pc = "copy"
    BY Zenon DEF ReadCopy, ring
  <2>. QED
    BY <1>2, <1>3, <1>5, <1>7, <2>1, Zenon DEF ReaderOk
<1>. QED
  BY <1>1, <1>2, <1>5, <1>6, <1>8, LocalKeeps, Zenon DEF ReadCopy, ring

\* The bytes that were copied are taken.
LEMMA BeginKeeps ==
  ASSUME PipeInv, OneReader \/ "nonblock" \notin uses, NEW r \in Readers,
         ReadBegin(r)
  PROVE  PipeInv'
<1>1. Types /\ Window /\ rd[r] \in RdType /\ last[r] \in [n : Nat, ok : BOOLEAN]
  BY Zenon DEF PipeInv, Types
<1>2. ReaderOk(r) /\ "nonblock" \in uses
  BY Zenon DEF PipeInv, Blocking, ReadBegin, Goes
<1>3. PICK n : n = rd[r].max
  BY Zenon
<1>4. PICK x : x = [rd[r] EXCEPT !.pc = "load"]
  BY Zenon
<1>5. x \in RdType /\ x.pc = "load" /\ x.ok = rd[r].ok
  BY <1>1, <1>4, Zenon DEF RdType
<1>6. rd' = [rd EXCEPT ![r] = x] /\ last' = [last EXCEPT ![r] = last[r]]
  BY <1>1, <1>4, Zenon DEF ReadBegin, Goes, Types, RdType
<1>7. rd'[r] = x /\ last'[r] = last[r]
  BY <1>1, <1>6, Zenon DEF Types
<1>8. ReaderOk(r)'
  BY <1>2, <1>5, <1>7, Zenon DEF ReaderOk, ReadBegin, Goes
<1>9. n \in Nat /\ n <= Unread /\ virtual_begin' = Advance(virtual_begin, n)
  BY <1>1, <1>2, <1>3, Zenon DEF ReaderOk, ReadBegin, Goes, RdType
<1>10. Window' /\ virtual_begin' \in Long
  BY <1>1, <1>9, ReadShrinks, Zenon DEF ReadBegin
<1>11. cursize' \in Long
  BY <1>1, Zenon DEF ReadBegin, Types
<1>. QED
  BY <1>1, <1>2, <1>5, <1>6, <1>8, <1>10, <1>11, ReaderKeeps, Zenon DEF ReadBegin

\* cursize is loaded; without one the read returns.
LEMMA LoadKeeps ==
  ASSUME PipeInv, OneReader \/ "nonblock" \notin uses, NEW r \in Readers,
         ReadLoad(r)
  PROVE  PipeInv'
<1>1. Types /\ Window /\ rd[r] \in RdType /\ last[r] \in [n : Nat, ok : BOOLEAN]
  BY Zenon DEF PipeInv, Types
<1>2. ReaderOk(r) /\ "nonblock" \in uses
  BY Zenon DEF PipeInv, Blocking, ReadLoad
<1>3. CASE cursize = 0
  <2>1. PICK y : y = [n |-> rd[r].max, ok |-> rd[r].ok]
    BY Zenon
  <2>2. y \in [n : Nat, ok : BOOLEAN] /\ y.ok
    BY <1>1, <1>2, <2>1, Zenon DEF ReaderOk, RdType, ReadLoad
  <2>3. Local \in RdType /\ Local.pc = "idle"
    BY Sizes DEF Local, RdType, Long
  <2>4. rd' = [rd EXCEPT ![r] = Local] /\ last' = [last EXCEPT ![r] = y]
    BY <1>3, <2>1, Zenon DEF ReadLoad, Returns
  <2>5. rd'[r] = Local /\ last'[r] = y
    BY <1>1, <2>4, Zenon DEF Types
  <2>6. ReaderOk(r)'
    BY <2>2, <2>3, <2>5, Zenon DEF ReaderOk
  <2>. QED
    BY <1>2, <2>2, <2>3, <2>4, <2>6, LocalKeeps, Zenon DEF ReadLoad
<1>4. CASE cursize # 0
  <2>1. PICK z : z = Taken(rd[r].max)
    BY Zenon
  <2>2. z \in Long
    <3>1. PICK c \in Int : c = cursize - rd[r].max
      BY <1>1 DEF Types, Long, RdType
    <3>. QED
      BY <1>4, <2>1, <3>1, ModIn, Zenon DEF Taken
  <2>3. PICK x : x = [rd[r] EXCEPT !.pc = "store", !.left = z]
    BY Zenon
  <2>4. x \in RdType /\ x.pc = "store" /\ x.ok = rd[r].ok
    BY <1>1, <2>2, <2>3, Zenon DEF RdType
  <2>5. rd' = [rd EXCEPT ![r] = x] /\ last' = [last EXCEPT ![r] = last[r]]
    BY <1>1, <1>4, <2>1, <2>3, Zenon DEF ReadLoad, Types, RdType
  <2>6. rd'[r] = x /\ last'[r] = last[r]
    BY <1>1, <2>5, Zenon DEF Types
  <2>7. ReaderOk(r)'
    BY <1>2, <2>4, <2>6, Zenon DEF ReaderOk, ReadLoad
  <2>. QED
    BY <1>1, <1>2, <2>4, <2>5, <2>7, LocalKeeps, Zenon DEF ReadLoad
<1>. QED
  BY <1>3, <1>4, Zenon

\* What is left of cursize is stored, and the read returns.
LEMMA StoreKeeps ==
  ASSUME PipeInv, OneReader \/ "nonblock" \notin uses, NEW r \in Readers,
         ReadStore(r)
  PROVE  PipeInv'
<1>1. Types /\ Window /\ rd[r] \in RdType /\ last[r] \in [n : Nat, ok : BOOLEAN]
  BY Zenon DEF PipeInv, Types
<1>2. ReaderOk(r) /\ "nonblock" \in uses
  BY Zenon DEF PipeInv, Blocking, ReadStore
<1>3. PICK y : y = [n |-> rd[r].max, ok |-> rd[r].ok]
  BY Zenon
<1>4. y \in [n : Nat, ok : BOOLEAN] /\ y.ok
  BY <1>1, <1>2, <1>3, Zenon DEF ReaderOk, RdType, ReadStore
<1>5. Local \in RdType /\ Local.pc = "idle"
  BY Sizes DEF Local, RdType, Long
<1>6. rd' = [rd EXCEPT ![r] = Local] /\ last' = [last EXCEPT ![r] = y]
  BY <1>3, Zenon DEF ReadStore, Returns
<1>7. rd'[r] = Local /\ last'[r] = y
  BY <1>1, <1>6, Zenon DEF Types
<1>8. ReaderOk(r)'
  BY <1>4, <1>5, <1>7, Zenon DEF ReaderOk
<1>9. cursize' \in Long /\ virtual_begin' \in Long
  BY <1>1, Zenon DEF ReadStore, RdType, Types
<1>10. Unread' = Unread
  BY Zenon DEF ReadStore, Unread
<1>11. Window'
  BY <1>1, <1>10, Zenon DEF Window, Right, ReadStore
<1>. QED
  BY <1>1, <1>2, <1>4, <1>5, <1>6, <1>8, <1>9, <1>11, ReaderKeeps, Zenon DEF ReadStore

-----------------------------------------------------------------------------
\* No step of a pipe that has one reader, or only blocking ones, breaks the
\* invariant.
LEMMA InvNext ==
  ASSUME PipeInv, OneReader \/ OnlyBlocking, [Next]_vars
  PROVE  PipeInv'
<1>1. OneReader \/ "nonblock" \notin uses
  BY Zenon DEF PipeInv, Flags, OnlyBlocking
<1>2. CASE Write
  BY <1>2, WriteKeeps, Zenon
<1>3. ASSUME NEW r \in Readers, Call(r) \/ Read(r) PROVE PipeInv'
  BY <1>1, <1>3, CallKeeps, BlockKeeps, ReadKeeps, LimitKeeps, MaxKeeps, CopyKeeps,
     BeginKeeps, LoadKeeps, StoreKeeps, Zenon DEF Read
<1>4. CASE UNCHANGED vars
  <2>1. Unread' = Unread
    BY <1>4, Zenon DEF vars, Unread
  <2>2. Window' /\ Types' /\ Flags' /\ (Count => Count')
    BY <1>4, <2>1, Zenon DEF vars, PipeInv, Window, Right, Types, Flags, Count
  <2>3. \A r \in Readers : ReaderOk(r)' /\ (Blocking(r) => Blocking(r)')
    BY <1>4, <2>1, Zenon DEF vars, PipeInv, ReaderOk, Blocking
  <2>4. uses' = uses
    BY <1>4, Zenon DEF vars
  <2>. QED
    BY <2>2, <2>3, <2>4, Zenon DEF PipeInv
<1>. QED
  BY <1>2, <1>3, <1>4, Zenon DEF Next

\* The unread bytes are in the buffer, each in its place, in every state of a
\* pipe that has one reader, or only blocking ones.
THEOREM PipeInOrder == OneReader \/ OnlyBlocking => (Spec => []PipeInv)
<1>. SUFFICES ASSUME OneReader \/ OnlyBlocking PROVE Spec => []PipeInv
  BY Zenon
<1>1. PipeInv /\ [Next]_vars => PipeInv'
  BY InvNext, Zenon
<1>. QED
  BY <1>1, InvInit, PTL DEF Spec

\* Reads give the bytes of the stream in order (ringbuffer_read), whatever the
\* widths of the indices and the sizes of reads and writes, and although a write
\* can come between any two steps of a read with O_NONBLOCK.
THEOREM StreamInOrder == OneReader \/ OnlyBlocking => (Spec => []ReadsInOrder)
<1>1. PipeInv => ReadsInOrder
  BY Zenon DEF PipeInv, ReaderOk, ReadsInOrder
<1>. QED
  BY <1>1, PipeInOrder, PTL

\* cursize (ringbuffer_write_index, ringbuffer_read) is the number of unread
\* bytes up to the last one that was counted, while reads are blocking ones.
THEOREM CursizeCounts == OneReader => (Spec => []CursizeRight)
<1>. SUFFICES ASSUME OneReader PROVE Spec => []CursizeRight
  BY Zenon
<1>1. PipeInv => CursizeRight
  <2>. SUFFICES ASSUME PipeInv PROVE CursizeRight
    BY Zenon
  <2>1. TypeOK
    <3>1. \A r \in Readers : rd[r] \in RdType
      BY Zenon DEF PipeInv, Types
    <3>2. \A r \in Readers : rd[r].pc \in {"idle", "blocked", "woken", "limit", "max",
                                           "copy", "begin", "load", "store"}
      BY <3>1, Zenon DEF RdType
    <3>3. {virtual_begin, virtual_end, cursize, mark} \subseteq 0..(LONG - 1)
      BY Zenon DEF PipeInv, Types, Long
    <3>. QED
      BY <3>2, <3>3, Zenon DEF PipeInv, Types, Flags, TypeOK
  <2>. QED
    BY <2>1, Zenon DEF PipeInv, Count, CursizeRight
<1>. QED
  BY <1>1, PipeInOrder, PTL
=============================================================================
