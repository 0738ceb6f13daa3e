------------------------- MODULE SingleBuffer_proofs -------------------------
(***************************************************************************)
(* Proofs about the single-value form of the ring of circular_buffer.h,    *)
(* for every number of slots and every set of values written: until a call *)
(* that a method was not written for, the ring is a queue of values.       *)
(*                                                                         *)
(* The argument follows the values: Shows(r, w, a, n) says that the n      *)
(* values between the indices of r are those behind w[a], w being what was *)
(* stored before a call with what the call adds.  It holds whatever the    *)
(* counter says; a ring stores what it shows when the counter is n.        *)
(***************************************************************************)
EXTENDS SingleBuffer, CircularBuffer_proofs, WellFoundedInduction

-----------------------------------------------------------------------------
(* Where values lie *)

\* From index h on, the slots of c hold the n values behind w[a].
Places(h, c, w, a, n) == \A i \in 1 .. n : c[SlotOf(h + i - 1)] = w[a + i]

\* Indices are less than twice round apart in one way only.
LEMMA SpanIsOne ==
  ASSUME NEW i \in Index, NEW m \in 0 .. 2 * Size - 1, NEW n \in 0 .. 2 * Size - 1
  PROVE  Ahead(i, m) = Ahead(i, n) <=> m = n
<1>1. m \in 0 .. 2 * Size /\ n \in 0 .. 2 * Size
  BY SizePositive
<1>2. /\ Ahead(i, m) = IF i + m >= 2 * Size THEN i + m - 2 * Size ELSE i + m
      /\ Ahead(i, n) = IF i + n >= 2 * Size THEN i + n - 2 * Size ELSE i + n
  BY <1>1, AheadIs
<1> QED BY <1>2, SizePositive DEF Index

\* Two moves forward are one.
LEMMA AheadTwice ==
  ASSUME NEW h \in Index, NEW m \in 0 .. 2 * Size, NEW n \in 0 .. 2 * Size, m + n <= 2 * Size
  PROVE  /\ Ahead(h, m) \in Index
         /\ Ahead(Ahead(h, m), n) = Ahead(h, m + n)
<1>1. m + n \in 0 .. 2 * Size
  OBVIOUS
<1>2. PICK k : k = Ahead(h, m)
  OBVIOUS
<1>3. k \in Index /\ k = IF h + m >= 2 * Size THEN h + m - 2 * Size ELSE h + m
  BY <1>2, AheadIs
<1>4. /\ Ahead(k, n) = IF k + n >= 2 * Size THEN k + n - 2 * Size ELSE k + n
      /\ Ahead(h, m + n) = IF h + (m + n) >= 2 * Size THEN h + (m + n) - 2 * Size ELSE h + (m + n)
  BY <1>1, <1>3, AheadIs
<1>5. Ahead(k, n) = Ahead(h, m + n)
  BY <1>3, <1>4, SizePositive DEF Index
<1> QED BY <1>2, <1>3, <1>5

\* The slot of an index that moved.
LEMMA SlotAhead ==
  ASSUME NEW h \in Index, NEW m \in 0 .. Size, NEW j \in 0 .. Size, m + j <= Size
  PROVE  SlotOf(Ahead(h, m) + j) = SlotOf(h + (m + j))
<1>1. PICK k : k = Ahead(h, m)
  OBVIOUS
<1>2. m \in 0 .. 2 * Size
  BY SizePositive
<1>3. k \in Index /\ k = IF h + m >= 2 * Size THEN h + m - 2 * Size ELSE h + m
  BY <1>1, <1>2, AheadIs
<1>4. k + j \in 0 .. 3 * Size /\ h + (m + j) \in 0 .. 3 * Size
  BY <1>3, SizePositive DEF Index
<1>5. SlotOf(k + j) = SlotOf(h + (m + j))
  BY <1>3, <1>4, SlotOfIs, SizePositive DEF Index
<1> QED BY <1>1, <1>5

\* Places of the ring lie in different slots.
LEMMA PlacesDiffer ==
  ASSUME NEW h \in Index, NEW i \in 1 .. Size, NEW j \in 1 .. Size
  PROVE  /\ SlotOf(h + i - 1) = SlotOf(h + j - 1) <=> i = j
         /\ SlotOf(h + i - 1) \in Slots
<1>1. i - 1 \in 0 .. Size - 1 /\ j - 1 \in 0 .. Size - 1 /\ h + i - 1 \in 0 .. 3 * Size
      /\ h + i - 1 = h + (i - 1) /\ h + j - 1 = h + (j - 1)
  BY SizePositive DEF Index
<1> QED BY <1>1, SlotInjective, SlotOfIs, SizePositive

\* A value is put behind the last one.
LEMMA PlacedBehind ==
  ASSUME NEW h \in Index, NEW n \in 0 .. Size - 1, NEW c \in [Slots -> Int], NEW w,
         NEW a \in Int, NEW v \in Int, v = w[a + n + 1], Places(h, c, w, a, n),
         NEW p, p = SlotOf(h + n)
  PROVE  /\ [c EXCEPT ![p] = v] \in [Slots -> Int]
         /\ Places(h, [c EXCEPT ![p] = v], w, a, n + 1)
<1>1. n + 1 \in 1 .. Size /\ h + n = h + (n + 1) - 1
  BY SizePositive DEF Index
<1>2. p \in Slots /\ p = SlotOf(h + (n + 1) - 1)
  BY <1>1, PlacesDiffer
<1>3. ASSUME NEW i \in 1 .. n + 1
      PROVE  [c EXCEPT ![p] = v][SlotOf(h + i - 1)] = w[a + i]
  <2>1. i \in 1 .. Size
    BY SizePositive
  <2>2. SlotOf(h + i - 1) \in Slots /\ (SlotOf(h + i - 1) = p <=> i = n + 1)
    BY <1>1, <1>2, <2>1, PlacesDiffer
  <2>3. CASE i = n + 1
    BY <1>2, <2>2, <2>3
  <2>4. CASE i # n + 1
    <3>1. i \in 1 .. n
      BY <2>4
    <3> QED BY <2>2, <2>4, <3>1 DEF Places
  <2> QED BY <2>3, <2>4
<1> QED BY <1>2, <1>3 DEF Places

\* A value is put before the first one.
LEMMA PlacedInFront ==
  ASSUME NEW h \in Index, NEW n \in 0 .. Size - 1, NEW c \in [Slots -> Int], NEW w,
         NEW a \in Int, NEW v \in Int, v = w[a], Places(h, c, w, a, n),
         NEW k, k = Before(h), NEW p, p = SlotOf(k)
  PROVE  /\ k \in Index
         /\ [c EXCEPT ![p] = v] \in [Slots -> Int]
         /\ Places(k, [c EXCEPT ![p] = v], w, a - 1, n + 1)
<1>1. k \in Index /\ k = k + 1 - 1
  BY BeforeIs, SizePositive DEF Index
<1>2. p \in Slots /\ p = SlotOf(k + 1 - 1) /\ 1 \in 1 .. Size
  BY <1>1, PlacesDiffer, SizePositive
<1>3. ASSUME NEW i \in 1 .. n + 1
      PROVE  [c EXCEPT ![p] = v][SlotOf(k + i - 1)] = w[a - 1 + i]
  <2>1. i \in 1 .. Size
    BY SizePositive
  <2>2. SlotOf(k + i - 1) \in Slots /\ (SlotOf(k + i - 1) = p <=> i = 1)
    BY <1>1, <1>2, <2>1, PlacesDiffer
  <2>3. CASE i = 1
    <3>1. a - 1 + i = a
      BY <2>3
    <3> QED BY <1>2, <2>2, <2>3, <3>1
  <2>4. CASE i # 1
    <3>1. i - 1 \in 1 .. n /\ i - 1 \in 1 .. Size /\ a - 1 + i = a + (i - 1)
          /\ k + i - 1 = k + (i - 1) /\ h + (i - 1) - 1 = h + i - 1 - 1
      BY <2>4, SizePositive, <1>1 DEF Index
    <3>2. SlotOf(k + (i - 1)) = SlotOf(h + (i - 1) - 1)
      BY <3>1, SlotAfterBefore
    <3> QED BY <2>2, <2>4, <3>1, <3>2 DEF Places
  <2> QED BY <2>3, <2>4
<1> QED BY <1>1, <1>2, <1>3 DEF Places

\* The front moves behind the m first values.
LEMMA FrontDropped ==
  ASSUME NEW h \in Index, NEW n \in 0 .. Size, NEW m \in 0 .. n, NEW c, NEW w,
         NEW a \in Int, Places(h, c, w, a, n)
  PROVE  Places(Ahead(h, m), c, w, a + m, n - m)
<1>1. ASSUME NEW i \in 1 .. n - m
      PROVE  c[SlotOf(Ahead(h, m) + i - 1)] = w[a + m + i]
  <2>1. m \in 0 .. Size /\ i - 1 \in 0 .. Size /\ m + (i - 1) <= Size /\ m + i \in 1 .. n
        /\ m \in 0 .. 2 * Size /\ h + (m + (i - 1)) = h + (m + i) - 1 /\ a + m + i = a + (m + i)
    BY SizePositive DEF Index
  <2>2. Ahead(h, m) \in Int
    BY <2>1, AheadIs, SizePositive DEF Index
  <2>3. Ahead(h, m) + i - 1 = Ahead(h, m) + (i - 1)
    BY <2>2
  <2>4. SlotOf(Ahead(h, m) + (i - 1)) = SlotOf(h + (m + (i - 1)))
    BY <2>1, SlotAhead
  <2> QED BY <2>1, <2>3, <2>4 DEF Places
<1> QED BY <1>1 DEF Places

-----------------------------------------------------------------------------
(* What the methods make of a ring *)

SRing == [head : Index, tail : Index, available : Nat, cell : [Slots -> Int]]

\* The n values between the indices of r are those behind w[a], whatever r counts.
Shows(r, w, a, n) ==
  r \in SRing /\ r.tail = Ahead(r.head, n) /\ Places(r.head, r.cell, w, a, n)

\* Where the tail of such a ring is.
LEMMA TailOfRing ==
  ASSUME NEW r, NEW w, NEW a, NEW n \in 0 .. Size, Shows(r, w, a, n)
  PROVE  /\ r.tail = Ahead(r.head, Size) <=> n = Size
         /\ SlotOf(r.tail) = SlotOf(r.head + n)
         /\ Ahead(r.tail, 1) = Ahead(r.head, n + 1) /\ Ahead(r.tail, 1) \in Index
         /\ n > 0 => Before(r.tail) = Ahead(r.head, n - 1)
<1>1. r.head \in Index /\ r.tail \in Index /\ r.tail = Ahead(r.head, n)
  BY DEF Shows, SRing
<1>2. PICK h \in Index, t \in Index : h = r.head /\ t = r.tail
  BY <1>1
<1>3. t = Ahead(h, n)
  BY <1>1, <1>2
<1>4. n \in 0 .. 2 * Size - 1 /\ Size \in 0 .. 2 * Size - 1 /\ n \in 0 .. 2 * Size
      /\ 1 \in 0 .. 2 * Size /\ n + 1 <= 2 * Size /\ 0 \in 0 .. Size /\ n + 0 = n
  BY SizePositive
<1>5. t = Ahead(h, Size) <=> n = Size
  BY <1>3, <1>4, SpanIsOne
<1>6. SlotOf(t) = SlotOf(h + n)
  <2>1. SlotOf(t + 0) = SlotOf(h + n)
    BY <1>3, <1>4, SlotAhead
  <2>2. t + 0 = t
    BY SizePositive DEF Index
  <2> QED BY <2>1, <2>2
<1>7. Ahead(t, 1) = Ahead(h, n + 1) /\ Ahead(t, 1) \in Index
  BY <1>3, <1>4, AheadTwice, AheadIs
<1>8. n > 0 => Before(t) = Ahead(h, n - 1)
  <2> SUFFICES ASSUME n > 0 PROVE Before(t) = Ahead(h, n - 1)
    OBVIOUS
  <2>1. n - 1 \in 0 .. 2 * Size
    BY <1>4
  <2>2. /\ t = IF h + n >= 2 * Size THEN h + n - 2 * Size ELSE h + n
        /\ Ahead(h, n - 1) = IF h + (n - 1) >= 2 * Size THEN h + (n - 1) - 2 * Size ELSE h + (n - 1)
    BY <1>3, <1>4, <2>1, AheadIs
  <2>3. Before(t) = IF t = 0 THEN 2 * Size - 1 ELSE t - 1
    BY BeforeIs
  <2> QED BY <2>2, <2>3, SizePositive DEF Index
<1> QED BY <1>2, <1>5, <1>6, <1>7, <1>8

\* The fields of the ring that write() makes.
LEMMA WrittenFields ==
  ASSUME NEW r \in SRing, NEW v \in Int, NEW q, q = Written(r, v)
  PROVE  /\ q.head = IF r.tail = Ahead(r.head, Size) THEN Ahead(r.head, 1) ELSE r.head
         /\ q.tail = Ahead(r.tail, 1)
         /\ q.available = IF r.available < Size THEN r.available + 1 ELSE r.available
         /\ q.cell = [r.cell EXCEPT ![SlotOf(r.tail)] = v]
         /\ q \in SRing
<1>1. /\ q.head = IF r.tail = Ahead(r.head, Size) THEN Ahead(r.head, 1) ELSE r.head
      /\ q.tail = Ahead(r.tail, 1)
      /\ q.available = IF r.available < Size THEN r.available + 1 ELSE r.available
      /\ q.cell = [r.cell EXCEPT ![SlotOf(r.tail)] = v]
      /\ q = [head |-> q.head, tail |-> q.tail, available |-> q.available, cell |-> q.cell]
  BY DEF Written
<1>2. /\ r.head \in Index /\ r.tail \in Index /\ r.available \in Nat
      /\ r.cell \in [Slots -> Int]
  BY DEF SRing
<1>3. 1 \in 0 .. 2 * Size
  BY SizePositive
<1>4. q.head \in Index /\ q.tail \in Index
  BY <1>1, <1>2, <1>3, AheadIs
<1>5. q.available \in Nat
  BY <1>1, <1>2
<1>6. q.cell \in [Slots -> Int]
  BY <1>1, <1>2
<1>7. q \in SRing
  BY ONLY <1>1, <1>4, <1>5, <1>6 DEF SRing
<1> QED BY <1>1, <1>7

\* write(value): a full ring drops its oldest value.
LEMMA WriteShows ==
  ASSUME NEW r, NEW w, NEW a \in Int, NEW n \in 0 .. Size, Shows(r, w, a, n),
         NEW v \in Int, v = w[a + n + 1], NEW q, q = Written(r, v)
  PROVE  IF n < Size THEN Shows(q, w, a, n + 1) ELSE Shows(q, w, a + 1, Size)
<1>1. r \in SRing
  BY DEF Shows
<1>2. /\ q.head = IF r.tail = Ahead(r.head, Size) THEN Ahead(r.head, 1) ELSE r.head
      /\ q.tail = Ahead(r.tail, 1)
      /\ q.cell = [r.cell EXCEPT ![SlotOf(r.tail)] = v]
      /\ q \in SRing
  BY <1>1, WrittenFields
<1>3. /\ r.tail = Ahead(r.head, Size) <=> n = Size
      /\ SlotOf(r.tail) = SlotOf(r.head + n)
      /\ Ahead(r.tail, 1) = Ahead(r.head, n + 1)
  BY TailOfRing
<1>4. PICK h \in Index, c \in [Slots -> Int] : h = r.head /\ c = r.cell
  BY <1>1 DEF SRing
<1>5. Places(h, c, w, a, n)
  BY <1>4 DEF Shows
<1>6. CASE n < Size
  <2>1. q.head = h /\ q.tail = Ahead(h, n + 1) /\ q.cell = [c EXCEPT ![SlotOf(h + n)] = v]
    BY <1>2, <1>3, <1>4, <1>6
  <2>2. n \in 0 .. Size - 1
    BY <1>6, SizePositive
  <2>3. Places(h, [c EXCEPT ![SlotOf(h + n)] = v], w, a, n + 1)
    BY <1>5, <2>2, PlacedBehind
  <2> QED BY <1>2, <1>6, <2>1, <2>3 DEF Shows
<1>7. CASE n = Size
  <2>1. PICK k : k = Ahead(h, 1)
    OBVIOUS
  <2>2. q.head = k /\ q.tail = Ahead(h, Size + 1) /\ q.cell = [c EXCEPT ![SlotOf(h + Size)] = v]
    BY <1>2, <1>3, <1>4, <1>7, <2>1
  <2>3. /\ 1 \in 0 .. n /\ 1 \in 0 .. 2 * Size /\ Size \in 0 .. 2 * Size /\ 1 + Size <= 2 * Size
        /\ 1 \in 0 .. Size /\ Size - 1 \in 0 .. Size /\ Size - 1 \in 0 .. Size - 1
        /\ 1 + (Size - 1) = Size /\ 1 + Size = Size + 1 /\ Size - 1 + 1 = Size
        /\ a + 1 + (Size - 1) + 1 = a + n + 1 /\ n - 1 = Size - 1 /\ a + 1 \in Int
    BY <1>7, SizePositive
  <2>4. k \in Index /\ Ahead(k, Size) = Ahead(h, Size + 1)
    BY <2>1, <2>3, AheadTwice
  <2>5. SlotOf(k + (Size - 1)) = SlotOf(h + Size)
    BY <2>1, <2>3, SlotAhead
  <2>6. Places(k, c, w, a + 1, Size - 1)
    BY <1>5, <2>1, <2>3, FrontDropped
  <2>7. Places(k, [c EXCEPT ![SlotOf(h + Size)] = v], w, a + 1, Size)
    <3>1. v = w[a + 1 + (Size - 1) + 1]
      BY <2>3
    <3>2. PICK b \in Int, m \in 0 .. Size - 1, p \in {SlotOf(k + (Size - 1))} : b = a + 1 /\ m = Size - 1 /\ p = SlotOf(k + m)
      BY <2>3
    <3>3. v = w[b + m + 1] /\ Places(k, c, w, b, m) /\ p = SlotOf(h + Size) /\ m + 1 = Size
      BY <2>3, <2>5, <2>6, <3>1, <3>2
    <3>4. Places(k, [c EXCEPT ![p] = v], w, b, m + 1)
      BY <2>4, <3>2, <3>3, PlacedBehind
    <3> QED BY <3>2, <3>3, <3>4
  <2>8. Shows(q, w, a + 1, Size)
    BY <1>2, <2>2, <2>4, <2>7 DEF Shows
  <2> QED BY <1>7, <2>8, SizePositive
<1> QED BY <1>6, <1>7, SizePositive

-----------------------------------------------------------------------------
(* One value after the other *)

\* What holds at first and goes on holding holds up to n.
LEMMA Upward ==
  ASSUME NEW n \in Nat, NEW T, 0 \in T, \A i \in 1 .. n : i - 1 \in T => i \in T
  PROVE  \A i \in 0 .. n : i \in T
<1> DEFINE R == OpToRel(<, Nat)
           X == {i \in 0 .. n : i \notin T}
<1>1. IsWellFoundedOn(R, Nat)
  BY NatLessThanWellFounded
<1>2. \A x, y \in Nat : <<y, x>> \in R <=> y < x
  BY DEF OpToRel
<1>3. X \subseteq Nat
  OBVIOUS
<1> HIDE DEF R
<1>4. X = {}
  <2> SUFFICES ASSUME X # {} PROVE FALSE
    OBVIOUS
  <2> HIDE DEF X
  <2>1. PICK x \in X : \A y \in X : ~ (<<y, x>> \in R)
    BY <1>1, <1>3, WFMin
  <2>2. x \in 0 .. n /\ x \notin T
    BY DEF X
  <2>3. x \in 1 .. n /\ x - 1 \in 0 .. n /\ x - 1 \in Nat /\ x - 1 < x /\ x \in Nat
    BY <2>2
  <2>4. x - 1 \notin X
    BY <1>2, <2>1, <2>3
  <2> QED BY <2>2, <2>3, <2>4 DEF X
<1> QED BY <1>4

\* A function that makes each ring of the one before exists.
LEMMA Repeats ==
  ASSUME NEW n \in Nat, NEW r \in SRing, NEW g \in [1 .. n -> [SRing -> SRing]]
  PROVE  \E f \in [0 .. n -> SRing] : f[0] = r /\ \A i \in 1 .. n : f[i] = g[i][f[i - 1]]
<1> DEFINE Repeated(f, k) == f \in [0 .. k -> SRing] /\ f[0] = r
                         /\ \A i \in 1 .. k : f[i] = g[i][f[i - 1]]
           T == {k \in 0 .. n : \E f : Repeated(f, k)}
<1>1. 0 \in T
  <2>1. Repeated([i \in 0 .. 0 |-> r], 0)
    OBVIOUS
  <2> HIDE DEF Repeated
  <2>2. \E f : Repeated(f, 0)
    BY <2>1
  <2> QED BY <2>2
<1>2. ASSUME NEW k \in 1 .. n, k - 1 \in T
      PROVE  k \in T
  <2>1. PICK f : Repeated(f, k - 1)
    BY <1>2
  <2> DEFINE h == [i \in 0 .. k |-> IF i = k THEN g[k][f[k - 1]] ELSE f[i]]
  <2>2. k - 1 \in 0 .. k - 1 /\ f[k - 1] \in SRing /\ g[k][f[k - 1]] \in SRing
    BY <2>1
  <2>3. h \in [0 .. k -> SRing] /\ h[0] = r
    BY <2>1, <2>2
  <2>4. h[k] = g[k][f[k - 1]] /\ \A j \in 0 .. k - 1 : h[j] = f[j]
    OBVIOUS
  <2> HIDE DEF h
  <2>5. ASSUME NEW i \in 1 .. k
        PROVE  h[i] = g[i][h[i - 1]]
    <3>1. i - 1 \in 0 .. k - 1
      OBVIOUS
    <3>2. CASE i = k
      BY <2>4, <3>1, <3>2
    <3>3. CASE i # k
      <4>1. i \in 1 .. k - 1
        BY <3>3
      <4> QED BY <2>1, <2>4, <3>1, <4>1
    <3> QED BY <3>2, <3>3
  <2>6. Repeated(h, k)
    BY <2>3, <2>5
  <2> HIDE DEF Repeated
  <2> QED BY <2>6
<1> HIDE DEF T
<1>3. \A k \in 0 .. n : k \in T
  BY <1>1, <1>2, Upward
<1>4. PICK f : Repeated(f, n)
  BY <1>3 DEF T
<1> QED BY <1>4

\* WrittenEach() goes from ring to ring by write().
LEMMA WrittenEachGoes ==
  ASSUME NEW r \in SRing, NEW b \in Seq(Int)
  PROVE  \E f \in [0 .. Len(b) -> SRing] :
           /\ f[0] = r /\ f[Len(b)] = WrittenEach(r, b)
           /\ \A i \in 1 .. Len(b) : f[i] = Written(f[i - 1], b[i])
<1> DEFINE n == Len(b)
           F(f) == [i \in 0 .. n |-> IF i = 0 THEN r ELSE Written(f[i - 1], b[i])]
           f == CHOOSE h : h = F(h)
           g == [i \in 1 .. n |-> [x \in SRing |-> Written(x, b[i])]]
<1>1. n \in Nat /\ \A i \in 1 .. n : b[i] \in Int
  BY ElementOfSeq, LenProperties
<1>2. f[n] = WrittenEach(r, b)
  BY DEF WrittenEach
<1> HIDE DEF n
<1>3. g \in [1 .. n -> [SRing -> SRing]]
  BY <1>1, WrittenFields
<1>4. \E h : h = F(h)
  <2>0. \A i \in 1 .. n : \A x \in SRing : g[i][x] = Written(x, b[i])
    OBVIOUS
  <2> HIDE DEF g
  <2>1. PICK h \in [0 .. n -> SRing] : h[0] = r /\ \A i \in 1 .. n : h[i] = g[i][h[i - 1]]
    BY <1>1, <1>3, Repeats
  <2>2. ASSUME NEW i \in 1 .. n
        PROVE  g[i][h[i - 1]] = Written(h[i - 1], b[i])
    <3>1. i - 1 \in 0 .. n
      BY <1>1
    <3>2. h[i - 1] \in SRing
      BY <3>1
    <3> QED BY <2>0, <3>2
  <2>3. ASSUME NEW i \in 0 .. n
        PROVE  h[i] = IF i = 0 THEN r ELSE Written(h[i - 1], b[i])
    <3>1. i # 0 => i \in 1 .. n
      BY <1>1
    <3> QED BY <2>1, <2>2, <3>1
  <2>4. h = [i \in 0 .. n |-> h[i]]
    OBVIOUS
  <2> QED BY <2>3, <2>4
<1>5. f = F(f)
  <2> HIDE DEF F
  <2> QED BY <1>4
<1> HIDE DEF f, g
<1>6. f[0] = r /\ \A i \in 1 .. n : f[i] = Written(f[i - 1], b[i])
  BY <1>1, <1>5
<1>7. \A i \in 0 .. n : f[i] \in SRing
  <2> DEFINE T == {i \in 0 .. n : f[i] \in SRing}
  <2>1. 0 \in T
    BY <1>1, <1>6
  <2>2. ASSUME NEW i \in 1 .. n, i - 1 \in T
        PROVE  i \in T
    <3>1. f[i] = Written(f[i - 1], b[i]) /\ f[i - 1] \in SRing /\ b[i] \in Int
      BY <1>1, <1>6, <2>2
    <3>2. f[i] \in SRing
      BY <3>1, WrittenFields
    <3> QED BY <1>1, <3>2
  <2> HIDE DEF T
  <2>3. \A i \in 0 .. n : i \in T
    BY <1>1, <2>1, <2>2, Upward
  <2> QED BY <2>3 DEF T
<1>8. f \in [0 .. n -> SRing]
  BY <1>5, <1>7
<1> QED BY <1>2, <1>6, <1>8 DEF n

\* What a ring keeps of x values written behind one another.
Kept(x) == IF x <= Size THEN x ELSE Size
Gone(x) == x - Kept(x)

\* Values written one after the other: the ring shows the newest of them.
LEMMA EachShows ==
  ASSUME NEW r, NEW w, NEW a \in Int, NEW n \in 0 .. Size, Shows(r, w, a, n),
         r.available <= Size, NEW b \in Seq(Int), \A i \in 1 .. Len(b) : w[a + n + i] = b[i],
         NEW q, q = WrittenEach(r, b)
  PROVE  /\ Shows(q, w, a + Gone(n + Len(b)), Kept(n + Len(b)))
         /\ q.available = Kept(r.available + Len(b))
<1>1. Len(b) \in Nat /\ \A i \in 1 .. Len(b) : b[i] \in Int
  BY ElementOfSeq, LenProperties
<1>2. r \in SRing /\ r.available \in 0 .. Size
  BY SizePositive DEF Shows, SRing
<1>3. PICK f \in [0 .. Len(b) -> SRing] :
        /\ f[0] = r /\ f[Len(b)] = q
        /\ \A i \in 1 .. Len(b) : f[i] = Written(f[i - 1], b[i])
  BY <1>2, WrittenEachGoes
<1> DEFINE T == {i \in 0 .. Len(b) : /\ Shows(f[i], w, a + Gone(n + i), Kept(n + i))
                                     /\ f[i].available = Kept(r.available + i)}
<1>4. 0 \in T
  BY <1>1, <1>2, <1>3 DEF Kept, Gone
<1>5. ASSUME NEW i \in 1 .. Len(b), i - 1 \in T
      PROVE  i \in T
  <2>1. PICK p, x, y, k, d, v : /\ p = f[i - 1] /\ x = n + (i - 1) /\ y = r.available + (i - 1)
                                /\ k = Kept(x) /\ d = a + Gone(x) /\ v = b[i]
    OBVIOUS
  <2>2. Shows(p, w, d, k) /\ p.available = Kept(y) /\ f[i] = Written(p, v)
    BY <1>3, <1>5, <2>1
  <2>3. /\ x \in Nat /\ y \in Nat /\ k \in 0 .. Size /\ d \in Int /\ v \in Int
        /\ n + i = x + 1 /\ r.available + i = y + 1 /\ v = w[a + x + 1] /\ d + k + 1 = a + x + 1
    <3>0. PICK z \in 0 .. Size, m \in Nat : z = r.available /\ m = Len(b)
      BY <1>1, <1>2
    <3>1. x \in Nat /\ y \in Nat /\ n + i = x + 1 /\ r.available + i = y + 1 /\ a + n + i = a + x + 1
      <4>1. x = n + (i - 1) /\ y = z + (i - 1) /\ i \in 1 .. m /\ Size \in Nat
        BY <2>1, <3>0, SizePositive
      <4>2. x \in Nat /\ y \in Nat /\ n + i = x + 1 /\ z + i = y + 1 /\ a + n + i = a + x + 1
        BY ONLY <4>1, a \in Int, n \in 0 .. Size, z \in 0 .. Size, m \in Nat
      <4> QED BY <3>0, <4>2
    <3>2. v \in Int /\ v = w[a + n + i]
      BY <1>1, <2>1
    <3> QED BY <2>1, <3>1, <3>2, SizePositive DEF Kept, Gone
  <2>4. IF k < Size THEN Shows(f[i], w, d, k + 1) ELSE Shows(f[i], w, d + 1, Size)
    BY <2>2, <2>3, WriteShows
  <2>5. f[i].available = IF p.available < Size THEN p.available + 1 ELSE p.available
    <3>1. p \in SRing
      BY <2>2 DEF Shows
    <3>2. PICK z : z = Written(p, v)
      OBVIOUS
    <3>3. z.available = IF p.available < Size THEN p.available + 1 ELSE p.available
      <4>1. v \in Int
        BY <2>3
      <4> QED BY <3>1, <3>2, <4>1, WrittenFields
    <3> QED BY <2>2, <3>2, <3>3
  <2>6. f[i].available = Kept(y + 1)
    BY <2>2, <2>3, <2>5, SizePositive DEF Kept
  <2>7. Shows(f[i], w, a + Gone(x + 1), Kept(x + 1))
    <3>1. CASE x < Size
      <4>1. k = x /\ d = a + Gone(x + 1) /\ Kept(x + 1) = k + 1 /\ k < Size
        BY <2>1, <2>3, <3>1, SizePositive DEF Kept, Gone
      <4> QED BY <2>4, <4>1
    <3>2. CASE x >= Size
      <4>1. ~ (k < Size) /\ d + 1 = a + Gone(x + 1) /\ Kept(x + 1) = Size
        BY <2>1, <2>3, <3>2, SizePositive DEF Kept, Gone
      <4> QED BY <2>4, <4>1
    <3> QED BY <2>3, <3>1, <3>2, SizePositive
  <2>8. i \in 0 .. Len(b)
    BY <1>1
  <2> QED BY <2>3, <2>6, <2>7, <2>8
<1> HIDE DEF T
<1>6. \A i \in 0 .. Len(b) : i \in T
  BY <1>1, <1>4, <1>5, Upward
<1> QED BY <1>1, <1>3, <1>6 DEF T

-----------------------------------------------------------------------------
(* Values put in front *)

\* The fields of the ring that push_front() makes.
LEMMA FrontFields ==
  ASSUME NEW r \in SRing, NEW v \in Int, NEW q, q = PushedFront(r, v)
  PROVE  /\ q.head = Before(r.head)
         /\ q.tail = r.tail
         /\ q.available = IF r.available < Size THEN r.available + 1 ELSE r.available
         /\ q.cell = [r.cell EXCEPT ![SlotOf(Before(r.head))] = v]
         /\ q \in SRing
<1>1. r = [head |-> r.head, tail |-> r.tail, available |-> r.available, cell |-> r.cell]
  BY DEF SRing
<1>2. /\ r.head \in Index /\ r.tail \in Index /\ r.available \in Nat
      /\ r.cell \in [Slots -> Int]
  BY DEF SRing
<1>3. /\ q.head = Before(r.head)
      /\ q.tail = r.tail
      /\ q.available = IF r.available < Size THEN r.available + 1 ELSE r.available
      /\ q.cell = [r.cell EXCEPT ![SlotOf(Before(r.head))] = v]
      /\ q = [head |-> q.head, tail |-> q.tail, available |-> q.available, cell |-> q.cell]
  BY <1>1 DEF PushedFront
<1>4. q.head \in Index /\ q.tail \in Index /\ q.available \in Nat /\ q.cell \in [Slots -> Int]
  <2>1. Before(r.head) \in Index
    BY <1>2, BeforeIs
  <2>2. q.available \in Nat
    BY <1>2, <1>3
  <2>3. q.cell \in [Slots -> Int]
    BY <1>2, <1>3
  <2> QED BY <1>2, <1>3, <2>1, <2>2, <2>3
<1>5. q \in SRing
  BY ONLY <1>3, <1>4 DEF SRing
<1> QED BY <1>3, <1>5

\* One step back, one more step forward.
LEMMA BeforeAhead ==
  ASSUME NEW h \in Index, NEW n \in 1 .. 2 * Size
  PROVE  Ahead(Before(h), n) = Ahead(h, n - 1)
<1>1. PICK k : k = Before(h)
  OBVIOUS
<1>2. k \in Index /\ k = IF h = 0 THEN 2 * Size - 1 ELSE h - 1
  BY <1>1, BeforeIs
<1>3. n - 1 \in 0 .. 2 * Size /\ n \in 0 .. 2 * Size
  BY SizePositive
<1>4. /\ Ahead(k, n) = IF k + n >= 2 * Size THEN k + n - 2 * Size ELSE k + n
      /\ Ahead(h, n - 1) = IF h + (n - 1) >= 2 * Size THEN h + (n - 1) - 2 * Size ELSE h + (n - 1)
  BY <1>2, <1>3, AheadIs
<1>5. Ahead(k, n) = Ahead(h, n - 1)
  BY <1>2, <1>4, SizePositive DEF Index
<1> QED BY <1>1, <1>5

\* push_front(value) on a ring with room.
LEMMA FrontShows ==
  ASSUME NEW r, NEW w, NEW a \in Int, NEW n \in 0 .. Size - 1, Shows(r, w, a, n),
         NEW v \in Int, v = w[a], NEW q, q = PushedFront(r, v)
  PROVE  Shows(q, w, a - 1, n + 1)
<1>1. r \in SRing
  BY DEF Shows
<1>2. /\ q.head = Before(r.head) /\ q.tail = r.tail /\ q \in SRing
      /\ q.cell = [r.cell EXCEPT ![SlotOf(Before(r.head))] = v]
  BY <1>1, FrontFields
<1>3. PICK h \in Index, c \in [Slots -> Int] : h = r.head /\ c = r.cell
  BY <1>1 DEF SRing
<1>4. Places(h, c, w, a, n) /\ r.tail = Ahead(h, n)
  BY <1>3 DEF Shows
<1>5. PICK k, p : k = Before(h) /\ p = SlotOf(k)
  OBVIOUS
<1>6. Places(k, [c EXCEPT ![p] = v], w, a - 1, n + 1)
  BY <1>4, <1>5, PlacedInFront
<1>7. Ahead(k, n + 1) = Ahead(h, n)
  <2>1. n + 1 \in 1 .. 2 * Size /\ n + 1 - 1 = n
    BY SizePositive
  <2> QED BY <1>5, <2>1, BeforeAhead
<1> QED BY <1>2, <1>3, <1>4, <1>5, <1>6, <1>7 DEF Shows

\* PushedFrontAll() goes from ring to ring by push_front(), last value first.
LEMMA AllFrontGoes ==
  ASSUME NEW r \in SRing, NEW b \in Seq(Int)
  PROVE  \E f \in [0 .. Len(b) -> SRing] :
           /\ f[0] = r /\ f[Len(b)] = PushedFrontAll(r, b)
           /\ \A i \in 1 .. Len(b) : f[i] = PushedFront(f[i - 1], b[Len(b) + 1 - i])
<1> DEFINE n == Len(b)
           F(f) == [i \in 0 .. n |-> IF i = 0 THEN r ELSE PushedFront(f[i - 1], b[n + 1 - i])]
           f == CHOOSE h : h = F(h)
           g == [i \in 1 .. n |-> [x \in SRing |-> PushedFront(x, b[n + 1 - i])]]
<1>1. n \in Nat /\ \A i \in 1 .. n : b[n + 1 - i] \in Int
  <2>1. n \in Nat /\ \A i \in 1 .. n : b[i] \in Int
    BY ElementOfSeq, LenProperties
  <2> HIDE DEF n
  <2>2. \A i \in 1 .. n : n + 1 - i \in 1 .. n
    BY <2>1
  <2> QED BY <2>1, <2>2
<1>2. f[n] = PushedFrontAll(r, b)
  BY DEF PushedFrontAll
<1> HIDE DEF n
<1>3. g \in [1 .. n -> [SRing -> SRing]]
  BY <1>1, FrontFields
<1>4. \E h : h = F(h)
  <2>0. \A i \in 1 .. n : \A x \in SRing : g[i][x] = PushedFront(x, b[n + 1 - i])
    OBVIOUS
  <2> HIDE DEF g
  <2>1. PICK h \in [0 .. n -> SRing] : h[0] = r /\ \A i \in 1 .. n : h[i] = g[i][h[i - 1]]
    BY <1>1, <1>3, Repeats
  <2>2. ASSUME NEW i \in 1 .. n
        PROVE  g[i][h[i - 1]] = PushedFront(h[i - 1], b[n + 1 - i])
    <3>1. i - 1 \in 0 .. n
      BY <1>1
    <3>2. h[i - 1] \in SRing
      BY <3>1
    <3> QED BY <2>0, <3>2
  <2>3. ASSUME NEW i \in 0 .. n
        PROVE  h[i] = IF i = 0 THEN r ELSE PushedFront(h[i - 1], b[n + 1 - i])
    <3>1. i # 0 => i \in 1 .. n
      BY <1>1
    <3> QED BY <2>1, <2>2, <3>1
  <2>4. h = [i \in 0 .. n |-> h[i]]
    OBVIOUS
  <2> QED BY <2>3, <2>4
<1>5. f = F(f)
  <2> HIDE DEF F
  <2> QED BY <1>4
<1> HIDE DEF f, g
<1>6. f[0] = r /\ \A i \in 1 .. n : f[i] = PushedFront(f[i - 1], b[n + 1 - i])
  BY <1>1, <1>5
<1>7. \A i \in 0 .. n : f[i] \in SRing
  <2> DEFINE T == {i \in 0 .. n : f[i] \in SRing}
  <2>1. 0 \in T
    BY <1>1, <1>6
  <2>2. ASSUME NEW i \in 1 .. n, i - 1 \in T
        PROVE  i \in T
    <3>1. /\ f[i] = PushedFront(f[i - 1], b[n + 1 - i])
          /\ f[i - 1] \in SRing /\ b[n + 1 - i] \in Int
      BY <1>1, <1>6, <2>2
    <3>2. f[i] \in SRing
      BY <3>1, FrontFields
    <3> QED BY <1>1, <3>2
  <2> HIDE DEF T
  <2>3. \A i \in 0 .. n : i \in T
    BY <1>1, <2>1, <2>2, Upward
  <2> QED BY <2>3 DEF T
<1>8. f \in [0 .. n -> SRing]
  BY <1>5, <1>7
<1> QED BY <1>2, <1>6, <1>8 DEF n

\* Where push_front(buffer, length) leaves the indices.
LEMMA AllFrontSpan ==
  ASSUME NEW r \in SRing, r.available <= Size, NEW b \in Seq(Int), Len(b) < 2 * Size,
         NEW q, q = PushedFrontAll(r, b)
  PROVE  /\ q \in SRing /\ q.tail = r.tail /\ r.head = Ahead(q.head, Len(b))
         /\ q.available = Kept(r.available + Len(b))
<1>1. PICK m \in 0 .. 2 * Size - 1, z \in 0 .. Size : m = Len(b) /\ z = r.available
  <2>1. Len(b) \in Nat
    BY LenProperties
  <2>2. r.available \in Nat
    BY DEF SRing
  <2> QED BY <2>1, <2>2, SizePositive
<1>2. PICK f \in [0 .. m -> SRing] :
        /\ f[0] = r /\ f[m] = q
        /\ \A i \in 1 .. m : f[i] = PushedFront(f[i - 1], b[m + 1 - i])
  BY <1>1, AllFrontGoes
<1> DEFINE T == {i \in 0 .. m : /\ f[i].tail = r.tail /\ r.head = Ahead(f[i].head, i)
                                /\ f[i].available = Kept(z + i)}
<1>3. 0 \in T
  <2>1. r.head = Ahead(r.head, 0)
    <3>1. r.head \in Index /\ 0 \in 0 .. 2 * Size
      BY SizePositive DEF SRing
    <3>2. PICK h \in Index : h = r.head
      BY <3>1
    <3>3. Ahead(h, 0) = IF h + 0 >= 2 * Size THEN h + 0 - 2 * Size ELSE h + 0
      BY <3>1, AheadIs
    <3> QED BY <3>2, <3>3, SizePositive DEF Index
  <2>2. z = Kept(z + 0)
    BY SizePositive DEF Kept
  <2> QED BY <1>1, <1>2, <2>1, <2>2
<1>4. ASSUME NEW i \in 1 .. m, i - 1 \in T
      PROVE  i \in T
  <2>1. PICK p, v : p = f[i - 1] /\ v = b[m + 1 - i]
    OBVIOUS
  <2>2. p \in SRing /\ p.tail = r.tail /\ r.head = Ahead(p.head, i - 1) /\ p.available = Kept(z + (i - 1))
        /\ f[i] = PushedFront(p, v)
    BY <1>2, <1>4, <2>1
  <2>3. v \in Int
    <3>1. m + 1 - i \in 1 .. m
      BY SizePositive
    <3> QED BY <1>1, <2>1, <3>1, ElementOfSeq
  <2>4. PICK u : u = PushedFront(p, v)
    OBVIOUS
  <2>5. /\ u.head = Before(p.head) /\ u.tail = p.tail
        /\ u.available = IF p.available < Size THEN p.available + 1 ELSE p.available
    BY <2>2, <2>3, <2>4, FrontFields
  <2>6. Ahead(u.head, i) = Ahead(p.head, i - 1)
    <3>1. p.head \in Index /\ i \in 1 .. 2 * Size
      BY <2>2, SizePositive DEF SRing
    <3> QED BY <2>5, <3>1, BeforeAhead
  <2>7. u.available = Kept(z + i)
    BY <2>2, <2>5, SizePositive DEF Kept
  <2> QED BY <2>2, <2>4, <2>5, <2>6, <2>7
<1> HIDE DEF T
<1>5. \A i \in 0 .. m : i \in T
  <2>1. m \in Nat
    BY SizePositive
  <2> QED BY <1>3, <1>4, <2>1, Upward
<1>6. m \in 0 .. m
  BY SizePositive
<1> QED BY <1>1, <1>2, <1>5, <1>6 DEF T

\* push_front(buffer, length) on a ring with room for all.
LEMMA AllFrontShows ==
  ASSUME NEW r, NEW w, NEW a \in Int, NEW n \in 0 .. Size, Shows(r, w, a, n),
         NEW b \in Seq(Int), n + Len(b) <= Size, \A i \in 1 .. Len(b) : w[a - Len(b) + i] = b[i],
         NEW q, q = PushedFrontAll(r, b)
  PROVE  Shows(q, w, a - Len(b), n + Len(b))
<1>1. PICK m \in 0 .. Size : m = Len(b)
  <2>1. Len(b) \in Nat
    BY LenProperties
  <2> QED BY <2>1, SizePositive
<1>2. PICK f \in [0 .. m -> SRing] :
        /\ f[0] = r /\ f[m] = q
        /\ \A i \in 1 .. m : f[i] = PushedFront(f[i - 1], b[m + 1 - i])
  BY <1>1, AllFrontGoes DEF Shows
<1> DEFINE T == {i \in 0 .. m : Shows(f[i], w, a - i, n + i)}
<1>3. 0 \in T
  BY <1>2, SizePositive
<1>4. ASSUME NEW i \in 1 .. m, i - 1 \in T
      PROVE  i \in T
  <2>1. PICK p, v, d, k : p = f[i - 1] /\ v = b[m + 1 - i] /\ d = a - (i - 1) /\ k = n + (i - 1)
    OBVIOUS
  <2>2. Shows(p, w, d, k) /\ f[i] = PushedFront(p, v)
    BY <1>2, <1>4, <2>1
  <2>3. m + 1 - i \in 1 .. m /\ a - m + (m + 1 - i) = d /\ d \in Int /\ k \in 0 .. Size - 1
        /\ d - 1 = a - i /\ k + 1 = n + i
    BY <1>1, <2>1, SizePositive
  <2>4. v \in Int /\ v = w[d]
    BY <1>1, <2>1, <2>3, ElementOfSeq
  <2>5. Shows(f[i], w, d - 1, k + 1)
    BY <2>2, <2>3, <2>4, FrontShows
  <2>6. Shows(f[i], w, a - i, n + i)
    BY <2>3, <2>5
  <2> QED BY <2>6
<1> HIDE DEF T
<1>5. \A i \in 0 .. m : i \in T
  <2>1. m \in Nat
    BY SizePositive
  <2> QED BY <1>3, <1>4, <2>1, Upward
<1>6. m \in 0 .. m
  BY SizePositive
<1> QED BY <1>1, <1>2, <1>5, <1>6 DEF T

-----------------------------------------------------------------------------
(* Values taken away, and values copied *)

\* The counter is 16 bits wide.
LEMMA Counting ==
  /\ \A x \in 0 .. 2 * Size - 1 : x % 65536 = x
  /\ \A x \in Nat : x % 65536 \in Nat /\ x % 65536 <= x
  /\ \A x \in 1 .. 2 * Size : (0 - x) % 65536 = 65536 - x /\ 65536 - x \in Nat
<1>1. Size \in Nat /\ 2 * Size <= 65536
  <2>1. Size \in Nat /\ Size <= 32768
    BY SizeAssumption
  <2>2. \A s \in Nat : s <= 32768 => 2 * s <= 65536
    BY SMT
  <2> QED BY <2>1, <2>2
<1>2. \A x \in Nat : x < 65536 => x % 65536 = x
  BY SMT
<1>3. \A x \in Nat : x % 65536 \in Nat /\ x % 65536 <= x
  BY SMT
<1>4. \A x \in Nat : 0 < x /\ x <= 65536 => (0 - x) % 65536 = 65536 - x /\ 65536 - x \in Nat
  BY SMT
<1>5. \A x \in 0 .. 2 * Size - 1 : x \in Nat /\ x < 65536
  BY <1>1, SMT
<1>6. \A x \in 1 .. 2 * Size : x \in Nat /\ 0 < x /\ x <= 65536
  BY <1>1, SMT
<1>7. \A x \in 0 .. 2 * Size - 1 : x % 65536 = x
  BY <1>2, <1>5
<1>8. \A x \in 1 .. 2 * Size : (0 - x) % 65536 = 65536 - x /\ 65536 - x \in Nat
  BY <1>4, <1>6
<1> QED BY <1>3, <1>7, <1>8

\* The front moves behind the first m values.
LEMMA FrontMoved ==
  ASSUME NEW r, NEW w, NEW a \in Int, NEW n \in 0 .. Size, Shows(r, w, a, n),
         NEW m \in 0 .. n, NEW q \in SRing, q.head = Ahead(r.head, m), q.tail = r.tail,
         q.cell = r.cell
  PROVE  Shows(q, w, a + m, n - m)
<1>1. PICK h \in Index, c \in [Slots -> Int] : h = r.head /\ c = r.cell
  BY DEF Shows, SRing
<1>2. Places(h, c, w, a, n) /\ r.tail = Ahead(h, n)
  BY <1>1 DEF Shows
<1>3. Places(Ahead(h, m), c, w, a + m, n - m)
  BY <1>2, FrontDropped
<1>4. Ahead(Ahead(h, m), n - m) = Ahead(h, n)
  <2>1. m \in 0 .. 2 * Size /\ n - m \in 0 .. 2 * Size /\ m + (n - m) <= 2 * Size /\ m + (n - m) = n
    BY SizePositive
  <2> QED BY <2>1, AheadTwice
<1> QED BY <1>1, <1>2, <1>3, <1>4 DEF Shows

\* The back moves before the last value.
LEMMA BackMoved ==
  ASSUME NEW r, NEW w, NEW a \in Int, NEW n \in 1 .. Size, Shows(r, w, a, n),
         NEW q \in SRing, q.head = r.head, q.tail = Before(r.tail), q.cell = r.cell
  PROVE  Shows(q, w, a, n - 1)
<1>1. n \in 0 .. Size /\ n > 0
  BY SizePositive
<1>2. Before(r.tail) = Ahead(r.head, n - 1)
  BY <1>1, TailOfRing
<1>3. Places(r.head, r.cell, w, a, n - 1)
  BY DEF Shows, Places
<1> QED BY <1>2, <1>3 DEF Shows

\* The fields of the ring that read() makes.
LEMMA ReadFields ==
  ASSUME NEW r \in SRing, NEW q, q = ReadOnce(r)
  PROVE  /\ q.head = Ahead(r.head, 1) /\ q.tail = r.tail /\ q.cell = r.cell
         /\ q.available = IF r.available > 0 THEN r.available - 1 ELSE 0
         /\ q \in SRing
<1>1. r = [head |-> r.head, tail |-> r.tail, available |-> r.available, cell |-> r.cell]
  BY DEF SRing
<1>2. /\ r.head \in Index /\ r.tail \in Index /\ r.available \in Nat
      /\ r.cell \in [Slots -> Int]
  BY DEF SRing
<1>3. /\ q.head = Ahead(r.head, 1) /\ q.tail = r.tail /\ q.cell = r.cell
      /\ q.available = IF r.available > 0 THEN r.available - 1 ELSE 0
      /\ q = [head |-> q.head, tail |-> q.tail, available |-> q.available, cell |-> q.cell]
  BY <1>1 DEF ReadOnce
<1>4. q.head \in Index
  <2>1. 1 \in 0 .. 2 * Size
    BY SizePositive
  <2> QED BY <1>2, <1>3, <2>1, AheadIs
<1>5. q.available \in Nat
  BY <1>2, <1>3
<1>6. q \in SRing
  BY ONLY <1>2, <1>3, <1>4, <1>5 DEF SRing
<1> QED BY <1>3, <1>6

\* The fields of the ring that pop_back() makes.
LEMMA PopFields ==
  ASSUME NEW r \in SRing, r.available > 0, NEW q, q = PoppedBack(r)
  PROVE  /\ q.head = r.head /\ q.tail = Before(r.tail) /\ q.cell = r.cell
         /\ q.available = r.available - 1 /\ q \in SRing
<1>1. r = [head |-> r.head, tail |-> r.tail, available |-> r.available, cell |-> r.cell]
  BY DEF SRing
<1>2. /\ r.head \in Index /\ r.tail \in Index /\ r.available \in Nat
      /\ r.cell \in [Slots -> Int]
  BY DEF SRing
<1>3. /\ q.head = r.head /\ q.tail = Before(r.tail) /\ q.cell = r.cell
      /\ q.available = r.available - 1
      /\ q = [head |-> q.head, tail |-> q.tail, available |-> q.available, cell |-> q.cell]
  BY <1>1 DEF PoppedBack
<1>4. q.tail \in Index /\ q.available \in Nat
  BY <1>2, <1>3, BeforeIs
<1>5. q \in SRing
  BY ONLY <1>2, <1>3, <1>4 DEF SRing
<1> QED BY <1>3, <1>5

\* The fields of the ring that readBytes() makes.
LEMMA ReadAllFields ==
  ASSUME NEW r \in SRing, r.available <= Size, NEW n \in 0 .. Size + 1, NEW q, q = ReadAll(r, n)
  PROVE  /\ Fewer(r, n) \in 0 .. Size
         /\ q.head = Ahead(r.head, Fewer(r, n)) /\ q.tail = r.tail /\ q.cell = r.cell
         /\ q.available = IF MoveReaches(r, n) THEN (r.available - n) % 65536
                          ELSE r.available - Fewer(r, n)
         /\ q \in SRing
<1>1. r = [head |-> r.head, tail |-> r.tail, available |-> r.available, cell |-> r.cell]
  BY DEF SRing
<1>2. /\ r.head \in Index /\ r.tail \in Index /\ r.available \in Nat
      /\ r.cell \in [Slots -> Int]
  BY DEF SRing
<1>3. /\ q.head = Ahead(r.head, Fewer(r, n)) /\ q.tail = r.tail /\ q.cell = r.cell
      /\ q.available = IF MoveReaches(r, n) THEN (r.available - n) % 65536
                       ELSE r.available - Fewer(r, n)
      /\ q = [head |-> q.head, tail |-> q.tail, available |-> q.available, cell |-> q.cell]
  <2>1. PICK k, y : /\ k = Fewer(r, n)
                    /\ y = IF MoveReaches(r, n) THEN (r.available - n) % 65536
                           ELSE r.available - Fewer(r, n)
    OBVIOUS
  <2>2. q = [r EXCEPT !.head = Ahead(@, k), !.available = y]
    BY <2>1 DEF ReadAll
  <2>3. /\ q.head = Ahead(r.head, k) /\ q.tail = r.tail /\ q.cell = r.cell /\ q.available = y
        /\ q = [head |-> q.head, tail |-> q.tail, available |-> q.available, cell |-> q.cell]
    BY <1>1, <2>2
  <2> QED BY <2>1, <2>3
<1>4. Fewer(r, n) \in 0 .. Size /\ r.available - Fewer(r, n) \in Nat
  BY <1>2, SizePositive DEF Fewer
<1>5. q.head \in Index
  <2>1. Fewer(r, n) \in 0 .. 2 * Size
    BY <1>4, SizePositive
  <2> QED BY <1>2, <1>3, <2>1, AheadIs
<1>6. (r.available - n) % 65536 \in Nat
  <2>1. r.available - n \in Int
    BY <1>2, SizePositive
  <2>2. \A x \in Int : x % 65536 \in Nat
    BY SMT
  <2> QED BY <2>1, <2>2
<1>7. q.available \in Nat
  BY <1>3, <1>4, <1>6
<1>8. q \in SRing
  BY ONLY <1>2, <1>3, <1>5, <1>7 DEF SRing
<1> QED BY <1>3, <1>4, <1>8

\* The counter takes all values of a bulk write at first.
LEMMA CountedFields ==
  ASSUME NEW r \in SRing, r.available <= Size, NEW n \in Nat, NEW q, q = Counted(r, n)
  PROVE  /\ q.head = r.head /\ q.tail = r.tail /\ q.cell = r.cell /\ q \in SRing
         /\ q.available \in 0 .. Size
         /\ n < Size => q.available = Kept(r.available + n)
         /\ Kept(q.available + n) = Kept(r.available + n + n)
<1>1. r = [head |-> r.head, tail |-> r.tail, available |-> r.available, cell |-> r.cell]
  BY DEF SRing
<1>2. /\ r.head \in Index /\ r.tail \in Index /\ r.available \in 0 .. Size
      /\ r.cell \in [Slots -> Int]
  BY SizePositive DEF SRing
<1>3. PICK z \in 0 .. Size, y \in Nat : z = r.available /\ y = (z + n) % 65536
  <2>1. r.available + n \in Nat
    BY <1>2, SizePositive
  <2>2. (r.available + n) % 65536 \in Nat
    BY <2>1, Counting
  <2> QED BY <1>2, <2>2
<1>4. q = [r EXCEPT !.available = IF y >= Size THEN Size ELSE y]
  BY <1>3 DEF Counted
<1>5. /\ q.head = r.head /\ q.tail = r.tail /\ q.cell = r.cell
      /\ q.available = IF y >= Size THEN Size ELSE y
      /\ q = [head |-> q.head, tail |-> q.tail, available |-> q.available, cell |-> q.cell]
  BY <1>1, <1>4
<1>6. q.available \in 0 .. Size
  BY <1>5, SizePositive
<1>7. q \in SRing
  BY ONLY <1>2, <1>5, <1>6 DEF SRing
<1>8. /\ z + n < 2 * Size => y = z + n
      /\ z + n >= 2 * Size => n >= Size
  <2>1. z + n \in Nat /\ Size \in Nat
    BY SizePositive
  <2>2. ASSUME z + n < 2 * Size
        PROVE  y = z + n
    <3>1. z + n \in 0 .. 2 * Size - 1
      BY <2>1, <2>2
    <3> QED BY <1>3, <3>1, Counting
  <2> QED BY <2>1, <2>2
<1>9. n < Size => q.available = Kept(z + n)
  BY <1>5, <1>8, SizePositive DEF Kept
<1>10. Kept(q.available + n) = Kept(z + n + n)
  BY <1>5, <1>8, SizePositive DEF Kept
<1> QED BY <1>3, <1>5, <1>6, <1>7, <1>9, <1>10

\* A copy short of the end of _cbuf.
LEMMA CopiedFields ==
  ASSUME NEW r \in SRing, r.available <= Size, NEW b \in Seq(Int), CopyReaches(r, Len(b)),
         NEW q, q = Copied(r, b)
  PROVE  /\ Len(b) < Size /\ r.tail + Len(b) < Size
         /\ q.head = r.head /\ q.tail = Ahead(r.tail, Len(b)) /\ q \in SRing
         /\ q.available = Kept(r.available + Len(b))
         /\ \A p \in Slots : q.cell[p] = IF p \in r.tail .. r.tail + Len(b) - 1
                                         THEN b[p - r.tail + 1] ELSE r.cell[p]
<1>1. PICK m \in Nat : m = Len(b)
  BY LenProperties
<1>2. PICK t \in Index : t = r.tail
  BY DEF SRing
<1>3. m < Size - t
  BY <1>1, <1>2 DEF CopyReaches
<1>4. m < Size /\ t + m < Size /\ m \in 0 .. 2 * Size
  BY <1>3, SizePositive DEF Index
<1>5. PICK u : u = Counted(r, m)
  OBVIOUS
<1>6. u.head = r.head /\ u.tail = t /\ u.cell = r.cell /\ u \in SRing
      /\ u.available = Kept(r.available + m)
  BY <1>2, <1>4, <1>5, CountedFields
<1>7. PICK d : d = [p \in Slots |-> IF p \in t .. t + m - 1 THEN b[p - t + 1] ELSE u.cell[p]]
  OBVIOUS
<1>8. q = [u EXCEPT !.tail = Ahead(@, m), !.cell = d]
  BY <1>1, <1>2, <1>5, <1>7 DEF Copied
<1>9. u = [head |-> u.head, tail |-> u.tail, available |-> u.available, cell |-> u.cell]
  BY <1>6 DEF SRing
<1>10. /\ q.head = u.head /\ q.tail = Ahead(u.tail, m) /\ q.available = u.available /\ q.cell = d
       /\ q = [head |-> q.head, tail |-> q.tail, available |-> q.available, cell |-> q.cell]
  BY <1>8, <1>9
<1>11. d \in [Slots -> Int]
  <2>1. ASSUME NEW p \in Slots
        PROVE  (IF p \in t .. t + m - 1 THEN b[p - t + 1] ELSE u.cell[p]) \in Int
    <3>1. u.cell[p] \in Int
      BY <1>6 DEF SRing
    <3>2. ASSUME p \in t .. t + m - 1
          PROVE  b[p - t + 1] \in Int
      <4>1. p - t + 1 \in 1 .. m
        BY <3>2, SizePositive DEF Index
      <4> QED BY <1>1, <4>1, ElementOfSeq
    <3> QED BY <3>1, <3>2
  <2> QED BY <1>7, <2>1
<1>12. q.head \in Index /\ q.tail \in Index /\ q.available \in Nat /\ q.cell \in [Slots -> Int]
  <2>1. Ahead(t, m) \in Index
    BY <1>4, AheadIs
  <2>2. u.head \in Index /\ u.available \in Nat
    BY <1>6 DEF SRing
  <2> QED BY <1>6, <1>10, <1>11, <2>1, <2>2
<1>13. q \in SRing
  BY ONLY <1>10, <1>12 DEF SRing
<1>14. \A p \in Slots : q.cell[p] = IF p \in t .. t + m - 1 THEN b[p - t + 1] ELSE r.cell[p]
  BY <1>6, <1>7, <1>10
<1> QED BY <1>1, <1>2, <1>4, <1>6, <1>10, <1>13, <1>14

\* Copied values lie behind the last one, where there is room for them.
LEMMA CopyShows ==
  ASSUME NEW r, NEW w, NEW a \in Int, NEW n \in 0 .. Size, Shows(r, w, a, n),
         r.available <= Size, NEW b \in Seq(Int), CopyReaches(r, Len(b)), n + Len(b) <= Size,
         \A i \in 1 .. Len(b) : w[a + n + i] = b[i], NEW q, q = Copied(r, b)
  PROVE  Shows(q, w, a, n + Len(b))
<1>1. PICK m \in Nat : m = Len(b)
  BY LenProperties
<1>2. PICK h \in Index, t \in Index, c \in [Slots -> Int] : h = r.head /\ t = r.tail /\ c = r.cell
  BY DEF Shows, SRing
<1>3. t = Ahead(h, n) /\ Places(h, c, w, a, n) /\ r \in SRing
  BY <1>2 DEF Shows
<1>4. /\ m < Size /\ t + m < Size /\ q.head = h /\ q.tail = Ahead(t, m) /\ q \in SRing
      /\ \A p \in Slots : q.cell[p] = IF p \in t .. t + m - 1 THEN b[p - t + 1] ELSE c[p]
  <2>1. /\ Len(b) < Size /\ r.tail + Len(b) < Size
        /\ q.head = r.head /\ q.tail = Ahead(r.tail, Len(b)) /\ q \in SRing
        /\ \A p \in Slots : q.cell[p] = IF p \in r.tail .. r.tail + Len(b) - 1
                                        THEN b[p - r.tail + 1] ELSE r.cell[p]
    BY <1>3, CopiedFields
  <2> QED BY <1>1, <1>2, <2>1
<1>5. Ahead(t, m) = Ahead(h, n + m)
  <2>1. m \in 0 .. 2 * Size /\ n \in 0 .. 2 * Size /\ n + m <= 2 * Size
    BY <1>1, <1>4, SizePositive
  <2> QED BY <1>3, <2>1, AheadTwice
<1>6. \A j \in 0 .. m - 1 : t + j = SlotOf(h + (n + j + 1) - 1) /\ n + j + 1 \in 1 .. Size
  <2> TAKE j \in 0 .. m - 1
  <2>0. n + m <= Size /\ t + m < Size /\ Size \in Nat /\ h \in Nat /\ t \in Nat
    BY <1>1, <1>4, SizePositive DEF Index
  <2>1. j \in 0 .. Size /\ n + j <= Size /\ n + j + 1 \in 1 .. Size /\ h + (n + j) = h + (n + j + 1) - 1
        /\ t + j \in 0 .. Size - 1
    BY <2>0
  <2>2. SlotOf(Ahead(h, n) + j) = SlotOf(h + (n + j))
    BY <2>1, SlotAhead
  <2>3. SlotOf(t + j) = t + j
    <3>1. \A x \in 0 .. Size - 1 : SlotOf(x) = x
      <4> TAKE x \in 0 .. Size - 1
      <4>1. x \in 0 .. 3 * Size
        BY SizePositive
      <4> QED BY <4>1, SlotOfIs, SizePositive
    <3> QED BY <2>1, <3>1
  <2> QED BY <1>3, <2>1, <2>2, <2>3
<1>7. ASSUME NEW i \in 1 .. n + m
      PROVE  q.cell[SlotOf(h + i - 1)] = w[a + i]
  <2>1. i \in 1 .. Size
    BY <1>1, SizePositive
  <2>2. PICK p \in Slots : p = SlotOf(h + i - 1)
    BY <2>1, PlacesDiffer
  <2>3. CASE i <= n
    <3>1. p \notin t .. t + m - 1
      <4> SUFFICES ASSUME p \in t .. t + m - 1 PROVE FALSE
        OBVIOUS
      <4>1. PICK j \in 0 .. m - 1 : p = t + j
        <5>1. p - t \in 0 .. m - 1 /\ p = t + (p - t)
          BY SizePositive DEF Index, Slots
        <5> QED BY <5>1
      <4>2. SlotOf(h + i - 1) = SlotOf(h + (n + j + 1) - 1) /\ n + j + 1 \in 1 .. Size
        BY <1>6, <2>2, <4>1
      <4>3. i = n + j + 1
        BY <2>1, <4>2, PlacesDiffer
      <4> QED BY <2>3, <4>3, SizePositive
    <3>2. i \in 1 .. n
      BY <2>3
    <3> QED BY <1>3, <1>4, <2>2, <3>1, <3>2 DEF Places
  <2>4. CASE i > n
    <3>1. PICK j \in 0 .. m - 1 : i = n + j + 1
      <4>1. i - n - 1 \in 0 .. m - 1 /\ i = n + (i - n - 1) + 1
        BY <2>4, SizePositive
      <4> QED BY <4>1
    <3>2. p = t + j
      BY <1>6, <2>2, <3>1
    <3>3. p \in t .. t + m - 1 /\ p - t + 1 = j + 1 /\ j + 1 \in 1 .. m /\ a + i = a + n + (j + 1)
      BY <3>1, <3>2, SizePositive DEF Index
    <3>4. q.cell[p] = b[j + 1]
      BY <1>4, <3>3
    <3>5. w[a + n + (j + 1)] = b[j + 1]
      BY <1>1, <3>3
    <3> QED BY <2>2, <3>3, <3>4, <3>5
  <2> QED BY <2>3, <2>4, SizePositive
<1> QED BY <1>1, <1>4, <1>5, <1>7 DEF Shows, Places

-----------------------------------------------------------------------------
(* Sorting *)

\* p goes through 1 .. n, each once.
Orderly(p, n) ==
  /\ p \in [1 .. n -> 1 .. n]
  /\ \A i \in 1 .. n : \A j \in 1 .. n : p[i] = p[j] => i = j
  /\ \A j \in 1 .. n : \E i \in 1 .. n : p[i] = j

\* Orders(n) spelt out.
LEMMA OrdersAre ==
  ASSUME NEW n \in Nat, NEW p
  PROVE  p \in Orders(n) <=> Orderly(p, n)
BY DEF Orders, Orderly, Seqs!Bijection, Seqs!Injection, Seqs!Surjection, Seqs!IsInjective

\* A new value is put before the first that is larger.
LEMMA Inserted ==
  ASSUME NEW s, NEW k \in Nat \ {0}, \A i \in 1 .. k : s[i] \in Int, NEW p, Orderly(p, k - 1),
         \A i \in 1 .. k - 2 : s[p[i]] <= s[p[i + 1]]
  PROVE  \E q : Orderly(q, k) /\ \A i \in 1 .. k - 1 : s[q[i]] <= s[q[i + 1]]
<1>0. /\ \A i \in 1 .. k - 1 : p[i] \in 1 .. k - 1 /\ p[i] \in 1 .. k /\ s[p[i]] \in Int
      /\ s[k] \in Int /\ k - 1 \in Nat
  <2>1. \A i \in 1 .. k - 1 : p[i] \in 1 .. k - 1
    BY DEF Orderly
  <2>2. \A j \in 1 .. k - 1 : j \in 1 .. k
    OBVIOUS
  <2>3. k \in 1 .. k /\ k - 1 \in Nat
    OBVIOUS
  <2> QED BY <2>1, <2>2, <2>3
<1>1. PICK m \in 1 .. k : /\ \A i \in 1 .. k - 1 : i < m => s[p[i]] <= s[k]
                          /\ m < k => s[p[m]] > s[k]
  <2> DEFINE T == {i \in 0 .. k - 1 : \A j \in 1 .. k - 1 : j <= i => s[p[j]] <= s[k]}
  <2>0. 0 \in T
    BY <1>0
  <2>1. CASE \E m \in 1 .. k - 1 : m - 1 \in T /\ m \notin T
    <3>1. PICK m \in 1 .. k - 1 : m - 1 \in T /\ m \notin T
      BY <2>1
    <3>2. m \in 0 .. k - 1 /\ m \in 1 .. k
      OBVIOUS
    <3>3. PICK j \in 1 .. k - 1 : j <= m /\ ~ (s[p[j]] <= s[k])
      BY <3>1, <3>2
    <3>4. ~ (j <= m - 1)
      BY <3>1, <3>3
    <3>5. j = m
      BY <3>3, <3>4
    <3>6. s[p[m]] > s[k]
      BY <1>0, <3>3, <3>5
    <3>7. \A i \in 1 .. k - 1 : i < m => s[p[i]] <= s[k]
      BY <3>1
    <3> QED BY <3>2, <3>6, <3>7
  <2>2. CASE \A m \in 1 .. k - 1 : m - 1 \in T => m \in T
    <3> HIDE DEF T
    <3>1. \A m \in 0 .. k - 1 : m \in T
      BY <1>0, <2>0, <2>2, Upward
    <3>2. k - 1 \in T
      BY <1>0, <3>1
    <3>3. k \in 1 .. k /\ ~ (k < k) /\ \A i \in 1 .. k - 1 : s[p[i]] <= s[k]
      BY <3>2 DEF T
    <3> QED BY <3>3
  <2> QED BY <2>1, <2>2
<1> DEFINE q == [i \in 1 .. k |-> IF i < m THEN p[i] ELSE IF i = m THEN k ELSE p[i - 1]]
           from(i) == IF i < m THEN i ELSE i - 1
<1>2. \A i \in 1 .. k : i # m => from(i) \in 1 .. k - 1
  OBVIOUS
<1>3. \A i \in 1 .. k : q[i] = IF i = m THEN k ELSE p[from(i)]
  OBVIOUS
<1>4. \A i, j \in 1 .. k : i # m /\ j # m /\ from(i) = from(j) => i = j
  OBVIOUS
<1>5. \A x \in 1 .. k - 1 : \E i \in 1 .. k : i # m /\ x = from(i)
  <2> TAKE x \in 1 .. k - 1
  <2>1. CASE x < m
    BY <2>1
  <2>2. CASE x >= m
    <3>1. x + 1 \in 1 .. k /\ x + 1 # m /\ x = from(x + 1)
      BY <2>2
    <3> QED BY <3>1
  <2> QED BY <2>1, <2>2
<1>6. q \in [1 .. k -> 1 .. k]
  <2>1. \A i \in 1 .. k : q[i] \in 1 .. k
    <3> HIDE DEF q, from
    <3>1. k \in 1 .. k
      OBVIOUS
    <3> QED BY <1>0, <1>2, <1>3, <3>1
  <2> QED BY <2>1
<1>7. \A i \in 1 .. k - 1 :
        /\ i \in 1 .. k /\ i + 1 \in 1 .. k
        /\ i + 1 < m => from(i) = i /\ from(i + 1) = i + 1 /\ i \in 1 .. k - 2
        /\ i + 1 = m => from(i) = i /\ i < m /\ i # m
        /\ i = m => from(i + 1) = m /\ m < k /\ i + 1 # m
        /\ i > m => from(i + 1) = from(i) + 1 /\ from(i) \in 1 .. k - 2 /\ i # m /\ i + 1 # m
        /\ i + 1 < m \/ i + 1 = m \/ i = m \/ i > m
        /\ i + 1 < m => i # m /\ i + 1 # m
  OBVIOUS
<1> HIDE DEF q, from
<1>8. \A i \in 1 .. k : \A j \in 1 .. k : q[i] = q[j] => i = j
  <2> TAKE i \in 1 .. k
  <2> TAKE j \in 1 .. k
  <2> HAVE q[i] = q[j]
  <2>1. k \notin 1 .. k - 1
    OBVIOUS
  <2>2. CASE i = m
    <3>1. q[j] = k
      BY <1>3, <2>2
    <3> QED BY <1>0, <1>2, <1>3, <2>1, <2>2, <3>1
  <2>3. CASE j = m
    <3>1. q[i] = k
      BY <1>3, <2>3
    <3> QED BY <1>0, <1>2, <1>3, <2>1, <2>3, <3>1
  <2>4. CASE i # m /\ j # m
    <3>1. /\ p[from(i)] = p[from(j)]
          /\ from(i) \in 1 .. k - 1 /\ from(j) \in 1 .. k - 1
      BY <1>2, <1>3, <2>4
    <3>2. from(i) = from(j)
      BY <3>1 DEF Orderly
    <3> QED BY <1>4, <2>4, <3>2
  <2> QED BY <2>2, <2>3, <2>4
<1>9. ASSUME NEW j \in 1 .. k
      PROVE  \E i \in 1 .. k : q[i] = j
  <2>1. CASE j = k
    BY <1>3, <2>1
  <2>2. CASE j # k
    <3>1. j \in 1 .. k - 1
      BY <2>2
    <3>2. PICK x \in 1 .. k - 1 : p[x] = j
      BY <3>1 DEF Orderly
    <3>3. PICK i \in 1 .. k : i # m /\ x = from(i)
      BY <1>5
    <3> QED BY <1>3, <3>2, <3>3
  <2> QED BY <2>1, <2>2
<1>10. Orderly(q, k)
  BY <1>6, <1>8, <1>9 DEF Orderly
<1>11. ASSUME NEW i \in 1 .. k - 1
       PROVE  s[q[i]] <= s[q[i + 1]]
  <2>0. i \in 1 .. k /\ i + 1 \in 1 .. k /\ m \in 1 .. k
    BY <1>7
  <2>1. CASE i + 1 < m
    <3>1. q[i] = p[i] /\ q[i + 1] = p[i + 1] /\ i \in 1 .. k - 2
      BY <1>3, <1>7, <2>0, <2>1
    <3> QED BY <3>1
  <2>2. CASE i + 1 = m
    <3>1. q[i] = p[i] /\ q[i + 1] = k /\ i < m
      BY <1>3, <1>7, <2>0, <2>2
    <3> QED BY <1>1, <3>1
  <2>3. CASE i = m
    <3>1. q[i] = k /\ q[i + 1] = p[m] /\ m < k
      BY <1>3, <1>7, <2>0, <2>3
    <3>2. s[p[m]] > s[k] /\ s[p[m]] \in Int /\ s[k] \in Int
      BY <1>0, <1>1, <2>3, <3>1
    <3> QED BY <3>1, <3>2
  <2>4. CASE i > m
    <3>1. q[i] = p[from(i)] /\ q[i + 1] = p[from(i) + 1] /\ from(i) \in 1 .. k - 2
      BY <1>3, <1>7, <2>0, <2>4
    <3> QED BY <3>1
  <2> QED BY <1>7, <2>1, <2>2, <2>3, <2>4
<1> QED BY <1>10, <1>11

\* Every sequence of numbers can be put in order.
LEMMA CanBeSorted ==
  ASSUME NEW s \in Seq(Int)
  PROVE  \E p \in Orders(Len(s)) : Rises(Rearranged(s, p))
<1> DEFINE In(p, k) == Orderly(p, k) /\ \A i \in 1 .. k - 1 : s[p[i]] <= s[p[i + 1]]
           T == {k \in 0 .. Len(s) : \E p : In(p, k)}
<1>1. Len(s) \in Nat /\ \A i \in 1 .. Len(s) : s[i] \in Int
  BY ElementOfSeq, LenProperties
<1>2. 0 \in T
  <2>1. In([i \in 1 .. 0 |-> i], 0)
    BY DEF Orderly
  <2> HIDE DEF In
  <2>2. \E p : In(p, 0)
    BY <2>1
  <2> QED BY <1>1, <2>2
<1>3. ASSUME NEW k \in 1 .. Len(s), k - 1 \in T
      PROVE  k \in T
  <2>1. PICK p : In(p, k - 1)
    BY <1>3
  <2>2. /\ k \in Nat \ {0} /\ \A i \in 1 .. k : s[i] \in Int
        /\ k - 1 - 1 = k - 2
    BY <1>1
  <2>3. Orderly(p, k - 1) /\ \A i \in 1 .. k - 2 : s[p[i]] <= s[p[i + 1]]
    BY <2>1, <2>2
  <2>4. \E q : In(q, k)
    BY <2>2, <2>3, Inserted
  <2>5. k \in 0 .. Len(s)
    BY <1>1
  <2> HIDE DEF In
  <2> QED BY <2>4, <2>5
<1> HIDE DEF T
<1>4. \A k \in 0 .. Len(s) : k \in T
  BY <1>1, <1>2, <1>3, Upward
<1>5. Len(s) \in T
  BY <1>1, <1>4
<1>6. PICK p : In(p, Len(s))
  BY <1>5 DEF T
<1>7. p \in Orders(Len(s))
  BY <1>1, <1>6, OrdersAre
<1>8. Rises(Rearranged(s, p))
  <2>1. PICK n \in Nat : n = Len(s)
    BY <1>1
  <2>2. PICK t : t = Rearranged(s, p)
    OBVIOUS
  <2>3. t = [i \in 1 .. n |-> s[p[i]]]
    BY <2>1, <2>2 DEF Rearranged
  <2>4. Len(t) = n
    BY <2>1, <2>3
  <2>5. \A i \in 1 .. n - 1 : t[i] <= t[i + 1]
    <3> TAKE i \in 1 .. n - 1
    <3>1. i \in 1 .. n /\ i + 1 \in 1 .. n
      BY <2>1
    <3> QED BY <1>6, <2>1, <2>3, <3>1
  <2>6. Rises(t)
    BY <2>4, <2>5 DEF Rises
  <2> QED BY <2>2, <2>6
<1> QED BY <1>7, <1>8

\* A sequence in another order.
LEMMA RearrangedIs ==
  ASSUME NEW s \in Seq(Int), NEW p \in Orders(Len(s)), NEW t, t = Rearranged(s, p)
  PROVE  /\ t \in Seq(Int) /\ Len(t) = Len(s) /\ SameValues(s, t)
         /\ \A i \in 1 .. Len(s) : t[i] = s[p[i]] /\ p[i] \in 1 .. Len(s)
<1>1. PICK n \in Nat : n = Len(s)
  BY LenProperties
<1>2. \A i \in 1 .. n : p[i] \in 1 .. n /\ s[p[i]] \in Int
  <2>1. Orderly(p, n)
    BY <1>1, OrdersAre
  <2>2. \A i \in 1 .. n : p[i] \in 1 .. n
    BY <2>1 DEF Orderly
  <2> QED BY <1>1, <2>2, ElementOfSeq
<1>3. t = [i \in 1 .. n |-> s[p[i]]]
  BY <1>1 DEF Rearranged
<1>4. t \in Seq(Int) /\ Len(t) = n
  BY <1>2, <1>3
<1> QED BY <1>1, <1>2, <1>3, <1>4 DEF SameValues

\* What std::sort() makes of a sequence: the same values, rising.
LEMMA AscendingIs ==
  ASSUME NEW s \in Seq(Int), NEW t, t = Ascending(s)
  PROVE  /\ t \in Seq(Int) /\ Len(t) = Len(s) /\ SameValues(s, t)
         /\ \A i \in 1 .. Len(s) - 1 : t[i] <= t[i + 1]
<1>1. PICK p : p \in Orders(Len(s)) /\ t = Rearranged(s, p) /\ Rises(t)
  <2> DEFINE q == CHOOSE p \in Orders(Len(s)) : Rises(Rearranged(s, p))
  <2>1. q \in Orders(Len(s)) /\ Rises(Rearranged(s, q))
    BY CanBeSorted
  <2>2. t = Rearranged(s, q)
    BY DEF Ascending
  <2> HIDE DEF q
  <2> QED BY <2>1, <2>2
<1>2. t \in Seq(Int) /\ Len(t) = Len(s) /\ SameValues(s, t)
  BY <1>1, RearrangedIs
<1> QED BY <1>1, <1>2 DEF Rises

\* ... and turned round.
LEMMA DescendingIs ==
  ASSUME NEW s \in Seq(Int), NEW t, t = Seqs!Reverse(Ascending(s))
  PROVE  /\ t \in Seq(Int) /\ Len(t) = Len(s) /\ SameValues(s, t)
         /\ \A i \in 1 .. Len(s) - 1 : t[i] >= t[i + 1]
<1>1. PICK n \in Nat, u \in {Ascending(s)} : n = Len(s) /\ u = Ascending(s)
  BY LenProperties
<1>2. /\ u \in Seq(Int) /\ Len(u) = n
      /\ \A i \in 1 .. n - 1 : u[i] <= u[i + 1]
  BY <1>1, AscendingIs
<1>3. PICK p : p \in Orders(n) /\ u = Rearranged(s, p)
  BY <1>1, AscendingIs DEF SameValues
<1>4. Orderly(p, n) /\ u = [i \in 1 .. n |-> s[p[i]]]
  BY <1>1, <1>3, OrdersAre DEF Rearranged
<1>5. t = [i \in 1 .. n |-> u[n - i + 1]]
  BY <1>1, <1>2 DEF Seqs!Reverse
<1>6. \A i \in 1 .. n : n - i + 1 \in 1 .. n /\ n - (n - i + 1) + 1 = i
  OBVIOUS
<1>7. PICK q : q = [i \in 1 .. n |-> p[n - i + 1]]
  OBVIOUS
<1>8. Orderly(q, n)
  <2>1. q \in [1 .. n -> 1 .. n]
    BY <1>4, <1>6, <1>7 DEF Orderly
  <2>2. ASSUME NEW i \in 1 .. n, NEW j \in 1 .. n, q[i] = q[j]
        PROVE  i = j
    <3>1. p[n - i + 1] = p[n - j + 1]
      BY <1>7, <2>2
    <3>2. n - i + 1 = n - j + 1
      BY <1>4, <1>6, <3>1 DEF Orderly
    <3> QED BY <3>2
  <2>3. ASSUME NEW j \in 1 .. n
        PROVE  \E i \in 1 .. n : q[i] = j
    <3>1. PICK i \in 1 .. n : p[i] = j
      BY <1>4 DEF Orderly
    <3>2. n - i + 1 \in 1 .. n /\ q[n - i + 1] = p[n - (n - i + 1) + 1]
      BY <1>6, <1>7
    <3>3. q[n - i + 1] = p[i]
      BY <1>6, <3>2
    <3> QED BY <3>1, <3>2, <3>3
  <2> QED BY <2>1, <2>2, <2>3 DEF Orderly
<1>9. t = Rearranged(s, q)
  <2>1. \A i \in 1 .. n : u[n - i + 1] = s[q[i]]
    BY <1>4, <1>6, <1>7
  <2> QED BY <1>1, <1>5, <2>1 DEF Rearranged
<1>10. t \in Seq(Int) /\ Len(t) = Len(s) /\ SameValues(s, t)
  <2>1. q \in Orders(Len(s))
    BY <1>1, <1>8, OrdersAre
  <2> QED BY <1>9, <2>1, RearrangedIs
<1>11. ASSUME NEW i \in 1 .. n - 1
       PROVE  t[i] >= t[i + 1]
  <2>1. /\ i \in 1 .. n /\ i + 1 \in 1 .. n /\ n - i \in 1 .. n - 1
        /\ n - (i + 1) + 1 = n - i /\ n - i + 1 \in 1 .. n
    OBVIOUS
  <2>2. t[i] = u[n - i + 1] /\ t[i + 1] = u[n - i]
    BY <1>5, <2>1
  <2>3. u[n - i] <= u[n - i + 1] /\ u[n - i] \in Int /\ u[n - i + 1] \in Int
    <3>1. n - i \in 1 .. n
      BY <2>1
    <3> QED BY <1>2, <2>1, <3>1, ElementOfSeq
  <2> QED BY <2>2, <2>3
<1> QED BY <1>1, <1>10, <1>11

-----------------------------------------------------------------------------
(* Values laid in the slots of others *)

\* The place of a slot in the ring.
LEMMA PlaceOfSlot ==
  ASSUME NEW h \in Index, NEW j \in 1 .. Size
  PROVE  ((SlotOf(h + j - 1) + 2 * Size - h) % Size) + 1 = j
<1>1. PICK y \in 0 .. 3 * Size : y = h + j - 1
  <2>1. h + j - 1 \in 0 .. 3 * Size
    BY SizePositive DEF Index
  <2> QED BY <2>1
<1>2. PICK p \in Slots : p = SlotOf(y)
  BY SlotOfIs
<1>3. p = IF y >= 3 * Size THEN y - 3 * Size
          ELSE IF y >= 2 * Size THEN y - 2 * Size
          ELSE IF y >= Size THEN y - Size ELSE y
  BY <1>2, SlotOfIs
<1>4. PICK x \in 0 .. 3 * Size : x = p + 2 * Size - h
  <2>1. p + 2 * Size - h \in 0 .. 3 * Size
    BY SizePositive DEF Index, Slots
  <2> QED BY <2>1
<1>5. x % Size = j - 1
  <2>1. SlotOf(x) = IF x >= 3 * Size THEN x - 3 * Size
                    ELSE IF x >= 2 * Size THEN x - 2 * Size
                    ELSE IF x >= Size THEN x - Size ELSE x
    BY SlotOfIs
  <2>2. SlotOf(x) = j - 1
    BY <1>1, <1>3, <1>4, <2>1, SizePositive DEF Index, Slots
  <2> QED BY <2>2 DEF SlotOf
<1> QED BY <1>1, <1>2, <1>4, <1>5, SizePositive

\* sort_ascending() writes to the slots of the stored values, each at its place.
LEMMA LaidShows ==
  ASSUME NEW r \in SRing, NEW s \in Seq(Int), Len(s) = r.available, r.available <= Size,
         r.tail = Ahead(r.head, r.available), NEW q, q = Laid(r, s)
  PROVE  Shows(q, s, 0, r.available) /\ q.available = r.available
<1>1. r = [head |-> r.head, tail |-> r.tail, available |-> r.available, cell |-> r.cell]
  BY DEF SRing
<1>2. PICK h \in Index, n \in 0 .. Size, c \in [Slots -> Int] :
        h = r.head /\ n = r.available /\ c = r.cell
  BY SizePositive DEF SRing
<1>3. PICK d : d = [p \in Slots |-> LET i == ((p + 2 * Size - h) % Size) + 1
                                    IN  IF i <= n THEN s[i] ELSE c[p]]
  OBVIOUS
<1>4. q = [r EXCEPT !.cell = d]
  BY <1>2, <1>3 DEF Laid
<1>5. /\ q.head = r.head /\ q.tail = r.tail /\ q.available = r.available /\ q.cell = d
      /\ q = [head |-> q.head, tail |-> q.tail, available |-> q.available, cell |-> q.cell]
  BY <1>1, <1>4
<1>6. \A i \in 1 .. n : s[i] \in Int
  BY <1>2, ElementOfSeq
<1>7. d \in [Slots -> Int]
  <2>1. ASSUME NEW p \in Slots
        PROVE  d[p] \in Int
    <3>1. PICK i \in 1 .. Size : i = ((p + 2 * Size - h) % Size) + 1
      <4>1. p + 2 * Size - h \in Int
        BY SizePositive DEF Slots, Index
      <4>2. \A x \in Int : (x % Size) + 1 \in 1 .. Size
        BY SizePositive
      <4> QED BY <4>1, <4>2
    <3>2. d[p] = IF i <= n THEN s[i] ELSE c[p]
      BY <1>3, <3>1
    <3>3. i <= n => i \in 1 .. n
      BY <3>1
    <3> QED BY <1>6, <3>2, <3>3
  <2> QED BY <1>3, <2>1
<1>8. q \in SRing
  <2>1. r.head \in Index /\ r.tail \in Index /\ r.available \in Nat
    BY DEF SRing
  <2> QED BY ONLY <1>5, <1>7, <2>1 DEF SRing
<1>9. ASSUME NEW i \in 1 .. n
      PROVE  d[SlotOf(h + i - 1)] = s[0 + i]
  <2>1. i \in 1 .. Size /\ 0 + i = i /\ i <= n
    BY SizePositive
  <2>2. PICK p \in Slots : p = SlotOf(h + i - 1)
    BY <2>1, PlacesDiffer
  <2>3. ((p + 2 * Size - h) % Size) + 1 = i
    BY <2>1, <2>2, PlaceOfSlot
  <2>4. d[p] = s[i]
    BY <1>3, <2>1, <2>3
  <2> QED BY <2>1, <2>2, <2>4
<1> QED BY <1>2, <1>5, <1>8, <1>9 DEF Shows, Places

-----------------------------------------------------------------------------
(* A ring that has not strayed is a queue of values *)

\* Counter and indices agree.
Agrees(r) == r \in SRing /\ r.available <= Size /\ r.tail = Ahead(r.head, r.available)

\* Stored() is a sequence of numbers as long as the counter says.
LEMMA StoredIs ==
  ASSUME NEW r \in SRing, NEW s, s = Stored(r)
  PROVE  /\ s \in Seq(Int) /\ Len(s) = r.available
         /\ \A i \in 1 .. r.available : s[i] = r.cell[SlotOf(r.head + i - 1)]
<1>1. PICK h \in Index, n \in Nat, c \in [Slots -> Int] :
        h = r.head /\ n = r.available /\ c = r.cell
  BY DEF SRing
<1>2. s = [i \in 1 .. n |-> c[SlotOf(h + i - 1)]]
  BY <1>1 DEF Stored
<1>3. \A i \in 1 .. n : c[SlotOf(h + i - 1)] \in Int
  <2> TAKE i \in 1 .. n
  <2>1. \A x \in Int : SlotOf(x) \in Slots
    BY SizePositive DEF SlotOf, Slots
  <2>2. h + i - 1 \in Int
    BY SizePositive DEF Index
  <2> QED BY <2>1, <2>2
<1> QED BY <1>1, <1>2, <1>3

\* The values of such a ring lie where w has them.
LEMMA AgreesShows ==
  ASSUME NEW r, Agrees(r), NEW w, NEW a \in Int,
         \A i \in 1 .. r.available : w[a + i] = Stored(r)[i]
  PROVE  Shows(r, w, a, r.available) /\ r.available \in 0 .. Size
<1>1. r \in SRing /\ r.available \in 0 .. Size
  BY SizePositive DEF Agrees, SRing
<1>2. PICK s \in Seq(Int) : s = Stored(r)
  BY <1>1, StoredIs
<1>3. \A i \in 1 .. r.available : s[i] = r.cell[SlotOf(r.head + i - 1)]
  BY <1>1, <1>2, StoredIs
<1>4. Places(r.head, r.cell, w, a, r.available)
  BY <1>2, <1>3 DEF Places
<1> QED BY <1>1, <1>4 DEF Shows, Agrees

\* A ring whose counter is right stores the values it shows.
LEMMA ShownIsStored ==
  ASSUME NEW q, NEW w, NEW a \in Int, NEW n \in 0 .. Size, Shows(q, w, a, n), q.available = n
  PROVE  Agrees(q) /\ Stored(q) = [i \in 1 .. n |-> w[a + i]]
<1>1. q \in SRing /\ \A i \in 1 .. n : q.cell[SlotOf(q.head + i - 1)] = w[a + i]
  BY DEF Shows, Places
<1>2. Stored(q) = [i \in 1 .. n |-> q.cell[SlotOf(q.head + i - 1)]]
  BY DEF Stored
<1>3. Stored(q) = [i \in 1 .. n |-> w[a + i]]
  BY <1>1, <1>2
<1> QED BY <1>1, <1>3, SizePositive DEF Agrees, Shows

\* The newest values of w.
LEMMA NewestIs ==
  ASSUME NEW w \in Seq(Int), NEW n \in Nat, n = Len(w)
  PROVE  /\ Kept(n) \in 0 .. Size /\ Gone(n) \in Nat
         /\ Values!Newest(w) = [i \in 1 .. Kept(n) |-> w[Gone(n) + i]]
<1>2. Kept(n) \in 0 .. Size /\ Gone(n) \in Nat
  BY SizePositive DEF Kept, Gone
<1>3. CASE n <= Size
  <2>1. Values!Newest(w) = w /\ Kept(n) = n /\ Gone(n) = 0
    BY <1>3 DEF Values!Newest, Kept, Gone
  <2>2. w = [i \in 1 .. n |-> w[i]]
    OBVIOUS
  <2>3. \A i \in 1 .. n : 0 + i = i
    OBVIOUS
  <2>4. w = [i \in 1 .. n |-> w[0 + i]]
    BY <2>2, <2>3
  <2> QED BY <1>2, <2>1, <2>4
<1>4. CASE n > Size
  <2>1. Values!Newest(w) = SubSeq(w, n - Size + 1, n) /\ Kept(n) = Size /\ Gone(n) = n - Size
    BY <1>4, SizePositive DEF Values!Newest, Kept, Gone
  <2>2. SubSeq(w, n - Size + 1, n) = [i \in 1 .. Size |-> w[n - Size + i]]
    <3>1. PICK d \in Nat : d = n - Size + 1
      <4>1. n - Size + 1 \in Nat
        BY <1>4, SizePositive
      <4> QED BY <4>1
    <3>2. n - d + 1 = Size /\ \A i \in 1 .. Size : i + d - 1 = n - Size + i
      BY <3>1, SizePositive
    <3>3. SubSeq(w, d, n) = [i \in 1 .. (n - d + 1) |-> w[i + d - 1]]
      OBVIOUS
    <3> QED BY <3>1, <3>2, <3>3
  <2> QED BY <1>2, <2>1, <2>2
<1> QED BY <1>3, <1>4, SizePositive

\* Values behind one another.
LEMMA Joined ==
  ASSUME NEW s \in Seq(Int), NEW b \in Seq(Int), NEW w, w = s \o b
  PROVE  /\ w \in Seq(Int) /\ Len(w) = Len(s) + Len(b)
         /\ \A i \in 1 .. Len(s) : w[i] = s[i] /\ w[0 + i] = s[i]
         /\ \A i \in 1 .. Len(b) : w[Len(s) + i] = b[i] /\ w[0 + Len(s) + i] = b[i]
<1>1. PICK n \in Nat, m \in Nat : n = Len(s) /\ m = Len(b)
  BY LenProperties
<1>2. w \in Seq(Int) /\ Len(w) = n + m
  BY <1>1, ConcatProperties
<1>3. \A i \in 1 .. n + m : w[i] = IF i <= n THEN s[i] ELSE b[i - n]
  BY <1>1, ConcatProperties
<1>4. \A i \in 1 .. n : i \in 1 .. n + m /\ i <= n /\ 0 + i = i
  OBVIOUS
<1>5. \A i \in 1 .. m : n + i \in 1 .. n + m /\ ~ (n + i <= n) /\ n + i - n = i /\ 0 + n + i = n + i
  OBVIOUS
<1> QED BY <1>1, <1>2, <1>3, <1>4, <1>5

\* The values b are those behind w[n].
Follow(b, w, n) == \A i \in 1 .. Len(b) : w[0 + n + i] = b[i]

\* Values that follow those stored.
LEMMA StoredThen ==
  ASSUME NEW r, Agrees(r), NEW b \in Seq(Int), NEW w, w = Stored(r) \o b
  PROVE  /\ r.available \in 0 .. Size /\ Len(b) \in Nat /\ r.available + Len(b) \in Nat
         /\ w \in Seq(Int) /\ r.available + Len(b) = Len(w)
         /\ Shows(r, w, 0, r.available) /\ Follow(b, w, r.available)
<1>1. r \in SRing
  BY DEF Agrees
<1>2. PICK s \in Seq(Int) : s = Stored(r)
  BY <1>1, StoredIs
<1>3. Len(s) = r.available
  BY <1>1, <1>2, StoredIs
<1>4. /\ w \in Seq(Int) /\ Len(w) = Len(s) + Len(b)
      /\ \A i \in 1 .. Len(s) : w[0 + i] = s[i]
      /\ \A i \in 1 .. Len(b) : w[0 + Len(s) + i] = b[i]
  BY <1>2, Joined
<1>5. 0 \in Int /\ \A i \in 1 .. r.available : w[0 + i] = Stored(r)[i]
  BY <1>2, <1>3, <1>4
<1>6. Shows(r, w, 0, r.available) /\ r.available \in 0 .. Size
  BY <1>5, AgreesShows
<1>7. Len(b) \in Nat
  BY LenProperties
<1>8. r.available + Len(b) \in Nat
  BY <1>6, <1>7, SizePositive
<1>9. Follow(b, w, r.available)
  BY <1>3, <1>4 DEF Follow
<1> QED BY <1>3, <1>4, <1>6, <1>7, <1>8, <1>9

\* A ring with the newest values of w.
LEMMA NewestStored ==
  ASSUME NEW q, NEW w \in Seq(Int), NEW x \in Nat, x = Len(w),
         Shows(q, w, 0 + Gone(x), Kept(x)), q.available = Kept(x)
  PROVE  Agrees(q) /\ Stored(q) = Values!Newest(w)
<1>1. /\ Kept(x) \in 0 .. Size /\ Gone(x) \in Nat
      /\ Values!Newest(w) = [i \in 1 .. Kept(x) |-> w[Gone(x) + i]]
  BY NewestIs
<1>2. PICK k \in 0 .. Size, g \in Nat : k = Kept(x) /\ g = Gone(x)
  BY <1>1
<1>3. 0 + g = g /\ g \in Int
  OBVIOUS
<1>4. Shows(q, w, g, k) /\ q.available = k
  BY <1>2, <1>3
<1>5. Agrees(q) /\ Stored(q) = [i \in 1 .. k |-> w[g + i]]
  BY <1>3, <1>4, ShownIsStored
<1> QED BY <1>1, <1>2, <1>5

\* write(value)
LEMMA WriteKeeps ==
  ASSUME NEW r, Agrees(r), NEW v \in Int, NEW q, q = Written(r, v)
  PROVE  Agrees(q) /\ Stored(q) = Values!Newest(Stored(r) \o << v >>)
<1>1. r \in SRing
  BY DEF Agrees
<1>2. PICK n, w, b, m : n = r.available /\ w = Stored(r) \o b /\ b = << v >> /\ m = Len(b)
  OBVIOUS
<1>3. b \in Seq(Int) /\ m = 1 /\ b[1] = v
  BY <1>2
<1>4. /\ n \in 0 .. Size /\ n + m \in Nat /\ w \in Seq(Int) /\ n + m = Len(w)
      /\ Shows(r, w, 0, n) /\ \A i \in 1 .. m : w[0 + n + i] = b[i]
  <2>1. /\ r.available \in 0 .. Size /\ r.available + Len(b) \in Nat /\ w \in Seq(Int)
        /\ r.available + Len(b) = Len(w) /\ Shows(r, w, 0, r.available)
        /\ Follow(b, w, r.available)
    <3>1. w = Stored(r) \o b /\ b \in Seq(Int)
      BY <1>2, <1>3
    <3> QED BY <3>1, StoredThen
  <2> QED BY <1>2, <2>1 DEF Follow
<1>5. 0 \in Int /\ v = w[0 + n + 1] /\ 1 \in 1 .. m
  BY <1>3, <1>4
<1>6. IF n < Size THEN Shows(q, w, 0, n + 1) ELSE Shows(q, w, 0 + 1, Size)
  BY <1>4, <1>5, WriteShows
<1>7. q.available = IF n < Size THEN n + 1 ELSE n
  <2>1. q.available = IF r.available < Size THEN r.available + 1 ELSE r.available
    BY <1>1, WrittenFields
  <2> QED BY <1>2, <2>1
<1>8. Shows(q, w, 0 + Gone(n + 1), Kept(n + 1)) /\ q.available = Kept(n + 1)
  <2>2. CASE n < Size
    <3>1. 0 + Gone(n + 1) = 0 /\ Kept(n + 1) = n + 1
      BY <1>4, <2>2, SizePositive DEF Kept, Gone
    <3> QED BY <1>6, <1>7, <2>2, <3>1
  <2>3. CASE n = Size
    <3>1. 0 + Gone(n + 1) = 0 + 1 /\ Kept(n + 1) = Size /\ ~ (n < Size)
      BY <1>4, <2>3, SizePositive DEF Kept, Gone
    <3> QED BY <1>6, <1>7, <2>3, <3>1
  <2> QED BY <1>4, <2>2, <2>3, SizePositive
<1>9. Agrees(q) /\ Stored(q) = Values!Newest(w)
  BY <1>3, <1>4, <1>8, NewestStored
<1> QED BY <1>2, <1>9

\* write(buffer, length): where the values are and what is counted.
LEMMA WriteAllShows ==
  ASSUME NEW r, NEW w, NEW a \in Int, NEW n \in 0 .. Size, Shows(r, w, a, n), r.available = n,
         NEW b \in Seq(Int), \A i \in 1 .. Len(b) : w[a + n + i] = b[i],
         NEW q, q = WrittenAll(r, b), CopyReaches(r, Len(b)) => n + Len(b) <= Size
  PROVE  /\ Shows(q, w, a + Gone(n + Len(b)), Kept(n + Len(b)))
         /\ q.available = IF CopyReaches(r, Len(b)) THEN Kept(n + Len(b))
                          ELSE Kept(n + Len(b) + Len(b))
<1>1. PICK m \in Nat : m = Len(b)
  BY LenProperties
<1>2. r \in SRing /\ r.available <= Size
  BY SizePositive DEF Shows
<1>3. CASE CopyReaches(r, m)
  <2>1. q = Copied(r, b) /\ n + m <= Size /\ CopyReaches(r, Len(b))
    BY <1>1, <1>3 DEF WrittenAll
  <2>2. Shows(q, w, a, n + m)
    BY <1>1, <1>2, <1>3, <2>1, CopyShows
  <2>3. q.available = Kept(n + m)
    BY <1>1, <1>2, <1>3, <2>1, CopiedFields
  <2>4. a + Gone(n + m) = a /\ Kept(n + m) = n + m
    BY <2>1, SizePositive DEF Kept, Gone
  <2> QED BY <1>1, <1>3, <2>2, <2>3, <2>4
<1>4. CASE ~ CopyReaches(r, m)
  <2>1. PICK u : u = Counted(r, m)
    OBVIOUS
  <2>2. q = WrittenEach(u, b)
    BY <1>1, <1>4, <2>1 DEF WrittenAll
  <2>3. /\ u.head = r.head /\ u.tail = r.tail /\ u.cell = r.cell /\ u \in SRing
        /\ u.available \in 0 .. Size /\ Kept(u.available + m) = Kept(n + m + m)
    BY <1>1, <1>2, <2>1, CountedFields
  <2>4. Shows(u, w, a, n) /\ u.available <= Size
    BY <2>3, SizePositive DEF Shows
  <2>5. /\ Shows(q, w, a + Gone(n + m), Kept(n + m))
        /\ q.available = Kept(u.available + m)
    BY <1>1, <2>2, <2>4, EachShows
  <2> QED BY <1>1, <1>4, <2>3, <2>5
<1> QED BY <1>3, <1>4

\* write(buffer, length) where MayWrite() allows it.
LEMMA WriteAllKeeps ==
  ASSUME NEW r, Agrees(r), NEW b \in Seq(Int), NEW q, q = WrittenAll(r, b),
         IF CopyReaches(r, Len(b)) THEN r.available + Len(b) <= Size
         ELSE Len(b) = 0 \/ r.available + Len(b) + 0 >= Size
  PROVE  Agrees(q) /\ Stored(q) = Values!Newest(Stored(r) \o b)
<1>1. PICK n, w, m : n = r.available /\ w = Stored(r) \o b /\ m = Len(b)
  OBVIOUS
<1>2. /\ n \in 0 .. Size /\ m \in Nat /\ n + m \in Nat /\ w \in Seq(Int) /\ n + m = Len(w)
      /\ Shows(r, w, 0, n) /\ \A i \in 1 .. m : w[0 + n + i] = b[i]
  <2>1. /\ r.available \in 0 .. Size /\ Len(b) \in Nat /\ r.available + Len(b) \in Nat
        /\ w \in Seq(Int) /\ r.available + Len(b) = Len(w) /\ Shows(r, w, 0, r.available)
        /\ Follow(b, w, r.available)
    BY <1>1, StoredThen
  <2> QED BY <1>1, <2>1 DEF Follow
<1>3. /\ 0 \in Int /\ n \in 0 .. Size /\ Shows(r, w, 0, n) /\ r.available = n
      /\ \A i \in 1 .. Len(b) : w[0 + n + i] = b[i]
      /\ CopyReaches(r, Len(b)) => n + Len(b) <= Size
  BY <1>1, <1>2
<1>4. /\ Shows(q, w, 0 + Gone(n + Len(b)), Kept(n + Len(b)))
      /\ q.available = IF CopyReaches(r, Len(b)) THEN Kept(n + Len(b))
                        ELSE Kept(n + Len(b) + Len(b))
  BY <1>3, WriteAllShows
<1>5. q.available = Kept(n + m)
  <2>1. CASE CopyReaches(r, m)
    BY <1>1, <1>4, <2>1
  <2>2. CASE ~ CopyReaches(r, m)
    <3>1. m = 0 \/ n + m >= Size
      BY <1>1, <1>2, <2>2, SizePositive
    <3>2. Kept(n + m + m) = Kept(n + m)
      BY <1>2, <3>1, SizePositive DEF Kept
    <3> QED BY <1>1, <1>4, <2>2, <3>2
  <2> QED BY <2>1, <2>2
<1>6. Shows(q, w, 0 + Gone(n + m), Kept(n + m))
  BY <1>1, <1>4
<1>7. Agrees(q) /\ Stored(q) = Values!Newest(w)
  BY <1>2, <1>5, <1>6, NewestStored
<1> QED BY <1>1, <1>7

\* println()
LEMMA PrintLnKeeps ==
  ASSUME NEW r, Agrees(r), NEW b \in Seq(Int), NEW v \in Int,
         NEW q, q = Written(WrittenAll(r, b), v),
         IF CopyReaches(r, Len(b)) THEN r.available + Len(b) <= Size
         ELSE Len(b) = 0 \/ r.available + Len(b) + 1 >= Size
  PROVE  Agrees(q) /\ Stored(q) = Values!Newest(Stored(r) \o Append(b, v))
<1>0. PICK c \in Seq(Int) : c = Append(b, v)
  BY AppendProperties
<1>1. PICK n, w, m, u : n = r.available /\ w = Stored(r) \o c /\ m = Len(b) /\ u = WrittenAll(r, b)
  OBVIOUS
<1>2. /\ Len(c) = Len(b) + 1 /\ Len(b) \in Nat
      /\ \A i \in 1 .. Len(b) : c[i] = b[i]
      /\ c[Len(b) + 1] = v
  BY <1>0, AppendProperties, LenProperties
<1>3. /\ n \in 0 .. Size /\ n + Len(c) \in Nat /\ w \in Seq(Int) /\ n + Len(c) = Len(w)
      /\ Shows(r, w, 0, n) /\ \A i \in 1 .. Len(c) : w[0 + n + i] = c[i]
  <2>1. /\ r.available \in 0 .. Size /\ r.available + Len(c) \in Nat
        /\ w \in Seq(Int) /\ r.available + Len(c) = Len(w) /\ Shows(r, w, 0, r.available)
        /\ Follow(c, w, r.available)
    <3>1. w = Stored(r) \o c
      BY <1>1
    <3> QED BY <3>1, StoredThen
  <2> QED BY <1>1, <2>1 DEF Follow
<1>4. m \in Nat /\ n + (m + 1) \in Nat /\ n + (m + 1) = Len(w)
  BY <1>1, <1>2, <1>3
<1>5. /\ 0 \in Int /\ n \in 0 .. Size /\ Shows(r, w, 0, n) /\ r.available = n
      /\ \A i \in 1 .. Len(b) : w[0 + n + i] = b[i]
      /\ w[n + m + 1] = v
      /\ CopyReaches(r, Len(b)) => n + Len(b) <= Size
  <2>0. Len(c) = m + 1 /\ c[m + 1] = v /\ \A i \in 1 .. m : c[i] = b[i]
    BY <1>1, <1>2
  <2>1. \A i \in 1 .. m : i \in 1 .. m + 1
    BY <1>4
  <2>2. m + 1 \in 1 .. m + 1
    BY <1>4
  <2>3. 0 + n + (m + 1) = n + m + 1
    BY <1>3, <1>4, SizePositive
  <2>4. \A i \in 1 .. m : w[0 + n + i] = b[i]
    BY <1>3, <2>0, <2>1
  <2>5. w[n + m + 1] = v
    BY <1>3, <2>0, <2>2, <2>3
  <2>6. \A i \in 1 .. Len(b) : w[0 + n + i] = b[i]
    BY <1>1, <2>4
  <2>7. CopyReaches(r, Len(b)) => n + Len(b) <= Size
    BY <1>1
  <2>8. r.available = n /\ 0 \in Int
    BY <1>1
  <2> QED BY <1>3, <2>5, <2>6, <2>7, <2>8
<1>6. /\ Shows(u, w, 0 + Gone(n + Len(b)), Kept(n + Len(b)))
      /\ u.available = IF CopyReaches(r, Len(b)) THEN Kept(n + Len(b))
                        ELSE Kept(n + Len(b) + Len(b))
  <2>1. u = WrittenAll(r, b)
    BY <1>1
  <2> QED BY <1>5, <2>1, WriteAllShows
<1>7. PICK g, k : g = Gone(n + m) /\ k = Kept(n + m)
  OBVIOUS
<1>8. g \in Nat /\ k \in 0 .. Size /\ g + k = n + m /\ 0 + g = g /\ g \in Int
  BY <1>3, <1>4, <1>7, SizePositive DEF Gone, Kept
<1>9. Shows(u, w, g, k) /\ v = w[g + k + 1] /\ q = Written(u, v)
  BY <1>1, <1>5, <1>6, <1>7, <1>8
<1>10. IF k < Size THEN Shows(q, w, g, k + 1) ELSE Shows(q, w, g + 1, Size)
  BY <1>8, <1>9, WriteShows
<1>11. Shows(q, w, 0 + Gone(n + (m + 1)), Kept(n + (m + 1)))
  <2>1. CASE k < Size
    <3>1. 0 + Gone(n + (m + 1)) = g /\ Kept(n + (m + 1)) = k + 1
      BY <1>3, <1>4, <1>7, <2>1, SizePositive DEF Gone, Kept
    <3> QED BY <1>10, <2>1, <3>1
  <2>2. CASE ~ (k < Size)
    <3>1. 0 + Gone(n + (m + 1)) = g + 1 /\ Kept(n + (m + 1)) = Size
      BY <1>3, <1>4, <1>7, <2>2, SizePositive DEF Gone, Kept
    <3> QED BY <1>10, <2>2, <3>1
  <2> QED BY <2>1, <2>2
<1>12. q.available = Kept(n + (m + 1))
  <2>1. u \in SRing
    BY <1>9 DEF Shows
  <2>2. q.available = IF u.available < Size THEN u.available + 1 ELSE u.available
    BY <1>9, <2>1, WrittenFields
  <2>3. CASE CopyReaches(r, m)
    <3>1. n + m <= Size /\ u.available = n + m
      BY <1>1, <1>5, <1>6, <2>3 DEF Kept
    <3>2. n \in Nat /\ m \in Nat
      BY <1>3, <1>4, SizePositive
    <3>3. u.available < Size => Kept(n + (m + 1)) = u.available + 1
      BY <3>1, <3>2, SizePositive DEF Kept
    <3>4. ~ (u.available < Size) => Kept(n + (m + 1)) = u.available
      BY <3>1, <3>2, SizePositive DEF Kept
    <3> QED BY <2>2, <3>3, <3>4
  <2>4. CASE ~ CopyReaches(r, m)
    <3>1. u.available = Kept(n + m + m) /\ (m = 0 \/ n + m + 1 >= Size)
      BY <1>1, <1>6, <2>4
    <3>2. n \in Nat /\ m \in Nat
      BY <1>3, <1>4, SizePositive
    <3>3. u.available < Size => Kept(n + (m + 1)) = u.available + 1
      BY <3>1, <3>2, SizePositive DEF Kept
    <3>4. ~ (u.available < Size) => Kept(n + (m + 1)) = u.available
      BY <3>1, <3>2, SizePositive DEF Kept
    <3> QED BY <2>2, <3>3, <3>4
  <2> QED BY <2>3, <2>4
<1>13. Agrees(q) /\ Stored(q) = Values!Newest(w)
  BY <1>3, <1>4, <1>11, <1>12, NewestStored
<1> QED BY <1>0, <1>1, <1>13

\* push_front(buffer, length) on a ring with room.
LEMMA PushFrontKeeps ==
  ASSUME NEW r, Agrees(r), NEW b \in Seq(Int), r.available + Len(b) <= Size,
         NEW q, q = PushedFrontAll(r, b)
  PROVE  Agrees(q) /\ Stored(q) = b \o Stored(r)
<1>1. r \in SRing /\ r.available \in 0 .. Size
  BY SizePositive DEF Agrees, SRing
<1>2. PICK s \in Seq(Int) : s = Stored(r)
  BY <1>1, StoredIs
<1>3. Len(s) = r.available
  BY <1>1, <1>2, StoredIs
<1>4. PICK w : w = b \o s
  OBVIOUS
<1>5. PICK n \in 0 .. Size, m \in Nat : n = r.available /\ m = Len(b)
  BY <1>1, LenProperties
<1>6. /\ w \in Seq(Int) /\ Len(w) = Len(b) + Len(s)
      /\ \A i \in 1 .. Len(b) : w[0 + i] = b[i]
      /\ \A i \in 1 .. Len(s) : w[Len(b) + i] = s[i]
  BY <1>4, Joined
<1>7. /\ m \in Int /\ \A i \in 1 .. r.available : w[m + i] = Stored(r)[i]
  BY <1>2, <1>3, <1>5, <1>6
<1>8. Shows(r, w, m, r.available)
  BY <1>7, AgreesShows
<1>9. Shows(r, w, m, n) /\ n + Len(b) <= Size /\ m - Len(b) = 0 /\ n + m \in 0 .. Size
  BY <1>5, <1>8, SizePositive
<1>10. \A i \in 1 .. Len(b) : w[m - Len(b) + i] = b[i]
  BY <1>6, <1>9
<1>11. Shows(q, w, m - Len(b), n + Len(b))
  BY <1>7, <1>9, <1>10, AllFrontShows
<1>12. q.available = n + m
  <2>1. r.available <= Size /\ Len(b) < 2 * Size
    BY <1>1, <1>5, SizePositive
  <2>2. q.available = Kept(r.available + Len(b))
    BY <1>1, <2>1, AllFrontSpan
  <2> QED BY <1>5, <2>2 DEF Kept
<1>13. Shows(q, w, 0, n + m) /\ 0 \in Int
  BY <1>5, <1>9, <1>11
<1>14. Agrees(q) /\ Stored(q) = [i \in 1 .. n + m |-> w[0 + i]]
  BY <1>9, <1>12, <1>13, ShownIsStored
<1>15. w = [i \in 1 .. n + m |-> w[0 + i]]
  <2>1. Len(w) = n + m
    BY <1>3, <1>5, <1>6
  <2>2. w = [i \in 1 .. n + m |-> w[i]]
    BY <1>6, <2>1
  <2>3. \A i \in 1 .. n + m : 0 + i = i
    BY <1>9
  <2> QED BY <2>2, <2>3
<1> QED BY <1>2, <1>4, <1>14, <1>15

\* The front moves behind the first k values, which are no longer counted.
LEMMA FrontTaken ==
  ASSUME NEW r, Agrees(r), NEW k \in 0 .. r.available, NEW q \in SRing,
         q.head = Ahead(r.head, k), q.tail = r.tail, q.cell = r.cell,
         q.available = r.available - k
  PROVE  Agrees(q) /\ Stored(q) = SubSeq(Stored(r), k + 1, Len(Stored(r)))
<1>1. r \in SRing
  BY DEF Agrees
<1>2. PICK s \in Seq(Int) : s = Stored(r)
  BY <1>1, StoredIs
<1>3. Len(s) = r.available
  BY <1>1, <1>2, StoredIs
<1>4. 0 \in Int /\ \A i \in 1 .. r.available : s[0 + i] = Stored(r)[i]
  BY <1>2
<1>5. Shows(r, s, 0, r.available) /\ r.available \in 0 .. Size
  BY <1>4, AgreesShows
<1>6. PICK n \in 0 .. Size : n = r.available
  BY <1>5
<1>7. k \in 0 .. n /\ Shows(r, s, 0, n) /\ n - k \in 0 .. Size /\ 0 + k = k /\ k \in Int
  BY <1>5, <1>6, SizePositive
<1>8. Shows(q, s, 0 + k, n - k)
  BY <1>4, <1>7, FrontMoved
<1>9. Shows(q, s, k, n - k) /\ q.available = n - k
  BY <1>6, <1>7, <1>8
<1>10. Agrees(q) /\ Stored(q) = [i \in 1 .. n - k |-> s[k + i]]
  BY <1>7, <1>9, ShownIsStored
<1>11. SubSeq(s, k + 1, n) = [i \in 1 .. n - k |-> s[k + i]]
  <2>1. SubSeq(s, k + 1, n) = [i \in 1 .. (n - (k + 1) + 1) |-> s[i + (k + 1) - 1]]
    OBVIOUS
  <2>2. n - (k + 1) + 1 = n - k /\ \A i \in 1 .. n - k : i + (k + 1) - 1 = k + i
    BY <1>7
  <2> QED BY <2>1, <2>2
<1> QED BY <1>2, <1>3, <1>6, <1>10, <1>11

\* The back moves before the last value.
LEMMA BackTaken ==
  ASSUME NEW r, Agrees(r), r.available > 0, NEW q, q = PoppedBack(r)
  PROVE  Agrees(q) /\ Stored(q) = SubSeq(Stored(r), 1, Len(Stored(r)) - 1)
<1>1. r \in SRing
  BY DEF Agrees
<1>2. PICK s \in Seq(Int) : s = Stored(r)
  BY <1>1, StoredIs
<1>3. Len(s) = r.available
  BY <1>1, <1>2, StoredIs
<1>4. 0 \in Int /\ \A i \in 1 .. r.available : s[0 + i] = Stored(r)[i]
  BY <1>2
<1>5. Shows(r, s, 0, r.available) /\ r.available \in 0 .. Size
  BY <1>4, AgreesShows
<1>6. PICK n \in 1 .. Size : n = r.available
  BY <1>5, SizePositive
<1>7. Shows(r, s, 0, n) /\ n - 1 \in 0 .. Size
  BY <1>5, <1>6, SizePositive
<1>8. /\ q.head = r.head /\ q.tail = Before(r.tail) /\ q.cell = r.cell
      /\ q.available = r.available - 1 /\ q \in SRing
  BY <1>1, PopFields
<1>9. Shows(q, s, 0, n - 1)
  BY <1>4, <1>7, <1>8, BackMoved
<1>10. Agrees(q) /\ Stored(q) = [i \in 1 .. n - 1 |-> s[0 + i]]
  BY <1>4, <1>6, <1>7, <1>8, <1>9, ShownIsStored
<1>11. SubSeq(s, 1, n - 1) = [i \in 1 .. n - 1 |-> s[0 + i]]
  <2>1. SubSeq(s, 1, n - 1) = [i \in 1 .. (n - 1 - 1 + 1) |-> s[i + 1 - 1]]
    OBVIOUS
  <2>2. n - 1 - 1 + 1 = n - 1 /\ \A i \in 1 .. n - 1 : i + 1 - 1 = 0 + i
    BY <1>6
  <2> QED BY <2>1, <2>2
<1> QED BY <1>2, <1>3, <1>6, <1>10, <1>11

\* Values in another order in the slots they have.
LEMMA LaidKeeps ==
  ASSUME NEW r, Agrees(r), NEW t \in Seq(Int), Len(t) = r.available, NEW q, q = Laid(r, t)
  PROVE  Agrees(q) /\ Stored(q) = t /\ q.available = r.available
<1>1. r \in SRing /\ r.available \in 0 .. Size /\ r.available <= Size /\ r.tail = Ahead(r.head, r.available)
  BY SizePositive DEF Agrees, SRing
<1>2. Shows(q, t, 0, r.available) /\ q.available = r.available
  BY <1>1, LaidShows
<1>3. PICK n \in 0 .. Size : n = r.available
  BY <1>1
<1>4. 0 \in Int /\ Shows(q, t, 0, n) /\ q.available = n /\ Len(t) = n
  BY <1>2, <1>3
<1>5. Agrees(q) /\ Stored(q) = [i \in 1 .. n |-> t[0 + i]]
  BY <1>4, ShownIsStored
<1>6. t = [i \in 1 .. n |-> t[0 + i]]
  <2>1. t = [i \in 1 .. n |-> t[i]]
    BY <1>4
  <2>2. \A i \in 1 .. n : 0 + i = i
    OBVIOUS
  <2> QED BY <2>1, <2>2
<1> QED BY <1>2, <1>5, <1>6

\* sort_ascending()
LEMMA SortKeeps ==
  ASSUME NEW r, Agrees(r), NEW q, q = Sorted(r)
  PROVE  /\ Agrees(q) /\ q.available = r.available
         /\ Stored(q) = IF r.available = 0 THEN Stored(r) ELSE Ascending(Stored(r))
         /\ SameValues(Stored(r), Stored(q))
         /\ \A i \in 1 .. Len(Stored(r)) - 1 : Stored(q)[i] <= Stored(q)[i + 1]
<1>1. r \in SRing
  BY DEF Agrees
<1>2. PICK s \in Seq(Int) : s = Stored(r)
  BY <1>1, StoredIs
<1>3. Len(s) = r.available
  BY <1>1, <1>2, StoredIs
<1>4. CASE r.available = 0
  <2>1. q = r
    BY <1>4 DEF Sorted
  <2>2. SameValues(s, s)
    <3>1. Len(s) = 0
      BY <1>3, <1>4
    <3>2. PICK p : p = [i \in 1 .. 0 |-> i]
      OBVIOUS
    <3>3. Orderly(p, 0)
      BY <3>2 DEF Orderly
    <3>4. 0 \in Nat
      OBVIOUS
    <3>5. p \in Orders(0)
      BY <3>3, <3>4, OrdersAre
    <3>6. s = Rearranged(s, p)
      BY <3>1 DEF Rearranged
    <3> QED BY <3>1, <3>5, <3>6 DEF SameValues
  <2>3. ~ (\E i \in 1 .. Len(s) - 1 : TRUE)
    BY <1>3, <1>4
  <2> QED BY <1>2, <1>4, <2>1, <2>2, <2>3
<1>5. CASE r.available # 0
  <2>1. PICK t : t = Ascending(s)
    OBVIOUS
  <2>2. t \in Seq(Int) /\ Len(t) = Len(s) /\ SameValues(s, t)
        /\ \A i \in 1 .. Len(s) - 1 : t[i] <= t[i + 1]
    BY <2>1, AscendingIs
  <2>3. q = Laid(r, t)
    BY <1>2, <1>5, <2>1 DEF Sorted
  <2>4. Agrees(q) /\ Stored(q) = t /\ q.available = r.available
    BY <1>3, <2>2, <2>3, LaidKeeps
  <2> QED BY <1>2, <1>5, <2>1, <2>2, <2>4
<1> QED BY <1>4, <1>5

\* sort_descending()
LEMMA ReverseKeeps ==
  ASSUME NEW r, Agrees(r), NEW q, q = Reversed(r)
  PROVE  /\ Agrees(q) /\ SameValues(Stored(r), Stored(q))
         /\ \A i \in 1 .. Len(Stored(r)) - 1 : Stored(q)[i] >= Stored(q)[i + 1]
<1>1. r \in SRing
  BY DEF Agrees
<1>2. PICK s \in Seq(Int) : s = Stored(r)
  BY <1>1, StoredIs
<1>3. Len(s) = r.available
  BY <1>1, <1>2, StoredIs
<1>4. PICK u : u = Sorted(r)
  OBVIOUS
<1>5. CASE r.available = 0
  <2>1. q = r /\ u = r
    BY <1>4, <1>5 DEF Reversed, Sorted
  <2>2. SameValues(s, s)
    BY <1>2, <1>4, <2>1, SortKeeps
  <2>3. ~ (\E i \in 1 .. Len(s) - 1 : TRUE)
    BY <1>3, <1>5
  <2> QED BY <1>2, <2>1, <2>2, <2>3
<1>6. CASE r.available # 0
  <2>1. Stored(u) = IF r.available = 0 THEN Stored(r) ELSE Ascending(Stored(r))
    BY <1>4, SortKeeps
  <2>2. PICK t : t = Seqs!Reverse(Ascending(s))
    OBVIOUS
  <2>3. t \in Seq(Int) /\ Len(t) = Len(s) /\ SameValues(s, t)
        /\ \A i \in 1 .. Len(s) - 1 : t[i] >= t[i + 1]
    BY <2>2, DescendingIs
  <2>4. q = Laid(r, t)
    <3>1. Stored(Sorted(r)) = Ascending(s)
      BY <1>2, <1>4, <1>6, <2>1
    <3>2. q = Laid(r, Seqs!Reverse(Stored(Sorted(r))))
      BY <1>6 DEF Reversed
    <3> QED BY <2>2, <3>1, <3>2
  <2>5. Agrees(q) /\ Stored(q) = t
    BY <1>3, <2>3, <2>4, LaidKeeps
  <2> QED BY <1>2, <2>3, <2>5
<1> QED BY <1>5, <1>6

-----------------------------------------------------------------------------
(* The calls a method was not written for *)

Apart(r) == r.tail # Ahead(r.head, r.available)

\* A counter that differs from the number of places between head and tail.
LEMMA ApartBy ==
  ASSUME NEW q \in SRing, NEW x \in 0 .. 2 * Size - 1, q.tail = Ahead(q.head, x),
         q.available \in 0 .. 2 * Size - 1, q.available # x
  PROVE  Apart(q)
<1>1. PICK h \in Index, n \in 0 .. 2 * Size - 1 : h = q.head /\ n = q.available
  BY DEF SRing
<1>2. Ahead(h, n) # Ahead(h, x)
  BY <1>1, SpanIsOne
<1> QED BY <1>1, <1>2 DEF Apart

\* write(buffer, length) copies more values than there is room for, or writes
\* fewer one by one.
LEMMA WriteAllParts ==
  ASSUME NEW r, Agrees(r), NEW b \in Seq(Int), NEW q, q = WrittenAll(r, b),
         ~ IF CopyReaches(r, Len(b)) THEN r.available + Len(b) <= Size
           ELSE Len(b) = 0 \/ r.available + Len(b) + 0 >= Size
  PROVE  q \in SRing /\ Apart(q)
<1>1. /\ r \in SRing /\ r.available \in 0 .. Size /\ r.available <= Size
      /\ r.tail = Ahead(r.head, r.available)
  BY SizePositive DEF Agrees, SRing
<1>2. Len(b) \in Nat
  BY LenProperties
<1>3. PICK n \in 0 .. Size, m \in Nat, h \in Index : n = r.available /\ m = Len(b) /\ h = r.head
  BY <1>1, <1>2 DEF SRing
<1>4. CASE CopyReaches(r, Len(b))
  <2>1. q = Copied(r, b)
    BY <1>4 DEF WrittenAll
  <2>2. /\ Len(b) < Size /\ q.head = r.head /\ q.tail = Ahead(r.tail, Len(b)) /\ q \in SRing
        /\ q.available = Kept(r.available + Len(b))
    BY <1>1, <1>4, <2>1, CopiedFields
  <2>3. n + m > Size /\ m < Size
    <3>1. ~ (r.available + Len(b) <= Size)
      BY <1>4
    <3>2. ~ (n + m <= Size)
      BY <1>3, <3>1
    <3> QED BY <1>3, <2>2, <3>2, SizePositive
  <2>4. /\ n \in 0 .. 2 * Size /\ m \in 0 .. 2 * Size /\ n + m <= 2 * Size
        /\ n + m \in 0 .. 2 * Size - 1 /\ Size \in 0 .. 2 * Size - 1
        /\ Kept(n + m) = Size /\ Size # n + m
    BY <2>3, SizePositive DEF Kept
  <2>5. Ahead(Ahead(h, n), m) = Ahead(h, n + m)
    BY <2>4, AheadTwice
  <2>6. q.tail = Ahead(q.head, n + m) /\ q.available = Size
    BY <1>1, <1>3, <2>2, <2>4, <2>5
  <2> QED BY <2>2, <2>4, <2>6, ApartBy
<1>5. CASE ~ CopyReaches(r, Len(b))
  <2>1. PICK w : w = Stored(r) \o b
    OBVIOUS
  <2>2. Shows(r, w, 0, r.available) /\ Follow(b, w, r.available)
    BY <2>1, StoredThen
  <2>3. /\ 0 \in Int /\ Shows(r, w, 0, n) /\ r.available = n
        /\ \A i \in 1 .. Len(b) : w[0 + n + i] = b[i]
        /\ CopyReaches(r, Len(b)) => n + Len(b) <= Size
    BY <1>3, <1>5, <2>2 DEF Follow
  <2>4. /\ Shows(q, w, 0 + Gone(n + Len(b)), Kept(n + Len(b)))
        /\ q.available = IF CopyReaches(r, Len(b)) THEN Kept(n + Len(b))
                          ELSE Kept(n + Len(b) + Len(b))
    BY <2>3, WriteAllShows
  <2>5. m # 0 /\ n + m < Size
    <3>1. ~ (Len(b) = 0) /\ ~ (r.available + Len(b) + 0 >= Size)
      BY <1>5
    <3>2. ~ (m = 0) /\ ~ (n + m + 0 >= Size)
      BY <1>3, <3>1
    <3> QED BY <3>2, SizePositive
  <2>6. /\ Kept(n + m) \in 0 .. 2 * Size - 1 /\ Kept(n + m + m) \in 0 .. 2 * Size - 1
        /\ Kept(n + m + m) # Kept(n + m)
    BY <2>5, SizePositive DEF Kept
  <2>7. q \in SRing /\ q.tail = Ahead(q.head, Kept(n + m)) /\ q.available = Kept(n + m + m)
    BY <1>3, <1>5, <2>4 DEF Shows
  <2> QED BY <2>6, <2>7, ApartBy
<1> QED BY <1>4, <1>5

\* println() where the values before the newline break MayWrite().
LEMMA PrintLnParts ==
  ASSUME NEW r, Agrees(r), NEW b \in Seq(Int), NEW v \in Int,
         NEW q, q = Written(WrittenAll(r, b), v),
         ~ IF CopyReaches(r, Len(b)) THEN r.available + Len(b) <= Size
           ELSE Len(b) = 0 \/ r.available + Len(b) + 1 >= Size
  PROVE  q \in SRing /\ Apart(q)
<1>1. /\ r \in SRing /\ r.available \in 0 .. Size /\ r.available <= Size
      /\ r.tail = Ahead(r.head, r.available)
  BY SizePositive DEF Agrees, SRing
<1>2. Len(b) \in Nat
  BY LenProperties
<1>3. PICK n \in 0 .. Size, m \in Nat, h \in Index : n = r.available /\ m = Len(b) /\ h = r.head
  BY <1>1, <1>2 DEF SRing
<1>4. PICK u : u = WrittenAll(r, b)
  OBVIOUS
<1>5. CASE CopyReaches(r, Len(b))
  <2>1. u = Copied(r, b)
    BY <1>4, <1>5 DEF WrittenAll
  <2>2. /\ Len(b) < Size /\ u.head = r.head /\ u.tail = Ahead(r.tail, Len(b)) /\ u \in SRing
        /\ u.available = Kept(r.available + Len(b))
    BY <1>1, <1>5, <2>1, CopiedFields
  <2>3. n + m > Size /\ m < Size
    <3>1. ~ (r.available + Len(b) <= Size)
      BY <1>5
    <3>2. ~ (n + m <= Size)
      BY <1>3, <3>1
    <3> QED BY <1>3, <2>2, <3>2, SizePositive
  <2>4. /\ n \in 0 .. 2 * Size /\ m \in 0 .. 2 * Size /\ n + m <= 2 * Size
        /\ n + m \in 0 .. 2 * Size - 1 /\ n + m \in 0 .. 2 * Size /\ Size \in 0 .. 2 * Size - 1
        /\ 1 \in 0 .. 2 * Size /\ n + m + 1 <= 2 * Size
        /\ Kept(n + m) = Size /\ Size # n + m /\ ~ (Size < Size)
    BY <2>3, SizePositive DEF Kept
  <2>5. /\ Ahead(Ahead(h, n), m) = Ahead(h, n + m)
        /\ Ahead(Ahead(h, n + m), 1) = Ahead(h, n + m + 1)
        /\ Ahead(h, n + m) # Ahead(h, Size)
    <3>1. Ahead(Ahead(h, n), m) = Ahead(h, n + m)
      BY <2>4, AheadTwice
    <3>2. PICK x \in 0 .. 2 * Size - 1 : x = n + m
      BY <2>4
    <3>3. x \in 0 .. 2 * Size /\ x + 1 <= 2 * Size /\ x # Size
      BY <2>4, <3>2
    <3>4. Ahead(Ahead(h, x), 1) = Ahead(h, x + 1)
      BY <2>4, <3>3, AheadTwice
    <3>5. Ahead(h, x) # Ahead(h, Size)
      BY <2>4, <3>3, SpanIsOne
    <3> QED BY <3>1, <3>2, <3>4, <3>5
  <2>6. u.head = h /\ u.tail = Ahead(h, n + m) /\ u.available = Size
    BY <1>1, <1>3, <2>2, <2>4, <2>5
  <2>7. /\ q.head = h /\ q.tail = Ahead(h, n + m + 1) /\ q.available = Size /\ q \in SRing
    <3>1. q = Written(u, v)
      BY <1>4
    <3>2. /\ q.head = IF u.tail = Ahead(u.head, Size) THEN Ahead(u.head, 1) ELSE u.head
          /\ q.tail = Ahead(u.tail, 1)
          /\ q.available = IF u.available < Size THEN u.available + 1 ELSE u.available
          /\ q \in SRing
      BY <2>2, <3>1, WrittenFields
    <3> QED BY <2>4, <2>5, <2>6, <3>2
  <2>8. Ahead(h, n + m + 1) # Ahead(h, Size)
    <3>1. n + m + 1 \in 0 .. 2 * Size /\ Size \in 0 .. 2 * Size
      BY <2>4
    <3>2. /\ Ahead(h, n + m + 1) = IF h + (n + m + 1) >= 2 * Size THEN h + (n + m + 1) - 2 * Size
                                    ELSE h + (n + m + 1)
          /\ Ahead(h, Size) = IF h + Size >= 2 * Size THEN h + Size - 2 * Size ELSE h + Size
      BY <3>1, AheadIs
    <3> QED BY <2>3, <2>4, <3>2, SizePositive DEF Index
  <2> QED BY <2>7, <2>8 DEF Apart
<1>6. CASE ~ CopyReaches(r, Len(b))
  <2>1. PICK w : w = Stored(r) \o Append(b, v)
    OBVIOUS
  <2>2. PICK c \in Seq(Int) : c = Append(b, v)
    BY AppendProperties
  <2>3. Len(c) = Len(b) + 1 /\ c[Len(b) + 1] = v /\ \A i \in 1 .. Len(b) : c[i] = b[i]
    BY <2>2, AppendProperties
  <2>4. Shows(r, w, 0, r.available) /\ Follow(c, w, r.available)
    <3>1. w = Stored(r) \o c
      BY <2>1, <2>2
    <3> QED BY <3>1, StoredThen
  <2>5. /\ 0 \in Int /\ Shows(r, w, 0, n) /\ r.available = n
        /\ \A i \in 1 .. Len(b) : w[0 + n + i] = b[i]
        /\ CopyReaches(r, Len(b)) => n + Len(b) <= Size
        /\ w[0 + n + (m + 1)] = v
    <3>1. \A i \in 1 .. m : i \in 1 .. m + 1
      OBVIOUS
    <3>2. m + 1 \in 1 .. m + 1
      OBVIOUS
    <3>3. \A i \in 1 .. m + 1 : w[0 + n + i] = c[i]
      BY <1>3, <2>3, <2>4 DEF Follow
    <3>4. \A i \in 1 .. m : w[0 + n + i] = b[i]
      BY <1>3, <2>3, <3>1, <3>3
    <3>5. w[0 + n + (m + 1)] = v
      BY <1>3, <2>3, <3>2, <3>3
    <3> QED BY <1>3, <1>6, <2>4, <3>4, <3>5
  <2>6. /\ Shows(u, w, 0 + Gone(n + Len(b)), Kept(n + Len(b)))
        /\ u.available = IF CopyReaches(r, Len(b)) THEN Kept(n + Len(b))
                          ELSE Kept(n + Len(b) + Len(b))
    BY <1>4, <2>5, WriteAllShows
  <2>7. m # 0 /\ n + m + 1 < Size
    <3>1. ~ (Len(b) = 0) /\ ~ (r.available + Len(b) + 1 >= Size)
      BY <1>6
    <3>2. ~ (m = 0) /\ ~ (n + m + 1 >= Size)
      BY <1>3, <3>1
    <3> QED BY <3>2, SizePositive
  <2>8. /\ 0 + Gone(n + m) = 0 /\ Kept(n + m) = n + m /\ n + m \in 0 .. Size /\ n + m < Size
        /\ 0 + (n + m) + 1 = 0 + n + (m + 1)
    BY <2>7, SizePositive DEF Gone, Kept
  <2>9. /\ Shows(u, w, 0, n + m) /\ u.available = Kept(n + m + m)
        /\ v = w[0 + (n + m) + 1] /\ q = Written(u, v)
    BY <1>3, <1>4, <1>6, <2>5, <2>6, <2>8
  <2>10. Shows(q, w, 0, n + m + 1)
    <3>1. IF n + m < Size THEN Shows(q, w, 0, n + m + 1) ELSE Shows(q, w, 0 + 1, Size)
      BY <2>5, <2>8, <2>9, WriteShows
    <3> QED BY <2>8, <3>1
  <2>11. q.available = IF u.available < Size THEN u.available + 1 ELSE u.available
    <3>1. u \in SRing
      BY <2>9 DEF Shows
    <3> QED BY <2>9, <3>1, WrittenFields
  <2>12. /\ q.available \in 0 .. 2 * Size - 1 /\ q.available # n + m + 1
         /\ n + m + 1 \in 0 .. 2 * Size - 1
    <3>1. u.available \in 0 .. Size /\ u.available > n + m
      BY <2>7, <2>9, SizePositive DEF Kept
    <3> QED BY <2>7, <2>11, <3>1, SizePositive
  <2>13. q \in SRing /\ q.tail = Ahead(q.head, n + m + 1)
    BY <2>10 DEF Shows
  <2> QED BY <2>12, <2>13, ApartBy
<1> QED BY <1>5, <1>6

\* push_front() of more values than there is room for.
LEMMA PushFrontParts ==
  ASSUME NEW r, Agrees(r), NEW b \in Seq(Int), Len(b) < 2 * Size,
         ~ (r.available + Len(b) <= Size), NEW q, q = PushedFrontAll(r, b)
  PROVE  q \in SRing /\ Apart(q)
<1>1. /\ r \in SRing /\ r.available \in 0 .. Size /\ r.available <= Size
      /\ r.tail = Ahead(r.head, r.available)
  BY SizePositive DEF Agrees, SRing
<1>2. Len(b) \in Nat
  BY LenProperties
<1>3. PICK n \in 0 .. Size, m \in 0 .. 2 * Size - 1 : n = r.available /\ m = Len(b)
  BY <1>1, <1>2, SizePositive
<1>4. /\ q \in SRing /\ q.tail = r.tail /\ r.head = Ahead(q.head, Len(b))
      /\ q.available = Kept(r.available + Len(b))
  BY <1>1, AllFrontSpan
<1>5. PICK k \in Index, h \in Index, t \in Index : k = q.head /\ h = r.head /\ t = r.tail
  BY <1>1, <1>4 DEF SRing
<1>6. t = Ahead(h, n) /\ h = Ahead(k, m) /\ n + m > Size
  <2>1. ~ (n + m <= Size)
    BY <1>3
  <2>2. n + m > Size
    BY <2>1, SizePositive
  <2> QED BY <1>1, <1>3, <1>4, <1>5, <2>2
<1>7. q.available = Size
  BY <1>3, <1>4, <1>6 DEF Kept
<1>8. n \in 0 .. 2 * Size /\ m \in 0 .. 2 * Size /\ Size \in 0 .. 2 * Size
  BY SizePositive
<1>9. /\ t = IF h + n >= 2 * Size THEN h + n - 2 * Size ELSE h + n
      /\ h = IF k + m >= 2 * Size THEN k + m - 2 * Size ELSE k + m
      /\ Ahead(k, Size) = IF k + Size >= 2 * Size THEN k + Size - 2 * Size ELSE k + Size
  BY <1>6, <1>8, AheadIs
<1>10. t # Ahead(k, Size)
  BY <1>6, <1>9, SizePositive DEF Index
<1> QED BY <1>4, <1>5, <1>7, <1>10 DEF Apart

\* read() with nothing to read.
LEMMA ReadParts ==
  ASSUME NEW r, Agrees(r), r.available = 0, NEW q, q = ReadOnce(r)
  PROVE  q \in SRing /\ Apart(q)
<1>1. r \in SRing /\ r.tail = Ahead(r.head, 0)
  BY DEF Agrees
<1>2. q.head = Ahead(r.head, 1) /\ q.tail = r.tail /\ q.available = 0 /\ q \in SRing
  BY <1>1, ReadFields
<1>3. PICK h \in Index : h = r.head
  BY <1>1 DEF SRing
<1>4. /\ 0 \in 0 .. 2 * Size - 1 /\ 1 \in 0 .. 2 * Size - 1 /\ 0 \in 0 .. 2 * Size
      /\ 1 \in 0 .. 2 * Size /\ 1 + 0 <= 2 * Size /\ 1 + 0 = 1
  BY SizePositive
<1>5. Ahead(Ahead(h, 1), 0) = Ahead(h, 1) /\ Ahead(h, 1) # Ahead(h, 0)
  BY <1>4, AheadTwice, SpanIsOne
<1> QED BY <1>1, <1>2, <1>3, <1>5 DEF Apart

\* The values of the counter are a whole number of turns round the ring.
LEMMA WholeTurns ==
  ASSUME NEW y \in Nat
  PROVE  (y + (65536 - 2 * Size)) % (2 * Size) = y % (2 * Size)
<1>1. /\ (y + (65536 - 2)) % 2 = y % 2
      /\ (y + (65536 - 4)) % 4 = y % 4
      /\ (y + (65536 - 8)) % 8 = y % 8
      /\ (y + (65536 - 16)) % 16 = y % 16
      /\ (y + (65536 - 32)) % 32 = y % 32
      /\ (y + (65536 - 64)) % 64 = y % 64
      /\ (y + (65536 - 128)) % 128 = y % 128
      /\ (y + (65536 - 256)) % 256 = y % 256
      /\ (y + (65536 - 512)) % 512 = y % 512
      /\ (y + (65536 - 1024)) % 1024 = y % 1024
      /\ (y + (65536 - 2048)) % 2048 = y % 2048
      /\ (y + (65536 - 4096)) % 4096 = y % 4096
      /\ (y + (65536 - 8192)) % 8192 = y % 8192
      /\ (y + (65536 - 16384)) % 16384 = y % 16384
      /\ (y + (65536 - 32768)) % 32768 = y % 32768
      /\ (y + (65536 - 65536)) % 65536 = y % 65536
  BY SMT
<1> QED BY <1>1, PowerOfTwoAssumption, SMT

\* readBytes() asked for more than there is, short of the end of _cbuf.
LEMMA ReadAllParts ==
  ASSUME Size > 1, NEW r, Agrees(r), NEW n \in 0 .. Size + 1, ~ (n <= r.available),
         MoveReaches(r, n), NEW q, q = ReadAll(r, n)
  PROVE  Apart(q)
<1>1. /\ r \in SRing /\ r.available \in 0 .. Size /\ r.available <= Size
      /\ r.tail = Ahead(r.head, r.available)
  BY SizePositive DEF Agrees, SRing
<1>2. /\ q.head = Ahead(r.head, Fewer(r, n)) /\ q.tail = r.tail
      /\ q.available = IF MoveReaches(r, n) THEN (r.available - n) % 65536
                       ELSE r.available - Fewer(r, n)
  BY <1>1, ReadAllFields
<1>3. Fewer(r, n) = r.available
  <2>1. r.available < n
    BY <1>1, SizePositive
  <2> QED BY <2>1 DEF Fewer
<1>4. PICK t \in Index : t = r.tail
  BY <1>1 DEF SRing
<1>5. q.head = t /\ q.tail = t /\ q.available = (r.available - n) % 65536
  BY <1>1, <1>2, <1>3, <1>4
<1>6. PICK x \in 1 .. 2 * Size - 1 : r.available - n = 0 - x
  <2>1. PICK a \in 0 .. Size : a = r.available
    BY <1>1
  <2>2. n - a \in 1 .. 2 * Size - 1 /\ a - n = 0 - (n - a)
    BY <2>1, SizePositive
  <2> QED BY <2>1, <2>2
<1>7. q.available = 65536 - x
  <2>1. x \in 1 .. 2 * Size
    BY SizePositive
  <2> QED BY <1>5, <1>6, <2>1, Counting
<1>8. PICK y \in Nat : y = t + (2 * Size - x)
  <2>1. t + (2 * Size - x) \in Nat
    BY SizePositive DEF Index
  <2> QED BY <2>1
<1>9. t + (65536 - x) = y + (65536 - 2 * Size)
  BY <1>8, SizePositive, SMT DEF Index
<1>10. Ahead(t, 65536 - x) = Ahead(t, 2 * Size - x)
  <2>1. (y + (65536 - 2 * Size)) % (2 * Size) = y % (2 * Size)
    BY WholeTurns
  <2> QED BY <1>8, <1>9, <2>1 DEF Ahead
<1>11. Ahead(t, 2 * Size - x) # t
  <2>1. 2 * Size - x \in 0 .. 2 * Size
    BY SizePositive
  <2>2. Ahead(t, 2 * Size - x) = IF t + (2 * Size - x) >= 2 * Size
                                THEN t + (2 * Size - x) - 2 * Size ELSE t + (2 * Size - x)
    BY <2>1, AheadIs
  <2> QED BY <2>2, SizePositive DEF Index
<1> QED BY <1>5, <1>7, <1>10, <1>11 DEF Apart

\* readBytes() otherwise.
LEMMA ReadAllKeeps ==
  ASSUME NEW r, Agrees(r), NEW n \in 0 .. Size + 1, n <= r.available \/ ~ MoveReaches(r, n),
         NEW q, q = ReadAll(r, n)
  PROVE  /\ Fewer(r, n) \in 0 .. r.available
         /\ Agrees(q) /\ Stored(q) = SubSeq(Stored(r), Fewer(r, n) + 1, Len(Stored(r)))
         /\ Fewer(r, n) = 0 => q = r
<1>1. r \in SRing /\ r.available \in 0 .. Size /\ r.available <= Size
  BY SizePositive DEF Agrees, SRing
<1>2. /\ q.head = Ahead(r.head, Fewer(r, n)) /\ q.tail = r.tail /\ q.cell = r.cell /\ q \in SRing
      /\ q.available = IF MoveReaches(r, n) THEN (r.available - n) % 65536
                       ELSE r.available - Fewer(r, n)
  BY <1>1, ReadAllFields
<1>0. PICK a \in 0 .. Size : a = r.available
  BY <1>1
<1>3. PICK k \in {Fewer(r, n)} : k = Fewer(r, n) /\ a = r.available
  BY <1>0
<1>4. k \in 0 .. a /\ (n <= a => k = n)
  <2>1. k = IF a < n THEN a ELSE n
    BY <1>3 DEF Fewer
  <2> QED BY <2>1, SizePositive
<1>5. q.available = r.available - Fewer(r, n)
  <2>1. CASE MoveReaches(r, n)
    <3>1. n <= r.available
      BY <2>1
    <3>2. n <= a
      BY <1>3, <3>1
    <3>3. a - n \in 0 .. 2 * Size - 1 /\ k = n
      BY <1>4, <3>2, SizePositive
    <3>4. (a - n) % 65536 = a - n
      BY <3>3, Counting
    <3> QED BY <1>2, <1>3, <2>1, <3>3, <3>4
  <2>2. CASE ~ MoveReaches(r, n)
    BY <1>2, <2>2
  <2> QED BY <2>1, <2>2
<1>6. Fewer(r, n) \in 0 .. r.available
  BY <1>3, <1>4
<1>7. Agrees(q) /\ Stored(q) = SubSeq(Stored(r), Fewer(r, n) + 1, Len(Stored(r)))
  BY <1>2, <1>5, <1>6, FrontTaken
<1>8. ASSUME Fewer(r, n) = 0
      PROVE  q = r
  <2>1. PICK h \in Index : h = r.head
    BY <1>1 DEF SRing
  <2>2. 0 \in 0 .. 2 * Size
    BY SizePositive
  <2>3. Ahead(h, 0) = IF h + 0 >= 2 * Size THEN h + 0 - 2 * Size ELSE h + 0
    BY <2>2, AheadIs
  <2>4. Ahead(h, 0) = h
    BY <2>3, SizePositive DEF Index
  <2>5. q.available = r.available
    BY <1>3, <1>5, <1>8, SizePositive
  <2>6. q.head = r.head
    BY <1>2, <1>8, <2>1, <2>4
  <2>7. /\ r = [head |-> r.head, tail |-> r.tail, available |-> r.available, cell |-> r.cell]
        /\ q = [head |-> q.head, tail |-> q.tail, available |-> q.available, cell |-> q.cell]
    BY <1>1, <1>2 DEF SRing
  <2> QED BY <1>2, <2>5, <2>6, <2>7
<1> QED BY <1>6, <1>7, <1>8

-----------------------------------------------------------------------------
(* The invariant, and what every call does *)

SingleInv ==
  /\ ring \in SRing
  /\ strayed \in BOOLEAN
  /\ ~strayed => Agrees(ring)

\* A call does what the queue does, or strays.
Keeps ==
  /\ SingleInv'
  /\ ~strayed' => UNCHANGED singleVars \/ Values!Next

\* The numbers that are written.
LEMMA Numbers ==
  /\ \A v \in Value : v \in Int
  /\ Newline \in Int
  /\ \A b \in Bulk : b \in Seq(Int)
<1>1. Seq(Value) \subseteq Seq(Int)
  <2>1. ASSUME NEW b \in Seq(Value)
        PROVE  b \in Seq(Int)
    <3>1. \A i \in 1 .. Len(b) : b[i] \in Int
      BY ElementOfSeq, ValuesAssumption
    <3>2. b = [i \in 1 .. Len(b) |-> b[i]] /\ Len(b) \in Nat
      OBVIOUS
    <3> QED BY <3>1, <3>2
  <2> QED BY <2>1
<1> QED BY <1>1, ValuesAssumption

\* Stored() depends on the ring only.
LEMMA StoredPrimed == Stored(ring)' = Stored(ring')
BY DEF Stored

\* Several values behind the others.
LEMMA AddsLast ==
  ASSUME NEW b, \/ b \in Bulk \/ \E v \in Value : b = << v >>
                \/ \E c \in Bulk : b = Append(c, Newline),
         Stored(ring') = Values!Newest(Stored(ring) \o b)
  PROVE  Values!Next
<1>1. b \in Bulk \cup {<< v >> : v \in Value} \cup {Append(c, Newline) : c \in Bulk}
  OBVIOUS
<1>2. Values!AddLast(b)
  BY StoredPrimed DEF Values!AddLast
<1> QED BY <1>1, <1>2 DEF Values!Next

\* write(value), push_back(value)
LEMMA WriteStep ==
  ASSUME SingleInv, NEW v \in Value, Write(v)
  PROVE  Keeps
<1>1. Agrees(ring) /\ v \in Int
  BY Numbers DEF SingleInv, Write, Goes
<1>2. ring' = Written(ring, v)
  BY DEF Write, Goes
<1>3. Agrees(ring') /\ Stored(ring') = Values!Newest(Stored(ring) \o << v >>)
  BY <1>1, <1>2, WriteKeeps
<1>4. Values!Next
  BY <1>3, AddsLast
<1> QED BY <1>2, <1>3, <1>4 DEF Keeps, SingleInv, Write, Goes, Agrees

\* write(buffer, length), push_back(buffer, length), print()
LEMMA WriteBulkStep ==
  ASSUME SingleInv, NEW b \in Bulk, WriteBulk(b)
  PROVE  Keeps /\ (strayed' => Apart(ring'))
<1>1. Agrees(ring) /\ b \in Seq(Int) /\ ring' = WrittenAll(ring, b) /\ strayed' = ~MayWrite(b, 0)
  BY Numbers DEF SingleInv, WriteBulk, Goes
<1>2. CASE MayWrite(b, 0)
  <2>1. IF CopyReaches(ring, Len(b)) THEN ring.available + Len(b) <= Size
        ELSE Len(b) = 0 \/ ring.available + Len(b) + 0 >= Size
    BY <1>2 DEF MayWrite
  <2>2. Agrees(ring') /\ Stored(ring') = Values!Newest(Stored(ring) \o b)
    BY <1>1, <2>1, WriteAllKeeps
  <2>3. Values!Next
    BY <2>2, AddsLast
  <2>4. strayed' = FALSE
    BY <1>1, <1>2
  <2> QED BY <2>2, <2>3, <2>4 DEF Keeps, SingleInv, Agrees
<1>3. CASE ~MayWrite(b, 0)
  <2>1. ~ IF CopyReaches(ring, Len(b)) THEN ring.available + Len(b) <= Size
          ELSE Len(b) = 0 \/ ring.available + Len(b) + 0 >= Size
    BY <1>3 DEF MayWrite
  <2>2. ring' \in SRing /\ Apart(ring')
    BY <1>1, <2>1, WriteAllParts
  <2>3. strayed' = TRUE
    BY <1>1, <1>3
  <2> QED BY <2>2, <2>3 DEF Keeps, SingleInv
<1> QED BY <1>2, <1>3

\* println()
LEMMA PrintLnStep ==
  ASSUME SingleInv, NEW b \in Bulk, PrintLn(b)
  PROVE  Keeps /\ (strayed' => Apart(ring'))
<1>1. /\ Agrees(ring) /\ b \in Seq(Int) /\ Newline \in Int
      /\ ring' = Written(WrittenAll(ring, b), Newline) /\ strayed' = ~MayWrite(b, 1)
  BY Numbers DEF SingleInv, PrintLn, Goes
<1>2. CASE MayWrite(b, 1)
  <2>1. IF CopyReaches(ring, Len(b)) THEN ring.available + Len(b) <= Size
        ELSE Len(b) = 0 \/ ring.available + Len(b) + 1 >= Size
    BY <1>2 DEF MayWrite
  <2>2. Agrees(ring') /\ Stored(ring') = Values!Newest(Stored(ring) \o Append(b, Newline))
    BY <1>1, <2>1, PrintLnKeeps
  <2>3. Values!Next
    BY <2>2, AddsLast
  <2>4. strayed' = FALSE
    BY <1>1, <1>2
  <2> QED BY <2>2, <2>3, <2>4 DEF Keeps, SingleInv, Agrees
<1>3. CASE ~MayWrite(b, 1)
  <2>1. ~ IF CopyReaches(ring, Len(b)) THEN ring.available + Len(b) <= Size
          ELSE Len(b) = 0 \/ ring.available + Len(b) + 1 >= Size
    BY <1>3 DEF MayWrite
  <2>2. ring' \in SRing /\ Apart(ring')
    BY <1>1, <2>1, PrintLnParts
  <2>3. strayed' = TRUE
    BY <1>1, <1>3
  <2> QED BY <2>2, <2>3 DEF Keeps, SingleInv
<1> QED BY <1>2, <1>3

\* push_front()
LEMMA PushFrontBulkStep ==
  ASSUME SingleInv, NEW b \in Bulk, PushFrontBulk(b)
  PROVE  Keeps /\ (strayed' /\ Len(b) < 2 * Size => Apart(ring'))
<1>1. /\ Agrees(ring) /\ b \in Seq(Int) /\ ring' = PushedFrontAll(ring, b)
      /\ strayed' = ~ (ring.available + Len(b) <= Size)
  BY Numbers DEF SingleInv, PushFrontBulk, Goes
<1>2. CASE ring.available + Len(b) <= Size
  <2>1. Agrees(ring') /\ Stored(ring') = b \o Stored(ring)
    BY <1>1, <1>2, PushFrontKeeps
  <2>2. Len(Stored(ring)) = ring.available
    BY <1>1, StoredIs DEF Agrees
  <2>3. Values!AddFirst(b)
    BY <1>2, <2>1, <2>2, StoredPrimed DEF Values!AddFirst
  <2>4. b \in Bulk \cup {<< v >> : v \in Value} \cup {Append(c, Newline) : c \in Bulk}
    OBVIOUS
  <2>5. Values!Next
    BY <2>3, <2>4 DEF Values!Next
  <2>6. strayed' = FALSE
    BY <1>1, <1>2
  <2> QED BY <2>1, <2>5, <2>6 DEF Keeps, SingleInv, Agrees
<1>3. CASE ~ (ring.available + Len(b) <= Size)
  <2>1. ring' \in SRing
    <3>1. Len(b) \in Nat /\ ring \in SRing
      BY <1>1, LenProperties DEF Agrees
    <3>2. PICK f \in [0 .. Len(b) -> SRing] : f[Len(b)] = PushedFrontAll(ring, b)
      BY <1>1, <3>1, AllFrontGoes
    <3>3. Len(b) \in 0 .. Len(b)
      BY <3>1
    <3> QED BY <1>1, <3>2, <3>3
  <2>2. Len(b) < 2 * Size => Apart(ring')
    BY <1>1, <1>3, PushFrontParts
  <2>3. strayed' = TRUE
    BY <1>1, <1>3
  <2> QED BY <2>1, <2>2, <2>3 DEF Keeps, SingleInv
<1> QED BY <1>2, <1>3

\* The first k values are taken away.
LEMMA TakesFirst ==
  ASSUME NEW k \in 1 .. Len(Stored(ring)),
         Stored(ring') = SubSeq(Stored(ring), k + 1, Len(Stored(ring)))
  PROVE  Values!Next
<1>1. Values!TakeFirst(k)
  BY StoredPrimed DEF Values!TakeFirst
<1> QED BY <1>1 DEF Values!Next

\* read(), pop_front()
LEMMA ReadStep ==
  ASSUME SingleInv, Read
  PROVE  Keeps /\ (strayed' => Apart(ring'))
<1>1. Agrees(ring) /\ ring' = ReadOnce(ring) /\ strayed' = ~ (ring.available > 0)
  BY DEF SingleInv, Read, Goes
<1>2. ring \in SRing /\ ring.available \in Nat
  BY <1>1 DEF Agrees, SRing
<1>3. /\ ring'.head = Ahead(ring.head, 1) /\ ring'.tail = ring.tail /\ ring'.cell = ring.cell
      /\ ring'.available = IF ring.available > 0 THEN ring.available - 1 ELSE 0
      /\ ring' \in SRing
  <2>1. PICK q : q = ring'
    OBVIOUS
  <2>2. /\ q.head = Ahead(ring.head, 1) /\ q.tail = ring.tail /\ q.cell = ring.cell
        /\ q.available = IF ring.available > 0 THEN ring.available - 1 ELSE 0
        /\ q \in SRing
    BY <1>1, <1>2, <2>1, ReadFields
  <2> QED BY <2>1, <2>2
<1>4. CASE ring.available > 0
  <2>1. 1 \in 0 .. ring.available /\ 1 \in 1 .. ring.available
    BY <1>2, <1>4
  <2>2. /\ Agrees(ring')
        /\ Stored(ring') = SubSeq(Stored(ring), 1 + 1, Len(Stored(ring)))
    BY <1>1, <1>3, <1>4, <2>1, FrontTaken
  <2>3. 1 \in 1 .. Len(Stored(ring))
    BY <1>2, <2>1, StoredIs
  <2>4. Values!Next
    BY <2>2, <2>3, TakesFirst
  <2>5. strayed' = FALSE
    BY <1>1, <1>4
  <2> QED BY <2>2, <2>4, <2>5 DEF Keeps, SingleInv, Agrees
<1>5. CASE ~ (ring.available > 0)
  <2>1. ring.available = 0
    BY <1>2, <1>5
  <2>2. ring' \in SRing /\ Apart(ring')
    BY <1>1, <2>1, ReadParts
  <2>3. strayed' = TRUE
    BY <1>1, <1>5
  <2> QED BY <2>2, <2>3 DEF Keeps, SingleInv
<1> QED BY <1>4, <1>5

\* readBytes()
LEMMA ReadBytesStep ==
  ASSUME SingleInv, NEW n \in 0 .. Size + 1, ReadBytes(n)
  PROVE  Keeps /\ (strayed' /\ Size > 1 => Apart(ring'))
<1>1. /\ Agrees(ring) /\ ring' = ReadAll(ring, n) /\ ~strayed /\ strayed \in BOOLEAN
      /\ strayed' = ~ (n <= ring.available \/ ~MoveReaches(ring, n))
  BY DEF SingleInv, ReadBytes, Goes
<1>2. ring \in SRing /\ ring.available <= Size
  BY <1>1 DEF Agrees
<1>3. CASE n <= ring.available \/ ~MoveReaches(ring, n)
  <2>1. /\ Fewer(ring, n) \in 0 .. ring.available /\ Agrees(ring')
        /\ Stored(ring') = SubSeq(Stored(ring), Fewer(ring, n) + 1, Len(Stored(ring)))
        /\ Fewer(ring, n) = 0 => ring' = ring
    BY <1>1, <1>3, ReadAllKeeps
  <2>2. Len(Stored(ring)) = ring.available
    BY <1>2, StoredIs
  <2>4. strayed' = FALSE
    BY <1>1, <1>3
  <2>3. UNCHANGED singleVars \/ Values!Next
    <3>1. CASE Fewer(ring, n) = 0
      <4>1. ring' = ring /\ strayed = FALSE
        BY <1>1, <2>1, <3>1
      <4> QED BY <2>4, <4>1 DEF singleVars
    <3>2. CASE Fewer(ring, n) # 0
      <4>1. Fewer(ring, n) \in 1 .. Len(Stored(ring))
        BY <2>1, <2>2, <3>2
      <4> QED BY <2>1, <4>1, TakesFirst
    <3> QED BY <3>1, <3>2
  <2> QED BY <2>1, <2>3, <2>4 DEF Keeps, SingleInv, Agrees
<1>4. CASE ~ (n <= ring.available \/ ~MoveReaches(ring, n))
  <2>1. ~ (n <= ring.available) /\ MoveReaches(ring, n)
    BY <1>4
  <2>2. Size > 1 => Apart(ring')
    BY <1>1, <2>1, ReadAllParts
  <2>3. ring' \in SRing
    BY <1>1, <1>2, ReadAllFields
  <2>4. strayed' = TRUE
    BY <1>1, <1>4
  <2> QED BY <2>2, <2>3, <2>4 DEF Keeps, SingleInv
<1> QED BY <1>3, <1>4

\* pop_back()
LEMMA PopBackOneStep ==
  ASSUME SingleInv, PopBackOne
  PROVE  Keeps /\ ~strayed'
<1>1. Agrees(ring) /\ ring' = PoppedBack(ring) /\ strayed = FALSE /\ strayed' = FALSE
  BY DEF SingleInv, PopBackOne, Goes
<1>2. CASE ring.available > 0
  <2>1. /\ Agrees(ring')
        /\ Stored(ring') = SubSeq(Stored(ring), 1, Len(Stored(ring)) - 1)
    BY <1>1, <1>2, BackTaken
  <2>2. Stored(ring) # << >>
    <3>1. Len(Stored(ring)) = ring.available
      BY <1>1, StoredIs DEF Agrees
    <3>2. Len(<< >>) = 0
      OBVIOUS
    <3>3. Len(Stored(ring)) # 0
      BY <1>2, <3>1
    <3> QED BY <3>2, <3>3
  <2>3. Values!Next
    BY <2>1, <2>2, StoredPrimed DEF Values!TakeLast, Values!Next
  <2> QED BY <1>1, <2>1, <2>3 DEF Keeps, SingleInv, Agrees
<1>3. CASE ~ (ring.available > 0)
  <2>1. ring' = ring
    BY <1>1, <1>3 DEF PoppedBack
  <2>2. UNCHANGED singleVars
    BY <1>1, <2>1 DEF singleVars
  <2> QED BY <1>1, <2>1, <2>2 DEF Keeps, SingleInv, Agrees
<1> QED BY <1>2, <1>3

\* The values are in another order.
LEMMA Sorts ==
  ASSUME SameValues(Stored(ring), Stored(ring')),
         \/ \A i \in 1 .. Len(Stored(ring)) - 1 : Stored(ring')[i] <= Stored(ring')[i + 1]
         \/ \A i \in 1 .. Len(Stored(ring)) - 1 : Stored(ring')[i] >= Stored(ring')[i + 1]
  PROVE  Values!Next
<1>1. Values!Sort
  BY StoredPrimed DEF Values!Sort
<1> QED BY <1>1 DEF Values!Next

\* sort_ascending(), median()
LEMMA SortUpStep ==
  ASSUME SingleInv, SortUp
  PROVE  Keeps /\ ~strayed'
<1>1. Agrees(ring) /\ ring' = Sorted(ring) /\ strayed' = FALSE
  BY DEF SingleInv, SortUp, Goes
<1>2. /\ Agrees(ring') /\ SameValues(Stored(ring), Stored(ring'))
      /\ \A i \in 1 .. Len(Stored(ring)) - 1 : Stored(ring')[i] <= Stored(ring')[i + 1]
  BY <1>1, SortKeeps
<1>3. Values!Next
  BY <1>2, Sorts
<1> QED BY <1>1, <1>2, <1>3 DEF Keeps, SingleInv, Agrees

\* sort_descending()
LEMMA SortDownStep ==
  ASSUME SingleInv, SortDown
  PROVE  Keeps /\ ~strayed'
<1>1. Agrees(ring) /\ ring' = Reversed(ring) /\ strayed' = FALSE
  BY DEF SingleInv, SortDown, Goes
<1>2. /\ Agrees(ring') /\ SameValues(Stored(ring), Stored(ring'))
      /\ \A i \in 1 .. Len(Stored(ring)) - 1 : Stored(ring')[i] >= Stored(ring')[i + 1]
  BY <1>1, ReverseKeeps
<1>3. Values!Next
  BY <1>2, Sorts
<1> QED BY <1>1, <1>2, <1>3 DEF Keeps, SingleInv, Agrees

\* An empty ring.
LEMMA EmptyAgrees ==
  ASSUME NEW q, NEW c \in [Slots -> Int],
         q = [head |-> 0, tail |-> 0, available |-> 0, cell |-> c]
  PROVE  Agrees(q) /\ Stored(q) = << >>
<1>1. 0 \in Index /\ 0 \in 0 .. 2 * Size
  BY SizePositive DEF Index
<1>2. Ahead(0, 0) = 0
  <2>1. Ahead(0, 0) = IF 0 + 0 >= 2 * Size THEN 0 + 0 - 2 * Size ELSE 0 + 0
    BY <1>1, AheadIs
  <2> QED BY <2>1, SizePositive
<1>3. q \in SRing
  BY <1>1 DEF SRing
<1>4. q.available <= Size
  BY SizePositive
<1>5. Stored(q) = << >>
  <2>1. Stored(q) = [i \in 1 .. 0 |-> q.cell[SlotOf(q.head + i - 1)]]
    BY DEF Stored
  <2> QED BY <2>1
<1> QED BY <1>2, <1>3, <1>4, <1>5 DEF Agrees

\* clear(), flush()
LEMMA ClearSingleStep ==
  ASSUME SingleInv, ClearSingle
  PROVE  Keeps /\ ~strayed'
<1>1. PICK c \in [Slots -> Int] :
        ring' = [head |-> 0, tail |-> 0, available |-> 0, cell |-> c]
  <2>1. ring = [head |-> ring.head, tail |-> ring.tail, available |-> ring.available, cell |-> ring.cell]
        /\ ring.cell \in [Slots -> Int]
    BY DEF SingleInv, SRing
  <2>2. ring' = [head |-> 0, tail |-> 0, available |-> 0, cell |-> ring.cell]
    BY <2>1 DEF ClearSingle
  <2> QED BY <2>1, <2>2
<1>2. Agrees(ring') /\ Stored(ring') = << >>
  BY <1>1, EmptyAgrees
<1>3. Values!Next
  BY <1>2, StoredPrimed DEF Values!Empty, Values!Next
<1>4. ~strayed' /\ strayed' \in BOOLEAN
  BY DEF ClearSingle
<1> QED BY <1>2, <1>3, <1>4 DEF Keeps, SingleInv, Agrees

\* Every call keeps the invariant and either does what the queue does or strays;
\* one that strays sets counter and indices apart.
LEMMA SingleStep ==
  ASSUME SingleInv, SingleNext
  PROVE  Keeps /\ (strayed' /\ Size > 1 /\ (\A b \in Bulk : Len(b) < 2 * Size) => Apart(ring'))
<1>1. ASSUME NEW v \in Value, Write(v)
      PROVE  Keeps /\ ~strayed'
  BY <1>1, WriteStep DEF Write, Goes
<1> QED BY <1>1, WriteBulkStep, PrintLnStep, PushFrontBulkStep, ReadStep, ReadBytesStep,
           PopBackOneStep, SortUpStep, SortDownStep, ClearSingleStep DEF SingleNext

\* A new ring agrees.
LEMMA SingleStart == SingleInit => SingleInv /\ ~strayed
<1> SUFFICES ASSUME SingleInit PROVE SingleInv /\ ~strayed
  OBVIOUS
<1>1. PICK c \in [Slots -> Int] : c = [p \in Slots |-> 0]
  <2>1. [p \in Slots |-> 0] \in [Slots -> Int]
    OBVIOUS
  <2> QED BY <2>1
<1>2. ring = [head |-> 0, tail |-> 0, available |-> 0, cell |-> c]
  BY <1>1 DEF SingleInit
<1>3. Agrees(ring)
  BY <1>2, EmptyAgrees
<1>4. strayed = FALSE
  BY DEF SingleInit
<1> QED BY <1>3, <1>4 DEF SingleInv, Agrees

\* Whatever is called, until a call that MayWrite and the others name counter and
\* indices agree, and the counter is at most Size.
THEOREM SingleInvariant == SingleSpec => []SingleInv
<1>1. SingleInv /\ [SingleNext]_singleVars => SingleInv'
  <2> SUFFICES ASSUME SingleInv, [SingleNext]_singleVars PROVE SingleInv'
    OBVIOUS
  <2>1. CASE SingleNext
    BY <2>1, SingleStep DEF Keeps
  <2>2. CASE UNCHANGED singleVars
    BY <2>2 DEF singleVars, SingleInv
  <2> QED BY <2>1, <2>2
<1> QED BY SingleStart, <1>1, PTL DEF SingleSpec

\* ... and the calls do to the values, as often as they wrap round the end of
\* _cbuf, what their names say of a queue of at most Size values.
THEOREM SingleKeepsValues == SingleSpec => KeepsValues
<1>1. SingleInv /\ [SingleNext]_singleVars => [strayed' \/ Values!Next]_singleVars
  BY SingleStep DEF Keeps
<1> QED BY <1>1, SingleInvariant, PTL DEF SingleSpec, KeepsValues

\* Each call that they name does set counter and indices apart, where a ring has more than one slot and no call pushes two rounds in front.
THEOREM StrayedIsApart ==
  ASSUME Size > 1, \A b \in Bulk : Len(b) < 2 * Size
  PROVE  SingleSpec => []ApartOnceStrayed
<1> DEFINE ApartInv == SingleInv /\ (strayed => Apart(ring))
<1>1. SingleInit => ApartInv
  BY SingleStart
<1>2. ApartInv /\ [SingleNext]_singleVars => ApartInv'
  <2> SUFFICES ASSUME ApartInv, [SingleNext]_singleVars PROVE ApartInv'
    OBVIOUS
  <2>1. CASE SingleNext
    BY <2>1, SingleStep DEF Keeps
  <2>2. CASE UNCHANGED singleVars
    BY <2>2 DEF singleVars, SingleInv, Apart
  <2> QED BY <2>1, <2>2
<1>3. ApartInv => ApartOnceStrayed
  BY DEF SingleInv, Agrees, Apart, ApartOnceStrayed
<1> HIDE DEF ApartInv
<1> QED BY <1>1, <1>2, <1>3, PTL DEF SingleSpec
=============================================================================
