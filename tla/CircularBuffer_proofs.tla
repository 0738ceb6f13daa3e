------------------------- MODULE CircularBuffer_proofs -------------------------
(***************************************************************************)
(* Proofs about the ring of circular_buffer.h, for every number of slots,  *)
(* every set of messages and every choice of key bytes.                    *)
(***************************************************************************)
EXTENDS CircularBuffer, SequenceTheorems, TLAPS

\* All that most of the proofs use of the number of slots.
LEMMA SizePositive == Size \in Nat \ {0}
BY SizeAssumption

-----------------------------------------------------------------------------
(* Index arithmetic without remainders. *)

\* Moving an index forward wraps at twice the number of slots.
LEMMA AheadIs ==
  ASSUME NEW i \in Index, NEW n \in 0..2 * Size
  PROVE  /\ Ahead(i, n) = IF i + n >= 2 * Size THEN i + n - 2 * Size ELSE i + n
         /\ Ahead(i, n) \in Index
BY SizePositive DEF Index, Ahead

\* Moving an index back one wraps at 0.
LEMMA BeforeIs ==
  ASSUME NEW i \in Index
  PROVE  /\ Before(i) = IF i = 0 THEN 2 * Size - 1 ELSE i - 1
         /\ Before(i) \in Index
BY SizePositive DEF Index, Before, Ahead

\* The slot of every position that a stored message can have.
LEMMA SlotOfIs ==
  ASSUME NEW p \in 0..3 * Size
  PROVE  /\ SlotOf(p) = IF p >= 3 * Size THEN p - 3 * Size
                        ELSE IF p >= 2 * Size THEN p - 2 * Size
                        ELSE IF p >= Size THEN p - Size ELSE p
         /\ SlotOf(p) \in Slots
BY SizePositive DEF SlotOf, Slots

\* Different positions of one ring lie in different slots.
LEMMA SlotInjective ==
  ASSUME NEW i \in Index, NEW m \in 0..Size - 1, NEW n \in 0..Size - 1,
         SlotOf(i + m) = SlotOf(i + n)
  PROVE  m = n
<1>1. i + m \in 0..3 * Size /\ i + n \in 0..3 * Size
  BY SizePositive DEF Index
<1> QED BY <1>1, SlotOfIs, SizePositive DEF Index

\* A front that moves forward moves every position back by one.
LEMMA SlotAfterAhead ==
  ASSUME NEW i \in Index, NEW n \in 0..Size - 1
  PROVE  SlotOf(Ahead(i, 1) + n) = SlotOf(i + 1 + n)
<1>1. Ahead(i, 1) = IF i + 1 >= 2 * Size THEN i + 1 - 2 * Size ELSE i + 1
  BY AheadIs, SizePositive
<1>2. i + 1 + n \in 0..3 * Size /\ Ahead(i, 1) + n \in 0..3 * Size
  BY <1>1, SizePositive DEF Index
<1> QED BY <1>1, <1>2, SlotOfIs, SizePositive DEF Index

\* A front that moves back moves every position forward by one.
LEMMA SlotAfterBefore ==
  ASSUME NEW i \in Index, NEW n \in 1..Size
  PROVE  SlotOf(Before(i) + n) = SlotOf(i + n - 1)
<1>1. Before(i) = IF i = 0 THEN 2 * Size - 1 ELSE i - 1
  BY BeforeIs
<1>2. i + n - 1 \in 0..3 * Size /\ Before(i) + n \in 0..3 * Size
  BY <1>1, SizePositive DEF Index
<1> QED BY <1>1, <1>2, SlotOfIs, SizePositive DEF Index

-----------------------------------------------------------------------------
(* The indices of a ring whose counter agrees with them. *)

IInv == TypeOK /\ CounterAgrees /\ StoredIsWritten

\* The tail is the position after the last message, and comparing indices
\* recognises exactly the full rings.
LEMMA TailIs ==
  ASSUME TypeOK, CounterAgrees
  PROVE  /\ tail = IF head + available >= 2 * Size THEN head + available - 2 * Size
                   ELSE head + available
         /\ SlotOf(tail) = SlotOf(head + available)
         /\ Full <=> available = Size
<1>1. available \in 0..2 * Size /\ Size \in 0..2 * Size /\ head \in Index
  BY SizePositive DEF TypeOK
<1>2. tail = IF head + available >= 2 * Size THEN head + available - 2 * Size
             ELSE head + available
  BY <1>1, AheadIs DEF CounterAgrees
<1>3. Ahead(head, Size) = IF head + Size >= 2 * Size THEN head + Size - 2 * Size
                          ELSE head + Size
  BY <1>1, AheadIs
<1>4. tail \in 0..3 * Size /\ head + available \in 0..3 * Size
  BY <1>1, <1>2, SizePositive DEF TypeOK, Index
<1>5. SlotOf(tail) = SlotOf(head + available)
  BY <1>1, <1>2, <1>4, SlotOfIs, SizePositive DEF TypeOK, Index
<1>6. Full <=> available = Size
  BY <1>1, <1>2, <1>3, SizePositive DEF Full, TypeOK, Index
<1> QED BY <1>2, <1>5, <1>6

\* The position of every message and of the place after the last one is a slot.
LEMMA PositionOK ==
  ASSUME TypeOK, NEW i \in 0..Size
  PROVE  SlotOf(head + i) \in Slots
<1>1. head + i \in 0..3 * Size
  BY SizePositive DEF TypeOK, Index
<1> QED BY <1>1, SlotOfIs

-----------------------------------------------------------------------------
(* What each operation does to the messages, front to back. *)

\* push_back() adds e behind the others; a full ring first gives up its front.
LEMMA PushBackEffect ==
  ASSUME IInv, NEW e \in Entry, PushBack(e)
  PROVE  /\ TypeOK' /\ CounterAgrees'
         /\ available' = IF available < Size THEN available + 1 ELSE Size
         /\ \A i \in 1..available' :
              Message(i)' = IF i = available' THEN e
                            ELSE IF available < Size THEN Message(i) ELSE Message(i + 1)
<1> USE SizePositive
<1>0. TypeOK /\ CounterAgrees
  BY DEF IInv
<1>1. /\ head' = (IF available = Size THEN Ahead(head, 1) ELSE head)
      /\ available' = IF available < Size THEN available + 1 ELSE Size
      /\ available' \in 1..Size
  BY <1>0, TailIs DEF PushBack, OneMore, TypeOK
<1>2. /\ Ahead(head, 1) = (IF head + 1 >= 2 * Size THEN head + 1 - 2 * Size ELSE head + 1)
      /\ Ahead(head, 1) \in Index
      /\ tail' = (IF tail + 1 >= 2 * Size THEN tail + 1 - 2 * Size ELSE tail + 1)
      /\ tail' \in Index
      /\ head' \in Index
  BY <1>0, <1>1, AheadIs DEF PushBack, TypeOK
<1>3. SlotOf(tail) = SlotOf(head + available) /\ SlotOf(tail) \in Slots
  BY <1>0, TailIs, PositionOK DEF TypeOK
<1>4. TypeOK'
  BY <1>0, <1>1, <1>2, <1>3 DEF PushBack, TypeOK
<1>5. CounterAgrees'
  <2>1. Ahead(head', available') = (IF head' + available' >= 2 * Size
                                    THEN head' + available' - 2 * Size ELSE head' + available')
    BY <1>1, <1>2, AheadIs
  <2> QED BY <1>0, <1>1, <1>2, <2>1, TailIs DEF CounterAgrees, TypeOK, Index
<1>6. ASSUME NEW i \in 1..available'
      PROVE  Message(i)' = IF i = available' THEN e
                           ELSE IF available < Size THEN Message(i) ELSE Message(i + 1)
  <2>1. slot' = [slot EXCEPT ![SlotOf(head + available)] = e]
    BY <1>3 DEF PushBack
  <2>2. CASE available < Size
    <3>1. head' = head /\ i - 1 \in 0..Size - 1 /\ available \in 0..Size - 1
      BY <1>0, <1>1, <2>2 DEF TypeOK
    <3>2. SlotOf(head + (i - 1)) \in Slots
      BY <1>0, <3>1, PositionOK
    <3>3. SlotOf(head + (i - 1)) = SlotOf(head + available) => i - 1 = available
      BY <1>0, <3>1, SlotInjective DEF TypeOK
    <3>4. head + i - 1 = head + (i - 1)
      BY <1>0 DEF TypeOK, Index
    <3> QED BY <1>0, <1>1, <2>1, <2>2, <3>1, <3>2, <3>3, <3>4 DEF Message, TypeOK
  <2>3. CASE available = Size
    <3>1. head' = Ahead(head, 1) /\ i - 1 \in 0..Size - 1 /\ head \in Index
      BY <1>0, <1>1, <2>3 DEF TypeOK
    <3>2. head' + i - 1 = Ahead(head, 1) + (i - 1) /\ head + 1 + (i - 1) = head + i
          /\ head + (i + 1) - 1 = head + i
      BY <1>0, <1>2, <3>1 DEF TypeOK, Index
    <3>3. SlotOf(head' + i - 1) = SlotOf(head + i)
      BY <3>1, <3>2, SlotAfterAhead
    <3>4. SlotOf(head + i) \in Slots
      BY <1>0, <1>1, PositionOK
    <3>5. SlotOf(head + Size) = SlotOf(head + 0)
      BY <1>0, SlotOfIs DEF TypeOK, Index
    <3>6. SlotOf(head + i) = SlotOf(head + Size) => i = Size
      <4>1. CASE i = Size BY <4>1
      <4>2. CASE i # Size
        <5>1. i \in 0..Size - 1 /\ 0 \in 0..Size - 1
          BY <1>1, <4>2
        <5> QED BY <1>0, <3>1, <3>5, <5>1, SlotInjective
      <4> QED BY <4>1, <4>2
    <3> QED BY <1>0, <1>1, <2>1, <2>3, <3>2, <3>3, <3>4, <3>6 DEF Message, TypeOK
  <2> QED BY <1>0, <2>2, <2>3 DEF TypeOK
<1> QED BY <1>1, <1>4, <1>5, <1>6

\* push_front() adds e before the others; a full ring first gives up its back.
LEMMA PushFrontEffect ==
  ASSUME IInv, NEW e \in Entry, PushFront(e)
  PROVE  /\ TypeOK' /\ CounterAgrees'
         /\ available' = IF available < Size THEN available + 1 ELSE Size
         /\ \A i \in 1..available' : Message(i)' = IF i = 1 THEN e ELSE Message(i - 1)
<1> USE SizePositive
<1>0. TypeOK /\ CounterAgrees
  BY DEF IInv
<1>1. /\ tail' = (IF available = Size THEN Before(tail) ELSE tail)
      /\ available' = IF available < Size THEN available + 1 ELSE Size
      /\ available' \in 1..Size
  BY <1>0, TailIs DEF PushFront, OneMore, TypeOK
<1>2. /\ Before(tail) = (IF tail = 0 THEN 2 * Size - 1 ELSE tail - 1)
      /\ Before(tail) \in Index
      /\ head' = Before(head)
      /\ head' = (IF head = 0 THEN 2 * Size - 1 ELSE head - 1)
      /\ head' \in Index
      /\ tail' \in Index
  BY <1>0, <1>1, BeforeIs DEF PushFront, TypeOK
<1>3. SlotOf(head') \in Slots
  <2>1. head' \in 0..3 * Size
    BY <1>2 DEF Index
  <2> QED BY <2>1, SlotOfIs
<1>4. slot' = [slot EXCEPT ![SlotOf(head')] = e]
  BY <1>2 DEF PushFront
<1>5. TypeOK'
  BY <1>0, <1>1, <1>2, <1>3, <1>4 DEF TypeOK
<1>6. CounterAgrees'
  <2>1. Ahead(head', available') = (IF head' + available' >= 2 * Size
                                    THEN head' + available' - 2 * Size ELSE head' + available')
    BY <1>1, <1>2, AheadIs
  <2> QED BY <1>0, <1>1, <1>2, <2>1, TailIs DEF CounterAgrees, TypeOK, Index
<1>7. ASSUME NEW i \in 1..available'
      PROVE  Message(i)' = IF i = 1 THEN e ELSE Message(i - 1)
  <2>1. CASE i = 1
    <3>1. head' + i - 1 = head'
      BY <1>2, <2>1 DEF Index
    <3> QED BY <1>0, <1>3, <1>4, <2>1, <3>1 DEF Message, TypeOK
  <2>2. CASE i # 1
    <3>1. /\ i - 1 \in 1..Size /\ i - 1 \in 0..Size - 1 /\ 0 \in 0..Size - 1 /\ head \in Index
          /\ i - 2 \in 0..Size
      BY <1>0, <1>1, <2>2 DEF TypeOK
    <3>2. /\ head' + i - 1 = Before(head) + (i - 1)
          /\ head + (i - 1) - 1 = head + (i - 2)
          /\ head' + i - 1 = head' + (i - 1)
          /\ head' + 0 = head'
      BY <1>0, <1>2, <3>1 DEF Index, TypeOK
    <3>3. SlotOf(head' + i - 1) = SlotOf(head + (i - 2))
      BY <3>1, <3>2, SlotAfterBefore
    <3>4. SlotOf(head + (i - 2)) \in Slots
      BY <1>0, <3>1, PositionOK
    <3>5. SlotOf(head' + (i - 1)) # SlotOf(head' + 0)
      <4> DEFINE j == i - 1
                 h == head'
      <4>1. j \in 0..Size - 1 /\ 0 \in 0..Size - 1 /\ j # 0 /\ h \in Index
        BY <1>2, <3>1
      <4> HIDE DEF j, h
      <4>2. SlotOf(h + j) # SlotOf(h + 0)
        BY <4>1, SlotInjective
      <4> QED BY <4>2 DEF j, h
    <3> QED BY <1>0, <1>3, <1>4, <2>2, <3>2, <3>3, <3>4, <3>5 DEF Message, TypeOK
  <2> QED BY <2>1, <2>2
<1> QED BY <1>1, <1>5, <1>6, <1>7

\* pop_front() on a ring that holds something takes the front message only.
LEMMA PopFrontEffect ==
  ASSUME IInv, available > 0, PopFront
  PROVE  /\ TypeOK' /\ CounterAgrees'
         /\ available' = available - 1
         /\ \A i \in 1..available' : Message(i)' = Message(i + 1)
<1> USE SizePositive
<1>0. TypeOK /\ CounterAgrees
  BY DEF IInv
<1>1. /\ available' = available - 1 /\ available' \in 0..Size - 1
      /\ tail' = tail /\ slot' = slot /\ head' = Ahead(head, 1)
      /\ head' = (IF head + 1 >= 2 * Size THEN head + 1 - 2 * Size ELSE head + 1)
      /\ head' \in Index
  BY <1>0, AheadIs DEF PopFront, OneLess, TypeOK
<1>2. TypeOK'
  BY <1>0, <1>1 DEF TypeOK
<1>3. CounterAgrees'
  <2>1. Ahead(head', available') = (IF head' + available' >= 2 * Size
                                    THEN head' + available' - 2 * Size ELSE head' + available')
    BY <1>1, AheadIs
  <2> QED BY <1>0, <1>1, <2>1, TailIs DEF CounterAgrees, TypeOK, Index
<1>4. ASSUME NEW i \in 1..available'
      PROVE  Message(i)' = Message(i + 1)
  <2>1. i - 1 \in 0..Size - 1 /\ head \in Index
    BY <1>0, <1>1 DEF TypeOK
  <2>2. head' + i - 1 = Ahead(head, 1) + (i - 1) /\ head + 1 + (i - 1) = head + (i + 1) - 1
    BY <1>1, <2>1 DEF Index
  <2> QED BY <1>1, <2>1, <2>2, SlotAfterAhead DEF Message
<1> QED BY <1>1, <1>2, <1>3, <1>4

\* pop_back() on a ring that holds something takes the back message only.
LEMMA PopBackEffect ==
  ASSUME IInv, available > 0, PopBack
  PROVE  /\ TypeOK' /\ CounterAgrees'
         /\ available' = available - 1
         /\ \A i \in 1..available' : Message(i)' = Message(i)
<1> USE SizePositive
<1>0. TypeOK /\ CounterAgrees
  BY DEF IInv
<1>1. /\ available' = available - 1 /\ available' \in 0..Size - 1
      /\ head' = head /\ slot' = slot
      /\ tail' = (IF tail = 0 THEN 2 * Size - 1 ELSE tail - 1)
      /\ tail' \in Index
  BY <1>0, BeforeIs DEF PopBack, OneLess, TypeOK
<1>2. TypeOK'
  BY <1>0, <1>1 DEF TypeOK
<1>3. CounterAgrees'
  <2>1. Ahead(head', available') = (IF head' + available' >= 2 * Size
                                    THEN head' + available' - 2 * Size ELSE head' + available')
    BY <1>0, <1>1, AheadIs DEF TypeOK
  <2> QED BY <1>0, <1>1, <2>1, TailIs DEF CounterAgrees, TypeOK, Index
<1> QED BY <1>1, <1>2, <1>3 DEF Message

\* The distance of a slot from the front.
LEMMA OffsetIs ==
  ASSUME TypeOK, NEW s \in Slots
  PROVE  /\ Offset(s) = IF s + 2 * Size - head >= 2 * Size THEN s - head
                        ELSE IF s + 2 * Size - head >= Size THEN s - head + Size
                        ELSE s - head + 2 * Size
         /\ Offset(s) \in 0..Size - 1
<1>1. s + 2 * Size - head \in 0..3 * Size
  BY SizePositive DEF TypeOK, Index, Slots
<1>2. Offset(s) = SlotOf(s + 2 * Size - head)
  BY DEF Offset, SlotOf
<1> QED BY <1>1, <1>2, SlotOfIs, SizePositive DEF TypeOK, Index, Slots

\* The distance of the i-th position's slot from the front is i, and the slot
\* before it is that of position i - 1.
LEMMA OffsetOfPosition ==
  ASSUME TypeOK, NEW i \in 0..Size - 1
  PROVE  /\ Offset(SlotOf(head + i)) = i
         /\ i > 0 => SlotOf(SlotOf(head + i) + Size - 1) = SlotOf(head + (i - 1))
<1> DEFINE s == SlotOf(head + i)
<1>1. head + i \in 0..3 * Size /\ (i > 0 => head + (i - 1) \in 0..3 * Size)
  BY SizePositive DEF TypeOK, Index
<1>2. /\ s = IF head + i >= 2 * Size THEN head + i - 2 * Size
             ELSE IF head + i >= Size THEN head + i - Size ELSE head + i
      /\ s \in Slots
  BY <1>1, SlotOfIs, SizePositive DEF TypeOK, Index
<1>3. Offset(s) = i
  <2> HIDE DEF s
  <2>1. Offset(s) = IF s + 2 * Size - head >= 2 * Size THEN s - head
                    ELSE IF s + 2 * Size - head >= Size THEN s - head + Size
                    ELSE s - head + 2 * Size
    BY <1>2, OffsetIs
  <2> QED BY <1>2, <2>1, SizePositive DEF TypeOK, Index
<1>4. ASSUME i > 0
      PROVE  SlotOf(s + Size - 1) = SlotOf(head + (i - 1))
  <2>1. SlotOf(s + Size - 1) = IF s = 0 THEN Size - 1 ELSE s - 1
    <3>1. s + Size - 1 \in 0..3 * Size
      BY <1>2, SizePositive DEF Slots
    <3> QED BY <1>2, <3>1, SlotOfIs, SizePositive DEF Slots
  <2>2. SlotOf(head + (i - 1)) =
          IF head + (i - 1) >= 2 * Size THEN head + (i - 1) - 2 * Size
          ELSE IF head + (i - 1) >= Size THEN head + (i - 1) - Size ELSE head + (i - 1)
    BY <1>1, <1>4, SlotOfIs, SizePositive DEF TypeOK, Index
  <2> QED BY <1>2, <1>4, <2>1, <2>2, SizePositive DEF TypeOK, Index
<1> QED BY <1>3, <1>4

\* A slot of the ring, moved: the message of the position before takes its place as
\* far as pos, and is another one behind it.
LEMMA ShiftedIs ==
  ASSUME TypeOK, NEW pos \in Slots
  PROVE  /\ Shifted(pos) \in [Slots -> Entry \cup Spoilt \cup {Blank}]
         /\ \A i \in 0..Size - 1 :
              Shifted(pos)[SlotOf(head + i)] =
                IF i \in 1..Offset(pos) THEN slot[SlotOf(head + (i - 1))] ELSE slot[SlotOf(head + i)]
<1> USE SizePositive
<1>1. ASSUME NEW s \in Slots
      PROVE  SlotOf(s + Size - 1) \in Slots
  <2>1. s + Size - 1 \in 0..3 * Size
    BY DEF Slots
  <2> QED BY <2>1, SlotOfIs
<1>2. Shifted(pos) \in [Slots -> Entry \cup Spoilt \cup {Blank}]
  BY <1>1 DEF Shifted, TypeOK
<1>3. ASSUME NEW i \in 0..Size - 1
      PROVE  Shifted(pos)[SlotOf(head + i)] =
               IF i \in 1..Offset(pos) THEN slot[SlotOf(head + (i - 1))] ELSE slot[SlotOf(head + i)]
  <2>1. /\ SlotOf(head + i) \in Slots /\ Offset(SlotOf(head + i)) = i
        /\ i > 0 => SlotOf(SlotOf(head + i) + Size - 1) = SlotOf(head + (i - 1))
    BY PositionOK, OffsetOfPosition
  <2> QED BY <2>1, OffsetIs DEF Shifted
<1> QED BY <1>2, <1>3

\* The indices after remove() of a stored message's slot: they and the counter
\* still agree, and position i of the ring as it was is position i - 1 now.
LEMMA RemoveIndices ==
  ASSUME IInv, NEW pos \in Slots, Offset(pos) < available, Remove(pos)
  PROVE  /\ available' = available - 1 /\ available' \in 0..Size - 1
         /\ head' \in Index /\ tail' \in Index
         /\ CounterAgrees'
         /\ \A i \in 1..available' : Message(i)' = slot'[SlotOf(head + i)]
<1> USE SizePositive
<1>0. TypeOK /\ CounterAgrees /\ Offset(pos) \in 0..Size - 1
  BY OffsetIs DEF IInv
<1>1. /\ available' = available - 1 /\ available' \in 0..Size - 1
      /\ tail' = tail /\ head' = Ahead(head, 1)
      /\ head' = (IF head + 1 >= 2 * Size THEN head + 1 - 2 * Size ELSE head + 1)
      /\ head' \in Index
  <2>1. available - 1 \in Nat /\ available - 1 < 65536 /\ available \in 1..Size
    BY <1>0, SizeAssumption DEF TypeOK
  <2>2. (available - 1) % 65536 = available - 1
    BY <2>1
  <2> QED BY <1>0, <2>1, <2>2, AheadIs DEF Remove, TypeOK
<1>2. CounterAgrees'
  <2>1. Ahead(head', available') = (IF head' + available' >= 2 * Size
                                    THEN head' + available' - 2 * Size ELSE head' + available')
    BY <1>1, AheadIs
  <2> QED BY <1>0, <1>1, <2>1, TailIs DEF CounterAgrees, TypeOK, Index
<1>3. ASSUME NEW i \in 1..available'
      PROVE  Message(i)' = slot'[SlotOf(head + i)]
  <2>1. i - 1 \in 0..Size - 1 /\ head \in Index
    BY <1>0, <1>1 DEF TypeOK
  <2>2. head' + i - 1 = Ahead(head, 1) + (i - 1) /\ head + 1 + (i - 1) = head + i
    BY <1>1, <2>1 DEF Index
  <2>3. SlotOf(head' + i - 1) = SlotOf(head + i)
    BY <2>1, <2>2, SlotAfterAhead
  <2> QED BY <2>3 DEF Message
<1> QED BY <1>0, <1>1, <1>2, <1>3 DEF TypeOK

\* remove() where the messages in front are moved whole takes the message it is
\* given; those in front of it and behind it keep their order.
LEMMA RemoveEffect ==
  ASSUME IInv, NEW pos \in Slots, Offset(pos) < available, Remove(pos), Whole(pos)
  PROVE  /\ TypeOK' /\ CounterAgrees'
         /\ available' = available - 1
         /\ \A i \in 1..available' :
              Message(i)' = IF i <= Offset(pos) THEN Message(i) ELSE Message(i + 1)
<1> USE SizePositive
<1>0. TypeOK /\ Offset(pos) \in 0..Size - 1 /\ slot' = Shifted(pos)
  BY OffsetIs DEF IInv, Remove
<1>1. TypeOK' /\ CounterAgrees' /\ available' = available - 1
  BY <1>0, RemoveIndices, ShiftedIs DEF TypeOK
<1>2. ASSUME NEW i \in 1..available'
      PROVE  Message(i)' = IF i <= Offset(pos) THEN Message(i) ELSE Message(i + 1)
  <2>1. i \in 0..Size - 1 /\ i >= 1
    BY RemoveIndices
  <2>2. head + (i + 1) - 1 = head + i /\ head + i - 1 = head + (i - 1)
    BY <1>0, <2>1 DEF TypeOK, Index
  <2>3. Message(i)' = Shifted(pos)[SlotOf(head + i)]
    BY <1>0, RemoveIndices
  <2>4. Shifted(pos)[SlotOf(head + i)] =
          IF i \in 1..Offset(pos) THEN slot[SlotOf(head + (i - 1))] ELSE slot[SlotOf(head + i)]
    BY <1>0, <2>1, ShiftedIs
  <2> QED BY <1>0, <2>1, <2>2, <2>3, <2>4 DEF Message
<1> QED BY <1>1, <1>2

\* remove() where they are not: the count is right and nothing unwritten comes in,
\* and what lies further behind than one message is as it was.
LEMMA SpoilEffect ==
  ASSUME IInv, NEW pos \in Slots, Offset(pos) < available, Remove(pos), ~Whole(pos)
  PROVE  /\ TypeOK' /\ CounterAgrees'
         /\ available' = available - 1
         /\ \A i \in 1..available' : Message(i)' \in Entry \cup Spoilt
         /\ (\A i \in 1..Offset(pos) : Message(i) \in Entry) =>
              \A i \in Offset(pos) + 2 .. available' : Message(i)' = Message(i + 1)
<1> USE SizePositive
<1>0. TypeOK /\ StoredIsWritten /\ Offset(pos) \in 0..Size - 1
  BY OffsetIs DEF IInv
<1>1. PICK bad \in SUBSET Reached(pos) : \E left \in [bad -> Spoilt] :
        slot' = [s \in Slots |-> IF s \in bad THEN left[s] ELSE Shifted(pos)[s]]
  BY DEF Remove
<1>2. PICK left \in [bad -> Spoilt] :
        slot' = [s \in Slots |-> IF s \in bad THEN left[s] ELSE Shifted(pos)[s]]
  BY <1>1
<1>3. slot' \in [Slots -> Entry \cup Spoilt \cup {Blank}]
  BY <1>0, <1>1, <1>2, ShiftedIs
<1>4. TypeOK' /\ CounterAgrees' /\ available' = available - 1
  BY <1>3, RemoveIndices DEF TypeOK
<1>5. ASSUME NEW i \in 1..available'
      PROVE  /\ Message(i)' \in Entry \cup Spoilt
             /\ (\A j \in 1..Offset(pos) : Message(j) \in Entry) /\ i >= Offset(pos) + 2 =>
                  Message(i)' = Message(i + 1)
  <2>1. i \in 0..Size - 1 /\ i >= 1 /\ i \in 1..available /\ i + 1 \in 1..available
    BY <1>0, RemoveIndices DEF TypeOK
  <2>2. head + (i + 1) - 1 = head + i /\ head + i - 1 = head + (i - 1)
    BY <1>0, <2>1 DEF TypeOK, Index
  <2> DEFINE s == SlotOf(head + i)
  <2>3. s \in Slots /\ Offset(s) = i
    BY <1>0, <2>1, PositionOK, OffsetOfPosition
  <2>4. Shifted(pos)[s] = IF i \in 1..Offset(pos) THEN Message(i) ELSE Message(i + 1)
    BY <1>0, <2>1, <2>2, ShiftedIs DEF Message
  <2>5. Message(i)' = IF s \in bad THEN left[s] ELSE Shifted(pos)[s]
    <3>1. Message(i)' = slot'[s]
      BY RemoveIndices
    <3> QED BY <1>2, <2>3, <3>1
  <2> HIDE DEF s
  <2>6. Message(i)' \in Entry \cup Spoilt
    <3>1. Shifted(pos)[s] \in Entry \cup Spoilt
      BY <1>0, <2>1, <2>4 DEF StoredIsWritten
    <3> QED BY <1>2, <2>5, <3>1
  <2>7. ASSUME \A j \in 1..Offset(pos) : Message(j) \in Entry, i >= Offset(pos) + 2
        PROVE  Message(i)' = Message(i + 1)
    <3>1. s \notin bad
      BY <1>0, <1>1, <2>1, <2>3, <2>7 DEF Reached
    <3> QED BY <1>0, <2>1, <2>4, <2>5, <2>7, <3>1
  <2> QED BY <2>6, <2>7
<1>6. ASSUME \A j \in 1..Offset(pos) : Message(j) \in Entry,
             NEW i \in Offset(pos) + 2 .. available'
      PROVE  Message(i)' = Message(i + 1)
  <2>1. i \in 1..available' /\ i >= Offset(pos) + 2
    BY <1>0, RemoveIndices
  <2> QED BY <1>5, <1>6, <2>1
<1> QED BY <1>4, <1>5, <1>6

\* Writing over the k-th message leaves the others alone.
LEMMA OverwriteEffect ==
  ASSUME IInv, NEW e \in Entry, NEW k \in 1..available,
         slot' = [slot EXCEPT ![SlotOf(head + k - 1)] = e],
         UNCHANGED <<head, tail, available>>
  PROVE  /\ TypeOK' /\ CounterAgrees'
         /\ \A i \in 1..available : Message(i)' = IF i = k THEN e ELSE Message(i)
<1> USE SizePositive
<1>0. TypeOK /\ CounterAgrees
  BY DEF IInv
<1>1. ASSUME NEW i \in 1..available
      PROVE  /\ i - 1 \in 0..Size - 1 /\ i - 1 \in 0..Size
             /\ head + i - 1 = head + (i - 1)
             /\ SlotOf(head + i - 1) \in Slots
  <2>1. i - 1 \in 0..Size - 1 /\ i - 1 \in 0..Size /\ head + i - 1 = head + (i - 1)
    BY <1>0 DEF TypeOK, Index
  <2> QED BY <1>0, <2>1, PositionOK
<1>2. TypeOK' /\ CounterAgrees'
  BY <1>0, <1>1 DEF TypeOK, CounterAgrees
<1>3. ASSUME NEW i \in 1..available
      PROVE  Message(i)' = IF i = k THEN e ELSE Message(i)
  <2>1. SlotOf(head + (i - 1)) = SlotOf(head + (k - 1)) => i - 1 = k - 1
    BY <1>0, <1>1, SlotInjective DEF TypeOK
  <2> QED BY <1>0, <1>1, <2>1 DEF Message, TypeOK
<1> QED BY <1>2, <1>3

-----------------------------------------------------------------------------
(* The inductive invariant. *)

\* Every operation keeps indices, counter and stored messages in agreement.
LEMMA StepIInv == IInv /\ [Next]_vars => IInv'
<1> SUFFICES ASSUME IInv, [Next]_vars
             PROVE  IInv'
  OBVIOUS
<1>0. available \in 0..Size /\ StoredIsWritten
  BY DEF IInv, TypeOK
<1> USE SizePositive
<1>1. ASSUME NEW e \in Entry, PushBack(e)
      PROVE  IInv'
  <2>1. \A i \in 1..available' : i # available' => i \in 1..available
                                 /\ (available = Size => i + 1 \in 1..available)
    BY <1>0, <1>1, PushBackEffect
  <2> QED BY <1>0, <1>1, <2>1, PushBackEffect DEF IInv, StoredIsWritten
<1>2. ASSUME NEW e \in Entry, PushFront(e)
      PROVE  IInv'
  <2>1. \A i \in 1..available' : i # 1 => i - 1 \in 1..available
    BY <1>0, <1>2, PushFrontEffect
  <2> QED BY <1>0, <1>2, <2>1, PushFrontEffect DEF IInv, StoredIsWritten
<1>3. ASSUME available > 0, PopFront
      PROVE  IInv'
  BY <1>0, <1>3, PopFrontEffect DEF IInv, StoredIsWritten
<1>4. ASSUME available > 0, PopBack
      PROVE  IInv'
  BY <1>0, <1>4, PopBackEffect DEF IInv, StoredIsWritten
<1>5. ASSUME Clear
      PROVE  IInv'
  <2>1. 0 \in Index /\ 0 \in 0..2 * Size /\ 0 \in 0..Size
    BY DEF Index
  <2> QED BY <1>5, <2>1, AheadIs DEF Clear, IInv, TypeOK, CounterAgrees, StoredIsWritten
<1>6. ASSUME NEW s \in Slots, Offset(s) < available, Remove(s)
      PROVE  IInv'
  <2>1. CASE Whole(s)
    <3>1. \A i \in 1..available' : i \in 1..available /\ i + 1 \in 1..available
      BY <1>0, <1>6, <2>1, RemoveEffect
    <3> QED BY <1>0, <1>6, <2>1, <3>1, RemoveEffect DEF IInv, StoredIsWritten
  <2>2. CASE ~Whole(s)
    BY <1>6, <2>2, SpoilEffect DEF IInv, StoredIsWritten
  <2> QED BY <2>1, <2>2
<1>7. ASSUME NEW e \in Entry, Replace(e)
      PROVE  IInv'
  <2>1. ASSUME NEW k \in 1..available, slot' = [slot EXCEPT ![SlotOf(head + k - 1)] = e]
        PROVE  IInv'
    <3>1. UNCHANGED <<head, tail, available>>
      BY <1>7 DEF Replace
    <3>2. /\ TypeOK' /\ CounterAgrees'
          /\ \A i \in 1..available : Message(i)' = IF i = k THEN e ELSE Message(i)
      BY <2>1, <3>1, OverwriteEffect
    <3>3. available' = available
      BY <3>1
    <3>4. StoredIsWritten'
      BY <3>2, <3>3 DEF IInv, StoredIsWritten
    <3> QED BY <3>2, <3>4 DEF IInv
  <2>2. CASE UNCHANGED slot
    BY <1>7, <2>2 DEF Replace, IInv, TypeOK, CounterAgrees, StoredIsWritten, Message
  <2> QED BY <1>7, <2>1, <2>2 DEF Replace
<1>8. CASE UNCHANGED vars
  BY <1>8 DEF vars, IInv, TypeOK, CounterAgrees, StoredIsWritten, Message
<1> QED BY <1>1, <1>2, <1>3, <1>4, <1>5, <1>6, <1>7, <1>8 DEF Next

LEMMA InitIInv == Init => IInv
<1>1. 0 \in Index /\ 0 \in 0..2 * Size /\ 0 \in 0..Size
  BY SizePositive DEF Index
<1> QED BY <1>1, AheadIs, SizePositive DEF Init, IInv, TypeOK, CounterAgrees, StoredIsWritten

\* The inductive invariant: types, counter and contents, which need one another.
THEOREM RingInvariant == Spec => []IInv
BY InitIInv, StepIInv, PTL DEF Spec

\* The indices stay within 0 .. 2*_size-1 and the counter within 0 .. _size.
THEOREM TypeCorrect == Spec => []TypeOK
BY RingInvariant, PTL DEF IInv

\* The counter that size() returns never drifts from the indices that
\* push_back() and push_front() compare to find out whether the ring is full.
THEOREM CounterNeverDrifts == Spec => []CounterAgrees
BY RingInvariant, PTL DEF IInv

\* front() and back() never show a slot that nobody wrote.
THEOREM OnlyWrittenSlots == Spec => []StoredIsWritten
BY RingInvariant, PTL DEF IInv

\* remove(pos) gives up the message in slot pos and no other when those in front of
\* it are moved whole, and else touches no message but one behind pos.
THEOREM RemoveTakesTheRightOne == Spec => RemovesItsOwn
<1>1. IInv /\ [Next]_vars => [RemoveIsExact]_vars
  <2>1. ASSUME IInv, NEW pos \in Slots, Offset(pos) < available, Remove(pos)
        PROVE  /\ available' = available - 1
               /\ Whole(pos) => \A i \in 1..available' :
                    Message(i)' = IF i <= Offset(pos) THEN Message(i) ELSE Message(i + 1)
               /\ (\A i \in 1..Offset(pos) : Message(i) \in Entry) =>
                    \A i \in Offset(pos) + 2 .. available' : Message(i)' = Message(i + 1)
    <3>1. CASE Whole(pos)
      <4>1. ASSUME NEW i \in Offset(pos) + 2 .. available'
            PROVE  i \in 1..available' /\ ~(i <= Offset(pos))
        BY <2>1, <3>1, OffsetIs, RemoveEffect, SizePositive DEF IInv, TypeOK
      <4> QED BY <2>1, <3>1, <4>1, RemoveEffect
    <3>2. CASE ~Whole(pos)
      BY <2>1, <3>2, SpoilEffect
    <3> QED BY <3>1, <3>2
  <2> QED BY <2>1 DEF RemoveIsExact
<1> QED BY <1>1, RingInvariant, PTL DEF RemovesItsOwn, Spec

-----------------------------------------------------------------------------
(* The ring implements the bounded deque. *)

\* Adding at the back, told message by message.
LEMMA AddLastIs ==
  ASSUME NEW c \in Seq(Entry \cup Spoilt), NEW d \in Seq(Entry \cup Spoilt),
         NEW e \in Entry \cup Spoilt,
         Len(c) <= Size,
         Len(d) = IF Len(c) < Size THEN Len(c) + 1 ELSE Size,
         \A i \in 1..Len(d) : d[i] = IF i = Len(d) THEN e
                                     ELSE IF Len(c) < Size THEN c[i] ELSE c[i + 1]
  PROVE  d = Append(IF Len(c) = Size THEN SubSeq(c, 2, Len(c)) ELSE c, e)
<1> USE SizePositive
<1>1. CASE Len(c) = Size
  <2> DEFINE r == SubSeq(c, 2, Len(c))
  <2>1. r \in Seq(Entry \cup Spoilt) /\ Len(r) = Size - 1 /\ \A i \in 1..Size - 1 : r[i] = c[i + 1]
    BY <1>1
  <2> HIDE DEF r
  <2>2. Append(r, e) \in Seq(Entry \cup Spoilt) /\ Len(Append(r, e)) = Size
        /\ \A i \in 1..Size : Append(r, e)[i] = IF i = Size THEN e ELSE r[i]
    BY <2>1
  <2>3. d = Append(r, e)
    BY <1>1, <2>1, <2>2, SeqEqual
  <2> QED BY <1>1, <2>3 DEF r
<1>2. CASE Len(c) < Size
  <2>1. Append(c, e) \in Seq(Entry \cup Spoilt) /\ Len(Append(c, e)) = Len(c) + 1
        /\ \A i \in 1..Len(c) + 1 : Append(c, e)[i] = IF i = Len(c) + 1 THEN e ELSE c[i]
    OBVIOUS
  <2>2. d = Append(c, e)
    BY <1>2, <2>1, SeqEqual
  <2> QED BY <1>2, <2>2
<1> QED BY <1>1, <1>2

\* Adding at the front, told message by message.
LEMMA AddFirstIs ==
  ASSUME NEW c \in Seq(Entry \cup Spoilt), NEW d \in Seq(Entry \cup Spoilt),
         NEW e \in Entry \cup Spoilt,
         Len(c) <= Size,
         Len(d) = IF Len(c) < Size THEN Len(c) + 1 ELSE Size,
         \A i \in 1..Len(d) : d[i] = IF i = 1 THEN e ELSE c[i - 1]
  PROVE  d = << e >> \o (IF Len(c) = Size THEN SubSeq(c, 1, Len(c) - 1) ELSE c)
<1> USE SizePositive
<1> DEFINE r == IF Len(c) = Size THEN SubSeq(c, 1, Len(c) - 1) ELSE c
<1>1. r \in Seq(Entry \cup Spoilt) /\ Len(r) = Len(d) - 1 /\ \A i \in 1..Len(r) : r[i] = c[i]
  BY SubSeqProperties
<1> HIDE DEF r
<1>2. << e >> \in Seq(Entry \cup Spoilt) /\ Len(<< e >>) = 1 /\ << e >>[1] = e
  OBVIOUS
<1>3. << e >> \o r \in Seq(Entry \cup Spoilt) /\ Len(<< e >> \o r) = Len(d)
      /\ \A i \in 1..Len(d) : (<< e >> \o r)[i] = IF i = 1 THEN e ELSE r[i - 1]
  BY <1>1, <1>2, ConcatProperties
<1>4. ASSUME NEW i \in 1..Len(d)
      PROVE  d[i] = (<< e >> \o r)[i]
  <2>1. CASE i = 1
    BY <1>3, <2>1
  <2>2. CASE i # 1
    <3>1. i - 1 \in 1..Len(r)
      BY <1>1, <2>2
    <3> QED BY <1>1, <1>3, <2>2, <3>1
  <2> QED BY <2>1, <2>2
<1>5. d = << e >> \o r
  BY <1>3, <1>4, SeqEqual
<1> QED BY <1>5 DEF r

\* Taking the message at place k, told message by message.
LEMMA DeleteIs ==
  ASSUME NEW c \in Seq(Entry \cup Spoilt), NEW d \in Seq(Entry \cup Spoilt), NEW k \in 1..Len(c),
         Len(d) = Len(c) - 1,
         \A i \in 1..Len(d) : d[i] = IF i < k THEN c[i] ELSE c[i + 1]
  PROVE  d = SubSeq(c, 1, k - 1) \o SubSeq(c, k + 1, Len(c))
<1> DEFINE a == SubSeq(c, 1, k - 1)
           b == SubSeq(c, k + 1, Len(c))
<1>1. a \in Seq(Entry \cup Spoilt) /\ Len(a) = k - 1 /\ \A i \in 1..k - 1 : a[i] = c[i]
  BY SubSeqProperties
<1>2. b \in Seq(Entry \cup Spoilt) /\ Len(b) = Len(c) - k
      /\ \A i \in 1..Len(c) - k : b[i] = c[k + i]
  BY SubSeqProperties
<1> HIDE DEF a, b
<1>3. Len(a) + Len(b) = Len(d)
  BY <1>1, <1>2
<1>4. /\ a \o b \in Seq(Entry \cup Spoilt)
      /\ Len(a \o b) = Len(a) + Len(b)
      /\ \A i \in 1..Len(a) + Len(b) : (a \o b)[i] = IF i <= Len(a) THEN a[i] ELSE b[i - Len(a)]
  <2>1. a \in Seq(Entry \cup Spoilt) /\ b \in Seq(Entry \cup Spoilt)
    BY <1>1, <1>2
  <2> QED BY <2>1, ConcatProperties
<1>5. ASSUME NEW i \in 1..Len(d)
      PROVE  d[i] = (a \o b)[i]
  <2>1. CASE i < k
    <3>1. i \in 1..k - 1 /\ i <= Len(a)
      BY <1>1, <2>1
    <3> QED BY <1>1, <1>3, <1>4, <2>1, <3>1
  <2>2. CASE ~(i < k)
    <3>1. /\ i - Len(a) \in 1..Len(c) - k
          /\ k + (i - Len(a)) = i + 1
          /\ ~(i <= Len(a))
      BY <1>1, <2>2
    <3> QED BY <1>2, <1>3, <1>4, <2>2, <3>1
  <2> QED BY <2>1, <2>2
<1>6. d = a \o b
  BY <1>3, <1>4, <1>5, SeqEqual
<1> QED BY <1>6 DEF a, b

\* The messages of the ring as a sequence.
LEMMA ContentsIs ==
  ASSUME IInv
  PROVE  /\ Contents \in Seq(Entry \cup Spoilt)
         /\ Len(Contents) = available
         /\ Len(Contents) <= Size
         /\ \A i \in 1..available : Contents[i] = Message(i)
<1>1. available \in Nat /\ available <= Size
  BY SizePositive DEF IInv, TypeOK
<1>2. Contents \in [1..available -> Entry \cup Spoilt]
  BY DEF IInv, StoredIsWritten, Contents
<1>3. Contents \in Seq(Entry \cup Spoilt)
  BY <1>1, <1>2
<1>4. Len(Contents) = available
  BY <1>1 DEF Contents
<1> QED BY <1>1, <1>3, <1>4 DEF Contents

\* Each operation of the ring is the same operation of the deque, if it is no
\* remove() that spoils messages.
LEMMA StepImplementsDeque ==
  ASSUME IInv, IInv', [Next]_vars
  PROVE  Spoils \/ [Deque!Next]_Contents
<1> USE SizePositive
<1> DEFINE c == Contents
           d == Contents'
<1>1. /\ c \in Seq(Entry \cup Spoilt) /\ Len(c) = available /\ Len(c) <= Size
      /\ \A i \in 1..available : c[i] = Message(i)
  BY ContentsIs
<1>2. /\ d \in Seq(Entry \cup Spoilt) /\ Len(d) = available'
      /\ \A i \in 1..available' : d[i] = Message(i)'
  <2>1. (IInv => /\ Contents \in Seq(Entry \cup Spoilt)
                 /\ Len(Contents) = available
                 /\ \A i \in 1..available : Contents[i] = Message(i))
    BY ContentsIs
  <2>2. (IInv => /\ Contents \in Seq(Entry \cup Spoilt)
                 /\ Len(Contents) = available
                 /\ \A i \in 1..available : Contents[i] = Message(i))'
    BY ContentsIs, PTL
  <2> QED BY <2>2
<1>3. available \in 0..Size
  BY DEF IInv, TypeOK
<1> HIDE DEF c, d
<1>4. ASSUME NEW e \in Entry, PushBack(e)
      PROVE  d = Append(IF Len(c) = Size THEN SubSeq(c, 2, Len(c)) ELSE c, e)
  <2>1. \A i \in 1..available' : i # available' => i \in 1..available
                                 /\ (available = Size => i + 1 \in 1..available)
    BY <1>3, <1>4, PushBackEffect
  <2>2. Len(d) = IF Len(c) < Size THEN Len(c) + 1 ELSE Size
    BY <1>1, <1>2, <1>4, PushBackEffect
  <2>3. \A i \in 1..Len(d) : d[i] = IF i = Len(d) THEN e
                                    ELSE IF Len(c) < Size THEN c[i] ELSE c[i + 1]
    BY <1>1, <1>2, <1>3, <1>4, <2>1, PushBackEffect
  <2> QED BY <1>1, <1>2, <2>2, <2>3, AddLastIs
<1>5. ASSUME NEW e \in Entry, PushFront(e)
      PROVE  d = << e >> \o (IF Len(c) = Size THEN SubSeq(c, 1, Len(c) - 1) ELSE c)
  <2>1. \A i \in 1..available' : i # 1 => i - 1 \in 1..available
    BY <1>3, <1>5, PushFrontEffect
  <2>2. Len(d) = IF Len(c) < Size THEN Len(c) + 1 ELSE Size
    BY <1>1, <1>2, <1>5, PushFrontEffect
  <2>3. \A i \in 1..Len(d) : d[i] = IF i = 1 THEN e ELSE c[i - 1]
    BY <1>1, <1>2, <2>1, <1>5, PushFrontEffect
  <2> QED BY <1>1, <1>2, <2>2, <2>3, AddFirstIs
<1>6. ASSUME available > 0, PopFront
      PROVE  c # << >> /\ d = SubSeq(c, 2, Len(c))
  <2> DEFINE r == SubSeq(c, 2, Len(c))
  <2>1. r \in Seq(Entry \cup Spoilt) /\ Len(r) = available - 1
        /\ \A i \in 1..available - 1 : r[i] = c[i + 1]
    BY <1>1, <1>3, <1>6
  <2> HIDE DEF r
  <2>2. Len(d) = available - 1 /\ \A i \in 1..available - 1 : d[i] = c[i + 1]
    <3>1. \A i \in 1..available - 1 : i + 1 \in 1..available
      BY <1>3
    <3> QED BY <1>1, <1>2, <1>6, <3>1, PopFrontEffect
  <2>3. d = r
    BY <1>2, <2>1, <2>2, SeqEqual
  <2> QED BY <1>1, <1>6, <2>3 DEF r
<1>7. ASSUME available > 0, PopBack
      PROVE  c # << >> /\ d = SubSeq(c, 1, Len(c) - 1)
  <2> DEFINE r == SubSeq(c, 1, Len(c) - 1)
  <2>1. r \in Seq(Entry \cup Spoilt) /\ Len(r) = available - 1
        /\ \A i \in 1..available - 1 : r[i] = c[i]
    BY <1>1, <1>3, <1>7, SubSeqProperties
  <2> HIDE DEF r
  <2>2. Len(d) = available - 1 /\ \A i \in 1..available - 1 : d[i] = c[i]
    <3>1. \A i \in 1..available - 1 : i \in 1..available
      BY <1>3
    <3> QED BY <1>1, <1>2, <1>7, <3>1, PopBackEffect
  <2>3. d = r
    BY <1>2, <2>1, <2>2, SeqEqual
  <2> QED BY <1>1, <1>7, <2>3 DEF r
<1>8. ASSUME Clear
      PROVE  d = << >>
  <2>1. Len(d) = 0
    BY <1>2, <1>8 DEF Clear
  <2> QED BY <1>2, <2>1
<1>9. ASSUME NEW s \in Slots, Offset(s) < available, Remove(s), Whole(s)
      PROVE  \E k \in 1..Len(c) : d = SubSeq(c, 1, k - 1) \o SubSeq(c, k + 1, Len(c))
  <2> DEFINE k == Offset(s) + 1
  <2>1. k \in 1..Len(c) /\ Offset(s) = k - 1 /\ Offset(s) \in 0..Size - 1
    BY <1>1, <1>3, <1>9, OffsetIs DEF IInv
  <2> HIDE DEF k
  <2>2. Len(d) = Len(c) - 1
    BY <1>1, <1>2, <1>9, RemoveEffect
  <2>3. \A i \in 1..Len(d) : d[i] = IF i < k THEN c[i] ELSE c[i + 1]
    <3>1. \A i \in 1..available' : i \in 1..available /\ i + 1 \in 1..available
                                   /\ (i <= Offset(s) <=> i < k)
      BY <1>1, <1>3, <1>9, <2>1, RemoveEffect
    <3> QED BY <1>1, <1>2, <1>9, <3>1, RemoveEffect
  <2>4. d = SubSeq(c, 1, k - 1) \o SubSeq(c, k + 1, Len(c))
    BY <1>1, <1>2, <2>1, <2>2, <2>3, DeleteIs
  <2> QED BY <2>1, <2>4
<1>10. ASSUME NEW e \in Entry, Replace(e), slot' # slot
       PROVE  \E i \in 1..Len(c) : /\ SameKey(c[i], e)
                                   /\ \A j \in 1..(i - 1) : ~SameKey(c[j], e)
                                   /\ d = [c EXCEPT ![i] = e]
  <2>1. PICK k \in 1..available : /\ SameKey(Message(k), e)
                                  /\ \A j \in 1..(k - 1) : ~SameKey(Message(j), e)
                                  /\ slot' = [slot EXCEPT ![SlotOf(head + k - 1)] = e]
    BY <1>10 DEF Replace
  <2>2. available' = available
        /\ \A i \in 1..available : Message(i)' = IF i = k THEN e ELSE Message(i)
    BY <1>10, <2>1, OverwriteEffect DEF Replace
  <2>3. \A j \in 1..(k - 1) : j \in 1..available
    BY <1>3, <2>1
  <2> DEFINE r == [c EXCEPT ![k] = e]
  <2>4. r \in Seq(Entry \cup Spoilt) /\ Len(r) = available
        /\ \A i \in 1..available : r[i] = IF i = k THEN e ELSE c[i]
    BY <1>1, <2>1
  <2> HIDE DEF r
  <2>5. d = r
    BY <1>1, <1>2, <2>2, <2>4, SeqEqual
  <2>6. k \in 1..Len(c) /\ SameKey(c[k], e) /\ \A j \in 1..(k - 1) : ~SameKey(c[j], e)
    BY <1>1, <2>1, <2>3
  <2> QED BY <2>5, <2>6 DEF r
<1>11. ASSUME available' = available, UNCHANGED <<head, slot>>
       PROVE  d = c
  BY <1>11 DEF c, d, Contents, Message
<1>12. ASSUME NEW e \in Entry, Replace(e), slot' = slot
       PROVE  d = c
  BY <1>11, <1>12 DEF Replace
<1>13. ASSUME NEW s \in Slots, Offset(s) < available, Remove(s), ~Whole(s)
       PROVE  Spoils
  BY <1>13 DEF Spoils
<1> USE DEF c, d, Deque!Next
<1> QED
  BY <1>13, <1>4, <1>5, <1>6, <1>7, <1>8, <1>9, <1>10, <1>11, <1>12
  DEF Next, vars, Deque!AddLast, Deque!AddFirst, Deque!Update, Deque!TakeFirst, Deque!TakeLast,
      Deque!Empty, Deque!Delete, Deque!IsFull, Deque!AllButFirst, Deque!AllButLast

\* Contents, to begin with, are those of an empty deque.
LEMMA StartImplementsDeque == Init => Deque!Init
<1>1. ASSUME Init PROVE Contents = << >>
  <2>1. IInv
    BY <1>1, InitIInv
  <2>2. Len(Contents) = 0 /\ Contents \in Seq(Entry \cup Spoilt)
    BY <1>1, <2>1, ContentsIs DEF Init
  <2> QED BY <2>2
<1> QED BY <1>1 DEF Deque!Init

\* Circular_Buffer in its "multi" form does what the bounded deque does: a push to
\* a full ring drops the message at the other end, and no operation loses, repeats
\* or reorders anything else, but for a remove() with messages in front of it that
\* it does not move whole.
THEOREM RingKeepsDeque == Spec => DequeKept
<1>1. IInv /\ IInv' /\ [Next]_vars => [Spoils \/ Deque!Next]_Contents
  BY StepImplementsDeque
<1> QED BY <1>1, RingInvariant, PTL DEF Spec, DequeKept

\* Where every message is moved whole (one-byte elements, no message as long as its
\* slot), the ring implements the bounded deque.
THEOREM RingImplementsDeque ==
  ASSUME \A e \in Entry \cup Spoilt : MovesWhole(e)
  PROVE  Spec => DequeSpec
<1>1. IInv => ~Spoils
  <2> SUFFICES ASSUME IInv, NEW s \in Slots, Offset(s) < available
               PROVE  Whole(s)
    BY DEF Spoils
  <2>1. \A i \in 1..Offset(s) : i \in 1..available
    BY OffsetIs, SizePositive DEF IInv, TypeOK
  <2> QED BY <2>1 DEF IInv, StoredIsWritten, Whole
<1>2. IInv /\ [Spoils \/ Deque!Next]_Contents => [Deque!Next]_Contents
  BY <1>1
<1> QED
  BY <1>2, StartImplementsDeque, RingInvariant, RingKeepsDeque, PTL
  DEF Spec, DequeKept, DequeSpec, Deque!Spec
=============================================================================
