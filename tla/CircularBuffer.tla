---------------------------- MODULE CircularBuffer ----------------------------
(***************************************************************************)
(* Circular_Buffer<T, _size, multi> of circular_buffer.h in its "multi"    *)
(* form: a ring of _size slots, each holding one whole message.  It is the *)
(* form the library uses (teensquitto_queue, 16 slots of 300 bytes).       *)
(*                                                                         *)
(* head and tail run over 0 .. 2*_size-1, twice round the slots, so that a *)
(* full ring (tail = head ^ _size) and an empty one (tail = head) differ.  *)
(* available is kept beside them and never recomputed.                     *)
(***************************************************************************)
EXTENDS Integers, Sequences

CONSTANTS
  Size,           \* _size, the number of slots
  Entry,          \* the messages: the length bytes and the payload together
  Blank,          \* what a slot holds before it is first written
  SameKey(_, _),  \* two messages agree in the bytes pos1 .. pos5 of replace()
  MovesWhole(_),  \* remove() moves the message exactly: T is one byte wide and
                  \* the message is shorter than the slot
  Spoilt          \* what remove() can leave of messages it does not move whole

\* Indices up to 2*_size-1 are kept in uint16_t.
ASSUME SizeAssumption == Size \in Nat /\ 0 < Size /\ Size <= 32768

\* The masks "& (_size-1)", "& (2*_size-1)" and "^ _size" are the modular
\* arithmetic below only for a power of two.  The proofs need more than that
\* arithmetic in one place only: the 65536 values of the counter are then a whole
\* number of turns round the ring.
ASSUME PowerOfTwoAssumption ==
  Size \in {1, 2, 4, 8, 16, 32, 64, 128, 256, 512, 1024, 2048, 4096, 8192, 16384, 32768}

VARIABLES head, tail, available, slot

vars == <<head, tail, available, slot>>

Index == 0 .. 2 * Size - 1
Slots == 0 .. Size - 1

-----------------------------------------------------------------------------
(* Index arithmetic. *)

\* (i + n) & (2*_size-1)
Ahead(i, n) == (i + n) % (2 * Size)

\* (i - 1) & (2*_size-1)
Before(i) == Ahead(i, 2 * Size - 1)

\* i & (_size-1)
SlotOf(i) == i % Size

\* tail == (head ^ _size)
Full == tail = Ahead(head, Size)

\* Mutant: the limit forgotten.
OneMoreUncapped == available + 1

\* if ( _available < _size ) _available++
OneMore == IF available < Size THEN available + 1 ELSE available

\* if ( _available ) _available--
OneLess == IF available > 0 THEN available - 1 ELSE available

\* The distance of physical slot s from the front, find_area in remove().
Offset(s) == (s + 2 * Size - head) % Size

\* The i-th message from the front.
Message(i) == slot[SlotOf(head + i - 1)]

Contents == [i \in 1..available |-> Message(i)]

\* What front() and length_front() read.
FrontMessage == slot[SlotOf(head)]

-----------------------------------------------------------------------------
Init ==
  /\ head = 0
  /\ tail = 0
  /\ available = 0
  /\ slot = [s \in Slots |-> Blank]

\* Mutant: the oldest message of a full ring is overwritten but not given up.
PushBackOver(e) ==
  /\ slot' = [slot EXCEPT ![SlotOf(tail)] = e]
  /\ tail' = Ahead(tail, 1)
  /\ available' = OneMore
  /\ UNCHANGED head

\* push_back(buffer, length): a full ring drops its oldest message.
PushBack(e) ==
  /\ slot' = [slot EXCEPT ![SlotOf(tail)] = e]
  /\ head' = IF Full THEN Ahead(head, 1) ELSE head
  /\ tail' = Ahead(tail, 1)
  /\ available' = OneMore

\* push_front(buffer, length): a full ring drops its newest message.
PushFront(e) ==
  /\ tail' = IF Full THEN Before(tail) ELSE tail
  /\ head' = Before(head)
  /\ slot' = [slot EXCEPT ![SlotOf(Before(head))] = e]
  /\ available' = OneMore

\* Mutant: the counter is not taken down.
PopFrontUncounted ==
  /\ head' = Ahead(head, 1)
  /\ UNCHANGED <<tail, available, slot>>

\* read(), pop_front() and readBytes(): head moves even when nothing is stored.
PopFront ==
  /\ head' = Ahead(head, 1)
  /\ available' = OneLess
  /\ UNCHANGED <<tail, slot>>

\* pop_back(buffer, length): tail moves even when nothing is stored.
PopBack ==
  /\ tail' = Before(tail)
  /\ available' = OneLess
  /\ UNCHANGED <<head, slot>>

\* clear() and flush(); the slots keep their bytes.
Clear ==
  /\ head' = 0
  /\ tail' = 0
  /\ available' = 0
  /\ UNCHANGED slot

\* The messages in front of slot pos are moved one slot back, over pos.
Shifted(pos) ==
  [s \in Slots |-> IF Offset(s) \in 1..Offset(pos) THEN slot[SlotOf(s + Size - 1)] ELSE slot[s]]

Whole(pos) == \A i \in 1..Offset(pos) : MovesWhole(Message(i))

\* memmove() is told length + 3*sizeof(T) bytes: of a message as long as a slot it
\* moves one byte more, which is the first of the next slot; of elements wider than
\* a byte it leaves the end behind.  A message whose length was spoilt that way may
\* take it anywhere.
Reached(pos) ==
  {s \in Slots : \/ Offset(s) <= Offset(pos) + 1
                 \/ \E i \in 1..Offset(pos) : Message(i) \notin Entry}

\* Mutant: the move stops one slot short of pos.
RemoveShort(pos) ==
  /\ slot' = [s \in Slots |->
                IF Offset(s) \in 1 .. Offset(pos) - 1 THEN slot[SlotOf(s + Size - 1)] ELSE slot[s]]
  /\ head' = Ahead(head, 1)
  /\ available' = available - 1
  /\ UNCHANGED tail

\* Mutant: the messages behind pos move forward.
RemoveForward(pos) ==
  /\ slot' = [s \in Slots |->
                IF Offset(s) >= Offset(pos) THEN slot[SlotOf(s + 1)] ELSE slot[s]]
  /\ head' = Ahead(head, 1)
  /\ available' = available - 1
  /\ UNCHANGED tail

\* remove(pos): pos is a physical slot; the messages in front of it move one
\* slot back over it, and the front slot is given up.  What lies behind the last
\* physical slot, where a move can reach too, is not the ring's.
Remove(pos) ==
  /\ \/ Whole(pos) /\ slot' = Shifted(pos)
     \/ /\ ~Whole(pos)
        /\ \E bad \in SUBSET Reached(pos) : \E left \in [bad -> Spoilt] :
             slot' = [s \in Slots |-> IF s \in bad THEN left[s] ELSE Shifted(pos)[s]]
  /\ head' = Ahead(head, 1)
  /\ available' = (available - 1) % 65536   \* uint16_t
  /\ UNCHANGED tail

\* replace(buffer, ...): the first stored message with the same key bytes is
\* overwritten where it lies; without one nothing happens and the call is false.
Replace(e) ==
  /\ \/ \E i \in 1..available :
          /\ SameKey(Message(i), e)
          /\ \A j \in 1..(i - 1) : ~SameKey(Message(j), e)
          /\ slot' = [slot EXCEPT ![SlotOf(head + i - 1)] = e]
     \/ /\ \A i \in 1..available : ~SameKey(Message(i), e)
        /\ UNCHANGED slot
  /\ UNCHANGED <<head, tail, available>>

-----------------------------------------------------------------------------
(* The caller's discipline: nothing is taken from an empty ring (events()   *)
(* asks size() > 0 first) and remove() is given the slot of a stored        *)
(* message.  The code checks neither; Teensquitto says when the library     *)
(* keeps to it.                                                             *)

Next ==
  \/ \E e \in Entry : PushBack(e)
  \/ \E e \in Entry : PushFront(e)
  \/ available > 0 /\ PopFront
  \/ available > 0 /\ PopBack
  \/ Clear
  \/ \E s \in Slots : Offset(s) < available /\ Remove(s)
  \/ \E e \in Entry : Replace(e)

Spec == Init /\ [][Next]_vars

-----------------------------------------------------------------------------
TypeOK ==
  /\ head \in Index
  /\ tail \in Index
  /\ available \in 0..Size
  /\ slot \in [Slots -> Entry \cup Spoilt \cup {Blank}]

\* The separately kept counter never drifts from the two indices: available is
\* the way from head to tail, so "full" and "empty" mean the same to the code
\* that asks size() and to the code that compares indices.
CounterAgrees == tail = Ahead(head, available)

\* A stored message is one that was pushed, or what remove() made of some: never
\* a slot nobody wrote.
StoredIsWritten == \A i \in 1..available : Message(i) \in Entry \cup Spoilt

RemoveIsExact ==
  \A pos \in Slots : Offset(pos) < available /\ Remove(pos) =>
    /\ available' = available - 1
    /\ Whole(pos) =>
         \A i \in 1..available' :
           Message(i)' = IF i <= Offset(pos) THEN Message(i) ELSE Message(i + 1)
    /\ (\A i \in 1..Offset(pos) : Message(i) \in Entry) =>
         \A i \in Offset(pos) + 2 .. available' : Message(i)' = Message(i + 1)

\* remove(pos) gives up the message that lies in slot pos and no other, as long as
\* the messages in front of it are shorter than a slot, of elements of one byte: the
\* rest keeps its order.  With longer ones in front, the message right behind pos
\* may lose its length, and those behind that are still untouched.
RemovesItsOwn == [][RemoveIsExact]_vars

-----------------------------------------------------------------------------
(* What the ring promises: a double-ended queue that gives up the message   *)
(* at the far end when it is full.                                          *)
Deque == INSTANCE BoundedDeque WITH Capacity <- Size, content <- Contents

\* It keeps the promise where remove() is never given messages it does not move
\* whole.
DequeSpec == Deque!Spec

Spoils == \E s \in Slots : Offset(s) < available /\ ~Whole(s) /\ Remove(s)

\* Every call is one of the deque's, whatever went before, but for a remove() with
\* such messages in front; the counter and the indices survive that one too.
DequeKept == [][Spoils \/ Deque!Next]_Contents
=============================================================================
