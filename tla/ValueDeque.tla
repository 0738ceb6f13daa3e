------------------------------ MODULE ValueDeque ------------------------------
(***************************************************************************)
(* What a user of Circular_Buffer with single values counts on: a          *)
(* double-ended queue of at most Capacity values, written and read one by  *)
(* one or several at a time.  Adding behind the last value of a full queue *)
(* drops as many at the front; adding in front never drops any.            *)
(***************************************************************************)
EXTENDS Integers, Sequences

CONSTANTS
  Capacity,
  Bulk,      \* what is written at a time: sequences of values
  Permuted(_, _)   \* two sequences hold the same values, in some order

VARIABLE content

Newest(s) == IF Len(s) <= Capacity THEN s ELSE SubSeq(s, Len(s) - Capacity + 1, Len(s))

AddLast(b) == content' = Newest(content \o b)

AddFirst(b) == Len(content) + Len(b) <= Capacity /\ content' = b \o content

TakeFirst(n) == content' = SubSeq(content, n + 1, Len(content))

TakeLast == content # << >> /\ content' = SubSeq(content, 1, Len(content) - 1)

Empty == content' = << >>

Sort ==
  /\ Permuted(content, content')
  /\ \/ \A i \in 1 .. Len(content) - 1 : content'[i] <= content'[i + 1]
     \/ \A i \in 1 .. Len(content) - 1 : content'[i] >= content'[i + 1]

Next ==
  \/ Empty
  \/ \E b \in Bulk : AddLast(b) \/ AddFirst(b)
  \/ \E n \in 1 .. Len(content) : TakeFirst(n)
  \/ TakeLast
  \/ Sort

Spec == content = << >> /\ [][Next]_content
=============================================================================
