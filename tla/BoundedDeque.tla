----------------------------- MODULE BoundedDeque -----------------------------
(***************************************************************************)
(* The promise of Circular_Buffer in its "multi" form: a double-ended      *)
(* queue of at most Capacity messages.  Adding to a full queue drops the   *)
(* message at the other end and adds all the same; nothing else is lost,   *)
(* repeated or moved.                                                      *)
(***************************************************************************)
EXTENDS Integers, Sequences

CONSTANTS Capacity, Entry, SameKey(_, _)

VARIABLE content

IsFull == Len(content) = Capacity

AllButFirst == SubSeq(content, 2, Len(content))
AllButLast  == SubSeq(content, 1, Len(content) - 1)

Init == content = << >>

AddLast(e)  == content' = Append(IF IsFull THEN AllButFirst ELSE content, e)

AddFirst(e) == content' = << e >> \o (IF IsFull THEN AllButLast ELSE content)

TakeFirst == content # << >> /\ content' = AllButFirst

TakeLast == content # << >> /\ content' = AllButLast

Empty == content' = << >>

\* The i-th message goes, the others keep their order.
Delete(i) ==
  content' = SubSeq(content, 1, i - 1) \o SubSeq(content, i + 1, Len(content))

\* The first message with the key of e becomes e.
Update(e) ==
  \E i \in 1..Len(content) :
    /\ SameKey(content[i], e)
    /\ \A j \in 1..(i - 1) : ~SameKey(content[j], e)
    /\ content' = [content EXCEPT ![i] = e]

Next ==
  \/ \E e \in Entry : AddLast(e) \/ AddFirst(e) \/ Update(e)
  \/ TakeFirst
  \/ TakeLast
  \/ Empty
  \/ \E i \in 1..Len(content) : Delete(i)

Spec == Init /\ [][Next]_content
=============================================================================
