----------------------------- MODULE SingleBuffer -----------------------------
(***************************************************************************)
(* Circular_Buffer<T, _size> of circular_buffer.h in its other form, with  *)
(* multi = 0: each slot of _cbuf holds one value.  Every method tests      *)
(* multi first, so the two forms share the class and the arithmetic of its *)
(* indices and nothing else.  No method checks the state it finds: some    *)
(* calls set head, tail and the counter apart, an ordinary write(buffer,   *)
(* length) over the end of _cbuf among them, and only clear() makes them   *)
(* agree again.                                                            *)
(***************************************************************************)
EXTENDS CircularBuffer

Seqs == INSTANCE SequencesExt

CONSTANTS
  Value,     \* the values kept, numbers
  Newline,   \* the value println() adds
  Bulk       \* what is written at a time: sequences of values

ASSUME ValuesAssumption ==
  Value \subseteq Int /\ Newline \in Int /\ Bulk \subseteq Seq(Value)

VARIABLES
  ring,      \* head, tail, available and cell, the _cbuf of the source
  strayed    \* a call was made that sets the counter and the indices apart

singleVars == <<ring, strayed>>

\* What is stored, from the front, when the counter is right.
Stored(r) == [i \in 1 .. r.available |-> r.cell[SlotOf(r.head + i - 1)]]

\* The ways to put n things in order.
Orders(n) == Seqs!Bijection(1 .. n, 1 .. n)

Rearranged(s, p) == [i \in 1 .. Len(s) |-> s[p[i]]]

Rises(s) == \A i \in 1 .. Len(s) - 1 : s[i] <= s[i + 1]

\* std::sort()
Ascending(s) == Rearranged(s, CHOOSE p \in Orders(Len(s)) : Rises(Rearranged(s, p)))

\* The slots of the stored values take the values s; used to sort.
Laid(r, s) ==
  [r EXCEPT !.cell = [p \in Slots |->
     LET i == ((p + 2 * Size - r.head) % Size) + 1 IN IF i <= r.available THEN s[i] ELSE @[p]]]

SingleInit ==
  /\ ring = [head |-> 0, tail |-> 0, available |-> 0, cell |-> [p \in Slots |-> 0]]
  /\ strayed = FALSE

-----------------------------------------------------------------------------
(* What the methods make of a ring r, whatever its state.                   *)

\* Mutant: a full ring keeps its head where it is.
WrittenOver(r, v) ==
  [head |-> r.head, tail |-> Ahead(r.tail, 1),
   available |-> IF r.available < Size THEN r.available + 1 ELSE r.available,
   cell |-> [r.cell EXCEPT ![SlotOf(r.tail)] = v]]

\* write(value) and push_back(value): a full ring drops its oldest value.
Written(r, v) ==
  [head |-> IF r.tail = Ahead(r.head, Size) THEN Ahead(r.head, 1) ELSE r.head,
   tail |-> Ahead(r.tail, 1),
   available |-> IF r.available < Size THEN r.available + 1 ELSE r.available,
   cell |-> [r.cell EXCEPT ![SlotOf(r.tail)] = v]]

\* write(buffer, length) counts length values first.  Short of the end of _cbuf
\* it copies them and leaves head alone ...
Counted(r, n) ==
  [r EXCEPT !.available = IF (@ + n) % 65536 >= Size THEN Size ELSE (@ + n) % 65536]

CopyReaches(r, n) == n < Size - r.tail

Copied(r, b) ==
  [Counted(r, Len(b)) EXCEPT
     !.tail = Ahead(@, Len(b)),
     !.cell = [p \in Slots |-> IF p \in r.tail .. r.tail + Len(b) - 1
                               THEN b[p - r.tail + 1] ELSE @[p]]]

\* One value of b after the other.
WrittenEach(r, b) ==
  LET after[i \in 0 .. Len(b)] == IF i = 0 THEN r ELSE Written(after[i - 1], b[i])
  IN  after[Len(b)]

\* ... else it writes them one by one, which counts each of them again.
WrittenAll(r, b) ==
  IF CopyReaches(r, Len(b)) THEN Copied(r, b) ELSE WrittenEach(Counted(r, Len(b)), b)

\* push_front(value): tail stays, on a full ring too.
PushedFront(r, v) ==
  [r EXCEPT !.head = Before(@), !.cell[SlotOf(Before(r.head))] = v,
            !.available = IF @ < Size THEN @ + 1 ELSE @]

\* Mutant: the first value first.
PushedFrontAllForward(r, b) ==
  LET after[i \in 0 .. Len(b)] == IF i = 0 THEN r ELSE PushedFront(after[i - 1], b[i])
  IN  after[Len(b)]

\* push_front(buffer, length), the last value first.
PushedFrontAll(r, b) ==
  LET after[i \in 0 .. Len(b)] ==
        IF i = 0 THEN r ELSE PushedFront(after[i - 1], b[Len(b) + 1 - i])
  IN  after[Len(b)]

\* read() and pop_front(): head moves on an empty ring too.
ReadOnce(r) == [r EXCEPT !.head = Ahead(@, 1), !.available = IF @ > 0 THEN @ - 1 ELSE 0]

\* readBytes(buffer, n) reads the fewer of n and available; short of the end of
\* _cbuf it takes all n off the counter, else it reads one by one.  What it puts in
\* the caller's buffer is left out: short of the end it copies from the start of
\* _cbuf, wherever head is.
Fewer(r, n) == IF r.available < n THEN r.available ELSE n

MoveReaches(r, n) == Fewer(r, n) < Size - r.head

ReadAll(r, n) ==
  [r EXCEPT !.head = Ahead(@, Fewer(r, n)),
            !.available = IF MoveReaches(r, n) THEN (@ - n) % 65536 ELSE @ - Fewer(r, n)]

\* pop_back(), which alone asks whether there is anything.
PoppedBack(r) ==
  IF r.available > 0 THEN [r EXCEPT !.available = @ - 1, !.tail = Before(@)] ELSE r

\* sort_ascending(), and median(1) before it looks; sort_descending().
Sorted(r) == IF r.available = 0 THEN r ELSE Laid(r, Ascending(Stored(r)))
Reversed(r) == IF r.available = 0 THEN r ELSE Laid(r, Seqs!Reverse(Stored(Sorted(r))))

-----------------------------------------------------------------------------
(* The calls, on a ring that has not strayed.  kept says whether counter    *)
(* and indices still agree afterwards: the condition is the caller's only   *)
(* way to tell, and the code asks for none of it.                           *)

Goes(r, kept) == ~strayed /\ ring' = r /\ strayed' = ~kept

Write(v) == Goes(Written(ring, v), TRUE)

\* Copied, the values must fit.  Written one by one over the end of _cbuf, the branch
\* "if buffer rollover", they are counted twice, which does no harm only when they
\* fill the ring, be it with the values that follow in the same call.
MayWrite(b, following) ==
  IF CopyReaches(ring, Len(b)) THEN ring.available + Len(b) <= Size
  ELSE Len(b) = 0 \/ ring.available + Len(b) + following >= Size

\* write(buffer, length), push_back(buffer, length) and print().
WriteBulk(b) == Goes(WrittenAll(ring, b), MayWrite(b, 0))

\* println()
PrintLn(b) == Goes(Written(WrittenAll(ring, b), Newline), MayWrite(b, 1))

\* push_front() of one value or several; 0 of them would be taken for 65536.
PushFrontBulk(b) ==
  Len(b) > 0 /\ Goes(PushedFrontAll(ring, b), ring.available + Len(b) <= Size)

Read == Goes(ReadOnce(ring), ring.available > 0)

\* Asked for more than there is, readBytes() must end at the end of _cbuf or beyond.
ReadBytes(n) == Goes(ReadAll(ring, n), n <= ring.available \/ ~MoveReaches(ring, n))

PopBackOne == Goes(PoppedBack(ring), TRUE)

SortUp == Goes(Sorted(ring), TRUE)

SortDown == Goes(Reversed(ring), TRUE)

\* clear() and flush() put a strayed ring right again.
ClearSingle ==
  /\ ring' = [ring EXCEPT !.head = 0, !.tail = 0, !.available = 0]
  /\ strayed' = FALSE

SingleNext ==
  \/ \E v \in Value : Write(v)
  \/ \E b \in Bulk : WriteBulk(b) \/ PrintLn(b) \/ PushFrontBulk(b)
  \/ Read
  \/ \E n \in 0 .. Size + 1 : ReadBytes(n)
  \/ PopBackOne
  \/ SortUp
  \/ SortDown
  \/ ClearSingle

-----------------------------------------------------------------------------
SingleSpec == SingleInit /\ [][SingleNext]_singleVars

\* Counter and indices part exactly on the calls MayWrite and the others name: on
\* no other call, and on each of them.  (A counter that is wrong makes size(), the
\* statistics and every later read look at values that are not there.)
ApartOnceStrayed == strayed <=> ring.tail # Ahead(ring.head, ring.available)

SameValues(s, t) == \E p \in Orders(Len(s)) : t = Rearranged(s, p)

Values == INSTANCE ValueDeque WITH
  Capacity <- Size, content <- Stored(ring), Permuted <- SameValues,
  Bulk <- Bulk \cup {<< v >> : v \in Value} \cup {Append(b, Newline) : b \in Bulk}

\* Until such a call, and again after clear(), what is stored is the queue of values
\* the user counts on, though values wrap round the end and full rings give up their
\* oldest in the middle of a bulk write.
KeepsValues == [][strayed' \/ Values!Next]_singleVars
=============================================================================
