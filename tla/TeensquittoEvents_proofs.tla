----------------------- MODULE TeensquittoEvents_proofs -----------------------
(***************************************************************************)
(* Proofs about the events: where each event the ESP sends ends up, for    *)
(* every size of the queue, every behaviour of handlers and every bound.   *)
(***************************************************************************)
EXTENDS Teensquitto_proofs, FiniteSetTheorems

-----------------------------------------------------------------------------
(* The queue as a list of messages (compare CircularBuffer_proofs) *)

LEMMA QueueSize == Size \in Nat \ {0}
BY QueueAssumption

LEMMA AheadIs ==
  ASSUME NEW i \in Queue!Index, NEW n \in 0..2 * Size
  PROVE  /\ Queue!Ahead(i, n) = IF i + n >= 2 * Size THEN i + n - 2 * Size ELSE i + n
         /\ Queue!Ahead(i, n) \in Queue!Index
BY QueueSize DEF Queue!Index, Queue!Ahead

LEMMA SlotOfIs ==
  ASSUME NEW p \in 0..3 * Size
  PROVE  /\ Queue!SlotOf(p) = IF p >= 3 * Size THEN p - 3 * Size
                              ELSE IF p >= 2 * Size THEN p - 2 * Size
                              ELSE IF p >= Size THEN p - Size ELSE p
         /\ Queue!SlotOf(p) \in Queue!Slots
BY QueueSize DEF Queue!SlotOf, Queue!Slots

LEMMA SlotInjective ==
  ASSUME NEW i \in Queue!Index, NEW m \in 0..Size - 1, NEW n \in 0..Size - 1,
         Queue!SlotOf(i + m) = Queue!SlotOf(i + n)
  PROVE  m = n
<1>1. i + m \in 0..3 * Size /\ i + n \in 0..3 * Size
  BY QueueSize DEF Queue!Index
<1> QED BY <1>1, SlotOfIs, QueueSize DEF Queue!Index

LEMMA SlotAfterAhead ==
  ASSUME NEW i \in Queue!Index, NEW n \in 0..Size - 1
  PROVE  Queue!SlotOf(Queue!Ahead(i, 1) + n) = Queue!SlotOf(i + 1 + n)
<1>1. Queue!Ahead(i, 1) = IF i + 1 >= 2 * Size THEN i + 1 - 2 * Size ELSE i + 1
  BY AheadIs, QueueSize
<1>2. i + 1 + n \in 0..3 * Size /\ Queue!Ahead(i, 1) + n \in 0..3 * Size
  BY <1>1, QueueSize DEF Queue!Index
<1> QED BY <1>1, <1>2, SlotOfIs, QueueSize DEF Queue!Index

\* The i-th message from the front, in the next state.
MessageThen(i) == slot'[Queue!SlotOf(head' + i - 1)]

\* The counter agrees with the indices and every stored message was pushed.
RingIntact == Queue!TypeOK /\ Queue!CounterAgrees /\ Queue!StoredIsWritten

LEMMA TailIs ==
  ASSUME Queue!TypeOK, Queue!CounterAgrees
  PROVE  /\ tail = IF head + available >= 2 * Size THEN head + available - 2 * Size
                   ELSE head + available
         /\ Queue!SlotOf(tail) = Queue!SlotOf(head + available)
         /\ Queue!Full <=> available = Size
<1>1. available \in 0..2 * Size /\ Size \in 0..2 * Size /\ head \in Queue!Index
  BY QueueSize DEF Queue!TypeOK
<1>2. tail = IF head + available >= 2 * Size THEN head + available - 2 * Size
             ELSE head + available
  BY <1>1, AheadIs DEF Queue!CounterAgrees
<1>3. Queue!Ahead(head, Size) = IF head + Size >= 2 * Size THEN head + Size - 2 * Size
                                ELSE head + Size
  BY <1>1, AheadIs
<1>4. tail \in 0..3 * Size /\ head + available \in 0..3 * Size
  BY <1>1, <1>2, QueueSize DEF Queue!TypeOK, Queue!Index
<1>5. Queue!SlotOf(tail) = Queue!SlotOf(head + available)
  BY <1>1, <1>2, <1>4, SlotOfIs, QueueSize DEF Queue!TypeOK, Queue!Index
<1>6. Queue!Full <=> available = Size
  BY <1>1, <1>2, <1>3, QueueSize DEF Queue!Full, Queue!TypeOK, Queue!Index
<1> QED BY <1>2, <1>5, <1>6

LEMMA PositionOK ==
  ASSUME Queue!TypeOK, NEW i \in 0..Size
  PROVE  Queue!SlotOf(head + i) \in Queue!Slots
<1>1. head + i \in 0..3 * Size
  BY QueueSize DEF Queue!TypeOK, Queue!Index
<1> QED BY <1>1, SlotOfIs

\* What events() reads is the first message.
LEMMA FrontIsFirst ==
  ASSUME RingIntact, available > 0
  PROVE  /\ Queue!FrontMessage = Queue!Message(1)
         /\ slot[Queue!SlotOf(head)] = Queue!Message(1)
         /\ Queue!Message(1) \in EventFrame
<1>1. head + 1 - 1 = head /\ 1 \in 1..available
  BY DEF RingIntact, Queue!TypeOK, Queue!Index
<1> QED BY <1>1 DEF Queue!FrontMessage, Queue!Message, RingIntact, Queue!StoredIsWritten

LEMMA PushBackEffect ==
  ASSUME RingIntact, NEW e \in EventFrame, Queue!PushBack(e)
  PROVE  /\ RingIntact'
         /\ available' = IF available < Size THEN available + 1 ELSE Size
         /\ available < Size => head' = head
         /\ \A i \in 1..available' :
              MessageThen(i) = IF i = available' THEN e
                                  ELSE IF available < Size THEN Queue!Message(i)
                                  ELSE Queue!Message(i + 1)
<1> USE QueueSize
<1>0. Queue!TypeOK /\ Queue!CounterAgrees
  BY DEF RingIntact
<1>1. /\ head' = (IF available = Size THEN Queue!Ahead(head, 1) ELSE head)
      /\ available' = IF available < Size THEN available + 1 ELSE Size
      /\ available' \in 1..Size
  BY <1>0, TailIs DEF Queue!PushBack, Queue!OneMore, Queue!TypeOK
<1>2. /\ Queue!Ahead(head, 1) = (IF head + 1 >= 2 * Size THEN head + 1 - 2 * Size ELSE head + 1)
      /\ Queue!Ahead(head, 1) \in Queue!Index
      /\ tail' = (IF tail + 1 >= 2 * Size THEN tail + 1 - 2 * Size ELSE tail + 1)
      /\ tail' \in Queue!Index
      /\ head' \in Queue!Index
  BY <1>0, <1>1, AheadIs DEF Queue!PushBack, Queue!TypeOK
<1>3. /\ Queue!SlotOf(tail) = Queue!SlotOf(head + available)
      /\ Queue!SlotOf(tail) \in Queue!Slots
  BY <1>0, TailIs, PositionOK DEF Queue!TypeOK
<1>4. Queue!TypeOK'
  BY <1>0, PushTypes
<1>5. Queue!CounterAgrees'
  <2>1. Queue!Ahead(head', available') = (IF head' + available' >= 2 * Size
                                          THEN head' + available' - 2 * Size
                                          ELSE head' + available')
    BY <1>1, <1>2, AheadIs
  <2> QED BY <1>0, <1>1, <1>2, <2>1, TailIs DEF Queue!CounterAgrees, Queue!TypeOK, Queue!Index
<1>6. ASSUME NEW i \in 1..available'
      PROVE  MessageThen(i) = IF i = available' THEN e
                                 ELSE IF available < Size THEN Queue!Message(i)
                                 ELSE Queue!Message(i + 1)
  <2>1. slot' = [slot EXCEPT ![Queue!SlotOf(head + available)] = e]
    BY <1>3 DEF Queue!PushBack
  <2>2. CASE available < Size
    <3>1. head' = head /\ i - 1 \in 0..Size - 1 /\ available \in 0..Size - 1
      BY <1>0, <1>1, <2>2 DEF Queue!TypeOK
    <3>2. Queue!SlotOf(head + (i - 1)) \in Queue!Slots
      BY <1>0, <3>1, PositionOK
    <3>3. Queue!SlotOf(head + (i - 1)) = Queue!SlotOf(head + available) => i - 1 = available
      BY <1>0, <3>1, SlotInjective DEF Queue!TypeOK
    <3>4. head + i - 1 = head + (i - 1)
      BY <1>0 DEF Queue!TypeOK, Queue!Index
    <3> QED BY <1>0, <1>1, <2>1, <2>2, <3>1, <3>2, <3>3, <3>4 DEF MessageThen, Queue!Message, Queue!TypeOK
  <2>3. CASE available = Size
    <3>1. head' = Queue!Ahead(head, 1) /\ i - 1 \in 0..Size - 1 /\ head \in Queue!Index
      BY <1>0, <1>1, <2>3 DEF Queue!TypeOK
    <3>2. head' + i - 1 = Queue!Ahead(head, 1) + (i - 1) /\ head + 1 + (i - 1) = head + i
          /\ head + (i + 1) - 1 = head + i
      BY <1>0, <1>2, <3>1 DEF Queue!TypeOK, Queue!Index
    <3>3. Queue!SlotOf(head' + i - 1) = Queue!SlotOf(head + i)
      BY <3>1, <3>2, SlotAfterAhead
    <3>4. Queue!SlotOf(head + i) \in Queue!Slots
      BY <1>0, <1>1, PositionOK
    <3>5. Queue!SlotOf(head + Size) = Queue!SlotOf(head + 0)
      BY <1>0, SlotOfIs DEF Queue!TypeOK, Queue!Index
    <3>6. Queue!SlotOf(head + i) = Queue!SlotOf(head + Size) => i = Size
      <4>1. CASE i = Size
        BY <4>1
      <4>2. CASE i # Size
        <5>1. i \in 0..Size - 1 /\ 0 \in 0..Size - 1
          BY <1>1, <4>2
        <5> QED BY <1>0, <3>1, <3>5, <5>1, SlotInjective
      <4> QED BY <4>1, <4>2
    <3> QED BY <1>0, <1>1, <2>1, <2>3, <3>2, <3>3, <3>4, <3>6 DEF MessageThen, Queue!Message, Queue!TypeOK
  <2> QED BY <1>0, <2>2, <2>3 DEF Queue!TypeOK
<1>7. Queue!StoredIsWritten'
  <2> SUFFICES ASSUME NEW i \in 1..available'
               PROVE  MessageThen(i) \in EventFrame
    BY DEF MessageThen, Queue!StoredIsWritten, Queue!Message
  <2>1. /\ available < Size /\ i # available' => i \in 1..available
        /\ ~(available < Size) /\ i # available' => i + 1 \in 1..available
    BY <1>0, <1>1 DEF Queue!TypeOK
  <2> QED BY <1>6, <2>1 DEF RingIntact, Queue!StoredIsWritten
<1>8. available < Size => head' = head
  BY <1>0, <1>1 DEF Queue!TypeOK
<1> QED BY <1>1, <1>4, <1>5, <1>6, <1>7, <1>8 DEF RingIntact

LEMMA PopFrontEffect ==
  ASSUME RingIntact, available > 0, Queue!PopFront
  PROVE  /\ RingIntact'
         /\ available' = available - 1
         /\ \A i \in 1..available' : MessageThen(i) = Queue!Message(i + 1)
<1> USE QueueSize
<1>0. Queue!TypeOK /\ Queue!CounterAgrees
  BY DEF RingIntact
<1>1. /\ available' = available - 1 /\ available' \in 0..Size - 1
      /\ tail' = tail /\ slot' = slot /\ head' = Queue!Ahead(head, 1)
      /\ head' = (IF head + 1 >= 2 * Size THEN head + 1 - 2 * Size ELSE head + 1)
      /\ head' \in Queue!Index
  BY <1>0, AheadIs DEF Queue!PopFront, Queue!OneLess, Queue!TypeOK
<1>2. Queue!TypeOK'
  BY <1>0, PopTypes
<1>3. Queue!CounterAgrees'
  <2>1. Queue!Ahead(head', available') = (IF head' + available' >= 2 * Size
                                          THEN head' + available' - 2 * Size
                                          ELSE head' + available')
    BY <1>1, AheadIs
  <2> QED BY <1>0, <1>1, <2>1, TailIs DEF Queue!CounterAgrees, Queue!TypeOK, Queue!Index
<1>4. ASSUME NEW i \in 1..available'
      PROVE  MessageThen(i) = Queue!Message(i + 1)
  <2>1. i - 1 \in 0..Size - 1 /\ head \in Queue!Index
    BY <1>0, <1>1 DEF Queue!TypeOK
  <2>2. /\ head' + i - 1 = Queue!Ahead(head, 1) + (i - 1)
        /\ head + 1 + (i - 1) = head + (i + 1) - 1
    BY <1>1, <2>1 DEF Queue!Index
  <2> QED BY <1>1, <2>1, <2>2, SlotAfterAhead DEF MessageThen, Queue!Message
<1>5. Queue!StoredIsWritten'
  <2> SUFFICES ASSUME NEW i \in 1..available'
               PROVE  MessageThen(i) \in EventFrame
    BY DEF MessageThen, Queue!StoredIsWritten, Queue!Message
  <2>1. i + 1 \in 1..available
    BY <1>0, <1>1 DEF Queue!TypeOK
  <2> QED BY <1>4, <2>1 DEF RingIntact, Queue!StoredIsWritten
<1> QED BY <1>1, <1>2, <1>3, <1>4, <1>5 DEF RingIntact

-----------------------------------------------------------------------------
(* Lists of numbers, in which 0 stands for what is no event *)

Ids(list) == {list[i] : i \in DOMAIN list} \ {0}

Once(list) == \A i, j \in DOMAIN list : list[i] = list[j] /\ list[i] # 0 => i = j

\* What a step does to a list.
Same(s, t) == Ids(t) = Ids(s) /\ (Once(s) => Once(t))
Gains(s, t, e) == Ids(t) = Ids(s) \cup {e} /\ (Once(s) /\ e \notin Ids(s) => Once(t))
Loses(s, t, e) == e \in Ids(s) /\ (Once(s) => Ids(t) = Ids(s) \ {e} /\ Once(t))

LEMMA ListUnchanged ==
  ASSUME NEW s, NEW t, DOMAIN t = DOMAIN s, \A i \in DOMAIN s : t[i] = s[i]
  PROVE  Same(s, t)
BY DEF Same, Ids, Once

LEMMA ListGrown ==
  ASSUME NEW n \in Nat, NEW s, NEW t, NEW e, DOMAIN s = 1..n, DOMAIN t = 1 .. n + 1,
         \A i \in 1..n : t[i] = s[i], t[n + 1] = e
  PROVE  /\ e # 0 => Gains(s, t, e)
         /\ e = 0 => Same(s, t)
<1>1. \A i \in DOMAIN t : i = n + 1 \/ i \in DOMAIN s
  OBVIOUS
<1>2. n + 1 \in DOMAIN t /\ n + 1 \notin DOMAIN s /\ \A i \in DOMAIN s : i \in DOMAIN t
  OBVIOUS
<1>3. Ids(t) = Ids(s) \cup ({e} \ {0})
  BY <1>1, <1>2 DEF Ids
<1>4. Once(s) /\ (e = 0 \/ e \notin Ids(s)) => Once(t)
  BY <1>1, <1>2 DEF Ids, Once
<1> QED BY <1>3, <1>4 DEF Gains, Same

LEMMA ListShifted ==
  ASSUME NEW n \in Nat, NEW s, NEW t, DOMAIN s = 1 .. n + 1, DOMAIN t = 1..n,
         \A i \in 1..n : t[i] = s[i + 1]
  PROVE  /\ s[1] # 0 => Loses(s, t, s[1])
         /\ s[1] = 0 => Same(s, t)
<1>1. 1 \in DOMAIN s /\ \A i \in DOMAIN t : i + 1 \in DOMAIN s /\ i + 1 # 1 /\ t[i] = s[i + 1]
  OBVIOUS
<1>2. \A i \in DOMAIN s : i = 1 \/ \E k \in DOMAIN t : i = k + 1
  <2> SUFFICES ASSUME NEW i \in 1 .. n + 1, i # 1
               PROVE  \E k \in 1..n : i = k + 1
    OBVIOUS
  <2>1. i - 1 \in 1..n /\ i = (i - 1) + 1
    OBVIOUS
  <2> QED BY <2>1
<1>3. \A i, j \in DOMAIN t : i + 1 = j + 1 => i = j
  OBVIOUS
<1>4. s[1] # 0 => s[1] \in Ids(s)
  BY <1>1 DEF Ids
<1>5. Once(s) => Once(t)
  BY <1>1, <1>3 DEF Once
<1>6. Once(s) \/ s[1] = 0 => Ids(t) = Ids(s) \ {s[1]}
  <2>1. ASSUME NEW e, e # 0
        PROVE  e \in Ids(s) <=> e = s[1] \/ e \in Ids(t)
    BY <1>1, <1>2, <2>1 DEF Ids
  <2>2. (Once(s) \/ s[1] = 0) /\ s[1] # 0 => s[1] \notin Ids(t)
    BY <1>1 DEF Ids, Once
  <2>3. 0 \notin Ids(s) /\ 0 \notin Ids(t)
    BY DEF Ids
  <2> QED BY <2>1, <2>2, <2>3
<1>7. s[1] = 0 => Ids(s) \ {s[1]} = Ids(s)
  BY DEF Ids
<1> QED BY <1>4, <1>5, <1>6, <1>7 DEF Loses, Same

LEMMA ListCut ==
  ASSUME NEW n \in Nat, NEW s, NEW t, DOMAIN s = 1 .. n + 1, DOMAIN t = 1..n,
         \A i \in 1..n : t[i] = s[i]
  PROVE  /\ s[n + 1] # 0 => Loses(s, t, s[n + 1])
         /\ s[n + 1] = 0 => Same(s, t)
<1>1. n + 1 \in DOMAIN s /\ \A i \in DOMAIN t : i \in DOMAIN s /\ i # n + 1 /\ t[i] = s[i]
  OBVIOUS
<1>2. \A i \in DOMAIN s : i = n + 1 \/ i \in DOMAIN t
  OBVIOUS
<1>3. s[n + 1] # 0 => s[n + 1] \in Ids(s)
  BY <1>1 DEF Ids
<1>4. Once(s) => Once(t)
  BY <1>1 DEF Once
<1>5. Once(s) \/ s[n + 1] = 0 => Ids(t) = Ids(s) \ {s[n + 1]}
  BY <1>1, <1>2 DEF Ids, Once
<1>6. s[n + 1] = 0 => Ids(s) \ {s[n + 1]} = Ids(s)
  BY DEF Ids
<1> QED BY <1>3, <1>4, <1>5, <1>6 DEF Loses, Same

-----------------------------------------------------------------------------
(* The places of events *)

Place == {"wire", "detect", "queue", "handler", "dropped"}

Lists ==
  [p \in Place |-> IF p = "wire" THEN OnWire
                   ELSE IF p = "detect" THEN Detecting
                   ELSE IF p = "queue" THEN Waiting
                   ELSE IF p = "handler" THEN Handled
                   ELSE dropped]

LEMMA ListsAre ==
  /\ Lists["wire"] = OnWire /\ Lists["detect"] = Detecting /\ Lists["queue"] = Waiting
  /\ Lists["handler"] = Handled /\ Lists["dropped"] = dropped
  /\ Lists'["wire"] = OnWire' /\ Lists'["detect"] = Detecting' /\ Lists'["queue"] = Waiting'
  /\ Lists'["handler"] = Handled' /\ Lists'["dropped"] = dropped'
BY DEF Lists, Place

\* The events up to n are each in one place, once, and there are no others.
Parted(lists, n) ==
  /\ \A p \in Place : Once(lists[p])
  /\ \A p, q \in Place : p # q => Ids(lists[p]) \cap Ids(lists[q]) = {}
  /\ \A e : e \in 1..n <=> \E p \in Place : e \in Ids(lists[p])

\* Event e goes from one place to another.
Moves(lists, then, from, to, e) ==
  /\ Loses(lists[from], then[from], e)
  /\ Gains(lists[to], then[to], e)
  /\ \A p \in Place \ {from, to} : Same(lists[p], then[p])

LEMMA NothingMoves ==
  ASSUME NEW lists, NEW then, NEW n, Parted(lists, n),
         \A p \in Place : Same(lists[p], then[p])
  PROVE  Parted(then, n)
BY DEF Parted, Same

LEMMA OneMoves ==
  ASSUME NEW lists, NEW then, NEW n, NEW from \in Place, NEW to \in Place, from # to, NEW e,
         Parted(lists, n), Moves(lists, then, from, to, e)
  PROVE  Parted(then, n)
<1>1. /\ e \in Ids(lists[from]) /\ e \notin Ids(lists[to])
      /\ \A p \in Place \ {from} : e \notin Ids(lists[p])
  BY DEF Parted, Moves, Loses
<1>2. /\ Ids(then[from]) = Ids(lists[from]) \ {e} /\ Once(then[from])
      /\ Ids(then[to]) = Ids(lists[to]) \cup {e} /\ Once(then[to])
      /\ \A p \in Place \ {from, to} : Ids(then[p]) = Ids(lists[p]) /\ Once(then[p])
  BY <1>1 DEF Parted, Moves, Loses, Gains, Same
<1>3. \A p \in Place : Once(then[p])
  BY <1>2
<1>4. \A p \in Place : \A k : k # e => (k \in Ids(then[p]) <=> k \in Ids(lists[p]))
  BY <1>2
<1>5. \A p \in Place : e \in Ids(then[p]) <=> p = to
  BY <1>1, <1>2
<1>6. \A p, q \in Place : p # q => Ids(then[p]) \cap Ids(then[q]) = {}
  BY <1>4, <1>5 DEF Parted
<1>7. ASSUME NEW k
      PROVE  k \in 1..n <=> \E p \in Place : k \in Ids(then[p])
  BY <1>1, <1>4, <1>5 DEF Parted
<1> QED BY <1>3, <1>6, <1>7 DEF Parted

LEMMA OneComes ==
  ASSUME NEW lists, NEW then, NEW n \in Nat, NEW to \in Place, Parted(lists, n),
         Gains(lists[to], then[to], n + 1),
         \A p \in Place \ {to} : Same(lists[p], then[p])
  PROVE  Parted(then, n + 1)
<1>1. \A p \in Place : n + 1 \notin Ids(lists[p])
  <2>1. n + 1 \notin 1..n
    OBVIOUS
  <2> QED BY <2>1 DEF Parted
<1>2. /\ Ids(then[to]) = Ids(lists[to]) \cup {n + 1} /\ Once(then[to])
      /\ \A p \in Place \ {to} : Ids(then[p]) = Ids(lists[p]) /\ Once(then[p])
  BY <1>1 DEF Parted, Gains, Same
<1>3. \A p \in Place : \A k : k # n + 1 => (k \in Ids(then[p]) <=> k \in Ids(lists[p]))
  BY <1>2
<1>4. \A p \in Place : n + 1 \in Ids(then[p]) <=> p = to
  BY <1>1, <1>2
<1>5. \A p, q \in Place : p # q => Ids(then[p]) \cap Ids(then[q]) = {}
  BY <1>3, <1>4 DEF Parted
<1>6. \A k : k \in 1 .. n + 1 <=> k = n + 1 \/ k \in 1..n
  OBVIOUS
<1>7. ASSUME NEW k
      PROVE  k \in 1 .. n + 1 <=> \E p \in Place : k \in Ids(then[p])
  BY <1>3, <1>4, <1>6 DEF Parted
<1> QED BY <1>2, <1>5, <1>7 DEF Parted

-----------------------------------------------------------------------------
(* The lists of the wire, the queue and the handlers, step by step *)

LEMMA FrameIds ==
  ASSUME NEW f \in Frame, f.kind = "event"
  PROVE  f \in EventFrame /\ f.id \in 1 .. MaxSent["event"] /\ f.id # 0
<1>1. f \in EventFrame
  BY DEF Frame
<1>2. MaxSent["event"] \in Nat
  BY BoundsAssumption DEF Occurrence
<1> QED BY <1>1, <1>2 DEF EventFrame

LEMMA WireRead ==
  ASSUME TypeOK, rx # << >>, rx' = Tail(rx)
  PROVE  /\ Head(rx) \in Frame
         /\ Head(rx).kind = "event" => Loses(OnWire, OnWire', Head(rx).id)
         /\ Head(rx).kind # "event" => Same(OnWire, OnWire')
<1> DEFINE n == Len(rx) - 1
<1>1. /\ n \in Nat /\ DOMAIN rx = 1 .. n + 1 /\ DOMAIN rx' = 1..n
      /\ \A i \in 1..n : rx'[i] = rx[i + 1]
      /\ Head(rx) = rx[1] /\ Head(rx) \in Frame
  BY HeadTailProperties DEF TypeOK
<1> HIDE DEF n
<1>2. /\ DOMAIN OnWire = 1 .. n + 1 /\ DOMAIN OnWire' = 1..n
      /\ \A i \in 1..n : OnWire'[i] = OnWire[i + 1]
      /\ OnWire[1] = IF Head(rx).kind = "event" THEN Head(rx).id ELSE 0
  BY <1>1 DEF OnWire
<1> QED BY <1>1, <1>2, ListShifted, FrameIds

LEMMA WireSent ==
  ASSUME TypeOK, NEW f \in Frame, rx' = Append(rx, f)
  PROVE  /\ f.kind = "event" => Gains(OnWire, OnWire', f.id)
         /\ f.kind # "event" => Same(OnWire, OnWire')
<1> DEFINE n == Len(rx)
<1>1. /\ n \in Nat /\ DOMAIN rx = 1..n /\ DOMAIN rx' = 1 .. n + 1
      /\ \A i \in 1..n : rx'[i] = rx[i]
      /\ rx'[n + 1] = f
  BY AppendProperties DEF TypeOK
<1> HIDE DEF n
<1>2. /\ DOMAIN OnWire = 1..n /\ DOMAIN OnWire' = 1 .. n + 1
      /\ \A i \in 1..n : OnWire'[i] = OnWire[i]
      /\ OnWire'[n + 1] = IF f.kind = "event" THEN f.id ELSE 0
  BY <1>1 DEF OnWire
<1> QED BY <1>1, <1>2, ListGrown, FrameIds

LEMMA WireSame ==
  ASSUME rx' = rx
  PROVE  Same(OnWire, OnWire')
BY DEF Same, OnWire

LEMMA HandledGrows ==
  ASSUME TypeOK, NEW r \in [id : Nat, via : {"queue", "wire"}], r.id # 0,
         delivered' = Append(delivered, r)
  PROVE  Gains(Handled, Handled', r.id) /\ Range(Handled') = Range(Handled) \cup {r.id}
<1> DEFINE n == Len(delivered)
<1>1. /\ n \in Nat /\ DOMAIN delivered = 1..n /\ DOMAIN delivered' = 1 .. n + 1
      /\ \A i \in 1..n : delivered'[i] = delivered[i]
      /\ delivered'[n + 1] = r
  BY AppendProperties DEF TypeOK
<1> HIDE DEF n
<1>2. /\ DOMAIN Handled = 1..n /\ DOMAIN Handled' = 1 .. n + 1
      /\ \A i \in 1..n : Handled'[i] = Handled[i]
      /\ Handled'[n + 1] = r.id
  BY <1>1 DEF Handled
<1>3. Range(Handled') = Range(Handled) \cup {r.id}
  <2>1. \A i \in 1 .. n + 1 : i = n + 1 \/ i \in 1..n
    BY <1>1
  <2>2. n + 1 \in 1 .. n + 1 /\ \A i \in 1..n : i \in 1 .. n + 1
    BY <1>1
  <2> QED BY <1>2, <2>1, <2>2 DEF Range
<1> QED BY <1>1, <1>2, <1>3, ListGrown

LEMMA HandledSame ==
  ASSUME delivered' = delivered
  PROVE  Handled' = Handled /\ Same(Handled, Handled')
BY DEF Handled, Same

LEMMA DroppedGrows ==
  ASSUME TypeOK, NEW e \in Nat, e # 0, dropped' = Append(dropped, e)
  PROVE  /\ Gains(dropped, dropped', e) /\ Range(dropped') = Range(dropped) \cup {e}
         /\ dropped' # << >>
<1> DEFINE n == Len(dropped)
<1>1. /\ n \in Nat /\ DOMAIN dropped = 1..n /\ DOMAIN dropped' = 1 .. n + 1
      /\ \A i \in 1..n : dropped'[i] = dropped[i]
      /\ dropped'[n + 1] = e
  BY AppendProperties DEF TypeOK
<1> HIDE DEF n
<1>3. Range(dropped') = Range(dropped) \cup {e}
  <2>1. \A i \in 1 .. n + 1 : i = n + 1 \/ i \in 1..n
    BY <1>1
  <2>2. n + 1 \in 1 .. n + 1 /\ \A i \in 1..n : i \in 1 .. n + 1
    BY <1>1
  <2> QED BY <1>1, <2>1, <2>2 DEF Range
<1>4. dropped' # << >>
  BY <1>1
<1> QED BY <1>1, <1>3, <1>4, ListGrown

LEMMA TailOfList ==
  ASSUME NEW n \in Nat, n > 0, NEW c, c = [i \in 1..n |-> c[i]]
  PROVE  Tail(c) = [i \in 1 .. n - 1 |-> c[i + 1]]
<1> DEFINE S == {c[i] : i \in 1..n}
<1>1. c \in Seq(S) /\ c # << >> /\ Len(c) = n
  <2>1. c \in [1..n -> S]
    OBVIOUS
  <2>2. c \in Seq(S)
    BY <2>1, SeqDef
  <2>3. 1 \in DOMAIN c
    OBVIOUS
  <2> QED BY <2>1, <2>2, <2>3
<1> HIDE DEF S
<1>2. /\ Tail(c) \in Seq(S) /\ Len(Tail(c)) = n - 1
      /\ \A i \in 1 .. n - 1 : Tail(c)[i] = c[i + 1]
  BY <1>1, HeadTailProperties
<1>3. Tail(c) \in [1 .. n - 1 -> S]
  <2>1. Tail(c) \in [1..Len(Tail(c)) -> S]
    BY <1>2, LenProperties
  <2> QED BY <1>2, <2>1
<1> QED BY <1>2, <1>3

LEMMA AppendedList ==
  ASSUME NEW n \in Nat, NEW s, NEW t, NEW e, s = [i \in 1..n |-> s[i]],
         t = [i \in 1 .. n + 1 |-> t[i]], \A i \in 1..n : t[i] = s[i], t[n + 1] = e
  PROVE  Len(s) = n /\ t = Append(s, e)
<1> DEFINE S == {s[i] : i \in 1..n} \cup {e}
           u == Append(s, e)
<1>1. s \in Seq(S) /\ Len(s) = n
  <2>1. s \in [1..n -> S]
    OBVIOUS
  <2>2. s \in Seq(S)
    BY <2>1, SeqDef
  <2> QED BY <2>2
<1>2. e \in S
  OBVIOUS
<1> HIDE DEF S
<1>3. /\ u \in Seq(S) /\ Len(u) = n + 1 /\ u[n + 1] = e
      /\ \A i \in 1..n : u[i] = s[i]
  BY <1>1, <1>2, AppendProperties
<1>4. u \in [1..Len(u) -> S]
  BY <1>3, LenProperties
<1>5. u = [i \in 1 .. n + 1 |-> u[i]]
  BY <1>3, <1>4
<1> HIDE DEF u
<1>6. \A i \in 1 .. n + 1 : u[i] = t[i]
  <2>1. \A i \in 1 .. n + 1 : i = n + 1 \/ i \in 1..n
    OBVIOUS
  <2> QED BY <1>3, <2>1
<1>7. u = t
  BY <1>5, <1>6
<1> QED BY <1>1, <1>7 DEF u

\* The first place of the queue that still waits.
Lag == IF FrontStarted THEN 1 ELSE 0

LEMMA WaitingIs ==
  ASSUME Queue!TypeOK, FrontStarted => available > 0
  PROVE  /\ available - Lag \in Nat
         /\ DOMAIN Waiting = 1 .. available - Lag
         /\ \A i \in 1 .. available - Lag : Waiting[i] = Queue!Message(i + Lag).id
<1> DEFINE c == Queue!Contents
<1>1. available \in Nat
  BY QueueSize DEF Queue!TypeOK
<1>2. /\ c = [i \in 1..available |-> Queue!Message(i)] /\ Len(c) = available
      /\ DOMAIN c = 1..available
  BY <1>1 DEF Queue!Contents
<1>3. CASE FrontStarted
  <2>1. KeptEvents = [i \in 1 .. available - 1 |-> c[i + 1]]
    <3>1. KeptEvents = Tail(c)
      BY <1>3 DEF KeptEvents
    <3>2. available > 0 /\ c = [i \in 1..available |-> c[i]]
      BY <1>2, <1>3
    <3> HIDE DEF c
    <3> QED BY <1>1, <3>1, <3>2, TailOfList
  <2>2. \A i \in 1 .. available - 1 : c[i + 1] = Queue!Message(i + 1)
    <3>1. \A i \in 1 .. available - 1 : i + 1 \in 1..available
      BY <1>1
    <3> QED BY <1>2, <3>1
  <2> QED BY <1>1, <1>3, <2>1, <2>2 DEF Waiting, Lag
<1>4. CASE ~FrontStarted
  <2>1. KeptEvents = c /\ \A i \in 1..available : i + 0 = i
    BY <1>1, <1>4 DEF KeptEvents
  <2> QED BY <1>1, <1>2, <1>4, <2>1 DEF Waiting, Lag
<1> QED BY <1>3, <1>4

\* The same of the next state.
LEMMA WaitingIsThen ==
  ASSUME Queue!TypeOK', FrontStarted' => available' > 0
  PROVE  /\ available' - Lag' \in Nat
         /\ DOMAIN Waiting' = 1 .. available' - Lag'
         /\ \A i \in 1 .. available' - Lag' : Waiting'[i] = MessageThen(i + Lag').id
<1> DEFINE c == Queue!Contents'
           n == available'
<1>1. n \in Nat
  BY QueueSize DEF Queue!TypeOK
<1>2. /\ c = [i \in 1..n |-> MessageThen(i)] /\ Len(c) = n
      /\ DOMAIN c = 1..n
  BY <1>1 DEF Queue!Contents, Queue!Message, MessageThen
<1>3. CASE FrontStarted'
  <2>1. KeptEvents' = [i \in 1 .. n - 1 |-> c[i + 1]]
    <3>1. KeptEvents' = Tail(c)
      BY <1>3 DEF KeptEvents
    <3>2. n > 0 /\ c = [i \in 1..n |-> c[i]]
      BY <1>2, <1>3
    <3> HIDE DEF c, n
    <3> QED BY <1>1, <3>1, <3>2, TailOfList
  <2>2. \A i \in 1 .. n - 1 : c[i + 1] = MessageThen(i + 1)
    <3> HIDE DEF c, n
    <3>1. \A i \in 1 .. n - 1 : i + 1 \in 1..n
      BY <1>1
    <3> QED BY <1>2, <3>1
  <2>3. Lag' = 1 /\ n > 0
    BY <1>3 DEF Lag
  <2>4. Waiting' = [i \in 1 .. n - 1 |-> MessageThen(i + 1).id]
    BY <2>1, <2>2 DEF Waiting
  <2>5. /\ n - Lag' \in Nat
        /\ DOMAIN Waiting' = 1 .. n - Lag'
        /\ \A i \in 1 .. n - Lag' : Waiting'[i] = MessageThen(i + Lag').id
    <3> HIDE DEF n
    <3> QED BY <1>1, <2>3, <2>4
  <2> QED BY <2>5
<1>4. CASE ~FrontStarted'
  <2>1. KeptEvents' = c /\ Lag' = 0
    BY <1>4 DEF KeptEvents, Lag
  <2>2. Waiting' = [i \in 1..n |-> MessageThen(i).id]
    BY <1>2, <2>1 DEF Waiting
  <2>3. /\ n - Lag' \in Nat
        /\ DOMAIN Waiting' = 1 .. n - Lag'
        /\ \A i \in 1 .. n - Lag' : Waiting'[i] = MessageThen(i + Lag').id
    <3> HIDE DEF n
    <3>1. n - 0 = n /\ \A i \in 1..n : i + 0 = i
      BY <1>1
    <3> QED BY <1>1, <2>1, <2>2, <3>1
  <2> QED BY <2>3
<1> QED BY <1>3, <1>4

\* What the queue holds, when the step leaves the ring alone.
LEMMA QueueSame ==
  ASSUME UNCHANGED ring, FrontStarted' <=> FrontStarted
  PROVE  Waiting' = Waiting /\ Same(Waiting, Waiting')
<1>1. Queue!Contents' = Queue!Contents
  BY DEF ring, Queue!Contents, Queue!Message
<1>2. KeptEvents' = KeptEvents
  BY <1>1 DEF KeptEvents
<1> QED BY <1>2 DEF Waiting, Same

LEMMA RingSame ==
  ASSUME RingIntact, UNCHANGED ring
  PROVE  RingIntact'
BY DEF RingIntact, ring, Queue!TypeOK, Queue!CounterAgrees, Queue!StoredIsWritten,
       Queue!Message

\* An event is kept in a queue that has room.
LEMMA KeptGrows ==
  ASSUME RingIntact, NEW f \in EventFrame, f.id # 0, Keep(f), available < Size,
         FrontStarted' <=> FrontStarted, FrontStarted => available > 0
  PROVE  /\ RingIntact' /\ head' = head /\ dropped' = dropped
         /\ Gains(Waiting, Waiting', f.id)
         /\ Len(Waiting) < Size /\ Waiting' = Append(Waiting, f.id)
<1>0. Queue!TypeOK /\ Queue!CounterAgrees /\ Size \in Nat /\ available \in Nat
  BY QueueSize DEF RingIntact, Queue!TypeOK
<1>1. /\ RingIntact' /\ available' = available + 1 /\ head' = head
      /\ \A i \in 1 .. available + 1 :
           MessageThen(i) = IF i = available + 1 THEN f ELSE Queue!Message(i)
  BY <1>0, PushBackEffect DEF Keep
<1>2. dropped' = dropped
  BY <1>0, TailIs DEF Keep
<1> DEFINE n == available - Lag
<1>3. /\ n \in Nat /\ DOMAIN Waiting = 1..n
      /\ \A i \in 1..n : Waiting[i] = Queue!Message(i + Lag).id
  BY <1>0, WaitingIs
<1>4. Lag' = Lag /\ Lag \in {0, 1} /\ available' - Lag' = n + 1
  BY <1>0, <1>1 DEF Lag
<1>5. /\ DOMAIN Waiting' = 1 .. n + 1
      /\ \A i \in 1 .. n + 1 : Waiting'[i] = MessageThen(i + Lag).id
  <2>1. Queue!TypeOK' /\ (FrontStarted' => available' > 0)
    BY <1>0, <1>1 DEF RingIntact
  <2> QED BY <1>4, <2>1, WaitingIsThen
<1>6. n + Lag = available
  BY <1>0, <1>4
<1> HIDE DEF n
<1>7. /\ \A i \in 1..n : i + Lag \in 1 .. available + 1 /\ i + Lag # available + 1
      /\ n + 1 + Lag = available + 1 /\ available + 1 \in 1 .. available + 1
  BY <1>0, <1>3, <1>4, <1>6
<1>8. /\ \A i \in 1..n : Waiting'[i] = Waiting[i]
      /\ Waiting'[n + 1] = f.id
  BY <1>1, <1>3, <1>5, <1>7
<1>9. Gains(Waiting, Waiting', f.id)
  BY <1>3, <1>5, <1>8, ListGrown
<1>10. Waiting = [i \in 1..n |-> Waiting[i]] /\ Waiting' = [i \in 1 .. n + 1 |-> Waiting'[i]]
  BY <1>3, <1>5 DEF Waiting
<1>11. Len(Waiting) = n /\ Waiting' = Append(Waiting, f.id)
  BY <1>3, <1>8, <1>10, AppendedList
<1>12. n < Size
  BY <1>0, <1>3, <1>4, <1>6
<1> QED BY <1>1, <1>2, <1>9, <1>11, <1>12

\* An event is kept in a full queue, whose oldest event is overwritten.
LEMMA KeptOverwrites ==
  ASSUME RingIntact, NEW f \in EventFrame, f.id # 0, Keep(f), available = Size,
         ~FrontStarted, ~FrontStarted'
  PROVE  /\ RingIntact'
         /\ Waiting # << >> /\ Len(Waiting) = Size
         /\ Head(Waiting) \in 1 .. MaxSent["event"] /\ Head(Waiting) # 0
         /\ dropped' = Append(dropped, Head(Waiting))
         /\ Waiting' = Append(Tail(Waiting), f.id)
         /\ Loses(Waiting, Tail(Waiting), Head(Waiting))
         /\ Gains(Tail(Waiting), Waiting', f.id)
<1>0. Queue!TypeOK /\ Queue!CounterAgrees /\ Size \in Nat \ {0} /\ available = Size
  BY QueueSize DEF RingIntact, Queue!TypeOK
<1>1. /\ RingIntact' /\ available' = Size
      /\ \A i \in 1..Size : MessageThen(i) = IF i = Size THEN f ELSE Queue!Message(i + 1)
  BY <1>0, PushBackEffect DEF Keep
<1> DEFINE m == Queue!Message(1).id
           n == Size - 1
           u == [i \in 1..n |-> Waiting[i + 1]]
<1>2. /\ dropped' = Append(dropped, m)
      /\ m \in 1 .. MaxSent["event"] /\ m # 0
  <2>1. Queue!FrontMessage = Queue!Message(1) /\ Queue!Message(1) \in EventFrame
    BY <1>0, FrontIsFirst
  <2>2. m \in 1 .. MaxSent["event"] /\ m # 0
    <3>1. MaxSent["event"] \in Nat
      BY BoundsAssumption DEF Occurrence
    <3> QED BY <2>1, <3>1 DEF EventFrame
  <2> QED BY <1>0, <2>1, <2>2, TailIs DEF Keep
<1>3. Lag = 0 /\ Lag' = 0
  BY DEF Lag
<1>4. /\ DOMAIN Waiting = 1..Size
      /\ \A i \in 1..Size : Waiting[i] = Queue!Message(i).id
  <2>1. Size - 0 = Size /\ \A i \in 1..Size : i + 0 = i
    BY <1>0
  <2> QED BY <1>0, <1>3, <2>1, WaitingIs
<1>5. /\ DOMAIN Waiting' = 1..Size
      /\ \A i \in 1..Size : Waiting'[i] = MessageThen(i).id
  <2>1. Size - 0 = Size /\ \A i \in 1..Size : i + 0 = i
    BY <1>0
  <2>2. Queue!TypeOK'
    BY <1>1 DEF RingIntact
  <2> QED BY <1>1, <1>3, <2>1, <2>2, WaitingIsThen
<1>6. n \in Nat /\ Size = n + 1
  BY <1>0
<1> HIDE DEF n, m
<1>7. Waiting[1] = m /\ 1 \in 1..Size
  BY <1>0, <1>4 DEF m
<1>8. Loses(Waiting, u, m)
  <2>1. DOMAIN u = 1..n /\ \A i \in 1..n : u[i] = Waiting[i + 1]
    OBVIOUS
  <2> HIDE DEF u
  <2> QED BY <1>2, <1>4, <1>6, <1>7, <2>1, ListShifted
<1>9. Gains(u, Waiting', f.id) /\ Waiting' = Append(u, f.id)
  <2>1. \A i \in 1..n : i \in 1..Size /\ i # Size /\ i + 1 \in 1..Size
    BY <1>6
  <2>2. \A i \in 1..n : Waiting'[i] = u[i]
    BY <1>1, <1>4, <1>5, <2>1
  <2>3. Waiting'[n + 1] = f.id /\ DOMAIN u = 1..n
    BY <1>0, <1>1, <1>5, <1>6
  <2>4. u = [i \in 1..n |-> u[i]] /\ Waiting' = [i \in 1 .. n + 1 |-> Waiting'[i]]
    BY <1>5, <1>6 DEF Waiting
  <2> HIDE DEF u
  <2>5. Waiting' = Append(u, f.id)
    BY <1>6, <2>2, <2>3, <2>4, AppendedList
  <2> QED BY <1>5, <1>6, <2>2, <2>3, <2>5, ListGrown
<1>10. Waiting = [i \in 1..Size |-> Waiting[i]]
  BY <1>4 DEF Waiting
<1>11. u = Tail(Waiting)
  <2>1. Tail(Waiting) = [i \in 1 .. Size - 1 |-> Waiting[i + 1]]
    BY <1>0, <1>10, TailOfList
  <2> QED BY <1>6, <2>1
<1>12. Waiting # << >> /\ Head(Waiting) = m /\ Len(Waiting) = Size
  <2>1. DOMAIN << >> = {} /\ Head(Waiting) = Waiting[1]
    OBVIOUS
  <2>2. Waiting # << >>
    BY <1>4, <1>7, <2>1
  <2>3. Len(Waiting) = Size
    BY <1>0, <1>4
  <2> QED BY <1>7, <2>1, <2>2, <2>3
<1> HIDE DEF u
<1> QED BY <1>1, <1>2, <1>8, <1>9, <1>11, <1>12

\* The oldest event of the queue is handed to its handler.
LEMMA FrontTaken ==
  ASSUME RingIntact, UNCHANGED ring, available > 0, ~FrontStarted, FrontStarted'
  PROVE  /\ Waiting' = Tail(Waiting) /\ Waiting # << >> /\ Head(Waiting) = Queue!Message(1).id
         /\ Loses(Waiting, Waiting', Queue!Message(1).id)
<1> DEFINE n == available - 1
<1>0. Queue!TypeOK /\ n \in Nat /\ available = n + 1
  BY QueueSize DEF RingIntact, Queue!TypeOK
<1>1. Lag = 0 /\ Lag' = 1
  BY DEF Lag
<1>2. available' = available /\ Queue!TypeOK' /\ \A i \in 1..available : MessageThen(i) = Queue!Message(i)
  BY <1>0, QueueUnchanged DEF ring, MessageThen, Queue!Message
<1> HIDE DEF n
<1>3. /\ DOMAIN Waiting = 1 .. n + 1
      /\ \A i \in 1 .. n + 1 : Waiting[i] = Queue!Message(i).id
  <2>1. (n + 1) - 0 = n + 1 /\ \A i \in 1 .. n + 1 : i + 0 = i
    BY <1>0
  <2> QED BY <1>0, <1>1, <2>1, WaitingIs
<1>4. /\ DOMAIN Waiting' = 1..n
      /\ \A i \in 1..n : Waiting'[i] = MessageThen(i + 1).id
  <2>1. (n + 1) - 1 = n
    BY <1>0
  <2> QED BY <1>0, <1>1, <1>2, <2>1, WaitingIsThen
<1>5. /\ 1 \in 1 .. n + 1 /\ Waiting[1] = Queue!Message(1).id
      /\ \A i \in 1..n : Waiting'[i] = Waiting[i + 1]
  <2>1. 1 \in 1 .. n + 1 /\ \A i \in 1..n : i + 1 \in 1 .. n + 1
    BY <1>0
  <2> QED BY <1>0, <1>2, <1>3, <1>4, <2>1
<1>6. Queue!Message(1).id # 0
  <2>1. MaxSent["event"] \in Nat
    BY BoundsAssumption DEF Occurrence
  <2> QED BY <2>1, FrontIsFirst DEF EventFrame
<1>7. Waiting = [i \in 1 .. n + 1 |-> Waiting[i]] /\ Waiting' = [i \in 1..n |-> Waiting'[i]]
  BY <1>3, <1>4 DEF Waiting
<1>8. Waiting' = Tail(Waiting)
  <2>1. Tail(Waiting) = [i \in 1 .. (n + 1) - 1 |-> Waiting[i + 1]]
    BY <1>0, <1>7, TailOfList
  <2>2. (n + 1) - 1 = n
    BY <1>0
  <2> QED BY <1>5, <1>7, <2>1, <2>2
<1>9. Head(Waiting) = Waiting[1] /\ Waiting # << >>
  <2>1. Waiting # << >>
    <3>1. DOMAIN << >> = {}
      OBVIOUS
    <3>2. 1 \in DOMAIN Waiting
      BY <1>3, <1>5
    <3> QED BY <3>1, <3>2
  <2>2. Head(Waiting) = Waiting[1]
    OBVIOUS
  <2> QED BY <2>1, <2>2
<1> QED BY <1>0, <1>3, <1>4, <1>5, <1>6, <1>8, <1>9, ListShifted

\* It leaves the queue after its handler.
LEMMA FrontPopped ==
  ASSUME RingIntact, Queue!PopFront, available > 0, FrontStarted, ~FrontStarted'
  PROVE  RingIntact' /\ Waiting' = Waiting /\ Same(Waiting, Waiting')
<1> DEFINE n == available - 1
<1>0. Queue!TypeOK /\ n \in Nat /\ available = n + 1
  BY QueueSize DEF RingIntact, Queue!TypeOK
<1>1. Lag = 1 /\ Lag' = 0
  BY DEF Lag
<1>2. RingIntact' /\ available' = n /\ \A i \in 1..n : MessageThen(i) = Queue!Message(i + 1)
  BY <1>0, PopFrontEffect
<1> HIDE DEF n
<1>3. /\ DOMAIN Waiting = 1..n
      /\ \A i \in 1..n : Waiting[i] = Queue!Message(i + 1).id
  <2>1. (n + 1) - 1 = n
    BY <1>0
  <2> QED BY <1>0, <1>1, <2>1, WaitingIs
<1>4. /\ DOMAIN Waiting' = 1..n
      /\ \A i \in 1..n : Waiting'[i] = MessageThen(i).id
  <2>1. n - 0 = n /\ \A i \in 1..n : i + 0 = i
    BY <1>0
  <2>2. Queue!TypeOK'
    BY <1>2 DEF RingIntact
  <2> QED BY <1>1, <1>2, <2>1, <2>2, WaitingIsThen
<1>5. Waiting = [i \in 1..n |-> Waiting[i]] /\ Waiting' = [i \in 1..n |-> Waiting'[i]]
  BY <1>3, <1>4 DEF Waiting
<1> QED BY <1>2, <1>3, <1>4, <1>5 DEF Same

-----------------------------------------------------------------------------
(* The stack: the events held up in it, and what lies above a pop *)

HeldIn(s) == [i \in DOMAIN s |-> IF HeldEvent(s[i]) THEN s[i].data.id ELSE 0]

\* The front of the queue has reached its handler.
StartedIn(s) ==
  \E i \in DOMAIN s : s[i].at = "pop" /\ (i = Len(s) \/ s[i + 1].at # "detect")

\* The detect handler above a pop has the event in its slot.
SlotHeld(a) == a.at = "detect" /\ "slot" \in DOMAIN a.data

\* What is right above a pop is the handler of the front of the queue (h is its slot)
\* or the detect handler before it, and while _pendingData (p) is set some call waits
\* above it.
Formed(s, h, p) ==
  /\ \A i \in DOMAIN s : s[i].at = "pop" /\ i < Len(s) =>
       s[i + 1].at = "handler" \/ SlotHeld(s[i + 1])
  /\ \A i \in DOMAIN s : SlotHeld(s[i]) =>
       i > 1 /\ s[i - 1].at = "pop" /\ s[i].data.slot = h
  /\ \A i \in DOMAIN s : s[i].at = "pop" /\ p =>
       \E j \in DOMAIN s : j > i /\ Waits(s[j])

LEMMA StackIs ==
  /\ Detecting = HeldIn(stack) /\ Detecting' = HeldIn(stack')
  /\ FrontStarted <=> StartedIn(stack)
  /\ FrontStarted' <=> StartedIn(stack')
BY DEF Detecting, HeldIn, FrontStarted, StartedIn

NoPop(s) == \A i \in DOMAIN s : s[i].at # "pop"
NoPopOnTop(s) == s # << >> => s[Len(s)].at # "pop"

\* Two stacks that differ in where waiting calls are in their loops.
Alike(s, t) ==
  /\ Len(s) = Len(t)
  /\ \A i \in 1..Len(s) : s[i] = t[i] \/ (Waits(s[i]) /\ Waits(t[i]))

LEMMA AlikeForms ==
  ASSUME NEW s \in Seq(Activation), NEW t \in Seq(Activation), Alike(s, t)
  PROVE  /\ Same(HeldIn(s), HeldIn(t))
         /\ StartedIn(t) <=> StartedIn(s)
         /\ NoPop(t) <=> NoPop(s)
         /\ \A h, p : Formed(s, h, p) => Formed(t, h, p)
<1>1. /\ Len(s) \in Nat /\ DOMAIN s = 1..Len(s) /\ DOMAIN t = DOMAIN s /\ Len(t) = Len(s)
  BY DEF Alike
<1>2. \A i \in DOMAIN s :
        /\ HeldEvent(t[i]) <=> HeldEvent(s[i])
        /\ HeldEvent(s[i]) => t[i] = s[i]
        /\ SlotHeld(t[i]) <=> SlotHeld(s[i])
        /\ SlotHeld(s[i]) => t[i] = s[i]
        /\ Waits(t[i]) <=> Waits(s[i])
        /\ t[i].at = "pop" <=> s[i].at = "pop"
        /\ t[i].at = "detect" <=> s[i].at = "detect"
        /\ t[i].at = "handler" <=> s[i].at = "handler"
  <2> SUFFICES ASSUME NEW i \in DOMAIN s, s[i] # t[i]
               PROVE  /\ s[i].at \notin {"detect", "pop", "handler"} /\ Waits(s[i])
                      /\ t[i].at \notin {"detect", "pop", "handler"} /\ Waits(t[i])
    BY DEF HeldEvent, SlotHeld
  <2> QED BY <1>1 DEF Alike, Waits
<1>3. \A i \in DOMAIN s : i # Len(s) => i + 1 \in DOMAIN s
  BY <1>1
<1>4. \A i \in DOMAIN s : i > 1 => i - 1 \in DOMAIN s
  BY <1>1
<1>5. Same(HeldIn(s), HeldIn(t))
  BY <1>1, <1>2, ListUnchanged DEF HeldIn
<1>6. StartedIn(t) <=> StartedIn(s)
  BY <1>1, <1>2, <1>3 DEF StartedIn
<1>7. NoPop(t) <=> NoPop(s)
  BY <1>1, <1>2 DEF NoPop
<1>8. ASSUME NEW h, NEW p, Formed(s, h, p)
      PROVE  Formed(t, h, p)
  <2>1. \A i \in DOMAIN t : t[i].at = "pop" /\ i < Len(t) =>
          t[i + 1].at = "handler" \/ SlotHeld(t[i + 1])
    BY <1>1, <1>2, <1>3, <1>8 DEF Formed
  <2>2. \A i \in DOMAIN t : SlotHeld(t[i]) =>
          i > 1 /\ t[i - 1].at = "pop" /\ t[i].data.slot = h
    BY <1>1, <1>2, <1>4, <1>8 DEF Formed
  <2>3. \A i \in DOMAIN t : t[i].at = "pop" /\ p => \E j \in DOMAIN t : j > i /\ Waits(t[j])
    BY <1>1, <1>2, <1>8 DEF Formed
  <2> QED BY <2>1, <2>2, <2>3 DEF Formed
<1> QED BY <1>5, <1>6, <1>7, <1>8

\* An activation that is no pop comes on top of one that is no pop.
LEMMA PushForms ==
  ASSUME NEW s \in Seq(Activation), NEW a, NEW t, t = Append(s, a),
         NoPopOnTop(s), a.at # "pop", ~SlotHeld(a)
  PROVE  /\ HeldEvent(a) /\ a.data.id # 0 => Gains(HeldIn(s), HeldIn(t), a.data.id)
         /\ ~HeldEvent(a) => Same(HeldIn(s), HeldIn(t))
         /\ StartedIn(t) <=> StartedIn(s)
         /\ NoPopOnTop(t)
         /\ NoPop(s) => NoPop(t)
         /\ \A h, p : Formed(s, h, p) => Formed(t, h, p)
<1> DEFINE n == Len(s)
<1>1. /\ n \in Nat /\ DOMAIN s = 1..n
      /\ Len(t) = n + 1 /\ DOMAIN t = 1 .. n + 1 /\ t[n + 1] = a
      /\ \A i \in 1..n : t[i] = s[i]
  BY AppendProperties
<1>2. \A i \in DOMAIN s : s[i].at = "pop" => i # n
  <2>1. n \in DOMAIN s => s # << >>
    BY <1>1
  <2> QED BY <2>1 DEF NoPopOnTop
<1> HIDE DEF n
<1>3. /\ \A i \in DOMAIN t : i = n + 1 \/ i \in DOMAIN s
      /\ \A i \in DOMAIN s : i \in DOMAIN t /\ i # n + 1 /\ i < n + 1
      /\ n + 1 \in DOMAIN t
  BY <1>1
<1>4. \A i \in DOMAIN s : i # n => i + 1 \in DOMAIN s /\ i < n
  BY <1>1
<1>5. \A i \in DOMAIN s : i > 1 => i - 1 \in DOMAIN s
  BY <1>1
<1>6. /\ HeldEvent(a) /\ a.data.id # 0 => Gains(HeldIn(s), HeldIn(t), a.data.id)
      /\ ~HeldEvent(a) => Same(HeldIn(s), HeldIn(t))
  <2>1. /\ DOMAIN HeldIn(s) = 1..n /\ DOMAIN HeldIn(t) = 1 .. n + 1
        /\ \A i \in 1..n : HeldIn(t)[i] = HeldIn(s)[i]
        /\ HeldIn(t)[n + 1] = IF HeldEvent(a) THEN a.data.id ELSE 0
    BY <1>1, <1>3 DEF HeldIn
  <2> QED BY <1>1, <2>1, ListGrown
<1>7. StartedIn(t) <=> StartedIn(s)
  BY <1>1, <1>2, <1>3, <1>4 DEF StartedIn, n
<1>8. NoPopOnTop(t) /\ (NoPop(s) => NoPop(t))
  BY <1>1, <1>3 DEF NoPopOnTop, NoPop
<1>9. ASSUME NEW h, NEW p, Formed(s, h, p)
      PROVE  Formed(t, h, p)
  <2>1. \A i \in DOMAIN t : t[i].at = "pop" /\ i < Len(t) =>
          t[i + 1].at = "handler" \/ SlotHeld(t[i + 1])
    BY <1>1, <1>2, <1>3, <1>4, <1>9 DEF Formed, n
  <2>2. \A i \in DOMAIN t : SlotHeld(t[i]) =>
          i > 1 /\ t[i - 1].at = "pop" /\ t[i].data.slot = h
    BY <1>1, <1>3, <1>5, <1>9 DEF Formed
  <2>3. \A i \in DOMAIN t : t[i].at = "pop" /\ p => \E j \in DOMAIN t : j > i /\ Waits(t[j])
    BY <1>1, <1>3, <1>9 DEF Formed
  <2> QED BY <2>1, <2>2, <2>3 DEF Formed
<1> QED BY <1>6, <1>7, <1>8, <1>9

\* The front of the queue is taken: a pop, and above it the handler of the event or
\* the detect handler.
LEMMA TakeForms ==
  ASSUME NEW s \in Seq(Activation), NEW a, NEW t, NEW h,
         t = Append(Append(s, [at |-> "pop"]), a),
         a.at = "handler" \/ (SlotHeld(a) /\ a.data.slot = h),
         NoPop(s), Formed(s, h, FALSE)
  PROVE  /\ Same(HeldIn(s), HeldIn(t))
         /\ ~StartedIn(s)
         /\ StartedIn(t) <=> a.at = "handler"
         /\ Formed(t, h, FALSE)
<1> DEFINE n == Len(s)
           pop == [at |-> "pop"]
           over == Append(s, pop)
<1>1. /\ n \in Nat /\ DOMAIN s = 1..n
      /\ Len(t) = n + 2 /\ DOMAIN t = 1 .. n + 2 /\ t[n + 2] = a /\ t[n + 1] = pop
      /\ \A i \in 1..n : t[i] = s[i]
  <2>1. /\ n \in Nat /\ DOMAIN s = 1..n
        /\ over \in Seq(Activation) /\ Len(over) = n + 1 /\ over[n + 1] = pop
        /\ \A i \in 1..n : over[i] = s[i]
    <3>1. pop \in Activation
      BY DEF Activation
    <3> HIDE DEF pop
    <3> QED BY <3>1, AppendProperties
  <2> HIDE DEF over
  <2>2. /\ Len(t) = (n + 1) + 1 /\ t[(n + 1) + 1] = a /\ \A i \in 1 .. n + 1 : t[i] = over[i]
        /\ DOMAIN t = 1 .. (n + 1) + 1
    BY <2>1, AppendProperties DEF over
  <2> HIDE DEF n, pop
  <2> QED BY <2>1, <2>2
<1>2. pop.at = "pop" /\ ~HeldEvent(pop) /\ ~SlotHeld(pop)
  BY DEF HeldEvent, SlotHeld
<1> HIDE DEF n, pop
<1>3. /\ \A i \in DOMAIN t : i = n + 2 \/ i = n + 1 \/ i \in DOMAIN s
      /\ \A i \in DOMAIN s : i \in DOMAIN t /\ i # n + 1 /\ i # n + 2
      /\ n + 1 \in DOMAIN t /\ n + 2 \in DOMAIN t /\ n + 1 # n + 2 /\ (n + 1) + 1 = n + 2
      /\ n + 2 > 1 /\ n + 2 - 1 = n + 1
  BY <1>1
<1>4. \A i \in DOMAIN s : i > 1 => i - 1 \in DOMAIN s
  BY <1>1
<1>5. ~HeldEvent(a) /\ a.at # "pop"
  BY DEF HeldEvent, SlotHeld
<1>6. Same(HeldIn(s), HeldIn(t))
  <2> DEFINE u == [i \in 1 .. n + 1 |-> HeldIn(t)[i]]
  <2>1. /\ DOMAIN HeldIn(s) = 1..n /\ DOMAIN HeldIn(t) = 1 .. n + 2
        /\ \A i \in 1..n : HeldIn(t)[i] = HeldIn(s)[i]
        /\ HeldIn(t)[n + 1] = 0 /\ HeldIn(t)[n + 2] = 0
    BY <1>1, <1>2, <1>3, <1>5 DEF HeldIn
  <2>2. DOMAIN u = 1 .. n + 1 /\ \A i \in 1 .. n + 1 : u[i] = HeldIn(t)[i]
    OBVIOUS
  <2> HIDE DEF u
  <2>3. Same(HeldIn(s), u)
    <3>1. /\ n + 1 \in 1 .. n + 1 /\ \A i \in 1..n : i \in 1 .. n + 1
      BY <1>1
    <3> QED BY <1>1, <2>1, <2>2, <3>1, ListGrown
  <2>4. Same(u, HeldIn(t))
    <3>1. n + 1 \in Nat /\ (n + 1) + 1 = n + 2
      BY <1>1
    <3> QED BY <2>1, <2>2, <3>1, ListGrown
  <2> QED BY <2>3, <2>4 DEF Same
<1>7. ~StartedIn(s)
  BY DEF NoPop, StartedIn
<1>8. \A i \in DOMAIN t : t[i].at = "pop" <=> i = n + 1
  BY <1>1, <1>2, <1>3, <1>5 DEF NoPop
<1>9. StartedIn(t) <=> a.at = "handler"
  BY <1>1, <1>3, <1>8 DEF StartedIn, SlotHeld
<1>10. Formed(t, h, FALSE)
  <2>1. \A i \in DOMAIN t : t[i].at = "pop" /\ i < Len(t) =>
          t[i + 1].at = "handler" \/ SlotHeld(t[i + 1])
    BY <1>1, <1>3, <1>8
  <2>2. \A i \in DOMAIN t : SlotHeld(t[i]) =>
          i > 1 /\ t[i - 1].at = "pop" /\ t[i].data.slot = h
    <3> SUFFICES ASSUME NEW i \in DOMAIN t, SlotHeld(t[i])
                 PROVE  i > 1 /\ t[i - 1].at = "pop" /\ t[i].data.slot = h
      OBVIOUS
    <3>1. CASE i = n + 2
      BY <1>1, <1>2, <1>3, <3>1 DEF SlotHeld
    <3>2. CASE i = n + 1
      BY <1>1, <1>2, <3>2
    <3>3. CASE i \in DOMAIN s
      BY <1>1, <1>4, <3>3 DEF Formed, NoPop
    <3> QED BY <1>3, <3>1, <3>2, <3>3
  <2> QED BY <2>1, <2>2 DEF Formed
<1> QED BY <1>6, <1>7, <1>9, <1>10

\* The activation on top goes.
LEMMA DropForms ==
  ASSUME NEW s \in Seq(Activation), NEW t \in Seq(Activation), NEW n \in Nat,
         Len(s) = n + 1, Len(t) = n, \A i \in 1..n : t[i] = s[i]
  PROVE  /\ HeldEvent(s[n + 1]) /\ s[n + 1].data.id # 0 =>
              Loses(HeldIn(s), HeldIn(t), s[n + 1].data.id)
         /\ ~HeldEvent(s[n + 1]) => Same(HeldIn(s), HeldIn(t))
         /\ s[n + 1].at # "pop" /\ ~SlotHeld(s[n + 1]) =>
              \A h, p : Formed(s, h, p) => (StartedIn(t) <=> StartedIn(s))
         /\ NoPop(s) => NoPop(t)
         /\ \A h, p, q : Formed(s, h, p) /\ (q => p /\ ~Waits(s[n + 1])) => Formed(t, h, q)
<1>1. /\ DOMAIN s = 1 .. n + 1 /\ DOMAIN t = 1..n
      /\ \A i \in 1..n : t[i] = s[i]
  OBVIOUS
<1>2. /\ \A i \in DOMAIN s : i = n + 1 \/ i \in DOMAIN t
      /\ \A i \in DOMAIN t : i \in DOMAIN s /\ i # n + 1 /\ i < n + 1
      /\ n + 1 \in DOMAIN s
  BY <1>1
<1>3. /\ \A i \in DOMAIN t : i # n => i + 1 \in DOMAIN t /\ i < n
      /\ \A i \in DOMAIN t : i > 1 => i - 1 \in DOMAIN t
  BY <1>1
<1>4. /\ HeldEvent(s[n + 1]) /\ s[n + 1].data.id # 0 =>
           Loses(HeldIn(s), HeldIn(t), s[n + 1].data.id)
      /\ ~HeldEvent(s[n + 1]) => Same(HeldIn(s), HeldIn(t))
  <2>1. /\ DOMAIN HeldIn(s) = 1 .. n + 1 /\ DOMAIN HeldIn(t) = 1..n
        /\ \A i \in 1..n : HeldIn(t)[i] = HeldIn(s)[i]
        /\ HeldIn(s)[n + 1] = IF HeldEvent(s[n + 1]) THEN s[n + 1].data.id ELSE 0
    BY <1>1, <1>2 DEF HeldIn
  <2> QED BY <2>1, ListCut
<1>5. ASSUME s[n + 1].at # "pop", ~SlotHeld(s[n + 1]), NEW h, NEW p, Formed(s, h, p)
      PROVE  StartedIn(t) <=> StartedIn(s)
  <2>1. n \in DOMAIN t /\ t[n].at = "pop" => s[n + 1].at = "handler"
    BY <1>1, <1>2, <1>5 DEF Formed
  <2>2. ASSUME NEW i \in DOMAIN t, t[i].at = "pop"
        PROVE  i = Len(t) \/ t[i + 1].at # "detect" <=> i = Len(s) \/ s[i + 1].at # "detect"
    <3>1. CASE i = n
      BY <1>1, <1>2, <2>1, <2>2, <3>1
    <3>2. CASE i # n
      BY <1>1, <1>2, <1>3, <3>2
    <3> QED BY <3>1, <3>2
  <2> QED BY <1>1, <1>2, <1>5, <2>2 DEF StartedIn
<1>6. NoPop(s) => NoPop(t)
  BY <1>1, <1>2 DEF NoPop
<1>7. ASSUME NEW h, NEW p, NEW q, Formed(s, h, p), q => p /\ ~Waits(s[n + 1])
      PROVE  Formed(t, h, q)
  <2>1. \A i \in DOMAIN t : t[i].at = "pop" /\ i < Len(t) =>
          t[i + 1].at = "handler" \/ SlotHeld(t[i + 1])
    BY <1>1, <1>2, <1>3, <1>7 DEF Formed
  <2>2. \A i \in DOMAIN t : SlotHeld(t[i]) =>
          i > 1 /\ t[i - 1].at = "pop" /\ t[i].data.slot = h
    BY <1>1, <1>2, <1>3, <1>7 DEF Formed
  <2>3. \A i \in DOMAIN t : t[i].at = "pop" /\ q => \E j \in DOMAIN t : j > i /\ Waits(t[j])
    BY <1>1, <1>2, <1>7 DEF Formed
  <2> QED BY <2>1, <2>2, <2>3 DEF Formed
<1> QED BY <1>4, <1>5, <1>6, <1>7

\* The handler takes the place of the detect handler above a pop.
LEMMA ReplaceForms ==
  ASSUME NEW s \in Seq(Activation), NEW t \in Seq(Activation), NEW n \in Nat,
         Len(s) = n + 1, Len(t) = n + 1, \A i \in 1..n : t[i] = s[i],
         SlotHeld(s[n + 1]), t[n + 1].at = "handler", NEW h, NEW p, Formed(s, h, p)
  PROVE  /\ Same(HeldIn(s), HeldIn(t))
         /\ StartedIn(t)
         /\ Formed(t, h, FALSE)
<1>1. /\ DOMAIN s = 1 .. n + 1 /\ DOMAIN t = 1 .. n + 1
      /\ \A i \in DOMAIN s : i = n + 1 \/ i \in 1..n
      /\ n + 1 \in DOMAIN s
  OBVIOUS
<1>2. n + 1 > 1 /\ s[n].at = "pop" /\ s[n + 1].data.slot = h
  <2>1. n + 1 > 1 /\ s[n + 1 - 1].at = "pop" /\ s[n + 1].data.slot = h
    BY <1>1 DEF Formed
  <2>2. n + 1 - 1 = n
    OBVIOUS
  <2> QED BY <2>1, <2>2
<1>3. n \in 1..n /\ n \in DOMAIN t /\ t[n].at = "pop"
  BY <1>1, <1>2
<1>4. ~HeldEvent(s[n + 1]) /\ ~HeldEvent(t[n + 1]) /\ ~SlotHeld(t[n + 1])
  BY DEF HeldEvent, SlotHeld
<1>5. Same(HeldIn(s), HeldIn(t))
  <2>1. DOMAIN HeldIn(t) = DOMAIN HeldIn(s) /\ \A i \in DOMAIN HeldIn(s) : HeldIn(t)[i] = HeldIn(s)[i]
    BY <1>1, <1>4 DEF HeldIn
  <2> QED BY <2>1, ListUnchanged
<1>6. StartedIn(t)
  BY <1>3 DEF StartedIn
<1>7. Formed(t, h, FALSE)
  <2>1. \A i \in DOMAIN t : t[i].at = "pop" /\ i < Len(t) =>
          t[i + 1].at = "handler" \/ SlotHeld(t[i + 1])
    <3> SUFFICES ASSUME NEW i \in DOMAIN t, t[i].at = "pop", i < Len(t)
                 PROVE  t[i + 1].at = "handler" \/ SlotHeld(t[i + 1])
      OBVIOUS
    <3>1. CASE i = n
      BY <3>1
    <3>2. CASE i # n
      <4>1. i \in 1..n /\ i + 1 \in 1..n
        BY <1>1, <3>2
      <4> QED BY <1>1, <4>1 DEF Formed
    <3> QED BY <3>1, <3>2
  <2>2. \A i \in DOMAIN t : SlotHeld(t[i]) =>
          i > 1 /\ t[i - 1].at = "pop" /\ t[i].data.slot = h
    <3> SUFFICES ASSUME NEW i \in DOMAIN t, SlotHeld(t[i])
                 PROVE  i > 1 /\ t[i - 1].at = "pop" /\ t[i].data.slot = h
      OBVIOUS
    <3>1. i \in 1..n /\ t[i] = s[i]
      BY <1>1, <1>4
    <3>2. i > 1 /\ s[i - 1].at = "pop" /\ s[i].data.slot = h
      BY <1>1, <3>1 DEF Formed
    <3>3. i - 1 \in 1..n
      BY <3>1, <3>2
    <3> QED BY <3>1, <3>2, <3>3
  <2> QED BY <2>1, <2>2 DEF Formed
<1> QED BY <1>5, <1>6, <1>7

\* Without a pop nothing depends on the front of the queue or on _pendingData.
LEMMA NoPopForms ==
  ASSUME NEW s, NoPop(s), DOMAIN s = 1..Len(s), Len(s) \in Nat,
         NEW h, NEW p, Formed(s, h, p), NEW g, NEW q
  PROVE  Formed(s, g, q) /\ ~StartedIn(s)
<1>1. \A i \in DOMAIN s : i > 1 => i - 1 \in DOMAIN s
  OBVIOUS
<1>2. \A i \in DOMAIN s : ~SlotHeld(s[i])
  BY <1>1 DEF Formed, NoPop
<1> QED BY <1>2 DEF Formed, NoPop, StartedIn

-----------------------------------------------------------------------------
(* What processing_data() and events() do with events *)

\* Nothing is kept and no event handler starts.
Still == UNCHANGED <<ring, delivered, dropped>>

\* Event e is given to its handler.
Hand(e) ==
  \E r \in [id : Nat, via : {"queue", "wire"}] : r.id = e /\ delivered' = Append(delivered, r)

\* The switch of processing_data(), for a frame f of the ESP.
SwitchDoes(f, base, p) ==
  \/ f.kind # "event" /\ stack' = base /\ Still
  \/ f.kind = "event" /\ p /\ Keep(f) /\ stack' = base /\ delivered' = delivered
  \/ /\ f.kind = "event" /\ ~p /\ Hand(f.id) /\ UNCHANGED <<ring, dropped>>
     /\ \E a : a.at = "handler" /\ stack' = Append(base, a)

\* The front of the queue is taken, with the detect handler before its own or not.
QueueDoes(base, p) ==
  /\ ~p /\ available > 0 /\ UNCHANGED <<ring, dropped>>
  /\ \E a : /\ stack' = Append(Append(base, [at |-> "pop"]), a)
            /\ \/ a.at = "handler" /\ Hand(Queue!Message(1).id)
               \/ SlotHeld(a) /\ a.data.slot = Queue!SlotOf(head) /\ delivered' = delivered

LEMMA SwitchOutcome ==
  ASSUME NEW f \in Frame, NEW base, NEW p, Switch(f, base, p)
  PROVE  SwitchDoes(f, base, p)
<1>1. f.kind # "none"
  BY DEF Frame, EventFrame
<1>2. CASE f.kind = "answer" /\ stack' = base /\ UNCHANGED <<ring, delivered, dropped>>
  BY <1>2 DEF SwitchDoes, Still
<1>3. CASE f.kind = "event" /\ p /\ Keep(f) /\ stack' = base /\ UNCHANGED delivered
  BY <1>3 DEF SwitchDoes
<1>4. CASE /\ f.kind = "event" /\ ~p
           /\ StartHandler(f, base)
           /\ UNCHANGED <<ring, dropped>>
  <2>1. f.id \in Nat
    BY <1>4, FrameIds
  <2>2. Hand(f.id)
    <3> DEFINE r == [id |-> f.id,
                     via |-> IF base # << >> /\ Last(base).at = "pop" THEN "queue" ELSE "wire"]
    <3>1. delivered' = Append(delivered, r)
      BY <1>4 DEF StartHandler
    <3>2. r \in [id : Nat, via : {"queue", "wire"}] /\ r.id = f.id
      BY <2>1
    <3> HIDE DEF r
    <3> QED BY <3>1, <3>2 DEF Hand
  <2>3. \E a : a.at = "handler" /\ stack' = Append(base, a)
    <3> DEFINE a == [at |-> "handler", event |-> f.id]
    <3>1. a.at = "handler" /\ stack' = Append(base, a)
      BY <1>4 DEF StartHandler
    <3> HIDE DEF a
    <3> QED BY <3>1
  <2> QED BY <1>4, <2>2, <2>3 DEF SwitchDoes
<1>5. CASE f.kind \in {"status", "restart"} /\ stack' = base /\ UNCHANGED <<ring, delivered, dropped>>
  BY <1>5 DEF SwitchDoes, Still
<1> QED BY <1>1, <1>2, <1>3, <1>4, <1>5 DEF Switch

\* A frame read from the wire.
LEMMA FrameOutcome ==
  ASSUME NEW f \in Frame, NEW base, NEW p, NEW d, ProcessingData(f, base, p, d)
  PROVE  \/ SwitchDoes(f, base, p)
         \/ stack' = Append(base, [at |-> "detect", data |-> f]) /\ Still
<1>1. Data(f) = f
  BY DEF Data, Frame, EventFrame
<1> QED BY <1>1, SwitchOutcome DEF ProcessingData, Still

LEMMA DequeueOutcome ==
  ASSUME RingIntact, NEW base, NEW p, NEW d, Dequeue(base, p, d)
  PROVE  (stack' = base /\ Still) \/ QueueDoes(base, p)
<1>1. CASE stack' = base /\ UNCHANGED <<ring, delivered, dropped>>
  BY <1>1 DEF Still
<1>2. CASE /\ ~p /\ available > 0
           /\ ProcessingData([slot |-> Queue!SlotOf(head)], Append(base, [at |-> "pop"]), p, d)
  <2> DEFINE at == [slot |-> Queue!SlotOf(head)]
             over == Append(base, [at |-> "pop"])
             f == Queue!Message(1)
  <2>1. Data(at) = f /\ f \in EventFrame /\ f \in Frame /\ f.kind = "event" /\ at.slot = Queue!SlotOf(head)
    <3>1. Data(at) = slot[Queue!SlotOf(head)]
      BY DEF Data
    <3> QED BY <1>2, <3>1, FrontIsFirst DEF EventFrame, Frame
  <2>2. ProcessingData(at, over, p, d)
    BY <1>2
  <2>3. "slot" \in DOMAIN at
    OBVIOUS
  <2> HIDE DEF at, over, f
  <2>4. CASE stack' = Append(over, [at |-> "detect", data |-> at]) /\ UNCHANGED <<ring, delivered, dropped>>
    <3> DEFINE a == [at |-> "detect", data |-> at]
    <3>1. SlotHeld(a) /\ a.data.slot = Queue!SlotOf(head) /\ stack' = Append(over, a)
      BY <2>1, <2>3, <2>4 DEF SlotHeld
    <3> HIDE DEF a
    <3> QED BY <1>2, <2>4, <3>1 DEF QueueDoes, over
  <2>5. CASE Switch(Data(at), over, p)
    <3>1. SwitchDoes(f, over, p)
      BY <2>1, <2>5, SwitchOutcome
    <3>2. /\ Hand(f.id) /\ UNCHANGED <<ring, dropped>>
          /\ \E a : a.at = "handler" /\ stack' = Append(over, a)
      BY <1>2, <2>1, <3>1 DEF SwitchDoes
    <3> QED BY <1>2, <3>2 DEF QueueDoes, over, f
  <2> QED BY <2>2, <2>4, <2>5 DEF ProcessingData
<1> QED BY <1>1, <1>2 DEF Dequeue

\* One call of events(): nothing happens to events, the front of the queue is taken,
\* or a frame is read.
LEMMA EventsOutcome ==
  ASSUME TypeOK, RingIntact, NEW base, NEW p, Events(base, p)
  PROVE  /\ pending' = p
         /\ sent'["event"] = sent["event"]
         /\ overrun' = (overrun \/ (Active("pop") /\ ~p))
         /\ \/ Same(OnWire, OnWire') /\ stack' = base /\ Still
            \/ Same(OnWire, OnWire') /\ QueueDoes(base, p)
            \/ /\ rx # << >> /\ rx' = Tail(rx) /\ Head(rx) \in Frame
               /\ \/ SwitchDoes(Head(rx), base, p)
                  \/ stack' = Append(base, [at |-> "detect", data |-> Head(rx)]) /\ Still
<1>1. PICK d \in {detected, FALSE} :
        /\ sent' = IF d # detected THEN Count("offline") ELSE sent
        /\ \/ ReadFrame(base, p, d)
           \/ rx = << >> /\ UNCHANGED rx /\ Dequeue(base, p, d)
  BY DEF Events
<1>2. sent'["event"] = sent["event"]
  BY <1>1 DEF TypeOK, Count, Occurrence
<1>3. pending' = p /\ overrun' = (overrun \/ (Active("pop") /\ ~p))
  BY DEF Events
<1>4. CASE ReadFrame(base, p, d)
  <2>1. rx # << >> /\ rx' = Tail(rx)
    BY <1>4 DEF ReadFrame
  <2>2. Head(rx) \in Frame /\ (Head(rx).kind # "event" => Same(OnWire, OnWire'))
    BY <2>1, WireRead
  <2>3. CASE ProcessingData(Head(rx), base, p, d)
    BY <1>2, <1>3, <2>1, <2>2, <2>3, FrameOutcome
  <2>4. CASE Head(rx).kind = "junk" /\ stack' = base /\ UNCHANGED <<ring, delivered, dropped>>
    BY <1>2, <1>3, <2>2, <2>4 DEF Still
  <2>5. CASE Head(rx).kind = "noise" /\ Dequeue(base, p, d)
    BY <1>2, <1>3, <2>2, <2>5, DequeueOutcome
  <2> QED BY <1>4, <2>3, <2>4, <2>5 DEF ReadFrame
<1>5. CASE UNCHANGED rx /\ Dequeue(base, p, d)
  BY <1>2, <1>3, <1>5, WireSame, DequeueOutcome
<1> QED BY <1>1, <1>4, <1>5

-----------------------------------------------------------------------------
(* The inductive invariant *)

\* The case the argument is about: no handler of a queued event has run events(),
\* and where handlers make calls no event was overwritten.
Sound == ~overrun /\ (dropped = << >> \/ "call" \notin HandlerMay)

\* Every event up to the last one sent is in one place.
EventsIn ==
  /\ RingIntact
  /\ Formed(stack, Queue!SlotOf(head), pending)
  /\ Parted(Lists, sent["event"])
  /\ Range(Handled) \cup Range(dropped) \subseteq 1 .. MaxSent["event"]

EventInv == AnswerInv /\ PopHeld /\ (Sound => EventsIn)

-----------------------------------------------------------------------------
(* Delivery: the steps of EventDelivery *)

\* The numbers on the wire rise.
Rising(list) ==
  \A i, j \in DOMAIN list : i < j /\ list[i] # 0 /\ list[j] # 0 => list[i] < list[j]

\* The wire holds the last of the events sent, in the order in which they were sent.
Ordered ==
  /\ Rising(OnWire) /\ Ids(OnWire) \subseteq 1..sent["event"]
  /\ \A w \in Ids(OnWire) : \A r \in 1..sent["event"] : r \in Ids(OnWire) \/ r < w

\* The step is one of EventDelivery, or none to it.
Delivers == [Delivery!Next]_(Delivery!vars)

\* What is shown of every step: the events stay accounted for and go the way of
\* EventDelivery.
EventsKept == EventsIn' /\ (Ordered => Delivers)

LEMMA HeldBackIs == HeldBack = Ids(Detecting) /\ HeldBack' = Ids(Detecting')
BY DEF HeldBack, Ids, Range

\* What is on the wire comes after all that was received.
LEMMA WireIsNew ==
  ASSUME TypeOK, EventsIn, Ordered, NEW e \in Ids(OnWire)
  PROVE  Delivery!New(e)
<1> SUFFICES ASSUME NEW r \in Delivery!Received
             PROVE  r < e
  BY DEF Delivery!New
<1>1. sent["event"] \in Nat
  BY DEF TypeOK, Occurrence
<1>2. e \in 1..sent["event"]
  BY DEF Ordered
<1>3. r # 0 => r \in Ids(Waiting) \cup Ids(Handled) \cup Ids(dropped) \cup Ids(Detecting)
  BY HeldBackIs DEF Delivery!Received, Delivery!Range, Ids
<1>4. CASE r = 0
  BY <1>1, <1>2, <1>4
<1>5. CASE r # 0
  <2>1. PICK p \in Place \ {"wire"} : r \in Ids(Lists[p])
    BY <1>3, <1>5, ListsAre DEF Place
  <2>2. r \in 1..sent["event"] /\ r \notin Ids(OnWire)
    BY <2>1, ListsAre DEF EventsIn, Parted, Place
  <2> QED BY <2>2 DEF Ordered
<1> QED BY <1>4, <1>5

LEMMA ItComes ==
  ASSUME TypeOK, EventsIn, Ordered, NEW e,
         \/ Loses(OnWire, OnWire', e) /\ Same(Detecting, Detecting')
         \/ Same(OnWire, OnWire') /\ Loses(Detecting, Detecting', e)
  PROVE  Delivery!Comes(e)
<1>1. CASE Loses(OnWire, OnWire', e) /\ Same(Detecting, Detecting')
  <2>1. Delivery!New(e)
    BY <1>1, WireIsNew DEF Loses
  <2> QED BY <1>1, <2>1, HeldBackIs DEF Delivery!Comes, Same
<1>2. CASE Same(OnWire, OnWire') /\ Loses(Detecting, Detecting', e)
  <2>1. Once(Detecting)
    BY ListsAre DEF EventsIn, Parted, Place
  <2> QED BY <1>2, <2>1, HeldBackIs DEF Delivery!Comes, Loses
<1> QED BY <1>1, <1>2

LEMMA HandledAppends ==
  ASSUME TypeOK, NEW e \in Nat, e # 0, Hand(e)
  PROVE  Handled' = Append(Handled, e)
<1>1. PICK r \in [id : Nat, via : {"queue", "wire"}] : r.id = e /\ delivered' = Append(delivered, r)
  BY DEF Hand
<1> DEFINE n == Len(delivered)
<1>3. /\ n \in Nat /\ DOMAIN delivered = 1..n /\ DOMAIN delivered' = 1 .. n + 1
      /\ \A i \in 1..n : delivered'[i] = delivered[i]
      /\ delivered'[n + 1] = r
  BY <1>1, AppendProperties DEF TypeOK
<1> HIDE DEF n
<1>4. /\ Handled = [i \in 1..n |-> Handled[i]] /\ Handled' = [i \in 1 .. n + 1 |-> Handled'[i]]
      /\ \A i \in 1..n : Handled'[i] = Handled[i]
      /\ Handled'[n + 1] = e
  BY <1>1, <1>3 DEF Handled
<1> QED BY <1>3, <1>4, AppendedList

-----------------------------------------------------------------------------
(* The kinds of steps *)

LEMMA SameChains ==
  ASSUME NEW s, NEW t, NEW u, NEW e
  PROVE  /\ Same(s, t) /\ Same(t, u) => Same(s, u)
         /\ Loses(s, t, e) /\ Same(t, u) => Loses(s, u, e)
         /\ Same(s, t) /\ Gains(t, u, e) => Gains(s, u, e)
BY DEF Same, Loses, Gains

\* No event goes anywhere.
LEMMA QuietStep ==
  ASSUME EventsIn, Same(OnWire, OnWire'), Same(Detecting, Detecting'),
         FrontStarted' <=> FrontStarted, Still, sent'["event"] = sent["event"],
         Formed(stack', Queue!SlotOf(head), pending')
  PROVE  EventsKept
<1>1. /\ UNCHANGED ring /\ head' = head
      /\ Same(Waiting, Waiting') /\ Handled' = Handled /\ Same(Handled, Handled')
      /\ dropped' = dropped /\ Same(dropped, dropped')
  BY QueueSame, HandledSame DEF Still, ring, Same
<1>2. \A p \in Place : Same(Lists[p], Lists'[p])
  BY <1>1, ListsAre DEF Place
<1>3. Parted(Lists', sent'["event"])
  BY <1>2, NothingMoves DEF EventsIn
<1>4. RingIntact'
  BY <1>1, RingSame DEF EventsIn
<1>5. Formed(stack', Queue!SlotOf(head'), pending')
  BY <1>1
<1>6. Waiting' = Waiting /\ HeldBack' = HeldBack
  BY QueueSame, HeldBackIs DEF Still, Same
<1>7. Delivers
  BY <1>1, <1>6 DEF Delivers, Delivery!vars
<1> QED BY <1>1, <1>3, <1>4, <1>5, <1>7 DEF EventsKept, EventsIn, Queue!SlotOf

\* Event e leaves the wire or the detect handler for its handler.
LEMMA HandStep ==
  ASSUME TypeOK, EventsIn, NEW e \in 1 .. MaxSent["event"], e # 0, Hand(e),
         \/ Loses(OnWire, OnWire', e) /\ Same(Detecting, Detecting')
         \/ Same(OnWire, OnWire') /\ Loses(Detecting, Detecting', e),
         FrontStarted' <=> FrontStarted, UNCHANGED <<ring, dropped>>,
         sent'["event"] = sent["event"],
         Formed(stack', Queue!SlotOf(head), pending')
  PROVE  EventsKept
<1>1. /\ UNCHANGED ring /\ head' = head
      /\ Same(Waiting, Waiting')
      /\ dropped' = dropped /\ Same(dropped, dropped')
  BY QueueSame DEF ring, Same
<1>2. Gains(Handled, Handled', e) /\ Range(Handled') = Range(Handled) \cup {e}
  BY HandledGrows DEF Hand
<1>3. PICK from \in {"wire", "detect"} : Moves(Lists, Lists', from, "handler", e)
  <2>1. CASE Loses(OnWire, OnWire', e) /\ Same(Detecting, Detecting')
    <3>1. Moves(Lists, Lists', "wire", "handler", e)
      BY <1>1, <1>2, <2>1, ListsAre DEF Place, Moves
    <3> QED BY <3>1
  <2>2. CASE Same(OnWire, OnWire') /\ Loses(Detecting, Detecting', e)
    <3>1. Moves(Lists, Lists', "detect", "handler", e)
      BY <1>1, <1>2, <2>2, ListsAre DEF Place, Moves
    <3> QED BY <3>1
  <2> QED BY <2>1, <2>2
<1>4. from \in Place /\ "handler" \in Place /\ from # "handler"
  BY DEF Place
<1>5. Parted(Lists', sent'["event"])
  BY <1>3, <1>4, OneMoves DEF EventsIn
<1>6. RingIntact'
  BY <1>1, RingSame DEF EventsIn
<1>7. Formed(stack', Queue!SlotOf(head'), pending')
  BY <1>1
<1>8. EventsIn'
  BY <1>1, <1>2, <1>5, <1>6, <1>7 DEF EventsIn, Queue!SlotOf
<1>9. ASSUME Ordered
      PROVE  Delivers
  <2>1. e \in Nat
    BY BoundsAssumption DEF Occurrence
  <2>2. Handled' = Append(Handled, e) /\ Waiting' = Waiting
    BY <2>1, HandledAppends, QueueSame
  <2>3. Delivery!HandOver(e)
    BY <1>1, <1>9, <2>2, ItComes DEF Delivery!HandOver
  <2> QED BY <2>3 DEF Delivers, Delivery!Next
<1> QED BY <1>8, <1>9 DEF EventsKept

\* The front of the queue goes to its handler.
LEMMA TakeStep ==
  ASSUME TypeOK, EventsIn, available > 0, Hand(Queue!Message(1).id),
         Same(OnWire, OnWire'), Same(Detecting, Detecting'),
         ~FrontStarted, FrontStarted', UNCHANGED <<ring, dropped>>,
         sent'["event"] = sent["event"],
         Formed(stack', Queue!SlotOf(head), pending')
  PROVE  EventsKept
<1> DEFINE e == Queue!Message(1).id
<1>1. e \in 1 .. MaxSent["event"] /\ e # 0
  <2>1. MaxSent["event"] \in Nat
    BY BoundsAssumption DEF Occurrence
  <2> QED BY <2>1, FrontIsFirst DEF EventFrame, EventsIn
<1>2. /\ UNCHANGED ring /\ head' = head
      /\ Loses(Waiting, Waiting', e)
      /\ dropped' = dropped /\ Same(dropped, dropped')
  BY FrontTaken DEF ring, Same, EventsIn
<1> HIDE DEF e
<1>3. Gains(Handled, Handled', e) /\ Range(Handled') = Range(Handled) \cup {e}
  BY <1>1, HandledGrows DEF Hand, e
<1>4. Moves(Lists, Lists', "queue", "handler", e) /\ "queue" \in Place /\ "handler" \in Place
  BY <1>2, <1>3, ListsAre DEF Place, Moves
<1>5. Parted(Lists', sent'["event"])
  BY <1>4, OneMoves DEF EventsIn
<1>6. RingIntact'
  BY <1>2, RingSame DEF EventsIn
<1>7. Formed(stack', Queue!SlotOf(head'), pending')
  BY <1>2
<1>8. EventsIn'
  BY <1>1, <1>2, <1>3, <1>5, <1>6, <1>7 DEF EventsIn, Queue!SlotOf
<1>9. Delivers
  <2>1. Waiting' = Tail(Waiting) /\ Waiting # << >> /\ Head(Waiting) = e
    BY FrontTaken DEF EventsIn, e
  <2>2. e \in Nat /\ Hand(e)
    BY <1>1, BoundsAssumption DEF Occurrence, e
  <2>3. Handled' = Append(Handled, e)
    BY <1>1, <2>2, HandledAppends
  <2>4. HeldBack' = HeldBack
    BY HeldBackIs DEF Same
  <2>5. Delivery!HandleNext
    BY <1>2, <2>1, <2>3, <2>4 DEF Delivery!HandleNext
  <2> QED BY <2>5 DEF Delivers, Delivery!Next
<1> QED BY <1>8, <1>9 DEF EventsKept

\* Event f leaves the wire or the detect handler for the queue; a full queue gives
\* up its oldest event, which no handler has.
\* What is kept in a full queue costs the oldest event.
LEMMA KeptInFullQueue ==
  ASSUME RingIntact, NEW f, Keep(f), available = Size
  PROVE  dropped' # << >>
<1>1. dropped' = Append(dropped, Queue!FrontMessage.id)
  BY TailIs DEF Keep, RingIntact
<1>2. Queue!FrontMessage \in EventFrame
  BY QueueSize, FrontIsFirst
<1>3. Queue!FrontMessage.id \in Nat /\ Queue!FrontMessage.id # 0
  BY <1>2, BoundsAssumption DEF EventFrame, Occurrence
<1> QED BY <1>1, <1>3, DroppedGrows

LEMMA KeepStep ==
  ASSUME TypeOK, EventsIn, Sound', NEW f \in Frame, f.kind = "event", Keep(f),
         delivered' = delivered,
         \/ Loses(OnWire, OnWire', f.id) /\ Same(Detecting, Detecting')
         \/ Same(OnWire, OnWire') /\ Loses(Detecting, Detecting', f.id),
         FrontStarted' <=> FrontStarted, FrontStarted => available > 0,
         sent'["event"] = sent["event"],
         Formed(stack', Queue!SlotOf(head), pending'),
         stack' \in Seq(Activation),
         "call" \notin HandlerMay => NoPop(stack')
  PROVE  EventsKept
<1>1. f \in EventFrame /\ f.id \in 1 .. MaxSent["event"] /\ f.id # 0
  BY FrameIds
<1>2. Handled' = Handled /\ Same(Handled, Handled')
  BY HandledSame
<1>3. RingIntact /\ Queue!TypeOK /\ available \in 0..Size
  BY DEF EventsIn, RingIntact, Queue!TypeOK
<1>4. ASSUME NEW lists, Parted(lists, sent["event"]), NEW waiting, NEW given,
             lists = [Lists EXCEPT !["queue"] = waiting, !["dropped"] = given],
             Gains(waiting, Waiting', f.id), Same(given, dropped')
      PROVE  Parted(Lists', sent'["event"])
  <2>1. /\ lists["wire"] = OnWire /\ lists["detect"] = Detecting /\ lists["queue"] = waiting
        /\ lists["handler"] = Handled /\ lists["dropped"] = given
    BY <1>4, ListsAre DEF Lists, Place
  <2>2. PICK from \in {"wire", "detect"} : Moves(lists, Lists', from, "queue", f.id)
    <3>1. CASE Loses(OnWire, OnWire', f.id) /\ Same(Detecting, Detecting')
      <4>1. Moves(lists, Lists', "wire", "queue", f.id)
        BY <1>2, <1>4, <2>1, <3>1, ListsAre DEF Place, Moves
      <4> QED BY <4>1
    <3>2. CASE Same(OnWire, OnWire') /\ Loses(Detecting, Detecting', f.id)
      <4>1. Moves(lists, Lists', "detect", "queue", f.id)
        BY <1>2, <1>4, <2>1, <3>2, ListsAre DEF Place, Moves
      <4> QED BY <4>1
    <3> QED BY <3>1, <3>2
  <2>3. from \in Place /\ "queue" \in Place /\ from # "queue"
    BY DEF Place
  <2> QED BY <1>4, <2>2, <2>3, OneMoves
<1>5. CASE available < Size
  <2>1. /\ RingIntact' /\ head' = head /\ dropped' = dropped
        /\ Gains(Waiting, Waiting', f.id)
    BY <1>1, <1>3, <1>5, KeptGrows
  <2>2. Lists = [Lists EXCEPT !["queue"] = Waiting, !["dropped"] = dropped]
    BY DEF Lists, Place
  <2>3. Parted(Lists', sent'["event"])
    BY <1>4, <2>1, <2>2 DEF Same, EventsIn
  <2>4. Formed(stack', Queue!SlotOf(head'), pending')
    BY <2>1
  <2>5. EventsIn'
    BY <1>2, <2>1, <2>3, <2>4 DEF EventsIn, Queue!SlotOf
  <2>6. ASSUME Ordered
        PROVE  Delivers
    <3>1. Len(Waiting) < Size /\ Waiting' = Append(Waiting, f.id)
      BY <1>1, <1>3, <1>5, KeptGrows
    <3>2. Delivery!Keep(f.id)
      BY <1>2, <2>1, <2>6, <3>1, ItComes DEF Delivery!Keep
    <3> QED BY <1>1, <3>2 DEF Delivers, Delivery!Next
  <2> QED BY <2>5, <2>6 DEF EventsKept
<1>6. CASE available = Size
  <2>1. dropped' # << >>
    BY <1>3, <1>6, KeptInFullQueue
  <2>2. NoPop(stack') /\ DOMAIN stack' = 1..Len(stack') /\ Len(stack') \in Nat
    BY <2>1 DEF Sound
  <2>3. Formed(stack', Queue!SlotOf(head'), pending') /\ ~FrontStarted' /\ ~FrontStarted
    BY <2>2, NoPopForms, StackIs
  <2>4. PICK m, u :
          /\ m \in 1 .. MaxSent["event"] /\ m # 0 /\ dropped' = Append(dropped, m)
          /\ Loses(Waiting, u, m) /\ Gains(u, Waiting', f.id)
    BY <1>1, <1>3, <1>6, <2>3, KeptOverwrites
  <2>5. Gains(dropped, dropped', m) /\ Range(dropped') = Range(dropped) \cup {m}
    BY <2>4, DroppedGrows
  <2> DEFINE between == [Lists EXCEPT !["queue"] = u, !["dropped"] = dropped']
  <2>6. Parted(between, sent["event"])
    <3>1. /\ between["wire"] = OnWire /\ between["detect"] = Detecting /\ between["queue"] = u
          /\ between["handler"] = Handled /\ between["dropped"] = dropped'
      BY DEF Lists, Place
    <3> HIDE DEF between
    <3>2. Moves(Lists, between, "queue", "dropped", m)
      BY <2>4, <2>5, <3>1, ListsAre DEF Place, Moves, Same
    <3> QED BY <3>2, OneMoves DEF Place, EventsIn
  <2>7. Parted(Lists', sent'["event"])
    BY <1>4, <2>4, <2>6 DEF Same
  <2>8. RingIntact'
    BY <1>1, <1>3, <1>6, <2>3, KeptOverwrites
  <2>9. EventsIn'
    BY <1>2, <2>3, <2>4, <2>5, <2>7, <2>8 DEF EventsIn, Queue!SlotOf
  <2>10. ASSUME Ordered
         PROVE  Delivers
    <3>1. /\ Len(Waiting) = Size /\ dropped' = Append(dropped, Head(Waiting))
          /\ Waiting' = Append(Tail(Waiting), f.id)
      BY <1>1, <1>3, <1>6, <2>3, KeptOverwrites
    <3>2. Delivery!Keep(f.id)
      BY <1>2, <2>10, <3>1, ItComes DEF Delivery!Keep
    <3> QED BY <1>1, <3>2 DEF Delivers, Delivery!Next
  <2> QED BY <2>9, <2>10 DEF EventsKept
<1> QED BY <1>3, <1>5, <1>6, QueueSize

\* An event goes from the wire behind the detect handler.
LEMMA HoldStep ==
  ASSUME TypeOK, EventsIn, NEW e \in 1 .. MaxSent["event"],
         Loses(OnWire, OnWire', e), Gains(Detecting, Detecting', e),
         FrontStarted' <=> FrontStarted, Still, sent'["event"] = sent["event"],
         Formed(stack', Queue!SlotOf(head), pending')
  PROVE  EventsKept
<1>1. /\ UNCHANGED ring /\ head' = head
      /\ Same(Waiting, Waiting') /\ Handled' = Handled /\ Same(Handled, Handled')
      /\ dropped' = dropped /\ Same(dropped, dropped')
  BY QueueSame, HandledSame DEF Still, ring, Same
<1>2. Moves(Lists, Lists', "wire", "detect", e) /\ "wire" \in Place /\ "detect" \in Place
  BY <1>1, ListsAre DEF Place, Moves
<1>3. Parted(Lists', sent'["event"])
  BY <1>2, OneMoves DEF EventsIn
<1>4. RingIntact'
  BY <1>1, RingSame DEF EventsIn
<1>5. Formed(stack', Queue!SlotOf(head'), pending')
  BY <1>1
<1>6. EventsIn'
  BY <1>1, <1>3, <1>4, <1>5 DEF EventsIn, Queue!SlotOf
<1>7. ASSUME Ordered
      PROVE  Delivers
  <2>1. Delivery!New(e)
    BY <1>7, WireIsNew DEF Loses
  <2>2. Waiting' = Waiting /\ HeldBack' = HeldBack \cup {e}
    BY QueueSame, HeldBackIs DEF Still, Gains
  <2>3. Delivery!Hold(e)
    BY <1>1, <2>1, <2>2 DEF Delivery!Hold
  <2> QED BY <2>3 DEF Delivers, Delivery!Next
<1> QED BY <1>6, <1>7 DEF EventsKept

\* The switch, on behalf of the activations in base, for a frame from the wire or
\* from behind the detect handler that was above base.
LEMMA SwitchStep ==
  ASSUME TypeOK, EventsIn, Sound', NEW f \in Frame, NEW base \in Seq(Activation),
         NEW p \in BOOLEAN, SwitchDoes(f, base, p), pending' = p,
         sent'["event"] = sent["event"], stack' \in Seq(Activation),
         NoPopOnTop(base), Formed(base, Queue!SlotOf(head), p),
         FrontStarted <=> StartedIn(base), FrontStarted => available > 0,
         p /\ "call" \notin HandlerMay => NoPop(base),
         IF f.kind = "event"
         THEN \/ Loses(OnWire, OnWire', f.id) /\ Same(Detecting, HeldIn(base))
              \/ Same(OnWire, OnWire') /\ Loses(Detecting, HeldIn(base), f.id)
         ELSE Same(OnWire, OnWire') /\ Same(Detecting, HeldIn(base))
  PROVE  EventsKept
<1>1. CASE f.kind # "event" /\ stack' = base /\ Still
  <2>1. /\ Detecting' = HeldIn(base) /\ (FrontStarted' <=> StartedIn(base))
        /\ Formed(stack', Queue!SlotOf(head), pending')
    BY <1>1, StackIs
  <2>2. Same(OnWire, OnWire') /\ Same(Detecting, Detecting')
    BY <1>1, <2>1
  <2> QED BY <1>1, <2>1, <2>2, QuietStep
<1>2. CASE f.kind = "event" /\ p /\ Keep(f) /\ stack' = base /\ delivered' = delivered
  <2>1. /\ Detecting' = HeldIn(base) /\ (FrontStarted' <=> StartedIn(base))
        /\ Formed(stack', Queue!SlotOf(head), pending')
        /\ "call" \notin HandlerMay => NoPop(stack')
    BY <1>2, StackIs
  <2>2. \/ Loses(OnWire, OnWire', f.id) /\ Same(Detecting, Detecting')
        \/ Same(OnWire, OnWire') /\ Loses(Detecting, Detecting', f.id)
    BY <1>2, <2>1
  <2> QED BY <1>2, <2>1, <2>2, KeepStep
<1>3. CASE /\ f.kind = "event" /\ ~p /\ Hand(f.id) /\ UNCHANGED <<ring, dropped>>
           /\ \E a : a.at = "handler" /\ stack' = Append(base, a)
  <2>1. PICK a : a.at = "handler" /\ stack' = Append(base, a)
    BY <1>3
  <2>2. ~HeldEvent(a) /\ ~SlotHeld(a) /\ a.at # "pop"
    BY <2>1 DEF HeldEvent, SlotHeld
  <2>3. /\ Same(HeldIn(base), HeldIn(stack')) /\ (StartedIn(stack') <=> StartedIn(base))
        /\ Formed(stack', Queue!SlotOf(head), p)
    BY <2>1, <2>2, PushForms
  <2>4. /\ Same(HeldIn(base), Detecting') /\ (FrontStarted' <=> FrontStarted)
        /\ Formed(stack', Queue!SlotOf(head), pending')
    BY <2>3, StackIs
  <2>5. \/ Loses(OnWire, OnWire', f.id) /\ Same(Detecting, Detecting')
        \/ Same(OnWire, OnWire') /\ Loses(Detecting, Detecting', f.id)
    BY <1>3, <2>4, SameChains
  <2>6. f.id \in 1 .. MaxSent["event"] /\ f.id # 0
    BY <1>3, FrameIds
  <2> QED BY <1>3, <2>4, <2>5, <2>6, HandStep
<1> QED BY <1>1, <1>2, <1>3 DEF SwitchDoes

\* A call of events() by the activations in base.
LEMMA EventsStep ==
  ASSUME AnswerInv, PopHeld, EventsIn, TypeOK', Sound', NEW base \in Seq(Activation),
         NEW p \in BOOLEAN, Events(base, p), Alike(stack, base), NoPopOnTop(base),
         Formed(base, Queue!SlotOf(head), p),
         p /\ "call" \notin HandlerMay => NoPop(base)
  PROVE  EventsKept
<1> DEFINE h == Queue!SlotOf(head)
<1>1. /\ pending' = p /\ sent'["event"] = sent["event"]
      /\ overrun' = (overrun \/ (Active("pop") /\ ~p))
      /\ \/ Same(OnWire, OnWire') /\ stack' = base /\ Still
         \/ Same(OnWire, OnWire') /\ QueueDoes(base, p)
         \/ /\ rx # << >> /\ rx' = Tail(rx) /\ Head(rx) \in Frame
            /\ \/ SwitchDoes(Head(rx), base, p)
               \/ stack' = Append(base, [at |-> "detect", data |-> Head(rx)]) /\ Still
  BY EventsOutcome DEF AnswerInv, IInv, EventsIn
<1>2. TypeOK /\ stack \in Seq(Activation) /\ stack' \in Seq(Activation)
  BY DEF AnswerInv, IInv, TypeOK
<1>3. /\ Same(Detecting, HeldIn(base)) /\ (FrontStarted <=> StartedIn(base))
      /\ NoPop(base) <=> NoPop(stack)
  BY <1>2, AlikeForms, StackIs
<1>4. ~overrun /\ (~p => ~Active("pop"))
  BY <1>1 DEF Sound
<1>5. ~p => NoPop(base)
  BY <1>3, <1>4 DEF Active, NoPop
<1>6. FrontStarted => available > 0
  BY <1>4 DEF PopHeld, FrontStarted, Active
<1> HIDE DEF h
<1>7. CASE Same(OnWire, OnWire') /\ stack' = base /\ Still
  <2>1. /\ Same(Detecting, Detecting') /\ (FrontStarted' <=> FrontStarted)
        /\ Formed(stack', Queue!SlotOf(head), pending')
    BY <1>1, <1>3, <1>7, StackIs
  <2> QED BY <1>1, <1>7, <2>1, QuietStep
<1>8. CASE Same(OnWire, OnWire') /\ QueueDoes(base, p)
  <2>1. /\ ~p /\ available > 0 /\ UNCHANGED <<ring, dropped>>
        /\ NoPop(base) /\ Formed(base, h, FALSE) /\ pending' = FALSE
    BY <1>1, <1>5, <1>8 DEF QueueDoes, h
  <2>2. PICK a : /\ stack' = Append(Append(base, [at |-> "pop"]), a)
                 /\ \/ a.at = "handler" /\ Hand(Queue!Message(1).id)
                    \/ SlotHeld(a) /\ a.data.slot = h /\ delivered' = delivered
    BY <1>8 DEF QueueDoes, h
  <2>3. /\ Same(HeldIn(base), HeldIn(stack')) /\ ~StartedIn(base)
        /\ StartedIn(stack') <=> a.at = "handler"
        /\ Formed(stack', h, FALSE)
    BY <2>1, <2>2, TakeForms
  <2>4. /\ Same(Detecting, Detecting') /\ ~FrontStarted /\ (FrontStarted' <=> a.at = "handler")
        /\ Formed(stack', Queue!SlotOf(head), pending')
    BY <1>3, <2>1, <2>3, StackIs, SameChains DEF h
  <2>5. CASE a.at = "handler" /\ Hand(Queue!Message(1).id)
    BY <1>1, <1>2, <1>8, <2>1, <2>4, <2>5, TakeStep
  <2>6. CASE SlotHeld(a) /\ delivered' = delivered
    <3>1. ~FrontStarted' /\ Still
      BY <2>1, <2>4, <2>6 DEF SlotHeld, Still
    <3> QED BY <1>1, <1>8, <2>4, <3>1, QuietStep
  <2> QED BY <2>2, <2>5, <2>6
<1>9. CASE /\ rx # << >> /\ rx' = Tail(rx) /\ Head(rx) \in Frame
           /\ SwitchDoes(Head(rx), base, p)
  <2>1. /\ Head(rx).kind = "event" => Loses(OnWire, OnWire', Head(rx).id)
        /\ Head(rx).kind # "event" => Same(OnWire, OnWire')
    BY <1>2, <1>9, WireRead
  <2> DEFINE f == Head(rx)
  <2>2. f \in Frame /\ SwitchDoes(f, base, p)
    BY <1>9
  <2>3. IF f.kind = "event"
        THEN Loses(OnWire, OnWire', f.id) /\ Same(Detecting, HeldIn(base))
        ELSE Same(OnWire, OnWire') /\ Same(Detecting, HeldIn(base))
    BY <1>3, <2>1
  <2> HIDE DEF f
  <2> QED BY <1>1, <1>2, <1>3, <1>6, <2>2, <2>3, SwitchStep
<1>10. CASE /\ rx # << >> /\ rx' = Tail(rx) /\ Head(rx) \in Frame
            /\ stack' = Append(base, [at |-> "detect", data |-> Head(rx)]) /\ Still
  <2>1. /\ Head(rx).kind = "event" => Loses(OnWire, OnWire', Head(rx).id)
        /\ Head(rx).kind # "event" => Same(OnWire, OnWire')
    BY <1>2, <1>10, WireRead
  <2> DEFINE f == Head(rx)
             a == [at |-> "detect", data |-> f]
  <2>2. f \in Frame /\ "slot" \notin DOMAIN f
    BY <1>10 DEF Frame, EventFrame
  <2> HIDE DEF f
  <2>3. /\ a.at = "detect" /\ a.data = f /\ ~SlotHeld(a) /\ (HeldEvent(a) <=> f.kind = "event")
    BY <2>2 DEF SlotHeld, HeldEvent
  <2>4. stack' = Append(base, a)
    BY <1>10 DEF f
  <2> HIDE DEF a
  <2>5. f.kind = "event" => f.id \in 1 .. MaxSent["event"] /\ f.id # 0
    BY <2>2, FrameIds
  <2>6. /\ f.kind = "event" => Gains(HeldIn(base), HeldIn(stack'), f.id)
        /\ f.kind # "event" => Same(HeldIn(base), HeldIn(stack'))
        /\ StartedIn(stack') <=> StartedIn(base)
        /\ Formed(stack', Queue!SlotOf(head), p)
    BY <2>3, <2>4, <2>5, PushForms
  <2>7. /\ f.kind = "event" => Gains(Detecting, Detecting', f.id)
        /\ f.kind # "event" => Same(Detecting, Detecting')
        /\ FrontStarted' <=> FrontStarted
        /\ Formed(stack', Queue!SlotOf(head), pending')
    BY <1>1, <1>3, <2>6, StackIs, SameChains
  <2>8. CASE f.kind = "event"
    <3>1. Loses(OnWire, OnWire', f.id)
      BY <2>1, <2>8 DEF f
    <3> QED BY <1>1, <1>2, <1>10, <2>5, <2>7, <2>8, <3>1, HoldStep
  <2>9. CASE f.kind # "event"
    <3>1. Same(OnWire, OnWire')
      BY <2>1, <2>9 DEF f
    <3> QED BY <1>1, <1>10, <2>7, <2>9, <3>1, QuietStep
  <2> QED BY <2>8, <2>9
<1> QED BY <1>1, <1>7, <1>8, <1>9, <1>10

-----------------------------------------------------------------------------
(* The steps *)

\* With _pendingData set and handlers that make no calls nothing is taken from the
\* queue: the one call that waits is at the bottom of the stack.
LEMMA NothingTakenInCall ==
  ASSUME AnswerInv, NEW h, Formed(stack, h, TRUE), "call" \notin HandlerMay
  PROVE  NoPop(stack)
<1> SUFFICES ASSUME NEW i \in DOMAIN stack, stack[i].at = "pop"
             PROVE  FALSE
  BY DEF NoPop
<1>1. PICK j \in DOMAIN stack : j > i /\ Waits(stack[j])
  BY DEF Formed
<1>2. j = 1
  BY <1>1 DEF AnswerInv, CallsAtBottom
<1>3. DOMAIN stack = 1..Len(stack) /\ Len(stack) \in Nat
  BY DEF AnswerInv, IInv, TypeOK
<1> QED BY <1>1, <1>2, <1>3

LEMMA LoopPollStep ==
  ASSUME AnswerInv, PopHeld, EventsIn, TypeOK', Sound', LoopPoll
  PROVE  EventsKept
<1> DEFINE base == << >>
<1>1. /\ base \in Seq(Activation) /\ stack = base /\ Len(base) = 0 /\ DOMAIN base = {}
      /\ Events(base, pending) /\ pending \in BOOLEAN
  BY DEF LoopPoll, AnswerInv, IInv, TypeOK
<1> HIDE DEF base
<1>2. Alike(stack, base)
  BY <1>1 DEF Alike
<1>3. NoPopOnTop(base) /\ NoPop(base)
  <2>1. base = << >>
    BY DEF base
  <2> QED BY <1>1, <2>1 DEF NoPopOnTop, NoPop
<1>4. Formed(base, Queue!SlotOf(head), pending)
  BY <1>1 DEF Formed
<1> QED BY <1>1, <1>2, <1>3, <1>4, EventsStep

LEMMA HandlerPollStep ==
  ASSUME AnswerInv, PopHeld, EventsIn, TypeOK', Sound', HandlerPoll
  PROVE  EventsKept
<1>1. stack \in Seq(Activation) /\ Events(stack, pending) /\ pending \in BOOLEAN
  BY DEF HandlerPoll, AnswerInv, IInv, TypeOK
<1>2. Alike(stack, stack)
  BY DEF Alike
<1>3. NoPopOnTop(stack)
  BY DEF NoPopOnTop, HandlerPoll, At, Top
<1>4. Formed(stack, Queue!SlotOf(head), pending)
  BY DEF EventsIn
<1>5. pending /\ "call" \notin HandlerMay => NoPop(stack)
  <2> SUFFICES ASSUME pending, "call" \notin HandlerMay
               PROVE  NoPop(stack)
    OBVIOUS
  <2>1. pending = TRUE
    BY <1>1
  <2> QED BY <1>4, <2>1, NothingTakenInCall
<1> QED BY <1>1, <1>2, <1>3, <1>4, <1>5, EventsStep

\* A waiting call goes on in its loop.
LEMMA TurnedAlike ==
  ASSUME TypeOK, stack # << >>, Waits(Top), NEW at \in {"wait", "check"}, NEW base,
         base = Append(Below, [Top EXCEPT !.at = at])
  PROVE  /\ base \in Seq(Activation) /\ Alike(stack, base)
         /\ NoPopOnTop(base) /\ base # << >> /\ Waits(base[Len(base)])
         /\ Len(base) = Len(stack)
<1> DEFINE turned == [Top EXCEPT !.at = at]
<1>1. /\ Len(stack) \in Nat \ {0} /\ Top = stack[Len(stack)]
      /\ Below \in Seq(Activation) /\ Len(Below) = Len(stack) - 1
      /\ \A i \in 1 .. Len(stack) - 1 : Below[i] = stack[i]
  BY TopAndBelow
<1>2. turned \in Activation /\ turned.at = at
  BY WaitingTop
<1> HIDE DEF turned
<1>3. /\ base \in Seq(Activation) /\ Len(base) = Len(Below) + 1
      /\ base[Len(Below) + 1] = turned
      /\ \A i \in 1..Len(Below) : base[i] = Below[i]
  BY <1>1, <1>2, AppendProperties DEF turned
<1>4. /\ Len(base) = Len(stack) /\ base[Len(stack)] = turned
      /\ \A i \in 1 .. Len(stack) - 1 : base[i] = stack[i]
  BY <1>1, <1>3
<1>5. Waits(turned) /\ turned.at # "pop"
  BY <1>2 DEF Waits
<1>6. \A i \in 1..Len(stack) : i = Len(stack) \/ i \in 1 .. Len(stack) - 1
  BY <1>1
<1>7. Alike(stack, base)
  BY <1>1, <1>4, <1>5, <1>6 DEF Alike
<1>8. base # << >>
  BY <1>1, <1>4
<1> QED BY <1>3, <1>4, <1>5, <1>7, <1>8 DEF NoPopOnTop

\* It waits above every pop there may be, and where handlers make no calls there is
\* none.
LEMMA TurnedForms ==
  ASSUME AnswerInv, EventsIn, stack # << >>, Waits(Top), NEW base,
         base = Append(Below, [Top EXCEPT !.at = "check"])
  PROVE  /\ base \in Seq(Activation) /\ Alike(stack, base) /\ NoPopOnTop(base)
         /\ Formed(base, Queue!SlotOf(head), TRUE)
         /\ "call" \notin HandlerMay => NoPop(base)
<1>1. TypeOK /\ stack \in Seq(Activation)
  BY DEF AnswerInv, IInv, TypeOK
<1>2. /\ base \in Seq(Activation) /\ Alike(stack, base)
      /\ NoPopOnTop(base) /\ base # << >> /\ Waits(base[Len(base)])
      /\ Len(base) = Len(stack)
  BY <1>1, TurnedAlike
<1>3. Formed(base, Queue!SlotOf(head), pending)
  BY <1>1, <1>2, AlikeForms DEF EventsIn
<1>4. Len(base) \in Nat /\ DOMAIN base = 1..Len(base) /\ Len(base) \in DOMAIN base
  BY <1>2
<1>5. Formed(base, Queue!SlotOf(head), TRUE)
  <2>1. \A i \in DOMAIN base : base[i].at = "pop" => Len(base) > i
    BY <1>2, <1>4 DEF NoPopOnTop
  <2>2. \A i \in DOMAIN base : base[i].at = "pop" =>
          \E j \in DOMAIN base : j > i /\ Waits(base[j])
    BY <1>2, <1>4, <2>1
  <2> QED BY <1>3, <2>2 DEF Formed
<1>6. "call" \notin HandlerMay => NoPop(base)
  <2> SUFFICES ASSUME "call" \notin HandlerMay
               PROVE  NoPop(base)
    OBVIOUS
  <2>1. Len(stack) \in DOMAIN stack /\ Waits(stack[Len(stack)]) /\ DOMAIN stack = 1..Len(stack)
    BY <1>1, TopAndBelow
  <2>2. Len(stack) = 1
    BY <2>1 DEF AnswerInv, CallsAtBottom
  <2> QED BY <1>2, <1>4, <2>2 DEF NoPopOnTop, NoPop
<1> QED BY <1>2, <1>5, <1>6

LEMMA WaitPollStep ==
  ASSUME AnswerInv, PopHeld, EventsIn, TypeOK', Sound', WaitPoll
  PROVE  EventsKept
<1>1. stack # << >> /\ Waits(Top)
  BY DEF WaitPoll, At, Waits
<1>2. PICK base : base = Append(Below, [Top EXCEPT !.at = "check"]) /\ Events(base, TRUE)
  BY DEF WaitPoll
<1>3. /\ base \in Seq(Activation) /\ Alike(stack, base) /\ NoPopOnTop(base)
      /\ Formed(base, Queue!SlotOf(head), TRUE)
      /\ "call" \notin HandlerMay => NoPop(base)
  BY <1>1, <1>2, TurnedForms
<1> QED BY <1>2, <1>3, EventsStep

\* Steps after which the stack is one activation shorter, and which move no event.
LEMMA EndStep ==
  ASSUME TypeOK, EventsIn, stack # << >>, stack' = Below,
         Top.at \notin {"detect", "pop"}, pending' => pending /\ ~Waits(Top),
         UNCHANGED <<ring, delivered, dropped, rx, sent>>
  PROVE  EventsKept
<1> DEFINE n == Len(stack) - 1
<1>1. /\ n \in Nat /\ Len(stack) = n + 1 /\ Top = stack[n + 1]
      /\ stack \in Seq(Activation) /\ Below \in Seq(Activation) /\ Len(Below) = n
      /\ \A i \in 1..n : Below[i] = stack[i]
  BY TopAndBelow DEF TypeOK
<1> HIDE DEF n
<1>2. ~HeldEvent(Top) /\ ~SlotHeld(Top) /\ Top.at # "pop"
  BY DEF HeldEvent, SlotHeld
<1>3. Formed(stack, Queue!SlotOf(head), pending)
  BY DEF EventsIn
<1>4. /\ Same(HeldIn(stack), HeldIn(Below))
      /\ StartedIn(Below) <=> StartedIn(stack)
      /\ Formed(Below, Queue!SlotOf(head), pending')
  BY <1>1, <1>2, <1>3, DropForms
<1>5. /\ Same(Detecting, Detecting') /\ (FrontStarted' <=> FrontStarted)
      /\ Formed(stack', Queue!SlotOf(head), pending')
  BY <1>4, StackIs
<1>6. Same(OnWire, OnWire') /\ Still /\ sent'["event"] = sent["event"]
  BY WireSame DEF Still
<1> QED BY <1>5, <1>6, QuietStep

LEMMA KeepWaitingStep ==
  ASSUME AnswerInv, EventsIn, KeepWaiting
  PROVE  EventsKept
<1>1. stack # << >> /\ Waits(Top) /\ TypeOK /\ stack \in Seq(Activation)
  BY DEF KeepWaiting, At, Waits, AnswerInv, IInv, TypeOK
<1>2. stack' \in Seq(Activation) /\ Alike(stack, stack')
  BY <1>1, TurnedAlike DEF KeepWaiting
<1>3. pending' = pending /\ rx' = rx /\ Still /\ sent' = sent
  BY DEF KeepWaiting, history, Still
<1>4. /\ Same(HeldIn(stack), HeldIn(stack')) /\ (StartedIn(stack') <=> StartedIn(stack))
      /\ Formed(stack', Queue!SlotOf(head), pending')
  BY <1>1, <1>2, <1>3, AlikeForms DEF EventsIn
<1>5. Same(Detecting, Detecting') /\ (FrontStarted' <=> FrontStarted)
  BY <1>4, StackIs
<1> QED BY <1>3, <1>4, <1>5, WireSame, QuietStep

LEMMA CallStep ==
  ASSUME AnswerInv, EventsIn, NEW op \in Op, Call(op)
  PROVE  EventsKept
<1>1. stack \in Seq(Activation)
  BY DEF AnswerInv, IInv, TypeOK
<1> DEFINE entry == [at |-> "wait", call |-> Len(calls) + 1]
<1>2. stack' = Append(stack, entry) /\ entry.at = "wait"
  BY DEF Call
<1> HIDE DEF entry
<1>3. entry.at # "pop" /\ ~SlotHeld(entry) /\ ~HeldEvent(entry)
  BY <1>2 DEF SlotHeld, HeldEvent
<1>4. NoPopOnTop(stack)
  BY DEF NoPopOnTop, Call, At, Top
<1>5. pending' = pending /\ rx' = rx /\ Still /\ sent' = sent
  BY DEF Call, Still
<1>6. /\ Same(HeldIn(stack), HeldIn(stack')) /\ (StartedIn(stack') <=> StartedIn(stack))
      /\ Formed(stack', Queue!SlotOf(head), pending')
  BY <1>1, <1>2, <1>3, <1>4, <1>5, PushForms DEF EventsIn
<1>7. Same(Detecting, Detecting') /\ (FrontStarted' <=> FrontStarted)
  BY <1>6, StackIs
<1> QED BY <1>5, <1>6, <1>7, WireSame, QuietStep

\* The detect handler returns, with a frame behind it or a slot of the queue.
FrameDone(f) ==
  /\ f \in Frame /\ (HeldEvent(Top) <=> f.kind = "event")
  /\ SwitchDoes(f, Below, pending)
  /\ NoPopOnTop(Below) /\ Formed(Below, Queue!SlotOf(head), pending)
  /\ FrontStarted <=> StartedIn(Below)
  /\ pending /\ "call" \notin HandlerMay => NoPop(Below)
  /\ IF f.kind = "event" THEN Loses(Detecting, HeldIn(Below), f.id)
     ELSE Same(Detecting, HeldIn(Below))

SlotDone ==
  /\ available > 0 /\ Hand(Queue!Message(1).id) /\ UNCHANGED <<ring, dropped>>
  /\ ~FrontStarted /\ FrontStarted' /\ ~HeldEvent(Top)
  /\ Same(Detecting, Detecting') /\ Formed(stack', Queue!SlotOf(head), pending')
  /\ \E a : a.at = "handler" /\ stack' = Append(Below, a)

LEMMA DetectDoneOutcome ==
  ASSUME AnswerInv, PopHeld, EventsIn, TypeOK', Sound', DetectDone
  PROVE  /\ stack # << >> /\ rx' = rx /\ pending' = pending /\ ~overrun
         /\ sent'["event"] = sent["event"]
         /\ FrameDone(Top.data) \/ SlotDone
<1> DEFINE n == Len(stack) - 1
           h == Queue!SlotOf(head)
<1>1. /\ stack # << >> /\ Top.at = "detect" /\ ~Waits(Top)
      /\ UNCHANGED <<detected, pending, rx, esp, calls, overrun, sent>>
  BY DetectDoneDispatches DEF AnswerInv
<1>2. /\ TypeOK /\ pending \in BOOLEAN /\ stack' \in Seq(Activation)
      /\ n \in Nat /\ Len(stack) = n + 1 /\ Top = stack[n + 1] /\ Top \in Activation
      /\ stack \in Seq(Activation) /\ Below \in Seq(Activation) /\ Len(Below) = n
      /\ \A i \in 1..n : Below[i] = stack[i]
  BY <1>1, TopAndBelow DEF AnswerInv, IInv, TypeOK
<1>3. Switch(Data(Top.data), Below, pending)
  BY DEF DetectDone
<1>4. /\ rx' = rx /\ sent'["event"] = sent["event"] /\ pending' = pending
      /\ ~overrun
  BY <1>1 DEF Sound
<1>5. Formed(stack, h, pending)
  BY DEF EventsIn
<1> HIDE DEF n, h
<1>7. Top.data \in Frame \cup [slot : Queue!Slots]
  BY <1>1, <1>2 DEF Activation
<1>8. CASE Top.data \in Frame
  <2> DEFINE f == Top.data
  <2>1. f \in Frame /\ "slot" \notin DOMAIN f /\ Data(f) = f
    BY <1>8 DEF Frame, EventFrame, Data
  <2>2. ~SlotHeld(Top) /\ (HeldEvent(Top) <=> f.kind = "event") /\ Top.at # "pop"
    BY <1>1, <2>1 DEF SlotHeld, HeldEvent
  <2>3. f.kind = "event" => f.id # 0
    BY <2>1, FrameIds
  <2> HIDE DEF f
  <2>4. SwitchDoes(f, Below, pending)
    BY <1>3, <2>1, SwitchOutcome DEF f
  <2>5. /\ f.kind = "event" => Loses(HeldIn(stack), HeldIn(Below), f.id)
        /\ f.kind # "event" => Same(HeldIn(stack), HeldIn(Below))
        /\ StartedIn(Below) <=> StartedIn(stack)
        /\ Formed(Below, h, pending)
        /\ NoPop(stack) => NoPop(Below)
    BY <1>1, <1>2, <1>5, <2>2, <2>3, DropForms DEF f
  <2>6. NoPopOnTop(Below)
    <3> SUFFICES ASSUME Below # << >>, Below[n].at = "pop"
                 PROVE  FALSE
      BY <1>2 DEF NoPopOnTop
    <3>1. n \in 1..n /\ n \in DOMAIN stack /\ n < Len(stack) /\ stack[n].at = "pop"
      BY <1>2
    <3> QED BY <1>1, <1>2, <1>5, <2>2, <3>1 DEF Formed
  <2>7. pending /\ "call" \notin HandlerMay => NoPop(Below)
    <3> SUFFICES ASSUME pending, "call" \notin HandlerMay
                 PROVE  NoPop(Below)
      OBVIOUS
    <3>1. Formed(stack, h, TRUE)
      BY <1>2, <1>5
    <3> QED BY <2>5, <3>1, NothingTakenInCall
  <2>8. IF f.kind = "event" THEN Loses(Detecting, HeldIn(Below), f.id)
        ELSE Same(Detecting, HeldIn(Below))
    BY <2>5, StackIs
  <2>9. FrontStarted <=> StartedIn(Below)
    BY <2>5, StackIs
  <2>10. Formed(Below, Queue!SlotOf(head), pending)
    BY <2>5 DEF h
  <2>11. FrameDone(f)
    BY <2>1, <2>2, <2>4, <2>6, <2>7, <2>8, <2>9, <2>10 DEF FrameDone
  <2> QED BY <1>1, <1>4, <2>11 DEF f
<1>9. CASE Top.data \in [slot : Queue!Slots]
  <2>1. SlotHeld(Top) /\ n + 1 \in DOMAIN stack /\ DOMAIN stack = 1 .. n + 1
    BY <1>1, <1>2, <1>9 DEF SlotHeld
  <2>2. /\ n \in 1..n /\ n \in DOMAIN stack /\ stack[n].at = "pop" /\ Top.data.slot = h
    <3>1. n + 1 > 1 /\ stack[n + 1 - 1].at = "pop" /\ Top.data.slot = h
      BY <1>2, <1>5, <2>1 DEF Formed
    <3>2. n + 1 - 1 = n
      BY <1>2
    <3> QED BY <1>2, <2>1, <3>1, <3>2
  <2>3. available > 0 /\ \A i \in DOMAIN stack : stack[i].at = "pop" => i = n
    BY <1>4, <2>2 DEF PopHeld, Active
  <2>4. ~pending
    <3> SUFFICES ASSUME pending
                 PROVE  FALSE
      OBVIOUS
    <3>1. PICK j \in DOMAIN stack : j > n /\ Waits(stack[j])
      BY <1>5, <2>2 DEF Formed
    <3>2. j = n + 1
      BY <1>2, <2>1, <3>1
    <3> QED BY <1>1, <1>2, <3>1, <3>2
  <2> DEFINE f == Queue!Message(1)
  <2>5. Data(Top.data) = f /\ f \in Frame /\ f.kind = "event"
    <3>1. Data(Top.data) = slot[Queue!SlotOf(head)]
      BY <1>9, <2>2 DEF Data, h
    <3> QED BY <2>3, <3>1, FrontIsFirst DEF EventFrame, Frame, EventsIn
  <2>6. SwitchDoes(f, Below, pending)
    BY <1>3, <2>5, SwitchOutcome
  <2>7. /\ Hand(f.id) /\ UNCHANGED <<ring, dropped>>
        /\ \E a : a.at = "handler" /\ stack' = Append(Below, a)
    BY <2>4, <2>5, <2>6 DEF SwitchDoes
  <2> HIDE DEF f
  <2>8. PICK a : a.at = "handler" /\ stack' = Append(Below, a)
    BY <2>7
  <2>9. /\ Len(stack') = n + 1 /\ stack'[n + 1].at = "handler"
        /\ \A i \in 1..n : stack'[i] = stack[i]
    <3>1. /\ Len(stack') = Len(Below) + 1 /\ stack'[Len(Below) + 1] = a
          /\ \A i \in 1..Len(Below) : stack'[i] = Below[i]
      BY <1>2, <2>8, AppendProperties
    <3> QED BY <1>2, <2>8, <3>1
  <2>10. /\ Same(HeldIn(stack), HeldIn(stack')) /\ StartedIn(stack')
         /\ Formed(stack', h, FALSE)
    BY <1>2, <1>5, <2>1, <2>9, ReplaceForms
  <2>11. ~StartedIn(stack)
    <3>1. n # Len(stack) /\ stack[n + 1].at = "detect"
      BY <1>1, <1>2
    <3> QED BY <2>3, <3>1 DEF StartedIn
  <2>12. pending' = FALSE
    BY <1>2, <1>4, <2>4
  <2>13. /\ Same(Detecting, Detecting') /\ ~FrontStarted /\ FrontStarted'
         /\ Formed(stack', Queue!SlotOf(head), pending')
    <3>1. Same(Detecting, Detecting') /\ ~FrontStarted /\ FrontStarted'
      BY <2>10, <2>11, StackIs
    <3>2. Formed(stack', h, pending')
      BY <2>10, <2>12 DEF Formed
    <3>3. Formed(stack', Queue!SlotOf(head), pending')
      BY <3>2 DEF h
    <3> QED BY <3>1, <3>3
  <2>14. ~HeldEvent(Top)
    BY <2>1 DEF SlotHeld, HeldEvent
  <2>15. SlotDone
    BY <2>3, <2>7, <2>13, <2>14 DEF SlotDone, f
  <2> QED BY <1>1, <1>4, <2>15
<1> QED BY <1>7, <1>8, <1>9

LEMMA DetectDoneStep ==
  ASSUME AnswerInv, PopHeld, EventsIn, TypeOK', Sound', DetectDone
  PROVE  EventsKept
<1>1. /\ stack # << >> /\ rx' = rx /\ pending' = pending /\ ~overrun
      /\ sent'["event"] = sent["event"]
      /\ FrameDone(Top.data) \/ SlotDone
  BY DetectDoneOutcome
<1>2. /\ TypeOK /\ pending \in BOOLEAN /\ Below \in Seq(Activation)
      /\ stack' \in Seq(Activation)
  BY <1>1, TopAndBelow DEF AnswerInv, IInv, TypeOK
<1>3. Same(OnWire, OnWire')
  BY <1>1, WireSame
<1>4. FrontStarted => available > 0
  BY <1>1 DEF PopHeld, FrontStarted, Active
<1>5. CASE FrameDone(Top.data)
  <2> DEFINE f == Top.data
  <2>1. FrameDone(f)
    BY <1>5
  <2> HIDE DEF f
  <2> QED BY <1>1, <1>2, <1>3, <1>4, <2>1, SwitchStep DEF FrameDone
<1>6. CASE SlotDone
  BY <1>1, <1>2, <1>3, <1>6, TakeStep DEF SlotDone
<1> QED BY <1>1, <1>5, <1>6


\* The event at the front leaves the queue; its handler has it already.
LEMMA PopFrontStep ==
  ASSUME AnswerInv, PopHeld, EventsIn, Sound', PopFront
  PROVE  EventsKept
<1> DEFINE n == Len(stack) - 1
<1>1. /\ stack # << >> /\ Top.at = "pop" /\ stack' = Below /\ Queue!PopFront
      /\ UNCHANGED <<pending, rx, delivered, dropped, overrun, sent>>
  BY DEF PopFront, At, history
<1>2. /\ n \in Nat /\ Len(stack) = n + 1 /\ Top = stack[n + 1]
      /\ stack \in Seq(Activation) /\ Below \in Seq(Activation) /\ Len(Below) = n
      /\ \A i \in 1..n : Below[i] = stack[i]
  BY <1>1, TopAndBelow DEF AnswerInv, IInv, TypeOK
<1> HIDE DEF n
<1>3. ~HeldEvent(Top) /\ ~SlotHeld(Top) /\ ~Waits(Top)
  BY <1>1 DEF HeldEvent, SlotHeld, Waits
<1>4. /\ n + 1 \in DOMAIN stack /\ DOMAIN stack = 1 .. n + 1 /\ DOMAIN Below = 1..n
      /\ \A i \in DOMAIN Below : i \in DOMAIN stack /\ i # n + 1
  BY <1>2
<1>5. available > 0 /\ \A i \in DOMAIN stack : stack[i].at = "pop" => i = n + 1
  BY <1>1, <1>2, <1>4 DEF PopHeld, Active, Sound
<1>6. NoPop(Below)
  BY <1>2, <1>4, <1>5 DEF NoPop
<1>7. /\ Same(HeldIn(stack), HeldIn(Below))
      /\ Formed(Below, Queue!SlotOf(head), pending)
  BY <1>2, <1>3, DropForms DEF EventsIn
<1>8. Formed(stack', Queue!SlotOf(head'), pending') /\ ~StartedIn(stack')
  BY <1>1, <1>2, <1>6, <1>7, NoPopForms
<1>9. StartedIn(stack)
  BY <1>1, <1>2, <1>4 DEF StartedIn
<1>10. RingIntact' /\ Same(Waiting, Waiting') /\ Waiting' = Waiting
  BY <1>1, <1>5, <1>8, <1>9, StackIs, FrontPopped DEF EventsIn
<1>11. /\ Same(OnWire, OnWire') /\ Same(Detecting, Detecting')
       /\ Handled' = Handled /\ Same(Handled, Handled')
       /\ dropped' = dropped /\ Same(dropped, dropped')
  BY <1>1, <1>7, StackIs, WireSame, HandledSame DEF Same
<1>12. \A p \in Place : Same(Lists[p], Lists'[p])
  BY <1>10, <1>11, ListsAre DEF Place
<1>13. Parted(Lists', sent'["event"])
  BY <1>1, <1>12, NothingMoves DEF EventsIn
<1>14. EventsIn'
  BY <1>8, <1>10, <1>11, <1>13 DEF EventsIn, Queue!SlotOf
<1>15. Delivers
  BY <1>10, <1>11, HeldBackIs DEF Delivers, Delivery!vars, Same
<1> QED BY <1>14, <1>15 DEF EventsKept

\* The ESP answers, forgets, sends or loses.
LEMMA EspSteps ==
  ASSUME TypeOK, EventsIn, EspStep
  PROVE  EventsKept
<1>1. /\ UNCHANGED <<ring, stack, pending, delivered, dropped>> /\ Still
  BY DEF EspStep, EspAnswer, EspLose, EspEvent, EspRestart, EspOther, client, history, Still
<1>2. /\ Same(Detecting, Detecting') /\ (FrontStarted' <=> FrontStarted)
      /\ Formed(stack', Queue!SlotOf(head), pending')
  BY <1>1, StackIs DEF EventsIn, Same
<1>3. CASE EspEvent
  <2> DEFINE e == sent["event"] + 1
             f == [kind |-> "event", id |-> e]
  <2>1. sent["event"] \in Nat /\ MaxSent["event"] \in Nat /\ sent["event"] < MaxSent["event"]
    BY <1>3, BoundsAssumption DEF EspEvent, MayHappen, TypeOK, Occurrence
  <2>2. e \in 1 .. MaxSent["event"] /\ sent'["event"] = e
    <3>1. sent' = [sent EXCEPT !["event"] = @ + 1] /\ "event" \in DOMAIN sent
      BY <1>3 DEF EspEvent, Count, TypeOK, Occurrence
    <3> QED BY <2>1, <3>1
  <2>3. rx' = Append(rx, f)
    BY <1>3 DEF EspEvent
  <2> HIDE DEF e
  <2>4. f \in Frame /\ f.kind = "event" /\ f.id = e
    BY <2>2 DEF Frame, EventFrame
  <2> HIDE DEF f
  <2>5. Gains(OnWire, OnWire', e)
    BY <2>3, <2>4, WireSent
  <2>6. /\ UNCHANGED ring /\ Same(Waiting, Waiting') /\ Handled' = Handled
        /\ Same(Handled, Handled') /\ dropped' = dropped /\ Same(dropped, dropped')
        /\ head' = head
    BY <1>1, <1>2, QueueSame, HandledSame DEF ring, Same
  <2>7. /\ Gains(Lists["wire"], Lists'["wire"], sent["event"] + 1) /\ "wire" \in Place
        /\ \A p \in Place \ {"wire"} : Same(Lists[p], Lists'[p])
    BY <1>2, <2>5, <2>6, ListsAre DEF Place, e
  <2>8. Parted(Lists', sent["event"] + 1)
    BY <2>1, <2>7, OneComes DEF EventsIn
  <2>9. RingIntact' /\ Formed(stack', Queue!SlotOf(head'), pending')
    BY <1>2, <2>6, RingSame DEF EventsIn
  <2>10. EventsIn'
    BY <2>2, <2>6, <2>8, <2>9 DEF EventsIn, Queue!SlotOf, e
  <2>11. Delivers
    BY <1>1, <1>2, <2>6, QueueSame, HeldBackIs DEF Delivers, Delivery!vars, Same
  <2> QED BY <2>10, <2>11 DEF EventsKept
<1>4. CASE \/ EspAnswer \/ EspLose \/ EspRestart
           \/ \E k \in {"status", "junk", "noise"} : EspOther(k)
  <2>1. sent'["event"] = sent["event"]
    BY <1>4 DEF EspAnswer, EspLose, EspRestart, EspOther, Count, TypeOK, Occurrence
  <2>2. Same(OnWire, OnWire')
    <3>1. CASE EspLose
      BY <3>1, WireSame DEF EspLose
    <3>2. CASE EspAnswer
      <4> DEFINE f == [kind |-> "answer", id |-> Head(esp)]
      <4>1. Head(esp) \in 1..MaxCalls /\ rx' = Append(rx, f)
        BY <3>2, HeadTailProperties DEF EspAnswer, TypeOK
      <4>2. f \in Frame /\ f.kind # "event"
        BY <4>1 DEF Frame
      <4> HIDE DEF f
      <4> QED BY <4>1, <4>2, WireSent
    <3>3. CASE EspRestart \/ \E k \in {"status", "junk", "noise"} : EspOther(k)
      <4>1. PICK k \in {"restart", "status", "junk", "noise"} : rx' = Append(rx, Plain(k))
        BY <3>3 DEF EspRestart, EspOther
      <4>2. Plain(k) \in Frame /\ Plain(k).kind # "event"
        BY DEF Frame, Plain
      <4> QED BY <4>1, <4>2, WireSent
    <3> QED BY <1>4, <3>1, <3>2, <3>3
  <2> QED BY <1>1, <1>2, <2>1, <2>2, QuietStep
<1> QED BY <1>3, <1>4 DEF EspStep


-----------------------------------------------------------------------------
(* The invariant *)

\* What spoils the argument does not go away again.
LEMMA DroppedStays ==
  ASSUME TypeOK, Next
  PROVE  dropped' = << >> => dropped = << >>
<1>0. Queue!FrontMessage.id \in Nat
  BY SlotTypes, BoundsAssumption DEF TypeOK, Queue!FrontMessage, EventFrame, NoFrame, Plain
<1>1. dropped' = dropped \/ dropped' = Append(dropped, Queue!FrontMessage.id)
  <2>1. ASSUME NEW f, NEW base, NEW p, Switch(f, base, p)
        PROVE  dropped' = dropped \/ dropped' = Append(dropped, Queue!FrontMessage.id)
    BY <2>1 DEF Switch, Keep
  <2>2. ASSUME NEW at, NEW base, NEW p, NEW d, ProcessingData(at, base, p, d)
        PROVE  dropped' = dropped \/ dropped' = Append(dropped, Queue!FrontMessage.id)
    BY <2>1, <2>2 DEF ProcessingData
  <2>3. ASSUME NEW base, NEW p, Events(base, p)
        PROVE  dropped' = dropped \/ dropped' = Append(dropped, Queue!FrontMessage.id)
    BY <2>2, <2>3 DEF Events, ReadFrame, Dequeue
  <2>4. CASE LoopPoll \/ HandlerPoll \/ WaitPoll \/ DetectDone
    BY <2>1, <2>3, <2>4 DEF LoopPoll, HandlerPoll, WaitPoll, DetectDone
  <2>5. CASE \/ WaitExpire \/ KeepWaiting \/ TakeAnswer \/ HandlerDone \/ PopFront
             \/ \E op \in Op : Call(op)
    BY <2>5 DEF WaitExpire, KeepWaiting, TakeAnswer, HandlerDone, PopFront, Call, Return, history
  <2>6. CASE EspStep
    BY <2>6 DEF EspStep, EspAnswer, EspLose, EspEvent, EspRestart, EspOther, history
  <2> QED BY <2>4, <2>5, <2>6 DEF Next, ClientStep
<1>2. dropped' # dropped => dropped' # << >>
  <2> SUFFICES ASSUME dropped' = Append(dropped, Queue!FrontMessage.id)
               PROVE  dropped' # << >>
    BY <1>1
  <2> DEFINE e == Queue!FrontMessage.id
  <2>1. dropped \in Seq(Nat) /\ e \in Nat /\ dropped' = Append(dropped, e)
    BY <1>0 DEF TypeOK
  <2> HIDE DEF e
  <2> QED BY <2>1, AppendProperties
<1> QED BY <1>2

LEMMA OverrunStays ==
  ASSUME Next, ~overrun'
  PROVE  ~overrun
<1>1. CASE LoopPoll \/ HandlerPoll \/ WaitPoll
  BY <1>1 DEF LoopPoll, HandlerPoll, WaitPoll, Events
<1>2. CASE \/ WaitExpire \/ KeepWaiting \/ TakeAnswer \/ HandlerDone \/ PopFront \/ DetectDone
           \/ \E op \in Op : Call(op)
  BY <1>2 DEF WaitExpire, KeepWaiting, TakeAnswer, HandlerDone, PopFront, DetectDone, Call,
              Return, history
<1>3. CASE EspStep
  BY <1>3 DEF EspStep, EspAnswer, EspLose, EspEvent, EspRestart, EspOther, history
<1> QED BY <1>1, <1>2, <1>3 DEF Next, ClientStep

LEMMA NextKeepsEventsIn ==
  ASSUME AnswerInv, PopHeld, EventsIn, TypeOK', Sound', Next
  PROVE  EventsKept
<1>1. TypeOK
  BY DEF AnswerInv, IInv
<1>2. CASE LoopPoll
  BY <1>2, LoopPollStep
<1>3. CASE HandlerPoll
  BY <1>3, HandlerPollStep
<1>4. CASE WaitPoll
  BY <1>4, WaitPollStep
<1>5. ASSUME NEW op \in Op, Call(op)
      PROVE  EventsKept
  BY <1>5, CallStep
<1>6. CASE WaitExpire \/ TakeAnswer
  <2>1. /\ stack # << >> /\ Top.at \in {"wait", "check"}
        /\ \E r, g : Return(r, g)
    BY <1>6 DEF WaitExpire, TakeAnswer, At
  <2>2. stack' = Below /\ pending' = FALSE /\ UNCHANGED <<ring, delivered, dropped, rx, sent>>
    BY <2>1 DEF Return
  <2> QED BY <1>1, <2>1, <2>2, EndStep
<1>7. CASE KeepWaiting
  BY <1>7, KeepWaitingStep
<1>8. CASE DetectDone
  BY <1>8, DetectDoneStep
<1>9. CASE HandlerDone
  <2>1. /\ stack # << >> /\ Top.at = "handler" /\ stack' = Below /\ pending' = pending
        /\ UNCHANGED <<ring, delivered, dropped, rx, sent>>
    BY <1>9 DEF HandlerDone, At, history
  <2>2. ~Waits(Top)
    BY <2>1 DEF Waits
  <2> QED BY <1>1, <2>1, <2>2, EndStep
<1>10. CASE PopFront
  BY <1>10, PopFrontStep
<1>11. CASE EspStep
  BY <1>1, <1>11, EspSteps
<1> QED BY <1>2, <1>3, <1>4, <1>5, <1>6, <1>7, <1>8, <1>9, <1>10, <1>11 DEF Next, ClientStep

LEMMA NextKeepsEvents ==
  ASSUME EventInv, [Next]_vars
  PROVE  EventInv'
<1>1. AnswerInv /\ AnswerInv' /\ IInv /\ TypeOK /\ TypeOK' /\ PopHeld
  BY NextKeepsAnswers DEF EventInv, AnswerInv, IInv
<1>2. CASE Next
  <2>1. PopHeld'
    BY <1>1, <1>2, NextKeepsPopHeld
  <2>2. Sound' => Sound
    BY <1>1, <1>2, DroppedStays, OverrunStays DEF Sound
  <2>3. Sound' => EventsIn'
    BY <1>1, <1>2, <2>2, NextKeepsEventsIn DEF EventInv, EventsKept
  <2> QED BY <1>1, <2>1, <2>3 DEF EventInv
<1>3. CASE UNCHANGED vars
  <2>1. UNCHANGED <<stack, overrun, ring, dropped, delivered, rx, sent, pending>>
    BY <1>3 DEF vars, client, history
  <2>2. PopHeld'
    BY <1>1, <2>1 DEF ring, PopHeld, Active
  <2>3. Sound' => Sound
    BY <2>1 DEF Sound
  <2>4. EventsIn => EventsIn'
    <3> SUFFICES ASSUME EventsIn
                 PROVE  EventsIn'
      OBVIOUS
    <3>1. /\ Same(OnWire, OnWire') /\ Still /\ sent'["event"] = sent["event"]
      BY <2>1, WireSame DEF Still
    <3>2. /\ Same(Detecting, Detecting') /\ (FrontStarted' <=> FrontStarted)
          /\ Formed(stack', Queue!SlotOf(head), pending')
      BY <2>1, StackIs DEF EventsIn, Same
    <3> QED BY <3>1, <3>2, QuietStep DEF EventsKept
  <2> QED BY <1>1, <2>2, <2>3, <2>4 DEF EventInv
<1> QED BY <1>2, <1>3

LEMMA InitEvents == Init => EventInv
<1> SUFFICES ASSUME Init
             PROVE  EventInv
  OBVIOUS
<1>1. AnswerInv /\ TypeOK
  BY InitAnswers DEF AnswerInv, IInv
<1>2. /\ DOMAIN stack = {} /\ DOMAIN rx = {} /\ DOMAIN delivered = {} /\ DOMAIN dropped = {}
      /\ sent["event"] = 0 /\ pending = FALSE
  BY DEF Init, Occurrence
<1>3. PopHeld
  BY <1>2 DEF PopHeld, Active
<1>4. RingIntact
  <2>1. available = 0 /\ head = 0 /\ tail = 0 /\ 1..0 = {}
    BY DEF Init, Queue!Init
  <2>2. Queue!TypeOK
    BY <1>1 DEF TypeOK
  <2>3. Queue!CounterAgrees
    BY <2>1, QueueSize DEF Queue!CounterAgrees, Queue!Ahead
  <2>4. Queue!StoredIsWritten
    BY <2>1 DEF Queue!StoredIsWritten
  <2> QED BY <2>2, <2>3, <2>4 DEF RingIntact
<1>5. ~FrontStarted /\ Formed(stack, Queue!SlotOf(head), pending)
  BY <1>2 DEF FrontStarted, Formed
<1>6. \A p \in Place : DOMAIN Lists[p] = {}
  <2>1. DOMAIN Waiting = {}
    <3>1. available = 0 /\ available - 0 = 0 /\ 1..0 = {}
      BY DEF Init, Queue!Init
    <3>2. DOMAIN Waiting = 1 .. available - Lag /\ Lag = 0
      BY <1>4, <1>5, WaitingIs DEF RingIntact, Lag
    <3> QED BY <3>1, <3>2
  <2>2. DOMAIN OnWire = {} /\ DOMAIN Detecting = {} /\ DOMAIN Handled = {} /\ DOMAIN dropped = {}
    BY <1>2 DEF OnWire, Detecting, Handled
  <2> QED BY <2>1, <2>2, ListsAre DEF Place
<1>7. Parted(Lists, sent["event"])
  <2>1. \A p \in Place : Ids(Lists[p]) = {} /\ Once(Lists[p])
    BY <1>6 DEF Ids, Once
  <2>2. 1..sent["event"] = {}
    BY <1>2
  <2> QED BY <2>1, <2>2 DEF Parted
<1>8. Range(Handled) = {} /\ Range(dropped) = {}
  <2>1. DOMAIN Handled = {} /\ DOMAIN dropped = {}
    BY <1>2 DEF Handled
  <2> QED BY <2>1 DEF Range
<1> QED BY <1>1, <1>3, <1>4, <1>5, <1>7, <1>8 DEF EventInv, EventsIn

\* What the lists say, said of the places of an event.
LEMMA PlacesCounted ==
  ASSUME TypeOK, EventsIn
  PROVE  EventsAccountedFor
<1> SUFFICES ASSUME NEW e \in 1 .. MaxSent["event"]
             PROVE  Cardinality(Places(e)) = IF e <= sent["event"] THEN 1 ELSE 0
  BY DEF EventsAccountedFor, EventsIn
<1>1. e \in Nat /\ e # 0 /\ sent["event"] \in Nat
  BY BoundsAssumption DEF TypeOK, Occurrence
<1>2. e \in 1..sent["event"] <=> e <= sent["event"]
  BY <1>1
<1>3. Places(e) = {s \in Place \X UNION {DOMAIN Lists[p] : p \in Place} :
                     s[2] \in DOMAIN Lists[s[1]] /\ Lists[s[1]][s[2]] = e}
  BY ListsAre DEF Places, Place
<1>4. ASSUME NEW p \in Place, NEW i \in DOMAIN Lists[p], Lists[p][i] = e
      PROVE  <<p, i>> \in Places(e) /\ e \in Ids(Lists[p])
  BY <1>1, <1>3, <1>4 DEF Ids
<1>5. ASSUME NEW s \in Places(e)
      PROVE  /\ s = <<s[1], s[2]>> /\ s[1] \in Place
             /\ s[2] \in DOMAIN Lists[s[1]] /\ Lists[s[1]][s[2]] = e
             /\ e \in Ids(Lists[s[1]])
  BY <1>1, <1>3, <1>5 DEF Ids
<1>6. CASE e <= sent["event"]
  <2>1. PICK p \in Place : e \in Ids(Lists[p])
    BY <1>2, <1>6 DEF EventsIn, Parted
  <2>2. PICK i \in DOMAIN Lists[p] : Lists[p][i] = e
    BY <2>1 DEF Ids
  <2>3. \A s \in Places(e) : s = <<p, i>>
    <3> SUFFICES ASSUME NEW s \in Places(e)
                 PROVE  s = <<p, i>>
      OBVIOUS
    <3>1. s[1] = p
      BY <1>5, <2>1 DEF EventsIn, Parted
    <3>2. s[2] = i
      BY <1>1, <1>5, <2>2, <3>1 DEF EventsIn, Parted, Once
    <3> QED BY <1>5, <3>1, <3>2
  <2>4. Places(e) = {<<p, i>>}
    BY <1>4, <2>2, <2>3
  <2> QED BY <1>6, <2>4, FS_Singleton
<1>7. CASE ~(e <= sent["event"])
  <2>1. \A p \in Place : e \notin Ids(Lists[p])
    BY <1>2, <1>7 DEF EventsIn, Parted
  <2>2. Places(e) = {}
    BY <1>5, <2>1
  <2> QED BY <1>7, <2>2, FS_EmptySet
<1> QED BY <1>6, <1>7

-----------------------------------------------------------------------------
(* The order of events on the wire *)

LEMMA RisingOnce ==
  ASSUME TypeOK, Ordered
  PROVE  Once(OnWire)
<1> SUFFICES ASSUME NEW i \in DOMAIN OnWire, NEW j \in DOMAIN OnWire,
                    OnWire[i] = OnWire[j], OnWire[i] # 0
             PROVE  i = j
  BY DEF Once
<1>1. DOMAIN OnWire = 1..Len(rx) /\ Len(rx) \in Nat
  BY DEF OnWire, TypeOK
<1>2. OnWire[i] \in 1..sent["event"] /\ OnWire[j] \in 1..sent["event"]
  BY DEF Ids, Ordered
<1>3. ~(i < j) /\ ~(j < i)
  BY <1>2 DEF Ordered, Rising
<1> QED BY <1>1, <1>3

\* Reading keeps the order, and what is read came first.
LEMMA ReadRising ==
  ASSUME TypeOK, Ordered, rx # << >>, rx' = Tail(rx)
  PROVE  /\ Rising(OnWire')
         /\ Head(rx).kind = "event" => \A w \in Ids(OnWire') : Head(rx).id < w
<1> DEFINE n == Len(rx) - 1
<1>1. /\ n \in Nat /\ DOMAIN rx = 1 .. n + 1 /\ DOMAIN rx' = 1..n
      /\ \A i \in 1..n : rx'[i] = rx[i + 1]
      /\ Head(rx) = rx[1] /\ Head(rx) \in Frame
  BY HeadTailProperties DEF TypeOK
<1> HIDE DEF n
<1>2. /\ DOMAIN OnWire = 1 .. n + 1 /\ DOMAIN OnWire' = 1..n
      /\ \A i \in 1..n : OnWire'[i] = OnWire[i + 1]
      /\ OnWire[1] = IF Head(rx).kind = "event" THEN Head(rx).id ELSE 0
  BY <1>1 DEF OnWire
<1>3. /\ 1 \in 1 .. n + 1 /\ \A i \in 1..n : i + 1 \in 1 .. n + 1 /\ 1 < i + 1
      /\ \A i, j \in 1..n : i < j => i + 1 < j + 1
  BY <1>1
<1>4. Rising(OnWire')
  BY <1>2, <1>3 DEF Rising, Ordered
<1>5. ASSUME Head(rx).kind = "event", NEW w \in Ids(OnWire')
      PROVE  Head(rx).id < w
  <2>1. OnWire[1] = Head(rx).id /\ Head(rx).id # 0
    BY <1>1, <1>2, <1>5, FrameIds
  <2> QED BY <1>2, <1>3, <1>5, <2>1 DEF Ids, Rising, Ordered
<1> QED BY <1>4, <1>5

\* So does sending a frame that is no event, or a later event.
LEMMA SentRising ==
  ASSUME TypeOK, Rising(OnWire), NEW f \in Frame, rx' = Append(rx, f),
         f.kind = "event" => \A w \in Ids(OnWire) : w < f.id
  PROVE  /\ Rising(OnWire')
         /\ Ids(OnWire') = IF f.kind = "event" THEN Ids(OnWire) \cup {f.id} ELSE Ids(OnWire)
<1> DEFINE n == Len(rx)
<1>1. /\ n \in Nat /\ DOMAIN rx = 1..n /\ DOMAIN rx' = 1 .. n + 1
      /\ \A i \in 1..n : rx'[i] = rx[i]
      /\ rx'[n + 1] = f
  BY AppendProperties DEF TypeOK
<1> HIDE DEF n
<1>2. /\ DOMAIN OnWire = 1..n /\ DOMAIN OnWire' = 1 .. n + 1
      /\ \A i \in 1..n : OnWire'[i] = OnWire[i]
      /\ OnWire'[n + 1] = IF f.kind = "event" THEN f.id ELSE 0
  BY <1>1 DEF OnWire
<1>3. Ids(OnWire') = IF f.kind = "event" THEN Ids(OnWire) \cup {f.id} ELSE Ids(OnWire)
  BY WireSent DEF Gains, Same
<1>4. Rising(OnWire')
  <2> SUFFICES ASSUME NEW i \in 1 .. n + 1, NEW j \in 1 .. n + 1, i < j,
                      OnWire'[i] # 0, OnWire'[j] # 0
               PROVE  OnWire'[i] < OnWire'[j]
    BY <1>2 DEF Rising
  <2>1. i \in 1..n /\ i \in DOMAIN OnWire /\ (j = n + 1 \/ j \in 1..n)
    BY <1>1, <1>2
  <2>2. CASE j = n + 1
    <3>1. f.kind = "event" /\ OnWire'[j] = f.id
      BY <1>2, <2>2
    <3>2. OnWire'[i] = OnWire[i] /\ OnWire[i] \in Ids(OnWire)
      BY <1>2, <2>1 DEF Ids
    <3> QED BY <3>1, <3>2
  <2>3. CASE j \in 1..n
    BY <1>2, <2>1, <2>3 DEF Rising
  <2> QED BY <2>1, <2>2, <2>3
<1> QED BY <1>3, <1>4

\* What a step does to the wire.
LEMMA WireSteps ==
  ASSUME TypeOK, [Next]_vars
  PROVE  \/ rx' = rx /\ sent'["event"] = sent["event"]
         \/ rx # << >> /\ rx' = Tail(rx) /\ sent'["event"] = sent["event"]
         \/ \E f \in Frame : f.kind # "event" /\ rx' = Append(rx, f) /\ sent'["event"] = sent["event"]
         \/ \E f \in Frame : /\ f.kind = "event" /\ f.id = sent["event"] + 1
                            /\ rx' = Append(rx, f) /\ sent'["event"] = f.id
<1>0. sent \in [Occurrence -> Nat] /\ "event" \in Occurrence /\ MaxSent["event"] \in Nat
  BY BoundsAssumption DEF TypeOK, Occurrence
<1>1. CASE LoopPoll \/ HandlerPoll \/ WaitPoll
  <2>1. PICK base, p : Events(base, p)
    BY <1>1 DEF LoopPoll, HandlerPoll, WaitPoll
  <2>2. sent'["event"] = sent["event"]
    BY <1>0, <2>1 DEF Events, Count
  <2> QED BY <2>1, <2>2 DEF Events, ReadFrame
<1>2. CASE \/ WaitExpire \/ KeepWaiting \/ TakeAnswer \/ HandlerDone \/ PopFront \/ DetectDone
           \/ \E op \in Op : Call(op)
  BY <1>2 DEF WaitExpire, KeepWaiting, TakeAnswer, HandlerDone, PopFront, DetectDone, Call,
              Return, history
<1>3. CASE EspEvent
  <2> DEFINE f == [kind |-> "event", id |-> sent["event"] + 1]
  <2>1. rx' = Append(rx, f) /\ sent'["event"] = f.id
    BY <1>0, <1>3 DEF EspEvent, Count
  <2>2. f \in Frame /\ f.kind = "event" /\ f.id = sent["event"] + 1
    BY <1>0, <1>3 DEF EspEvent, MayHappen, Frame, EventFrame
  <2> HIDE DEF f
  <2> QED BY <2>1, <2>2
<1>4. CASE EspAnswer
  <2> DEFINE f == [kind |-> "answer", id |-> Head(esp)]
  <2>1. Head(esp) \in 1..MaxCalls /\ rx' = Append(rx, f) /\ sent' = sent
    BY <1>4, HeadTailProperties DEF EspAnswer, TypeOK
  <2>2. f \in Frame /\ f.kind # "event"
    BY <2>1 DEF Frame
  <2> HIDE DEF f
  <2> QED BY <2>1, <2>2
<1>5. CASE EspRestart \/ \E k \in {"status", "junk", "noise"} : EspOther(k)
  <2>1. PICK k \in {"restart", "status", "junk", "noise"} :
          rx' = Append(rx, Plain(k)) /\ sent' = Count(k)
    BY <1>5 DEF EspRestart, EspOther
  <2>2. Plain(k) \in Frame /\ Plain(k).kind # "event" /\ sent'["event"] = sent["event"]
    BY <1>0, <2>1 DEF Frame, Plain, Count
  <2> QED BY <2>1, <2>2
<1>6. CASE EspLose
  BY <1>0, <1>6 DEF EspLose, Count
<1>7. CASE UNCHANGED vars
  BY <1>7 DEF vars
<1> QED BY <1>1, <1>2, <1>3, <1>4, <1>5, <1>6, <1>7 DEF Next, ClientStep, EspStep

LEMMA NextKeepsOrder ==
  ASSUME TypeOK, Ordered, [Next]_vars
  PROVE  Ordered'
<1>0. sent["event"] \in Nat
  BY DEF TypeOK, Occurrence
<1>1. CASE rx' = rx /\ sent'["event"] = sent["event"]
  <2>1. OnWire' = OnWire
    BY <1>1 DEF OnWire
  <2> QED BY <1>1, <2>1 DEF Ordered
<1>2. CASE rx # << >> /\ rx' = Tail(rx) /\ sent'["event"] = sent["event"]
  <2>1. /\ Rising(OnWire')
        /\ Head(rx).kind = "event" => \A w \in Ids(OnWire') : Head(rx).id < w
    BY <1>2, ReadRising
  <2>2. Ids(OnWire') = IF Head(rx).kind = "event" THEN Ids(OnWire) \ {Head(rx).id}
                       ELSE Ids(OnWire)
    BY <1>2, WireRead, RisingOnce DEF Loses, Same
  <2> QED BY <1>2, <2>1, <2>2 DEF Ordered
<1>3. ASSUME NEW f \in Frame, f.kind # "event", rx' = Append(rx, f),
             sent'["event"] = sent["event"]
      PROVE  Ordered'
  BY <1>3, SentRising DEF Ordered
<1>4. ASSUME NEW f \in Frame, f.kind = "event", f.id = sent["event"] + 1,
             rx' = Append(rx, f), sent'["event"] = f.id
      PROVE  Ordered'
  <2>1. \A r \in 1..sent["event"] : r < f.id
    BY <1>0, <1>4
  <2>2. Rising(OnWire') /\ Ids(OnWire') = Ids(OnWire) \cup {f.id}
    BY <1>4, <2>1, SentRising DEF Ordered
  <2>3. \A r \in 1..sent'["event"] : r = f.id \/ r \in 1..sent["event"]
    BY <1>0, <1>4
  <2>4. 1..sent["event"] \subseteq 1..sent'["event"] /\ f.id \in 1..sent'["event"]
    BY <1>0, <1>4
  <2>5. ASSUME NEW w \in Ids(OnWire'), NEW r \in 1..sent'["event"]
        PROVE  r \in Ids(OnWire') \/ r < w
    BY <2>1, <2>2, <2>3, <2>5 DEF Ordered
  <2>6. Ids(OnWire') \subseteq 1..sent'["event"]
    BY <2>2, <2>4 DEF Ordered
  <2> QED BY <2>2, <2>5, <2>6 DEF Ordered
<1> QED BY <1>1, <1>2, <1>3, <1>4, WireSteps

LEMMA InitDelivers ==
  ASSUME Init
  PROVE  Delivery!Init /\ Ordered
<1>1. TypeOK /\ EventInv /\ EventsIn
  BY InitEvents DEF EventInv, AnswerInv, IInv, Init, Sound
<1>2. stack = << >> /\ rx = << >> /\ delivered = << >> /\ dropped = << >> /\ DOMAIN << >> = {}
  BY DEF Init
<1>3. available = 0 /\ 1..0 = {} /\ Size \in Nat
  BY QueueSize DEF Init, Queue!Init
<1>4. ~FrontStarted /\ Lag = 0
  BY <1>2 DEF FrontStarted, Lag
<1>5. DOMAIN Waiting = {} /\ Waiting = << >>
  BY <1>1, <1>3, <1>4, WaitingIs DEF EventsIn, RingIntact, Waiting
<1>6. Handled = << >> /\ DOMAIN OnWire = {} /\ DOMAIN Detecting = {}
  BY <1>2 DEF Handled, OnWire, Detecting
<1>7. HeldBack = {} /\ Ids(OnWire) = {}
  BY <1>6, HeldBackIs DEF Ids
<1> QED BY <1>2, <1>5, <1>6, <1>7 DEF Delivery!Init, Ordered, Rising

\* As long as the argument holds each step is one of EventDelivery.
LEMMA NextDelivers ==
  ASSUME EventInv, EventInv', Ordered, [Next]_vars, Sound'
  PROVE  Delivers
<1>1. AnswerInv /\ PopHeld /\ TypeOK /\ TypeOK'
  BY DEF EventInv, AnswerInv, IInv
<1>2. CASE Next
  <2>1. Sound
    BY <1>1, <1>2, DroppedStays, OverrunStays DEF Sound
  <2> QED BY <1>1, <1>2, <2>1, NextKeepsEventsIn DEF EventInv, EventsKept
<1>3. CASE UNCHANGED vars
  <2>1. Still /\ stack' = stack
    BY <1>3 DEF vars, client, history, Still, ring
  <2>2. Waiting' = Waiting /\ Handled' = Handled /\ HeldBack' = HeldBack
    <3>1. Detecting' = Detecting /\ (FrontStarted' <=> FrontStarted)
      BY <2>1, StackIs
    <3> QED BY <2>1, <3>1, QueueSame, HandledSame, HeldBackIs DEF Still
  <2> QED BY <2>1, <2>2 DEF Delivers, Delivery!vars, Still
<1> QED BY <1>2, <1>3

-----------------------------------------------------------------------------
(* The theorems *)

\* Every reachable state satisfies the inductive invariant.
THEOREM EventInvariant == Spec => []EventInv
BY InitEvents, NextKeepsEvents, PTL DEF Spec

\* Whatever handlers do, no event is lost or handled twice while none was overwritten
\* in a full queue and no handler of a queued event has run events() itself: each is
\* on the wire, behind the detect handler, in the queue or with its handler, once.
THEOREM EventsAreSafeUntilOverflow == Spec => []EventsSafeUntilOverflow
<1>1. EventInv => EventsSafeUntilOverflow
  BY PlacesCounted DEF EventInv, AnswerInv, IInv, Sound, EventsSafeUntilOverflow
<1> QED BY EventInvariant, <1>1, PTL

\* When handlers make no calls (they may run events(), as the examples do) the events
\* are accounted for also once a full queue has overwritten some, until events() runs
\* on top of a queued event that is being handled.
THEOREM EventsAreAccountedFor ==
  ASSUME "call" \notin HandlerMay
  PROVE  Spec => []EventsAccountedUntilOverrun
<1>1. EventInv => EventsAccountedUntilOverrun
  BY PlacesCounted DEF EventInv, AnswerInv, IInv, Sound, EventsAccountedUntilOverrun
<1> QED BY EventInvariant, <1>1, PTL

\* The wire stays in order.
LEMMA WireOrder == Spec => [](EventInv /\ Ordered)
<1>1. Init => Ordered
  BY InitDelivers
<1>2. EventInv /\ Ordered /\ [Next]_vars => Ordered'
  BY NextKeepsOrder DEF EventInv, AnswerInv, IInv
<1> QED BY EventInvariant, <1>1, <1>2, PTL DEF Spec

\* Whatever handlers do, the link goes step by step the way of EventDelivery until an
\* event is overwritten in a full queue or events() runs on top of a queued event that
\* is being handled: an event that reaches the library is handed over at once, kept or
\* held up behind the detect handler, only held events are overtaken by later ones,
\* and kept events are handled from the front and once, also when a call in a handler
\* keeps further events behind the one that is being handled.
THEOREM EventsAreDeliveredInOrder == Spec => DeliveryUntilOverflow
<1>1. Init => Delivery!Init
  BY InitDelivers
<1>2. EventInv /\ Ordered /\ EventInv' /\ [Next]_vars
        => [overrun' \/ dropped' # << >> \/ Delivery!Next]_(Delivery!vars)
  <2> SUFFICES ASSUME EventInv, Ordered, EventInv', [Next]_vars, ~overrun', dropped' = << >>
               PROVE  [Delivery!Next]_(Delivery!vars)
    OBVIOUS
  <2>1. Sound'
    BY DEF Sound
  <2> QED BY <2>1, NextDelivers DEF Delivers
<1> QED BY WireOrder, <1>1, <1>2, PTL DEF Spec, DeliveryUntilOverflow

\* When handlers make no calls the link keeps to EventDelivery past the overwriting in
\* a full queue too: it gives up the front only, for a new event.
THEOREM EventsAreDelivered ==
  ASSUME "call" \notin HandlerMay
  PROVE  Spec => DeliveryKept
<1>1. Init => Delivery!Init
  BY InitDelivers
<1>2. EventInv /\ Ordered /\ EventInv' /\ [Next]_vars
        => [overrun' \/ Delivery!Next]_(Delivery!vars)
  <2> SUFFICES ASSUME EventInv, Ordered, EventInv', [Next]_vars, ~overrun'
               PROVE  [Delivery!Next]_(Delivery!vars)
    OBVIOUS
  <2>1. Sound'
    BY DEF Sound
  <2> QED BY <2>1, NextDelivers DEF Delivers
<1> QED BY WireOrder, <1>1, <1>2, PTL DEF Spec, DeliveryKept

=============================================================================
