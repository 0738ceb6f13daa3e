-------------------------- MODULE Teensquitto_proofs --------------------------
(***************************************************************************)
(* Proofs about the link, for every size of the queue, every set of calls, *)
(* every behaviour of handlers and every bound: the types of the state,    *)
(* what a waiting call may rely on, and which call returns with which      *)
(* answer.                                                                 *)
(***************************************************************************)
EXTENDS TeensquittoProps, SequenceTheorems, TLAPS

Passive == {"handler", "detect", "pop", "spin"}

\* The stack is base with activations above it that do not wait.
Grows(base) ==
  /\ Len(stack') >= Len(base)
  /\ \A i \in 1..Len(base) : stack'[i] = base[i]
  /\ \A i \in Len(base) + 1 .. Len(stack') : stack'[i].at \in Passive

\* The parts of TypeOK that processing_data() can disturb.
DispatchTypes ==
  /\ detected \in BOOLEAN
  /\ ready \in BOOLEAN
  /\ storage \in 0..MaxCalls
  /\ Queue!TypeOK
  /\ stack \in Seq(Activation)
  /\ delivered \in Seq([id : Nat, via : {"queue", "wire"}])
  /\ dropped \in Seq(Nat)

\* A handler above base has just started, and it is on top.
NewHandlerOnTop(base) ==
  \A i \in Len(base) + 1 .. Len(stack') :
    stack'[i].at = "handler" => i = Len(stack') /\ stack'[i].event = Last(delivered').id

\* The queue is left alone, or an event is kept in it.
RingStep == UNCHANGED ring \/ \E f \in EventFrame : Queue!PushBack(f)

\* No further event is taken from the queue, or one at most, which is there.
NoNewPop(base) == \A i \in Len(base) + 1 .. Len(stack') : stack'[i].at # "pop"

NewPop(base, p) ==
  \A i \in Len(base) + 1 .. Len(stack') :
    stack'[i].at = "pop" => i = Len(base) + 1 /\ ~p /\ available > 0

\* What processing_data() and the code around it do when they are called by the
\* activations in base with _pendingData = p.
Dispatched(base, p) ==
  /\ DispatchTypes'
  /\ Grows(base)
  /\ NewHandlerOnTop(base)
  /\ RingStep
  /\ delivered' # delivered => ~p

-----------------------------------------------------------------------------
(* The queue keeps its types, even when it is popped empty. *)

LEMMA QueueIndices ==
  ASSUME NEW i \in Queue!Index, NEW n \in Nat
  PROVE  Queue!Ahead(i, n) \in Queue!Index
BY QueueAssumption DEF Queue!Ahead, Queue!Index

LEMMA PushTypes ==
  ASSUME Queue!TypeOK, NEW f \in EventFrame, Queue!PushBack(f)
  PROVE  Queue!TypeOK'
<1>1. head' \in Queue!Index /\ tail' \in Queue!Index
  BY QueueIndices DEF Queue!TypeOK, Queue!PushBack
<1>2. available' \in 0..Size
  BY QueueAssumption DEF Queue!TypeOK, Queue!PushBack, Queue!OneMore
<1>3. slot' \in [Queue!Slots -> EventFrame \cup {NoFrame}]
  BY DEF Queue!TypeOK, Queue!PushBack
<1> QED BY <1>1, <1>2, <1>3 DEF Queue!TypeOK, Queue!Index, Queue!Slots

LEMMA PopTypes ==
  ASSUME Queue!TypeOK, Queue!PopFront
  PROVE  Queue!TypeOK'
<1>1. head' \in Queue!Index
  BY QueueIndices DEF Queue!TypeOK, Queue!PopFront
<1>2. available' \in 0..Size
  BY QueueAssumption DEF Queue!TypeOK, Queue!PopFront, Queue!OneLess
<1> QED BY <1>1, <1>2 DEF Queue!TypeOK, Queue!PopFront, Queue!Index, Queue!Slots

LEMMA QueueUnchanged ==
  ASSUME Queue!TypeOK, UNCHANGED ring
  PROVE  Queue!TypeOK'
BY DEF Queue!TypeOK, ring, Queue!Index, Queue!Slots

\* What lies in a slot is an event or was never written.
LEMMA SlotTypes ==
  ASSUME Queue!TypeOK
  PROVE  /\ \A s \in Queue!Slots : slot[s] \in EventFrame \cup {NoFrame}
         /\ Queue!SlotOf(head) \in Queue!Slots
<1>1. Queue!SlotOf(head) \in Queue!Slots
  BY QueueAssumption DEF Queue!TypeOK, Queue!SlotOf, Queue!Slots, Queue!Index
<1> QED BY <1>1 DEF Queue!TypeOK

-----------------------------------------------------------------------------
(* Dispatch *)

LEMMA SwitchDispatches ==
  ASSUME TypeOK, NEW f \in Frame \cup {NoFrame}, NEW base \in Seq(Activation),
         NEW p \in BOOLEAN, detected' \in BOOLEAN, Switch(f, base, p)
  PROVE  Dispatched(base, p) /\ NoNewPop(base)
<1>1. CASE /\ f.kind = "answer"
           /\ storage' = f.id /\ ready' = TRUE /\ stack' = base
           /\ UNCHANGED <<ring, delivered, dropped>>
  <2>1. f.id \in 0..MaxCalls
    BY <1>1, BoundsAssumption DEF Frame, EventFrame, NoFrame, Plain
  <2> QED BY <1>1, <2>1, QueueUnchanged
          DEF Dispatched, DispatchTypes, Grows, NewHandlerOnTop, RingStep, NoNewPop, TypeOK
<1>2. CASE /\ f.kind = "event" /\ p
           /\ Keep(f) /\ stack' = base
           /\ UNCHANGED <<storage, ready, delivered>>
  <2>1. f \in EventFrame
    BY <1>2 DEF Frame, NoFrame, Plain
  <2>2. Queue!TypeOK'
    BY <1>2, <2>1, PushTypes DEF TypeOK, Keep
  <2>3. Queue!FrontMessage.id \in Nat
    BY SlotTypes, BoundsAssumption DEF TypeOK, Queue!FrontMessage, EventFrame, NoFrame, Plain
  <2>4. dropped' \in Seq(Nat)
    BY <1>2, <2>3 DEF Keep, TypeOK
  <2>5. RingStep
    BY <1>2, <2>1 DEF Keep, RingStep
  <2> QED BY <1>2, <2>2, <2>4, <2>5
          DEF Dispatched, DispatchTypes, Grows, NewHandlerOnTop, NoNewPop, TypeOK
<1>3. CASE /\ f.kind = "event" /\ ~p
           /\ StartHandler(f, base)
           /\ UNCHANGED <<storage, ready, ring, dropped>>
  <2>1. f \in EventFrame
    BY <1>3 DEF Frame, NoFrame, Plain
  <2>2. f.id \in Nat
    BY <2>1, BoundsAssumption DEF EventFrame
  <2>3. delivered' \in Seq([id : Nat, via : {"queue", "wire"}])
    BY <1>3, <2>2 DEF StartHandler, TypeOK
  <2> DEFINE entry == [at |-> "handler", event |-> f.id]
  <2>4. /\ entry \in Activation /\ entry.at = "handler" /\ entry.event = f.id
        /\ stack' = Append(base, entry)
    BY <1>3, <2>1 DEF StartHandler, Activation, EventFrame
  <2>5. Last(delivered').id = f.id
    <3> DEFINE record == [id |-> f.id,
                          via |-> IF base # << >> /\ Last(base).at = "pop" THEN "queue" ELSE "wire"]
    <3>1. delivered' = Append(delivered, record) /\ record.id = f.id
      BY <1>3 DEF StartHandler
    <3> HIDE DEF record
    <3>2. delivered' # << >> /\ delivered'[Len(delivered')] = record
      BY <2>3, <3>1 DEF TypeOK
    <3> QED BY <3>1, <3>2 DEF Last
  <2> HIDE DEF entry
  <2>6. /\ stack' \in Seq(Activation) /\ Len(stack') = Len(base) + 1
        /\ stack'[Len(base) + 1] = entry
        /\ \A i \in 1..Len(base) : stack'[i] = base[i]
    BY <2>4
  <2>7. Grows(base) /\ NewHandlerOnTop(base) /\ NoNewPop(base)
    BY <2>4, <2>5, <2>6 DEF Grows, NewHandlerOnTop, NoNewPop, Passive
  <2> QED BY <1>3, <2>3, <2>6, <2>7, QueueUnchanged
          DEF Dispatched, DispatchTypes, RingStep, TypeOK
<1>4. CASE /\ f.kind \in {"status", "restart"}
           /\ stack' = base
           /\ UNCHANGED <<storage, ready, ring, delivered, dropped>>
  BY <1>4, QueueUnchanged
  DEF Dispatched, DispatchTypes, Grows, NewHandlerOnTop, RingStep, NoNewPop, TypeOK
<1>5. CASE /\ f.kind = "none"
           /\ stack' = Append(base, [at |-> "spin"])
           /\ UNCHANGED <<storage, ready, ring, delivered, dropped>>
  <2>1. [at |-> "spin"] \in Activation
    BY DEF Activation
  <2> QED BY <1>5, <2>1, QueueUnchanged
          DEF Dispatched, DispatchTypes, Grows, NewHandlerOnTop, RingStep, NoNewPop,
              TypeOK, Passive
<1> QED BY <1>1, <1>2, <1>3, <1>4, <1>5 DEF Switch

LEMMA DataTypes ==
  ASSUME Queue!TypeOK, NEW at \in Frame \cup [slot : Queue!Slots]
  PROVE  Data(at) \in Frame \cup {NoFrame}
<1>1. CASE at \in Frame
  <2>1. "slot" \notin DOMAIN at
    BY <1>1 DEF Frame, EventFrame
  <2> QED BY <1>1, <2>1 DEF Data
<1>2. CASE at \in [slot : Queue!Slots]
  <2>1. "slot" \in DOMAIN at /\ at.slot \in Queue!Slots
    BY <1>2
  <2> QED BY <2>1, SlotTypes DEF Data, Frame
<1> QED BY <1>1, <1>2

LEMMA ProcessingDispatches ==
  ASSUME TypeOK, NEW at \in Frame \cup [slot : Queue!Slots], NEW base \in Seq(Activation),
         NEW p \in BOOLEAN, NEW d \in BOOLEAN, ProcessingData(at, base, p, d)
  PROVE  Dispatched(base, p) /\ NoNewPop(base)
<1>1. CASE /\ detected' = TRUE
           /\ stack' = Append(base, [at |-> "detect", data |-> at])
           /\ UNCHANGED <<storage, ready, ring, delivered, dropped>>
  <2>1. [at |-> "detect", data |-> at] \in Activation
    BY DEF Activation
  <2> QED BY <1>1, <2>1, QueueUnchanged
          DEF Dispatched, DispatchTypes, Grows, NewHandlerOnTop, RingStep, NoNewPop,
              TypeOK, Passive
<1>2. CASE detected' = d /\ Switch(Data(at), base, p)
  BY <1>2, DataTypes, SwitchDispatches DEF TypeOK
<1> QED BY <1>1, <1>2 DEF ProcessingData

-----------------------------------------------------------------------------
(* events() *)

LEMMA DequeueDispatches ==
  ASSUME TypeOK, NEW base \in Seq(Activation), NEW p \in BOOLEAN, NEW d \in BOOLEAN,
         Dequeue(base, p, d)
  PROVE  Dispatched(base, p) /\ NewPop(base, p)
<1>1. CASE /\ ~p /\ available > 0
           /\ ProcessingData([slot |-> Queue!SlotOf(head)], Append(base, [at |-> "pop"]), p, d)
  <2> DEFINE over == Append(base, [at |-> "pop"])
  <2>1. /\ over \in Seq(Activation)
        /\ Len(over) = Len(base) + 1
        /\ over[Len(base) + 1] = [at |-> "pop"]
        /\ \A i \in 1..Len(base) : over[i] = base[i]
    BY DEF Activation
  <2>2. [slot |-> Queue!SlotOf(head)] \in [slot : Queue!Slots]
    BY SlotTypes DEF TypeOK
  <2>3. Dispatched(over, p) /\ NoNewPop(over)
    BY <1>1, <2>1, <2>2, ProcessingDispatches
  <2>4. Grows(base) /\ NewHandlerOnTop(base)
    <3> HIDE DEF over
    <3>1. Grows(over) /\ NewHandlerOnTop(over)
      BY <2>3 DEF Dispatched
    <3>2. Len(stack') \in Nat /\ Len(base) \in Nat
      BY <2>3 DEF Dispatched, DispatchTypes
    <3>3. Len(stack') >= Len(base) + 1
      BY <3>1, <2>1 DEF Grows
    <3>4. stack'[Len(base) + 1].at = "pop"
      BY <3>1, <3>2, <2>1 DEF Grows
    <3>5. \A i \in Len(base) + 1 .. Len(stack') :
            i = Len(base) + 1 \/ i \in Len(over) + 1 .. Len(stack')
      BY <3>2, <2>1
    <3>6. \A i \in 1 .. Len(base) : stack'[i] = base[i]
      BY <3>1, <3>2, <2>1 DEF Grows
    <3>7. Grows(base)
      BY <3>1, <3>2, <3>3, <3>4, <3>5, <3>6 DEF Grows, Passive
    <3>8. NewHandlerOnTop(base)
      BY <3>1, <3>4, <3>5 DEF NewHandlerOnTop
    <3> QED BY <3>7, <3>8
  <2>5. NewPop(base, p)
    <3> HIDE DEF over
    <3> QED BY <1>1, <2>1, <2>3 DEF Dispatched, DispatchTypes, NoNewPop, NewPop
  <2> QED BY <2>3, <2>4, <2>5 DEF Dispatched
<1>2. CASE /\ detected' = d /\ stack' = base
           /\ UNCHANGED <<storage, ready, ring, delivered, dropped>>
  BY <1>2, QueueUnchanged
  DEF Dispatched, DispatchTypes, Grows, NewHandlerOnTop, RingStep, NewPop, TypeOK
<1> QED BY <1>1, <1>2 DEF Dequeue

LEMMA ReadFrameDispatches ==
  ASSUME TypeOK, NEW base \in Seq(Activation), NEW p \in BOOLEAN, NEW d \in BOOLEAN,
         ReadFrame(base, p, d)
  PROVE  Dispatched(base, p) /\ NewPop(base, p) /\ rx' \in Seq(Frame)
<1>1. Head(rx) \in Frame /\ rx' \in Seq(Frame)
  BY DEF ReadFrame, TypeOK
<1>2. CASE ProcessingData(Head(rx), base, p, d)
  BY <1>1, <1>2, ProcessingDispatches DEF NewPop, NoNewPop
<1>3. CASE /\ detected' = d /\ stack' = base
           /\ UNCHANGED <<storage, ready, ring, delivered, dropped>>
  BY <1>1, <1>3, QueueUnchanged
  DEF Dispatched, DispatchTypes, Grows, NewHandlerOnTop, RingStep, NewPop, TypeOK
<1>4. CASE Dequeue(base, p, d)
  BY <1>1, <1>4, DequeueDispatches
<1> QED BY <1>1, <1>2, <1>3, <1>4 DEF ReadFrame

LEMMA EventsDispatches ==
  ASSUME TypeOK, NEW base \in Seq(Activation), NEW p \in BOOLEAN, Events(base, p)
  PROVE  /\ TypeOK'
         /\ Dispatched(base, p) /\ NewPop(base, p)
         /\ pending' = p
         /\ calls' = calls
         /\ overrun' = (overrun \/ (Active("pop") /\ ~p))
         /\ p /\ detected => detected'
<1>1. PICK d \in {detected, FALSE} :
        /\ d # detected => ~p /\ sent["offline"] < MaxSent["offline"]
        /\ sent' = IF d # detected THEN Count("offline") ELSE sent
        /\ \/ ReadFrame(base, p, d)
           \/ rx = << >> /\ UNCHANGED rx /\ Dequeue(base, p, d)
  BY DEF Events
<1>2. d \in BOOLEAN
  BY <1>1 DEF TypeOK
<1>3. Dispatched(base, p) /\ NewPop(base, p) /\ rx' \in Seq(Frame)
  BY <1>1, <1>2, ReadFrameDispatches, DequeueDispatches DEF TypeOK
<1>4. sent' \in [Occurrence -> Nat]
  BY <1>1 DEF TypeOK, Count, Occurrence
<1>5. /\ UNCHANGED <<esp, calls>> /\ pending' = p
      /\ overrun' = (overrun \/ (Active("pop") /\ ~p)) /\ overrun' \in BOOLEAN
  BY DEF Events
<1>6. TypeOK'
  BY <1>3, <1>4, <1>5 DEF TypeOK, Dispatched, DispatchTypes
<1>7. ASSUME p, detected
      PROVE  detected'
  <2>1. d = detected
    BY <1>1, <1>7
  <2>2. detected' = TRUE \/ detected' = d
    BY <1>1 DEF ReadFrame, Dequeue, ProcessingData
  <2> QED BY <1>7, <2>1, <2>2
<1> QED BY <1>3, <1>5, <1>6, <1>7

-----------------------------------------------------------------------------
(* The stack *)

Waits(a) == a.at \in {"wait", "check"}

LEMMA TopAndBelow ==
  ASSUME TypeOK, stack # << >>
  PROVE  /\ Len(stack) \in Nat \ {0}
         /\ Top = stack[Len(stack)] /\ Top \in Activation
         /\ Below \in Seq(Activation)
         /\ Len(Below) = Len(stack) - 1
         /\ \A i \in 1 .. Len(stack) - 1 : Below[i] = stack[i]
<1>1. Len(stack) \in Nat \ {0} /\ stack[Len(stack)] \in Activation
  BY DEF TypeOK
<1>2. Below = SubSeq(stack, 1, Len(stack) - 1)
  BY DEF Below, Front
<1>3. \A i \in 1 .. Len(stack) - 1 : stack[i] \in Activation
  BY <1>1 DEF TypeOK
<1>4. /\ Below \in Seq(Activation)
      /\ Len(Below) = Len(stack) - 1
      /\ \A i \in 1 .. Len(stack) - 1 : Below[i] = stack[i]
  <2> DEFINE n == Len(stack) - 1
  <2>1. n \in Nat
    BY <1>1
  <2>2. /\ SubSeq(stack, 1, n) \in Seq(Activation)
        /\ Len(SubSeq(stack, 1, n)) = IF 1 <= n THEN n - 1 + 1 ELSE 0
        /\ \A i \in 1 .. n - 1 + 1 : SubSeq(stack, 1, n)[i] = stack[1 + i - 1]
    <3> HIDE DEF n
    <3>1. \A i \in 1..n : stack[i] \in Activation
      BY <1>3 DEF n
    <3> QED BY <2>1, <3>1, SubSeqProperties
  <2>3. /\ Len(SubSeq(stack, 1, n)) = n
        /\ \A i \in 1..n : SubSeq(stack, 1, n)[i] = stack[i]
    <3> HIDE DEF n
    <3> QED BY <2>1, <2>2
  <2> QED BY <1>2, <2>2, <2>3
<1> QED BY <1>1, <1>4 DEF Top

\* A waiting activation, in the loop and behind events().
LEMMA WaitingTop ==
  ASSUME TypeOK, stack # << >>, Waits(Top), NEW at \in {"wait", "check"}
  PROVE  /\ Top.call \in 1..MaxCalls
         /\ [Top EXCEPT !.at = at] = [at |-> at, call |-> Top.call]
         /\ [at |-> at, call |-> Top.call] \in Activation
<1>1. Top \in [at : {"wait", "check"}, call : 1..MaxCalls]
  BY TopAndBelow DEF Waits, Activation
<1> QED BY <1>1 DEF Activation

-----------------------------------------------------------------------------
(* The inductive invariant *)

\* A method is at the head of its loop only while nothing runs above it.
WaitOnTop == \A i \in DOMAIN stack : stack[i].at = "wait" => i = Len(stack)

CallsKnown ==
  \A i \in DOMAIN stack : Waits(stack[i]) => stack[i].call \in DOMAIN calls

\* A call made while another waits is on record as such.
InnerMarked ==
  \A i, j \in DOMAIN stack :
    j < i /\ Waits(stack[i]) /\ Waits(stack[j]) => calls[stack[i].call].inner

\* While a method's events() runs _pendingData is set, until an inner call ends.
PendingInWait == ~WaitBroken => (Active("check") => pending)

IInv ==
  /\ TypeOK
  /\ WaitOnTop
  /\ CallsKnown
  /\ InnerMarked
  /\ PendingOnlyInCall
  /\ PendingInWait

\* Steps that leave calls alone and put activations that do not wait on top of
\* base, a lower part of the stack in which no method is at the head of its loop.
LEMMA BaseKeepsIInv ==
  ASSUME IInv, TypeOK', NEW base \in Seq(Activation), Grows(base), calls' = calls,
         Len(base) <= Len(stack),
         \A i \in 1..Len(base) :
           /\ base[i].at # "wait"
           /\ base[i].at = "check" => Waits(stack[i]) /\ base[i].call = stack[i].call,
         pending' => \E i \in 1..Len(base) : base[i].at = "check",
         ~WaitBroken => ((\E i \in 1..Len(base) : base[i].at = "check") => pending')
  PROVE  IInv'
<1>1. /\ Len(base) \in Nat /\ Len(stack) \in Nat /\ Len(stack') \in Nat
      /\ DOMAIN stack = 1..Len(stack) /\ DOMAIN stack' = 1..Len(stack')
  BY DEF IInv, TypeOK
<1>2. ASSUME NEW i \in DOMAIN stack', Waits(stack'[i])
      PROVE  /\ i \in 1..Len(base) /\ i \in DOMAIN stack
             /\ stack'[i].at = "check" /\ base[i].at = "check"
             /\ Waits(stack[i]) /\ stack'[i].call = stack[i].call
  BY <1>1, <1>2 DEF Grows, Waits, Passive
<1>3. WaitOnTop'
  BY <1>2 DEF WaitOnTop, Waits
<1>4. CallsKnown'
  BY <1>2 DEF CallsKnown, IInv, Waits
<1>5. InnerMarked'
  BY <1>2 DEF InnerMarked, IInv, Waits
<1>6. Active("check")' <=> \E i \in 1..Len(base) : base[i].at = "check"
  BY <1>1, <1>2 DEF Active, Grows, Waits
<1>7. PendingOnlyInCall'
  BY <1>6 DEF PendingOnlyInCall, InCall
<1>8. PendingInWait'
  BY <1>6 DEF PendingInWait, WaitBroken
<1> QED BY <1>3, <1>4, <1>5, <1>7, <1>8 DEF IInv

\* With an activation on top that does not wait, no method is at the head of its
\* loop, and _pendingData says whether one waits.
LEMMA NothingAtLoopHead ==
  ASSUME IInv, stack # << >>, ~Waits(Top)
  PROVE  /\ \A i \in DOMAIN stack : stack[i].at # "wait"
         /\ pending => Active("check")
         /\ InCall => Active("check")
<1>1. \A i \in DOMAIN stack : stack[i].at # "wait"
  BY TopAndBelow DEF IInv, WaitOnTop, Waits
<1> QED BY <1>1 DEF IInv, PendingOnlyInCall, InCall, Active

-----------------------------------------------------------------------------
(* The steps that run events() or go on after it *)

LEMMA LoopPollKeeps ==
  ASSUME IInv, LoopPoll
  PROVE  IInv'
<1>1. << >> \in Seq(Activation) /\ Len(<< >>) = 0 /\ stack = << >>
  BY DEF LoopPoll
<1>2. ~pending
  BY <1>1 DEF IInv, PendingOnlyInCall, InCall, Active
<1>3. TypeOK' /\ Grows(<< >>) /\ pending' = pending /\ calls' = calls
  BY <1>1, EventsDispatches DEF IInv, TypeOK, LoopPoll, Dispatched
<1>4. Len(<< >>) <= Len(stack) /\ 1..Len(<< >>) = {} /\ ~pending'
  BY <1>1, <1>2, <1>3
<1> QED BY <1>1, <1>3, <1>4, BaseKeepsIInv

\* For a base that is the stack itself.
LEMMA HandlerPollKeeps ==
  ASSUME IInv, HandlerPoll
  PROVE  IInv'
<1>1. stack # << >> /\ ~Waits(Top)
  BY DEF HandlerPoll, At, Waits
<1>2. TypeOK' /\ Grows(stack) /\ pending' = pending /\ calls' = calls
  BY EventsDispatches DEF IInv, TypeOK, HandlerPoll, Dispatched
<1>3. stack \in Seq(Activation) /\ Len(stack) \in Nat /\ DOMAIN stack = 1..Len(stack)
  BY DEF IInv, TypeOK
<1>4. \A i \in 1..Len(stack) : stack[i].at # "wait"
  BY <1>1, <1>3, NothingAtLoopHead
<1>5. pending' => \E i \in 1..Len(stack) : stack[i].at = "check"
  BY <1>1, <1>2, <1>3, NothingAtLoopHead DEF Active
<1>6. ~WaitBroken => ((\E i \in 1..Len(stack) : stack[i].at = "check") => pending')
  BY <1>2, <1>3 DEF IInv, PendingInWait, Active
<1> QED BY <1>2, <1>3, <1>4, <1>5, <1>6, BaseKeepsIInv DEF Waits

LEMMA WaitPollKeeps ==
  ASSUME IInv, WaitPoll
  PROVE  IInv'
<1> DEFINE turned == [Top EXCEPT !.at = "check"]
           base == Append(Below, turned)
<1>1. stack # << >> /\ Top.at = "wait"
  BY DEF WaitPoll, At
<1>2. /\ Len(stack) \in Nat \ {0} /\ DOMAIN stack = 1..Len(stack)
      /\ Top = stack[Len(stack)]
      /\ Below \in Seq(Activation) /\ Len(Below) = Len(stack) - 1
      /\ \A i \in 1 .. Len(stack) - 1 : Below[i] = stack[i]
  BY <1>1, TopAndBelow DEF IInv, TypeOK
<1>3. turned \in Activation /\ turned.at = "check" /\ turned.call = Top.call
  BY <1>1, WaitingTop DEF IInv, Waits
<1>4. /\ base \in Seq(Activation) /\ Len(base) = Len(stack)
      /\ base[Len(stack)] = turned
      /\ \A i \in 1 .. Len(stack) - 1 : base[i] = stack[i]
  <2>1. /\ Append(Below, turned) \in Seq(Activation)
        /\ Len(Append(Below, turned)) = Len(Below) + 1
        /\ Append(Below, turned)[Len(Below) + 1] = turned
        /\ \A i \in 1..Len(Below) : Append(Below, turned)[i] = Below[i]
    <3>1. Below \in Seq(Activation) /\ turned \in Activation
      BY <1>2, <1>3
    <3> HIDE DEF turned
    <3> QED BY <3>1, AppendProperties
  <2>2. Len(Below) + 1 = Len(stack) /\ 1..Len(Below) = 1 .. Len(stack) - 1
    BY <1>2
  <2> HIDE DEF turned
  <2> QED BY <1>2, <2>1, <2>2
<1>5. TypeOK' /\ Grows(base) /\ pending' = TRUE /\ calls' = calls
  BY <1>4, EventsDispatches DEF IInv, WaitPoll, Dispatched
<1>6. \A i \in 1 .. Len(stack) - 1 : stack[i].at # "wait"
  BY <1>2 DEF IInv, WaitOnTop
<1>7. \A i \in 1..Len(base) :
        /\ base[i].at # "wait"
        /\ base[i].at = "check" => Waits(stack[i]) /\ base[i].call = stack[i].call
  <2> HIDE DEF turned, base
  <2> QED BY <1>1, <1>2, <1>3, <1>4, <1>6 DEF Waits
<1>8. \E i \in 1..Len(base) : base[i].at = "check"
  <2> HIDE DEF turned, base
  <2> QED BY <1>2, <1>3, <1>4
<1> HIDE DEF turned, base
<1> QED BY <1>2, <1>4, <1>5, <1>7, <1>8, BaseKeepsIInv

\* The detect handler has returned, and the rest of processing_data() runs.
LEMMA DetectDoneDispatches ==
  ASSUME IInv, DetectDone
  PROVE  /\ stack # << >> /\ Top.at = "detect" /\ ~Waits(Top)
         /\ Dispatched(Below, pending) /\ NoNewPop(Below)
         /\ UNCHANGED <<detected, pending, rx, esp, calls, overrun, sent>>
<1>1. stack # << >> /\ Top.at = "detect" /\ ~Waits(Top)
  BY DEF DetectDone, At, Waits
<1>2. /\ Len(stack) \in Nat \ {0} /\ DOMAIN stack = 1..Len(stack)
      /\ Top = stack[Len(stack)] /\ Top \in Activation
      /\ Below \in Seq(Activation) /\ Len(Below) = Len(stack) - 1
      /\ \A i \in 1 .. Len(stack) - 1 : Below[i] = stack[i]
  BY <1>1, TopAndBelow DEF IInv, TypeOK
<1>3. Top.data \in Frame \cup [slot : Queue!Slots]
  BY <1>1, <1>2 DEF Activation
<1>4. /\ Dispatched(Below, pending) /\ NoNewPop(Below)
      /\ UNCHANGED <<detected, pending, rx, esp, calls, overrun, sent>>
  <2>1. /\ Switch(Data(Top.data), Below, pending)
        /\ UNCHANGED <<detected, pending, rx, esp, calls, overrun, sent>>
    BY DEF DetectDone
  <2>2. TypeOK /\ Queue!TypeOK /\ pending \in BOOLEAN /\ detected' \in BOOLEAN
    BY <2>1 DEF IInv, TypeOK
  <2>3. Data(Top.data) \in Frame \cup {NoFrame}
    BY <1>3, <2>2, DataTypes
  <2> QED BY <1>2, <2>1, <2>2, <2>3, SwitchDispatches
<1> QED BY <1>1, <1>4

LEMMA DetectDoneKeeps ==
  ASSUME IInv, DetectDone
  PROVE  IInv' /\ (delivered' # delivered => ~pending)
<1>1. stack # << >> /\ Top.at = "detect" /\ ~Waits(Top)
  BY DetectDoneDispatches
<1>2. /\ Len(stack) \in Nat \ {0} /\ DOMAIN stack = 1..Len(stack)
      /\ Top = stack[Len(stack)] /\ Top \in Activation
      /\ Below \in Seq(Activation) /\ Len(Below) = Len(stack) - 1
      /\ \A i \in 1 .. Len(stack) - 1 : Below[i] = stack[i]
  BY <1>1, TopAndBelow DEF IInv, TypeOK
<1>4. /\ Dispatched(Below, pending)
      /\ UNCHANGED <<detected, pending, rx, esp, calls, overrun, sent>>
  BY DetectDoneDispatches
<1>5. TypeOK'
  BY <1>4 DEF TypeOK, IInv, Dispatched, DispatchTypes
<1>6. \A i \in 1..Len(Below) : Below[i].at # "wait"
  BY <1>1, <1>2, NothingAtLoopHead
<1>7. Active("check") <=> \E i \in 1..Len(Below) : Below[i].at = "check"
  BY <1>1, <1>2 DEF Active
<1>8. pending' => \E i \in 1..Len(Below) : Below[i].at = "check"
  BY <1>1, <1>4, <1>7, NothingAtLoopHead
<1>9. ~WaitBroken => ((\E i \in 1..Len(Below) : Below[i].at = "check") => pending')
  BY <1>4, <1>7 DEF IInv, PendingInWait
<1> QED BY <1>2, <1>4, <1>5, <1>6, <1>8, <1>9, BaseKeepsIInv DEF Dispatched, Waits

-----------------------------------------------------------------------------
(* The steps that end an activation or start a call *)

\* An activation that does not wait ends.
LEMMA EndKeeps ==
  ASSUME IInv, TypeOK', stack # << >>, ~Waits(Top), stack' = Below,
         pending' = pending, calls' = calls
  PROVE  IInv'
<1>1. /\ Len(stack) \in Nat \ {0} /\ DOMAIN stack = 1..Len(stack)
      /\ Top = stack[Len(stack)]
      /\ Below \in Seq(Activation) /\ Len(Below) = Len(stack) - 1
      /\ \A i \in 1 .. Len(stack) - 1 : Below[i] = stack[i]
  BY TopAndBelow DEF IInv, TypeOK
<1>2. Grows(Below)
  BY <1>1 DEF Grows
<1>3. \A i \in 1..Len(Below) : Below[i].at # "wait"
  BY <1>1, NothingAtLoopHead
<1>4. Active("check") <=> \E i \in 1..Len(Below) : Below[i].at = "check"
  BY <1>1 DEF Active, Waits
<1>5. pending' => \E i \in 1..Len(Below) : Below[i].at = "check"
  BY <1>4, NothingAtLoopHead
<1>6. ~WaitBroken => ((\E i \in 1..Len(Below) : Below[i].at = "check") => pending')
  BY <1>4 DEF IInv, PendingInWait
<1> QED BY <1>1, <1>2, <1>3, <1>5, <1>6, BaseKeepsIInv DEF Waits

LEMMA HandlerDoneKeeps ==
  ASSUME IInv, HandlerDone
  PROVE  IInv'
<1>1. stack # << >> /\ ~Waits(Top)
  BY DEF HandlerDone, At, Waits
<1>2. TypeOK'
  BY <1>1, TopAndBelow, QueueUnchanged DEF HandlerDone, IInv, TypeOK, history
<1> QED BY <1>1, <1>2, EndKeeps DEF HandlerDone, history

LEMMA PopFrontKeeps ==
  ASSUME IInv, PopFront
  PROVE  IInv'
<1>1. stack # << >> /\ ~Waits(Top)
  BY DEF PopFront, At, Waits
<1>2. TypeOK'
  BY <1>1, TopAndBelow, PopTypes DEF PopFront, IInv, TypeOK, history
<1> QED BY <1>1, <1>2, EndKeeps DEF PopFront, history

LEMMA CallKeeps ==
  ASSUME IInv, NEW op \in Op, Call(op)
  PROVE  IInv'
<1> DEFINE c == Len(calls) + 1
           n == Len(stack) + 1
           record == [op |-> op, result |-> "waiting", got |-> 0,
                      inner |-> InCall, quiet |-> Quiet]
           entry == [at |-> "wait", call |-> c]
<1>1. /\ stack \in Seq(Activation) /\ calls \in Seq(CallRecord)
      /\ Len(stack) \in Nat /\ Len(calls) \in Nat
      /\ DOMAIN stack = 1..Len(stack) /\ DOMAIN calls = 1..Len(calls)
  BY DEF IInv, TypeOK
<1>2. c \in 1..MaxCalls
  BY <1>1, BoundsAssumption DEF Call
<1>3. entry \in Activation
  BY <1>2 DEF Activation
<1>4. record \in CallRecord
  BY BoundsAssumption DEF CallRecord, InCall, Active, Quiet
<1>5. /\ calls' \in Seq(CallRecord)
      /\ DOMAIN calls' = 1..c /\ calls'[c].inner = InCall
      /\ \A i \in DOMAIN calls : calls'[i] = calls[i]
  <2>1. calls' = Append(calls, record)
    BY DEF Call
  <2>2. record.inner = InCall
    OBVIOUS
  <2> HIDE DEF record
  <2> QED BY <1>1, <1>4, <2>1, <2>2, AppendProperties
<1>6. /\ stack' \in Seq(Activation)
      /\ DOMAIN stack' = 1..n /\ Len(stack') = n
      /\ stack'[n].at = "wait" /\ stack'[n].call = c
      /\ \A i \in DOMAIN stack : stack'[i] = stack[i]
  <2>1. stack' = Append(stack, entry)
    BY DEF Call
  <2>2. entry.at = "wait" /\ entry.call = c
    OBVIOUS
  <2> HIDE DEF entry, c
  <2> QED BY <1>1, <1>3, <2>1, <2>2, AppendProperties
<1>7. TypeOK'
  <2>1. esp' \in Seq(1..MaxCalls) /\ ready' = FALSE
    BY <1>2 DEF Call, IInv, TypeOK
  <2>2. UNCHANGED <<detected, pending, storage, ring, rx, delivered, dropped, overrun, sent>>
    BY DEF Call
  <2> HIDE DEF c, n
  <2> QED BY <1>5, <1>6, <2>1, <2>2, QueueUnchanged DEF IInv, TypeOK
<1>8. \A i \in DOMAIN stack : stack[i].at # "wait"
  BY NothingAtLoopHead DEF Call, At, Waits
<1>9. pending' = pending
  BY DEF Call
<1> HIDE DEF c, n, record, entry
<1>10. c = Len(calls) + 1 /\ n = Len(stack) + 1
  BY DEF c, n
<1>11. WaitOnTop'
  BY <1>1, <1>6, <1>8, <1>10 DEF WaitOnTop
<1>12. CallsKnown'
  BY <1>1, <1>5, <1>6, <1>10 DEF CallsKnown, IInv, Waits
<1>13. InnerMarked'
  <2> SUFFICES ASSUME NEW i \in DOMAIN stack', NEW j \in DOMAIN stack',
                      j < i, Waits(stack'[i]), Waits(stack'[j])
               PROVE  calls'[stack'[i].call].inner
    BY DEF InnerMarked, Waits
  <2>1. j \in DOMAIN stack /\ Waits(stack[j])
    BY <1>1, <1>6, <1>10 DEF Waits
  <2>2. CASE i = n
    BY <1>5, <1>6, <2>1, <2>2 DEF InCall, Active, Waits
  <2>3. CASE i # n
    <3>1. i \in DOMAIN stack /\ stack'[i] = stack[i]
      BY <1>1, <1>6, <1>10, <2>3
    <3> QED BY <1>5, <2>1, <3>1 DEF IInv, InnerMarked, CallsKnown, Waits
  <2> QED BY <2>2, <2>3
<1>14. PendingOnlyInCall'
  BY <1>1, <1>6, <1>10 DEF PendingOnlyInCall, InCall, Active
<1>15. PendingInWait'
  <2> SUFFICES ASSUME ~WaitBroken', Active("check")'
               PROVE  pending'
    BY DEF PendingInWait
  <2>1. ~InCall
    BY <1>1, <1>5, <1>10 DEF WaitBroken
  <2>2. Active("check")
    BY <1>1, <1>6, <1>10 DEF Active
  <2> QED BY <2>1, <2>2 DEF InCall
<1> QED BY <1>7, <1>11, <1>12, <1>13, <1>14, <1>15 DEF IInv

\* The last return of a call: with no other call waiting below it, nothing keeps
\* events any more, and a call below it is one that WaitBroken excuses.
LEMMA ReturnKeeps ==
  ASSUME IInv, stack # << >>, Waits(Top), UNCHANGED ready,
         NEW r \in {"answered", "mismatch", "timeout"}, NEW g \in 0..MaxCalls, Return(r, g)
  PROVE  IInv'
<1> DEFINE c == Top.call
<1>1. /\ stack \in Seq(Activation) /\ calls \in Seq(CallRecord)
      /\ Len(stack) \in Nat \ {0} /\ DOMAIN stack = 1..Len(stack)
      /\ Top = stack[Len(stack)]
      /\ Below \in Seq(Activation) /\ Len(Below) = Len(stack) - 1
      /\ \A i \in 1 .. Len(stack) - 1 : Below[i] = stack[i]
  BY TopAndBelow DEF IInv, TypeOK
<1>2. c \in DOMAIN calls
  BY <1>1 DEF IInv, CallsKnown
<1>3. /\ stack' = Below /\ DOMAIN stack' = 1 .. Len(stack) - 1
      /\ \A i \in DOMAIN stack' : i \in DOMAIN stack /\ stack'[i] = stack[i]
      /\ pending' = FALSE
  <2>1. stack' = Below /\ pending' = FALSE
    BY DEF Return
  <2> QED BY <1>1, <2>1
<1>4. /\ calls' \in Seq(CallRecord) /\ DOMAIN calls' = DOMAIN calls
      /\ \A d \in DOMAIN calls : calls'[d].inner = calls[d].inner
  <2>1. calls' = [calls EXCEPT ![c].result = r, ![c].got = g]
    BY DEF Return
  <2>2. \A d \in DOMAIN calls : calls[d] \in CallRecord
    BY <1>1
  <2>3. [[calls[c] EXCEPT !.result = r] EXCEPT !.got = g] \in CallRecord
    BY <1>2, <2>2 DEF CallRecord
  <2>4. /\ DOMAIN calls' = DOMAIN calls
        /\ \A d \in DOMAIN calls : calls'[d] \in CallRecord /\ calls'[d].inner = calls[d].inner
    BY <1>2, <2>1, <2>2 DEF CallRecord
  <2>5. calls' \in Seq(CallRecord)
    <3> DEFINE new == [[calls[c] EXCEPT !.result = r] EXCEPT !.got = g]
    <3>1. calls' = [calls EXCEPT ![c] = new]
      BY <1>1, <1>2, <2>1
    <3>2. new \in CallRecord /\ c \in 1..Len(calls)
      BY <1>1, <1>2, <2>3
    <3> HIDE DEF new, c
    <3> QED BY <1>1, <3>1, <3>2, ExceptSeq
  <2> QED BY <2>4, <2>5
<1>5. TypeOK'
  <2>1. UNCHANGED <<detected, ready, storage, ring, rx, esp, delivered, dropped, overrun, sent>>
    BY DEF Return
  <2> QED BY <1>1, <1>3, <1>4, <2>1, QueueUnchanged DEF IInv, TypeOK
<1>6. \A i \in DOMAIN stack' : stack[i].at # "wait"
  BY <1>1, <1>3 DEF IInv, WaitOnTop
<1>7. WaitOnTop'
  BY <1>3, <1>6 DEF WaitOnTop
<1>8. CallsKnown'
  BY <1>3, <1>4 DEF IInv, CallsKnown, Waits
<1>9. InnerMarked'
  BY <1>3, <1>4 DEF IInv, InnerMarked, CallsKnown, Waits
<1>10. PendingOnlyInCall'
  BY <1>3 DEF PendingOnlyInCall
<1>11. PendingInWait'
  <2> SUFFICES ASSUME NEW j \in DOMAIN stack', stack'[j].at = "check"
               PROVE  WaitBroken'
    BY DEF PendingInWait, Active
  <2>1. /\ j \in DOMAIN stack /\ Len(stack) \in DOMAIN stack /\ j < Len(stack)
        /\ Waits(stack[j]) /\ Waits(stack[Len(stack)])
    BY <1>1, <1>3 DEF Waits
  <2>2. calls[c].inner
    BY <1>1, <2>1 DEF IInv, InnerMarked
  <2> QED BY <1>2, <1>4, <2>2 DEF WaitBroken
<1> QED BY <1>5, <1>7, <1>8, <1>9, <1>10, <1>11 DEF IInv

LEMMA WaitExpireKeeps ==
  ASSUME IInv, WaitExpire
  PROVE  IInv'
BY ReturnKeeps, BoundsAssumption DEF WaitExpire, At, Waits

LEMMA TakeAnswerKeeps ==
  ASSUME IInv, TakeAnswer
  PROVE  IInv'
<1>1. stack # << >> /\ Waits(Top) /\ UNCHANGED ready
  BY DEF TakeAnswer, At, Waits
<1>2. storage \in 0..MaxCalls /\ 0 \in 0..MaxCalls
  BY BoundsAssumption DEF IInv, TypeOK
<1>3. PICK r \in {"answered", "mismatch", "timeout"}, g \in {0, storage} : Return(r, g)
  BY DEF TakeAnswer
<1> QED BY <1>1, <1>2, <1>3, ReturnKeeps

LEMMA KeepWaitingKeeps ==
  ASSUME IInv, KeepWaiting
  PROVE  IInv'
<1> DEFINE turned == [Top EXCEPT !.at = "wait"]
<1>1. stack # << >> /\ Top.at = "check" /\ Waits(Top)
  BY DEF KeepWaiting, At, Waits
<1>2. /\ stack \in Seq(Activation)
      /\ Len(stack) \in Nat \ {0} /\ DOMAIN stack = 1..Len(stack)
      /\ Top = stack[Len(stack)]
      /\ Below \in Seq(Activation) /\ Len(Below) = Len(stack) - 1
      /\ \A i \in 1 .. Len(stack) - 1 : Below[i] = stack[i]
  BY <1>1, TopAndBelow DEF IInv, TypeOK
<1>3. turned \in Activation /\ turned.at = "wait" /\ turned.call = Top.call
  BY <1>1, WaitingTop DEF IInv
<1>4. /\ stack' \in Seq(Activation) /\ DOMAIN stack' = DOMAIN stack
      /\ Len(stack') = Len(stack)
      /\ stack'[Len(stack)].at = "wait" /\ stack'[Len(stack)].call = Top.call
      /\ \A i \in 1 .. Len(stack) - 1 : stack'[i] = stack[i]
  <2>1. stack' = Append(Below, turned)
    BY DEF KeepWaiting
  <2> HIDE DEF turned
  <2>2. /\ Append(Below, turned) \in Seq(Activation)
        /\ Len(Append(Below, turned)) = Len(Below) + 1
        /\ Append(Below, turned)[Len(Below) + 1] = turned
        /\ \A i \in 1..Len(Below) : Append(Below, turned)[i] = Below[i]
    <3>1. Below \in Seq(Activation) /\ turned \in Activation
      BY <1>2, <1>3
    <3> QED BY <3>1, AppendProperties
  <2>3. Len(Below) + 1 = Len(stack) /\ 1..Len(Below) = 1 .. Len(stack) - 1
    BY <1>2
  <2>4. Len(stack') = Len(stack) /\ stack'[Len(stack)] = turned
    BY <2>1, <2>2, <2>3
  <2>5. stack' \in Seq(Activation) /\ DOMAIN stack' = DOMAIN stack
    <3>1. stack' \in Seq(Activation)
      BY <2>1, <2>2
    <3> QED BY <1>2, <2>4, <3>1
  <2>6. \A i \in 1 .. Len(stack) - 1 : stack'[i] = stack[i]
    BY <1>2, <2>1, <2>2, <2>3
  <2> QED BY <1>3, <2>4, <2>5, <2>6
<1>5. /\ UNCHANGED <<detected, pending, storage, ring, rx, esp, history, sent>>
      /\ ready' = FALSE
  BY DEF KeepWaiting
<1>6. calls' = calls /\ pending' = pending
  BY <1>5 DEF history
<1>7. TypeOK'
  BY <1>4, <1>5, QueueUnchanged DEF IInv, TypeOK, history
<1>8. \A i \in DOMAIN stack :
        Waits(stack'[i]) => Waits(stack[i]) /\ stack'[i].call = stack[i].call
  BY <1>1, <1>2, <1>4
<1>9. WaitOnTop'
  BY <1>2, <1>4 DEF IInv, WaitOnTop
<1>10. CallsKnown'
  <2>1. CallsKnown /\ DOMAIN stack' = DOMAIN stack
    BY <1>4 DEF IInv
  <2>2. SUFFICES ASSUME NEW i \in DOMAIN stack, Waits(stack'[i])
                 PROVE  stack'[i].call \in DOMAIN calls'
    BY <2>1 DEF CallsKnown, Waits
  <2>3. stack'[i].call = stack[i].call /\ Waits(stack[i])
    BY <2>2, <1>8 DEF Waits
  <2> QED BY <2>1, <2>3, <1>6 DEF CallsKnown
<1>11. InnerMarked'
  <2>1. InnerMarked /\ DOMAIN stack' = DOMAIN stack
    BY <1>4 DEF IInv
  <2>2. SUFFICES ASSUME NEW i \in DOMAIN stack, NEW j \in DOMAIN stack, j < i,
                        Waits(stack'[i]), Waits(stack'[j])
                 PROVE  calls'[stack'[i].call].inner
    BY <2>1 DEF InnerMarked, Waits
  <2>3. stack'[i].call = stack[i].call /\ Waits(stack[i]) /\ Waits(stack[j])
    BY <2>2, <1>8 DEF Waits
  <2> QED BY <2>1, <2>2, <2>3, <1>6 DEF InnerMarked
<1>12. PendingOnlyInCall'
  BY <1>2, <1>4 DEF PendingOnlyInCall, InCall, Active
<1>13. PendingInWait'
  BY <1>2, <1>4, <1>6 DEF IInv, PendingInWait, WaitBroken, Active
<1> QED BY <1>7, <1>9, <1>10, <1>11, <1>12, <1>13 DEF IInv

-----------------------------------------------------------------------------
(* The ESP8266 and the wire *)

LEMMA WireKeeps ==
  ASSUME IInv, UNCHANGED <<client, history>>,
         rx' \in Seq(Frame), esp' \in Seq(1..MaxCalls), sent' \in [Occurrence -> Nat]
  PROVE  IInv'
<1>1. TypeOK'
  BY QueueUnchanged DEF IInv, TypeOK, client, history
<1>2. stack' = stack /\ calls' = calls /\ pending' = pending
  BY DEF client, history
<1> QED BY <1>1, <1>2 DEF IInv, WaitOnTop, CallsKnown, InnerMarked, PendingOnlyInCall,
                          PendingInWait, WaitBroken, InCall, Active, Waits

LEMMA EspKeeps ==
  ASSUME IInv, EspStep
  PROVE  IInv'
<1>1. /\ rx \in Seq(Frame) /\ esp \in Seq(1..MaxCalls)
      /\ sent \in [Occurrence -> Nat]
  BY DEF IInv, TypeOK
<1>2. \A k \in Occurrence : Count(k) \in [Occurrence -> Nat]
  BY <1>1 DEF Count
<1>3. CASE EspAnswer
  <2>1. Head(esp) \in 1..MaxCalls /\ esp' \in Seq(1..MaxCalls)
    <3>1. esp # << >> /\ esp' = Tail(esp)
      BY <1>3 DEF EspAnswer
    <3> QED BY <1>1, <3>1, HeadTailProperties
  <2>2. [kind |-> "answer", id |-> Head(esp)] \in Frame
    BY <2>1 DEF Frame
  <2>3. rx' = Append(rx, [kind |-> "answer", id |-> Head(esp)]) /\ sent' = sent
    BY <1>3 DEF EspAnswer
  <2>4. rx' \in Seq(Frame)
    BY <1>1, <2>2, <2>3, AppendProperties
  <2> QED BY <1>1, <1>3, <2>1, <2>3, <2>4, WireKeeps DEF EspAnswer
<1>4. CASE EspLose
  <2>1. esp' \in Seq(1..MaxCalls) /\ sent' \in [Occurrence -> Nat] /\ rx' = rx
    BY <1>1, <1>2, <1>4 DEF EspLose, Occurrence
  <2> QED BY <1>1, <1>4, <2>1, WireKeeps DEF EspLose
<1>5. CASE EspEvent
  <2>1. sent["event"] + 1 \in 1 .. MaxSent["event"]
    <3>1. sent["event"] < MaxSent["event"]
      BY <1>5 DEF EspEvent, MayHappen
    <3>2. sent["event"] \in Nat /\ MaxSent["event"] \in Nat
      BY <1>1, BoundsAssumption DEF Occurrence
    <3> QED BY <3>1, <3>2
  <2>2. [kind |-> "event", id |-> sent["event"] + 1] \in Frame
    BY <2>1 DEF Frame, EventFrame
  <2>3. /\ rx' = Append(rx, [kind |-> "event", id |-> sent["event"] + 1])
        /\ sent' \in [Occurrence -> Nat] /\ esp' = esp
    BY <1>2, <1>5 DEF EspEvent, Occurrence
  <2>4. rx' \in Seq(Frame)
    BY <1>1, <2>2, <2>3, AppendProperties
  <2> QED BY <1>1, <1>5, <2>3, <2>4, WireKeeps DEF EspEvent
<1>6. CASE EspRestart
  <2>1. Plain("restart") \in Frame
    BY DEF Frame, Plain
  <2>2. /\ rx' = Append(rx, Plain("restart")) /\ esp' = << >>
        /\ sent' \in [Occurrence -> Nat] /\ UNCHANGED <<client, history>>
    BY <1>2, <1>6 DEF EspRestart, Occurrence
  <2>3. rx' \in Seq(Frame) /\ esp' \in Seq(1..MaxCalls)
    BY <1>1, <2>1, <2>2, AppendProperties
  <2> QED BY <2>2, <2>3, WireKeeps
<1>7. ASSUME NEW k \in {"status", "junk", "noise"}, EspOther(k)
      PROVE  IInv'
  <2>1. Plain(k) \in Frame
    BY DEF Frame, Plain
  <2>2. /\ rx' = Append(rx, Plain(k)) /\ esp' = esp
        /\ sent' \in [Occurrence -> Nat] /\ UNCHANGED <<client, history>>
    BY <1>2, <1>7 DEF EspOther, Occurrence
  <2>3. rx' \in Seq(Frame)
    BY <1>1, <2>1, <2>2, AppendProperties
  <2> QED BY <1>1, <2>2, <2>3, WireKeeps
<1> QED BY <1>3, <1>4, <1>5, <1>6, <1>7 DEF EspStep

-----------------------------------------------------------------------------
LEMMA InitEstablishes == Init => IInv
<1> SUFFICES ASSUME Init
             PROVE  IInv
  OBVIOUS
<1>1. Queue!TypeOK
  BY QueueAssumption DEF Init, Queue!Init, Queue!TypeOK, Queue!Index, Queue!Slots
<1>2. TypeOK
  <2>1. storage \in 0..MaxCalls /\ sent \in [Occurrence -> Nat]
    BY BoundsAssumption DEF Init
  <2>2. /\ stack \in Seq(Activation) /\ rx \in Seq(Frame) /\ esp \in Seq(1..MaxCalls)
        /\ calls \in Seq(CallRecord) /\ dropped \in Seq(Nat)
        /\ delivered \in Seq([id : Nat, via : {"queue", "wire"}])
    BY DEF Init
  <2>3. detected \in BOOLEAN /\ pending \in BOOLEAN /\ ready \in BOOLEAN /\ overrun \in BOOLEAN
    BY DEF Init
  <2> QED BY <1>1, <2>1, <2>2, <2>3 DEF TypeOK
<1> QED BY <1>2 DEF IInv, Init, WaitOnTop, CallsKnown, InnerMarked, PendingOnlyInCall,
                    PendingInWait, Active

LEMMA NextKeeps ==
  ASSUME IInv, [Next]_vars
  PROVE  IInv'
<1>1. CASE ClientStep
  <2>1. ASSUME NEW op \in Op, Call(op)
        PROVE  IInv'
    BY <2>1, CallKeeps
  <2> QED BY <1>1, <2>1, LoopPollKeeps, HandlerPollKeeps, WaitPollKeeps, WaitExpireKeeps,
             KeepWaitingKeeps, TakeAnswerKeeps, DetectDoneKeeps, HandlerDoneKeeps,
             PopFrontKeeps
          DEF ClientStep
<1>2. CASE EspStep
  BY <1>2, EspKeeps
<1>3. CASE UNCHANGED vars
  BY <1>3, WireKeeps DEF vars, IInv, TypeOK
<1> QED BY <1>1, <1>2, <1>3 DEF Next

\* While a call waits, and no detect handler has made one inside it, a step hands
\* no event to a handler and does not take the library offline.
LEMMA StepInCall ==
  ASSUME IInv, Next, InCall, ~WaitBroken
  PROVE  delivered' = delivered /\ (detected => detected')
<1>1. ASSUME stack # << >>, ~Waits(Top)
      PROVE  pending
  BY <1>1, NothingAtLoopHead DEF IInv, PendingInWait
<1>2. CASE LoopPoll
  BY <1>2 DEF LoopPoll, InCall, Active
<1>3. CASE HandlerPoll
  <2>1. pending
    BY <1>1, <1>3 DEF HandlerPoll, At, Waits
  <2>2. stack \in Seq(Activation) /\ pending \in BOOLEAN
    BY DEF IInv, TypeOK
  <2> QED BY <1>3, <2>1, <2>2, EventsDispatches DEF HandlerPoll, IInv, Dispatched
<1>4. CASE WaitPoll
  <2> DEFINE base == Append(Below, [Top EXCEPT !.at = "check"])
  <2>1. base \in Seq(Activation)
    <3>1. stack # << >> /\ Waits(Top)
      BY <1>4 DEF WaitPoll, At, Waits
    <3>2. Below \in Seq(Activation) /\ [Top EXCEPT !.at = "check"] \in Activation
      BY <3>1, TopAndBelow, WaitingTop DEF IInv
    <3> QED BY <3>2, AppendProperties
  <2>2. Events(base, TRUE)
    BY <1>4 DEF WaitPoll
  <2> HIDE DEF base
  <2> QED BY <2>1, <2>2, EventsDispatches DEF IInv, Dispatched
<1>5. CASE DetectDone
  <2>1. pending
    BY <1>1, <1>5 DEF DetectDone, At, Waits
  <2> QED BY <1>5, <2>1, DetectDoneKeeps DEF DetectDone
<1>6. ASSUME NEW op \in Op, Call(op)
      PROVE  UNCHANGED <<delivered, detected>>
  BY <1>6 DEF Call
<1>7. CASE WaitExpire \/ KeepWaiting \/ TakeAnswer \/ HandlerDone \/ PopFront
  BY <1>7 DEF WaitExpire, TakeAnswer, Return, KeepWaiting, HandlerDone, PopFront, history
<1>8. CASE EspStep
  BY <1>8 DEF EspStep, EspAnswer, EspLose, EspEvent, EspRestart, EspOther, client, history
<1> QED BY <1>2, <1>3, <1>4, <1>5, <1>6, <1>7, <1>8 DEF Next, ClientStep

-----------------------------------------------------------------------------
(* A handler and its packet *)

\* What stands above a handler that does not run events() is a call of its own, and
\* while no call was made inside another there is one handler, the last one started.
HandlerAlone ==
  "poll" \notin HandlerMay =>
    /\ \A i \in DOMAIN stack :
         stack[i].at = "handler" /\ i < Len(stack) => Waits(stack[i + 1])
    /\ ~WaitBroken =>
         \A i \in DOMAIN stack : stack[i].at = "handler" => stack[i].event = Last(delivered).id

\* Steps that run events() or go on after it, on top of base: a handler in base has
\* its call above it, and nothing is delivered while there is one.
LEMMA BaseKeepsHandlerAlone ==
  ASSUME IInv, HandlerAlone, TypeOK', NEW base \in Seq(Activation),
         Grows(base), NewHandlerOnTop(base), calls' = calls, Len(base) <= Len(stack),
         "poll" \notin HandlerMay =>
           \A i \in 1..Len(base) : base[i].at = "handler" =>
             /\ stack[i] = base[i] /\ i < Len(base) /\ Waits(base[i + 1])
             /\ delivered' = delivered \/ WaitBroken
  PROVE  HandlerAlone'
<1> SUFFICES ASSUME "poll" \notin HandlerMay,
                    NEW i \in DOMAIN stack', stack'[i].at = "handler"
             PROVE  /\ i < Len(stack') => Waits(stack'[i + 1])
                    /\ ~WaitBroken' => stack'[i].event = Last(delivered').id
  BY DEF HandlerAlone, Waits
<1>1. /\ Len(base) \in Nat /\ Len(stack) \in Nat /\ Len(stack') \in Nat
      /\ DOMAIN stack = 1..Len(stack) /\ i \in 1..Len(stack')
  BY DEF IInv, TypeOK
<1>2. CASE i \in 1..Len(base)
  <2>1. /\ stack'[i] = base[i] /\ stack[i] = base[i] /\ i < Len(base) /\ Waits(base[i + 1])
        /\ delivered' = delivered \/ WaitBroken
    BY <1>2 DEF Grows
  <2>2. i + 1 \in 1..Len(base) /\ stack'[i + 1] = base[i + 1]
    BY <1>1, <1>2, <2>1 DEF Grows
  <2>3. ~WaitBroken' => stack'[i].event = Last(delivered').id
    BY <1>1, <1>2, <2>1 DEF HandlerAlone, WaitBroken
  <2> QED BY <2>1, <2>2, <2>3
<1>3. CASE i \notin 1..Len(base)
  <2>1. i \in Len(base) + 1 .. Len(stack')
    BY <1>1, <1>3
  <2> QED BY <2>1 DEF NewHandlerOnTop
<1> QED BY <1>2, <1>3

\* Steps that leave a lower part of the stack behind.
LEMMA EndKeepsHandlerAlone ==
  ASSUME IInv, HandlerAlone, stack # << >>, stack' = Below, delivered' = delivered,
         WaitBroken => WaitBroken'
  PROVE  HandlerAlone'
<1>1. /\ Len(stack) \in Nat \ {0} /\ DOMAIN stack = 1..Len(stack)
      /\ DOMAIN stack' = 1..Len(stack') /\ Len(stack') = Len(stack) - 1
      /\ \A i \in 1 .. Len(stack) - 1 : stack'[i] = stack[i]
  BY TopAndBelow DEF IInv, TypeOK
<1>2. ASSUME NEW i \in DOMAIN stack', stack'[i].at = "handler", i < Len(stack'),
             "poll" \notin HandlerMay
      PROVE  Waits(stack'[i + 1])
  <2>1. /\ i \in DOMAIN stack /\ i < Len(stack) /\ stack[i].at = "handler"
        /\ stack'[i + 1] = stack[i + 1]
    BY <1>1, <1>2
  <2> QED BY <1>2, <2>1 DEF HandlerAlone
<1>3. ASSUME NEW i \in DOMAIN stack', stack'[i].at = "handler", ~WaitBroken',
             "poll" \notin HandlerMay
      PROVE  stack'[i].event = Last(delivered').id
  BY <1>1, <1>3 DEF HandlerAlone
<1> QED BY <1>2, <1>3 DEF HandlerAlone, Waits

LEMMA LoopPollKeepsHandlerAlone ==
  ASSUME IInv, HandlerAlone, LoopPoll
  PROVE  HandlerAlone'
<1>1. << >> \in Seq(Activation) /\ Len(<< >>) = 0 /\ stack = << >>
  BY DEF LoopPoll
<1>2. /\ TypeOK' /\ Grows(<< >>) /\ NewHandlerOnTop(<< >>) /\ calls' = calls
  BY <1>1, EventsDispatches DEF IInv, TypeOK, LoopPoll, Dispatched
<1>3. Len(<< >>) <= Len(stack) /\ 1..Len(<< >>) = {}
  BY <1>1
<1> QED BY <1>1, <1>2, <1>3, BaseKeepsHandlerAlone

LEMMA WaitPollKeepsHandlerAlone ==
  ASSUME IInv, HandlerAlone, WaitPoll
  PROVE  HandlerAlone'
<1> DEFINE turned == [Top EXCEPT !.at = "check"]
           base == Append(Below, turned)
<1>1. stack # << >> /\ Top.at = "wait"
  BY DEF WaitPoll, At
<1>2. /\ Len(stack) \in Nat \ {0} /\ DOMAIN stack = 1..Len(stack)
      /\ Top = stack[Len(stack)]
      /\ Below \in Seq(Activation) /\ Len(Below) = Len(stack) - 1
      /\ \A i \in 1 .. Len(stack) - 1 : Below[i] = stack[i]
  BY <1>1, TopAndBelow DEF IInv, TypeOK
<1>3. turned \in Activation /\ turned.at = "check"
  BY <1>1, WaitingTop DEF IInv, Waits
<1>4. /\ base \in Seq(Activation) /\ Len(base) = Len(stack)
      /\ base[Len(stack)] = turned
      /\ \A i \in 1 .. Len(stack) - 1 : base[i] = stack[i]
  <2>1. /\ Append(Below, turned) \in Seq(Activation)
        /\ Len(Append(Below, turned)) = Len(Below) + 1
        /\ Append(Below, turned)[Len(Below) + 1] = turned
        /\ \A i \in 1..Len(Below) : Append(Below, turned)[i] = Below[i]
    <3>1. Below \in Seq(Activation) /\ turned \in Activation
      BY <1>2, <1>3
    <3> HIDE DEF turned
    <3> QED BY <3>1, AppendProperties
  <2>2. Len(Below) + 1 = Len(stack) /\ 1..Len(Below) = 1 .. Len(stack) - 1
    BY <1>2
  <2> HIDE DEF turned
  <2> QED BY <1>2, <2>1, <2>2
<1>5. /\ TypeOK' /\ Grows(base) /\ NewHandlerOnTop(base) /\ calls' = calls
      /\ delivered' = delivered
  BY <1>4, EventsDispatches DEF IInv, WaitPoll, Dispatched
<1> HIDE DEF turned, base
<1>6. ASSUME "poll" \notin HandlerMay, NEW i \in 1..Len(base), base[i].at = "handler"
      PROVE  stack[i] = base[i] /\ i < Len(base) /\ Waits(base[i + 1])
  <2>1. i < Len(stack) /\ base[i] = stack[i]
    BY <1>2, <1>3, <1>4, <1>6
  <2>2. Waits(stack[i + 1])
    BY <1>2, <1>6, <2>1 DEF HandlerAlone
  <2>3. Waits(base[i + 1])
    BY <1>2, <1>3, <1>4, <2>1, <2>2 DEF Waits
  <2> QED BY <1>4, <2>1, <2>3
<1>7. Len(base) <= Len(stack)
  BY <1>2, <1>4
<1> QED BY <1>4, <1>5, <1>6, <1>7, BaseKeepsHandlerAlone

\* Below a detect handler there is no event handler without a call above it, and
\* while that call waits nothing is delivered.
LEMMA DetectDoneKeepsHandlerAlone ==
  ASSUME IInv, HandlerAlone, DetectDone
  PROVE  HandlerAlone'
<1>1. /\ stack # << >> /\ Top.at = "detect" /\ ~Waits(Top)
      /\ Dispatched(Below, pending) /\ calls' = calls
  BY DetectDoneDispatches
<1>2. /\ Len(stack) \in Nat \ {0} /\ DOMAIN stack = 1..Len(stack)
      /\ Top = stack[Len(stack)]
      /\ Below \in Seq(Activation) /\ Len(Below) = Len(stack) - 1
      /\ \A i \in 1 .. Len(stack) - 1 : Below[i] = stack[i]
  BY <1>1, TopAndBelow DEF IInv, TypeOK
<1>3. ASSUME "poll" \notin HandlerMay, NEW i \in 1..Len(Below), Below[i].at = "handler"
      PROVE  /\ stack[i] = Below[i] /\ i < Len(Below) /\ Waits(Below[i + 1])
             /\ delivered' = delivered \/ WaitBroken
  <2>1. i \in 1 .. Len(stack) - 1 /\ stack[i] = Below[i]
    BY <1>2
  <2>2. Waits(stack[i + 1])
    BY <1>2, <1>3, <2>1 DEF HandlerAlone
  <2>3. i + 1 # Len(stack)
    BY <1>1, <1>2, <2>2
  <2>4. i + 1 \in DOMAIN stack /\ i < Len(Below) /\ Below[i + 1] = stack[i + 1]
    <3> DEFINE n == Len(stack)
    <3>3. n \in Nat \ {0} /\ Len(Below) = n - 1 /\ i \in 1 .. n - 1 /\ i + 1 # n
      BY <1>2, <2>1, <2>3
    <3> HIDE DEF n
    <3>4. i \in Nat /\ i + 1 \in 1 .. n - 1 /\ i < Len(Below)
      BY <3>3
    <3>1. i \in Nat /\ i + 1 \in 1 .. Len(stack) - 1 /\ i < Len(Below)
      BY <3>4 DEF n
    <3>2. Below[i + 1] = stack[i + 1] /\ i + 1 \in 1..Len(stack)
      BY <1>2, <3>1
    <3> QED BY <1>2, <3>1, <3>2
  <2>5. Active("check")
    BY <1>1, <2>2, <2>4, NothingAtLoopHead DEF Active, Waits
  <2>6. delivered' = delivered \/ WaitBroken
    BY <1>1, <2>5 DEF Dispatched, IInv, PendingInWait
  <2> QED BY <2>1, <2>2, <2>4, <2>6
<1>4. TypeOK'
  BY DetectDoneKeeps DEF IInv
<1>5. Len(Below) <= Len(stack)
  BY <1>2
<1> QED BY <1>1, <1>2, <1>3, <1>4, <1>5, BaseKeepsHandlerAlone DEF Dispatched

LEMMA CallKeepsHandlerAlone ==
  ASSUME IInv, HandlerAlone, NEW op \in Op, Call(op)
  PROVE  HandlerAlone'
<1> DEFINE entry == [at |-> "wait", call |-> Len(calls) + 1]
           record == [op |-> op, result |-> "waiting", got |-> 0,
                      inner |-> InCall, quiet |-> Quiet]
<1>1. /\ stack' = Append(stack, entry) /\ entry.at = "wait" /\ delivered' = delivered
      /\ calls' = Append(calls, record)
  BY DEF Call
<1> HIDE DEF entry, record
<1>2. stack \in Seq(Activation) /\ Len(stack) \in Nat /\ DOMAIN stack = 1..Len(stack)
  BY DEF IInv, TypeOK
<1>3. /\ DOMAIN stack' = 1 .. Len(stack) + 1 /\ Len(stack') = Len(stack) + 1
      /\ stack'[Len(stack) + 1] = entry
      /\ \A i \in 1..Len(stack) : stack'[i] = stack[i]
  BY <1>1, <1>2
<1>4. WaitBroken => WaitBroken'
  <2>1. calls \in Seq(CallRecord)
    BY DEF IInv, TypeOK
  <2>2. \A d \in DOMAIN calls : d \in DOMAIN calls' /\ calls'[d] = calls[d]
    BY <1>1, <2>1
  <2> QED BY <2>2 DEF WaitBroken
<1>5. ASSUME NEW i \in DOMAIN stack', stack'[i].at = "handler", "poll" \notin HandlerMay
      PROVE  /\ i < Len(stack') => Waits(stack'[i + 1])
             /\ ~WaitBroken' => stack'[i].event = Last(delivered').id
  <2>1. i \in 1..Len(stack) /\ stack'[i] = stack[i]
    BY <1>1, <1>2, <1>3, <1>5
  <2>2. Waits(stack'[i + 1])
    BY <1>1, <1>2, <1>3, <1>5, <2>1 DEF HandlerAlone, Waits
  <2>3. ~WaitBroken' => stack'[i].event = Last(delivered').id
    BY <1>1, <1>2, <1>4, <1>5, <2>1 DEF HandlerAlone
  <2> QED BY <2>2, <2>3
<1> QED BY <1>5 DEF HandlerAlone, Waits

LEMMA ReturnKeepsHandlerAlone ==
  ASSUME IInv, HandlerAlone, WaitExpire \/ TakeAnswer
  PROVE  HandlerAlone'
<1>1. stack # << >> /\ Waits(Top)
  BY DEF WaitExpire, TakeAnswer, At, Waits
<1>2. PICK r \in {"answered", "mismatch", "timeout"}, g \in {0, storage} : Return(r, g)
  BY DEF WaitExpire, TakeAnswer
<1>3. stack' = Below /\ delivered' = delivered
  BY <1>2 DEF Return
<1>4. WaitBroken => WaitBroken'
  <2> DEFINE new == [[calls[Top.call] EXCEPT !.result = r] EXCEPT !.got = g]
  <2>1. /\ calls \in Seq(CallRecord) /\ Top.call \in DOMAIN calls
        /\ \A d \in DOMAIN calls : calls[d] \in CallRecord
    BY <1>1, TopAndBelow DEF IInv, TypeOK, CallsKnown
  <2>2. calls' = [calls EXCEPT ![Top.call] = new]
    BY <1>2, <2>1 DEF Return
  <2>3. new.inner = calls[Top.call].inner
    BY <2>1 DEF CallRecord
  <2> HIDE DEF new
  <2>4. \A d \in DOMAIN calls : d \in DOMAIN calls' /\ calls'[d].inner = calls[d].inner
    BY <2>1, <2>2, <2>3
  <2> QED BY <2>4 DEF WaitBroken
<1> QED BY <1>1, <1>3, <1>4, EndKeepsHandlerAlone

LEMMA KeepWaitingKeepsHandlerAlone ==
  ASSUME IInv, HandlerAlone, KeepWaiting
  PROVE  HandlerAlone'
<1> DEFINE turned == [Top EXCEPT !.at = "wait"]
<1>1. stack # << >> /\ Waits(Top) /\ Top.at = "check"
  BY DEF KeepWaiting, At, Waits
<1>2. /\ Len(stack) \in Nat \ {0} /\ DOMAIN stack = 1..Len(stack)
      /\ Top = stack[Len(stack)]
      /\ Below \in Seq(Activation) /\ Len(Below) = Len(stack) - 1
      /\ \A i \in 1 .. Len(stack) - 1 : Below[i] = stack[i]
  BY <1>1, TopAndBelow DEF IInv, TypeOK
<1>3. turned \in Activation /\ turned.at = "wait"
  BY <1>1, WaitingTop DEF IInv
<1>4. stack' = Append(Below, turned) /\ delivered' = delivered /\ calls' = calls
  BY DEF KeepWaiting, history
<1> HIDE DEF turned
<1>5. /\ DOMAIN stack' = 1..Len(stack) /\ Len(stack') = Len(stack)
      /\ stack'[Len(stack)] = turned
      /\ \A i \in 1 .. Len(stack) - 1 : stack'[i] = stack[i]
  <2>1. /\ Append(Below, turned) \in Seq(Activation)
        /\ Len(Append(Below, turned)) = Len(Below) + 1
        /\ Append(Below, turned)[Len(Below) + 1] = turned
        /\ \A i \in 1..Len(Below) : Append(Below, turned)[i] = Below[i]
    <3>1. Below \in Seq(Activation) /\ turned \in Activation
      BY <1>2, <1>3
    <3> QED BY <3>1, AppendProperties
  <2>2. Len(Below) + 1 = Len(stack) /\ 1..Len(Below) = 1 .. Len(stack) - 1
    BY <1>2
  <2>3. stack' \in Seq(Activation) /\ Len(stack') = Len(stack)
    BY <1>4, <2>1, <2>2
  <2>4. DOMAIN stack' = 1..Len(stack)
    BY <2>3
  <2> QED BY <1>2, <1>4, <2>1, <2>2, <2>3, <2>4
<1>6. ASSUME NEW i \in DOMAIN stack', stack'[i].at = "handler", "poll" \notin HandlerMay
      PROVE  /\ i < Len(stack') => Waits(stack'[i + 1])
             /\ ~WaitBroken' => stack'[i].event = Last(delivered').id
  <2>1. i \in 1 .. Len(stack) - 1 /\ stack'[i] = stack[i]
    BY <1>2, <1>3, <1>5, <1>6
  <2>2. Waits(stack'[i + 1])
    BY <1>2, <1>3, <1>5, <1>6, <2>1 DEF HandlerAlone, Waits
  <2>3. ~WaitBroken' => stack'[i].event = Last(delivered').id
    BY <1>2, <1>4, <1>6, <2>1 DEF HandlerAlone, WaitBroken
  <2> QED BY <2>2, <2>3
<1> QED BY <1>6 DEF HandlerAlone, Waits

LEMMA NextKeepsHandlerAlone ==
  ASSUME IInv, HandlerAlone, [Next]_vars
  PROVE  HandlerAlone'
<1>1. ASSUME NEW op \in Op, Call(op)
      PROVE  HandlerAlone'
  BY <1>1, CallKeepsHandlerAlone
<1>2. CASE HandlerPoll
  BY <1>2 DEF HandlerPoll, HandlerAlone
<1>3. CASE HandlerDone \/ PopFront
  <2>1. stack # << >> /\ stack' = Below /\ delivered' = delivered /\ calls' = calls
    BY <1>3 DEF HandlerDone, PopFront, At, history
  <2> QED BY <2>1, EndKeepsHandlerAlone DEF WaitBroken
<1>4. CASE EspStep \/ UNCHANGED vars
  <2>1. stack' = stack /\ delivered' = delivered /\ calls' = calls
    BY <1>4 DEF EspStep, EspAnswer, EspLose, EspEvent, EspRestart, EspOther,
                vars, client, history
  <2> QED BY <2>1 DEF HandlerAlone, WaitBroken, Waits
<1> QED BY <1>1, <1>2, <1>3, <1>4, LoopPollKeepsHandlerAlone, WaitPollKeepsHandlerAlone,
           DetectDoneKeepsHandlerAlone, ReturnKeepsHandlerAlone, KeepWaitingKeepsHandlerAlone
        DEF Next, ClientStep

-----------------------------------------------------------------------------
(* The queue is used as a ring wants to be used *)

\* Until the handler of a queued event runs events(), one event at most is being
\* taken from the queue, and it is still there.
PopHeld ==
  ~overrun =>
    /\ \A i, j \in DOMAIN stack : stack[i].at = "pop" /\ stack[j].at = "pop" => i = j
    /\ Active("pop") => available > 0

LEMMA RingStepKeepsEvents ==
  ASSUME TypeOK, RingStep
  PROVE  /\ [Queue!Next]_ring
         /\ available > 0 => available' > 0
<1>1. available \in 0..Size
  BY DEF TypeOK, Queue!TypeOK
<1>2. CASE UNCHANGED ring
  BY <1>2 DEF ring
<1>3. CASE \E f \in EventFrame : Queue!PushBack(f)
  <2>1. PICK f \in EventFrame : Queue!PushBack(f)
    BY <1>3
  <2>2. Queue!Next
    BY <2>1 DEF Queue!Next
  <2>3. available' > 0
    BY <1>1, <2>1, QueueAssumption DEF Queue!PushBack, Queue!OneMore
  <2> QED BY <2>2, <2>3
<1> QED BY <1>2, <1>3 DEF RingStep

\* Steps that run events() or go on after it, on top of base.
LEMMA BaseKeepsPopHeld ==
  ASSUME IInv, PopHeld, TypeOK', NEW base \in Seq(Activation), Grows(base), RingStep,
         Len(base) <= Len(stack),
         \A i \in 1..Len(base) : base[i].at = "pop" => stack[i].at = "pop",
         ~overrun' => /\ ~overrun
                      /\ NoNewPop(base) \/ (NewPop(base, FALSE) /\ ~Active("pop"))
  PROVE  PopHeld'
<1> SUFFICES ASSUME ~overrun'
             PROVE  PopHeld'
  BY DEF PopHeld
<1>1. /\ Len(base) \in Nat /\ Len(stack) \in Nat /\ Len(stack') \in Nat
      /\ DOMAIN stack = 1..Len(stack) /\ DOMAIN stack' = 1..Len(stack')
  BY DEF IInv, TypeOK
<1>2. ASSUME NEW i \in 1..Len(base), stack'[i].at = "pop"
      PROVE  i \in DOMAIN stack /\ stack[i].at = "pop"
  BY <1>1, <1>2 DEF Grows
<1>3. available > 0 => available' > 0
  BY RingStepKeepsEvents DEF IInv
<1>4. CASE NoNewPop(base)
  <2>1. ASSUME NEW i \in DOMAIN stack', stack'[i].at = "pop"
        PROVE  i \in DOMAIN stack /\ stack[i].at = "pop"
    BY <1>1, <1>2, <1>4, <2>1 DEF NoNewPop
  <2> QED BY <1>3, <2>1 DEF PopHeld, Active
<1>5. CASE NewPop(base, FALSE) /\ ~Active("pop")
  <2>1. ASSUME NEW i \in DOMAIN stack', stack'[i].at = "pop"
        PROVE  i = Len(base) + 1 /\ available > 0
    BY <1>1, <1>2, <1>5, <2>1 DEF NewPop, Active
  <2> QED BY <1>3, <2>1 DEF PopHeld, Active
<1> QED BY <1>4, <1>5

\* Steps that leave the queue alone and take nothing from it.
LEMMA OthersKeepPopHeld ==
  ASSUME PopHeld, overrun' = overrun, UNCHANGED ring,
         \A i \in DOMAIN stack' :
           stack'[i].at = "pop" => i \in DOMAIN stack /\ stack[i].at = "pop"
  PROVE  PopHeld' /\ [Queue!Next]_ring
BY DEF PopHeld, Active, ring

\* events() from a stack base, of which overrun knows.
LEMMA EventsKeepPopHeld ==
  ASSUME IInv, PopHeld, NEW base \in Seq(Activation), NEW p \in BOOLEAN, Events(base, p),
         Len(base) <= Len(stack),
         \A i \in 1..Len(base) : base[i].at = "pop" => stack[i].at = "pop"
  PROVE  PopHeld' /\ [Queue!Next]_ring
<1>1. /\ TypeOK' /\ Dispatched(base, p) /\ NewPop(base, p)
      /\ overrun' = (overrun \/ (Active("pop") /\ ~p))
  BY EventsDispatches DEF IInv
<1>2. p => NoNewPop(base)
  BY <1>1 DEF NewPop, NoNewPop
<1>3. ~p => NewPop(base, FALSE)
  BY <1>1 DEF NewPop
<1>4. ~overrun' => /\ ~overrun
                   /\ NoNewPop(base) \/ (NewPop(base, FALSE) /\ ~Active("pop"))
  BY <1>1, <1>2, <1>3
<1>5. Grows(base) /\ RingStep
  BY <1>1 DEF Dispatched
<1> QED BY <1>1, <1>4, <1>5, BaseKeepsPopHeld, RingStepKeepsEvents DEF IInv

LEMMA NextKeepsPopHeld ==
  ASSUME IInv, PopHeld, Next
  PROVE  PopHeld' /\ (overrun' \/ [Queue!Next]_ring)
<1>1. stack \in Seq(Activation) /\ Len(stack) \in Nat /\ DOMAIN stack = 1..Len(stack)
  BY DEF IInv, TypeOK
<1>2. CASE LoopPoll
  <2>1. /\ << >> \in Seq(Activation) /\ Len(<< >>) = 0 /\ stack = << >>
        /\ Events(<< >>, pending) /\ pending \in BOOLEAN
    BY <1>2 DEF LoopPoll, IInv, TypeOK
  <2>2. Len(<< >>) <= Len(stack) /\ 1..Len(<< >>) = {}
    BY <2>1
  <2> QED BY <2>1, <2>2, EventsKeepPopHeld
<1>3. CASE HandlerPoll
  <2>1. Events(stack, pending) /\ pending \in BOOLEAN
    BY <1>3 DEF HandlerPoll, IInv, TypeOK
  <2> QED BY <1>1, <2>1, EventsKeepPopHeld
<1>4. CASE WaitPoll
  <2> DEFINE turned == [Top EXCEPT !.at = "check"]
             base == Append(Below, turned)
  <2>1. stack # << >> /\ Waits(Top)
    BY <1>4 DEF WaitPoll, At, Waits
  <2>2. Below \in Seq(Activation) /\ turned \in Activation /\ turned.at = "check"
    BY <2>1, TopAndBelow, WaitingTop DEF IInv
  <2>3. Events(base, TRUE)
    BY <1>4 DEF WaitPoll
  <2> HIDE DEF turned
  <2>4. /\ base \in Seq(Activation) /\ Len(base) = Len(Below) + 1
        /\ base[Len(Below) + 1] = turned
        /\ \A i \in 1..Len(Below) : base[i] = Below[i]
    BY <2>2, AppendProperties
  <2>5. Len(Below) = Len(stack) - 1 /\ \A i \in 1 .. Len(stack) - 1 : Below[i] = stack[i]
    BY <2>1, TopAndBelow DEF IInv
  <2> HIDE DEF base
  <2>6. Len(base) <= Len(stack) /\ \A i \in 1..Len(base) : base[i].at = "pop" => stack[i].at = "pop"
    BY <1>1, <2>2, <2>4, <2>5
  <2> QED BY <2>3, <2>4, <2>6, EventsKeepPopHeld
<1>5. CASE DetectDone
  <2>1. /\ stack # << >> /\ Dispatched(Below, pending) /\ NoNewPop(Below)
        /\ overrun' = overrun /\ TypeOK'
    BY <1>5, DetectDoneDispatches, DetectDoneKeeps DEF IInv
  <2>2. /\ Below \in Seq(Activation) /\ Len(Below) = Len(stack) - 1
        /\ \A i \in 1 .. Len(stack) - 1 : Below[i] = stack[i]
    BY <2>1, TopAndBelow DEF IInv
  <2>3. /\ Len(Below) <= Len(stack)
        /\ \A i \in 1..Len(Below) : Below[i].at = "pop" => stack[i].at = "pop"
    BY <1>1, <2>2
  <2>4. Grows(Below) /\ RingStep
    BY <2>1 DEF Dispatched
  <2> QED BY <2>1, <2>2, <2>3, <2>4, BaseKeepsPopHeld, RingStepKeepsEvents DEF IInv
<1>6. CASE WaitExpire \/ TakeAnswer \/ HandlerDone
  <2>1. /\ stack # << >> /\ stack' = Below /\ overrun' = overrun /\ UNCHANGED ring
    BY <1>6 DEF WaitExpire, TakeAnswer, HandlerDone, Return, At, history
  <2>2. \A i \in DOMAIN stack' : i \in DOMAIN stack /\ stack'[i] = stack[i]
    BY <1>1, <2>1, TopAndBelow DEF IInv
  <2> QED BY <2>1, <2>2, OthersKeepPopHeld
<1>7. CASE KeepWaiting
  <2> DEFINE turned == [Top EXCEPT !.at = "wait"]
  <2>1. stack # << >> /\ Waits(Top)
    BY <1>7 DEF KeepWaiting, At, Waits
  <2>2. Below \in Seq(Activation) /\ turned \in Activation /\ turned.at = "wait"
    BY <2>1, TopAndBelow, WaitingTop DEF IInv
  <2>3. stack' = Append(Below, turned) /\ overrun' = overrun /\ UNCHANGED ring
    BY <1>7 DEF KeepWaiting, history
  <2> HIDE DEF turned
  <2>4. /\ Len(stack') = Len(Below) + 1 /\ stack' \in Seq(Activation)
        /\ stack'[Len(Below) + 1] = turned
        /\ \A i \in 1..Len(Below) : stack'[i] = Below[i]
    BY <2>2, <2>3, AppendProperties
  <2>5. Len(Below) = Len(stack) - 1 /\ \A i \in 1 .. Len(stack) - 1 : Below[i] = stack[i]
    BY <2>1, TopAndBelow DEF IInv
  <2>6. \A i \in DOMAIN stack' :
          stack'[i].at = "pop" => i \in DOMAIN stack /\ stack[i].at = "pop"
    BY <1>1, <2>2, <2>4, <2>5
  <2> QED BY <2>3, <2>6, OthersKeepPopHeld
<1>8. CASE PopFront
  <2>1. /\ stack # << >> /\ stack' = Below /\ Top.at = "pop" /\ Queue!PopFront
        /\ overrun' = overrun
    BY <1>8 DEF PopFront, At, history
  <2>2. /\ Len(stack) \in DOMAIN stack /\ stack[Len(stack)].at = "pop"
        /\ \A i \in DOMAIN stack' :
             i \in DOMAIN stack /\ i # Len(stack) /\ stack'[i] = stack[i]
    BY <1>1, <2>1, TopAndBelow DEF IInv
  <2>3. ~overrun => available > 0
    BY <2>2 DEF PopHeld, Active
  <2>4. ~overrun => ~Active("pop")'
    BY <2>2 DEF PopHeld, Active
  <2>5. PopHeld'
    BY <2>1, <2>4 DEF PopHeld, Active
  <2> QED BY <2>1, <2>3, <2>5 DEF Queue!Next
<1>9. ASSUME NEW op \in Op, Call(op)
      PROVE  PopHeld' /\ [Queue!Next]_ring
  <2> DEFINE entry == [at |-> "wait", call |-> Len(calls) + 1]
  <2>1. /\ stack' = Append(stack, entry) /\ entry.at = "wait"
        /\ overrun' = overrun /\ UNCHANGED ring
    BY <1>9 DEF Call
  <2> HIDE DEF entry
  <2>2. \A i \in DOMAIN stack' :
          stack'[i].at = "pop" => i \in DOMAIN stack /\ stack[i].at = "pop"
    BY <1>1, <2>1
  <2> QED BY <2>1, <2>2, OthersKeepPopHeld
<1>10. CASE EspStep
  <2>1. stack' = stack /\ overrun' = overrun /\ UNCHANGED ring
    BY <1>10 DEF EspStep, EspAnswer, EspLose, EspEvent, EspRestart, EspOther, client, history
  <2> QED BY <2>1, OthersKeepPopHeld
<1> QED BY <1>2, <1>3, <1>4, <1>5, <1>6, <1>7, <1>8, <1>9, <1>10 DEF Next, ClientStep

-----------------------------------------------------------------------------
(* The theorems *)

\* Every reachable state satisfies the inductive invariant.
THEOREM LinkInvariant == Spec => []IInv
BY InitEstablishes, NextKeeps, PTL DEF Spec

\* The state keeps its types: no index of the queue leaves its ring, no activation
\* and no frame is of a kind the code does not know.
THEOREM LinkTypes == Spec => []TypeOK
<1>1. IInv => TypeOK
  BY DEF IInv
<1> QED BY LinkInvariant, <1>1, PTL

\* _pendingData is set only while a call waits for its answer, however calls,
\* handlers and restarts of the ESP are nested.
THEOREM PendingEndsWithTheCalls == Spec => []PendingOnlyInCall
<1>1. IInv => PendingOnlyInCall
  BY DEF IInv
<1> QED BY LinkInvariant, <1>1, PTL

\* No handler of an event starts while a call waits, unless a detect handler has
\* made a call inside a wait.
THEOREM HandlersStayOutOfCalls == Spec => NoHandlerInCall
<1>1. IInv /\ [Next]_vars =>
        [Len(delivered') > Len(delivered) => ~InCall \/ WaitBroken]_vars
  <2> SUFFICES ASSUME IInv, Next, Len(delivered') > Len(delivered), InCall, ~WaitBroken
               PROVE  FALSE
    OBVIOUS
  <2>1. delivered' = delivered /\ Len(delivered) \in Nat
    BY StepInCall DEF IInv, TypeOK
  <2> QED BY <2>1
<1> QED BY LinkInvariant, <1>1, PTL DEF Spec, NoHandlerInCall

\* The library does not declare the ESP gone while it waits for an answer, with
\* the same exception.
THEOREM OnlineThroughCalls == Spec => NotOfflineInCall
<1>1. IInv /\ [Next]_vars => [detected /\ ~detected' => ~InCall \/ WaitBroken]_vars
  BY StepInCall
<1> QED BY LinkInvariant, <1>1, PTL DEF Spec, NotOfflineInCall

\* "VALID PACKET, RESET TIMEOUT, ONLINE!" (line 4353) is not all there is, as the run
\* of OnlineOnlyByPacket shows: a kept event that is taken from the queue outside a call
\* brings the library online too.  These two are all the ways there are.
THEOREM OnlineByPacketOrQueue ==
  Spec => [][~detected /\ detected' => Len(rx') < Len(rx) \/ (available > 0 /\ ~pending')]_vars
<1>1. ASSUME TypeOK, Next, ~detected, detected'
      PROVE  Len(rx') < Len(rx) \/ (available > 0 /\ ~pending')
  <2>1. CASE \E base, p : Events(base, p)
    <3>1. PICK base, p : Events(base, p)
      BY <2>1
    <3>2. PICK d \in {detected, FALSE} :
            ReadFrame(base, p, d) \/ (rx = << >> /\ UNCHANGED rx /\ Dequeue(base, p, d))
      BY <3>1 DEF Events
    <3>3. d = FALSE /\ pending' = p
      <4>1. detected = FALSE
        BY <1>1 DEF TypeOK
      <4> QED BY <3>1, <3>2, <4>1 DEF Events
    <3>4. CASE ReadFrame(base, p, d)
      <4>1. rx \in Seq(Frame) /\ rx # << >> /\ rx' = Tail(rx)
        BY <1>1, <3>4 DEF ReadFrame, TypeOK
      <4> QED BY <4>1
    <3>5. CASE Dequeue(base, p, d)
      BY <1>1, <3>3, <3>5 DEF Dequeue
    <3> QED BY <3>2, <3>4, <3>5
  <2>2. CASE UNCHANGED detected
    BY <1>1, <2>2
  <2>3. CASE LoopPoll \/ HandlerPoll \/ WaitPoll
    BY <2>1, <2>3 DEF LoopPoll, HandlerPoll, WaitPoll
  <2>4. CASE \/ \E op \in Op : Call(op)
             \/ WaitExpire \/ KeepWaiting \/ TakeAnswer \/ DetectDone \/ HandlerDone \/ PopFront
    BY <2>2, <2>4 DEF Call, WaitExpire, KeepWaiting, TakeAnswer, Return, DetectDone, HandlerDone,
                      PopFront
  <2>5. CASE EspStep
    BY <2>2, <2>5 DEF EspStep, EspAnswer, EspLose, EspEvent, EspRestart, EspOther, client
  <2> QED BY <1>1, <2>3, <2>4, <2>5 DEF Next, ClientStep
<1>2. IInv /\ [Next]_vars
        => [~detected /\ detected' => Len(rx') < Len(rx) \/ (available > 0 /\ ~pending')]_vars
  BY <1>1 DEF IInv
<1> QED BY LinkInvariant, <1>2, PTL DEF Spec

\* A handler that leaves events() to the library finds the packet it was given in
\* the static fields, also after it has made calls, with the same exception.
THEOREM PacketsStayTheirOwn == Spec => []PacketIsOwn
<1>1. Init => HandlerAlone
  BY DEF Init, HandlerAlone
<1>2. IInv /\ HandlerAlone /\ [Next]_vars => HandlerAlone'
  BY NextKeepsHandlerAlone
<1>3. IInv /\ HandlerAlone => PacketIsOwn
  <2> SUFFICES ASSUME IInv, HandlerAlone, At("handler"), "poll" \notin HandlerMay, ~WaitBroken
               PROVE  Top.event = Last(delivered).id
    BY DEF PacketIsOwn
  <2>1. Len(stack) \in DOMAIN stack /\ Top = stack[Len(stack)]
    BY TopAndBelow DEF At, IInv, TypeOK
  <2> QED BY <2>1 DEF At, HandlerAlone
<1> QED BY LinkInvariant, <1>1, <1>2, <1>3, PTL DEF Spec

\* The library uses the queue as the ring expects it, so that what is proved of the
\* ring (CircularBuffer_proofs) holds of the queue, until the handler of a queued
\* event runs events() itself.
THEOREM RingIsUsedAsItExpects == Spec => QueueKept
<1>1. Init => PopHeld
  BY DEF Init, PopHeld, Active
<1>2. IInv /\ PopHeld /\ [Next]_vars => PopHeld'
  <2>1. CASE UNCHANGED vars
    BY <2>1 DEF vars, client, history, ring, PopHeld, Active
  <2> QED BY <2>1, NextKeepsPopHeld
<1>3. IInv /\ PopHeld /\ [Next]_vars => [overrun' \/ Queue!Next]_ring
  <2>1. CASE UNCHANGED vars
    BY <2>1 DEF vars, client, ring
  <2> QED BY <2>1, NextKeepsPopHeld
<1> QED BY LinkInvariant, <1>1, <1>2, <1>3, PTL DEF Spec, QueueKept

\* When handlers leave events() to the library the queue is a run of the ring.
THEOREM QueueIsARing ==
  ASSUME "poll" \notin HandlerMay
  PROVE  Spec => QueueSpec
<1>1. Init => Queue!Init /\ ~overrun
  BY DEF Init
<1>2. IInv /\ ~overrun /\ [Next]_vars => ~overrun'
  <2> SUFFICES ASSUME IInv, ~overrun, [Next]_vars
               PROVE  ~overrun'
    OBVIOUS
  <2>1. CASE LoopPoll
    <3>1. ~Active("pop")
      BY <2>1 DEF LoopPoll, Active
    <3>2. overrun' = (overrun \/ (Active("pop") /\ ~pending))
      BY <2>1 DEF LoopPoll, Events
    <3> QED BY <3>1, <3>2
  <2>2. CASE WaitPoll
    BY <2>2 DEF WaitPoll, Events
  <2>3. CASE HandlerPoll
    BY <2>3 DEF HandlerPoll
  <2>4. CASE WaitExpire \/ TakeAnswer \/ KeepWaiting \/ HandlerDone \/ PopFront \/ DetectDone
    BY <2>4 DEF WaitExpire, TakeAnswer, Return, KeepWaiting, HandlerDone, PopFront,
                DetectDone, history
  <2>5. ASSUME NEW op \in Op, Call(op)
        PROVE  ~overrun'
    BY <2>5 DEF Call
  <2>6. CASE EspStep \/ UNCHANGED vars
    BY <2>6 DEF EspStep, EspAnswer, EspLose, EspEvent, EspRestart, EspOther, vars, history
  <2> QED BY <2>1, <2>2, <2>3, <2>4, <2>5, <2>6 DEF Next, ClientStep
<1>3. ~overrun' /\ [overrun' \/ Queue!Next]_ring => [Queue!Next]_(Queue!vars)
  BY DEF ring, Queue!vars
<1> QED BY LinkInvariant, RingIsUsedAsItExpects, <1>1, <1>2, <1>3, PTL
        DEF Spec, QueueKept, QueueSpec, Queue!Spec

\* The ring again, with what is proved about it.
Buffer == INSTANCE CircularBuffer_proofs WITH Entry <- EventFrame, Blank <- NoFrame, Spoilt <- {}

(***************************************************************************)
(* The library and the ring together: when handlers leave events() to the  *)
(* library, and the queue has a power of two of slots (16 in the source),  *)
(* the queue does what a bounded deque does, whatever comes in and however *)
(* calls are nested.                                                       *)
(***************************************************************************)
THEOREM QueueIsADeque ==
  ASSUME "poll" \notin HandlerMay,
         Size \in {1, 2, 4, 8, 16, 32, 64, 128, 256, 512, 1024, 2048, 4096, 8192, 16384, 32768}
  PROVE  Spec => Buffer!DequeSpec
<1>1. Buffer!Spec => Buffer!DequeSpec
  <2>1. \A f \in EventFrame \cup {} : MovesWhole(f)
    BY DEF MovesWhole
  <2> QED BY <2>1, QueueAssumption, Buffer!RingImplementsDeque
<1>2. Queue!Init <=> Buffer!Init
  BY DEF Queue!Init, Buffer!Init, Queue!Slots, Buffer!Slots
<1>3. [Queue!Next]_(Queue!vars) <=> [Buffer!Next]_(Buffer!vars)
  BY DEF Queue!vars, Buffer!vars, Queue!Next, Buffer!Next, Queue!PushBack,
         Buffer!PushBack, Queue!PushFront, Buffer!PushFront, Queue!PopFront,
         Buffer!PopFront, Queue!PopBack, Buffer!PopBack, Queue!Clear, Buffer!Clear,
         Queue!Remove, Buffer!Remove, Queue!Shifted, Buffer!Shifted, Queue!Whole,
         Buffer!Whole, Queue!Reached, Buffer!Reached, Queue!Replace, Buffer!Replace, Queue!Message,
         Buffer!Message, Queue!Offset, Buffer!Offset, Queue!SlotOf, Buffer!SlotOf,
         Queue!Ahead, Buffer!Ahead, Queue!Before, Buffer!Before, Queue!Full, Buffer!Full,
         Queue!OneMore, Buffer!OneMore, Queue!OneLess, Buffer!OneLess, Queue!Slots,
         Buffer!Slots
<1> QED BY QueueIsARing, <1>1, <1>2, <1>3, PTL DEF QueueSpec, Queue!Spec, Buffer!Spec

-----------------------------------------------------------------------------
(* The answers: which call returns with which.  Answers carry no number, so *)
(* the argument follows every answer from the request to the call that      *)
(* returns with it.                                                         *)

\* An answer read from the wire that waits for the detect handler to return.
Held(a) == a.at = "detect" /\ "slot" \notin DOMAIN a.data /\ a.data.kind = "answer"

\* The calls whose answers have not been read yet.
Coming ==
  {c \in 1..MaxCalls :
     \/ \E i \in DOMAIN esp : esp[i] = c
     \/ \E i \in DOMAIN rx : rx[i].kind = "answer" /\ rx[i].id = c}

-----------------------------------------------------------------------------
(* The inductive invariant *)

\* A call is answered once.
ComingDistinct ==
  /\ \A i, j \in DOMAIN esp : esp[i] = esp[j] => i = j
  /\ \A i, j \in DOMAIN rx :
       rx[i].kind = "answer" /\ rx[j].kind = "answer" /\ rx[i].id = rx[j].id => i = j
  /\ \A i \in DOMAIN rx, j \in DOMAIN esp : rx[i].kind = "answer" => rx[i].id # esp[j]

\* Answers belong to calls that were made.
Known ==
  /\ Coming \subseteq DOMAIN calls
  /\ storage \in 0..Len(calls)
  /\ \A c \in DOMAIN calls : calls[c].got \in 0..Len(calls)
  /\ \A i \in DOMAIN stack : Held(stack[i]) => stack[i].data.id \in DOMAIN calls

\* An answer that was read is in one place, until it is in storage_buffer.
ReadOnce ==
  /\ storage \notin Coming
  /\ \A c \in DOMAIN calls : calls[c].got \notin Coming
  /\ \A i \in DOMAIN stack : Held(stack[i]) =>
       /\ stack[i].data.id \notin Coming
       /\ stack[i].data.id # storage
       /\ \A c \in DOMAIN calls : calls[c].got # stack[i].data.id
  /\ \A i, j \in DOMAIN stack :
       Held(stack[i]) /\ Held(stack[j]) /\ stack[i].data.id = stack[j].data.id => i = j

\* The calls on record as waiting are those on the stack, in the order of their start.
UnderWay ==
  /\ \A i \in DOMAIN stack : Waits(stack[i]) => calls[stack[i].call].result = "waiting"
  /\ \A c \in DOMAIN calls : calls[c].result = "waiting" =>
       \E i \in DOMAIN stack : Waits(stack[i]) /\ stack[i].call = c
  /\ \A i, j \in DOMAIN stack :
       i < j /\ Waits(stack[i]) /\ Waits(stack[j]) => stack[i].call < stack[j].call

\* While an answer is on its way no call finds the wire quiet.
NoPauseSince == \A a \in Coming : \A e \in DOMAIN calls : e > a => ~calls[e].quiet

\* What was called after a call that still waits was called inside it.
LaterInner ==
  \A i \in DOMAIN stack : Waits(stack[i]) =>
    \A a \in DOMAIN calls : a > stack[i].call => calls[a].inner

\* When a call is made that is inside no other, the calls before it are over.
EarlierOver ==
  \A c \in DOMAIN calls : ~calls[c].inner =>
    \A a \in 1 .. c - 1 : calls[a].result # "waiting" /\ calls[a].got < c

\* Why call c may end on the answer to call a.
Cause(c, a) ==
  \E d \in DOMAIN calls :
    /\ d <= c \/ d <= a
    /\ calls[d].result = "timeout" \/ calls[d].inner
    /\ \A e \in d + 1 .. c : ~calls[e].quiet

\* A call that waits may end on the answer to another one, in storage_buffer or
\* behind a detect handler above it, only when there is a cause.
Excused ==
  \A k \in DOMAIN stack : Waits(stack[k]) =>
    /\ ready /\ storage # stack[k].call => Cause(stack[k].call, storage)
    /\ \A j \in DOMAIN stack :
         j > k /\ Held(stack[j]) /\ stack[j].data.id # stack[k].call =>
           Cause(stack[k].call, stack[j].data.id)

\* With no calls from handlers, only loop() calls.
CallsAtBottom ==
  "call" \notin HandlerMay => ~WaitBroken /\ \A i \in DOMAIN stack : Waits(stack[i]) => i = 1

\* Until a call is made inside another, an answer that is ready has not been used.
UsedOnce ==
  ~WaitBroken =>
    /\ ready /\ InCall => \A c \in DOMAIN calls : calls[c].got # storage
    /\ AnswerUsedOnce

AnswerInv ==
  /\ IInv
  /\ ComingDistinct
  /\ Known
  /\ ReadOnce
  /\ UnderWay
  /\ NoPauseSince
  /\ LaterInner
  /\ EarlierOver
  /\ Excused
  /\ StrangersHaveCause
  /\ CallsAtBottom
  /\ UsedOnce

-----------------------------------------------------------------------------
(* What is on its way *)

\* A frame is read.
LEMMA ReadingShrinks ==
  ASSUME TypeOK, ComingDistinct, rx # << >>, rx' = Tail(rx), esp' = esp
  PROVE  /\ ComingDistinct'
         /\ Coming' \subseteq Coming
         /\ Head(rx).kind = "answer" => Head(rx).id \in Coming /\ Head(rx).id \notin Coming'
<1>1. /\ Len(rx) \in Nat \ {0} /\ DOMAIN rx = 1..Len(rx)
      /\ Len(rx') = Len(rx) - 1 /\ DOMAIN rx' = 1..Len(rx')
      /\ \A i \in 1 .. Len(rx) - 1 : rx'[i] = rx[i + 1]
      /\ Head(rx) = rx[1]
      /\ \A i \in DOMAIN rx : rx[i] \in Frame
  BY HeadTailProperties DEF TypeOK
<1>2. \A i \in DOMAIN rx' : i + 1 \in DOMAIN rx /\ i + 1 # 1 /\ rx'[i] = rx[i + 1]
  BY <1>1
<1>3. ComingDistinct'
  <2>1. \A i, j \in DOMAIN rx' :
          rx'[i].kind = "answer" /\ rx'[j].kind = "answer" /\ rx'[i].id = rx'[j].id => i = j
    BY <1>1, <1>2 DEF ComingDistinct
  <2> QED BY <1>2, <2>1 DEF ComingDistinct
<1>4. Coming' \subseteq Coming
  BY <1>2 DEF Coming
<1>5. ASSUME Head(rx).kind = "answer"
      PROVE  Head(rx).id \in Coming /\ Head(rx).id \notin Coming'
  <2>1. 1 \in DOMAIN rx /\ rx[1].id \in 1..MaxCalls
    BY <1>1, <1>5 DEF Frame, EventFrame
  <2>2. Head(rx).id \in Coming
    BY <1>1, <1>5, <2>1 DEF Coming
  <2>3. ~ \E i \in DOMAIN esp' : esp'[i] = Head(rx).id
    BY <1>1, <1>5, <2>1 DEF ComingDistinct
  <2>4. ~ \E i \in DOMAIN rx' : rx'[i].kind = "answer" /\ rx'[i].id = Head(rx).id
    BY <1>1, <1>2, <1>5, <2>1 DEF ComingDistinct
  <2> QED BY <2>2, <2>3, <2>4 DEF Coming
<1> QED BY <1>3, <1>4, <1>5

\* The ESP answers, loses a request, restarts or sends something else.
LEMMA SendingShrinks ==
  ASSUME TypeOK, ComingDistinct, EspStep
  PROVE  ComingDistinct' /\ Coming' \subseteq Coming
<1>1. /\ rx \in Seq(Frame) /\ Len(rx) \in Nat /\ DOMAIN rx = 1..Len(rx)
      /\ DOMAIN esp = 1..Len(esp) /\ Len(esp) \in Nat
  BY DEF TypeOK
<1>2. ASSUME esp # << >>
      PROVE  /\ DOMAIN Tail(esp) = 1 .. Len(esp) - 1 /\ Head(esp) = esp[1] /\ 1 \in DOMAIN esp
             /\ \A i \in DOMAIN Tail(esp) :
                  i + 1 \in DOMAIN esp /\ i + 1 # 1 /\ Tail(esp)[i] = esp[i + 1]
             /\ Head(esp) \in 1..MaxCalls
  <2>1. esp \in Seq(1..MaxCalls)
    BY DEF TypeOK
  <2>2. /\ Len(esp) \in Nat \ {0} /\ Tail(esp) \in Seq(1..MaxCalls)
        /\ Len(Tail(esp)) = Len(esp) - 1
        /\ \A i \in 1 .. Len(esp) - 1 : Tail(esp)[i] = esp[i + 1]
    BY <1>2, <2>1, HeadTailProperties
  <2>3. DOMAIN Tail(esp) = 1 .. Len(esp) - 1
    BY <2>2
  <2>4. Head(esp) = esp[1] /\ 1 \in DOMAIN esp /\ esp[1] \in 1..MaxCalls
    <3>1. 1 \in DOMAIN esp
      BY <1>1, <2>2
    <3>2. Head(esp) = esp[1]
      BY <1>2, <2>1, HeadTailProperties
    <3>3. esp[1] \in 1..MaxCalls
      BY <1>1, <2>1, <3>1, ElementOfSeq
    <3> QED BY <3>1, <3>2, <3>3
  <2> QED BY <1>1, <2>2, <2>3, <2>4
<1>3. ASSUME NEW f \in Frame, rx' = Append(rx, f)
      PROVE  /\ DOMAIN rx' = 1 .. Len(rx) + 1
             /\ rx'[Len(rx) + 1] = f
             /\ \A i \in DOMAIN rx : rx'[i] = rx[i]
             /\ \A i \in DOMAIN rx' : i \in DOMAIN rx \/ i = Len(rx) + 1
  BY <1>1, <1>3, AppendProperties
<1>4. CASE EspAnswer
  <2> DEFINE f == [kind |-> "answer", id |-> Head(esp)]
  <2>1. /\ esp # << >> /\ rx' = Append(rx, f) /\ esp' = Tail(esp)
    BY <1>4 DEF EspAnswer
  <2>2. f \in Frame /\ f.kind = "answer" /\ f.id = Head(esp)
    BY <1>2, <2>1 DEF Frame
  <2> HIDE DEF f
  <2>3. /\ rx'[Len(rx) + 1] = f
        /\ \A i \in DOMAIN rx : rx'[i] = rx[i]
        /\ \A i \in DOMAIN rx' : i \in DOMAIN rx \/ i = Len(rx) + 1
    BY <1>3, <2>1, <2>2
  <2>4. \A i, j \in DOMAIN rx' :
          rx'[i].kind = "answer" /\ rx'[j].kind = "answer" /\ rx'[i].id = rx'[j].id => i = j
    BY <1>2, <2>1, <2>2, <2>3 DEF ComingDistinct
  <2>5. \A i \in DOMAIN rx', j \in DOMAIN esp' : rx'[i].kind = "answer" => rx'[i].id # esp'[j]
    BY <1>2, <2>1, <2>2, <2>3 DEF ComingDistinct
  <2>6. \A i, j \in DOMAIN esp' : esp'[i] = esp'[j] => i = j
    <3> SUFFICES ASSUME NEW i \in DOMAIN esp', NEW j \in DOMAIN esp', esp'[i] = esp'[j]
                 PROVE  i = j
      OBVIOUS
    <3>1. i + 1 = j + 1
      BY <1>2, <2>1 DEF ComingDistinct
    <3> QED BY <1>1, <1>2, <2>1, <3>1
  <2>7. Coming' \subseteq Coming
    BY <1>2, <2>1, <2>2, <2>3 DEF Coming
  <2> QED BY <2>4, <2>5, <2>6, <2>7 DEF ComingDistinct
<1>5. CASE EspLose
  <2>1. esp # << >> /\ rx' = rx /\ esp' = Tail(esp)
    BY <1>5 DEF EspLose
  <2>2. \A i, j \in DOMAIN esp' : esp'[i] = esp'[j] => i = j
    <3> SUFFICES ASSUME NEW i \in DOMAIN esp', NEW j \in DOMAIN esp', esp'[i] = esp'[j]
                 PROVE  i = j
      OBVIOUS
    <3>1. i + 1 = j + 1
      BY <1>2, <2>1 DEF ComingDistinct
    <3> QED BY <1>1, <1>2, <2>1, <3>1
  <2> QED BY <1>2, <2>1, <2>2 DEF ComingDistinct, Coming
<1>6. ASSUME NEW f \in Frame, f.kind # "answer", rx' = Append(rx, f),
             esp' = esp \/ esp' = << >>
      PROVE  ComingDistinct' /\ Coming' \subseteq Coming
  <2>1. \A i \in DOMAIN rx' : rx'[i].kind = "answer" => i \in DOMAIN rx /\ rx'[i] = rx[i]
    BY <1>3, <1>6
  <2>2. \A i \in DOMAIN esp' : i \in DOMAIN esp /\ esp'[i] = esp[i]
    BY <1>6
  <2> QED BY <2>1, <2>2 DEF ComingDistinct, Coming
<1>7. CASE EspEvent
  <2>1. sent["event"] + 1 \in 1 .. MaxSent["event"]
    <3>1. sent["event"] < MaxSent["event"]
      BY <1>7 DEF EspEvent, MayHappen
    <3>2. sent["event"] \in Nat /\ MaxSent["event"] \in Nat
      BY BoundsAssumption DEF Occurrence, TypeOK
    <3> QED BY <3>1, <3>2
  <2> DEFINE f == [kind |-> "event", id |-> sent["event"] + 1]
  <2>2. f \in Frame /\ f.kind # "answer"
    BY <2>1 DEF Frame, EventFrame
  <2>3. rx' = Append(rx, f) /\ esp' = esp
    BY <1>7 DEF EspEvent
  <2> HIDE DEF f
  <2> QED BY <1>6, <2>2, <2>3
<1>8. ASSUME NEW k \in {"restart", "status", "junk", "noise"}, rx' = Append(rx, Plain(k)),
             esp' = esp \/ esp' = << >>
      PROVE  ComingDistinct' /\ Coming' \subseteq Coming
  <2>1. Plain(k) \in Frame /\ Plain(k).kind # "answer"
    BY DEF Frame, Plain
  <2> QED BY <1>6, <1>8, <2>1
<1> QED BY <1>4, <1>5, <1>7, <1>8 DEF EspStep, EspRestart, EspOther

\* A call sends its request.
LEMMA CallAddsOne ==
  ASSUME TypeOK, ComingDistinct, Coming \subseteq DOMAIN calls,
         rx' = rx, esp' = Append(esp, Len(calls) + 1)
  PROVE  ComingDistinct' /\ Coming' \subseteq Coming \cup {Len(calls) + 1}
<1> DEFINE n == Len(calls) + 1
<1>1. /\ Len(esp) \in Nat /\ DOMAIN esp = 1..Len(esp) /\ Len(calls) \in Nat
      /\ DOMAIN calls = 1..Len(calls)
  BY DEF TypeOK
<1>2. n \notin DOMAIN calls
  BY <1>1
<1> HIDE DEF n
<1>3. /\ DOMAIN esp' = 1 .. Len(esp) + 1 /\ esp'[Len(esp) + 1] = n
      /\ \A i \in DOMAIN esp : esp'[i] = esp[i]
      /\ \A i \in DOMAIN esp' : i \in DOMAIN esp \/ i = Len(esp) + 1
  BY <1>1, AppendProperties DEF n, TypeOK
<1>4. /\ \A i \in DOMAIN esp : esp[i] \in Coming
      /\ \A i \in DOMAIN rx : rx[i].kind = "answer" => rx[i].id \in Coming
  <2>1. /\ \A i \in DOMAIN esp : esp[i] \in 1..MaxCalls
        /\ \A i \in DOMAIN rx : rx[i] \in Frame
    <3>1. esp \in Seq(1..MaxCalls) /\ rx \in Seq(Frame)
      BY DEF TypeOK
    <3>2. \A i \in DOMAIN esp : esp[i] \in 1..MaxCalls
      BY <1>1, <3>1, ElementOfSeq
    <3>3. \A i \in DOMAIN rx : rx[i] \in Frame
      BY <3>1
    <3> QED BY <3>2, <3>3
  <2>2. \A i \in DOMAIN rx : rx[i].kind = "answer" => rx[i].id \in 1..MaxCalls
    BY <2>1 DEF Frame, EventFrame
  <2> QED BY <2>1, <2>2 DEF Coming
<1>5. \A i, j \in DOMAIN esp' : esp'[i] = esp'[j] => i = j
  BY <1>2, <1>3, <1>4 DEF ComingDistinct
<1>6. \A i \in DOMAIN rx, j \in DOMAIN esp' : rx[i].kind = "answer" => rx[i].id # esp'[j]
  BY <1>2, <1>3, <1>4 DEF ComingDistinct
<1>7. Coming' \subseteq Coming \cup {n}
  BY <1>3 DEF Coming
<1> QED BY <1>5, <1>6, <1>7 DEF ComingDistinct, n

LEMMA QuietMeansNothingComing ==
  ASSUME TypeOK, Quiet
  PROVE  Coming = {}
BY DEF Quiet, Coming, TypeOK

-----------------------------------------------------------------------------
(* What processing_data() and events() do with answers *)

\* No answer is put behind a detect handler above base.
NoNewHeld(base) == \A i \in Len(base) + 1 .. Len(stack') : ~Held(stack'[i])

\* No answer is dealt with.
NoAnswer(base) == NoNewHeld(base) /\ storage' = storage /\ ready' = ready

\* The answer f gets into storage_buffer, or behind a detect handler.
Stored(base, f) ==
  /\ f.kind = "answer"
  /\ NoNewHeld(base)
  /\ storage' = f.id /\ ready'

HeldUp(base, f) ==
  /\ f.kind = "answer"
  /\ storage' = storage /\ ready' = ready
  /\ stack' = Append(base, [at |-> "detect", data |-> f])

LEMMA SwitchAnswers ==
  ASSUME NEW f \in Frame \cup {NoFrame}, NEW base \in Seq(Activation), NEW p, Switch(f, base, p)
  PROVE  NoAnswer(base) \/ Stored(base, f)
<1>1. Len(base) \in Nat
  OBVIOUS
<1>2. CASE stack' = base
  <2>1. NoNewHeld(base)
    BY <1>1, <1>2 DEF NoNewHeld
  <2> QED BY <2>1 DEF Switch, StartHandler, NoAnswer, Stored
<1>3. CASE f.kind = "event" /\ StartHandler(f, base) /\ UNCHANGED <<storage, ready>>
  <2> DEFINE entry == [at |-> "handler", event |-> f.id]
  <2>1. stack' = Append(base, entry) /\ entry.at = "handler"
    BY <1>3 DEF StartHandler
  <2> HIDE DEF entry
  <2>2. \A i \in Len(base) + 1 .. Len(stack') : stack'[i] = entry
    BY <1>1, <2>1
  <2> QED BY <1>3, <2>1, <2>2 DEF NoAnswer, NoNewHeld, Held
<1>4. CASE stack' = Append(base, [at |-> "spin"]) /\ UNCHANGED <<storage, ready>>
  <2> DEFINE entry == [at |-> "spin"]
  <2>1. stack' = Append(base, entry) /\ entry.at = "spin"
    BY <1>4
  <2> HIDE DEF entry
  <2>2. \A i \in Len(base) + 1 .. Len(stack') : stack'[i] = entry
    BY <1>1, <2>1
  <2> QED BY <1>4, <2>1, <2>2 DEF NoAnswer, NoNewHeld, Held
<1> QED BY <1>2, <1>3, <1>4 DEF Switch

LEMMA ProcessingAnswers ==
  ASSUME TypeOK, NEW at \in Frame \cup [slot : Queue!Slots], NEW base \in Seq(Activation),
         NEW p, NEW d, ProcessingData(at, base, p, d)
  PROVE  \/ NoAnswer(base)
         \/ at \in Frame /\ (Stored(base, at) \/ HeldUp(base, at))
<1>1. CASE at \in Frame
  <2>1. "slot" \notin DOMAIN at /\ Data(at) = at
    BY <1>1 DEF Frame, EventFrame, Data
  <2>2. CASE Switch(at, base, p)
    BY <1>1, <2>2, SwitchAnswers
  <2>3. CASE /\ stack' = Append(base, [at |-> "detect", data |-> at])
             /\ UNCHANGED <<storage, ready, ring, delivered, dropped>>
    <3> DEFINE entry == [at |-> "detect", data |-> at]
    <3>1. stack' = Append(base, entry) /\ entry.data = at
      BY <2>3
    <3> HIDE DEF entry
    <3>2. \A i \in Len(base) + 1 .. Len(stack') : stack'[i] = entry
      BY <3>1
    <3>3. at.kind = "answer" \/ NoNewHeld(base)
      BY <3>1, <3>2 DEF NoNewHeld, Held
    <3> QED BY <1>1, <2>3, <3>3 DEF NoAnswer, HeldUp
  <2> QED BY <2>1, <2>2, <2>3 DEF ProcessingData
<1>2. CASE at \in [slot : Queue!Slots]
  <2>1. /\ "slot" \in DOMAIN at /\ Data(at) \in EventFrame \cup {NoFrame}
    BY <1>2, SlotTypes DEF Data, TypeOK
  <2>2. Data(at).kind # "answer" /\ Data(at) \in Frame \cup {NoFrame}
    BY <2>1 DEF EventFrame, NoFrame, Plain, Frame
  <2>3. CASE Switch(Data(at), base, p)
    BY <2>2, <2>3, SwitchAnswers DEF Stored
  <2>4. CASE /\ stack' = Append(base, [at |-> "detect", data |-> at])
             /\ UNCHANGED <<storage, ready, ring, delivered, dropped>>
    <3> DEFINE entry == [at |-> "detect", data |-> at]
    <3>1. stack' = Append(base, entry) /\ entry.data = at
      BY <2>4
    <3> HIDE DEF entry
    <3>2. \A i \in Len(base) + 1 .. Len(stack') : stack'[i] = entry
      BY <3>1
    <3> QED BY <2>1, <2>4, <3>1, <3>2 DEF NoAnswer, NoNewHeld, Held
  <2> QED BY <2>3, <2>4 DEF ProcessingData
<1> QED BY <1>1, <1>2

\* The queue holds events only.
LEMMA DequeueAnswers ==
  ASSUME TypeOK, NEW base \in Seq(Activation), NEW p \in BOOLEAN, NEW d \in BOOLEAN,
         Dequeue(base, p, d)
  PROVE  NoAnswer(base)
<1>1. CASE /\ ~p /\ available > 0
           /\ ProcessingData([slot |-> Queue!SlotOf(head)], Append(base, [at |-> "pop"]), p, d)
  <2> DEFINE over == Append(base, [at |-> "pop"])
  <2>1. /\ over \in Seq(Activation)
        /\ Len(over) = Len(base) + 1
        /\ over[Len(base) + 1] = [at |-> "pop"]
        /\ Len(base) \in Nat
    BY DEF Activation
  <2>2. /\ [slot |-> Queue!SlotOf(head)] \in [slot : Queue!Slots]
        /\ [slot |-> Queue!SlotOf(head)] \notin Frame
    BY SlotTypes DEF TypeOK, Frame, EventFrame
  <2>3. ProcessingData([slot |-> Queue!SlotOf(head)], over, p, d)
    BY <1>1
  <2> HIDE DEF over
  <2>4. NoAnswer(over)
    BY <2>1, <2>2, <2>3, ProcessingAnswers
  <2>5. Grows(over) /\ Len(stack') \in Nat
    BY <2>1, <2>2, <2>3, ProcessingDispatches DEF Dispatched, DispatchTypes
  <2>6. ~Held(stack'[Len(base) + 1])
    BY <2>1, <2>5 DEF Held, Grows
  <2> QED BY <2>1, <2>4, <2>5, <2>6 DEF NoAnswer, NoNewHeld
<1>2. CASE stack' = base /\ UNCHANGED <<storage, ready, ring, delivered, dropped>>
  BY <1>2 DEF NoAnswer, NoNewHeld
<1> QED BY <1>1, <1>2 DEF Dequeue

LEMMA EventsAnswers ==
  ASSUME TypeOK, NEW base \in Seq(Activation), NEW p \in BOOLEAN, Events(base, p)
  PROVE  /\ esp' = esp /\ calls' = calls
         /\ \/ rx' = rx /\ NoAnswer(base)
            \/ /\ rx # << >> /\ rx' = Tail(rx)
               /\ NoAnswer(base) \/ Stored(base, Head(rx)) \/ HeldUp(base, Head(rx))
<1>1. PICK d \in {detected, FALSE} :
        \/ ReadFrame(base, p, d)
        \/ rx = << >> /\ UNCHANGED rx /\ Dequeue(base, p, d)
  BY DEF Events
<1>2. d \in BOOLEAN
  BY <1>1 DEF TypeOK
<1>3. CASE ReadFrame(base, p, d)
  <2>1. rx # << >> /\ rx' = Tail(rx) /\ Head(rx) \in Frame
    BY <1>3 DEF ReadFrame, TypeOK
  <2>2. CASE ProcessingData(Head(rx), base, p, d)
    BY <2>1, <2>2, ProcessingAnswers DEF Events
  <2>3. CASE stack' = base /\ UNCHANGED <<storage, ready, ring, delivered, dropped>>
    BY <2>1, <2>3 DEF Events, NoAnswer, NoNewHeld
  <2>4. CASE Dequeue(base, p, d)
    BY <1>2, <2>1, <2>4, DequeueAnswers DEF Events
  <2> QED BY <1>3, <2>2, <2>3, <2>4 DEF ReadFrame
<1>4. CASE UNCHANGED rx /\ Dequeue(base, p, d)
  BY <1>2, <1>4, DequeueAnswers DEF Events
<1> QED BY <1>1, <1>3, <1>4

-----------------------------------------------------------------------------
(* Steps that start and end no call *)

\* The waiting activations are in base, and its held answers are in the stack.
Carries(base) ==
  /\ Len(base) <= Len(stack)
  /\ \A i \in 1..Len(base) :
       /\ Waits(base[i]) <=> Waits(stack[i])
       /\ Waits(stack[i]) => base[i].call = stack[i].call
       /\ Held(base[i]) => base[i] = stack[i]
  /\ \A i \in Len(base) + 1 .. Len(stack) : ~Waits(stack[i])

\* Call a's answer has just left the wire or the detect handler, and the calls that
\* were waiting below it have a cause to take it.
Fresh(a, base) ==
  /\ a \in DOMAIN calls /\ a \notin Coming'
  /\ a # storage
  /\ \A c \in DOMAIN calls : calls[c].got # a
  /\ \A i \in 1..Len(base) : Held(base[i]) => base[i].data.id # a
  /\ \A k \in DOMAIN stack :
       Waits(stack[k]) /\ stack[k].call # a => Cause(stack[k].call, a)

LEMMA BaseCarries ==
  ASSUME TypeOK, TypeOK', NEW base \in Seq(Activation), Grows(base), Carries(base)
  PROVE  /\ Len(base) \in Nat /\ Len(stack) \in Nat /\ Len(stack') \in Nat
         /\ Len(base) <= Len(stack')
         /\ DOMAIN stack = 1..Len(stack) /\ DOMAIN stack' = 1..Len(stack')
         /\ \A i \in DOMAIN stack' : Waits(stack'[i]) =>
              i \in 1..Len(base) /\ i \in DOMAIN stack /\ Waits(stack[i])
                /\ stack'[i].call = stack[i].call
         /\ \A i \in DOMAIN stack : Waits(stack[i]) =>
              i \in 1..Len(base) /\ i \in DOMAIN stack' /\ Waits(stack'[i])
                /\ stack'[i].call = stack[i].call
         /\ \A i \in 1..Len(base) :
              /\ i \in DOMAIN stack /\ i \in DOMAIN stack'
              /\ stack'[i] = base[i]
              /\ Held(stack'[i]) => stack'[i] = stack[i]
<1>1. /\ Len(base) \in Nat /\ Len(stack) \in Nat /\ Len(stack') \in Nat
      /\ DOMAIN stack = 1..Len(stack) /\ DOMAIN stack' = 1..Len(stack')
      /\ Len(base) <= Len(stack')
  BY DEF TypeOK, Grows
<1>2. \A i \in 1..Len(base) :
        /\ i \in DOMAIN stack /\ i \in DOMAIN stack'
        /\ stack'[i] = base[i]
        /\ Held(stack'[i]) => stack'[i] = stack[i]
  BY <1>1 DEF Grows, Carries
<1>3. ASSUME NEW i \in DOMAIN stack', Waits(stack'[i])
      PROVE  i \in 1..Len(base)
  BY <1>1, <1>3 DEF Grows, Waits, Passive
<1>4. ASSUME NEW i \in DOMAIN stack, Waits(stack[i])
      PROVE  i \in 1..Len(base)
  BY <1>1, <1>4 DEF Carries
<1>5. \A i \in 1..Len(base) :
        /\ Waits(stack'[i]) <=> Waits(stack[i])
        /\ Waits(stack[i]) => stack'[i].call = stack[i].call
  BY <1>2 DEF Carries
<1> QED BY <1>1, <1>2, <1>3, <1>4, <1>5

\* What concerns the calls and the waiting activations alone.
LEMMA CallsCarry ==
  ASSUME AnswerInv, TypeOK', NEW base \in Seq(Activation), Grows(base), Carries(base),
         calls' = calls, Coming' \subseteq Coming
  PROVE  UnderWay' /\ NoPauseSince' /\ LaterInner' /\ EarlierOver' /\ StrangersHaveCause'
<1>1. /\ \A i \in DOMAIN stack' : Waits(stack'[i]) =>
           i \in DOMAIN stack /\ Waits(stack[i]) /\ stack'[i].call = stack[i].call
      /\ \A i \in DOMAIN stack : Waits(stack[i]) =>
           i \in DOMAIN stack' /\ Waits(stack'[i]) /\ stack'[i].call = stack[i].call
  BY BaseCarries DEF AnswerInv, IInv
<1>2. UnderWay'
  <2>1. \A i \in DOMAIN stack' : Waits(stack'[i]) => calls'[stack'[i].call].result = "waiting"
    BY <1>1 DEF AnswerInv, UnderWay
  <2>2. \A c \in DOMAIN calls' : calls'[c].result = "waiting" =>
          \E i \in DOMAIN stack' : Waits(stack'[i]) /\ stack'[i].call = c
    BY <1>1 DEF AnswerInv, UnderWay
  <2>3. \A i, j \in DOMAIN stack' :
          i < j /\ Waits(stack'[i]) /\ Waits(stack'[j]) => stack'[i].call < stack'[j].call
    BY <1>1 DEF AnswerInv, UnderWay
  <2> QED BY <2>1, <2>2, <2>3 DEF UnderWay, Waits
<1>3. NoPauseSince'
  BY DEF AnswerInv, NoPauseSince
<1>4. LaterInner'
  BY <1>1 DEF AnswerInv, LaterInner, Waits
<1>5. EarlierOver' /\ StrangersHaveCause'
  BY DEF AnswerInv, EarlierOver, StrangersHaveCause
<1> QED BY <1>2, <1>3, <1>4, <1>5

\* No answer is dealt with, or the one in storage_buffer is thrown away.
LEMMA NoAnswerKeeps ==
  ASSUME AnswerInv, TypeOK', NEW base \in Seq(Activation), Grows(base), Carries(base),
         calls' = calls, Coming' \subseteq Coming,
         NoNewHeld(base), storage' = storage, ready' => ready
  PROVE  Known' /\ ReadOnce' /\ Excused' /\ CallsAtBottom' /\ UsedOnce'
<1>1. /\ \A i \in DOMAIN stack' : Waits(stack'[i]) =>
           i \in DOMAIN stack /\ Waits(stack[i]) /\ stack'[i].call = stack[i].call
      /\ \A i \in DOMAIN stack' : Held(stack'[i]) =>
           i \in DOMAIN stack /\ stack'[i] = stack[i]
  <2>1. \A i \in DOMAIN stack' : Held(stack'[i]) => i \in 1..Len(base)
    BY BaseCarries DEF AnswerInv, IInv, NoNewHeld
  <2> QED BY <2>1, BaseCarries DEF AnswerInv, IInv
<1>2. Known'
  BY <1>1 DEF AnswerInv, Known, Held
<1>3. ReadOnce'
  <2>1. storage' \notin Coming' /\ \A c \in DOMAIN calls' : calls'[c].got \notin Coming'
    BY DEF AnswerInv, ReadOnce
  <2>2. \A i \in DOMAIN stack' : Held(stack'[i]) =>
          /\ stack'[i].data.id \notin Coming'
          /\ stack'[i].data.id # storage'
          /\ \A c \in DOMAIN calls' : calls'[c].got # stack'[i].data.id
    BY <1>1 DEF AnswerInv, ReadOnce
  <2>3. \A i, j \in DOMAIN stack' :
          Held(stack'[i]) /\ Held(stack'[j]) /\ stack'[i].data.id = stack'[j].data.id => i = j
    BY <1>1 DEF AnswerInv, ReadOnce
  <2> QED BY <2>1, <2>2, <2>3 DEF ReadOnce, Held
<1>4. \A c, a : Cause(c, a)' = Cause(c, a)
  BY DEF Cause
<1>5. Excused'
  <2> SUFFICES ASSUME NEW k \in DOMAIN stack', Waits(stack'[k])
               PROVE  /\ ready' /\ storage' # stack'[k].call => Cause(stack[k].call, storage)
                      /\ \A j \in DOMAIN stack' :
                           j > k /\ Held(stack'[j]) /\ stack'[j].data.id # stack'[k].call =>
                             Cause(stack[k].call, stack[j].data.id)
    BY <1>1, <1>4 DEF Excused, Waits, Held, Cause
  <2> QED BY <1>1 DEF AnswerInv, Excused
<1>6. UsedOnce'
  <2>1. InCall' => InCall
    BY <1>1 DEF InCall, Active, Waits
  <2> QED BY <1>1, <2>1 DEF AnswerInv, UsedOnce, AnswerUsedOnce, WaitBroken
<1>7. CallsAtBottom'
  BY <1>1 DEF AnswerInv, CallsAtBottom, WaitBroken, Waits
<1> QED BY <1>2, <1>3, <1>5, <1>6, <1>7

\* An answer gets into storage_buffer.
LEMMA StoredKeeps ==
  ASSUME AnswerInv, TypeOK', NEW base \in Seq(Activation), Grows(base), Carries(base),
         calls' = calls, Coming' \subseteq Coming,
         NoNewHeld(base), NEW a, storage' = a, Fresh(a, base)
  PROVE  Known' /\ ReadOnce' /\ Excused' /\ CallsAtBottom' /\ UsedOnce'
<1>1. /\ \A i \in DOMAIN stack' : Waits(stack'[i]) =>
           i \in DOMAIN stack /\ Waits(stack[i]) /\ stack'[i].call = stack[i].call
      /\ \A i \in DOMAIN stack' : Held(stack'[i]) =>
           i \in DOMAIN stack /\ stack'[i] = stack[i] /\ stack'[i].data.id # a
  <2>1. \A i \in DOMAIN stack' : Held(stack'[i]) => i \in 1..Len(base)
    BY BaseCarries DEF AnswerInv, IInv, NoNewHeld
  <2> QED BY <2>1, BaseCarries DEF AnswerInv, IInv, Fresh
<1>2. Known'
  <2>1. a \in 0..Len(calls)
    BY DEF AnswerInv, IInv, TypeOK, Fresh
  <2> QED BY <1>1, <2>1 DEF AnswerInv, Known, Held
<1>3. ReadOnce'
  <2>1. storage' \notin Coming' /\ \A c \in DOMAIN calls' : calls'[c].got \notin Coming'
    BY DEF AnswerInv, ReadOnce, Fresh
  <2>2. \A i \in DOMAIN stack' : Held(stack'[i]) =>
          /\ stack'[i].data.id \notin Coming'
          /\ stack'[i].data.id # storage'
          /\ \A c \in DOMAIN calls' : calls'[c].got # stack'[i].data.id
    BY <1>1 DEF AnswerInv, ReadOnce
  <2>3. \A i, j \in DOMAIN stack' :
          Held(stack'[i]) /\ Held(stack'[j]) /\ stack'[i].data.id = stack'[j].data.id => i = j
    BY <1>1 DEF AnswerInv, ReadOnce
  <2> QED BY <2>1, <2>2, <2>3 DEF ReadOnce, Held
<1>4. Excused'
  <2> SUFFICES ASSUME NEW k \in DOMAIN stack', Waits(stack'[k])
               PROVE  /\ storage' # stack'[k].call => Cause(stack[k].call, a)
                      /\ \A j \in DOMAIN stack' :
                           j > k /\ Held(stack'[j]) /\ stack'[j].data.id # stack'[k].call =>
                             Cause(stack[k].call, stack[j].data.id)
    BY <1>1 DEF Excused, Waits, Held, Cause
  <2> QED BY <1>1 DEF AnswerInv, Excused, Fresh
<1>5. UsedOnce'
  BY <1>1 DEF AnswerInv, UsedOnce, AnswerUsedOnce, WaitBroken, Fresh
<1>6. CallsAtBottom'
  BY <1>1 DEF AnswerInv, CallsAtBottom, WaitBroken, Waits
<1> QED BY <1>2, <1>3, <1>4, <1>5, <1>6

\* An answer is held up behind the detect handler that starts.
LEMMA HeldUpKeeps ==
  ASSUME AnswerInv, TypeOK', NEW base \in Seq(Activation), Grows(base), Carries(base),
         calls' = calls, Coming' \subseteq Coming,
         NEW f \in Frame, HeldUp(base, f), Fresh(f.id, base)
  PROVE  Known' /\ ReadOnce' /\ Excused' /\ CallsAtBottom' /\ UsedOnce'
<1> DEFINE n == Len(base) + 1
           new == [at |-> "detect", data |-> f]
<1>1. /\ Len(stack') = n /\ stack'[n] = new
      /\ new.at = "detect" /\ new.data = f
      /\ storage' = storage /\ ready' = ready
  BY DEF HeldUp
<1> HIDE DEF new
<1>2. /\ \A i \in DOMAIN stack' : Waits(stack'[i]) =>
           i \in DOMAIN stack /\ i < n /\ Waits(stack[i]) /\ stack'[i].call = stack[i].call
      /\ \A i \in DOMAIN stack' : Held(stack'[i]) =>
           \/ i = n /\ stack'[i].data = f
           \/ /\ i \in DOMAIN stack /\ stack'[i] = stack[i]
              /\ stack'[i].data.id # f.id
  <2>1. \A i \in DOMAIN stack' : i \in 1..Len(base) \/ i = n
    BY <1>1, BaseCarries DEF AnswerInv, IInv
  <2>2. \A i \in 1..Len(base) : i < n
    OBVIOUS
  <2> QED BY <1>1, <2>1, <2>2, BaseCarries DEF AnswerInv, IInv, Fresh
<1> HIDE DEF n
<1>3. Known'
  BY <1>1, <1>2 DEF AnswerInv, Known, Held, Fresh
<1>4. ReadOnce'
  <2>1. storage' \notin Coming' /\ \A c \in DOMAIN calls' : calls'[c].got \notin Coming'
    BY <1>1 DEF AnswerInv, ReadOnce
  <2>2. \A i \in DOMAIN stack' : Held(stack'[i]) =>
          /\ stack'[i].data.id \notin Coming'
          /\ stack'[i].data.id # storage'
          /\ \A c \in DOMAIN calls' : calls'[c].got # stack'[i].data.id
    BY <1>1, <1>2 DEF AnswerInv, ReadOnce, Fresh
  <2>3. \A i, j \in DOMAIN stack' :
          Held(stack'[i]) /\ Held(stack'[j]) /\ stack'[i].data.id = stack'[j].data.id => i = j
    BY <1>2 DEF AnswerInv, ReadOnce
  <2> QED BY <2>1, <2>2, <2>3 DEF ReadOnce, Held
<1>5. Excused'
  <2> SUFFICES ASSUME NEW k \in DOMAIN stack', Waits(stack'[k])
               PROVE  /\ ready' /\ storage' # stack'[k].call => Cause(stack[k].call, storage)
                      /\ \A j \in DOMAIN stack' :
                           j > k /\ Held(stack'[j]) /\ stack'[j].data.id # stack'[k].call =>
                             Cause(stack[k].call, stack'[j].data.id)
    BY <1>1, <1>2 DEF Excused, Waits, Held, Cause
  <2>1. \A j \in DOMAIN stack' :
          j > k /\ Held(stack'[j]) /\ stack'[j].data.id # stack'[k].call =>
            Cause(stack[k].call, stack'[j].data.id)
    BY <1>2 DEF AnswerInv, Excused, Fresh
  <2> QED BY <1>1, <1>2, <2>1 DEF AnswerInv, Excused
<1>6. UsedOnce'
  <2>1. InCall' => InCall
    BY <1>2 DEF InCall, Active, Waits
  <2> QED BY <1>1, <1>2, <2>1 DEF AnswerInv, UsedOnce, AnswerUsedOnce, WaitBroken
<1>7. CallsAtBottom'
  BY <1>2 DEF AnswerInv, CallsAtBottom, WaitBroken, Waits
<1> QED BY <1>3, <1>4, <1>5, <1>6, <1>7

\* Whatever is still on its way has a cause to end a call it was not meant for: the
\* call it was meant for was made inside, or gave up, or itself ended on a stranger.
LEMMA ComingHasCause ==
  ASSUME AnswerInv, NEW k \in DOMAIN stack, Waits(stack[k]), NEW a \in Coming,
         a # stack[k].call
  PROVE  Cause(stack[k].call, a)
<1> DEFINE c == stack[k].call
<1>1. /\ DOMAIN calls = 1..Len(calls) /\ Len(calls) \in Nat
      /\ \A d \in DOMAIN calls : calls[d] \in CallRecord
      /\ c \in DOMAIN calls /\ a \in DOMAIN calls /\ a # c
  BY DEF AnswerInv, IInv, TypeOK, CallsKnown, Known
<1> HIDE DEF c
<1>2. CASE a > c
  <2>1. calls[a].inner
    BY <1>1, <1>2 DEF AnswerInv, LaterInner, c
  <2> QED BY <1>1, <1>2, <2>1 DEF Cause, c
<1>3. CASE a < c /\ calls[c].inner
  BY <1>1, <1>3 DEF Cause, c
<1>4. CASE a < c /\ ~calls[c].inner
  <2>1. calls[a].result # "waiting" /\ calls[a].got < c
    BY <1>1, <1>4 DEF AnswerInv, EarlierOver
  <2>2. \A e \in a + 1 .. c : ~calls[e].quiet
    BY <1>1 DEF AnswerInv, NoPauseSince
  <2>3. CASE calls[a].result = "timeout"
    BY <1>1, <1>4, <2>2, <2>3 DEF Cause, c
  <2>4. CASE calls[a].result \in {"answered", "mismatch"}
    <3>1. calls[a].got # a
      BY <1>1 DEF AnswerInv, ReadOnce
    <3>2. PICK d \in DOMAIN calls :
            /\ d <= a \/ d <= calls[a].got
            /\ calls[d].result = "timeout" \/ calls[d].inner
            /\ \A e \in d + 1 .. a : ~calls[e].quiet
      BY <1>1, <2>4, <3>1 DEF AnswerInv, StrangersHaveCause
    <3>3. d <= c
      BY <1>1, <1>4, <2>1, <3>2 DEF CallRecord
    <3>4. \A e \in d + 1 .. c : e \in d + 1 .. a \/ e \in a + 1 .. c
      BY <1>1, <3>2
    <3> QED BY <2>2, <3>2, <3>3, <3>4 DEF Cause, c
  <2> QED BY <1>1, <2>1, <2>3, <2>4 DEF CallRecord
<1> QED BY <1>1, <1>2, <1>3, <1>4

LEMMA HeldInFrame ==
  ASSUME TypeOK, NEW i \in DOMAIN stack, Held(stack[i])
  PROVE  stack[i].data \in Frame /\ stack[i].data.kind = "answer" /\ ~Waits(stack[i])
         /\ Data(stack[i].data) = stack[i].data
<1>1. stack[i] \in Activation
  BY DEF TypeOK
<1>2. stack[i].data \in Frame \cup [slot : Queue!Slots]
  BY <1>1 DEF Held, Activation
<1> QED BY <1>2 DEF Held, Waits, Data

\* A step that runs events() or goes on after it.
LEMMA EventsKeepAnswers ==
  ASSUME AnswerInv, IInv', NEW base \in Seq(Activation), NEW p \in BOOLEAN, Events(base, p),
         Carries(base)
  PROVE  AnswerInv'
<1>1. TypeOK /\ TypeOK' /\ Grows(base)
  BY EventsDispatches DEF AnswerInv, IInv, Dispatched
<1>2. /\ esp' = esp /\ calls' = calls
      /\ \/ rx' = rx /\ NoAnswer(base)
         \/ /\ rx # << >> /\ rx' = Tail(rx)
            /\ NoAnswer(base) \/ Stored(base, Head(rx)) \/ HeldUp(base, Head(rx))
  BY <1>1, EventsAnswers
<1>3. ComingDistinct' /\ Coming' \subseteq Coming
  <2>1. CASE rx' = rx
    BY <1>2, <2>1 DEF AnswerInv, ComingDistinct, Coming
  <2>2. CASE rx # << >> /\ rx' = Tail(rx)
    BY <1>1, <1>2, <2>2, ReadingShrinks DEF AnswerInv
  <2> QED BY <1>2, <2>1, <2>2
<1>4. CASE NoAnswer(base)
  BY <1>1, <1>2, <1>3, <1>4, NoAnswerKeeps, CallsCarry DEF AnswerInv, NoAnswer
<1>5. CASE /\ rx # << >> /\ rx' = Tail(rx)
           /\ Stored(base, Head(rx)) \/ HeldUp(base, Head(rx))
  <2>1. Head(rx).kind = "answer" /\ Head(rx) \in Frame
    BY <1>1, <1>5 DEF Stored, HeldUp, TypeOK
  <2>2. Head(rx).id \in Coming /\ Head(rx).id \notin Coming'
    BY <1>1, <1>2, <1>5, <2>1, ReadingShrinks DEF AnswerInv
  <2>3. Fresh(Head(rx).id, base)
    <3>1. /\ Head(rx).id \in DOMAIN calls /\ Head(rx).id # storage
          /\ \A c \in DOMAIN calls : calls[c].got # Head(rx).id
          /\ \A i \in DOMAIN stack : Held(stack[i]) => stack[i].data.id # Head(rx).id
      BY <2>2 DEF AnswerInv, Known, ReadOnce
    <3>2. \A i \in 1..Len(base) : Held(base[i]) => base[i].data.id # Head(rx).id
      BY <1>1, <3>1, BaseCarries DEF Carries
    <3>3. \A k \in DOMAIN stack :
            Waits(stack[k]) /\ stack[k].call # Head(rx).id => Cause(stack[k].call, Head(rx).id)
      BY <2>2, ComingHasCause
    <3> QED BY <2>2, <3>1, <3>2, <3>3 DEF Fresh
  <2>4. CASE Stored(base, Head(rx))
    BY <1>1, <1>2, <1>3, <2>3, <2>4, StoredKeeps, CallsCarry DEF AnswerInv, Stored
  <2>5. CASE HeldUp(base, Head(rx))
    BY <1>1, <1>2, <1>3, <2>1, <2>3, <2>5, HeldUpKeeps, CallsCarry DEF AnswerInv
  <2> QED BY <1>5, <2>4, <2>5
<1> QED BY <1>2, <1>4, <1>5

\* Other steps, after which base is the stack.
LEMMA QuietStepKeepsAnswers ==
  ASSUME AnswerInv, IInv', NEW base \in Seq(Activation), Carries(base), stack' = base,
         calls' = calls, ComingDistinct', Coming' \subseteq Coming,
         storage' = storage, ready' => ready
  PROVE  AnswerInv'
<1>1. TypeOK /\ TypeOK' /\ Grows(base) /\ NoNewHeld(base)
  BY DEF AnswerInv, IInv, Grows, NoNewHeld
<1> QED BY <1>1, NoAnswerKeeps, CallsCarry DEF AnswerInv

LEMMA WireUnchanged ==
  ASSUME ComingDistinct, rx' = rx, esp' = esp
  PROVE  ComingDistinct' /\ Coming' \subseteq Coming
BY DEF ComingDistinct, Coming

LEMMA StackCarries ==
  ASSUME TypeOK
  PROVE  stack \in Seq(Activation) /\ Carries(stack)
BY DEF TypeOK, Carries

\* An activation that does not wait ends, or a waiting one goes on.
LEMMA BelowCarries ==
  ASSUME TypeOK, stack # << >>, ~Waits(Top)
  PROVE  Below \in Seq(Activation) /\ Carries(Below)
<1>1. /\ Len(stack) \in Nat \ {0} /\ Top = stack[Len(stack)]
      /\ Below \in Seq(Activation) /\ Len(Below) = Len(stack) - 1
      /\ \A i \in 1 .. Len(stack) - 1 : Below[i] = stack[i]
  BY TopAndBelow
<1>2. \A i \in Len(Below) + 1 .. Len(stack) : ~Waits(stack[i])
  BY <1>1
<1>3. \A i \in 1..Len(Below) : Below[i] = stack[i]
  BY <1>1
<1> QED BY <1>1, <1>2, <1>3 DEF Carries

LEMMA TurnedCarries ==
  ASSUME TypeOK, stack # << >>, Waits(Top), NEW at \in {"wait", "check"}
  PROVE  /\ Append(Below, [Top EXCEPT !.at = at]) \in Seq(Activation)
         /\ Carries(Append(Below, [Top EXCEPT !.at = at]))
<1> DEFINE turned == [Top EXCEPT !.at = at]
           base == Append(Below, turned)
<1>1. /\ Len(stack) \in Nat \ {0} /\ Top = stack[Len(stack)]
      /\ Below \in Seq(Activation) /\ Len(Below) = Len(stack) - 1
      /\ \A i \in 1 .. Len(stack) - 1 : Below[i] = stack[i]
  BY TopAndBelow
<1>2. turned \in Activation /\ turned.call = Top.call /\ turned.at = at
  BY WaitingTop
<1> HIDE DEF turned
<1>3. /\ base \in Seq(Activation) /\ Len(base) = Len(stack)
      /\ base[Len(stack)] = turned
      /\ \A i \in 1 .. Len(stack) - 1 : base[i] = stack[i]
  <2>1. /\ base \in Seq(Activation) /\ Len(base) = Len(Below) + 1
        /\ base[Len(Below) + 1] = turned
        /\ \A i \in 1..Len(Below) : base[i] = Below[i]
    BY <1>1, <1>2, AppendProperties
  <2> QED BY <1>1, <2>1
<1> HIDE DEF base
<1>4. /\ Waits(base[Len(stack)]) /\ Waits(stack[Len(stack)])
      /\ base[Len(stack)].call = stack[Len(stack)].call
      /\ ~Held(base[Len(stack)])
  BY <1>1, <1>2, <1>3 DEF Waits, Held
<1>5. \A i \in 1..Len(base) : i = Len(stack) \/ i \in 1 .. Len(stack) - 1
  BY <1>1, <1>3
<1>6. \A i \in 1..Len(base) :
        /\ Waits(base[i]) <=> Waits(stack[i])
        /\ Waits(stack[i]) => base[i].call = stack[i].call
        /\ Held(base[i]) => base[i] = stack[i]
  BY <1>3, <1>4, <1>5
<1>7. /\ Len(base) <= Len(stack)
      /\ \A i \in Len(base) + 1 .. Len(stack) : ~Waits(stack[i])
  BY <1>1, <1>3
<1> QED BY <1>3, <1>6, <1>7 DEF Carries, base, turned

\* The detect handler returns, with an answer behind it or not.
LEMMA DetectDoneKeepsAnswers ==
  ASSUME AnswerInv, DetectDone
  PROVE  AnswerInv'
<1>1. /\ stack # << >> /\ Top.at = "detect" /\ ~Waits(Top)
      /\ Dispatched(Below, pending)
      /\ UNCHANGED <<detected, pending, rx, esp, calls, overrun, sent>>
  BY DetectDoneDispatches DEF AnswerInv
<1>2. /\ TypeOK /\ IInv' /\ TypeOK' /\ Grows(Below)
  BY <1>1, DetectDoneKeeps DEF AnswerInv, IInv, Dispatched
<1>3. /\ Len(stack) \in Nat \ {0} /\ DOMAIN stack = 1..Len(stack)
      /\ Top = stack[Len(stack)] /\ Top \in Activation
      /\ Below \in Seq(Activation) /\ Len(Below) = Len(stack) - 1
      /\ \A i \in 1 .. Len(stack) - 1 : Below[i] = stack[i]
  BY <1>1, <1>2, TopAndBelow DEF TypeOK
<1>4. Carries(Below)
  BY <1>1, <1>2, BelowCarries
<1>5. ComingDistinct' /\ Coming' \subseteq Coming /\ Coming' = Coming /\ calls' = calls
  BY <1>1, WireUnchanged DEF AnswerInv, Coming
<1>6. Top.data \in Frame \cup [slot : Queue!Slots]
  BY <1>1, <1>3 DEF Activation
<1>7. NoAnswer(Below) \/ Stored(Below, Data(Top.data))
  <2>1. Switch(Data(Top.data), Below, pending)
    BY DEF DetectDone
  <2>2. Data(Top.data) \in Frame \cup {NoFrame}
    BY <1>2, <1>6, DataTypes DEF TypeOK
  <2> QED BY <1>3, <2>1, <2>2, SwitchAnswers
<1>8. CASE NoAnswer(Below)
  BY <1>2, <1>3, <1>4, <1>5, <1>8, NoAnswerKeeps, CallsCarry DEF AnswerInv, NoAnswer
<1>9. CASE Stored(Below, Data(Top.data))
  <2> DEFINE n == Len(stack)
             a == Top.data.id
  <2>1. Held(stack[n]) /\ Data(Top.data) = Top.data
    <3>1. CASE Top.data \in Frame
      <4>1. "slot" \notin DOMAIN Top.data
        BY <3>1 DEF Frame, EventFrame
      <4> QED BY <1>1, <1>3, <1>9, <4>1 DEF Data, Held, Stored
    <3>2. CASE Top.data \in [slot : Queue!Slots]
      <4>1. Data(Top.data) \in EventFrame \cup {NoFrame}
        BY <1>2, <3>2, SlotTypes DEF Data, TypeOK
      <4> QED BY <1>9, <4>1 DEF EventFrame, NoFrame, Plain, Stored
    <3> QED BY <1>6, <3>1, <3>2
  <2>2. n \in DOMAIN stack /\ a = stack[n].data.id /\ storage' = a /\ NoNewHeld(Below)
    BY <1>3, <1>9, <2>1 DEF Stored
  <2> HIDE DEF a
  <2>3. \A i \in 1..Len(Below) : i \in DOMAIN stack /\ i # n /\ Below[i] = stack[i]
    <3>1. /\ n \in Nat \ {0} /\ Len(Below) = n - 1 /\ DOMAIN stack = 1..n
          /\ \A i \in 1 .. n - 1 : Below[i] = stack[i]
      BY <1>3
    <3> HIDE DEF n
    <3> QED BY <3>1
  <2>4. \A k \in DOMAIN stack : Waits(stack[k]) => k < n
    BY <1>1, <1>3
  <2> HIDE DEF n
  <2>5. Fresh(a, Below)
    <3>1. a \in DOMAIN calls /\ a \notin Coming' /\ a # storage
      BY <1>5, <2>1, <2>2 DEF AnswerInv, Known, ReadOnce
    <3>2. \A c \in DOMAIN calls : calls[c].got # a
      BY <2>1, <2>2 DEF AnswerInv, ReadOnce
    <3>3. \A i \in 1..Len(Below) : Held(Below[i]) => Below[i].data.id # a
      BY <2>1, <2>2, <2>3 DEF AnswerInv, ReadOnce
    <3>4. \A k \in DOMAIN stack : Waits(stack[k]) /\ stack[k].call # a => Cause(stack[k].call, a)
      BY <2>1, <2>2, <2>4 DEF AnswerInv, Excused
    <3> QED BY <3>1, <3>2, <3>3, <3>4 DEF Fresh
  <2> QED BY <1>2, <1>3, <1>4, <1>5, <2>2, <2>5, StoredKeeps, CallsCarry DEF AnswerInv
<1> QED BY <1>7, <1>8, <1>9

-----------------------------------------------------------------------------
(* A call starts or ends *)

\* The same in the next state.
CauseThen(c, a) ==
  \E d \in DOMAIN calls' :
    /\ d <= c \/ d <= a
    /\ calls'[d].result = "timeout" \/ calls'[d].inner
    /\ \A e \in d + 1 .. c : ~calls'[e].quiet

LEMMA CausesThen ==
  /\ (\A k \in DOMAIN stack' : Waits(stack'[k]) =>
        /\ ready' /\ storage' # stack'[k].call => CauseThen(stack'[k].call, storage')
        /\ \A j \in DOMAIN stack' :
             j > k /\ Held(stack'[j]) /\ stack'[j].data.id # stack'[k].call =>
               CauseThen(stack'[k].call, stack'[j].data.id))
       => Excused'
  /\ (\A d \in DOMAIN calls' :
        calls'[d].result \in {"answered", "mismatch"} /\ calls'[d].got # d =>
          CauseThen(d, calls'[d].got))
       => StrangersHaveCause'
<1>1. ASSUME \A k \in DOMAIN stack' : Waits(stack'[k]) =>
               /\ ready' /\ storage' # stack'[k].call => CauseThen(stack'[k].call, storage')
               /\ \A j \in DOMAIN stack' :
                    j > k /\ Held(stack'[j]) /\ stack'[j].data.id # stack'[k].call =>
                      CauseThen(stack'[k].call, stack'[j].data.id)
      PROVE  Excused'
  BY <1>1 DEF Excused, Waits, Held, Cause, CauseThen
<1>2. ASSUME \A d \in DOMAIN calls' :
               calls'[d].result \in {"answered", "mismatch"} /\ calls'[d].got # d =>
                 CauseThen(d, calls'[d].got)
      PROVE  StrangersHaveCause'
  BY <1>2 DEF StrangersHaveCause, CauseThen
<1> QED BY <1>1, <1>2

LEMMA CallKeepsAnswers ==
  ASSUME AnswerInv, NEW op \in Op, Call(op)
  PROVE  AnswerInv'
<1> DEFINE c == Len(calls) + 1
           n == Len(stack) + 1
           record == [op |-> op, result |-> "waiting", got |-> 0,
                      inner |-> InCall, quiet |-> Quiet]
           entry == [at |-> "wait", call |-> c]
<1>1. /\ IInv' /\ TypeOK
      /\ Len(stack) \in Nat /\ DOMAIN stack = 1..Len(stack)
      /\ Len(calls) \in Nat /\ DOMAIN calls = 1..Len(calls)
      /\ \A d \in DOMAIN calls : calls[d] \in CallRecord
  BY CallKeeps DEF AnswerInv, IInv, TypeOK
<1>2. /\ Len(calls') = c /\ DOMAIN calls' = 1..c
      /\ calls'[c].result = "waiting" /\ calls'[c].got = 0
      /\ calls'[c].inner = InCall /\ calls'[c].quiet = Quiet
      /\ \A d \in DOMAIN calls : calls'[d] = calls[d]
  <2>1. calls' = Append(calls, record)
    BY DEF Call
  <2>2. /\ record.result = "waiting" /\ record.got = 0
        /\ record.inner = InCall /\ record.quiet = Quiet
    OBVIOUS
  <2> HIDE DEF record
  <2> QED BY <1>1, <2>1, <2>2
<1>3. /\ DOMAIN stack' = 1..n
      /\ stack'[n].at = "wait" /\ stack'[n].call = c
      /\ \A i \in DOMAIN stack : stack'[i] = stack[i]
  <2>1. stack' = Append(stack, entry) /\ entry.at = "wait" /\ entry.call = c
    BY DEF Call
  <2> HIDE DEF entry, c
  <2> QED BY <1>1, <2>1
<1>4. /\ \A d \in DOMAIN calls' : d \in DOMAIN calls \/ d = c
      /\ \A d \in DOMAIN calls : d \in DOMAIN calls' /\ d < c
      /\ c \notin DOMAIN calls /\ c \in DOMAIN calls'
      /\ \A i \in DOMAIN stack' : i \in DOMAIN stack \/ i = n
      /\ \A i \in DOMAIN stack : i \in DOMAIN stack' /\ i < n
      /\ n \in DOMAIN stack' /\ n \notin DOMAIN stack
      /\ c \in Nat \ {0}
  BY <1>1, <1>2, <1>3
<1>5. ComingDistinct' /\ Coming' \subseteq Coming \cup {c}
  BY <1>1, CallAddsOne DEF Call, AnswerInv, Known
<1>6. storage' = storage /\ ready' = FALSE
  BY DEF Call
<1>7. \A i \in DOMAIN stack : Waits(stack[i]) => stack[i].call \in DOMAIN calls
  BY DEF AnswerInv, IInv, CallsKnown
<1>8. \A i \in DOMAIN stack : Waits(stack[i]) => InCall
  BY DEF InCall, Active, Waits
<1>9. Waits(stack'[n]) /\ ~Held(stack'[n])
  BY <1>3 DEF Waits, Held
<1> HIDE DEF c, n, record, entry
<1>10. /\ Coming \subseteq DOMAIN calls /\ storage \in 0..Len(calls)
       /\ storage # c /\ \A d \in DOMAIN calls : calls[d].got \in 0..Len(calls) /\ calls[d].got # c
  BY <1>1 DEF AnswerInv, Known, c
<1>11. 0 \notin Coming'
  BY <1>1, <1>4, <1>5, <1>10
<1>12. Known'
  <2>1. Coming' \subseteq DOMAIN calls'
    BY <1>4, <1>5, <1>10
  <2>2. 0..Len(calls) \subseteq 0..Len(calls') /\ 0 \in 0..Len(calls')
    BY <1>1, <1>2 DEF c
  <2>3. \A d \in DOMAIN calls' : calls'[d].got \in 0..Len(calls')
    BY <1>2, <1>4, <1>10, <2>2
  <2>4. \A i \in DOMAIN stack' : Held(stack'[i]) => stack'[i].data.id \in DOMAIN calls'
    BY <1>3, <1>4, <1>9 DEF AnswerInv, Known
  <2>5. storage' \in 0..Len(calls')
    BY <1>6, <1>10, <2>2
  <2> QED BY <2>1, <2>3, <2>4, <2>5 DEF Known, Held
<1>13. ReadOnce'
  <2>1. storage' \notin Coming'
    BY <1>5, <1>6, <1>10 DEF AnswerInv, ReadOnce
  <2>2. \A d \in DOMAIN calls' : calls'[d].got \notin Coming'
    BY <1>2, <1>4, <1>5, <1>10, <1>11 DEF AnswerInv, ReadOnce
  <2>3. ASSUME NEW i \in DOMAIN stack', Held(stack'[i])
        PROVE  /\ i \in DOMAIN stack /\ Held(stack[i]) /\ stack'[i] = stack[i]
               /\ stack'[i].data.id \in DOMAIN calls
               /\ stack'[i].data.id \notin Coming'
               /\ stack'[i].data.id # storage'
               /\ \A d \in DOMAIN calls' : calls'[d].got # stack'[i].data.id
    <3>1. i \in DOMAIN stack /\ stack'[i] = stack[i]
      BY <1>3, <1>4, <1>9, <2>3
    <3>2. stack[i].data.id \in DOMAIN calls /\ stack[i].data.id \notin Coming
      BY <2>3, <3>1 DEF AnswerInv, Known, ReadOnce
    <3>3. stack[i].data.id # c /\ stack[i].data.id # 0
      BY <1>1, <1>4, <3>2
    <3>4. /\ stack[i].data.id # storage
          /\ \A d \in DOMAIN calls : calls[d].got # stack[i].data.id
      BY <2>3, <3>1 DEF AnswerInv, ReadOnce
    <3> QED BY <1>2, <1>4, <1>5, <1>6, <2>3, <3>1, <3>2, <3>3, <3>4
  <2>4. \A i, j \in DOMAIN stack' :
          Held(stack'[i]) /\ Held(stack'[j]) /\ stack'[i].data.id = stack'[j].data.id => i = j
    BY <2>3 DEF AnswerInv, ReadOnce
  <2> QED BY <2>1, <2>2, <2>3, <2>4 DEF ReadOnce, Held
<1>14. UnderWay'
  <2>1. \A i \in DOMAIN stack' : Waits(stack'[i]) => calls'[stack'[i].call].result = "waiting"
    BY <1>2, <1>3, <1>4, <1>7 DEF AnswerInv, UnderWay
  <2>2. \A d \in DOMAIN calls' : calls'[d].result = "waiting" =>
          \E i \in DOMAIN stack' : Waits(stack'[i]) /\ stack'[i].call = d
    <3> SUFFICES ASSUME NEW d \in DOMAIN calls', calls'[d].result = "waiting"
                 PROVE  \E i \in DOMAIN stack' : Waits(stack'[i]) /\ stack'[i].call = d
      OBVIOUS
    <3>1. CASE d = c
      BY <1>3, <1>4, <1>9, <3>1
    <3>2. CASE d \in DOMAIN calls
      <4>1. PICK i \in DOMAIN stack : Waits(stack[i]) /\ stack[i].call = d
        BY <1>2, <3>2 DEF AnswerInv, UnderWay
      <4> QED BY <1>3, <1>4, <4>1
    <3> QED BY <1>4, <3>1, <3>2
  <2>3. \A i, j \in DOMAIN stack' :
          i < j /\ Waits(stack'[i]) /\ Waits(stack'[j]) => stack'[i].call < stack'[j].call
    <3> SUFFICES ASSUME NEW i \in DOMAIN stack', NEW j \in DOMAIN stack', i < j,
                        Waits(stack'[i]), Waits(stack'[j])
                 PROVE  stack'[i].call < stack'[j].call
      OBVIOUS
    <3>1. i \in DOMAIN stack
      BY <1>1, <1>3, <1>4 DEF n
    <3>2. CASE j = n
      BY <1>3, <1>4, <1>7, <3>1, <3>2
    <3>3. CASE j \in DOMAIN stack
      BY <1>3, <3>1, <3>3 DEF AnswerInv, UnderWay
    <3> QED BY <1>4, <3>2, <3>3
  <2> QED BY <2>1, <2>2, <2>3 DEF UnderWay, Waits
<1>15. NoPauseSince'
  <2> SUFFICES ASSUME NEW a \in Coming', NEW e \in DOMAIN calls', e > a
               PROVE  ~calls'[e].quiet
    BY DEF NoPauseSince
  <2>1. a \in Coming
    BY <1>1, <1>2, <1>5 DEF c
  <2>2. CASE e = c
    BY <1>1, <1>2, <2>1, <2>2, QuietMeansNothingComing
  <2>3. CASE e \in DOMAIN calls
    BY <1>2, <2>1, <2>3 DEF AnswerInv, NoPauseSince
  <2> QED BY <1>4, <2>2, <2>3
<1>16. LaterInner'
  <2> SUFFICES ASSUME NEW i \in DOMAIN stack', Waits(stack'[i]),
                      NEW a \in DOMAIN calls', a > stack'[i].call
               PROVE  calls'[a].inner
    BY DEF LaterInner, Waits
  <2>1. i \in DOMAIN stack
    BY <1>1, <1>2, <1>3, <1>4 DEF c
  <2>2. CASE a = c
    BY <1>2, <1>3, <1>8, <2>1, <2>2
  <2>3. CASE a \in DOMAIN calls
    BY <1>2, <1>3, <2>1, <2>3 DEF AnswerInv, LaterInner
  <2> QED BY <1>4, <2>2, <2>3
<1>17. EarlierOver'
  <2> SUFFICES ASSUME NEW d \in DOMAIN calls', ~calls'[d].inner, NEW a \in 1 .. d - 1
               PROVE  calls'[a].result # "waiting" /\ calls'[a].got < d
    BY DEF EarlierOver
  <2>1. a \in DOMAIN calls
    BY <1>1, <1>2 DEF c
  <2>2. CASE d = c
    <3>1. ~InCall
      BY <1>2, <2>2
    <3>2. calls[a].result # "waiting"
      BY <1>8, <2>1, <3>1 DEF AnswerInv, UnderWay
    <3>3. calls[a].got < c
      BY <1>1, <1>10, <2>1 DEF c
    <3> QED BY <1>2, <2>1, <2>2, <3>2, <3>3
  <2>3. CASE d \in DOMAIN calls
    BY <1>2, <2>1, <2>3 DEF AnswerInv, EarlierOver
  <2> QED BY <1>4, <2>2, <2>3
<1>18. \A d \in DOMAIN calls : \A a : Cause(d, a) => CauseThen(d, a)
  <2> SUFFICES ASSUME NEW d \in DOMAIN calls, NEW a, Cause(d, a)
               PROVE  CauseThen(d, a)
    OBVIOUS
  <2>1. PICK b \in DOMAIN calls :
          /\ b <= d \/ b <= a
          /\ calls[b].result = "timeout" \/ calls[b].inner
          /\ \A e \in b + 1 .. d : ~calls[e].quiet
    BY DEF Cause
  <2>2. \A e \in b + 1 .. d : e \in DOMAIN calls
    BY <1>1
  <2> QED BY <1>2, <1>4, <2>1, <2>2 DEF CauseThen
<1>19. Excused'
  <2> SUFFICES ASSUME NEW k \in DOMAIN stack', Waits(stack'[k]),
                      NEW j \in DOMAIN stack', j > k, Held(stack'[j]),
                      stack'[j].data.id # stack'[k].call
               PROVE  CauseThen(stack'[k].call, stack'[j].data.id)
    BY <1>6, CausesThen
  <2>1. j \in DOMAIN stack /\ stack'[j] = stack[j]
    BY <1>3, <1>4, <1>9
  <2>2. k \in DOMAIN stack /\ stack'[k] = stack[k]
    BY <1>1, <1>3, <1>4, <2>1 DEF n
  <2>3. Cause(stack[k].call, stack[j].data.id)
    BY <2>1, <2>2 DEF AnswerInv, Excused
  <2> QED BY <1>7, <1>18, <2>1, <2>2, <2>3
<1>20. StrangersHaveCause'
  <2> SUFFICES ASSUME NEW d \in DOMAIN calls', calls'[d].result \in {"answered", "mismatch"},
                      calls'[d].got # d
               PROVE  CauseThen(d, calls'[d].got)
    BY CausesThen
  <2>1. d \in DOMAIN calls
    BY <1>2, <1>4
  <2>2. Cause(d, calls[d].got)
    BY <1>2, <2>1 DEF AnswerInv, StrangersHaveCause, Cause
  <2> QED BY <1>2, <1>18, <2>1, <2>2
<1>21. CallsAtBottom'
  <2> SUFFICES ASSUME "call" \notin HandlerMay
               PROVE  ~WaitBroken' /\ \A i \in DOMAIN stack' : Waits(stack'[i]) => i = 1
    BY DEF CallsAtBottom, Waits
  <2>1. stack = << >>
    BY DEF Call
  <2>2. n = 1 /\ DOMAIN stack = {} /\ ~InCall
    BY <2>1 DEF n, InCall, Active
  <2>3. ~WaitBroken'
    BY <1>2, <1>4, <2>2 DEF AnswerInv, CallsAtBottom, WaitBroken
  <2> QED BY <1>4, <2>2, <2>3
<1>22. UsedOnce'
  <2>1. ~WaitBroken' => ~WaitBroken
    BY <1>2, <1>4 DEF WaitBroken
  <2>2. ~WaitBroken => AnswerUsedOnce'
    BY <1>2, <1>4 DEF AnswerInv, UsedOnce, AnswerUsedOnce
  <2> QED BY <1>6, <2>1, <2>2 DEF UsedOnce
<1> QED BY <1>1, <1>5, <1>12, <1>13, <1>14, <1>15, <1>16, <1>17, <1>19, <1>20, <1>21, <1>22
        DEF AnswerInv

\* A call returns, with no answer or with the one in storage_buffer.
LEMMA ReturnKeepsAnswers ==
  ASSUME AnswerInv, IInv', stack # << >>, Waits(Top), UNCHANGED ready,
         NEW r \in {"answered", "mismatch", "timeout"}, NEW g \in 0..MaxCalls, Return(r, g),
         (r = "timeout" /\ g = 0) \/ (r # "timeout" /\ ready /\ g = storage)
  PROVE  AnswerInv'
<1> DEFINE n == Len(stack)
           c == Top.call
<1>1. /\ n \in Nat \ {0} /\ DOMAIN stack = 1..n /\ Top = stack[n]
      /\ stack' \in Seq(Activation) /\ Len(stack') = n - 1
      /\ \A i \in 1 .. n - 1 : stack'[i] = stack[i]
      /\ DOMAIN calls = 1..Len(calls) /\ Len(calls) \in Nat
      /\ \A d \in DOMAIN calls : calls[d] \in CallRecord
  BY TopAndBelow DEF AnswerInv, IInv, TypeOK, Return
<1>2. /\ rx' = rx /\ esp' = esp /\ storage' = storage /\ ready' = ready
      /\ calls' = [calls EXCEPT ![c].result = r, ![c].got = g]
  BY DEF Return
<1> HIDE DEF n
<1>3. /\ n \in DOMAIN stack /\ Waits(stack[n]) /\ c = stack[n].call
      /\ \A i \in DOMAIN stack' : i \in DOMAIN stack /\ i < n /\ stack'[i] = stack[i]
      /\ \A i \in DOMAIN stack : i = n \/ i \in DOMAIN stack'
  BY <1>1
<1> HIDE DEF c
<1>4. c \in DOMAIN calls /\ calls[c].result = "waiting"
  BY <1>3 DEF AnswerInv, IInv, CallsKnown, UnderWay
<1>5. /\ Len(calls') = Len(calls) /\ DOMAIN calls' = DOMAIN calls
      /\ calls'[c].result = r /\ calls'[c].got = g
      /\ \A d \in DOMAIN calls : d # c => calls'[d] = calls[d]
      /\ \A d \in DOMAIN calls :
           calls'[d].inner = calls[d].inner /\ calls'[d].quiet = calls[d].quiet
  <2>1. \A d \in DOMAIN calls :
          calls'[d] = IF d = c THEN [[calls[c] EXCEPT !.result = r] EXCEPT !.got = g] ELSE calls[d]
    BY <1>2, <1>4
  <2>2. /\ [[calls[c] EXCEPT !.result = r] EXCEPT !.got = g].result = r
        /\ [[calls[c] EXCEPT !.result = r] EXCEPT !.got = g].got = g
        /\ [[calls[c] EXCEPT !.result = r] EXCEPT !.got = g].inner = calls[c].inner
        /\ [[calls[c] EXCEPT !.result = r] EXCEPT !.got = g].quiet = calls[c].quiet
    BY <1>1, <1>4 DEF CallRecord
  <2>3. Len(calls') = Len(calls) /\ DOMAIN calls' = DOMAIN calls
    <3>1. calls \in Seq(CallRecord) /\ calls' \in Seq(CallRecord)
      BY DEF AnswerInv, IInv, TypeOK
    <3>2. DOMAIN calls' = DOMAIN calls
      BY <1>2
    <3> QED BY <3>1, <3>2
  <2> QED BY <1>4, <2>1, <2>2, <2>3
<1>6. \A i \in DOMAIN stack' : Waits(stack'[i]) =>
        stack[i].call \in DOMAIN calls /\ stack[i].call < c
  BY <1>3 DEF AnswerInv, IInv, CallsKnown, UnderWay
<1>7. \A i \in DOMAIN stack' : Waits(stack'[i]) => stack[i].call # c
  BY <1>1, <1>4, <1>6
<1>8. ComingDistinct' /\ Coming' = Coming
  BY <1>2, WireUnchanged DEF AnswerInv, Coming
<1>9. g \in {0, storage} /\ 0 \notin Coming /\ 0 \notin DOMAIN calls
  BY <1>1 DEF AnswerInv, Known
<1>10. Known'
  <2>1. \A d \in DOMAIN calls' : calls'[d].got \in 0..Len(calls')
    BY <1>1, <1>5, <1>9 DEF AnswerInv, Known
  <2> QED BY <1>2, <1>3, <1>5, <1>8, <2>1 DEF AnswerInv, Known, Held
<1>11. ReadOnce'
  <2>1. \A d \in DOMAIN calls' : calls'[d].got \notin Coming'
    BY <1>5, <1>8, <1>9 DEF AnswerInv, ReadOnce
  <2>2. \A i \in DOMAIN stack' : Held(stack'[i]) =>
          \A d \in DOMAIN calls' : calls'[d].got # stack'[i].data.id
    BY <1>3, <1>5, <1>9 DEF AnswerInv, ReadOnce, Known
  <2> QED BY <1>2, <1>3, <1>8, <2>1, <2>2 DEF AnswerInv, ReadOnce, Held
<1>12. UnderWay'
  <2>1. \A i \in DOMAIN stack' : Waits(stack'[i]) => calls'[stack'[i].call].result = "waiting"
    BY <1>3, <1>5, <1>6, <1>7 DEF AnswerInv, UnderWay
  <2>2. \A d \in DOMAIN calls' : calls'[d].result = "waiting" =>
          \E i \in DOMAIN stack' : Waits(stack'[i]) /\ stack'[i].call = d
    <3> SUFFICES ASSUME NEW d \in DOMAIN calls', calls'[d].result = "waiting"
                 PROVE  \E i \in DOMAIN stack' : Waits(stack'[i]) /\ stack'[i].call = d
      OBVIOUS
    <3>1. d # c /\ d \in DOMAIN calls
      BY <1>5
    <3>2. PICK i \in DOMAIN stack : Waits(stack[i]) /\ stack[i].call = d
      BY <1>5, <3>1 DEF AnswerInv, UnderWay
    <3> QED BY <1>3, <3>1, <3>2
  <2>3. \A i, j \in DOMAIN stack' :
          i < j /\ Waits(stack'[i]) /\ Waits(stack'[j]) => stack'[i].call < stack'[j].call
    BY <1>3 DEF AnswerInv, UnderWay
  <2> QED BY <2>1, <2>2, <2>3 DEF UnderWay, Waits
<1>13. NoPauseSince'
  BY <1>5, <1>8 DEF AnswerInv, NoPauseSince
<1>14. LaterInner'
  BY <1>3, <1>5 DEF AnswerInv, LaterInner, Waits
<1>15. EarlierOver'
  <2> SUFFICES ASSUME NEW d \in DOMAIN calls, ~calls[d].inner, NEW a \in 1 .. d - 1
               PROVE  calls'[a].result # "waiting" /\ calls'[a].got < d
    BY <1>5 DEF EarlierOver
  <2>1. calls[a].result # "waiting" /\ calls[a].got < d /\ a \in DOMAIN calls
    BY <1>1 DEF AnswerInv, EarlierOver
  <2> QED BY <1>4, <1>5, <2>1
<1>16. \A d \in DOMAIN calls : \A a : Cause(d, a) => CauseThen(d, a)
  <2> SUFFICES ASSUME NEW d \in DOMAIN calls, NEW a, Cause(d, a)
               PROVE  CauseThen(d, a)
    OBVIOUS
  <2>1. PICK b \in DOMAIN calls :
          /\ b <= d \/ b <= a
          /\ calls[b].result = "timeout" \/ calls[b].inner
          /\ \A e \in b + 1 .. d : ~calls[e].quiet
    BY DEF Cause
  <2>2. calls'[b].result = "timeout" \/ calls'[b].inner
    BY <1>4, <1>5, <2>1
  <2>3. \A e \in b + 1 .. d : e \in DOMAIN calls
    BY <1>1
  <2> QED BY <1>5, <2>1, <2>2, <2>3 DEF CauseThen
<1>17. Excused'
  <2> SUFFICES ASSUME NEW k \in DOMAIN stack', Waits(stack'[k])
               PROVE  /\ ready' /\ storage' # stack'[k].call => CauseThen(stack'[k].call, storage')
                      /\ \A j \in DOMAIN stack' :
                           j > k /\ Held(stack'[j]) /\ stack'[j].data.id # stack'[k].call =>
                             CauseThen(stack'[k].call, stack'[j].data.id)
    BY CausesThen
  <2>1. k \in DOMAIN stack /\ stack'[k] = stack[k]
    BY <1>3
  <2>2. ready' /\ storage' # stack'[k].call => CauseThen(stack'[k].call, storage')
    BY <1>2, <1>6, <1>16, <2>1 DEF AnswerInv, Excused
  <2>3. \A j \in DOMAIN stack' :
          j > k /\ Held(stack'[j]) /\ stack'[j].data.id # stack'[k].call =>
            CauseThen(stack'[k].call, stack'[j].data.id)
    BY <1>3, <1>6, <1>16, <2>1 DEF AnswerInv, Excused
  <2> QED BY <2>2, <2>3
<1>18. StrangersHaveCause'
  <2> SUFFICES ASSUME NEW d \in DOMAIN calls', calls'[d].result \in {"answered", "mismatch"},
                      calls'[d].got # d
               PROVE  CauseThen(d, calls'[d].got)
    BY CausesThen
  <2>1. CASE d = c
    <3>1. ready /\ g = storage /\ storage # c
      BY <1>5, <2>1
    <3>2. Cause(c, storage)
      BY <1>3, <3>1 DEF AnswerInv, Excused
    <3> QED BY <1>4, <1>5, <1>16, <2>1, <3>1, <3>2
  <2>2. CASE d # c
    <3>1. Cause(d, calls[d].got)
      BY <1>5, <2>2 DEF AnswerInv, StrangersHaveCause, Cause
    <3> QED BY <1>5, <1>16, <2>2, <3>1
  <2> QED BY <2>1, <2>2
<1>19. WaitBroken' = WaitBroken
  BY <1>5 DEF WaitBroken
<1>20. CallsAtBottom'
  BY <1>3, <1>19 DEF AnswerInv, CallsAtBottom, Waits
<1>21. UsedOnce'
  <2> SUFFICES ASSUME ~WaitBroken
               PROVE  ~InCall' /\ AnswerUsedOnce'
    BY <1>19 DEF UsedOnce
  <2>1. ~InCall'
    <3>1. \A i \in DOMAIN stack' : ~Waits(stack'[i])
      BY <1>3, <1>4 DEF AnswerInv, IInv, InnerMarked, WaitBroken
    <3> QED BY <3>1 DEF InCall, Active, Waits
  <2>2. InCall
    BY <1>3 DEF InCall, Active, Waits
  <2>3. g = 0 \/ \A d \in DOMAIN calls : calls[d].got # g
    BY <2>2 DEF AnswerInv, UsedOnce
  <2>4. AnswerUsedOnce'
    BY <1>5, <2>3 DEF AnswerInv, UsedOnce, AnswerUsedOnce
  <2> QED BY <2>1, <2>4
<1> QED BY <1>8, <1>10, <1>11, <1>12, <1>13, <1>14, <1>15, <1>17, <1>18, <1>20, <1>21
        DEF AnswerInv

LEMMA NextKeepsAnswers ==
  ASSUME AnswerInv, [Next]_vars
  PROVE  AnswerInv'
<1>1. TypeOK /\ IInv /\ IInv' /\ ComingDistinct /\ pending \in BOOLEAN
  BY NextKeeps DEF AnswerInv, IInv, TypeOK
<1>2. CASE LoopPoll
  <2>1. << >> \in Seq(Activation) /\ Events(<< >>, pending) /\ Carries(<< >>)
    BY <1>2 DEF LoopPoll, Carries
  <2> QED BY <1>1, <2>1, EventsKeepAnswers
<1>3. CASE HandlerPoll
  BY <1>1, <1>3, StackCarries, EventsKeepAnswers DEF HandlerPoll
<1>4. CASE WaitPoll
  <2>1. stack # << >> /\ Waits(Top)
    BY <1>4 DEF WaitPoll, At, Waits
  <2>2. PICK base \in Seq(Activation) : Carries(base) /\ Events(base, TRUE)
    BY <1>1, <1>4, <2>1, TurnedCarries DEF WaitPoll
  <2> QED BY <1>1, <2>2, EventsKeepAnswers
<1>5. CASE KeepWaiting
  <2>1. stack # << >> /\ Waits(Top)
    BY <1>5 DEF KeepWaiting, At, Waits
  <2>2. PICK base \in Seq(Activation) : Carries(base) /\ stack' = base
    BY <1>1, <1>5, <2>1, TurnedCarries DEF KeepWaiting
  <2>3. UNCHANGED <<storage, rx, esp, calls>> /\ ready' = FALSE
    BY <1>5 DEF KeepWaiting, history
  <2> QED BY <1>1, <2>2, <2>3, WireUnchanged, QuietStepKeepsAnswers
<1>6. CASE HandlerDone \/ PopFront
  <2>1. stack # << >> /\ ~Waits(Top)
    BY <1>6 DEF HandlerDone, PopFront, At, Waits
  <2>2. stack' = Below /\ UNCHANGED <<ready, storage, rx, esp, calls>>
    BY <1>6 DEF HandlerDone, PopFront, history
  <2> QED BY <1>1, <2>1, <2>2, BelowCarries, WireUnchanged, QuietStepKeepsAnswers
<1>7. CASE WaitExpire
  <2>1. stack # << >> /\ Waits(Top) /\ Return("timeout", 0) /\ UNCHANGED ready
    BY <1>7 DEF WaitExpire, At, Waits
  <2> QED BY <1>1, <2>1, BoundsAssumption, ReturnKeepsAnswers
<1>8. CASE TakeAnswer
  <2>1. stack # << >> /\ Waits(Top) /\ ready /\ UNCHANGED ready
    BY <1>8 DEF TakeAnswer, At, Waits
  <2>2. storage \in 0..MaxCalls /\ 0 \in 0..MaxCalls
    BY <1>1, BoundsAssumption DEF TypeOK
  <2>3. \/ Return("timeout", 0)
        \/ Return("answered", storage)
        \/ Return("mismatch", storage)
    BY <1>8 DEF TakeAnswer
  <2> QED BY <1>1, <2>1, <2>2, <2>3, ReturnKeepsAnswers
<1>9. CASE EspStep
  <2>1. UNCHANGED <<stack, calls, storage, ready>>
    BY <1>9 DEF EspStep, EspAnswer, EspLose, EspEvent, EspRestart, EspOther, client, history
  <2> QED BY <1>1, <1>9, <2>1, StackCarries, SendingShrinks, QuietStepKeepsAnswers
<1>10. CASE UNCHANGED vars
  <2>1. UNCHANGED <<stack, calls, storage, ready, rx, esp>>
    BY <1>10 DEF vars, client, history
  <2> QED BY <1>1, <2>1, StackCarries, WireUnchanged, QuietStepKeepsAnswers
<1> QED BY <1>2, <1>3, <1>4, <1>5, <1>6, <1>7, <1>8, <1>9, <1>10, CallKeepsAnswers,
           DetectDoneKeepsAnswers
        DEF Next, ClientStep

LEMMA InitAnswers == Init => AnswerInv
<1> SUFFICES ASSUME Init
             PROVE  AnswerInv
  OBVIOUS
<1>1. IInv /\ Coming = {} /\ DOMAIN stack = {} /\ DOMAIN calls = {}
  BY InitEstablishes DEF Init, Coming
<1>2. ComingDistinct /\ Known
  BY <1>1 DEF Init, ComingDistinct, Known
<1>3. ReadOnce /\ UnderWay /\ NoPauseSince /\ LaterInner /\ EarlierOver /\ Excused
  BY <1>1 DEF ReadOnce, UnderWay, NoPauseSince, LaterInner, EarlierOver, Excused
<1>4. StrangersHaveCause /\ CallsAtBottom /\ UsedOnce
  BY <1>1 DEF Init, StrangersHaveCause, CallsAtBottom, WaitBroken, UsedOnce, AnswerUsedOnce
<1> QED BY <1>1, <1>2, <1>3, <1>4 DEF AnswerInv

-----------------------------------------------------------------------------
(* The theorems *)

\* Every reachable state satisfies the inductive invariant.
THEOREM AnswerInvariant == Spec => []AnswerInv
BY InitAnswers, NextKeepsAnswers, PTL DEF Spec

\* Whatever handlers do, a call ends on the answer to another one only when some
\* call has given up or was made inside another, and no call since then found the
\* wire quiet: shifted answers have a cause, and a pause puts them right.
THEOREM ShiftedAnswersHaveCause == Spec => []StrangersHaveCause
<1>1. AnswerInv => StrangersHaveCause
  BY DEF AnswerInv
<1> QED BY AnswerInvariant, <1>1, PTL

\* No answer is returned twice, whatever handlers do, until a detect handler makes a
\* call inside a wait: the flag an answer leaves set is cleared before the next call
\* waits.  (The answer to an inner call is still in storage_buffer, with the flag set,
\* when the outer call looks.)
THEOREM AnswersAreUsedOnce == Spec => [](AnswerUsedOnce \/ WaitBroken)
<1>1. AnswerInv => AnswerUsedOnce \/ WaitBroken
  BY DEF AnswerInv, UsedOnce
<1> QED BY AnswerInvariant, <1>1, PTL

\* Where handlers make no calls that does not happen.
THEOREM WithoutCallsUsedOnce ==
  ASSUME "call" \notin HandlerMay
  PROVE  Spec => []AnswerUsedOnce
<1>1. AnswerInv => AnswerUsedOnce
  BY DEF AnswerInv, CallsAtBottom, UsedOnce
<1> QED BY AnswerInvariant, <1>1, PTL

\* Without such a cause calls get their own answers: as long as no call has given
\* up and no handler makes calls.
THEOREM OwnAnswersWithoutCause ==
  Spec => []((\A d \in DOMAIN calls : calls[d].result # "timeout" /\ ~calls[d].inner) =>
             \A c \in DOMAIN calls :
               calls[c].result \in {"answered", "mismatch"} => calls[c].got = c)
<1>1. StrangersHaveCause =>
        ((\A d \in DOMAIN calls : calls[d].result # "timeout" /\ ~calls[d].inner) =>
             \A c \in DOMAIN calls :
               calls[c].result \in {"answered", "mismatch"} => calls[c].got = c)
  BY DEF StrangersHaveCause
<1> QED BY ShiftedAnswersHaveCause, <1>1, PTL
=============================================================================
