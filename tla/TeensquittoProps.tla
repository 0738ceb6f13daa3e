--------------------------- MODULE TeensquittoProps ---------------------------
(* What must hold of the link, whatever the ESP does and whenever it does it. *)
EXTENDS Teensquitto

\* A "pop" activation whose event has reached its handler, or has no handler
\* left to reach: the front of the queue is no longer waiting.
FrontStarted ==
  \E i \in DOMAIN stack :
    stack[i].at = "pop" /\ (i = Len(stack) \/ stack[i + 1].at # "detect")

KeptEvents == IF FrontStarted THEN Tail(Queue!Contents) ELSE Queue!Contents

\* Where events are, by their numbers, 0 standing for what is no event: on the wire,
\* read from it with the detect handler still running, in the queue, with handlers.
OnWire == [i \in DOMAIN rx |-> IF rx[i].kind = "event" THEN rx[i].id ELSE 0]

HeldEvent(a) == a.at = "detect" /\ "slot" \notin DOMAIN a.data /\ a.data.kind = "event"
Detecting == [i \in DOMAIN stack |-> IF HeldEvent(stack[i]) THEN stack[i].data.id ELSE 0]

\* The events behind a detect handler.
HeldBack == Range(Detecting) \ {0}

Waiting == [i \in DOMAIN KeptEvents |-> KeptEvents[i].id]
Handled == [i \in DOMAIN delivered |-> delivered[i].id]

\* The places of event e.
Places(e) ==
  LET In(list) == {i \in DOMAIN list : list[i] = e}
  IN  ({"wire"} \X In(OnWire)) \cup ({"detect"} \X In(Detecting))
        \cup ({"queue"} \X In(Waiting)) \cup ({"handler"} \X In(Handled))
        \cup ({"dropped"} \X In(dropped))

-----------------------------------------------------------------------------
CallRecord ==
  [op : Op, result : {"waiting", "answered", "mismatch", "timeout"}, got : 0..MaxCalls,
   inner : BOOLEAN, quiet : BOOLEAN]

Activation ==
  [at : {"wait", "check"}, call : 1..MaxCalls]
    \cup [at : {"detect"}, data : Frame \cup [slot : Queue!Slots]]
    \cup [at : {"handler"}, event : 1 .. MaxSent["event"]]
    \cup [at : {"pop", "spin"}]

\* The types of the state.
TypeOK ==
  /\ detected \in BOOLEAN /\ pending \in BOOLEAN /\ ready \in BOOLEAN
  /\ storage \in 0..MaxCalls
  /\ Queue!TypeOK
  /\ stack \in Seq(Activation) /\ rx \in Seq(Frame) /\ esp \in Seq(1..MaxCalls)
  /\ calls \in Seq(CallRecord)
  /\ delivered \in Seq([id : Nat, via : {"queue", "wire"}])
  /\ dropped \in Seq(Nat)
  /\ overrun \in BOOLEAN
  /\ sent \in [Occurrence -> Nat]

\* _pendingData is set only while a call waits: no return path of the calls and
\* no nested call leaves the library keeping events that nobody will handle, or
\* keeping itself from noticing that the ESP is gone.
PendingOnlyInCall == pending => InCall

\* Every event the ESP sent is in exactly one place: on the wire, held up behind
\* the detect handler, in the queue, with its handler, or overwritten.
EventsAccountedFor ==
  /\ \A e \in 1 .. MaxSent["event"] :
       Cardinality(Places(e)) = IF e <= sent["event"] THEN 1 ELSE 0
  /\ Range(Handled) \cup Range(dropped) \subseteq 1 .. MaxSent["event"]

\* The same, whatever the detect handler's delay lets happen, until events() runs on
\* top of an event of the queue that is being handled and is still its front: that
\* event is then found, and handled, again.
EventsAccountedUntilOverrun == ~overrun => EventsAccountedFor

\* No event is lost or handled twice, even when handlers make calls of their own
\* while the event they handle is still at the front of the queue (it is popped
\* afterwards, line 4346), as long as none was overwritten in a full queue and no
\* handler of a queued event ran events() itself.
EventsSafeUntilOverflow == dropped = << >> /\ ~overrun => EventsAccountedFor

\* Answers carry no number, and still a call ends on an answer that was meant for
\* another one only when some call has given up or was made inside another (from
\* the detect handler), and no call since then found the wire quiet.  One late
\* answer shifts the answers of all the calls that follow it closely; a pause
\* long enough for the wire to fall quiet puts things right.
StrangersHaveCause ==
  \A c \in DOMAIN calls :
    calls[c].result \in {"answered", "mismatch"} /\ calls[c].got # c =>
      \E d \in DOMAIN calls :
        /\ d <= c \/ d <= calls[c].got
        /\ calls[d].result = "timeout" \/ calls[d].inner
        /\ \A e \in d + 1 .. c : ~calls[e].quiet

\* No two calls return the same answer: the flag left set by one call is cleared
\* before the next one waits.
AnswerUsedOnce ==
  \A c, d \in DOMAIN calls :
    calls[c].got # 0 /\ calls[c].got = calls[d].got => c = d

\* A detect handler that ran inside a wait has made a call of its own, whose end
\* clears _pendingData under the outer call.
WaitBroken == \E c \in DOMAIN calls : calls[c].inner

\* No event handler starts while a call is waiting for its answer, whatever the
\* handlers do, until a detect handler makes a call inside a wait.
NoHandlerInCall ==
  [][Len(delivered') > Len(delivered) => ~InCall \/ WaitBroken]_vars

\* The library never declares the ESP gone in the middle of a call, when it has
\* a request outstanding, with the same exception.
NotOfflineInCall == [][detected /\ ~detected' => ~InCall \/ WaitBroken]_vars

\* The packet a handler is given lies in static fields, and is still its own after
\* the handler has made calls (to answer it, say): with the same exception, and
\* unless handlers run events() themselves.
PacketIsOwn ==
  At("handler") /\ "poll" \notin HandlerMay =>
    Top.event = Last(delivered).id \/ WaitBroken

\* Every call returns.
CallsReturn ==
  \A c \in 1..MaxCalls :
    Len(calls) >= c ~> Len(calls) >= c /\ calls[c].result # "waiting"

\* Events kept while a call waited are handled when the wire falls silent, be the
\* client's calls what they may.  While it does not they may wait for ever: events()
\* returns from a frame (lines 4315-4316) before it looks at the queue (line 4337).
QueueDrains == <>[](rx = << >>) => []<>(available = 0)

\* A packet from the ESP brings the library back online.
PacketsBringOnline ==
  (~detected /\ \E i \in DOMAIN rx : rx[i].kind \notin {"junk", "noise"}) ~> detected

\* "VALID PACKET, RESET TIMEOUT, ONLINE!" (teensquitto.cpp:4353): the library
\* comes online only in a step that receives a packet from the ESP.
OnlineOnlyByPacket == [][~detected /\ detected' => Len(rx') < Len(rx)]_vars

-----------------------------------------------------------------------------
Delivery == INSTANCE EventDelivery
  WITH Capacity <- Size, Event <- 1 .. MaxSent["event"],
       waiting <- Waiting, handled <- Handled, held <- HeldBack

\* The events go through the library as EventDelivery promises, over restarts, times
\* offline and what the detect handler's delay lets happen, until events() runs on top
\* of a queued event that is being handled (the step that does so excepted).
DeliveryKept == Delivery!Init /\ [][overrun' \/ Delivery!Next]_(Delivery!vars)

\* With handlers that make calls too, until an event is overwritten in a full queue:
\* it may be the front, which its handler is still working on.
DeliveryUntilOverflow ==
  Delivery!Init /\ [][overrun' \/ dropped' # << >> \/ Delivery!Next]_(Delivery!vars)

\* The library keeps to what the ring expects of its user (nothing is popped
\* from an empty queue), so what is proved of the ring holds of the queue.
QueueSpec == Queue!Spec

\* With handlers that run events() themselves it keeps to that until the handler
\* of a queued event does so.
QueueKept == [][overrun' \/ Queue!Next]_ring
=============================================================================
