------------------------------ MODULE Teensquitto ------------------------------
(***************************************************************************)
(* The Teensy's side of the link to the ESP8266: calls that wait for an    *)
(* answer (every method that ends in the loop of teensquitto.cpp:131),     *)
(* events(), processing_data() and the queue that keeps the ESP's events   *)
(* while a call waits.                                                     *)
(*                                                                         *)
(* There is one thread, but it re-enters itself: a waiting call runs       *)
(* events(), events() runs handlers, a handler may make calls or run       *)
(* events() again.  stack holds the activations that are under way, and    *)
(* only the last of them moves.  Time is not counted: a wait may end at    *)
(* any turn of its loop, and 5 s without a packet may have passed whenever *)
(* events() asks.                                                          *)
(***************************************************************************)
EXTENDS Integers, Sequences, FiniteSets, SequencesExt

CONSTANTS
  Size,          \* TEENSQUITTO_QUEUE_SLOTS
  Op,            \* the calls: records of a header and a sub-command
  HandlerMay,    \* what the client's handlers do, a subset of {"call", "poll"}
  MaxCalls,      \* bound: calls made
  MaxDepth,      \* bound: activations under way when one more is started
  MaxRx,         \* bound: frames on the wire
  MaxSent        \* bound: how often each thing in Occurrence happens

Occurrence == {"event", "restart", "status", "junk", "noise", "lost", "offline"}

ASSUME BoundsAssumption ==
  /\ MaxCalls \in Nat /\ MaxDepth \in Nat /\ MaxRx \in Nat
  /\ MaxSent \in [Occurrence -> Nat]
  /\ HandlerMay \subseteq {"call", "poll"}

\* What CircularBuffer assumes of _size.
ASSUME QueueAssumption == Size \in Nat /\ 0 < Size /\ Size <= 32768

VARIABLES
  detected,                       \* _esp_detected
  pending,                        \* _pendingData
  ready,                          \* data_ready_flag
  storage,                        \* storage_buffer: the call whose answer it holds, 0 none
  head, tail, available, slot,    \* teensquitto_queue
  stack,                          \* the activations under way
  rx,                             \* frames from the ESP not yet read
  esp,                            \* calls the ESP has not answered yet
  calls,                          \* history: every call, how it began and ended
  delivered,                      \* history: events given to handlers
  dropped,                        \* history: events overwritten in a full queue
  overrun,                        \* history: events() ran while a queued event was handled
  sent                            \* bound: how often each occurrence happened

ring == <<head, tail, available, slot>>
client == <<detected, pending, ready, storage, ring, stack>>
history == <<calls, delivered, dropped, overrun>>
vars == <<client, rx, esp, history, sent>>

\* '$' frames by what processing_data() makes of them (status: 0x7272 .. 0x7F7F
\* and 0x7373), junk: a frame events() reads and returns from (a bad checksum,
\* a '!' reply), noise: a byte it flushes.
EventFrame == [kind : {"event"}, id : 1 .. MaxSent["event"]]
Frame ==
  EventFrame
    \cup [kind : {"answer"}, id : 1..MaxCalls]
    \cup [kind : {"restart", "status", "junk", "noise"}, id : {0}]
Plain(k) == [kind |-> k, id |-> 0]

\* What a slot of the queue holds before it is first written.
NoFrame == Plain("none")
SameKey(a, b) == a = b

\* The library never calls remove(), so nothing of what it can spoil is in the queue.
MovesWhole(f) == TRUE
Queue == INSTANCE CircularBuffer WITH Entry <- EventFrame, Blank <- NoFrame, Spoilt <- {}

Top == stack[Len(stack)]
Below == Front(stack)
At(k) == stack # << >> /\ Top.at = k
Active(k) == \E i \in DOMAIN stack : stack[i].at = k
InCall == Active("wait") \/ Active("check")

\* The wire and the ESP hold nothing that was meant for an earlier call.
Quiet == esp = << >> /\ \A i \in DOMAIN rx : rx[i].kind # "answer"

Count(k) == [sent EXCEPT ![k] = @ + 1]
MayHappen(k) == sent[k] < MaxSent[k] /\ Len(rx) < MaxRx

-----------------------------------------------------------------------------
Init ==
  /\ detected = TRUE /\ pending = FALSE /\ ready = FALSE /\ storage = 0
  /\ Queue!Init
  /\ stack = << >> /\ rx = << >> /\ esp = << >>
  /\ calls = << >> /\ delivered = << >> /\ dropped = << >> /\ overrun = FALSE
  /\ sent = [k \in Occurrence |-> 0]

-----------------------------------------------------------------------------
(* processing_data() *)

\* An event while a call waits: teensquitto_queue.push_back(data, len).
Keep(f) ==
  /\ Queue!PushBack(f)
  /\ dropped' = IF Queue!Full THEN Append(dropped, Queue!FrontMessage.id) ELSE dropped

\* An event otherwise: its handler starts, with arguments that for a UDP packet stay
\* in static fields (case 0xCFCF, AsyncUDPPacket), those of the last one delivered.
StartHandler(f, base) ==
  /\ stack' = Append(base, [at |-> "handler", event |-> f.id])
  /\ delivered' = Append(delivered,
       [id |-> f.id, via |-> IF base # << >> /\ Last(base).at = "pop" THEN "queue" ELSE "wire"])

\* The switch on the header.  p is the value of _pendingData.
Switch(f, base, p) ==
  \/ /\ f.kind = "answer"
     /\ storage' = f.id /\ ready' = TRUE /\ stack' = base
     /\ UNCHANGED <<ring, delivered, dropped>>
  \/ /\ f.kind = "event" /\ p
     /\ Keep(f) /\ stack' = base
     /\ UNCHANGED <<storage, ready, delivered>>
  \/ /\ f.kind = "event" /\ ~p
     /\ StartHandler(f, base)
     /\ UNCHANGED <<storage, ready, ring, dropped>>
  \/ /\ f.kind \in {"status", "restart"}
     /\ stack' = base
     /\ UNCHANGED <<storage, ready, ring, delivered, dropped>>
  \* A slot nobody wrote has length 0: the print loop to len - 1 has no end.
  \/ /\ f.kind = "none"
     /\ stack' = Append(base, [at |-> "spin"])
     /\ UNCHANGED <<storage, ready, ring, delivered, dropped>>

\* data points into events()' own buffer or into a slot of the queue.
Data(at) == IF "slot" \in DOMAIN at THEN slot[at.slot] ELSE at

\* Mutant: the detect handler runs but the library stays offline.
ProcessingDataOffline(at, base, p, d) ==
  /\ detected' = d
  /\ \/ /\ ~d \/ Data(at).kind = "restart"
        /\ stack' = Append(base, [at |-> "detect", data |-> at])
        /\ UNCHANGED <<storage, ready, ring, delivered, dropped>>
     \/ /\ d /\ Data(at).kind # "restart"
        /\ Switch(Data(at), base, p)

\* Offline, or on a restart notice, the detect handler runs before the switch.
\* d is the value of _esp_detected.
ProcessingData(at, base, p, d) ==
  \/ /\ ~d \/ Data(at).kind = "restart"
     /\ detected' = TRUE
     /\ stack' = Append(base, [at |-> "detect", data |-> at])
     /\ UNCHANGED <<storage, ready, ring, delivered, dropped>>
  \/ /\ d /\ Data(at).kind # "restart"
     /\ detected' = d
     /\ Switch(Data(at), base, p)

-----------------------------------------------------------------------------
(* events() *)

\* The queued event is handled where it lies and leaves the queue afterwards.
Dequeue(base, p, d) ==
  \/ /\ ~p /\ available > 0
     /\ ProcessingData([slot |-> Queue!SlotOf(head)], Append(base, [at |-> "pop"]), p, d)
  \/ /\ p \/ available = 0
     /\ detected' = d /\ stack' = base
     /\ UNCHANGED <<storage, ready, ring, delivered, dropped>>

ReadFrame(base, p, d) ==
  /\ rx # << >>
  /\ rx' = Tail(rx)
  /\ \/ /\ Head(rx).kind \notin {"junk", "noise"}
        /\ ProcessingData(Head(rx), base, p, d)
     \/ /\ Head(rx).kind = "junk"
        /\ detected' = d /\ stack' = base
        /\ UNCHANGED <<storage, ready, ring, delivered, dropped>>
     \/ Head(rx).kind = "noise" /\ Dequeue(base, p, d)

\* One call of events() by the activations in base, with _pendingData = p.
\* "!_pendingData && _esp_detected && 5 s passed" takes the library offline.
Events(base, p) ==
  /\ pending' = p
  /\ overrun' = (overrun \/ (Active("pop") /\ ~p))
  /\ UNCHANGED <<esp, calls>>
  /\ \E d \in {detected, FALSE} :
       /\ d # detected => ~p /\ sent["offline"] < MaxSent["offline"]
       /\ sent' = IF d # detected THEN Count("offline") ELSE sent
       /\ \/ ReadFrame(base, p, d)
          \/ rx = << >> /\ UNCHANGED rx /\ Dequeue(base, p, d)

\* The client's loop() runs events().
LoopPoll == stack = << >> /\ Events(<< >>, pending)

\* A handler runs events() itself, or waits and lets yield() run it from
\* serialEvent1(), as the delay(1000) before the detect handler does.
HandlerPoll ==
  /\ "poll" \in HandlerMay
  /\ At("handler") \/ At("detect")
  /\ Len(stack) < MaxDepth
  /\ Events(stack, pending)

-----------------------------------------------------------------------------
(* A call that waits for its answer *)

\* Mutant: data_ready_flag is not cleared before the wait.
CallKeepingFlag(op) ==
  /\ stack = << >> \/ ("call" \in HandlerMay /\ (At("handler") \/ At("detect")))
  /\ Len(stack) < MaxDepth /\ Len(calls) < MaxCalls
  /\ detected
  /\ calls' = Append(calls, [op |-> op, result |-> "waiting", got |-> 0,
                             inner |-> InCall, quiet |-> Quiet])
  /\ esp' = Append(esp, Len(calls) + 1)
  /\ stack' = Append(stack, [at |-> "wait", call |-> Len(calls) + 1])
  /\ UNCHANGED <<detected, pending, ready, storage, ring, rx, delivered, dropped, overrun, sent>>

\* "if ( !_esp_detected ) return 0;" makes a call offline no step at all.
Call(op) ==
  /\ stack = << >> \/ ("call" \in HandlerMay /\ (At("handler") \/ At("detect")))
  /\ Len(stack) < MaxDepth /\ Len(calls) < MaxCalls
  /\ detected
  /\ calls' = Append(calls, [op |-> op, result |-> "waiting", got |-> 0,
                             inner |-> InCall, quiet |-> Quiet])
  /\ esp' = Append(esp, Len(calls) + 1)
  /\ ready' = FALSE
  /\ stack' = Append(stack, [at |-> "wait", call |-> Len(calls) + 1])
  /\ UNCHANGED <<detected, pending, storage, ring, rx, delivered, dropped, overrun, sent>>

\* Mutant: _pendingData is not set.
WaitPollUnmarked ==
  /\ At("wait")
  /\ Events(Append(Below, [Top EXCEPT !.at = "check"]), FALSE)

\* A turn of the loop: _pendingData = 1; events();
WaitPoll ==
  /\ At("wait")
  /\ Events(Append(Below, [Top EXCEPT !.at = "check"]), TRUE)

\* Mutant: a return that forgets _pendingData = 0.
ReturnPending(r, g) ==
  /\ stack' = Below
  /\ calls' = [calls EXCEPT ![Top.call].result = r, ![Top.call].got = g]
  /\ UNCHANGED <<detected, pending, storage, ring, rx, esp, delivered, dropped, overrun, sent>>

\* The call ends: _pendingData = 0 and the method returns.
Return(r, g) ==
  /\ pending' = FALSE
  /\ stack' = Below
  /\ calls' = [calls EXCEPT ![Top.call].result = r, ![Top.call].got = g]
  /\ UNCHANGED <<detected, storage, ring, rx, esp, delivered, dropped, overrun, sent>>

\* Mutant: a loop without a time limit.
WaitForEver == FALSE

\* The loop's time is up before an answer: the method returns 0.
WaitExpire == At("wait") /\ Return("timeout", 0) /\ UNCHANGED ready

SameHeader(c, a) == calls[c].op.hdr = calls[a].op.hdr
SameSub(c, a) == calls[c].op.sub = calls[a].op.sub

\* "header differs && sub-command differs" throws an answer away.
Foreign(c, a) == ~SameHeader(c, a) /\ ~SameSub(c, a)

\* After events(): no answer, or one thrown away, and the loop goes on.
KeepWaiting ==
  /\ At("check")
  /\ ready => Foreign(Top.call, storage)
  /\ ready' = FALSE
  /\ stack' = Append(Below, [Top EXCEPT !.at = "wait"])
  /\ UNCHANGED <<detected, pending, storage, ring, rx, esp, history, sent>>

\* After events(): the loop is left with an answer that may have come too late,
\* may be this call's (header and sub-command agree) or may not.
TakeAnswer ==
  /\ At("check")
  /\ ready /\ ~Foreign(Top.call, storage)
  /\ \/ Return("timeout", 0)
     \/ SameHeader(Top.call, storage) /\ SameSub(Top.call, storage) /\ Return("answered", storage)
     \/ ~(SameHeader(Top.call, storage) /\ SameSub(Top.call, storage)) /\ Return("mismatch", storage)
  /\ UNCHANGED ready

-----------------------------------------------------------------------------
(* The rest of events() and processing_data() after a handler *)

\* The detect handler returns and processing_data() goes on to the switch.
DetectDone ==
  /\ At("detect")
  /\ Switch(Data(Top.data), Below, pending)
  /\ UNCHANGED <<detected, pending, rx, esp, calls, overrun, sent>>

HandlerDone ==
  /\ At("handler")
  /\ stack' = Below
  /\ UNCHANGED <<detected, pending, ready, storage, ring, rx, esp, history, sent>>

\* Mutants: nothing is popped, the newest event is popped, two are popped.
PopNothing ==
  /\ At("pop")
  /\ stack' = Below
  /\ UNCHANGED <<detected, pending, ready, storage, ring, rx, esp, history, sent>>

PopNewest ==
  /\ At("pop")
  /\ Queue!PopBack
  /\ stack' = Below
  /\ UNCHANGED <<detected, pending, ready, storage, rx, esp, history, sent>>

PopTwo ==
  /\ At("pop")
  /\ head' = Queue!Ahead(head, 2)
  /\ available' = IF available > 1 THEN available - 2 ELSE 0
  /\ stack' = Below
  /\ UNCHANGED <<detected, pending, ready, storage, tail, slot, rx, esp, history, sent>>

\* processing_data() has returned to events(): teensquitto_queue.pop_front().
PopFront ==
  /\ At("pop")
  /\ Queue!PopFront
  /\ stack' = Below
  /\ UNCHANGED <<detected, pending, ready, storage, rx, esp, history, sent>>

-----------------------------------------------------------------------------
(* The ESP8266 and the wire *)

EspAnswer ==
  /\ esp # << >> /\ Len(rx) < MaxRx
  /\ rx' = Append(rx, [kind |-> "answer", id |-> Head(esp)])
  /\ esp' = Tail(esp)
  /\ UNCHANGED <<client, history, sent>>

\* The request or its answer is lost or garbled on the wire.
EspLose ==
  /\ esp # << >> /\ sent["lost"] < MaxSent["lost"]
  /\ esp' = Tail(esp)
  /\ sent' = Count("lost")
  /\ UNCHANGED <<client, rx, history>>

EspEvent ==
  /\ MayHappen("event")
  /\ rx' = Append(rx, [kind |-> "event", id |-> sent["event"] + 1])
  /\ sent' = Count("event")
  /\ UNCHANGED <<client, esp, history>>

\* The ESP restarts: it forgets what it was asked and sends 0x8080.
EspRestart ==
  /\ MayHappen("restart")
  /\ rx' = Append(rx, Plain("restart"))
  /\ esp' = << >>
  /\ sent' = Count("restart")
  /\ UNCHANGED <<client, history>>

EspOther(k) ==
  /\ MayHappen(k)
  /\ rx' = Append(rx, Plain(k))
  /\ sent' = Count(k)
  /\ UNCHANGED <<client, esp, history>>

-----------------------------------------------------------------------------
ClientStep ==
  \/ LoopPoll
  \/ HandlerPoll
  \/ \E op \in Op : Call(op)
  \/ WaitPoll \/ WaitExpire \/ KeepWaiting \/ TakeAnswer
  \/ DetectDone \/ HandlerDone \/ PopFront

EspStep ==
  \/ EspAnswer \/ EspLose \/ EspEvent \/ EspRestart
  \/ \E k \in {"status", "junk", "noise"} : EspOther(k)

Next == ClientStep \/ EspStep

\* The processor keeps running: loop() comes round, handlers return and time
\* passes, so a wait that is turned over for ever meets the end of its time.
Fairness ==
  /\ WF_vars(LoopPoll)
  /\ WF_vars(WaitPoll) /\ SF_vars(WaitExpire) /\ WF_vars(KeepWaiting) /\ WF_vars(TakeAnswer)
  /\ SF_vars(DetectDone) /\ SF_vars(HandlerDone) /\ WF_vars(PopFront)

Spec == Init /\ [][Next]_vars

FairSpec == Spec /\ Fairness
=============================================================================
