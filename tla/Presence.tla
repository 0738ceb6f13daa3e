-------------------------------- MODULE Presence --------------------------------
(***************************************************************************)
(* How the library finds the ESP, loses it and tells it again what it      *)
(* forgot: the sync controller at the head of events()                     *)
(* (teensquitto.cpp:4284-4295), the first line of processing_data() (4355),*)
(* the latency (4428) and the masks of registered handlers (951-1023).     *)
(*                                                                         *)
(* The ESP forgets the masks when it restarts, and nobody acknowledges     *)
(* them: it is the detect handler of the sketch that registers again.      *)
(* The MQTT and the WiFi mask work alike; one of them is modelled.         *)
(* Frames are whole (FrameParser has their bytes), and events kept in the  *)
(* queue, handled later, are left to Teensquitto.                          *)
(*                                                                         *)
(* Times are ages in ticks; an age that has reached MaxAge stays there.  A *)
(* Teensy that starts takes the ESP for present (45): only 5 s of silence  *)
(* tell it otherwise.                                                      *)
(***************************************************************************)
EXTENDS Integers, Sequences

CONSTANTS
  Handler,       \* the bits of the mask
  Registers,     \* what the detect handler registers, in this order
  PingEvery, OfflineAfter, DetectDelay,   \* 250, 5000 and 1000 ms
  LatencyLimit,  \* the latency is kept modulo this: 65536
  MaxAge,        \* bound: ages told apart
  MaxWire,       \* bound: frames on the way, in each direction
  MaxTalk,       \* bound: calls and registrations of the sketch and events of the ESP
  MaxFaults      \* bound: restarts of either side and lost frames

ASSUME TimesAssumption ==
  /\ PingEvery \in Nat /\ OfflineAfter \in Nat /\ DetectDelay \in Nat
  /\ LatencyLimit \in Nat \ {0}
  /\ MaxAge \in Nat /\ MaxAge > PingEvery /\ MaxAge > OfflineAfter
  /\ MaxWire \in Nat /\ MaxTalk \in Nat /\ MaxFaults \in Nat

ASSUME RegistersAssumption == Registers \in Seq(Handler) /\ Registers # << >>

VARIABLES
  online,        \* _esp_detected
  interval,      \* age of _esp_sync_interval
  check,         \* age of _esp_check_latency
  packet,        \* age of _esp_sync_timeout
  latency,       \* _esp_latency
  pending,       \* _pendingData: a call waits
  detect,        \* _espDetectHandler is set
  mask,          \* _mqtt_handlers (or _wifi_handlers)
  delays,        \* frames whose handling waits in delay(1000), the innermost first
  left,          \* ticks left of the innermost delay
  toEsp, toTeensy,   \* frames on the UART
  up, espMask,   \* the ESP runs; the mask it has
  lost,          \* history: a mask or a restart notice was lost since the detect handler last ran
  talk, faults   \* bounds

sync == <<online, interval, check, packet>>
sketch == <<pending, detect, mask>>
waiting == <<delays, left>>
esp == <<up, espMask>>
bounds == <<talk, faults>>
vars == <<sync, latency, sketch, waiting, toEsp, toTeensy, esp, lost, bounds>>

Age == 0 .. MaxAge
Older(a) == IF a < MaxAge THEN a + 1 ELSE a

\* Pings and their answers carry the age of the ping; the code has no such thing.
Ping(a) == [kind |-> "ping", age |-> a]
Masks(s) == [kind |-> "masks", set |-> s]
Ask == [kind |-> "ask"]
ToEsp == {Ping(a) : a \in Age} \cup {Masks(s) : s \in SUBSET Handler} \cup {Ask}

SyncAnswer(a) == [kind |-> "sync", age |-> a]     \* 0x7F7F
Boot == [kind |-> "boot"]                         \* 0x8080
Other == [kind |-> "other"]                       \* an answer to a call, or an event
ToTeensy == {SyncAnswer(a) : a \in Age} \cup {Boot, Other}

-----------------------------------------------------------------------------
Init ==
  /\ online = TRUE /\ interval = 0 /\ check = 0 /\ packet = 0
  /\ latency = 0
  /\ pending = FALSE /\ detect = FALSE /\ mask = {}
  /\ delays = << >> /\ left = 0
  /\ toEsp = << >> /\ toTeensy = << >>
  /\ up \in BOOLEAN /\ espMask = {}
  /\ lost = FALSE /\ talk = 0 /\ faults = 0

-----------------------------------------------------------------------------
(* Registration *)

Send(s) == Len(toEsp) + Len(s) <= MaxWire /\ toEsp' = toEsp \o s

\* on...(): the bit is set and the whole mask goes to the ESP, online or not, and
\* nothing comes back.
Register(h) == mask' = mask \cup {h} /\ Send(<< Masks(mask \cup {h}) >>)

FirstOnes(n) == {Registers[i] : i \in 1 .. n}

\* The detect handler registers its handlers, one after the other.
DetectHandler ==
  /\ mask' = mask \cup FirstOnes(Len(Registers))
  /\ Send([n \in 1 .. Len(Registers) |-> Masks(mask \cup FirstOnes(n))])
  /\ lost' = FALSE

\* onDetect(): the handler is kept, and runs at once when the ESP is online.
OnDetect ==
  /\ detect' = TRUE
  /\ \/ online /\ DetectHandler
     \/ ~online /\ UNCHANGED <<mask, toEsp, lost>>

-----------------------------------------------------------------------------
(* events() and processing_data() *)

\* Mutant: a ping does not start the time of the latency anew.
PingUntimed == interval' = 0 /\ UNCHANGED check

\* _esp_sync_interval and _esp_check_latency are set to the same time.
PingSent == interval' = 0 /\ check' = 0

\* Mutant: the ping goes out when it is not needed.
MayPingOnline ==
  \/ online /\ interval > PingEvery /\ PingSent /\ Send(<< Ping(0) >>)
  \/ ~online /\ UNCHANGED <<interval, check, toEsp>>

\* Every 250 ms offline: a ping.  One that finds the wire full is lost.
MayPing ==
  \/ /\ ~online /\ interval > PingEvery
     /\ PingSent
     /\ \/ Send(<< Ping(0) >>)
        \/ Len(toEsp) >= MaxWire /\ UNCHANGED toEsp
  \/ ~(~online /\ interval > PingEvery) /\ UNCHANGED <<interval, check, toEsp>>

\* Mutant: only a call that waits can go offline.
StaysOnlineIdle == online /\ (~pending \/ packet <= OfflineAfter)

\* Online without a packet for 5 s, and no call waits: offline.
StaysOnline == online /\ (pending \/ packet <= OfflineAfter)

\* Mutant: the new time is added to the average.
HandleSummed(f) ==
  \/ f.kind = "sync" /\ latency' = check + latency /\ UNCHANGED pending
  \/ f.kind # "sync" /\ UNCHANGED <<latency, pending>>

\* The average in its 16 bits.  Of an age that stays at MaxAge the time, and so what
\* the 16 bits make of it, is not known.
Averaged ==
  \/ check < MaxAge /\ latency' = ((check + latency) \div 2) % LatencyLimit
  \/ check = MaxAge /\ latency' \in 0 .. LatencyLimit - 1

\* The switch of processing_data(), behind its first line.  The time of a sync
\* answer is taken here, after the delay and the detect handler.
Handle(f) ==
  \/ f.kind = "sync" /\ Averaged /\ UNCHANGED pending
  \/ f.kind = "boot" /\ UNCHANGED <<latency, pending>>
  \/ f.kind = "other" /\ pending' \in {pending, FALSE} /\ UNCHANGED latency

\* Mutant: only the way from offline to online runs the detect handler.
BringsOnlineOnce(f) == ~StaysOnline

\* Mutant: only a restart notice does.
BringsOnlineAtBoot(f) == f.kind = "boot"

\* A frame read offline, or a restart notice: delay(1000), then the detect handler.
BringsOnline(f) == ~StaysOnline \/ f.kind = "boot"

ReadFrame ==
  LET f == Head(toTeensy) IN
  /\ toTeensy # << >> /\ toTeensy' = Tail(toTeensy)
  /\ online' = TRUE /\ packet' = 0
  /\ \/ /\ BringsOnline(f)
        /\ delays' = << f >> \o delays /\ left' = DetectDelay
        /\ UNCHANGED <<latency, pending>>
     \/ /\ ~BringsOnline(f)
        /\ Handle(f)
        /\ UNCHANGED waiting

\* One run of events(), from the sketch, from the loop of a call that waits, or,
\* by way of yield() and serialEvent(), from inside the delay(1000).
Events ==
  /\ MayPing
  /\ \/ ReadFrame
     \/ /\ toTeensy = << >>
        /\ online' = StaysOnline
        /\ UNCHANGED <<packet, latency, pending, waiting, toTeensy>>
  /\ UNCHANGED <<detect, mask, esp, lost, bounds>>

\* The delay is over: the detect handler runs, if there is one, then the switch.
DelayOver ==
  /\ delays # << >> /\ left = 0
  /\ \/ detect /\ DetectHandler
     \/ ~detect /\ UNCHANGED <<mask, toEsp, lost>>
  /\ Handle(Head(delays))
  /\ delays' = Tail(delays)
  /\ UNCHANGED <<sync, detect, left, toTeensy, esp, bounds>>

-----------------------------------------------------------------------------
(* The sketch *)

Free == delays = << >> /\ ~pending

SketchRegisters ==
  /\ Free /\ talk < MaxTalk
  /\ talk' = talk + 1
  /\ \E h \in Handler : Register(h)
  /\ UNCHANGED <<sync, latency, pending, detect, waiting, toTeensy, esp, lost, faults>>

SketchDetects ==
  /\ Free
  /\ OnDetect
  /\ UNCHANGED <<sync, latency, pending, waiting, toTeensy, esp, bounds>>

\* A call, while the library is online.
Call ==
  /\ Free /\ online /\ talk < MaxTalk
  /\ pending' = TRUE /\ talk' = talk + 1
  /\ Send(<< Ask >>)
  /\ UNCHANGED <<sync, latency, detect, mask, waiting, toTeensy, esp, lost, faults>>

\* The call has waited long enough (CallTiming).
GiveUp ==
  /\ pending /\ delays = << >>
  /\ pending' = FALSE
  /\ UNCHANGED <<sync, latency, detect, mask, waiting, toEsp, toTeensy, esp, lost, bounds>>

Fault == faults < MaxFaults /\ faults' = faults + 1

TeensyRestart ==
  /\ Fault
  /\ online' = TRUE /\ interval' = 0 /\ check' = 0 /\ packet' = 0
  /\ latency' = 0
  /\ pending' = FALSE /\ detect' = FALSE /\ mask' = {}
  /\ delays' = << >> /\ left' = 0
  /\ toTeensy' = << >>
  /\ UNCHANGED <<toEsp, esp, lost, talk>>

-----------------------------------------------------------------------------
(* The ESP and the wires *)

Tick ==
  /\ delays # << >> => left > 0
  /\ interval' = Older(interval) /\ check' = Older(check) /\ packet' = Older(packet)
  /\ left' = (IF left > 0 THEN left - 1 ELSE 0)
  /\ toEsp' = [i \in 1 .. Len(toEsp) |->
                 IF toEsp[i].kind = "ping" THEN Ping(Older(toEsp[i].age)) ELSE toEsp[i]]
  /\ toTeensy' = [i \in 1 .. Len(toTeensy) |->
                    IF toTeensy[i].kind = "sync"
                      THEN SyncAnswer(Older(toTeensy[i].age)) ELSE toTeensy[i]]
  /\ delays' = [i \in 1 .. Len(delays) |->
                  IF delays[i].kind = "sync"
                    THEN SyncAnswer(Older(delays[i].age)) ELSE delays[i]]
  /\ UNCHANGED <<online, latency, sketch, esp, lost, bounds>>

EspSends(f) == Len(toTeensy) < MaxWire /\ toTeensy' = Append(toTeensy, f)

\* Pings are answered, masks kept, calls answered; nobody is there when it is down.
EspReceive ==
  LET m == Head(toEsp) IN
  /\ toEsp # << >> /\ toEsp' = Tail(toEsp)
  /\ \/ ~up /\ UNCHANGED <<toTeensy, espMask>>
     \/ up /\ m.kind = "ping" /\ EspSends(SyncAnswer(m.age)) /\ UNCHANGED espMask
     \/ up /\ m.kind = "ask" /\ EspSends(Other) /\ UNCHANGED espMask
     \/ up /\ m.kind = "masks" /\ espMask' = m.set /\ UNCHANGED toTeensy
  /\ UNCHANGED <<sync, latency, sketch, waiting, up, lost, bounds>>

\* An event for which the mask has a bit.
EspEvent ==
  /\ up /\ espMask # {} /\ talk < MaxTalk
  /\ talk' = talk + 1
  /\ EspSends(Other)
  /\ UNCHANGED <<sync, latency, sketch, waiting, toEsp, esp, lost, faults>>

EspCrash ==
  /\ up /\ Fault
  /\ up' = FALSE /\ espMask' = {}
  /\ UNCHANGED <<sync, latency, sketch, waiting, toEsp, toTeensy, lost, talk>>

EspBoot ==
  /\ ~up /\ up' = TRUE
  /\ EspSends(Boot)
  /\ UNCHANGED <<sync, latency, sketch, waiting, toEsp, espMask, lost, bounds>>

Lose ==
  /\ Fault
  /\ \/ /\ toEsp # << >> /\ toEsp' = Tail(toEsp) /\ UNCHANGED toTeensy
        /\ lost' = (lost \/ Head(toEsp).kind = "masks")
     \/ /\ toTeensy # << >> /\ toTeensy' = Tail(toTeensy) /\ UNCHANGED toEsp
        /\ lost' = (lost \/ Head(toTeensy).kind = "boot")
  /\ UNCHANGED <<sync, latency, sketch, waiting, esp, talk>>

-----------------------------------------------------------------------------
Next ==
  \/ Events \/ DelayOver
  \/ SketchRegisters \/ SketchDetects \/ Call \/ GiveUp \/ TeensyRestart
  \/ Tick
  \/ EspReceive \/ EspEvent \/ EspCrash \/ EspBoot \/ Lose

Spec == Init /\ [][Next]_vars

\* The sketch runs events() again and again and delays and calls come to an end;
\* time passes; what is sent arrives.
FairSpec ==
  /\ Spec
  /\ WF_vars(Events) /\ WF_vars(DelayOver) /\ WF_vars(GiveUp)
  /\ WF_vars(Tick) /\ WF_vars(EspReceive)

-----------------------------------------------------------------------------
TypeOK ==
  /\ online \in BOOLEAN /\ interval \in Age /\ check \in Age /\ packet \in Age
  /\ latency \in 0 .. LatencyLimit - 1
  /\ pending \in BOOLEAN /\ detect \in BOOLEAN /\ mask \in SUBSET Handler
  /\ delays \in Seq(ToTeensy) /\ left \in 0 .. DetectDelay
  /\ toEsp \in Seq(ToEsp) /\ toTeensy \in Seq(ToTeensy)
  /\ up \in BOOLEAN /\ espMask \in SUBSET Handler
  /\ lost \in BOOLEAN /\ talk \in 0 .. MaxTalk /\ faults \in 0 .. MaxFaults

\* The ESP has the mask, or will when it has read what is on the wire.
Told ==
  \/ espMask = mask /\ \A i \in 1 .. Len(toEsp) : toEsp[i].kind # "masks"
  \/ \E i \in 1 .. Len(toEsp) :
       /\ toEsp[i] = Masks(mask)
       /\ \A j \in i + 1 .. Len(toEsp) : toEsp[j].kind # "masks"

RestartNoticed == \A i \in 1 .. Len(toTeensy) : toTeensy[i].kind # "boot"

\* While the ESP is online it has been told of every registered handler, whatever
\* restarted, on either side, and in whatever order handlers and the detect handler
\* were set: except while a restart notice or a mask was lost or is still to be read.
MasksTold ==
  online /\ detect /\ up /\ delays = << >> /\ RestartNoticed /\ ~lost => Told

\* The pings that s carries, or answers, were sent when the age a began, or before.
SentBefore(a, s) ==
  \A i \in 1 .. Len(s) : s[i].kind \in {"ping", "sync"} => a <= s[i].age

\* The time counts from the latest ping: no ping on its way, no answer on its way
\* and none that waits in a delay is younger.
TimedFromLatest ==
  /\ SentBefore(check, toEsp) /\ SentBefore(check, toTeensy) /\ SentBefore(check, delays)

\* A sync answer is handled: as it is read, or after the delay it caused.
SyncHandled(f) ==
  /\ f.kind = "sync"
  /\ \/ Events /\ toTeensy # << >> /\ f = Head(toTeensy) /\ delays' = delays
     \/ DelayOver /\ f = Head(delays)

\* What an answer makes of the latency counts at most the time from the ping it answers
\* until it is handled, however many pings and answers are on their way.  That time is
\* all that the average may take: the wait in the UART is in it and, for an answer that
\* brings the library online, delay(1000) and the detect handler; so the first latency
\* after a time offline is a second more than the way to the ESP and back takes.
LatencyFromItsPing ==
  [][\A f \in ToTeensy :
       SyncHandled(f) /\ f.age < MaxAge => 2 * latency' <= latency + f.age]_vars

\* An ESP that stays up is found, whatever was lost.
EspFound == up ~> (online \/ ~up)

\* An ESP that stays away is missed, be it since the Teensy started.
EspMissed == <>[](~up) => <>[](~online)

\* Once calls, registrations and events have ceased, the silence repairs what was lost: the
\* library goes offline, finds the ESP and tells it the mask.
SilenceRepairs == (up /\ detect) ~> (espMask = mask \/ ~up \/ ~detect)
=============================================================================
