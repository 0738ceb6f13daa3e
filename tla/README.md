# Teensquitto: a verification project

Teensquitto lets a Teensy sketch use the WiFi, MQTT, UDP, websocket, SPIFFS,
EEPROM and system functions of an ESP8266 that is tied to one of its UARTs. The
Teensy's side (`src/teensquitto.cpp`, `src/AsyncUDP.cpp`,
`src/circular_buffer.h`) is C++ in the source; the ESP's side comes only as a zip
archive. The modules here model the Teensy's side and take the ESP as the
environment.

## 1. Inventory

| Part | State | Operations | Where |
| --- | --- | --- | --- |
| Event queue (`Circular_Buffer`, whole messages) | `head`, `tail`, `_available`, `_cabuf` | push and pop at both ends, `clear`, `remove`, `replace` | `circular_buffer.h` |
| Calls (about 190 methods of one template) | `_pendingData`, `data_ready_flag`, `storage_buffer`, the local `timeout` | send a frame, run `events()` until the answer is there or time is up, check, return | `teensquitto.cpp:117-136` and alike |
| Event loop | `_esp_detected`, the queue, the UART | `events()`: sync, read one frame or byte, else handle one queued event | `teensquitto.cpp:4280-4349` |
| Dispatch | handler pointers | `processing_data()`: detect handler, then a switch on the header: answer, event, status | `teensquitto.cpp:4351-4659` |
| Commands | none | which object sends which header and sub-command, with which limits | `teensquitto.cpp:117-4241`, `AsyncUDP.cpp:57-250` |
| Sync controller | `_esp_sync_timeout`, `_esp_sync_interval`, `_esp_check_latency`, `_esp_latency` | ping, offline after 5 s of silence, online on a packet, latency average | `teensquitto.cpp:4284-4295, 4355, 4428` |
| Frame parser | UART bytes, `ack_nak_buf` | `$` frames with length and checksum, `!` replies, flushed bytes, 100 ms limits | `teensquitto.cpp:4300-4336` |
| Handler registration | `_mqtt_handlers`, `_wifi_handlers`, `_espDetectHandler` | `on...()`, masks sent to the ESP, `onDetect()` | `teensquitto.cpp:951-1023` |
| Status flags | `_wifi_status`, `_mqtt_online_flag`, `_mqtt_client_sync`, ... | set by status frames | `teensquitto.cpp:4374-4437, 4644` |
| AsyncUDP | static fields of `AsyncUDPPacket`, `AsyncUDPMessage` | packet handler, message building | `AsyncUDP.cpp`, `ESPAsyncUDP.h` |
| `Circular_Buffer`, single values | the same indices, `_cbuf` | push, pop, block reads and writes, statistics, sorting | `circular_buffer.h` |
| lwIP headers | none | options and what follows from them, sequence numbers, windows, lists of connections, addresses | `lwip/opt.h`, `lwip/priv/tcp_priv.h`, `lwip/ip_addr.h` and others |

Everything runs in one thread, and the difficulty is that this thread re-enters
itself. A method sends its frame and turns over `events()` until its answer
comes; `events()` calls handlers of the sketch; a handler may call methods, and
so wait inside another wait, or run `events()` itself. It need not even ask for
it: the `delay(1000)` at line 4355 yields, `yield()` runs `serialEvent1()`, and
every example's `serialEvent1()` runs `events()`. The flags `_pendingData` and
`data_ready_flag` and the queue are static and shared by all these levels.
Answers carry no number: header and sub-command of the request are all they can
be told by.

What each part has to get right:

* The queue: a bounded double-ended queue; counter and indices agree; when it is
  full the message at the far end goes, and no other.
* Calls: each returns, on its own answer or without one; no answer serves two
  calls; while one waits no event handler starts and the library does not go
  offline; afterwards the library is as it was.
* Events: each is handled once, kept ones in their turn; only a full queue loses
  any, and then the oldest. One that waits behind the detect handler's delay may be overtaken;
  kept ones wait for the wire to fall silent.
* Detection: silence takes the library offline, a packet and only a packet brings
  it back.
* Commands: no two that wait share a code; an object asks for what its kind offers;
  an answer that comes in the time the method allows is used.
* Sync controller and masks: an ESP that is there is found and one that is gone is
  missed; after a restart of either side the ESP is told again which handlers are
  registered; what an answer adds to the latency is bounded by the time since the ping it answers.
* Frame parser: whole frames are handed on in their order, garbled ones refused in their
  place; after any damage a pause puts it back in step.
* AsyncUDP: the packet a handler reads is the one it was called for.
* Single values: the queue its user counts on, as long as the calls are ones it was
  written for.

The ESP, its wires and the sketch fail in several ways the code must live with: frames are
late, lost, cut short or garbled, either side restarts, and the sketch's handlers call back.

## 2. Plan

The modules were written in the order of what depends on what, the behaviour that matters
most first; all are done:

1. The queue (`CircularBuffer` against `BoundedDeque`), and the link that uses it (`Teensquitto`
   against `EventDelivery`): calls, `events()`, dispatch and the queue in one module,
   since the difficulty is how they re-enter one another.
2. The commands as a table, one call's codes (`CommandCodes`) and clock (`CallTiming`).
3. Below and beside the link: the bytes (`FrameParser` against `FrameChannel`), and the ESP
   coming and going (`Presence`). The link takes frames whole and time as possible at any
   turn; these two modules count bytes and ticks. They stay apart from the link because the
   product of the three is out of reach, and because each promises what the next assumes:
   `ChannelSpec` is the link's wire, `MasksTold` is why events arrive at all.
4. The other form of the buffer (`SingleBuffer` against `ValueDeque`).
5. What the lwIP headers compute, as definitions and theorems.
6. Proofs: of every module with a run every safety property that the passing runs check, and the
   refinements of the queue, of the events and of the channel.

## 3. Modules

| Module | What it is |
| --- | --- |
| `BoundedDeque` | abstract: what the queue promises |
| `CircularBuffer` | the queue as the code keeps it, and `DequeKept` and `DequeSpec`, its promise under the mapping from slots to contents |
| `ValueDeque` | abstract: what a user of the single-value form counts on |
| `SingleBuffer` | the single-value form, on a ring in any state, over the indices of `CircularBuffer` |
| `EventDelivery` | abstract: what the library promises about events |
| `Teensquitto` | the link: calls, `events()`, `processing_data()`, the queue as `INSTANCE CircularBuffer`, the ESP and the wire |
| `TeensquittoProps` | its invariants, action and liveness properties, and the mapping to `EventDelivery` |
| `FrameChannel` | abstract: what the two ends of the UART make of it |
| `FrameParser` | the bytes, the wire and the part of `events()` that reads them |
| `Presence` | pings, time-outs, restarts, masks and the latency |
| `Commands` | the table of the 243 frames the methods build |
| `DocumentedMethods` | the kinds of object that `teensquitto.h` gives with each method |
| `CommandCodes` | one call on one object and the answers it may meet |
| `CallTiming` | the clock of one call |
| `LwipOptions`, `LwipTcp`, `LwipAddresses` | what the lwIP headers compute; no state |
| `MCCircularBuffer`, `MCTeensquitto`, `MCCallTiming`, `MCFrameParser`, `MCPresence` | values of the constants for TLC |
| `CircularBuffer_proofs`, `SingleBuffer_proofs`, `Teensquitto_proofs`, `FrameParser_proofs`, `Presence_proofs`, `CallTiming_proofs` | theorems and proofs of the module they are named after |
| `TeensquittoEvents_proofs` | further proofs of the link: where events go |
| `Tables_proofs` | theorems and proofs of `CommandCodes`, `LwipOptions`, `LwipTcp` and `LwipAddresses` |

### CircularBuffer

`head`, `tail` and `available` are the fields of the class, `slot` is `_cabuf` with
the two length bytes and the payload of a slot as one value. The masks are written as
remainders; both agree because the size is a power of two. `Replace` takes the
test on the key bytes as a parameter. `Next` keeps to the caller's discipline: no
pop from an empty ring, `remove()` of a stored message. The code asks
neither, so `QueueSpec` checks that the library keeps to it.

`remove()` moves messages from slot to slot with a `memmove()` of `length + 3*sizeof(T)` bytes (line
116). That is right for elements of one byte and a message shorter than its slot (`MovesWhole`). A message
as long as the slot takes one byte more with it, which is the first of the next slot, that is, of
the length there; of wider elements the end stays behind. `Spoilt` is what a slot may
hold afterwards, and `Remove` leaves any of it in the slots such a move reaches. The run has messages of
both kinds. The library itself never calls `remove()`, so the queue of `Teensquitto` has `Spoilt` empty.

### Teensquitto

`stack` is the call stack, reduced to what matters: `wait` is a method at the head
of its loop, `check` the same method while its `events()` runs (the loop body is an
action apart from its test, since everything may happen in between), `detect` a detect
handler with the frame `processing_data()` still has to switch on, `handler` an event
handler, `pop` an `events()` that has handed out the front of the queue and has yet to
pop it. A queued event is handled where it lies, so a `detect` activation holds
the slot, and what it switches on is what the slot holds by then. `spin` is the print
loop of a frame of length 0.

| Action | Code |
| --- | --- |
| `Call` | a method up to the head of its loop |
| `WaitPoll`, `KeepWaiting`, `TakeAnswer`, `WaitExpire` | the loop and the two checks behind it |
| `LoopPoll`, `HandlerPoll` | `events()` from `loop()`, from a handler |
| `Events`, `ReadFrame`, `Dequeue` | the body of `events()` |
| `ProcessingData`, `Switch`, `DetectDone`, `HandlerDone`, `PopFront` | `processing_data()` up to, at and after a handler |
| `EspAnswer`, `EspLose`, `EspEvent`, `EspRestart`, `EspOther` | the ESP and the wire (external) |

Frames are whole: a frame with a wrong checksum or a `!` reply is `junk`, which
`events()` reads and returns from; a byte out of place is `noise`, after which it goes on to the
queue. A frame of length 0 does not come from this wire, only from a slot nobody wrote; what `events()` makes
of one from the UART is in `FrameParser`. Time is not counted: a loop may be over at any turn, and 5 s without a packet
may be over whenever `events()` asks. That allows all that the clock allows and
more, so safety carries over. `calls`, `delivered`, `dropped` and `overrun` are
histories for the properties.

`EventDelivery` has four places for an event: `waiting` in the queue, `handled`, `dropped`, and `held`,
which is behind a detect handler. While the `delay(1000)` in front of that handler runs `events()`, later
events pass the one that is held.

`Last(delivered)` is also the packet in the static fields of `AsyncUDPPacket`, written just
before the handler is called: `PacketIsOwn` reads it so. The uninitialised `_udp` of a packet is
not modelled, as `AsyncUDPPacket` has no method that uses a member of it.

### SingleBuffer

Every method is an operator from a ring in any state to the ring it leaves, and an action that
applies it. No method checks what it finds; `strayed` says that a call was made that sets the counter and
the indices apart: a read of an empty ring, a `push_front()` on a full one, a `readBytes()` for more than there
is that ends before the end of `_cbuf`, and two kinds of bulk write. One that is copied and does not fit is not
counted right. One that runs over the end of `_cbuf` is an ordinary call, for which the code has a branch of its
own (`circular_buffer.h:253-258`); its values are counted twice all the same, which does no harm only
when they fill the ring. The conditions are written beside each action
(`MayWrite` for writes), and only `ClearSingle` ends the state. `_cbuf` holds numbers, so that sorting means
something: `std::sort()` is some order of the values in which they rise. What `readBytes()` and `peekBytes()`
copy out is left out (section 7).

### FrameParser

`rx` are the bytes that have arrived, `line` those on their way. `mode` says in which loop of
`events()` the processor is: none, or the one for the length, for the payload or for
a reply behind `!`. These loops do not yield, so the parser is one process beside the wire.
Time is counted in the 100 ms of the loops. The length is `read() << 8 | read()`, whose
order C++ leaves open; the compiler for the Teensy reads left to right and so does `Length`.
A `read()` without a byte is -1, which makes `NoLength`, 65535. The loop for the
length measures from `$` and not from the last byte. `clean`, `due` and `got` are histories: what
was sent and what was made of it since the sender last started anew.

| Action | Code |
| --- | --- |
| `BeginFrame`, `BeginReply`, `Flush` | the three branches of `events()` on the first byte |
| `LengthArrived`, `ReadPayload`, `ReadReply` | the loops |
| `ReadNothing` | a length of 0: the byte before the array is compared, whatever it is; if it agrees, `processing_data()` may go through the print loops, whose end `len - 1` is then never reached (`spin`) |
| `Pause` and `Stop`, by `Expire` | 100 ms without a byte, and each loop's way out |
| `SendFrame`, `SendReply`, `Arrive`, `Garble`, `Lose`, `Disturb` | the ESP and the wire (external) |

### Presence

Times are ages in ticks, of `_esp_sync_interval`, `_esp_check_latency` and `_esp_sync_timeout`;
pings and their answers carry the age of the ping, which only the property reads. A Teensy that starts takes
the ESP for present (`_esp_detected = 1`, line 45): for the first 5 s it sends no pings, the first frame does not run the
detect handler, unless it is a restart notice, and `onDetect()` runs the handler at once. The latency
is a number below `LatencyLimit`, 65536 in the code, and is averaged in those 16 bits; the time of an answer is taken where
the switch takes it, behind the delay and the detect handler. `Events`
is one run of `events()`; a frame that brings the library online, or a restart notice, puts a
delay on `delays`, during which `yield()` may run `events()` again and stack another on top.
`DelayOver` runs the detect handler and then the switch. The MQTT and the WiFi mask work alike
and one of them is modelled; events kept in the queue and handled later are left to `Teensquitto`. The
ESP is what the Teensy's code expects of it, and answers a ping with 0x7F7F (line 4427). The archived
firmware has no case for a ping and acknowledges it with a `!` reply, which `events()`
reads and drops; what `EspFound` says of pings does not carry over to it, and it is found
by its restart notice and its events.

| Action | Code |
| --- | --- |
| `Events` | `MayPing`, `StaysOnline`, and `ReadFrame` with `BringsOnline` and `Handle` |
| `DelayOver` | behind `delay(1000)`: the detect handler, the switch |
| `SketchRegisters`, `SketchDetects`, `Call`, `GiveUp` | `on...()`, `onDetect()`, a method and its end |
| `Init`, `TeensyRestart` | the static initialisation (lines 36-53) |
| `Tick`, `EspReceive`, `EspEvent`, `EspCrash`, `EspBoot`, `Lose` | time, the ESP and the wires (external) |

### LwipOptions, LwipTcp, LwipAddresses

The headers are third-party, come with the repository, and are included by nothing
outside `src/lwip`; the stack and `lwipopts.h` are not here. They hold no state, so
the modules are definitions only, checked by theorems and no runs. `Chosen` stands for
`lwipopts.h`: an option is what it chooses or else the standard value, which may depend on other
options. Pools, statistics and debug switches are sets and records of these. Addresses are
numbers in host order (the headers turn the constants by `PP_HTONL`, which `TwiceTurned`
justifies), masks of leading bits are divisions, a list of pcbs is a sequence.

### Commands, CommandCodes, DocumentedMethods

A record of `Commands` is one frame that a method builds: object kind (by the flag the
method tests), header, sub-command, limits of the loop and of the check.
`CommandCodes` calls every method on every object a constructor can make and gives it
every answer of the library. `DocumentedMethods` is the comments behind the declarations of
`teensquitto.h` as pairs of method and kind, and is what `DocumentedObjectAsks` compares with.

### CallTiming

One call, in ticks of 500 ms, the unit of every limit. `clock` is `millis()` and wraps;
`spent` is the time that has really passed. A turn of the loop takes up to three
ticks and may read the answer or a sync response, which may set `_esp_latency` to anything.

## 4. Runs

| Run | Question | Bounds | Result |
| --- | --- | --- | --- |
| `circular_buffer` | is the ring a bounded deque, in both forms, and until which calls? | 4 slots, every sequence of operations, `remove()` with short and full-length messages; single values: 2 values and the newline, written 0, 1, 2, 3 and 5 at a time; 22,897 states | holds |
| `link_events` | do events reach their handlers as promised, over restart, time offline, a full queue and `events()` in handlers and delays? | 2 slots, 3 events, 1 call, restart, noise, offline, 3 activations; 255,667 states | holds |
| `link_calls` | which answers may a call end on? | 3 calls of 3 codes, restart, loss, status, junk | holds |
| `link_nested` | do calls return and does the queue empty when handlers make calls and the ESP may keep sending, is it popped only when it holds something, and whose packet does a handler read? | 2 calls, 2 events, restart, any number of status frames, 6 activations; 193,086 states | holds |
| `link_reentrant` | what is left when handlers also run `events()`? | 2 calls, 3 events, restart, offline, a handler starts something up to 3 activations | holds, with the exceptions below |
| `command_codes` | can a call take another command's answer for its own, and is every method but the six below sent on the objects it is documented for? | every command, object and answer; 69,535 states | holds |
| `call_timing` | is an answer in time used, is the wait bounded? | all limits but one, 4 latencies up to 65535 ms, with and without a wrap | holds |
| `wire` | what does the byte parser hand on, and when is it in step? | bytes of two bits with `$` and `!` among them, 3 payloads, 1 reply, 3 frames, 1 fault; 298,680 states | holds |
| `presence` | is the ESP found, missed and told again? | 2 handlers, one set by the detect handler; every time 0 or 1 tick, ages to 2, 2 frames each way, 2 calls, registrations or events, 2 restarts or losses; 504,759 states | holds |
| `call_timing_uneven` | the same for `waitForConnectResult()` | the same | **violated** |
| `command_kinds` | does an object ask for what its kind is documented to offer? | every command and object | **violated** |
| `online_by_queue` | does only a packet bring the library online? | 1 event, 1 call | **violated** |

Two slots are enough for a full queue, for an event being handled at the front with
one behind it, and for both indices to go round; three calls are enough for one
late answer to shift the next two; three codes are answers that agree in both,
one or neither of header and sub-command. `link_reentrant` uses two codes.
`MaxSent` bounds how often each thing happens outside the client, `MaxRx` the frames on
the wire, `MaxDepth` the activations under way when a further one starts. A bound on
`MaxRx` only delays the ESP. `Horizon` bounds `CallTiming`, and `WaitBounded` shows
that it is never reached.

A ring of 4 with bulk writes of up to 5 values covers every way such a write can meet the end
of `_cbuf`, a full ring and itself. In `wire` the bytes of two bits make every byte of a length,
payload or checksum look like the start of something else, and three frames are one before,
one in and one behind the damage. In `presence` only the order of the times
matters: the ping interval is the shortest, and the delay, at 1 s the middle one, is given
the same single tick as the time-out, because all that happens in between may happen in one tick; two faults
are a restart of each side, or one of the same side again while the first is being dealt
with. One lost frame and one further fault are covered too.

What the properties say (their definitions carry the details):

* `CounterAgrees`, `StoredIsWritten`, `DequeKept`, `RemovesItsOwn`: of the ring, all proved. Every step is
  one of the deque's but a `remove()` with a message in front that is not moved whole. That one
  can damage the message right behind the removed one and those it moves, never the
  counter and the indices, and if no earlier one did damage, nothing further behind.
* `StrangersHaveCause`: a call ends on a foreign answer only after some call gave up
  or was made inside another, with no quiet moment since. `AnswerUsedOnce`: no
  answer serves two calls.
* `PendingOnlyInCall`: `_pendingData` is never left set, whatever is nested.
* `NoHandlerInCall`, `NotOfflineInCall`: hold whatever handlers do, until a detect
  handler makes a call inside a wait. That call's end clears `_pendingData` under the outer
  one, and from then on the outer wait can be turned into anything.
* `EventsAccountedUntilOverrun`, `DeliveryKept`, `EventsSafeUntilOverflow`: no event is lost
  or handled twice but by overwriting, and only one held behind the detect handler is overtaken; the last one
  also with calls made in handlers. The ring then holds one event less than its size, as the front is still in it.
  All three speak of what happens until `overrun`, when `events()` runs on top of a queued event
  that is still being handled. That takes no odd sketch: a kept event that is dequeued offline (or as the time-out
  strikes) goes through `delay(1000)`, whose `yield()` runs the examples' `serialEvent1()`, whose `events()`
  finds the same event in front and handles it a second time.
* `QueueSpec`, `QueueKept`: nothing is popped from an empty queue, until the same moment; they say nothing of
  what follows it: the front is handled again and popped twice,
  `head` passes `tail`, and later a slot nobody wrote is switched on, whose length 0
  makes the print loop endless. `link_reentrant` contains these states and so has
  no deadlock check; neither have `command_codes`, `command_kinds` and the timing
  runs, where one call ends, and `wire` and `presence`, where the bounds on frames, talk and faults
  are used up.
* `CallsReturn`, `QueueDrains`, `PacketsBringOnline`: liveness, below. The queue empties once the wire has fallen
  silent. While frames keep coming it need not: `events()` returns from a frame (4315-4316) before it looks at the
  queue (4337).
* `PacketIsOwn`: the static packet fields hold the packet of the handler that runs, also
  after calls it made, with the exception of the two before. (With handlers that
  run `events()` themselves they do not, nor with an object kept beyond the handler.)
* `OthersAsk`: a method that its object refuses, though documented for it, is one of the six that test the
  wrong flag (below); every other one is sent.
* `ApartOnceStrayed`: counter and indices of the single-value form part on exactly the calls
  the module lists, and on each of them; they stay apart until `clear()`. `KeepsValues`:
  until then it is a queue of values.
* `PauseResyncs`: 200 ms of silence put the parser in step whatever happened (100 ms do
  not: behind a lone `$` a length of 65535 is waited for next), unless a length of 0 has made
  `processing_data()` loop for ever. `HangsOnlyDamaged`: only damage makes such a length; whole frames and
  replies and garbled payloads do not. `ChannelSpec`, `NothingOutstanding`,
  `FramesDealtWith`: whole frames are handed on in order, garbled ones refused in their place, none is
  left over.
* `MasksTold`: online, the ESP has been told of every registered handler, unless a mask or
  a restart notice was lost or is on its way. `SilenceRepairs`: once the sketch and the ESP
  have nothing to say, the library goes offline and what was lost is made good. As long as calls and
  events keep it online, a lost notice or mask is not.
* `EspFound`, `EspMissed`: an ESP that stays is found, one that stays away is missed.
  Pings go out only offline, so an ESP that is there and has nothing to say is missed every 5 s
  too, found at once by the next ping, and the detect handler runs again behind its 1 s delay.
* `LatencyFromItsPing`: a sync answer enters the average with at most the time from the ping it answers to the
  end of its handling, whatever pings were sent since. That time is more than the way to the ESP and
  back: of the answer that brings the library online it includes `delay(1000)` and the detect handler, so after a
  time offline the latency is at least half a second too long; the waits of `CallTiming` grow with it.
* `OnlyOwnAnswer`, `AnswerInTimeUsed`, `WaitBounded`, `CallEnds`: of one call.

### Disagreements found

All but the last are runs that expect the violation; the last is a theorem.

* `waitForConnectResult()` waits 3500 ms beyond the latency and then treats all
  after 1000 ms as a time-out (`teensquitto.cpp:1485-1486`).
* `getCoreVersion()`, `getSketchMD5()`, `getResetReason()` and `getResetInfo()`,
  documented for ESP objects, test the SPIFFS flag; the constructor with a UART sets
  `_wifimulti` for WiFiMulti objects, whose methods `addAP()` and `run()` test `_WiFiMulti`.
* A queued event restarts the time-out and brings the library online although no packet
  came ("VALID PACKET, RESET TIMEOUT, ONLINE!", `teensquitto.cpp:4353`).
* `lwip/opt.h:1225` demands that the low water mark of the send queue be below its length; the
  standard values keep to it only where the send buffer is larger than five quarters of a
  segment (theorem `QueueLowWater`; the standard buffer is two segments).

## 5. Fairness

There is one processor and it keeps running: `loop()` comes round (`LoopPoll`), the
activation on top goes on (`WaitPoll`, `KeepWaiting`, `TakeAnswer`, `PopFront`), handlers return
(`DetectDone`, `HandlerDone`). `WaitExpire` has strong fairness because the code's
clock runs: a loop that is turned over again and again meets the end of its time at one of
the turns; `CallTiming` shows that with the clock counted. A handler that makes calls
is not done while they wait, so its return is enabled again and again and not
all the time: strong fairness there too, which is to say that a handler does not call
for ever. No fairness is assumed of the ESP or the wire: frames may be lost, late or never sent.
`CallsReturn` holds also when they come without end (`BusySpec` lets the ESP send status frames
whenever there is room); `QueueDrains` has the silence of the wire for its premise and fails without it. In
`PacketsBringOnline` the other frames on the wire are bounded, and they are read before the library
looks at anything else. In `CallTiming` the call is running code and goes on.

`FrameParser` assumes that `events()` runs again and again and its loops go round
(`ParserStep`), and that bytes on the wire arrive (`Arrive`): a UART does not hold bytes back.
`Presence` assumes that the sketch keeps running `events()` (every example does, from `loop()` or
`serialEvent1()`), that delays and calls end (`DelayOver`; `GiveUp`, which `CallTiming` shows), that time
passes (`Tick`) and that an ESP that is up reads its UART (`EspReceive`). Nothing makes it boot, stay
up or send events, and nothing limits loss but the bound on faults, after which what is sent arrives:
liveness says what happens once the faults are over.

`CallsReturn` and `QueueDrains` are checked with handlers that make calls but do not run `events()`: with
those the endless print loop above is reachable, behind which neither holds. `PacketsBringOnline` is
checked with them.

## 6. Proofs

`CircularBuffer_proofs` proves for every size, every kind of message and every
key test:

* `TypeCorrect`, `CounterNeverDrifts`, `OnlyWrittenSlots`: the three invariants, whatever `remove()` spoils.
* `RemoveTakesTheRightOne`: `remove(pos)` gives up the message in slot `pos`, which the
  deque alone does not say, with the limits of `RemovesItsOwn`.
* `RingKeepsDeque`: `DequeKept`. Every step is a step of the deque or a stutter (`replace()` without a match, or
  `clear()` of an empty ring), or a `remove()` of messages that are not moved whole.
* `RingImplementsDeque`: `Spec => DequeSpec` where all messages are moved whole. It is this one the link cites.

The inductive invariant `IInv` is the conjunction of the three. Types alone are not
preserved in a useful way: that a push into a ring with `_available` = size finds
`Full` true, and one with less finds it false, needs `CounterAgrees`; that `remove()`
moves written slots only needs both. The only assumption is `SizeAssumption` (a
positive size whose doubled indices fit 16 bits). That the size is a power of two makes the
masks remainders; it is assumed by name, and the proofs of this form do not cite it.
The refinement has one lemma for each operation, which says how `Contents` changes,
over lemmas about the index arithmetic.

`SingleBuffer_proofs` proves of `SingleSpec`, for every size, all numbers and all bulk writes:

* `SingleInvariant`: until a call strays, the counter is what lies between head and tail.
* `SingleKeepsValues`: `KeepsValues`, the refinement of `ValueDeque` until then.
* `StrayedIsApart`: `ApartOnceStrayed`, for more than one slot and bulk writes shorter than two rounds of
  the ring. Both are needed: with one slot, and with two rounds pushed in front, the indices come
  round to where the counter has them. The run has 4 slots and writes up to 5 values at a time.

What lies between the indices and what the counter says are kept apart, because the bulk writes count first
and some count twice. `Shows` says of the first what is there whatever the counter is; a ring stores
what it shows when the counter agrees. Each method has a lemma on what the ring shows after it, one on when
the counter still agrees (`...Keeps`), one on when it does not (`...Parts`), and one on the action. The
bulk writes are functions of partial results, which exist by the well-foundedness of
`<`. That values can be sorted at all, which the choice in `Ascending` needs, is shown by putting one value
after the other in its place (`CanBeSorted`). The assumptions are `SizeAssumption`, `ValuesAssumption` and, in
one place (`WholeTurns`), `PowerOfTwoAssumption`: the 16-bit counter wraps after a whole number of rounds.

`Teensquitto_proofs` proves of `Spec`, for every queue, every set of calls, every
behaviour of the handlers and every bound:

* `LinkTypes`: `TypeOK`, on which the rest stands.
* `PendingEndsWithTheCalls`: `PendingOnlyInCall`.
* `HandlersStayOutOfCalls`, `OnlineThroughCalls`: `NoHandlerInCall` and `NotOfflineInCall`.
* `OnlineByPacketOrQueue`: how far the disagreement of `online_by_queue` goes. Besides a packet only a
  kept event, taken from the queue outside a call, brings the library online.
* `PacketsStayTheirOwn`: `PacketIsOwn`.
* `RingIsUsedAsItExpects`: `QueueKept`.
* `QueueIsARing`: `Spec => QueueSpec` where no handler runs `events()`.
* `QueueIsADeque`: there, and for a size that is a power of two, `Spec => Buffer!DequeSpec`. `Buffer` is
  `CircularBuffer_proofs` with the link's variables and frames for its own, so the refinement
  proved of the ring alone is cited, not repeated: what the link asks of the ring
  is what the ring was proved to give.

The runs reach a stack of a few activations; here the depth is arbitrary, and that is where these could
fail: a nested call clears `_pendingData` under the outer one. Both action properties
come down to "`_pendingData` is set whenever `events()` runs under a call", which is not
inductive. The invariant `IInv` adds what it needs of the stack:

* `WaitOnTop`: only the top activation is at the head of its loop, so every call below
  it is inside its `events()`.
* `CallsKnown`, `InnerMarked`: of two calls on the stack the upper one is on record as inner,
  so a return that leaves another call waiting happens only after `WaitBroken`.
* `PendingInWait`: before `WaitBroken`, a call inside its `events()` has `_pendingData` set.

Two more invariants stand beside it:

* `HandlerAlone`, for `PacketIsOwn`: right above a handler there is only a call of its own, and before
  `WaitBroken` every handler on the stack is that of the last packet delivered.
* `PopHeld`, for the queue: until `overrun`, one activation at most is a `pop`, and while there is one the
  ring is not empty. The calls a handler makes only push, which never empties it.

Every path through `events()` ends in a stack that extends the one it was called with by
activations that do not wait (`Dispatched`, `Grows`); `BaseKeepsIInv` says once what
follows for `IInv`, and the lemmas of the actions cite it. The assumptions are
`BoundsAssumption` and `QueueAssumption` (the one the ring makes of its size).

It also proves, about the answers:

* `ShiftedAnswersHaveCause`: `StrangersHaveCause`.
* `AnswersAreUsedOnce`: `AnswerUsedOnce`, whatever handlers do, until `WaitBroken`. The exception is
  real: after a call that a detect handler made inside a wait, `data_ready_flag` is still set and the
  answer still in `storage_buffer` when the outer call looks.
* `WithoutCallsUsedOnce`: the same without exception, where handlers make no calls.
* `OwnAnswersWithoutCause`, stated by no run: as long as no call has given up and none was made
  inside another, every call that ends on an answer ends on its own.

Answers carry no number, so the invariant `AnswerInv` follows each one from the request to the call
that returns with it. `ComingDistinct`, `Known` and `ReadOnce`: it is at the ESP, on the wire, held by a detect
handler or in `storage_buffer`, and in one of them. `UnderWay`, `NoPauseSince`, `LaterInner`, `EarlierOver`: what
can still come belongs to a call that waits, gave up or was made inside a call. `Excused`: if what is
in `storage_buffer` is not the waiting call's own, there is the cause `StrangersHaveCause` asks for. That
property alone is far from inductive: it speaks of calls that have returned, and what
makes it true is all that may still be on its way.

`TeensquittoEvents_proofs` proves of the same `Spec`:

* `EventsAreSafeUntilOverflow`: `EventsSafeUntilOverflow`, whatever handlers do.
* `EventsAreAccountedFor`: `EventsAccountedUntilOverrun`, where handlers make no calls; they may run `events()`,
  as the delay does in every example.
* `EventsAreDelivered`: `DeliveryKept`, under the same condition: every step is a step or a stutter of
  `EventDelivery`, also when a full queue gives up its front.
* `EventsAreDeliveredInOrder`: `DeliveryUntilOverflow`, whatever handlers do: the same until the first event is
  overwritten.

The condition on calls is needed: a call in the handler of a queued event lets new ones into the queue, which
may overwrite the front while it is handled, and no list tells where that event is then.

The invariant is `EventInv`: `AnswerInv`, `PopHeld`, and, while `Sound`, `EventsIn`. That says that the
ring is intact, that the stack is one that `events()` can build over a `pop` (`Formed`), and that the lists an event can be in, the
wire, the queue, the activations and the two histories, have no event in common and none twice (`Parted`). `Sound`
ends with the first overrun and, where handlers make calls, with the first overwriting. The order rests on `Ordered`,
an invariant without exception: the wire holds the last events sent, with rising numbers, so
what comes from it is newer than all that was received. Each step has one lemma that keeps `EventsIn` and shows
the step of `EventDelivery` (`Delivers`), as both follow from the same account of what was moved where.

`FrameParser_proofs` proves for every size of byte, every checksum operation with the two laws of
`XorAssumption` and every set of payloads:

* `ParserTypes`: `TypeOK`; the length read is at most 65535 and the checksum a byte, whatever
  arrives.
* `PausePutsInStep`: `PauseResyncs`. It is not inductive: it needs to know where the
  parser can be after the first 100 ms (`InStepSoon`: nothing unread, and only the payload loop
  still waiting, or hung).
* `ParserMakesChannel`: `Spec => ChannelSpec`, the refinement of `FrameChannel`.
* `NothingIsLeftOver`: `NothingOutstanding`.
* `OnlyDamageHangs`: `HangsOnlyDamaged`.

The last three rest on `ChannelInv`: until something out of place arrives, `Whole`, the bytes
the loops have consumed of the unit under way, those unread and those still on the wire, are a string of whole frames and
replies, intact or with one byte of the payload or the checksum changed, and what the parser would make of it is what the channel still owes beyond
what it has handed on (`OnItsWay`). Such strings are the least set closed under adding
a unit (`Streams`); a string of them is taken apart at the front, which works because no unit
is the beginning of another: the first byte tells the kind, the header the length. That a changed frame
is refused needs that the checksum breaks when one byte does, for payloads of every length.
That there is such a checksum, `HasParity` says by a function of partial results, which exists by the well-foundedness of `<`.

`CallTiming_proofs` proves for every tick, every wrap of the clock, every set of latencies and all
243 commands:

* `NoWaitIsLonger`: `WaitBounded`.
* `AnswersInTimeAreUsed`: `AnswerInTimeUsed`, for the methods with the same limit in loop and check, that is
  all but `waitForConnectResult()`.

The invariant adds that the difference of the clock and the local variable is the time
really spent, over any wrap (`ClockAgrees`), and that an answer ends the loop in the same turn (`AnswerEndsLoop`).
`TimeAssumption` asks that the wrap be larger than the longest wait, which `millis()` meets by far.

`Presence_proofs` proves for every set of handlers, every order of registration by the detect handler,
all times and bounds that `TimesAssumption` allows, and any number of restarts on both sides, from a start
that takes the ESP for present:

* `PresenceTypes`: `TypeOK`.
* `EspKnowsTheMask`: `MasksTold`. It is inductive as it stands, given the types: a restart of
  the ESP puts a notice on the wire, which falsifies the premise until the detect
  handler has run, and what that sends comes last. Registration while offline counts, since
  coming online runs the detect handler.
* `LatencyNotOverstated`: `LatencyFromItsPing`. It needs `TimedFromLatest`: no ping on its way, no answer on its
  way and none that waits in a delay is younger than the latest ping, from which the code takes the time.

`Tables_proofs` proves of `CommandCodes`, for the commands, objects and answers the module lists:

* `CodesTellCommands`: no two commands that wait share header and sub-command.
* `AnswersAreOwn`: `OnlyOwnAnswer`. Its run goes through the same cases; the proof says why they come
  out as they do, and that it is the codes alone: not the kinds of object, nor which command is under way.
* `MisflaggedNeverAsk`: the disagreement of `command_kinds` in full. The run stops at one call; the theorem is
  that none of the six methods is ever sent on the objects it is documented for, made with a UART.

The table is too large to compare every pair of commands. `Home` gives each header and
sub-command the group of methods it belongs to, `Own` says that a group keeps to its own codes
and has none twice, and each group is checked by itself.

Of the lwIP headers it proves what the standard values of the
options promise one another for any choice of the others, that sequence numbers compare
rightly up to half their range and no further, that a pcb registered and removed leaves its list as it
was, and that the tests on addresses of both versions partition, agree and survive copying. These rest
on no assumption but what their statements name.

What stays with TLC:

* Liveness, out of the prover's reach: `CallsReturn`, `QueueDrains`, `PacketsBringOnline`, `FramesDealtWith`, `EspFound`, `EspMissed`, `SilenceRepairs`, `CallEnds`.
* `OthersAsk`, that every other documented method is sent on its object: witnesses in a table of this size are
  beyond the provers.

## 7. Not modelled

* Arguments and values of commands and answers: only codes, limits and guards are. Messages
  longer than a slot or than `storage_buffer` are left out. Commands that only send (`Tells`) change nothing on
  the Teensy.
* Status flags: status frames are read and dispatched; the flags they set are, but
  for two that a method returns, written and never read.
* `AsyncUDPMessage`, a byte buffer cut off at its size, and a UDP packet object kept beyond its handler,
  whose fields are static and change with the next packet.
* What `readBytes()` and `peekBytes()` copy out of the single-value form. Where they do not run over the end of
  `_cbuf` they copy from its start and not from the front (`circular_buffer.h:472`), so the values they hand over are
  those at the front only when these lie there; how they move the head is modelled.
* Of the single-value form `find()`, which is empty, `list()`, which prints, and `sum()`,
  `average()`, `variance()`, `deviation()`, `min()` and `max()`, which only read. `replace()` and
  `pop_back(buffer)` do not test the form and belong to the other one.
* Some state is split between modules and not composed: the bytes (`FrameParser`), the
  clock (`CallTiming`, `Presence`) and the calls (`Teensquitto`). Their product is out of reach.
  `CallTiming` takes the detect handler to be done within 500 ms of its `delay(1000)`.
* The ESP's firmware (a zip archive), but for what it does on the wire.
* The rest of the lwIP headers: declarations and structures without computations, protocol headers, netif,
  sockets and applications. Their implementation is not in the repository.
* The examples and Processing sketches.

## 8. Running

    tlc -config LinkEvents.cfg MCTeensquitto
    tlc -config Presence.cfg MCPresence
    tlapm CircularBuffer_proofs.tla
    tlapm Teensquitto_proofs.tla
    tlapm TeensquittoEvents_proofs.tla
    tlapm Tables_proofs.tla

`PROJECT.json` lists the runs, which lines each definition stands for, the hazards
of the code, and for every property a mutant of the model that breaks it. Mutants are marked
as such and used nowhere else.
