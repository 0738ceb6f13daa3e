------------------------------ MODULE FrameParser ------------------------------
(***************************************************************************)
(* The bytes on the UART and the part of events() that reads them          *)
(* (teensquitto.cpp:4300-4336): '$' frames with a length and a checksum,   *)
(* '!' replies of four bytes, anything else flushed byte by byte.          *)
(*                                                                         *)
(* events() waits for the bytes it misses in loops that give up after      *)
(* 100 ms without one (the one for the length 100 ms after '$').  Time is  *)
(* counted in those 100 ms, and only while events() runs; the bytes of a   *)
(* frame follow one another at once unless the ESP stops.  The loops do    *)
(* not yield, so the parser is one process beside the wire; what it hands  *)
(* to processing_data() is written down, and whether that ever comes back  *)
(* from a frame of length 0.                                               *)
(***************************************************************************)
EXTENDS Integers, Sequences

CONSTANTS
  Base,          \* 256: bytes are 0 .. Base-1
  Dollar, Bang,  \* '$' and '!'
  Xor(_, _),     \* ^ on bytes
  Payload,       \* what the ESP sends in frames: sequences of bytes
  Reply,         \* what it sends behind '!': four bytes
  MaxFrames,     \* bound: frames and replies sent
  MaxFaults      \* bound: bytes garbled, lost, added, and stops half way

Byte == 0 .. Base - 1

ASSUME BytesAssumption ==
  /\ Base \in Nat \ {0, 1} /\ Dollar \in Byte /\ Bang \in Byte /\ Dollar # Bang
  /\ Payload \subseteq Seq(Byte) \ {<< >>}
  /\ \A p \in Payload : Len(p) + 1 < Base * Base
  /\ Reply \subseteq Seq(Byte) /\ \A r \in Reply : Len(r) = 4
  /\ MaxFrames \in Nat /\ MaxFaults \in Nat

ASSUME XorAssumption ==
  /\ \A a, b \in Byte : Xor(a, b) \in Byte /\ Xor(a, 0) = a
  /\ \A a, b, c \in Byte : (Xor(a, b) = Xor(a, c) \/ Xor(b, a) = Xor(c, a)) => b = c

VARIABLES
  line,          \* bytes the ESP has sent that have not arrived
  rx,            \* bytes that have arrived and not been read
  mode,          \* which loop of events() waits for bytes
  size,          \* uartBufferSize
  buf,           \* uartBuffer, or ack_nak_buf, as far as it is filled
  checksum,
  quiet,         \* 100 ms, up to two, since the ESP last sent a byte
  clean,         \* history: no damage since the ESP last started after a pause
  due, got,      \* history: since then, what was sent and what was made of it
  garbled,       \* history: the frame on the line has a wrong byte
  frames, faults \* bounds

parser == <<mode, size, buf, checksum>>
history == <<clean, due, got, garbled>>
bounds == <<frames, faults>>
vars == <<line, rx, parser, quiet, history, bounds>>

\* What events() sends back for a frame with a wrong checksum, in due and got.
Refusal == << >>

\* (uint16_t)(read() << 8) | read(); a read() without a byte is -1.
NoLength == Base * Base - 1

\* Mutant: the low byte of the length is left out.
LengthHigh(s) == IF Len(s) < 3 THEN NoLength ELSE s[2] * Base

\* Mutant: the -1 is kept as it is.
LengthSigned(s) == IF Len(s) < 3 THEN -1 ELSE s[2] * Base + s[3]

Length(s) == IF Len(s) < 3 THEN NoLength ELSE s[2] * Base + s[3]

-----------------------------------------------------------------------------
Init ==
  /\ line = << >> /\ rx = << >>
  /\ mode = "idle" /\ size = 0 /\ buf = << >> /\ checksum = 0
  /\ quiet = 0
  /\ clean = TRUE /\ due = << >> /\ got = << >> /\ garbled = FALSE
  /\ frames = 0 /\ faults = 0

-----------------------------------------------------------------------------
(* events() *)

\* A frame goes to processing_data(), or "!" 0x15 0 goes back.
Outcome(o) == got' = IF clean THEN Append(got, o) ELSE got

\* Another run of events() finds '$': it waits for the length.
BeginFrame ==
  /\ mode = "idle" /\ rx # << >> /\ Head(rx) = Dollar
  /\ mode' = "length"
  /\ UNCHANGED <<line, rx, size, buf, checksum, quiet, history, bounds>>

BeginReply ==
  /\ mode = "idle" /\ rx # << >> /\ Head(rx) = Bang
  /\ rx' = Tail(rx)
  /\ mode' = "reply" /\ buf' = << >>
  /\ UNCHANGED <<line, size, checksum, quiet, history, bounds>>

Flush ==
  /\ mode = "idle" /\ rx # << >> /\ Head(rx) \notin {Dollar, Bang}
  /\ rx' = Tail(rx)
  /\ UNCHANGED <<line, parser, quiet, history, bounds>>

\* '$' and the two bytes of the length are read, as far as they are there.
ReadLength ==
  /\ mode' = "payload" /\ size' = Length(rx) /\ buf' = << >> /\ checksum' = 0
  /\ rx' = SubSeq(rx, 4, Len(rx))

LengthArrived ==
  /\ mode = "length" /\ Len(rx) >= 4
  /\ ReadLength
  /\ UNCHANGED <<line, quiet, history, bounds>>

\* Mutant: the last byte, the checksum itself, is summed up with the others.
SumWithLast(b) == Xor(checksum, b)

\* if ( uartBufferPtr < uartBufferSize - 1 ) checksum ^= ...
Sum(b) == IF Len(buf) < size - 1 THEN Xor(checksum, b) ELSE checksum

\* Mutant: the checksum is not compared.
ClosingUnchecked(b) == Outcome(buf)

\* The last byte is there and is compared.
Closing(b) ==
  \/ b = Sum(b) /\ Outcome(buf)
  \/ b # Sum(b) /\ Outcome(Refusal)

ReadPayload ==
  /\ mode = "payload" /\ rx # << >> /\ size > 0
  /\ rx' = Tail(rx)
  /\ checksum' = Sum(Head(rx))
  /\ \/ /\ Len(buf) + 1 < size
        /\ buf' = Append(buf, Head(rx))
        /\ UNCHANGED <<mode, got>>
     \/ /\ Len(buf) + 1 >= size
        /\ Closing(Head(rx))
        /\ mode' = "idle" /\ buf' = << >>
  /\ UNCHANGED <<line, size, quiet, clean, due, garbled, bounds>>

\* A length of 0: a byte that is there is stored behind the empty array, the byte
\* before the array is compared, and whatever lies there is refused or goes to
\* processing_data(), whose loops to len - 1, for an answer or an unknown header, then
\* have no end.
ReadNothing ==
  /\ mode = "payload" /\ size = 0
  /\ rx' = SubSeq(rx, 2, Len(rx))
  /\ \/ Outcome(Refusal) /\ mode' = "idle"
     \/ \E o \in Payload : Outcome(o) /\ mode' \in {"idle", "spin"}
  /\ UNCHANGED <<line, size, buf, checksum, quiet, clean, due, garbled, bounds>>

\* Mutant: a reply is three bytes.
ReplyLengthShort == 3

ReplyLength == 4

ReadReply ==
  /\ mode = "reply" /\ rx # << >>
  /\ rx' = Tail(rx)
  /\ \/ /\ Len(buf) + 1 < ReplyLength
        /\ buf' = Append(buf, Head(rx))
        /\ UNCHANGED mode
     \/ /\ Len(buf) + 1 >= ReplyLength
        /\ mode' = "idle" /\ buf' = << >>
  /\ UNCHANGED <<line, size, checksum, quiet, history, bounds>>

Lacking ==
  \/ mode = "length" /\ Len(rx) < 4
  \/ mode \in {"payload", "reply"} /\ rx = << >>

\* Mutant: the loop for the payload goes on after 100 ms.
ExpirePatient ==
  \/ mode = "length" /\ ReadLength
  \/ mode = "payload" /\ UNCHANGED <<parser, rx>>
  \/ mode = "reply" /\ mode' = "idle" /\ buf' = << >> /\ UNCHANGED <<rx, size, checksum>>

\* 100 ms without a byte.  With '$' and too little behind it the length is read
\* all the same; the other loops give up and send a refusal.
Expire ==
  \/ mode = "length" /\ ReadLength
  \/ mode \in {"payload", "reply"} /\ mode' = "idle" /\ buf' = << >> /\ UNCHANGED <<rx, size, checksum>>

-----------------------------------------------------------------------------
(* The ESP and the wire *)

\* Damage beyond a garbled frame.
Damage == clean' = FALSE /\ due' = << >> /\ got' = << >> /\ garbled' = FALSE
Fault == faults < MaxFaults /\ faults' = faults + 1

Pass ==
  /\ \/ Lacking /\ Expire
     \/ mode = "idle" /\ rx = << >> /\ UNCHANGED <<parser, rx>>
     \/ mode = "spin" /\ UNCHANGED <<parser, rx>>
  /\ quiet' = IF quiet < 2 THEN quiet + 1 ELSE quiet

\* 100 ms pass between frames.
Pause == line = << >> /\ Pass /\ UNCHANGED <<line, history, bounds>>

\* The ESP stops for 100 ms in the middle of a frame.
Stop == line # << >> /\ Fault /\ Pass /\ Damage /\ UNCHANGED <<line, frames>>

HasParity(p, c) ==
  LET sum[i \in 0 .. Len(p)] == IF i = 0 THEN 0 ELSE Xor(sum[i - 1], p[i])
  IN  c = sum[Len(p)]

\* '$', the length (checksum included), the payload, the checksum.
Encoding(p, c) ==
  << Dollar, (Len(p) + 1) \div Base, (Len(p) + 1) % Base >> \o Append(p, c)

\* After a pause of 200 ms a broken channel starts anew.
SendFrame(p) ==
  /\ line = << >> /\ frames < MaxFrames
  /\ \E c \in Byte : HasParity(p, c) /\ line' = Encoding(p, c)
  /\ frames' = frames + 1
  /\ garbled' = FALSE
  /\ clean' = (clean \/ quiet = 2)
  /\ due' = IF clean THEN Append(due, p) ELSE IF quiet = 2 THEN << p >> ELSE due
  /\ UNCHANGED <<rx, parser, quiet, got, faults>>

SendReply(r) ==
  /\ line = << >> /\ frames < MaxFrames
  /\ line' = << Bang >> \o r
  /\ frames' = frames + 1
  /\ garbled' = TRUE
  /\ UNCHANGED <<rx, parser, quiet, clean, due, got, faults>>

Arrive ==
  /\ line # << >>
  /\ rx' = Append(rx, Head(line)) /\ line' = Tail(line)
  /\ quiet' = 0
  /\ UNCHANGED <<parser, history, bounds>>

\* A byte of the payload, or the checksum, changes on the way.
Garble ==
  /\ clean /\ ~garbled /\ Fault
  /\ line # << >> /\ Len(line) <= Len(due[Len(due)]) + 1
  /\ \E b \in Byte \ {Head(line)} : line' = << b >> \o Tail(line)
  /\ garbled' = TRUE
  /\ due' = [due EXCEPT ![Len(due)] = Refusal]
  /\ UNCHANGED <<rx, parser, quiet, clean, got, frames>>

\* A byte is lost (or finds the receive buffer full).
Lose ==
  /\ line # << >> /\ Fault
  /\ line' = Tail(line)
  /\ Damage
  /\ UNCHANGED <<rx, parser, quiet, frames>>

\* A byte nobody sent, or, in a frame, in the place of one.
Disturb ==
  /\ Fault
  /\ \E b \in Byte : rx' = Append(rx, b)
  /\ line' = SubSeq(line, 2, Len(line))
  /\ quiet' = 0
  /\ Damage
  /\ UNCHANGED <<parser, frames>>

-----------------------------------------------------------------------------
ParserStep ==
  \/ BeginFrame \/ BeginReply \/ Flush
  \/ LengthArrived \/ ReadPayload \/ ReadNothing \/ ReadReply

Next ==
  \/ ParserStep
  \/ Pause \/ Stop
  \/ \E p \in Payload : SendFrame(p)
  \/ \E r \in Reply : SendReply(r)
  \/ Arrive \/ Garble \/ Lose \/ Disturb

Spec == Init /\ [][Next]_vars

\* events() runs again and again, and bytes on the wire arrive.
FairSpec == Spec /\ WF_vars(ParserStep) /\ WF_vars(Arrive)

-----------------------------------------------------------------------------
TypeOK ==
  /\ line \in Seq(Byte) /\ rx \in Seq(Byte)
  /\ mode \in {"idle", "length", "payload", "reply", "spin"}
  /\ size \in 0 .. NoLength /\ buf \in Seq(Byte) /\ checksum \in Byte
  /\ quiet \in 0..2
  /\ clean \in BOOLEAN /\ garbled \in BOOLEAN
  /\ due \in Seq(Payload \cup {Refusal}) /\ got \in Seq(Seq(Byte))
  /\ frames \in 0 .. MaxFrames /\ faults \in 0 .. MaxFaults

\* However a frame was cut short or its length was garbled, a pause of 200 ms puts
\* the parser back in step, waiting for a first byte with nothing left to read, unless
\* the damage made a length of 0 and that never came back.
\* (100 ms do not: behind a lone '$' the length loop gives up after 100 ms, and then
\* the payload loop waits for 65535 bytes, for as long again.)
PauseResyncs == quiet = 2 => mode = "spin" \/ (mode = "idle" /\ rx = << >>)

\* Only damage can hang it: no frame or reply sent whole, no garbled payload, and
\* nothing in them that looks like '$', is ever read as a length of 0.
HangsOnlyDamaged == [][mode # "spin" /\ mode' = "spin" => ~clean]_vars

\* Between frames nothing is outstanding: every frame sent whole since the last new
\* start went to processing_data(), and every garbled one was refused.
NothingOutstanding ==
  clean /\ mode = "idle" /\ rx = << >> /\ line = << >> => got = due

\* Whole frames are handled in the order they were sent, garbled ones refused in
\* their place, whatever bytes of theirs look like '$' or '!', and with replies in
\* between; after worse damage this holds again from the first frame after a pause.
Channel == INSTANCE FrameChannel
ChannelSpec == Channel!Spec

\* What is sent is dealt with, unless the wire is damaged, or was and left the parser
\* hanging.
FramesDealtWith ==
  \A n \in 1 .. MaxFrames :
    (clean /\ Len(due) >= n) ~> (Len(got) >= n \/ ~clean \/ mode = "spin")
=============================================================================
