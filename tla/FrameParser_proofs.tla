-------------------------- MODULE FrameParser_proofs --------------------------
(* Proofs about the frame parser, for every alphabet, checksum operation and set *)
(* of payloads: the types of the state, the return to step after a pause, and     *)
(* that parser and wire together implement the channel.                           *)
EXTENDS FrameParser, SequenceTheorems, WellFoundedInduction, TLAPS

\* After 100 ms only the payload loop still waits, for a length cut short, unless the
\* parser hangs.
InStepSoon ==
  mode # "spin" => /\ quiet > 0 => rx = << >> /\ mode \in {"idle", "payload"}
                   /\ quiet = 2 => mode = "idle"

IInv == TypeOK /\ InStepSoon

-----------------------------------------------------------------------------
LEMMA RestTypes ==
  ASSUME NEW S, NEW s \in Seq(S), NEW n \in Nat \ {0}
  PROVE  /\ SubSeq(s, n, Len(s)) \in Seq(S)
         /\ Len(s) < n => SubSeq(s, n, Len(s)) = << >>
<1>1. \A i \in n .. Len(s) : s[i] \in S
  BY ElementOfSeq
<1>2. SubSeq(s, n, Len(s)) \in Seq(S)
  BY <1>1, SubSeqProperties, LenProperties
<1>3. Len(s) < n => SubSeq(s, n, Len(s)) = << >>
  BY SubSeqEmpty, LenProperties
<1> QED BY <1>2, <1>3

LEMMA HeadIsByte ==
  ASSUME NEW s \in Seq(Byte), s # << >>
  PROVE  Head(s) \in Byte /\ Tail(s) \in Seq(Byte)
BY HeadTailProperties

LEMMA LengthTypes ==
  ASSUME NEW s \in Seq(Byte)
  PROVE  Length(s) \in 0 .. NoLength
<1>1. NoLength \in Nat /\ Base \in Nat \ {0, 1}
  <2>1. Base \in Nat \ {0, 1}
    BY BytesAssumption
  <2>2. \A b \in Nat \ {0, 1} : b * b - 1 \in Nat
    OBVIOUS
  <2> QED BY <2>1, <2>2 DEF NoLength
<1>2. CASE Len(s) < 3
  BY <1>1, <1>2 DEF Length
<1>3. CASE ~(Len(s) < 3)
  <2>1. s[2] \in Byte /\ s[3] \in Byte
    BY <1>3, ElementOfSeq, LenProperties
  <2>2. \A b \in Nat \ {0, 1} : \A x, y \in 0 .. b - 1 : x * b + y \in 0 .. b * b - 1
    <3> TAKE b \in Nat \ {0, 1}
    <3> TAKE x, y \in 0 .. b - 1
    <3>1. x * b \in Nat /\ x * b <= (b - 1) * b
      OBVIOUS
    <3>2. (b - 1) * b = b * b - b
      OBVIOUS
    <3> QED BY <3>1, <3>2
  <2>3. s[2] * Base + s[3] \in 0 .. NoLength
    BY <1>1, <2>1, <2>2 DEF Byte, NoLength
  <2> QED BY <1>3, <2>3 DEF Length
<1> QED BY <1>2, <1>3

LEMMA SumTypes ==
  ASSUME TypeOK, NEW b \in Byte
  PROVE  Sum(b) \in Byte
BY XorAssumption DEF TypeOK, Sum

LEMMA OutcomeTypes ==
  ASSUME TypeOK, NEW o \in Seq(Byte), Outcome(o)
  PROVE  got' \in Seq(Seq(Byte))
BY AppendProperties DEF TypeOK, Outcome

LEMMA DamageTypes ==
  ASSUME Damage
  PROVE  /\ clean' \in BOOLEAN /\ garbled' \in BOOLEAN
         /\ due' \in Seq(Payload \cup {Refusal}) /\ got' \in Seq(Seq(Byte))
BY EmptySeq DEF Damage

LEMMA FaultTypes ==
  ASSUME TypeOK, Fault
  PROVE  faults' \in 0 .. MaxFaults
BY BytesAssumption DEF TypeOK, Fault

-----------------------------------------------------------------------------
(* Each step keeps IInv. *)

LEMMA InitIInv == Init => IInv
<1> SUFFICES ASSUME Init PROVE IInv
  OBVIOUS
<1>1. 0 \in Byte /\ 0 \in 0 .. NoLength
  <2>1. \A b \in Nat \ {0, 1} : b * b - 1 \in Nat /\ 0 \in 0 .. b - 1
    OBVIOUS
  <2> QED BY <2>1, BytesAssumption DEF Byte, NoLength
<1>2. /\ << >> \in Seq(Byte) /\ << >> \in Seq(Payload \cup {Refusal})
      /\ << >> \in Seq(Seq(Byte))
  BY EmptySeq
<1>3. 0 \in 0 .. MaxFrames /\ 0 \in 0 .. MaxFaults
  BY BytesAssumption
<1>4. TypeOK
  <2>1. line \in Seq(Byte) /\ rx \in Seq(Byte) /\ buf \in Seq(Byte)
    BY <1>2 DEF Init
  <2>2. due \in Seq(Payload \cup {Refusal}) /\ got \in Seq(Seq(Byte))
    BY <1>2 DEF Init
  <2>3. /\ mode \in {"idle", "length", "payload", "reply", "spin"}
        /\ size \in 0 .. NoLength /\ checksum \in Byte /\ quiet \in 0..2
        /\ frames \in 0 .. MaxFrames /\ faults \in 0 .. MaxFaults
    BY <1>1, <1>3 DEF Init
  <2>4. clean \in BOOLEAN /\ garbled \in BOOLEAN
    BY Zenon DEF Init
  <2> QED BY <2>1, <2>2, <2>3, <2>4 DEF TypeOK
<1> QED BY <1>4 DEF Init, IInv, InStepSoon

LEMMA BeginFrameKeeps == IInv /\ BeginFrame => IInv'
<1> SUFFICES ASSUME IInv, BeginFrame PROVE IInv'
  OBVIOUS
<1>1. quiet = 0
  BY DEF IInv, InStepSoon, TypeOK, BeginFrame
<1> QED BY <1>1 DEF IInv, TypeOK, InStepSoon, BeginFrame, history, bounds

LEMMA BeginReplyKeeps == IInv /\ BeginReply => IInv'
<1> SUFFICES ASSUME IInv, BeginReply PROVE IInv'
  OBVIOUS
<1>1. quiet = 0
  BY DEF IInv, InStepSoon, TypeOK, BeginReply
<1>2. rx' \in Seq(Byte) /\ buf' \in Seq(Byte)
  BY HeadIsByte, EmptySeq DEF IInv, TypeOK, BeginReply
<1> QED BY <1>1, <1>2 DEF IInv, TypeOK, InStepSoon, BeginReply, history, bounds

LEMMA FlushKeeps == IInv /\ Flush => IInv'
<1> SUFFICES ASSUME IInv, Flush PROVE IInv'
  OBVIOUS
<1>1. quiet = 0
  BY DEF IInv, InStepSoon, TypeOK, Flush
<1>2. rx' \in Seq(Byte)
  BY HeadIsByte DEF IInv, TypeOK, Flush
<1> QED BY <1>1, <1>2 DEF IInv, TypeOK, InStepSoon, Flush, parser, history, bounds

LEMMA ReadLengthTypes ==
  ASSUME TypeOK, ReadLength
  PROVE  /\ rx' \in Seq(Byte) /\ buf' \in Seq(Byte)
         /\ mode' = "payload" /\ size' \in 0 .. NoLength /\ checksum' \in Byte
         /\ Len(rx) < 4 => rx' = << >>
<1>1. rx \in Seq(Byte)
  BY DEF TypeOK
<1>2. 0 \in Byte
  BY BytesAssumption DEF Byte
<1> QED BY <1>1, <1>2, RestTypes, LengthTypes, EmptySeq DEF ReadLength

LEMMA LengthArrivedKeeps == IInv /\ LengthArrived => IInv'
<1> SUFFICES ASSUME IInv, LengthArrived PROVE IInv'
  OBVIOUS
<1>1. quiet = 0
  BY DEF IInv, InStepSoon, TypeOK, LengthArrived
<1> QED BY <1>1, ReadLengthTypes DEF IInv, TypeOK, InStepSoon, LengthArrived, history, bounds

LEMMA ReadPayloadKeeps == IInv /\ ReadPayload => IInv'
<1> SUFFICES ASSUME IInv, ReadPayload PROVE IInv'
  OBVIOUS
<1>1. quiet = 0
  BY DEF IInv, InStepSoon, TypeOK, ReadPayload
<1>2. Head(rx) \in Byte /\ rx' \in Seq(Byte)
  BY HeadIsByte DEF IInv, TypeOK, ReadPayload
<1>3. checksum' \in Byte
  BY <1>2, SumTypes DEF IInv, ReadPayload
<1>4. buf' \in Seq(Byte)
  <2>1. buf \in Seq(Byte) /\ << >> \in Seq(Byte)
    BY EmptySeq DEF IInv, TypeOK
  <2>2. Append(buf, Head(rx)) \in Seq(Byte)
    BY <1>2, <2>1, AppendProperties
  <2> QED BY <2>1, <2>2 DEF ReadPayload
<1>5. got' \in Seq(Seq(Byte))
  BY OutcomeTypes, EmptySeq DEF IInv, TypeOK, ReadPayload, Closing, Refusal
<1>6. mode' \in {"idle", "payload"}
  BY DEF ReadPayload
<1> QED BY <1>1, <1>2, <1>3, <1>4, <1>5, <1>6 DEF IInv, TypeOK, InStepSoon, ReadPayload, bounds

LEMMA ReadNothingKeeps == IInv /\ ReadNothing => IInv'
<1> SUFFICES ASSUME IInv, ReadNothing PROVE IInv'
  OBVIOUS
<1>1. /\ rx' \in Seq(Byte) /\ (rx = << >> => rx' = << >>)
      /\ mode = "payload" /\ mode' \in {"idle", "spin"}
  BY RestTypes, EmptySeq DEF IInv, TypeOK, ReadNothing
<1>2. Payload \cup {Refusal} \subseteq Seq(Byte)
  BY BytesAssumption, EmptySeq DEF Refusal
<1>3. got' \in Seq(Seq(Byte))
  BY <1>2, OutcomeTypes DEF IInv, ReadNothing
<1> QED BY <1>1, <1>3 DEF IInv, TypeOK, InStepSoon, ReadNothing, bounds

LEMMA ReadReplyKeeps == IInv /\ ReadReply => IInv'
<1> SUFFICES ASSUME IInv, ReadReply PROVE IInv'
  OBVIOUS
<1>1. quiet = 0
  BY DEF IInv, InStepSoon, TypeOK, ReadReply
<1>2. Head(rx) \in Byte /\ rx' \in Seq(Byte)
  BY HeadIsByte DEF IInv, TypeOK, ReadReply
<1>3. buf' \in Seq(Byte)
  <2>1. buf \in Seq(Byte) /\ << >> \in Seq(Byte)
    BY EmptySeq DEF IInv, TypeOK
  <2>2. Append(buf, Head(rx)) \in Seq(Byte)
    BY <1>2, <2>1, AppendProperties
  <2> QED BY <2>1, <2>2 DEF ReadReply
<1>4. mode' \in {"idle", "reply"}
  BY DEF ReadReply
<1> QED BY <1>1, <1>2, <1>3, <1>4 DEF IInv, TypeOK, InStepSoon, ReadReply, history, bounds

\* 100 ms pass, between frames or in the middle of one.
LEMMA PassKeeps ==
  ASSUME IInv, Pass
  PROVE  /\ rx' \in Seq(Byte) /\ buf' \in Seq(Byte)
         /\ mode' \in {"idle", "length", "payload", "reply", "spin"}
         /\ size' \in 0 .. NoLength /\ checksum' \in Byte
         /\ quiet' \in 0..2
         /\ InStepSoon'
<1>1. quiet' \in 1..2 /\ (quiet' = 2 => quiet > 0)
  BY DEF IInv, TypeOK, Pass
<1>2. CASE Lacking /\ mode = "length" /\ ReadLength
  <2>1. Len(rx) < 4 /\ quiet = 0
    BY <1>2 DEF Lacking, IInv, InStepSoon, TypeOK
  <2> QED BY <1>1, <1>2, <2>1, ReadLengthTypes DEF IInv, InStepSoon
<1>3. CASE /\ Lacking /\ mode \in {"payload", "reply"}
           /\ mode' = "idle" /\ buf' = << >> /\ UNCHANGED <<rx, size, checksum>>
  <2>1. rx = << >>
    BY <1>3 DEF Lacking
  <2> QED BY <1>1, <1>3, <2>1, EmptySeq DEF IInv, TypeOK, InStepSoon
<1>4. CASE mode = "idle" /\ rx = << >> /\ UNCHANGED <<parser, rx>>
  BY <1>1, <1>4 DEF IInv, TypeOK, InStepSoon, parser
<1>5. CASE mode = "spin" /\ UNCHANGED <<parser, rx>>
  BY <1>1, <1>5 DEF IInv, TypeOK, InStepSoon, parser
<1> QED BY <1>2, <1>3, <1>4, <1>5 DEF Pass, Expire

LEMMA PauseKeeps == IInv /\ Pause => IInv'
BY PassKeeps DEF IInv, TypeOK, Pause, history, bounds

LEMMA StopKeeps == IInv /\ Stop => IInv'
BY PassKeeps, DamageTypes, FaultTypes DEF IInv, TypeOK, Stop

LEMMA SendFrameKeeps ==
  ASSUME IInv, NEW p \in Payload, SendFrame(p)
  PROVE  IInv'
<1>1. PICK c \in Byte : line' = Encoding(p, c)
  BY DEF SendFrame
<1>2. p \in Seq(Byte) /\ Len(p) + 1 < Base * Base /\ Base \in Nat \ {0, 1} /\ Dollar \in Byte
  BY BytesAssumption
<1>3. Len(p) + 1 \in Nat
  BY <1>2, LenProperties
<1>4. (Len(p) + 1) \div Base \in Byte /\ (Len(p) + 1) % Base \in Byte
  <2>1. \A n \in Nat, b \in Nat \ {0, 1} :
          n < b * b => n \div b \in 0 .. b - 1 /\ n % b \in 0 .. b - 1
    <3> TAKE n \in Nat, b \in Nat \ {0, 1}
    <3> HAVE n < b * b
    <3> DEFINE q == n \div b
               r == n % b
    <3>1. n = b * q + r /\ r \in 0 .. b - 1 /\ q \in Nat
      BY Z3
    <3>2. q < b
      <4> HIDE DEF q, r
      <4> SUFFICES ASSUME q >= b PROVE FALSE
        BY <3>1
      <4>1. b * q >= b * b
        BY <3>1
      <4> QED BY <3>1, <4>1
    <3> QED BY <3>1, <3>2
  <2> QED BY <1>2, <1>3, <2>1 DEF Byte
<1>5. line' \in Seq(Byte)
  <2>1. << Dollar, (Len(p) + 1) \div Base, (Len(p) + 1) % Base >> \in Seq(Byte)
    BY <1>2, <1>4
  <2>2. Append(p, c) \in Seq(Byte)
    BY <1>2, AppendProperties
  <2> QED BY <1>1, <2>1, <2>2, ConcatProperties DEF Encoding
<1>6. due' \in Seq(Payload \cup {Refusal})
  <2>1. Append(due, p) \in Seq(Payload \cup {Refusal})
    BY AppendProperties DEF IInv, TypeOK
  <2>2. << p >> \in Seq(Payload \cup {Refusal})
    OBVIOUS
  <2> QED BY <2>1, <2>2 DEF IInv, TypeOK, SendFrame
<1>7. clean' \in BOOLEAN /\ garbled' \in BOOLEAN
  BY Zenon DEF IInv, TypeOK, SendFrame
<1>8. frames' \in 0 .. MaxFrames
  BY BytesAssumption DEF IInv, TypeOK, SendFrame
<1> QED BY <1>5, <1>6, <1>7, <1>8 DEF IInv, TypeOK, InStepSoon, SendFrame, parser

LEMMA SendReplyKeeps ==
  ASSUME IInv, NEW r \in Reply, SendReply(r)
  PROVE  IInv'
<1>1. line' \in Seq(Byte)
  <2>1. << Bang >> \in Seq(Byte) /\ r \in Seq(Byte)
    BY BytesAssumption
  <2> QED BY <2>1, ConcatProperties DEF SendReply
<1>2. frames' \in 0 .. MaxFrames /\ garbled' \in BOOLEAN
  BY BytesAssumption DEF IInv, TypeOK, SendReply
<1> QED BY <1>1, <1>2 DEF IInv, TypeOK, InStepSoon, SendReply, parser

LEMMA ArriveKeeps == IInv /\ Arrive => IInv'
<1> SUFFICES ASSUME IInv, Arrive PROVE IInv'
  OBVIOUS
<1>1. Head(line) \in Byte /\ line' \in Seq(Byte)
  BY HeadIsByte DEF IInv, TypeOK, Arrive
<1>2. rx' \in Seq(Byte)
  BY <1>1, AppendProperties DEF IInv, TypeOK, Arrive
<1> QED BY <1>1, <1>2 DEF IInv, TypeOK, InStepSoon, Arrive, parser, history, bounds

LEMMA GarbleKeeps == IInv /\ Garble => IInv'
<1> SUFFICES ASSUME IInv, Garble PROVE IInv'
  OBVIOUS
<1>1. line' \in Seq(Byte)
  <2>1. PICK b \in Byte : line' = << b >> \o Tail(line)
    BY DEF Garble
  <2>2. << b >> \in Seq(Byte) /\ Tail(line) \in Seq(Byte)
    BY HeadIsByte DEF IInv, TypeOK, Garble
  <2> QED BY <2>1, <2>2, ConcatProperties
<1>2. due' \in Seq(Payload \cup {Refusal})
  <2>1. due \in Seq(Payload \cup {Refusal})
    BY DEF IInv, TypeOK
  <2>2. CASE due = << >>
    <3>1. due' = due
      BY <2>2 DEF Garble
    <3> QED BY <2>1, <3>1
  <2>3. CASE due # << >>
    BY <2>1, <2>3, ExceptSeq, LenProperties, EmptySeq DEF Garble
  <2> QED BY <2>2, <2>3
<1>3. faults' \in 0 .. MaxFaults
  BY FaultTypes DEF IInv, Garble
<1> QED BY <1>1, <1>2, <1>3 DEF IInv, TypeOK, InStepSoon, Garble, parser

LEMMA LoseKeeps == IInv /\ Lose => IInv'
<1> SUFFICES ASSUME IInv, Lose PROVE IInv'
  OBVIOUS
<1>1. line' \in Seq(Byte)
  BY HeadIsByte DEF IInv, TypeOK, Lose
<1>2. faults' \in 0 .. MaxFaults
  BY FaultTypes DEF IInv, Lose
<1> QED BY <1>1, <1>2, DamageTypes DEF IInv, TypeOK, InStepSoon, Lose, parser

LEMMA DisturbKeeps == IInv /\ Disturb => IInv'
<1> SUFFICES ASSUME IInv, Disturb PROVE IInv'
  OBVIOUS
<1>1. rx' \in Seq(Byte)
  BY AppendProperties DEF IInv, TypeOK, Disturb
<1>2. line' \in Seq(Byte)
  BY RestTypes DEF IInv, TypeOK, Disturb
<1>3. faults' \in 0 .. MaxFaults
  BY FaultTypes DEF IInv, Disturb
<1> QED BY <1>1, <1>2, <1>3, DamageTypes DEF IInv, TypeOK, InStepSoon, Disturb, parser

LEMMA NextKeepsIInv == IInv /\ [Next]_vars => IInv'
<1> SUFFICES ASSUME IInv, [Next]_vars PROVE IInv'
  OBVIOUS
<1>1. CASE ParserStep
  BY <1>1, BeginFrameKeeps, BeginReplyKeeps, FlushKeeps, LengthArrivedKeeps,
     ReadPayloadKeeps, ReadNothingKeeps, ReadReplyKeeps DEF ParserStep
<1>2. CASE \E p \in Payload : SendFrame(p)
  BY <1>2, SendFrameKeeps
<1>3. CASE \E r \in Reply : SendReply(r)
  BY <1>3, SendReplyKeeps
<1>4. CASE UNCHANGED vars
  BY <1>4 DEF IInv, TypeOK, InStepSoon, vars, parser, history, bounds
<1> QED BY <1>1, <1>2, <1>3, <1>4, PauseKeeps, StopKeeps, ArriveKeeps, GarbleKeeps,
           LoseKeeps, DisturbKeeps DEF Next

\* The types and the return to step hold at every moment: nothing the wire does,
\* and no bytes of the ESP's, leave the parser waiting longer than 200 ms of silence,
\* but for a damaged length of 0, which may hang it.
THEOREM ParserInvariant == Spec => []IInv
BY NextKeepsIInv, InitIInv, PTL DEF Spec

\* Whatever is on the wire, the parser's state keeps its types: in particular the
\* length read is one of two bytes, also when bytes were missing.
THEOREM ParserTypes == Spec => []TypeOK
<1>1. IInv => TypeOK
  BY DEF IInv
<1> QED BY <1>1, ParserInvariant, PTL

\* However frames are cut short, garbled, delayed or disturbed, a pause of 200 ms
\* finds the parser at the start of a frame with nothing left to read, or hanging in a
\* loop of processing_data().
THEOREM PausePutsInStep == Spec => []PauseResyncs
<1>1. IInv => PauseResyncs
  BY DEF IInv, InStepSoon, PauseResyncs, TypeOK
<1> QED BY <1>1, ParserInvariant, PTL
-----------------------------------------------------------------------------
(* Checksums *)

\* From s[0] on, s goes through the bytes of q.
Runs(q, s, n) == \A i \in 1 .. n : s[i] = Xor(s[i - 1], q[i])

\* s gives the checksum of each beginning of q.
Sums(q, s) == s \in [0 .. Len(q) -> Byte] /\ s[0] = 0 /\ Runs(q, s, Len(q))

\* A set of numbers that has a member has a least one.
LEMMA Least ==
  ASSUME NEW T, T \subseteq Nat, T # {}
  PROVE  \E x \in T : \A y \in T : x <= y
<1> DEFINE R == OpToRel(<, Nat)
<1>1. IsWellFoundedOn(R, Nat)
  BY NatLessThanWellFounded
<1>2. \A x, y \in Nat : <<y, x>> \in R <=> y < x
  BY DEF OpToRel
<1> HIDE DEF R
<1>3. PICK x \in T : \A y \in T : ~ (<<y, x>> \in R)
  BY <1>1, WFMin
<1>4. ASSUME NEW y \in T
      PROVE  x <= y
  <2>1. x \in Nat /\ y \in Nat /\ ~ (y < x)
    BY <1>2, <1>3
  <2> QED BY <2>1
<1> QED BY <1>4

LEMMA XorCancels ==
  ASSUME NEW a \in Byte, NEW b \in Byte, NEW c \in Byte
  PROVE  /\ Xor(a, b) = Xor(a, c) => b = c
         /\ Xor(b, a) = Xor(c, a) => b = c
BY XorAssumption

LEMMA SumsExist ==
  ASSUME NEW q \in Seq(Byte)
  PROVE  \E s : Sums(q, s)
<1> DEFINE Up(n, s) == s \in [0 .. n -> Byte] /\ s[0] = 0 /\ Runs(q, s, n)
           T == {n \in 0 .. Len(q) : ~ \E s : Up(n, s)}
<1>1. Len(q) \in Nat /\ DOMAIN q = 1 .. Len(q) /\ \A i \in 1 .. Len(q) : q[i] \in Byte
  BY ElementOfSeq, LenProperties
<1>2. T = {}
  <2> SUFFICES ASSUME T # {}
               PROVE  FALSE
    OBVIOUS
  <2>0. T \subseteq Nat
    BY <1>1
  <2> HIDE DEF T
  <2>1. PICK n \in T : \A m \in T : n <= m
    BY <2>0, Least
  <2>2. n \in 0 .. Len(q) /\ ~ \E s : Up(n, s)
    BY DEF T
  <2>3. 0 \in Byte
    BY BytesAssumption DEF Byte
  <2>4. CASE n = 0
    <3>1. Up(0, [i \in 0 .. 0 |-> 0])
      BY <2>3 DEF Runs
    <3> QED BY <2>2, <2>4, <3>1
  <2>5. CASE n # 0
    <3>1. n - 1 \in 0 .. Len(q) /\ n - 1 \notin T
      BY <1>1, <2>1, <2>2, <2>5
    <3>2. PICK s : Up(n - 1, s)
      BY <3>1 DEF T
    <3> DEFINE t == [i \in 0 .. n |-> IF i = n THEN Xor(s[n - 1], q[n]) ELSE s[i]]
    <3>3. Xor(s[n - 1], q[n]) \in Byte
      BY <1>1, <2>2, <2>5, <3>1, <3>2, XorAssumption
    <3>4. t \in [0 .. n -> Byte] /\ t[0] = 0
      BY <2>2, <2>5, <3>2, <3>3
    <3>5. \A i \in 1 .. n : t[i] = Xor(t[i - 1], q[i])
      <4> TAKE i \in 1 .. n
      <4>1. CASE i = n
        BY <2>2, <2>5, <4>1
      <4>2. CASE i # n
        BY <2>2, <3>2, <4>2 DEF Runs
      <4> QED BY <4>1, <4>2
    <3> HIDE DEF t
    <3> QED BY <2>2, <3>4, <3>5 DEF Runs
  <2> QED BY <2>4, <2>5
<1>3. Len(q) \notin T
  BY <1>2
<1> HIDE DEF T
<1>4. PICK s : Up(Len(q), s)
  BY <1>1, <1>3 DEF T
<1> QED BY <1>4 DEF Sums

\* Two runs of sums over the same bytes, from the same start, are the same.
LEMMA SumsAgree ==
  ASSUME NEW n \in Nat, NEW q, NEW s, NEW t, s[0] = t[0],
         Runs(q, s, n), Runs(q, t, n)
  PROVE  \A i \in 0 .. n : s[i] = t[i]
<1> DEFINE T == {i \in 0 .. n : s[i] # t[i]}
<1>1. T = {}
  <2> SUFFICES ASSUME T # {}
               PROVE  FALSE
    OBVIOUS
  <2>0. T \subseteq Nat
    OBVIOUS
  <2> HIDE DEF T
  <2>1. PICK k \in T : \A m \in T : k <= m
    BY <2>0, Least
  <2>2. k \in 1 .. n /\ k - 1 \in 0 .. n /\ k - 1 \notin T /\ s[k] # t[k]
    BY <2>1 DEF T
  <2>3. s[k - 1] = t[k - 1]
    BY <2>2 DEF T
  <2> QED BY <2>2, <2>3 DEF Runs
<1> QED BY <1>1

LEMMA HasParityIs ==
  ASSUME NEW q \in Seq(Byte), NEW s, Sums(q, s), NEW c
  PROVE  HasParity(q, c) <=> c = s[Len(q)]
<1>1. Len(q) \in Nat
  BY LenProperties
<1> DEFINE F(f) == [i \in 0 .. Len(q) |-> IF i = 0 THEN 0 ELSE Xor(f[i - 1], q[i])]
           f == CHOOSE g : g = F(g)
<1>2. s = F(s)
  <2>1. DOMAIN s = 0 .. Len(q) /\ s = [i \in 0 .. Len(q) |-> s[i]]
    BY DEF Sums
  <2>2. \A i \in 0 .. Len(q) : s[i] = IF i = 0 THEN 0 ELSE Xor(s[i - 1], q[i])
    BY <1>1 DEF Sums, Runs
  <2> QED BY <2>1, <2>2
<1>3. f = F(f)
  <2> HIDE DEF F
  <2> QED BY <1>2
<1>4. HasParity(q, c) <=> c = f[Len(q)]
  BY DEF HasParity
<1> HIDE DEF f
<1>5. f[0] = 0 /\ Runs(q, f, Len(q))
  <2>1. \A i \in 0 .. Len(q) : f[i] = IF i = 0 THEN 0 ELSE Xor(f[i - 1], q[i])
    BY <1>3
  <2> QED BY <1>1, <2>1 DEF Runs
<1>6. f[Len(q)] = s[Len(q)]
  <2>1. \A i \in 0 .. Len(q) : f[i] = s[i]
    BY <1>1, <1>5, SumsAgree DEF Sums
  <2> QED BY <1>1, <2>1
<1> QED BY <1>4, <1>6

LEMMA ParityOfNothing ==
  \A c : HasParity(<< >>, c) <=> c = 0
<1>1. << >> \in Seq(Byte) /\ Len(<< >>) = 0
  BY EmptySeq
<1>2. PICK s : Sums(<< >>, s)
  BY <1>1, SumsExist
<1> QED BY <1>1, <1>2, HasParityIs DEF Sums

LEMMA ParityIsOne ==
  ASSUME NEW q \in Seq(Byte)
  PROVE  \E x \in Byte : \A c : HasParity(q, c) <=> c = x
<1>1. Len(q) \in Nat
  BY LenProperties
<1>2. PICK s : Sums(q, s)
  BY SumsExist
<1>3. s[Len(q)] \in Byte
  BY <1>1, <1>2 DEF Sums
<1> QED BY <1>2, <1>3, HasParityIs

\* One more byte.
LEMMA ParityGrows ==
  ASSUME NEW q \in Seq(Byte), NEW c, HasParity(q, c), NEW b \in Byte
  PROVE  HasParity(Append(q, b), Xor(c, b))
<1> DEFINE p == Append(q, b)
           n == Len(q)
<1>1. /\ n \in Nat /\ p \in Seq(Byte) /\ Len(p) = n + 1 /\ p[n + 1] = b
      /\ \A i \in 1 .. n : p[i] = q[i]
  BY AppendProperties, LenProperties
<1>2. PICK s : Sums(q, s)
  BY SumsExist
<1>3. PICK t : Sums(p, t)
  BY <1>1, SumsExist
<1> HIDE DEF p
<1>4. \A i \in 0 .. n : s[i] = t[i]
  <2>1. s[0] = t[0] /\ Runs(q, s, n)
    BY <1>2, <1>3 DEF Sums
  <2>2. Runs(q, t, n)
    BY <1>1, <1>3 DEF Sums, Runs
  <2> QED BY <1>1, <2>1, <2>2, SumsAgree
<1>5. c = s[n]
  BY <1>2, HasParityIs
<1>6. t[n + 1] = Xor(t[n], b)
  BY <1>1, <1>3 DEF Sums, Runs
<1>7. HasParity(p, t[n + 1])
  BY <1>1, <1>3, HasParityIs
<1>8. t[n + 1] = Xor(c, b)
  BY <1>1, <1>4, <1>5, <1>6
<1> QED BY <1>7, <1>8 DEF p

\* A changed byte changes all sums from there on.
LEMMA ParityBreaks ==
  ASSUME NEW q \in Seq(Byte), NEW c, HasParity(q, c),
         NEW i \in 1 .. Len(q), NEW b \in Byte \ {q[i]}
  PROVE  ~ HasParity([q EXCEPT ![i] = b], c)
<1> DEFINE p == [q EXCEPT ![i] = b]
           n == Len(q)
<1>1. /\ n \in Nat /\ p \in Seq(Byte) /\ Len(p) = n /\ p[i] = b
      /\ \A k \in 1 .. n : q[k] \in Byte /\ (k # i => p[k] = q[k])
  BY ExceptSeq, LenProperties, ElementOfSeq
<1>2. PICK s : Sums(q, s)
  BY SumsExist
<1>3. PICK t : Sums(p, t)
  BY <1>1, SumsExist
<1> HIDE DEF p
<1>4. \A k \in 0 .. i - 1 : s[k] = t[k]
  <2>1. s[0] = t[0] /\ Runs(q, s, i - 1)
    BY <1>1, <1>2, <1>3 DEF Sums, Runs
  <2>2. Runs(q, t, i - 1)
    BY <1>1, <1>3 DEF Sums, Runs
  <2> QED BY <1>1, <2>1, <2>2, SumsAgree
<1> DEFINE T == {k \in i .. n : s[k] = t[k]}
<1>5. T = {}
  <2> SUFFICES ASSUME T # {}
               PROVE  FALSE
    OBVIOUS
  <2>0. T \subseteq Nat
    BY <1>1
  <2> HIDE DEF T
  <2>1. PICK k \in T : \A m \in T : k <= m
    BY <2>0, Least
  <2>2. k \in i .. n /\ k \in Nat /\ k - 1 \in 0 .. n /\ s[k] = t[k] /\ k - 1 \notin T
    BY <1>1, <2>1 DEF T
  <2>3. /\ s[k] = Xor(s[k - 1], q[k]) /\ t[k] = Xor(t[k - 1], p[k])
        /\ s[k - 1] \in Byte /\ t[k - 1] \in Byte /\ q[k] \in Byte
    BY <1>1, <1>2, <1>3, <2>2 DEF Sums, Runs
  <2>4. CASE k = i
    <3>1. s[k - 1] = t[k - 1] /\ p[k] = b
      BY <1>1, <1>4, <2>2, <2>4
    <3>2. Xor(t[k - 1], q[k]) = Xor(t[k - 1], b) /\ b \in Byte
      BY <2>2, <2>3, <3>1
    <3>3. q[k] = b
      BY <2>3, <3>2, XorCancels
    <3> QED BY <2>4, <3>3
  <2>5. CASE k # i
    <3>1. p[k] = q[k] /\ s[k - 1] # t[k - 1]
      BY <1>1, <2>2, <2>5 DEF T
    <3>2. Xor(s[k - 1], q[k]) = Xor(t[k - 1], q[k])
      BY <2>2, <2>3, <3>1
    <3>3. s[k - 1] = t[k - 1]
      BY <2>3, <3>2, XorCancels
    <3> QED BY <3>1, <3>3
  <2> QED BY <2>4, <2>5
<1>6. s[n] # t[n]
  BY <1>1, <1>5
<1>7. c = s[n] /\ (HasParity(p, c) <=> c = t[n])
  BY <1>1, <1>2, <1>3, HasParityIs
<1> QED BY <1>6, <1>7 DEF p

-----------------------------------------------------------------------------
(* Frames and replies as strings of bytes *)

LEMMA Digits ==
  ASSUME NEW n \in Nat, n < Base * Base
  PROVE  /\ n \div Base \in Byte /\ n % Base \in Byte
         /\ (n \div Base) * Base + (n % Base) = n
<1>1. Base \in Nat \ {0, 1}
  BY BytesAssumption
<1>2. \A m \in Nat, b \in Nat \ {0, 1} :
        m < b * b => /\ m \div b \in 0 .. b - 1 /\ m % b \in 0 .. b - 1
                     /\ (m \div b) * b + (m % b) = m
  <2> TAKE m \in Nat, b \in Nat \ {0, 1}
  <2> HAVE m < b * b
  <2> DEFINE q == m \div b
             r == m % b
  <2>1. m = b * q + r /\ r \in 0 .. b - 1 /\ q \in Nat
    BY Z3
  <2>2. b * q = q * b
    BY <2>1
  <2>3. q < b
    <3> HIDE DEF q, r
    <3> SUFFICES ASSUME q >= b PROVE FALSE
      BY <2>1
    <3>1. b * q >= b * b
      BY <2>1
    <3> QED BY <2>1, <3>1
  <2> HIDE DEF q, r
  <2>4. q \in 0 .. b - 1 /\ q * b + r = m
    BY <2>1, <2>2, <2>3
  <2> QED BY <2>1, <2>4 DEF q, r
<1> QED BY <1>1, <1>2 DEF Byte

LEMMA NumberOfDigits ==
  ASSUME NEW x \in Byte, NEW y \in Byte
  PROVE  /\ x * Base + y \in Nat /\ x * Base + y < Base * Base
         /\ (x * Base + y) \div Base = x /\ (x * Base + y) % Base = y
<1>1. Base \in Nat \ {0, 1}
  BY BytesAssumption
<1>2. \A b \in Nat \ {0, 1} : \A i, j \in 0 .. b - 1 :
        /\ i * b + j \in Nat /\ i * b + j < b * b
        /\ (i * b + j) \div b = i /\ (i * b + j) % b = j
  <2> TAKE b \in Nat \ {0, 1}
  <2> TAKE i, j \in 0 .. b - 1
  <2> DEFINE n == i * b + j
             q == n \div b
             r == n % b
  <2>1. n \in Nat /\ i * b <= (b - 1) * b /\ (b - 1) * b = b * b - b /\ i * b = b * i
    OBVIOUS
  <2>2. n < b * b
    BY <2>1
  <2>3. n = b * q + r /\ r \in 0 .. b - 1 /\ q \in Nat
    <3> HIDE DEF n
    <3> QED BY <2>1, Z3
  <2>4. b * q + r = b * i + j
    BY <2>1, <2>3
  <2> HIDE DEF q, r
  <2>5. q = i
    <3>1. ~ (q > i)
      <4> SUFFICES ASSUME q >= i + 1
                   PROVE  FALSE
        BY <2>3
      <4>1. b * q >= b * (i + 1) /\ b * (i + 1) = b * i + b
        BY <2>3
      <4> HIDE DEF n
      <4> QED BY <2>3, <2>4, <4>1
    <3>2. ~ (q < i)
      <4> SUFFICES ASSUME i >= q + 1
                   PROVE  FALSE
        BY <2>3
      <4>1. b * i >= b * (q + 1) /\ b * (q + 1) = b * q + b
        BY <2>3
      <4> HIDE DEF n
      <4> QED BY <2>3, <2>4, <4>1
    <3> HIDE DEF n
    <3> QED BY <2>3, <3>1, <3>2
  <2>6. r = j
    <3> HIDE DEF n
    <3> QED BY <2>3, <2>4, <2>5
  <2> QED BY <2>1, <2>2, <2>5, <2>6 DEF q, r
<1> QED BY <1>1, <1>2 DEF Byte

Header(n) == << Dollar, n \div Base, n % Base >>

LEMMA HeaderTypes ==
  ASSUME NEW n \in Nat, n < Base * Base
  PROVE  /\ Header(n) \in Seq(Byte) /\ Len(Header(n)) = 3
         /\ Header(n)[1] = Dollar /\ Header(n)[2] * Base + Header(n)[3] = n
<1>1. n \div Base \in Byte /\ n % Base \in Byte /\ (n \div Base) * Base + (n % Base) = n
  BY Digits
<1>2. Dollar \in Byte
  BY BytesAssumption
<1> DEFINE x == n \div Base
           y == n % Base
<1>3. Header(n) = << Dollar, x, y >>
  BY DEF Header
<1> HIDE DEF x, y
<1>4. x \in Byte /\ y \in Byte /\ x * Base + y = n
  BY <1>1 DEF x, y
<1> QED BY <1>2, <1>3, <1>4

Sendable(q) == q \in Seq(Byte) /\ Len(q) + 1 < Base * Base

LEMMA EncodingIs ==
  ASSUME NEW q, Sendable(q), NEW c \in Byte
  PROVE  /\ Encoding(q, c) = Header(Len(q) + 1) \o Append(q, c)
         /\ Encoding(q, c) \in Seq(Byte) /\ Append(q, c) \in Seq(Byte)
         /\ Header(Len(q) + 1) \in Seq(Byte) /\ Len(Header(Len(q) + 1)) = 3
         /\ Len(Append(q, c)) = Len(q) + 1
         /\ Len(Encoding(q, c)) = Len(q) + 4
         /\ Encoding(q, c)[1] = Dollar
         /\ Encoding(q, c)[2] * Base + Encoding(q, c)[3] = Len(q) + 1
<1> DEFINE n == Len(q) + 1
           h == Header(n)
           a == Append(q, c)
           e == Encoding(q, c)
<1>1. n \in Nat /\ n < Base * Base /\ Len(q) \in Nat /\ q \in Seq(Byte)
  BY LenProperties DEF Sendable
<1>2. e = h \o a
  BY DEF Encoding, Header
<1>3. a \in Seq(Byte) /\ Len(a) = n
  BY <1>1, AppendProperties
<1> HIDE DEF n
<1>4. h \in Seq(Byte) /\ Len(h) = 3 /\ h[1] = Dollar /\ h[2] * Base + h[3] = n
  BY <1>1, HeaderTypes
<1> HIDE DEF h, a, e
<1>5. e \in Seq(Byte) /\ Len(e) = 3 + n /\ e[1] = h[1] /\ e[2] = h[2] /\ e[3] = h[3]
  <2>1. /\ e \in Seq(Byte) /\ Len(e) = Len(h) + Len(a)
        /\ \A i \in 1 .. Len(h) + Len(a) : e[i] = IF i <= Len(h) THEN h[i] ELSE a[i - Len(h)]
    BY <1>2, <1>3, <1>4, ConcatProperties
  <2>2. \A i \in 1 .. 3 : i \in 1 .. Len(h) + Len(a) /\ i <= Len(h)
    BY <1>1, <1>3, <1>4
  <2> QED BY <1>3, <1>4, <2>1, <2>2
<1>6. Len(e) = Len(q) + 4
  BY <1>1, <1>5 DEF n
<1> QED BY <1>1, <1>2, <1>3, <1>4, <1>5, <1>6 DEF n, h, a, e

LEMMA ConcatCancels ==
  ASSUME NEW s \in Seq(Byte), NEW x \in Seq(Byte), NEW y \in Seq(Byte), s \o x = s \o y
  PROVE  x = y
<1>1. /\ Len(s) \in Nat /\ Len(x) \in Nat /\ Len(y) \in Nat
      /\ Len(s \o x) = Len(s) + Len(x) /\ Len(s \o y) = Len(s) + Len(y)
  BY ConcatProperties, LenProperties
<1>2. Len(x) = Len(y)
  BY <1>1
<1>3. ASSUME NEW i \in 1 .. Len(x)
      PROVE  x[i] = y[i]
  <2>1. /\ i + Len(s) \in 1 .. Len(s) + Len(x) /\ i + Len(s) \in 1 .. Len(s) + Len(y)
        /\ ~ (i + Len(s) <= Len(s)) /\ (i + Len(s)) - Len(s) = i
    BY <1>1, <1>2
  <2>2. (s \o x)[i + Len(s)] = x[i]
    BY <2>1, ConcatProperties
  <2>3. (s \o y)[i + Len(s)] = y[i]
    BY <2>1, ConcatProperties
  <2> QED BY <2>2, <2>3
<1> QED BY <1>2, <1>3, SeqEqual

\* What the ESP sends as one piece, a frame with any checksum or a reply, and what
\* the library makes of it: nothing, or the payload or its refusal.
FrameUnit(v, o) ==
  \E q, c : /\ Sendable(q) /\ c \in Byte /\ v = Encoding(q, c)
            /\ o = << IF HasParity(q, c) THEN q ELSE Refusal >>
ReplyUnit(v, o) == \E r \in Seq(Byte) : Len(r) = 4 /\ v = << Bang >> \o r /\ o = << >>
Unit(v, o) == FrameUnit(v, o) \/ ReplyUnit(v, o)

LEMMA UnitTypes ==
  ASSUME NEW v, NEW o, Unit(v, o)
  PROVE  /\ v \in Seq(Byte) /\ o \in Seq(Seq(Byte)) /\ Len(v) \in Nat /\ Len(v) >= 4
         /\ v[1] \in {Dollar, Bang}
         /\ v[1] = Dollar => FrameUnit(v, o) /\ Len(v) = 3 + (v[2] * Base + v[3])
         /\ v[1] # Dollar => ReplyUnit(v, o) /\ Len(v) = 5
<1>1. CASE FrameUnit(v, o)
  <2>1. PICK q, c : /\ Sendable(q) /\ c \in Byte /\ v = Encoding(q, c)
                    /\ o = << IF HasParity(q, c) THEN q ELSE Refusal >>
    BY <1>1 DEF FrameUnit
  <2>2. /\ v \in Seq(Byte) /\ Len(v) = Len(q) + 4 /\ v[1] = Dollar
        /\ v[2] * Base + v[3] = Len(q) + 1
    BY <2>1, EncodingIs
  <2>3. q \in Seq(Byte) /\ Len(q) \in Nat /\ Refusal \in Seq(Byte)
    BY <2>1, LenProperties, EmptySeq DEF Sendable, Refusal
  <2>4. o \in Seq(Seq(Byte))
    BY <2>1, <2>3
  <2> QED BY <1>1, <2>2, <2>3, <2>4
<1>2. CASE ReplyUnit(v, o)
  <2>1. PICK r \in Seq(Byte) : Len(r) = 4 /\ v = << Bang >> \o r /\ o = << >>
    BY <1>2 DEF ReplyUnit
  <2> DEFINE b == << Bang >>
  <2>2. b \in Seq(Byte) /\ Len(b) = 1 /\ b[1] = Bang /\ Bang # Dollar
    BY BytesAssumption
  <2>3. v = b \o r
    BY <2>1
  <2> HIDE DEF b
  <2>4. v \in Seq(Byte) /\ Len(v) = 5 /\ v[1] = Bang
    <3>1. /\ v \in Seq(Byte) /\ Len(v) = Len(b) + Len(r)
          /\ \A i \in 1 .. Len(b) + Len(r) : v[i] = IF i <= Len(b) THEN b[i] ELSE r[i - Len(b)]
      BY <2>1, <2>2, <2>3, ConcatProperties
    <3>2. 1 \in 1 .. Len(b) + Len(r) /\ 1 <= Len(b)
      BY <2>1, <2>2
    <3> QED BY <2>1, <2>2, <3>1, <3>2
  <2>5. o \in Seq(Seq(Byte))
    BY <2>1, EmptySeq
  <2> QED BY <1>2, <2>2, <2>4, <2>5
<1> QED BY <1>1, <1>2 DEF Unit

\* The bytes of a unit tell what is to be made of it.
LEMMA UnitOutcome ==
  ASSUME NEW v, NEW o, NEW p, Unit(v, o), Unit(v, p)
  PROVE  o = p
<1>1. CASE v[1] = Dollar
  <2>1. FrameUnit(v, o) /\ FrameUnit(v, p)
    BY <1>1, UnitTypes
  <2>2. PICK q, c : /\ Sendable(q) /\ c \in Byte /\ v = Encoding(q, c)
                    /\ o = << IF HasParity(q, c) THEN q ELSE Refusal >>
    BY <2>1 DEF FrameUnit
  <2>3. PICK r, d : /\ Sendable(r) /\ d \in Byte /\ v = Encoding(r, d)
                    /\ p = << IF HasParity(r, d) THEN r ELSE Refusal >>
    BY <2>1 DEF FrameUnit
  <2>4. Len(q) + 1 = Len(r) + 1
    <3>1. v[2] * Base + v[3] = Len(q) + 1
      BY <2>2, EncodingIs
    <3>2. v[2] * Base + v[3] = Len(r) + 1
      BY <2>3, EncodingIs
    <3> QED BY <3>1, <3>2
  <2>5. /\ Append(q, c) \in Seq(Byte) /\ Append(r, d) \in Seq(Byte)
        /\ Header(Len(q) + 1) \in Seq(Byte)
        /\ Header(Len(q) + 1) \o Append(q, c) = Header(Len(r) + 1) \o Append(r, d)
    BY <2>2, <2>3, EncodingIs
  <2>6. Append(q, c) = Append(r, d)
    <3> DEFINE h == Header(Len(q) + 1)
               x == Append(q, c)
               y == Append(r, d)
    <3>1. h \o x = h \o y /\ h \in Seq(Byte) /\ x \in Seq(Byte) /\ y \in Seq(Byte)
      BY <2>4, <2>5
    <3> HIDE DEF h, x, y
    <3>2. x = y
      BY <3>1, ConcatCancels
    <3> QED BY <3>2 DEF x, y
  <2>7. q = r /\ c = d
    BY <2>2, <2>3, <2>6, AppendInjective DEF Sendable
  <2> QED BY <2>2, <2>3, <2>7
<1>2. CASE v[1] # Dollar
  BY <1>2, UnitTypes DEF ReplyUnit
<1> QED BY <1>1, <1>2

-----------------------------------------------------------------------------
(* Concatenation as the provers can take it: an operator with these laws *)

Join(s, t) == s \o t

LEMMA JoinTypes ==
  ASSUME NEW S, NEW s \in Seq(S), NEW t \in Seq(S)
  PROVE  Join(s, t) \in Seq(S) /\ Len(Join(s, t)) = Len(s) + Len(t)
BY ConcatProperties DEF Join

LEMMA JoinBytes ==
  ASSUME NEW s \in Seq(Byte), NEW t \in Seq(Byte)
  PROVE  Join(s, t) \in Seq(Byte) /\ Len(Join(s, t)) = Len(s) + Len(t)
BY JoinTypes

LEMMA JoinOutcomes ==
  ASSUME NEW s \in Seq(Seq(Byte)), NEW t \in Seq(Seq(Byte))
  PROVE  Join(s, t) \in Seq(Seq(Byte)) /\ Len(Join(s, t)) = Len(s) + Len(t)
BY JoinTypes

LEMMA JoinNothing ==
  ASSUME NEW S, NEW s \in Seq(S)
  PROVE  Join(s, << >>) = s /\ Join(<< >>, s) = s
BY ConcatEmptySeq DEF Join

LEMMA JoinAssociative ==
  ASSUME NEW S, NEW s \in Seq(S), NEW t \in Seq(S), NEW u \in Seq(S)
  PROVE  Join(Join(s, t), u) = Join(s, Join(t, u))
BY ConcatAssociative DEF Join

\* No unit is the beginning of another: where one ends is seen from its first bytes.
LEMMA PrefixCode ==
  ASSUME NEW v, NEW o, Unit(v, o), NEW u, NEW p, Unit(u, p),
         NEW x \in Seq(Byte), NEW y \in Seq(Byte), Join(v, x) = Join(u, y)
  PROVE  v = u /\ x = y /\ o = p
<1>1. /\ v \in Seq(Byte) /\ u \in Seq(Byte) /\ Len(v) \in Nat /\ Len(u) \in Nat
      /\ Len(v) >= 4 /\ Len(u) >= 4 /\ Len(x) \in Nat /\ Len(y) \in Nat
  BY UnitTypes, LenProperties
<1>2. \A i \in Nat \ {0} : i <= Len(v) /\ i <= Len(u) => v[i] = u[i]
  <2> TAKE i \in Nat \ {0}
  <2> HAVE i <= Len(v) /\ i <= Len(u)
  <2>1. i \in 1 .. Len(v) + Len(x) /\ i \in 1 .. Len(u) + Len(y)
    BY <1>1
  <2>2. Join(v, x)[i] = v[i]
    BY <1>1, <2>1, ConcatProperties DEF Join
  <2>3. Join(u, y)[i] = u[i]
    BY <1>1, <2>1, ConcatProperties DEF Join
  <2> QED BY <2>2, <2>3
<1>3. v[1] = u[1] /\ v[2] = u[2] /\ v[3] = u[3]
  <2>1. \A i \in {1, 2, 3} : i \in Nat \ {0} /\ i <= Len(v) /\ i <= Len(u)
    BY <1>1
  <2>2. \A i \in {1, 2, 3} : v[i] = u[i]
    BY <1>2, <2>1
  <2> QED BY <2>2
<1>4. Len(v) = Len(u)
  BY <1>3, UnitTypes
<1>5. v = u
  BY <1>1, <1>2, <1>4, SeqEqual
<1>6. x = y
  BY <1>1, <1>5, ConcatCancels DEF Join
<1> QED BY <1>5, <1>6, UnitOutcome

-----------------------------------------------------------------------------
(* Strings of whole units *)

\* Bytes, and what is to be made of them.
Pairs == Seq(Byte) \X Seq(Seq(Byte))

\* With a string of whole units S has the string that is one unit longer.
Closed(S) ==
  /\ << << >>, << >> >> \in S
  /\ \A x \in S : \A v, o : Unit(v, o) => << Join(x[1], v), Join(x[2], o) >> \in S

\* The strings of whole units: the least such set.
Streams == {x \in Pairs : \A S \in SUBSET Pairs : Closed(S) => x \in S}
Stream(w, d) == << w, d >> \in Streams

LEMMA StreamTypes ==
  ASSUME NEW w, NEW d, Stream(w, d)
  PROVE  w \in Seq(Byte) /\ d \in Seq(Seq(Byte))
BY DEF Stream, Streams, Pairs

LEMMA EmptyStream == Stream(<< >>, << >>)
<1>1. << << >>, << >> >> \in Pairs
  BY EmptySeq DEF Pairs
<1> QED BY <1>1 DEF Stream, Streams, Closed

LEMMA StreamGrows ==
  ASSUME NEW w, NEW d, Stream(w, d), NEW v, NEW o, Unit(v, o)
  PROVE  Stream(Join(w, v), Join(d, o))
<1> DEFINE x == << w, d >>
           y == << Join(w, v), Join(d, o) >>
<1>1. /\ w \in Seq(Byte) /\ d \in Seq(Seq(Byte)) /\ v \in Seq(Byte) /\ o \in Seq(Seq(Byte))
  BY StreamTypes, UnitTypes
<1>2. Join(w, v) \in Seq(Byte) /\ Join(d, o) \in Seq(Seq(Byte))
  BY <1>1, JoinTypes
<1>3. y \in Pairs
  BY <1>2 DEF Pairs
<1>4. ASSUME NEW S \in SUBSET Pairs, Closed(S)
      PROVE  y \in S
  <2>1. x \in S
    BY <1>4 DEF Stream, Streams
  <2>2. x[1] = w /\ x[2] = d
    OBVIOUS
  <2> QED BY <1>4, <2>1, <2>2 DEF Closed
<1> QED BY <1>3, <1>4 DEF Stream, Streams

\* A string of whole units begins with one, unless it is empty.
LEMMA StreamFront ==
  ASSUME NEW w, NEW d, Stream(w, d)
  PROVE  \/ w = << >> /\ d = << >>
         \/ \E v, o, w1, d1 : /\ Unit(v, o) /\ Stream(w1, d1)
                              /\ w = Join(v, w1) /\ d = Join(o, d1)
<1> DEFINE Begins(x) == \/ x[1] = << >> /\ x[2] = << >>
                        \/ \E v, o, w1, d1 : /\ Unit(v, o) /\ Stream(w1, d1)
                                             /\ x[1] = Join(v, w1) /\ x[2] = Join(o, d1)
           S == {x \in Streams : Begins(x)}
<1>1. S \in SUBSET Pairs
  BY DEF Streams
<1>2. << << >>, << >> >> \in S
  BY EmptyStream DEF Stream
<1>3. ASSUME NEW x \in S, NEW v, NEW o, Unit(v, o)
      PROVE  << Join(x[1], v), Join(x[2], o) >> \in S
  <2> DEFINE y == << Join(x[1], v), Join(x[2], o) >>
  <2>0. Begins(x) /\ x \in Streams
    OBVIOUS
  <2>1. x = << x[1], x[2] >>
    BY <2>0 DEF Streams, Pairs
  <2>2. Stream(x[1], x[2])
    BY <2>0, <2>1 DEF Stream
  <2>3. y \in Streams
    BY <1>3, <2>2, StreamGrows DEF Stream
  <2>4. v \in Seq(Byte) /\ o \in Seq(Seq(Byte))
    BY <1>3, UnitTypes
  <2>5. CASE x[1] = << >> /\ x[2] = << >>
    <3>1. /\ Join(<< >>, v) = v /\ Join(<< >>, o) = o /\ Join(v, << >>) = v /\ Join(o, << >>) = o
      BY <2>4, JoinNothing
    <3>2. y[1] = Join(v, << >>) /\ y[2] = Join(o, << >>)
      BY <2>5, <3>1
    <3> QED BY <1>3, <2>3, <3>2, EmptyStream
  <2>6. CASE \E v1, o1, w1, d1 : /\ Unit(v1, o1) /\ Stream(w1, d1)
                                 /\ x[1] = Join(v1, w1) /\ x[2] = Join(o1, d1)
    <3>1. PICK v1, o1, w1, d1 : /\ Unit(v1, o1) /\ Stream(w1, d1)
                                /\ x[1] = Join(v1, w1) /\ x[2] = Join(o1, d1)
      BY <2>6
    <3>2. /\ v1 \in Seq(Byte) /\ o1 \in Seq(Seq(Byte)) /\ w1 \in Seq(Byte) /\ d1 \in Seq(Seq(Byte))
      BY <3>1, UnitTypes, StreamTypes
    <3>3. y[1] = Join(v1, Join(w1, v)) /\ y[2] = Join(o1, Join(d1, o))
      <4>1. Join(Join(v1, w1), v) = Join(v1, Join(w1, v))
        BY <2>4, <3>2, JoinAssociative
      <4>2. Join(Join(o1, d1), o) = Join(o1, Join(d1, o))
        BY <2>4, <3>2, JoinAssociative
      <4> QED BY <3>1, <4>1, <4>2
    <3>4. Stream(Join(w1, v), Join(d1, o))
      BY <1>3, <3>1, StreamGrows
    <3>5. Begins(y)
      BY <3>1, <3>3, <3>4
    <3> QED BY <2>3, <3>5
  <2> QED BY <2>0, <2>5, <2>6
<1>4. Closed(S)
  BY <1>2, <1>3 DEF Closed
<1> HIDE DEF S
<1>5. << w, d >> \in S
  BY <1>1, <1>4 DEF Stream, Streams
<1>6. Begins(<< w, d >>)
  BY <1>5 DEF S
<1> QED BY <1>6

\* What is behind a first unit is whole units again.
LEMMA StreamRest ==
  ASSUME NEW v, NEW o, Unit(v, o), NEW x \in Seq(Byte), NEW d, Stream(Join(v, x), d)
  PROVE  \E d1 : Stream(x, d1) /\ d = Join(o, d1)
<1>1. Join(v, x) # << >>
  <2>1. Len(v) \in Nat /\ Len(v) >= 4 /\ v \in Seq(Byte) /\ Len(<< >>) = 0
    BY UnitTypes, EmptySeq
  <2>2. Len(Join(v, x)) = Len(v) + Len(x) /\ Len(x) \in Nat
    BY <2>1, JoinTypes, LenProperties
  <2> QED BY <2>1, <2>2
<1> DEFINE w == Join(v, x)
<1>2. Stream(w, d) /\ w # << >>
  BY <1>1
<1> HIDE DEF w
<1>3. PICK u, p, w1, d1 : Unit(u, p) /\ Stream(w1, d1) /\ w = Join(u, w1) /\ d = Join(p, d1)
  BY <1>2, StreamFront
<1>4. w1 \in Seq(Byte) /\ Join(v, x) = Join(u, w1)
  BY <1>3, StreamTypes DEF w
<1>5. v = u /\ x = w1 /\ o = p
  BY <1>3, <1>4, PrefixCode
<1> QED BY <1>3, <1>5

LEMMA ByteSeqs ==
  ASSUME NEW b \in Byte, NEW s \in Seq(Byte)
  PROVE  /\ << b >> \in Seq(Byte) /\ Append(s, b) \in Seq(Byte)
         /\ Append(s, b) = Join(s, << b >>)
         /\ s # << >> => s = Join(<< Head(s) >>, Tail(s))
<1>1. << b >> \in Seq(Byte) /\ Append(s, b) \in Seq(Byte)
  BY AppendProperties
<1>2. Append(s, b) = Join(s, << b >>)
  BY AppendIsConcat DEF Join
<1>3. ASSUME s # << >>
      PROVE  s = Join(<< Head(s) >>, Tail(s))
  <2> DEFINE h == << Head(s) >>
             t == Tail(s)
             j == Join(h, t)
  <2>1. h \in Seq(Byte) /\ Len(h) = 1 /\ h[1] = s[1]
    BY <1>3, HeadTailProperties
  <2>2. /\ t \in Seq(Byte) /\ Len(t) = Len(s) - 1 /\ Len(s) \in Nat \ {0}
        /\ \A i \in 1 .. Len(t) : t[i] = s[i + 1]
    BY <1>3, HeadTailProperties, EmptySeq
  <2> HIDE DEF h, t
  <2>3. /\ j \in Seq(Byte) /\ Len(j) = Len(s)
        /\ \A i \in 1 .. Len(h) + Len(t) : j[i] = IF i <= Len(h) THEN h[i] ELSE t[i - Len(h)]
    <3>1. j \in Seq(Byte) /\ Len(j) = Len(h) + Len(t)
      BY <2>1, <2>2, JoinBytes
    <3>2. \A i \in 1 .. Len(h) + Len(t) : j[i] = IF i <= Len(h) THEN h[i] ELSE t[i - Len(h)]
      BY <2>1, <2>2, ConcatProperties DEF Join
    <3> HIDE DEF j
    <3>3. Len(j) = Len(s)
      BY <2>1, <2>2, <3>1
    <3> QED BY <3>1, <3>2, <3>3
  <2> HIDE DEF j
  <2>4. \A i \in 1 .. Len(s) : j[i] = s[i]
    <3> TAKE i \in 1 .. Len(s)
    <3>1. i \in 1 .. Len(h) + Len(t) /\ (i <= Len(h) <=> i = 1)
      BY <2>1, <2>2
    <3>2. i # 1 => i - 1 \in 1 .. Len(t) /\ (i - 1) + 1 = i
      BY <2>2
    <3> QED BY <2>1, <2>2, <2>3, <3>1, <3>2
  <2>5. s = j
    BY <2>3, <2>4, SeqEqual
  <2> QED BY <2>5 DEF j, h, t
<1> QED BY <1>1, <1>2, <1>3

LEMMA AppendJoined ==
  ASSUME NEW s \in Seq(Seq(Byte)), NEW t \in Seq(Seq(Byte)), NEW e \in Seq(Byte)
  PROVE  /\ << e >> \in Seq(Seq(Byte)) /\ Append(t, e) \in Seq(Seq(Byte))
         /\ Append(t, e) = Join(t, << e >>)
         /\ Append(Join(s, t), e) = Join(s, Append(t, e))
<1>1. << e >> \in Seq(Seq(Byte)) /\ Append(t, e) \in Seq(Seq(Byte))
  BY AppendProperties
<1>2. \A u \in Seq(Seq(Byte)) : Append(u, e) = Join(u, << e >>)
  BY AppendIsConcat DEF Join
<1>3. Join(s, t) \in Seq(Seq(Byte))
  BY JoinOutcomes
<1> DEFINE x == << e >>
<1>4. Join(Join(s, t), x) = Join(s, Join(t, x))
  <2> HIDE DEF x
  <2>1. x \in Seq(Seq(Byte))
    BY <1>1 DEF x
  <2> QED BY <2>1, JoinAssociative
<1> QED BY <1>1, <1>2, <1>3, <1>4

\* Changing an element of the second part.
LEMMA JoinExcept ==
  ASSUME NEW s \in Seq(Byte), NEW t \in Seq(Byte), NEW i \in 1 .. Len(t), NEW b \in Byte
  PROVE  Join(s, [t EXCEPT ![i] = b]) = [Join(s, t) EXCEPT ![Len(s) + i] = b]
<1> DEFINE u == [t EXCEPT ![i] = b]
           x == Join(s, u)
           w == Join(s, t)
           k == Len(s) + i
           y == [w EXCEPT ![k] = b]
<1>1. /\ u \in Seq(Byte) /\ Len(u) = Len(t) /\ Len(t) \in Nat /\ Len(s) \in Nat
      /\ \A j \in 1 .. Len(t) : u[j] = IF j = i THEN b ELSE t[j]
  BY ExceptSeq, LenProperties
<1> HIDE DEF u
<1>2. /\ x \in Seq(Byte) /\ Len(x) = Len(s) + Len(u)
      /\ \A j \in 1 .. Len(s) + Len(u) : x[j] = IF j <= Len(s) THEN s[j] ELSE u[j - Len(s)]
  BY <1>1, ConcatProperties DEF Join
<1>3. /\ w \in Seq(Byte) /\ Len(w) = Len(s) + Len(t)
      /\ \A j \in 1 .. Len(s) + Len(t) : w[j] = IF j <= Len(s) THEN s[j] ELSE t[j - Len(s)]
  BY <1>1, ConcatProperties DEF Join
<1> HIDE DEF x, w
<1>4. k \in 1 .. Len(w)
  BY <1>1, <1>3
<1>5. /\ y \in Seq(Byte) /\ Len(y) = Len(w)
      /\ \A j \in 1 .. Len(w) : y[j] = IF j = k THEN b ELSE w[j]
  BY <1>3, <1>4, ExceptSeq
<1> HIDE DEF y
<1>6. \A j \in 1 .. Len(x) : x[j] = y[j]
  <2> TAKE j \in 1 .. Len(x)
  <2>1. j \in 1 .. Len(s) + Len(t) /\ Len(u) = Len(t)
    BY <1>1, <1>2
  <2>2. CASE j <= Len(s)
    <3>1. j # k /\ j \in 1 .. Len(w)
      BY <1>1, <1>3, <2>1, <2>2
    <3> HIDE DEF k
    <3>2. x[j] = s[j]
      BY <1>2, <2>1, <2>2
    <3>3. w[j] = s[j]
      BY <1>3, <2>1, <2>2
    <3>4. y[j] = w[j]
      BY <1>5, <3>1
    <3> QED BY <3>2, <3>3, <3>4
  <2>3. CASE ~ (j <= Len(s))
    <3>1. j - Len(s) \in 1 .. Len(t) /\ (j - Len(s) = i <=> j = k)
      BY <1>1, <2>1, <2>3
    <3> HIDE DEF k
    <3> QED BY <1>1, <1>2, <1>3, <1>5, <2>1, <2>3, <3>1
  <2> QED BY <2>2, <2>3
<1>7. x = y
  BY <1>1, <1>2, <1>3, <1>5, <1>6, SeqEqual
<1> QED BY <1>7 DEF x, u, y, w

\* A string of whole units starts like one.
LEMMA StreamBegins ==
  ASSUME NEW w, NEW d, Stream(w, d), w # << >>
  PROVE  /\ w[1] \in {Dollar, Bang} /\ Len(w) \in Nat
         /\ w[1] = Dollar => /\ w[2] * Base + w[3] \in Nat \ {0}
                             /\ Len(w) >= 3 + (w[2] * Base + w[3])
         /\ w[1] # Dollar => Len(w) >= 5
<1>1. PICK v, o, w1, d1 : Unit(v, o) /\ Stream(w1, d1) /\ w = Join(v, w1) /\ d = Join(o, d1)
  BY StreamFront
<1>2. /\ v \in Seq(Byte) /\ Len(v) \in Nat /\ Len(v) >= 4 /\ w1 \in Seq(Byte) /\ Len(w1) \in Nat
      /\ v[1] \in {Dollar, Bang}
      /\ v[1] = Dollar => Len(v) = 3 + (v[2] * Base + v[3])
      /\ v[1] # Dollar => Len(v) = 5
  BY <1>1, UnitTypes, StreamTypes, LenProperties
<1>3. Len(w) = Len(v) + Len(w1)
  BY <1>1, <1>2, JoinBytes
<1>4. w[1] = v[1] /\ w[2] = v[2] /\ w[3] = v[3]
  <2>1. \A i \in 1 .. Len(v) + Len(w1) : w[i] = IF i <= Len(v) THEN v[i] ELSE w1[i - Len(v)]
    BY <1>1, <1>2, ConcatProperties DEF Join
  <2>2. \A i \in {1, 2, 3} : i \in 1 .. Len(v) + Len(w1) /\ i <= Len(v)
    BY <1>2
  <2> QED BY <2>1, <2>2
<1>5. v[1] = Dollar => v[2] * Base + v[3] \in Nat \ {0}
  <2> SUFFICES ASSUME v[1] = Dollar
               PROVE  v[2] * Base + v[3] \in Nat \ {0}
    OBVIOUS
  <2>1. v[2] \in Byte /\ v[3] \in Byte
    BY <1>2, ElementOfSeq
  <2> DEFINE n == v[2] * Base + v[3]
  <2>2. n \in Nat
    BY <2>1, NumberOfDigits
  <2>3. Len(v) = 3 + n
    BY <1>2
  <2> HIDE DEF n
  <2>4. n \in Nat \ {0}
    BY <1>2, <2>2, <2>3
  <2> QED BY <2>4 DEF n
<1>6. w[2] * Base + w[3] = v[2] * Base + v[3]
  BY <1>4
<1> DEFINE n == v[2] * Base + v[3]
<1>7. /\ v[1] = Dollar => n \in Nat \ {0} /\ Len(v) = 3 + n
      /\ w[2] * Base + w[3] = n
  BY <1>2, <1>5, <1>6
<1> HIDE DEF n
<1>8. w[1] \in {Dollar, Bang} /\ Len(w) \in Nat
  BY <1>2, <1>3, <1>4
<1>9. ASSUME w[1] = Dollar
      PROVE  w[2] * Base + w[3] = n /\ n \in Nat \ {0} /\ Len(w) >= 3 + n
  BY <1>2, <1>3, <1>4, <1>7, <1>9
<1>10. ASSUME w[1] # Dollar
       PROVE  Len(w) >= 5
  <2>1. Len(v) = 5
    <3>1. v[1] # Dollar
      BY <1>4, <1>10
    <3> QED BY <1>2, <3>1
  <2> QED BY <1>2, <1>3, <2>1
<1> QED BY <1>8, <1>9, <1>10

-----------------------------------------------------------------------------
(* What the bytes on their way amount to *)

\* Out of the bytes w, and g before them, comes d.
OnItsWay(w, g, d) == \E o : Stream(w, o) /\ d = Join(g, o)

\* The last of them is a frame nothing has happened to.
LastIntact(w, g, d) ==
  \E w0, o, p, c : /\ Stream(w0, o) /\ Sendable(p) /\ c \in Byte /\ HasParity(p, c)
                   /\ w = Join(w0, Encoding(p, c)) /\ d = Join(g, Append(o, p))

\* A frame as the ESP sends it.
LEMMA SentUnit ==
  ASSUME NEW p, Sendable(p), NEW c \in Byte
  PROVE  /\ Encoding(p, c) \in Seq(Byte)
         /\ HasParity(p, c) => Unit(Encoding(p, c), << p >>)
         /\ ~ HasParity(p, c) => Unit(Encoding(p, c), << Refusal >>)
BY EncodingIs DEF Unit, FrameUnit

LEMMA IntactIsOnItsWay ==
  ASSUME NEW w, NEW g, NEW d, LastIntact(w, g, d)
  PROVE  OnItsWay(w, g, d)
<1>1. PICK w0, o, p, c : /\ Stream(w0, o) /\ Sendable(p) /\ c \in Byte /\ HasParity(p, c)
                         /\ w = Join(w0, Encoding(p, c)) /\ d = Join(g, Append(o, p))
  BY DEF LastIntact
<1>2. Stream(w, Join(o, << p >>))
  BY <1>1, SentUnit, StreamGrows
<1>3. Append(o, p) = Join(o, << p >>)
  BY <1>1, StreamTypes, AppendJoined DEF Sendable
<1> QED BY <1>1, <1>2, <1>3 DEF OnItsWay

\* A unit is read.
LEMMA UnitRead ==
  ASSUME NEW v, NEW o, Unit(v, o), NEW x \in Seq(Byte), NEW g \in Seq(Seq(Byte)), NEW d,
         OnItsWay(Join(v, x), g, d)
  PROVE  /\ OnItsWay(x, Join(g, o), d)
         /\ LastIntact(Join(v, x), g, d) /\ x # << >> => LastIntact(x, Join(g, o), d)
<1>0. v \in Seq(Byte) /\ o \in Seq(Seq(Byte))
  BY UnitTypes
<1>1. OnItsWay(x, Join(g, o), d)
  <2>1. PICK a : Stream(Join(v, x), a) /\ d = Join(g, a)
    BY DEF OnItsWay
  <2>2. PICK a1 : Stream(x, a1) /\ a = Join(o, a1)
    BY <2>1, StreamRest
  <2>3. a1 \in Seq(Seq(Byte))
    BY <2>2, StreamTypes
  <2>4. Join(g, Join(o, a1)) = Join(Join(g, o), a1)
    BY <1>0, <2>3, JoinAssociative
  <2> QED BY <2>1, <2>2, <2>4 DEF OnItsWay
<1>2. ASSUME LastIntact(Join(v, x), g, d), x # << >>
      PROVE  LastIntact(x, Join(g, o), d)
  <2>1. PICK w0, a, p, c :
          /\ Stream(w0, a) /\ Sendable(p) /\ c \in Byte /\ HasParity(p, c)
          /\ Join(v, x) = Join(w0, Encoding(p, c)) /\ d = Join(g, Append(a, p))
    BY <1>2 DEF LastIntact
  <2> DEFINE e == Encoding(p, c)
  <2>2. e \in Seq(Byte) /\ Unit(e, << p >>) /\ p \in Seq(Byte) /\ Join(v, x) = Join(w0, e)
    BY <2>1, SentUnit DEF Sendable
  <2> HIDE DEF e
  <2>3. CASE w0 = << >>
    <3> DEFINE z == << >>
               r == << p >>
    <3>1. Join(w0, e) = e /\ Join(e, z) = e /\ z \in Seq(Byte) /\ Unit(e, r)
      BY <2>2, <2>3, JoinNothing, EmptySeq
    <3> HIDE DEF r
    <3>2. x = z
      <4> HIDE DEF z
      <4>1. Join(v, x) = Join(e, z)
        BY <2>2, <3>1
      <4> QED BY <3>1, <4>1, PrefixCode
    <3> QED BY <1>2, <3>2
  <2>4. CASE w0 # << >>
    <3>1. PICK u, q, w1, a1 : /\ Unit(u, q) /\ Stream(w1, a1)
                              /\ w0 = Join(u, w1) /\ a = Join(q, a1)
      BY <2>1, <2>4, StreamFront
    <3>2. /\ u \in Seq(Byte) /\ q \in Seq(Seq(Byte)) /\ w1 \in Seq(Byte) /\ a1 \in Seq(Seq(Byte))
      BY <3>1, UnitTypes, StreamTypes
    <3> DEFINE y == Join(w1, e)
    <3>3. y \in Seq(Byte) /\ Join(Join(u, w1), e) = Join(u, y)
      BY <2>2, <3>2, JoinAssociative, JoinBytes
    <3> HIDE DEF y
    <3>4. Join(v, x) = Join(u, y)
      BY <2>2, <3>1, <3>3
    <3>5. v = u /\ x = y /\ o = q
      BY <3>1, <3>3, <3>4, PrefixCode
    <3>6. Append(a, p) = Join(o, Append(a1, p)) /\ Append(a1, p) \in Seq(Seq(Byte))
      BY <2>2, <3>1, <3>2, <3>5, AppendJoined
    <3> DEFINE z == Append(a1, p)
    <3>7. Join(g, Join(o, z)) = Join(Join(g, o), z)
      <4>1. z \in Seq(Seq(Byte))
        BY <3>6
      <4> HIDE DEF z
      <4> QED BY <1>0, <4>1, JoinAssociative
    <3>8. d = Join(Join(g, o), z)
      BY <2>1, <3>6, <3>7
    <3>9. x = Join(w1, Encoding(p, c))
      BY <3>5 DEF y, e
    <3> QED BY <2>1, <3>1, <3>8, <3>9 DEF LastIntact
  <2> QED BY <2>3, <2>4
<1> QED BY <1>1, <1>2

-----------------------------------------------------------------------------
(* The bytes between the last unit handled and the ESP *)

\* What the parser has taken of the unit it is reading.
Consumed ==
  IF mode = "payload" THEN Join(Header(size), buf)
  ELSE IF mode = "reply" THEN Join(<< Bang >>, buf) ELSE << >>

Whole == Join(Consumed, Join(rx, line))

InMode ==
  /\ mode # "spin"
  /\ mode = "length" => rx # << >> /\ Head(rx) = Dollar
  /\ mode = "payload" => size > 0 /\ Len(buf) < size /\ HasParity(buf, checksum)
  /\ mode = "reply" => Len(buf) < 4

\* Until it is damaged, the wire holds whole units that come to what is still due.
InStep ==
  /\ InMode
  /\ OnItsWay(Whole, got, due)
  /\ ~garbled /\ line # << >> => LastIntact(Whole, got, due)

\* The parser hangs, and handles nothing of what is sent later.
Hung == mode = "spin" /\ got = << >> /\ due # << >>

ChannelInv ==
  /\ IInv
  /\ clean => InStep \/ Hung
  /\ ~clean => due = << >> /\ got = << >>

\* A step of the channel, or none.
ChannelStep == [Channel!Next]_<<clean, due, got>>

-----------------------------------------------------------------------------
LEMMA ConsumedTypes ==
  ASSUME TypeOK
  PROVE  /\ Consumed \in Seq(Byte) /\ Whole \in Seq(Byte) /\ Join(rx, line) \in Seq(Byte)
         /\ size \in Nat /\ size < Base * Base
         /\ mode = "payload" => Len(Consumed) = 3 + Len(buf)
         /\ mode = "reply" => Len(Consumed) = 1 + Len(buf)
<1>1. /\ buf \in Seq(Byte) /\ rx \in Seq(Byte) /\ line \in Seq(Byte)
      /\ mode \in {"idle", "length", "payload", "reply", "spin"}
  BY DEF TypeOK
<1>2. size \in Nat /\ size < Base * Base
  <2>1. \A b \in Nat \ {0, 1} : \A n \in 0 .. b * b - 1 : n \in Nat /\ n < b * b
    OBVIOUS
  <2> QED BY <2>1, BytesAssumption DEF TypeOK, NoLength
<1> DEFINE h == Header(size)
           b == << Bang >>
<1>3. h \in Seq(Byte) /\ Len(h) = 3
  BY <1>2, HeaderTypes
<1>4. b \in Seq(Byte) /\ Len(b) = 1
  BY BytesAssumption
<1> HIDE DEF h, b
<1>5. /\ Join(h, buf) \in Seq(Byte) /\ Len(Join(h, buf)) = 3 + Len(buf)
      /\ Join(b, buf) \in Seq(Byte) /\ Len(Join(b, buf)) = 1 + Len(buf)
  BY <1>1, <1>3, <1>4, JoinBytes
<1>6. Consumed = IF mode = "payload" THEN Join(h, buf)
                 ELSE IF mode = "reply" THEN Join(b, buf) ELSE << >>
  BY DEF Consumed, h, b
<1>7. Consumed \in Seq(Byte)
  BY <1>5, <1>6, EmptySeq
<1>8. Join(rx, line) \in Seq(Byte)
  BY <1>1, JoinBytes
<1>9. Whole \in Seq(Byte)
  BY <1>7, <1>8, JoinBytes DEF Whole
<1> QED BY <1>2, <1>5, <1>6, <1>7, <1>8, <1>9

\* A byte moves from the receive buffer to what is being read.
LEMMA Advance ==
  ASSUME NEW c \in Seq(Byte), NEW r \in Seq(Byte), NEW l \in Seq(Byte), r # << >>
  PROVE  Join(Join(c, << Head(r) >>), Join(Tail(r), l)) = Join(c, Join(r, l))
<1> DEFINE h == << Head(r) >>
           t == Tail(r)
<1>1. h \in Seq(Byte) /\ t \in Seq(Byte)
  BY HeadIsByte, ByteSeqs
<1>2. r = Join(h, t)
  BY ByteSeqs, HeadIsByte
<1> HIDE DEF h, t
<1>3. Join(t, l) \in Seq(Byte) /\ Join(r, l) = Join(h, Join(t, l))
  BY <1>1, <1>2, JoinAssociative, JoinBytes
<1> DEFINE k == Join(t, l)
<1>4. k \in Seq(Byte) /\ Join(r, l) = Join(h, k)
  BY <1>3
<1> HIDE DEF k
<1>5. Join(Join(c, h), k) = Join(c, Join(h, k))
  BY <1>1, <1>4, JoinAssociative
<1> QED BY <1>4, <1>5 DEF h, t, k

\* Steps that move bytes on and handle no unit.
LEMMA SameBytes ==
  ASSUME InStep, InMode', Whole' = Whole, got' = got, due' = due, garbled' = garbled,
         line' # << >> => line # << >>
  PROVE  InStep'
BY DEF InStep

-----------------------------------------------------------------------------
(* events() reads *)

LEMMA BeginFrameInStep ==
  ASSUME TypeOK, InStep, BeginFrame
  PROVE  InStep'
<1>1. InMode'
  BY DEF BeginFrame, InMode
<1>2. Consumed = << >> /\ Consumed' = << >>
  BY DEF BeginFrame, Consumed
<1>3. Whole' = Whole
  BY <1>2 DEF Whole, BeginFrame
<1> QED BY <1>1, <1>3, SameBytes DEF BeginFrame, history

LEMMA BeginReplyInStep ==
  ASSUME TypeOK, InStep, BeginReply
  PROVE  InStep'
<1>1. InMode'
  BY EmptySeq DEF BeginReply, InMode
<1> DEFINE h == << Head(rx) >>
<1>2. rx \in Seq(Byte) /\ line \in Seq(Byte) /\ << >> \in Seq(Byte) /\ h \in Seq(Byte) /\ rx # << >>
  BY EmptySeq, HeadIsByte, ByteSeqs DEF TypeOK, BeginReply
<1>3. Consumed = << >> /\ Consumed' = h
  <2>1. Consumed = << >> /\ Consumed' = Join(h, << >>)
    BY DEF BeginReply, Consumed
  <2> QED BY <1>2, <2>1, JoinNothing
<1> DEFINE z == << >>
<1>4. h = Join(z, h) /\ z \in Seq(Byte)
  BY <1>2, JoinNothing
<1>5. Join(Join(z, h), Join(Tail(rx), line)) = Join(z, Join(rx, line))
  <2> HIDE DEF z
  <2> QED BY <1>2, <1>4, Advance
<1>6. Whole' = Whole
  BY <1>3, <1>4, <1>5 DEF Whole, BeginReply
<1> QED BY <1>1, <1>6, SameBytes DEF BeginReply, history

\* The bytes behind '$' are two of the length, and it is not 0.
LEMMA LengthArrivedInStep ==
  ASSUME TypeOK, InStep, LengthArrived
  PROVE  InStep' /\ size' > 0
<1> DEFINE h == SubSeq(rx, 1, 3)
           t == SubSeq(rx, 4, Len(rx))
           n == rx[2] * Base + rx[3]
<1>1. rx \in Seq(Byte) /\ line \in Seq(Byte) /\ Len(rx) \in Nat /\ Len(rx) >= 4 /\ rx # << >>
  BY LenProperties, EmptySeq DEF TypeOK, LengthArrived
<1>2. size' = n /\ rx' = t /\ mode' = "payload" /\ buf' = << >> /\ checksum' = 0
  BY <1>1 DEF LengthArrived, ReadLength, Length
<1>3. rx[1] = Dollar
  BY <1>1, HeadTailProperties DEF InStep, InMode, LengthArrived
<1>4. rx[2] \in Byte /\ rx[3] \in Byte
  BY <1>1, ElementOfSeq
<1>5. /\ n \in Nat /\ n < Base * Base /\ n \div Base = rx[2] /\ n % Base = rx[3]
  BY <1>4, NumberOfDigits
<1>6. Header(n) = << rx[1], rx[2], rx[3] >>
  BY <1>3, <1>5 DEF Header
<1> HIDE DEF n
<1>7. h = Header(n) /\ h \in Seq(Byte) /\ t \in Seq(Byte) /\ rx = Join(h, t)
  <2>1. /\ h \in Seq(Byte) /\ Len(h) = 3 /\ \A i \in 1 .. 3 : h[i] = rx[i]
    <3>1. \A i \in 1 .. 3 : rx[i] \in Byte
      BY <1>1, ElementOfSeq
    <3>2. /\ h \in Seq(Byte) /\ Len(h) = 3
      BY <1>1, <3>1, SubSeqProperties
    <3>3. \A i \in 1 .. 3 : h[i] = rx[i]
      BY <1>1, SubSeqProperties
    <3> QED BY <3>2, <3>3
  <2>2. /\ Header(n) \in Seq(Byte) /\ Len(Header(n)) = 3
        /\ \A i \in 1 .. 3 : Header(n)[i] = rx[i]
    <3>1. /\ Header(n) \in Seq(Byte) /\ Len(Header(n)) = 3
      BY <1>5, HeaderTypes
    <3>2. Header(n)[1] = rx[1] /\ Header(n)[2] = rx[2] /\ Header(n)[3] = rx[3]
      BY <1>6
    <3> QED BY <3>1, <3>2
  <2>3. t \in Seq(Byte)
    BY <1>1, RestTypes
  <2>4. h = Header(n)
    <3> HIDE DEF h
    <3> QED BY <2>1, <2>2, SeqEqual
  <2>5. rx = Join(h, t)
    <3>1. SubSeq(rx, 1, 3) \o SubSeq(rx, 3 + 1, Len(rx)) = SubSeq(rx, 1, Len(rx))
      BY <1>1, ConcatAdjacentSubSeq
    <3>2. SubSeq(rx, 1, Len(rx)) = rx
      BY <1>1, SubSeqFull
    <3> QED BY <3>1, <3>2 DEF Join
  <2> QED BY <2>1, <2>3, <2>4, <2>5
<1>8. Consumed = << >> /\ Consumed' = h
  <2>1. Consumed = << >> /\ Consumed' = Join(Header(n), << >>)
    BY <1>2 DEF LengthArrived, Consumed
  <2> QED BY <1>7, <2>1, JoinNothing
<1> HIDE DEF h, t
<1>9. Whole' = Whole
  <2>1. Join(rx, line) = Join(h, Join(t, line)) /\ Join(rx, line) \in Seq(Byte)
    BY <1>1, <1>7, JoinAssociative, JoinBytes
  <2>2. Whole = Join(rx, line)
    BY <1>8, <2>1, JoinNothing DEF Whole
  <2>3. Whole' = Join(h, Join(t, line))
    BY <1>2, <1>8 DEF Whole, LengthArrived
  <2> QED BY <2>1, <2>2, <2>3
<1>10. n > 0
  <2>1. Whole = Join(rx, line) /\ Len(Whole) = Len(rx) + Len(line) /\ Len(line) \in Nat
    <3>1. Join(rx, line) \in Seq(Byte) /\ Len(Join(rx, line)) = Len(rx) + Len(line)
      BY <1>1, JoinBytes
    <3> QED BY <1>1, <1>8, <3>1, JoinNothing, LenProperties DEF Whole
  <2>2. Whole # << >>
    BY <1>1, <2>1, EmptySeq
  <2>3. Whole[1] = Dollar /\ Whole[2] = rx[2] /\ Whole[3] = rx[3]
    <3>1. \A i \in 1 .. Len(rx) + Len(line) : Whole[i] = IF i <= Len(rx) THEN rx[i] ELSE line[i - Len(rx)]
      BY <1>1, <2>1, ConcatProperties DEF Join
    <3>2. \A i \in {1, 2, 3} : i \in 1 .. Len(rx) + Len(line) /\ i <= Len(rx)
      BY <1>1, <2>1
    <3> QED BY <1>3, <3>1, <3>2
  <2>4. PICK o : Stream(Whole, o)
    BY DEF InStep, OnItsWay
  <2>5. Whole[2] * Base + Whole[3] \in Nat \ {0}
    BY <2>2, <2>3, <2>4, StreamBegins
  <2>6. Whole[2] * Base + Whole[3] = n
    BY <2>3 DEF n
  <2> QED BY <1>5, <2>5, <2>6
<1>11. InMode'
  <2>1. HasParity(<< >>, 0)
    BY ParityOfNothing
  <2> QED BY <1>2, <1>10, <2>1, EmptySeq DEF InMode
<1> QED BY <1>2, <1>9, <1>10, <1>11, SameBytes DEF LengthArrived, history

LEMMA JoinAppended ==
  ASSUME NEW s \in Seq(Byte), NEW t \in Seq(Byte), NEW b \in Byte
  PROVE  Join(Join(s, t), << b >>) = Join(s, Append(t, b)) /\ Append(t, b) \in Seq(Byte)
<1> DEFINE x == << b >>
<1>1. x \in Seq(Byte) /\ Append(t, b) = Join(t, x) /\ Append(t, b) \in Seq(Byte)
  BY ByteSeqs
<1> HIDE DEF x
<1>2. Join(Join(s, t), x) = Join(s, Join(t, x))
  BY <1>1, JoinAssociative
<1> QED BY <1>1, <1>2 DEF x

\* What is due next is what the first unit on its way comes to.
LEMMA DueNext ==
  ASSUME NEW x, NEW g \in Seq(Seq(Byte)), NEW e \in Seq(Byte), NEW d,
         OnItsWay(x, Join(g, << e >>), d)
  PROVE  /\ Len(g) < Len(d) /\ d[Len(g) + 1] = e
         /\ Append(g, e) = Join(g, << e >>)
<1> DEFINE r == << e >>
           k == Join(g, r)
<1>1. /\ r \in Seq(Seq(Byte)) /\ Len(r) = 1 /\ r[1] = e
      /\ Append(g, e) = k /\ Append(g, e) \in Seq(Seq(Byte))
  BY AppendJoined
<1>2. Len(k) = Len(g) + 1 /\ k[Len(g) + 1] = e /\ Len(g) \in Nat /\ k \in Seq(Seq(Byte))
  BY <1>1, AppendProperties, LenProperties
<1>3. PICK a : Stream(x, a) /\ d = Join(k, a)
  BY DEF OnItsWay
<1>4. a \in Seq(Seq(Byte)) /\ Len(a) \in Nat
  BY <1>3, StreamTypes, LenProperties
<1> HIDE DEF k
<1>5. Len(d) = Len(k) + Len(a)
  BY <1>2, <1>3, <1>4, JoinOutcomes
<1>6. \A i \in 1 .. Len(k) + Len(a) : d[i] = IF i <= Len(k) THEN k[i] ELSE a[i - Len(k)]
  BY <1>2, <1>3, <1>4, ConcatProperties DEF Join
<1>7. Len(k) \in 1 .. Len(k) + Len(a) /\ Len(k) <= Len(k)
  BY <1>2, <1>4
<1>8. d[Len(g) + 1] = e
  BY <1>2, <1>6, <1>7
<1>9. Len(g) < Len(d)
  BY <1>2, <1>4, <1>5
<1> QED BY <1>1, <1>8, <1>9 DEF k

\* The byte read, and the bytes that are left.
LEMMA ByteRead ==
  ASSUME TypeOK, rx # << >>
  PROVE  /\ Head(rx) \in Byte /\ Tail(rx) \in Seq(Byte) /\ << Head(rx) >> \in Seq(Byte)
         /\ Join(Tail(rx), line) \in Seq(Byte)
         /\ Whole = Join(Join(Consumed, << Head(rx) >>), Join(Tail(rx), line))
<1>1. rx \in Seq(Byte) /\ line \in Seq(Byte) /\ Consumed \in Seq(Byte)
  BY ConsumedTypes DEF TypeOK
<1>2. Head(rx) \in Byte /\ Tail(rx) \in Seq(Byte)
  BY <1>1, HeadIsByte
<1>3. << Head(rx) >> \in Seq(Byte)
  BY <1>2, ByteSeqs
<1>4. Join(Tail(rx), line) \in Seq(Byte)
  BY <1>1, <1>2, JoinBytes
<1>5. Join(Join(Consumed, << Head(rx) >>), Join(Tail(rx), line)) = Join(Consumed, Join(rx, line))
  BY <1>1, Advance
<1> QED BY <1>2, <1>3, <1>4, <1>5 DEF Whole

\* A byte of the payload that is not the last one.
LEMMA PayloadByteInStep ==
  ASSUME TypeOK, InStep, ReadPayload, Len(buf) + 1 < size
  PROVE  InStep' /\ UNCHANGED <<clean, due, got>>
<1> DEFINE b == Head(rx)
           h == Header(size)
           k == Join(Tail(rx), line)
<1>1. /\ b \in Byte /\ k \in Seq(Byte) /\ Whole = Join(Join(Consumed, << b >>), k)
      /\ buf \in Seq(Byte) /\ checksum \in Byte /\ Len(buf) \in Nat /\ size \in Nat
      /\ h \in Seq(Byte)
  <2>1. /\ b \in Byte /\ k \in Seq(Byte) /\ Whole = Join(Join(Consumed, << b >>), k)
    BY ByteRead DEF ReadPayload
  <2>2. /\ buf \in Seq(Byte) /\ checksum \in Byte /\ Len(buf) \in Nat
    BY LenProperties DEF TypeOK
  <2> QED BY <2>1, <2>2, ConsumedTypes, HeaderTypes
<1>2. /\ mode = "payload" /\ mode' = "payload" /\ rx' = Tail(rx) /\ line' = line
      /\ buf' = Append(buf, b) /\ size' = size /\ checksum' = Sum(b)
      /\ got' = got /\ due' = due /\ garbled' = garbled /\ clean' = clean
  BY <1>1 DEF ReadPayload
<1>3. Sum(b) = Xor(checksum, b)
  BY <1>1 DEF Sum
<1>4. InMode'
  <2>1. HasParity(buf, checksum)
    BY <1>2 DEF InStep, InMode
  <2>2. HasParity(Append(buf, b), Xor(checksum, b))
    BY <1>1, <2>1, ParityGrows
  <2>3. Len(Append(buf, b)) = Len(buf) + 1
    BY <1>1, AppendProperties
  <2>4. size > 0 /\ Len(Append(buf, b)) < size
    BY <1>1, <2>3
  <2> QED BY <1>2, <1>3, <2>2, <2>4 DEF InMode
<1>5. Join(Consumed, << b >>) = Join(h, Append(buf, b))
  <2>1. Consumed = Join(h, buf)
    BY <1>2 DEF Consumed
  <2> HIDE DEF h, b
  <2> QED BY <1>1, <2>1, JoinAppended
<1>6. Whole' = Join(Join(h, Append(buf, b)), k)
  BY <1>2 DEF Whole, Consumed
<1>7. Whole' = Whole
  BY <1>1, <1>5, <1>6
<1> QED BY <1>2, <1>4, <1>7, SameBytes

\* The last byte of a frame: its payload is handed over, or refused.
LEMMA PayloadClosesInStep ==
  ASSUME TypeOK, clean, InStep, ReadPayload, ~ (Len(buf) + 1 < size)
  PROVE  InStep' /\ clean' /\ Channel!Next
<1> DEFINE b == Head(rx)
           h == Header(size)
           k == Join(Tail(rx), line)
           o == IF HasParity(buf, b) THEN buf ELSE Refusal
           e == Encoding(buf, b)
           r == << o >>
<1>1. /\ b \in Byte /\ k \in Seq(Byte) /\ Whole = Join(Join(Consumed, << b >>), k)
      /\ buf \in Seq(Byte) /\ checksum \in Byte /\ Len(buf) \in Nat /\ size \in Nat
      /\ size < Base * Base /\ h \in Seq(Byte) /\ got \in Seq(Seq(Byte))
  <2>1. /\ b \in Byte /\ k \in Seq(Byte) /\ Whole = Join(Join(Consumed, << b >>), k)
    BY ByteRead DEF ReadPayload
  <2>2. /\ buf \in Seq(Byte) /\ checksum \in Byte /\ Len(buf) \in Nat /\ got \in Seq(Seq(Byte))
    BY LenProperties DEF TypeOK
  <2> QED BY <2>1, <2>2, ConsumedTypes, HeaderTypes
<1>2. /\ mode = "payload" /\ Len(buf) < size /\ HasParity(buf, checksum)
      /\ Len(buf) + 1 = size
  <2>1. mode = "payload" /\ Len(buf) < size /\ HasParity(buf, checksum)
    BY DEF InStep, InMode, ReadPayload
  <2> QED BY <1>1, <2>1
<1>3. /\ mode' = "idle" /\ rx' = Tail(rx) /\ line' = line /\ clean' = clean
      /\ due' = due /\ garbled' = garbled /\ Closing(b)
  BY <1>1, <1>2 DEF ReadPayload
<1>4. Sum(b) = checksum
  BY <1>1, <1>2 DEF Sum
<1>5. HasParity(buf, b) <=> b = checksum
  BY <1>1, <1>2, ParityIsOne
<1>6. got' = Append(got, o) /\ o \in Seq(Byte)
  BY <1>1, <1>3, <1>4, <1>5, EmptySeq DEF Closing, Outcome, Refusal
<1>7. Unit(e, r) /\ e = Join(h, Append(buf, b))
  <2>1. Sendable(buf)
    BY <1>1, <1>2 DEF Sendable
  <2>2. Encoding(buf, b) = Header(Len(buf) + 1) \o Append(buf, b)
    BY <1>1, <2>1, EncodingIs
  <2> QED BY <1>1, <1>2, <2>1, <2>2 DEF Unit, FrameUnit, Join
<1>8. Join(Consumed, << b >>) = e
  <2>1. Consumed = Join(h, buf)
    BY <1>2 DEF Consumed
  <2> HIDE DEF h, b, e
  <2> QED BY <1>1, <1>7, <2>1, JoinAppended
<1>9. Whole' = k
  <2>1. Consumed' = << >>
    BY <1>3 DEF Consumed
  <2>2. Whole' = Join(<< >>, k)
    BY <1>3, <2>1 DEF Whole
  <2> QED BY <1>1, <2>2, JoinNothing
<1> HIDE DEF b, h, o, e
<1>10. OnItsWay(Join(e, k), got, due) /\ (~garbled /\ line # << >> => LastIntact(Join(e, k), got, due))
  BY <1>1, <1>8 DEF InStep
<1>11. line # << >> => k # << >>
  <2>1. Tail(rx) \in Seq(Byte) /\ line \in Seq(Byte)
    BY ByteRead DEF TypeOK, ReadPayload
  <2>2. Len(k) = Len(Tail(rx)) + Len(line) /\ Len(Tail(rx)) \in Nat /\ Len(line) \in Nat
    BY <2>1, JoinBytes, LenProperties
  <2>3. line # << >> => Len(line) # 0
    BY <2>1, EmptySeq
  <2> HIDE DEF k
  <2>4. line # << >> => Len(k) # 0
    BY <2>2, <2>3
  <2> QED BY <2>4, EmptySeq
<1> HIDE DEF k, r
<1>12. /\ OnItsWay(k, Join(got, r), due)
       /\ ~garbled /\ line # << >> => LastIntact(k, Join(got, r), due)
  BY <1>1, <1>7, <1>10, <1>11, UnitRead
<1>13. /\ Len(got) < Len(due) /\ due[Len(got) + 1] = o /\ Append(got, o) = Join(got, r)
  BY <1>1, <1>6, <1>12, DueNext DEF r
<1>14. InStep'
  <2>1. InMode'
    BY <1>3 DEF InMode
  <2> QED BY <1>3, <1>6, <1>9, <1>12, <1>13, <2>1 DEF InStep
<1> QED BY <1>3, <1>6, <1>13, <1>14 DEF Channel!Next, Channel!Deliver

\* A byte of a reply; the last one ends it and nothing becomes of it.
LEMMA ReplyByteInStep ==
  ASSUME TypeOK, InStep, ReadReply, Len(buf) + 1 < 4
  PROVE  InStep' /\ UNCHANGED <<clean, due, got>>
<1> DEFINE b == Head(rx)
           h == << Bang >>
           k == Join(Tail(rx), line)
<1>1. /\ b \in Byte /\ k \in Seq(Byte) /\ Whole = Join(Join(Consumed, << b >>), k)
      /\ buf \in Seq(Byte) /\ Len(buf) \in Nat /\ h \in Seq(Byte)
  <2>1. /\ b \in Byte /\ k \in Seq(Byte) /\ Whole = Join(Join(Consumed, << b >>), k)
    BY ByteRead DEF ReadReply
  <2> QED BY <2>1, BytesAssumption, ByteSeqs, LenProperties DEF TypeOK
<1>2. /\ mode = "reply" /\ mode' = "reply" /\ rx' = Tail(rx) /\ line' = line
      /\ buf' = Append(buf, b) /\ UNCHANGED <<size, checksum, clean, due, got, garbled>>
  BY <1>1 DEF ReadReply, ReplyLength, history
<1>3. InMode'
  <2>1. Len(Append(buf, b)) = Len(buf) + 1
    BY <1>1, AppendProperties
  <2>2. Len(Append(buf, b)) < 4
    BY <1>1, <2>1
  <2> QED BY <1>2, <2>2 DEF InMode
<1>4. Join(Consumed, << b >>) = Join(h, Append(buf, b))
  <2>1. Consumed = Join(h, buf)
    BY <1>2 DEF Consumed
  <2> HIDE DEF h, b
  <2> QED BY <1>1, <2>1, JoinAppended
<1>5. Whole' = Join(Join(h, Append(buf, b)), k)
  BY <1>2 DEF Whole, Consumed
<1>6. Whole' = Whole
  BY <1>1, <1>4, <1>5
<1> QED BY <1>2, <1>3, <1>6, SameBytes

LEMMA ReplyClosesInStep ==
  ASSUME TypeOK, InStep, ReadReply, ~ (Len(buf) + 1 < 4)
  PROVE  InStep' /\ UNCHANGED <<clean, due, got>>
<1> DEFINE b == Head(rx)
           h == << Bang >>
           k == Join(Tail(rx), line)
           q == Append(buf, b)
           e == Join(h, q)
           r == << >>
<1>1. /\ b \in Byte /\ k \in Seq(Byte) /\ Whole = Join(Join(Consumed, << b >>), k)
      /\ buf \in Seq(Byte) /\ Len(buf) \in Nat /\ h \in Seq(Byte) /\ got \in Seq(Seq(Byte))
  <2>1. /\ b \in Byte /\ k \in Seq(Byte) /\ Whole = Join(Join(Consumed, << b >>), k)
    BY ByteRead DEF ReadReply
  <2> QED BY <2>1, BytesAssumption, ByteSeqs, LenProperties DEF TypeOK
<1>2. mode = "reply" /\ Len(buf) = 3
  <2>1. mode = "reply" /\ Len(buf) < 4
    BY DEF InStep, InMode, ReadReply
  <2>2. Len(buf) \in Nat /\ ~ (Len(buf) + 1 < 4)
    BY <1>1
  <2>3. \A n \in Nat : n < 4 /\ ~ (n + 1 < 4) => n = 3
    OBVIOUS
  <2>4. Len(buf) = 3
    BY <2>1, <2>2, <2>3
  <2> QED BY <2>1, <2>4
<1>3. /\ mode' = "idle" /\ rx' = Tail(rx) /\ line' = line
      /\ UNCHANGED <<clean, due, got, garbled>>
  BY <1>1, <1>2 DEF ReadReply, ReplyLength, history
<1>4. Unit(e, r)
  <2>1. q \in Seq(Byte) /\ Len(q) = 4
    <3>1. Append(buf, b) \in Seq(Byte) /\ Len(Append(buf, b)) = Len(buf) + 1
      BY <1>1, AppendProperties
    <3> QED BY <1>2, <3>1
  <2>2. e = << Bang >> \o q
    BY DEF Join
  <2> HIDE DEF q, e
  <2> QED BY <2>1, <2>2 DEF Unit, ReplyUnit
<1>5. Join(Consumed, << b >>) = e
  <2>1. Consumed = Join(h, buf)
    BY <1>2 DEF Consumed
  <2> HIDE DEF h, b
  <2> QED BY <1>1, <2>1, JoinAppended
<1>6. Whole' = k
  <2>1. Consumed' = << >>
    BY <1>3 DEF Consumed
  <2>2. Whole' = Join(<< >>, k)
    BY <1>3, <2>1 DEF Whole
  <2> QED BY <1>1, <2>2, JoinNothing
<1> HIDE DEF b, h, q, e
<1>7. OnItsWay(Join(e, k), got, due) /\ (~garbled /\ line # << >> => LastIntact(Join(e, k), got, due))
  BY <1>1, <1>5 DEF InStep
<1>8. line # << >> => k # << >>
  <2>1. Tail(rx) \in Seq(Byte) /\ line \in Seq(Byte)
    BY ByteRead DEF TypeOK, ReadReply
  <2>2. Len(k) = Len(Tail(rx)) + Len(line) /\ Len(Tail(rx)) \in Nat /\ Len(line) \in Nat
    BY <2>1, JoinBytes, LenProperties
  <2>3. line # << >> => Len(line) # 0
    BY <2>1, EmptySeq
  <2> HIDE DEF k
  <2>4. line # << >> => Len(k) # 0
    BY <2>2, <2>3
  <2> QED BY <2>4, EmptySeq
<1>9. Join(got, r) = got
  BY <1>1, JoinNothing
<1> HIDE DEF k, r
<1>10. /\ OnItsWay(k, got, due)
       /\ ~garbled /\ line # << >> => LastIntact(k, got, due)
  BY <1>1, <1>4, <1>7, <1>8, <1>9, UnitRead
<1>11. InMode'
  BY <1>3 DEF InMode
<1> QED BY <1>3, <1>6, <1>10, <1>11 DEF InStep

-----------------------------------------------------------------------------
(* What cannot happen on an undamaged wire: bytes that begin nothing, a length of *)
(* 0, and silence in the middle of a frame                                        *)

LEMMA WholeBegins ==
  ASSUME TypeOK, InStep, Whole # << >>
  PROVE  /\ Whole[1] \in {Dollar, Bang} /\ Len(Whole) \in Nat
         /\ Whole[1] = Dollar => /\ Whole[2] * Base + Whole[3] \in Nat \ {0}
                                 /\ Len(Whole) >= 3 + (Whole[2] * Base + Whole[3])
         /\ Whole[1] # Dollar => Len(Whole) >= 5
<1>1. PICK o : Stream(Whole, o)
  BY DEF InStep, OnItsWay
<1> QED BY <1>1, StreamBegins

\* The first byte is the first of the first part that has one.
LEMMA JoinFirst ==
  ASSUME NEW s \in Seq(Byte), NEW t \in Seq(Byte), s # << >>
  PROVE  Join(s, t) # << >> /\ Join(s, t)[1] = s[1] /\ s[1] = Head(s)
<1> DEFINE w == Join(s, t)
<1>1. w \in Seq(Byte) /\ Len(w) = Len(s) + Len(t) /\ Len(s) \in Nat \ {0} /\ Len(t) \in Nat
  BY JoinBytes, LenProperties, EmptySeq
<1>2. \A i \in 1 .. Len(s) + Len(t) : w[i] = IF i <= Len(s) THEN s[i] ELSE t[i - Len(s)]
  BY ConcatProperties DEF Join
<1> HIDE DEF w
<1>3. w # << >>
  BY <1>1, EmptySeq
<1>4. w[1] = s[1]
  BY <1>1, <1>2
<1> QED BY <1>3, <1>4, HeadTailProperties DEF w

LEMMA NothingFlushed ==
  ASSUME TypeOK, InStep, Flush
  PROVE  FALSE
<1>1. rx \in Seq(Byte) /\ line \in Seq(Byte) /\ rx # << >> /\ Join(rx, line) \in Seq(Byte)
  BY ConsumedTypes DEF TypeOK, Flush
<1>2. Consumed = << >>
  BY DEF Flush, Consumed
<1>3. Whole = Join(rx, line)
  BY <1>1, <1>2, JoinNothing DEF Whole
<1> QED BY <1>1, <1>3, JoinFirst, WholeBegins DEF Flush

LEMMA NoEmptyFrame ==
  ASSUME InStep, ReadNothing
  PROVE  FALSE
BY DEF InStep, InMode, ReadNothing

\* When nothing has arrived that is not read, and nothing is on the line, nothing
\* is being waited for.
LEMMA NothingLacking ==
  ASSUME TypeOK, InStep, Lacking, line = << >>
  PROVE  FALSE
<1>1. /\ rx \in Seq(Byte) /\ Consumed \in Seq(Byte) /\ Join(rx, line) = rx
      /\ Whole = Join(Consumed, rx) /\ buf \in Seq(Byte) /\ Len(buf) \in Nat
  BY ConsumedTypes, JoinNothing, LenProperties DEF TypeOK, Whole
<1>2. CASE mode = "length"
  <2>1. rx # << >> /\ Head(rx) = Dollar /\ Len(rx) < 4
    BY <1>2 DEF InStep, InMode, Lacking
  <2>2. Whole = rx
    <3>1. Consumed = << >>
      BY <1>2 DEF Consumed
    <3> QED BY <1>1, <3>1, JoinNothing
  <2>3. Whole # << >> /\ Whole[1] = Dollar /\ Len(Whole) < 4
    BY <1>1, <2>1, <2>2, HeadTailProperties
  <2> DEFINE n == Whole[2] * Base + Whole[3]
  <2>4. n \in Nat \ {0} /\ Len(Whole) >= 3 + n /\ Len(Whole) \in Nat
    BY <2>3, WholeBegins
  <2> HIDE DEF n
  <2> QED BY <2>3, <2>4
<1>3. CASE mode \in {"payload", "reply"}
  <2>1. rx = << >>
    BY <1>3 DEF Lacking
  <2>2. Whole = Consumed
    BY <1>1, <2>1, JoinNothing
  <2>3. CASE mode = "payload"
    <3> DEFINE h == Header(size)
               n == Whole[2] * Base + Whole[3]
    <3>1. size \in Nat /\ size < Base * Base /\ Len(Whole) = 3 + Len(buf) /\ Len(buf) < size
      BY <2>2, <2>3, ConsumedTypes DEF InStep, InMode
    <3>2. /\ h \in Seq(Byte) /\ Len(h) = 3 /\ h[1] = Dollar /\ h[2] * Base + h[3] = size
      BY <3>1, HeaderTypes
    <3>3. Whole = Join(h, buf)
      BY <2>2, <2>3 DEF Consumed
    <3> HIDE DEF h
    <3>4. Whole[1] = h[1] /\ Whole[2] = h[2] /\ Whole[3] = h[3] /\ Whole # << >>
      <4>1. \A i \in 1 .. Len(h) + Len(buf) :
              Join(h, buf)[i] = IF i <= Len(h) THEN h[i] ELSE buf[i - Len(h)]
        BY <1>1, <3>2, ConcatProperties DEF Join
      <4>2. \A i \in {1, 2, 3} : i \in 1 .. Len(h) + Len(buf) /\ i <= Len(h)
        BY <1>1, <3>2
      <4>3. Len(Whole) # 0
        BY <1>1, <3>1
      <4>4. Whole[1] = h[1] /\ Whole[2] = h[2] /\ Whole[3] = h[3]
        BY <3>3, <4>1, <4>2
      <4> QED BY <4>3, <4>4, EmptySeq
    <3>5. n = size
      BY <3>2, <3>4
    <3>6. Len(Whole) >= 3 + n
      BY <3>2, <3>4, WholeBegins
    <3> HIDE DEF n
    <3> QED BY <1>1, <3>1, <3>5, <3>6
  <2>4. CASE mode = "reply"
    <3> DEFINE h == << Bang >>
    <3>1. Len(Whole) = 1 + Len(buf) /\ Len(buf) < 4
      BY <2>2, <2>4, ConsumedTypes DEF InStep, InMode
    <3>2. h \in Seq(Byte) /\ h # << >> /\ h[1] = Bang /\ Bang # Dollar
      BY BytesAssumption, EmptySeq
    <3>3. Whole = Join(h, buf)
      BY <2>2, <2>4 DEF Consumed
    <3> HIDE DEF h
    <3>4. Whole # << >> /\ Whole[1] # Dollar
      BY <1>1, <3>2, <3>3, JoinFirst
    <3>5. Len(Whole) >= 5
      BY <3>4, WholeBegins
    <3> QED BY <1>1, <3>1, <3>5
  <2> QED BY <1>3, <2>3, <2>4
<1> QED BY <1>2, <1>3 DEF Lacking

LEMMA PauseInStep ==
  ASSUME TypeOK, InStep, Pause
  PROVE  InStep' /\ UNCHANGED <<clean, due, got>>
<1>1. ~ Lacking
  BY NothingLacking DEF Pause
<1>2. UNCHANGED <<parser, rx>>
  BY <1>1 DEF Pause, Pass
<1>3. UNCHANGED <<mode, size, buf, checksum, rx, line, clean, due, got, garbled>>
  BY <1>2 DEF Pause, parser, history
<1>4. Whole' = Whole /\ (InMode <=> InMode')
  BY <1>3 DEF Whole, Consumed, InMode
<1> QED BY <1>3, <1>4, SameBytes DEF InStep

\* A byte arrives.
LEMMA ArriveInStep ==
  ASSUME TypeOK, InStep, Arrive
  PROVE  InStep' /\ UNCHANGED <<clean, due, got>>
<1> DEFINE b == << Head(line) >>
           t == Tail(line)
<1>1. rx \in Seq(Byte) /\ line \in Seq(Byte) /\ line # << >> /\ Head(line) \in Byte
  BY HeadIsByte DEF TypeOK, Arrive
<1>2. b \in Seq(Byte) /\ t \in Seq(Byte) /\ line = Join(b, t) /\ rx' = Join(rx, b) /\ line' = t
  <2>1. b \in Seq(Byte) /\ Append(rx, Head(line)) = Join(rx, b) /\ line = Join(b, t)
    BY <1>1, ByteSeqs
  <2> QED BY <1>1, <2>1, HeadIsByte DEF Arrive
<1>3. /\ UNCHANGED <<mode, size, buf, checksum, clean, due, got, garbled>>
      /\ rx' # << >> /\ (rx # << >> => Head(rx') = Head(rx))
  <2>1. UNCHANGED <<mode, size, buf, checksum, clean, due, got, garbled>>
    BY DEF Arrive, parser, history
  <2>2. Len(rx') = Len(rx) + 1 /\ Len(rx) \in Nat /\ rx' \in Seq(Byte) /\ rx' = Append(rx, Head(line))
    BY <1>1, AppendProperties, LenProperties DEF Arrive
  <2>3. rx' # << >>
    BY <2>2, EmptySeq
  <2>4. rx # << >> => Head(rx') = Head(rx)
    <3> HIDE DEF b
    <3> QED BY <1>1, <1>2, <2>2, <2>3, JoinFirst, HeadTailProperties
  <2> QED BY <2>1, <2>3, <2>4
<1> HIDE DEF b, t
<1>4. Join(Join(rx, b), t) = Join(rx, Join(b, t))
  BY <1>1, <1>2, JoinAssociative
<1>5. Whole' = Whole
  BY <1>2, <1>3, <1>4 DEF Whole, Consumed
<1>6. InMode'
  BY <1>3 DEF InStep, InMode
<1> QED BY <1>1, <1>3, <1>5, <1>6, SameBytes

-----------------------------------------------------------------------------
(* The ESP sends *)

\* Something is sent behind what is on its way.
LEMMA SentBehind ==
  ASSUME TypeOK, line = << >>, UNCHANGED <<rx, parser>>, NEW v \in Seq(Byte), line' = v
  PROVE  Whole' = Join(Whole, v) /\ (InMode <=> InMode')
<1>1. rx \in Seq(Byte) /\ Consumed \in Seq(Byte) /\ Join(rx, line) = rx
  BY ConsumedTypes, JoinNothing DEF TypeOK
<1>2. Whole = Join(Consumed, rx)
  BY <1>1 DEF Whole
<1>3. Whole' = Join(Consumed, Join(rx, v))
  BY DEF Whole, Consumed, parser
<1>4. Join(Join(Consumed, rx), v) = Join(Consumed, Join(rx, v))
  BY <1>1, JoinAssociative
<1> QED BY <1>2, <1>3, <1>4 DEF InMode, parser

LEMMA PayloadsSendable ==
  ASSUME NEW p \in Payload
  PROVE  Sendable(p) /\ p \in Seq(Byte)
BY BytesAssumption DEF Sendable

LEMMA SendFrameInStep ==
  ASSUME TypeOK, clean, InStep, NEW p \in Payload, SendFrame(p)
  PROVE  InStep' /\ clean' /\ Channel!Next
<1>1. PICK c \in Byte : HasParity(p, c) /\ line' = Encoding(p, c)
  BY DEF SendFrame
<1> DEFINE e == Encoding(p, c)
<1>2. e \in Seq(Byte) /\ Sendable(p) /\ p \in Seq(Byte) /\ line' = e
  BY <1>1, PayloadsSendable, SentUnit
<1>3. /\ UNCHANGED <<rx, parser, got>> /\ line = << >> /\ due' = Append(due, p)
      /\ clean' /\ garbled' = FALSE
  BY DEF SendFrame
<1> HIDE DEF e
<1>4. Whole' = Join(Whole, e) /\ InMode'
  BY <1>2, <1>3, SentBehind DEF InStep
<1>5. PICK o : Stream(Whole, o) /\ due = Join(got, o)
  BY DEF InStep, OnItsWay
<1>6. due' = Join(got, Append(o, p))
  <2>1. o \in Seq(Seq(Byte)) /\ got \in Seq(Seq(Byte))
    BY <1>5, StreamTypes DEF TypeOK
  <2>2. Append(Join(got, o), p) = Join(got, Append(o, p))
    BY <1>2, <2>1, AppendJoined
  <2> QED BY <1>3, <1>5, <2>2
<1>7. LastIntact(Whole', got, due')
  BY <1>1, <1>2, <1>4, <1>5, <1>6 DEF LastIntact, e
<1>8. OnItsWay(Whole', got, due')
  BY <1>7, IntactIsOnItsWay
<1>9. InStep'
  BY <1>3, <1>4, <1>7, <1>8 DEF InStep
<1>10. Channel!Send(p)
  BY <1>3 DEF Channel!Send, TypeOK
<1> QED BY <1>3, <1>9, <1>10 DEF Channel!Next

LEMMA StartsAnew ==
  ASSUME ChannelInv, ~ clean, quiet = 2, mode # "spin", NEW p \in Payload, SendFrame(p)
  PROVE  InStep' /\ clean' /\ Channel!Next
<1>1. PICK c \in Byte : HasParity(p, c) /\ line' = Encoding(p, c)
  BY DEF SendFrame
<1> DEFINE e == Encoding(p, c)
           z == << >>
<1>2. e \in Seq(Byte) /\ Sendable(p) /\ p \in Seq(Byte) /\ line' = e
  BY <1>1, PayloadsSendable, SentUnit
<1>3. /\ UNCHANGED <<rx, parser, got>> /\ due' = << p >> /\ clean' = TRUE /\ garbled' = FALSE
  BY DEF SendFrame, ChannelInv
<1>4. mode = "idle" /\ rx = << >> /\ got = z /\ mode' = "idle" /\ rx' = << >> /\ got' = z
  BY <1>3 DEF ChannelInv, IInv, InStepSoon, TypeOK, parser
<1>5. Whole' = e
  <2>1. Consumed' = z /\ Whole' = Join(z, Join(z, e))
    BY <1>2, <1>4 DEF Consumed, Whole
  <2> HIDE DEF e, z
  <2>2. Join(z, e) = e
    BY <1>2, JoinNothing DEF z
  <2> QED BY <2>1, <2>2
<1>6. LastIntact(Whole', z, due')
  <2>1. Stream(z, z) /\ e = Join(z, e)
    BY <1>2, EmptyStream, JoinNothing
  <2>2. due' = Join(z, Append(z, p))
    <3>1. Append(z, p) = << p >> /\ << p >> \in Seq(Seq(Byte))
      BY <1>2
    <3> QED BY <1>3, <3>1, JoinNothing
  <2> HIDE DEF z
  <2> QED BY <1>1, <1>2, <1>5, <2>1, <2>2 DEF LastIntact, e
<1> HIDE DEF e
<1>7. OnItsWay(Whole', z, due')
  <2> HIDE DEF z
  <2> QED BY <1>6, IntactIsOnItsWay
<1>8. InStep'
  <2>1. InMode'
    BY <1>4 DEF InMode
  <2> QED BY <1>4, <1>6, <1>7, <2>1 DEF InStep
<1>9. Channel!StartAnew(p)
  BY <1>3, <1>4 DEF Channel!StartAnew
<1> QED BY <1>3, <1>8, <1>9 DEF Channel!Next

LEMMA SendReplyInStep ==
  ASSUME TypeOK, InStep, NEW r \in Reply, SendReply(r)
  PROVE  InStep' /\ UNCHANGED <<clean, due, got>>
<1> DEFINE b == << Bang >>
           v == Join(b, r)
           z == << >>
<1>1. r \in Seq(Byte) /\ Len(r) = 4 /\ b \in Seq(Byte)
  BY BytesAssumption
<1>2. v \in Seq(Byte) /\ Unit(v, z) /\ line' = v
  <2>1. v \in Seq(Byte)
    BY <1>1, JoinBytes
  <2> QED BY <1>1, <2>1 DEF SendReply, Unit, ReplyUnit, Join
<1> HIDE DEF b, v
<1>3. UNCHANGED <<rx, parser, clean, due, got>> /\ line = << >> /\ garbled' = TRUE
  BY DEF SendReply
<1>4. Whole' = Join(Whole, v) /\ InMode'
  BY <1>2, <1>3, SentBehind DEF InStep
<1>5. PICK o : Stream(Whole, o) /\ due = Join(got, o)
  BY DEF InStep, OnItsWay
<1>6. Join(o, z) = o
  BY <1>5, StreamTypes, JoinNothing
<1> HIDE DEF z
<1>7. Stream(Whole', o)
  BY <1>2, <1>4, <1>5, <1>6, StreamGrows
<1>8. OnItsWay(Whole', got', due')
  BY <1>3, <1>5, <1>7 DEF OnItsWay
<1> QED BY <1>3, <1>4, <1>8 DEF InStep

\* The wire is damaged: nothing is promised any more.
LEMMA DamageBreaks ==
  ASSUME ChannelInv, Damage
  PROVE  clean' = FALSE /\ due' = << >> /\ got' = << >> /\ ChannelStep
BY DEF ChannelInv, IInv, TypeOK, Damage, ChannelStep, Channel!Next, Channel!Break

-----------------------------------------------------------------------------
(* A byte is garbled *)

\* The last bytes of a joined string are in its second part.
LEMMA TailOfJoin ==
  ASSUME NEW a \in Seq(Byte), NEW l \in Seq(Byte), NEW w \in Seq(Byte), NEW t \in Seq(Byte),
         Join(a, l) = Join(w, t), l # << >>, Len(l) <= Len(t)
  PROVE  /\ Len(a) + 1 = Len(w) + ((Len(t) - Len(l)) + 1)
         /\ (Len(t) - Len(l)) + 1 \in 1 .. Len(t)
         /\ t[(Len(t) - Len(l)) + 1] = l[1]
<1> DEFINE i == (Len(t) - Len(l)) + 1
           x == Join(a, l)
<1>1. /\ Len(a) \in Nat /\ Len(l) \in Nat /\ Len(w) \in Nat /\ Len(t) \in Nat /\ Len(l) # 0
      /\ Len(Join(a, l)) = Len(a) + Len(l) /\ Len(Join(w, t)) = Len(w) + Len(t)
  BY JoinBytes, LenProperties, EmptySeq
<1>2. Len(a) + Len(l) = Len(w) + Len(t)
  BY <1>1
<1>3. Len(a) + 1 = Len(w) + i /\ i \in 1 .. Len(t)
  BY <1>1, <1>2
<1>4. x[Len(a) + 1] = l[1]
  <2>1. \A k \in 1 .. Len(a) + Len(l) : x[k] = IF k <= Len(a) THEN a[k] ELSE l[k - Len(a)]
    BY ConcatProperties DEF Join
  <2> HIDE DEF x
  <2>2. Len(a) + 1 \in 1 .. Len(a) + Len(l) /\ ~ (Len(a) + 1 <= Len(a)) /\ (Len(a) + 1) - Len(a) = 1
    BY <1>1
  <2> QED BY <2>1, <2>2
<1>5. x[Len(w) + i] = t[i]
  <2>1. \A k \in 1 .. Len(w) + Len(t) : Join(w, t)[k] = IF k <= Len(w) THEN w[k] ELSE t[k - Len(w)]
    BY ConcatProperties DEF Join
  <2>2. x = Join(w, t)
    OBVIOUS
  <2> HIDE DEF x, i
  <2>3. Len(w) + i \in 1 .. Len(w) + Len(t) /\ ~ (Len(w) + i <= Len(w)) /\ (Len(w) + i) - Len(w) = i
    BY <1>1, <1>3
  <2> QED BY <2>1, <2>2, <2>3
<1> HIDE DEF x
<1>6. t[i] = l[1]
  BY <1>3, <1>4, <1>5
<1> QED BY <1>3, <1>6 DEF i

\* JoinExcept, with a name for the change of a byte.
Put(s, i, b) == [s EXCEPT ![i] = b]

LEMMA JoinPut ==
  ASSUME NEW s \in Seq(Byte), NEW t \in Seq(Byte), NEW i \in 1 .. Len(t), NEW b \in Byte
  PROVE  Join(s, Put(t, i, b)) = Put(Join(s, t), Len(s) + i, b)
BY JoinExcept DEF Put

LEMMA PutIs ==
  ASSUME NEW S, NEW s \in Seq(S), NEW i \in 1 .. Len(s), NEW b \in S
  PROVE  /\ Put(s, i, b) \in Seq(S) /\ Len(Put(s, i, b)) = Len(s)
         /\ \A j \in 1 .. Len(s) : Put(s, i, b)[j] = IF j = i THEN b ELSE s[j]
BY ExceptSeq DEF Put

\* Changing the last of a sequence.
LEMMA LastReplaced ==
  ASSUME NEW f \in Seq(Seq(Byte)), NEW p \in Seq(Byte), NEW r \in Seq(Byte), NEW d, d = Append(f, p)
  PROVE  /\ d[Len(d)] = p /\ Len(d) = Len(f) + 1
         /\ Put(d, Len(d), r) = Append(f, r)
<1> DEFINE S == Seq(Byte)
           n == Len(f)
           k == n + 1
           y == Put(d, k, r)
           z == Append(f, r)
<1>1. /\ n \in Nat /\ d \in Seq(S) /\ Len(d) = n + 1 /\ d[n + 1] = p
      /\ \A j \in 1 .. n : d[j] = f[j]
  BY AppendProperties, LenProperties
<1>2. /\ z \in Seq(S) /\ Len(z) = n + 1 /\ z[n + 1] = r
      /\ \A j \in 1 .. n : z[j] = f[j]
  BY AppendProperties
<1>3. /\ y \in Seq(S) /\ Len(y) = n + 1
      /\ \A j \in 1 .. n + 1 : y[j] = IF j = n + 1 THEN r ELSE d[j]
  <2>1. k \in 1 .. Len(d) /\ Len(d) = k
    BY <1>1
  <2> HIDE DEF k, S
  <2>2. /\ y \in Seq(S) /\ Len(y) = Len(d)
        /\ \A j \in 1 .. Len(d) : y[j] = IF j = k THEN r ELSE d[j]
    <3>1. d \in Seq(S) /\ r \in S /\ k \in 1 .. Len(d)
      BY <1>1, <2>1 DEF S
    <3> HIDE DEF n, z
    <3>2. /\ Put(d, k, r) \in Seq(S) /\ Len(Put(d, k, r)) = Len(d)
          /\ \A j \in 1 .. Len(d) : Put(d, k, r)[j] = IF j = k THEN r ELSE d[j]
      BY ONLY <3>1, PutIs
    <3> QED BY <3>2
  <2> HIDE DEF y
  <2> QED BY <2>1, <2>2 DEF k
<1> HIDE DEF S, n, y, z
<1>4. \A j \in 1 .. n + 1 : y[j] = z[j]
  <2> TAKE j \in 1 .. n + 1
  <2>1. CASE j = n + 1
    BY <1>2, <1>3, <2>1
  <2>2. CASE j # n + 1
    <3>1. j \in 1 .. n
      BY <1>1, <2>2
    <3> QED BY <1>1, <1>2, <1>3, <2>2, <3>1
  <2> QED BY <2>1, <2>2
<1>5. y = z
  BY <1>2, <1>3, <1>4, SeqEqual
<1>6. Len(d) = k /\ k = n + 1 /\ d[Len(d)] = p
  BY <1>1
<1> QED BY <1>5, <1>6 DEF n, y, z

\* A wrong byte in the payload, or a wrong checksum, is seen.
LEMMA GarbledUnit ==
  ASSUME NEW p, Sendable(p), NEW c \in Byte, HasParity(p, c),
         NEW i \in 1 .. Len(p) + 1, NEW b \in Byte, b # Append(p, c)[i]
  PROVE  /\ Unit(Join(Header(Len(p) + 1), [Append(p, c) EXCEPT ![i] = b]), << Refusal >>)
         /\ Append(p, c) \in Seq(Byte) /\ Len(Append(p, c)) = Len(p) + 1
<1> DEFINE n == Len(p)
           s == Append(p, c)
           t == [s EXCEPT ![i] = b]
<1>1. /\ p \in Seq(Byte) /\ n \in Nat /\ s \in Seq(Byte) /\ Len(s) = n + 1 /\ s[n + 1] = c
      /\ \A j \in 1 .. n : s[j] = p[j]
  BY LenProperties, AppendProperties DEF Sendable
<1> HIDE DEF s
<1>2. /\ t \in Seq(Byte) /\ Len(t) = n + 1
      /\ \A j \in 1 .. n + 1 : t[j] = IF j = i THEN b ELSE s[j]
  <2>1. i \in 1 .. Len(s)
    BY <1>1
  <2> QED BY <1>1, <2>1, ExceptSeq
<1> HIDE DEF t, n
<1>3. \E q, d : /\ Sendable(q) /\ d \in Byte /\ ~ HasParity(q, d)
                /\ Len(q) = n /\ t = Append(q, d)
  <2>1. CASE i \in 1 .. n
    <3> DEFINE q == [p EXCEPT ![i] = b]
    <3>1. i \in 1 .. Len(p) /\ b \in Byte \ {p[i]}
      BY <1>1, <2>1 DEF s, n
    <3>2. /\ q \in Seq(Byte) /\ Len(q) = n
          /\ \A j \in 1 .. n : q[j] = IF j = i THEN b ELSE p[j]
      BY <1>1, <3>1, ExceptSeq DEF n
    <3>3. ~ HasParity(q, c)
      BY <1>1, <3>1, ParityBreaks
    <3> HIDE DEF q
    <3>4. t = Append(q, c)
      <4> DEFINE u == Append(q, c)
      <4>1. /\ u \in Seq(Byte) /\ Len(u) = n + 1 /\ u[n + 1] = c
            /\ \A j \in 1 .. n : u[j] = q[j]
        BY <3>2, AppendProperties
      <4> HIDE DEF u
      <4>2. \A j \in 1 .. n + 1 : t[j] = u[j]
        <5> TAKE j \in 1 .. n + 1
        <5>1. CASE j = n + 1
          <6>1. j # i
            BY <1>1, <2>1, <5>1
          <6> QED BY <1>1, <1>2, <4>1, <5>1, <6>1
        <5>2. CASE j # n + 1
          <6>1. j \in 1 .. n
            BY <1>1, <5>2
          <6> QED BY <1>1, <1>2, <3>2, <4>1, <6>1
        <5> QED BY <5>1, <5>2
      <4>3. t = u
        BY <1>2, <4>1, <4>2, SeqEqual
      <4> QED BY <4>3 DEF u
    <3>5. Sendable(q)
      BY <3>2 DEF Sendable, n
    <3> QED BY <3>2, <3>3, <3>4, <3>5
  <2>2. CASE i = n + 1
    <3>1. b # c
      BY <1>1, <2>2 DEF s
    <3>2. ~ HasParity(p, b)
      BY <1>1, <3>1, ParityIsOne
    <3>3. t = Append(p, b)
      <4> DEFINE u == Append(p, b)
      <4>1. /\ u \in Seq(Byte) /\ Len(u) = n + 1 /\ u[n + 1] = b
            /\ \A j \in 1 .. n : u[j] = p[j]
        BY <1>1, AppendProperties DEF n
      <4> HIDE DEF u
      <4>2. \A j \in 1 .. n + 1 : t[j] = u[j]
        <5> TAKE j \in 1 .. n + 1
        <5>1. CASE j = n + 1
          BY <1>2, <2>2, <4>1, <5>1
        <5>2. CASE j # n + 1
          <6>1. j \in 1 .. n /\ j # i
            BY <1>1, <2>2, <5>2
          <6> QED BY <1>1, <1>2, <4>1, <6>1
        <5> QED BY <5>1, <5>2
      <4>3. t = u
        BY <1>2, <4>1, <4>2, SeqEqual
      <4> QED BY <4>3 DEF u
    <3> QED BY <3>2, <3>3 DEF n
  <2>3. i \in 1 .. n \/ i = n + 1
    BY <1>1 DEF n
  <2> QED BY <2>1, <2>2, <2>3
<1>4. PICK q, d : /\ Sendable(q) /\ d \in Byte /\ ~ HasParity(q, d)
                  /\ Len(q) = n /\ t = Append(q, d)
  BY <1>3
<1>5. Encoding(q, d) = Join(Header(n + 1), t)
  <2>1. Encoding(q, d) = Header(Len(q) + 1) \o Append(q, d)
    BY <1>4, EncodingIs
  <2> QED BY <1>4, <2>1 DEF Join
<1>6. Unit(Join(Header(n + 1), t), << Refusal >>)
  BY <1>4, <1>5, SentUnit
<1> QED BY <1>1, <1>6 DEF n, t, s

\* A frame garbled on its way is refused in its place.
LEMMA GarbleInStep ==
  ASSUME TypeOK, InStep, Garble
  PROVE  InStep' /\ clean' /\ Channel!Next
<1> DEFINE a == Join(Consumed, rx)
<1>1. /\ rx \in Seq(Byte) /\ line \in Seq(Byte) /\ line # << >> /\ Consumed \in Seq(Byte)
      /\ a \in Seq(Byte) /\ Whole = Join(a, line) /\ Len(line) \in Nat \ {0}
      /\ got \in Seq(Seq(Byte)) /\ clean /\ ~ garbled
      /\ Len(line) <= Len(due[Len(due)]) + 1
  <2>1. rx \in Seq(Byte) /\ line \in Seq(Byte) /\ line # << >> /\ Consumed \in Seq(Byte)
    BY ConsumedTypes DEF TypeOK, Garble
  <2>2. a \in Seq(Byte) /\ Whole = Join(a, line)
    BY <2>1, JoinBytes, JoinAssociative DEF Whole
  <2> HIDE DEF a
  <2> QED BY <2>1, <2>2, LenProperties, EmptySeq DEF TypeOK, Garble
<1>2. PICK b \in Byte \ {Head(line)} : line' = << b >> \o Tail(line)
  BY DEF Garble
<1>3. PICK w0, o, p, c : /\ Stream(w0, o) /\ Sendable(p) /\ c \in Byte /\ HasParity(p, c)
                         /\ Whole = Join(w0, Encoding(p, c)) /\ due = Join(got, Append(o, p))
  BY <1>1 DEF InStep, LastIntact
<1> DEFINE h == Header(Len(p) + 1)
           s == Append(p, c)
           i == (Len(s) - Len(line)) + 1
           t == [s EXCEPT ![i] = b]
           v == Join(h, t)
           x == Join(w0, h)
<1>4. /\ w0 \in Seq(Byte) /\ o \in Seq(Seq(Byte)) /\ p \in Seq(Byte) /\ Len(p) \in Nat
      /\ s \in Seq(Byte) /\ Len(s) = Len(p) + 1 /\ h \in Seq(Byte) /\ Encoding(p, c) = Join(h, s)
  <2>1. w0 \in Seq(Byte) /\ o \in Seq(Seq(Byte)) /\ p \in Seq(Byte) /\ Len(p) \in Nat
    BY <1>3, StreamTypes, LenProperties DEF Sendable
  <2>2. /\ Encoding(p, c) = h \o s /\ s \in Seq(Byte) /\ h \in Seq(Byte) /\ Len(s) = Len(p) + 1
    BY <1>3, EncodingIs
  <2> QED BY <2>1, <2>2 DEF Join
\* What is due last is the payload of the frame on the line.
<1>5. /\ due[Len(due)] = p /\ Len(got) < Len(due) /\ Len(due) \in Nat
      /\ [due EXCEPT ![Len(due)] = Refusal] = Join(got, Append(o, Refusal))
  <2> DEFINE f == Join(got, o)
  <2>1. /\ due = Append(f, p) /\ f \in Seq(Seq(Byte)) /\ Len(f) = Len(got) + Len(o)
        /\ Len(got) \in Nat /\ Len(o) \in Nat /\ Refusal \in Seq(Byte)
        /\ Append(f, Refusal) = Join(got, Append(o, Refusal))
    <3>1. f \in Seq(Seq(Byte)) /\ Len(f) = Len(got) + Len(o) /\ Len(got) \in Nat /\ Len(o) \in Nat
      BY <1>1, <1>4, JoinOutcomes, LenProperties
    <3>2. Refusal \in Seq(Byte)
      BY EmptySeq DEF Refusal
    <3>3. \A q \in Seq(Byte) : Append(f, q) = Join(got, Append(o, q))
      BY <1>1, <1>4, AppendJoined
    <3> HIDE DEF f
    <3> QED BY <1>3, <1>4, <3>1, <3>2, <3>3
  <2> HIDE DEF f
  <2>2. /\ due[Len(due)] = p /\ Len(due) = Len(f) + 1
        /\ Put(due, Len(due), Refusal) = Append(f, Refusal)
    <3>1. /\ f \in Seq(Seq(Byte)) /\ p \in Seq(Byte) /\ Refusal \in Seq(Byte)
          /\ due = Append(f, p)
      BY <1>4, <2>1
    <3> QED BY ONLY <3>1, LastReplaced
  <2>3. Len(got) < Len(due) /\ Len(due) \in Nat
    BY <2>1, <2>2
  <2> QED BY <2>1, <2>2, <2>3 DEF Put
<1> HIDE DEF a, h
<1>6. x \in Seq(Byte) /\ Join(a, line) = Join(x, s)
  <2> HIDE DEF s
  <2>1. Join(w0, Join(h, s)) = Join(x, s)
    BY <1>4, JoinAssociative
  <2>2. x \in Seq(Byte)
    BY <1>4, JoinBytes
  <2> QED BY <1>1, <1>3, <1>4, <2>1, <2>2
<1> HIDE DEF x
<1>7. /\ Len(a) + 1 = Len(x) + i /\ i \in 1 .. Len(s) /\ s[i] = line[1]
  <2>1. Len(line) <= Len(s)
    BY <1>1, <1>4, <1>5
  <2> HIDE DEF s, i
  <2>2. /\ Len(a) + 1 = Len(x) + ((Len(s) - Len(line)) + 1)
        /\ (Len(s) - Len(line)) + 1 \in 1 .. Len(s)
        /\ s[(Len(s) - Len(line)) + 1] = line[1]
    <3>1. /\ a \in Seq(Byte) /\ line \in Seq(Byte) /\ x \in Seq(Byte) /\ s \in Seq(Byte)
          /\ Join(a, line) = Join(x, s) /\ line # << >> /\ Len(line) <= Len(s)
      BY <1>1, <1>4, <1>6, <2>1
    <3> QED BY ONLY <3>1, TailOfJoin
  <2> QED BY <2>2 DEF i
<1> HIDE DEF i
<1>8. Unit(v, << Refusal >>) /\ t \in Seq(Byte) /\ v \in Seq(Byte)
  <2>1. b # s[i] /\ i \in 1 .. Len(p) + 1 /\ b \in Byte
    BY <1>1, <1>2, <1>4, <1>7, HeadTailProperties
  <2>2. Unit(v, << Refusal >>)
    BY <1>3, <2>1, GarbledUnit DEF h
  <2>3. t \in Seq(Byte)
    <3> HIDE DEF s
    <3> QED BY <1>4, <1>7, <2>1, ExceptSeq
  <2> HIDE DEF t
  <2> QED BY <1>4, <2>2, <2>3, JoinBytes
\* The byte changed is the same one, counted from either end.
<1>9. line' = [line EXCEPT ![1] = b] /\ line' \in Seq(Byte)
  <2> DEFINE l == [line EXCEPT ![1] = b]
             f == << b >>
             r == Tail(line)
             m == f \o r
  <2>1. /\ f \in Seq(Byte) /\ Len(f) = 1 /\ f[1] = b
        /\ r \in Seq(Byte) /\ Len(r) = Len(line) - 1 /\ \A j \in 1 .. Len(r) : r[j] = line[j + 1]
    BY <1>1, HeadTailProperties
  <2>2. 1 \in 1 .. Len(line) /\ b \in Byte
    BY <1>1
  <2>3. /\ l \in Seq(Byte) /\ Len(l) = Len(line)
        /\ \A j \in 1 .. Len(line) : l[j] = IF j = 1 THEN b ELSE line[j]
    BY <1>1, <2>2, ExceptSeq
  <2> HIDE DEF f, r, l
  <2>4. /\ m \in Seq(Byte) /\ Len(m) = Len(f) + Len(r)
        /\ \A j \in 1 .. Len(f) + Len(r) : m[j] = IF j <= Len(f) THEN f[j] ELSE r[j - Len(f)]
    BY <2>1, ConcatProperties
  <2>5. line' = m
    BY <1>2 DEF f, r
  <2> HIDE DEF m
  <2>6. Len(m) = Len(line)
    BY <1>1, <2>1, <2>4
  <2>7. \A j \in 1 .. Len(m) : m[j] = l[j]
    <3> TAKE j \in 1 .. Len(m)
    <3>1. j \in 1 .. Len(f) + Len(r) /\ j \in 1 .. Len(line)
      BY <2>4, <2>6
    <3>2. CASE j = 1
      BY <2>1, <2>3, <2>4, <3>1, <3>2
    <3>3. CASE j # 1
      <4>1. ~ (j <= Len(f)) /\ j - Len(f) \in 1 .. Len(r) /\ (j - Len(f)) + 1 = j
        BY <1>1, <2>1, <3>1, <3>3
      <4> QED BY <2>1, <2>3, <2>4, <3>1, <3>3, <4>1
    <3> QED BY <3>2, <3>3
  <2>8. m = l
    BY <2>3, <2>4, <2>6, <2>7, SeqEqual
  <2> QED BY <2>4, <2>5, <2>8 DEF l
<1>10. /\ UNCHANGED <<rx, parser, clean, got>> /\ garbled' = TRUE
       /\ due' = [due EXCEPT ![Len(due)] = Refusal]
  BY DEF Garble
<1>11. Whole' = Join(w0, v)
  <2>1. Whole' = Join(a, line')
    <3>1. Whole' = Join(Consumed, Join(rx, line'))
      BY <1>10 DEF Whole, Consumed, parser
    <3>2. \A l \in Seq(Byte) : Join(Join(Consumed, rx), l) = Join(Consumed, Join(rx, l))
      BY <1>1, JoinAssociative
    <3> QED BY <1>9, <3>1, <3>2 DEF a
  <2> DEFINE u == Put(line, 1, b)
  <2>2. line' = u /\ Join(a, u) = Put(Join(a, line), Len(a) + 1, b)
    <3>1. 1 \in 1 .. Len(line) /\ b \in Byte
      BY <1>1
    <3>2. Join(a, Put(line, 1, b)) = Put(Join(a, line), Len(a) + 1, b)
      BY <1>1, <3>1, JoinPut
    <3>3. line' = u
      BY <1>9 DEF Put
    <3> QED BY <3>2, <3>3
  <2> HIDE DEF u
  <2>3. Join(x, t) = Put(Join(x, s), Len(x) + i, b)
    <3>1. b \in Byte
      OBVIOUS
    <3>2. t = Put(s, i, b)
      BY DEF Put
    <3> HIDE DEF s, t
    <3> QED BY <1>4, <1>6, <1>7, <3>1, <3>2, JoinPut
  <2>4. Join(x, t) = Join(w0, v)
    <3> HIDE DEF t
    <3> QED BY <1>4, <1>8, JoinAssociative DEF x
  <2> HIDE DEF s, t, v
  <2> QED BY <1>6, <1>7, <1>9, <2>1, <2>2, <2>3, <2>4
<1> HIDE DEF s, t, v
<1>12. OnItsWay(Whole', got', due')
  <2>1. Stream(Join(w0, v), Join(o, << Refusal >>))
    BY <1>3, <1>8, StreamGrows
  <2>2. Append(o, Refusal) = Join(o, << Refusal >>)
    <3>1. Refusal \in Seq(Byte)
      BY EmptySeq DEF Refusal
    <3> HIDE DEF Refusal
    <3> QED BY <1>4, <3>1, AppendJoined
  <2> QED BY <1>5, <1>10, <1>11, <2>1, <2>2 DEF OnItsWay
<1>13. InMode'
  BY <1>10 DEF InStep, InMode, parser
<1>14. InStep'
  BY <1>10, <1>12, <1>13 DEF InStep
<1>15. Channel!Garble
  BY <1>1, <1>5, <1>10 DEF Channel!Garble
<1> QED BY <1>1, <1>10, <1>14, <1>15 DEF Channel!Next

-----------------------------------------------------------------------------
(* Each step keeps ChannelInv, and is a step of the channel. *)

Kept ==
  /\ clean' => InStep' \/ Hung'
  /\ ~clean' => due' = << >> /\ got' = << >>
  /\ ChannelStep

\* Steps that leave the history alone.
LEMMA QuietStepKept ==
  ASSUME ChannelInv, UNCHANGED <<clean, due, got>>, clean => InStep' \/ Hung'
  PROVE  Kept
BY DEF ChannelInv, Kept, ChannelStep

LEMMA DamageKept ==
  ASSUME ChannelInv, Damage
  PROVE  Kept
BY DamageBreaks DEF Kept

LEMMA ParserStepKept ==
  ASSUME ChannelInv, ParserStep
  PROVE  Kept
<1>1. TypeOK /\ (clean => InStep)
  <2>1. mode # "spin"
    BY DEF ParserStep, BeginFrame, BeginReply, Flush, LengthArrived, ReadPayload,
           ReadNothing, ReadReply
  <2> QED BY <2>1 DEF ChannelInv, IInv, Hung
<1>2. CASE BeginFrame
  <2>1. UNCHANGED <<clean, due, got>>
    BY <1>2 DEF BeginFrame, history
  <2> QED BY <1>1, <1>2, <2>1, BeginFrameInStep, QuietStepKept
<1>3. CASE BeginReply
  <2>1. UNCHANGED <<clean, due, got>>
    BY <1>3 DEF BeginReply, history
  <2> QED BY <1>1, <1>3, <2>1, BeginReplyInStep, QuietStepKept
<1>4. CASE Flush
  <2>1. UNCHANGED <<clean, due, got>>
    BY <1>4 DEF Flush, history
  <2> QED BY <1>1, <1>4, <2>1, NothingFlushed, QuietStepKept
<1>5. CASE LengthArrived
  <2>1. UNCHANGED <<clean, due, got>>
    BY <1>5 DEF LengthArrived, history
  <2> QED BY <1>1, <1>5, <2>1, LengthArrivedInStep, QuietStepKept
<1>6. CASE ReadPayload
  <2>1. CASE clean /\ Len(buf) + 1 < size
    BY <1>1, <1>6, <2>1, PayloadByteInStep, QuietStepKept
  <2>2. CASE clean /\ ~ (Len(buf) + 1 < size)
    <3>1. InStep' /\ clean' /\ Channel!Next
      BY <1>1, <1>6, <2>2, PayloadClosesInStep
    <3> QED BY <3>1 DEF Kept, ChannelStep
  <2>3. CASE ~ clean
    <3>1. UNCHANGED <<clean, due, got>>
      BY <1>6, <2>3 DEF ReadPayload, Closing, Outcome
    <3> QED BY <2>3, <3>1, QuietStepKept
  <2> QED BY <2>1, <2>2, <2>3
<1>7. CASE ReadNothing
  <2>1. ~ clean
    BY <1>1, <1>7, NoEmptyFrame
  <2>2. UNCHANGED <<clean, due, got>>
    BY <1>7, <2>1 DEF ReadNothing, Outcome
  <2> QED BY <2>1, <2>2, QuietStepKept
<1>8. CASE ReadReply
  <2>1. UNCHANGED <<clean, due, got>>
    BY <1>8 DEF ReadReply, history
  <2>2. clean => InStep'
    BY <1>1, <1>8, ReplyByteInStep, ReplyClosesInStep
  <2> QED BY <2>1, <2>2, QuietStepKept
<1> QED BY <1>2, <1>3, <1>4, <1>5, <1>6, <1>7, <1>8 DEF ParserStep

LEMMA SendFrameKept ==
  ASSUME ChannelInv, NEW p \in Payload, SendFrame(p)
  PROVE  Kept
<1>1. TypeOK /\ (clean => InStep \/ Hung)
  BY DEF ChannelInv, IInv
<1>2. CASE clean \/ quiet = 2
  <2>1. CASE mode # "spin"
    <3>1. InStep' /\ clean' /\ Channel!Next
      BY <1>1, <1>2, <2>1, SendFrameInStep, StartsAnew DEF Hung
    <3> QED BY <3>1 DEF Kept, ChannelStep
  <2>2. CASE mode = "spin"
    <3>1. ~InStep
      BY <2>2 DEF InStep, InMode
    <3>2. /\ UNCHANGED got /\ mode' = "spin" /\ clean' = TRUE /\ got = << >>
          /\ due' = IF clean THEN Append(due, p) ELSE << p >>
      BY <1>1, <1>2, <2>2, <3>1 DEF SendFrame, parser, ChannelInv, Hung, TypeOK
    <3>3. due' # << >> /\ Channel!Next
      <4>1. CASE clean
        <5>1. due \in Seq(Seq(Byte))
          <6>1. Payload \cup {Refusal} \subseteq Seq(Byte)
            BY BytesAssumption, EmptySeq DEF Refusal
          <6> QED BY <1>1, <6>1 DEF TypeOK
        <5>2. Append(due, p) # << >>
          BY <5>1, PayloadsSendable, AppendProperties, EmptySeq
        <5>3. Channel!Send(p)
          BY <1>1, <3>2, <4>1 DEF Channel!Send, TypeOK
        <5> QED BY <3>2, <4>1, <5>2, <5>3 DEF Channel!Next
      <4>2. CASE ~clean
        <5>1. Channel!StartAnew(p)
          BY <1>1, <3>2, <4>2 DEF Channel!StartAnew, TypeOK
        <5>2. << p >> # << >>
          OBVIOUS
        <5> QED BY <3>2, <4>2, <5>1, <5>2 DEF Channel!Next
      <4> QED BY <4>1, <4>2
    <3> QED BY <3>2, <3>3 DEF Kept, ChannelStep, Hung
  <2> QED BY <2>1, <2>2
<1>3. CASE ~ clean /\ quiet # 2
  <2>1. UNCHANGED <<clean, due, got>>
    BY <1>1, <1>3 DEF SendFrame, TypeOK
  <2> QED BY <1>3, <2>1, QuietStepKept
<1> QED BY <1>2, <1>3

LEMMA NextKept ==
  ASSUME ChannelInv, [Next]_vars
  PROVE  Kept
<1>1. TypeOK /\ (clean => InStep \/ Hung) /\ (Hung => ~InStep)
  BY DEF ChannelInv, IInv, Hung, InStep, InMode
\* Hung stays hung.
<1>12. ASSUME Hung, UNCHANGED <<clean, due, got>>, UNCHANGED parser
       PROVE  Hung'
  BY <1>12 DEF Hung, parser
<1>2. CASE ParserStep
  BY <1>2, ParserStepKept
<1>3. CASE Pause
  <2>1. UNCHANGED <<clean, due, got>>
    BY <1>3 DEF Pause, history
  <2>2. Hung => UNCHANGED parser
    BY <1>3 DEF Pause, Pass, Hung, Lacking
  <2> QED BY <1>1, <1>3, <1>12, <2>1, <2>2, PauseInStep, QuietStepKept
<1>4. CASE Stop
  BY <1>4, DamageKept DEF Stop
<1>5. CASE \E p \in Payload : SendFrame(p)
  BY <1>5, SendFrameKept
<1>6. CASE \E r \in Reply : SendReply(r)
  <2>1. PICK r \in Reply : SendReply(r)
    BY <1>6
  <2>2. UNCHANGED <<clean, due, got>> /\ UNCHANGED parser
    BY <2>1 DEF SendReply
  <2> QED BY <1>1, <1>12, <2>1, <2>2, SendReplyInStep, QuietStepKept
<1>7. CASE Arrive
  <2>1. UNCHANGED <<clean, due, got>> /\ UNCHANGED parser
    BY <1>7 DEF Arrive, history
  <2> QED BY <1>1, <1>7, <1>12, <2>1, ArriveInStep, QuietStepKept
<1>8. CASE Garble
  <2>1. CASE InStep
    <3>1. InStep' /\ clean' /\ Channel!Next
      BY <1>1, <1>8, <2>1, GarbleInStep
    <3> QED BY <3>1 DEF Kept, ChannelStep
  <2>2. CASE Hung
    <3>1. /\ UNCHANGED <<clean, got>> /\ clean /\ mode' = mode
          /\ due' = [due EXCEPT ![Len(due)] = Refusal]
      BY <1>8 DEF Garble, parser
    <3>2. due \in Seq(Seq(Byte)) /\ Refusal \in Seq(Byte)
      <4>1. Payload \cup {Refusal} \subseteq Seq(Byte)
        BY BytesAssumption, EmptySeq DEF Refusal
      <4> QED BY <1>1, <4>1 DEF TypeOK
    <3>3. Len(due) \in Nat \ {0}
      BY <2>2, <3>2, LenProperties, EmptySeq DEF Hung
    <3>4. due' \in [1 .. Len(due) -> Seq(Byte)]
      BY <3>1, <3>2, LenProperties
    <3>5. due' # << >>
      <4>1. DOMAIN due' = 1 .. Len(due)
        BY <3>4
      <4>2. 1 \in 1 .. Len(due)
        BY <3>3
      <4>3. DOMAIN << >> = {}
        OBVIOUS
      <4> QED BY <4>1, <4>2, <4>3
    <3>6. Len(got) < Len(due)
      BY <2>2, <3>3, EmptySeq DEF Hung
    <3>7. Channel!Garble
      BY <3>1, <3>6 DEF Channel!Garble
    <3> QED BY <2>2, <3>1, <3>5, <3>7 DEF Kept, ChannelStep, Hung, Channel!Next
  <2> QED BY <1>1, <1>8, <2>1, <2>2 DEF Garble
<1>9. CASE Lose
  BY <1>9, DamageKept DEF Lose
<1>10. CASE Disturb
  BY <1>10, DamageKept DEF Disturb
<1>11. CASE UNCHANGED vars
  <2>1. /\ UNCHANGED <<line, rx, mode, size, buf, checksum, clean, due, got, garbled>>
    BY <1>11 DEF vars, parser, history
  <2>2. clean => InStep' \/ Hung'
    BY <1>1, <2>1 DEF InStep, InMode, Whole, Consumed, Hung
  <2> QED BY <2>1, <2>2, QuietStepKept
<1> QED BY <1>2, <1>3, <1>4, <1>5, <1>6, <1>7, <1>8, <1>9, <1>10, <1>11 DEF Next

LEMMA InitChannelInv == Init => ChannelInv /\ Channel!Init
<1> SUFFICES ASSUME Init PROVE ChannelInv /\ Channel!Init
  OBVIOUS
<1>1. IInv
  BY InitIInv
<1> DEFINE z == << >>
<1>2. Whole = z
  <2>1. Consumed = z /\ Whole = Join(z, Join(z, z))
    BY DEF Init, Consumed, Whole
  <2>2. Join(z, z) = z
    BY EmptySeq, JoinNothing
  <2> HIDE DEF z
  <2> QED BY <2>1, <2>2
<1>3. OnItsWay(z, z, z)
  <2>1. Stream(z, z) /\ Join(z, z) = z
    BY EmptyStream, EmptySeq, JoinNothing
  <2> HIDE DEF z
  <2> QED BY <2>1 DEF OnItsWay
<1>4. line = z /\ got = z /\ due = z /\ clean = TRUE /\ mode = "idle"
  BY DEF Init
<1>5. InStep
  <2>1. InMode
    BY <1>4 DEF InMode
  <2>2. OnItsWay(Whole, got, due) /\ line = << >>
    <3>1. line = << >>
      BY <1>4
    <3> HIDE DEF z
    <3> QED BY <1>2, <1>3, <1>4, <3>1
  <2> QED BY <2>1, <2>2 DEF InStep
<1> QED BY <1>1, <1>4, <1>5 DEF ChannelInv, Channel!Init

\* While the wire is undamaged, what has been taken of the current frame, what has
\* arrived and what is still on the line are whole frames and replies, and come to
\* exactly what the ESP has sent and the library has not yet handled or refused.
THEOREM ChannelInvariant == Spec => []ChannelInv
<1>1. ChannelInv /\ [Next]_vars => ChannelInv'
  <2> SUFFICES ASSUME ChannelInv, [Next]_vars PROVE ChannelInv'
    OBVIOUS
  <2>1. IInv'
    BY NextKeepsIInv DEF ChannelInv
  <2> QED BY <2>1, NextKept DEF ChannelInv, Kept
<1>2. Init => ChannelInv
  BY InitChannelInv
<1> QED BY <1>1, <1>2, PTL DEF Spec

\* The parser and the wire make the channel: frames are handled once and in the
\* order they were sent, whatever bytes of theirs look like '$' or '!'; one with a
\* wrong byte is refused in its place; and after worse damage this holds again from
\* the first frame behind a pause.
THEOREM ParserMakesChannel == Spec => ChannelSpec
<1>1. Init => Channel!Init
  BY InitChannelInv
<1>2. ChannelInv /\ [Next]_vars => [Channel!Next]_<<clean, due, got>>
  BY NextKept DEF Kept, ChannelStep
<1> QED BY <1>1, <1>2, ChannelInvariant, PTL DEF Spec, ChannelSpec, Channel!Spec

\* Between frames nothing is outstanding: what was sent whole went to
\* processing_data() and what was garbled was refused.
THEOREM NothingIsLeftOver == Spec => []NothingOutstanding
<1>1. ChannelInv => NothingOutstanding
  <2> SUFFICES ASSUME ChannelInv, clean, mode = "idle", rx = << >>, line = << >>
               PROVE  got = due
    BY DEF NothingOutstanding
  <2> DEFINE z == << >>
  <2>1. Whole = z
    <3>1. Consumed = z /\ Whole = Join(z, Join(z, z))
      BY DEF Consumed, Whole
    <3>2. Join(z, z) = z
      BY EmptySeq, JoinNothing
    <3> HIDE DEF z
    <3> QED BY <3>1, <3>2
  <2>2. PICK o : Stream(Whole, o) /\ due = Join(got, o)
    BY DEF ChannelInv, InStep, OnItsWay, Hung
  <2>3. o = z
    <3>1. \A v, p, w1 : Unit(v, p) /\ w1 \in Seq(Byte) => Join(v, w1) # z
      <4> SUFFICES ASSUME NEW v, NEW p, NEW w1, Unit(v, p), w1 \in Seq(Byte)
                   PROVE  Join(v, w1) # z
        OBVIOUS
      <4>1. v \in Seq(Byte) /\ v # << >>
        <5>1. v \in Seq(Byte) /\ Len(v) >= 4
          BY UnitTypes
        <5> QED BY <5>1, EmptySeq
      <4> QED BY <4>1, JoinFirst
    <3>2. \/ Whole = << >> /\ o = << >>
          \/ \E v, p, w1, d1 : /\ Unit(v, p) /\ Stream(w1, d1)
                               /\ Whole = Join(v, w1) /\ o = Join(p, d1)
      BY <2>2, StreamFront
    <3>3. ASSUME NEW v, NEW p, NEW w1, NEW d1, Unit(v, p), Stream(w1, d1), Whole = Join(v, w1)
          PROVE  FALSE
      BY <2>1, <3>1, <3>3, StreamTypes
    <3> QED BY <3>2, <3>3
  <2> QED BY <2>2, <2>3, JoinNothing DEF ChannelInv, IInv, TypeOK
<1> QED BY <1>1, ChannelInvariant, PTL

\* No frame, reply or garbled payload hangs the parser: only worse damage can make the
\* length of 0 that processing_data() does not come back from.
THEOREM OnlyDamageHangs == Spec => HangsOnlyDamaged
<1>1. ASSUME ChannelInv, [Next]_vars, mode # "spin", mode' = "spin"
      PROVE  ~clean
  <2>1. ReadNothing
    <3>1. ~UNCHANGED parser
      BY <1>1 DEF parser
    <3>2. ~(Pause \/ Stop)
      BY <1>1, <3>1 DEF Pause, Stop, Pass, Expire, ReadLength
    <3>3. ParserStep
      BY <1>1, <3>1, <3>2 DEF Next, SendFrame, SendReply, Arrive, Garble, Lose, Disturb,
                              vars, parser
    <3> QED BY <1>1, <3>1, <3>3 DEF ParserStep, BeginFrame, BeginReply, Flush, LengthArrived,
                              ReadLength, ReadPayload, ReadReply
  <2> QED BY <1>1, <2>1, NoEmptyFrame DEF ChannelInv, Hung
<1>2. ChannelInv /\ [Next]_vars => [mode # "spin" /\ mode' = "spin" => ~clean]_vars
  BY <1>1
<1> QED BY <1>2, ChannelInvariant, PTL DEF Spec, HangsOnlyDamaged
=============================================================================
