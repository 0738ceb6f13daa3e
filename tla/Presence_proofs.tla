---------------------------- MODULE Presence_proofs ----------------------------
(* Proofs about the sync controller and the handler masks, for every set of *)
(* handlers and all times: types, the masks, and what a latency may include. *)
EXTENDS Presence, SequenceTheorems, TLAPS

-----------------------------------------------------------------------------
(* Frames and sequences of them *)

LEMMA FunctionIsSeq ==
  ASSUME NEW S, NEW n \in Nat, NEW f \in [1 .. n -> S]
  PROVE  f \in Seq(S) /\ Len(f) = n
OBVIOUS

LEMMA EspFrames ==
  /\ \A m \in ToEsp : /\ m.kind \in {"ping", "masks", "ask"}
                      /\ m.kind = "ping" => m.age \in Age
                      /\ m.kind = "masks" => m.set \in SUBSET Handler /\ m = Masks(m.set)
  /\ \A a \in Age : Ping(a) \in ToEsp /\ Ping(a).kind = "ping" /\ Ping(a).age = a
  /\ \A s \in SUBSET Handler :
       Masks(s) \in ToEsp /\ Masks(s).kind = "masks" /\ Masks(s).set = s
  /\ Ask \in ToEsp /\ Ask.kind = "ask"
<1>1. \A a \in Age : Ping(a) \in ToEsp /\ Ping(a).kind = "ping" /\ Ping(a).age = a
  BY DEF ToEsp, Ping
<1>2. \A s \in SUBSET Handler :
        Masks(s) \in ToEsp /\ Masks(s).kind = "masks" /\ Masks(s).set = s
  BY DEF ToEsp, Masks
<1>3. Ask \in ToEsp /\ Ask.kind = "ask"
  BY DEF ToEsp, Ask
<1>4. ASSUME NEW m \in ToEsp
      PROVE  /\ m.kind \in {"ping", "masks", "ask"}
             /\ m.kind = "ping" => m.age \in Age
             /\ m.kind = "masks" => m.set \in SUBSET Handler /\ m = Masks(m.set)
  <2>1. CASE \E a \in Age : m = Ping(a)
    BY <2>1, <1>1
  <2>2. CASE \E s \in SUBSET Handler : m = Masks(s)
    BY <2>2, <1>2
  <2>3. CASE m = Ask
    BY <2>3, <1>3
  <2> QED BY <2>1, <2>2, <2>3 DEF ToEsp
<1> QED BY <1>1, <1>2, <1>3, <1>4

LEMMA TeensyFrames ==
  /\ \A f \in ToTeensy : /\ f.kind \in {"sync", "boot", "other"}
                         /\ f.kind = "sync" => f.age \in Age
  /\ \A a \in Age :
       SyncAnswer(a) \in ToTeensy /\ SyncAnswer(a).kind = "sync" /\ SyncAnswer(a).age = a
  /\ Boot \in ToTeensy /\ Boot.kind = "boot"
  /\ Other \in ToTeensy /\ Other.kind = "other"
BY DEF ToTeensy, SyncAnswer, Boot, Other

LEMMA AgeTypes ==
  /\ 0 \in Age
  /\ \A a \in Age : Older(a) \in Age
  /\ \A a, b \in Age : a <= b => Older(a) <= Older(b)
BY TimesAssumption DEF Age, Older

LEMMA SendTypes ==
  ASSUME TypeOK, NEW s \in Seq(ToEsp), Send(s)
  PROVE  /\ toEsp' \in Seq(ToEsp) /\ Len(toEsp') = Len(toEsp) + Len(s)
         /\ \A i \in 1 .. Len(toEsp) : toEsp'[i] = toEsp[i]
         /\ \A i \in 1 .. Len(s) : toEsp'[Len(toEsp) + i] = s[i]
<1>1. toEsp \in Seq(ToEsp) /\ Len(toEsp) \in Nat /\ Len(s) \in Nat
  BY LenProperties DEF TypeOK
<1>2. toEsp' = toEsp \o s
  BY DEF Send
<1> QED BY <1>1, <1>2, ConcatProperties

LEMMA EspSendsTypes ==
  ASSUME TypeOK, NEW f \in ToTeensy, EspSends(f)
  PROVE  /\ toTeensy' \in Seq(ToTeensy) /\ Len(toTeensy') = Len(toTeensy) + 1
         /\ \A i \in 1 .. Len(toTeensy) : toTeensy'[i] = toTeensy[i]
         /\ toTeensy'[Len(toTeensy) + 1] = f
BY AppendProperties DEF TypeOK, EspSends

\* What a read or lost frame leaves on the wire.
LEMMA TailTypes ==
  ASSUME NEW S, NEW s \in Seq(S), s # << >>
  PROVE  /\ Head(s) \in S /\ Head(s) = s[1] /\ Tail(s) \in Seq(S)
         /\ Len(s) \in Nat \ {0} /\ Len(Tail(s)) = Len(s) - 1
         /\ \A i \in 1 .. Len(s) - 1 : Tail(s)[i] = s[i + 1]
BY HeadTailProperties, EmptySeq

\* What is left of a wire, or of the delays, after a tick: the same frames, older.
OlderFrame(f) ==
  IF f.kind = "ping" THEN Ping(Older(f.age))
  ELSE IF f.kind = "sync" THEN SyncAnswer(Older(f.age)) ELSE f

LEMMA OlderFrames ==
  /\ \A m \in ToEsp : /\ OlderFrame(m).kind = m.kind
                      /\ m.kind = "masks" => OlderFrame(m) = m
                      /\ m.kind = "ping" => OlderFrame(m).age = Older(m.age)
  /\ \A f \in ToTeensy : /\ OlderFrame(f).kind = f.kind
                         /\ f.kind = "sync" => OlderFrame(f).age = Older(f.age)
<1>1. ASSUME NEW m \in ToEsp
      PROVE  /\ OlderFrame(m).kind = m.kind
             /\ m.kind = "masks" => OlderFrame(m) = m
             /\ m.kind = "ping" => OlderFrame(m).age = Older(m.age)
  BY EspFrames, AgeTypes DEF OlderFrame
<1>2. ASSUME NEW f \in ToTeensy
      PROVE  /\ OlderFrame(f).kind = f.kind
             /\ f.kind = "sync" => OlderFrame(f).age = Older(f.age)
  BY TeensyFrames, AgeTypes DEF OlderFrame
<1> QED BY <1>1, <1>2

LEMMA TickTypes ==
  ASSUME TypeOK, Tick
  PROVE  /\ toEsp' \in Seq(ToEsp) /\ Len(toEsp') = Len(toEsp)
         /\ \A i \in 1 .. Len(toEsp) : toEsp'[i] = OlderFrame(toEsp[i])
         /\ toTeensy' \in Seq(ToTeensy) /\ Len(toTeensy') = Len(toTeensy)
         /\ \A i \in 1 .. Len(toTeensy) : toTeensy'[i] = OlderFrame(toTeensy[i])
         /\ delays' \in Seq(ToTeensy) /\ Len(delays') = Len(delays)
         /\ \A i \in 1 .. Len(delays) : delays'[i] = OlderFrame(delays[i])
<1>1. /\ toEsp \in Seq(ToEsp) /\ Len(toEsp) \in Nat
      /\ toTeensy \in Seq(ToTeensy) /\ Len(toTeensy) \in Nat
      /\ delays \in Seq(ToTeensy) /\ Len(delays) \in Nat
  BY LenProperties DEF TypeOK
<1>2. /\ \A i \in 1 .. Len(toEsp) : toEsp[i] \in ToEsp
      /\ \A i \in 1 .. Len(toTeensy) : toTeensy[i] \in ToTeensy
      /\ \A i \in 1 .. Len(delays) : delays[i] \in ToTeensy
  BY <1>1, ElementOfSeq
<1>3. toEsp' \in [1 .. Len(toEsp) -> ToEsp]
  BY <1>2, EspFrames, AgeTypes DEF Tick
<1>4. toTeensy' \in [1 .. Len(toTeensy) -> ToTeensy]
  BY <1>2, TeensyFrames, AgeTypes DEF Tick
<1>5. delays' \in [1 .. Len(delays) -> ToTeensy]
  BY <1>2, TeensyFrames, AgeTypes DEF Tick
<1>6. \A i \in 1 .. Len(toEsp) : toEsp'[i] = OlderFrame(toEsp[i])
  BY <1>2, EspFrames DEF Tick, OlderFrame
<1>7. \A i \in 1 .. Len(toTeensy) : toTeensy'[i] = OlderFrame(toTeensy[i])
  BY <1>2, TeensyFrames DEF Tick, OlderFrame
<1>8. \A i \in 1 .. Len(delays) : delays'[i] = OlderFrame(delays[i])
  BY <1>2, TeensyFrames DEF Tick, OlderFrame
<1>9. toEsp' \in Seq(ToEsp) /\ Len(toEsp') = Len(toEsp)
  BY <1>1, <1>3, FunctionIsSeq
<1>10. toTeensy' \in Seq(ToTeensy) /\ Len(toTeensy') = Len(toTeensy)
  BY <1>1, <1>4, FunctionIsSeq
<1>11. delays' \in Seq(ToTeensy) /\ Len(delays') = Len(delays)
  BY <1>1, <1>5, FunctionIsSeq
<1> QED BY <1>6, <1>7, <1>8, <1>9, <1>10, <1>11

-----------------------------------------------------------------------------
(* The types *)

LEMMA RegisteredTypes ==
  /\ \A n \in 1 .. Len(Registers) : FirstOnes(n) \in SUBSET Handler
  /\ Len(Registers) \in Nat \ {0}
<1>1. Registers \in Seq(Handler) /\ Len(Registers) \in Nat \ {0}
  BY RegistersAssumption, EmptySeq
<1>2. \A i \in 1 .. Len(Registers) : Registers[i] \in Handler
  BY <1>1, ElementOfSeq
<1> QED BY <1>1, <1>2 DEF FirstOnes

\* The detect handler leaves its whole mask last on the wire.
LEMMA DetectHandlerTypes ==
  ASSUME TypeOK, DetectHandler
  PROVE  /\ mask' \in SUBSET Handler /\ toEsp' \in Seq(ToEsp)
         /\ Len(toEsp') \in Nat \ {0} /\ toEsp'[Len(toEsp')] = Masks(mask')
         /\ Len(toEsp') >= Len(toEsp)
         /\ \A i \in 1 .. Len(toEsp') :
              \/ i <= Len(toEsp) /\ toEsp'[i] = toEsp[i]
              \/ toEsp'[i].kind = "masks"
<1> DEFINE s == [n \in 1 .. Len(Registers) |-> Masks(mask \cup FirstOnes(n))]
           k == Len(Registers)
<1>1. k \in Nat \ {0} /\ \A n \in 1 .. k : mask \cup FirstOnes(n) \in SUBSET Handler
  BY RegisteredTypes DEF TypeOK
<1>2. mask' = mask \cup FirstOnes(k) /\ Send(s)
  BY DEF DetectHandler
<1>3. /\ s \in [1 .. k -> ToEsp] /\ s[k] = Masks(mask')
      /\ \A n \in 1 .. k : s[n].kind = "masks"
  BY <1>1, <1>2, EspFrames
<1> HIDE DEF s, k
<1>4. s \in Seq(ToEsp) /\ Len(s) = k
  BY <1>1, <1>3, FunctionIsSeq
<1>5. /\ toEsp' \in Seq(ToEsp) /\ Len(toEsp') = Len(toEsp) + k
      /\ \A i \in 1 .. Len(toEsp) : toEsp'[i] = toEsp[i]
      /\ \A i \in 1 .. k : toEsp'[Len(toEsp) + i] = s[i]
  BY <1>2, <1>4, SendTypes
<1>6. Len(toEsp) \in Nat
  BY LenProperties DEF TypeOK
<1>7. toEsp'[Len(toEsp')] = Masks(mask')
  BY <1>1, <1>3, <1>5, <1>6
<1>8. ASSUME NEW i \in 1 .. Len(toEsp'), ~(i <= Len(toEsp))
      PROVE  toEsp'[i].kind = "masks"
  <2>1. i - Len(toEsp) \in 1 .. k /\ Len(toEsp) + (i - Len(toEsp)) = i
    BY <1>1, <1>5, <1>6, <1>8
  <2>2. toEsp'[i] = s[i - Len(toEsp)]
    BY <1>5, <2>1
  <2> QED BY <1>3, <2>1, <2>2
<1> QED BY <1>1, <1>2, <1>5, <1>6, <1>7, <1>8

\* The remainder keeps to its range, and makes nothing larger.
LEMMA RemainderBounds ==
  ASSUME NEW n \in Nat, NEW m \in Nat \ {0}
  PROVE  n % m \in 0 .. m - 1 /\ n % m <= n
<1>1. n % m \in 0 .. m - 1
  OBVIOUS
<1>2. n \div m \in Nat /\ n = m * (n \div m) + (n % m)
  OBVIOUS
<1>3. m * (n \div m) >= 0
  BY <1>2
<1> QED BY <1>1, <1>2, <1>3

LEMMA AverageBounds ==
  ASSUME TypeOK, Averaged
  PROVE  /\ latency' \in 0 .. LatencyLimit - 1
         /\ check < MaxAge => 2 * latency' <= latency + check
<1> DEFINE half == (check + latency) \div 2
<1>1. LatencyLimit \in Nat \ {0} /\ check \in Nat /\ latency \in Nat
  BY TimesAssumption DEF TypeOK, Age
<1>2. half \in Nat /\ 2 * half <= latency + check
  BY <1>1
<1>3. half % LatencyLimit \in 0 .. LatencyLimit - 1 /\ half % LatencyLimit <= half
  BY <1>1, <1>2, RemainderBounds
<1>4. CASE check < MaxAge /\ latency' = half % LatencyLimit
  <2> HIDE DEF half
  <2> QED BY <1>1, <1>2, <1>3, <1>4
<1>5. CASE check = MaxAge /\ latency' \in 0 .. LatencyLimit - 1
  <2>1. ~(check < MaxAge)
    BY <1>1, <1>5
  <2> QED BY <1>5, <2>1
<1>6. \/ check < MaxAge /\ latency' = half % LatencyLimit
      \/ check = MaxAge /\ latency' \in 0 .. LatencyLimit - 1
  BY DEF Averaged
<1> HIDE DEF half
<1> QED BY <1>4, <1>5, <1>6

LEMMA HandleTypes ==
  ASSUME TypeOK, NEW f, Handle(f)
  PROVE  latency' \in 0 .. LatencyLimit - 1 /\ pending' \in BOOLEAN
BY AverageBounds DEF TypeOK, Handle

LEMMA MayPingTypes ==
  ASSUME TypeOK, MayPing
  PROVE  /\ interval' \in Age /\ check' \in Age /\ toEsp' \in Seq(ToEsp)
         /\ \/ toEsp' = toEsp /\ check' \in {check, 0}
            \/ Send(<< Ping(0) >>) /\ check' = 0
<1>1. << Ping(0) >> \in Seq(ToEsp)
  BY EspFrames, AgeTypes
<1>2. Send(<< Ping(0) >>) => toEsp' \in Seq(ToEsp)
  BY <1>1, SendTypes
<1> QED BY <1>2, AgeTypes DEF TypeOK, MayPing, PingSent

LEMMA EventsTypes ==
  ASSUME TypeOK, Events
  PROVE  TypeOK'
<1>1. interval' \in Age /\ check' \in Age /\ toEsp' \in Seq(ToEsp)
  BY MayPingTypes DEF Events
<1>2. /\ online' \in BOOLEAN /\ packet' \in Age /\ latency' \in 0 .. LatencyLimit - 1 /\ pending' \in BOOLEAN
      /\ delays' \in Seq(ToTeensy) /\ left' \in 0 .. DetectDelay
      /\ toTeensy' \in Seq(ToTeensy)
  <2>1. CASE ReadFrame
    <3>1. Head(toTeensy) \in ToTeensy /\ toTeensy' \in Seq(ToTeensy)
      BY <2>1, TailTypes DEF ReadFrame, TypeOK
    <3>2. online' \in BOOLEAN /\ packet' \in Age
      BY <2>1, AgeTypes DEF ReadFrame
    <3>3. CASE BringsOnline(Head(toTeensy)) /\ UNCHANGED <<latency, pending>>
                /\ delays' = << Head(toTeensy) >> \o delays /\ left' = DetectDelay
      <4>1. << Head(toTeensy) >> \in Seq(ToTeensy) /\ delays \in Seq(ToTeensy)
        BY <3>1 DEF TypeOK
      <4>2. delays' \in Seq(ToTeensy)
        BY <3>3, <4>1, ConcatProperties
      <4> QED BY <3>1, <3>2, <3>3, <4>2, TimesAssumption DEF TypeOK
    <3>4. CASE Handle(Head(toTeensy)) /\ UNCHANGED waiting
      BY <3>1, <3>2, <3>4, HandleTypes DEF TypeOK, waiting
    <3> QED BY <2>1, <3>3, <3>4 DEF ReadFrame
  <2>2. CASE /\ online' = StaysOnline
             /\ UNCHANGED <<packet, latency, pending, waiting, toTeensy>>
    <3>1. online' \in BOOLEAN
      BY <2>2, Zenon DEF TypeOK, StaysOnline
    <3> QED BY <2>2, <3>1 DEF TypeOK, waiting
  <2> QED BY <2>1, <2>2 DEF Events
<1> QED BY <1>1, <1>2 DEF TypeOK, Events, esp, bounds

LEMMA DelayOverTypes ==
  ASSUME TypeOK, DelayOver
  PROVE  TypeOK'
<1>1. delays' \in Seq(ToTeensy)
  BY TailTypes DEF TypeOK, DelayOver
<1>2. latency' \in 0 .. LatencyLimit - 1 /\ pending' \in BOOLEAN
  BY HandleTypes DEF DelayOver
<1>3. mask' \in SUBSET Handler /\ toEsp' \in Seq(ToEsp) /\ lost' \in BOOLEAN
  <2>1. CASE DetectHandler
    BY <2>1, DetectHandlerTypes DEF DetectHandler
  <2>2. CASE UNCHANGED <<mask, toEsp, lost>>
    BY <2>2 DEF TypeOK
  <2> QED BY <2>1, <2>2 DEF DelayOver
<1> QED BY <1>1, <1>2, <1>3 DEF TypeOK, DelayOver, sync, esp, bounds

\* Register() puts one frame on the wire, and it is the mask.
LEMMA RegisterTypes ==
  ASSUME TypeOK, NEW h \in Handler, Register(h)
  PROVE  /\ mask' \in SUBSET Handler /\ toEsp' \in Seq(ToEsp)
         /\ Len(toEsp') = Len(toEsp) + 1
         /\ \A i \in 1 .. Len(toEsp) : toEsp'[i] = toEsp[i]
         /\ toEsp'[Len(toEsp) + 1] = Masks(mask')
<1>1. mask' \in SUBSET Handler /\ mask' = mask \cup {h}
  BY DEF TypeOK, Register
<1>2. << Masks(mask') >> \in Seq(ToEsp) /\ Send(<< Masks(mask') >>)
  BY <1>1, EspFrames DEF Register
<1>3. Len(<< Masks(mask') >>) = 1 /\ << Masks(mask') >>[1] = Masks(mask')
  OBVIOUS
<1>4. /\ toEsp' \in Seq(ToEsp) /\ Len(toEsp') = Len(toEsp) + 1
      /\ \A i \in 1 .. Len(toEsp) : toEsp'[i] = toEsp[i]
      /\ \A i \in 1 .. 1 : toEsp'[Len(toEsp) + i] = << Masks(mask') >>[i]
  BY <1>2, <1>3, SendTypes
<1> QED BY <1>1, <1>3, <1>4

LEMMA SketchTypes ==
  ASSUME TypeOK, SketchRegisters \/ SketchDetects \/ Call \/ GiveUp \/ TeensyRestart
  PROVE  TypeOK'
<1>1. CASE SketchRegisters
  <2>1. mask' \in SUBSET Handler /\ toEsp' \in Seq(ToEsp)
    BY <1>1, RegisterTypes DEF SketchRegisters
  <2>2. talk' \in 0 .. MaxTalk
    BY <1>1, TimesAssumption DEF TypeOK, SketchRegisters
  <2> QED BY <1>1, <2>1, <2>2 DEF TypeOK, SketchRegisters, sync, waiting, esp
<1>2. CASE SketchDetects
  <2>1. mask' \in SUBSET Handler /\ toEsp' \in Seq(ToEsp) /\ lost' \in BOOLEAN
    <3>1. CASE DetectHandler
      BY <3>1, DetectHandlerTypes DEF DetectHandler
    <3>2. CASE UNCHANGED <<mask, toEsp, lost>>
      BY <3>2 DEF TypeOK
    <3> QED BY <1>2, <3>1, <3>2 DEF SketchDetects, OnDetect
  <2> QED BY <1>2, <2>1 DEF TypeOK, SketchDetects, OnDetect, sync, waiting, esp, bounds
<1>3. CASE Call
  <2>1. << Ask >> \in Seq(ToEsp)
    BY EspFrames
  <2>2. toEsp' \in Seq(ToEsp)
    BY <1>3, <2>1, SendTypes DEF Call
  <2>3. talk' \in 0 .. MaxTalk
    BY <1>3, TimesAssumption DEF TypeOK, Call
  <2> QED BY <1>3, <2>2, <2>3 DEF TypeOK, Call, sync, waiting, esp
<1>4. CASE GiveUp
  BY <1>4 DEF TypeOK, GiveUp, sync, waiting, esp, bounds
<1>5. CASE TeensyRestart
  <2>1. << >> \in Seq(ToTeensy) /\ 0 \in 0 .. DetectDelay /\ 0 \in 0 .. LatencyLimit - 1
    BY EmptySeq, TimesAssumption
  <2>2. faults' \in 0 .. MaxFaults
    BY <1>5, TimesAssumption DEF TypeOK, TeensyRestart, Fault
  <2> QED BY <1>5, <2>1, <2>2, AgeTypes DEF TypeOK, TeensyRestart, esp
<1> QED BY <1>1, <1>2, <1>3, <1>4, <1>5

LEMMA EspTypes ==
  ASSUME TypeOK, Tick \/ EspReceive \/ EspEvent \/ EspCrash \/ EspBoot \/ Lose
  PROVE  TypeOK'
<1>1. CASE Tick
  <2>1. interval' \in Age /\ check' \in Age /\ packet' \in Age
    BY <1>1, AgeTypes DEF TypeOK, Tick
  <2>2. left' \in 0 .. DetectDelay
    BY <1>1, TimesAssumption DEF TypeOK, Tick
  <2> QED BY <1>1, <2>1, <2>2, TickTypes DEF TypeOK, Tick, sketch, esp, bounds
<1>2. CASE EspReceive
  <2>1. Head(toEsp) \in ToEsp /\ toEsp' \in Seq(ToEsp)
    BY <1>2, TailTypes DEF TypeOK, EspReceive
  <2>2. toTeensy' \in Seq(ToTeensy)
    BY <1>2, <2>1, EspSendsTypes, EspFrames, TeensyFrames DEF TypeOK, EspReceive
  <2>3. espMask' \in SUBSET Handler
    BY <1>2, <2>1, EspFrames DEF TypeOK, EspReceive
  <2> QED BY <1>2, <2>1, <2>2, <2>3 DEF TypeOK, EspReceive, sync, sketch, waiting, bounds
<1>3. CASE EspEvent
  <2>1. toTeensy' \in Seq(ToTeensy)
    BY <1>3, EspSendsTypes, TeensyFrames DEF EspEvent
  <2>2. talk' \in 0 .. MaxTalk
    BY <1>3, TimesAssumption DEF TypeOK, EspEvent
  <2> QED BY <1>3, <2>1, <2>2 DEF TypeOK, EspEvent, sync, sketch, waiting, esp
<1>4. CASE EspCrash
  <2>1. faults' \in 0 .. MaxFaults
    BY <1>4, TimesAssumption DEF TypeOK, EspCrash, Fault
  <2> QED BY <1>4, <2>1 DEF TypeOK, EspCrash, sync, sketch, waiting
<1>5. CASE EspBoot
  <2>1. toTeensy' \in Seq(ToTeensy)
    BY <1>5, EspSendsTypes, TeensyFrames DEF EspBoot
  <2> QED BY <1>5, <2>1 DEF TypeOK, EspBoot, sync, sketch, waiting, bounds
<1>6. CASE Lose
  <2>1. faults' \in 0 .. MaxFaults
    BY <1>6, TimesAssumption DEF TypeOK, Lose, Fault
  <2>2. toEsp' \in Seq(ToEsp) /\ toTeensy' \in Seq(ToTeensy)
    BY <1>6, TailTypes DEF TypeOK, Lose
  <2>3. lost' \in BOOLEAN
    BY <1>6, Zenon DEF TypeOK, Lose
  <2> QED BY <1>6, <2>1, <2>2, <2>3 DEF TypeOK, Lose, sync, sketch, waiting, esp
<1> QED BY <1>1, <1>2, <1>3, <1>4, <1>5, <1>6

LEMMA InitTypes == Init => TypeOK
<1> SUFFICES ASSUME Init PROVE TypeOK
  OBVIOUS
<1>1. << >> \in Seq(ToTeensy) /\ << >> \in Seq(ToEsp)
  BY EmptySeq
<1>2. /\ 0 \in 0 .. DetectDelay /\ 0 \in 0 .. MaxTalk /\ 0 \in 0 .. MaxFaults
      /\ 0 \in 0 .. LatencyLimit - 1
  BY TimesAssumption
<1> QED BY <1>1, <1>2, AgeTypes DEF Init, TypeOK

LEMMA NextTypes == TypeOK /\ [Next]_vars => TypeOK'
<1> SUFFICES ASSUME TypeOK, [Next]_vars PROVE TypeOK'
  OBVIOUS
<1>1. CASE UNCHANGED vars
  BY <1>1 DEF TypeOK, vars, sync, sketch, waiting, esp, bounds
<1> QED BY <1>1, EventsTypes, DelayOverTypes, SketchTypes, EspTypes DEF Next

\* Ages, masks, frames and waits keep their types, from a start with the ESP taken for
\* present and over any number of restarts.
THEOREM PresenceTypes == Spec => []TypeOK
BY InitTypes, NextTypes, PTL DEF Spec

-----------------------------------------------------------------------------
(* The masks *)

\* Whoever runs the detect handler has told the ESP.
LEMMA HandlerTells == TypeOK /\ DetectHandler => Told'
<1> SUFFICES ASSUME TypeOK, DetectHandler PROVE Told'
  OBVIOUS
<1>1. Len(toEsp') \in 1 .. Len(toEsp') /\ toEsp'[Len(toEsp')] = Masks(mask')
  BY DetectHandlerTypes
<1>2. Len(toEsp') + 1 .. Len(toEsp') = {}
  BY <1>1
<1> QED BY <1>1, <1>2 DEF Told

LEMMA RegisterTells ==
  ASSUME TypeOK, NEW h \in Handler, Register(h)
  PROVE  Told'
<1>1. Len(toEsp) \in Nat
  BY LenProperties DEF TypeOK
<1>2. Len(toEsp') = Len(toEsp) + 1 /\ toEsp'[Len(toEsp')] = Masks(mask')
  BY <1>1, RegisterTypes
<1>3. Len(toEsp') \in 1 .. Len(toEsp') /\ Len(toEsp') + 1 .. Len(toEsp') = {}
  BY <1>1, <1>2
<1> QED BY <1>2, <1>3 DEF Told

\* The first frame leaves the wire, and if it is a mask the ESP has it.
LEMMA ToldReading ==
  ASSUME TypeOK, Told, toEsp # << >>, toEsp' = Tail(toEsp), mask' = mask,
         \/ Head(toEsp).kind = "masks" /\ espMask' = Head(toEsp).set
         \/ Head(toEsp).kind # "masks" /\ espMask' = espMask
  PROVE  Told'
<1> DEFINE n == Len(toEsp)
<1>1. /\ n \in Nat \ {0} /\ Len(toEsp') = n - 1 /\ Head(toEsp) = toEsp[1]
      /\ \A i \in 1 .. n - 1 : toEsp'[i] = toEsp[i + 1]
  BY TailTypes DEF TypeOK
<1>2. CASE espMask = mask /\ \A i \in 1 .. n : toEsp[i].kind # "masks"
  <2>1. espMask' = mask'
    BY <1>1, <1>2
  <2>2. \A i \in 1 .. Len(toEsp') : toEsp'[i].kind # "masks"
    BY <1>1, <1>2
  <2> QED BY <2>1, <2>2 DEF Told
<1>3. ASSUME NEW k \in 1 .. n, toEsp[k] = Masks(mask),
             \A j \in k + 1 .. n : toEsp[j].kind # "masks"
      PROVE  Told'
  <2>1. Masks(mask).kind = "masks" /\ Masks(mask).set = mask
    BY DEF Masks
  <2>2. CASE k = 1
    <3>1. espMask' = mask'
      BY <1>1, <1>3, <2>1, <2>2
    <3>2. \A i \in 1 .. Len(toEsp') : toEsp'[i].kind # "masks"
      BY <1>1, <1>3, <2>2
    <3> QED BY <3>1, <3>2 DEF Told
  <2>3. CASE k # 1
    <3>1. k - 1 \in 1 .. Len(toEsp') /\ toEsp'[k - 1] = Masks(mask')
      BY <1>1, <1>3, <2>3
    <3>2. \A j \in (k - 1) + 1 .. Len(toEsp') : toEsp'[j].kind # "masks"
      BY <1>1, <1>3, <2>3
    <3> QED BY <3>1, <3>2 DEF Told
  <2> QED BY <2>2, <2>3
<1> QED BY <1>2, <1>3 DEF Told

\* One more frame on the wire, and not a mask.
LEMMA ToldStays ==
  ASSUME TypeOK, Told, mask' = mask, espMask' = espMask,
         NEW m \in ToEsp, m.kind # "masks", Send(<< m >>)
  PROVE  Told'
<1> DEFINE n == Len(toEsp)
<1>1. << m >> \in Seq(ToEsp) /\ Len(<< m >>) = 1 /\ << m >>[1] = m
  OBVIOUS
<1>2. n \in Nat
  BY LenProperties DEF TypeOK
<1>3. /\ Len(toEsp') = n + 1 /\ \A i \in 1 .. n : toEsp'[i] = toEsp[i]
      /\ \A i \in 1 .. 1 : toEsp'[n + i] = << m >>[i]
  BY <1>1, SendTypes
<1>4. toEsp'[n + 1].kind # "masks"
  BY <1>1, <1>3
<1>5. CASE espMask = mask /\ \A i \in 1 .. n : toEsp[i].kind # "masks"
  <2>1. \A i \in 1 .. Len(toEsp') : toEsp'[i].kind # "masks"
    BY <1>2, <1>3, <1>4, <1>5
  <2> QED BY <1>5, <2>1 DEF Told
<1>6. ASSUME NEW k \in 1 .. n, toEsp[k] = Masks(mask),
             \A j \in k + 1 .. n : toEsp[j].kind # "masks"
      PROVE  Told'
  <2>1. k \in 1 .. Len(toEsp') /\ toEsp'[k] = Masks(mask')
    BY <1>2, <1>3, <1>6
  <2>2. \A j \in k + 1 .. Len(toEsp') : toEsp'[j].kind # "masks"
    BY <1>2, <1>3, <1>4, <1>6
  <2> QED BY <2>1, <2>2 DEF Told
<1> QED BY <1>5, <1>6 DEF Told

\* Ages pass over masks and restart notices.
LEMMA ToldTick ==
  ASSUME TypeOK, Tick
  PROVE  /\ Told => Told'
         /\ RestartNoticed' => RestartNoticed
         /\ delays' = << >> => delays = << >>
<1>1. \A i \in 1 .. Len(toEsp) : toEsp[i] \in ToEsp
  BY ElementOfSeq DEF TypeOK
<1>2. \A i \in 1 .. Len(toTeensy) : toTeensy[i] \in ToTeensy
  BY ElementOfSeq DEF TypeOK
<1>3. /\ Len(toEsp') = Len(toEsp)
      /\ \A i \in 1 .. Len(toEsp) : /\ toEsp'[i].kind = toEsp[i].kind
                                    /\ toEsp[i].kind = "masks" => toEsp'[i] = toEsp[i]
  BY <1>1, TickTypes, OlderFrames
<1>4. /\ Len(toTeensy') = Len(toTeensy)
      /\ \A i \in 1 .. Len(toTeensy) : toTeensy'[i].kind = toTeensy[i].kind
  BY <1>2, TickTypes, OlderFrames
<1>5. Masks(mask).kind = "masks"
  BY DEF Masks
<1>6. mask' = mask /\ espMask' = espMask
  BY DEF Tick, sketch, esp
<1>7. Told => Told'
  BY <1>3, <1>5, <1>6 DEF Told
<1>8. RestartNoticed' => RestartNoticed
  BY <1>4 DEF RestartNoticed
<1>9. delays' = << >> => delays = << >>
  BY TickTypes, EmptySeq DEF TypeOK
<1> QED BY <1>7, <1>8, <1>9

\* A frame that is read or lost and is no restart notice.
LEMMA NoticedAfter ==
  ASSUME TypeOK, toTeensy # << >>, toTeensy' = Tail(toTeensy),
         Head(toTeensy).kind # "boot", RestartNoticed'
  PROVE  RestartNoticed
<1> DEFINE n == Len(toTeensy)
<1>1. /\ n \in Nat \ {0} /\ Len(toTeensy') = n - 1 /\ Head(toTeensy) = toTeensy[1]
      /\ \A i \in 1 .. n - 1 : toTeensy'[i] = toTeensy[i + 1]
  BY TailTypes DEF TypeOK
<1>2. ASSUME NEW i \in 1 .. n
      PROVE  toTeensy[i].kind # "boot"
  <2>1. CASE i = 1
    BY <1>1, <2>1
  <2>2. CASE i # 1
    <3>1. i - 1 \in 1 .. n - 1 /\ (i - 1) + 1 = i
      BY <1>1, <2>2
    <3>2. toTeensy'[i - 1] = toTeensy[i]
      BY <1>1, <3>1
    <3> QED BY <1>1, <3>1, <3>2 DEF RestartNoticed
  <2> QED BY <2>1, <2>2
<1> QED BY <1>2 DEF RestartNoticed

LEMMA NoticedBefore ==
  ASSUME TypeOK, NEW f \in ToTeensy, EspSends(f), RestartNoticed'
  PROVE  RestartNoticed /\ f.kind # "boot"
<1>1. Len(toTeensy) \in Nat
  BY LenProperties DEF TypeOK
<1> QED BY <1>1, EspSendsTypes DEF RestartNoticed

\* What MasksTold rests on.
Due == online /\ detect /\ up /\ delays = << >> /\ RestartNoticed /\ ~lost

LEMMA EventsTell == TypeOK /\ MasksTold /\ Events => MasksTold'
<1> SUFFICES ASSUME TypeOK, MasksTold, Events, Due' PROVE Told'
  BY DEF MasksTold, Due
<1>1. Due
  <2>1. CASE ReadFrame
    <3>1. ~BringsOnline(Head(toTeensy)) /\ delays = << >>
      <4>1. CASE delays' = << Head(toTeensy) >> \o delays
        <5>1. delays \in Seq(ToTeensy) /\ << Head(toTeensy) >> \in Seq(ToTeensy)
          BY <2>1, TailTypes DEF TypeOK, ReadFrame
        <5>2. Len(delays') = 1 + Len(delays) /\ Len(delays) \in Nat
          BY <4>1, <5>1, ConcatProperties, LenProperties
        <5> QED BY <5>2, EmptySeq DEF Due
      <4> QED BY <2>1, <4>1 DEF ReadFrame, Due, waiting
    <3>2. online /\ Head(toTeensy).kind # "boot"
      BY <3>1 DEF BringsOnline, StaysOnline
    <3>3. RestartNoticed
      BY <2>1, <3>2, NoticedAfter DEF ReadFrame, Due
    <3> QED BY <3>1, <3>2, <3>3 DEF Events, esp, Due
  <2>2. CASE /\ toTeensy = << >> /\ online' = StaysOnline
             /\ UNCHANGED <<packet, latency, pending, waiting, toTeensy>>
    BY <2>2 DEF Events, StaysOnline, esp, waiting, Due, RestartNoticed
  <2> QED BY <2>1, <2>2 DEF Events
<1>2. UNCHANGED <<mask, espMask, toEsp>>
  BY <1>1 DEF Events, MayPing, esp, Due
<1> QED BY <1>1, <1>2 DEF MasksTold, Due, Told

LEMMA DelayOverTells == TypeOK /\ DelayOver => MasksTold'
<1> SUFFICES ASSUME TypeOK, DelayOver, Due' PROVE Told'
  BY DEF MasksTold, Due
<1>1. detect
  BY DEF DelayOver, Due
<1> QED BY <1>1, HandlerTells DEF DelayOver

LEMMA SketchTells ==
  ASSUME TypeOK, MasksTold,
         SketchRegisters \/ SketchDetects \/ Call \/ GiveUp \/ TeensyRestart
  PROVE  MasksTold'
<1> SUFFICES ASSUME Due' PROVE Told'
  BY DEF MasksTold, Due
<1>1. CASE SketchRegisters
  BY <1>1, RegisterTells DEF SketchRegisters
<1>2. CASE SketchDetects
  <2>1. online
    BY <1>2 DEF SketchDetects, sync, Due
  <2> QED BY <1>2, <2>1, HandlerTells DEF SketchDetects, OnDetect
<1>3. CASE Call
  <2>1. Due
    BY <1>3 DEF Call, sync, waiting, esp, Due, RestartNoticed
  <2>2. Told
    BY <2>1 DEF MasksTold, Due
  <2>3. Ask \in ToEsp /\ Ask.kind # "masks"
    BY EspFrames
  <2> QED BY <1>3, <2>2, <2>3, ToldStays DEF Call, esp
<1>4. CASE GiveUp
  <2>1. Due
    BY <1>4 DEF GiveUp, sync, waiting, esp, Due, RestartNoticed
  <2> QED BY <1>4, <2>1 DEF MasksTold, Due, GiveUp, Told, esp
<1>5. CASE TeensyRestart
  BY <1>5 DEF TeensyRestart, Due
<1> QED BY <1>1, <1>2, <1>3, <1>4, <1>5

LEMMA EspTells ==
  ASSUME TypeOK, MasksTold,
         Tick \/ EspReceive \/ EspEvent \/ EspCrash \/ EspBoot \/ Lose
  PROVE  MasksTold'
<1> SUFFICES ASSUME Due' PROVE Told'
  BY DEF MasksTold, Due
<1>1. CASE Tick
  <2>1. Due
    BY <1>1, ToldTick DEF Tick, sketch, esp, Due
  <2> QED BY <1>1, <2>1, ToldTick DEF MasksTold, Due
<1>2. CASE EspReceive
  <2>1. Head(toEsp) \in ToEsp
    BY <1>2, TailTypes DEF TypeOK, EspReceive
  <2>2. up
    BY <1>2 DEF EspReceive, Due
  <2>3. RestartNoticed
    <3>1. CASE UNCHANGED toTeensy
      BY <3>1 DEF Due, RestartNoticed
    <3>2. ASSUME NEW f \in ToTeensy, EspSends(f) PROVE RestartNoticed
      BY <3>2, NoticedBefore DEF Due
    <3> QED BY <1>2, <2>1, <2>2, <3>1, <3>2, EspFrames, TeensyFrames DEF EspReceive
  <2>4. Told
    BY <1>2, <2>2, <2>3 DEF EspReceive, sync, sketch, waiting, Due, MasksTold
  <2>5. \/ Head(toEsp).kind = "masks" /\ espMask' = Head(toEsp).set
        \/ Head(toEsp).kind # "masks" /\ espMask' = espMask
    BY <1>2, <2>2 DEF EspReceive
  <2> QED BY <1>2, <2>4, <2>5, ToldReading DEF EspReceive, sketch
<1>3. CASE EspEvent
  <2>1. RestartNoticed
    BY <1>3, NoticedBefore, TeensyFrames DEF EspEvent, Due
  <2>2. Told
    BY <1>3, <2>1 DEF EspEvent, sync, sketch, waiting, esp, Due, MasksTold
  <2> QED BY <1>3, <2>2 DEF EspEvent, Told, sketch, esp
<1>4. CASE EspCrash
  BY <1>4 DEF EspCrash, Due
<1>5. CASE EspBoot
  BY <1>5, NoticedBefore, TeensyFrames DEF EspBoot, Due
<1>6. CASE Lose
  <2>1. online /\ detect /\ up /\ delays = << >> /\ ~lost
    BY <1>6 DEF Lose, sync, sketch, waiting, esp, Due
  <2>2. CASE toEsp # << >> /\ toEsp' = Tail(toEsp) /\ UNCHANGED toTeensy
             /\ lost' = (lost \/ Head(toEsp).kind = "masks")
    <3>1. Head(toEsp).kind # "masks"
      BY <2>2 DEF Due
    <3>2. Told
      BY <2>1, <2>2 DEF Due, RestartNoticed, MasksTold
    <3> QED BY <1>6, <2>2, <3>1, <3>2, ToldReading DEF Lose, sketch, esp
  <2>3. CASE toTeensy # << >> /\ toTeensy' = Tail(toTeensy) /\ UNCHANGED toEsp
             /\ lost' = (lost \/ Head(toTeensy).kind = "boot")
    <3>1. RestartNoticed
      BY <2>3, NoticedAfter DEF Due
    <3>2. Told
      BY <2>1, <3>1 DEF MasksTold
    <3> QED BY <1>6, <2>3, <3>2 DEF Lose, Told, sketch, esp
  <2> QED BY <1>6, <2>2, <2>3 DEF Lose
<1> QED BY <1>1, <1>2, <1>3, <1>4, <1>5, <1>6

\* Whichever side restarts, and wherever the handlers are registered, the ESP of a
\* library that is online has the whole mask or has it on its way.
THEOREM EspKnowsTheMask == Spec => []MasksTold
<1>1. Init => MasksTold
  BY DEF Init, MasksTold
<1>2. TypeOK /\ MasksTold /\ [Next]_vars => MasksTold'
  <2> SUFFICES ASSUME TypeOK, MasksTold, [Next]_vars PROVE MasksTold'
    OBVIOUS
  <2>1. CASE UNCHANGED vars
    BY <2>1 DEF MasksTold, Told, RestartNoticed, vars, sync, sketch, waiting, esp, bounds
  <2> QED BY <2>1, EventsTell, DelayOverTells, SketchTells, EspTells DEF Next
<1> QED BY <1>1, <1>2, PresenceTypes, PTL DEF Spec

-----------------------------------------------------------------------------
(* What a latency may include *)

LEMMA SentBeforeYounger ==
  ASSUME NEW a \in Age, NEW b \in Age, b <= a, NEW s, SentBefore(a, s),
         \A i \in 1 .. Len(s) : s[i].kind \in {"ping", "sync"} => s[i].age \in Age
  PROVE  SentBefore(b, s)
BY DEF SentBefore, Age

LEMMA SentBeforeTail ==
  ASSUME NEW S, NEW s \in Seq(S), s # << >>, NEW a, SentBefore(a, s)
  PROVE  /\ SentBefore(a, Tail(s))
         /\ Head(s).kind \in {"ping", "sync"} => a <= Head(s).age
<1>1. /\ Len(s) \in Nat \ {0} /\ Len(Tail(s)) = Len(s) - 1 /\ Head(s) = s[1]
      /\ \A i \in 1 .. Len(s) - 1 : Tail(s)[i] = s[i + 1]
  BY TailTypes
<1> QED BY <1>1 DEF SentBefore

\* Longer by frames that are no pings, or none before a.
LEMMA SentBeforeMore ==
  ASSUME NEW s, NEW t, NEW a, SentBefore(a, s),
         \A i \in 1 .. Len(t) : \/ i \in 1 .. Len(s) /\ t[i] = s[i]
                                \/ t[i].kind \in {"ping", "sync"} => a <= t[i].age
  PROVE  SentBefore(a, t)
BY DEF SentBefore

LEMMA WireAges ==
  ASSUME TypeOK
  PROVE  /\ \A i \in 1 .. Len(toEsp) :
              toEsp[i] \in ToEsp /\ (toEsp[i].kind \in {"ping", "sync"} => toEsp[i].age \in Age)
         /\ \A i \in 1 .. Len(toTeensy) :
              toTeensy[i] \in ToTeensy
              /\ (toTeensy[i].kind \in {"ping", "sync"} => toTeensy[i].age \in Age)
         /\ \A i \in 1 .. Len(delays) :
              delays[i] \in ToTeensy
              /\ (delays[i].kind \in {"ping", "sync"} => delays[i].age \in Age)
<1>1. \A i \in 1 .. Len(toEsp) : toEsp[i] \in ToEsp
  BY ElementOfSeq DEF TypeOK
<1>2. \A i \in 1 .. Len(toTeensy) : toTeensy[i] \in ToTeensy
  BY ElementOfSeq DEF TypeOK
<1>3. \A i \in 1 .. Len(delays) : delays[i] \in ToTeensy
  BY ElementOfSeq DEF TypeOK
<1> QED BY <1>1, <1>2, <1>3, EspFrames, TeensyFrames

\* One more frame for the Teensy: an answer to a ping that is not younger, or none.
LEMMA SentBeforeSend ==
  ASSUME TypeOK, NEW f \in ToTeensy, EspSends(f), NEW a, SentBefore(a, toTeensy),
         f.kind = "sync" => a <= f.age
  PROVE  SentBefore(a, toTeensy')
<1>1. Len(toTeensy) \in Nat
  BY LenProperties DEF TypeOK
<1>2. f.kind # "ping"
  BY TeensyFrames
<1> QED BY <1>1, <1>2, EspSendsTypes, SentBeforeMore DEF SentBefore

LEMMA EventsMeasure == TypeOK /\ TimedFromLatest /\ Events => TimedFromLatest'
<1> SUFFICES ASSUME TypeOK, TimedFromLatest, Events PROVE TimedFromLatest'
  OBVIOUS
<1>1. check \in Age /\ check' \in Age /\ check' <= check
  BY MayPingTypes DEF TypeOK, Events, MayPing, PingSent, Age
<1>2. SentBefore(check', toEsp) /\ SentBefore(check', toTeensy) /\ SentBefore(check', delays)
  BY <1>1, WireAges, SentBeforeYounger DEF TimedFromLatest
<1>3. SentBefore(check', toEsp')
  <2>1. CASE Send(<< Ping(0) >>) /\ check' = 0
    <3>1. << Ping(0) >> \in Seq(ToEsp) /\ Len(<< Ping(0) >>) = 1 /\ << Ping(0) >>[1] = Ping(0)
      BY EspFrames, AgeTypes
    <3>2. /\ Len(toEsp') = Len(toEsp) + 1 /\ Len(toEsp) \in Nat
          /\ \A i \in 1 .. Len(toEsp) : toEsp'[i] = toEsp[i]
          /\ \A i \in 1 .. 1 : toEsp'[Len(toEsp) + i] = << Ping(0) >>[i]
      BY <2>1, <3>1, SendTypes, LenProperties DEF TypeOK
    <3>3. toEsp'[Len(toEsp) + 1].age = 0
      BY <3>1, <3>2, EspFrames, AgeTypes
    <3> QED BY <1>2, <2>1, <3>2, <3>3, SentBeforeMore
  <2>2. CASE toEsp' = toEsp
    BY <1>2, <2>2
  <2> QED BY <2>1, <2>2, MayPingTypes DEF Events
<1>4. SentBefore(check', toTeensy') /\ SentBefore(check', delays')
  <2>1. CASE ReadFrame
    <3>1. /\ SentBefore(check', toTeensy')
          /\ Head(toTeensy).kind \in {"ping", "sync"} => check' <= Head(toTeensy).age
      BY <1>2, <2>1, SentBeforeTail DEF TypeOK, ReadFrame
    <3>2. CASE delays' = << Head(toTeensy) >> \o delays
      <4>1. delays \in Seq(ToTeensy) /\ << Head(toTeensy) >> \in Seq(ToTeensy)
        BY <2>1, TailTypes DEF TypeOK, ReadFrame
      <4>2. /\ Len(delays') = 1 + Len(delays) /\ Len(delays) \in Nat
            /\ delays'[1] = Head(toTeensy)
            /\ \A i \in 2 .. 1 + Len(delays) : delays'[i] = delays[i - 1]
        BY <3>2, <4>1, ConcatProperties, LenProperties
      <4>3. ASSUME NEW i \in 1 .. Len(delays'), delays'[i].kind \in {"ping", "sync"}
            PROVE  check' <= delays'[i].age
        <5>1. CASE i = 1
          BY <3>1, <4>2, <4>3, <5>1
        <5>2. CASE i # 1
          <6>1. i \in 2 .. 1 + Len(delays) /\ i - 1 \in 1 .. Len(delays)
            BY <4>2, <5>2
          <6> QED BY <1>2, <4>2, <4>3, <6>1 DEF SentBefore
        <5> QED BY <5>1, <5>2
      <4> QED BY <3>1, <4>3 DEF SentBefore
    <3>3. CASE UNCHANGED waiting
      BY <1>2, <3>1, <3>3 DEF waiting
    <3> QED BY <2>1, <3>2, <3>3 DEF ReadFrame
  <2>2. CASE UNCHANGED <<packet, latency, pending, waiting, toTeensy>>
    BY <1>2, <2>2 DEF waiting
  <2> QED BY <2>1, <2>2 DEF Events
<1> QED BY <1>3, <1>4 DEF TimedFromLatest

LEMMA HandlerMeasures ==
  ASSUME TypeOK, DetectHandler, SentBefore(check, toEsp)
  PROVE  SentBefore(check, toEsp')
<1>1. Len(toEsp) \in Nat /\ Len(toEsp') \in Nat
  BY DetectHandlerTypes, LenProperties DEF TypeOK
<1> QED BY <1>1, DetectHandlerTypes DEF SentBefore

LEMMA DelayOverMeasures == TypeOK /\ TimedFromLatest /\ DelayOver => TimedFromLatest'
<1> SUFFICES ASSUME TypeOK, TimedFromLatest, DelayOver PROVE TimedFromLatest'
  OBVIOUS
<1>1. check' = check /\ toTeensy' = toTeensy
  BY DEF DelayOver, sync
<1>2. SentBefore(check, delays')
  BY SentBeforeTail DEF TypeOK, TimedFromLatest, DelayOver
<1>3. SentBefore(check, toEsp')
  BY HandlerMeasures DEF DelayOver, TimedFromLatest
<1> QED BY <1>1, <1>2, <1>3 DEF TimedFromLatest

LEMMA SketchMeasures ==
  ASSUME TypeOK, TimedFromLatest,
         SketchRegisters \/ SketchDetects \/ Call \/ GiveUp \/ TeensyRestart
  PROVE  TimedFromLatest'
<1>0. Len(toEsp) \in Nat
  BY LenProperties DEF TypeOK
<1>1. CASE SketchRegisters
  <2>1. PICK h \in Handler : Register(h)
    BY <1>1 DEF SketchRegisters
  <2>2. toEsp'[Len(toEsp) + 1].kind = "masks"
    BY <2>1, RegisterTypes, EspFrames
  <2>3. SentBefore(check, toEsp')
    BY <1>0, <2>1, <2>2, RegisterTypes, SentBeforeMore DEF TimedFromLatest
  <2> QED BY <1>1, <2>3 DEF SketchRegisters, TimedFromLatest, sync, waiting
<1>2. CASE SketchDetects
  <2>1. SentBefore(check, toEsp')
    BY <1>2, HandlerMeasures DEF SketchDetects, OnDetect, TimedFromLatest
  <2> QED BY <1>2, <2>1 DEF SketchDetects, TimedFromLatest, sync, waiting
<1>3. CASE Call
  <2>1. << Ask >> \in Seq(ToEsp) /\ Len(<< Ask >>) = 1 /\ << Ask >>[1] = Ask
    BY EspFrames
  <2>2. /\ Len(toEsp') = Len(toEsp) + 1
        /\ \A i \in 1 .. Len(toEsp) : toEsp'[i] = toEsp[i]
        /\ \A i \in 1 .. 1 : toEsp'[Len(toEsp) + i] = << Ask >>[i]
    BY <1>3, <2>1, SendTypes DEF Call
  <2>3. toEsp'[Len(toEsp) + 1].kind = "ask"
    BY <2>1, <2>2, EspFrames
  <2>4. SentBefore(check, toEsp')
    BY <1>0, <2>2, <2>3, SentBeforeMore DEF TimedFromLatest
  <2> QED BY <1>3, <2>4 DEF Call, TimedFromLatest, sync, waiting
<1>4. CASE GiveUp
  BY <1>4 DEF GiveUp, TimedFromLatest, sync, waiting
<1>5. CASE TeensyRestart
  <2>1. check' = 0 /\ 0 \in Age /\ 0 <= check /\ check \in Age
    BY <1>5, AgeTypes DEF TeensyRestart, TypeOK, Age
  <2>2. SentBefore(check', toEsp)
    BY <2>1, WireAges, SentBeforeYounger DEF TimedFromLatest
  <2>3. SentBefore(check', << >>)
    BY EmptySeq DEF SentBefore
  <2> QED BY <1>5, <2>2, <2>3 DEF TeensyRestart, TimedFromLatest
<1> QED BY <1>1, <1>2, <1>3, <1>4, <1>5

LEMMA TickMeasures == TypeOK /\ TimedFromLatest /\ Tick => TimedFromLatest'
<1> SUFFICES ASSUME TypeOK, TimedFromLatest, Tick PROVE TimedFromLatest'
  OBVIOUS
<1>1. check \in Age /\ check' = Older(check)
  BY DEF TypeOK, Tick
<1>2. SentBefore(check', toEsp')
  <2> SUFFICES ASSUME NEW i \in 1 .. Len(toEsp), toEsp'[i].kind \in {"ping", "sync"}
               PROVE  check' <= toEsp'[i].age
    BY TickTypes DEF SentBefore
  <2>1. toEsp[i] \in ToEsp /\ toEsp'[i] = OlderFrame(toEsp[i])
    BY WireAges, TickTypes
  <2>2. toEsp[i].kind = "ping" /\ toEsp'[i].age = Older(toEsp[i].age) /\ toEsp[i].age \in Age
    BY <2>1, EspFrames, OlderFrames
  <2>3. check <= toEsp[i].age
    BY <2>2 DEF TimedFromLatest, SentBefore
  <2> QED BY <1>1, <2>2, <2>3, AgeTypes
<1>3. ASSUME NEW s \in Seq(ToTeensy), NEW t, SentBefore(check, s), Len(t) = Len(s),
             \A i \in 1 .. Len(s) : t[i] = OlderFrame(s[i])
      PROVE  SentBefore(check', t)
  <2> SUFFICES ASSUME NEW i \in 1 .. Len(s), t[i].kind \in {"ping", "sync"}
               PROVE  check' <= t[i].age
    BY <1>3 DEF SentBefore
  <2>1. s[i] \in ToTeensy /\ t[i] = OlderFrame(s[i])
    BY <1>3, ElementOfSeq
  <2>2. s[i].kind = "sync" /\ t[i].age = Older(s[i].age) /\ s[i].age \in Age
    BY <2>1, TeensyFrames, OlderFrames
  <2>3. check <= s[i].age
    BY <1>3, <2>2 DEF SentBefore
  <2> QED BY <1>1, <2>2, <2>3, AgeTypes
<1>4. SentBefore(check', toTeensy') /\ SentBefore(check', delays')
  BY <1>3, TickTypes DEF TypeOK, TimedFromLatest
<1> QED BY <1>2, <1>4 DEF TimedFromLatest

LEMMA EspMeasures ==
  ASSUME TypeOK, TimedFromLatest, EspReceive \/ EspEvent \/ EspCrash \/ EspBoot \/ Lose
  PROVE  TimedFromLatest'
<1>1. CASE EspReceive
  <2>1. /\ Head(toEsp) \in ToEsp /\ SentBefore(check, toEsp')
        /\ Head(toEsp).kind = "ping" => check <= Head(toEsp).age
    BY <1>1, TailTypes, SentBeforeTail DEF TypeOK, TimedFromLatest, EspReceive
  <2>2. SentBefore(check, toTeensy')
    <3>1. CASE UNCHANGED toTeensy
      BY <3>1 DEF TimedFromLatest
    <3>2. CASE Head(toEsp).kind = "ping" /\ EspSends(SyncAnswer(Head(toEsp).age))
      <4>1. Head(toEsp).age \in Age
        BY <2>1, <3>2, EspFrames
      <4> QED BY <2>1, <3>2, <4>1, SentBeforeSend, TeensyFrames DEF TimedFromLatest
    <3>3. CASE EspSends(Other)
      BY <3>3, SentBeforeSend, TeensyFrames DEF TimedFromLatest
    <3> QED BY <1>1, <3>1, <3>2, <3>3 DEF EspReceive
  <2> QED BY <1>1, <2>1, <2>2 DEF EspReceive, TimedFromLatest, sync, waiting
<1>2. CASE EspEvent
  <2>1. SentBefore(check, toTeensy')
    BY <1>2, SentBeforeSend, TeensyFrames DEF EspEvent, TimedFromLatest
  <2> QED BY <1>2, <2>1 DEF EspEvent, TimedFromLatest, sync, waiting
<1>3. CASE EspCrash
  BY <1>3 DEF EspCrash, TimedFromLatest, sync, waiting
<1>4. CASE EspBoot
  <2>1. SentBefore(check, toTeensy')
    BY <1>4, SentBeforeSend, TeensyFrames DEF EspBoot, TimedFromLatest
  <2> QED BY <1>4, <2>1 DEF EspBoot, TimedFromLatest, sync, waiting
<1>5. CASE Lose
  <2>1. SentBefore(check, toEsp')
    BY <1>5, SentBeforeTail DEF Lose, TypeOK, TimedFromLatest
  <2>2. SentBefore(check, toTeensy')
    BY <1>5, SentBeforeTail DEF Lose, TypeOK, TimedFromLatest
  <2> QED BY <1>5, <2>1, <2>2 DEF Lose, TimedFromLatest, sync, waiting
<1> QED BY <1>1, <1>2, <1>3, <1>4, <1>5

\* No age is counted from before the latest ping.
LEMMA AlwaysTimed == Spec => []TimedFromLatest
<1>1. Init => TimedFromLatest
  BY EmptySeq DEF Init, TimedFromLatest, SentBefore
<1>2. TypeOK /\ TimedFromLatest /\ [Next]_vars => TimedFromLatest'
  <2> SUFFICES ASSUME TypeOK, TimedFromLatest, [Next]_vars PROVE TimedFromLatest'
    OBVIOUS
  <2>1. CASE UNCHANGED vars
    BY <2>1 DEF TimedFromLatest, vars, sync, waiting
  <2> QED BY <2>1, EventsMeasure, DelayOverMeasures, SketchMeasures, TickMeasures,
             EspMeasures DEF Next
<1> QED BY <1>1, <1>2, PresenceTypes, PTL DEF Spec

\* An answer read without a delay is averaged at once.
LEMMA ReadAverages ==
  ASSUME TypeOK, Events, toTeensy # << >>, delays' = delays, Head(toTeensy).kind = "sync"
  PROVE  Averaged
<1>1. ReadFrame
  BY DEF Events
<1>2. delays' # << Head(toTeensy) >> \o delays
  <2>1. delays \in Seq(ToTeensy) /\ Head(toTeensy) \in ToTeensy /\ Len(delays) \in Nat
    BY TailTypes, LenProperties DEF TypeOK
  <2>2. Len(<< Head(toTeensy) >> \o delays) = 1 + Len(delays)
    BY <2>1, ConcatProperties
  <2> QED BY <2>1, <2>2
<1>3. Handle(Head(toTeensy))
  BY <1>1, <1>2 DEF ReadFrame
<1> QED BY <1>3 DEF Handle

\* LatencyFromItsPing, for all times, restarts and losses, and any number of pings on
\* their way: what an answer makes of _esp_latency counts no more than the time from its
\* own ping to the end of its handling.
THEOREM LatencyNotOverstated == Spec => LatencyFromItsPing
<1>1. ASSUME TypeOK, TimedFromLatest, [Next]_vars, NEW f \in ToTeensy, SyncHandled(f),
             f.age < MaxAge
      PROVE  2 * latency' <= latency + f.age
  <2>1. f.age \in Age /\ check \in Age /\ latency \in Nat
    BY <1>1, TeensyFrames, TimesAssumption DEF SyncHandled, TypeOK
  <2>2. check <= f.age /\ Averaged
    <3>1. CASE Events /\ toTeensy # << >> /\ f = Head(toTeensy) /\ delays' = delays
      <4>1. check <= f.age
        BY <1>1, <3>1, SentBeforeTail DEF TypeOK, TimedFromLatest, SyncHandled
      <4> QED BY <1>1, <3>1, <4>1, ReadAverages DEF SyncHandled
    <3>2. CASE DelayOver /\ f = Head(delays)
      <4>1. check <= f.age
        BY <1>1, <3>2, SentBeforeTail DEF TypeOK, TimedFromLatest, SyncHandled, DelayOver
      <4> QED BY <1>1, <3>2, <4>1 DEF SyncHandled, DelayOver, Handle
    <3> QED BY <1>1, <3>1, <3>2 DEF SyncHandled
  <2>3. check < MaxAge /\ latency' \in Nat /\ f.age \in Nat /\ check \in Nat
    BY <1>1, <2>1, <2>2, AverageBounds, TimesAssumption DEF Age
  <2>4. 2 * latency' <= latency + check
    BY <1>1, <2>2, <2>3, AverageBounds
  <2>5. check <= f.age
    BY <2>2
  <2>6. \A a, b, c, d \in Nat : 2 * a <= b + c /\ c <= d => 2 * a <= b + d
    OBVIOUS
  <2> QED BY <2>1, <2>3, <2>4, <2>5, <2>6
<1>2. TypeOK /\ TimedFromLatest /\ [Next]_vars
        => [\A f \in ToTeensy :
              SyncHandled(f) /\ f.age < MaxAge => 2 * latency' <= latency + f.age]_vars
  BY <1>1
<1> QED BY <1>2, PresenceTypes, AlwaysTimed, PTL DEF Spec, LatencyFromItsPing
=============================================================================
