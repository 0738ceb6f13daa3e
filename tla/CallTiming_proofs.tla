---------------------------- MODULE CallTiming_proofs ----------------------------
(***************************************************************************)
(* Proofs about the clock of one call, for every tick, every wrap of the   *)
(* clock, every set of latencies and every command of the library.         *)
(***************************************************************************)
EXTENDS CallTiming, WellFoundedInduction, TLAPS

-----------------------------------------------------------------------------
(* The limits in the table of commands *)

MaxLimit == 35000
LimitRange == 0 .. MaxLimit

\* What every command of the table keeps to: limits of at most 35 s, and one limit
\* for the loop and the check behind it, but for one method.
Fits(c) ==
  /\ c.loop \in LimitRange /\ c.post \in LimitRange
  /\ c.loop = c.post \/ c.name = "waitForConnectResult"

LEMMA AsksFit ==
  ASSUME NEW h, NEW k, NEW limit \in LimitRange, NEW names,
         NEW c \in Asks(h, k, limit, names)
  PROVE  Fits(c)
<1> DEFINE command(n) ==
      [hdr |-> h, kind |-> k, name |-> n[1], sub |-> n[2], loop |-> limit, post |-> limit]
<1>1. \A n \in names : Fits(command(n))
  BY DEF Fits
<1>2. Asks(h, k, limit, names) = {command(n) : n \in names}
  BY DEF Asks
<1> HIDE DEF command
<1> QED BY <1>1, <1>2

LEMMA TellsFit ==
  ASSUME NEW h, NEW k, NEW names, NEW c \in Tells(h, k, names)
  PROVE  Fits(c)
<1> DEFINE command(n) ==
      [hdr |-> h, kind |-> k, name |-> n[1], sub |-> n[2], loop |-> 0, post |-> 0]
<1>1. \A n \in names : Fits(command(n))
  BY DEF Fits, LimitRange, MaxLimit
<1>2. Tells(h, k, names) = {command(n) : n \in names}
  BY DEF Tells, AsksUnevenly
<1> HIDE DEF command
<1> QED BY <1>1, <1>2

\* The one method with two limits.
LEMMA AsksUnevenlyFit ==
  ASSUME NEW h, NEW k, NEW loop \in LimitRange, NEW post \in LimitRange, NEW names,
         \A n \in names : n[1] = "waitForConnectResult",
         NEW c \in AsksUnevenly(h, k, loop, post, names)
  PROVE  Fits(c)
<1> DEFINE command(n) ==
      [hdr |-> h, kind |-> k, name |-> n[1], sub |-> n[2], loop |-> loop, post |-> post]
<1>1. \A n \in names : Fits(command(n))
  BY DEF Fits
<1>2. AsksUnevenly(h, k, loop, post, names) = {command(n) : n \in names}
  BY DEF AsksUnevenly
<1> HIDE DEF command
<1> QED BY <1>1, <1>2

LEMMA CommandsFit == \A c \in Commands : Fits(c)
<1>0. /\ 500 \in LimitRange /\ 1000 \in LimitRange /\ 1500 \in LimitRange
      /\ 2500 \in LimitRange /\ 3500 \in LimitRange /\ 5000 \in LimitRange
      /\ 35000 \in LimitRange
  BY SMT DEF LimitRange, MaxLimit
<1>1. \A c \in SpiffsFile : Fits(c)
  BY SMT, <1>0, AsksFit DEF SpiffsFile
<1>2. \A c \in FileRead : Fits(c)
  BY SMT, <1>0, AsksFit DEF FileRead
<1>3. \A c \in PeekAndAvailable : Fits(c)
  BY SMT, <1>0, AsksFit DEF PeekAndAvailable
<1>4. \A c \in ReadAndFlush : Fits(c)
  BY SMT, <1>0, AsksFit, TellsFit DEF ReadAndFlush
<1>5. \A c \in WriteAndDirs : Fits(c)
  BY SMT, <1>0, AsksFit DEF WriteAndDirs
<1>6. \A c \in DirsAndMqtt : Fits(c)
  BY SMT, <1>0, AsksFit DEF DirsAndMqtt
<1>7. \A c \in MqttPublish : Fits(c)
  BY SMT, <1>0, AsksFit, TellsFit DEF MqttPublish
<1>8. \A c \in MqttSetup : Fits(c)
  BY SMT, <1>0, AsksFit DEF MqttSetup
<1>9. \A c \in WillAndBegin : Fits(c)
  BY SMT, <1>0, AsksFit DEF WillAndBegin
<1>10. \A c \in BeginAndDisconnect : Fits(c)
  BY SMT, <1>0, AsksFit, TellsFit DEF BeginAndDisconnect
<1>11. \A c \in WifiAuto : Fits(c)
  <2> DEFINE names == {<<"waitForConnectResult", 10>>}
  <2>1. \A n \in names : n[1] = "waitForConnectResult"
    OBVIOUS
  <2> HIDE DEF names
  <2>2. \A c \in AsksUnevenly("A2A2", "WiFi", 3500, 1000, names) : Fits(c)
    BY SMT, <1>0, <2>1, AsksUnevenlyFit
  <2> QED BY SMT, <1>0, <2>2, AsksFit DEF WifiAuto, names
<1>12. \A c \in WifiAddresses : Fits(c)
  BY SMT, <1>0, AsksFit DEF WifiAddresses
<1>13. \A c \in WifiStatus : Fits(c)
  BY SMT, <1>0, AsksFit DEF WifiStatus
<1>14. \A c \in SmartConfigAndEsp : Fits(c)
  BY SMT, <1>0, AsksFit, TellsFit DEF SmartConfigAndEsp
<1>15. \A c \in EspMemory : Fits(c)
  BY SMT, <1>0, AsksFit DEF EspMemory
<1>16. \A c \in EspChip : Fits(c)
  BY SMT, <1>0, AsksFit DEF EspChip
<1>17. \A c \in EspFlash : Fits(c)
  BY SMT, <1>0, AsksFit DEF EspFlash
<1>18. \A c \in EspSketch : Fits(c)
  BY SMT, <1>0, AsksFit DEF EspSketch
<1>19. \A c \in ClientConnect : Fits(c)
  BY SMT, <1>0, AsksFit DEF ClientConnect
<1>20. \A c \in ClientStop : Fits(c)
  BY SMT, <1>0, AsksFit, TellsFit DEF ClientStop
<1>21. \A c \in ClientPorts : Fits(c)
  BY SMT, <1>0, AsksFit, TellsFit DEF ClientPorts
<1>22. \A c \in WifiSleep : Fits(c)
  BY SMT, <1>0, AsksFit, TellsFit DEF WifiSleep
<1>23. \A c \in WifiModeAndUdp : Fits(c)
  BY SMT, <1>0, AsksFit DEF WifiModeAndUdp
<1>24. \A c \in UdpAndSoftAp : Fits(c)
  BY SMT, <1>0, AsksFit DEF UdpAndSoftAp
<1>25. \A c \in SoftApAndScan : Fits(c)
  BY SMT, <1>0, AsksFit, TellsFit DEF SoftApAndScan
<1>26. \A c \in ScanResults : Fits(c)
  BY SMT, <1>0, AsksFit DEF ScanResults
<1>27. \A c \in EepromAndMulti : Fits(c)
  BY SMT, <1>0, AsksFit, TellsFit DEF EepromAndMulti
<1>28. \A c \in WebsocketBegin : Fits(c)
  BY SMT, <1>0, AsksFit, TellsFit DEF WebsocketBegin
<1>29. \A c \in WebsocketSend : Fits(c)
  BY SMT, <1>0, AsksFit, TellsFit DEF WebsocketSend
<1>30. \A c \in WebsocketBroadcast : Fits(c)
  BY SMT, <1>0, AsksFit DEF WebsocketBroadcast
<1>31. \A c \in SecureCerts : Fits(c)
  BY SMT, <1>0, AsksFit, TellsFit DEF SecureCerts
<1>32. \A c \in AsyncUdpCalls : Fits(c)
  BY SMT, <1>0, AsksFit, TellsFit DEF AsyncUdpCalls
<1>33. \A c \in AsyncUdpBroadcast : Fits(c)
  BY SMT, <1>0, AsksFit DEF AsyncUdpBroadcast
<1> QED
  BY SMT, <1>1, <1>2, <1>3, <1>4, <1>5, <1>6, <1>7, <1>8, <1>9, <1>10, <1>11, <1>12, <1>13,
     <1>14, <1>15, <1>16, <1>17, <1>18, <1>19, <1>20, <1>21, <1>22, <1>23, <1>24, <1>25,
     <1>26, <1>27, <1>28, <1>29, <1>30, <1>31, <1>32, <1>33
  DEF Commands

-----------------------------------------------------------------------------
(* Greatest limits and latencies *)

\* A set of numbers that has a member has a least one.
LEMMA Least ==
  ASSUME NEW T, T \subseteq Nat, T # {}
  PROVE  \E x \in T : \A y \in T : x <= y
<1> DEFINE R == OpToRel(<, Nat)
<1>1. IsWellFoundedOn(R, Nat)
  BY NatLessThanWellFounded
<1>2. \A x, y \in Nat : <<y, x>> \in R <=> y < x
  BY DEF OpToRel
<1> HIDE DEF R
<1>3. PICK x \in T : \A y \in T : ~ (<<y, x>> \in R)
  BY <1>1, WFMin
<1>4. ASSUME NEW y \in T
      PROVE  x <= y
  <2>1. x \in Nat /\ y \in Nat /\ ~ (y < x)
    BY <1>2, <1>3
  <2> QED BY <2>1
<1> QED BY <1>4

\* One that has a bound as well has a greatest one.
LEMMA Greatest ==
  ASSUME NEW S, NEW b \in Nat, S \subseteq 0 .. b, S # {}
  PROVE  \E x \in S : \A y \in S : y <= x
<1> DEFINE bounds == {k \in Nat : \A y \in S : y <= k}
<1>1. bounds \subseteq Nat /\ b \in bounds
  OBVIOUS
<1>2. PICK m \in bounds : \A k \in bounds : m <= k
  <2> HIDE DEF bounds
  <2> QED BY <1>1, Least
<1>3. m \in S
  <2> SUFFICES ASSUME m \notin S
               PROVE  FALSE
    OBVIOUS
  <2>1. PICK y \in S : TRUE
    OBVIOUS
  <2>2. m - 1 \in bounds
    BY <2>1
  <2> QED BY <2>2, <1>2
<1> QED BY <1>3

\* Dividing a number by another one, at least 1, leaves a number.
LEMMA QuotientIsNat ==
  ASSUME NEW n \in Nat, NEW d \in Nat \ {0}
  PROVE  n \div d \in Nat /\ n \div d <= n
  BY SMT

LEMMA LatencyBound ==
  ASSUME NEW l \in Latencies
  PROVE  l \in Nat /\ MostLatency \in Nat /\ l <= MostLatency
<1> DEFINE b == 65535 \div Tick
<1>1. Tick \in Nat \ {0} /\ Latencies \subseteq 0 .. b
  BY TimeAssumption
<1>2. b \in Nat
  BY SMT, <1>1, QuotientIsNat
<1> HIDE DEF b
<1>3. \E m \in Latencies : \A k \in Latencies : k <= m
  BY <1>1, <1>2, Greatest
<1>4. MostLatency \in Latencies /\ \A k \in Latencies : k <= MostLatency
  BY <1>3 DEF MostLatency
<1> QED BY <1>1, <1>4

LEMMA LimitBound ==
  ASSUME NEW c \in Waits
  PROVE  Limit(c) \in Nat /\ MostLimit \in Nat /\ Limit(c) <= MostLimit
<1> DEFINE limits == {Limit(d) : d \in Waits}
<1>1. Tick \in Nat \ {0} /\ Waits \subseteq Waiting
  BY TimeAssumption
<1>2. MaxLimit \in Nat
  BY SMT DEF MaxLimit
<1>3. \A d \in Waits : Limit(d) \in 0 .. MaxLimit
  <2> TAKE d \in Waits
  <2>1. d.loop \in 0 .. MaxLimit
    <3>1. d \in Commands
      BY <1>1 DEF Waiting
    <3> QED BY <3>1, CommandsFit DEF Fits, LimitRange
  <2> DEFINE n == d.loop
  <2>2. n \in Nat /\ n <= MaxLimit
    BY <1>2, <2>1
  <2> HIDE DEF n
  <2>3. n \div Tick \in Nat /\ n \div Tick <= n
    BY <1>1, <2>2, QuotientIsNat
  <2>4. n \div Tick \in 0 .. MaxLimit
    <3> DEFINE q == n \div Tick
    <3>1. q \in Nat /\ q <= n
      BY <2>3
    <3> HIDE DEF q
    <3>2. q \in 0 .. MaxLimit
      BY <1>2, <2>2, <3>1
    <3> QED BY <3>2 DEF q
  <2> QED BY <2>4 DEF Limit, n
<1>4. limits \subseteq 0 .. MaxLimit /\ limits # {}
  BY <1>3
<1>5. \E m \in limits : \A k \in limits : k <= m
  <2> HIDE DEF limits
  <2> QED BY <1>2, <1>4, Greatest
<1>6. \E m \in limits : \A d \in Waits : Limit(d) <= m
  BY <1>5
<1>7. MostLimit \in limits /\ \A d \in Waits : Limit(d) <= MostLimit
  BY <1>6 DEF MostLimit
<1> QED BY <1>2, <1>3, <1>7

-----------------------------------------------------------------------------
(* The clock *)

\* The remainder of a number below the divisor, or of one that is off by it once.
LEMMA Remainders ==
  ASSUME NEW w \in Nat, NEW n \in 0 .. w - 1
  PROVE  n % w = n /\ (n + w) % w = n /\ (n - w) % w = n
BY SMT

\* What a comparison of the clock with the time of the request can mistake: the clock
\* has come round once at most since then, so the difference is the time that passed.
ClockAgrees ==
  at # "before" => clock = timeout + spent \/ clock = timeout + spent - Wrap

TypeOK ==
  /\ at \in {"before", "loop", "behind", "returned"}
  /\ cmd \in Waits
  /\ clock \in 0 .. Wrap - 1 /\ timeout \in 0 .. Wrap - 1
  /\ latency \in Latencies
  /\ ready \in BOOLEAN
  /\ result \in {"none", "timeout", "answered", "zero"}
  /\ spent \in Nat

\* An answer ends the loop, and only the end of the call gives it a result.
AnswerEndsLoop ==
  /\ ready => at \in {"behind", "returned"}
  /\ at # "returned" => result = "none"
  /\ at = "before" => spent = 0

IInv == TypeOK /\ ClockAgrees /\ AnswerEndsLoop /\ WaitBounded

LEMMA Bounds ==
  /\ Wrap \in Nat /\ Horizon \in Nat /\ MaxTurn \in Nat \ {0}
  /\ Horizon + MaxTurn < Wrap
  /\ MostLatency + MostLimit + MaxTurn < Horizon
  /\ Start \subseteq 0 .. Wrap - 1
  /\ Waits \subseteq Commands
<1>1. Waits \subseteq Waiting
  BY TimeAssumption
<1>2. Waits \subseteq Commands
  BY <1>1 DEF Waiting
<1> QED BY <1>2, TimeAssumption

\* The difference of the clock and the local variable, over the wrap.
LEMMA ElapsedIsSpent ==
  ASSUME IInv, at # "before"
  PROVE  Elapsed = spent /\ spent < Horizon
<1>1. latency \in Nat /\ MostLatency \in Nat
  BY LatencyBound DEF IInv, TypeOK
<1>2. Limit(cmd) \in Nat /\ MostLimit \in Nat /\ Limit(cmd) <= MostLimit
  BY LimitBound DEF IInv, TypeOK
<1>3. spent \in Nat /\ spent < Horizon
  BY <1>1, <1>2, Bounds DEF IInv, TypeOK, WaitBounded
<1>4. clock - timeout = spent \/ clock - timeout = spent - Wrap
  BY <1>3, Bounds DEF IInv, TypeOK, ClockAgrees
<1>5. spent \in 0 .. Wrap - 1
  BY <1>3, Bounds
<1> QED BY <1>3, <1>4, <1>5, Remainders, Bounds DEF Elapsed

\* A turn that starts within the limits ends at most one turn behind them.
LEMMA TurnKeeps ==
  ASSUME IInv, NEW t \in 1 .. MaxTurn, NEW l \in Latencies, NEW answer \in BOOLEAN,
         Turn(t, l, answer)
  PROVE  IInv'
<1>1. /\ at = "loop" /\ InTime /\ clock' = (clock + t) % Wrap /\ spent' = spent + t
      /\ latency' = l /\ ready' = answer /\ at' = (IF answer THEN "behind" ELSE "loop")
      /\ UNCHANGED <<cmd, timeout, result>>
  BY DEF Turn
<1>2. Elapsed = spent /\ spent \in Nat /\ spent < Horizon
  BY <1>1, ElapsedIsSpent DEF IInv, TypeOK
<1>3. t \in Nat /\ t <= MaxTurn /\ MaxTurn \in Nat
  BY Bounds
<1>4. /\ latency \in Nat /\ MostLatency \in Nat /\ latency <= MostLatency
      /\ Limit(cmd) \in Nat
  BY LatencyBound, LimitBound DEF IInv, TypeOK
<1>5. WaitBounded'
  <2>1. spent < latency + Limit(cmd)
    BY <1>1, <1>2 DEF InTime
  <2>2. spent + t <= MostLatency + Limit(cmd) + MaxTurn
    BY <1>2, <1>3, <1>4, <2>1
  <2> QED BY <1>1, <2>2 DEF WaitBounded, Limit
<1>6. /\ clock' \in 0 .. Wrap - 1
      /\ clock' = clock + t \/ clock' = clock + t - Wrap
      /\ clock' = timeout + spent' \/ clock' = timeout + spent' - Wrap
  <2>1. clock \in 0 .. Wrap - 1 /\ timeout \in 0 .. Wrap - 1
    BY DEF IInv, TypeOK
  <2>2. clock = timeout + spent \/ clock = timeout + spent - Wrap
    BY <1>1 DEF IInv, ClockAgrees
  <2>3. CASE clock + t < Wrap
    <3>1. clock + t \in 0 .. Wrap - 1
      BY <1>3, <2>1, <2>3, Bounds
    <3>2. (clock + t) % Wrap = clock + t
      BY <3>1, Bounds, Remainders
    <3> QED BY <1>1, <1>2, <1>3, <2>1, <2>2, <3>1, <3>2, Bounds
  <2>4. CASE clock + t >= Wrap
    <3>1. clock + t - Wrap \in 0 .. Wrap - 1
      BY <1>2, <1>3, <2>1, <2>4, Bounds
    <3>2. (clock + t - Wrap + Wrap) % Wrap = clock + t - Wrap
      BY <3>1, Bounds, Remainders
    <3>3. clock' = clock + t - Wrap
      BY <1>1, <1>3, <2>1, <3>2, Bounds
    <3>4. clock = timeout + spent
      BY <1>2, <1>3, <2>1, <2>2, <2>4, Bounds
    <3> QED BY <1>1, <1>2, <1>3, <2>1, <3>1, <3>3, <3>4, Bounds
  <2> QED BY <1>3, <2>1, <2>3, <2>4, Bounds
<1>7. TypeOK'
  BY <1>1, <1>2, <1>3, <1>6 DEF IInv, TypeOK
<1>8. AnswerEndsLoop' /\ ClockAgrees'
  BY <1>1, <1>6 DEF IInv, AnswerEndsLoop, ClockAgrees
<1> QED BY <1>5, <1>7, <1>8 DEF IInv

LEMMA NextKeeps ==
  ASSUME IInv, [Next]_vars
  PROVE  IInv'
<1>1. CASE Request
  <2>1. spent = 0 /\ clock \in 0 .. Wrap - 1
    BY <1>1 DEF Request, IInv, TypeOK, AnswerEndsLoop
  <2>2. WaitBounded'
    BY <1>1 DEF Request, IInv, WaitBounded, Limit
  <2>3. ClockAgrees'
    BY <1>1, <2>1, Bounds DEF Request, ClockAgrees
  <2>4. TypeOK'
    BY <1>1, <2>1 DEF Request, IInv, TypeOK
  <2>5. AnswerEndsLoop'
    BY <1>1 DEF Request, IInv, AnswerEndsLoop
  <2> QED BY <2>2, <2>3, <2>4, <2>5 DEF IInv
<1>2. CASE SomeTurn
  BY <1>2, TurnKeeps DEF SomeTurn
<1>3. CASE TimeUp
  BY <1>3 DEF TimeUp, IInv, TypeOK, ClockAgrees, AnswerEndsLoop, WaitBounded, Limit
<1>4. CASE Finish
  BY <1>4 DEF Finish, IInv, TypeOK, ClockAgrees, AnswerEndsLoop, WaitBounded, Limit
<1>5. CASE UNCHANGED vars
  BY <1>5 DEF vars, IInv, TypeOK, ClockAgrees, AnswerEndsLoop, WaitBounded, Limit
<1> QED BY <1>1, <1>2, <1>3, <1>4, <1>5 DEF Next

LEMMA InitEstablishes == Init => IInv
<1> SUFFICES ASSUME Init
             PROVE  IInv
  OBVIOUS
<1>1. MostLatency \in Nat /\ Limit(cmd) \in Nat
  BY LatencyBound, LimitBound DEF Init
<1>2. WaitBounded
  BY <1>1, Bounds DEF Init, WaitBounded
<1>3. clock \in 0 .. Wrap - 1 /\ timeout \in 0 .. Wrap - 1
  BY Bounds DEF Init
<1> QED BY <1>2, <1>3 DEF Init, IInv, TypeOK, ClockAgrees, AnswerEndsLoop

-----------------------------------------------------------------------------
(* The theorems *)

\* The clock and the local variable tell the time that has passed, also when millis()
\* wraps during the wait.
THEOREM ClockTellsTheTime == Spec => []IInv
BY InitEstablishes, NextKeeps, PTL DEF Spec

\* No call holds the program longer than its limit, the largest latency and one turn
\* of its loop, for every command, every wrap and whatever becomes of _esp_latency.
THEOREM NoWaitIsLonger == Spec => []WaitBounded
<1>1. IInv => WaitBounded
  BY DEF IInv
<1> QED BY ClockTellsTheTime, <1>1, PTL

\* A method with one limit for its loop and the check behind it, and that is every
\* method but waitForConnectResult(), throws no answer away that came in time.
THEOREM AnswersInTimeAreUsed ==
  ASSUME \A c \in Waits : c.name # "waitForConnectResult"
  PROVE  Spec => []AnswerInTimeUsed
<1>1. Init => AnswerInTimeUsed
  BY DEF Init, AnswerInTimeUsed
<1>2. ASSUME IInv, AnswerInTimeUsed, [Next]_vars
      PROVE  AnswerInTimeUsed'
  <2>1. CASE Request
    BY <2>1 DEF Request, AnswerInTimeUsed, IInv, AnswerEndsLoop
  <2>2. CASE SomeTurn
    <3>1. result = "none" /\ result' = result
      BY <1>2, <2>2 DEF SomeTurn, Turn, IInv, AnswerEndsLoop
    <3> QED BY <3>1 DEF AnswerInTimeUsed
  <2>3. CASE Finish
    <3>1. cmd.loop = cmd.post
      <4>1. cmd \in Commands
        BY <1>2, Bounds DEF IInv, TypeOK
      <4> QED BY <1>2, <4>1, CommandsFit DEF Fits, IInv, TypeOK
    <3>2. Elapsed = spent
      BY <1>2, <2>3, ElapsedIsSpent DEF Finish
    <3>3. TooLate => spent > latency + Limit(cmd)
      BY <3>1, <3>2 DEF TooLate, Limit
    <3> QED BY <2>3, <3>3 DEF Finish, AnswerInTimeUsed, Limit
  <2>4. CASE TimeUp \/ UNCHANGED vars
    BY <1>2, <2>4 DEF TimeUp, vars, AnswerInTimeUsed, Limit
  <2> QED BY <1>2, <2>1, <2>2, <2>3, <2>4 DEF Next
<1> QED BY ClockTellsTheTime, <1>1, <1>2, PTL DEF Spec
=============================================================================
