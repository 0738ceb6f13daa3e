------------------------------ MODULE CallTiming ------------------------------
(***************************************************************************)
(* The time one call waits (teensquitto.cpp:130-132 and every method built *)
(* like it): the loop that runs events() until the answer is there or      *)
(* _esp_latency plus the command's limit has passed, and the check behind  *)
(* it that asks the clock once more.  Time is counted in ticks of Tick ms. *)
(*                                                                         *)
(* millis() is a uint32_t that wraps, a turn of the loop may be long (a    *)
(* packet that stops halfway holds events() 100 ms, a restart notice       *)
(* 1000 ms and the detect handler), and a sync response (0x7F7F) that is   *)
(* read meanwhile changes _esp_latency, and with it the limit.             *)
(***************************************************************************)
EXTENDS Commands

CONSTANTS
  Tick,        \* ms in one tick
  Wrap,        \* ticks after which millis() starts again from 0 (2^32 ms)
  Start,       \* times at which the call may be made
  Latencies,   \* values of _esp_latency, a uint16_t, in ticks
  MaxTurn,     \* the longest that one turn of the loop takes
  Waits,       \* the commands under consideration
  Horizon      \* bound: no call is followed for longer

Limit(c) == c.loop \div Tick
MostLimit == CHOOSE m \in {Limit(c) : c \in Waits} : \A c \in Waits : Limit(c) <= m
MostLatency == CHOOSE l \in Latencies : \A k \in Latencies : k <= l

\* The longest wait is short against the time the clock takes to come round.
ASSUME TimeAssumption ==
  /\ Tick \in Nat \ {0} /\ MaxTurn \in Nat \ {0} /\ Wrap \in Nat /\ Horizon \in Nat
  /\ Waits \subseteq Waiting /\ Latencies \subseteq 0 .. 65535 \div Tick
  /\ Start \subseteq 0 .. Wrap - 1
  /\ MostLatency + MostLimit + MaxTurn < Horizon
  /\ Horizon + MaxTurn < Wrap

VARIABLES
  at,        \* where the call is: before it, in the loop, behind it, returned
  cmd,       \* its command
  clock,     \* millis()
  timeout,   \* the local variable: millis() when the request went out
  latency,   \* _esp_latency
  ready,     \* data_ready_flag: the answer to the call has been read
  result,    \* what the call returns
  spent      \* history: ticks that have really passed since the request

vars == <<at, cmd, clock, timeout, latency, ready, result, spent>>

\* Mutant: the difference without the wrap of uint32_t.
ElapsedUnwrapped == clock - timeout

\* millis() - timeout, in uint32_t
Elapsed == (clock - timeout) % Wrap

\* Mutants: a loop without a time limit, a check that forgets the latency.
Always == TRUE
TooLateUnlagged == Elapsed > cmd.post \div Tick

\* The loop goes on, and the check behind it gives up.
InTime == Elapsed < latency + Limit(cmd)
TooLate == Elapsed > latency + cmd.post \div Tick

-----------------------------------------------------------------------------
Init ==
  /\ at = "before" /\ cmd \in Waits
  /\ clock \in Start /\ timeout = 0 /\ latency \in Latencies
  /\ ready = FALSE /\ result = "none" /\ spent = 0

\* uint32_t timeout = millis(); data_ready_flag = 0;
Request ==
  /\ at = "before"
  /\ at' = "loop" /\ timeout' = clock /\ ready' = FALSE
  /\ UNCHANGED <<cmd, clock, latency, result, spent>>

\* One turn: events() takes t ticks and may read the answer or a sync response.
Turn(t, l, answer) ==
  /\ at = "loop"
  /\ ~ready /\ InTime
  /\ spent < Horizon
  /\ clock' = (clock + t) % Wrap /\ spent' = spent + t
  /\ latency' = l
  /\ answer => l = latency                \* events() reads one packet
  /\ ready' = answer
  /\ at' = IF answer THEN "behind" ELSE "loop"
  /\ UNCHANGED <<cmd, timeout, result>>

TimeUp ==
  /\ at = "loop"
  /\ ~InTime
  /\ at' = "behind"
  /\ UNCHANGED <<cmd, clock, timeout, latency, ready, result, spent>>

\* if ( millis() - timeout > _esp_latency + ... ) return 0; then the answer.
Finish ==
  /\ at = "behind"
  /\ at' = "returned"
  /\ \/ TooLate /\ result' = "timeout"
     \/ ~TooLate /\ ready /\ result' = "answered"
     \/ ~TooLate /\ ~ready /\ result' = "zero"
  /\ UNCHANGED <<cmd, clock, timeout, latency, ready, spent>>

SomeTurn ==
  \E t \in 1..MaxTurn, l \in Latencies, answer \in BOOLEAN : Turn(t, l, answer)

Next == Request \/ SomeTurn \/ TimeUp \/ Finish

\* The call is made by running code, which goes on.
Spec == Init /\ [][Next]_vars /\ WF_vars(Next)

-----------------------------------------------------------------------------
\* An answer that the loop has read is thrown away only when the time the loop
\* itself allows has really passed since the request: the check behind the loop
\* ("// timeout") does not give up earlier than the loop, wherever the clock wraps
\* and however a sync response has moved the limit.
AnswerInTimeUsed ==
  ready /\ result = "timeout" => spent > latency + Limit(cmd)

\* No call holds the program longer than its limit, the largest latency and one
\* turn, whether the clock wraps or _esp_latency grows while it waits.
WaitBounded == spent <= MostLatency + Limit(cmd) + MaxTurn

\* A call whose answer never comes still returns.
CallEnds == <>(at = "returned")
=============================================================================
