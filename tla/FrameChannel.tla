----------------------------- MODULE FrameChannel -----------------------------
(***************************************************************************)
(* What the two ends of the UART make of it: a channel that delivers the   *)
(* frames in the order they were sent and refuses one that was garbled in  *)
(* its place.  Worse damage (a byte lost, a length changed, the sender     *)
(* stopping half way) breaks the channel, and nothing is promised until    *)
(* the sender has paused and starts anew.                                  *)
(***************************************************************************)
EXTENDS Sequences, Integers

CONSTANTS Payload, Refusal

VARIABLES
  clean,   \* the channel has not been broken since the last new start
  due,     \* what was sent since then
  got      \* what was made of it so far

Init == clean = TRUE /\ due = << >> /\ got = << >>

Send(p) == clean /\ due' = Append(due, p) /\ UNCHANGED <<clean, got>>

\* The frame on its way is garbled, and will be refused.
Garble ==
  /\ clean /\ Len(got) < Len(due)
  /\ due' = [due EXCEPT ![Len(due)] = Refusal]
  /\ UNCHANGED <<clean, got>>

Deliver ==
  /\ clean /\ Len(got) < Len(due)
  /\ got' = Append(got, due[Len(got) + 1])
  /\ UNCHANGED <<clean, due>>

Break == clean /\ clean' = FALSE /\ due' = << >> /\ got' = << >>

StartAnew(p) == ~clean /\ clean' = TRUE /\ due' = << p >> /\ got' = << >>

Next ==
  \/ \E p \in Payload : Send(p) \/ StartAnew(p)
  \/ Garble \/ Deliver \/ Break

Spec == Init /\ [][Next]_<<clean, due, got>>
=============================================================================
