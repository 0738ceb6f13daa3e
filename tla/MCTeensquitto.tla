---------------------------- MODULE MCTeensquitto ----------------------------
(* The link with two headers of two sub-commands each, one of the four left   *)
(* out, so that answers may agree with a call in both, in one or in neither.  *)
EXTENDS TeensquittoProps

MCOp == {[hdr |-> "SPIFFS", sub |-> 0], [hdr |-> "WiFi", sub |-> 0], [hdr |-> "WiFi", sub |-> 1]}
\* Two that agree in nothing.
MCOpTwo == {[hdr |-> "SPIFFS", sub |-> 0], [hdr |-> "WiFi", sub |-> 1]}

Sent(e, r, s, j, n, l, o) ==
  [event |-> e, restart |-> r, status |-> s, junk |-> j, noise |-> n, lost |-> l, offline |-> o]

SentEvents    == Sent(3, 1, 0, 0, 1, 0, 1)
SentCalls     == Sent(0, 1, 1, 1, 0, 1, 0)
SentNested    == Sent(2, 1, 0, 0, 0, 0, 0)
SentReentrant == Sent(3, 1, 0, 0, 0, 0, 1)
SentOnline    == Sent(1, 0, 0, 1, 0, 0, 1)

Nothing == {}
Polls == {"poll"}
Calls == {"call"}
CallsAndPolls == {"call", "poll"}

\* An ESP that may keep sending without end.
EspKeepsSending ==
  /\ Len(rx) < MaxRx
  /\ rx' = Append(rx, Plain("status"))
  /\ UNCHANGED <<client, esp, history, sent>>

BusySpec == Init /\ [][Next \/ EspKeepsSending]_vars /\ Fairness
=============================================================================
