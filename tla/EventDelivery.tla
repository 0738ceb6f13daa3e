----------------------------- MODULE EventDelivery -----------------------------
(***************************************************************************)
(* What the library promises about the ESP's events (MQTT, WiFi, UDP and   *)
(* websocket notices): each one it receives is handed to its handler at    *)
(* once, kept in a queue of Capacity places, or first held up behind the   *)
(* detect handler.  A kept event is handled in its turn and once; only the *)
(* oldest kept event is given up, and only when a new one finds the queue  *)
(* full.  An event that is held up may be overtaken by later ones (the     *)
(* second's delay before the detect handler runs events() through          *)
(* serialEvent1()); no other event is.  Events are numbered as the ESP     *)
(* sends them.                                                             *)
(***************************************************************************)
EXTENDS Integers, Sequences, SequencesExt

CONSTANTS Capacity, Event

VARIABLES waiting, handled, dropped, held

vars == <<waiting, handled, dropped, held>>

Received == Range(waiting) \cup Range(handled) \cup Range(dropped) \cup held

\* e comes after everything the library has received so far.
New(e) == \A r \in Received : r < e

Init == waiting = << >> /\ handled = << >> /\ dropped = << >> /\ held = {}

\* The next event from the wire, or one that was held up.
Comes(e) ==
  \/ New(e) /\ UNCHANGED held
  \/ e \in held /\ held' = held \ {e}

\* Handed over as it comes, past any event that is still waiting.
HandOver(e) ==
  /\ Comes(e)
  /\ handled' = Append(handled, e)
  /\ UNCHANGED <<waiting, dropped>>

Keep(e) ==
  /\ Comes(e)
  /\ \/ Len(waiting) < Capacity /\ waiting' = Append(waiting, e) /\ UNCHANGED dropped
     \/ /\ Len(waiting) = Capacity
        /\ waiting' = Append(Tail(waiting), e)
        /\ dropped' = Append(dropped, Head(waiting))
  /\ UNCHANGED handled

Hold(e) ==
  /\ New(e)
  /\ held' = held \cup {e}
  /\ UNCHANGED <<waiting, handled, dropped>>

HandleNext ==
  /\ waiting # << >>
  /\ handled' = Append(handled, Head(waiting))
  /\ waiting' = Tail(waiting)
  /\ UNCHANGED <<dropped, held>>

Next == (\E e \in Event : HandOver(e) \/ Keep(e) \/ Hold(e)) \/ HandleNext

Spec == Init /\ [][Next]_vars
=============================================================================
