----------------------------- MODULE CommandCodes -----------------------------
(***************************************************************************)
(* One method call and the answers it may meet: which objects really send  *)
(* a command, and what the two tests on the answer's header and            *)
(* sub-command (in the loop, and after it) make of an answer that was      *)
(* meant for any command of the library.                                   *)
(***************************************************************************)
EXTENDS Commands, DocumentedMethods

VARIABLES
  object,   \* the object the method is called on: its constructor and the kind it was given
  cmd,      \* the command that the method would send
  answer,   \* the command whose answer is in storage_buffer
  result    \* what becomes of the call

vars == <<object, cmd, answer, result>>

Nothing == "nothing"

\* Mutant: the constructor forgets a kind.
FlagOfSerialBut(kind) ==
  IF kind \in {"WiFi", "WiFiUdp", "WiFiClient", "SPIFFS", "MQTT", "ESP", "EEPROM", "WSC", "WSS"}
  THEN kind ELSE Nothing

\* teensquitto(data, UART): each kind sets the flag that the methods of that kind
\* test, but "WiFiMulti" sets _wifimulti, where they test _WiFiMulti.
FlagOfSerial(kind) ==
  IF kind \in {"WiFi", "WiFiUdp", "WiFiClient", "WiFiClientSecure", "SPIFFS", "MQTT", "ESP",
               "EEPROM", "WSC", "WSS"}
  THEN kind ELSE Nothing

\* teensquitto(data): for an object on the UART of another.
FlagOfShared(kind) ==
  IF kind \in {"WiFi", "SPIFFS", "ESP", "WiFiMulti"} THEN kind ELSE Nothing

\* The flag an object has set.  Methods of AsyncUDP test none.
Flag(o) ==
  CASE o.by = "serial" -> FlagOfSerial(o.kind)
    [] o.by = "shared" -> FlagOfShared(o.kind)
    [] o.by = "AsyncUDP" -> "AsyncUDP"

Objects ==
  [by : {"serial", "shared"}, kind : Kinds \ {"AsyncUDP"}]
    \cup [by : {"AsyncUDP"}, kind : {"AsyncUDP"}]

Init == object = Nothing /\ cmd = Nothing /\ answer = Nothing /\ result = "uncalled"

\* A method is called online on object o: a flag that is not set makes it return 0
\* without a word to the ESP.
Invoke(o, c) ==
  /\ result = "uncalled"
  /\ object' = o /\ cmd' = c
  /\ \/ c.kind # Flag(o) /\ result' = "refused"
     \/ c.kind = Flag(o) /\ c.loop = 0 /\ result' = "sent"
     \/ c.kind = Flag(o) /\ c.loop > 0 /\ result' = "waiting"
  /\ UNCHANGED answer

SameHeader(a) == a.hdr = cmd.hdr

\* Mutant: the sub-command is not compared.
AnySub(a) == TRUE

SameSub(a) == a.sub = cmd.sub

\* The answer to command a comes in: "header differs && sub-command differs"
\* keeps the loop going, anything else ends it.
Receive(a) ==
  /\ result = "waiting"
  /\ answer' = a
  /\ \/ ~SameHeader(a) /\ ~SameSub(a) /\ UNCHANGED result
     \/ SameHeader(a) /\ SameSub(a) /\ result' = "answered"
     \/ SameHeader(a) # SameSub(a) /\ result' = "mismatch"
  /\ UNCHANGED <<object, cmd>>

Next ==
  \/ \E o \in Objects, c \in Commands : Invoke(o, c)
  \/ \E a \in Waiting : Receive(a)

Spec == Init /\ [][Next]_vars

-----------------------------------------------------------------------------
\* A method takes for its answer only an answer to its own command: no two of the
\* library's commands share a header and a sub-command, though they were numbered
\* by hand in two files and answers carry nothing else to be told by.
OnlyOwnAnswer == result = "answered" => answer = cmd

\* A method called on an object it is documented for (teensquitto.h:383, 397, 400 and
\* 401: "// ESP", 464 and 465: "// WiFiMulti") sends the command it has for objects
\* of that kind, when the object is made with a UART, the way every example makes it.
DocumentedObjectAsks ==
  result = "refused" /\ object.by = "serial" /\ <<cmd.name, object.kind>> \in Documented =>
    \E c \in Commands : c.name = cmd.name /\ c.kind = Flag(object)

\* The methods that test a flag which no object they are documented for sets.
Misflagged ==
  {"getCoreVersion", "getSketchMD5", "getResetReason", "getResetInfo", "addAP", "run"}

\* Those six are the only ones: every other documented method, of which some stand in
\* the code in up to five forms, each for one kind, has the form and the flag for each
\* kind it is documented for.
OthersAsk == result = "refused" /\ cmd.name \notin Misflagged => DocumentedObjectAsks
=============================================================================
