----------------------------- MODULE Tables_proofs -----------------------------
(***************************************************************************)
(* Theorems about what the source fixes by hand and nothing checks when it *)
(* is compiled: the codes of the commands (CommandCodes), and what the     *)
(* lwIP headers compute (LwipOptions and LwipTcp for any choice of the     *)
(* options they name, LwipAddresses for any address).                      *)
(*                                                                         *)
(* The table of commands is a union of groups.  The argument about them    *)
(* gives every code a home, the one group that may hold it; two commands   *)
(* with the same code then lie in one group, and a group is small enough   *)
(* to be looked through.                                                   *)
(***************************************************************************)
EXTENDS CommandCodes, LwipTcp, LwipAddresses, SequenceTheorems, TLAPS

-----------------------------------------------------------------------------
(* CommandCodes: groups and homes *)

Groups ==
  <<SpiffsFile, FileRead, PeekAndAvailable, ReadAndFlush, WriteAndDirs,
    DirsAndMqtt, MqttPublish, MqttSetup, WillAndBegin, BeginAndDisconnect,
    WifiAuto, WifiAddresses, WifiStatus, SmartConfigAndEsp, EspMemory,
    EspChip, EspFlash, EspSketch, ClientConnect, ClientStop,
    ClientPorts, WifiSleep, WifiModeAndUdp, UdpAndSoftAp, SoftApAndScan,
    ScanResults, EepromAndMulti, WebsocketBegin, WebsocketSend, WebsocketBroadcast,
    SecureCerts, AsyncUdpCalls, AsyncUdpBroadcast>>

\* The number of the group that holds the methods that wait for an answer with
\* header h and sub-command s.
Home(h, s) ==
  CASE h = "3434" -> IF s <= 0 THEN 1 ELSE IF s <= 1 THEN 10 ELSE IF s <= 7 THEN 1 ELSE
         IF s <= 11 THEN 2 ELSE IF s <= 14 THEN 3 ELSE IF s <= 15 THEN 4 ELSE
         IF s <= 20 THEN 5 ELSE 6
    [] h = "A6A6" -> IF s <= 0 THEN 13 ELSE IF s <= 1 THEN 6 ELSE IF s <= 3 THEN 19 ELSE
         IF s <= 4 THEN 5 ELSE IF s <= 5 THEN 4 ELSE IF s <= 6 THEN 3 ELSE
         IF s <= 7 THEN 2 ELSE IF s <= 8 THEN 3 ELSE IF s <= 14 THEN 20 ELSE
         IF s <= 15 THEN 21 ELSE IF s <= 18 THEN 11 ELSE 21
    [] h = "ADCC" -> IF s <= 3 THEN 19 ELSE IF s <= 4 THEN 6 ELSE IF s <= 5 THEN 5 ELSE
         IF s <= 6 THEN 4 ELSE IF s <= 8 THEN 3 ELSE IF s <= 9 THEN 2 ELSE
         IF s <= 11 THEN 20 ELSE IF s <= 12 THEN 30 ELSE 31
    [] h = "CCCC" -> IF s <= 3 THEN 4 ELSE IF s <= 5 THEN 3 ELSE IF s <= 7 THEN 23 ELSE
         IF s <= 8 THEN 11 ELSE IF s <= 9 THEN 12 ELSE IF s <= 10 THEN 20 ELSE
         IF s <= 11 THEN 21 ELSE IF s <= 14 THEN 23 ELSE IF s <= 16 THEN 24 ELSE
         IF s <= 17 THEN 5 ELSE 2
    [] h = "3838" -> IF s <= 2 THEN 6 ELSE IF s <= 3 THEN 7 ELSE IF s <= 4 THEN 10 ELSE
         IF s <= 6 THEN 7 ELSE IF s <= 14 THEN 8 ELSE 9
    [] h = "A2A2" -> IF s <= 2 THEN 9 ELSE IF s <= 6 THEN 10 ELSE IF s <= 12 THEN 11 ELSE
         IF s <= 19 THEN 12 ELSE IF s <= 27 THEN 13 ELSE IF s <= 29 THEN 14 ELSE
         IF s <= 32 THEN 21 ELSE IF s <= 41 THEN 22 ELSE IF s <= 44 THEN 23 ELSE
         IF s <= 49 THEN 24 ELSE IF s <= 58 THEN 25 ELSE 26
    [] h = "A4A4" -> IF s <= 11 THEN 15 ELSE IF s <= 19 THEN 16 ELSE IF s <= 29 THEN 17 ELSE
         18
    [] h = "BBBB" -> IF s <= 0 THEN 26 ELSE 27
    [] h = "BABA" -> 27
    [] h = "EAEA" -> IF s <= 5 THEN 28 ELSE IF s <= 14 THEN 29 ELSE 30
    [] h = "CECE" -> IF s <= 8 THEN 32 ELSE 33

\* All that is used of the group with number i.
Own(i, S) ==
  /\ \A c \in S : c.loop > 0 => Home(c.hdr, c.sub) = i
  /\ \A c, d \in S : c.loop > 0 /\ d.loop > 0 /\ c.hdr = d.hdr /\ c.sub = d.sub => c = d
  /\ \A c \in S : c.name \in Misflagged => c.kind \in {"SPIFFS", "WiFiMulti"}

\* The commands of one block: those that wait ...
LEMMA AsksAre ==
  ASSUME NEW h, NEW k, NEW limit, NEW names, NEW c \in Asks(h, k, limit, names)
  PROVE  \E n \in names :
           c = [hdr |-> h, kind |-> k, name |-> n[1], sub |-> n[2],
                loop |-> limit, post |-> limit]
BY DEF Asks

LEMMA AsksUnevenlyAre ==
  ASSUME NEW h, NEW k, NEW loop, NEW post, NEW names,
         NEW c \in AsksUnevenly(h, k, loop, post, names)
  PROVE  \E n \in names :
           c = [hdr |-> h, kind |-> k, name |-> n[1], sub |-> n[2],
                loop |-> loop, post |-> post]
BY DEF AsksUnevenly

\* ... and those that do not.
LEMMA TellsAre ==
  ASSUME NEW h, NEW k, NEW names, NEW c \in Tells(h, k, names)
  PROVE  \E n \in names :
           c = [hdr |-> h, kind |-> k, name |-> n[1], sub |-> n[2], loop |-> 0, post |-> 0]
BY DEF Tells, AsksUnevenly

-----------------------------------------------------------------------------
(* CommandCodes: group by group *)

LEMMA OwnSpiffsFile == Own(1, SpiffsFile)
BY SMTT(30), AsksAre DEF Own, Home, Misflagged, SpiffsFile

LEMMA OwnFileRead == Own(2, FileRead)
BY SMTT(30), AsksAre DEF Own, Home, Misflagged, FileRead

LEMMA OwnPeekAndAvailable == Own(3, PeekAndAvailable)
BY SMTT(30), AsksAre DEF Own, Home, Misflagged, PeekAndAvailable

LEMMA OwnReadAndFlush == Own(4, ReadAndFlush)
BY SMTT(30), AsksAre, TellsAre DEF Own, Home, Misflagged, ReadAndFlush

LEMMA OwnWriteAndDirs == Own(5, WriteAndDirs)
BY SMTT(30), AsksAre DEF Own, Home, Misflagged, WriteAndDirs

LEMMA OwnDirsAndMqtt == Own(6, DirsAndMqtt)
BY SMTT(30), AsksAre DEF Own, Home, Misflagged, DirsAndMqtt

LEMMA OwnMqttPublish == Own(7, MqttPublish)
BY SMTT(30), AsksAre, TellsAre DEF Own, Home, Misflagged, MqttPublish

LEMMA OwnMqttSetup == Own(8, MqttSetup)
BY SMTT(30), AsksAre DEF Own, Home, Misflagged, MqttSetup

LEMMA OwnWillAndBegin == Own(9, WillAndBegin)
BY SMTT(30), AsksAre DEF Own, Home, Misflagged, WillAndBegin

LEMMA OwnBeginAndDisconnect == Own(10, BeginAndDisconnect)
BY SMTT(30), AsksAre, TellsAre DEF Own, Home, Misflagged, BeginAndDisconnect

LEMMA OwnWifiAuto == Own(11, WifiAuto)
BY SMTT(30), AsksAre, AsksUnevenlyAre DEF Own, Home, Misflagged, WifiAuto

LEMMA OwnWifiAddresses == Own(12, WifiAddresses)
BY SMTT(30), AsksAre DEF Own, Home, Misflagged, WifiAddresses

LEMMA OwnWifiStatus == Own(13, WifiStatus)
BY SMTT(30), AsksAre DEF Own, Home, Misflagged, WifiStatus

LEMMA OwnSmartConfigAndEsp == Own(14, SmartConfigAndEsp)
BY SMTT(30), AsksAre, TellsAre DEF Own, Home, Misflagged, SmartConfigAndEsp

LEMMA OwnEspMemory == Own(15, EspMemory)
BY SMTT(30), AsksAre DEF Own, Home, Misflagged, EspMemory

LEMMA OwnEspChip == Own(16, EspChip)
BY SMTT(30), AsksAre DEF Own, Home, Misflagged, EspChip

LEMMA OwnEspFlash == Own(17, EspFlash)
BY SMTT(30), AsksAre DEF Own, Home, Misflagged, EspFlash

LEMMA OwnEspSketch == Own(18, EspSketch)
BY SMTT(30), AsksAre DEF Own, Home, Misflagged, EspSketch

LEMMA OwnClientConnect == Own(19, ClientConnect)
BY SMTT(30), AsksAre DEF Own, Home, Misflagged, ClientConnect

LEMMA OwnClientStop == Own(20, ClientStop)
BY SMTT(30), AsksAre, TellsAre DEF Own, Home, Misflagged, ClientStop

LEMMA OwnClientPorts == Own(21, ClientPorts)
BY SMTT(30), AsksAre, TellsAre DEF Own, Home, Misflagged, ClientPorts

LEMMA OwnWifiSleep == Own(22, WifiSleep)
BY SMTT(30), AsksAre, TellsAre DEF Own, Home, Misflagged, WifiSleep

LEMMA OwnWifiModeAndUdp == Own(23, WifiModeAndUdp)
BY SMTT(30), AsksAre DEF Own, Home, Misflagged, WifiModeAndUdp

LEMMA OwnUdpAndSoftAp == Own(24, UdpAndSoftAp)
BY SMTT(30), AsksAre DEF Own, Home, Misflagged, UdpAndSoftAp

LEMMA OwnSoftApAndScan == Own(25, SoftApAndScan)
BY SMTT(30), AsksAre, TellsAre DEF Own, Home, Misflagged, SoftApAndScan

LEMMA OwnScanResults == Own(26, ScanResults)
BY SMTT(30), AsksAre DEF Own, Home, Misflagged, ScanResults

LEMMA OwnEepromAndMulti == Own(27, EepromAndMulti)
BY SMTT(30), AsksAre, TellsAre DEF Own, Home, Misflagged, EepromAndMulti

LEMMA OwnWebsocketBegin == Own(28, WebsocketBegin)
BY SMTT(30), AsksAre, TellsAre DEF Own, Home, Misflagged, WebsocketBegin

LEMMA OwnWebsocketSend == Own(29, WebsocketSend)
BY SMTT(30), AsksAre, TellsAre DEF Own, Home, Misflagged, WebsocketSend

LEMMA OwnWebsocketBroadcast == Own(30, WebsocketBroadcast)
BY SMTT(30), AsksAre DEF Own, Home, Misflagged, WebsocketBroadcast

LEMMA OwnSecureCerts == Own(31, SecureCerts)
BY SMTT(30), AsksAre, TellsAre DEF Own, Home, Misflagged, SecureCerts

LEMMA OwnAsyncUdpCalls == Own(32, AsyncUdpCalls)
BY SMTT(30), AsksAre, TellsAre DEF Own, Home, Misflagged, AsyncUdpCalls

LEMMA OwnAsyncUdpBroadcast == Own(33, AsyncUdpBroadcast)
BY SMTT(30), AsksAre DEF Own, Home, Misflagged, AsyncUdpBroadcast

\* Every command lies in a group, and every group keeps to its number.
LEMMA GroupsOwn ==
  /\ Commands = UNION {Groups[i] : i \in 1 .. 33}
  /\ \A i \in 1 .. 33 : Own(i, Groups[i])
<1>1. Commands = UNION {Groups[i] : i \in 1 .. 33}
  <2>1. ASSUME NEW c \in Commands
        PROVE  \E i \in 1 .. 33 : c \in Groups[i]
    BY SMTT(60) DEF Commands, Groups
  <2>2. ASSUME NEW i \in 1 .. 33, NEW c \in Groups[i]
        PROVE  c \in Commands
    BY SMTT(60) DEF Commands, Groups
  <2> QED BY <2>1, <2>2
<1>2. ASSUME NEW i \in 1 .. 33
      PROVE  Own(i, Groups[i])
  BY SMTT(60), OwnSpiffsFile, OwnFileRead, OwnPeekAndAvailable, OwnReadAndFlush,
     OwnWriteAndDirs, OwnDirsAndMqtt, OwnMqttPublish, OwnMqttSetup, OwnWillAndBegin,
     OwnBeginAndDisconnect, OwnWifiAuto, OwnWifiAddresses, OwnWifiStatus,
     OwnSmartConfigAndEsp, OwnEspMemory, OwnEspChip, OwnEspFlash, OwnEspSketch,
     OwnClientConnect, OwnClientStop, OwnClientPorts, OwnWifiSleep,
     OwnWifiModeAndUdp, OwnUdpAndSoftAp, OwnSoftApAndScan, OwnScanResults,
     OwnEepromAndMulti, OwnWebsocketBegin, OwnWebsocketSend, OwnWebsocketBroadcast,
     OwnSecureCerts, OwnAsyncUdpCalls, OwnAsyncUdpBroadcast
  DEF Groups
<1> QED BY <1>1, <1>2

-----------------------------------------------------------------------------
(* CommandCodes: what answers tell *)

(***************************************************************************)
(* No two of the methods that wait are answered under the same header and  *)
(* sub-command: what an answer begins with tells the method it is for.     *)
(***************************************************************************)
THEOREM CodesTellCommands ==
  \A c, d \in Waiting : c.hdr = d.hdr /\ c.sub = d.sub => c = d
<1> SUFFICES ASSUME NEW c \in Waiting, NEW d \in Waiting, c.hdr = d.hdr, c.sub = d.sub
             PROVE  c = d
  OBVIOUS
<1>1. c \in Commands /\ c.loop > 0 /\ d \in Commands /\ d.loop > 0
  BY DEF Waiting
<1>2. PICK i \in 1 .. 33 : c \in Groups[i]
  BY <1>1, GroupsOwn
<1>3. PICK j \in 1 .. 33 : d \in Groups[j]
  BY <1>1, GroupsOwn
<1>4. Home(c.hdr, c.sub) = i /\ Home(d.hdr, d.sub) = j
  BY <1>1, <1>2, <1>3, GroupsOwn DEF Own
<1>5. i = j
  BY <1>4
<1> QED BY <1>1, <1>2, <1>3, <1>5, GroupsOwn DEF Own

\* While a call is under way or answered its command is one that waits.
AnsweredInv ==
  /\ result \in {"waiting", "answered"} => cmd \in Waiting
  /\ OnlyOwnAnswer

(***************************************************************************)
(* A method takes for its answer only an answer to its own command, of all *)
(* the answers that any command of the library may have asked for.         *)
(***************************************************************************)
THEOREM AnswersAreOwn == Spec => []OnlyOwnAnswer
<1>1. Init => AnsweredInv
  BY DEF Init, AnsweredInv, OnlyOwnAnswer
<1>2. ASSUME AnsweredInv, [Next]_vars
      PROVE  AnsweredInv'
  <2>1. ASSUME NEW o \in Objects, NEW c \in Commands, Invoke(o, c)
        PROVE  AnsweredInv'
    BY <2>1 DEF Invoke, AnsweredInv, OnlyOwnAnswer, Waiting
  <2>2. ASSUME NEW a \in Waiting, Receive(a)
        PROVE  AnsweredInv'
    <3>1. cmd \in Waiting /\ cmd' = cmd /\ answer' = a
      BY <1>2, <2>2 DEF Receive, AnsweredInv
    <3>2. CASE SameHeader(a) /\ SameSub(a)
      BY <3>1, <3>2, CodesTellCommands DEF AnsweredInv, OnlyOwnAnswer, SameHeader, SameSub
    <3>3. CASE ~ (SameHeader(a) /\ SameSub(a))
      BY <2>2, <3>1, <3>3 DEF Receive, AnsweredInv, OnlyOwnAnswer
    <3> QED BY <3>2, <3>3
  <2>3. CASE UNCHANGED vars
    BY <1>2, <2>3 DEF vars, AnsweredInv, OnlyOwnAnswer
  <2> QED BY <1>2, <2>1, <2>2, <2>3 DEF Next
<1>3. AnsweredInv => OnlyOwnAnswer
  BY DEF AnsweredInv
<1> QED BY <1>1, <1>2, <1>3, PTL DEF Spec

-----------------------------------------------------------------------------
(* CommandCodes: methods that test a wrong flag *)

LEMMA MisflaggedKinds ==
  /\ \A c \in Commands : c.name \in Misflagged => c.kind \in {"SPIFFS", "WiFiMulti"}
  /\ \A p \in Documented : p[1] \in Misflagged => p[2] \in {"ESP", "WiFiMulti"}
<1>1. \A c \in Commands : c.name \in Misflagged => c.kind \in {"SPIFFS", "WiFiMulti"}
  BY GroupsOwn DEF Own
<1>2. \A p \in StreamMethods \cup WifiMethods \cup FileMethods \cup MqttAndHandlers :
        p[1] \notin Misflagged
  BY SMTT(30)
  DEF StreamMethods, WifiMethods, FileMethods, MqttAndHandlers, For, Clients, Misflagged
<1>3. \A p \in ClientAndWifiMethods \cup SocketMethods \cup SecureMethods :
        p[1] \notin Misflagged
  BY SMTT(30) DEF ClientAndWifiMethods, SocketMethods, SecureMethods, For, Clients, Misflagged
<1>4. \A p \in EspMethods : p[2] = "ESP"
  BY DEF EspMethods, For
<1>5. \A p \in UdpAndScanMethods : p[1] \in Misflagged => p[2] = "WiFiMulti"
  BY SMTT(30) DEF UdpAndScanMethods, For, Misflagged
<1> QED BY <1>1, <1>2, <1>3, <1>4, <1>5 DEF Documented

\* Called on an object it is documented for and that was made with a UART, such a
\* method returns at once (the findings' run shows one call of one of them).
MisflaggedIsRefused ==
  (/\ result # "uncalled"
   /\ cmd.name \in Misflagged
   /\ object.by = "serial"
   /\ <<cmd.name, object.kind>> \in Documented)
  => result = "refused"

(***************************************************************************)
(* The six methods are dead on the objects they are documented for: called *)
(* on one that was made with a UART, none of them ever sends its command.  *)
(***************************************************************************)
THEOREM MisflaggedNeverAsk == Spec => []MisflaggedIsRefused
<1>1. Init => MisflaggedIsRefused
  BY DEF Init, MisflaggedIsRefused
<1>2. ASSUME MisflaggedIsRefused, [Next]_vars
      PROVE  MisflaggedIsRefused'
  <2>1. ASSUME NEW o \in Objects, NEW c \in Commands, Invoke(o, c)
        PROVE  MisflaggedIsRefused'
    <3> SUFFICES ASSUME c.name \in Misflagged, o.by = "serial", <<c.name, o.kind>> \in Documented
                 PROVE  c.kind # Flag(o)
      BY <2>1 DEF Invoke, MisflaggedIsRefused
    <3>1. c.kind \in {"SPIFFS", "WiFiMulti"} /\ o.kind \in {"ESP", "WiFiMulti"}
      BY MisflaggedKinds
    <3>2. Flag(o) = FlagOfSerial(o.kind)
      BY DEF Flag
    <3>3. FlagOfSerial("ESP") = "ESP" /\ FlagOfSerial("WiFiMulti") = "nothing"
      BY DEF FlagOfSerial, Nothing
    <3> QED BY <3>1, <3>2, <3>3
  <2>2. ASSUME NEW a \in Waiting, Receive(a)
        PROVE  MisflaggedIsRefused'
    BY <1>2, <2>2 DEF Receive, MisflaggedIsRefused
  <2>3. CASE UNCHANGED vars
    BY <1>2, <2>3 DEF vars, MisflaggedIsRefused
  <2> QED BY <1>2, <2>1, <2>2, <2>3 DEF Next
<1> QED BY <1>1, <1>2, PTL DEF Spec

-----------------------------------------------------------------------------
(* LwipOptions: what the standard values promise each other, and what       *)
(* follows when a feature is left out.                                      *)

Standard(o) == ~Defined(o)

\* What Opt gives: the standard value where nothing is chosen, else the choice.
LEMMA OptStandard ==
  ASSUME NEW o, NEW standard, Standard(o)
  PROVE  Opt(o, standard) = standard
  BY DEF Opt, Standard

LEMMA OptNat ==
  ASSUME NEW o, NEW standard \in Nat, Defined(o) => Chosen[o] \in Nat
  PROVE  Opt(o, standard) \in Nat
  BY DEF Opt

\* LWIP_MIN and LWIP_MAX give one of the two, and bound both.
LEMMA LeastIsNat ==
  ASSUME NEW x \in Int, NEW y \in Int
  PROVE  /\ LWIP_MIN(x, y) <= x /\ LWIP_MIN(x, y) <= y /\ LWIP_MIN(x, y) \in {x, y}
         /\ LWIP_MAX(x, y) >= x /\ LWIP_MAX(x, y) >= y /\ LWIP_MAX(x, y) \in {x, y}
  BY SMT DEF LWIP_MIN, LWIP_MAX

-----------------------------------------------------------------------------
\* Dividing rounded up gives the least multiple that is enough.
LEMMA RoundedUp ==
  ASSUME NEW x \in Nat, NEW m \in Nat, m > 0
  PROVE  /\ (x + (m - 1)) \div m \in Nat
         /\ ((x + (m - 1)) \div m) * m >= x
         /\ ((x + (m - 1)) \div m) * m < x + m
<1> DEFINE q == (x + (m - 1)) \div m
           r == (x + (m - 1)) % m
<1>1. q \in Int /\ r \in 0 .. m - 1 /\ x + (m - 1) = m * q + r
  BY SMT
<1> HIDE DEF q, r
<1>2. m * q >= x
  BY SMT, <1>1
<1>3. m * q < x + m
  BY SMT, <1>1
<1>4. q >= 0
  BY SMT, <1>1, <1>2
<1>5. m * q = q * m
  BY SMT, <1>1
<1> QED  BY <1>1, <1>2, <1>3, <1>4, <1>5, SMT DEF q

(***************************************************************************)
(* The standard queue of a connection has at least twice the places that   *)
(* opt.h demands, 2 * TCP_SND_BUF / TCP_MSS.                               *)
(***************************************************************************)
THEOREM QueueHoldsBuffer ==
  ASSUME TCP_SND_BUF \in Nat, TCP_MSS \in Nat, TCP_MSS > 0, Standard("TCP_SND_QUEUELEN")
  PROVE  TCP_SND_QUEUELEN \in Nat /\ TCP_SND_QUEUELEN * TCP_MSS >= 2 * (2 * TCP_SND_BUF)
<1> DEFINE x == 4 * TCP_SND_BUF
<1>1. TCP_SND_QUEUELEN = (x + (TCP_MSS - 1)) \div TCP_MSS
  BY OptStandard DEF TCP_SND_QUEUELEN
<1>2. x \in Nat
  BY SMT
<1>3. x = 2 * (2 * TCP_SND_BUF)
  BY SMT
<1> HIDE DEF x
<1> QED  BY <1>1, <1>2, <1>3, RoundedUp

(***************************************************************************)
(* The standard low water mark of the send buffer is below its size, as    *)
(* opt.h demands, whatever the segment size.                               *)
(***************************************************************************)
THEOREM LowWaterBelowBuffer ==
  ASSUME TCP_SND_BUF \in Nat, TCP_MSS \in Nat, Standard("TCP_SNDLOWAT")
  PROVE  TCP_SNDLOWAT < TCP_SND_BUF
<1>1. TCP_SNDLOWAT
        = LWIP_MIN(LWIP_MAX(TCP_SND_BUF \div 2, 2 * TCP_MSS + 1), TCP_SND_BUF - 1)
  BY OptStandard DEF TCP_SNDLOWAT
<1>2. LWIP_MAX(TCP_SND_BUF \div 2, 2 * TCP_MSS + 1) \in Int
  BY SMT DEF LWIP_MAX
<1>3. TCP_SND_BUF - 1 \in Int
  BY SMT
<1>4. TCP_SNDLOWAT <= TCP_SND_BUF - 1 /\ TCP_SNDLOWAT \in Int
  BY <1>1, <1>2, <1>3, LeastIsNat, SMT
<1> QED  BY <1>4, SMT

(***************************************************************************)
(* opt.h demands the same of the queue, but the standard low water mark is *)
(* below the standard length only where the length is over 5: exactly when *)
(* the send buffer is larger than five quarters of a segment.              *)
(***************************************************************************)
THEOREM QueueLowWater ==
  ASSUME TCP_SND_BUF \in Nat, TCP_MSS \in Nat, TCP_MSS > 0,
         Standard("TCP_SND_QUEUELEN"), Standard("TCP_SNDQUEUELOWAT")
  PROVE  TCP_SNDQUEUELOWAT < TCP_SND_QUEUELEN <=> 4 * TCP_SND_BUF > 5 * TCP_MSS
<1> DEFINE x == 4 * TCP_SND_BUF
           q == TCP_SND_QUEUELEN
<1>1. q = (x + (TCP_MSS - 1)) \div TCP_MSS
  BY OptStandard DEF TCP_SND_QUEUELEN
<1>2. x \in Nat
  BY SMT
<1>3. TCP_SNDQUEUELOWAT = LWIP_MAX(q \div 2, 5)
  BY OptStandard DEF TCP_SNDQUEUELOWAT
<1> HIDE DEF x, q
<1>4. q \in Nat /\ q * TCP_MSS >= x /\ q * TCP_MSS < x + TCP_MSS
  BY <1>1, <1>2, RoundedUp
<1>5. TCP_SNDQUEUELOWAT < q <=> q > 5
  BY <1>3, <1>4, SMT DEF LWIP_MAX
<1>6. ASSUME q > 5 PROVE x > 5 * TCP_MSS
  <2>1. q * TCP_MSS >= 6 * TCP_MSS
    BY <1>4, <1>6, SMT
  <2> QED  BY <1>2, <1>4, <2>1, SMT
<1>7. ASSUME q <= 5 PROVE x <= 5 * TCP_MSS
  <2>1. q * TCP_MSS <= 5 * TCP_MSS
    BY <1>4, <1>7, SMT
  <2> QED  BY <1>2, <1>4, <2>1, SMT
<1>8. q > 5 <=> x > 5 * TCP_MSS
  BY <1>2, <1>4, <1>6, <1>7, SMT
<1> QED  BY <1>5, <1>8 DEF x, q

(***************************************************************************)
(* The standard window holds at least two segments, as opt.h demands, and  *)
(* fits the 16 bits of the header where the segment has at most 16383      *)
(* bytes; a larger segment needs a window of its own choice or scaling.    *)
(***************************************************************************)
THEOREM WindowFits ==
  ASSUME TCP_MSS \in Nat, Standard("TCP_WND")
  PROVE  TCP_WND >= 2 * TCP_MSS /\ (TCP_WND <= 65535 <=> TCP_MSS <= 16383)
<1>1. TCP_WND = 4 * TCP_MSS
  BY OptStandard DEF TCP_WND
<1> QED  BY <1>1, SMT

(***************************************************************************)
(* A buffer of the standard size takes a full segment with its headers, on *)
(* an aligned boundary, and wastes less than one alignment.                *)
(***************************************************************************)
THEOREM BufferHoldsSegment ==
  ASSUME TCP_MSS \in Nat, PBUF_LINK_HLEN \in Nat, PBUF_LINK_ENCAPSULATION_HLEN \in Nat,
         MEM_ALIGNMENT \in Nat, MEM_ALIGNMENT > 0, Standard("PBUF_POOL_BUFSIZE")
  PROVE  LET full == TCP_MSS + 40 + PBUF_LINK_ENCAPSULATION_HLEN + PBUF_LINK_HLEN
         IN  /\ PBUF_POOL_BUFSIZE >= full /\ PBUF_POOL_BUFSIZE < full + MEM_ALIGNMENT
             /\ \E k \in Nat : PBUF_POOL_BUFSIZE = k * MEM_ALIGNMENT
<1> DEFINE full == TCP_MSS + 40 + PBUF_LINK_ENCAPSULATION_HLEN + PBUF_LINK_HLEN
           k == (full + (MEM_ALIGNMENT - 1)) \div MEM_ALIGNMENT
<1>1. full \in Nat
  BY SMT
<1>2. PBUF_POOL_BUFSIZE = LWIP_MEM_ALIGN_SIZE(full)
  BY OptStandard DEF PBUF_POOL_BUFSIZE
<1> HIDE DEF full
<1>3. full + MEM_ALIGNMENT - 1 = full + (MEM_ALIGNMENT - 1)
  BY <1>1, SMT
<1>4. PBUF_POOL_BUFSIZE = k * MEM_ALIGNMENT
  BY <1>2, <1>3 DEF LWIP_MEM_ALIGN_SIZE
<1>5. k \in Nat /\ k * MEM_ALIGNMENT >= full /\ k * MEM_ALIGNMENT < full + MEM_ALIGNMENT
  BY <1>1, RoundedUp
<1> HIDE DEF k
<1>6. /\ PBUF_POOL_BUFSIZE >= full /\ PBUF_POOL_BUFSIZE < full + MEM_ALIGNMENT
      /\ \E i \in Nat : PBUF_POOL_BUFSIZE = i * MEM_ALIGNMENT
  BY <1>4, <1>5
<1> QED  BY <1>6 DEF full

-----------------------------------------------------------------------------
(***************************************************************************)
(* Without IPv4 none of its extensions is left, whatever lwipopts.h        *)
(* chooses, and no memory is set aside for them.                           *)
(***************************************************************************)
THEOREM NoIpv4NoExtensions ==
  ASSUME LWIP_IPV4 = 0
  PROVE  /\ IP_FORWARD = 0 /\ IP_REASSEMBLY = 0 /\ IP_FRAG = 0
         /\ LWIP_DHCP = 0 /\ LWIP_AUTOIP = 0 /\ LWIP_IGMP = 0
         /\ \A size : /\ <<"REASSDATA", size>> \notin Pools
                      /\ <<"ARP_QUEUE", size>> \notin Pools
                      /\ <<"IGMP_GROUP", size>> \notin Pools
<1>1. /\ IP_FORWARD = 0 /\ IP_REASSEMBLY = 0 /\ IP_FRAG = 0
      /\ LWIP_DHCP = 0 /\ LWIP_AUTOIP = 0 /\ LWIP_IGMP = 0
  BY DEF NeedsIpv4, IP_FORWARD, IP_REASSEMBLY, IP_FRAG, LWIP_DHCP, LWIP_AUTOIP, LWIP_IGMP
<1>2. ASSUME NEW name \in {"REASSDATA", "ARP_QUEUE", "IGMP_GROUP"}, NEW size
      PROVE  <<name, size>> \notin ProtocolPools /\ <<name, size>> \notin ApiPools
  BY SMT, <1>2 DEF ProtocolPools, ApiPools, Pool
<1>3. ASSUME NEW name \in {"REASSDATA", "ARP_QUEUE", "IGMP_GROUP"}, NEW size
      PROVE  <<name, size>> \notin OtherPools /\ <<name, size>> \notin PbufPools
  BY SMT, <1>1, <1>3 DEF OtherPools, PbufPools, Pool
<1> QED  BY <1>1, <1>2, <1>3 DEF Pools

(***************************************************************************)
(* Without LWIP_STATS nothing is counted, whatever lwipopts.h chooses.     *)
(***************************************************************************)
THEOREM NoStatsNoCounters ==
  ASSUME LWIP_STATS = 0
  PROVE  Counters = {}
  BY DEF Counters, Stats

(***************************************************************************)
(* TCP reports by callbacks unless told otherwise.  Who chooses one of the *)
(* two ways gets the other one off, so choosing callbacks or events works, *)
(* and turning one off alone leaves TCP with neither.                      *)
(***************************************************************************)
THEOREM EventsOrCallbacks ==
  /\ Standard("LWIP_EVENT_API") /\ Standard("LWIP_CALLBACK_API")
       => LWIP_CALLBACK_API = 1 /\ LWIP_EVENT_API = 0
  /\ Defined("LWIP_EVENT_API") /\ Standard("LWIP_CALLBACK_API") => LWIP_CALLBACK_API = 0
  /\ Standard("LWIP_EVENT_API") /\ Defined("LWIP_CALLBACK_API") => LWIP_EVENT_API = 0
  BY DEF Standard, Opt, Bit, CallbackByDefault, LWIP_EVENT_API, LWIP_CALLBACK_API

(***************************************************************************)
(* No message is printed for a module whose debug option is at its         *)
(* standard value, whatever type and level the message adds.               *)
(***************************************************************************)
THEOREM QuietUnlessAsked ==
  ASSUME NEW o \in DebugModules \cup DebugProtocols, Standard(o), NEW type \in 0 .. 127
  PROVE  ~Prints(Debug[o] + type)
<1>1. Debug[o] = 0
  BY OptStandard DEF Debug, LWIP_DBG_OFF
<1>2. 128 \notin Bits(0 + type)
  BY SMT DEF Bits
<1> QED  BY <1>1, <1>2 DEF Prints, LWIP_DBG_ON

-----------------------------------------------------------------------------
(* LwipTcp *)

(***************************************************************************)
(* The comparisons of sequence numbers see through the wrap of 32 bits as  *)
(* long as the numbers lie less than half their range apart: of a and the  *)
(* number n behind it, a is the lower, and never the other way round.      *)
(***************************************************************************)
THEOREM OrderWithinHalf ==
  ASSUME NEW a \in SeqNo, NEW n \in Nat, 0 < n, n < HalfWord
  PROVE  LET b == (a + n) % Word
         IN  /\ TCP_SEQ_LT(a, b) /\ TCP_SEQ_LEQ(a, b)
             /\ ~TCP_SEQ_GT(a, b) /\ ~TCP_SEQ_GEQ(a, b)
             /\ TCP_SEQ_GT(b, a) /\ ~TCP_SEQ_LT(b, a)
<1> DEFINE b == (a + n) % Word
<1>1. a \in Nat /\ a < 4294967296 /\ n < 2147483648
  BY SMT DEF SeqNo, Word, HalfWord
<1>2. b = a + n \/ b = a + n - 4294967296
  BY SMT, <1>1 DEF Word
<1>3. (b - a) % Word = n /\ (a - b) % Word = 4294967296 - n
  BY SMT, <1>1, <1>2 DEF Word
<1>4. Ahead(b, a) = n
  BY SMT, <1>1, <1>3 DEF Ahead, HalfWord
<1>5. Ahead(a, b) = - n
  BY SMT, <1>1, <1>3 DEF Ahead, HalfWord, Word
<1> HIDE DEF b
<1>6. TCP_SEQ_LT(a, b) /\ TCP_SEQ_LEQ(a, b) /\ ~TCP_SEQ_GT(a, b) /\ ~TCP_SEQ_GEQ(a, b)
  BY SMT, <1>5 DEF TCP_SEQ_LT, TCP_SEQ_LEQ, TCP_SEQ_GT, TCP_SEQ_GEQ
<1>7. TCP_SEQ_GT(b, a) /\ ~TCP_SEQ_LT(b, a)
  BY SMT, <1>4 DEF TCP_SEQ_LT, TCP_SEQ_GT
<1> QED  BY <1>6, <1>7 DEF b

(***************************************************************************)
(* The order ends there: of two numbers exactly half the range apart each  *)
(* is lower than the other.                                                *)
(***************************************************************************)
THEOREM HalfIsAmbiguous ==
  ASSUME NEW a \in SeqNo
  PROVE  LET b == (a + HalfWord) % Word IN TCP_SEQ_LT(a, b) /\ TCP_SEQ_LT(b, a)
<1> DEFINE b == (a + HalfWord) % Word
<1>1. a \in Nat /\ a < 4294967296
  BY SMT DEF SeqNo, Word
<1>2. b = a + 2147483648 \/ b = a - 2147483648
  BY SMT, <1>1 DEF Word, HalfWord
<1>3. (b - a) % Word = 2147483648 /\ (a - b) % Word = 2147483648
  BY SMT, <1>1, <1>2 DEF Word
<1>4. Ahead(a, b) < 0 /\ Ahead(b, a) < 0
  BY SMT, <1>3 DEF Ahead, HalfWord, Word
<1> QED  BY <1>4 DEF TCP_SEQ_LT

(***************************************************************************)
(* In a window shorter than half the range, TCP_SEQ_BETWEEN accepts        *)
(* exactly the numbers of the window, as the form under #if 0 does.        *)
(***************************************************************************)
THEOREM WindowIsAnInterval ==
  ASSUME NEW b \in SeqNo, NEW w \in Nat, w < HalfWord, NEW n \in Nat, n < HalfWord
  PROVE  LET c == (b + w) % Word
             a == (b + n) % Word
         IN  /\ TCP_SEQ_BETWEEN(a, b, c) <=> n <= w
             /\ BetweenByDistance(a, b, c) <=> n <= w
<1> DEFINE c == (b + w) % Word
           a == (b + n) % Word
<1>1. b \in Nat /\ b < 4294967296 /\ w < 2147483648 /\ n < 2147483648
  BY SMT DEF SeqNo, Word, HalfWord
<1>2. c = b + w \/ c = b + w - 4294967296
  BY SMT, <1>1 DEF Word
<1>3. a = b + n \/ a = b + n - 4294967296
  BY SMT, <1>1 DEF Word
<1>4. (c - b) % Word = w /\ (a - b) % Word = n
  BY SMT, <1>1, <1>2, <1>3 DEF Word
<1>5. Ahead(a, b) = n
  BY SMT, <1>1, <1>4 DEF Ahead, HalfWord
<1>6. (a - c) % Word = (IF n <= w THEN IF n = w THEN 0 ELSE 4294967296 + n - w ELSE n - w)
  BY SMT, <1>1, <1>2, <1>3 DEF Word
<1> HIDE DEF a, c
<1>7. Ahead(a, c) = n - w
  BY SMT, <1>1, <1>6 DEF Ahead, HalfWord, Word
<1>8. TCP_SEQ_BETWEEN(a, b, c) <=> n <= w
  BY SMT, <1>1, <1>5, <1>7 DEF TCP_SEQ_BETWEEN, TCP_SEQ_GEQ, TCP_SEQ_LEQ
<1>9. BetweenByDistance(a, b, c) <=> n <= w
  BY SMT, <1>1, <1>4 DEF BetweenByDistance
<1> QED  BY <1>8, <1>9 DEF a, c

(***************************************************************************)
(* What Nagle's algorithm holds back is always less than one full segment, *)
(* behind data on its way, with room left in the send buffer and queue: a  *)
(* sender that waits for buffer space is not kept waiting by it.           *)
(***************************************************************************)
THEOREM NagleKeepsRoom ==
  ASSUME NEW pcb, pcb.unacked \in Nat, pcb.unsent \in Nat, pcb.snd_buf \in Nat,
         pcb.len \in Nat, pcb.mss \in Nat, pcb.snd_queuelen \in Nat, TCP_SND_QUEUELEN \in Nat,
         ~tcp_do_output_nagle(pcb)
  PROVE  /\ pcb.unacked > 0
         /\ pcb.snd_buf > 0 /\ pcb.snd_queuelen < TCP_SND_QUEUELEN
         /\ pcb.unsent = 0 \/ pcb.len < pcb.mss
  BY SMT DEF tcp_do_output_nagle

(***************************************************************************)
(* The options of a segment always fill whole words, and they fit: a TCP   *)
(* header has room for 40 bytes of options.                                *)
(***************************************************************************)
THEOREM OptionsFit ==
  ASSUME NEW flags
  PROVE  /\ LWIP_TCP_OPT_LENGTH(flags) % 4 = 0
         /\ LWIP_TCP_OPT_LENGTH(flags) <= 20
<1>1. LWIP_TCP_OPT_LEN_TS_OUT = 12 \/ LWIP_TCP_OPT_LEN_TS_OUT = 0
  BY DEF LWIP_TCP_OPT_LEN_TS_OUT
<1>2. LWIP_TCP_OPT_LEN_WS_OUT = 4 \/ LWIP_TCP_OPT_LEN_WS_OUT = 0
  BY DEF LWIP_TCP_OPT_LEN_WS_OUT
<1>3. LWIP_TCP_OPT_LEN_MSS = 4
  BY DEF LWIP_TCP_OPT_LEN_MSS
<1> QED  BY SMT, <1>1, <1>2, <1>3 DEF LWIP_TCP_OPT_LENGTH

(***************************************************************************)
(* A connection that has not agreed on scaling never offers a window that  *)
(* the 16 bits of the header cannot hold, as long as scaling is built in   *)
(* or the window chosen fits them itself.                                  *)
(***************************************************************************)
THEOREM WindowHeldBack ==
  ASSUME TCP_WND \in Nat, LWIP_WND_SCALE # 0 \/ TCP_WND <= 65535
  PROVE  TCP_WND_MAX(FALSE) <= 65535
  BY SMT DEF TCP_WND_MAX, TCPWND16, LWIP_MIN

(***************************************************************************)
(* At the latest the second packet of data in a row is acknowledged at     *)
(* once, and an acknowledgement wanted at once stays wanted.               *)
(***************************************************************************)
THEOREM SecondIsAcknowledged ==
  ASSUME NEW flags
  PROVE  /\ "TF_ACK_NOW" \in tcp_ack(tcp_ack(flags))
         /\ "TF_ACK_NOW" \in flags => "TF_ACK_NOW" \in tcp_ack(flags)
<1>1. "TF_ACK_NOW" # "TF_ACK_DELAY"
  OBVIOUS
<1> QED  BY <1>1 DEF tcp_ack

(***************************************************************************)
(* Data that came in always reaches someone: the event function, the       *)
(* callback of the pcb, or the one lwIP keeps for pcbs without.            *)
(***************************************************************************)
THEOREM DataReachesSomeone ==
  ASSUME NEW state, NEW callback \in BOOLEAN
  PROVE  Called("RECV", state, callback) # "nothing"
  BY SMT DEF Called

-----------------------------------------------------------------------------
Distinct(pcbs) == \A i, j \in 1 .. Len(pcbs) : pcbs[i] = pcbs[j] => i = j
OnList(pcb, pcbs) == \E i \in 1 .. Len(pcbs) : pcbs[i] = pcb

(***************************************************************************)
(* tcp_priv.h asks that a pcb be on one list only.  A pcb registered where *)
(* it was not leaves a list without repetition, and removing it again      *)
(* restores the list as it was.                                            *)
(***************************************************************************)
THEOREM RegisterThenRemove ==
  ASSUME NEW P, NEW pcbs \in Seq(P), NEW npcb \in P, Distinct(pcbs), ~OnList(npcb, pcbs)
  PROVE  /\ Distinct(TCP_REG(pcbs, npcb)) /\ OnList(npcb, TCP_REG(pcbs, npcb))
         /\ TCP_RMV(TCP_REG(pcbs, npcb), npcb) = pcbs
<1> DEFINE l == TCP_REG(pcbs, npcb)
<1>1. /\ l \in Seq(P) /\ Len(l) = Len(pcbs) + 1 /\ l[1] = npcb
      /\ \A i \in 1 .. Len(pcbs) : l[i + 1] = pcbs[i]
  BY SMT DEF TCP_REG
<1>2. Len(pcbs) \in Nat
  OBVIOUS
<1> HIDE DEF l
<1>3. \A i \in 2 .. Len(l) : i - 1 \in 1 .. Len(pcbs) /\ l[i] = pcbs[i - 1]
  BY SMT, <1>1, <1>2
<1>4. \A i \in 2 .. Len(l) : l[i] # npcb
  BY <1>3 DEF OnList
<1>5. Distinct(l)
  <2>1. SUFFICES ASSUME NEW i \in 1 .. Len(l), NEW j \in 1 .. Len(l), l[i] = l[j]
                 PROVE  i = j
    BY DEF Distinct
  <2>2. CASE i = 1 \/ j = 1
    BY SMT, <1>1, <1>2, <1>4, <2>1, <2>2
  <2>3. CASE i # 1 /\ j # 1
    <3>1. i \in 2 .. Len(l) /\ j \in 2 .. Len(l)
      BY SMT, <1>1, <1>2, <2>3
    <3>2. pcbs[i - 1] = pcbs[j - 1] /\ i - 1 \in 1 .. Len(pcbs) /\ j - 1 \in 1 .. Len(pcbs)
      BY <1>3, <2>1, <3>1
    <3>3. i - 1 = j - 1
      BY <3>2 DEF Distinct
    <3> QED  BY SMT, <3>3
  <2> QED  BY <2>2, <2>3
<1>6. 1 \in 1 .. Len(l)
  BY SMT, <1>1, <1>2
<1>7. OnList(npcb, l)
  BY <1>1, <1>6 DEF OnList
<1>8. (CHOOSE i \in 1 .. Len(l) : l[i] = npcb /\ \A j \in 1 .. i - 1 : l[j] # npcb) = 1
  <2>1. \A j \in 1 .. 1 - 1 : l[j] # npcb
    BY SMT
  <2>2. \E i \in 1 .. Len(l) : l[i] = npcb /\ \A j \in 1 .. i - 1 : l[j] # npcb
    BY <1>1, <1>6, <2>1
  <2>3. \A i \in 1 .. Len(l) : l[i] = npcb => i = 1
    BY SMT, <1>1, <1>2, <1>4
  <2> QED  BY <2>2, <2>3
<1>9. TCP_RMV(l, npcb) = SubSeq(l, 1, 0) \o SubSeq(l, 2, Len(l))
  <2>1. 1 - 1 = 0 /\ 1 + 1 = 2
    OBVIOUS
  <2> QED  BY <1>1, <1>6, <1>8, <2>1 DEF TCP_RMV
<1>10. SubSeq(l, 1, 0) = << >>
  BY SMT, <1>1
<1>11. SubSeq(l, 2, Len(l)) \in Seq(P) /\ Len(SubSeq(l, 2, Len(l))) = Len(pcbs)
  BY SMT, <1>1, <1>2
<1>12. \A i \in 1 .. Len(pcbs) : SubSeq(l, 2, Len(l))[i] = pcbs[i]
  BY SMT, <1>1, <1>2
<1>13. SubSeq(l, 2, Len(l)) = pcbs
  BY <1>11, <1>12, SeqEqual
<1>14. TCP_RMV(l, npcb) = pcbs
  BY <1>9, <1>10, <1>13
<1> QED  BY <1>5, <1>7, <1>14 DEF l

-----------------------------------------------------------------------------
(* LwipAddresses: which tests exclude each other, and which addresses the   *)
(* constructors and the tests that belong together agree on.                *)

(***************************************************************************)
(* The bytes an IPv4 address is made of are the bytes read out of it.      *)
(***************************************************************************)
THEOREM BytesOfAddress ==
  ASSUME NEW a \in 0 .. 255, NEW b \in 0 .. 255, NEW c \in 0 .. 255, NEW d \in 0 .. 255
  PROVE  LET addr == IP4_ADDR(a, b, c, d)
         IN  /\ addr \in Addr
             /\ ip4_addr1(addr) = a /\ ip4_addr2(addr) = b
             /\ ip4_addr3(addr) = c /\ ip4_addr4(addr) = d
<1> DEFINE addr == IP4_ADDR(a, b, c, d)
<1>1. a % 256 = a /\ b % 256 = b /\ c % 256 = c /\ d % 256 = d
  BY SMT
<1>2. addr = a * 16777216 + b * 65536 + c * 256 + d
  BY SMT, <1>1 DEF IP4_ADDR, LWIP_MAKEU32
<1> HIDE DEF addr
<1>3. addr \in Addr
  BY SMT, <1>2 DEF Addr, IPADDR_NONE
<1>4. addr \div 16777216 = a /\ addr \div 65536 = a * 256 + b
  BY SMT, <1>2
<1>5. addr \div 256 = a * 65536 + b * 256 + c /\ addr % 256 = d
  BY SMT, <1>2
<1>6. (a * 256 + b) % 256 = b /\ (a * 65536 + b * 256 + c) % 256 = c
  BY SMT
<1>7. /\ ip4_addr1(addr) = a /\ ip4_addr2(addr) = b
      /\ ip4_addr3(addr) = c /\ ip4_addr4(addr) = d
  BY SMT, <1>4, <1>5, <1>6 DEF ip4_addr1, ip4_addr2, ip4_addr3, ip4_addr4
<1> QED  BY SMT, <1>3, <1>7 DEF addr

(***************************************************************************)
(* Turning the byte order twice gives the number back, so that comparing   *)
(* turned numbers compares the numbers: the tests may put PP_HTONL on the  *)
(* constant and leave the address as it came from the wire.                *)
(***************************************************************************)
THEOREM TwiceTurned ==
  ASSUME NEW x \in Addr, NEW y \in Addr
  PROVE  /\ PP_HTONL(PP_HTONL(x)) = x
         /\ PP_HTONL(x) = PP_HTONL(y) <=> x = y
<1>1. ASSUME NEW z \in Addr PROVE PP_HTONL(PP_HTONL(z)) = z
  <2> DEFINE p == z % 256
             q == (z \div 256) % 256
             r == (z \div 65536) % 256
             t == (z \div 16777216) % 256
             h == PP_HTONL(z)
  <2>1. z \in Nat /\ z <= 4294967295
    BY SMT, <1>1 DEF Addr, IPADDR_NONE
  <2>2. /\ p \in Nat /\ p < 256 /\ q \in Nat /\ q < 256
        /\ r \in Nat /\ r < 256 /\ t \in Nat /\ t < 256
    BY SMT, <2>1
  <2>3. z = t * 16777216 + r * 65536 + q * 256 + p
    BY SMT, <2>1
  <2>4. h = p * 16777216 + q * 65536 + r * 256 + t
    BY DEF PP_HTONL
  <2> HIDE DEF p, q, r, t, h
  <2>5. h % 256 = t /\ h \div 256 = p * 65536 + q * 256 + r
    BY SMT, <2>2, <2>4
  <2>6. h \div 65536 = p * 256 + q /\ h \div 16777216 = p
    BY SMT, <2>2, <2>4
  <2>7. /\ (p * 65536 + q * 256 + r) % 256 = r /\ (p * 256 + q) % 256 = q /\ p % 256 = p
    BY SMT, <2>2
  <2>8. /\ h % 256 = t /\ (h \div 256) % 256 = r
        /\ (h \div 65536) % 256 = q /\ (h \div 16777216) % 256 = p
    BY SMT, <2>5, <2>6, <2>7
  <2>9. PP_HTONL(h)
          = (h % 256) * 16777216 + ((h \div 256) % 256) * 65536
            + ((h \div 65536) % 256) * 256 + ((h \div 16777216) % 256)
    BY SMT DEF PP_HTONL
  <2>10. PP_HTONL(h) = t * 16777216 + r * 65536 + q * 256 + p
    BY SMT, <2>8, <2>9
  <2> QED  BY SMT, <2>3, <2>10 DEF h
<1>2. PP_HTONL(PP_HTONL(x)) = x /\ PP_HTONL(PP_HTONL(y)) = y
  BY SMT, <1>1
<1> QED  BY SMT, <1>2

(***************************************************************************)
(* An IPv4 address is of exactly one of the five classes: the tests of     *)
(* ip4_addr.h, each with a mask of its own, leave no address out and none  *)
(* in two of them.                                                         *)
(***************************************************************************)
THEOREM OneClassEach ==
  ASSUME NEW a \in Addr
  PROVE  /\ IP_CLASSA(a) \/ IP_CLASSB(a) \/ IP_CLASSC(a) \/ IP_CLASSD(a) \/ IP_EXPERIMENTAL(a)
         /\ IP_CLASSA(a) => ~(IP_CLASSB(a) \/ IP_CLASSC(a) \/ IP_CLASSD(a) \/ IP_EXPERIMENTAL(a))
         /\ IP_CLASSB(a) => ~(IP_CLASSC(a) \/ IP_CLASSD(a) \/ IP_EXPERIMENTAL(a))
         /\ IP_CLASSC(a) => ~(IP_CLASSD(a) \/ IP_EXPERIMENTAL(a))
         /\ IP_CLASSD(a) => ~IP_EXPERIMENTAL(a)
<1>1. a \in Nat /\ a <= 4294967295
  BY SMT DEF Addr, IPADDR_NONE
<1>2. /\ IP_CLASSA(a) <=> a < 2147483648
      /\ IP_CLASSB(a) <=> a >= 2147483648 /\ a < 3221225472
      /\ IP_CLASSC(a) <=> a >= 3221225472 /\ a < 3758096384
  BY SMT, <1>1 DEF IP_CLASSA, IP_CLASSB, IP_CLASSC
<1>3. /\ IP_CLASSD(a) <=> a >= 3758096384 /\ a < 4026531840
      /\ IP_EXPERIMENTAL(a) <=> a >= 4026531840
  BY SMT, <1>1 DEF IP_CLASSD, IP_EXPERIMENTAL
<1> QED  BY SMT, <1>1, <1>2, <1>3

(***************************************************************************)
(* A loopback address is of class A and a link-local one of class B; the   *)
(* special addresses exclude each other, and the broadcast address counts  *)
(* as experimental, never as multicast.                                    *)
(***************************************************************************)
THEOREM SpecialIpv4 ==
  ASSUME NEW a \in Addr
  PROVE  /\ ip4_addr_isloopback(a) => IP_CLASSA(a) /\ ~ip4_addr_isany(a)
         /\ ip4_addr_islinklocal(a) => IP_CLASSB(a) /\ ~ip4_addr_ismulticast(a)
         /\ ip4_addr_ismulticast(a) <=> IP_MULTICAST(a)
         /\ a = IPADDR_BROADCAST => IP_EXPERIMENTAL(a) /\ ~ip4_addr_ismulticast(a)
         /\ ip4_addr_isloopback(IPADDR_LOOPBACK)
<1>1. ip4_addr_isloopback(a) => IP_CLASSA(a) /\ ~ip4_addr_isany(a)
  BY SMT DEF Addr, IPADDR_NONE, ip4_addr_isloopback, ip4_addr_isany, IP_CLASSA, IPADDR_ANY
<1>2. ip4_addr_islinklocal(a) => IP_CLASSB(a) /\ ~ip4_addr_ismulticast(a)
  BY SMT DEF Addr, IPADDR_NONE, ip4_addr_islinklocal, ip4_addr_ismulticast, IP_CLASSB
<1>3. ip4_addr_ismulticast(a) <=> IP_MULTICAST(a)
  BY SMT DEF ip4_addr_ismulticast, IP_MULTICAST, IP_CLASSD
<1>4. a = IPADDR_BROADCAST => IP_EXPERIMENTAL(a) /\ ~ip4_addr_ismulticast(a)
  BY SMT DEF IPADDR_BROADCAST, ip4_addr_ismulticast, IP_EXPERIMENTAL
<1>5. ip4_addr_isloopback(IPADDR_LOOPBACK)
  BY SMT DEF IPADDR_LOOPBACK, ip4_addr_isloopback
<1> QED  BY SMT, <1>1, <1>2, <1>3, <1>4, <1>5

(***************************************************************************)
(* Two addresses compare as of one network exactly when they have the same *)
(* network address, and an address is on the network it names.             *)
(***************************************************************************)
THEOREM SameNetwork ==
  ASSUME NEW a \in Addr, NEW b \in Addr, NEW hosts \in {1, 256, 65536, 16777216}
  PROVE  /\ ip4_addr_netcmp(a, b, hosts)
              <=> ip4_addr_get_network(a, hosts) = ip4_addr_get_network(b, hosts)
         /\ ip4_addr_netcmp(a, ip4_addr_get_network(a, hosts), hosts)
<1>1. CASE hosts = 1
  BY SMT, <1>1 DEF Addr, IPADDR_NONE, ip4_addr_netcmp, ip4_addr_get_network
<1>2. CASE hosts = 256
  BY SMT, <1>2 DEF Addr, IPADDR_NONE, ip4_addr_netcmp, ip4_addr_get_network
<1>3. CASE hosts = 65536
  BY SMT, <1>3 DEF Addr, IPADDR_NONE, ip4_addr_netcmp, ip4_addr_get_network
<1>4. CASE hosts = 16777216
  BY SMT, <1>4 DEF Addr, IPADDR_NONE, ip4_addr_netcmp, ip4_addr_get_network
<1> QED  BY SMT, <1>1, <1>2, <1>3, <1>4

-----------------------------------------------------------------------------
(***************************************************************************)
(* No IPv6 address is of two of the kinds the header tests for: the        *)
(* unspecified one, loopback, IPv4-mapped, global, link-local, site-local, *)
(* unique local and multicast.                                             *)
(***************************************************************************)
THEOREM OneKindAtMost ==
  ASSUME NEW a \in Addr6
  PROVE  /\ ip6_addr_ismulticast(a)
              => ~(\/ ip6_addr_isuniquelocal(a) \/ ip6_addr_issitelocal(a)
                   \/ ip6_addr_islinklocal(a) \/ ip6_addr_isglobal(a)
                   \/ ip6_addr_isipv4mappedipv6(a) \/ ip6_addr_isloopback(a) \/ ip6_addr_isany(a))
         /\ ip6_addr_isuniquelocal(a)
              => ~(\/ ip6_addr_issitelocal(a) \/ ip6_addr_islinklocal(a) \/ ip6_addr_isglobal(a)
                   \/ ip6_addr_isipv4mappedipv6(a) \/ ip6_addr_isloopback(a) \/ ip6_addr_isany(a))
         /\ ip6_addr_issitelocal(a)
              => ~(\/ ip6_addr_islinklocal(a) \/ ip6_addr_isglobal(a)
                   \/ ip6_addr_isipv4mappedipv6(a) \/ ip6_addr_isloopback(a) \/ ip6_addr_isany(a))
         /\ ip6_addr_islinklocal(a)
              => ~(\/ ip6_addr_isglobal(a)
                   \/ ip6_addr_isipv4mappedipv6(a) \/ ip6_addr_isloopback(a) \/ ip6_addr_isany(a))
         /\ ip6_addr_isglobal(a)
              => ~(ip6_addr_isipv4mappedipv6(a) \/ ip6_addr_isloopback(a) \/ ip6_addr_isany(a))
         /\ ip6_addr_isipv4mappedipv6(a) => ~(ip6_addr_isloopback(a) \/ ip6_addr_isany(a))
         /\ ip6_addr_isloopback(a) => ~ip6_addr_isany(a)
<1>1. a[1] \in Nat /\ a[1] <= 4294967295
  BY SMT DEF Addr6, Addr, IPADDR_NONE
<1>2. /\ ip6_addr_isany(a) => a[1] = 0 /\ a[3] = 0 /\ a[4] = 0
      /\ ip6_addr_isloopback(a) => a[1] = 0 /\ a[3] = 0 /\ a[4] = 1
      /\ ip6_addr_isipv4mappedipv6(a) => a[1] = 0 /\ a[3] = 65535
  BY SMT DEF ip6_addr_isany, ip6_addr_isloopback, ip6_addr_isipv4mappedipv6
<1>3. /\ ip6_addr_isglobal(a) => a[1] >= 536870912 /\ a[1] < 1073741824
      /\ ip6_addr_islinklocal(a) => a[1] >= 4269801472 /\ a[1] < 4273995776
      /\ ip6_addr_issitelocal(a) => a[1] >= 4273995776 /\ a[1] < 4278190080
  BY SMT, <1>1 DEF ip6_addr_isglobal, ip6_addr_islinklocal, ip6_addr_issitelocal
<1>4. /\ ip6_addr_isuniquelocal(a) => a[1] >= 4227858432 /\ a[1] < 4261412864
      /\ ip6_addr_ismulticast(a) => a[1] >= 4278190080
  BY SMT, <1>1 DEF ip6_addr_isuniquelocal, ip6_addr_ismulticast
<1> QED  BY SMT, <1>1, <1>2, <1>3, <1>4

(***************************************************************************)
(* The multicast tests with a scope exclude each other, and each of them   *)
(* implies the plain test and the scope that ip6_addr_multicast_scope      *)
(* gives.                                                                  *)
(***************************************************************************)
THEOREM OneScope ==
  ASSUME NEW a \in Addr6, NEW s \in 0 .. 15, NEW t \in 0 .. 15, Multicast(a, s)
  PROVE  /\ ip6_addr_ismulticast(a) /\ ip6_addr_multicast_scope(a) = s
         /\ Multicast(a, t) => t = s
  BY SMT DEF Multicast

(***************************************************************************)
(* The solicited-node address made from the last word of an address passes *)
(* both tests, the one for any such address and the one for that word.     *)
(***************************************************************************)
THEOREM SolicitedNode ==
  ASSUME NEW a \in Addr6
  PROVE  /\ ip6_addr_issolicitednode(ip6_addr_set_solicitednode(a[4]))
         /\ ip6_addr_cmp_solicitednode(ip6_addr_set_solicitednode(a[4]), a)
         /\ ip6_addr_set_solicitednode(a[4]) \in Addr6
<1>1. a[4] \in Int
  BY SMT DEF Addr6, Addr, IPADDR_NONE
<1>2. a[4] % 16777216 \in Nat /\ a[4] % 16777216 < 16777216
  BY SMT, <1>1
<1>3. WithFF(a[4]) \in Addr /\ WithFF(a[4]) \div 16777216 = 255
  BY SMT, <1>2 DEF WithFF, FF000000, Addr, IPADDR_NONE
<1> DEFINE s == ip6_addr_set_solicitednode(a[4])
<1>4. s = <<FF02, 0, 1, WithFF(a[4])>>
  BY SMT DEF ip6_addr_set_solicitednode
<1>5. s[1] = FF02 /\ s[3] = 1 /\ s[4] = WithFF(a[4])
  BY SMT, <1>4
<1>6. ip6_addr_issolicitednode(s)
  BY SMT, <1>3, <1>5 DEF ip6_addr_issolicitednode
<1>7. ip6_addr_cmp_solicitednode(s, a)
  BY SMT, <1>4 DEF ip6_addr_cmp_solicitednode
<1>8. s \in Addr6
  BY SMT, <1>3, <1>4 DEF Addr6, FF02, Addr, IPADDR_NONE
<1> QED  BY SMT, <1>6, <1>7, <1>8

(***************************************************************************)
(* An IPv6 address is never tentative and valid at once, and each of its   *)
(* states passes one of the tests; preferred and deprecated are valid.     *)
(***************************************************************************)
THEOREM OneState ==
  ASSUME NEW s \in AddrState
  PROVE  /\ ~(ip6_addr_istentative(s) /\ ip6_addr_isvalid(s))
         /\ ip6_addr_isinvalid(s) \/ ip6_addr_istentative(s) \/ ip6_addr_isvalid(s)
         /\ ip6_addr_isvalid(s) <=> ip6_addr_ispreferred(s) \/ ip6_addr_isdeprecated(s)
<1> USE DEF ip6_addr_isinvalid, ip6_addr_istentative, ip6_addr_isvalid, ip6_addr_ispreferred,
            ip6_addr_isdeprecated, IP6_ADDR_INVALID, IP6_ADDR_TENTATIVE, IP6_ADDR_DEPRECATED,
            IP6_ADDR_PREFERRED, AddrState
<1>1. CASE s \in 8 .. 15
  BY SMT, <1>1
<1>2. CASE s = 0
  BY SMT, <1>2
<1>3. CASE s = 16
  BY SMT, <1>3
<1>4. CASE s = 48
  BY SMT, <1>4
<1> QED  BY SMT, <1>1, <1>2, <1>3, <1>4

-----------------------------------------------------------------------------
(***************************************************************************)
(* A copy compares equal to its original, whatever the three words that    *)
(* copying an IPv4 address leaves behind held before.                      *)
(***************************************************************************)
THEOREM CopyIsEqual ==
  ASSUME NEW dest \in IpAddr, NEW src \in IpAddr
  PROVE  /\ ip_addr_copy(dest, src) \in IpAddr
         /\ ip_addr_cmp(ip_addr_copy(dest, src), src)
<1>1. /\ src.type \in {IPADDR_TYPE_V4, IPADDR_TYPE_V6, IPADDR_TYPE_ANY}
      /\ dest.word \in [1 .. 4 -> Addr] /\ src.word \in [1 .. 4 -> Addr]
  BY SMT DEF IpAddr, Addr6
<1>2. CASE IP_IS_V6(src)
  BY SMT, <1>2 DEF ip_addr_copy, ip_addr_cmp
<1>3. CASE ~IP_IS_V6(src)
  <2> DEFINE w == [dest.word EXCEPT ![1] = src.word[1]]
             c == ip_addr_copy(dest, src)
  <2>1. w \in [1 .. 4 -> Addr] /\ w[1] = src.word[1]
    BY SMT, <1>1
  <2>2. c = [type |-> src.type, word |-> w]
    BY <1>3 DEF ip_addr_copy
  <2> HIDE DEF w, c
  <2>3. c \in IpAddr /\ c.type = src.type /\ c.word[1] = src.word[1]
    BY <1>1, <2>1, <2>2 DEF IpAddr, Addr6
  <2>4. ip_addr_cmp(c, src)
    BY <1>3, <2>3 DEF ip_addr_cmp, IP_IS_V6
  <2> QED  BY <2>3, <2>4 DEF c
<1> QED  BY <1>2, <1>3

(***************************************************************************)
(* Comparing addresses of both versions is an equivalence, and addresses   *)
(* that compare equal pass the same tests, their unread words apart.       *)
(***************************************************************************)
THEOREM EqualAddresses ==
  ASSUME NEW a \in IpAddr, NEW b \in IpAddr, NEW c \in IpAddr
  PROVE  /\ ip_addr_cmp(a, a)
         /\ ip_addr_cmp(a, b) => ip_addr_cmp(b, a)
         /\ ip_addr_cmp(a, b) /\ ip_addr_cmp(b, c) => ip_addr_cmp(a, c)
         /\ ip_addr_cmp(a, b) => /\ ip_addr_isany(a) <=> ip_addr_isany(b)
                                 /\ ip_addr_ismulticast(a) <=> ip_addr_ismulticast(b)
                                 /\ ip_addr_isloopback(a) <=> ip_addr_isloopback(b)
                                 /\ ip_addr_islinklocal(a) <=> ip_addr_islinklocal(b)
                                 /\ ip_addr_get_ip4_u32(a) = ip_addr_get_ip4_u32(b)
  BY DEF ip_addr_cmp, IP_IS_V6, IP_IS_V4, ip_addr_isany, ip_addr_ismulticast,
         ip_addr_isloopback, ip_addr_islinklocal, ip_addr_get_ip4_u32

(***************************************************************************)
(* An IPv4 address put into an IPv6 one is recognised as such and comes    *)
(* out again as it went in.                                                *)
(***************************************************************************)
THEOREM MappedAndBack ==
  ASSUME NEW addr \in Addr
  PROVE  /\ ip6_addr_isipv4mappedipv6(ip4_2_ipv4_mapped_ipv6(addr))
         /\ unmap_ipv4_mapped_ipv6(ip4_2_ipv4_mapped_ipv6(addr)) = addr
  BY SMT DEF ip6_addr_isipv4mappedipv6, ip4_2_ipv4_mapped_ipv6, unmap_ipv4_mapped_ipv6
=============================================================================
