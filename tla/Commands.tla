------------------------------- MODULE Commands -------------------------------
(***************************************************************************)
(* The commands the Teensy sends: one record for each frame that a method  *)
(* of teensquitto.cpp or AsyncUDP.cpp builds.  A command is told by the    *)
(* two header bytes (hdr) and the byte after them (sub), written here by   *)
(* their hexadecimal digits: sub 10 stands for 0x10.  kind is the object   *)
(* whose methods build it, by the flag the method tests before it does.    *)
(* loop is the time in ms the method waits for the answer beyond           *)
(* _esp_latency, post the time its check after the loop allows; 0 for a    *)
(* method that does not wait.  Where a kind has several methods of a name, *)
(* or a method several frames, they are numbered in the order of the file. *)
(***************************************************************************)
EXTENDS Integers, FiniteSets

\* The methods that wait for an answer with one limit for loop and check ...
Asks(h, k, limit, names) ==
  {[hdr |-> h, kind |-> k, name |-> n[1], sub |-> n[2], loop |-> limit, post |-> limit] : n \in names}

\* ... with two ...
AsksUnevenly(h, k, loop, post, names) ==
  {[hdr |-> h, kind |-> k, name |-> n[1], sub |-> n[2], loop |-> loop, post |-> post] : n \in names}

\* ... and those that send and return.
Tells(h, k, names) == AsksUnevenly(h, k, 0, 0, names)

-----------------------------------------------------------------------------
SpiffsFile ==
       Asks("3434", "SPIFFS", 1000, {<<"open", 0>>, <<"exists", 2>>, <<"remove", 4>>,
         <<"rename", 5>>, <<"close", 7>>})
  \cup Asks("3434", "SPIFFS", 35000, {<<"format", 3>>})
  \cup Asks("3434", "SPIFFS", 1500, {<<"readStringUntil", 6>>})

FileRead ==
       Asks("3434", "SPIFFS", 1000, {<<"position", 8>>, <<"size", 9>>, <<"name", 10>>})
  \cup Asks("3434", "SPIFFS", 2500, {<<"read", 11>>})
  \cup Asks("A6A6", "WiFiClient", 2500, {<<"read", 7>>})
  \cup Asks("ADCC", "WiFiClientSecure", 2500, {<<"read", 9>>})
  \cup Asks("CCCC", "WiFiUdp", 2500, {<<"read", 18>>})

PeekAndAvailable ==
       Asks("3434", "SPIFFS", 1000, {<<"seek", 12>>, <<"peek", 13>>, <<"available", 14>>})
  \cup Asks("A6A6", "WiFiClient", 1000, {<<"peek", 8>>, <<"available", 6>>})
  \cup Asks("ADCC", "WiFiClientSecure", 1000, {<<"peek", 8>>, <<"available", 7>>})
  \cup Asks("CCCC", "WiFiUdp", 1000, {<<"peek", 5>>, <<"available", 4>>})

ReadAndFlush ==
       Asks("3434", "SPIFFS", 1000, {<<"read2", 15>>})
  \cup Asks("A6A6", "WiFiClient", 1000, {<<"read2", 5>>})
  \cup Asks("ADCC", "WiFiClientSecure", 1000, {<<"read2", 6>>})
  \cup Asks("CCCC", "WiFiUdp", 1000, {<<"read2", 3>>})
  \cup Tells("3434", "SPIFFS", {<<"flush", 16>>})
  \cup Tells("A6A6", "WiFiClient", {<<"flush", 10>>})
  \cup Tells("CCCC", "WiFiUdp", {<<"flush", 6>>})

WriteAndDirs ==
       Asks("3434", "SPIFFS", 1000, {<<"write", 17>>, <<"openDir", 18>>, <<"next", 19>>,
         <<"fileName", 20>>})
  \cup Asks("A6A6", "WiFiClient", 1000, {<<"write", 4>>})
  \cup Asks("CCCC", "WiFiUdp", 1000, {<<"write", 17>>})
  \cup Asks("ADCC", "WiFiClientSecure", 1000, {<<"write", 5>>})

DirsAndMqtt ==
       Asks("3434", "SPIFFS", 1000, {<<"fileSize", 21>>, <<"openFile", 22>>, <<"info", 23>>})
  \cup Asks("3838", "MQTT", 1000, {<<"subscribe", 0>>, <<"unsubscribe", 1>>,
         <<"connected", 2>>})
  \cup Asks("A6A6", "WiFiClient", 1000, {<<"connected", 1>>})
  \cup Asks("ADCC", "WiFiClientSecure", 1000, {<<"connected", 4>>})

MqttPublish ==
       Asks("3838", "MQTT", 1000, {<<"connect", 3>>, <<"publish", 5>>, <<"publish2", 6>>})
  \cup Tells("3838", "MQTT", {<<"handlers", 17>>})
  \cup Tells("A2A2", "WiFi", {<<"handlers", 45>>})

MqttSetup ==
  Asks("3838", "MQTT", 1000, {<<"setKeepAlive", 7>>, <<"setClientId", 8>>,
         <<"setCleanSession", 9>>, <<"setMaxTopicLength", 10>>, <<"setCredentials", 11>>,
         <<"setCredentials2", 12>>, <<"setServer", 13>>, <<"setServer2", 14>>})

WillAndBegin ==
       Asks("3838", "MQTT", 1000, {<<"setWill", 15>>, <<"setWill2", 16>>})
  \cup Asks("A2A2", "WiFi", 1000, {<<"begin", 0>>, <<"begin2", 1>>, <<"begin3", 2>>})

BeginAndDisconnect ==
       Asks("A2A2", "WiFi", 1000, {<<"begin4", 3>>, <<"config", 4>>, <<"disconnect", 5>>,
         <<"reconnect", 6>>})
  \cup Asks("3434", "SPIFFS", 1000, {<<"begin", 1>>})
  \cup Tells("EAEA", "WSS", {<<"begin", 12>>, <<"disconnect", 19>>})
  \cup Asks("3838", "MQTT", 1000, {<<"disconnect", 4>>})
  \cup Tells("EAEA", "WSC", {<<"disconnect", 4>>})

WifiAuto ==
       Asks("A2A2", "WiFi", 1000, {<<"setAutoConnect", 7>>, <<"getAutoConnect", 8>>,
         <<"setAutoReconnect", 9>>, <<"isConnected", 11>>, <<"localIP", 12>>})
  \cup AsksUnevenly("A2A2", "WiFi", 3500, 1000, {<<"waitForConnectResult", 10>>})
  \cup Asks("A6A6", "WiFiClient", 1000, {<<"localIP", 17>>, <<"remoteIP", 18>>})
  \cup Asks("CCCC", "WiFiUdp", 1000, {<<"remoteIP", 8>>})

WifiAddresses ==
       Asks("CCCC", "WiFiUdp", 1000, {<<"destinationIP", 9>>})
  \cup Asks("A2A2", "WiFi", 1000, {<<"subnetMask", 13>>, <<"gatewayIP", 14>>, <<"dnsIP", 15>>,
         <<"macAddress", 16>>, <<"hostname", 17>>, <<"hostname2", 18>>, <<"SSID", 19>>})

WifiStatus ==
       Asks("A2A2", "WiFi", 1000, {<<"psk", 20>>, <<"BSSIDstr", 21>>, <<"RSSI", 22>>,
         <<"status", 23>>, <<"macAddress2", 24>>, <<"BSSID", 25>>,
         <<"beginSmartConfig", 26>>, <<"stopSmartConfig", 27>>})
  \cup Asks("A6A6", "WiFiClient", 1000, {<<"status", 0>>})

SmartConfigAndEsp ==
       Asks("A2A2", "WiFi", 1000, {<<"smartConfigDone", 28>>, <<"beginWPSConfig", 29>>})
  \cup Tells("A4A4", "ESP", {<<"reset", 0>>, <<"restart", 1>>, <<"wdtEnable", 2>>,
         <<"wdtDisable", 3>>, <<"wdtFeed", 4>>, <<"deepSleep", 5>>})

EspMemory ==
  Asks("A4A4", "ESP", 1000, {<<"rtcUserMemoryRead", 6>>, <<"rtcUserMemoryWrite", 7>>,
         <<"getVcc", 8>>, <<"getFreeHeap", 9>>, <<"getChipId", 10>>,
         <<"getBootVersion", 11>>})

EspChip ==
       Asks("A4A4", "ESP", 1000, {<<"getBootMode", 12>>, <<"getCpuFreqMHz", 13>>,
         <<"getFlashChipId", 14>>, <<"getSdkVersion", 16>>, <<"getFlashChipRealSize", 17>>,
         <<"getFlashChipSize", 18>>, <<"getFlashChipSpeed", 19>>})
  \cup Asks("A4A4", "SPIFFS", 1000, {<<"getCoreVersion", 15>>})

EspFlash ==
  Asks("A4A4", "ESP", 1000, {<<"getFlashChipMode", 20>>,
         <<"getFlashChipSizeByChipId", 21>>, <<"magicFlashChipSize", 22>>,
         <<"magicFlashChipSpeed", 23>>, <<"magicFlashChipMode", 24>>,
         <<"checkFlashConfig", 25>>, <<"flashEraseSector", 26>>, <<"getSketchSize", 29>>})

EspSketch ==
       Asks("A4A4", "SPIFFS", 1000, {<<"getSketchMD5", 30>>, <<"getResetReason", 33>>,
         <<"getResetInfo", 34>>})
  \cup Asks("A4A4", "ESP", 1000, {<<"getFreeSketchSpace", 31>>, <<"eraseConfig", 36>>,
         <<"getCycleCount", 37>>})

ClientConnect ==
       Asks("A6A6", "WiFiClient", 1000, {<<"connect", 2>>, <<"connect2", 3>>})
  \cup Asks("ADCC", "WiFiClientSecure", 1000, {<<"connect", 1>>, <<"connect2", 0>>,
         <<"verify", 2>>, <<"verifyCertChain", 3>>})

ClientStop ==
       Asks("A6A6", "WiFiClient", 5000, {<<"peekBytes", 9>>})
  \cup Asks("ADCC", "WiFiClientSecure", 5000, {<<"peekBytes", 10>>})
  \cup Asks("A6A6", "WiFiClient", 1000, {<<"stop", 11>>, <<"getNoDelay", 12>>,
         <<"setNoDelay", 13>>, <<"remotePort", 14>>})
  \cup Asks("ADCC", "WiFiClientSecure", 1000, {<<"stop", 11>>})
  \cup Tells("CCCC", "WiFiUdp", {<<"stop", 1>>})
  \cup Asks("CCCC", "WiFiUdp", 1000, {<<"remotePort", 10>>})

ClientPorts ==
       Asks("A6A6", "WiFiClient", 1000, {<<"localPort", 15>>, <<"availableForWrite", 20>>})
  \cup Asks("CCCC", "WiFiUdp", 1000, {<<"localPort", 11>>})
  \cup Tells("A6A6", "WiFiClient", {<<"stopAll", 16>>, <<"setLocalPortStart", 19>>})
  \cup Tells("CCCC", "WiFiUdp", {<<"stopAll", 2>>})
  \cup Asks("A2A2", "WiFi", 1000, {<<"hostByName", 30>>, <<"getPersistent", 31>>,
         <<"channel", 32>>})

WifiSleep ==
       Asks("A2A2", "WiFi", 1000, {<<"setSleepMode", 33>>, <<"getSleepMode", 34>>,
         <<"setPhyMode", 35>>, <<"getPhyMode", 36>>, <<"mode", 39>>, <<"getMode", 40>>,
         <<"enableSTA", 41>>})
  \cup Tells("A2A2", "WiFi", {<<"setOutputPower", 37>>, <<"persistent", 38>>})

WifiModeAndUdp ==
       Asks("A2A2", "WiFi", 1000, {<<"enableAP", 42>>, <<"forceSleepBegin", 43>>,
         <<"forceSleepWake", 44>>})
  \cup Asks("CCCC", "WiFiUdp", 1000, {<<"endPacket", 7>>, <<"parsePacket", 12>>,
         <<"beginPacket", 13>>, <<"beginPacket2", 14>>})

UdpAndSoftAp ==
       Asks("CCCC", "WiFiUdp", 1000, {<<"beginPacketMulticast", 15>>,
         <<"beginMulticast", 16>>})
  \cup Asks("A2A2", "WiFi", 1000, {<<"softAP", 46>>, <<"softAP2", 47>>, <<"softAPConfig", 48>>,
         <<"softAPdisconnect", 49>>})

SoftApAndScan ==
       Asks("A2A2", "WiFi", 1000, {<<"softAPgetStationNum", 50>>, <<"softAPIP", 51>>,
         <<"softAPmacAddress", 52>>, <<"softAPmacAddress2", 53>>, <<"scanNetworks", 54>>,
         <<"scanComplete", 56>>, <<"getNetworkInfo", 58>>})
  \cup Tells("A2A2", "WiFi", {<<"scanNetworksAsync", 55>>, <<"scanDelete", 57>>})

ScanResults ==
       Asks("A2A2", "WiFi", 1000, {<<"SSID2", 59>>, <<"encryptionType", 60>>, <<"RSSI2", 61>>,
         <<"BSSID2", 62>>, <<"BSSIDstr2", 63>>, <<"channel2", 64>>, <<"isHidden", 65>>})
  \cup Asks("BBBB", "EEPROM", 1000, {<<"commit", 0>>})

EepromAndMulti ==
       Asks("BBBB", "EEPROM", 1000, {<<"read", 2>>})
  \cup Tells("BBBB", "EEPROM", {<<"write", 3>>, <<"begin", 1>>})
  \cup Tells("CCCC", "WiFiUdp", {<<"begin", 0>>})
  \cup Asks("BABA", "WiFiMulti", 1000, {<<"addAP", 0>>, <<"run", 1>>})
  \cup Tells("EAEA", "WSC", {<<"onEvent", 23>>, <<"begin", 0>>})
  \cup Tells("EAEA", "WSS", {<<"onEvent", 24>>})

WebsocketBegin ==
       Tells("EAEA", "WSC", {<<"beginSSL", 1>>, <<"beginSocketIO", 2>>,
         <<"beginSocketIOSSL", 3>>, <<"setAuthorization", 6>>, <<"setAuthorization2", 7>>})
  \cup Asks("EAEA", "WSC", 1000, {<<"sendPing", 5>>})
  \cup Tells("EAEA", "WSS", {<<"setAuthorization", 20>>, <<"setAuthorization2", 21>>})

WebsocketSend ==
       Tells("EAEA", "WSC", {<<"setExtraHeaders", 8>>, <<"setReconnectInterval", 9>>})
  \cup Asks("EAEA", "WSC", 1000, {<<"sendBIN", 10>>, <<"sendTXT", 11>>})
  \cup Asks("EAEA", "WSS", 1000, {<<"sendTXT", 13>>, <<"sendBIN", 14>>})

WebsocketBroadcast ==
       Asks("EAEA", "WSS", 1000, {<<"sendPing", 15>>, <<"broadcastTXT", 16>>,
         <<"broadcastBIN", 17>>, <<"broadcastPing", 18>>, <<"remoteIP", 22>>})
  \cup Asks("ADCC", "WiFiClientSecure", 1000, {<<"setCACert", 12>>})

SecureCerts ==
       Asks("ADCC", "WiFiClientSecure", 1000, {<<"setCertificate", 13>>,
         <<"setPrivateKey", 14>>, <<"loadCACert", 16>>, <<"loadCertificate", 17>>,
         <<"loadPrivateKey", 18>>})
  \cup Tells("ADCC", "WiFiClientSecure", {<<"allowSelfSignedCerts", 15>>})

AsyncUdpCalls ==
       Asks("CECE", "AsyncUDP", 500, {<<"connected", 6>>, <<"listen", 0>>, <<"listen2", 1>>,
         <<"listenMulticast", 4>>, <<"connect", 3>>, <<"writeTo", 5>>, <<"write", 8>>})
  \cup Tells("CECE", "AsyncUDP", {<<"onPacket", 7>>, <<"close", 2>>})

AsyncUdpBroadcast ==
  Asks("CECE", "AsyncUDP", 500, {<<"broadcastTo", 10>>, <<"broadcast", 9>>})

-----------------------------------------------------------------------------
Commands ==
       SpiffsFile \cup FileRead \cup PeekAndAvailable \cup ReadAndFlush
  \cup WriteAndDirs \cup DirsAndMqtt \cup MqttPublish \cup MqttSetup
  \cup WillAndBegin \cup BeginAndDisconnect \cup WifiAuto \cup WifiAddresses
  \cup WifiStatus \cup SmartConfigAndEsp \cup EspMemory \cup EspChip
  \cup EspFlash \cup EspSketch \cup ClientConnect \cup ClientStop
  \cup ClientPorts \cup WifiSleep \cup WifiModeAndUdp \cup UdpAndSoftAp
  \cup SoftApAndScan \cup ScanResults \cup EepromAndMulti \cup WebsocketBegin
  \cup WebsocketSend \cup WebsocketBroadcast \cup SecureCerts \cup AsyncUdpCalls
  \cup AsyncUdpBroadcast

Waiting == {c \in Commands : c.loop > 0}

\* The kinds of object: what the constructors take, and AsyncUDP.
Kinds == {c.kind : c \in Commands}
=============================================================================
