--------------------------- MODULE DocumentedMethods ---------------------------
(***************************************************************************)
(* teensquitto.h gives with each method, in a comment behind it, the kinds *)
(* of object it is for.  Here are these comments as pairs of a method and  *)
(* a kind, for the methods that send to the ESP.  Methods and kinds go by  *)
(* the names Commands gives them: UDP and WIFIUDP are "WiFiUdp", AsyncWSC  *)
(* "WSC", and overloads are numbered as there.                             *)
(***************************************************************************)

For(kinds, methods) == methods \X kinds

Clients == {"WiFiClient", "WiFiClientSecure"}

StreamMethods ==
       For({"WiFiUdp", "EEPROM"}, {"begin"})
  \cup For(Clients \cup {"SPIFFS", "WiFiUdp"}, {"read2", "available", "peek"})
  \cup For({"SPIFFS", "WiFiClient", "WiFiUdp"}, {"write", "flush"})

WifiMethods ==
       For({"WiFi"}, {"begin", "begin2", "begin3", "begin4", "config", "reconnect",
         "setAutoConnect", "getAutoConnect", "setAutoReconnect", "isConnected",
         "waitForConnectResult", "macAddress", "hostname", "hostname2", "subnetMask", "gatewayIP",
         "dnsIP", "SSID", "psk", "BSSIDstr", "RSSI"})
  \cup For({"SPIFFS", "WSS"}, {"begin"})
  \cup For({"WiFi", "MQTT", "WSC", "WSS"}, {"disconnect"})
  \cup For({"WiFi", "WiFiClient"}, {"localIP", "status"})

FileMethods ==
       For({"SPIFFS"}, {"open", "format", "exists", "remove", "rename", "readStringUntil", "close",
         "position", "size", "name", "seek", "openDir", "fileSize", "next", "openFile", "fileName",
         "info"})
  \cup For(Clients \cup {"SPIFFS", "WiFiUdp"}, {"read"})
  \cup For(Clients \cup {"SPIFFS"}, {"write"})

MqttAndHandlers ==
       For({"MQTT"}, {"subscribe", "unsubscribe", "publish", "publish2", "connect", "handlers",
         "setKeepAlive", "setClientId", "setCleanSession", "setMaxTopicLength", "setCredentials",
         "setCredentials2", "setWill", "setWill2", "setServer", "setServer2"})
  \cup For(Clients \cup {"MQTT"}, {"connected"})
  \cup For({"WiFi"}, {"handlers", "macAddress2", "BSSID", "beginWPSConfig", "beginSmartConfig",
         "stopSmartConfig", "smartConfigDone"})

EspMethods ==
  For({"ESP"}, {"reset", "restart", "wdtEnable", "wdtDisable", "wdtFeed", "deepSleep",
    "rtcUserMemoryRead", "rtcUserMemoryWrite", "getVcc", "getFreeHeap", "getChipId",
    "getBootVersion", "getBootMode", "getCpuFreqMHz", "getFlashChipId", "getSdkVersion",
    "getCoreVersion", "getFlashChipRealSize", "getFlashChipSize", "getFlashChipSpeed",
    "getFlashChipMode", "getFlashChipSizeByChipId", "magicFlashChipSize", "magicFlashChipSpeed",
    "magicFlashChipMode", "checkFlashConfig", "flashEraseSector", "getSketchSize", "getSketchMD5",
    "getFreeSketchSpace", "getResetReason", "getResetInfo", "eraseConfig", "getCycleCount"})

ClientAndWifiMethods ==
       For(Clients, {"connect", "connect2", "peekBytes"})
  \cup For(Clients \cup {"WiFiUdp"}, {"stop"})
  \cup For({"WiFiClient"}, {"getNoDelay", "setNoDelay", "setLocalPortStart", "availableForWrite"})
  \cup For({"WiFiClient", "WiFiUdp"}, {"remotePort", "localPort", "stopAll", "remoteIP"})
  \cup For({"WiFi"}, {"hostByName", "getPersistent", "channel", "setSleepMode", "getSleepMode",
         "setPhyMode", "getPhyMode", "setOutputPower", "persistent", "mode", "getMode",
         "enableSTA", "enableAP", "forceSleepBegin", "forceSleepWake"})

UdpAndScanMethods ==
       For({"WiFiUdp"}, {"endPacket", "destinationIP", "parsePacket", "beginPacket",
         "beginPacket2", "beginPacketMulticast", "beginMulticast"})
  \cup For({"WiFi"}, {"softAP", "softAP2", "softAPConfig", "softAPdisconnect",
         "softAPgetStationNum", "softAPIP", "softAPmacAddress", "softAPmacAddress2",
         "scanNetworks", "scanComplete", "scanDelete", "getNetworkInfo", "SSID2",
         "encryptionType", "RSSI2", "BSSID2", "BSSIDstr2", "channel2", "isHidden",
         "scanNetworksAsync"})
  \cup For({"EEPROM"}, {"read", "write", "commit"})
  \cup For({"WiFiMulti"}, {"addAP", "run"})

SocketMethods ==
       For({"WSC", "WSS"}, {"onEvent", "setAuthorization", "setAuthorization2", "sendPing",
         "sendBIN", "sendTXT"})
  \cup For({"WSC"}, {"begin", "beginSSL", "beginSocketIO", "beginSocketIOSSL",
         "setExtraHeaders", "setReconnectInterval"})
  \cup For({"WSS"}, {"broadcastTXT", "broadcastBIN", "broadcastPing", "remoteIP"})

SecureMethods ==
  For({"WiFiClientSecure"}, {"verify", "verifyCertChain", "setCACert", "setCertificate",
    "setPrivateKey", "allowSelfSignedCerts", "loadCACert", "loadCertificate", "loadPrivateKey"})

Documented ==
       StreamMethods \cup WifiMethods \cup FileMethods \cup MqttAndHandlers \cup EspMethods
  \cup ClientAndWifiMethods \cup UdpAndScanMethods \cup SocketMethods \cup SecureMethods
=============================================================================
