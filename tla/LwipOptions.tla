----------------------------- MODULE LwipOptions -----------------------------
(***************************************************************************)
(* lwip/opt.h gives every option of the network stack a standard value     *)
(* that lwipopts.h may replace; many standard values are computed from     *)
(* other options, and without IPv4 some are forced.  Here are the options  *)
(* and what follows from them, for any choice.  The preprocessor expands a *)
(* macro where it is used, so an option is a value that depends on the     *)
(* choices only and not on the order of the lines.  Names of threads,      *)
(* hooks and the functions a port provides are left out, and options that  *)
(* nothing here depends on are kept by section.                            *)
(***************************************************************************)
EXTENDS Integers

CONSTANT Chosen   \* what lwipopts.h defines: a function from names to values

Defined(o) == o \in DOMAIN Chosen

Opt(o, standard) == IF Defined(o) THEN Chosen[o] ELSE standard

\* A section of options, given with their standard values.
Section(standard) == [o \in DOMAIN standard |-> Opt(o, standard[o])]

\* The value of a C condition.
Bit(b) == IF b THEN 1 ELSE 0

LWIP_MIN(x, y) == IF x < y THEN x ELSE y
LWIP_MAX(x, y) == IF x > y THEN x ELSE y

-----------------------------------------------------------------------------
NO_SYS == Opt("NO_SYS", 0)

\* NO_SYS_NO_TIMERS is an older option, looked at only where it is defined.
LWIP_TIMERS ==
  Opt("LWIP_TIMERS", IF Defined("NO_SYS_NO_TIMERS")
                     THEN Bit(NO_SYS = 0 \/ Chosen["NO_SYS_NO_TIMERS"] = 0) ELSE 1)
LWIP_TIMERS_CUSTOM == Opt("LWIP_TIMERS_CUSTOM", 0)

LWIP_MPU_COMPATIBLE == Opt("LWIP_MPU_COMPATIBLE", 0)
LWIP_TCPIP_CORE_LOCKING == Opt("LWIP_TCPIP_CORE_LOCKING", 1)
LWIP_TCPIP_CORE_LOCKING_INPUT == Opt("LWIP_TCPIP_CORE_LOCKING_INPUT", 0)
SYS_LIGHTWEIGHT_PROT == Opt("SYS_LIGHTWEIGHT_PROT", 1)

MEM_LIBC_MALLOC == Opt("MEM_LIBC_MALLOC", 0)
MEMP_MEM_MALLOC == Opt("MEMP_MEM_MALLOC", 0)
MEM_ALIGNMENT == Opt("MEM_ALIGNMENT", 1)
MEM_USE_POOLS == Opt("MEM_USE_POOLS", 0)

Memory ==
  Section([MEM_SIZE |-> 1600, MEMP_OVERFLOW_CHECK |-> 0, MEMP_SANITY_CHECK |-> 0])
MallocPools ==
  Section([MEM_USE_POOLS_TRY_BIGGER_POOL |-> 0, MEMP_USE_CUSTOM_POOLS |-> 0,
           LWIP_ALLOW_MEM_FREE_FROM_OTHER_CONTEXT |-> 0])

-----------------------------------------------------------------------------
(* The protocols.  Without IPv4 its extensions are off, whatever lwipopts.h *)
(* says; ARP, which has no use then, is not.                                *)

LWIP_IPV4 == Opt("LWIP_IPV4", 1)
LWIP_IPV6 == Opt("LWIP_IPV6", 0)

NeedsIpv4(o, standard) == IF LWIP_IPV4 = 0 THEN 0 ELSE Opt(o, standard)

IP_FORWARD == NeedsIpv4("IP_FORWARD", 0)
IP_REASSEMBLY == NeedsIpv4("IP_REASSEMBLY", 1)
IP_FRAG == NeedsIpv4("IP_FRAG", 1)
LWIP_DHCP == NeedsIpv4("LWIP_DHCP", 0)
LWIP_AUTOIP == NeedsIpv4("LWIP_AUTOIP", 0)
LWIP_IGMP == NeedsIpv4("LWIP_IGMP", 0)

LWIP_ARP == Opt("LWIP_ARP", 1)
ARP_QUEUEING == Opt("ARP_QUEUEING", 0)
LWIP_ETHERNET == Opt("LWIP_ETHERNET", LWIP_ARP)
ETH_PAD_SIZE == Opt("ETH_PAD_SIZE", 0)

ArpTable == Section([ARP_TABLE_SIZE |-> 10, ARP_MAXAGE |-> 300])
ArpQueue == Section([ARP_QUEUE_LEN |-> 3, ETHARP_SUPPORT_VLAN |-> 0])
ArpEntries == Section([ETHARP_SUPPORT_STATIC_ENTRIES |-> 0, ETHARP_TABLE_MATCH_NETIF |-> 0])

IP_REASS_MAX_PBUFS == Opt("IP_REASS_MAX_PBUFS", 10)
IP_DEFAULT_TTL == Opt("IP_DEFAULT_TTL", 255)
Ip == Section([IP_OPTIONS_ALLOWED |-> 1, IP_REASS_MAXAGE |-> 3])
IpFilters ==
  Section([IP_SOF_BROADCAST |-> 0, IP_SOF_BROADCAST_RECV |-> 0,
           IP_FORWARD_ALLOW_TX_ON_RX_NETIF |-> 0, LWIP_RANDOMIZE_INITIAL_LOCAL_PORTS |-> 0])

Icmp ==
  Section([LWIP_ICMP |-> 1, ICMP_TTL |-> IP_DEFAULT_TTL, LWIP_BROADCAST_PING |-> 0,
           LWIP_MULTICAST_PING |-> 0])

LWIP_RAW == Opt("LWIP_RAW", 0)
RAW_TTL == Opt("RAW_TTL", IP_DEFAULT_TTL)

DNS_MAX_SERVERS == Opt("DNS_MAX_SERVERS", 2)

Dhcp ==
  Section([DHCP_DOES_ARP_CHECK |-> Bit(LWIP_DHCP # 0 /\ LWIP_ARP # 0),
           LWIP_DHCP_CHECK_LINK_UP |-> 0, LWIP_DHCP_BOOTP_FILE |-> 0,
           LWIP_DHCP_GET_NTP_SRV |-> 0, LWIP_DHCP_MAX_NTP_SERVERS |-> 1,
           LWIP_DHCP_MAX_DNS_SERVERS |-> DNS_MAX_SERVERS])
AutoIp == Section([LWIP_DHCP_AUTOIP_COOP |-> 0, LWIP_DHCP_AUTOIP_COOP_TRIES |-> 9])
Mib2 == Section([LWIP_MIB2_CALLBACKS |-> 0])

LWIP_DNS == Opt("LWIP_DNS", 0)
DNS_LOCAL_HOSTLIST == Opt("DNS_LOCAL_HOSTLIST", 0)
DNS_LOCAL_HOSTLIST_IS_DYNAMIC == Opt("DNS_LOCAL_HOSTLIST_IS_DYNAMIC", 0)
DnsTable == Section([DNS_TABLE_SIZE |-> 4, DNS_MAX_NAME_LENGTH |-> 256])

\* LWIP_DNS_SECURE is the sum of the three features, 1, 2 and 4.
DnsChecks == Section([DNS_DOES_NAME_CHECK |-> 1, LWIP_DNS_SECURE |-> 7])
DnsMulticast == Section([LWIP_DNS_SUPPORT_MDNS_QUERIES |-> 0])

LWIP_UDP == Opt("LWIP_UDP", 1)
LWIP_MULTICAST_TX_OPTIONS ==
  Opt("LWIP_MULTICAST_TX_OPTIONS", Bit(LWIP_IGMP # 0 /\ LWIP_UDP # 0))
Udp == Section([LWIP_UDPLITE |-> 0, UDP_TTL |-> IP_DEFAULT_TTL, LWIP_NETBUF_RECVINFO |-> 0])

-----------------------------------------------------------------------------
LWIP_TCP == Opt("LWIP_TCP", 1)
TCP_TTL == Opt("TCP_TTL", IP_DEFAULT_TTL)

TCP_MSS == Opt("TCP_MSS", 536)
TCP_WND == Opt("TCP_WND", 4 * TCP_MSS)
TCP_SND_BUF == Opt("TCP_SND_BUF", 2 * TCP_MSS)
TCP_SND_QUEUELEN == Opt("TCP_SND_QUEUELEN", (4 * TCP_SND_BUF + (TCP_MSS - 1)) \div TCP_MSS)
TCP_SNDLOWAT ==
  Opt("TCP_SNDLOWAT",
      LWIP_MIN(LWIP_MAX(TCP_SND_BUF \div 2, 2 * TCP_MSS + 1), TCP_SND_BUF - 1))
TCP_SNDQUEUELOWAT == Opt("TCP_SNDQUEUELOWAT", LWIP_MAX(TCP_SND_QUEUELEN \div 2, 5))
TCP_OVERSIZE == Opt("TCP_OVERSIZE", TCP_MSS)
TCP_WND_UPDATE_THRESHOLD ==
  Opt("TCP_WND_UPDATE_THRESHOLD", LWIP_MIN(TCP_WND \div 4, TCP_MSS * 4))
LWIP_TCP_TIMESTAMPS == Opt("LWIP_TCP_TIMESTAMPS", 0)

TcpRetries == Section([TCP_MAXRTX |-> 12, TCP_SYNMAXRTX |-> 6, TCP_QUEUE_OOSEQ |-> LWIP_TCP])
TcpSendMss == Section([TCP_CALCULATE_EFF_SEND_MSS |-> 1])
TcpQueues ==
  Section([TCP_OOSEQ_MAX_BYTES |-> 0, TCP_OOSEQ_MAX_PBUFS |-> 0, TCP_LISTEN_BACKLOG |-> 0,
           TCP_DEFAULT_LISTEN_BACKLOG |-> 255])

\* Callbacks are the standard; who chooses either of the two must choose both.
CallbackByDefault == Bit(~Defined("LWIP_EVENT_API") /\ ~Defined("LWIP_CALLBACK_API"))
LWIP_EVENT_API == Opt("LWIP_EVENT_API", 0)
LWIP_CALLBACK_API == Opt("LWIP_CALLBACK_API", CallbackByDefault)

\* TCP_RCV_SCALE has a value of its own only where scaling is chosen.
LWIP_WND_SCALE == Opt("LWIP_WND_SCALE", 0)
TCP_RCV_SCALE == IF Defined("LWIP_WND_SCALE") THEN Chosen["TCP_RCV_SCALE"] ELSE 0

-----------------------------------------------------------------------------
\* The next multiple of MEM_ALIGNMENT, which is a power of two.
LWIP_MEM_ALIGN_SIZE(size) == ((size + MEM_ALIGNMENT - 1) \div MEM_ALIGNMENT) * MEM_ALIGNMENT

PBUF_LINK_HLEN ==
  Opt("PBUF_LINK_HLEN", (IF Defined("LWIP_HOOK_VLAN_SET") THEN 18 ELSE 14) + ETH_PAD_SIZE)
PBUF_LINK_ENCAPSULATION_HLEN == Opt("PBUF_LINK_ENCAPSULATION_HLEN", 0)
PBUF_POOL_BUFSIZE ==
  Opt("PBUF_POOL_BUFSIZE",
      LWIP_MEM_ALIGN_SIZE(TCP_MSS + 40 + PBUF_LINK_ENCAPSULATION_HLEN + PBUF_LINK_HLEN))

-----------------------------------------------------------------------------
LWIP_NETIF_API == Opt("LWIP_NETIF_API", 0)
LWIP_NETIF_TX_SINGLE_PBUF == Opt("LWIP_NETIF_TX_SINGLE_PBUF", 0)
LWIP_NETIF_LOOPBACK == Opt("LWIP_NETIF_LOOPBACK", 0)

NetifName == Section([LWIP_NETIF_HOSTNAME |-> 0])
Netif ==
  Section([LWIP_NETIF_STATUS_CALLBACK |-> 0, LWIP_NETIF_LINK_CALLBACK |-> 0,
           LWIP_NETIF_REMOVE_CALLBACK |-> 0, LWIP_NETIF_HWADDRHINT |-> 0])
NetifData == Section([LWIP_NUM_NETIF_CLIENT_DATA |-> 0])

LoopInterface == Section([LWIP_HAVE_LOOPIF |-> LWIP_NETIF_LOOPBACK, LWIP_LOOPIF_MULTICAST |-> 0])
Loopback ==
  Section([LWIP_LOOPBACK_MAX_PBUFS |-> 0,
           LWIP_NETIF_LOOPBACK_MULTITHREADING |-> Bit(NO_SYS = 0)])

TcpipThread ==
  Section([TCPIP_THREAD_STACKSIZE |-> 0, TCPIP_THREAD_PRIO |-> 1, TCPIP_MBOX_SIZE |-> 0])
SlipThread == Section([SLIPIF_THREAD_STACKSIZE |-> 0, SLIPIF_THREAD_PRIO |-> 1])
OtherThreads ==
  Section([DEFAULT_THREAD_STACKSIZE |-> 0, DEFAULT_THREAD_PRIO |-> 1,
           DEFAULT_RAW_RECVMBOX_SIZE |-> 0, DEFAULT_UDP_RECVMBOX_SIZE |-> 0,
           DEFAULT_TCP_RECVMBOX_SIZE |-> 0, DEFAULT_ACCEPTMBOX_SIZE |-> 0])

LWIP_NETCONN == Opt("LWIP_NETCONN", 1)
LWIP_NETCONN_SEM_PER_THREAD == Opt("LWIP_NETCONN_SEM_PER_THREAD", 0)
Netconn == Section([LWIP_TCPIP_TIMEOUT |-> 0, LWIP_NETCONN_FULLDUPLEX |-> 0])

LWIP_SOCKET == Opt("LWIP_SOCKET", 1)
INT_MAX == 2147483647
Sockets ==
  Section([LWIP_SOCKET_SET_ERRNO |-> 1, LWIP_COMPAT_SOCKETS |-> 1,
           LWIP_POSIX_SOCKETS_IO_NAMES |-> 1, LWIP_SOCKET_OFFSET |-> 0, LWIP_TCP_KEEPALIVE |-> 0,
           LWIP_SO_SNDTIMEO |-> 0, LWIP_SO_RCVTIMEO |-> 0, LWIP_SO_SNDRCVTIMEO_NONSTANDARD |-> 0,
           LWIP_SO_RCVBUF |-> 0, LWIP_SO_LINGER |-> 0, RECV_BUFSIZE_DEFAULT |-> INT_MAX,
           LWIP_TCP_CLOSE_TIMEOUT_MS_DEFAULT |-> 20000, SO_REUSE |-> 0, SO_REUSE_RXTOALL |-> 0,
           LWIP_FIONREAD_LINUXMODE |-> 0])

-----------------------------------------------------------------------------
LWIP_IPV6_FRAG == Opt("LWIP_IPV6_FRAG", 0)
LWIP_IPV6_REASS == Opt("LWIP_IPV6_REASS", LWIP_IPV6)
LWIP_ICMP6 == Opt("LWIP_ICMP6", LWIP_IPV6)
LWIP_IPV6_MLD == Opt("LWIP_IPV6_MLD", LWIP_IPV6)
LWIP_ND6_QUEUEING == Opt("LWIP_ND6_QUEUEING", LWIP_IPV6)

Ipv6 == Section([LWIP_IPV6_NUM_ADDRESSES |-> 3, LWIP_IPV6_FORWARD |-> 0])
Ipv6Start ==
  Section([LWIP_IPV6_SEND_ROUTER_SOLICIT |-> 1, LWIP_IPV6_AUTOCONFIG |-> LWIP_IPV6,
           LWIP_IPV6_DUP_DETECT_ATTEMPTS |-> 1])
Icmp6 == Section([LWIP_ICMP6_DATASIZE |-> 8, LWIP_ICMP6_HL |-> 255])
Nd6 ==
  Section([LWIP_ND6_NUM_NEIGHBORS |-> 10, LWIP_ND6_NUM_DESTINATIONS |-> 10,
           LWIP_ND6_NUM_PREFIXES |-> 5, LWIP_ND6_NUM_ROUTERS |-> 3,
           LWIP_ND6_MAX_MULTICAST_SOLICIT |-> 3, LWIP_ND6_MAX_UNICAST_SOLICIT |-> 3,
           LWIP_ND6_MAX_ANYCAST_DELAY_TIME |-> 1000, LWIP_ND6_MAX_NEIGHBOR_ADVERTISEMENT |-> 3,
           LWIP_ND6_REACHABLE_TIME |-> 30000, LWIP_ND6_RETRANS_TIMER |-> 1000,
           LWIP_ND6_DELAY_FIRST_PROBE_TIME |-> 5000, LWIP_ND6_ALLOW_RA_UPDATES |-> 1,
           LWIP_ND6_TCP_REACHABILITY_HINTS |-> 1, LWIP_ND6_RDNSS_MAX_DNS_SERVERS |-> 0])
Dhcp6 == Section([LWIP_IPV6_DHCP6 |-> 0])

Checksums ==
  Section([LWIP_CHECKSUM_CTRL_PER_NETIF |-> 0, CHECKSUM_GEN_IP |-> 1, CHECKSUM_GEN_UDP |-> 1,
           CHECKSUM_GEN_TCP |-> 1, CHECKSUM_GEN_ICMP |-> 1, CHECKSUM_GEN_ICMP6 |-> 1,
           CHECKSUM_CHECK_IP |-> 1, CHECKSUM_CHECK_UDP |-> 1, CHECKSUM_CHECK_TCP |-> 1,
           CHECKSUM_CHECK_ICMP |-> 1, CHECKSUM_CHECK_ICMP6 |-> 1, LWIP_CHECKSUM_ON_COPY |-> 0])

-----------------------------------------------------------------------------
(* The statistics kept; without LWIP_STATS none of them, whatever lwipopts.h *)
(* says (#define of a macro already defined: the last one stands).           *)

LWIP_STATS == Opt("LWIP_STATS", 1)

StatsWanted ==
  Section([LWIP_STATS_DISPLAY |-> 0, LINK_STATS |-> 1, ETHARP_STATS |-> LWIP_ARP, IP_STATS |-> 1,
           IPFRAG_STATS |-> Bit(IP_REASSEMBLY # 0 \/ IP_FRAG # 0), ICMP_STATS |-> 1,
           IGMP_STATS |-> LWIP_IGMP, UDP_STATS |-> LWIP_UDP, TCP_STATS |-> LWIP_TCP,
           MEM_STATS |-> Bit(MEM_LIBC_MALLOC = 0 /\ MEM_USE_POOLS = 0),
           MEMP_STATS |-> Bit(MEMP_MEM_MALLOC = 0), SYS_STATS |-> Bit(NO_SYS = 0),
           IP6_STATS |-> LWIP_IPV6, ICMP6_STATS |-> Bit(LWIP_IPV6 # 0 /\ LWIP_ICMP6 # 0),
           IP6_FRAG_STATS |->
             Bit(LWIP_IPV6 # 0 /\ (LWIP_IPV6_FRAG # 0 \/ LWIP_IPV6_REASS # 0)),
           MLD6_STATS |-> Bit(LWIP_IPV6 # 0 /\ LWIP_IPV6_MLD # 0), ND6_STATS |-> LWIP_IPV6,
           MIB2_STATS |-> 0])

Stats == [o \in DOMAIN StatsWanted |-> IF LWIP_STATS = 0 THEN 0 ELSE StatsWanted[o]]

\* struct stats_, by the options that give it its members.
Counters == {o \in DOMAIN Stats : Stats[o] # 0} \ {"LWIP_STATS_DISPLAY"}

-----------------------------------------------------------------------------
(* Debug messages.  A message goes by a number: its type in single bits,    *)
(* its level in the two lowest.                                             *)

LWIP_DBG_OFF == 0
LWIP_DBG_ON == 128

LWIP_DBG_MIN_LEVEL == Opt("LWIP_DBG_MIN_LEVEL", 0)
LWIP_DBG_TYPES_ON == Opt("LWIP_DBG_TYPES_ON", LWIP_DBG_ON)

DebugModules ==
  {"ETHARP_DEBUG", "NETIF_DEBUG", "PBUF_DEBUG", "API_LIB_DEBUG", "API_MSG_DEBUG", "SOCKETS_DEBUG",
   "ICMP_DEBUG", "IGMP_DEBUG", "INET_DEBUG", "IP_DEBUG", "IP_REASS_DEBUG", "RAW_DEBUG",
   "MEM_DEBUG", "MEMP_DEBUG", "SYS_DEBUG", "TIMERS_DEBUG"}
DebugProtocols ==
  {"TCP_DEBUG", "TCP_INPUT_DEBUG", "TCP_FR_DEBUG", "TCP_RTO_DEBUG", "TCP_CWND_DEBUG",
   "TCP_WND_DEBUG", "TCP_OUTPUT_DEBUG", "TCP_RST_DEBUG", "TCP_QLEN_DEBUG", "UDP_DEBUG",
   "TCPIP_DEBUG", "SLIP_DEBUG", "DHCP_DEBUG", "AUTOIP_DEBUG", "DNS_DEBUG", "IP6_DEBUG"}
Debug == [o \in DebugModules \cup DebugProtocols |-> Opt(o, LWIP_DBG_OFF)]

Bits(d) == {b \in {1, 2, 4, 8, 16, 32, 64, 128} : (d \div b) % 2 = 1}

\* LWIP_DEBUGF
Prints(d) ==
  /\ Defined("LWIP_DEBUG")
  /\ LWIP_DBG_ON \in Bits(d)
  /\ Bits(d) \cap Bits(LWIP_DBG_TYPES_ON) # {}
  /\ d % 4 >= LWIP_DBG_MIN_LEVEL

Performance == Section([LWIP_PERF |-> 0])

-----------------------------------------------------------------------------
(* The sizes of the memory pools.                                          *)

\* Each module that keeps a timer running wants one, DHCP two.  PPP_SUPPORT and
\* MEMP_NUM_PPP_PCB are options of another file.
TimersWanted ==
  LWIP_TCP + IP_REASSEMBLY + LWIP_ARP + 2 * LWIP_DHCP + LWIP_AUTOIP + LWIP_IGMP + LWIP_DNS
  + Opt("PPP_SUPPORT", 0) * 6 * Opt("MEMP_NUM_PPP_PCB", 0)
  + (IF LWIP_IPV6 # 0 THEN 1 + LWIP_IPV6_REASS + LWIP_IPV6_MLD ELSE 0)
MEMP_NUM_SYS_TIMEOUT == Opt("MEMP_NUM_SYS_TIMEOUT", TimersWanted)

MEMP_NUM_TCP_SEG == Opt("MEMP_NUM_TCP_SEG", 16)
PBUF_POOL_SIZE == Opt("PBUF_POOL_SIZE", 16)

ControlBlocks ==
  Section([MEMP_NUM_PBUF |-> 16, MEMP_NUM_RAW_PCB |-> 4, MEMP_NUM_UDP_PCB |-> 4,
           MEMP_NUM_TCP_PCB |-> 5, MEMP_NUM_TCP_PCB_LISTEN |-> 8])
Queues ==
  Section([MEMP_NUM_REASSDATA |-> 5, MEMP_NUM_FRAG_PBUF |-> 15, MEMP_NUM_ARP_QUEUE |-> 30,
           MEMP_NUM_IGMP_GROUP |-> 8])
MEMP_NUM_TCPIP_MSG_API == Opt("MEMP_NUM_TCPIP_MSG_API", 8)
Connections == Section([MEMP_NUM_NETBUF |-> 2, MEMP_NUM_NETCONN |-> 4])
Lookups ==
  Section([MEMP_NUM_TCPIP_MSG_INPKT |-> 8, MEMP_NUM_NETDB |-> 1, MEMP_NUM_LOCALHOSTLIST |-> 1])
Messages ==
  Section([MEMP_NUM_API_MSG |-> MEMP_NUM_TCPIP_MSG_API,
           MEMP_NUM_DNS_API_MSG |-> MEMP_NUM_TCPIP_MSG_API,
           MEMP_NUM_SOCKET_SETGETSOCKOPT_DATA |-> MEMP_NUM_TCPIP_MSG_API,
           MEMP_NUM_NETIFAPI_MSG |-> MEMP_NUM_TCPIP_MSG_API])
Ipv6Groups == Section([MEMP_NUM_MLD6_GROUP |-> 4])
Ipv6Queue == Section([MEMP_NUM_ND6_QUEUE |-> 20])

\* memp_std.h: the pools there are, each with its number of elements.
Pool(name, there, size) == IF there THEN {<<name, size>>} ELSE {}

ProtocolPools ==
       Pool("RAW_PCB", LWIP_RAW # 0, ControlBlocks.MEMP_NUM_RAW_PCB)
  \cup Pool("UDP_PCB", LWIP_UDP # 0, ControlBlocks.MEMP_NUM_UDP_PCB)
  \cup Pool("TCP_PCB", LWIP_TCP # 0, ControlBlocks.MEMP_NUM_TCP_PCB)
  \cup Pool("TCP_PCB_LISTEN", LWIP_TCP # 0, ControlBlocks.MEMP_NUM_TCP_PCB_LISTEN)
  \cup Pool("TCP_SEG", LWIP_TCP # 0, MEMP_NUM_TCP_SEG)
  \cup Pool("REASSDATA", LWIP_IPV4 # 0 /\ IP_REASSEMBLY # 0, Queues.MEMP_NUM_REASSDATA)
  \cup Pool("FRAG_PBUF", \/ IP_FRAG # 0 /\ LWIP_NETIF_TX_SINGLE_PBUF = 0
                         \/ LWIP_IPV6 # 0 /\ LWIP_IPV6_FRAG # 0, Queues.MEMP_NUM_FRAG_PBUF)

ApiPools ==
       Pool("NETBUF", LWIP_NETCONN # 0 \/ LWIP_SOCKET # 0, Connections.MEMP_NUM_NETBUF)
  \cup Pool("NETCONN", LWIP_NETCONN # 0 \/ LWIP_SOCKET # 0, Connections.MEMP_NUM_NETCONN)
  \cup Pool("TCPIP_MSG_API", NO_SYS = 0, MEMP_NUM_TCPIP_MSG_API)
  \cup Pool("API_MSG", NO_SYS = 0 /\ LWIP_MPU_COMPATIBLE # 0, Messages.MEMP_NUM_API_MSG)
  \cup Pool("DNS_API_MSG", NO_SYS = 0 /\ LWIP_MPU_COMPATIBLE # 0 /\ LWIP_DNS # 0,
            Messages.MEMP_NUM_DNS_API_MSG)
  \cup Pool("SOCKET_SETGETSOCKOPT_DATA",
            /\ NO_SYS = 0 /\ LWIP_MPU_COMPATIBLE # 0
            /\ LWIP_SOCKET # 0 /\ LWIP_TCPIP_CORE_LOCKING = 0,
            Messages.MEMP_NUM_SOCKET_SETGETSOCKOPT_DATA)
  \cup Pool("NETIFAPI_MSG", NO_SYS = 0 /\ LWIP_MPU_COMPATIBLE # 0 /\ LWIP_NETIF_API # 0,
            Messages.MEMP_NUM_NETIFAPI_MSG)
  \cup Pool("TCPIP_MSG_INPKT", NO_SYS = 0 /\ LWIP_TCPIP_CORE_LOCKING_INPUT = 0,
            Lookups.MEMP_NUM_TCPIP_MSG_INPKT)

OtherPools ==
       Pool("ARP_QUEUE", LWIP_IPV4 # 0 /\ LWIP_ARP # 0 /\ ARP_QUEUEING # 0,
            Queues.MEMP_NUM_ARP_QUEUE)
  \cup Pool("IGMP_GROUP", LWIP_IGMP # 0, Queues.MEMP_NUM_IGMP_GROUP)
  \cup Pool("SYS_TIMEOUT", LWIP_TIMERS # 0 /\ LWIP_TIMERS_CUSTOM = 0, MEMP_NUM_SYS_TIMEOUT)
  \cup Pool("NETDB", LWIP_DNS # 0 /\ LWIP_SOCKET # 0, Lookups.MEMP_NUM_NETDB)
  \cup Pool("LOCALHOSTLIST",
            LWIP_DNS # 0 /\ DNS_LOCAL_HOSTLIST # 0 /\ DNS_LOCAL_HOSTLIST_IS_DYNAMIC # 0,
            Lookups.MEMP_NUM_LOCALHOSTLIST)
  \cup Pool("ND6_QUEUE", LWIP_IPV6 # 0 /\ LWIP_ND6_QUEUEING # 0, Ipv6Queue.MEMP_NUM_ND6_QUEUE)
  \cup Pool("IP6_REASSDATA", LWIP_IPV6 # 0 /\ LWIP_IPV6_REASS # 0, Queues.MEMP_NUM_REASSDATA)
  \cup Pool("MLD6_GROUP", LWIP_IPV6 # 0 /\ LWIP_IPV6_MLD # 0, Ipv6Groups.MEMP_NUM_MLD6_GROUP)

PbufPools == {<<"PBUF", ControlBlocks.MEMP_NUM_PBUF>>, <<"PBUF_POOL", PBUF_POOL_SIZE>>}

Pools == ProtocolPools \cup ApiPools \cup OtherPools \cup PbufPools
=============================================================================
