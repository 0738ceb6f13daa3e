---------------------------- MODULE LwipAddresses ----------------------------
(***************************************************************************)
(* The tests and constructors of lwip/ip4_addr.h and lwip/ip6_addr.h.      *)
(* The headers keep addresses in network order and turn each constant they *)
(* compare with by PP_HTONL; but for that macro itself both are numbers in *)
(* host order here, an IPv6 address four of them.  A mask that keeps the   *)
(* leading bits is a division by the power of two behind it.               *)
(***************************************************************************)
EXTENDS Integers, Sequences

IPADDR_NONE == 4294967295
IPADDR_BROADCAST == 4294967295
IPADDR_LOOPBACK == 2130706433
IPADDR_ANY == 0

Addr == {a \in Nat : a <= IPADDR_NONE}

\* The number of a byte order turned round, where the machine is little-endian.
PP_HTONS(x) == (x % 256) * 256 + ((x \div 256) % 256)
PP_HTONL(x) ==
    (x % 256) * 16777216 + ((x \div 256) % 256) * 65536
  + ((x \div 65536) % 256) * 256 + ((x \div 16777216) % 256)

\* Bytes are cut off above.
LWIP_MAKEU32(a, b, c, d) ==
  (a % 256) * 16777216 + (b % 256) * 65536 + (c % 256) * 256 + (d % 256)

IP4_ADDR(a, b, c, d) == LWIP_MAKEU32(a, b, c, d)

ip4_addr1(a) == a \div 16777216
ip4_addr2(a) == (a \div 65536) % 256
ip4_addr3(a) == (a \div 256) % 256
ip4_addr4(a) == a % 256

IP_CLASSA(a) == a \div 2147483648 = 0
IP_CLASSB(a) == a \div 1073741824 = 2
IP_CLASSC(a) == a \div 536870912 = 6
IP_CLASSD(a) == a \div 268435456 = 14
IP_MULTICAST(a) == IP_CLASSD(a)
IP_EXPERIMENTAL(a) == a \div 268435456 = 15
IP_BADCLASS(a) == a \div 268435456 = 15

ip4_addr_isany(a) == a = IPADDR_ANY
ip4_addr_isloopback(a) == a \div 16777216 = 127
ip4_addr_ismulticast(a) == a \div 268435456 = 14
ip4_addr_islinklocal(a) == a \div 65536 = 43518

\* A network mask that leaves room for hosts addresses, a power of two.
ip4_addr_get_network(host, hosts) == (host \div hosts) * hosts
ip4_addr_netcmp(a, b, hosts) == a \div hosts = b \div hosts

-----------------------------------------------------------------------------
Addr6 == [1 .. 4 -> Addr]

\* IP6_ADDR_BLOCK1 to IP6_ADDR_BLOCK8.
IP6_ADDR_BLOCK(a, n) == IF n % 2 = 1 THEN a[(n + 1) \div 2] \div 65536 ELSE a[n \div 2] % 65536

ip6_get_subnet_id(a) == a[3] % 65536

ip6_addr_netcmp(a, b) == a[1] = b[1] /\ a[2] = b[2]
ip6_addr_isany(a) == a[1] = 0 /\ a[2] = 0 /\ a[3] = 0 /\ a[4] = 0
ip6_addr_isloopback(a) == a[1] = 0 /\ a[2] = 0 /\ a[3] = 0 /\ a[4] = 1
ip6_addr_isipv4mappedipv6(a) == a[1] = 0 /\ a[2] = 0 /\ a[3] = 65535

ip6_addr_isglobal(a) == a[1] \div 536870912 = 1
ip6_addr_islinklocal(a) == a[1] \div 4194304 = 1018
ip6_addr_issitelocal(a) == a[1] \div 4194304 = 1019
ip6_addr_isuniquelocal(a) == a[1] \div 33554432 = 126

ip6_addr_ismulticast(a) == a[1] \div 16777216 = 255
ip6_addr_multicast_scope(a) == (a[1] \div 65536) % 16

ip6_addr_multicast_transient_flag(a) == (a[1] \div 1048576) % 2 = 1
ip6_addr_multicast_prefix_flag(a) == (a[1] \div 2097152) % 2 = 1
ip6_addr_multicast_rendezvous_flag(a) == (a[1] \div 4194304) % 2 = 1

\* The mask ff8f0000 also keeps the highest of the four flags, a reserved one.
Multicast(a, scope) ==
  /\ ip6_addr_ismulticast(a)
  /\ (a[1] \div 8388608) % 2 = 0
  /\ ip6_addr_multicast_scope(a) = scope

ip6_addr_ismulticast_iflocal(a) == Multicast(a, 1)
ip6_addr_ismulticast_linklocal(a) == Multicast(a, 2)
ip6_addr_ismulticast_adminlocal(a) == Multicast(a, 4)
ip6_addr_ismulticast_sitelocal(a) == Multicast(a, 5)
ip6_addr_ismulticast_orglocal(a) == Multicast(a, 8)
ip6_addr_ismulticast_global(a) == Multicast(a, 14)

FF02 == 4278321152        \* ff02:0000
FF000000 == 4278190080

ip6_addr_allnodes_iflocal == <<4278255616, 0, 0, 1>>
ip6_addr_allnodes_linklocal == <<FF02, 0, 0, 1>>
ip6_addr_allrouters_linklocal == <<FF02, 0, 0, 2>>

\* The last word has its first byte set to ff by an or.
WithFF(word) == FF000000 + (word % 16777216)

ip6_addr_set_solicitednode(if_id) == <<FF02, 0, 1, WithFF(if_id)>>

\* The second word is not looked at.
ip6_addr_issolicitednode(a) == a[1] = FF02 /\ a[3] = 1 /\ a[4] \div 16777216 = 255

ip6_addr_cmp_solicitednode(a, sn) == a = <<FF02, 0, 1, WithFF(sn[4])>>

-----------------------------------------------------------------------------
\* The states of an IPv6 address; while tentative they count the probes sent.
IP6_ADDR_INVALID == 0
IP6_ADDR_TENTATIVE == 8
IP6_ADDR_DEPRECATED == 16
IP6_ADDR_PREFERRED == 48
AddrState ==
  {IP6_ADDR_INVALID, IP6_ADDR_DEPRECATED, IP6_ADDR_PREFERRED} \cup (IP6_ADDR_TENTATIVE .. 15)

ip6_addr_isinvalid(s) == s = IP6_ADDR_INVALID
ip6_addr_istentative(s) == (s \div 8) % 2 = 1
ip6_addr_isvalid(s) == (s \div 16) % 2 = 1
ip6_addr_ispreferred(s) == s = IP6_ADDR_PREFERRED
ip6_addr_isdeprecated(s) == s = IP6_ADDR_DEPRECATED

-----------------------------------------------------------------------------
(* ip_addr.h with both versions: four words and a type.  An IPv4 address,  *)
(* or one of neither version, is in the first word; the others keep what   *)
(* they held.                                                              *)

IPADDR_TYPE_V4 == 0
IPADDR_TYPE_V6 == 6
IPADDR_TYPE_ANY == 46
IpAddr == [type : {IPADDR_TYPE_V4, IPADDR_TYPE_V6, IPADDR_TYPE_ANY}, word : Addr6]

IP_IS_V6(ip) == ip.type = IPADDR_TYPE_V6
IP_IS_V4(ip) == ip.type = IPADDR_TYPE_V4

IP_ADDR_PCB_VERSION_MATCH_EXACT(local_ip, ip) == local_ip.type = ip.type
IP_ADDR_PCB_VERSION_MATCH(local_ip, ip) ==
  local_ip.type = IPADDR_TYPE_ANY \/ IP_ADDR_PCB_VERSION_MATCH_EXACT(local_ip, ip)

SetV4(ip, addr) == [type |-> IPADDR_TYPE_V4, word |-> [ip.word EXCEPT ![1] = addr]]
SetV6(addr) == [type |-> IPADDR_TYPE_V6, word |-> addr]

ip_addr_copy(dest, src) ==
  IF IP_IS_V6(src) THEN src
  ELSE [type |-> src.type, word |-> [dest.word EXCEPT ![1] = src.word[1]]]
ip_addr_get_ip4_u32(ip) == IF IP_IS_V4(ip) THEN ip.word[1] ELSE 0
ip_addr_set_any(is_ipv6, ip) ==
  IF is_ipv6 THEN SetV6([i \in 1 .. 4 |-> 0]) ELSE SetV4(ip, IPADDR_ANY)
ip_addr_set_loopback(is_ipv6, ip) ==
  IF is_ipv6 THEN SetV6([i \in 1 .. 4 |-> IF i = 4 THEN 1 ELSE 0])
  ELSE SetV4(ip, IPADDR_LOOPBACK)

\* Of an IPv6 address only the first word becomes 0.
ip_addr_get_network(target, host, hosts) ==
  IF IP_IS_V6(host)
  THEN [type |-> IPADDR_TYPE_V6, word |-> [target.word EXCEPT ![1] = 0]]
  ELSE SetV4(target, ip4_addr_get_network(host.word[1], hosts))
ip_addr_netcmp(a, b, hosts) ==
  ~(IP_IS_V6(a) /\ IP_IS_V6(b)) /\ ip4_addr_netcmp(a.word[1], b.word[1], hosts)

ip_addr_cmp(a, b) ==
  a.type = b.type /\ IF IP_IS_V6(a) THEN a.word = b.word ELSE a.word[1] = b.word[1]
ip_addr_isany(ip) == IF IP_IS_V6(ip) THEN ip6_addr_isany(ip.word) ELSE ip4_addr_isany(ip.word[1])
ip_addr_ismulticast(ip) ==
  IF IP_IS_V6(ip) THEN ip6_addr_ismulticast(ip.word) ELSE ip4_addr_ismulticast(ip.word[1])
ip_addr_isloopback(ip) ==
  IF IP_IS_V6(ip) THEN ip6_addr_isloopback(ip.word) ELSE ip4_addr_isloopback(ip.word[1])
ip_addr_islinklocal(ip) ==
  IF IP_IS_V6(ip) THEN ip6_addr_islinklocal(ip.word) ELSE ip4_addr_islinklocal(ip.word[1])

ip4_2_ipv4_mapped_ipv6(addr) == <<0, 0, 65535, addr>>
unmap_ipv4_mapped_ipv6(a) == a[4]
=============================================================================
