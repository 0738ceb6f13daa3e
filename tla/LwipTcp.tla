------------------------------- MODULE LwipTcp -------------------------------
(***************************************************************************)
(* What lwip/priv/tcp_priv.h computes: the order of sequence numbers, when *)
(* Nagle's algorithm lets data go, when an acknowledgement does, the       *)
(* header options, the largest window, whom an event is reported to, and   *)
(* the lists of connections (pcbs).                                        *)
(***************************************************************************)
EXTENDS LwipOptions, Sequences

Word == 4294967296    \* values of a u32_t
HalfWord == 2147483648

SeqNo == {n \in Nat : n < Word}

\* The difference as an s32_t.
Ahead(a, b) ==
  IF (a - b) % Word < HalfWord THEN (a - b) % Word ELSE ((a - b) % Word) - Word

TCP_SEQ_LT(a, b) == Ahead(a, b) < 0
TCP_SEQ_LEQ(a, b) == Ahead(a, b) <= 0
TCP_SEQ_GT(a, b) == Ahead(a, b) > 0
TCP_SEQ_GEQ(a, b) == Ahead(a, b) >= 0

\* b <= a <= c, and the form that lies under #if 0.
TCP_SEQ_BETWEEN(a, b, c) == TCP_SEQ_GEQ(a, b) /\ TCP_SEQ_LEQ(a, c)
BetweenByDistance(a, b, c) == (c - b) % Word >= (a - b) % Word

-----------------------------------------------------------------------------
\* Of a connection pcb: how many segments are unacknowledged and unsent, the
\* length of the first unsent one, the room in the send buffer, its pbufs, the
\* segment size, and whether TF_NODELAY or TF_INFR is set.
tcp_do_output_nagle(pcb) ==
  \/ pcb.unacked = 0
  \/ pcb.nodelay
  \/ pcb.unsent > 1
  \/ pcb.unsent = 1 /\ pcb.len >= pcb.mss
  \/ pcb.snd_buf = 0
  \/ pcb.snd_queuelen >= TCP_SND_QUEUELEN

-----------------------------------------------------------------------------
LWIP_TCP_OPT_LEN_MSS == 4
LWIP_TCP_OPT_LEN_TS_OUT == IF LWIP_TCP_TIMESTAMPS # 0 THEN 12 ELSE 0
LWIP_TCP_OPT_LEN_WS_OUT == IF LWIP_WND_SCALE # 0 THEN 4 ELSE 0

\* flags are those of a segment, without their prefix TF_SEG_OPTS_.
LWIP_TCP_OPT_LENGTH(flags) ==
    (IF "MSS" \in flags THEN LWIP_TCP_OPT_LEN_MSS ELSE 0)
  + (IF "TS" \in flags THEN LWIP_TCP_OPT_LEN_TS_OUT ELSE 0)
  + (IF "WND_SCALE" \in flags THEN LWIP_TCP_OPT_LEN_WS_OUT ELSE 0)

TCPWND_MAX == IF LWIP_WND_SCALE # 0 THEN Word - 1 ELSE 65535
TCPWND16(x) == IF LWIP_WND_SCALE # 0 THEN LWIP_MIN(x, 65535) ELSE x
TCP_WND_MAX(scaled) == IF LWIP_WND_SCALE # 0 /\ ~scaled THEN TCPWND16(TCP_WND) ELSE TCP_WND

-----------------------------------------------------------------------------
(* Intervals in milliseconds. *)

TCP_TMR_INTERVAL == Opt("TCP_TMR_INTERVAL", 250)
Intervals ==
  Section([TCP_FAST_INTERVAL |-> TCP_TMR_INTERVAL, TCP_SLOW_INTERVAL |-> 2 * TCP_TMR_INTERVAL,
           TCP_MSL |-> 60000, TCP_KEEPIDLE_DEFAULT |-> 7200000, TCP_KEEPINTVL_DEFAULT |-> 75000,
           TCP_KEEPCNT_DEFAULT |-> 9])
TCP_MAXIDLE == Intervals.TCP_KEEPCNT_DEFAULT * Intervals.TCP_KEEPINTVL_DEFAULT

\* The sequence numbers a segment takes: its SYN or FIN takes one.
TCP_TCPLEN(seg) == seg.len + Bit({"TCP_FIN", "TCP_SYN"} \cap seg.flags # {})

-----------------------------------------------------------------------------
\* The flags of a pcb after data came in: every second time acknowledge now.
tcp_ack(flags) ==
  IF "TF_ACK_DELAY" \in flags THEN (flags \ {"TF_ACK_DELAY"}) \cup {"TF_ACK_NOW"}
  ELSE flags \cup {"TF_ACK_DELAY"}

tcp_ack_now(flags) == flags \cup {"TF_ACK_NOW"}

-----------------------------------------------------------------------------
\* What a TCP_EVENT_ macro calls, of a pcb in state (for ERR its last one) that
\* has a callback for the event or not.
Events == {"ACCEPT", "SENT", "RECV", "CLOSED", "CONNECTED", "POLL", "ERR"}

Called(event, state, callback) ==
  IF LWIP_EVENT_API # 0
  THEN IF event \in {"POLL", "ERR"} /\ state = "SYN_RCVD" THEN "nothing" ELSE "lwip_tcp_event"
  ELSE IF callback THEN "callback"
  ELSE IF event = "RECV" THEN "tcp_recv_null" ELSE "nothing"

\* The result where nothing is called; ERR has none.
ResultUncalled(event) ==
  IF event = (IF LWIP_EVENT_API # 0 THEN "POLL" ELSE "ACCEPT") THEN "ERR_ARG" ELSE "ERR_OK"

-----------------------------------------------------------------------------
\* A list of pcbs, its head first.
TCP_REG(pcbs, npcb) == <<npcb>> \o pcbs

\* The pcb before npcb, or the head, gets its successor.
TCP_RMV(pcbs, npcb) ==
  IF \E i \in 1 .. Len(pcbs) : pcbs[i] = npcb
  THEN LET i == CHOOSE i \in 1 .. Len(pcbs) :
                  pcbs[i] = npcb /\ \A j \in 1 .. i - 1 : pcbs[j] # npcb
       IN  SubSeq(pcbs, 1, i - 1) \o SubSeq(pcbs, i + 1, Len(pcbs))
  ELSE pcbs
=============================================================================
