---------------------------- MODULE MCCallTiming ----------------------------
(* Ticks of 500 ms, the unit of every limit in the library.  The clock starts *)
(* at 0 and a few ticks before it wraps; latencies go up to 65535 ms.         *)
EXTENDS CallTiming

\* One command for each pair of limits that occurs.
OneOf(S) == CHOOSE c \in S : TRUE
Representatives(S) ==
  {OneOf({c \in S : c.loop = p[1] /\ c.post = p[2]}) : p \in {<<c.loop, c.post>> : c \in S}}

EvenWaits == Representatives({c \in Waiting : c.loop = c.post})
UnevenWaits == Representatives({c \in Waiting : c.loop # c.post})

MCLatencies == {0, 1, 5, 131}
MCStart == {0, 508}
=============================================================================
