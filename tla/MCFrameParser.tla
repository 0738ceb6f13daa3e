---------------------------- MODULE MCFrameParser ----------------------------
(* Bytes of two bits, '$' and '!' among them: lengths, payloads, checksums and *)
(* replies all contain bytes that look like the start of something else.       *)
EXTENDS FrameParser

MCXor(a, b) == (a + b - 2 * ((a % 2) * (b % 2))) - 4 * ((a \div 2) * (b \div 2))

MCPayload == {<<1>>, <<2>>, <<2, 3>>}
MCReply == {<<1, 0, 2, 3>>}
=============================================================================
