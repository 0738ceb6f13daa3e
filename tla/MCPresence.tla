------------------------------ MODULE MCPresence ------------------------------
(* Two handlers of one mask; the detect handler registers the first, the sketch *)
(* registers either wherever it likes.                                          *)
EXTENDS Presence

CONSTANTS h1, h2

MCRegisters == << h1 >>
=============================================================================
