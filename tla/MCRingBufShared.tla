--------------------------- MODULE MCRingBufShared ---------------------------
(* TLC instances of RingBufShared.                                          *)
EXTENDS RingBufShared
=============================================================================
