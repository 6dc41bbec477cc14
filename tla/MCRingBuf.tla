------------------------------ MODULE MCRingBuf ------------------------------
(* TLC instance of RingBuf: see MCRingBuf.cfg.                              *)
EXTENDS RingBuf
=============================================================================
