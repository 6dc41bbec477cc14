----------------------------- MODULE MCTcpClient -----------------------------
(* TcpClient with two AT+CCS and a buffer that four bytes overrun.       *)
EXTENDS TcpClient
=============================================================================
