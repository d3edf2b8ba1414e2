---------------------------- MODULE MCTcpServer -----------------------------
(* A server that accepts two connections in its life.                       *)
EXTENDS TcpServer

CONSTANTS c1, c2
=============================================================================
