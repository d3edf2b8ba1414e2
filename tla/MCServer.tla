------------------------------ MODULE MCServer ------------------------------
(* A server process that accepts one or two connections in its life.        *)
EXTENDS Server

CONSTANTS c1, c2
=============================================================================
