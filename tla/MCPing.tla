------------------------------- MODULE MCPing -------------------------------
(* A small instance of Ping for TLC. *)
EXTENDS Ping

CONSTANTS p1, p2, x, y

TwoPeers == {p1, p2}
TwoPayloads == {x, y}
TwoStreams == {1, 2}
=============================================================================
