------------------------------ MODULE MCFlows -------------------------------
(* Small instances of Flows for TLC. *)
EXTENDS Flows

CONSTANTS p, q, a, b, bad

TwoPeers == {p, q}
ThreeAddrs == {a, b, bad}
BadAddrs == {bad}
=============================================================================
