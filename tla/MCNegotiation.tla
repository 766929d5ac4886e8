--------------------------- MODULE MCNegotiation ----------------------------
(* Small instances of Negotiation for TLC. *)
EXTENDS Negotiation

CONSTANTS a, b

TwoProtocols == {a, b}
=============================================================================
