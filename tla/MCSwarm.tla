------------------------------- MODULE MCSwarm ------------------------------
(* Small instances of Swarm for TLC. *)
EXTENDS Swarm

CONSTANTS p1, x

OnePeer == {p1}
OnePayload == {x}
OneConn == {1}
TwoConns == {1, 2}
OneStream == {1}
TwoStreams == {1, 2}
=============================================================================
