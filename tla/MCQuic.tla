------------------------------- MODULE MCQuic -------------------------------
(* Instances of Quic for TLC. *)
EXTENDS Quic

\* Peers are only compared.
PeerSymmetry == Permutations(Peers)
=============================================================================
