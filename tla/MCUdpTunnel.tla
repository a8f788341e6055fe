---------------------------- MODULE MCUdpTunnel ----------------------------
(* Instances of UdpTunnel for TLC. *)
EXTENDS UdpTunnel, TLC

Symmetry == Permutations(SessionId) \cup Permutations(Client)
=============================================================================
