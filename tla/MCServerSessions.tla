-------------------------- MODULE MCServerSessions --------------------------
(* Instances of ServerSessions for TLC. *)
EXTENDS ServerSessions, TLC

CONSTANTS c1, c2, c3

\* Every connection comes from an address of its own.
DistinctAddr == [c \in Conn |-> c]

Symmetry == Permutations(SessionId) \cup Permutations(Conn)
=============================================================================
