---------------------------- MODULE MCIcmpProxy ----------------------------
(* Instances of IcmpProxy for TLC. *)
EXTENDS IcmpProxy, TLC

CONSTANTS k1, k2, t

\* Two programs that ping one target.
SameTarget == (k1 :> t) @@ (k2 :> t)
=============================================================================
