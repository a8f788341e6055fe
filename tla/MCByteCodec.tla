---------------------------- MODULE MCByteCodec ----------------------------
(* Instances of ByteCodec for TLC. *)
EXTENDS ByteCodec

CONSTANTS empty, small, large, huge

\* An empty message, one of one byte, one that just fits and one that does not.
Sizes == (empty :> 0) @@ (small :> 1) @@ (large :> 3) @@ (huge :> 6)
=============================================================================
