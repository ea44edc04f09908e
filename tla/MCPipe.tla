------------------------------- MODULE MCPipe -------------------------------
(***************************************************************************)
(* Instances of Pipe for TLC.  pipe.c never looks at the bytes, so a write *)
(* of one byte and one longer than the ring, with an order that can be     *)
(* told from its reverse, stand for all.                                   *)
(***************************************************************************)
EXTENDS Pipe

ShortAndLong == {<<1>>, <<0, 1, 1>>}
=============================================================================
