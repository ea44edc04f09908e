----------------------------- MODULE MCBufCache -----------------------------
(***************************************************************************)
(* Instances of BufCache for TLC.                                          *)
(***************************************************************************)
EXTENDS BufCache
=============================================================================
