------------------------------- MODULE MCLFS -------------------------------
(***************************************************************************)
(* Instances of LFS and of its refinement for TLC.  Names and Data are     *)
(* sets of model values, which no definition treats differently.           *)
(***************************************************************************)
EXTENDS LFSRefinement, TLC

Symm == Permutations(Names) \cup Permutations(Data)
============================================================================
