------------------------------ MODULE MCInodes ------------------------------
(***************************************************************************)
(* Instances of Inodes for TLC.                                            *)
(***************************************************************************)
EXTENDS Inodes, TLC

Symm == Permutations(Procs)

\* Down into a directory, down and up again, and back to the root.  A path
\* that goes up from the working directory is left out: see the README.
Down == {<<"a">>, <<"a", "..">>, <<"/">>}
\* The root and two names in it.
TwoNames == {<<"a">>, <<"b">>, <<"/">>}
=============================================================================
