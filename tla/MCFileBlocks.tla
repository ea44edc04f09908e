---------------------------- MODULE MCFileBlocks ----------------------------
(***************************************************************************)
(* Instances of FileBlocks for TLC.                                        *)
(***************************************************************************)
EXTENDS FileBlocks, TLC

F(s) == [kind |-> "file", bytes |-> s]
D(s) == [kind |-> "dir", ents |-> s]

\* A file with an indirect block in a directory of three entries, and a root
\* that is full beside an empty directory.
Trees == {<<F(<<1, 0, 1>>)>>, <<D(<<>>), F(<<1>>)>>}
Texts == {<<1>>, <<0, 1, 1>>}
Symm  == Permutations(Procs)
=============================================================================
