------------------------------ MODULE MCMFSNet ------------------------------
(***************************************************************************)
(* Instances of MFSNet for TLC.                                            *)
(***************************************************************************)
EXTENDS MFSNet

\* One request of each kind and for each inode number, except that only the
\* root is looked up in and nothing is created or removed outside it, and
\* that reads and writes are of one block.
Few ==
  {r \in Packets :
     /\ r.method \in {"stat", "read", "write"} => r.inum \in Inums
     /\ r.method \in {"lookup", "creat", "unlink"} => r.inum = 0
     /\ r.method \in {"read", "write"} => r.block = 1}
=============================================================================
