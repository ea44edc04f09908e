--------------------------- MODULE LFSRefinement ---------------------------
(***************************************************************************)
(* The file service a client sees through the log of lfs.c: the refinement *)
(* mapping from the image (and the inode map in memory) to FileService.    *)
(* Before the first start the image does not exist and the service is the  *)
(* one start_server will create.                                           *)
(***************************************************************************)
EXTENDS LFS

\* The entries of a directory: where they are, and what they say.
AbsNode(i) ==
  LET node == NodeOf(i)
      blks == {j \in Ptrs : node.used[j] = 1}
      ents == UNION {{e \in Range(DirAt(node.ptr[j])) : e.inum # -1} : j \in blks}
      inum(n) == LET S == {e \in ents : e.name = n}
                 IN  IF S = {} THEN -1 ELSE (CHOOSE e \in S : TRUE).inum
  IN  IF i \notin Live THEN [kind |-> "free"]
      ELSE IF node.type = MFS_DIRECTORY
      THEN [kind |-> "dir", ent |-> [n \in Names \cup {".", ".."} |-> inum(n)]]
      ELSE [kind |-> "file",
            data |-> [j \in Ptrs |-> IF j \in blks THEN disk.blk[node.ptr[j]].val
                                     ELSE Garbage]]

FreshRoot ==
  [kind |-> "dir",
   ent |-> [n \in Names \cup {".", ".."} |-> IF n \in {".", ".."} THEN 0 ELSE -1]]

absfs ==
  [i \in Inums |-> IF disk.exists THEN AbsNode(i)
                   ELSE IF i = 0 THEN FreshRoot ELSE [kind |-> "free"]]

Service == INSTANCE FileService WITH fs <- absfs, DirSlots <- NDP * NENT

\* The server implements the file service: every request has the effect and
\* the response the MFS interface promises, across shutdowns and restarts.
ImplementsService == Service!FSSpec
============================================================================
