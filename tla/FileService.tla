---------------------------- MODULE FileService ----------------------------
(***************************************************************************)
(* What the MFS interface (linux/mfs.h and the comments of mfs.c) promises *)
(* to a client: files and directories named by inode numbers, with no log, *)
(* no blocks and no checkpoint region.  LFSRefinement shows that the       *)
(* server of lfs.c implements it.                                          *)
(***************************************************************************)
EXTENDS Integers, FiniteSetsExt

CONSTANTS
  Inums, Ptrs, Names, Types, Data,  \* as in LFS
  DirSlots,                         \* entries a directory can hold
  Garbage, NoVal

Absent == -1   \* no entry

VARIABLES fs, reply

fsvars == <<fs, reply>>

AllNames == Names \cup {".", ".."}
Free     == [kind |-> "free"]
Dir(en)  == [kind |-> "dir", ent |-> en]
File(c)  == [kind |-> "file", data |-> c]

EmptyDir(i, p) ==
  Dir([n \in AllNames |-> IF n = "." THEN i ELSE IF n = ".." THEN p ELSE Absent])
EmptyFile == File([b \in Ptrs |-> Garbage])

\* The size of a file, in blocks, is decided by its last written block.
SizeOf(node) ==
  LET written == {b \in Ptrs : node.data[b] # Garbage}
  IN  IF written = {} THEN 0 ELSE Max(written) + 1

IsEmpty(node) == \A n \in AllNames \ {".", ".."} : node.ent[n] = Absent

Used(i)  == i \in Inums /\ fs[i] # Free
IsDir(i) == Used(i) /\ fs[i].kind = "dir"
FreeInums == {i \in Inums : fs[i] = Free}
IsFull(node) == Cardinality({n \in AllNames : node.ent[n] # Absent}) >= DirSlots
IsFile(i) == Used(i) /\ fs[i].kind = "file"

Ans(o, r, v) == reply' = [op |-> o, ret |-> r, val |-> v]

MLookup(p, n) ==
  \/ Ans("lookup", -1, NoVal) /\ ~IsDir(p) /\ UNCHANGED fs
  \/ IsDir(p) /\ Ans("lookup", fs[p].ent[n], NoVal) /\ UNCHANGED fs

MStat(i) ==
  \/ Ans("stat", -1, NoVal) /\ ~Used(i) /\ UNCHANGED fs
  \/ \E s \in Ptrs : Ans("stat", 0, <<0, s + 1>>) /\ IsDir(i) /\ UNCHANGED fs
  \/ IsFile(i) /\ Ans("stat", 0, <<1, SizeOf(fs[i])>>) /\ UNCHANGED fs

\* Reading a directory gives an entry of it, as an MFS_DirEnt_t.
MRead(i, b) ==
  \/ Ans("read", -1, NoVal) /\ (~Used(i) \/ b \notin Ptrs) /\ UNCHANGED fs
  \/ /\ b \in Ptrs /\ IsDir(i)
     /\ \E n \in AllNames :
          fs[i].ent[n] # Absent /\ Ans("read", 0, <<[name |-> n, inum |-> fs[i].ent[n]]>>)
     /\ UNCHANGED fs
  \/ /\ b \in Ptrs /\ IsFile(i)
     /\ Ans("read", 0, <<fs[i].data[b]>>) /\ UNCHANGED fs

MWrite(i, v, b) ==
  \/ Ans("write", -1, NoVal) /\ (~IsFile(i) \/ b \notin Ptrs) /\ UNCHANGED fs
  \/ /\ Ans("write", 0, NoVal)
     /\ IsFile(i) /\ b \in Ptrs
     /\ fs' = [fs EXCEPT ![i].data[b] = v]

\* Creating an existing name succeeds and changes nothing; a directory or an
\* inode table that is full is a failure.
MCreat(p, t, n) ==
  \/ /\ Ans("creat", -1, NoVal)
     /\ IsDir(p) => fs[p].ent[n] = Absent /\ (FreeInums = {} \/ IsFull(fs[p]))
     /\ UNCHANGED fs
  \/ /\ Ans("creat", 0, NoVal)
     /\ IsDir(p) /\ fs[p].ent[n] # Absent
     /\ UNCHANGED fs
  \/ /\ Ans("creat", 0, NoVal)
     /\ IsDir(p) /\ fs[p].ent[n] = Absent /\ ~IsFull(fs[p])
     /\ \E i \in FreeInums :
          fs' = [fs EXCEPT ![p].ent[n] = i,
                         ![i] = IF t = 0 THEN EmptyDir(i, p) ELSE EmptyFile]

\* Removing an absent name succeeds; a directory with entries stays.
MUnlink(p, n) ==
  \/ /\ Ans("unlink", -1, NoVal)
     /\ IsDir(p) => LET i == fs[p].ent[n] IN IsDir(i) /\ ~IsEmpty(fs[i])
     /\ UNCHANGED fs
  \/ /\ Ans("unlink", 0, NoVal)
     /\ IsDir(p) /\ fs[p].ent[n] = Absent
     /\ UNCHANGED fs
  \/ /\ Ans("unlink", 0, NoVal)
     /\ IsDir(p) /\ fs[p].ent[n] # Absent
     /\ LET i == fs[p].ent[n]
        IN  /\ IsDir(i) => IsEmpty(fs[i])
            /\ fs' = [fs EXCEPT ![p].ent[n] = Absent, ![i] = Free]

\* A crash inside unlink removes the name and may leave the inode allocated.
MUnlinkCut(p, n) ==
  /\ UNCHANGED reply
  /\ IsDir(p) /\ fs[p].ent[n] # Absent
  /\ LET i == fs[p].ent[n]
     IN  /\ IsDir(i) => IsEmpty(fs[i])
         /\ \E left \in {fs[i], Free} :
              fs' = [fs EXCEPT ![p].ent[n] = Absent, ![i] = left]

FSInit ==
  /\ fs = [i \in Inums |-> IF i = 0 THEN EmptyDir(0, 0) ELSE Free]
  /\ reply = [op |-> "none", ret |-> 0, val |-> NoVal]

FSNext ==
  \E i \in Inums \cup {-1} :
    \/ MStat(i)
    \/ \E b \in Ptrs \cup {-1} : MRead(i, b) \/ \E v \in Data : MWrite(i, v, b)
    \/ \E n \in Names :
         MLookup(i, n) \/ MUnlink(i, n) \/ MUnlinkCut(i, n) \/ \E t \in Types : MCreat(i, t, n)

FSSpec == FSInit /\ [][FSNext]_fsvars
============================================================================
