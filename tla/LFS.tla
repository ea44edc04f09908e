-------------------------------- MODULE LFS --------------------------------
(***************************************************************************)
(* The log-structured file server of linux/lfs.c.                          *)
(*                                                                         *)
(* The image file is a checkpoint region (the imap and next_block) and a   *)
(* sequence of 4096-byte blocks.  A block holds an inode, a directory      *)
(* block or file data; a block nobody has written is a hole.  The server   *)
(* is single-threaded: each request is one handler, one action here.  A    *)
(* handler is described by its outcome: the value it returns, the globals  *)
(* it leaves (imap, next_block) and `imgs`, the images the file goes       *)
(* through as the handler's write() calls complete, in the order of the    *)
(* code.  Without a crash the last image is what stays; a process killed   *)
(* inside the handler leaves one of the earlier ones.                      *)
(*                                                                         *)
(* find_inode on a free inode number seeks to a negative offset.  The seek *)
(* fails, and read() returns whatever lies at the file position the        *)
(* previous request left: an inode of zeros (the gap behind next_block,    *)
(* where every request that ends in update_CR leaves the position), or an  *)
(* inode stored just behind a directory or data block that was read last.  *)
(*                                                                         *)
(* A definition named X_Fault, before X, is X with one plausible mistake   *)
(* in it; no specification uses it.  The README says which property sees   *)
(* which mistake.                                                          *)
(***************************************************************************)
EXTENDS Integers, Sequences, FiniteSetsExt

CONSTANTS
  MAXINODES,   \* entries of imap (4096 in lfs.h)
  NDP,         \* direct pointers of an inode (14)
  NENT,        \* entries of a directory block (128)
  MaxBlock,    \* bound: the last block of the image the model may write
  Names,       \* the names clients pass
  Types,       \* the file types clients pass
  Data,        \* the payloads clients write
  StaleInums,  \* may clients name inodes that are not allocated?
  FarNames,    \* may clients unlink what is behind the first block of a directory?
  ReadDirs,    \* may clients read directories?
  Crashes      \* the handlers inside which the process may be killed

CRSIZE == 6
MFS_DIRECTORY == 0
MFS_REGULAR_FILE == 1

Inums  == 0 .. (MAXINODES - 1)
Ptrs   == 0 .. (NDP - 1)
Slots  == 0 .. (NENT - 1)
Blocks == 0 .. MaxBlock

ASSUME LFSAssumption ==
  /\ MAXINODES \in Nat \ {0}
  /\ NDP \in Nat /\ NDP >= 2
  /\ NENT \in Nat /\ NENT >= 3
  /\ MaxBlock \in Nat /\ MaxBlock >= CRSIZE + 2
  /\ Types \subseteq Int
  /\ StaleInums \in BOOLEAN /\ FarNames \in BOOLEAN /\ ReadDirs \in BOOLEAN
  /\ Crashes \subseteq {"creat", "write", "unlink"}

VARIABLES
  imap,        \* the inode map in memory
  next_block,  \* the end of the log, in memory
  disk,        \* the image file: [exists, imap, next, blk]
  up,          \* is the server process running?
  reply        \* the last response: [op, ret, val]

vars == <<imap, next_block, disk, up, reply>>

----------------------------------------------------------------------------
(* Block contents.                                                         *)

Garbage == [bytes |-> "any"]   \* bytes nobody wrote for this purpose
NoVal   == <<>>                \* a response that carries no data

Hole       == [k |-> "hole"]
DataBlk(v) == [k |-> "data", val |-> v]
DirBlk(en) == [k |-> "dir", ent |-> en]
Inode(t, s, p, u) == [k |-> "inode", type |-> t, size |-> s, ptr |-> p, used |-> u]

Entry(n, i) == [name |-> n, inum |-> i]
Unused == Entry("DNE", -1)

ZeroInode == Inode(0, 0, [j \in Ptrs |-> 0], [j \in Ptrs |-> 0])

\* Bytes that are not a directory, read as one: no name matches and no
\* inode number is -1.
NotADir == [e \in Slots |-> Entry("?", 0)]

DirAt(b) ==
  IF b \in Blocks /\ disk.blk[b].k = "dir" THEN disk.blk[b].ent ELSE NotADir

\* build_dir_block: a fresh directory block, with the dot entries if it is
\* the first block of its directory.
build_dir_block(first, inum, pinum) ==
  [e \in Slots |-> IF first /\ e = 0 THEN Entry(".", inum)
                   ELSE IF first /\ e = 1 THEN Entry("..", pinum)
                   ELSE Unused]

Put(d, b, c) == [d EXCEPT !.blk[b] = c]

CRImap_Skipped(d, inum, b) == d
CRNext_OffByOne(d, n) == [d EXCEPT !.next = n - 1]

\* update_CR(inum): two write() calls, the imap cell and then next_block.
CRImap(d, inum, b) == [d EXCEPT !.imap[inum] = b]
CRNext(d, n)       == [d EXCEPT !.next = n]

StaleInodes ==
  {ZeroInode} \cup
  {disk.blk[b] : b \in {x \in Blocks \ {0} : /\ disk.blk[x].k = "inode"
                                           /\ disk.blk[x - 1].k \in {"dir", "data"}}}

\* The inodes find_inode may fill in; none when it returns -1.
find_inode(inum) ==
  IF inum \notin Inums THEN {}
  ELSE IF imap[inum] \in Blocks /\ disk.blk[imap[inum]].k = "inode"
       THEN {disk.blk[imap[inum]]}
       ELSE StaleInodes

lookup_LastSkipped(node, name) ==
  LET has(b) == {e \in 0 .. (NENT - 2) : DirAt(node.ptr[b])[e].name = name}
      hits   == {b \in Ptrs : node.used[b] = 1 /\ has(b) # {}}
  IN  IF hits = {} THEN -1
      ELSE DirAt(node.ptr[Min(hits)])[Min(has(Min(hits)))].inum

\* lookup_server once the inode is read: the first entry with the name, in
\* the order of the pointers and of the entries.
lookup(node, name) ==
  LET has(b) == {e \in Slots : DirAt(node.ptr[b])[e].name = name}
      hits   == {b \in Ptrs : node.used[b] = 1 /\ has(b) # {}}
  IN  IF hits = {} THEN -1
      ELSE DirAt(node.ptr[Min(hits)])[Min(has(Min(hits)))].inum

----------------------------------------------------------------------------
(* Outcomes of the handlers that write.                                    *)

Outcome(r, im, nb, ds) == [ret |-> r, imap |-> im, next |-> nb, imgs |-> ds]
Same(r) == Outcome(r, imap, next_block, <<disk>>)

AppendBlock_Before(node, size, b) ==
  Inode(node.type, size, [node.ptr EXCEPT ![b] = next_block - 1], [node.used EXCEPT ![b] = 1])

\* The inode once pointer b leads to the block at the end of the log.
AppendBlock(node, size, b) ==
  Inode(node.type, size, [node.ptr EXCEPT ![b] = next_block], [node.used EXCEPT ![b] = 1])

CreatOut(pinum, type, name, parent, found) ==
  LET free  == {i \in Inums : imap[i] = -1}
      inum  == Min(free)
      room  == {b \in Ptrs : \/ parent.used[b] = 0
                             \/ \E e \in Slots : DirAt(parent.ptr[b])[e].inum = -1}
      b     == Min(room)
      grown == parent.used[b] = 0
      par   == IF grown THEN AppendBlock(parent, parent.size + 1, b) ELSE parent
      nb1   == IF grown THEN next_block + 1 ELSE next_block
      ents  == IF grown THEN build_dir_block(FALSE, inum, -1)
                        ELSE DirAt(parent.ptr[b])
      e     == Min({x \in Slots : ents[x].inum = -1})
      \* the seek to a free parent fails: the write lands behind the block
      \* that was just read
      parAt == IF imap[pinum] # -1 THEN imap[pinum] ELSE par.ptr[b] + 1
      isdir == type = MFS_DIRECTORY
      nb2   == IF isdir THEN nb1 + 1 ELSE nb1
      none  == [j \in Ptrs |-> -1]
      zero  == [j \in Ptrs |-> 0]
      node  == IF isdir
               THEN Inode(type, 1, [none EXCEPT ![0] = nb1], [zero EXCEPT ![0] = 1])
               ELSE Inode(type, 0, none, zero)
      d1 == IF grown THEN Put(disk, next_block, DirBlk(ents)) ELSE disk
      d2 == Put(d1, parAt, par)
      d3 == Put(d2, par.ptr[b], DirBlk([ents EXCEPT ![e] = Entry(name, inum)]))
      d4 == IF isdir THEN Put(d3, nb1, DirBlk(build_dir_block(TRUE, inum, pinum)))
                     ELSE d3
      d5 == Put(d4, nb2, node)
      d6 == CRImap(d5, inum, nb2)
      d7 == CRNext(d6, nb2 + 1)
  IN  IF parent.type # MFS_DIRECTORY THEN Same(-1)
      ELSE IF found # -1 THEN Same(0)
      ELSE IF free = {} \/ room = {} THEN Same(-1)
      ELSE IF type \notin {MFS_DIRECTORY, MFS_REGULAR_FILE}
      THEN Outcome(-1, imap, nb1, <<disk, d1, d2, d3>>)
      ELSE Outcome(0, [imap EXCEPT ![inum] = nb2], nb2 + 1,
                   <<disk, d1, d2, d3, d4, d5, d6, d7>>)

WriteOut(inum, v, block, node) ==
  LET new == AppendBlock(node, IF block + 1 > node.size THEN block + 1 ELSE node.size, block)
      at  == IF imap[inum] # -1 THEN imap[inum] ELSE next_block + 1
      d1  == Put(disk, next_block, DataBlk(v))
      d2  == Put(d1, at, new)
      d3  == CRImap(d2, inum, imap[inum])
      d4  == CRNext(d3, next_block + 1)
  IN  IF node.type # MFS_REGULAR_FILE \/ block \notin Ptrs
      THEN Same(-1)
      ELSE Outcome(0, imap, next_block + 1, <<disk, d1, d2, d3, d4>>)

\* The entries with the name are marked unused.
RemoveName(ents, name) ==
  [j \in Slots |-> IF ents[j].name = name THEN Unused ELSE ents[j]]

NotEmpty_Skips(node) ==
  /\ node.type # MFS_REGULAR_FILE
  /\ \E i \in 3 .. (NENT - 1) : DirAt(node.ptr[0])[i].inum # -1

\* Only the first block of a directory is searched for entries that keep it
\* alive.
NotEmpty(node) ==
  /\ node.type # MFS_REGULAR_FILE
  /\ \E i \in 2 .. (NENT - 1) : DirAt(node.ptr[0])[i].inum # -1

UnlinkOut_ImapFirst(pinode, name, inum, node) ==
  LET direct == DirAt(pinode.ptr[0])
      named  == \E j \in Slots : direct[j].name = name
      d1 == CRImap(disk, inum, -1)
      d2 == CRNext(d1, next_block)
      d3 == IF named THEN Put(d2, pinode.ptr[0], DirBlk(RemoveName(direct, name))) ELSE d2
  IN  IF named /\ NotEmpty(node) THEN Same(-1)
      ELSE Outcome(0, [imap EXCEPT ![inum] = -1], next_block, <<disk, d1, d2, d3>>)

\* Only the first block of the parent is searched for the entry to clear; an
\* entry in another block stays, and the inode is freed all the same.
UnlinkOut(pinode, name, inum, node) ==
  LET direct == DirAt(pinode.ptr[0])
      named  == \E j \in Slots : direct[j].name = name
      d1 == IF named THEN Put(disk, pinode.ptr[0], DirBlk(RemoveName(direct, name))) ELSE disk
      d2 == CRImap(d1, inum, -1)
      d3 == CRNext(d2, next_block)
  IN  IF named /\ NotEmpty(node) THEN Same(-1)
      ELSE Outcome(0, [imap EXCEPT ![inum] = -1], next_block, <<disk, d1, d2, d3>>)

----------------------------------------------------------------------------
(* Actions: one per request, start_server and shutdown_server.             *)

Resp(o, r, v) == reply' = [op |-> o, ret |-> r, val |-> v]

Commit(o, out) ==
  /\ imap' = out.imap
  /\ next_block' = out.next
  /\ disk' = out.imgs[Len(out.imgs)]
  /\ Resp(o, out.ret, NoVal)
  /\ UNCHANGED up

\* Killed between two write() calls: the globals are gone (start_server sets
\* them again) and no response is sent.
CrashIn(o, out) ==
  /\ o \in Crashes
  /\ \E i \in 1 .. (Len(out.imgs) - 1) : disk' = out.imgs[i]
  /\ up' = FALSE
  /\ UNCHANGED <<imap, next_block, reply>>

Run(o, out) == Commit(o, out) \/ CrashIn(o, out)

Answer(o, r, v) == Resp(o, r, v) /\ UNCHANGED <<imap, next_block, disk, up>>

InumArgs  == -1 .. MAXINODES
BlockArgs == -1 .. NDP

HasRoom == next_block + 3 <= MaxBlock

Lookup(p, n) ==
  /\ up
  /\ \/ p \notin Inums /\ Answer("lookup", -1, NoVal)
     \/ \E node \in find_inode(p) : Answer("lookup", lookup(node, n), NoVal)

Stat(i) ==
  /\ up
  /\ \/ i \notin Inums /\ Answer("stat", -1, NoVal)
     \/ \E node \in find_inode(i) : Answer("stat", 0, <<node.type, node.size>>)

Creat(p, t, n) ==
  /\ up /\ HasRoom
  /\ \/ p \notin Inums /\ Answer("creat", -1, NoVal)
     \/ \E parent, pnode \in find_inode(p) :
          Run("creat", CreatOut(p, t, n, parent, lookup(pnode, n)))

Write(i, v, blk) ==
  /\ up /\ HasRoom
  /\ \/ i \notin Inums /\ Answer("write", -1, NoVal)
     \/ \E node \in find_inode(i) : Run("write", WriteOut(i, v, blk, node))

\* read_server of a directory takes the second direct pointer for the number
\* of the parent.  find_inode fails when that is not in range, and pnode is
\* then what the stack holds: zeros, or some inode read before.
pnodes(pinum) ==
  IF pinum \in Inums THEN find_inode(pinum)
  ELSE {ZeroInode} \cup {disk.blk[b] : b \in {x \in Blocks : disk.blk[x].k = "inode"}}

\* The last entry for inum in the blocks of pnode; with none, dirEnt is what
\* the stack holds.
dirEnt(pnode, inum) ==
  LET hits == {x \in Ptrs \X Slots : /\ pnode.used[x[1]] = 1
                                     /\ DirAt(pnode.ptr[x[1]])[x[2]].inum = inum}
      last == CHOOSE x \in hits :
                \A y \in hits : y[1] < x[1] \/ (y[1] = x[1] /\ y[2] <= x[2])
  IN  IF hits = {} THEN Garbage
      ELSE Entry(DirAt(pnode.ptr[last[1]])[last[2]].name, inum)

\* What read_server may copy into the response: the block of a regular file
\* (leftover bytes if it was never written), or an entry.
ReadVals(inum, node, blk) ==
  IF node.type # MFS_REGULAR_FILE
  THEN {dirEnt(pnode, inum) : pnode \in pnodes(node.ptr[1])}
  ELSE IF node.ptr[blk] \in Blocks /\ disk.blk[node.ptr[blk]].k = "data"
  THEN {disk.blk[node.ptr[blk]].val}
  ELSE {Garbage}

Read(i, blk) ==
  /\ up
  /\ \/ (i \notin Inums \/ blk \notin Ptrs) /\ Answer("read", -1, NoVal)
     \/ /\ blk \in Ptrs
        /\ \E node \in find_inode(i) : \E v \in ReadVals(i, node, blk) : Answer("read", 0, <<v>>)

Unlink_AbsentFails(p, n) ==
  /\ up
  /\ \/ p \notin Inums /\ Answer("unlink", -1, NoVal)
     \/ \E pinode, pnode \in find_inode(p) :
          LET inum == lookup(pnode, n)
          IN  \/ /\ pinode.type # MFS_DIRECTORY \/ inum < 0
                 /\ Answer("unlink", -1, NoVal)
              \/ /\ pinode.type = MFS_DIRECTORY /\ inum >= 0
                 /\ \E node \in find_inode(inum) :
                      Run("unlink", UnlinkOut(pinode, n, inum, node))

Unlink(p, n) ==
  /\ up
  /\ \/ p \notin Inums /\ Answer("unlink", -1, NoVal)
     \/ \E pinode, pnode \in find_inode(p) :
          LET inum == lookup(pnode, n)
          IN  \/ /\ pinode.type # MFS_DIRECTORY
                 /\ Answer("unlink", -1, NoVal)
              \/ /\ pinode.type = MFS_DIRECTORY /\ inum < 0
                 /\ Answer("unlink", 0, NoVal)
              \/ /\ pinode.type = MFS_DIRECTORY /\ inum >= 0
                 /\ \E node \in find_inode(inum) :
                      Run("unlink", UnlinkOut(pinode, n, inum, node))

Shutdown ==
  /\ up
  /\ up' = FALSE
  /\ UNCHANGED <<imap, next_block, disk, reply>>

\* The image start_server writes when the file does not exist: the root
\* directory block, the root inode and the checkpoint region.
FreshImage ==
  [exists |-> TRUE,
   imap   |-> [i \in Inums |-> IF i = 0 THEN CRSIZE + 1 ELSE -1],
   next   |-> CRSIZE + 2,
   blk    |-> [b \in Blocks |->
                 IF b = CRSIZE THEN DirBlk(build_dir_block(TRUE, 0, 0))
                 ELSE IF b = CRSIZE + 1
                 THEN Inode(MFS_DIRECTORY, 1,
                            [j \in Ptrs |-> IF j = 0 THEN CRSIZE ELSE -1],
                            [j \in Ptrs |-> IF j = 0 THEN 1 ELSE 0])
                 ELSE Hole]]

start_server ==
  /\ ~up
  /\ disk' = IF disk.exists THEN disk ELSE FreshImage
  /\ imap' = disk'.imap /\ next_block' = disk'.next
  /\ up' = TRUE
  /\ UNCHANGED reply

NoImage == [exists |-> FALSE, imap |-> [i \in Inums |-> 0], next |-> 0,
            blk |-> [b \in Blocks |-> Hole]]

Init ==
  /\ imap = [i \in Inums |-> 0] /\ next_block = 0
  /\ disk = NoImage
  /\ up = FALSE
  /\ reply = [op |-> "none", ret |-> 0, val |-> NoVal]

\* What clients ask for.  Their inode numbers are allocated, or out of range,
\* when they pass only what lookup told them.
Named(i) == i \in Inums => (StaleInums \/ imap[i] # -1)

\* The name is in the first block of the directory, if anywhere, and what it
\* leads to has not outgrown its own first block: unlink_server looks at no
\* other.
Near(p, n) ==
  \A node \in find_inode(p) : node.type = MFS_DIRECTORY =>
    /\ \A b \in Ptrs \ {0} : node.used[b] = 1 => \A e \in Slots : DirAt(node.ptr[b])[e].name # n
    /\ \A c \in find_inode(lookup(node, n)) :
         c.type = MFS_DIRECTORY => \A b \in Ptrs \ {0} : c.used[b] = 0
MayUnlink(p, n) == FarNames \/ Near(p, n)
MayRead(i) == ReadDirs \/ \A node \in find_inode(i) : node.type = MFS_REGULAR_FILE

Next ==
  \/ \E p \in InumArgs, n \in Names :
       /\ Named(p)
       /\ \/ Lookup(p, n)
          \/ MayUnlink(p, n) /\ Unlink(p, n)
          \/ \E t \in Types : Creat(p, t, n)
  \/ \E i \in InumArgs, blk \in BlockArgs :
       /\ Named(i)
       /\ (MayRead(i) /\ Read(i, blk)) \/ \E v \in Data : Write(i, v, blk)
  \/ \E i \in InumArgs : Named(i) /\ Stat(i)
  \/ Shutdown
  \/ start_server

Spec == Init /\ [][Next]_vars

----------------------------------------------------------------------------
(* Properties.                                                             *)

\* The inode map that counts: the one in memory, or the one the next
\* start_server will read.
CurImap == IF up THEN imap ELSE disk.imap
CurNext == IF up THEN next_block ELSE disk.next
Live    == {i \in Inums : CurImap[i] # -1}
NodeOf(i) == disk.blk[CurImap[i]]

Entries == [name : Names \cup {".", "..", "DNE", "?"}, inum : -1 .. (MAXINODES - 1)]
Content ==
  [k : {"hole"}] \cup [k : {"data"}, val : Data] \cup
  [k : {"dir"}, ent : [Slots -> Entries]] \cup
  [k : {"inode"}, type : Int, size : Int, ptr : [Ptrs -> Int], used : [Ptrs -> {0, 1}]]

\* Types of the variables.
TypeOK ==
  /\ imap \in [Inums -> -1 .. MaxBlock]
  /\ next_block \in Blocks
  /\ disk \in [exists : BOOLEAN, imap : [Inums -> -1 .. MaxBlock], next : Blocks,
               blk : [Blocks -> Content]]
  /\ up \in BOOLEAN
  /\ reply.ret \in -1 .. (MAXINODES - 1)

\* next_block is the end of the log (lfs.c:14): every block an allocated
\* inode refers to, and the inode itself, lies below it, whether it is read
\* from memory or, after a restart, from the checkpoint region.  Otherwise
\* the next append overwrites a live block.
LogEnd ==
  disk.exists =>
    \A i \in Live :
      /\ CurImap[i] < CurNext
      /\ NodeOf(i).k = "inode" =>
           \A j \in Ptrs : NodeOf(i).used[j] = 1 => NodeOf(i).ptr[j] < CurNext

\* An allocated inode number leads to an inode, its used pointers lead to
\* blocks of the kind its type calls for, and no two of these references
\* share a block: appends and in-place updates of one file never reach
\* another.
Refs == {r \in Live \X Ptrs : NodeOf(r[1]).used[r[2]] = 1}
NoSharing ==
  disk.exists =>
    /\ \A i \in Live : NodeOf(i).k = "inode"
    /\ \A i, j \in Live : i # j => CurImap[i] # CurImap[j]
    /\ \A r \in Refs :
         /\ disk.blk[NodeOf(r[1]).ptr[r[2]]].k
               = IF NodeOf(r[1]).type = MFS_DIRECTORY THEN "dir" ELSE "data"
         /\ \A s \in Refs \ {r} :
              NodeOf(r[1]).ptr[r[2]] # NodeOf(s[1]).ptr[s[2]]

\* Between requests the checkpoint region on disk holds the inode map and
\* the end of the log, so a shutdown and a restart lose nothing.
CRInSync == up => disk.imap = imap /\ disk.next = next_block

Dirs == {i \in Live : NodeOf(i).type = MFS_DIRECTORY}
EntriesOf(i) ==
  {x \in Ptrs \X Slots :
     NodeOf(i).used[x[1]] = 1 /\ DirAt(NodeOf(i).ptr[x[1]])[x[2]].inum # -1}
EntryOf(i, x) == DirAt(NodeOf(i).ptr[x[1]])[x[2]]

\* A directory entry leads to an allocated inode: unlink_server clears both
\* the entry and the inode map "or returned an error" (lfs.c:522).  (".." is
\* left out: a crash inside unlink_server may leave a directory that nothing
\* names any more, and its parent may go before it.)
NoDangling ==
  disk.exists =>
    \A d \in Dirs : \A x \in EntriesOf(d) :
      EntryOf(d, x).name # ".." => EntryOf(d, x).inum \in Live
============================================================================
