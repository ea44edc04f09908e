-------------------------------- MODULE MkFS --------------------------------
(***************************************************************************)
(* tools/mkfs.c: the program that builds the file system image the kernel  *)
(* boots from, out of a directory of the host.                             *)
(*                                                                         *)
(* Scaled down: a byte, a directory entry and a block address all take one *)
(* unit of a block of BSIZE units, so NINDIRECT = BSIZE; a directory entry *)
(* is its inode number (names are left out); the three areas of the image  *)
(* that hold inodes, the bitmap and data are variables of their own, and   *)
(* LayoutAssumption states that the formulas of fs.h keep them apart.  A   *)
(* failed assert or read of the image ends mkfs: no step follows.          *)
(***************************************************************************)
EXTENDS Integers, Sequences, FiniteSets

CONSTANTS
  BSIZE, NDIRECT,  \* units per block, direct addresses per inode (fs.h)
  IPB, BPB,        \* inodes and bitmap bits per block
  ninodes, size,   \* mkfs.c:23-24
  HostTrees        \* the host directories an image may be built from

T_DIR     == 1
T_FILE    == 2
T_CHECKED == 4
ROOTINO   == 1
NINDIRECT == BSIZE
MAXFILE   == NDIRECT + NINDIRECT
Inums     == 1 .. (ninodes - 1)

IBLOCK(i)  == i \div IPB + 2
BBLOCK(b)  == b \div BPB + ninodes \div IPB + 3
bitblocks  == size \div BPB + 1
FirstData  == ninodes \div IPB + 3 + bitblocks   \* usedblocks, before any file
Blocks     == 0 .. (size - 1)

\* The inode blocks start behind the super block, the bitmap behind them and
\* the data behind the bitmap.
ASSUME LayoutAssumption ==
  /\ BSIZE \in Nat \ {0} /\ NDIRECT \in Nat /\ IPB \in Nat \ {0} /\ BPB \in Nat \ {0}
  /\ ninodes \in Nat \ {0, 1} /\ size \in Nat
  /\ \A i \in Inums, b \in Blocks :
       1 < IBLOCK(i) /\ IBLOCK(i) < BBLOCK(b) /\ BBLOCK(b) < FirstData
  /\ FirstData < size

VARIABLES
  dino,      \* the inode blocks: inode number -> inode
  blk,       \* the other blocks: block number -> contents
  bit,       \* the bitmap
  mk         \* phase, mkfs's globals (freeblock, usedblocks, freeinode), the
             \* calls of add_dir in progress (stack), the last call of iappend
             \* (call) and the inode that goes into the directory next (child)

mkvars == <<dino, blk, bit, mk>>

ZeroBlock == [u \in 0 .. (BSIZE - 1) |-> 0]
Inode(t, l) == [type |-> t, nlink |-> l, size |-> 0, addrs |-> [i \in 0 .. NDIRECT |-> 0]]
NoFile == Inode(0, 0)

----------------------------------------------------------------------------
(* iappend(inum, p, n): a step for each block it takes and for each unit.  *)
(* The units before done are copied.                                       *)

iappend(inum, units) == [inum |-> inum, p |-> units, done |-> 0]
Appending == mk.phase = "mkfs" /\ mk.call.done < Len(mk.call.p)

Inum == mk.call.inum
Off  == dino[Inum].size
Fbn  == Off \div BSIZE
Slot == IF Fbn < NDIRECT THEN Fbn ELSE NDIRECT

\* The image has size sectors and no other can be read.
rsect(b) == b < size

\* freeblock++, usedblocks++
TakeBlock == mk' = [mk EXCEPT !.freeblock = @ + 1, !.usedblocks = @ + 1]

\* The address in the inode is zero: a block is taken, for the data or as
\* the indirect block.
iappend_block ==
  /\ Appending /\ Fbn < MAXFILE
  /\ dino[Inum].addrs[Slot] = 0
  /\ dino' = [dino EXCEPT ![Inum].addrs[Slot] = mk.freeblock]
  /\ TakeBlock
  /\ UNCHANGED <<blk, bit>>

\* The address in the indirect block is zero.
iappend_indirect ==
  LET root == dino[Inum].addrs[NDIRECT]
  IN  /\ Appending /\ Fbn < MAXFILE
      /\ Fbn >= NDIRECT /\ root # 0 /\ rsect(root)
      /\ blk[root][Fbn - NDIRECT] = 0
      /\ blk' = [blk EXCEPT ![root][Fbn - NDIRECT] = mk.freeblock]
      /\ TakeBlock
      /\ UNCHANGED <<dino, bit>>

\* The block is there: the unit is copied into it.
iappend_unit ==
  LET root == dino[Inum].addrs[NDIRECT]
      x    == IF Fbn < NDIRECT THEN dino[Inum].addrs[Fbn] ELSE blk[root][Fbn - NDIRECT]
  IN  /\ Appending /\ Fbn < MAXFILE
      /\ Fbn >= NDIRECT => root # 0 /\ rsect(root)
      /\ x # 0 /\ rsect(x)
      /\ blk' = [blk EXCEPT ![x][Off % BSIZE] = mk.call.p[mk.call.done + 1]]
      /\ dino' = [dino EXCEPT ![Inum].size = @ + 1]
      /\ mk' = [mk EXCEPT !.call.done = @ + 1]
      /\ UNCHANGED bit

----------------------------------------------------------------------------
(* add_dir and main                                                        *)

Frame(cur, parent, entries) == [cur |-> cur, parent |-> parent, todo |-> entries]
Cur  == Head(mk.stack)
Rest == Tail(mk.stack)
Returned == mk.phase = "mkfs" /\ mk.call.done = Len(mk.call.p)

\* ialloc(type), whose number is the old freeinode.
ialloc(type) == dino' = [dino EXCEPT ![mk.freeinode] = Inode(type, 1)]

\* The entry is a regular file: it gets an inode and is copied.
add_file ==
  /\ Returned /\ mk.child = 0 /\ mk.stack # <<>> /\ Cur.todo # <<>>
  /\ Head(Cur.todo).kind = "file"
  /\ ialloc(T_FILE)
  /\ mk' = [mk EXCEPT !.freeinode = @ + 1, !.child = mk.freeinode,
                      !.call = iappend(mk.freeinode, Head(Cur.todo).bytes),
                      !.stack = <<Frame(Cur.cur, Cur.parent, Tail(Cur.todo))>> \o Rest]
  /\ UNCHANGED <<blk, bit>>

\* The entry is a directory: add_dir calls itself and starts with "." and "..".
add_dir_enter ==
  /\ Returned /\ mk.child = 0 /\ mk.stack # <<>> /\ Cur.todo # <<>>
  /\ Head(Cur.todo).kind = "dir"
  /\ ialloc(T_DIR)
  /\ mk' = [mk EXCEPT !.freeinode = @ + 1,
                      !.call = iappend(mk.freeinode, <<mk.freeinode, Cur.cur>>),
                      !.stack = <<Frame(mk.freeinode, Cur.cur, Head(Cur.todo).ents),
                                  Frame(Cur.cur, Cur.parent, Tail(Cur.todo))>> \o Rest]
  /\ UNCHANGED <<blk, bit>>

\* The child has been copied and is entered in its directory.
add_entry ==
  /\ Returned /\ mk.child # 0
  /\ mk' = [mk EXCEPT !.child = 0, !.call = iappend(Cur.cur, <<mk.child>>)]
  /\ UNCHANGED <<dino, blk, bit>>

\* The directory is read to its end: its size is fixed ("fix size of inode
\* cur_dir": it ends with a whole free block when its entries fill their
\* blocks exactly), and its parent, if it has one, goes on.
add_dir_return ==
  /\ Returned /\ mk.child = 0 /\ mk.stack # <<>> /\ Cur.todo = <<>>
  /\ dino' = [dino EXCEPT ![Cur.cur].size = (@ \div BSIZE + 1) * BSIZE]
  /\ mk' = [mk EXCEPT !.stack = Rest, !.child = IF Rest = <<>> THEN 0 ELSE Cur.cur]
  /\ UNCHANGED <<blk, bit>>

mark_used_OneShort ==
  /\ Returned /\ mk.stack = <<>> /\ mk.usedblocks < BPB
  /\ bit' = [b \in DOMAIN bit |-> IF b < mk.usedblocks - 1 THEN 1 ELSE 0]
  /\ mk' = [mk EXCEPT !.phase = "run"]
  /\ UNCHANGED <<dino, blk>>

\* balloc(usedblocks), the last thing main does.
mark_used ==
  /\ Returned /\ mk.stack = <<>> /\ mk.usedblocks < BPB
  /\ bit' = [b \in DOMAIN bit |-> IF b < mk.usedblocks THEN 1 ELSE 0]
  /\ mk' = [mk EXCEPT !.phase = "run"]
  /\ UNCHANGED <<dino, blk>>

\* mkfs() has zeroed the image, main has allocated the root inode and
\* add_dir has been called for it.
MkInit ==
  \E tree \in HostTrees :
    /\ dino = [i \in Inums |-> IF i = ROOTINO THEN Inode(T_DIR, 1) ELSE NoFile]
    /\ blk = [b \in Blocks |-> ZeroBlock]
    /\ bit = [b \in 0 .. (bitblocks * BPB - 1) |-> 0]
    /\ mk = [phase |-> "mkfs", freeblock |-> FirstData, usedblocks |-> FirstData,
             freeinode |-> ROOTINO + 1, child |-> 0,
             stack |-> <<Frame(ROOTINO, ROOTINO, tree)>>,
             call |-> iappend(ROOTINO, <<ROOTINO, ROOTINO>>)]

MkNext ==
  \/ iappend_block \/ iappend_indirect \/ iappend_unit
  \/ add_file \/ add_dir_enter \/ add_entry \/ add_dir_return
  \/ mark_used
=============================================================================
