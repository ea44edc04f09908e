----------------------------- MODULE LFSProofs -----------------------------
(***************************************************************************)
(* Proofs about LFS, for every number of inodes, of pointers, of directory *)
(* entries and of blocks.                                                  *)
(***************************************************************************)
EXTENDS LFS, FiniteSetTheorems, WellFoundedInduction, TLAPS

\* What the proofs assume of the instance: clients pass the two types of
\* mfs.h and names other than "?", and the process is killed inside
\* unlink_server, if inside a handler at all: killed inside creat_server or
\* write_server it leaves a checkpoint region that is behind the inodes it
\* has written in place.
Tidy ==
  /\ Crashes \subseteq {"unlink"}
  /\ Types \subseteq {MFS_DIRECTORY, MFS_REGULAR_FILE}
  /\ "?" \notin Names

\* The theorems about Spec also assume that clients pass inode numbers that
\* are allocated.
Disciplined == Tidy /\ StaleInums = FALSE

\* The steps of such clients: an inode number that is in range is allocated
\* when a handler writes on the strength of it, and, unless far, unlink is
\* asked for what unlink_server can find.
Held(i) == i \in Inums => imap[i] # -1
HeldNext(far) ==
  \/ \E p \in InumArgs, n \in Names :
       \/ Lookup(p, n)
       \/ Held(p) /\ (far \/ Near(p, n)) /\ Unlink(p, n)
       \/ \E t \in Types : Held(p) /\ Creat(p, t, n)
  \/ \E i \in InumArgs, blk \in BlockArgs :
       Read(i, blk) \/ \E v \in Data : Held(i) /\ Write(i, v, blk)
  \/ \E i \in InumArgs : Stat(i)
  \/ Shutdown
  \/ start_server

----------------------------------------------------------------------------
(* Helpers: Min, and what the operators of LFS return.                     *)

\* The loops of lfs.c that take the first match are Min of a set of indices.
LEMMA MinIn == ASSUME NEW S \in SUBSET Nat, S # {} PROVE Min(S) \in S
<1> DEFINE LT == {ss \in Nat \X Nat : ss[1] < ss[2]}
<1>1. IsWellFoundedOn(LT, Nat)
  BY NatLessThanWellFounded, Zenon DEF OpToRel
<1>2. PICK x \in S : \A y \in S : ~(<<y, x>> \in LT)
  BY <1>1, WFMin, Zenon
<1>3. \A y, z \in Nat : y < z => <<y, z>> \in LT
  OBVIOUS
<1>4. \A y \in S : ~(y < x)
  <2> HIDE DEF LT
  <2> QED
    BY <1>2, <1>3
<1>5. \A y \in S : x =< y
  BY <1>4
<1> QED
  BY <1>5 DEF Min

\* A directory block read through DirAt has entries in every slot.
LEMMA DirAtType == ASSUME TypeOK, NEW b PROVE DirAt(b) \in [Slots -> Entries]
<1>1. NotADir \in [Slots -> Entries]
  BY LFSAssumption DEF NotADir, Entries, Entry
<1>2. ASSUME b \in Blocks, disk.blk[b].k = "dir" PROVE disk.blk[b].ent \in [Slots -> Entries]
  BY <1>2 DEF TypeOK, Content
<1> QED
  BY <1>1, <1>2 DEF DirAt

\* lookup_server returns -1 or the inode number of an entry.
LEMMA LookupType ==
  ASSUME TypeOK, NEW node, NEW name
  PROVE  lookup(node, name) \in -1 .. (MAXINODES - 1)
<1> DEFINE has(b) == {e \in Slots : DirAt(node.ptr[b])[e].name = name}
           hits   == {b \in Ptrs : node.used[b] = 1 /\ has(b) # {}}
<1>1. ASSUME hits # {}
      PROVE  DirAt(node.ptr[Min(hits)])[Min(has(Min(hits)))].inum \in -1 .. (MAXINODES - 1)
  <2>1. Min(hits) \in hits
    <3>1. hits \in SUBSET Nat
      BY LFSAssumption DEF Ptrs
    <3> QED
      BY <1>1, <3>1, MinIn
  <2>2. Min(has(Min(hits))) \in Slots
    <3>1. \A b \in hits : has(b) # {} /\ has(b) \in SUBSET Slots
      OBVIOUS
    <3>2. Slots \in SUBSET Nat
      BY LFSAssumption DEF Slots
    <3> HIDE DEF hits, has
    <3>3. Min(has(Min(hits))) \in has(Min(hits))
      BY <2>1, <3>1, <3>2, MinIn
    <3> QED
      BY <2>1, <3>1, <3>3
  <2>3. DirAt(node.ptr[Min(hits)]) \in [Slots -> Entries]
    BY DirAtType
  <2>4. \A f \in [Slots -> Entries], e \in Slots : f[e].inum \in -1 .. (MAXINODES - 1)
    BY DEF Entries
  <2> HIDE DEF hits, has
  <2> QED
    BY <2>2, <2>3, <2>4
<1>2. -1 \in -1 .. (MAXINODES - 1)
  BY LFSAssumption
<1> QED
  BY <1>1, <1>2 DEF lookup

\* build_dir_block fills every slot.
LEMMA BuildType ==
  ASSUME NEW first, NEW i \in -1 .. (MAXINODES - 1), NEW q \in -1 .. (MAXINODES - 1)
  PROVE  build_dir_block(first, i, q) \in [Slots -> Entries]
BY LFSAssumption DEF build_dir_block, Entries, Entry, Unused

----------------------------------------------------------------------------
(* A store of blocks below the end nb of the log, reached through im.      *)

KindOf(t) == IF t = MFS_DIRECTORY THEN "dir" ELSE "data"

\* c is an inode whose used pointers lead to blocks below nb, of the kind
\* its type calls for.
GoodInode(c, nb, blk) ==
  /\ c.k = "inode"
  /\ c.type \in {MFS_DIRECTORY, MFS_REGULAR_FILE}
  /\ \A j \in Ptrs : c.used[j] = 1 =>
       c.ptr[j] \in 0 .. (nb - 1) /\ blk[c.ptr[j]].k = KindOf(c.type)

Good(im, nb, blk) ==
  \A i \in Inums : im[i] # -1 => im[i] \in 0 .. (nb - 1) /\ GoodInode(blk[im[i]], nb, blk)

\* No two inode numbers share an inode, and no two used pointers a block.
Apart(im, blk) ==
  /\ \A i, j \in Inums : im[i] # -1 /\ im[i] = im[j] => i = j
  /\ \A i, j \in Inums : \A a, c \in Ptrs :
       /\ im[i] # -1 /\ im[j] # -1
       /\ blk[im[i]].used[a] = 1 /\ blk[im[j]].used[c] = 1
       /\ blk[im[i]].ptr[a] = blk[im[j]].ptr[c]
       => i = j /\ a = c

Stores == [Blocks -> Content]
Imaps  == [Inums -> -1 .. MaxBlock]

\* What a good inode says of a pointer it uses.
LEMMA GoodPtr ==
  ASSUME NEW c, NEW nb, NEW blk, GoodInode(c, nb, blk), NEW j \in Ptrs, c.used[j] = 1
  PROVE  c.ptr[j] \in 0 .. (nb - 1) /\ blk[c.ptr[j]].k = KindOf(c.type)
BY DEF GoodInode

\* A block at or behind the end of the log may be written.
LEMMA GoodFresh ==
  ASSUME NEW im \in Imaps, NEW nb \in Nat, NEW blk \in Stores, Good(im, nb, blk),
         NEW x \in Blocks, x >= nb, NEW c
  PROVE  Good(im, nb, [blk EXCEPT ![x] = c])
BY DEF Good, GoodInode, Imaps, Stores, Blocks

\* A directory block may be written again in place.
LEMMA GoodDir ==
  ASSUME NEW im \in Imaps, NEW nb \in Nat, NEW blk \in Stores, Good(im, nb, blk),
         NEW x \in Blocks, blk[x].k = "dir", NEW c, c.k = "dir", nb - 1 =< MaxBlock
  PROVE  Good(im, nb, [blk EXCEPT ![x] = c])
BY LFSAssumption DEF Good, GoodInode, Imaps, Stores, Blocks, KindOf

\* An inode may be written again in place by a good one.
LEMMA GoodNode ==
  ASSUME NEW im \in Imaps, NEW nb \in Nat, NEW blk \in Stores, Good(im, nb, blk),
         NEW x \in Blocks, blk[x].k = "inode", NEW c, GoodInode(c, nb, blk), nb - 1 =< MaxBlock
  PROVE  Good(im, nb, [blk EXCEPT ![x] = c])
BY LFSAssumption DEF Good, GoodInode, Imaps, Stores, Blocks, KindOf

\* The log may grow.
LEMMA GoodGrow ==
  ASSUME NEW im \in Imaps, NEW nb \in Nat, NEW nc \in Nat, nb =< nc,
         NEW blk, Good(im, nb, blk)
  PROVE  Good(im, nc, blk)
BY DEF Good, GoodInode, Imaps

\* An inode number may be given a good inode, or be freed.
LEMMA GoodMap ==
  ASSUME NEW im \in Imaps, NEW nb \in Nat, NEW blk, Good(im, nb, blk), NEW i, NEW x,
         x = -1 \/ (x \in 0 .. (nb - 1) /\ GoodInode(blk[x], nb, blk))
  PROVE  Good([im EXCEPT ![i] = x], nb, blk)
BY DEF Good, Imaps

\* A write that spares the inodes keeps the files apart.
LEMMA ApartKept ==
  ASSUME NEW im, NEW blk, NEW new, Apart(im, blk), \A i \in Inums : im[i] # -1 => new[im[i]] = blk[im[i]]
  PROVE  Apart(im, new)
BY DEF Apart

\* A block at or behind the end of the log is no inode.
LEMMA ApartFresh ==
  ASSUME NEW im \in Imaps, NEW nb \in Nat, NEW blk \in Stores, Good(im, nb, blk), Apart(im, blk),
         NEW x \in Blocks, x >= nb, NEW c
  PROVE  Apart(im, [blk EXCEPT ![x] = c])
<1> DEFINE new == [blk EXCEPT ![x] = c]
<1>1. \A i \in Inums : im[i] # -1 => new[im[i]] = blk[im[i]]
  BY DEF Good, Imaps, Stores, Blocks
<1> HIDE DEF new
<1>2. Apart(im, new)
  BY <1>1, ApartKept
<1> QED
  BY <1>2 DEF new

\* Neither is a directory block.
LEMMA ApartDir ==
  ASSUME NEW im \in Imaps, NEW nb \in Nat, NEW blk \in Stores, Good(im, nb, blk), Apart(im, blk),
         NEW x \in Blocks, blk[x].k = "dir", NEW c, nb - 1 =< MaxBlock
  PROVE  Apart(im, [blk EXCEPT ![x] = c])
<1> DEFINE new == [blk EXCEPT ![x] = c]
<1>1. \A i \in Inums : im[i] # -1 => new[im[i]] = blk[im[i]]
  BY LFSAssumption DEF Good, GoodInode, Imaps, Stores, Blocks
<1> HIDE DEF new
<1>2. Apart(im, new)
  BY <1>1, ApartKept
<1> QED
  BY <1>2 DEF new

\* An inode may be written in place with one pointer to a new block.
LEMMA ApartNode ==
  ASSUME NEW im \in Imaps, NEW nb \in Nat, NEW blk \in Stores, Good(im, nb, blk), Apart(im, blk),
         NEW p \in Inums, im[p] # -1, im[p] \in Blocks, NEW c, NEW a0 \in Ptrs,
         \A a \in Ptrs : c.used[a] = 1 =>
            \/ blk[im[p]].used[a] = 1 /\ c.ptr[a] = blk[im[p]].ptr[a]
            \/ a = a0 /\ c.ptr[a] >= nb
  PROVE  Apart(im, [blk EXCEPT ![im[p]] = c])
<1> DEFINE new == [blk EXCEPT ![im[p]] = c]
<1>0. \A i, j \in Inums : \A a, d \in Ptrs :
        im[i] # -1 /\ im[j] # -1 /\ blk[im[i]].used[a] = 1 /\ blk[im[j]].used[d] = 1
          /\ blk[im[i]].ptr[a] = blk[im[j]].ptr[d] => i = j /\ a = d
  BY DEF Apart
<1>1. \A i, j \in Inums : im[i] # -1 /\ im[i] = im[j] => i = j
  BY DEF Apart
<1>2. new[im[p]] = c /\ \A i \in Inums : i # p /\ im[i] # -1 => new[im[i]] = blk[im[i]]
  BY <1>1 DEF Stores
<1>3. \A i \in Inums : \A a \in Ptrs : im[i] # -1 /\ blk[im[i]].used[a] = 1 => ~(blk[im[i]].ptr[a] >= nb)
  BY DEF Good, GoodInode
<1> HIDE DEF new
<1>4. ASSUME NEW i \in Inums, NEW a \in Ptrs, im[i] # -1, new[im[i]].used[a] = 1
      PROVE  \/ blk[im[i]].used[a] = 1 /\ new[im[i]].ptr[a] = blk[im[i]].ptr[a]
             \/ i = p /\ a = a0 /\ new[im[i]].ptr[a] >= nb
  BY <1>2, <1>4
<1>5. ASSUME NEW i \in Inums, NEW j \in Inums, NEW a \in Ptrs, NEW d \in Ptrs, im[i] # -1, im[j] # -1,
             new[im[i]].used[a] = 1, new[im[j]].used[d] = 1, new[im[i]].ptr[a] = new[im[j]].ptr[d]
      PROVE  i = j /\ a = d
  <2>1. CASE blk[im[i]].used[a] = 1 /\ new[im[i]].ptr[a] = blk[im[i]].ptr[a]
    <3>1. ~(new[im[j]].ptr[d] >= nb)
      BY <2>1, <1>3, <1>5, Zenon
    <3>2. blk[im[j]].used[d] = 1 /\ new[im[j]].ptr[d] = blk[im[j]].ptr[d]
      BY <3>1, <1>4, <1>5, Zenon
    <3>3. blk[im[i]].used[a] = 1 /\ blk[im[i]].ptr[a] = blk[im[j]].ptr[d]
      BY <2>1, <3>2, <1>5, Zenon
    <3>4. im[i] # -1 /\ im[j] # -1
      BY <1>5
    <3> QED
      BY <3>2, <3>3, <3>4, <1>0
  <2>2. CASE i = p /\ a = a0 /\ new[im[i]].ptr[a] >= nb
    BY <2>2, <1>3, <1>4, <1>5
  <2> QED
    BY <2>1, <2>2, <1>4, <1>5
<1>6. Apart(im, new)
  BY <1>1, <1>5 DEF Apart
<1> QED
  BY <1>6 DEF new

\* A free number may be given an inode at or behind the end of the log, whose
\* one used pointer, if any, leads there too.
LEMMA ApartMap ==
  ASSUME NEW im \in Imaps, NEW nb \in Nat, NEW blk, Good(im, nb, blk), Apart(im, blk),
         NEW p \in Inums, im[p] = -1, NEW x \in Nat, x >= nb,
         \A a \in Ptrs : blk[x].used[a] = 1 => a = 0 /\ blk[x].ptr[a] >= nb
  PROVE  Apart([im EXCEPT ![p] = x], blk)
<1> DEFINE new == [im EXCEPT ![p] = x]
<1>1. new[p] = x /\ \A i \in Inums : i # p => new[i] = im[i]
  BY DEF Imaps
<1>2. \A i \in Inums : im[i] # -1 => im[i] # x
  BY DEF Good
<1>3. \A i \in Inums : \A a \in Ptrs : im[i] # -1 /\ blk[im[i]].used[a] = 1 => ~(blk[im[i]].ptr[a] >= nb)
  BY DEF Good, GoodInode
<1> HIDE DEF new
<1>4. ASSUME NEW i \in Inums, NEW j \in Inums, new[i] # -1, new[i] = new[j] PROVE i = j
  BY <1>1, <1>2, <1>4 DEF Apart
<1>5. ASSUME NEW i \in Inums, NEW j \in Inums, NEW a \in Ptrs, NEW d \in Ptrs, new[i] # -1, new[j] # -1,
             blk[new[i]].used[a] = 1, blk[new[j]].used[d] = 1, blk[new[i]].ptr[a] = blk[new[j]].ptr[d]
      PROVE  i = j /\ a = d
  <2>1. CASE i # p /\ j # p
    BY <2>1, <1>1, <1>5 DEF Apart
  <2>2. CASE i = p /\ j = p
    BY <2>2, <1>1, <1>5
  <2>3. CASE i = p /\ j # p
    BY <2>3, <1>1, <1>3, <1>5
  <2>4. CASE i # p /\ j = p
    BY <2>4, <1>1, <1>3, <1>5
  <2> QED
    BY <2>1, <2>2, <2>3, <2>4
<1>6. Apart(new, blk)
  BY <1>4, <1>5 DEF Apart
<1> QED
  BY <1>6 DEF new

\* A number may be freed.
LEMMA ApartFree ==
  ASSUME NEW im \in Imaps, NEW blk, Apart(im, blk), NEW p
  PROVE  Apart([im EXCEPT ![p] = -1], blk)
<1> DEFINE new == [im EXCEPT ![p] = -1]
<1>1. \A i \in Inums : new[i] # -1 => new[i] = im[i]
  BY DEF Imaps
<1> HIDE DEF new
<1>2. Apart(new, blk)
  BY <1>1 DEF Apart
<1> QED
  BY <1>2 DEF new

----------------------------------------------------------------------------
(* The inductive invariant.                                                *)

DiskType == [exists : BOOLEAN, imap : Imaps, next : Blocks, blk : Stores]

\* An image that a start_server can go on from: a good store below the end
\* of the log.
GoodImage(d) ==
  /\ d \in DiskType /\ d.exists
  /\ Good(d.imap, d.next, d.blk) /\ Apart(d.imap, d.blk)

\* There is such an image once start_server has run, and while the server is
\* up its memory agrees with the checkpoint region.
LogInv ==
  /\ TypeOK
  /\ up => disk.exists /\ disk.imap = imap /\ disk.next = next_block
  /\ disk.exists => Good(disk.imap, disk.next, disk.blk) /\ Apart(disk.imap, disk.blk)

\* What a handler has to leave.
GoodOut(out) ==
  LET last == out.imgs[Len(out.imgs)]
  IN  /\ out.ret \in {-1, 0}
      /\ out.imap \in Imaps /\ out.next \in Blocks
      /\ last \in DiskType /\ last.exists
      /\ last.imap = out.imap /\ last.next = out.next
      /\ Good(out.imap, out.next, last.blk) /\ Apart(out.imap, last.blk)

\* A call that changes nothing keeps the log good.
LEMMA SameGood == ASSUME LogInv, up, NEW r \in {-1, 0} PROVE GoodOut(Same(r))
BY DEF LogInv, TypeOK, GoodOut, Same, Outcome, DiskType, Imaps, Stores

\* A call that commits a good disk keeps the log good.
LEMMA CommitGood ==
  ASSUME LogInv, up, NEW o, NEW out, GoodOut(out), Commit(o, out)
  PROVE  LogInv'
BY LFSAssumption DEF LogInv, TypeOK, GoodOut, Commit, Resp, DiskType, Imaps, Stores

\* The server is killed and leaves one of the images of the handler.
LEMMA CrashGood ==
  ASSUME LogInv, NEW o, NEW out, \A k \in 1 .. (Len(out.imgs) - 1) : GoodImage(out.imgs[k]), CrashIn(o, out)
  PROVE  LogInv'
BY DEF LogInv, TypeOK, CrashIn, GoodImage, DiskType, Imaps, Stores

\* find_inode on an allocated number reads its inode.
LEMMA FindAllocated ==
  ASSUME LogInv, up, NEW i \in Inums, imap[i] # -1
  PROVE  /\ find_inode(i) = {disk.blk[imap[i]]}
         /\ imap[i] \in Blocks /\ imap[i] < next_block
         /\ GoodInode(disk.blk[imap[i]], next_block, disk.blk)
         /\ disk.blk[imap[i]] \in [k : {"inode"}, type : Int, size : Int,
                                    ptr : [Ptrs -> Int], used : [Ptrs -> {0, 1}]]
<1>1. imap[i] \in 0 .. (next_block - 1) /\ GoodInode(disk.blk[imap[i]], next_block, disk.blk)
  BY DEF LogInv, Good
<1>2. imap[i] \in Blocks /\ imap[i] < next_block
  BY <1>1, LFSAssumption DEF LogInv, TypeOK, Blocks
<1>3. disk.blk[imap[i]] \in Content /\ disk.blk[imap[i]].k = "inode"
  BY <1>1, <1>2 DEF LogInv, TypeOK, GoodInode
<1>4. disk.blk[imap[i]] \in [k : {"inode"}, type : Int, size : Int,
                              ptr : [Ptrs -> Int], used : [Ptrs -> {0, 1}]]
  BY <1>3 DEF Content
<1> QED
  BY <1>1, <1>2, <1>3, <1>4 DEF find_inode

\* Put writes one block and nothing else.
LEMMA PutIs ==
  ASSUME NEW d \in DiskType, NEW b \in Blocks, NEW c \in Content
  PROVE  /\ Put(d, b, c) \in DiskType
         /\ Put(d, b, c).blk = [d.blk EXCEPT ![b] = c]
         /\ Put(d, b, c).imap = d.imap /\ Put(d, b, c).next = d.next
         /\ Put(d, b, c).exists = d.exists
BY DEF Put, DiskType, Stores

\* update_CR leaves the blocks alone.
LEMMA CRIs ==
  ASSUME NEW d \in DiskType, NEW i, NEW b \in -1 .. MaxBlock, NEW m \in Blocks
  PROVE  /\ CRNext(CRImap(d, i, b), m) \in DiskType
         /\ CRNext(CRImap(d, i, b), m).blk = d.blk
         /\ CRNext(CRImap(d, i, b), m).exists = d.exists
         /\ CRNext(CRImap(d, i, b), m).imap = [d.imap EXCEPT ![i] = b]
         /\ CRNext(CRImap(d, i, b), m).next = m
BY DEF CRNext, CRImap, DiskType, Imaps

\* A change of one inode keeps the type of the inode map.
LEMMA MapType ==
  ASSUME NEW im \in Imaps, NEW i, NEW x \in -1 .. MaxBlock
  PROVE  [im EXCEPT ![i] = x] \in Imaps
BY DEF Imaps

----------------------------------------------------------------------------
(* The handlers.                                                           *)

\* write_server appends the data and updates the inode in place.
LEMMA WriteGood ==
  ASSUME LogInv, up, HasRoom, NEW i \in Inums, imap[i] # -1, NEW v \in Data,
         NEW block \in Int, NEW node \in find_inode(i)
  PROVE  GoodOut(WriteOut(i, v, block, node))
<1> USE DEF AppendBlock
<1> DEFINE new == AppendBlock(node, IF block + 1 > node.size THEN block + 1 ELSE node.size,
                              block)
           d1  == Put(disk, next_block, DataBlk(v))
           d2  == Put(d1, imap[i], new)
           d4  == CRNext(CRImap(d2, i, imap[i]), next_block + 1)
<1>0. CASE node.type # MFS_REGULAR_FILE \/ block \notin Ptrs
  BY <1>0, SameGood DEF WriteOut
<1>1. CASE node.type = MFS_REGULAR_FILE /\ block \in Ptrs
  <2>1. /\ node = disk.blk[imap[i]]
        /\ imap[i] \in Blocks /\ imap[i] < next_block
        /\ GoodInode(node, next_block, disk.blk)
        /\ node \in [k : {"inode"}, type : Int, size : Int,
                     ptr : [Ptrs -> Int], used : [Ptrs -> {0, 1}]]
    BY FindAllocated
  <2>2. /\ next_block \in Blocks /\ next_block + 1 \in Blocks /\ next_block \in Nat
        /\ disk \in DiskType /\ disk.imap = imap /\ imap \in Imaps /\ disk.exists
        /\ Good(imap, next_block, disk.blk)
    BY LFSAssumption DEF LogInv, TypeOK, DiskType, Imaps, Stores, HasRoom, Blocks
  <2>3. DataBlk(v) \in Content /\ DataBlk(v).k = "data"
    BY DEF DataBlk, Content
  <2>4. /\ d1 \in DiskType /\ d1.blk = [disk.blk EXCEPT ![next_block] = DataBlk(v)]
        /\ d1.imap = imap /\ d1.exists
    BY <2>2, <2>3, PutIs
  <2>5. new \in Content
    BY <1>1, <2>1, <2>2 DEF Inode, Content
  <2>6. GoodInode(new, next_block + 1, d1.blk)
    <3>1. new.k = "inode" /\ new.type = MFS_REGULAR_FILE
      BY <1>1 DEF Inode
    <3>2. ASSUME NEW j \in Ptrs, new.used[j] = 1
          PROVE  new.ptr[j] \in 0 .. next_block /\ d1.blk[new.ptr[j]].k = "data"
      <4>1. CASE j = block
        BY <4>1, <1>1, <2>1, <2>2, <2>3, <2>4 DEF Inode, DiskType, Stores
      <4>2. CASE j # block
        <5>1. node.used[j] = 1 /\ new.ptr[j] = node.ptr[j]
          BY <4>2, <3>2, <2>1 DEF Inode
        <5>2. node.ptr[j] \in 0 .. (next_block - 1) /\ disk.blk[node.ptr[j]].k = "data"
          <6>1. KindOf(node.type) = "data"
            BY <1>1 DEF KindOf, MFS_DIRECTORY, MFS_REGULAR_FILE
          <6> QED
            BY <5>1, <6>1, <2>1, GoodPtr, SMTT(40)
        <5> QED
          BY <5>1, <5>2, <2>2, <2>4 DEF Blocks, DiskType, Stores
      <4> QED
        BY <4>1, <4>2
    <3> QED
      BY <2>2, <3>1, <3>2 DEF GoodInode, KindOf, MFS_DIRECTORY, MFS_REGULAR_FILE
  <2> HIDE DEF new, d1
  <2>7. Good(imap, next_block + 1, d1.blk)
    <3>1. Good(imap, next_block, d1.blk)
      BY <2>2, <2>4, GoodFresh DEF DiskType
    <3> QED
      BY <2>2, <3>1, GoodGrow
  <2>8. /\ d2 \in DiskType /\ d2.blk = [d1.blk EXCEPT ![imap[i]] = new]
        /\ d2.imap = imap /\ d2.exists
    BY <2>1, <2>4, <2>5, PutIs
  <2>9. Good(imap, next_block + 1, d2.blk)
    <3>1. d1.blk[imap[i]].k = "inode"
      BY <2>1, <2>2, <2>4 DEF DiskType, Stores, GoodInode, Blocks
    <3>2. d1.blk \in Stores /\ (next_block + 1) - 1 =< MaxBlock /\ next_block + 1 \in Nat
      BY <2>2, <2>4, LFSAssumption DEF DiskType, Blocks
    <3>3. Good(imap, next_block + 1, [d1.blk EXCEPT ![imap[i]] = new])
      BY <2>1, <2>2, <2>6, <2>7, <3>1, <3>2, GoodNode, Zenon
    <3> QED
      BY <2>8, <3>3
  <2>a. Apart(imap, d2.blk)
    <3>1. Good(imap, next_block, d1.blk) /\ Apart(imap, d1.blk)
      <4>1. Apart(imap, disk.blk) /\ disk.blk \in Stores /\ next_block >= next_block
        BY <2>2 DEF LogInv, DiskType
      <4>2. /\ Good(imap, next_block, [disk.blk EXCEPT ![next_block] = DataBlk(v)])
            /\ Apart(imap, [disk.blk EXCEPT ![next_block] = DataBlk(v)])
        BY <2>2, <4>1, GoodFresh, ApartFresh, Zenon
      <4> QED
        BY <2>4, <4>2, Zenon
    <3>2. d1.blk \in Stores /\ d1.blk[imap[i]] = node
      <4>1. d1.blk \in Stores /\ disk.blk \in Stores
        BY <2>2, <2>4 DEF DiskType
      <4>2. imap[i] # next_block
        BY <2>1, <2>2 DEF Blocks
      <4> QED
        BY <2>1, <2>4, <4>1, <4>2 DEF Stores
    <3>3. \A a \in Ptrs : new.used[a] = 1 =>
            \/ d1.blk[imap[i]].used[a] = 1 /\ new.ptr[a] = d1.blk[imap[i]].ptr[a]
            \/ a = block /\ new.ptr[a] >= next_block
      BY <1>1, <2>1, <2>2, <3>2 DEF new, Inode
    <3>4. Apart(imap, [d1.blk EXCEPT ![imap[i]] = new])
      BY <1>1, <2>1, <2>2, <3>1, <3>2, <3>3, ApartNode, ZenonT(40)
    <3> QED
      BY <2>8, <3>4
  <2> HIDE DEF d2
  <2>10. /\ d4 \in DiskType /\ d4.blk = d2.blk /\ d4.exists
         /\ d4.imap = imap /\ d4.next = next_block + 1
    <3>1. imap[i] \in -1 .. MaxBlock /\ [imap EXCEPT ![i] = imap[i]] = imap
      BY <2>2 DEF Imaps
    <3> QED
      BY <2>2, <2>8, <3>1, CRIs
  <2> HIDE DEF d4
  <2>11. /\ WriteOut(i, v, block, node).ret = 0
         /\ WriteOut(i, v, block, node).imap = imap
         /\ WriteOut(i, v, block, node).next = next_block + 1
         /\ WriteOut(i, v, block, node).imgs[Len(WriteOut(i, v, block, node).imgs)] = d4
    BY <1>1 DEF WriteOut, Outcome, d4, d2, d1, new
  <2> QED
    BY <2>2, <2>9, <2>a, <2>10, <2>11 DEF GoodOut
<1> QED
  BY <1>0, <1>1

\* A name is found by DirAt only in a block that holds a directory.
LEMMA NamedBlock ==
  ASSUME NEW b, NEW e \in Slots, NEW name \in Names, "?" \notin Names, DirAt(b)[e].name = name
  PROVE  b \in Blocks /\ disk.blk[b].k = "dir"
BY DEF DirAt, NotADir, Entry

\* unlink_server clears the entry in place and frees the inode number.
LEMMA UnlinkGood ==
  ASSUME LogInv, up, Tidy, NEW pinode, NEW name \in Names, NEW i, NEW node
  PROVE  /\ GoodOut(UnlinkOut(pinode, name, i, node))
         /\ \A k \in 1 .. (Len(UnlinkOut(pinode, name, i, node).imgs) - 1) :
              GoodImage(UnlinkOut(pinode, name, i, node).imgs[k])
<1> DEFINE direct == DirAt(pinode.ptr[0])
           named  == \E j \in Slots : direct[j].name = name
           cleared == DirBlk(RemoveName(direct, name))
           d1 == IF named THEN Put(disk, pinode.ptr[0], cleared) ELSE disk
           d3 == CRNext(CRImap(d1, i, -1), next_block)
<1>0. CASE named /\ NotEmpty(node)
  <2>1. UnlinkOut(pinode, name, i, node) = Same(-1)
    BY <1>0 DEF UnlinkOut
  <2>2. Len(Same(-1).imgs) = 1
    BY DEF Same, Outcome
  <2>3. \A n : n = 1 => \A k \in 1 .. (n - 1) : FALSE
    OBVIOUS
  <2>4. \A k \in 1 .. (Len(Same(-1).imgs) - 1) : FALSE
    BY <2>2, <2>3, Zenon
  <2> QED
    BY <2>1, <2>4, SameGood
<1>1. CASE ~(named /\ NotEmpty(node))
  <2>1. /\ next_block \in Blocks /\ next_block \in Nat /\ next_block - 1 =< MaxBlock
        /\ disk \in DiskType /\ disk.imap = imap /\ imap \in Imaps /\ disk.exists
        /\ Good(imap, next_block, disk.blk) /\ Apart(imap, disk.blk) /\ disk.next = next_block
    BY LFSAssumption DEF LogInv, TypeOK, DiskType, Imaps, Stores, Blocks
  <2>2. /\ d1 \in DiskType /\ d1.imap = imap /\ d1.next = next_block /\ d1.exists
        /\ Good(imap, next_block, d1.blk) /\ Apart(imap, d1.blk)
    <3>1. CASE ~named
      BY <3>1, <2>1
    <3>2. CASE named
      <4>1. pinode.ptr[0] \in Blocks /\ disk.blk[pinode.ptr[0]].k = "dir"
        BY <3>2, NamedBlock DEF Tidy
      <4>2. cleared \in Content /\ cleared.k = "dir"
        <5>1. direct \in [Slots -> Entries]
          BY DirAtType DEF LogInv
        <5>2. Unused \in Entries
          BY LFSAssumption DEF Unused, Entry, Entries
        <5> HIDE DEF direct
        <5>3. RemoveName(direct, name) \in [Slots -> Entries]
          BY <5>1, <5>2 DEF RemoveName
        <5> QED
          BY <5>3 DEF DirBlk, Content
      <4> HIDE DEF cleared, named
      <4>3. d1 = Put(disk, pinode.ptr[0], cleared)
        BY <3>2
      <4> HIDE DEF d1
      <4>4. /\ d1 \in DiskType /\ d1.imap = imap /\ d1.next = next_block /\ d1.exists
            /\ d1.blk = [disk.blk EXCEPT ![pinode.ptr[0]] = cleared]
        <5>1. /\ d1 \in DiskType /\ d1.imap = disk.imap /\ d1.next = disk.next
              /\ d1.exists = disk.exists /\ d1.blk = [disk.blk EXCEPT ![pinode.ptr[0]] = cleared]
          <6>1. PICK w : w = pinode.ptr[0]
            OBVIOUS
          <6>2. disk \in DiskType /\ w \in Blocks /\ cleared \in Content /\ d1 = Put(disk, w, cleared)
            BY <2>1, <4>1, <4>2, <4>3, <6>1
          <6>3. /\ d1 \in DiskType /\ d1.imap = disk.imap /\ d1.next = disk.next
                /\ d1.exists = disk.exists /\ d1.blk = [disk.blk EXCEPT ![w] = cleared]
            BY <6>2, PutIs, Zenon
          <6> QED
            BY <6>1, <6>3
        <5> QED
          BY <2>1, <5>1
      <4>5. /\ Good(imap, next_block, [disk.blk EXCEPT ![pinode.ptr[0]] = cleared])
            /\ Apart(imap, [disk.blk EXCEPT ![pinode.ptr[0]] = cleared])
        <5>1. disk.blk \in Stores
          BY <2>1 DEF DiskType
        <5> QED
          BY <2>1, <4>1, <4>2, <5>1, GoodDir, ApartDir, Zenon
      <4> QED
        BY <4>4, <4>5
    <3> QED
      BY <3>1, <3>2
  <2> HIDE DEF d1
  <2>3. /\ d3 \in DiskType /\ d3.blk = d1.blk /\ d3.exists
        /\ d3.imap = [imap EXCEPT ![i] = -1] /\ d3.next = next_block
    <3>1. -1 \in -1 .. MaxBlock
      BY LFSAssumption
    <3>2. /\ d3 \in DiskType /\ d3.blk = d1.blk /\ d3.exists = d1.exists
          /\ d3.imap = [d1.imap EXCEPT ![i] = -1] /\ d3.next = next_block
      BY <2>1, <2>2, <3>1 DEF CRNext, CRImap, DiskType, Imaps
    <3> HIDE DEF d3
    <3> QED
      BY <2>2, <3>2
  <2>4. [imap EXCEPT ![i] = -1] \in Imaps
    <3>1. -1 \in -1 .. MaxBlock
      BY LFSAssumption
    <3> QED
      BY <2>1, <3>1, MapType, Zenon
  <2>5. Good([imap EXCEPT ![i] = -1], next_block, d1.blk) /\ Apart([imap EXCEPT ![i] = -1], d1.blk)
    BY <2>1, <2>2, GoodMap, ApartFree, Zenon
  <2> DEFINE d2 == CRImap(d1, i, -1)
  <2>a. /\ d2 \in DiskType /\ d2.blk = d1.blk /\ d2.exists
        /\ d2.imap = [imap EXCEPT ![i] = -1] /\ d2.next = next_block
    <3>1. -1 \in -1 .. MaxBlock
      BY LFSAssumption
    <3>2. /\ d2 \in DiskType /\ d2.blk = d1.blk /\ d2.exists = d1.exists
          /\ d2.imap = [d1.imap EXCEPT ![i] = -1] /\ d2.next = d1.next
      BY <2>2, <3>1 DEF CRImap, DiskType, Imaps
    <3> HIDE DEF d2
    <3> QED
      BY <2>2, <3>2
  <2>b. GoodImage(disk) /\ GoodImage(d1) /\ GoodImage(d2)
    <3> HIDE DEF d2
    <3> QED
      BY <2>1, <2>2, <2>5, <2>a DEF GoodImage
  <2>c. UnlinkOut(pinode, name, i, node).imgs = <<disk, d1, d2, d3>>
    BY <1>1 DEF UnlinkOut, Outcome, d1
  <2> HIDE DEF d2
  <2> HIDE DEF d3
  <2>d. \A k \in 1 .. (Len(UnlinkOut(pinode, name, i, node).imgs) - 1) :
          GoodImage(UnlinkOut(pinode, name, i, node).imgs[k])
    BY <2>b, <2>c
  <2>6. /\ UnlinkOut(pinode, name, i, node).ret = 0
        /\ UnlinkOut(pinode, name, i, node).imap = [imap EXCEPT ![i] = -1]
        /\ UnlinkOut(pinode, name, i, node).next = next_block
        /\ UnlinkOut(pinode, name, i, node).imgs[Len(UnlinkOut(pinode, name, i, node).imgs)] = d3
    BY <1>1 DEF UnlinkOut, Outcome, d3, d1
  <2> QED
    BY <2>1, <2>3, <2>4, <2>5, <2>6, <2>d DEF GoodOut
<1> QED
  BY <1>0, <1>1

\* creat_server: the entry goes into the first directory block with room,
\* which may have to be appended, and then the new inode is appended.
LEMMA CreatGood ==
  ASSUME LogInv, up, HasRoom, Tidy, NEW p \in Inums, imap[p] # -1, NEW t \in Types,
         NEW name \in Names, NEW parent \in find_inode(p), NEW found
  PROVE  GoodOut(CreatOut(p, t, name, parent, found))
<1> DEFINE free  == {i \in Inums : imap[i] = -1}
           inum  == Min(free)
           room  == {b \in Ptrs : \/ parent.used[b] = 0
                                  \/ \E e \in Slots : DirAt(parent.ptr[b])[e].inum = -1}
           b     == Min(room)
           grown == parent.used[b] = 0
           par   == IF grown THEN AppendBlock(parent, parent.size + 1, b) ELSE parent
           nb1   == IF grown THEN next_block + 1 ELSE next_block
           ents  == IF grown THEN build_dir_block(FALSE, inum, -1)
                             ELSE DirAt(parent.ptr[b])
           e     == Min({x \in Slots : ents[x].inum = -1})
           parAt == IF imap[p] # -1 THEN imap[p] ELSE par.ptr[b] + 1
           isdir == t = MFS_DIRECTORY
           nb2   == IF isdir THEN nb1 + 1 ELSE nb1
           none  == [j \in Ptrs |-> -1]
           zero  == [j \in Ptrs |-> 0]
           node  == IF isdir
                    THEN Inode(t, 1, [none EXCEPT ![0] = nb1], [zero EXCEPT ![0] = 1])
                    ELSE Inode(t, 0, none, zero)
           entry == DirBlk([ents EXCEPT ![e] = Entry(name, inum)])
           dots  == DirBlk(build_dir_block(TRUE, inum, p))
           d1 == IF grown THEN Put(disk, next_block, DirBlk(ents)) ELSE disk
           d2 == Put(d1, parAt, par)
           d3 == Put(d2, par.ptr[b], entry)
           d4 == IF isdir THEN Put(d3, nb1, dots) ELSE d3
           d5 == Put(d4, nb2, node)
           d6 == CRImap(d5, inum, nb2)
           d7 == CRNext(d6, nb2 + 1)
           out == CreatOut(p, t, name, parent, found)
<1>a. CASE parent.type # MFS_DIRECTORY \/ found # -1 \/ free = {} \/ room = {}
  <2>1. out = Same(-1) \/ out = Same(0)
    BY <1>a DEF CreatOut
  <2> QED
    BY <2>1, SameGood
<1>b. CASE ~(parent.type # MFS_DIRECTORY \/ found # -1 \/ free = {} \/ room = {})
  <2>out. /\ out.ret = 0 /\ out.imap = [imap EXCEPT ![inum] = nb2] /\ out.next = nb2 + 1
          /\ out.imgs[Len(out.imgs)] = d7
    <3>1. out = IF parent.type # MFS_DIRECTORY THEN Same(-1)
                ELSE IF found # -1 THEN Same(0)
                ELSE IF free = {} \/ room = {} THEN Same(-1)
                ELSE IF t \notin {MFS_DIRECTORY, MFS_REGULAR_FILE}
                THEN Outcome(-1, imap, nb1, <<disk, d1, d2, d3>>)
                ELSE Outcome(0, [imap EXCEPT ![inum] = nb2], nb2 + 1,
                             <<disk, d1, d2, d3, d4, d5, d6, d7>>)
      BY Zenon DEF CreatOut
    <3>2. t \in {MFS_DIRECTORY, MFS_REGULAR_FILE}
      BY DEF Tidy
    <3> HIDE DEF out, free, room, inum, nb1, nb2, d1, d2, d3, d4, d5, d6, d7
    <3>3. out = Outcome(0, [imap EXCEPT ![inum] = nb2], nb2 + 1,
                        <<disk, d1, d2, d3, d4, d5, d6, d7>>)
      BY <1>b, <3>1, <3>2
    <3> QED
      BY <3>3 DEF Outcome
  <2>1. /\ parent = disk.blk[imap[p]]
        /\ imap[p] \in Blocks /\ imap[p] < next_block
        /\ GoodInode(parent, next_block, disk.blk)
        /\ parent \in [k : {"inode"}, type : Int, size : Int,
                       ptr : [Ptrs -> Int], used : [Ptrs -> {0, 1}]]
    BY FindAllocated
  <2>2. /\ next_block \in Blocks /\ next_block + 1 \in Blocks /\ next_block + 2 \in Blocks
        /\ next_block + 3 \in Blocks /\ next_block \in Nat
        /\ disk \in DiskType /\ disk.imap = imap /\ imap \in Imaps /\ disk.exists
        /\ Good(imap, next_block, disk.blk) /\ Apart(imap, disk.blk)
    BY LFSAssumption DEF LogInv, TypeOK, DiskType, Imaps, Stores, HasRoom, Blocks
  <2>3. inum \in Inums /\ b \in Ptrs /\ imap[inum] = -1
    <3>1. free \in SUBSET Nat /\ room \in SUBSET Nat /\ free \in SUBSET Inums /\ room \in SUBSET Ptrs
          /\ \A i \in free : imap[i] = -1
      BY LFSAssumption DEF Inums, Ptrs
    <3> HIDE DEF free, room
    <3>2. inum \in free /\ b \in room
      BY <1>b, <3>1, MinIn
    <3> QED
      BY <3>1, <3>2
  <2> HIDE DEF inum, b
  <2>4. /\ nb1 \in {next_block, next_block + 1} /\ nb2 \in {nb1, nb1 + 1}
        /\ nb1 \in Nat /\ nb2 \in Nat /\ nb1 \in Blocks /\ nb2 \in Blocks /\ nb2 + 1 \in Blocks
        /\ next_block =< nb1 /\ nb1 =< nb2 /\ nb1 + 1 \in Blocks
    BY <2>2
  <2>5. ents \in [Slots -> Entries]
    <3>1. inum \in -1 .. (MAXINODES - 1) /\ -1 \in -1 .. (MAXINODES - 1)
      BY <2>3, LFSAssumption DEF Inums
    <3>2. build_dir_block(FALSE, inum, -1) \in [Slots -> Entries]
      BY <3>1, LFSAssumption DEF build_dir_block, Entries, Entry, Unused
    <3> QED
      BY <3>2, DirAtType DEF LogInv
  <2> HIDE DEF ents
  <2>6. /\ DirBlk(ents) \in Content /\ DirBlk(ents).k = "dir"
        /\ entry \in Content /\ entry.k = "dir"
        /\ dots \in Content /\ dots.k = "dir"
    <3>1. Entry(name, inum) \in Entries
      <4>1. inum \in -1 .. (MAXINODES - 1)
        BY <2>3, LFSAssumption DEF Inums
      <4> QED
        BY <4>1 DEF Entry, Entries
    <3>2. [ents EXCEPT ![e] = Entry(name, inum)] \in [Slots -> Entries]
      <4> HIDE DEF e
      <4> QED
        BY <2>5, <3>1
    <3>3. build_dir_block(TRUE, inum, p) \in [Slots -> Entries]
      <4>1. inum \in -1 .. (MAXINODES - 1) /\ p \in -1 .. (MAXINODES - 1)
        BY <2>3, LFSAssumption DEF Inums
      <4> QED
        BY <4>1, BuildType
    <3>4. \A f \in [Slots -> Entries] : DirBlk(f) \in Content /\ DirBlk(f).k = "dir"
      BY DEF DirBlk, Content
    <3> QED
      BY <2>5, <3>2, <3>3, <3>4, Zenon
  <2> HIDE DEF entry, dots
  <2>7. /\ d1 \in DiskType /\ d1.imap = imap /\ d1.exists
        /\ Good(imap, nb1, d1.blk) /\ Good(imap, next_block, d1.blk) /\ Apart(imap, d1.blk)
        /\ d1.blk = IF grown THEN [disk.blk EXCEPT ![next_block] = DirBlk(ents)] ELSE disk.blk
    <3>1. CASE ~grown
      BY <3>1, <2>2
    <3>2. CASE grown
      <4>1. /\ d1 \in DiskType /\ d1.imap = imap /\ d1.exists
            /\ d1.blk = [disk.blk EXCEPT ![next_block] = DirBlk(ents)]
        BY <3>2, <2>2, <2>6, PutIs
      <4>2. /\ Good(imap, next_block, [disk.blk EXCEPT ![next_block] = DirBlk(ents)])
            /\ Apart(imap, [disk.blk EXCEPT ![next_block] = DirBlk(ents)])
        BY <2>2, GoodFresh, ApartFresh DEF DiskType
      <4>3. Good(imap, nb1, [disk.blk EXCEPT ![next_block] = DirBlk(ents)])
        BY <3>2, <2>2, <2>4, <4>2, GoodGrow
      <4> QED
        BY <3>2, <4>1, <4>2, <4>3
    <3> QED
      BY <3>1, <3>2
  <2> HIDE DEF d1
  <2>8. /\ par \in [k : {"inode"}, type : Int, size : Int,
                    ptr : [Ptrs -> Int], used : [Ptrs -> {0, 1}]]
        /\ par \in Content /\ par.type = MFS_DIRECTORY
        /\ par.used[b] = 1
    <3>1. CASE grown
      <4>0. /\ parent.ptr \in [Ptrs -> Int] /\ next_block \in Int
            /\ parent.used \in [Ptrs -> {0, 1}]
        BY <2>1, <2>2
      <4>1. [parent.ptr EXCEPT ![b] = next_block] \in [Ptrs -> Int]
        BY <4>0
      <4>2. /\ [parent.used EXCEPT ![b] = 1] \in [Ptrs -> {0, 1}]
            /\ [parent.used EXCEPT ![b] = 1][b] = 1
        BY <4>0, <2>3
      <4>3. par = Inode(parent.type, parent.size + 1, [parent.ptr EXCEPT ![b] = next_block],
                        [parent.used EXCEPT ![b] = 1])
        BY <3>1 DEF AppendBlock
      <4>4. parent.type \in Int /\ parent.size + 1 \in Int
        BY <2>1
      <4> HIDE DEF par
      <4> QED
        BY <1>b, <4>1, <4>2, <4>3, <4>4 DEF Inode, Content
    <3>2. CASE ~grown
      BY <3>2, <1>b, <2>1, <2>3 DEF Content
    <3> QED
      BY <3>1, <3>2
  <2>9. /\ par.ptr[b] \in 0 .. (nb1 - 1) /\ d1.blk[par.ptr[b]].k = "dir"
        /\ GoodInode(par, nb1, d1.blk)
    <3>0. KindOf(parent.type) = "dir" /\ KindOf(par.type) = "dir"
      BY <1>b, <2>8 DEF KindOf
    <3>1. CASE ~grown
      <4>1. par = parent /\ nb1 = next_block /\ d1.blk = disk.blk /\ parent.used[b] = 1
        BY <3>1, <2>7, <2>8
      <4> HIDE DEF par, nb1
      <4> QED
        BY <2>1, <2>3, <3>0, <4>1, GoodPtr
    <3>2. CASE grown
      <4>1. /\ nb1 = next_block + 1
            /\ d1.blk = [disk.blk EXCEPT ![next_block] = DirBlk(ents)]
            /\ par.ptr = [parent.ptr EXCEPT ![b] = next_block]
            /\ par.used = [parent.used EXCEPT ![b] = 1]
        BY <3>2, <2>7 DEF Inode, AppendBlock
      <4> HIDE DEF par, nb1
      <4>2. disk.blk \in [Blocks -> Content]
        BY <2>2 DEF DiskType, Stores
      <4>3. par.ptr[b] = next_block /\ d1.blk[next_block] = DirBlk(ents)
        BY <2>1, <2>2, <2>3, <4>1, <4>2
      <4>4. ASSUME NEW j \in Ptrs, par.used[j] = 1, j # b
            PROVE  par.ptr[j] \in 0 .. (nb1 - 1) /\ d1.blk[par.ptr[j]].k = "dir"
        <5>1. parent.used[j] = 1 /\ par.ptr[j] = parent.ptr[j]
          BY <4>4, <4>1, <2>1
        <5>2. parent.ptr[j] \in 0 .. (next_block - 1) /\ disk.blk[parent.ptr[j]].k = "dir"
          BY <5>1, <3>0, <2>1, GoodPtr
        <5>3. parent.ptr[j] # next_block /\ parent.ptr[j] \in 0 .. (nb1 - 1)
          BY <5>2, <4>1, <2>2
        <5> QED
          BY <5>1, <5>2, <5>3, <4>1, <4>2
      <4>5. next_block \in 0 .. (nb1 - 1)
        BY <4>1, <2>2
      <4>6. \A j \in Ptrs : par.used[j] = 1 =>
              par.ptr[j] \in 0 .. (nb1 - 1) /\ d1.blk[par.ptr[j]].k = "dir"
        BY <4>3, <4>4, <4>5, <2>6
      <4> QED
        BY <4>3, <4>5, <4>6, <2>6, <2>8, <3>0 DEF GoodInode
    <3> QED
      BY <3>1, <3>2
  <2>10. parAt = imap[p] /\ d1.blk[imap[p]].k = "inode" /\ nb1 - 1 =< MaxBlock /\ d1.blk \in Stores
    <3>1. d1.blk[imap[p]] = disk.blk[imap[p]]
      BY <2>1, <2>2, <2>7 DEF DiskType, Stores
    <3>2. nb1 - 1 =< MaxBlock
      BY <2>4, LFSAssumption DEF Blocks
    <3>3. parAt = imap[p]
      OBVIOUS
    <3> QED
      BY <2>1, <2>7, <3>1, <3>2, <3>3 DEF DiskType
  <2>b. d1.blk[imap[p]] = parent
    BY <2>1, <2>2, <2>7 DEF DiskType, Stores
  <2>a. \A a \in Ptrs : par.used[a] = 1 =>
          \/ d1.blk[imap[p]].used[a] = 1 /\ par.ptr[a] = d1.blk[imap[p]].ptr[a]
          \/ a = b /\ par.ptr[a] >= next_block
    BY <2>1, <2>2, <2>3, <2>b DEF AppendBlock, Inode
  <2> HIDE DEF par, nb1, parAt
  <2>11. /\ d2 \in DiskType /\ d2.blk = [d1.blk EXCEPT ![imap[p]] = par]
         /\ d2.imap = imap /\ d2.exists
    BY <2>1, <2>7, <2>8, <2>10, PutIs, SMTT(40)
  <2>12. Good(imap, nb1, d2.blk) /\ Apart(imap, d2.blk)
    <3>1. Good(imap, nb1, [d1.blk EXCEPT ![imap[p]] = par])
      BY <2>1, <2>2, <2>4, <2>7, <2>9, <2>10, GoodNode, Zenon
    <3>2. Apart(imap, [d1.blk EXCEPT ![imap[p]] = par])
      <4>1. /\ imap \in Imaps /\ next_block \in Nat /\ d1.blk \in Stores /\ p \in Inums
            /\ imap[p] # -1 /\ imap[p] \in Blocks /\ b \in Ptrs
            /\ Good(imap, next_block, d1.blk) /\ Apart(imap, d1.blk)
        BY <2>1, <2>2, <2>3, <2>7, <2>10
      <4> HIDE DEF d2, d3, d4, d5, d6, d7, out, node, b
      <4> QED
        BY <4>1, <2>a, ApartNode, ZenonT(40)
    <3> QED
      BY <2>11, <3>1, <3>2, Zenon
  <2>13. par.ptr[b] \in Blocks /\ d2.blk[par.ptr[b]].k = "dir" /\ d2.blk \in Stores
    <3>1. par.ptr[b] \in Blocks
      BY <2>9, <2>10, <2>4, LFSAssumption DEF Blocks
    <3>2. par.ptr[b] # imap[p]
      BY <2>9, <2>10
    <3> QED
      BY <2>9, <2>10, <2>11, <3>1, <3>2 DEF DiskType, Stores
  <2> HIDE DEF d2
  <2>14. /\ d3 \in DiskType /\ d3.blk = [d2.blk EXCEPT ![par.ptr[b]] = entry]
         /\ d3.imap = imap /\ d3.exists
    BY <2>6, <2>11, <2>13, PutIs
  <2>15. Good(imap, nb1, d3.blk) /\ Apart(imap, d3.blk)
    <3>1. /\ Good(imap, nb1, [d2.blk EXCEPT ![par.ptr[b]] = entry])
          /\ Apart(imap, [d2.blk EXCEPT ![par.ptr[b]] = entry])
      BY <2>2, <2>4, <2>6, <2>10, <2>12, <2>13, GoodDir, ApartDir, Zenon
    <3> QED
      BY <2>14, <3>1, Zenon
  <2> HIDE DEF d3
  <2>16. /\ d4 \in DiskType /\ d4.imap = imap /\ d4.exists
         /\ Good(imap, nb2, d4.blk) /\ Good(imap, nb1, d4.blk) /\ Apart(imap, d4.blk)
         /\ isdir => d4.blk[nb1] = dots /\ nb2 = nb1 + 1
    <3>1. CASE ~isdir
      BY <3>1, <2>14, <2>15
    <3>2. CASE isdir
      <4>1. d4 = Put(d3, nb1, dots) /\ nb2 = nb1 + 1
        BY <3>2
      <4> HIDE DEF d4, nb2, isdir
      <4>2. /\ d4 \in DiskType /\ d4.imap = imap /\ d4.exists
            /\ d4.blk = [d3.blk EXCEPT ![nb1] = dots]
        BY <4>1, <2>4, <2>6, <2>14, PutIs
      <4>3. d3.blk \in Stores /\ nb1 >= nb1
        BY <2>4, <2>14 DEF DiskType
      <4>4. Good(imap, nb1, d4.blk) /\ Apart(imap, d4.blk)
        <5>1. Good(imap, nb1, [d3.blk EXCEPT ![nb1] = dots]) /\ Apart(imap, [d3.blk EXCEPT ![nb1] = dots])
          BY <4>3, <2>2, <2>4, <2>15, GoodFresh, ApartFresh, Zenon
        <5> QED
          BY <4>2, <5>1, Zenon
      <4>5. Good(imap, nb2, d4.blk)
        BY <4>4, <2>2, <2>4, GoodGrow
      <4>6. d4.blk[nb1] = dots
        BY <4>2, <4>3, <2>4 DEF Stores
      <4> QED
        BY <4>1, <4>2, <4>4, <4>5, <4>6
    <3> QED
      BY <3>1, <3>2
  <2>17. node \in Content
    <3>1. CASE isdir
      <4>1. node = Inode(MFS_DIRECTORY, 1, [none EXCEPT ![0] = nb1], [zero EXCEPT ![0] = 1])
        BY <3>1
      <4>2. [none EXCEPT ![0] = nb1] \in [Ptrs -> Int] /\ [zero EXCEPT ![0] = 1] \in [Ptrs -> {0, 1}]
        <5>1. none \in [Ptrs -> Int] /\ zero \in [Ptrs -> {0, 1}] /\ nb1 \in Int
          BY <2>4
        <5> HIDE DEF none, zero
        <5> QED
          BY <5>1
      <4> HIDE DEF node, none, zero
      <4> QED
        BY <4>1, <4>2 DEF Inode, Content, MFS_DIRECTORY
    <3>2. CASE ~isdir
      <4>1. node = Inode(MFS_REGULAR_FILE, 0, none, zero)
        BY <3>2 DEF Tidy
      <4>2. none \in [Ptrs -> Int] /\ zero \in [Ptrs -> {0, 1}]
        OBVIOUS
      <4> HIDE DEF node, none, zero
      <4> QED
        BY <4>1, <4>2 DEF Inode, Content, MFS_REGULAR_FILE
    <3> QED
      BY <3>1, <3>2
  <2>18. GoodInode(node, nb2 + 1, [d4.blk EXCEPT ![nb2] = node])
    <3>1. CASE isdir
      <4>1. node = Inode(MFS_DIRECTORY, 1, [none EXCEPT ![0] = nb1], [zero EXCEPT ![0] = 1])
        BY <3>1
      <4>2. 0 \in Ptrs
        BY LFSAssumption DEF Ptrs
      <4>3. [none EXCEPT ![0] = nb1][0] = nb1 /\ \A j \in Ptrs : [zero EXCEPT ![0] = 1][j] = 1 => j = 0
        BY <4>2
      <4>4. nb1 \in 0 .. nb2 /\ [d4.blk EXCEPT ![nb2] = node][nb1].k = "dir"
        <5>1. nb1 # nb2 /\ nb1 \in 0 .. nb2 /\ d4.blk \in Stores
          BY <3>1, <2>4, <2>16 DEF DiskType
        <5>2. d4.blk[nb1].k = "dir"
          BY <3>1, <2>16, <2>6
        <5> HIDE DEF node, nb2, d4
        <5> QED
          BY <5>1, <5>2, <2>4 DEF Stores
      <4> DEFINE blk5 == [d4.blk EXCEPT ![nb2] = node]
      <4>5. nb1 \in 0 .. ((nb2 + 1) - 1)
        BY <4>4, <2>4
      <4> HIDE DEF node, none, zero, blk5, nb2
      <4>6. /\ node.k = "inode" /\ node.type = MFS_DIRECTORY
            /\ node.ptr[0] = nb1 /\ \A j \in Ptrs : node.used[j] = 1 => j = 0
        BY <4>1, <4>3 DEF Inode
      <4>7. blk5[nb1].k = "dir"
        BY <4>4 DEF blk5
      <4>8. GoodInode(node, nb2 + 1, blk5)
        BY <4>5, <4>6, <4>7 DEF GoodInode, KindOf
      <4> QED
        BY <4>8 DEF blk5
    <3>2. CASE ~isdir
      <4>1. node = Inode(MFS_REGULAR_FILE, 0, none, zero)
        BY <3>2 DEF Tidy
      <4> HIDE DEF node
      <4>2. node.k = "inode" /\ node.type = MFS_REGULAR_FILE /\ \A j \in Ptrs : node.used[j] # 1
        BY <4>1 DEF Inode
      <4> HIDE DEF nb2, d4
      <4> QED
        BY <4>2 DEF GoodInode
    <3> QED
      BY <3>1, <3>2
  <2>c. \A a \in Ptrs : node.used[a] = 1 => a = 0 /\ node.ptr[a] >= nb1
    <3>1. \A a \in Ptrs : zero[a] # 1 /\ ([zero EXCEPT ![0] = 1][a] = 1 => a = 0)
      OBVIOUS
    <3>2. \A a \in Ptrs : a = 0 => [none EXCEPT ![0] = nb1][a] = nb1
      OBVIOUS
    <3>3. nb1 >= nb1
      BY <2>4
    <3> HIDE DEF zero, none
    <3> QED
      BY <3>1, <3>2, <3>3 DEF Inode
  <2> HIDE DEF d4, node, nb2
  <2>19. /\ d5 \in DiskType /\ d5.blk = [d4.blk EXCEPT ![nb2] = node]
         /\ d5.imap = imap /\ d5.exists
    BY <2>4, <2>16, <2>17, PutIs
  <2>20. nb2 >= nb2 /\ d4.blk \in Stores /\ nb2 + 1 \in Nat /\ nb2 =< nb2 + 1
         /\ nb2 \in 0 .. ((nb2 + 1) - 1) /\ nb2 \in -1 .. MaxBlock
    BY <2>4, <2>16, LFSAssumption DEF DiskType, Blocks
  <2>21. Good(imap, nb2, d5.blk) /\ Good(imap, nb1, d5.blk) /\ Apart(imap, d5.blk)
    <3>0. nb2 >= nb1
      BY <2>4
    <3>1. /\ Good(imap, nb2, [d4.blk EXCEPT ![nb2] = node])
          /\ Good(imap, nb1, [d4.blk EXCEPT ![nb2] = node])
          /\ Apart(imap, [d4.blk EXCEPT ![nb2] = node])
      BY <3>0, <2>2, <2>4, <2>16, <2>20, GoodFresh, ApartFresh, Zenon
    <3> QED
      BY <2>19, <3>1, Zenon
  <2>22. Good(imap, nb2 + 1, d5.blk)
    BY <2>2, <2>4, <2>20, <2>21, GoodGrow, Zenon
  <2>23. GoodInode(d5.blk[nb2], nb2 + 1, d5.blk) /\ d5.blk[nb2] = node
    <3>1. d5.blk[nb2] = node
      BY <2>19, <2>20, <2>4 DEF Stores
    <3> QED
      BY <2>18, <2>19, <3>1
  <2> HIDE DEF d5
  <2>24. Good([imap EXCEPT ![inum] = nb2], nb2 + 1, d5.blk)
    BY <2>2, <2>20, <2>22, <2>23, GoodMap, Zenon
  <2>d. Apart([imap EXCEPT ![inum] = nb2], d5.blk)
    <3>1. nb2 >= nb1
      BY <2>4
    <3> QED
      BY <3>1, <2>2, <2>3, <2>4, <2>21, <2>23, <2>c, ApartMap
  <2>25. [imap EXCEPT ![inum] = nb2] \in Imaps
    BY <2>2, <2>20, MapType, Zenon
  <2>26. /\ d7 \in DiskType /\ d7.blk = d5.blk /\ d7.exists
         /\ d7.imap = [imap EXCEPT ![inum] = nb2] /\ d7.next = nb2 + 1
    <3>1. d7 = CRNext(CRImap(d5, inum, nb2), nb2 + 1)
      OBVIOUS
    <3> HIDE DEF d7
    <3> QED
      <4>1. /\ d7 \in DiskType /\ d7.blk = d5.blk /\ d7.exists = d5.exists
            /\ d7.imap = [d5.imap EXCEPT ![inum] = nb2] /\ d7.next = nb2 + 1
        BY <3>1, <2>4, <2>19, <2>20 DEF CRNext, CRImap, DiskType, Imaps
      <4> QED
        BY <4>1, <2>19
  <2> HIDE DEF d7, out
  <2>27. GoodOut(out)
    BY <2>out, <2>4, <2>24, <2>25, <2>26, <2>d DEF GoodOut
  <2> QED
    BY <2>27 DEF out
<1> QED
  BY <1>a, <1>b

----------------------------------------------------------------------------
(* start_server and the whole of Next.                                     *)

\* The image start_server writes is a good store.
LEMMA FreshGood ==
  /\ FreshImage \in DiskType /\ FreshImage.exists
  /\ Good(FreshImage.imap, FreshImage.next, FreshImage.blk)
  /\ Apart(FreshImage.imap, FreshImage.blk)
<1> DEFINE dots == DirBlk(build_dir_block(TRUE, 0, 0))
           ptr  == [j \in Ptrs |-> IF j = 0 THEN CRSIZE ELSE -1]
           used == [j \in Ptrs |-> IF j = 0 THEN 1 ELSE 0]
           root == Inode(MFS_DIRECTORY, 1, ptr, used)
           im   == [i \in Inums |-> IF i = 0 THEN CRSIZE + 1 ELSE -1]
           blk  == [b \in Blocks |-> IF b = CRSIZE THEN dots
                                    ELSE IF b = CRSIZE + 1 THEN root ELSE Hole]
<1>1. FreshImage = [exists |-> TRUE, imap |-> im, next |-> CRSIZE + 2, blk |-> blk]
  BY Zenon DEF FreshImage
<1>2. dots \in Content /\ dots.k = "dir"
  <2>1. 0 \in -1 .. (MAXINODES - 1)
    BY LFSAssumption
  <2>2. build_dir_block(TRUE, 0, 0) \in [Slots -> Entries]
    BY <2>1, BuildType
  <2> QED
    BY <2>2 DEF DirBlk, Content
<1>3. root \in Content /\ root.k = "inode" /\ root.type = MFS_DIRECTORY
      /\ root.ptr = ptr /\ root.used = used
  <2>1. ptr \in [Ptrs -> Int] /\ used \in [Ptrs -> {0, 1}]
    BY DEF CRSIZE
  <2> HIDE DEF ptr, used
  <2> QED
    BY <2>1 DEF Inode, Content, MFS_DIRECTORY
<1>4. Hole \in Content
  BY DEF Hole, Content
<1> HIDE DEF dots, root
<1>5. /\ CRSIZE \in Blocks /\ CRSIZE + 1 \in Blocks /\ CRSIZE + 2 \in Blocks
      /\ blk \in Stores /\ im \in Imaps
  BY <1>2, <1>3, <1>4, LFSAssumption DEF Blocks, CRSIZE, Stores, Imaps
<1>6. blk[CRSIZE] = dots /\ blk[CRSIZE + 1] = root
  BY <1>5 DEF CRSIZE
<1>7. GoodInode(root, CRSIZE + 2, blk)
  <2>1. \A j \in Ptrs : used[j] = 1 => ptr[j] = CRSIZE
    OBVIOUS
  <2>2. CRSIZE \in 0 .. (CRSIZE + 2) - 1
    BY DEF CRSIZE
  <2> HIDE DEF blk, ptr, used
  <2> QED
    BY <1>2, <1>3, <1>6, <2>1, <2>2 DEF GoodInode, KindOf
<1>8. Good(im, CRSIZE + 2, blk)
  <2>1. \A i \in Inums : im[i] # -1 => im[i] = CRSIZE + 1
    OBVIOUS
  <2>2. CRSIZE + 1 \in 0 .. (CRSIZE + 2) - 1
    BY DEF CRSIZE
  <2> HIDE DEF blk, im
  <2> QED
    BY <1>6, <1>7, <2>1, <2>2 DEF Good
<1>9. Apart(im, blk)
  <2>1. \A i \in Inums : im[i] # -1 => i = 0 /\ im[i] = CRSIZE + 1
    OBVIOUS
  <2>2. \A j \in Ptrs : used[j] = 1 => j = 0
    OBVIOUS
  <2> HIDE DEF blk, im, ptr, used
  <2> QED
    BY <1>3, <1>6, <2>1, <2>2 DEF Apart
<1> HIDE DEF blk, im
<1> QED
  BY <1>1, <1>5, <1>8, <1>9 DEF DiskType

\* A request that only answers leaves the store alone.
LEMMA AnswerGood ==
  ASSUME LogInv, NEW o, NEW r \in -1 .. (MAXINODES - 1), NEW v, Answer(o, r, v)
  PROVE  LogInv'
BY DEF LogInv, TypeOK, Answer, Resp, Good, GoodInode, DirAt

\* The log before the first start.
LEMMA InitLogInv == Init => LogInv
<1> SUFFICES ASSUME Init PROVE LogInv
  OBVIOUS
<1>1. [i \in Inums |-> 0] \in [Inums -> -1 .. MaxBlock] /\ 0 \in Blocks
  BY LFSAssumption DEF Blocks
<1>2. [b \in Blocks |-> Hole] \in [Blocks -> Content]
  BY DEF Hole, Content
<1>3. disk \in [exists : BOOLEAN, imap : [Inums -> -1 .. MaxBlock], next : Blocks,
                blk : [Blocks -> Content]] /\ disk.exists = FALSE
  BY <1>1, <1>2 DEF Init, NoImage
<1>4. reply.ret \in -1 .. (MAXINODES - 1) /\ up = FALSE
  BY LFSAssumption DEF Init
<1>5. imap \in [Inums -> -1 .. MaxBlock] /\ next_block \in Blocks
  BY <1>1 DEF Init
<1> QED
  BY <1>3, <1>4, <1>5 DEF LogInv, TypeOK

\* The start of the server, on a fresh or on an existing image, keeps the log good.
LEMMA StartGood == ASSUME LogInv, start_server PROVE LogInv'
<1>1. CASE disk.exists
  <2>1. disk' = disk /\ imap' = disk.imap /\ next_block' = disk.next /\ up' = TRUE /\ reply' = reply
    BY <1>1 DEF start_server
  <2> QED
    BY <1>1, <2>1 DEF LogInv, TypeOK
<1>2. CASE ~disk.exists
  <2>1. /\ disk' = FreshImage /\ imap' = FreshImage.imap /\ next_block' = FreshImage.next
        /\ up' = TRUE /\ reply' = reply
    BY <1>2 DEF start_server
  <2> QED
    BY <2>1, FreshGood DEF LogInv, TypeOK, DiskType, Imaps, Stores
<1> QED
  BY <1>1, <1>2

\* Every step keeps the invariant: one case per request.
LEMMA NextLogInv == ASSUME Tidy, LogInv, [HeldNext(TRUE)]_vars PROVE LogInv'
<1>0. -1 \in -1 .. (MAXINODES - 1) /\ 0 \in -1 .. (MAXINODES - 1)
  BY LFSAssumption
<1>1. ASSUME NEW p \in InumArgs, NEW n \in Names, Lookup(p, n) PROVE LogInv'
  <2>1. CASE Answer("lookup", -1, NoVal)
    BY <2>1, <1>0, AnswerGood
  <2>2. ASSUME NEW node \in find_inode(p), Answer("lookup", lookup(node, n), NoVal) PROVE LogInv'
    <3>1. lookup(node, n) \in -1 .. (MAXINODES - 1)
      BY LookupType DEF LogInv
    <3> QED
      BY <2>2, <3>1, AnswerGood
  <2> QED
    BY <1>1, <2>1, <2>2 DEF Lookup
<1>2. ASSUME NEW i \in InumArgs, Stat(i) PROVE LogInv'
  <2>1. CASE Answer("stat", -1, NoVal)
    BY <2>1, <1>0, AnswerGood
  <2>2. ASSUME NEW node \in find_inode(i), Answer("stat", 0, <<node.type, node.size>>) PROVE LogInv'
    BY <2>2, <1>0, AnswerGood
  <2> QED
    BY <1>2, <2>1, <2>2 DEF Stat
<1>3. ASSUME NEW i \in InumArgs, NEW blk \in BlockArgs, Read(i, blk) PROVE LogInv'
  <2>1. CASE Answer("read", -1, NoVal)
    BY <2>1, <1>0, AnswerGood
  <2>2. ASSUME NEW v, Answer("read", 0, <<v>>) PROVE LogInv'
    BY <2>2, <1>0, AnswerGood
  <2> QED
    BY <1>3, <2>1, <2>2 DEF Read
<1>4. ASSUME NEW p \in InumArgs, NEW n \in Names, NEW t \in Types, Held(p), Creat(p, t, n) PROVE LogInv'
  <2>1. CASE Answer("creat", -1, NoVal)
    BY <2>1, <1>0, AnswerGood
  <2>2. ASSUME NEW parent \in find_inode(p), NEW pnode \in find_inode(p), p \in Inums,
               Commit("creat", CreatOut(p, t, n, parent, lookup(pnode, n)))
        PROVE  LogInv'
    <3>1. up /\ HasRoom /\ imap[p] # -1
      BY <1>4, <2>2 DEF Creat, Held
    <3>2. GoodOut(CreatOut(p, t, n, parent, lookup(pnode, n)))
      BY <2>2, <3>1, CreatGood, Zenon
    <3> QED
      BY <2>2, <3>1, <3>2, CommitGood, Zenon
  <2>3. p \in Inums \/ find_inode(p) = {}
    BY DEF find_inode
  <2> QED
    BY <1>4, <2>1, <2>2, <2>3, Zenon DEF Creat, Run, CrashIn, Tidy
<1>5. ASSUME NEW i \in InumArgs, NEW blk \in BlockArgs, NEW v \in Data, Held(i), Write(i, v, blk)
      PROVE  LogInv'
  <2>1. CASE Answer("write", -1, NoVal)
    BY <2>1, <1>0, AnswerGood
  <2>2. ASSUME NEW node \in find_inode(i), i \in Inums, Commit("write", WriteOut(i, v, blk, node))
        PROVE  LogInv'
    <3>1. up /\ HasRoom /\ imap[i] # -1 /\ blk \in Int
      BY <1>5, <2>2, LFSAssumption DEF Write, Held, BlockArgs
    <3>2. GoodOut(WriteOut(i, v, blk, node))
      BY <2>2, <3>1, WriteGood, Zenon
    <3> QED
      BY <2>2, <3>1, <3>2, CommitGood, Zenon
  <2>3. i \in Inums \/ find_inode(i) = {}
    BY DEF find_inode
  <2> QED
    BY <1>5, <2>1, <2>2, <2>3, Zenon DEF Write, Run, CrashIn, Tidy
<1>6. ASSUME NEW p \in InumArgs, NEW n \in Names, Unlink(p, n) PROVE LogInv'
  <2>1. CASE Answer("unlink", -1, NoVal)
    BY <2>1, <1>0, AnswerGood
  <2>2. CASE Answer("unlink", 0, NoVal)
    BY <2>2, <1>0, AnswerGood
  <2>3. ASSUME NEW pinode, NEW i, NEW node, Run("unlink", UnlinkOut(pinode, n, i, node))
        PROVE  LogInv'
    <3> DEFINE out == UnlinkOut(pinode, n, i, node)
    <3>1. up
      BY <1>6 DEF Unlink
    <3>2. GoodOut(out) /\ \A k \in 1 .. (Len(out.imgs) - 1) : GoodImage(out.imgs[k])
      BY <3>1, UnlinkGood, Zenon
    <3> HIDE DEF out
    <3> QED
      BY <2>3, <3>1, <3>2, CommitGood, CrashGood, Zenon DEF Run, out
  <2> QED
    BY <1>6, <2>1, <2>2, <2>3, Zenon DEF Unlink
<1>7. ASSUME Shutdown PROVE LogInv'
  BY <1>7 DEF Shutdown, LogInv, TypeOK, Good, GoodInode
<1>8. ASSUME UNCHANGED vars PROVE LogInv'
  BY <1>8 DEF vars, LogInv, TypeOK, Good, GoodInode
<1> QED
  BY <1>1, <1>2, <1>3, <1>4, <1>5, <1>6, <1>7, <1>8, StartGood, Zenon DEF HeldNext

\* Clients that pass allocated numbers take such steps.
LEMMA NextHeld == ASSUME Disciplined, Next PROVE HeldNext(FarNames)
<1>1. \A i : Named(i) => Held(i)
  BY DEF Named, Held, Disciplined
<1> QED
  BY <1>1, Zenon DEF Next, HeldNext, MayUnlink

\* To unlink only what is near is to be careful.
LEMMA HeldFar == ASSUME NEW far, HeldNext(far) PROVE HeldNext(TRUE)
BY Zenon DEF HeldNext

\* The log stays good.
LEMMA LogInvariant == Disciplined => (Spec => []LogInv)
<1> SUFFICES ASSUME Disciplined PROVE Spec => []LogInv
  OBVIOUS
<1>1. ASSUME LogInv, [Next]_vars PROVE LogInv'
  <2>1. Tidy /\ [HeldNext(TRUE)]_vars
    BY <1>1, NextHeld, HeldFar DEF Disciplined
  <2> QED
    BY <1>1, <2>1, NextLogInv
<1> QED
  BY <1>1, InitLogInv, PTL DEF Spec

\* The variables of lfs.c stay within their types.
THEOREM TypeCorrect == Disciplined => (Spec => []TypeOK)
<1> SUFFICES ASSUME Disciplined PROVE Spec => []TypeOK
  OBVIOUS
<1>1. LogInv => TypeOK
  BY DEF LogInv
<1> QED
  BY <1>1, LogInvariant, PTL

\* next_block stays the end of the log: no block that an allocated inode
\* leads to lies at or behind the place of the next append.
THEOREM LogEndCorrect == Disciplined => (Spec => []LogEnd)
<1> SUFFICES ASSUME Disciplined PROVE Spec => []LogEnd
  OBVIOUS
<1>1. ASSUME LogInv, disk.exists PROVE CurImap = disk.imap /\ CurNext = disk.next
  BY <1>1 DEF LogInv, CurImap, CurNext
<1>2. ASSUME LogInv, disk.exists, NEW i \in Inums, disk.imap[i] # -1
      PROVE  /\ disk.imap[i] < disk.next
             /\ \A j \in Ptrs : disk.blk[disk.imap[i]].used[j] = 1 =>
                  disk.blk[disk.imap[i]].ptr[j] < disk.next
  BY <1>2, SMTT(20) DEF LogInv, TypeOK, Blocks, Good, GoodInode
<1>3. LogInv => LogEnd
  BY <1>1, <1>2 DEF LogEnd, Live, NodeOf
<1> QED
  BY <1>3, LogInvariant, PTL

\* The checkpoint region agrees with memory between any two requests, so a
\* shutdown and a restart lose nothing.
THEOREM CheckpointCorrect == Disciplined => (Spec => []CRInSync)
<1> SUFFICES ASSUME Disciplined PROVE Spec => []CRInSync
  OBVIOUS
<1>1. LogInv => CRInSync
  BY DEF LogInv, CRInSync
<1> QED
  BY <1>1, LogInvariant, PTL

\* No two files share an inode or a block, and every used pointer leads to a
\* block of its kind: appends and in-place updates of one file never reach
\* another, also after the server was killed inside unlink_server.
THEOREM NoSharingCorrect == Disciplined => (Spec => []NoSharing)
<1> SUFFICES ASSUME Disciplined PROVE Spec => []NoSharing
  OBVIOUS
<1>1. ASSUME LogInv, disk.exists PROVE NoSharing
  <2>1. CurImap = disk.imap /\ Good(disk.imap, disk.next, disk.blk) /\ Apart(disk.imap, disk.blk)
    BY <1>1 DEF LogInv, CurImap
  <2>2. \A i \in Inums : i \in Live <=> disk.imap[i] # -1
    BY <2>1 DEF Live
  <2>3. \A i \in Live : i \in Inums /\ NodeOf(i) = disk.blk[disk.imap[i]]
    BY <2>1 DEF NodeOf, Live
  <2>4. \A i \in Live : GoodInode(NodeOf(i), disk.next, disk.blk)
    BY <2>1, <2>2, <2>3 DEF Good
  <2>5. \A i \in Live : NodeOf(i).k = "inode"
    BY <2>4 DEF GoodInode
  <2>6. \A i, j \in Live : i # j => CurImap[i] # CurImap[j]
    BY <2>1, <2>2, <2>3 DEF Apart
  <2>7. ASSUME NEW r \in Refs
        PROVE  /\ disk.blk[NodeOf(r[1]).ptr[r[2]]].k
                     = IF NodeOf(r[1]).type = MFS_DIRECTORY THEN "dir" ELSE "data"
               /\ \A s \in Refs \ {r} : NodeOf(r[1]).ptr[r[2]] # NodeOf(s[1]).ptr[s[2]]
    <3>1. r[1] \in Live /\ r[2] \in Ptrs /\ NodeOf(r[1]).used[r[2]] = 1
      BY DEF Refs
    <3>2. disk.blk[NodeOf(r[1]).ptr[r[2]]].k = KindOf(NodeOf(r[1]).type)
      BY <3>1, <2>4, GoodPtr
    <3>3. ASSUME NEW s \in Refs, NodeOf(r[1]).ptr[r[2]] = NodeOf(s[1]).ptr[s[2]] PROVE s = r
      <4>1. s[1] \in Live /\ s[2] \in Ptrs /\ NodeOf(s[1]).used[s[2]] = 1
        BY DEF Refs
      <4>2. r[1] = s[1] /\ r[2] = s[2]
        BY <3>1, <3>3, <4>1, <2>1, <2>2, <2>3, SMTT(40) DEF Apart
      <4>3. r = <<r[1], r[2]>> /\ s = <<s[1], s[2]>>
        BY DEF Refs
      <4> QED
        BY <4>2, <4>3
    <3> QED
      BY <3>2, <3>3 DEF KindOf
  <2> QED
    BY <2>5, <2>6, <2>7 DEF NoSharing
<1>2. LogInv => NoSharing
  BY <1>1 DEF NoSharing
<1> QED
  BY <1>2, LogInvariant, PTL

----------------------------------------------------------------------------
(* What the directories say.                                               *)

\* Pointer j of inode d leads to a block of a directory; its entry in slot s.
IsDirBlk(im, blk, d, j) == im[d] # -1 /\ blk[im[d]].type = MFS_DIRECTORY /\ blk[im[d]].used[j] = 1
En(im, blk, d, j, s)    == blk[blk[im[d]].ptr[j]].ent[s]

\* An entry in slot s of d is unused, a dot entry and in the first two slots,
\* or the name of an allocated inode that is neither the root nor d.
Clear(e)      == e.inum = -1 /\ e.name = "DNE"
Dot(d, s, e)  == s < 2 /\ ((e.name = "." /\ e.inum = d) \/ e.name = "..")
IsName(e)     == e.inum # -1 /\ e.name \notin {".", ".."}
EntryOK(im, d, s, e) ==
  Clear(e) \/ Dot(d, s, e) \/ (IsName(e) /\ e.inum \notin {0, d} /\ im[e.inum] # -1)

\* No inode has two names.
Once(im, blk) ==
  \A d, c \in Inums : \A j, k \in Ptrs : \A s, r \in Slots :
    /\ IsDirBlk(im, blk, d, j) /\ IsDirBlk(im, blk, c, k)
    /\ IsName(En(im, blk, d, j, s)) /\ IsName(En(im, blk, c, k, r))
    /\ En(im, blk, d, j, s).inum = En(im, blk, c, k, r).inum
    => d = c /\ j = k /\ s = r

DirsOK(im, blk) ==
  /\ im[0] # -1
  /\ \A d \in Inums : \A j \in Ptrs : \A s \in Slots :
       IsDirBlk(im, blk, d, j) => EntryOK(im, d, s, En(im, blk, d, j, s))
  /\ Once(im, blk)

DirsInv == disk.exists => DirsOK(disk.imap, disk.blk)

\* The theorems about names assume that clients pass no dot names.
PlainNames == Names \cap {".", ".."} = {}

\* An entry e that a step leaves in slot s of pointer j of d is a dot entry,
\* or one that was there, or it is in the one place <<p, b, s0>> and names an
\* inode that was free.
From(im, blk, new, d, j, s, e, p, b, s0) ==
  \/ Clear(e)
  \/ Dot(d, s, e)
  \/ /\ IsName(e) /\ new[e.inum] # -1
     /\ \/ IsDirBlk(im, blk, d, j) /\ e = En(im, blk, d, j, s)
        \/ d = p /\ j = b /\ s = s0 /\ e.inum \notin {0, d} /\ im[e.inum] = -1

\* Such a step keeps the directories in order.
LEMMA DirsStep ==
  ASSUME NEW im, NEW blk, DirsOK(im, blk), NEW im2, NEW blk2, im2[0] # -1, NEW p, NEW b, NEW s0,
         \A d \in Inums : \A j \in Ptrs : \A s \in Slots :
           IsDirBlk(im2, blk2, d, j) => From(im, blk, im2, d, j, s, En(im2, blk2, d, j, s), p, b, s0)
  PROVE  DirsOK(im2, blk2)
<1>1. ASSUME NEW d \in Inums, NEW j \in Ptrs, NEW s \in Slots, IsDirBlk(im, blk, d, j)
      PROVE  EntryOK(im, d, s, En(im, blk, d, j, s))
  BY <1>1, Zenon DEF DirsOK
<1>2. ASSUME NEW d \in Inums, NEW j \in Ptrs, NEW s \in Slots, IsDirBlk(im2, blk2, d, j)
      PROVE  EntryOK(im2, d, s, En(im2, blk2, d, j, s))
  <2>1. PICK e : e = En(im2, blk2, d, j, s)
    OBVIOUS
  <2>2. From(im, blk, im2, d, j, s, e, p, b, s0)
    BY <1>2, <2>1
  <2>3. ASSUME IsName(e), IsDirBlk(im, blk, d, j), e = En(im, blk, d, j, s) PROVE e.inum \notin {0, d}
    BY <1>1, <2>3 DEF EntryOK, Dot, IsName, Clear
  <2> QED
    BY <2>1, <2>2, <2>3 DEF From, EntryOK
<1>3. ASSUME NEW d \in Inums, NEW j \in Ptrs, NEW s \in Slots, IsDirBlk(im2, blk2, d, j),
             NEW e, e = En(im2, blk2, d, j, s), IsName(e)
      PROVE  \/ IsDirBlk(im, blk, d, j) /\ e = En(im, blk, d, j, s) /\ im[e.inum] # -1
             \/ d = p /\ j = b /\ s = s0 /\ im[e.inum] = -1
  <2>1. From(im, blk, im2, d, j, s, e, p, b, s0)
    BY <1>3
  <2>2. ~Dot(d, s, e) /\ e.inum # -1 /\ ~Clear(e)
    BY <1>3 DEF Dot, IsName, Clear
  <2>3. ASSUME IsDirBlk(im, blk, d, j), e = En(im, blk, d, j, s) PROVE im[e.inum] # -1
    BY <1>1, <2>2, <2>3 DEF EntryOK
  <2> QED
    BY <2>1, <2>2, <2>3 DEF From
<1>4. ASSUME NEW d \in Inums, NEW c \in Inums, NEW j \in Ptrs, NEW k \in Ptrs, NEW s \in Slots, NEW r \in Slots,
             IsDirBlk(im2, blk2, d, j), IsDirBlk(im2, blk2, c, k),
             IsName(En(im2, blk2, d, j, s)), IsName(En(im2, blk2, c, k, r)),
             En(im2, blk2, d, j, s).inum = En(im2, blk2, c, k, r).inum
      PROVE  d = c /\ j = k /\ s = r
  <2>1. PICK e, f : e = En(im2, blk2, d, j, s) /\ f = En(im2, blk2, c, k, r)
    OBVIOUS
  <2>2. IsName(e) /\ IsName(f) /\ e.inum = f.inum
    BY <1>4, <2>1
  <2>3. \/ IsDirBlk(im, blk, d, j) /\ e = En(im, blk, d, j, s) /\ im[e.inum] # -1
        \/ d = p /\ j = b /\ s = s0 /\ im[e.inum] = -1
    BY <1>3, <1>4, <2>1, <2>2
  <2>4. \/ IsDirBlk(im, blk, c, k) /\ f = En(im, blk, c, k, r) /\ im[f.inum] # -1
        \/ c = p /\ k = b /\ r = s0 /\ im[f.inum] = -1
    BY <1>3, <1>4, <2>1, <2>2
  <2>5. CASE im[e.inum] = -1
    BY <2>2, <2>3, <2>4, <2>5
  <2>6. CASE im[e.inum] # -1
    BY <2>2, <2>3, <2>4, <2>6 DEF DirsOK, Once
  <2> QED
    BY <2>5, <2>6
<1>5. Once(im2, blk2)
  BY <1>4 DEF Once
<1> QED
  BY <1>2, <1>5 DEF DirsOK

\* A store that shows the same entries of the same directories is in order.
LEMMA DirsSame ==
  ASSUME NEW im, NEW blk, DirsOK(im, blk), NEW blk2,
         \A d \in Inums : \A j \in Ptrs : \A s \in Slots :
           IsDirBlk(im, blk2, d, j) =>
             IsDirBlk(im, blk, d, j) /\ (En(im, blk2, d, j, s) = En(im, blk, d, j, s) \/ Clear(En(im, blk2, d, j, s)))
  PROVE  DirsOK(im, blk2)
<1>1. ASSUME NEW d \in Inums, NEW j \in Ptrs, NEW s \in Slots, IsDirBlk(im, blk2, d, j)
      PROVE  From(im, blk, im, d, j, s, En(im, blk2, d, j, s), 0, 0, 0)
  <2>1. EntryOK(im, d, s, En(im, blk, d, j, s)) /\ IsDirBlk(im, blk, d, j)
    BY <1>1 DEF DirsOK
  <2>2. En(im, blk2, d, j, s) = En(im, blk, d, j, s) \/ Clear(En(im, blk2, d, j, s))
    BY <1>1
  <2> QED
    BY <2>1, <2>2 DEF From, EntryOK
<1>2. im[0] # -1
  BY DEF DirsOK
<1> QED
  BY <1>1, <1>2, DirsStep

\* Where a directory and its blocks are.
LEMMA DirPlace ==
  ASSUME LogInv, up, NEW d \in Inums, imap[d] # -1
  PROVE  /\ imap[d] \in Blocks /\ imap[d] < next_block /\ disk.blk[imap[d]].k = "inode"
         /\ \A j \in Ptrs : \A x : IsDirBlk(imap, disk.blk, d, j) /\ x = disk.blk[imap[d]].ptr[j] =>
              /\ x \in Blocks /\ x < next_block /\ disk.blk[x].k = "dir"
              /\ DirAt(x) = disk.blk[x].ent /\ disk.blk[x].ent \in [Slots -> Entries]
<1>1. /\ imap[d] \in Blocks /\ imap[d] < next_block
      /\ GoodInode(disk.blk[imap[d]], next_block, disk.blk)
  BY FindAllocated
<1>2. ASSUME NEW j \in Ptrs, IsDirBlk(imap, disk.blk, d, j), NEW x, x = disk.blk[imap[d]].ptr[j]
      PROVE  /\ x \in Blocks /\ x < next_block /\ disk.blk[x].k = "dir"
             /\ DirAt(x) = disk.blk[x].ent /\ disk.blk[x].ent \in [Slots -> Entries]
  <2>1. x \in 0 .. (next_block - 1) /\ disk.blk[x].k = KindOf(MFS_DIRECTORY)
    BY <1>1, <1>2, GoodPtr DEF IsDirBlk
  <2>2. x \in Blocks /\ x < next_block /\ disk.blk[x].k = "dir"
    BY <2>1, LFSAssumption DEF KindOf, LogInv, TypeOK, Blocks
  <2>3. DirAt(x) = disk.blk[x].ent
    BY <2>2 DEF DirAt
  <2> QED
    BY <2>2, <2>3, DirAtType DEF LogInv
<1> QED
  BY <1>1, <1>2 DEF GoodInode

\* The directories while the server runs are those of its inode map.
LEMMA DirsUp ==
  ASSUME LogInv, DirsInv, up
  PROVE  disk.exists /\ disk.imap = imap /\ disk.next = next_block /\ DirsOK(imap, disk.blk)
BY DEF LogInv, DirsInv

\* write_server touches no directory.
LEMMA WriteDirs ==
  ASSUME LogInv, DirsInv, up, HasRoom, NEW i \in Inums, imap[i] # -1, NEW v \in Data,
         NEW block \in Int, NEW node \in find_inode(i), NEW last,
         last = WriteOut(i, v, block, node).imgs[Len(WriteOut(i, v, block, node).imgs)]
  PROVE  DirsOK(last.imap, last.blk)
<1> DEFINE new == AppendBlock(node, IF block + 1 > node.size THEN block + 1 ELSE node.size, block)
           d1  == Put(disk, next_block, DataBlk(v))
           d2  == Put(d1, imap[i], new)
           d4  == CRNext(CRImap(d2, i, imap[i]), next_block + 1)
<1>0. CASE node.type # MFS_REGULAR_FILE \/ block \notin Ptrs
  <2>1. WriteOut(i, v, block, node) = Same(-1)
    BY <1>0 DEF WriteOut
  <2>2. last = disk
    BY <2>1 DEF Same, Outcome
  <2> QED
    BY <2>2, DirsUp
<1>1. CASE node.type = MFS_REGULAR_FILE /\ block \in Ptrs
  <2>1. last = d4
    BY <1>1 DEF WriteOut, Outcome
  <2>2. /\ next_block \in Blocks /\ disk \in DiskType /\ disk.imap = imap /\ imap \in Imaps
    BY DEF LogInv, TypeOK, DiskType, Imaps, Stores
  <2>3. new.type = MFS_REGULAR_FILE
    BY <1>1 DEF AppendBlock, Inode
  <2> HIDE DEF new
  <2>4. PICK n, u, nb : n = new /\ u = DataBlk(v) /\ nb = next_block
    OBVIOUS
  <2>5. last = CRNext(CRImap(Put(Put(disk, nb, u), imap[i], n), i, imap[i]), nb + 1)
    BY <2>1, <2>4, Zenon
  <2>6. imap[i] \in Blocks /\ imap[i] < next_block
    BY DirPlace
  <2>7. last.imap = imap
    BY <2>2, <2>5 DEF CRNext, CRImap, Put, DiskType, Imaps
  <2>8. last.blk = [[disk.blk EXCEPT ![nb] = u] EXCEPT ![imap[i]] = n]
    BY <2>2, <2>5 DEF CRNext, CRImap, Put, DiskType
  <2>9. last.blk[imap[i]] = n /\ \A w \in Blocks : w < next_block /\ w # imap[i] => last.blk[w] = disk.blk[w]
    <3>1. PICK f, m : f = disk.blk /\ m = imap[i]
      OBVIOUS
    <3>2. DOMAIN f = Blocks /\ m \in Blocks /\ m < nb /\ nb \in Blocks
      BY <2>2, <2>4, <2>6, <3>1 DEF DiskType, Stores
    <3>3. last.blk = [[f EXCEPT ![nb] = u] EXCEPT ![m] = n]
      BY <2>8, <3>1
    <3>4. \A w \in Blocks : w < nb => w # nb
      BY DEF Blocks
    <3>5. last.blk[m] = n /\ \A w \in Blocks : w < nb /\ w # m => last.blk[w] = f[w]
      BY <3>2, <3>3, <3>4
    <3> QED
      BY <3>1, <3>5, <2>4
  <2>10. ASSUME NEW d \in Inums, NEW j \in Ptrs, NEW s \in Slots, IsDirBlk(imap, last.blk, d, j)
         PROVE  IsDirBlk(imap, disk.blk, d, j) /\ En(imap, last.blk, d, j, s) = En(imap, disk.blk, d, j, s)
    <3>1. d # i
      BY <2>3, <2>4, <2>9, <2>10 DEF IsDirBlk, MFS_DIRECTORY, MFS_REGULAR_FILE
    <3>2. imap[d] # -1
      BY <2>10 DEF IsDirBlk
    <3>3. imap[d] # imap[i]
      BY <3>1, <3>2 DEF LogInv, Apart
    <3>4. last.blk[imap[d]] = disk.blk[imap[d]]
      BY <3>2, <3>3, <2>9, DirPlace
    <3>5. IsDirBlk(imap, disk.blk, d, j)
      BY <3>4, <2>10 DEF IsDirBlk
    <3>6. PICK x : x = disk.blk[imap[d]].ptr[j]
      OBVIOUS
    <3>7. x \in Blocks /\ x < next_block /\ disk.blk[x].k = "dir"
      BY <3>2, <3>5, <3>6, DirPlace
    <3>8. disk.blk[imap[i]].k = "inode"
      BY DirPlace
    <3>9. last.blk[x] = disk.blk[x]
      BY <3>7, <3>8, <2>9
    <3> QED
      BY <3>4, <3>5, <3>6, <3>9 DEF En
  <2> QED
    BY <2>7, <2>10, DirsUp, DirsSame
<1> QED
  BY <1>0, <1>1

\* The entry that lookup_server finds.
LEMMA LookupFound ==
  ASSUME NEW node, NEW name, lookup(node, name) # -1
  PROVE  \E j \in Ptrs, s \in Slots :
           /\ node.used[j] = 1 /\ DirAt(node.ptr[j])[s].name = name
           /\ DirAt(node.ptr[j])[s].inum = lookup(node, name)
<1> DEFINE has(b) == {e \in Slots : DirAt(node.ptr[b])[e].name = name}
           hits   == {b \in Ptrs : node.used[b] = 1 /\ has(b) # {}}
<1>1. hits # {} /\ lookup(node, name) = DirAt(node.ptr[Min(hits)])[Min(has(Min(hits)))].inum
  BY DEF lookup
<1>2. hits \in SUBSET Nat /\ \A b : has(b) \in SUBSET Nat
  BY LFSAssumption DEF Ptrs, Slots
<1>3. Min(hits) \in hits
  BY <1>1, <1>2, MinIn
<1>4. \A b \in hits : b \in Ptrs /\ node.used[b] = 1 /\ has(b) # {}
  OBVIOUS
<1>5. PICK b : b = Min(hits)
  OBVIOUS
<1> HIDE DEF hits
<1>6. b \in Ptrs /\ node.used[b] = 1 /\ has(b) # {} /\ lookup(node, name) = DirAt(node.ptr[b])[Min(has(b))].inum
  BY <1>1, <1>3, <1>4, <1>5
<1>7. Min(has(b)) \in has(b)
  <2> HIDE DEF has
  <2> QED
    BY <1>2, <1>6, MinIn
<1>8. PICK s : s = Min(has(b))
  OBVIOUS
<1>9. s \in Slots /\ DirAt(node.ptr[b])[s].name = name
  BY <1>7, <1>8
<1> HIDE DEF has
<1> QED
  BY <1>6, <1>8, <1>9

\* The images of unlink_server, with the block x once it is c: the entry
\* goes before the inode number.
UnlinkImg(img, x, c, i) ==
  \/ img.imap = imap /\ img.blk = disk.blk
  \/ img.blk = [disk.blk EXCEPT ![x] = c] /\ img.imap \in {imap, [imap EXCEPT ![i] = -1]}

\* Those are its images.
LEMMA UnlinkIs ==
  ASSUME LogInv, up, Tidy, NEW pinode, NEW name \in Names, NEW i, NEW node,
         NEW out, out = UnlinkOut(pinode, name, i, node), NEW k \in 1 .. Len(out.imgs), NEW img,
         img = out.imgs[k], NEW x, x = pinode.ptr[0], NEW s \in Slots,
         DirAt(x)[s].name = name, NEW c, c = DirBlk(RemoveName(DirAt(x), name))
  PROVE  UnlinkImg(img, x, c, i)
<1> DEFINE d1 == Put(disk, x, c)
           d2 == CRImap(d1, i, -1)
           d3 == CRNext(d2, next_block)
<1>1. disk \in DiskType /\ disk.imap = imap /\ imap \in Imaps
  BY DEF LogInv, TypeOK, DiskType, Imaps, Stores
<1>2. out.imgs = <<disk>> \/ out.imgs = <<disk, d1, d2, d3>>
  BY DEF UnlinkOut, Outcome, Same
<1>4. /\ d1.imap = imap /\ d1.blk = [disk.blk EXCEPT ![x] = c]
      /\ DOMAIN d1 = {"exists", "imap", "next", "blk"}
  BY <1>1 DEF Put, DiskType
<1> HIDE DEF d1
<1>5. d2.imap = [imap EXCEPT ![i] = -1] /\ d2.blk = d1.blk /\ DOMAIN d2 = {"exists", "imap", "next", "blk"}
  BY <1>4 DEF CRImap
<1> HIDE DEF d2
<1>6. d3.imap = d2.imap /\ d3.blk = d2.blk
  BY <1>5 DEF CRNext
<1> HIDE DEF d3
<1>8. img \in {disk, d1, d2, d3}
  <2>1. CASE out.imgs = <<disk>>
    BY <2>1
  <2>2. CASE out.imgs = <<disk, d1, d2, d3>>
    BY <2>2
  <2> QED
    BY <1>2, <2>1, <2>2
<1>9. img.imap \in {imap, [imap EXCEPT ![i] = -1]} /\ (img.blk = d1.blk \/ (img.blk = disk.blk /\ img.imap = imap))
  BY <1>1, <1>4, <1>5, <1>6, <1>8
<1> QED
  BY <1>4, <1>9 DEF UnlinkImg

\* unlink_server clears the only name of the inode it frees, when no later
\* block of the directory has the name.
LEMMA UnlinkDirs ==
  ASSUME LogInv, DirsInv, up, Tidy, PlainNames, NEW p \in Inums, imap[p] # -1,
         NEW pinode \in find_inode(p), NEW name \in Names, Near(p, name), NEW i, i = lookup(pinode, name), i >= 0,
         pinode.type = MFS_DIRECTORY, NEW node,
         NEW out, out = UnlinkOut(pinode, name, i, node), NEW k \in 1 .. Len(out.imgs), NEW img,
         img = out.imgs[k]
  PROVE  DirsOK(img.imap, img.blk)
<1>1. pinode = disk.blk[imap[p]]
  BY FindAllocated
<1>2. imap \in Imaps /\ DirsOK(imap, disk.blk) /\ i \in Inums
  <2>1. i \in -1 .. (MAXINODES - 1)
    BY LookupType DEF LogInv
  <2> QED
    <3>1. i \in Inums
      BY <2>1, LFSAssumption DEF Inums
    <3>2. imap \in Imaps
      BY DEF LogInv, TypeOK, Imaps
    <3> QED
      BY <3>1, <3>2, DirsUp
<1>3. PICK x : x = pinode.ptr[0]
  OBVIOUS
<1>4. PICK s0 \in Slots : /\ IsDirBlk(imap, disk.blk, p, 0) /\ 0 \in Ptrs
                          /\ DirAt(x)[s0].name = name /\ DirAt(x)[s0].inum = i
  <2>1. i # -1
    BY <1>2 DEF Inums
  <2>2. PICK j \in Ptrs, s \in Slots : pinode.used[j] = 1 /\ DirAt(pinode.ptr[j])[s].name = name
                                       /\ DirAt(pinode.ptr[j])[s].inum = i
    BY <2>1, LookupFound
  <2>3. IsDirBlk(imap, disk.blk, p, j)
    BY <2>2, <1>1 DEF IsDirBlk
  <2>4. j = 0
    BY <2>2 DEF Near
  <2> QED
    BY <1>3, <2>2, <2>3, <2>4
<1>5. /\ x \in Blocks /\ disk.blk[x].k = "dir" /\ DirAt(x) = disk.blk[x].ent
      /\ DirAt(x) \in [Slots -> Entries]
  <2>1. IsDirBlk(imap, disk.blk, p, 0) /\ 0 \in Ptrs /\ x = disk.blk[imap[p]].ptr[0]
    BY <1>1, <1>3, <1>4
  <2>2. /\ x \in Blocks /\ disk.blk[x].k = "dir" /\ DirAt(x) = disk.blk[x].ent
        /\ disk.blk[x].ent \in [Slots -> Entries]
    BY <2>1, DirPlace, Zenon
  <2> QED
    BY <2>2
<1>6. IsName(En(imap, disk.blk, p, 0, s0)) /\ En(imap, disk.blk, p, 0, s0).inum = i
  <2>1. En(imap, disk.blk, p, 0, s0) = DirAt(x)[s0]
    BY <1>1, <1>3, <1>5 DEF En
  <2> QED
    BY <2>1, <1>2, <1>4 DEF IsName, PlainNames, Inums
<1>7. i # 0
  <2>1. EntryOK(imap, p, s0, En(imap, disk.blk, p, 0, s0))
    BY <1>2, <1>4 DEF DirsOK
  <2> QED
    BY <2>1, <1>6 DEF EntryOK, Dot, IsName, Clear
<1>8. PICK c : c = DirBlk(RemoveName(DirAt(x), name))
  OBVIOUS
<1>9. UnlinkImg(img, x, c, i)
  <2>1. DirAt(x)[s0].name = name
    BY <1>4
  <2> QED
    BY UnlinkIs, <1>3, <2>1, <1>8, Zenon
<1>10. CASE img.imap = imap /\ img.blk = disk.blk
  BY <1>10, <1>2
<1>11. CASE img.blk = [disk.blk EXCEPT ![x] = c] /\ img.imap \in {imap, [imap EXCEPT ![i] = -1]}
  <2>1. PICK im, blk : im = img.imap /\ blk = img.blk
    OBVIOUS
  <2>2. \A q \in Inums : im[q] # -1 => im[q] = imap[q]
    BY <1>2, <1>11, <2>1 DEF Imaps
  <2>3. \A q \in Inums : q # i /\ imap[q] # -1 => im[q] # -1
    BY <1>2, <1>11, <2>1 DEF Imaps
  <2>4. im[0] # -1
    <3>1. 0 \in Inums
      BY LFSAssumption DEF Inums
    <3> QED
      BY <1>2, <1>7, <2>3, <3>1 DEF DirsOK
  <2>5. disk.blk \in Stores
    BY DEF LogInv, TypeOK, Stores
  <2>6. blk[x] = c /\ \A w \in Blocks : w # x => blk[w] = disk.blk[w]
    BY <1>5, <1>11, <2>1, <2>5 DEF Stores
  <2>7. ASSUME NEW s \in Slots
        PROVE  (c.ent[s] = disk.blk[x].ent[s] /\ c.ent[s].name # name) \/ Clear(c.ent[s])
    BY <1>5, <1>8 DEF DirBlk, RemoveName, Unused, Entry, Clear
  <2>a. ASSUME NEW d \in Inums, NEW j \in Ptrs, IsDirBlk(im, blk, d, j)
        PROVE  /\ im[d] = imap[d] /\ imap[d] # -1 /\ blk[imap[d]] = disk.blk[imap[d]]
               /\ IsDirBlk(imap, disk.blk, d, j)
    <3>1. im[d] = imap[d] /\ imap[d] # -1
      BY <2>2, <2>a DEF IsDirBlk
    <3>2. imap[d] \in Blocks /\ disk.blk[imap[d]].k = "inode"
      BY <3>1, DirPlace
    <3>3. blk[imap[d]] = disk.blk[imap[d]]
      BY <3>2, <1>5, <2>6
    <3>4. IsDirBlk(imap, disk.blk, d, j)
      BY <3>1, <3>3, <2>a DEF IsDirBlk
    <3> QED
      BY <3>1, <3>3, <3>4
  <2>8. ASSUME NEW d \in Inums, NEW j \in Ptrs, NEW s \in Slots, IsDirBlk(im, blk, d, j)
        PROVE  From(imap, disk.blk, im, d, j, s, En(im, blk, d, j, s), 0, 0, 0)
    <3>1. im[d] = imap[d] /\ imap[d] # -1
      BY <2>8, <2>a
    <3>3. blk[imap[d]] = disk.blk[imap[d]]
      BY <2>8, <2>a
    <3>4. IsDirBlk(imap, disk.blk, d, j)
      BY <2>8, <2>a
    <3>5. PICK y, e, f : y = disk.blk[imap[d]].ptr[j] /\ e = En(im, blk, d, j, s) /\ f = En(imap, disk.blk, d, j, s)
      OBVIOUS
    <3>6. y \in Blocks /\ e = blk[y].ent[s] /\ f = disk.blk[y].ent[s]
      BY <3>1, <3>3, <3>4, <3>5, DirPlace DEF En
    <3>7. Clear(e) \/ (e = f /\ (y = x => e.name # name))
      BY <3>6, <2>6, <2>7
    <3>8. EntryOK(imap, d, s, f)
      BY <3>4, <3>5, <1>2 DEF DirsOK
    <3>9. ASSUME e = f, IsName(e), e.inum = i, y = x => e.name # name PROVE FALSE
      <4>1. d = p /\ j = 0 /\ s = s0
        BY <3>4, <3>5, <3>9, <1>2, <1>4, <1>6 DEF DirsOK, Once
      <4>2. y = x
        BY <4>1, <3>5, <1>1, <1>3
      <4> QED
        BY <4>1, <4>2, <3>6, <3>9, <1>4, <1>5
    <3>10. ASSUME e = f, IsName(e), y = x => e.name # name PROVE im[e.inum] # -1
      <4>1. e.inum \in Inums
        <5>1. disk.blk[y].ent \in [Slots -> Entries]
          BY <3>1, <3>4, <3>5, DirPlace
        <5>2. f \in Entries
          BY <3>6, <5>1
        <5> QED
          BY <3>10, <5>2, LFSAssumption DEF Entries, Inums, IsName
      <4>2. imap[e.inum] # -1
        BY <3>8, <3>10 DEF EntryOK, Dot, IsName, Clear
      <4> QED
        BY <4>1, <4>2, <3>9, <3>10, <2>3
    <3>11. From(imap, disk.blk, im, d, j, s, e, 0, 0, 0)
      BY <3>4, <3>5, <3>7, <3>8, <3>10 DEF From, EntryOK
    <3> QED
      BY <3>5, <3>11
  <2>9. DirsOK(im, blk)
    BY <1>2, <2>4, <2>8, DirsStep
  <2> QED
    BY <2>1, <2>9
<1> QED
  BY <1>9, <1>10, <1>11 DEF UnlinkImg

\* The image that creat_server leaves when it makes inode i for a name in
\* directory p: slot s0 of the block x, to which pointer b of p leads, holds
\* the entry, z the inode, and y the block of a new directory.  parent and
\* par are the inode of p before and after, ents the entries of x before.
Made(img, p, t, name, i, b, s0, x, y, z, par, node, ents) ==
  /\ imap[i] = -1 /\ z # -1
  /\ img.imap = [imap EXCEPT ![i] = z]
  /\ img.blk[imap[p]] = par /\ img.blk[z] = node
  /\ img.blk[x] = DirBlk([ents EXCEPT ![s0] = Entry(name, i)])
  /\ t = MFS_DIRECTORY => img.blk[y] = DirBlk(build_dir_block(TRUE, i, p))
  /\ \A w \in Blocks : w < next_block /\ w # x /\ w # imap[p] => img.blk[w] = disk.blk[w]

\* The inode of p, whose pointer b may be new.
MadeIn(parent, b, x, par, ents) ==
  /\ parent.type = MFS_DIRECTORY /\ par.type = MFS_DIRECTORY
  /\ par.used[b] = 1 /\ par.ptr[b] = x
  /\ \A j \in Ptrs : j # b => par.used[j] = parent.used[j] /\ par.ptr[j] = parent.ptr[j]
  /\ \/ parent.used[b] = 1 /\ parent.ptr[b] = x /\ ents = DirAt(x)
     \/ parent.used[b] = 0 /\ x >= next_block /\ \A s \in Slots : Clear(ents[s])

\* The new inode.
MadeNode(node, t, y) ==
  node.type = t /\ \A j \in Ptrs : node.used[j] = 1 => t = MFS_DIRECTORY /\ j = 0 /\ node.ptr[j] = y

\* The first block with room.
FirstRoom(parent, b) ==
  b # 0 => parent.used[0] = 1 /\ \A s \in Slots : DirAt(parent.ptr[0])[s].inum # -1

\* The first of the numbers is not larger than any other.
LEMMA MinLeast == ASSUME NEW S \in SUBSET Nat, NEW x \in S PROVE Min(S) <= x
<1>1. Min(S) \in S
  BY MinIn
<1> DEFINE LT == {ss \in Nat \X Nat : ss[1] < ss[2]}
<1>2. IsWellFoundedOn(LT, Nat)
  BY NatLessThanWellFounded, Zenon DEF OpToRel
<1>3. PICK y \in S : \A z \in S : ~(<<z, y>> \in LT)
  BY <1>2, WFMin, Zenon
<1>4. \A w, z \in Nat : w < z => <<w, z>> \in LT
  OBVIOUS
<1>5. \A z \in S : ~(z < y)
  <2> HIDE DEF LT
  <2> QED
    BY <1>3, <1>4
<1>6. \A z \in S : y =< z
  BY <1>5
<1> QED
  BY <1>6 DEF Min

\* The inode number that creat_server takes.
LEMMA FreeChoice ==
  ASSUME NEW free, free = {i \in Inums : imap[i] = -1}, free # {}, NEW i, i = Min(free)
  PROVE  i \in Inums /\ imap[i] = -1
<1>1. free \in SUBSET Nat
  BY LFSAssumption DEF Inums
<1>2. i \in free
  BY <1>1, MinIn
<1> QED
  BY <1>2

\* The block it puts the entry in.
RoomIn(parent) ==
  {b \in Ptrs : parent.used[b] = 0 \/ \E e \in Slots : DirAt(parent.ptr[b])[e].inum = -1}

\* That is the first with room.
LEMMA RoomChoice ==
  ASSUME NEW parent, parent.used \in [Ptrs -> {0, 1}], RoomIn(parent) # {}, NEW b, b = Min(RoomIn(parent))
  PROVE  b \in RoomIn(parent) /\ b \in Ptrs /\ FirstRoom(parent, b)
<1>1. PICK room : room = RoomIn(parent)
  OBVIOUS
<1>2. room \in SUBSET Ptrs /\ Ptrs \in SUBSET Nat /\ 0 \in Ptrs
  BY <1>1, LFSAssumption DEF Ptrs, RoomIn
<1>3. b \in room /\ \A c \in room : b <= c
  BY <1>1, <1>2, MinIn, MinLeast
<1>4. ASSUME b # 0 PROVE parent.used[0] = 1 /\ \A s \in Slots : DirAt(parent.ptr[0])[s].inum # -1
  <2>1. 0 \notin room
    <3>1. b \in Nat
      BY <1>2, <1>3
    <3>2. ~(b <= 0)
      BY <3>1, <1>4
    <3> QED
      BY <3>2, <1>3, Zenon
  <2>2. parent.used[0] \in {0, 1}
    BY <1>2
  <2> QED
    BY <1>1, <1>2, <2>1, <2>2 DEF RoomIn
<1> QED
  BY <1>1, <1>2, <1>3, <1>4 DEF FirstRoom

\* The slot it takes.
LEMMA SlotChoice ==
  ASSUME NEW ents, \E x \in Slots : ents[x].inum = -1, NEW s0, s0 = Min({x \in Slots : ents[x].inum = -1})
  PROVE  s0 \in Slots /\ ents[s0].inum = -1
<1>1. PICK S : S = {x \in Slots : ents[x].inum = -1}
  OBVIOUS
<1>2. S # {}
  BY <1>1
<1>3. S \in SUBSET Nat
  BY <1>1, LFSAssumption DEF Slots
<1>4. s0 \in S
  BY <1>1, <1>2, <1>3, MinIn
<1> QED
  BY <1>1, <1>4

\* A slot that is not in use.
LEMMA UnusedIs == Unused.inum = -1 /\ Unused.name = "DNE"
BY DEF Unused, Entry

\* The entries of that block, and the one it takes if the block is new.
ChosenEnts(parent, b, i) ==
  IF parent.used[b] = 0 THEN build_dir_block(FALSE, i, -1) ELSE DirAt(parent.ptr[b])
HasSlot(ents) == ents \in [Slots -> Entries] /\ \E x \in Slots : ents[x].inum = -1

\* There is a slot.
LEMMA EntsChoice ==
  ASSUME LogInv, NEW parent, NEW b \in RoomIn(parent), NEW i \in Inums, NEW ents, ents = ChosenEnts(parent, b, i)
  PROVE  HasSlot(ents)
<1>1. CASE parent.used[b] = 0
  <2>1. i \in -1 .. (MAXINODES - 1) /\ -1 \in -1 .. (MAXINODES - 1)
    BY LFSAssumption DEF Inums
  <2>2. build_dir_block(FALSE, i, -1) \in [Slots -> Entries]
    BY <2>1, BuildType
  <2>3. 0 \in Slots
    BY LFSAssumption DEF Slots
  <2>4. build_dir_block(FALSE, i, -1)[0] = Unused
    BY <2>3 DEF build_dir_block
  <2>5. ents = build_dir_block(FALSE, i, -1)
    BY <1>1, Zenon DEF ChosenEnts
  <2> QED
    BY <2>2, <2>3, <2>4, <2>5, UnusedIs, Zenon DEF HasSlot
<1>2. CASE parent.used[b] # 0
  <2>1. ents = DirAt(parent.ptr[b])
    BY <1>2, Zenon DEF ChosenEnts
  <2>2. \E x \in Slots : DirAt(parent.ptr[b])[x].inum = -1
    BY <1>2 DEF RoomIn
  <2> QED
    BY <2>1, <2>2, DirAtType, Zenon DEF LogInv, HasSlot
<1> QED
  BY <1>1, <1>2

\* The new inode and the new directory block go behind the old end of the log.
Behind(t, x, y, z) == y # x /\ z # x /\ y >= next_block /\ z >= next_block /\ (t = MFS_DIRECTORY => y # z)

\* Put writes one block and nothing else, whatever the block holds.
Shaped(d) == DOMAIN d = {"exists", "imap", "next", "blk"} /\ DOMAIN d.blk = Blocks

\* One write() of a block.
LEMMA PutAt ==
  ASSUME NEW d, Shaped(d), NEW x \in Blocks, NEW c, NEW new, new = Put(d, x, c)
  PROVE  /\ Shaped(new) /\ new.imap = d.imap /\ new.blk[x] = c
         /\ \A w \in Blocks : w # x => new.blk[w] = d.blk[w]
BY DEF Put, Shaped

\* What creat_server leaves, when it does not leave everything as it is.
LEMMA CreatIs ==
  ASSUME LogInv, up, HasRoom, Tidy, NEW p \in Inums, imap[p] # -1, NEW t \in Types,
         NEW name \in Names, NEW parent \in find_inode(p), NEW found, NEW img,
         img = CreatOut(p, t, name, parent, found).imgs[Len(CreatOut(p, t, name, parent, found).imgs)],
         img # disk
  PROVE  \E i \in Inums, b \in Ptrs, s0 \in Slots, x, y, z \in Blocks : \E par, node, ents :
           /\ Made(img, p, t, name, i, b, s0, x, y, z, par, node, ents)
           /\ MadeIn(parent, b, x, par, ents) /\ MadeNode(node, t, y) /\ FirstRoom(parent, b)
           /\ Behind(t, x, y, z) /\ ents \in [Slots -> Entries] /\ ents[s0].inum = -1
<1> DEFINE free  == {i \in Inums : imap[i] = -1}
           inum  == Min(free)
           room  == RoomIn(parent)
           b     == Min(room)
           grown == parent.used[b] = 0
           par   == IF grown THEN AppendBlock(parent, parent.size + 1, b) ELSE parent
           nb1   == IF grown THEN next_block + 1 ELSE next_block
           ents  == IF grown THEN build_dir_block(FALSE, inum, -1)
                             ELSE DirAt(parent.ptr[b])
           e     == Min({x \in Slots : ents[x].inum = -1})
           parAt == IF imap[p] # -1 THEN imap[p] ELSE par.ptr[b] + 1
           isdir == t = MFS_DIRECTORY
           nb2   == IF isdir THEN nb1 + 1 ELSE nb1
           none  == [j \in Ptrs |-> -1]
           zero  == [j \in Ptrs |-> 0]
           node  == IF isdir
                    THEN Inode(t, 1, [none EXCEPT ![0] = nb1], [zero EXCEPT ![0] = 1])
                    ELSE Inode(t, 0, none, zero)
           entry == DirBlk([ents EXCEPT ![e] = Entry(name, inum)])
           dots  == DirBlk(build_dir_block(TRUE, inum, p))
           d1 == IF grown THEN Put(disk, next_block, DirBlk(ents)) ELSE disk
           d2 == Put(d1, parAt, par)
           d3 == Put(d2, par.ptr[b], entry)
           d4 == IF isdir THEN Put(d3, nb1, dots) ELSE d3
           d5 == Put(d4, nb2, node)
           d6 == CRImap(d5, inum, nb2)
           d7 == CRNext(d6, nb2 + 1)
           out == CreatOut(p, t, name, parent, found)
<1>1. out = IF parent.type # MFS_DIRECTORY THEN Same(-1)
            ELSE IF found # -1 THEN Same(0)
            ELSE IF free = {} \/ room = {} THEN Same(-1)
            ELSE IF t \notin {MFS_DIRECTORY, MFS_REGULAR_FILE}
            THEN Outcome(-1, imap, nb1, <<disk, d1, d2, d3>>)
            ELSE Outcome(0, [imap EXCEPT ![inum] = nb2], nb2 + 1,
                         <<disk, d1, d2, d3, d4, d5, d6, d7>>)
  BY Zenon DEF CreatOut, RoomIn
<1>2. t \in {MFS_DIRECTORY, MFS_REGULAR_FILE}
  BY DEF Tidy
<1>3. img = d7 /\ parent.type = MFS_DIRECTORY /\ free # {} /\ room # {}
  <2> HIDE DEF free, room, inum, nb1, nb2, d1, d2, d3, d4, d5, d6, d7
  <2>1. img = out.imgs[Len(out.imgs)]
    OBVIOUS
  <2> HIDE DEF out
  <2>2. ASSUME NEW r, out = Same(r) PROVE FALSE
    BY <2>1, <2>2 DEF Same, Outcome
  <2>3. parent.type = MFS_DIRECTORY /\ ~(free = {} \/ room = {}) /\ found = -1
    BY <1>1, <2>2
  <2>4. out = Outcome(0, [imap EXCEPT ![inum] = nb2], nb2 + 1, <<disk, d1, d2, d3, d4, d5, d6, d7>>)
    BY <1>1, <1>2, <2>3
  <2>5. out.imgs = <<disk, d1, d2, d3, d4, d5, d6, d7>>
    BY <2>4 DEF Outcome
  <2> QED
    BY <2>1, <2>3, <2>5
<1> HIDE DEF out
<1>4. /\ parent = disk.blk[imap[p]] /\ imap[p] \in Blocks /\ imap[p] < next_block
      /\ GoodInode(parent, next_block, disk.blk)
      /\ parent \in [k : {"inode"}, type : Int, size : Int,
                     ptr : [Ptrs -> Int], used : [Ptrs -> {0, 1}]]
  BY FindAllocated
<1>5. PICK i : i = inum
  OBVIOUS
<1>6. i \in Inums /\ imap[i] = -1
  <2>1. PICK fr : fr = free
    OBVIOUS
  <2>2. fr # {} /\ i = Min(fr)
    BY <1>3, <1>5, <2>1
  <2> HIDE DEF free
  <2> QED
    BY <2>1, <2>2, FreeChoice DEF free
<1>7. PICK c : c = b
  OBVIOUS
<1>8. c \in room /\ c \in Ptrs /\ FirstRoom(parent, c)
  <2>1. parent.used \in [Ptrs -> {0, 1}]
    BY <1>4
  <2> QED
    BY <2>1, <1>3, <1>7, RoomChoice
<1> HIDE DEF free, inum, room, b
<1>9. PICK en : en = ents
  OBVIOUS
<1>10. HasSlot(en)
  <2>1. en = ChosenEnts(parent, c, i)
    BY <1>5, <1>7, <1>9 DEF ChosenEnts
  <2> HIDE DEF ents
  <2>2. c \in RoomIn(parent)
    BY <1>8 DEF room
  <2> QED
    BY <2>1, <2>2, <1>6, EntsChoice, Zenon
<1>11. PICK s0 : s0 = e
  OBVIOUS
<1>12. s0 \in Slots /\ en[s0].inum = -1
  <2>1. s0 = Min({x \in Slots : en[x].inum = -1})
    BY <1>9, <1>11
  <2> HIDE DEF ents, e
  <2> QED
    BY <2>1, <1>10, SlotChoice DEF HasSlot
<1>13. PICK P : P = par
  OBVIOUS
<1>14. PICK X, Y, Z : X = P.ptr[c] /\ Y = nb1 /\ Z = nb2
  OBVIOUS
<1>15. PICK N, E1, E2, E3 : N = node /\ E1 = DirBlk(en) /\ E2 = entry /\ E3 = dots
  OBVIOUS
<1>16. E2 = DirBlk([en EXCEPT ![s0] = Entry(name, i)]) /\ E3 = DirBlk(build_dir_block(TRUE, i, p))
  BY <1>5, <1>9, <1>11, <1>15, Zenon
<1>17. /\ N.type = t
       /\ \A j \in Ptrs : N.used[j] = 1 => t = MFS_DIRECTORY /\ j = 0 /\ N.ptr[j] = Y
  <2>1. CASE t = MFS_DIRECTORY
    <3>1. N = Inode(t, 1, [none EXCEPT ![0] = Y], [zero EXCEPT ![0] = 1])
      BY <2>1, <1>14, <1>15
    <3> HIDE DEF node
    <3>2. \A j \in Ptrs : ([zero EXCEPT ![0] = 1][j] = 1 => j = 0) /\ (j = 0 => [none EXCEPT ![0] = Y][j] = Y)
      OBVIOUS
    <3>3. N.type = t /\ N.ptr = [none EXCEPT ![0] = Y] /\ N.used = [zero EXCEPT ![0] = 1]
      BY <3>1 DEF Inode
    <3> QED
      BY <2>1, <3>2, <3>3
  <2>2. CASE t # MFS_DIRECTORY
    <3>1. N = Inode(t, 0, none, zero)
      BY <2>2, <1>15
    <3> HIDE DEF node
    <3>2. N.type = t /\ N.used = zero
      BY <3>1 DEF Inode
    <3> QED
      BY <3>2
  <2> QED
    BY <2>1, <2>2
<1>18. P = IF parent.used[c] = 0 THEN AppendBlock(parent, parent.size + 1, c) ELSE parent
  BY <1>7, <1>13
<1>19. CRNext(CRImap(Put(IF t = MFS_DIRECTORY
                        THEN Put(Put(Put(IF parent.used[c] = 0 THEN Put(disk, next_block, E1) ELSE disk,
                                         imap[p], P), X, E2), Y, E3)
                        ELSE Put(Put(IF parent.used[c] = 0 THEN Put(disk, next_block, E1) ELSE disk,
                                     imap[p], P), X, E2), Z, N), i, Z), Z + 1) = img
  BY <1>3, <1>5, <1>7, <1>9, <1>13, <1>14, <1>15
<1>20. /\ Y = IF parent.used[c] = 0 THEN next_block + 1 ELSE next_block
       /\ Z = IF t = MFS_DIRECTORY THEN Y + 1 ELSE Y
  BY <1>7, <1>14
<1> HIDE DEF ents, e, par, nb1, nb2, node, entry, dots, d1, d2, d3, d4, d5, d6, d7, grown, parAt, isdir, none, zero
<1>21. /\ next_block \in Blocks /\ next_block + 1 \in Blocks /\ next_block + 2 \in Blocks
       /\ next_block \in Nat /\ disk.imap = imap /\ Shaped(disk) /\ imap \in Imaps
  <2>1. next_block \in Blocks /\ next_block + 1 \in Blocks /\ next_block + 2 \in Blocks /\ next_block \in Nat
    <3>1. next_block \in Blocks /\ next_block + 3 <= MaxBlock
      BY DEF LogInv, TypeOK, HasRoom
    <3> QED
      BY <3>1, LFSAssumption DEF Blocks
  <2>2. disk.imap = imap /\ imap \in Imaps
    BY DEF LogInv, TypeOK, Imaps
  <2>3. Shaped(disk)
    BY DEF LogInv, TypeOK, Shaped
  <2> QED
    BY <2>1, <2>2, <2>3
<1>22. Y \in Blocks /\ Z \in Blocks /\ Y >= next_block /\ Z >= next_block /\ (t = MFS_DIRECTORY => Y # Z) /\ Z # -1
  BY <1>20, <1>21
<1>23. parent.used[c] \in {0, 1}
  BY <1>4, <1>8
<1>24. ASSUME parent.used[c] = 0
       PROVE  X = next_block /\ P.type = parent.type /\ P.used[c] = 1
              /\ \A j \in Ptrs : j # c => P.used[j] = parent.used[j] /\ P.ptr[j] = parent.ptr[j]
  <2>1. P = Inode(parent.type, parent.size + 1, [parent.ptr EXCEPT ![c] = next_block], [parent.used EXCEPT ![c] = 1])
    BY <1>18, <1>24 DEF AppendBlock
  <2>2. /\ P.type = parent.type /\ P.ptr = [parent.ptr EXCEPT ![c] = next_block]
        /\ P.used = [parent.used EXCEPT ![c] = 1]
    BY <2>1 DEF Inode
  <2>3. DOMAIN parent.ptr = Ptrs /\ DOMAIN parent.used = Ptrs
    BY <1>4
  <2> QED
    BY <2>2, <2>3, <1>8, <1>14
<1>25. ASSUME parent.used[c] = 1
       PROVE  P = parent /\ X = parent.ptr[c] /\ X \in Blocks /\ X < next_block /\ disk.blk[X].k = "dir"
  <2>1. P = parent /\ X = parent.ptr[c]
    BY <1>14, <1>18, <1>25
  <2>2. IsDirBlk(imap, disk.blk, p, c)
    BY <1>3, <1>4, <1>25 DEF IsDirBlk
  <2> QED
    BY <2>1, <2>2, <1>4, <1>8, DirPlace
<1>26. X \in Blocks /\ X # imap[p] /\ X # Y /\ X # Z /\ (X < next_block \/ parent.used[c] = 0)
  <2>1. CASE parent.used[c] = 0
    <3>1. X = next_block /\ Y = next_block + 1
      BY <2>1, <1>20, <1>24
    <3> QED
      BY <2>1, <3>1, <1>4, <1>20, <1>21
  <2>2. CASE parent.used[c] = 1
    <3>1. X \in Blocks /\ X < next_block /\ disk.blk[X].k = "dir"
      BY <2>2, <1>25
    <3>2. disk.blk[imap[p]].k = "inode"
      BY <1>4
    <3>3. X # imap[p]
      BY <3>1, <3>2
    <3>4. X # Y /\ X # Z
      BY <3>1, <1>21, <1>22 DEF Blocks
    <3> QED
      BY <3>1, <3>3, <3>4
  <2> QED
    BY <1>23, <2>1, <2>2
<1>27. imap[p] # Y /\ imap[p] # Z /\ imap[p] # next_block
  BY <1>4, <1>21, <1>22 DEF Blocks
<1>28. PICK f1 : f1 = IF parent.used[c] = 0 THEN Put(disk, next_block, E1) ELSE disk
  OBVIOUS
<1>29. PICK f2 : f2 = Put(f1, imap[p], P)
  OBVIOUS
<1>30. PICK f3 : f3 = Put(f2, X, E2)
  OBVIOUS
<1>31. PICK f4 : f4 = IF t = MFS_DIRECTORY THEN Put(f3, Y, E3) ELSE f3
  OBVIOUS
<1>32. PICK f5 : f5 = Put(f4, Z, N)
  OBVIOUS
<1>33. img = CRNext(CRImap(f5, i, Z), Z + 1)
  BY <1>19, <1>28, <1>29, <1>30, <1>31, <1>32
<1>34. Shaped(f1) /\ f1.imap = imap /\ \A w \in Blocks : w # next_block => f1.blk[w] = disk.blk[w]
  <2>1. CASE parent.used[c] = 0
    <3>1. f1 = Put(disk, next_block, E1)
      BY <2>1, <1>28
    <3> QED
      BY <3>1, <1>21, PutAt
  <2>2. CASE parent.used[c] # 0
    BY <2>2, <1>21, <1>28
  <2> QED
    BY <2>1, <2>2
<1>35. Shaped(f2) /\ f2.imap = imap /\ f2.blk[imap[p]] = P /\ \A w \in Blocks : w # imap[p] => f2.blk[w] = f1.blk[w]
  BY <1>4, <1>29, <1>34, PutAt
<1>36. Shaped(f3) /\ f3.imap = imap /\ f3.blk[X] = E2 /\ \A w \in Blocks : w # X => f3.blk[w] = f2.blk[w]
  BY <1>26, <1>30, <1>35, PutAt
<1>37. /\ Shaped(f4) /\ f4.imap = imap /\ (t = MFS_DIRECTORY => f4.blk[Y] = E3)
       /\ \A w \in Blocks : w # Y => f4.blk[w] = f3.blk[w]
  <2>1. CASE t = MFS_DIRECTORY
    <3>1. f4 = Put(f3, Y, E3)
      BY <2>1, <1>31
    <3> QED
      BY <3>1, <1>22, <1>36, PutAt
  <2>2. CASE t # MFS_DIRECTORY
    BY <2>2, <1>31, <1>36
  <2> QED
    BY <2>1, <2>2
<1>38. Shaped(f5) /\ f5.imap = imap /\ f5.blk[Z] = N /\ \A w \in Blocks : w # Z => f5.blk[w] = f4.blk[w]
  BY <1>22, <1>32, <1>37, PutAt
<1>39. img.blk = f5.blk /\ img.imap = [imap EXCEPT ![i] = Z]
  BY <1>33, <1>38 DEF CRNext, CRImap, Shaped
<1>40. img.blk[imap[p]] = P
  <2>1. PICK m : m = imap[p]
    OBVIOUS
  <2>2. m \in Blocks /\ m # X /\ m # Y /\ m # Z /\ f2.blk[m] = P
    BY <1>4, <1>26, <1>27, <1>35, <2>1
  <2>3. f5.blk[m] = P
    BY <2>2, <1>36, <1>37, <1>38
  <2> QED
    BY <2>1, <2>3, <1>39
<1>41. img.blk[X] = E2
  BY <1>26, <1>36, <1>37, <1>38, <1>39
<1>42. t = MFS_DIRECTORY => img.blk[Y] = E3
  BY <1>22, <1>37, <1>38, <1>39
<1>43. \A w \in Blocks : w < next_block /\ w # X /\ w # imap[p] => img.blk[w] = disk.blk[w]
  <2>1. \A w \in Blocks : w < next_block => w # next_block /\ w # Y /\ w # Z
    BY <1>21, <1>22 DEF Blocks
  <2> QED
    BY <2>1, <1>34, <1>35, <1>36, <1>37, <1>38, <1>39
<1>44. Made(img, p, t, name, i, c, s0, X, Y, Z, P, N, en)
  <2>1. img.blk[Z] = N /\ img.imap = [imap EXCEPT ![i] = Z]
    BY <1>38, <1>39
  <2>2. img.blk[X] = DirBlk([en EXCEPT ![s0] = Entry(name, i)])
    BY <1>16, <1>41, Zenon
  <2>3. t = MFS_DIRECTORY => img.blk[Y] = DirBlk(build_dir_block(TRUE, i, p))
    BY <1>16, <1>42, Zenon
  <2>4. imap[i] = -1 /\ Z # -1
    BY <1>6, <1>22
  <2> QED
    BY <2>1, <2>2, <2>3, <2>4, <1>40, <1>43, Zenon DEF Made
<1>45. MadeIn(parent, c, X, P, en)
  <2>1. CASE parent.used[c] = 0
    <3>1. en = build_dir_block(FALSE, i, -1)
      BY <2>1, <1>5, <1>7, <1>9 DEF ents, grown
    <3>2. \A s \in Slots : build_dir_block(FALSE, i, -1)[s] = Unused
      BY DEF build_dir_block
    <3>3. \A s \in Slots : Clear(en[s])
      BY <3>1, <3>2, UnusedIs DEF Clear
    <3>4. P.type = MFS_DIRECTORY /\ X = P.ptr[c] /\ P.used[c] = 1
          /\ \A j \in Ptrs : j # c => P.used[j] = parent.used[j] /\ P.ptr[j] = parent.ptr[j]
      BY <2>1, <1>3, <1>14, <1>24
    <3>5. X >= next_block
      BY <2>1, <1>21, <1>24
    <3> QED
      BY <2>1, <3>3, <3>4, <3>5, <1>3 DEF MadeIn
  <2>2. CASE parent.used[c] = 1
    <3>0. en = IF parent.used[c] = 0 THEN build_dir_block(FALSE, i, -1) ELSE DirAt(parent.ptr[c])
      BY <1>5, <1>7, <1>9, Zenon DEF ents, grown
    <3>1. en = DirAt(parent.ptr[c])
      <4>1. parent.used[c] # 0
        BY <2>2
      <4> QED
        BY <3>0, <4>1, Zenon
    <3> QED
      BY <2>2, <3>1, <1>3, <1>25 DEF MadeIn
  <2> QED
    BY <2>1, <2>2, <1>23
<1>46. MadeNode(N, t, Y) /\ Behind(t, X, Y, Z)
  BY <1>17, <1>22, <1>26 DEF MadeNode, Behind
<1> QED
  BY <1>6, <1>8, <1>10, <1>12, <1>22, <1>26, <1>44, <1>45, <1>46, Zenon DEF HasSlot

\* creat_server gives one name to an inode that had none.
LEMMA CreatDirs ==
  ASSUME LogInv, DirsInv, up, HasRoom, Tidy, PlainNames, NEW p \in Inums, imap[p] # -1, NEW t \in Types,
         NEW name \in Names, NEW parent \in find_inode(p), NEW found, NEW img,
         img = CreatOut(p, t, name, parent, found).imgs[Len(CreatOut(p, t, name, parent, found).imgs)]
  PROVE  DirsOK(img.imap, img.blk)
<1>1. disk.imap = imap /\ DirsOK(imap, disk.blk) /\ imap \in Imaps
  BY DirsUp DEF LogInv, TypeOK, Imaps
<1>2. CASE img = disk
  BY <1>1, <1>2
<1>3. CASE img # disk
  <2>1. PICK i \in Inums, b \in Ptrs, s0 \in Slots, x \in Blocks, y \in Blocks, z \in Blocks :
          \E par, node, ents :
           /\ Made(img, p, t, name, i, b, s0, x, y, z, par, node, ents)
           /\ MadeIn(parent, b, x, par, ents) /\ MadeNode(node, t, y) /\ FirstRoom(parent, b)
           /\ Behind(t, x, y, z) /\ ents \in [Slots -> Entries] /\ ents[s0].inum = -1
    BY <1>3, CreatIs
  <2>2. PICK par, node, ents :
           /\ Made(img, p, t, name, i, b, s0, x, y, z, par, node, ents)
           /\ MadeIn(parent, b, x, par, ents) /\ MadeNode(node, t, y)
           /\ Behind(t, x, y, z) /\ ents \in [Slots -> Entries] /\ ents[s0].inum = -1
    BY <2>1
  <2>3. PICK im, blk : im = img.imap /\ blk = img.blk
    OBVIOUS
  <2>4. /\ im[i] = z /\ \A q \in Inums : q # i => im[q] = imap[q]
        /\ imap[i] = -1 /\ z # -1
    BY <1>1, <2>2, <2>3 DEF Made, Imaps
  <2>5. \A q \in Inums : imap[q] # -1 => im[q] = imap[q] /\ im[q] # -1 /\ q # i
    BY <2>4
  <2>6. im[0] # -1
    <3>1. 0 \in Inums
      BY LFSAssumption DEF Inums
    <3> QED
      BY <1>1, <2>5, <3>1 DEF DirsOK
  <2>7. /\ blk[imap[p]] = par /\ blk[z] = node /\ blk[x] = DirBlk([ents EXCEPT ![s0] = Entry(name, i)])
        /\ t = MFS_DIRECTORY => blk[y] = DirBlk(build_dir_block(TRUE, i, p))
        /\ \A w \in Blocks : w < next_block /\ w # x /\ w # imap[p] => blk[w] = disk.blk[w]
    BY <2>2, <2>3 DEF Made
  <2>8. parent = disk.blk[imap[p]]
    BY FindAllocated
  <2>9. \A s \in Slots : blk[x].ent[s] = IF s = s0 THEN Entry(name, i) ELSE ents[s]
    BY <2>2, <2>7 DEF DirBlk
  <2>a. ASSUME NEW d \in Inums, NEW j \in Ptrs, NEW s \in Slots, IsDirBlk(imap, disk.blk, d, j), NEW f,
               f = En(imap, disk.blk, d, j, s)
        PROVE  From(imap, disk.blk, im, d, j, s, f, p, b, s0)
    <3>1. EntryOK(imap, d, s, f)
      BY <1>1, <2>a DEF DirsOK
    <3>2. f \in Entries
      <4>1. imap[d] # -1
        BY <2>a DEF IsDirBlk
      <4>2. PICK w : w = disk.blk[imap[d]].ptr[j]
        OBVIOUS
      <4>3. disk.blk[w].ent \in [Slots -> Entries] /\ f = disk.blk[w].ent[s]
        BY <2>a, <4>1, <4>2, DirPlace DEF En
      <4> QED
        BY <4>3
    <3>3. ASSUME IsName(f), imap[f.inum] # -1 PROVE im[f.inum] # -1
      <4>1. f.inum \in Inums
        BY <3>2, <3>3, LFSAssumption DEF Entries, Inums, IsName
      <4> QED
        BY <4>1, <3>3, <2>5
    <3> QED
      BY <3>1, <3>3, <2>a DEF From, EntryOK
  <2>b. x >= next_block \/ (IsDirBlk(imap, disk.blk, p, b) /\ parent.ptr[b] = x /\ disk.blk[x].k = "dir")
    <3>1. CASE parent.used[b] = 1 /\ parent.ptr[b] = x
      <4>1. IsDirBlk(imap, disk.blk, p, b)
        BY <2>2, <2>8, <3>1 DEF MadeIn, IsDirBlk
      <4> QED
        BY <4>1, <2>8, <3>1, DirPlace
    <3> QED
      BY <2>2, <3>1 DEF MadeIn
  <2>c. ASSUME NEW d \in Inums, NEW j \in Ptrs, IsDirBlk(imap, disk.blk, d, j), <<d, j>> # <<p, b>>,
               NEW w, w = disk.blk[imap[d]].ptr[j]
        PROVE  blk[w] = disk.blk[w]
    <3>1. imap[d] # -1
      BY <2>c DEF IsDirBlk
    <3>2. w \in Blocks /\ w < next_block /\ disk.blk[w].k = "dir"
      BY <2>c, <3>1, DirPlace
    <3>3. w # imap[p]
      BY <3>2, DirPlace
    <3>4. w # x
      <4>1. CASE x >= next_block
        BY <4>1, <3>2 DEF LogInv, TypeOK, Blocks
      <4>2. CASE IsDirBlk(imap, disk.blk, p, b) /\ parent.ptr[b] = x
        <5>1. Apart(imap, disk.blk)
          BY <1>1, DirsUp DEF LogInv
        <5>2. ASSUME w = x PROVE d = p /\ j = b
          <6>1. disk.blk[imap[d]].used[j] = 1 /\ disk.blk[imap[p]].used[b] = 1
            BY <2>c, <4>2 DEF IsDirBlk
          <6>2. disk.blk[imap[d]].ptr[j] = disk.blk[imap[p]].ptr[b]
            BY <2>c, <2>8, <4>2, <5>2
          <6> QED
            BY <3>1, <5>1, <6>1, <6>2 DEF Apart
        <5> QED
          BY <2>c, <5>2
      <4> QED
        BY <2>b, <4>1, <4>2
    <3> QED
      BY <3>2, <3>3, <3>4, <2>7
  <2>10. ASSUME NEW j \in Ptrs, IsDirBlk(im, blk, p, j), NEW s \in Slots, NEW e, e = En(im, blk, p, j, s)
         PROVE  From(imap, disk.blk, im, p, j, s, e, p, b, s0)
    <3>1. im[p] = imap[p]
      BY <2>5
    <3>2. par.used[j] = 1 /\ e = blk[par.ptr[j]].ent[s]
      BY <2>7, <2>10, <3>1 DEF IsDirBlk, En
    <3>3. CASE j # b
      <4>1. parent.used[j] = 1 /\ par.ptr[j] = parent.ptr[j] /\ parent.type = MFS_DIRECTORY
        BY <2>2, <3>2, <3>3 DEF MadeIn
      <4>2. IsDirBlk(imap, disk.blk, p, j)
        BY <4>1, <2>8 DEF IsDirBlk
      <4>3. blk[parent.ptr[j]] = disk.blk[parent.ptr[j]]
        BY <3>3, <4>2, <2>8, <2>c
      <4>4. e = En(imap, disk.blk, p, j, s)
        BY <3>2, <4>1, <4>3, <2>8 DEF En
      <4> QED
        BY <4>2, <4>4, <2>a
    <3>4. CASE j = b /\ s = s0
      <4>1. e = Entry(name, i)
        BY <2>2, <2>9, <3>2, <3>4 DEF MadeIn
      <4>2. e.name = name /\ e.inum = i
        BY <4>1 DEF Entry
      <4>3. i # 0 /\ i # -1 /\ i # p
        BY <1>1, <2>4 DEF DirsOK, Inums
      <4> QED
        BY <3>4, <4>2, <4>3, <2>4 DEF From, IsName, PlainNames
    <3>5. CASE j = b /\ s # s0
      <4>1. e = ents[s]
        BY <2>2, <2>9, <3>2, <3>5 DEF MadeIn
      <4>2. CASE \A r \in Slots : Clear(ents[r])
        BY <4>1, <4>2 DEF From
      <4>3. CASE parent.used[b] = 1 /\ parent.ptr[b] = x /\ ents = DirAt(x)
        <5>1. IsDirBlk(imap, disk.blk, p, b)
          BY <2>2, <2>8, <4>3 DEF MadeIn, IsDirBlk
        <5>2. DirAt(x) = disk.blk[x].ent
          BY <5>1, <2>8, <4>3, DirPlace
        <5>3. e = En(imap, disk.blk, p, b, s)
          BY <4>1, <4>3, <5>2, <2>8 DEF En
        <5> QED
          BY <3>5, <5>1, <5>3, <2>a
      <4> QED
        BY <2>2, <4>2, <4>3 DEF MadeIn
    <3> QED
      BY <3>3, <3>4, <3>5
  <2>11. ASSUME NEW j \in Ptrs, IsDirBlk(im, blk, i, j), NEW s \in Slots, NEW e, e = En(im, blk, i, j, s)
         PROVE  From(imap, disk.blk, im, i, j, s, e, p, b, s0)
    <3>1. node.used[j] = 1 /\ e = blk[node.ptr[j]].ent[s]
      BY <2>4, <2>7, <2>11 DEF IsDirBlk, En
    <3>2. e = build_dir_block(TRUE, i, p)[s]
      <4>1. PICK g : g = build_dir_block(TRUE, i, p)
        OBVIOUS
      <4>2. t = MFS_DIRECTORY /\ node.ptr[j] = y
        BY <2>2, <3>1 DEF MadeNode
      <4>3. blk[y] = DirBlk(g)
        BY <2>7, <4>1, <4>2
      <4>4. DirBlk(g).ent = g
        BY DEF DirBlk
      <4> QED
        BY <3>1, <4>1, <4>2, <4>3, <4>4
    <3>3. e = IF s = 0 THEN Entry(".", i) ELSE IF s = 1 THEN Entry("..", p) ELSE Unused
      BY <3>2 DEF build_dir_block
    <3>4. CASE s = 0
      BY <3>3, <3>4 DEF From, Dot, Entry
    <3>5. CASE s = 1
      BY <3>3, <3>5 DEF From, Dot, Entry
    <3>6. CASE s # 0 /\ s # 1
      BY <3>3, <3>6, UnusedIs DEF From, Clear
    <3> QED
      BY <3>4, <3>5, <3>6
  <2>12. ASSUME NEW d \in Inums, d # p, d # i, NEW j \in Ptrs, IsDirBlk(im, blk, d, j), NEW s \in Slots,
                NEW e, e = En(im, blk, d, j, s)
         PROVE  From(imap, disk.blk, im, d, j, s, e, p, b, s0)
    <3>1. im[d] = imap[d] /\ imap[d] # -1
      BY <2>4, <2>12 DEF IsDirBlk
    <3>2. imap[d] \in Blocks /\ imap[d] < next_block /\ disk.blk[imap[d]].k = "inode"
      BY <3>1, DirPlace
    <3>3. imap[d] # imap[p]
      BY <2>12, <3>1, DirsUp DEF LogInv, Apart
    <3>4. imap[d] # x
      BY <2>b, <3>2 DEF LogInv, TypeOK, Blocks
    <3>5. blk[imap[d]] = disk.blk[imap[d]]
      BY <3>2, <3>3, <3>4, <2>7
    <3>6. IsDirBlk(imap, disk.blk, d, j)
      BY <3>1, <3>5, <2>12 DEF IsDirBlk
    <3>7. PICK w : w = disk.blk[imap[d]].ptr[j]
      OBVIOUS
    <3>8. blk[w] = disk.blk[w]
      BY <3>6, <3>7, <2>12, <2>c
    <3>9. e = En(imap, disk.blk, d, j, s)
      BY <3>1, <3>5, <3>7, <3>8, <2>12 DEF En
    <3> QED
      BY <3>6, <3>9, <2>a
  <2>13. DirsOK(im, blk)
    BY <1>1, <2>6, <2>10, <2>11, <2>12, DirsStep
  <2> QED
    BY <2>3, <2>13
<1> QED
  BY <1>2, <1>3

\* The directories of the image start_server writes.
LEMMA FreshDirs ==
  DirsOK(FreshImage.imap, FreshImage.blk)
<1>1. PICK im, blk : im = FreshImage.imap /\ blk = FreshImage.blk
  OBVIOUS
<1>2. 0 \in Inums /\ CRSIZE \in Blocks /\ CRSIZE + 1 \in Blocks
  BY LFSAssumption DEF Inums, Blocks, CRSIZE
<1>3. im[0] = CRSIZE + 1 /\ \A d \in Inums : im[d] # -1 => d = 0
  BY <1>1, <1>2 DEF FreshImage
<1>4. PICK root, dots : root = blk[CRSIZE + 1] /\ dots = blk[CRSIZE]
  OBVIOUS
<1>5. root = Inode(MFS_DIRECTORY, 1, [j \in Ptrs |-> IF j = 0 THEN CRSIZE ELSE -1],
                   [j \in Ptrs |-> IF j = 0 THEN 1 ELSE 0])
  BY <1>1, <1>2, <1>4 DEF FreshImage, CRSIZE
<1>6. dots = DirBlk(build_dir_block(TRUE, 0, 0))
  BY <1>1, <1>2, <1>4 DEF FreshImage
<1>7. \A j \in Ptrs : root.used[j] = 1 => j = 0 /\ root.ptr[j] = CRSIZE
  BY <1>5 DEF Inode
<1>8. \A s \in Slots : dots.ent[s] = IF s = 0 THEN Entry(".", 0) ELSE IF s = 1 THEN Entry("..", 0) ELSE Unused
  BY <1>6 DEF DirBlk, build_dir_block
<1>9. ASSUME NEW d \in Inums, NEW j \in Ptrs, IsDirBlk(im, blk, d, j)
      PROVE  d = 0 /\ j = 0 /\ \A s : En(im, blk, d, j, s) = dots.ent[s]
  <2>1. d = 0
    BY <1>3, <1>9 DEF IsDirBlk
  <2>2. root.used[j] = 1
    BY <1>3, <1>4, <1>9, <2>1 DEF IsDirBlk
  <2> QED
    BY <1>3, <1>4, <1>7, <2>1, <2>2 DEF En
<1>10. ASSUME NEW s \in Slots PROVE Clear(dots.ent[s]) \/ Dot(0, s, dots.ent[s])
  <2>1. CASE s = 0
    BY <1>8, <2>1 DEF Dot, Entry
  <2>2. CASE s = 1
    BY <1>8, <2>2 DEF Dot, Entry
  <2>3. CASE s # 0 /\ s # 1
    BY <1>8, <2>3, UnusedIs DEF Clear
  <2> QED
    BY <2>1, <2>2, <2>3
<1>12. ASSUME NEW d \in Inums, NEW j \in Ptrs, NEW s \in Slots, IsDirBlk(im, blk, d, j)
       PROVE  EntryOK(im, d, s, En(im, blk, d, j, s)) /\ ~IsName(En(im, blk, d, j, s))
  BY <1>9, <1>10, <1>12 DEF EntryOK, IsName, Dot, Clear
<1>13. im[0] # -1
  BY <1>3 DEF CRSIZE
<1>14. DirsOK(im, blk)
  BY <1>12, <1>13 DEF DirsOK, Once
<1> QED
  BY <1>1, <1>14

\* A step that leaves the image alone leaves the directories alone.
LEMMA DirsStay == ASSUME DirsInv, disk' = disk PROVE DirsInv'
BY DEF DirsInv

\* A handler's image becomes the disk.
LEMMA DirsMove ==
  ASSUME NEW img, disk' = img, DirsOK(img.imap, img.blk)
  PROVE  DirsInv'
BY DEF DirsInv

\* The first start and every later one.
LEMMA StartDirs == ASSUME DirsInv, start_server PROVE DirsInv'
<1>1. CASE disk.exists
  BY <1>1, DirsStay DEF start_server
<1>2. CASE ~disk.exists
  <2>1. disk' = FreshImage
    BY <1>2 DEF start_server
  <2> QED
    BY <2>1, FreshDirs, DirsMove
<1> QED
  BY <1>1, <1>2

\* Every step keeps the directories in order, if clients unlink only what
\* unlink_server can find.
LEMMA NextDirs ==
  ASSUME Tidy, PlainNames, LogInv, DirsInv, [HeldNext(FALSE)]_vars
  PROVE  DirsInv'
<1> DEFINE Goal == DirsInv'
<1>0. ASSUME disk' = disk PROVE Goal
  BY <1>0, DirsStay
<1>1. ASSUME NEW o, NEW r, NEW v, Answer(o, r, v) PROVE Goal
  BY <1>0, <1>1 DEF Answer
<1>2. ASSUME NEW p \in InumArgs, NEW n \in Names, NEW t \in Types, Held(p), Creat(p, t, n) PROVE Goal
  <2>1. CASE Answer("creat", -1, NoVal)
    BY <1>1, <2>1
  <2>2. ASSUME NEW parent \in find_inode(p), NEW found, p \in Inums, Commit("creat", CreatOut(p, t, n, parent, found))
        PROVE  Goal
    <3>1. up /\ HasRoom /\ imap[p] # -1
      BY <1>2, <2>2 DEF Creat, Held
    <3>2. PICK img : img = CreatOut(p, t, n, parent, found).imgs[Len(CreatOut(p, t, n, parent, found).imgs)]
      OBVIOUS
    <3>3. disk' = img
      BY <2>2, <3>2, Zenon DEF Commit
    <3>4. DirsOK(img.imap, img.blk)
      BY <2>2, <3>1, <3>2, CreatDirs, Zenon
    <3> QED
      BY <3>3, <3>4, DirsMove
  <2>3. p \in Inums \/ find_inode(p) = {}
    BY DEF find_inode
  <2> HIDE DEF Goal
  <2> QED
    BY <1>2, <2>1, <2>2, <2>3, Zenon DEF Creat, Run, CrashIn, Tidy
<1>3. ASSUME NEW i \in InumArgs, NEW blk \in BlockArgs, NEW v \in Data, Held(i), Write(i, v, blk) PROVE Goal
  <2>1. CASE Answer("write", -1, NoVal)
    BY <1>1, <2>1
  <2>2. ASSUME NEW node \in find_inode(i), i \in Inums, Commit("write", WriteOut(i, v, blk, node)) PROVE Goal
    <3>1. up /\ HasRoom /\ imap[i] # -1 /\ blk \in Int
      BY <1>3, <2>2, LFSAssumption DEF Write, Held, BlockArgs
    <3>2. PICK img : img = WriteOut(i, v, blk, node).imgs[Len(WriteOut(i, v, blk, node).imgs)]
      OBVIOUS
    <3>3. disk' = img
      BY <2>2, <3>2, Zenon DEF Commit
    <3>4. DirsOK(img.imap, img.blk)
      BY <2>2, <3>1, <3>2, WriteDirs, Zenon
    <3> QED
      BY <3>1, <3>3, <3>4, DirsMove
  <2>3. i \in Inums \/ find_inode(i) = {}
    BY DEF find_inode
  <2> HIDE DEF Goal
  <2> QED
    BY <1>3, <2>1, <2>2, <2>3, Zenon DEF Write, Run, CrashIn, Tidy
<1>4. ASSUME NEW p \in InumArgs, NEW n \in Names, Held(p), Near(p, n), Unlink(p, n) PROVE Goal
  <2>1. CASE Answer("unlink", -1, NoVal)
    BY <1>1, <2>1
  <2>2. CASE Answer("unlink", 0, NoVal)
    BY <1>1, <2>2
  <2>3. ASSUME NEW pinode \in find_inode(p), NEW pnode \in find_inode(p), p \in Inums, pinode.type = MFS_DIRECTORY,
               lookup(pnode, n) >= 0, NEW node, Run("unlink", UnlinkOut(pinode, n, lookup(pnode, n), node))
        PROVE  Goal
    <3>1. up /\ imap[p] # -1
      BY <1>4, <2>3 DEF Unlink, Held
    <3>2. pnode = pinode
      BY <2>3, <3>1, FindAllocated
    <3>3. PICK i, out : i = lookup(pinode, n) /\ out = UnlinkOut(pinode, n, i, node)
      OBVIOUS
    <3>4. i >= 0 /\ Run("unlink", out)
      BY <2>3, <3>2, <3>3
    <3>5. Len(out.imgs) \in {1, 4}
      BY <3>3 DEF UnlinkOut, Same, Outcome
    <3>6. PICK k \in 1 .. Len(out.imgs) : disk' = out.imgs[k]
      <4>1. CASE Commit("unlink", out)
        <5>1. disk' = out.imgs[Len(out.imgs)]
          BY <4>1 DEF Commit
        <5>2. \A m \in {1, 4} : m \in 1 .. m
          OBVIOUS
        <5>3. Len(out.imgs) \in 1 .. Len(out.imgs)
          BY <3>5, <5>2, Zenon
        <5> QED
          BY <5>1, <5>3, Zenon
      <4>2. CASE CrashIn("unlink", out)
        <5>1. PICK k \in 1 .. (Len(out.imgs) - 1) : disk' = out.imgs[k]
          BY <4>2 DEF CrashIn
        <5>2. k \in 1 .. Len(out.imgs)
          BY <3>5, <5>1
        <5> QED
          BY <5>1, <5>2
      <4> QED
        BY <3>4, <4>1, <4>2 DEF Run
    <3>7. PICK img : img = out.imgs[k]
      OBVIOUS
    <3>8. DirsOK(img.imap, img.blk)
      BY <1>4, <2>3, <3>1, <3>3, <3>4, <3>7, UnlinkDirs
    <3> QED
      BY <3>1, <3>6, <3>7, <3>8, DirsMove
  <2>4. p \in Inums \/ find_inode(p) = {}
    BY DEF find_inode
  <2> HIDE DEF Goal
  <2> QED
    BY <1>4, <2>1, <2>2, <2>3, <2>4, Zenon DEF Unlink
<1>5. ASSUME NEW p \in InumArgs, NEW n \in Names, Lookup(p, n) PROVE Goal
  BY <1>1, <1>5, Zenon DEF Lookup
<1>6. ASSUME NEW i \in InumArgs, Stat(i) PROVE Goal
  BY <1>1, <1>6, Zenon DEF Stat
<1>7. ASSUME NEW i \in InumArgs, NEW blk \in BlockArgs, Read(i, blk) PROVE Goal
  BY <1>1, <1>7, Zenon DEF Read
<1>8. ASSUME Shutdown \/ UNCHANGED vars PROVE Goal
  BY <1>0, <1>8 DEF Shutdown, vars
<1>9. ASSUME start_server PROVE Goal
  BY <1>9, StartDirs
<1> HIDE DEF Goal
<1>10. Goal
  BY <1>2, <1>3, <1>4, <1>5, <1>6, <1>7, <1>8, <1>9, Zenon DEF HeldNext
<1> QED
  BY <1>10 DEF Goal

\* An order of the directories in which nothing dangles.
LEMMA DirsNoDangling == ASSUME LogInv, DirsInv PROVE NoDangling
<1> SUFFICES ASSUME disk.exists, NEW d \in Dirs, NEW x \in EntriesOf(d), EntryOf(d, x).name # ".."
             PROVE  EntryOf(d, x).inum \in Live
  BY DEF NoDangling
<1>1. CurImap = disk.imap /\ DirsOK(disk.imap, disk.blk) /\ Good(disk.imap, disk.next, disk.blk)
  BY DEF LogInv, DirsInv, CurImap
<1>2. d \in Inums /\ disk.imap[d] # -1 /\ NodeOf(d) = disk.blk[disk.imap[d]] /\ NodeOf(d).type = MFS_DIRECTORY
  BY <1>1 DEF Dirs, Live, NodeOf
<1>3. PICK j \in Ptrs, s \in Slots : x = <<j, s>>
  BY DEF EntriesOf
<1>4. PICK w, e : w = NodeOf(d).ptr[j] /\ e = DirAt(w)[s]
  OBVIOUS
<1>5. NodeOf(d).used[j] = 1 /\ e.inum # -1 /\ e = EntryOf(d, x)
  BY <1>3, <1>4 DEF EntriesOf, EntryOf
<1>6. IsDirBlk(disk.imap, disk.blk, d, j)
  BY <1>2, <1>5 DEF IsDirBlk
<1>7. w \in 0 .. (disk.next - 1) /\ disk.blk[w].k = "dir"
  <2>1. GoodInode(NodeOf(d), disk.next, disk.blk)
    BY <1>1, <1>2 DEF Good
  <2>2. disk.blk[w].k = KindOf(MFS_DIRECTORY) /\ w \in 0 .. (disk.next - 1)
    BY <2>1, <1>2, <1>4, <1>5, GoodPtr, SMTT(20)
  <2> QED
    BY <2>2 DEF KindOf
<1>8. w \in Blocks
  BY <1>7, LFSAssumption DEF LogInv, TypeOK, Blocks
<1>9. DirAt(w) = disk.blk[w].ent
  BY <1>7, <1>8 DEF DirAt
<1>10. e = En(disk.imap, disk.blk, d, j, s)
  BY <1>2, <1>4, <1>9 DEF En
<1>11. EntryOK(disk.imap, d, s, e)
  BY <1>1, <1>2, <1>6, <1>10 DEF DirsOK
<1>12. e \in Entries
  BY <1>4, DirAtType DEF LogInv
<1>13. e.inum \in Inums
  BY <1>5, <1>12, LFSAssumption DEF Entries, Inums
<1>14. disk.imap[e.inum] # -1
  BY <1>2, <1>5, <1>11 DEF EntryOK, Dot, Clear
<1> QED
  BY <1>1, <1>5, <1>13, <1>14 DEF Live

\* No directory entry leads to a free inode, also when the server is killed
\* inside unlink_server and when directories grow, as long as clients unlink
\* no name that is in a later block of its directory: unlink_server clears
\* entries in the first block only.
THEOREM NoDanglingCorrect == Disciplined /\ PlainNames /\ ~FarNames => (Spec => []NoDangling)
<1> SUFFICES ASSUME Disciplined, PlainNames, ~FarNames PROVE Spec => []NoDangling
  OBVIOUS
<1>1. Init => DirsInv
  BY DEF Init, NoImage, DirsInv
<1>2. ASSUME LogInv, DirsInv, [Next]_vars PROVE DirsInv'
  <2>1. Tidy /\ [HeldNext(FALSE)]_vars
    BY <1>2, NextHeld, LFSAssumption DEF Disciplined
  <2> QED
    BY <1>2, <2>1, NextDirs
<1>3. LogInv /\ DirsInv => NoDangling
  BY DirsNoDangling
<1>4. Spec => []LogInv
  BY LogInvariant
<1> QED
  BY <1>1, <1>2, <1>3, <1>4, PTL DEF Spec
============================================================================
