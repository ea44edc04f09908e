---------------------------- MODULE MFSNetProofs ----------------------------
(***************************************************************************)
(* Proofs about MFSNet: the handlers of lfs.c make retries transparent,    *)
(* for every number of clients, calls, inodes, pointers, directory entries *)
(* and blocks.                                                             *)
(***************************************************************************)
EXTENDS MFSNet, LFSProofs

\* What the theorem assumes of the instance: LFSProofs says why the server
\* must be tidy; clients pass no dot names, and not the name "DNE", which
\* stands in every entry that is not in use.
Plain == Tidy /\ PlainNames /\ "DNE" \notin Names

----------------------------------------------------------------------------
(* lookup_server on a store of blocks.                                     *)

AtIn(blk, b) == IF b \in Blocks /\ blk[b].k = "dir" THEN blk[b].ent ELSE NotADir

LookIn(blk, node, name) ==
  LET has(b) == {e \in Slots : AtIn(blk, node.ptr[b])[e].name = name}
      hits   == {b \in Ptrs : node.used[b] = 1 /\ has(b) # {}}
  IN  IF hits = {} THEN -1
      ELSE AtIn(blk, node.ptr[Min(hits)])[Min(has(Min(hits)))].inum

\* lookup_server reads the blocks of the image.
LEMMA LookupIs == ASSUME NEW node, NEW name PROVE lookup(node, name) = LookIn(disk.blk, node, name)
BY DEF lookup, LookIn, DirAt, AtIn

\* The pointer and the slot hold the name.
Holds(blk, node, name, j, s) == node.used[j] = 1 /\ AtIn(blk, node.ptr[j])[s].name = name

\* A name that is in some slot is found in one.
LEMMA LookFound ==
  ASSUME NEW blk, NEW node, NEW name, NEW j0 \in Ptrs, NEW s0 \in Slots, Holds(blk, node, name, j0, s0)
  PROVE  \E j \in Ptrs, s \in Slots :
           Holds(blk, node, name, j, s) /\ LookIn(blk, node, name) = AtIn(blk, node.ptr[j])[s].inum
<1> DEFINE has(b) == {e \in Slots : AtIn(blk, node.ptr[b])[e].name = name}
           hits   == {b \in Ptrs : node.used[b] = 1 /\ has(b) # {}}
<1>1. hits # {}
  BY DEF Holds
<1>2. LookIn(blk, node, name) = AtIn(blk, node.ptr[Min(hits)])[Min(has(Min(hits)))].inum
  BY <1>1 DEF LookIn
<1>3. hits \in SUBSET Nat /\ \A b : has(b) \in SUBSET Nat
  BY LFSAssumption DEF Ptrs, Slots
<1>4. Min(hits) \in hits
  BY <1>1, <1>3, MinIn
<1>5. \A b \in hits : b \in Ptrs /\ node.used[b] = 1 /\ has(b) # {}
  OBVIOUS
<1>6. PICK b : b = Min(hits)
  OBVIOUS
<1> HIDE DEF hits
<1>7. b \in Ptrs /\ node.used[b] = 1 /\ has(b) # {} /\ LookIn(blk, node, name) = AtIn(blk, node.ptr[b])[Min(has(b))].inum
  BY <1>2, <1>4, <1>5, <1>6
<1>8. Min(has(b)) \in has(b)
  <2> HIDE DEF has
  <2> QED
    BY <1>3, <1>7, MinIn
<1>9. PICK s : s = Min(has(b))
  OBVIOUS
<1>10. s \in Slots /\ AtIn(blk, node.ptr[b])[s].name = name
  BY <1>8, <1>9
<1> HIDE DEF has
<1> QED
  BY <1>7, <1>9, <1>10 DEF Holds

\* A name that is in no slot is not found.
LEMMA LookMissed ==
  ASSUME NEW blk, NEW node, NEW name, \A j \in Ptrs : \A s \in Slots : ~Holds(blk, node, name, j, s)
  PROVE  LookIn(blk, node, name) = -1
BY DEF LookIn, Holds

\* A slot of a directory that holds one of the names clients pass leads to an
\* allocated inode other than the directory.
LEMMA NameLive ==
  ASSUME Plain, NEW im, NEW blk, DirsOK(im, blk), NEW p \in Inums, im[p] # -1, NEW node, node = blk[im[p]],
         node.type = MFS_DIRECTORY, NEW name \in Names, NEW j \in Ptrs, NEW s \in Slots,
         Holds(blk, node, name, j, s), NEW i, i = AtIn(blk, node.ptr[j])[s].inum
  PROVE  i # -1 /\ i # p /\ im[i] # -1
<1>1. IsDirBlk(im, blk, p, j)
  BY DEF Holds, IsDirBlk
<1>2. PICK x, e : x = node.ptr[j] /\ e = AtIn(blk, x)[s]
  OBVIOUS
<1>3. e.name = name /\ e.inum = i
  BY <1>2 DEF Holds
<1>4. AtIn(blk, x) # NotADir
  <2>1. NotADir[s].name = "?"
    BY DEF NotADir, Entry
  <2> QED
    BY <2>1, <1>2, <1>3 DEF Plain, Tidy
<1>5. AtIn(blk, x) = blk[x].ent
  BY <1>4 DEF AtIn
<1>6. e = En(im, blk, p, j, s)
  BY <1>2, <1>5 DEF En
<1>7. EntryOK(im, p, s, e)
  BY <1>1, <1>6 DEF DirsOK
<1>8. ~Clear(e) /\ ~Dot(p, s, e)
  BY <1>3 DEF Plain, PlainNames, Clear, Dot
<1> QED
  BY <1>3, <1>7, <1>8 DEF EntryOK, IsName

\* So a lookup of a name that is there succeeds.
LEMMA LookLive ==
  ASSUME Plain, NEW im, NEW blk, DirsOK(im, blk), NEW p \in Inums, im[p] # -1, NEW node, node = blk[im[p]],
         node.type = MFS_DIRECTORY, NEW name \in Names, NEW j0 \in Ptrs, NEW s0 \in Slots,
         Holds(blk, node, name, j0, s0)
  PROVE  LET i == LookIn(blk, node, name) IN i # -1 /\ i # p /\ im[i] # -1
<1>1. PICK j \in Ptrs, s \in Slots :
        Holds(blk, node, name, j, s) /\ LookIn(blk, node, name) = AtIn(blk, node.ptr[j])[s].inum
  BY LookFound
<1>2. PICK i : i = LookIn(blk, node, name)
  OBVIOUS
<1>3. i # -1 /\ i # p /\ im[i] # -1
  BY <1>1, <1>2, NameLive
<1> QED
  BY <1>2, <1>3

\* And one that succeeds leads to an allocated inode.
LEMMA LookTo ==
  ASSUME Plain, NEW im, NEW blk, DirsOK(im, blk), NEW p \in Inums, im[p] # -1, NEW node, node = blk[im[p]],
         node.type = MFS_DIRECTORY, NEW name \in Names, LookIn(blk, node, name) # -1
  PROVE  LET i == LookIn(blk, node, name) IN i # p /\ im[i] # -1
<1>1. PICK j \in Ptrs, s \in Slots : Holds(blk, node, name, j, s)
  BY LookMissed
<1> QED
  BY <1>1, LookLive

----------------------------------------------------------------------------
(* What a request that has been executed leaves behind.                    *)

\* Nothing can be created in the directory with this inode.
NoPlace(im, blk, node) ==
  \/ \A i \in Inums : im[i] # -1
  \/ \A b \in Ptrs : node.used[b] # 0 /\ \A e \in Slots : AtIn(blk, node.ptr[b])[e].inum # -1

\* The first block of the directory has the name.
InFirst(blk, node, name) == \E j \in Slots : AtIn(blk, node.ptr[0])[j].name = name

\* The first block of the directory with this inode has entries.
Filled(blk, node) ==
  node.type # MFS_REGULAR_FILE /\ \E i \in 2 .. (NENT - 1) : AtIn(blk, node.ptr[0])[i].inum # -1

DataIn(blk, b) == IF b \in Blocks /\ blk[b].k = "data" THEN blk[b].val ELSE Garbage

LookupDone(r, rep, blk, node) == rep.ret = LookIn(blk, node, r.name) /\ rep.val = NoVal
StatDone(rep, node) == rep.ret = 0 /\ rep.val = <<node.type, node.size>>
ReadDone(r, rep, blk, node) ==
  IF r.block \notin Ptrs THEN rep.ret = -1 /\ rep.val = NoVal
  ELSE rep.ret = 0 /\ (node.type = MFS_REGULAR_FILE => rep.val = <<DataIn(blk, node.ptr[r.block])>>)
WriteDone(r, rep, blk, node) ==
  /\ rep.val = NoVal
  /\ IF node.type # MFS_REGULAR_FILE \/ r.block \notin Ptrs THEN rep.ret = -1
     ELSE /\ rep.ret = 0
          /\ node.used[r.block] = 1 /\ blk[node.ptr[r.block]] = DataBlk(r.buffer)
          /\ r.block + 1 <= node.size
CreatDone(r, rep, im, blk, node) ==
  /\ rep.val = NoVal
  /\ \/ rep.ret = -1 /\ node.type # MFS_DIRECTORY
     \/ rep.ret = 0 /\ node.type = MFS_DIRECTORY /\ LookIn(blk, node, r.name) # -1
     \/ /\ rep.ret = -1 /\ node.type = MFS_DIRECTORY /\ LookIn(blk, node, r.name) = -1
        /\ NoPlace(im, blk, node)
UnlinkDone(r, rep, im, blk, node) ==
  /\ rep.val = NoVal
  /\ \/ rep.ret = -1 /\ node.type # MFS_DIRECTORY
     \/ rep.ret = 0 /\ node.type = MFS_DIRECTORY /\ LookIn(blk, node, r.name) = -1
     \/ /\ rep.ret = -1 /\ node.type = MFS_DIRECTORY /\ LookIn(blk, node, r.name) # -1
        /\ InFirst(blk, node, r.name)
        /\ Filled(blk, blk[im[LookIn(blk, node, r.name)]])

\* The request r has been given the answer rep and, in the image with this
\* inode map and these blocks, has nothing left to do.
Settled(r, rep, im, blk) ==
  /\ rep.op = r.method
  /\ IF r.inum \notin Inums THEN rep.ret = -1 /\ rep.val = NoVal
     ELSE LET node == blk[im[r.inum]]
          IN  /\ im[r.inum] # -1
              /\ r.method = "lookup" => LookupDone(r, rep, blk, node)
              /\ r.method = "stat"   => StatDone(rep, node)
              /\ r.method = "read"   => ReadDone(r, rep, blk, node)
              /\ r.method = "write"  => WriteDone(r, rep, blk, node)
              /\ r.method = "creat"  => CreatDone(r, rep, im, blk, node)
              /\ r.method = "unlink" => UnlinkDone(r, rep, im, blk, node)

----------------------------------------------------------------------------
(* What the handlers do, given an inode number that is out of range or     *)
(* allocated.                                                              *)

Quiet == UNCHANGED <<imap, next_block, disk, up>>

\* The fields of the packets.
LEMMA PacketFields ==
  ASSUME NEW r \in Packets
  PROVE  /\ r.method \in {"lookup", "unlink", "creat"} => r.inum \in InumArgs /\ r.name \in Names
         /\ r.method = "creat" => r.type \in Types
         /\ r.method = "stat" => r.inum \in InumArgs
         /\ r.method \in {"read", "write"} => r.inum \in InumArgs /\ r.block \in BlockArgs
         /\ r.method = "write" => r.buffer \in Data
BY DEF Packets

\* A number out of range is refused.
LEMMA Outside ==
  ASSUME NEW r \in Packets, Handle(r), r.inum \notin Inums
  PROVE  Quiet /\ reply' = [op |-> r.method, ret |-> -1, val |-> NoVal]
<1>1. find_inode(r.inum) = {}
  BY DEF find_inode
<1>2. Answer(r.method, -1, NoVal)
  BY <1>1, Zenon DEF Handle, Lookup, Stat, Write, Read, Creat, Unlink
<1> QED
  BY <1>2 DEF Answer, Resp, Quiet

\* An outcome that changes nothing.
LEMMA RunSame ==
  ASSUME NEW o, NEW r, Run(o, Same(r))
  PROVE  Quiet /\ reply' = [op |-> o, ret |-> r, val |-> NoVal]
<1>1. PICK out : out = Same(r)
  OBVIOUS
<1>2. out.ret = r /\ out.imap = imap /\ out.next = next_block /\ out.imgs = <<disk>>
  BY <1>1 DEF Same, Outcome
<1>3. Len(out.imgs) = 1 /\ out.imgs[1] = disk
  BY <1>2
<1>4. ~CrashIn(o, out)
  <2>1. \A n : n = 1 => \A k \in 1 .. (n - 1) : FALSE
    OBVIOUS
  <2>2. \A k \in 1 .. (Len(out.imgs) - 1) : FALSE
    BY <1>3, <2>1, Zenon
  <2> QED
    BY <2>2 DEF CrashIn
<1>5. Commit(o, out)
  BY <1>1, <1>4 DEF Run
<1> QED
  BY <1>2, <1>3, <1>5 DEF Commit, Resp, Quiet

\* lookup_server answers from the directory.
LEMMA LookupDoes ==
  ASSUME LogInv, NEW p \in Inums, imap[p] # -1, NEW n, Lookup(p, n)
  PROVE  up /\ Quiet /\ reply' = [op |-> "lookup", ret |-> LookIn(disk.blk, disk.blk[imap[p]], n), val |-> NoVal]
<1>1. up
  BY DEF Lookup
<1>2. find_inode(p) = {disk.blk[imap[p]]}
  BY <1>1, FindAllocated
<1>3. Answer("lookup", lookup(disk.blk[imap[p]], n), NoVal)
  BY <1>2, Zenon DEF Lookup
<1> QED
  BY <1>1, <1>3, LookupIs DEF Answer, Resp, Quiet

\* stat_server answers from the inode.
LEMMA StatDoes ==
  ASSUME LogInv, NEW i \in Inums, imap[i] # -1, Stat(i), NEW node, node = disk.blk[imap[i]]
  PROVE  up /\ Quiet /\ reply' = [op |-> "stat", ret |-> 0, val |-> <<node.type, node.size>>]
<1>1. up
  BY DEF Stat
<1>2. find_inode(i) = {node}
  BY <1>1, FindAllocated
<1>3. Answer("stat", 0, <<node.type, node.size>>)
  BY <1>2, Zenon DEF Stat
<1> QED
  BY <1>1, <1>3 DEF Answer, Resp, Quiet

\* read_server answers from the block of a regular file.
LEMMA ReadDoes ==
  ASSUME LogInv, NEW i \in Inums, imap[i] # -1, NEW b, Read(i, b), NEW node, node = disk.blk[imap[i]]
  PROVE  /\ up /\ Quiet /\ reply'.op = "read"
         /\ b \notin Ptrs => reply'.ret = -1 /\ reply'.val = NoVal
         /\ b \in Ptrs => /\ reply'.ret = 0
                          /\ node.type = MFS_REGULAR_FILE => reply'.val = <<DataIn(disk.blk, node.ptr[b])>>
<1>1. up
  BY DEF Read
<1>2. find_inode(i) = {node}
  BY <1>1, FindAllocated
<1>3. CASE b \notin Ptrs
  <2>1. Answer("read", -1, NoVal)
    BY <1>3, Zenon DEF Read
  <2> QED
    BY <1>1, <1>3, <2>1 DEF Answer, Resp, Quiet
<1>4. CASE b \in Ptrs
  <2>1. PICK v \in ReadVals(i, node, b) : Answer("read", 0, <<v>>)
    BY <1>2, <1>4, Zenon DEF Read
  <2>2. ASSUME node.type = MFS_REGULAR_FILE PROVE v = DataIn(disk.blk, node.ptr[b])
    BY <2>1, <2>2 DEF ReadVals, DataIn
  <2> QED
    BY <1>1, <1>4, <2>1, <2>2 DEF Answer, Resp, Quiet
<1> QED
  BY <1>3, <1>4

\* write_server: the data goes to the end of the log, the inode stays where
\* it is.
Wrote(img, i, v, b, node) ==
  /\ img.imap = imap /\ img.blk[next_block] = DataBlk(v)
  /\ img.blk[imap[i]] = AppendBlock(node, IF b + 1 > node.size THEN b + 1 ELSE node.size, b)
  /\ \A w \in Blocks : w < next_block /\ w # imap[i] => img.blk[w] = disk.blk[w]

\* That is what it does.
LEMMA WriteDoes ==
  ASSUME Plain, LogInv, NEW i \in Inums, imap[i] # -1, NEW v \in Data, NEW b \in BlockArgs, Write(i, v, b),
         NEW node, node = disk.blk[imap[i]]
  PROVE  /\ up
         /\ node.type # MFS_REGULAR_FILE \/ b \notin Ptrs =>
              Quiet /\ reply' = [op |-> "write", ret |-> -1, val |-> NoVal]
         /\ node.type = MFS_REGULAR_FILE /\ b \in Ptrs =>
              /\ imap' = imap /\ Wrote(disk', i, v, b, node)
              /\ reply' = [op |-> "write", ret |-> 0, val |-> NoVal]
<1>1. up /\ HasRoom
  BY DEF Write
<1>2. find_inode(i) = {node} /\ imap[i] \in Blocks /\ imap[i] < next_block
  BY <1>1, FindAllocated
<1>3. Run("write", WriteOut(i, v, b, node))
  BY <1>2, Zenon DEF Write
<1>4. CASE node.type # MFS_REGULAR_FILE \/ b \notin Ptrs
  <2>1. WriteOut(i, v, b, node) = Same(-1)
    BY <1>4 DEF WriteOut
  <2> QED
    BY <1>1, <1>3, <1>4, <2>1, RunSame
<1>5. CASE node.type = MFS_REGULAR_FILE /\ b \in Ptrs
  <2>1. PICK n, u, nb, at : /\ n = AppendBlock(node, IF b + 1 > node.size THEN b + 1 ELSE node.size, b)
                            /\ u = DataBlk(v) /\ nb = next_block /\ at = imap[i]
    OBVIOUS
  <2> DEFINE d1 == Put(disk, nb, u)
             d2 == Put(d1, at, n)
             d3 == CRImap(d2, i, at)
             d4 == CRNext(d3, nb + 1)
  <2>2. PICK out : out = WriteOut(i, v, b, node)
    OBVIOUS
  <2>3. out = Outcome(0, imap, next_block + 1, <<disk, d1, d2, d3, d4>>)
    BY <1>5, <2>1, <2>2 DEF WriteOut
  <2>4. out.ret = 0 /\ out.imap = imap /\ out.imgs[Len(out.imgs)] = d4
    BY <2>3 DEF Outcome
  <2>5. Commit("write", out)
    BY <1>3, <2>2 DEF Run, CrashIn, Plain, Tidy
  <2>6. imap' = imap /\ disk' = d4 /\ reply' = [op |-> "write", ret |-> 0, val |-> NoVal]
    BY <2>4, <2>5 DEF Commit, Resp
  <2>7. nb \in Blocks /\ disk \in DiskType /\ disk.imap = imap /\ imap \in Imaps /\ at \in Blocks /\ at < nb
    BY <1>1, <1>2, <2>1 DEF LogInv, TypeOK, DiskType, Imaps, Stores
  <2>8. d4.imap = imap
    BY <2>1, <2>7 DEF CRNext, CRImap, Put, DiskType, Imaps
  <2>9. d4.blk = [[disk.blk EXCEPT ![nb] = u] EXCEPT ![at] = n]
    BY <2>7 DEF CRNext, CRImap, Put, DiskType
  <2>10. PICK f, g : f = disk.blk /\ g = d4.blk
    OBVIOUS
  <2>11. DOMAIN f = Blocks /\ g = [[f EXCEPT ![nb] = u] EXCEPT ![at] = n]
    BY <2>7, <2>9, <2>10 DEF DiskType, Stores
  <2>12. at # nb /\ \A w \in Blocks : w < nb => w # nb
    BY <2>7 DEF Blocks
  <2>13. g[nb] = u /\ g[at] = n /\ \A w \in Blocks : w < nb /\ w # at => g[w] = f[w]
    BY <2>7, <2>11, <2>12
  <2> HIDE DEF d4
  <2>14. Wrote(d4, i, v, b, node)
    BY <2>1, <2>8, <2>10, <2>13 DEF Wrote
  <2> QED
    BY <1>1, <1>5, <2>6, <2>14
<1> QED
  BY <1>4, <1>5

\* creat_server refuses, finds the name, or makes the file.
LEMMA CreatDoes ==
  ASSUME Plain, LogInv, DirsInv, NEW p \in Inums, imap[p] # -1, NEW t \in Types, NEW n \in Names, Creat(p, t, n),
         NEW node, node = disk.blk[imap[p]], NEW look, look = LookIn(disk.blk, node, n)
  PROVE  /\ up /\ reply'.op = "creat" /\ reply'.val = NoVal
         /\ \/ Quiet /\ reply'.ret = -1 /\ node.type # MFS_DIRECTORY
            \/ Quiet /\ reply'.ret = 0 /\ node.type = MFS_DIRECTORY /\ look # -1
            \/ /\ Quiet /\ reply'.ret = -1 /\ node.type = MFS_DIRECTORY /\ look = -1
               /\ NoPlace(imap, disk.blk, node)
            \/ /\ reply'.ret = 0 /\ node.type = MFS_DIRECTORY /\ look = -1 /\ ~NoPlace(imap, disk.blk, node)
               /\ \E out : /\ out = CreatOut(p, t, n, node, look)
                          /\ disk' = out.imgs[Len(out.imgs)] /\ disk' # disk
<1>1. up /\ HasRoom
  BY DEF Creat
<1>2. find_inode(p) = {node}
  BY <1>1, FindAllocated
<1>3. lookup(node, n) = look
  BY LookupIs
<1>4. PICK out : out = CreatOut(p, t, n, node, look)
  OBVIOUS
<1>5. Run("creat", out)
  BY <1>2, <1>3, <1>4, Zenon DEF Creat
<1>6. CASE node.type # MFS_DIRECTORY
  <2>1. out = Same(-1)
    BY <1>4, <1>6, Zenon DEF CreatOut
  <2> QED
    BY <1>1, <1>5, <1>6, <2>1, RunSame
<1>7. CASE node.type = MFS_DIRECTORY /\ look # -1
  <2>1. out = Same(0)
    BY <1>4, <1>7, Zenon DEF CreatOut
  <2> QED
    BY <1>1, <1>5, <1>7, <2>1, RunSame
<1> DEFINE free == {i \in Inums : imap[i] = -1}
           room == {b \in Ptrs : \/ node.used[b] = 0
                                 \/ \E e \in Slots : DirAt(node.ptr[b])[e].inum = -1}
<1>8. NoPlace(imap, disk.blk, node) <=> free = {} \/ room = {}
  BY DEF NoPlace, AtIn, DirAt
<1> HIDE DEF free, room
<1>9. CASE node.type = MFS_DIRECTORY /\ look = -1 /\ (free = {} \/ room = {})
  <2>1. out = Same(-1)
    BY <1>4, <1>9, Zenon DEF CreatOut, free, room
  <2> QED
    BY <1>1, <1>5, <1>8, <1>9, <2>1, RunSame
<1>10. CASE node.type = MFS_DIRECTORY /\ look = -1 /\ ~(free = {} \/ room = {})
  <2> DEFINE inum  == Min(free)
             b     == Min(room)
             grown == node.used[b] = 0
             par   == IF grown THEN AppendBlock(node, node.size + 1, b) ELSE node
             nb1   == IF grown THEN next_block + 1 ELSE next_block
             ents  == IF grown THEN build_dir_block(FALSE, inum, -1) ELSE DirAt(node.ptr[b])
             e     == Min({x \in Slots : ents[x].inum = -1})
             parAt == IF imap[p] # -1 THEN imap[p] ELSE par.ptr[b] + 1
             isdir == t = MFS_DIRECTORY
             nb2   == IF isdir THEN nb1 + 1 ELSE nb1
             none  == [j \in Ptrs |-> -1]
             zero  == [j \in Ptrs |-> 0]
             new   == IF isdir
                      THEN Inode(t, 1, [none EXCEPT ![0] = nb1], [zero EXCEPT ![0] = 1])
                      ELSE Inode(t, 0, none, zero)
             d1 == IF grown THEN Put(disk, next_block, DirBlk(ents)) ELSE disk
             d2 == Put(d1, parAt, par)
             d3 == Put(d2, par.ptr[b], DirBlk([ents EXCEPT ![e] = Entry(n, inum)]))
             d4 == IF isdir THEN Put(d3, nb1, DirBlk(build_dir_block(TRUE, inum, p))) ELSE d3
             d5 == Put(d4, nb2, new)
             d6 == CRImap(d5, inum, nb2)
             d7 == CRNext(d6, nb2 + 1)
  <2>1. out = Outcome(0, [imap EXCEPT ![inum] = nb2], nb2 + 1, <<disk, d1, d2, d3, d4, d5, d6, d7>>)
    BY <1>4, <1>10, Zenon DEF CreatOut, free, room, Plain, Tidy
  <2>2. Commit("creat", out)
    BY <1>5 DEF Run, CrashIn, Plain, Tidy
  <2>3. out.ret = 0 /\ out.next = nb2 + 1
    BY <2>1 DEF Outcome
  <2>4. disk' = out.imgs[Len(out.imgs)] /\ reply' = [op |-> "creat", ret |-> 0, val |-> NoVal] /\ disk.next = next_block
    BY <1>1, <2>2, <2>3 DEF Commit, Resp, LogInv
  <2>5. next_block \in Nat
    BY DEF LogInv, TypeOK, Blocks
  <2>6. out.next # next_block
    BY <2>3, <2>5
  <2> HIDE DEF d1, d2, d3, d4, d5, d6, d7
  <2>7. GoodOut(out)
    BY <1>1, <1>2, <1>4, CreatGood DEF Plain
  <2>8. disk'.next = out.next
    BY <2>4, <2>7 DEF GoodOut
  <2> QED
    BY <1>1, <1>4, <1>8, <1>10, <2>4, <2>6, <2>8
<1> QED
  BY <1>6, <1>7, <1>9, <1>10

\* The image unlink_server leaves when it frees inode i of directory p.
Cut(img, node, n, i) ==
  /\ img.imap = [imap EXCEPT ![i] = -1]
  /\ InFirst(disk.blk, node, n) =>
       img.blk = [disk.blk EXCEPT ![node.ptr[0]] = DirBlk(RemoveName(AtIn(disk.blk, node.ptr[0]), n))]

\* unlink_server refuses, finds nothing to do, or frees the inode.
LEMMA UnlinkDoes ==
  ASSUME Plain, LogInv, DirsInv, NEW p \in Inums, imap[p] # -1, NEW n \in Names, Unlink(p, n),
         NEW node, node = disk.blk[imap[p]], NEW look, look = LookIn(disk.blk, node, n)
  PROVE  /\ up
         /\ \/ Quiet /\ reply' = [op |-> "unlink", ret |-> -1, val |-> NoVal] /\ node.type # MFS_DIRECTORY
            \/ /\ Quiet /\ reply' = [op |-> "unlink", ret |-> 0, val |-> NoVal]
               /\ node.type = MFS_DIRECTORY /\ look = -1
            \/ /\ Quiet /\ reply' = [op |-> "unlink", ret |-> -1, val |-> NoVal]
               /\ node.type = MFS_DIRECTORY /\ look # -1 /\ InFirst(disk.blk, node, n) /\ Filled(disk.blk, disk.blk[imap[look]])
            \/ /\ node.type = MFS_DIRECTORY /\ look # -1 /\ ~(InFirst(disk.blk, node, n) /\ Filled(disk.blk, disk.blk[imap[look]]))
               /\ up' => reply' = [op |-> "unlink", ret |-> 0, val |-> NoVal] /\ Cut(disk', node, n, look)
<1>1. up
  BY DEF Unlink
<1>2. find_inode(p) = {node}
  BY <1>1, FindAllocated
<1>3. lookup(node, n) = look /\ look \in -1 .. (MAXINODES - 1)
  BY LookupIs, LookupType DEF LogInv
<1>4. look = -1 \/ (look \in Inums /\ look >= 0)
  BY <1>3, LFSAssumption DEF Inums
<1>5. CASE node.type # MFS_DIRECTORY
  <2>1. Answer("unlink", -1, NoVal)
    BY <1>2, <1>5, Zenon DEF Unlink
  <2> QED
    BY <1>1, <1>5, <2>1 DEF Answer, Resp, Quiet
<1>6. CASE node.type = MFS_DIRECTORY /\ look = -1
  <2>1. ~(look >= 0)
    BY <1>6
  <2>2. Answer("unlink", 0, NoVal)
    BY <1>2, <1>3, <1>6, <2>1, Zenon DEF Unlink
  <2> QED
    BY <1>1, <1>6, <2>2 DEF Answer, Resp, Quiet
<1>7. CASE node.type = MFS_DIRECTORY /\ look # -1
  <2>1. look \in Inums /\ look >= 0 /\ ~(look < 0)
    BY <1>4, <1>7 DEF Inums
  <2>2. imap[look] # -1
    <3>1. DirsOK(imap, disk.blk)
      BY <1>1, DirsUp
    <3> QED
      BY <1>7, <3>1, LookTo
  <2>3. PICK child : child = disk.blk[imap[look]]
    OBVIOUS
  <2>4. find_inode(look) = {child}
    BY <1>1, <2>1, <2>2, <2>3, FindAllocated
  <2>5. PICK out : out = UnlinkOut(node, n, look, child)
    OBVIOUS
  <2>6. Run("unlink", out)
    BY <1>2, <1>3, <1>7, <2>1, <2>4, <2>5, Zenon DEF Unlink
  <2>7. NotEmpty(child) <=> Filled(disk.blk, child)
    BY DEF NotEmpty, Filled, DirAt, AtIn
  <2>8. /\ \A w : DirAt(w) = AtIn(disk.blk, w)
        /\ InFirst(disk.blk, node, n) <=> \E j \in Slots : DirAt(node.ptr[0])[j].name = n
    BY DEF DirAt, AtIn, InFirst
  <2>9. CASE InFirst(disk.blk, node, n) /\ Filled(disk.blk, child)
    <3>1. out = Same(-1)
      BY <2>5, <2>7, <2>8, <2>9, Zenon DEF UnlinkOut
    <3> QED
      BY <1>1, <1>7, <2>3, <2>6, <2>9, <3>1, RunSame
  <2>10. CASE ~(InFirst(disk.blk, node, n) /\ Filled(disk.blk, child))
    <3>1. PICK x, c : x = node.ptr[0] /\ c = DirBlk(RemoveName(DirAt(x), n))
      OBVIOUS
    <3> DEFINE d1 == IF InFirst(disk.blk, node, n) THEN Put(disk, x, c) ELSE disk
               d2 == CRImap(d1, look, -1)
               d3 == CRNext(d2, next_block)
    <3>2. out = Outcome(0, [imap EXCEPT ![look] = -1], next_block, <<disk, d1, d2, d3>>)
      BY <2>5, <2>7, <2>8, <2>10, <3>1, Zenon DEF UnlinkOut
    <3>3. out.ret = 0 /\ out.imgs[Len(out.imgs)] = d3
      BY <3>2 DEF Outcome
    <3>4. disk \in DiskType /\ disk.imap = imap /\ imap \in Imaps
      BY <1>1 DEF LogInv, TypeOK, DiskType, Imaps, Stores
    <3>5. /\ d1.imap = imap /\ DOMAIN d1 = {"exists", "imap", "next", "blk"}
          /\ InFirst(disk.blk, node, n) => d1.blk = [disk.blk EXCEPT ![x] = c]
      BY <3>4 DEF Put, DiskType
    <3> HIDE DEF d1
    <3>6. d2.imap = [imap EXCEPT ![look] = -1] /\ d2.blk = d1.blk /\ DOMAIN d2 = {"exists", "imap", "next", "blk"}
      BY <3>5 DEF CRImap
    <3> HIDE DEF d2
    <3>7. d3.imap = d2.imap /\ d3.blk = d2.blk
      BY <3>6 DEF CRNext
    <3> HIDE DEF d3
    <3>8. Cut(d3, node, n, look)
      BY <2>8, <3>1, <3>5, <3>6, <3>7 DEF Cut
    <3>9. ASSUME up' PROVE reply' = [op |-> "unlink", ret |-> 0, val |-> NoVal] /\ disk' = d3
      <4>1. Commit("unlink", out)
        BY <2>6, <3>9 DEF Run, CrashIn
      <4> QED
        BY <3>3, <4>1 DEF Commit, Resp
    <3> QED
      BY <1>1, <1>7, <2>3, <2>10, <3>8, <3>9
  <2> QED
    BY <2>9, <2>10
<1> QED
  BY <1>5, <1>6, <1>7

----------------------------------------------------------------------------
(* A request that has been executed is settled.                            *)

\* The image is that of the inode map while the server runs.
LEMMA UpImage ==
  ASSUME LogInv, up
  PROVE  disk.exists /\ disk.imap = imap /\ imap \in Imaps /\ disk.blk \in Stores
BY DEF LogInv, TypeOK, Imaps, Stores

\* write_server.
LEMMA WriteSettles ==
  ASSUME Plain, LogInv, NEW i \in Inums, imap[i] # -1, NEW v \in Data, NEW b \in BlockArgs, Write(i, v, b),
         NEW r, r.block = b, r.buffer = v
  PROVE  reply'.op = "write" /\ disk'.imap = imap /\ WriteDone(r, reply', disk'.blk, disk'.blk[imap[i]])
<1>1. PICK node : node = disk.blk[imap[i]]
  OBVIOUS
<1>2. up
  BY <1>1, WriteDoes
<1>3. CASE node.type # MFS_REGULAR_FILE \/ b \notin Ptrs
  <2>1. Quiet /\ reply' = [op |-> "write", ret |-> -1, val |-> NoVal]
    BY <1>1, <1>3, WriteDoes
  <2> QED
    BY <1>1, <1>2, <1>3, <2>1, UpImage DEF Quiet, WriteDone
<1>4. CASE node.type = MFS_REGULAR_FILE /\ b \in Ptrs
  <2>1. Wrote(disk', i, v, b, node) /\ reply' = [op |-> "write", ret |-> 0, val |-> NoVal]
    BY <1>1, <1>4, WriteDoes
  <2>2. node \in [k : {"inode"}, type : Int, size : Int, ptr : [Ptrs -> Int], used : [Ptrs -> {0, 1}]]
    BY <1>1, <1>2, FindAllocated
  <2>3. PICK n : n = disk'.blk[imap[i]]
    OBVIOUS
  <2>4. n = Inode(node.type, IF b + 1 > node.size THEN b + 1 ELSE node.size,
                  [node.ptr EXCEPT ![b] = next_block], [node.used EXCEPT ![b] = 1])
    BY <2>1, <2>3 DEF Wrote, AppendBlock
  <2>5. n.used[b] = 1 /\ n.ptr[b] = next_block /\ n.type = MFS_REGULAR_FILE
    BY <1>4, <2>2, <2>4 DEF Inode
  <2>6. b + 1 <= n.size
    <3>1. n.size = IF b + 1 > node.size THEN b + 1 ELSE node.size
      BY <2>4 DEF Inode
    <3>2. b \in Int /\ node.size \in Int
      BY <2>2, LFSAssumption DEF BlockArgs
    <3> QED
      BY <3>1, <3>2
  <2>7. disk'.blk[n.ptr[b]] = DataBlk(v) /\ disk'.imap = imap
    BY <2>1, <2>5 DEF Wrote
  <2> QED
    BY <1>4, <2>1, <2>3, <2>5, <2>6, <2>7 DEF WriteDone
<1> QED
  BY <1>3, <1>4

\* creat_server: the name it has made is found.
LEMMA CreatSettles ==
  ASSUME Plain, LogInv, DirsInv, NEW p \in Inums, imap[p] # -1, NEW t \in Types, NEW n \in Names, Creat(p, t, n),
         NEW r, r.name = n
  PROVE  /\ reply'.op = "creat" /\ disk'.imap[p] # -1
         /\ CreatDone(r, reply', disk'.imap, disk'.blk, disk'.blk[disk'.imap[p]])
<1>1. PICK node, look : node = disk.blk[imap[p]] /\ look = LookIn(disk.blk, node, n)
  OBVIOUS
<1>2. up /\ HasRoom
  BY DEF Creat
<1>3. disk.imap = imap
  BY <1>2, UpImage
<1>4. /\ reply'.op = "creat" /\ reply'.val = NoVal
      /\ \/ Quiet /\ reply'.ret = -1 /\ node.type # MFS_DIRECTORY
         \/ Quiet /\ reply'.ret = 0 /\ node.type = MFS_DIRECTORY /\ look # -1
         \/ /\ Quiet /\ reply'.ret = -1 /\ node.type = MFS_DIRECTORY /\ look = -1
            /\ NoPlace(imap, disk.blk, node)
         \/ /\ reply'.ret = 0 /\ node.type = MFS_DIRECTORY
            /\ \E out : /\ out = CreatOut(p, t, n, node, look)
                       /\ disk' = out.imgs[Len(out.imgs)] /\ disk' # disk
  BY <1>1, CreatDoes
<1>5. CASE /\ Quiet
           /\ \/ reply'.ret = -1 /\ node.type # MFS_DIRECTORY
              \/ reply'.ret = 0 /\ node.type = MFS_DIRECTORY /\ look # -1
              \/ reply'.ret = -1 /\ node.type = MFS_DIRECTORY /\ look = -1 /\ NoPlace(imap, disk.blk, node)
  <2>1. disk' = disk
    BY <1>5 DEF Quiet
  <2>2. PICK rep, im, blk : rep = reply' /\ im = imap /\ blk = disk.blk
    OBVIOUS
  <2>3. look = LookIn(blk, node, r.name) /\ node = blk[im[p]]
    BY <1>1, <2>2
  <2>4. CreatDone(r, rep, im, blk, node) /\ rep.op = "creat"
    BY <1>4, <1>5, <2>2, <2>3 DEF CreatDone
  <2> QED
    BY <1>3, <2>1, <2>2, <2>3, <2>4
<1>6. CASE /\ reply'.ret = 0 /\ node.type = MFS_DIRECTORY
           /\ \E out : /\ out = CreatOut(p, t, n, node, look)
                      /\ disk' = out.imgs[Len(out.imgs)] /\ disk' # disk
  <2>1. node \in find_inode(p)
    BY <1>1, <1>2, FindAllocated
  <2>2. PICK img : img = disk'
    OBVIOUS
  <2>3. img = CreatOut(p, t, n, node, look).imgs[Len(CreatOut(p, t, n, node, look).imgs)] /\ img # disk
    BY <1>6, <2>2
  <2>4. DirsOK(img.imap, img.blk)
    BY <1>2, <2>1, <2>3, CreatDirs DEF Plain
  <2>5. PICK i \in Inums, b \in Ptrs, s0 \in Slots, x \in Blocks, y \in Blocks, z \in Blocks :
          \E par, new, ents :
           /\ Made(img, p, t, n, i, b, s0, x, y, z, par, new, ents)
           /\ MadeIn(node, b, x, par, ents) /\ MadeNode(new, t, y) /\ FirstRoom(node, b)
           /\ Behind(t, x, y, z) /\ ents \in [Slots -> Entries] /\ ents[s0].inum = -1
    BY <1>2, <2>1, <2>3, CreatIs DEF Plain
  <2>6. PICK par, new, ents :
           /\ Made(img, p, t, n, i, b, s0, x, y, z, par, new, ents)
           /\ MadeIn(node, b, x, par, ents) /\ ents \in [Slots -> Entries]
    BY <2>5
  <2>7. img.imap[p] = imap[p]
    <3>1. imap[i] = -1 /\ img.imap = [imap EXCEPT ![i] = z]
      BY <2>6 DEF Made
    <3> QED
      BY <3>1, <1>2, UpImage DEF Imaps
  <2>8. /\ img.blk[imap[p]] = par /\ par.type = MFS_DIRECTORY /\ par.used[b] = 1 /\ par.ptr[b] = x
        /\ img.blk[x] = DirBlk([ents EXCEPT ![s0] = Entry(n, i)])
    BY <2>6 DEF Made, MadeIn
  <2>9. AtIn(img.blk, x)[s0].name = n
    <3>1. PICK c : c = [ents EXCEPT ![s0] = Entry(n, i)]
      OBVIOUS
    <3>2. c[s0] = Entry(n, i)
      BY <2>6, <3>1
    <3>3. AtIn(img.blk, x) = c
      BY <2>8, <3>1 DEF AtIn, DirBlk
    <3> QED
      BY <3>2, <3>3 DEF Entry
  <2>10. Holds(img.blk, par, n, b, s0)
    BY <2>8, <2>9 DEF Holds
  <2>11. LookIn(img.blk, par, n) # -1
    BY <2>4, <2>7, <2>8, <2>10, LookLive
  <2> QED
    BY <1>4, <1>6, <2>2, <2>7, <2>8, <2>11 DEF CreatDone
<1> QED
  BY <1>4, <1>5, <1>6

\* unlink_server: the name it has removed is found no more.
LEMMA UnlinkSettles ==
  ASSUME Plain, LogInv, DirsInv, NEW p \in Inums, imap[p] # -1, NEW n \in Names, Near(p, n), Unlink(p, n), up',
         NEW r, r.name = n
  PROVE  /\ reply'.op = "unlink" /\ disk'.imap[p] # -1
         /\ UnlinkDone(r, reply', disk'.imap, disk'.blk, disk'.blk[disk'.imap[p]])
<1>1. PICK node, look : node = disk.blk[imap[p]] /\ look = LookIn(disk.blk, node, n)
  OBVIOUS
<1>2. /\ up
      /\ \/ Quiet /\ reply' = [op |-> "unlink", ret |-> -1, val |-> NoVal] /\ node.type # MFS_DIRECTORY
         \/ /\ Quiet /\ reply' = [op |-> "unlink", ret |-> 0, val |-> NoVal]
            /\ node.type = MFS_DIRECTORY /\ look = -1
         \/ /\ Quiet /\ reply' = [op |-> "unlink", ret |-> -1, val |-> NoVal]
            /\ node.type = MFS_DIRECTORY /\ look # -1 /\ InFirst(disk.blk, node, n) /\ Filled(disk.blk, disk.blk[imap[look]])
         \/ /\ node.type = MFS_DIRECTORY /\ look # -1
            /\ reply' = [op |-> "unlink", ret |-> 0, val |-> NoVal] /\ Cut(disk', node, n, look)
  BY <1>1, UnlinkDoes
<1>3. disk.imap = imap /\ imap \in Imaps /\ disk.blk \in Stores /\ DirsOK(imap, disk.blk) /\ Apart(imap, disk.blk)
  BY <1>2, UpImage, DirsUp DEF LogInv
<1>4. CASE /\ Quiet
           /\ \/ reply' = [op |-> "unlink", ret |-> -1, val |-> NoVal] /\ node.type # MFS_DIRECTORY
              \/ /\ reply' = [op |-> "unlink", ret |-> 0, val |-> NoVal]
                 /\ node.type = MFS_DIRECTORY /\ look = -1
              \/ /\ reply' = [op |-> "unlink", ret |-> -1, val |-> NoVal]
                 /\ node.type = MFS_DIRECTORY /\ look # -1 /\ InFirst(disk.blk, node, n) /\ Filled(disk.blk, disk.blk[imap[look]])
  <2>1. disk' = disk
    BY <1>4 DEF Quiet
  <2>2. PICK rep, im, blk : rep = reply' /\ im = imap /\ blk = disk.blk
    OBVIOUS
  <2>3. look = LookIn(blk, node, r.name) /\ node = blk[im[p]]
    BY <1>1, <2>2
  <2>4. UnlinkDone(r, rep, im, blk, node) /\ rep.op = "unlink"
    BY <1>1, <1>4, <2>2, <2>3 DEF UnlinkDone
  <2> QED
    BY <1>3, <2>1, <2>2, <2>3, <2>4
<1>5. CASE /\ node.type = MFS_DIRECTORY /\ look # -1
           /\ reply' = [op |-> "unlink", ret |-> 0, val |-> NoVal] /\ Cut(disk', node, n, look)
  <2>1. PICK img : img = disk'
    OBVIOUS
  <2>2. look # p /\ imap[look] # -1
    BY <1>1, <1>3, <1>5, LookTo
  <2>3. img.imap[p] = imap[p]
    BY <1>3, <1>5, <2>1, <2>2 DEF Cut, Imaps
  <2>4. \A j \in Ptrs : \A s \in Slots : j # 0 => ~Holds(disk.blk, node, n, j, s)
    <3>1. find_inode(p) = {node}
      BY <1>1, <1>2, FindAllocated
    <3>2. \A w : DirAt(w) = AtIn(disk.blk, w)
      BY DEF DirAt, AtIn
    <3> QED
      BY <1>5, <3>1, <3>2 DEF Near, Holds
  <2>5. PICK x : x = node.ptr[0]
    OBVIOUS
  <2>6. PICK s0 \in Slots : Holds(disk.blk, node, n, 0, s0) /\ 0 \in Ptrs
    <3>1. PICK j \in Ptrs, s \in Slots : Holds(disk.blk, node, n, j, s)
      BY <1>1, <1>5, LookMissed
    <3> QED
      BY <3>1, <2>4
  <2>7. IsDirBlk(imap, disk.blk, p, 0)
    BY <1>1, <1>5, <2>6 DEF IsDirBlk, Holds
  <2>8. x \in Blocks /\ disk.blk[x].k = "dir" /\ imap[p] \in Blocks /\ disk.blk[imap[p]].k = "inode"
    BY <1>1, <1>2, <2>5, <2>6, <2>7, DirPlace
  <2>9. PICK c, old : old = AtIn(disk.blk, x) /\ c = RemoveName(old, n)
    OBVIOUS
  <2>10. img.blk = [disk.blk EXCEPT ![x] = DirBlk(c)]
    <3>1. InFirst(disk.blk, node, n)
      BY <2>6 DEF Holds, InFirst
    <3> QED
      BY <1>5, <2>1, <2>5, <2>9, <3>1 DEF Cut
  <2>11. img.blk[x] = DirBlk(c) /\ \A w \in Blocks : w # x => img.blk[w] = disk.blk[w]
    BY <1>3, <2>8, <2>10 DEF Stores
  <2>12. img.blk[imap[p]] = node
    BY <1>1, <2>8, <2>11
  <2>13. AtIn(img.blk, x) = c
    BY <2>8, <2>11 DEF AtIn, DirBlk
  <2>14. \A s \in Slots : c[s].name # n
    BY <2>9, UnusedIs DEF RemoveName, Plain
  <2>15. ASSUME NEW j \in Ptrs, NEW s \in Slots, Holds(img.blk, node, n, j, s) PROVE FALSE
    <3>1. CASE j = 0
      BY <2>5, <2>13, <2>14, <2>15, <3>1 DEF Holds
    <3>2. CASE j # 0
      <4>1. PICK w : w = node.ptr[j]
        OBVIOUS
      <4>2. w # x
        <5>1. node.used[j] = 1 /\ node.used[0] = 1
          BY <2>6, <2>15 DEF Holds
        <5> QED
          BY <1>1, <1>3, <2>5, <2>6, <3>2, <4>1, <5>1 DEF Apart
      <4>3. AtIn(img.blk, w) = AtIn(disk.blk, w)
        BY <2>11, <4>2 DEF AtIn
      <4> QED
        BY <2>4, <2>15, <3>2, <4>1, <4>3 DEF Holds
    <3> QED
      BY <3>1, <3>2
  <2>16. LookIn(img.blk, node, n) = -1
    BY <2>15, LookMissed
  <2> QED
    BY <1>5, <2>1, <2>3, <2>12, <2>16 DEF UnlinkDone
<1> QED
  BY <1>2, <1>4, <1>5

\* Every request.
LEMMA Settles ==
  ASSUME Plain, LogInv, DirsInv, NEW r \in Packets, Handle(r), InUse(r.inum), ~Strays(r), up'
  PROVE  Settled(r, reply', disk'.imap, disk'.blk)
<1>1. CASE r.inum \notin Inums
  BY <1>1, Outside DEF Settled
<1>2. CASE r.inum \in Inums
  <2>1. imap[r.inum] # -1
    BY <1>2 DEF InUse
  <2>2. PICK rep, im, blk, i : rep = reply' /\ im = disk'.imap /\ blk = disk'.blk /\ i = r.inum
    OBVIOUS
  <2>3. i \in Inums /\ imap[i] # -1
    BY <1>2, <2>1, <2>2
  <2>4. ASSUME Quiet, up PROVE disk' = disk /\ im = imap /\ blk = disk.blk /\ im[i] # -1
    BY <2>2, <2>3, <2>4, UpImage DEF Quiet
  <2>5. CASE r.method = "lookup" /\ Lookup(r.inum, r.name)
    <3>1. up /\ Quiet /\ rep = [op |-> "lookup", ret |-> LookIn(disk.blk, disk.blk[imap[i]], r.name), val |-> NoVal]
      BY <2>2, <2>3, <2>5, LookupDoes
    <3> QED
      BY <2>2, <2>3, <2>4, <2>5, <3>1 DEF Settled, LookupDone
  <2>6. CASE r.method = "stat" /\ Stat(r.inum)
    <3>1. PICK node : node = disk.blk[imap[i]]
      OBVIOUS
    <3>2. up /\ Quiet /\ rep = [op |-> "stat", ret |-> 0, val |-> <<node.type, node.size>>]
      BY <2>2, <2>3, <2>6, <3>1, StatDoes
    <3> QED
      BY <2>2, <2>3, <2>4, <2>6, <3>1, <3>2 DEF Settled, StatDone
  <2>7. CASE r.method = "read" /\ Read(r.inum, r.block)
    <3>1. PICK node : node = disk.blk[imap[i]]
      OBVIOUS
    <3>2. /\ up /\ Quiet /\ rep.op = "read"
          /\ r.block \notin Ptrs => rep.ret = -1 /\ rep.val = NoVal
          /\ r.block \in Ptrs =>
               /\ rep.ret = 0
               /\ node.type = MFS_REGULAR_FILE => rep.val = <<DataIn(disk.blk, node.ptr[r.block])>>
      BY <2>2, <2>3, <2>7, <3>1, ReadDoes
    <3>3. ReadDone(r, rep, disk.blk, node)
      BY <3>2 DEF ReadDone
    <3> QED
      BY <2>2, <2>3, <2>4, <2>7, <3>1, <3>2, <3>3 DEF Settled
  <2>8. CASE r.method = "write" /\ Write(r.inum, r.buffer, r.block)
    <3>1. r.buffer \in Data /\ r.block \in BlockArgs
      BY <2>8, PacketFields
    <3>2. rep.op = "write" /\ im = imap /\ WriteDone(r, rep, blk, blk[imap[i]])
      BY <2>2, <2>3, <2>8, <3>1, WriteSettles
    <3> QED
      BY <2>2, <2>3, <2>8, <3>2 DEF Settled
  <2>9. CASE r.method = "creat" /\ Creat(r.inum, r.type, r.name)
    <3>1. r.name \in Names /\ r.type \in Types
      BY <2>9, PacketFields
    <3>2. rep.op = "creat" /\ im[i] # -1 /\ CreatDone(r, rep, im, blk, blk[im[i]])
      BY <2>2, <2>3, <2>9, <3>1, CreatSettles
    <3> QED
      BY <2>2, <2>3, <2>9, <3>2 DEF Settled
  <2>10. CASE r.method = "unlink" /\ Unlink(r.inum, r.name)
    <3>1. r.name \in Names /\ Near(i, r.name)
      BY <2>2, <2>10, PacketFields DEF Strays
    <3>2. rep.op = "unlink" /\ im[i] # -1 /\ UnlinkDone(r, rep, im, blk, blk[im[i]])
      BY <2>2, <2>3, <2>10, <3>1, UnlinkSettles
    <3> QED
      BY <2>2, <2>3, <2>10, <3>2 DEF Settled
  <2> QED
    BY <2>5, <2>6, <2>7, <2>8, <2>9, <2>10 DEF Handle
<1> QED
  BY <1>1, <1>2

----------------------------------------------------------------------------
(* A settled request changes nothing when it is executed again.            *)

\* write_server appends a second copy of the block; under the inode number
\* there is what was there.
LEMMA WriteView ==
  ASSUME LogInv, up, NEW i \in Inums, imap[i] # -1, NEW v, NEW b \in Ptrs, NEW node, node = disk.blk[imap[i]],
         NEW img, Wrote(img, i, v, b, node),
         node.used[b] = 1, disk.blk[node.ptr[b]] = DataBlk(v), b + 1 <= node.size
  PROVE  View(img) = View(disk)
<1>1. disk.imap = imap /\ img.imap = imap
  BY UpImage DEF Wrote
<1>2. /\ imap[i] \in Blocks /\ imap[i] < next_block
      /\ node \in [k : {"inode"}, type : Int, size : Int, ptr : [Ptrs -> Int], used : [Ptrs -> {0, 1}]]
  BY FindAllocated
<1>3. PICK n : n = img.blk[imap[i]]
  OBVIOUS
<1>4. /\ n.type = node.type /\ n.size = node.size
      /\ n.used = [node.used EXCEPT ![b] = 1] /\ n.ptr = [node.ptr EXCEPT ![b] = next_block]
  <2>1. b \in Int /\ node.size \in Int
    BY <1>2, LFSAssumption DEF Ptrs
  <2>2. ~(b + 1 > node.size)
    BY <2>1
  <2>3. n = AppendBlock(node, node.size, b)
    BY <1>3, <2>2 DEF Wrote
  <2> QED
    BY <2>3 DEF AppendBlock, Inode
<1>5. \A j \in Ptrs : n.used[j] = node.used[j] /\ (j # b => n.ptr[j] = node.ptr[j])
  BY <1>2, <1>4
<1>6. n.ptr[b] = next_block
  BY <1>2, <1>4
<1>7. ASSUME NEW q \in Inums, imap[q] # -1, NEW j \in Ptrs, NEW c, c = disk.blk[imap[q]], c.used[j] = 1,
             NEW w, w = c.ptr[j]
      PROVE  img.blk[w] = disk.blk[w]
  <2>1. GoodInode(c, next_block, disk.blk)
    BY <1>7, FindAllocated
  <2>2. w \in 0 .. (next_block - 1) /\ disk.blk[w].k = KindOf(c.type)
    BY <1>7, <2>1, GoodPtr
  <2>3. w \in Blocks /\ w < next_block
    BY <2>2, LFSAssumption DEF LogInv, TypeOK, Blocks
  <2>4. disk.blk[imap[i]].k = "inode" /\ disk.blk[w].k # "inode"
    BY <1>2, <2>2 DEF KindOf
  <2> QED
    BY <2>3, <2>4 DEF Wrote
<1> DEFINE Block(d, x, j) == IF x.used[j] = 1 THEN d.blk[x.ptr[j]] ELSE Hole
<1> HIDE DEF Block
<1>8. ASSUME NEW q \in Inums PROVE FileView(img, q) = FileView(disk, q)
  <2>1. CASE imap[q] = -1
    BY <1>1, <2>1 DEF FileView
  <2>2. CASE imap[q] # -1
    <3>1. PICK c, m : c = disk.blk[imap[q]] /\ m = img.blk[imap[q]]
      OBVIOUS
    <3>2. /\ FileView(img, q) = [type |-> m.type, size |-> m.size, blocks |-> [j \in Ptrs |-> Block(img, m, j)]]
          /\ FileView(disk, q) = [type |-> c.type, size |-> c.size, blocks |-> [j \in Ptrs |-> Block(disk, c, j)]]
      BY <1>1, <2>2, <3>1 DEF FileView, Block
    <3>3. CASE q = i
      <4>1. m = n /\ c = node
        BY <1>3, <3>1, <3>3
      <4>2. ASSUME NEW j \in Ptrs
            PROVE  (IF m.used[j] = 1 THEN img.blk[m.ptr[j]] ELSE Hole) = (IF c.used[j] = 1 THEN disk.blk[c.ptr[j]] ELSE Hole)
        <5>1. CASE j = b
          BY <1>5, <1>6, <4>1, <5>1 DEF Wrote
        <5>2. CASE j # b
          BY <1>5, <1>7, <2>2, <3>1, <3>3, <4>1, <5>2
        <5> QED
          BY <5>1, <5>2
      <4>3. m.type = c.type /\ m.size = c.size
        BY <1>4, <4>1
      <4>4. [j \in Ptrs |-> Block(img, m, j)] = [j \in Ptrs |-> Block(disk, c, j)]
        BY <4>2, Zenon DEF Block
      <4> QED
        BY <3>2, <4>4, <4>3
    <3>4. CASE q # i
      <4>1. imap[q] # imap[i] /\ imap[q] \in Blocks /\ imap[q] < next_block
        BY <1>1, <2>2, <3>4, FindAllocated, UpImage DEF LogInv, Apart
      <4>2. m = c
        BY <3>1, <4>1 DEF Wrote
      <4>3. \A j \in Ptrs : c.used[j] = 1 => img.blk[c.ptr[j]] = disk.blk[c.ptr[j]]
        BY <1>7, <2>2, <3>1
      <4>4. ASSUME NEW j \in Ptrs PROVE Block(img, m, j) = Block(disk, c, j)
        BY <4>2, <4>3 DEF Block
      <4>5. [j \in Ptrs |-> Block(img, m, j)] = [j \in Ptrs |-> Block(disk, c, j)]
        BY <4>4, Zenon
      <4> QED
        BY <3>2, <4>2, <4>5
    <3> QED
      BY <3>3, <3>4
  <2> QED
    BY <2>1, <2>2
<1> QED
  BY <1>8, Zenon DEF View

Unchanged(r) ==
  /\ View(disk') = View(disk) /\ imap' = imap
  /\ reply'.op = reply.op /\ reply'.ret = reply.ret
  /\ Comparable(r) => reply'.val = reply.val

\* Every request.
LEMMA Again ==
  ASSUME Plain, LogInv, DirsInv, NEW r \in Packets, Handle(r), Settled(r, reply, disk.imap, disk.blk)
  PROVE  Unchanged(r)
<1>0. up
  BY DEF Handle, Lookup, Stat, Read, Write, Creat, Unlink
<1>1. disk.imap = imap
  BY <1>0, UpImage
<1>2. ASSUME Quiet, reply'.op = reply.op, reply'.ret = reply.ret, Comparable(r) => reply'.val = reply.val
      PROVE  Unchanged(r)
  BY <1>2 DEF Unchanged, Quiet
<1>3. CASE r.inum \notin Inums
  BY <1>2, <1>3, Outside DEF Settled
<1>4. CASE r.inum \in Inums
  <2>1. PICK i, im, blk, node : i = r.inum /\ im = imap /\ blk = disk.blk /\ node = blk[im[i]]
    OBVIOUS
  <2>2. i \in Inums /\ imap[i] # -1 /\ reply.op = r.method /\ node = disk.blk[imap[i]]
    BY <1>1, <1>4, <2>1 DEF Settled
  <2>3. CASE r.method = "lookup" /\ Lookup(r.inum, r.name)
    <3>1. LookupDone(r, reply, blk, node)
      BY <1>1, <1>4, <2>1, <2>3 DEF Settled
    <3>2. Quiet /\ reply' = [op |-> "lookup", ret |-> LookIn(blk, node, r.name), val |-> NoVal]
      BY <2>1, <2>2, <2>3, LookupDoes
    <3> QED
      BY <1>2, <2>2, <2>3, <3>1, <3>2 DEF LookupDone
  <2>4. CASE r.method = "stat" /\ Stat(r.inum)
    <3>1. StatDone(reply, node)
      BY <1>1, <1>4, <2>1, <2>4 DEF Settled
    <3>2. Quiet /\ reply' = [op |-> "stat", ret |-> 0, val |-> <<node.type, node.size>>]
      BY <2>1, <2>2, <2>4, StatDoes
    <3> QED
      BY <1>2, <2>2, <2>4, <3>1, <3>2 DEF StatDone
  <2>5. CASE r.method = "read" /\ Read(r.inum, r.block)
    <3>1. ReadDone(r, reply, blk, node)
      BY <1>1, <1>4, <2>1, <2>5 DEF Settled
    <3>2. /\ Quiet /\ reply'.op = "read"
          /\ r.block \notin Ptrs => reply'.ret = -1 /\ reply'.val = NoVal
          /\ r.block \in Ptrs =>
               /\ reply'.ret = 0
               /\ node.type = MFS_REGULAR_FILE => reply'.val = <<DataIn(blk, node.ptr[r.block])>>
      BY <2>1, <2>2, <2>5, ReadDoes
    <3>3. Comparable(r) => node.type = MFS_REGULAR_FILE
      BY <1>0, <2>1, <2>2, <2>5, FindAllocated DEF Comparable
    <3> QED
      BY <1>2, <2>2, <2>5, <3>1, <3>2, <3>3 DEF ReadDone
  <2>6. CASE r.method = "write" /\ Write(r.inum, r.buffer, r.block)
    <3>1. WriteDone(r, reply, blk, node)
      BY <1>1, <1>4, <2>1, <2>6 DEF Settled
    <3>2. r.buffer \in Data /\ r.block \in BlockArgs
      BY <2>6, PacketFields
    <3>3. CASE node.type # MFS_REGULAR_FILE \/ r.block \notin Ptrs
      <4>1. Quiet /\ reply' = [op |-> "write", ret |-> -1, val |-> NoVal]
        BY <2>1, <2>2, <2>6, <3>2, <3>3, WriteDoes
      <4> QED
        BY <1>2, <2>2, <2>6, <3>1, <3>3, <4>1 DEF WriteDone
    <3>4. CASE node.type = MFS_REGULAR_FILE /\ r.block \in Ptrs
      <4>1. imap' = imap /\ Wrote(disk', i, r.buffer, r.block, node) /\ reply' = [op |-> "write", ret |-> 0, val |-> NoVal]
        BY <2>1, <2>2, <2>6, <3>2, <3>4, WriteDoes
      <4>2. /\ reply.ret = 0 /\ reply.val = NoVal /\ node.used[r.block] = 1
            /\ disk.blk[node.ptr[r.block]] = DataBlk(r.buffer) /\ r.block + 1 <= node.size
        BY <2>1, <3>1, <3>4 DEF WriteDone
      <4>3. PICK img : img = disk'
        OBVIOUS
      <4>4. View(img) = View(disk)
        BY <1>0, <2>2, <3>4, <4>1, <4>2, <4>3, WriteView
      <4> QED
        BY <2>2, <2>6, <4>1, <4>2, <4>3, <4>4 DEF Unchanged
    <3> QED
      BY <3>3, <3>4
  <2>7. CASE r.method = "creat" /\ Creat(r.inum, r.type, r.name)
    <3>1. CreatDone(r, reply, im, blk, node)
      BY <1>1, <1>4, <2>1, <2>7 DEF Settled
    <3>2. r.name \in Names /\ r.type \in Types
      BY <2>7, PacketFields
    <3>3. PICK look : look = LookIn(blk, node, r.name)
      OBVIOUS
    <3>4. /\ reply'.op = "creat" /\ reply'.val = NoVal
          /\ \/ Quiet /\ reply'.ret = -1 /\ node.type # MFS_DIRECTORY
             \/ Quiet /\ reply'.ret = 0 /\ node.type = MFS_DIRECTORY /\ look # -1
             \/ Quiet /\ reply'.ret = -1 /\ node.type = MFS_DIRECTORY /\ look = -1 /\ NoPlace(im, blk, node)
             \/ node.type = MFS_DIRECTORY /\ look = -1 /\ ~NoPlace(im, blk, node)
      BY <2>1, <2>2, <2>7, <3>2, <3>3, CreatDoes
    <3> QED
      BY <1>2, <2>2, <2>7, <3>1, <3>3, <3>4 DEF CreatDone
  <2>8. CASE r.method = "unlink" /\ Unlink(r.inum, r.name)
    <3>1. UnlinkDone(r, reply, im, blk, node)
      BY <1>1, <1>4, <2>1, <2>8 DEF Settled
    <3>2. r.name \in Names
      BY <2>8, PacketFields
    <3>3. PICK look : look = LookIn(blk, node, r.name)
      OBVIOUS
    <3>4. \/ Quiet /\ reply' = [op |-> "unlink", ret |-> -1, val |-> NoVal] /\ node.type # MFS_DIRECTORY
          \/ /\ Quiet /\ reply' = [op |-> "unlink", ret |-> 0, val |-> NoVal]
             /\ node.type = MFS_DIRECTORY /\ look = -1
          \/ /\ Quiet /\ reply' = [op |-> "unlink", ret |-> -1, val |-> NoVal]
             /\ node.type = MFS_DIRECTORY /\ look # -1 /\ InFirst(blk, node, r.name) /\ Filled(blk, blk[im[look]])
          \/ /\ node.type = MFS_DIRECTORY /\ look # -1
             /\ ~(InFirst(blk, node, r.name) /\ Filled(blk, blk[im[look]]))
      BY <2>1, <2>2, <2>8, <3>2, <3>3, UnlinkDoes
    <3> QED
      BY <1>2, <2>2, <2>8, <3>1, <3>3, <3>4 DEF UnlinkDone
  <2> QED
    BY <2>3, <2>4, <2>5, <2>6, <2>7, <2>8 DEF Handle
<1> QED
  BY <1>3, <1>4

----------------------------------------------------------------------------
(* The invariant of the clients, the network and the server.               *)

Datagrams == [port : Nat \ {0}, req : Packets]

NetType ==
  /\ calls \in Nat
  /\ reqs \subseteq Datagrams
  /\ call \in [Clients -> {Idle} \cup [id : Nat \ {0}, req : Packets]]

\* The request that was executed last is settled.
LastSettled ==
  last # NoRequest =>
    /\ disk.exists
    /\ last.req.method # "shutdown" =>
         last.req \in Packets /\ Settled(last.req, reply, disk.imap, disk.blk)

NetInv == NetType /\ (~strayed => LogInv /\ DirsInv /\ LastSettled)

\* The initial states.
LEMMA InitNet == NetInit => NetInv
<1> SUFFICES ASSUME NetInit PROVE NetInv
  OBVIOUS
<1>1. NetType
  BY DEF NetInit, NetType
<1>2. LogInv /\ DirsInv
  BY InitLogInv DEF NetInit, Init, NoImage, DirsInv
<1>3. LastSettled
  BY DEF NetInit, LastSettled
<1> QED
  BY <1>1, <1>2, <1>3 DEF NetInv

\* Datagrams carry the packets of calls.
LEMMA NextType == ASSUME NetType, NetNext PROVE NetType'
<1>1. ASSUME NEW c \in Clients, NEW r \in Requests, Call(c, r) PROVE NetType'
  <2>1. r \in Packets /\ calls + 1 \in Nat \ {0}
    BY NetAssumption DEF NetType
  <2>2. [port |-> calls + 1, req |-> r] \in Datagrams /\ [id |-> calls + 1, req |-> r] \in [id : Nat \ {0}, req : Packets]
    BY <2>1 DEF Datagrams
  <2> QED
    BY <1>1, <2>1, <2>2 DEF Call, NetType
<1>2. ASSUME NEW c \in Clients, Retry(c) PROVE NetType'
  <2>1. call[c] \in [id : Nat \ {0}, req : Packets]
    BY <1>2 DEF Retry, NetType
  <2>2. [port |-> call[c].id, req |-> call[c].req] \in Datagrams
    BY <2>1 DEF Datagrams
  <2> QED
    BY <1>2, <2>2 DEF Retry, NetType
<1>3. ASSUME NEW c \in Clients, Return(c) PROVE NetType'
  BY <1>3 DEF Return, NetType
<1>4. ASSUME NEW m \in reqs, Serve(m) \/ ServeShutdown(m) PROVE NetType'
  BY <1>4, Zenon DEF Serve, ServeShutdown, Delivered, NetType
<1>5. ASSUME Lose PROVE NetType'
  BY <1>5, Zenon DEF Lose, NetType
<1>6. ASSUME Start PROVE NetType'
  BY <1>6 DEF Start, NetType
<1> QED
  BY <1>1, <1>2, <1>3, <1>4, <1>5, <1>6 DEF NetNext

\* A request that does not stray is a step of a careful client.
LEMMA ServeHeld ==
  ASSUME NEW r \in Packets, Handle(r), ~Strays(r)
  PROVE  HeldNext(FALSE)
<1>1. r.method \in {"creat", "write", "unlink"} => Held(r.inum)
  BY DEF Strays, InUse, Held
<1>2. r.method = "unlink" => Near(r.inum, r.name)
  BY DEF Strays
<1>3. CASE r.method = "lookup" /\ Lookup(r.inum, r.name)
  BY <1>3, PacketFields, Zenon DEF HeldNext
<1>4. CASE r.method = "stat" /\ Stat(r.inum)
  BY <1>4, PacketFields, Zenon DEF HeldNext
<1>5. CASE r.method = "write" /\ Write(r.inum, r.buffer, r.block)
  <2>1. Held(r.inum) /\ r.inum \in InumArgs /\ r.block \in BlockArgs /\ r.buffer \in Data
    BY <1>1, <1>5, PacketFields
  <2> QED
    BY <1>5, <2>1, Zenon DEF HeldNext
<1>6. CASE r.method = "read" /\ Read(r.inum, r.block)
  <2>1. r.inum \in InumArgs /\ r.block \in BlockArgs
    BY <1>6, PacketFields
  <2> QED
    BY <1>6, <2>1, Zenon DEF HeldNext
<1>7. CASE r.method = "creat" /\ Creat(r.inum, r.type, r.name)
  <2>1. Held(r.inum) /\ r.inum \in InumArgs /\ r.name \in Names /\ r.type \in Types
    BY <1>1, <1>7, PacketFields
  <2> QED
    BY <1>7, <2>1, Zenon DEF HeldNext
<1>8. CASE r.method = "unlink" /\ Unlink(r.inum, r.name)
  <2>1. Held(r.inum) /\ r.inum \in InumArgs /\ r.name \in Names
    BY <1>1, <1>8, PacketFields
  <2> QED
    BY <1>2, <1>8, <2>1, Zenon DEF HeldNext
<1> QED
  BY <1>3, <1>4, <1>5, <1>6, <1>7, <1>8 DEF Handle

\* Every step of clients, network and server is a step of careful clients'
\* requests, or none, until a request strays.
LEMMA StepHeld ==
  ASSUME NetType, NetNext, ~strayed'
  PROVE  ~strayed /\ [HeldNext(FALSE)]_vars
<1>1. ASSUME NEW c \in Clients, (\E r \in Requests : Call(c, r)) \/ Retry(c) \/ Return(c)
      PROVE  ~strayed /\ [HeldNext(FALSE)]_vars
  <2>1. vars' = vars /\ strayed' = strayed
    BY <1>1, Zenon DEF Call, Retry, Return
  <2> QED
    BY <2>1
<1>2. ASSUME NEW m \in reqs, Serve(m) PROVE ~strayed /\ [HeldNext(FALSE)]_vars
  <2>1. m.req \in Packets
    BY DEF NetType, Datagrams
  <2>2. Handle(m.req) /\ ~Strays(m.req) /\ ~strayed
    BY <1>2 DEF Serve
  <2> QED
    BY <2>1, <2>2, ServeHeld
<1>3. ASSUME NEW m \in reqs, ServeShutdown(m) PROVE ~strayed /\ [HeldNext(FALSE)]_vars
  BY <1>3, Zenon DEF ServeShutdown, HeldNext
<1>4. ASSUME Lose PROVE ~strayed /\ [HeldNext(FALSE)]_vars
  BY <1>4, Zenon DEF Lose
<1>5. ASSUME Start PROVE ~strayed /\ [HeldNext(FALSE)]_vars
  BY <1>5, Zenon DEF Start, HeldNext
<1> QED
  BY <1>1, <1>2, <1>3, <1>4, <1>5, Zenon DEF NetNext

\* What was executed last stays settled.
LEMMA NextSettled ==
  ASSUME Plain, NetType, LogInv, DirsInv, LastSettled, NetNext, ~strayed'
  PROVE  LastSettled'
<1>1. ASSUME last' = last, disk' = disk, reply' = reply PROVE LastSettled'
  BY <1>1 DEF LastSettled
<1>2. ASSUME NEW c \in Clients, (\E r \in Requests : Call(c, r)) \/ Retry(c) \/ Return(c)
      PROVE  LastSettled'
  BY <1>1, <1>2 DEF Call, Retry, Return, vars
<1>3. ASSUME NEW m \in reqs, Serve(m) PROVE LastSettled'
  <2>1. m.req \in Packets
    BY DEF NetType, Datagrams
  <2>2. Handle(m.req) /\ ~Strays(m.req)
    BY <1>3 DEF Serve
  <2>3. CASE last' = NoRequest
    BY <2>3 DEF LastSettled
  <2>4. CASE last' = m /\ up' /\ InUse(m.req.inum)
    <3>1. Settled(m.req, reply', disk'.imap, disk'.blk)
      BY <2>1, <2>2, <2>4, Settles
    <3>2. [HeldNext(TRUE)]_vars
      BY <2>1, <2>2, ServeHeld, HeldFar
    <3>3. LogInv'
      BY <3>2, NextLogInv DEF Plain
    <3>4. disk'.exists
      BY <2>4, <3>3 DEF LogInv
    <3> QED
      BY <2>1, <2>4, <3>1, <3>4 DEF LastSettled
  <2> QED
    BY <1>3, <2>3, <2>4 DEF Serve
<1>4. ASSUME NEW m \in reqs, ServeShutdown(m) PROVE LastSettled'
  <2>1. disk.exists
    BY <1>4, UpImage DEF ServeShutdown, Shutdown
  <2> QED
    BY <1>4, <2>1 DEF ServeShutdown, Shutdown, LastSettled
<1>5. ASSUME Lose PROVE LastSettled'
  BY <1>1, <1>5, Zenon DEF Lose, vars
<1>6. ASSUME Start PROVE LastSettled'
  <2>1. CASE last = NoRequest
    BY <1>6, <2>1 DEF Start, LastSettled
  <2>2. CASE last # NoRequest
    <3>1. disk' = disk /\ reply' = reply /\ last' = last
      BY <1>6, <2>2 DEF Start, start_server, LastSettled
    <3> QED
      BY <1>1, <3>1
  <2> QED
    BY <2>1, <2>2
<1> QED
  BY <1>2, <1>3, <1>4, <1>5, <1>6 DEF NetNext

\* Every step.
LEMMA NextNet == ASSUME Plain, NetInv, [NetNext]_allvars PROVE NetInv'
<1>1. CASE UNCHANGED allvars
  <2>1. UNCHANGED <<vars, netvars>>
    BY <1>1 DEF allvars
  <2>2. NetType' /\ strayed' = strayed
    BY <2>1 DEF netvars, NetType, NetInv
  <2>3. LastSettled => LastSettled'
    BY <2>1 DEF vars, netvars, LastSettled
  <2>4. LogInv /\ DirsInv => LogInv' /\ DirsInv'
    BY <2>1, NextLogInv, DirsStay DEF Plain, vars
  <2> QED
    BY <2>2, <2>3, <2>4 DEF NetInv
<1>2. CASE NetNext
  <2>1. NetType'
    BY <1>2, NextType DEF NetInv
  <2>2. ASSUME ~strayed' PROVE LogInv' /\ DirsInv' /\ LastSettled'
    <3>1. ~strayed /\ [HeldNext(FALSE)]_vars
      BY <1>2, <2>2, StepHeld DEF NetInv
    <3>2. [HeldNext(TRUE)]_vars
      BY <3>1, HeldFar
    <3>3. LogInv /\ DirsInv /\ LastSettled /\ NetType
      BY <3>1 DEF NetInv
    <3>4. LogInv'
      BY <3>2, <3>3, NextLogInv DEF Plain
    <3>5. DirsInv'
      BY <3>1, <3>3, NextDirs DEF Plain
    <3>6. LastSettled'
      BY <1>2, <2>2, <3>3, NextSettled
    <3> QED
      BY <3>4, <3>5, <3>6
  <2> QED
    BY <2>1, <2>2 DEF NetInv
<1> QED
  BY <1>1, <1>2

\* Retries are transparent: a request that was executed last is settled, and
\* executing a settled request again changes nothing under any inode number
\* and is answered as before.  For every number of clients and calls, however
\* often the server stops, or is killed inside unlink_server, and starts.
THEOREM RetriesTransparentCorrect == Plain => (NetSpec => RetriesTransparent)
<1> SUFFICES ASSUME Plain PROVE NetSpec => RetriesTransparent
  OBVIOUS
<1>1. NetInit => NetInv
  BY InitNet
<1>2. NetInv /\ [NetNext]_allvars => NetInv'
  BY NextNet
<1>3. ASSUME NetInv
      PROVE  \A m \in reqs : ~strayed /\ m = last /\ Serve(m) =>
               /\ View(disk') = View(disk) /\ imap' = imap
               /\ reply'.op = reply.op /\ reply'.ret = reply.ret
               /\ Comparable(m.req) => reply'.val = reply.val
  <2> SUFFICES ASSUME NEW m \in reqs, ~strayed, m = last, Serve(m) PROVE Unchanged(m.req)
    BY DEF Unchanged
  <2>1. m \in Datagrams /\ LogInv /\ DirsInv /\ LastSettled
    BY <1>3 DEF NetInv, NetType
  <2>2. m # NoRequest
    <3>1. m.port # 0
      BY <2>1 DEF Datagrams
    <3> QED
      BY <3>1 DEF NoRequest
  <2>3. m.req.method # "shutdown" /\ Handle(m.req)
    BY DEF Serve
  <2>4. m.req \in Packets /\ Settled(m.req, reply, disk.imap, disk.blk)
    BY <2>1, <2>2, <2>3 DEF LastSettled
  <2> QED
    BY <2>1, <2>3, <2>4, Again
<1> QED
  BY <1>1, <1>2, <1>3, PTL DEF NetSpec, RetriesTransparent
=============================================================================
