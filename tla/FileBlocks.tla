----------------------------- MODULE FileBlocks -----------------------------
(***************************************************************************)
(* The contents of inodes (kernel/fs.c:29-99 and 312-550): the bitmap, the *)
(* map from a file's blocks to the disk's, and the checksums that a file   *)
(* of type T_CHECKED keeps in the high byte of its block addresses, on the *)
(* image that mkfs (MkFS) has built.  Several processes work on different  *)
(* inodes (ilock, Inodes), and the machine may crash between any two       *)
(* steps.  Each disk write is a step of its own, but for two pairs that    *)
(* are one step: bfree's zeroes and its bit, and ialloc's inode and        *)
(* create's link count.  A crash inside either leaves what the crash       *)
(* before it leaves, and a zeroed block of an unlinked file or an inode    *)
(* with no link, which no operation reads.                                 *)
(*                                                                         *)
(* The buffer cache is the store of blocks with one owner each that        *)
(* BufCache implements: bread and brelse of one step are not seen, except  *)
(* that stati never releases what it reads (fs.c:429).  No code path of    *)
(* this commit calls create() with T_CHECKED (sysfile.c:276 is never       *)
(* true): Create stands for create() as fs.c is written to be called.      *)
(*                                                                         *)
(* A definition named X_Fault, before X, is X with one plausible mistake   *)
(* in it; no specification uses it.                                        *)
(***************************************************************************)
EXTENDS MkFS

CONSTANTS
  Procs,
  TAG,        \* 2^24: an address is a block number plus TAG times a checksum
  Payloads,   \* what may be written, as sequences of units 0 and 1
  ReadLens,   \* how much may be read
  MaxOps,     \* bound: calls in a behaviour
  MaxStats,   \* bound: calls of fstat among them
  Crashes,    \* bound: crashes in a behaviour
  Rots        \* bound: damaged units in a behaviour

ASSUME FileBlocksAssumption ==
  /\ TAG \in Nat /\ bitblocks * BPB <= TAG /\ BSIZE >= 2
  /\ Payloads \subseteq Seq({0, 1}) /\ ReadLens \subseteq Nat

VARIABLES
  mem,        \* the inode cache: inode number -> the copy in memory, or Out when
              \* it is not there or no different from the disk's
  run,        \* process -> what it is doing
  stuck,      \* process -> the buffers it has not released
  left,       \* the calls, fstats, crashes and damage that may still happen
  \* for the properties only:
  want,       \* inode number -> unit -> the values it may have
  torn,       \* inode numbers of files a crash cut a write of
  flips,      \* damaged units of checked files: inode number, file block, place in it
  leaky,      \* blocks may have been lost in one of the ways NothingLost names
  panicked    \* "no", or what the kernel panicked about

ghosts == <<want, torn, flips, leaky>>
vars == <<mkvars, mem, run, stuck, left, ghosts, panicked>>

Out   == [type |-> 0, nlink |-> -1]
Idle  == [op |-> "idle"]
Units == 0 .. (MAXFILE * BSIZE - 1)
StatBlocks == NINDIRECT \div 2    \* stati looks at 64 of the 128 (fs.c:432)

ip(f)   == IF mem[f] = Out THEN dino[f] ELSE mem[f]
Free(f) == \A p \in Procs : run[p].op # "idle" => run[p].f # f      \* not I_BUSY
Linked(f)   == dino[f].type # 0 /\ dino[f].nlink > 0
Checked(f)  == ip(f).type = T_CHECKED
AddrMask(a) == a % TAG            \* a & 0x00ffffff
SumTag(a)   == a \div TAG         \* a >> SHIFT3BYTES

Xor(x, y) == (x + y) % 2          \* of units that are 0 or 1
SumOf(c)  == Cardinality({u \in DOMAIN c : c[u] % 2 = 1}) % 2   \* the XOR of all units

\* bread(b) would wait for ever.
Hangs(b) == \E p \in Procs : b \in stuck[p]

\* The lowest clear bit, however far behind the end of the image it is.
FreeBits == {b \in DOMAIN bit : bit[b] = 0}
NextFree == CHOOSE b \in FreeBits : \A c \in FreeBits : b <= c

----------------------------------------------------------------------------
(* Starting a call.  ilock reads the inode into memory when it is not      *)
(* there; what iput leaves there is Out when the disk has it too.          *)

Ready(p, f) == mk.phase = "run" /\ left.ops > 0 /\ run[p].op = "idle" /\ Free(f)
Begin(p, r) ==
  /\ run' = [run EXCEPT ![p] = r]
  /\ left' = [left EXCEPT !.ops = @ - 1]

\* sys_write, filewrite, writei: the offset is that of the open file, which
\* is never past the end.
Write(p, f, off, s) ==
  LET n == IF off + Len(s) > MAXFILE * BSIZE THEN MAXFILE * BSIZE - off ELSE Len(s)
  IN  /\ Ready(p, f) /\ Linked(f) /\ ip(f).type # T_DIR /\ off <= ip(f).size
      /\ Begin(p, [op |-> "write", pc |-> IF n > 0 THEN "bmap" ELSE "iupdate", f |-> f,
                   off |-> off, end |-> off + n, src |-> s, start |-> off, new |-> 0])
      /\ mem' = [mem EXCEPT ![f] = ip(f)]
      /\ want' = [want EXCEPT ![f] =
                    [u \in Units |-> IF u >= off /\ u < off + n
                                     THEN @[u] \cup {s[u - off + 1]} ELSE @[u]]]
      /\ UNCHANGED <<mkvars, stuck, torn, flips, leaky, panicked>>

\* sys_read, fileread, readi.
Read(p, f, off, len) ==
  LET n == IF off + len > ip(f).size THEN ip(f).size - off ELSE len
  IN  /\ Ready(p, f) /\ Linked(f) /\ off <= ip(f).size /\ n > 0
      /\ Begin(p, [op |-> "read", pc |-> "bmap", f |-> f, off |-> off, end |-> off + n,
                   got |-> <<>>, start |-> off, new |-> 0, stale |-> FALSE])
      /\ mem' = [mem EXCEPT ![f] = ip(f)]
      /\ UNCHANGED <<mkvars, stuck, ghosts, panicked>>

\* create(): ialloc writes a fresh inode, create() its link.
Create(p, f, t) ==
  /\ Ready(p, f) /\ dino[f].type = 0 /\ mem[f] = Out
  /\ dino' = [dino EXCEPT ![f] = Inode(t, 1)]
  /\ want' = [want EXCEPT ![f] = [u \in Units |-> {0}]]
  /\ torn' = torn \ {f}
  /\ flips' = {x \in flips : x[1] # f}
  /\ UNCHANGED <<blk, bit, mk, mem, run, stuck, left, leaky, panicked>>

\* The last name goes: sys_unlink writes the link count, then iput truncates.
Delete(p, f) ==
  LET node == [ip(f) EXCEPT !.nlink = 0]
  IN  /\ Ready(p, f) /\ Linked(f) /\ ip(f).type # T_DIR
      /\ dino' = [dino EXCEPT ![f] = node]
      /\ mem' = [mem EXCEPT ![f] = node]
      /\ Begin(p, [op |-> "itrunc", pc |-> "direct", f |-> f, j |-> 0])
      /\ UNCHANGED <<blk, bit, mk, stuck, ghosts, panicked>>

\* No process uses the inode any more and iget gives its slot away.  What a
\* read has allocated for the free block at the end of a directory made by
\* mkfs is forgotten: readi does not call iupdate.
Evict(f) ==
  /\ mem[f] # Out /\ Free(f)
  /\ mem' = [mem EXCEPT ![f] = Out]
  /\ leaky' = TRUE
  /\ UNCHANGED <<mkvars, run, stuck, left, want, torn, flips, panicked>>

----------------------------------------------------------------------------
(* bmap: one step per balloc, and one for the write of the indirect block. *)

At(p, c)   == run[p].op \in {"read", "write"} /\ run[p].pc = c
Goto(p, c) == run' = [run EXCEPT ![p].pc = c]
Bn(p)      == run[p].off \div BSIZE
Root(f)    == AddrMask(mem[f].addrs[NDIRECT])
Entry(f, n)   == IF n < NDIRECT THEN mem[f].addrs[n] ELSE blk[Root(f)][n - NDIRECT]
BlockOf(f, n) == AddrMask(Entry(f, n))

balloc_NotWritten == UNCHANGED bit

\* balloc marks the block on the disk before anything refers to it.  The bits
\* behind the end of the image are clear too, so panic("out of blocks")
\* (fs.c:77) is reached only after every block behind it has been handed
\* out; the instances stop before the first.
balloc == FreeBits # {} /\ bit' = [bit EXCEPT ![NextFree] = 1]

bmap_inode(p) ==
  LET f    == run[p].f
      slot == IF Bn(p) < NDIRECT THEN Bn(p) ELSE NDIRECT
  IN  /\ At(p, "bmap") /\ AddrMask(mem[f].addrs[slot]) = 0
      /\ balloc
      /\ mem' = [mem EXCEPT ![f].addrs[slot] = AddrMask(NextFree)]
      /\ UNCHANGED <<dino, blk, mk, run, stuck, left, ghosts, panicked>>

bmap_indirect(p) ==
  LET f == run[p].f
  IN  /\ At(p, "bmap") /\ Bn(p) >= NDIRECT /\ Root(f) # 0 /\ ~Hangs(Root(f))
      /\ BlockOf(f, Bn(p)) = 0
      /\ balloc
      /\ run' = [run EXCEPT ![p].pc = "link", ![p].new = AddrMask(NextFree)]
      /\ UNCHANGED <<dino, blk, mk, mem, stuck, left, ghosts, panicked>>

bmap_link(p) ==
  /\ At(p, "link")
  /\ blk' = [blk EXCEPT ![Root(run[p].f)][Bn(p) - NDIRECT] = run[p].new]
  /\ Goto(p, "bmap")
  /\ UNCHANGED <<dino, bit, mk, mem, stuck, left, ghosts, panicked>>

\* bmap returns: the block is there.
Mapped(p) ==
  LET f == run[p].f
  IN  /\ At(p, "bmap")
      /\ Bn(p) >= NDIRECT => Root(f) # 0 /\ ~Hangs(Root(f))
      /\ BlockOf(f, Bn(p)) # 0

----------------------------------------------------------------------------
(* writei                                                                  *)

\* m = min(n - tot, BSIZE - off % BSIZE)
Piece(p) == LET r == run[p]
                m == BSIZE - (r.off % BSIZE)
            IN  IF r.end - r.off < m THEN r.end - r.off ELSE m
Copied(p, c) ==
  LET r == run[p]
      o == r.off % BSIZE
  IN  [u \in DOMAIN c |-> IF u >= o /\ u < o + Piece(p)
                          THEN r.src[r.off - r.start + (u - o) + 1] ELSE c[u]]
Advance(p) ==
  LET r == run[p]
  IN  run' = [run EXCEPT ![p].off = r.off + Piece(p),
                         ![p].pc = IF r.off + Piece(p) < r.end THEN "bmap" ELSE "iupdate"]

\* writei does not verify what it writes next to: what is damaged in the
\* block is covered by the new checksum.
TakenOver(f, n, c) ==
  [u \in Units |-> IF u \div BSIZE = n /\ <<f, n, u % BSIZE>> \in flips
                   THEN want[f][u] \cup {c[u % BSIZE]} ELSE want[f][u]]

SumInInode_OfOldBlock(f, n, c) ==
  IF n < NDIRECT /\ Checked(f)
  THEN [mem EXCEPT ![f].addrs[n] = AddrMask(@) + TAG * SumOf(blk[AddrMask(@)])] ELSE mem

SumInInode(f, n, c) ==
  IF n < NDIRECT /\ Checked(f)
  THEN [mem EXCEPT ![f].addrs[n] = AddrMask(@) + TAG * SumOf(c)] ELSE mem

\* The block is written; the checksum of a direct block changes in memory.
writei_block(p) ==
  LET f == run[p].f
      b == BlockOf(f, Bn(p))
      c == Copied(p, blk[b])
  IN  /\ run[p].op = "write" /\ Mapped(p)
      /\ blk' = [blk EXCEPT ![b] = c]
      /\ want' = [want EXCEPT ![f] = TakenOver(f, Bn(p), c)]
      /\ mem' = SumInInode(f, Bn(p), c)
      /\ flips' = {x \in flips : x[1] # f \/ x[2] # Bn(p)}
      /\ IF Checked(f) /\ Bn(p) >= NDIRECT THEN Goto(p, "sum") ELSE Advance(p)
      /\ UNCHANGED <<dino, bit, mk, stuck, left, torn, leaky, panicked>>

\* The checksum of a block behind the indirect block is written on its own.
writei_sum(p) ==
  LET f == run[p].f
      b == BlockOf(f, Bn(p))
  IN  /\ At(p, "sum") /\ ~Hangs(Root(f))
      /\ blk' = [blk EXCEPT ![Root(f)][Bn(p) - NDIRECT] = b + TAG * SumOf(blk[b])]
      /\ Advance(p)
      /\ UNCHANGED <<dino, bit, mk, mem, stuck, left, ghosts, panicked>>

writei_iupdate(p) ==
  LET r    == run[p]
      f    == r.f
      node == [mem[f] EXCEPT !.size = IF r.end > @ THEN r.end ELSE @]
  IN  /\ At(p, "iupdate")
      /\ dino' = [dino EXCEPT ![f] = node]
      /\ mem' = [mem EXCEPT ![f] = Out]
      /\ want' = [want EXCEPT ![f] =
                    [u \in Units |-> IF u >= r.start /\ u < r.end
                                     THEN {r.src[u - r.start + 1]} ELSE @[u]]]
      /\ run' = [run EXCEPT ![p] = Idle]
      /\ UNCHANGED <<blk, bit, mk, stuck, left, torn, flips, leaky, panicked>>

----------------------------------------------------------------------------
(* readi: the units are copied, then the block is verified.                *)

Fetched(p) ==
  LET c == blk[BlockOf(run[p].f, Bn(p))]
      o == run[p].off % BSIZE
  IN  run[p].got \o [i \in 1 .. Piece(p) |-> c[o + i - 1]]

Answer(p, r, data, st) ==
  run' = [run EXCEPT ![p] = [op |-> "answer", f |-> @.f, start |-> @.start, ret |-> r,
                             got |-> data, stale |-> st]]
Corrupt_return(p, st) == Answer(p, -1, <<>>, st)
Go_on(p, st) ==
  IF run[p].off + Piece(p) = run[p].end
  THEN Answer(p, run[p].end - run[p].start, Fetched(p), st)
  ELSE run' = [run EXCEPT ![p].off = @ + Piece(p), ![p].stale = st, ![p].got = Fetched(p)]

SumWrong_DirectOnly(f, n) ==
  Checked(f) /\ n < NDIRECT /\ SumTag(Entry(f, n)) # SumOf(blk[BlockOf(f, n)])

SumWrong(f, n) == Checked(f) /\ SumTag(Entry(f, n)) # SumOf(blk[BlockOf(f, n)])

\* readi looks into the indirect block after releasing it (fs.c:483): once
\* other processes have recycled the buffer the comparison says anything.
Recycled(p) ==
  /\ Checked(run[p].f) /\ Bn(p) >= NDIRECT
  /\ \E q \in Procs \ {p} : run[q].op # "idle"

readi_block(p) ==
  LET wrong == SumWrong(run[p].f, Bn(p))
  IN  /\ run[p].op = "read" /\ Mapped(p)
      /\ \/ wrong /\ Corrupt_return(p, run[p].stale)
         \/ ~wrong /\ Go_on(p, run[p].stale)
         \/ Recycled(p) /\ (Corrupt_return(p, TRUE) \/ Go_on(p, TRUE))
      /\ UNCHANGED <<mkvars, mem, stuck, left, ghosts, panicked>>

\* The caller has its answer and the inode is unlocked.
Done(p) ==
  /\ run[p].op \in {"answer", "stat"}
  /\ run' = [run EXCEPT ![p] = Idle]
  /\ mem' = [mem EXCEPT ![run[p].f] = IF @ = dino[run[p].f] THEN Out ELSE @]
  /\ UNCHANGED <<mkvars, stuck, left, ghosts, panicked>>

----------------------------------------------------------------------------
(* stati: the XOR of the checksums in the addresses.  The buffer of the    *)
(* indirect block (block 0 when there is none) is not released.            *)

stati_sum(f) ==
  LET node == ip(f)
      ind  == blk[AddrMask(node.addrs[NDIRECT])]
  IN  Xor(SumOf([i \in 0 .. (NDIRECT - 1) |-> SumTag(node.addrs[i])]),
          SumOf([j \in 0 .. (StatBlocks - 1) |-> SumTag(ind[j])]))

stati(p, f) ==
  LET b == AddrMask(ip(f).addrs[NDIRECT])
  IN  /\ Ready(p, f) /\ left.stats > 0 /\ Linked(f) /\ ~Hangs(b)
      /\ mem' = [mem EXCEPT ![f] = ip(f)]
      /\ run' = [run EXCEPT ![p] = [op |-> "stat", f |-> f, sum |-> stati_sum(f)]]
      /\ stuck' = [stuck EXCEPT ![p] = @ \cup {b}]
      /\ left' = [left EXCEPT !.ops = @ - 1, !.stats = @ - 1]
      /\ UNCHANGED <<mkvars, ghosts, panicked>>

----------------------------------------------------------------------------
(* itrunc and the end of iput.  The addresses are taken as they are: with  *)
(* a checksum in it, an address is past the end of every disk, and what    *)
(* the failed reads of bfree find in the buffers decides what happens.     *)

bfree_BitKept(a) ==
  IF a >= TAG
  THEN panicked' \in {"no", "tagged address"} /\ leaky' = TRUE /\ UNCHANGED <<blk, bit>>
  ELSE /\ blk' = [blk EXCEPT ![a] = ZeroBlock]
       /\ UNCHANGED <<bit, panicked, leaky>>

\* bzero clears the block, then its bit is cleared: the only place where the
\* contents of a block are zeroed, as neither balloc nor bmap does it.
bfree(a) ==
  IF a >= TAG
  THEN panicked' \in {"no", "tagged address"} /\ leaky' = TRUE /\ UNCHANGED <<blk, bit>>
  ELSE /\ blk' = [blk EXCEPT ![a] = ZeroBlock]
       /\ bit' = [bit EXCEPT ![a] = 0]
       /\ panicked' = IF bit[a] = 0 THEN "freeing free block" ELSE "no"
       /\ UNCHANGED leaky

In(p, c)   == run[p].op = "itrunc" /\ run[p].pc = c
Step(p, c) == run' = [run EXCEPT ![p].pc = c, ![p].j = 0]
Loop(p)    == run' = [run EXCEPT ![p].j = @ + 1]
quiet      == <<blk, bit, panicked, leaky>>

itrunc_direct(p) ==
  LET f == run[p].f
      j == run[p].j
      a == mem[f].addrs[j]
  IN  /\ In(p, "direct")
      /\ IF j = NDIRECT
         THEN Step(p, IF a = 0 THEN "iupdate" ELSE "indirect") /\ UNCHANGED <<mem, quiet>>
         ELSE /\ Loop(p) /\ mem' = [mem EXCEPT ![f].addrs[j] = 0]
              /\ IF a = 0 THEN UNCHANGED quiet ELSE bfree(a)
      /\ UNCHANGED <<dino, mk, stuck, left, want, torn, flips>>

\* The entries of the indirect block, whose buffer is held meanwhile, and
\* then the block itself.
itrunc_indirect(p) ==
  LET f == run[p].f
      j == run[p].j
      a == mem[f].addrs[NDIRECT]
  IN  /\ In(p, "indirect") /\ ~Hangs(a)
      /\ IF j = NINDIRECT
         THEN /\ bfree(a) /\ mem' = [mem EXCEPT ![f].addrs[NDIRECT] = 0]
              /\ Step(p, "iupdate")
         ELSE /\ IF blk[a][j] = 0 THEN UNCHANGED quiet ELSE bfree(blk[a][j])
              /\ Loop(p) /\ UNCHANGED mem
      /\ UNCHANGED <<dino, mk, stuck, left, want, torn, flips>>

itrunc_iupdate(p) ==
  LET f == run[p].f
  IN  /\ In(p, "iupdate")
      /\ mem' = [mem EXCEPT ![f].size = 0]
      /\ dino' = [dino EXCEPT ![f] = mem'[f]]
      /\ Step(p, "free")
      /\ UNCHANGED <<mk, stuck, left, want, torn, flips, quiet>>

\* ip->type = 0, iupdate, ip->flags = 0
iput_free(p) ==
  LET f == run[p].f
  IN  /\ In(p, "free")
      /\ dino' = [dino EXCEPT ![f] = [mem[f] EXCEPT !.type = 0]]
      /\ mem' = [mem EXCEPT ![f] = Out]
      /\ run' = [run EXCEPT ![p] = Idle]
      /\ UNCHANGED <<mk, stuck, left, want, torn, flips, quiet>>

----------------------------------------------------------------------------
(* The world: the machine stops and boots again, a unit on the disk rots.  *)

Crash ==
  /\ mk.phase = "run" /\ left.crashes > 0
  /\ mem' = [f \in Inums |-> Out]
  /\ run' = [p \in Procs |-> Idle]
  /\ stuck' = [p \in Procs |-> {}]
  /\ left' = [left EXCEPT !.crashes = @ - 1]
  /\ torn' = torn \cup {run[p].f : p \in {q \in Procs : run[q].op = "write"}}
  /\ leaky' = TRUE
  /\ UNCHANGED <<mkvars, want, flips, panicked>>

\* Blocks the disk's copy of an inode leads to, as pairs of place and block.
Refs(node) ==
  LET root == AddrMask(node.addrs[NDIRECT])
  IN  {<<n, AddrMask(node.addrs[n])>> : n \in {i \in 0 .. NDIRECT : node.addrs[i] # 0}}
      \cup IF root = 0 THEN {}
           ELSE {<<NDIRECT + 1 + j, AddrMask(blk[root][j])>> :
                   j \in {i \in 0 .. (NINDIRECT - 1) : blk[root][i] # 0}}

\* A unit of a data block of a checked file changes on the disk (not while a
\* call is at work on the file: its blocks are in the cache).  Inodes, the
\* bitmap and indirect blocks have no checksum: the code promises nothing
\* about damage to them, and they do not rot here.
Rot(f) ==
  /\ mk.phase = "run" /\ left.rots > 0 /\ Free(f)
  /\ Linked(f) /\ dino[f].type = T_CHECKED
  /\ \E r \in Refs(dino[f]), u \in 0 .. (BSIZE - 1) :
       LET x == <<f, IF r[1] < NDIRECT THEN r[1] ELSE r[1] - 1, u>>
       IN  /\ r[1] # NDIRECT
           /\ blk' = [blk EXCEPT ![r[2]][u] = 1 - @]
           /\ flips' = IF x \in flips THEN flips \ {x} ELSE flips \cup {x}
  /\ left' = [left EXCEPT !.rots = @ - 1]
  /\ UNCHANGED <<dino, bit, mk, mem, run, stuck, want, torn, leaky, panicked>>

----------------------------------------------------------------------------
Init ==
  /\ MkInit
  /\ mem = [f \in Inums |-> Out]
  /\ run = [p \in Procs |-> Idle]
  /\ stuck = [p \in Procs |-> {}]
  /\ left = [ops |-> MaxOps, stats |-> MaxStats, crashes |-> Crashes, rots |-> Rots]
  /\ want = [f \in Inums |-> [u \in Units |-> 0 .. ninodes]]
  /\ torn = {} /\ flips = {} /\ leaky = FALSE /\ panicked = "no"

\* What mkfs copies is what the kernel is to find.
Build ==
  /\ MkNext
  /\ want' = IF mk'.freeinode # mk.freeinode /\ mk'.child # 0
             THEN [want EXCEPT ![mk'.child] =
                     [u \in Units |-> IF u < Len(mk'.call.p) THEN {mk'.call.p[u + 1]} ELSE {0}]]
             ELSE want
  /\ UNCHANGED <<mem, run, stuck, left, torn, flips, leaky, panicked>>

Work(p) ==
  \/ bmap_inode(p) \/ bmap_indirect(p) \/ bmap_link(p)
  \/ writei_block(p) \/ writei_sum(p) \/ writei_iupdate(p)
  \/ readi_block(p) \/ Done(p)
  \/ itrunc_direct(p) \/ itrunc_indirect(p) \/ itrunc_iupdate(p) \/ iput_free(p)

Next ==
  /\ panicked = "no"
  /\ \/ Build
     \/ \E p \in Procs : Work(p)
     \/ \E p \in Procs, f \in Inums :
          \/ Delete(p, f) \/ stati(p, f)
          \/ \E t \in {T_FILE, T_CHECKED} : Create(p, f, t)
          \/ \E off \in Units \cup {MAXFILE * BSIZE} :
               \/ \E s \in Payloads : Write(p, f, off, s)
               \/ \E n \in ReadLens : Read(p, f, off, n)
     \/ \E f \in Inums : Evict(f) \/ Rot(f)
     \/ Crash

Spec == Init /\ [][Next]_vars

----------------------------------------------------------------------------
(* Properties.                                                             *)

LinkedFiles  == {f \in Inums : Linked(f)}
Owned(node) ==
  LET all == UNION {{<<f, r[1], r[2]>> : r \in Refs(node[f])} : f \in LinkedFiles}
  IN  /\ \A x \in all : x[3] >= FirstData /\ bit[x[3]] = 1
      /\ \A x, y \in all : x[3] = y[3] => x = y

\* A block that a linked inode leads to, from memory or from the disk, is
\* marked in the bitmap and belongs to that place of that file alone, at
\* every moment of bmap, writei and itrunc and after a crash at any of them;
\* bfree never frees a free block.
BlocksOwned ==
  mk.phase = "run" =>
    /\ Owned(dino) /\ Owned([f \in Inums |-> ip(f)])
    /\ panicked # "freeing free block"

\* The blocks in use: those of every inode, what an itrunc has not freed yet
\* and what a bmap has just taken.
Freed(f, r) ==
  \E p \in Procs : In(p, "indirect") /\ run[p].f = f /\ r[1] - NDIRECT - 1 \in 0 .. (run[p].j - 1)
InUse ==
  UNION {{r[2] : r \in {x \in Refs(ip(f)) : ~Freed(f, x)}} : f \in Inums}
    \cup {run[p].new : p \in {q \in Procs : At(q, "link")}}

\* The bitmap is exact: nothing is lost.  Blocks are lost by a crash, by
\* deleting a file whose addresses carry checksums (fs.c:389), and by reading
\* the block that mkfs adds to a directory (mkfs.c:191), and in no other way.
NothingLost ==
  mk.phase = "run" /\ ~leaky => {b \in DOMAIN bit : bit[b] = 1 /\ b >= FirstData} = InUse

\* A read that succeeds returns what was written: what the host's file held
\* or the last write left, or, where a crash cut a write off, the old unit
\* or the new one, and no file ever gets the units of another.  Damaged units
\* of a checked file are returned only where the XOR of a block cannot show
\* them: an even number of them in the block, or the checksum was out of step
\* because a crash cut a write off.  (Comparisons with a recycled buffer are
\* left out.)
FlipsOf(f, n) == {x \in flips : x[1] = f /\ x[2] = n}
Unseen(f, n) ==
  FlipsOf(f, n) # {} /\ (f \in torn \/ Cardinality(FlipsOf(f, n)) % 2 = 0)
ReadsBack ==
  \A p \in Procs : run[p].op = "answer" /\ ~run[p].stale =>
    \A i \in 1 .. Len(run[p].got) :
      LET u == run[p].start + i - 1
      IN  run[p].got[i] \in want[run[p].f][u] \/ Unseen(run[p].f, u \div BSIZE)

\* readi says "corrupt data" (fs.c:475) only of a file with a damaged unit
\* that has not been written over since, or of one whose write a crash cut
\* off between a block and its checksum, or when it looked at a recycled
\* buffer.
Marred(f) == f \in torn \/ \E x \in flips : x[1] = f
NoFalseAlarm ==
  \A p \in Procs : run[p].op = "answer" /\ run[p].ret < 0 /\ ~run[p].stale =>
    Marred(run[p].f)

\* The checksum fstat reports is the XOR of all units of the file's blocks
\* (those past its end are 0 unless damage there has been written over), for
\* a checked file without blocks that stati overlooks.
LastUnit(f) == ((ip(f).size + BSIZE - 1) \div BSIZE) * BSIZE - 1
FileSum(f)  == SumOf([u \in 0 .. LastUnit(f) |-> blk[BlockOf(f, u \div BSIZE)][u % BSIZE]])
StatSum ==
  \A p \in Procs :
    LET f == run[p].f
    IN  /\ run[p].op = "stat" => mem[f] # Out
        /\ run[p].op = "stat" /\ Checked(f) /\ ~Marred(f)
           /\ ip(f).size <= (NDIRECT + StatBlocks) * BSIZE
             => run[p].sum = FileSum(f)

=============================================================================
