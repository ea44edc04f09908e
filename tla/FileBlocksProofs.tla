--------------------------- MODULE FileBlocksProofs ---------------------------
(***************************************************************************)
(* Proofs about FileBlocks, for any sizes of blocks, inodes and image, any *)
(* number of processes and any directory of the host.                      *)
(***************************************************************************)
EXTENDS FileBlocks, FiniteSetTheorems, WellFoundedInduction, TLAPS

\* The image has the inodes and the blocks that mkfs takes for the host's
\* files, no directory of the host fills an inode to its end, and balloc
\* takes no block behind the image.
Roomy ==
  /\ mk.freeinode <= ninodes /\ mk.freeblock <= size
  /\ \A f \in Inums : dino[f].size <= MAXFILE * BSIZE
  /\ \A b \in DOMAIN bit : bit[b] = 1 => b < size

Bits == 0 .. (bitblocks * BPB - 1)
Node == [type : Nat, nlink : Nat, size : Nat, addrs : [0 .. NDIRECT -> Nat]]

RunOK(r) ==
  /\ "op" \in DOMAIN r /\ r.op \in {"idle", "read", "write", "answer", "stat", "itrunc"}
  /\ r.op # "idle" => "f" \in DOMAIN r /\ r.f \in Inums
  /\ r.op \in {"read", "write"} =>
       /\ {"pc", "off", "end", "start", "new"} \subseteq DOMAIN r
       /\ r.pc \in {"bmap", "link", "sum", "iupdate"}
       /\ r.off \in Nat /\ r.end \in Nat /\ r.start \in Nat /\ r.new \in Nat
       /\ r.end <= MAXFILE * BSIZE
       /\ r.pc # "iupdate" => r.off < r.end
       /\ r.pc \in {"link", "sum"} => r.off \div BSIZE >= NDIRECT
       /\ r.pc \in {"sum", "iupdate"} => r.op = "write"
  /\ r.op = "itrunc" =>
       /\ {"pc", "j"} \subseteq DOMAIN r
       /\ r.pc \in {"direct", "indirect", "iupdate", "free"} /\ r.j \in Nat
       /\ r.pc = "direct" => r.j <= NDIRECT
       /\ r.pc = "indirect" => r.j <= NINDIRECT

TypeOK ==
  /\ dino \in [Inums -> Node]
  /\ mem \in [Inums -> Node \cup {Out}]
  /\ DOMAIN blk = Blocks /\ \A b \in Blocks : DOMAIN blk[b] = 0 .. (BSIZE - 1)
  /\ bit \in [Bits -> {0, 1}]
  /\ DOMAIN run = Procs /\ \A p \in Procs : RunOK(run[p])

MkOK ==
  /\ DOMAIN mk = {"phase", "freeblock", "usedblocks", "freeinode", "child", "stack", "call"}
  /\ mk.phase \in {"mkfs", "run"}
  /\ mk.freeblock \in Nat /\ mk.usedblocks = mk.freeblock /\ mk.freeblock >= FirstData
  /\ mk.freeinode \in Nat \ {0} /\ DOMAIN mk.call = {"inum", "p", "done"}
  /\ mk.call.inum \in Inums /\ mk.call.done \in Nat
  /\ \E S : mk.stack \in Seq(S) /\ \A x \in S : x.cur \in Inums
  /\ mk.child # 0 => mk.stack # <<>>
  /\ mk.phase = "mkfs" =>
       /\ \A p \in Procs : run[p].op = "idle"
       /\ \A f \in Inums : mem[f] = Out
       /\ \A b \in Bits : bit[b] = 0
       /\ \A f \in Inums, i \in 0 .. NDIRECT : dino[f].addrs[i] < mk.freeblock
       /\ \A f \in Inums, j \in 0 .. (NINDIRECT - 1) :
            dino[f].addrs[NDIRECT] # 0 => blk[dino[f].addrs[NDIRECT]][j] < mk.freeblock
  /\ mk.phase = "run" => \A b \in 0 .. (FirstData - 1) : bit[b] = 1

BusyOK ==
  /\ \A p, q \in Procs : run[p].op # "idle" /\ run[q].op # "idle" /\ run[p].f = run[q].f => p = q
  /\ \A p \in Procs : run[p].op # "idle" =>
       /\ mem[run[p].f] # Out
       /\ IF run[p].op = "itrunc"
          THEN /\ dino[run[p].f].nlink = 0
               /\ run[p].pc = "indirect" => mem[run[p].f].addrs[NDIRECT] # 0
          ELSE Linked(run[p].f)

MemOK ==
  /\ \A f \in Inums : dino[f].addrs[NDIRECT] < TAG
  /\ \A f \in Inums : mem[f] # Out =>
       /\ mem[f].addrs[NDIRECT] < TAG
       /\ mem[f].type = dino[f].type /\ mem[f].nlink = dino[f].nlink
       /\ mem[f].size = dino[f].size
       /\ Linked(f) => \A i \in 0 .. NDIRECT : dino[f].addrs[i] # 0 =>
            mem[f].addrs[i] # 0 /\ AddrMask(mem[f].addrs[i]) = AddrMask(dino[f].addrs[i])

Live(f) == 
  \/ mk.phase = "mkfs" \/ Linked(f) 
  \/ \E p \in Procs : run[p].op = "itrunc" /\ run[p].f = f
Top(f) == ip(f).addrs[NDIRECT]
Gone(f, j) == \E p \in Procs : In(p, "indirect") /\ run[p].f = f /\ j < run[p].j

InNode(f, n, b)  == 
  Live(f) /\ n \in 0 .. NDIRECT /\ ip(f).addrs[n] # 0 /\ b = AddrMask(ip(f).addrs[n])
InBlock(f, n, b) ==
  \E j \in 0 .. (NINDIRECT - 1) :
    /\ Live(f) /\ n = NDIRECT + 1 + j /\ Top(f) # 0 /\ ~Gone(f, j)
    /\ blk[Top(f)][j] # 0 /\ b = AddrMask(blk[Top(f)][j])
Pending(f, n, b) ==
  \E p \in Procs : At(p, "link") /\ run[p].f = f /\ n = Bn(p) + 1 /\ b = run[p].new
Claim(f, n, b) == InNode(f, n, b) \/ InBlock(f, n, b) \/ Pending(f, n, b)

Taken(b) == IF mk.phase = "mkfs" THEN b \in FirstData .. (mk.freeblock - 1)
            ELSE b \in Bits /\ b >= FirstData /\ bit[b] = 1

ClaimOK ==
  /\ \A f \in Inums, n \in 0 .. MAXFILE, b \in Nat : Claim(f, n, b) => Taken(b)
  /\ \A f, g \in Inums, n, m \in 0 .. MAXFILE, b \in Nat :
        Claim(f, n, b) /\ Claim(g, m, b) => f = g /\ n = m
EntryOK ==
  \A f \in Inums : Live(f) /\ Top(f) # 0 /\ Top(f) \in Blocks =>
     \A j \in 0 .. (NINDIRECT - 1) : blk[Top(f)][j] \in Nat
FreeZero == \A b \in Blocks : ~Taken(b) => blk[b] = ZeroBlock
LinkOK ==
  \A p \in Procs : run[p].op \in {"read", "write"} =>
    /\ run[p].pc \in {"link", "sum"} => Top(run[p].f) # 0
    /\ run[p].pc = "link" => blk[Top(run[p].f)][Bn(p) - NDIRECT] = 0
    /\ run[p].pc = "sum" => blk[Top(run[p].f)][Bn(p) - NDIRECT] # 0
PanicOK == panicked # "freeing free block"
OwnInv ==
  TypeOK /\ MkOK /\ BusyOK /\ MemOK /\ ClaimOK /\ EntryOK /\ FreeZero /\ LinkOK /\ PanicOK

----------------------------------------------------------------------------
(* Numbers.                                                                *)

LEMMA DivType == ASSUME NEW a \in Nat, NEW d \in Nat \ {0} PROVE a \div d \in Nat
OBVIOUS

LEMMA ModType == ASSUME NEW a \in Nat, NEW d \in Nat \ {0} PROVE a % d \in 0 .. (d - 1)
OBVIOUS

LEMMA DivMod == ASSUME NEW a \in Nat, NEW d \in Nat \ {0} PROVE a = d * (a \div d) + (a % d)
OBVIOUS

LEMMA Constants ==
  /\ BSIZE \in Nat /\ BSIZE > 0 /\ NDIRECT \in Nat /\ NINDIRECT = BSIZE
  /\ MAXFILE = NDIRECT + BSIZE /\ MAXFILE \in Nat /\ MAXFILE * BSIZE \in Nat
  /\ ninodes \in Nat /\ size \in Nat /\ TAG \in Nat /\ TAG > 0
  /\ bitblocks * BPB \in Nat /\ bitblocks * BPB <= TAG /\ size < bitblocks * BPB
  /\ FirstData \in Nat /\ FirstData > 0 /\ FirstData < size
  /\ BPB \in Nat /\ BPB <= bitblocks * BPB
  /\ ROOTINO \in Inums
<1>1. BSIZE \in Nat /\ BSIZE > 0 /\ NDIRECT \in Nat /\ NINDIRECT = BSIZE
      /\ ninodes \in Nat /\ ninodes > 1 /\ size \in Nat /\ BPB \in Nat /\ BPB > 0
      /\ IPB \in Nat /\ IPB > 0 /\ TAG \in Nat /\ bitblocks * BPB <= TAG /\ FirstData < size
  BY LayoutAssumption, FileBlocksAssumption DEF NINDIRECT
<1>2. /\ size \div BPB \in Nat
      /\ size % BPB \in 0 .. (BPB - 1)
      /\ size = BPB * (size \div BPB) + (size % BPB)
  <2>1. size \in Nat /\ BPB \in Nat \ {0}
    BY <1>1
  <2>2. size \div BPB \in Nat
    BY <2>1, DivType
  <2>3. size % BPB \in 0 .. (BPB - 1)
    BY <2>1, ModType
  <2>4. size = BPB * (size \div BPB) + (size % BPB)
    BY <2>1, DivMod
  <2> QED BY <2>2, <2>3, <2>4, Zenon
<1>3. ninodes \div IPB \in Nat
  BY <1>1, DivType
<1>4. bitblocks \in Nat /\ bitblocks > 0
  BY <1>2 DEF bitblocks
<1>5. bitblocks * BPB = BPB * (size \div BPB) + BPB
  <2>1. bitblocks = (size \div BPB) + 1
    BY DEF bitblocks
  <2>2. \A x, y \in Nat : (x + 1) * y = y * x + y
    OBVIOUS
  <2> QED BY <2>1, <2>2, <1>1, <1>2
<1>6. BPB * (size \div BPB) \in Nat
  BY <1>1, <1>2
<1>7. bitblocks * BPB \in Nat /\ size < bitblocks * BPB /\ BPB <= bitblocks * BPB
  BY <1>1, <1>2, <1>5, <1>6
<1>8. FirstData \in Nat /\ FirstData > 0
  BY <1>3, <1>4 DEF FirstData
<1>9. MAXFILE = NDIRECT + BSIZE /\ MAXFILE \in Nat
  BY <1>1 DEF MAXFILE
<1>10. MAXFILE * BSIZE \in Nat
  BY <1>1, <1>9
<1>11. ROOTINO \in Inums
  BY <1>1 DEF ROOTINO, Inums
<1> QED BY <1>1, <1>7, <1>8, <1>9, <1>10, <1>11

\* The part of it without products.
LEMMA Sizes ==
  /\ BSIZE \in Nat /\ BSIZE > 0 /\ NDIRECT \in Nat /\ NINDIRECT = BSIZE
  /\ MAXFILE = NDIRECT + BSIZE /\ MAXFILE \in Nat
  /\ ninodes \in Nat /\ size \in Nat /\ TAG \in Nat /\ TAG > 0 /\ size < TAG
  /\ FirstData \in Nat /\ FirstData > 0 /\ FirstData < size
  /\ BPB \in Nat /\ ROOTINO \in Inums
BY Constants

\* A number has one quotient and one remainder.
LEMMA DivUnique ==
  ASSUME NEW d \in Nat \ {0}, NEW q \in Nat, NEW r \in 0 .. (d - 1), NEW q2 \in Nat,
         NEW r2 \in 0 .. (d - 1), d * q + r = d * q2 + r2
  PROVE  q = q2 /\ r = r2
<1>1. \A x, y \in Nat : x < y => d * x + d <= d * y
  <2> SUFFICES ASSUME NEW x \in Nat, NEW y \in Nat, x < y PROVE d * x + d <= d * y
    OBVIOUS
  <2>1. PICK k \in Nat : y = x + 1 + k
    <3> WITNESS y - x - 1 \in Nat
    <3> QED OBVIOUS
  <2>2. d * y = d * x + d + d * k
    BY <2>1
  <2>3. d * k \in Nat /\ d * x \in Nat
    OBVIOUS
  <2> QED BY <2>2, <2>3
<1>2. d * q \in Nat /\ d * q2 \in Nat
  OBVIOUS
<1>3. CASE q < q2
  BY <1>1, <1>2, <1>3
<1>4. CASE q2 < q
  BY <1>1, <1>2, <1>4
<1> QED BY <1>3, <1>4

\* An address with a checksum: the low digits are the block's number.
LEMMA Tagged ==
  ASSUME NEW b \in 0 .. (TAG - 1), NEW s \in {0, 1}
  PROVE  /\ b + TAG * s \in Nat
         /\ AddrMask(b + TAG * s) = b /\ SumTag(b + TAG * s) = s
         /\ (s = 0 => b + TAG * s = b) /\ (s = 1 => b + TAG * s >= TAG)
<1>1. TAG \in Nat \ {0} /\ s \in Nat
  BY Sizes
<1>2. TAG * s \in Nat /\ (s = 0 => TAG * s = 0) /\ (s = 1 => TAG * s = TAG)
  BY <1>1
<1>3. b + TAG * s \in Nat
  BY <1>1, <1>2
<1> DEFINE a == b + TAG * s
<1>5. a = TAG * s + b
  BY <1>1, <1>2
<1>6. a \div TAG = s /\ a % TAG = b
  <2> DEFINE q == a \div TAG
             r == a % TAG
  <2> HIDE DEF a
  <2>1. q \in Nat /\ r \in 0 .. (TAG - 1) /\ a = TAG * q + r
    <3>1. a \in Nat /\ TAG \in Nat \ {0}
      BY <1>1, <1>3 DEF a
    <3>2. q \in Nat
      BY <3>1, DivType
    <3>3. r \in 0 .. (TAG - 1)
      BY <3>1, ModType
    <3>4. a = TAG * q + r
      BY <3>1, DivMod
    <3> QED BY <3>2, <3>3, <3>4, Zenon
  <2> HIDE DEF q, r
  <2>2. s = q /\ b = r
    <3>1. TAG * s + b = TAG * q + r
      BY <2>1, <1>5, Zenon
    <3> QED BY <3>1, <2>1, <1>1, DivUnique, Zenon
  <2> QED BY <2>2 DEF q, r
<1> QED BY <1>1, <1>2, <1>3, <1>6 DEF AddrMask, SumTag

LEMMA Untagged ==
  ASSUME NEW b \in 0 .. (TAG - 1)
  PROVE  AddrMask(b) = b /\ SumTag(b) = 0
<1>1. TAG * 0 = 0 /\ b + TAG * 0 = b
  BY Sizes
<1> QED BY <1>1, Tagged

LEMMA UntaggedNat ==
  ASSUME NEW b \in Nat, b < TAG
  PROVE  AddrMask(b) = b
<1>1. b \in 0 .. (TAG - 1)
  BY Sizes
<1> QED BY <1>1, Untagged

LEMMA MaskType ==
  ASSUME NEW a \in Nat
  PROVE  AddrMask(a) \in 0 .. (TAG - 1) /\ SumTag(a) \in Nat
<1>1. TAG \in Nat \ {0}
  BY Sizes
<1>2. a % TAG \in 0 .. (TAG - 1)
  BY <1>1, ModType, Zenon
<1>3. a \div TAG \in Nat
  BY <1>1, DivType, Zenon
<1> QED BY <1>2, <1>3, Zenon DEF AddrMask, SumTag

\* The checksum of anything is 0 or 1.
LEMMA SumType ==
  ASSUME NEW c, IsFiniteSet(DOMAIN c)
  PROVE  SumOf(c) \in {0, 1}
<1> DEFINE S == {u \in DOMAIN c : c[u] % 2 = 1}
<1>1. IsFiniteSet(S)
  BY FS_Subset
<1>2. Cardinality(S) \in Nat
  BY <1>1, FS_CardinalityType
<1>3. Cardinality(S) % 2 \in {0, 1}
  <2> HIDE DEF S
  <2> QED BY <1>2
<1> QED BY <1>3 DEF SumOf

LEMMA Fbns ==
  ASSUME NEW x \in Nat, x < MAXFILE * BSIZE
  PROVE  /\ x \div BSIZE \in 0 .. (MAXFILE - 1) /\ x % BSIZE \in 0 .. (BSIZE - 1)
         /\ x = BSIZE * (x \div BSIZE) + (x % BSIZE)
<1> DEFINE q == x \div BSIZE
           r == x % BSIZE
<1>1. BSIZE \in Nat \ {0}
  BY Sizes
<1>2. q \in Nat
  BY <1>1, DivType
<1>3. r \in 0 .. (BSIZE - 1)
  BY <1>1, ModType
<1>4. x = BSIZE * q + r
  BY <1>1, DivMod
<1> HIDE DEF q, r
<1>5. q < MAXFILE
  <2> SUFFICES ASSUME q >= MAXFILE PROVE FALSE
    BY <1>2, Sizes
  <2>1. PICK k \in Nat : q = MAXFILE + k
    <3>1. q - MAXFILE \in Nat /\ q = MAXFILE + (q - MAXFILE)
      BY <1>2, Sizes
    <3> QED BY <3>1
  <2>2. BSIZE * q = MAXFILE * BSIZE + BSIZE * k
    BY <2>1, Sizes
  <2>3. BSIZE * k \in Nat
    BY Sizes
  <2> QED BY <1>3, <1>4, <2>2, <2>3, Sizes
<1>6. q \in 0 .. (MAXFILE - 1)
  BY <1>2, <1>5, Sizes
<1> QED BY <1>3, <1>4, <1>6 DEF q, r

----------------------------------------------------------------------------
(* What the invariant says of one inode and one block.                     *)

LEMMA OutIsNoNode == Out \notin Node
BY DEF Out, Node

LEMMA IpIsNode ==
  ASSUME TypeOK, NEW f \in Inums
  PROVE  /\ dino[f] \in Node /\ ip(f) \in Node
         /\ mem[f] # Out => mem[f] \in Node
BY DEF TypeOK, ip

LEMMA TopType ==
  ASSUME TypeOK, MemOK, NEW f \in Inums
  PROVE  /\ Top(f) \in Nat /\ Top(f) < TAG /\ AddrMask(Top(f)) = Top(f)
         /\ ip(f).addrs \in [0 .. NDIRECT -> Nat]
<1>1. ip(f) \in Node
  BY IpIsNode
<1>2. ip(f).addrs \in [0 .. NDIRECT -> Nat]
  BY <1>1 DEF Node
<1>3. Top(f) \in Nat
  BY <1>2, Sizes DEF Top
<1>4. Top(f) < TAG
  BY DEF MemOK, Top, ip
<1> QED BY <1>2, <1>3, <1>4, Untagged, Sizes

LEMMA TopMask == TypeOK /\ MemOK => \A f \in Inums : AddrMask(Top(f)) = Top(f)
BY TopType

LEMMA TopMaskNext == TypeOK' /\ MemOK' => \A f \in Inums : AddrMask(Top(f)') = Top(f)'
<1>1. (TypeOK /\ MemOK => \A f \in Inums : AddrMask(Top(f)) = Top(f))'
  BY TopMask, PTL
<1> QED BY <1>1

LEMMA TopClaim ==
  ASSUME TypeOK, MemOK, NEW f \in Inums, Live(f), Top(f) # 0
  PROVE  Claim(f, NDIRECT, Top(f))
BY TopType, Sizes DEF Claim, InNode, Top

LEMMA TakenType ==
  ASSUME TypeOK, MkOK, NEW b, Taken(b)
  PROVE  b \in Nat /\ b >= FirstData /\ b > 0
BY Sizes DEF Taken, MkOK, Bits

\* The block of a claim is a block of the image, and no other has it.
LEMMA ClaimBlock ==
  ASSUME TypeOK, MkOK, ClaimOK, Roomy, mk.phase = "run", NEW f \in Inums, NEW n \in 0 .. MAXFILE,
         NEW b \in Nat, Claim(f, n, b)
  PROVE  b \in Blocks /\ b \in Bits /\ b >= FirstData /\ bit[b] = 1 /\ b < TAG
<1>1. Taken(b)
  BY DEF ClaimOK
<1>2. b \in Bits /\ b >= FirstData /\ bit[b] = 1
  BY <1>1 DEF Taken
<1>3. b < size
  BY <1>2 DEF Roomy, TypeOK
<1> QED BY <1>2, <1>3, Sizes DEF Blocks, Bits

\* No indirect block has the number of a block of data.
LEMMA NotTheTop ==
  ASSUME TypeOK, MkOK, MemOK, ClaimOK, NEW f \in Inums, NEW n \in 0 .. MAXFILE,
         NEW b \in Nat, Claim(f, n, b), n # NDIRECT,
         NEW g \in Inums, Live(g), Top(g) # 0
  PROVE  Top(g) # b
<1>1. Claim(g, NDIRECT, Top(g)) /\ Top(g) \in Nat
  BY TopClaim, TopType
<1>2. NDIRECT \in 0 .. MAXFILE
  BY Sizes
<1> QED BY <1>1, <1>2 DEF ClaimOK

----------------------------------------------------------------------------
(* Steps that take no block: what the inode leads to afterwards, it has    *)
(* led to before.                                                          *)

Smaller(f) ==
  /\ \A i \in 0 .. NDIRECT : Live(f)' /\ ip(f)'.addrs[i] # 0 =>
       Live(f) /\ ip(f).addrs[i] # 0 /\ AddrMask(ip(f)'.addrs[i]) = AddrMask(ip(f).addrs[i])
  /\ \A j \in 0 .. (NINDIRECT - 1) :
       Live(f)' /\ Top(f)' # 0 /\ ~Gone(f, j)' /\ blk'[Top(f)'][j] # 0 =>
         /\ Live(f) /\ Top(f) # 0 /\ ~Gone(f, j) /\ blk[Top(f)][j] # 0
         /\ AddrMask(blk'[Top(f)'][j]) = AddrMask(blk[Top(f)][j])

LEMMA SmallerClaim ==
  ASSUME NEW f \in Inums, Smaller(f), NEW n, NEW b
  PROVE  /\ InNode(f, n, b)' => InNode(f, n, b)
         /\ InBlock(f, n, b)' => InBlock(f, n, b)
<1>1. InNode(f, n, b)' => InNode(f, n, b)
  BY DEF Smaller, InNode
<1>2. InBlock(f, n, b)' => InBlock(f, n, b)
  BY DEF Smaller, InBlock
<1> QED BY <1>1, <1>2

LEMMA ClaimsKept ==
  ASSUME ClaimOK,
         \A f \in Inums, n \in 0 .. MAXFILE, b \in Nat :
            Claim(f, n, b)' => Claim(f, n, b) /\ (Taken(b) => Taken(b)')
  PROVE  ClaimOK'
BY DEF ClaimOK

LEMMA ClaimsAdded ==
  ASSUME ClaimOK, NEW g \in Inums, NEW m \in 0 .. MAXFILE, NEW c \in Nat, ~Taken(c), Taken(c)',
         \A f \in Inums, n \in 0 .. MAXFILE, b \in Nat :
            Claim(f, n, b)' => (Claim(f, n, b) /\ (Taken(b) => Taken(b)'))
                                 \/ (f = g /\ n = m /\ b = c)
  PROVE  ClaimOK'
<1>1. ASSUME NEW f \in Inums, NEW n \in 0 .. MAXFILE, NEW b \in Nat, Claim(f, n, b)'
      PROVE  Taken(b)' /\ (Claim(f, n, b) \/ (f = g /\ n = m /\ b = c))
  BY <1>1 DEF ClaimOK
<1>2. ASSUME NEW f \in Inums, NEW n \in 0 .. MAXFILE, Claim(f, n, c)
      PROVE  FALSE
  BY <1>2 DEF ClaimOK
<1>3. ASSUME NEW f \in Inums, NEW h \in Inums, NEW n \in 0 .. MAXFILE, NEW k \in 0 .. MAXFILE,
             NEW b \in Nat, Claim(f, n, b)', Claim(h, k, b)'
      PROVE  f = h /\ n = k
  <2>1. (Claim(f, n, b) \/ (f = g /\ n = m /\ b = c)) /\ (Claim(h, k, b) \/ (h = g /\ k = m /\ b = c))
    BY <1>1, <1>3
  <2>2. CASE b = c
    BY <1>2, <2>1, <2>2
  <2>3. CASE b # c
    BY <2>1, <2>3 DEF ClaimOK
  <2> QED BY <2>2, <2>3
<1> QED BY <1>1, <1>3 DEF ClaimOK

\* A step that leaves the disk's blocks and the bitmap alone.
LEMMA QuietClaims ==
  ASSUME OwnInv, TypeOK', MemOK', blk' = blk, bit' = bit, mk' = mk,
         \A f \in Inums : Smaller(f),
         \A f \in Inums : \A n, b : Pending(f, n, b)' => Pending(f, n, b)
  PROVE  ClaimOK' /\ EntryOK' /\ FreeZero'
<1>1. \A b : Taken(b)' <=> Taken(b)
  BY DEF Taken
<1>2. ClaimOK'
  <2>1. ASSUME NEW f \in Inums, NEW n \in 0 .. MAXFILE, NEW b \in Nat, Claim(f, n, b)'
        PROVE  Claim(f, n, b)
    BY <2>1, SmallerClaim DEF Claim
  <2> QED BY <2>1, <1>1, ClaimsKept DEF OwnInv
<1>3. EntryOK'
  <2> SUFFICES ASSUME NEW f \in Inums, Live(f)', Top(f)' # 0, Top(f)' \in Blocks,
                      NEW j \in 0 .. (NINDIRECT - 1)
               PROVE  blk'[Top(f)'][j] \in Nat
    BY DEF EntryOK
  <2>1. Live(f) /\ ip(f).addrs[NDIRECT] # 0
        /\ AddrMask(ip(f)'.addrs[NDIRECT]) = AddrMask(ip(f).addrs[NDIRECT])
    BY Sizes DEF Smaller, Top
  <2>2. AddrMask(Top(f)') = Top(f)' /\ AddrMask(Top(f)) = Top(f)
    BY TopMask, TopMaskNext DEF OwnInv
  <2> QED BY <2>1, <2>2 DEF Top, EntryOK, OwnInv
<1>4. FreeZero'
  BY <1>1 DEF FreeZero, OwnInv
<1> QED BY <1>2, <1>3, <1>4

----------------------------------------------------------------------------
(* The beginning and the end of calls.                                     *)

\* A step of one process that is not truncating and does not wait to link a
\* block, before or after, and that leaves the inodes' addresses alone.
LEMMA CallStep ==
  ASSUME OwnInv, TypeOK', MemOK', blk' = blk, bit' = bit, mk' = mk, NEW p \in Procs,
         \A q \in Procs \ {p} : run'[q] = run[q],
         run[p].op # "itrunc", run'[p].op # "itrunc", ~At(p, "link")',
         \A f \in Inums : Linked(f)' => Linked(f),
         \A f \in Inums : ip(f)'.addrs = ip(f).addrs
  PROVE  ClaimOK' /\ EntryOK' /\ FreeZero'
<1>1. \A f \in Inums : Live(f)' => Live(f)
  BY DEF Live
<1>2. \A f \in Inums : \A j : Gone(f, j)' <=> Gone(f, j)
  BY DEF Gone, In
<1>3. \A f \in Inums : Top(f)' = Top(f)
  BY DEF Top
<1>4. \A f \in Inums : Smaller(f)
  BY <1>1, <1>2, <1>3 DEF Smaller
<1>5. ASSUME NEW f \in Inums, NEW n, NEW b, Pending(f, n, b)' PROVE Pending(f, n, b)
  BY <1>5 DEF Pending, At, Bn
<1> QED BY <1>4, <1>5, QuietClaims

LEMMA StartKeeps ==
  ASSUME OwnInv, NEW p \in Procs, NEW f \in Inums, NEW r, RunOK(r),
         r.op \in {"read", "write", "stat"}, r.f = f, r.op # "stat" => r.pc \notin {"link", "sum"},
         mk.phase = "run", run[p].op = "idle", Free(f), Linked(f),
         run' = [run EXCEPT ![p] = r], mem' = [mem EXCEPT ![f] = ip(f)],
         UNCHANGED <<dino, blk, bit, mk, panicked>>
  PROVE  OwnInv'
<1>5. run'[p] = r /\ \A q \in Procs \ {p} : run'[q] = run[q]
  BY DEF OwnInv, TypeOK
<1>6. mem'[f] = ip(f) /\ \A g \in Inums \ {f} : mem'[g] = mem[g]
  BY DEF OwnInv, TypeOK
<1>7. ip(f) \in Node
  BY IpIsNode DEF OwnInv
<1>8. TypeOK'
  BY <1>5, <1>6, <1>7 DEF OwnInv, TypeOK
<1>9. MkOK'
  BY DEF OwnInv, MkOK
<1>10. BusyOK'
  BY <1>5, <1>6, <1>7, OutIsNoNode DEF OwnInv, BusyOK, Free, Linked
<1>11. MemOK'
  BY <1>6 DEF OwnInv, MemOK, ip, Linked
<1>12. \A g \in Inums : ip(g)' = ip(g)
  BY <1>6 DEF ip
<1>13. ClaimOK' /\ EntryOK' /\ FreeZero'
  BY <1>5, <1>8, <1>11, <1>12, CallStep DEF At, Linked
<1>14. LinkOK'
  BY <1>5, <1>12 DEF OwnInv, LinkOK, Top, Bn, TypeOK, RunOK
<1> QED BY <1>8, <1>9, <1>10, <1>11, <1>13, <1>14 DEF OwnInv, PanicOK

LEMMA WriteKeeps ==
  ASSUME OwnInv, Roomy, NEW p \in Procs, NEW f \in Inums, NEW o \in Units \cup {MAXFILE * BSIZE},
         NEW s \in Payloads, Write(p, f, o, s)
  PROVE  OwnInv'
<1> DEFINE n == IF o + Len(s) > MAXFILE * BSIZE THEN MAXFILE * BSIZE - o ELSE Len(s)
           r == [op |-> "write", pc |-> IF n > 0 THEN "bmap" ELSE "iupdate", f |-> f,
                 off |-> o, end |-> o + n, src |-> s, start |-> o, new |-> 0]
<1>1. o \in Nat /\ o <= MAXFILE * BSIZE /\ Len(s) \in Nat
  <2>1. s \in Seq({0, 1})
    BY FileBlocksAssumption
  <2> QED BY <2>1, Sizes DEF Units
<1>2. n \in Nat /\ o + n <= MAXFILE * BSIZE
  BY <1>1, Sizes
<1>3. /\ run[p].op = "idle" /\ Free(f) /\ Linked(f)
      /\ run' = [run EXCEPT ![p] = r] /\ mem' = [mem EXCEPT ![f] = ip(f)]
      /\ UNCHANGED <<dino, blk, bit, mk, panicked>> /\ mk.phase = "run"
  BY DEF Write, Ready, Begin, mkvars
<1> HIDE DEF n
<1>4. RunOK(r)
  BY <1>1, <1>2 DEF RunOK
<1> QED BY <1>3, <1>4, StartKeeps

LEMMA ReadKeeps ==
  ASSUME OwnInv, Roomy, NEW p \in Procs, NEW f \in Inums, NEW o \in Units \cup {MAXFILE * BSIZE},
         NEW len \in ReadLens, Read(p, f, o, len)
  PROVE  OwnInv'
<1> DEFINE n == IF o + len > ip(f).size THEN ip(f).size - o ELSE len
           r == [op |-> "read", pc |-> "bmap", f |-> f, off |-> o, end |-> o + n,
                 got |-> <<>>, start |-> o, new |-> 0, stale |-> FALSE]
<1>1. o \in Nat /\ len \in Nat
  BY FileBlocksAssumption, Sizes DEF Units
<1>2. ip(f).size \in Nat /\ ip(f).size <= MAXFILE * BSIZE
  BY IpIsNode DEF OwnInv, MemOK, Roomy, ip, Node
<1>3. /\ run[p].op = "idle" /\ Free(f) /\ Linked(f) /\ o <= ip(f).size /\ n > 0
      /\ run' = [run EXCEPT ![p] = r] /\ mem' = [mem EXCEPT ![f] = ip(f)]
      /\ UNCHANGED <<dino, blk, bit, mk, panicked>> /\ mk.phase = "run"
  BY DEF Read, Ready, Begin, mkvars
<1>4. n \in Nat /\ o + n <= MAXFILE * BSIZE
  BY <1>1, <1>2, <1>3, Sizes
<1> HIDE DEF n
<1>5. RunOK(r)
  BY <1>1, <1>3, <1>4 DEF RunOK
<1> QED BY <1>3, <1>5, StartKeeps

LEMMA StatKeeps ==
  ASSUME OwnInv, NEW p \in Procs, NEW f \in Inums, stati(p, f)
  PROVE  OwnInv'
<1> DEFINE r == [op |-> "stat", f |-> f, sum |-> stati_sum(f)]
<1>1. RunOK(r)
  BY DEF RunOK
<1>2. /\ run[p].op = "idle" /\ Free(f) /\ Linked(f)
      /\ run' = [run EXCEPT ![p] = r] /\ mem' = [mem EXCEPT ![f] = ip(f)]
      /\ UNCHANGED <<dino, blk, bit, mk, panicked>> /\ mk.phase = "run"
  BY DEF stati, Ready, mkvars
<1> QED BY <1>1, <1>2, StartKeeps

\* A step of readi: the process goes on or has its answer.
LEMMA ReadStepKeeps ==
  ASSUME OwnInv, NEW p \in Procs, NEW r, RunOK(r), run[p].op = "read", run[p].pc = "bmap",
         r.f = run[p].f, r.op = "answer" \/ (r.op = "read" /\ r.pc = "bmap"),
         run' = [run EXCEPT ![p] = r], UNCHANGED <<dino, mem, blk, bit, mk, panicked>>
  PROVE  OwnInv'
<1>5. run'[p] = r /\ \A q \in Procs \ {p} : run'[q] = run[q]
  BY DEF OwnInv, TypeOK
<1>8. TypeOK'
  BY <1>5 DEF OwnInv, TypeOK
<1>9. MkOK'
  BY <1>5 DEF OwnInv, MkOK
<1>10. BusyOK'
  BY <1>5 DEF OwnInv, BusyOK, Linked
<1>11. MemOK'
  BY DEF OwnInv, MemOK, ip, Linked
<1>12. \A g \in Inums : ip(g)' = ip(g)
  BY DEF ip
<1>13. ClaimOK' /\ EntryOK' /\ FreeZero'
  BY <1>5, <1>8, <1>11, <1>12, CallStep DEF At, Linked
<1>14. LinkOK'
  BY <1>5, <1>12 DEF OwnInv, LinkOK, Top, Bn, TypeOK, RunOK
<1> QED BY <1>8, <1>9, <1>10, <1>11, <1>13, <1>14 DEF OwnInv, PanicOK

\* What readi and writei copy of one block is not empty and does not go past
\* the end.
LEMMA PieceType ==
  ASSUME NEW p \in Procs, RunOK(run[p]), run[p].op \in {"read", "write"}, run[p].pc # "iupdate"
  PROVE  /\ Piece(p) \in Nat \ {0} /\ run[p].off + Piece(p) <= run[p].end
         /\ (run[p].off % BSIZE) \in 0 .. (BSIZE - 1)
         /\ (run[p].off % BSIZE) + Piece(p) <= BSIZE
         /\ Bn(p) \in 0 .. (MAXFILE - 1)
<1>1. run[p].off \in Nat /\ run[p].end \in Nat /\ run[p].off < run[p].end
      /\ run[p].off < MAXFILE * BSIZE
  BY Sizes DEF RunOK
<1>2. run[p].off % BSIZE \in 0 .. (BSIZE - 1) /\ run[p].off \div BSIZE \in 0 .. (MAXFILE - 1)
  BY <1>1, Fbns
<1> DEFINE o == run[p].off % BSIZE
<1>3. Piece(p) = IF run[p].end - run[p].off < BSIZE - o THEN run[p].end - run[p].off ELSE BSIZE - o
  BY DEF Piece
<1>4. o \in 0 .. (BSIZE - 1)
  BY <1>2
<1> HIDE DEF o
<1>5. Piece(p) \in Nat \ {0} /\ run[p].off + Piece(p) <= run[p].end /\ o + Piece(p) <= BSIZE
  BY <1>1, <1>3, <1>4, Sizes
<1> QED BY <1>2, <1>5 DEF o, Bn

LEMMA ReadBlockKeeps ==
  ASSUME OwnInv, NEW p \in Procs, readi_block(p)
  PROVE  OwnInv'
<1>1. /\ run[p].op = "read" /\ run[p].pc = "bmap" /\ UNCHANGED <<dino, mem, blk, bit, mk, panicked>>
      /\ \E st : Corrupt_return(p, st) \/ Go_on(p, st)
  BY DEF readi_block, Mapped, At, mkvars
<1>2. RunOK(run[p]) /\ DOMAIN run = Procs
  BY DEF OwnInv, TypeOK
<1>3. ASSUME NEW ret, NEW data, NEW st, Answer(p, ret, data, st)
      PROVE  OwnInv'
  <2> DEFINE r == [op |-> "answer", f |-> run[p].f, start |-> run[p].start, ret |-> ret,
                   got |-> data, stale |-> st]
  <2>1. run' = [run EXCEPT ![p] = r]
    BY <1>3 DEF Answer
  <2>2. RunOK(r)
    BY <1>1, <1>2 DEF RunOK
  <2> QED BY <1>1, <2>1, <2>2, ReadStepKeeps
<1>4. PICK st : Corrupt_return(p, st) \/ Go_on(p, st)
  BY <1>1
<1>5. CASE Corrupt_return(p, st)
  BY <1>3, <1>5 DEF Corrupt_return
<1>6. CASE Go_on(p, st)
  <2>1. CASE run[p].off + Piece(p) = run[p].end
    BY <1>3, <1>6, <2>1 DEF Go_on
  <2>2. CASE run[p].off + Piece(p) # run[p].end
    <3> DEFINE r == [run[p] EXCEPT !.off = run[p].off + Piece(p), !.stale = st, !.got = Fetched(p)]
    <3>1. run' = [run EXCEPT ![p] = r]
      BY <1>6, <2>2 DEF Go_on
    <3>2. /\ DOMAIN r = DOMAIN run[p] /\ r.op = "read" /\ r.pc = "bmap" /\ r.f = run[p].f
          /\ r.end = run[p].end /\ r.start = run[p].start /\ r.new = run[p].new
          /\ r.off = run[p].off + Piece(p)
      BY <1>1, <1>2 DEF RunOK
    <3>3. Piece(p) \in Nat \ {0} /\ run[p].off + Piece(p) <= run[p].end
      BY <1>1, <1>2, PieceType
    <3>4. RunOK(r)
      BY <1>1, <1>2, <2>2, <3>2, <3>3 DEF RunOK
    <3> QED BY <1>1, <3>1, <3>2, <3>4, ReadStepKeeps
  <2> QED BY <2>1, <2>2
<1> QED BY <1>4, <1>5, <1>6

----------------------------------------------------------------------------
(* The end of a call, and inodes that come and go.                         *)

LEMMA DoneKeeps ==
  ASSUME OwnInv, NEW p \in Procs, Done(p)
  PROVE  OwnInv'
<1> DEFINE f == run[p].f
<1>1. RunOK(run[p]) /\ DOMAIN run = Procs /\ f \in Inums
  BY DEF OwnInv, TypeOK, RunOK, Done
<1>2. /\ run[p].op \in {"answer", "stat"} /\ run' = [run EXCEPT ![p] = Idle]
      /\ mem' = [mem EXCEPT ![f] = IF mem[f] = dino[f] THEN Out ELSE mem[f]]
      /\ UNCHANGED <<dino, blk, bit, mk, panicked>>
  BY DEF Done, mkvars
<1>3. RunOK(Idle)
  BY DEF RunOK, Idle
<1> HIDE DEF f
<1>5. run'[p].op = "idle" /\ run'[p] = Idle /\ \A q \in Procs \ {p} : run'[q] = run[q]
  BY <1>1, <1>2 DEF Idle
<1>6. /\ mem'[f] = IF mem[f] = dino[f] THEN Out ELSE mem[f]
      /\ \A g \in Inums \ {f} : mem'[g] = mem[g]
  BY <1>1, <1>2 DEF OwnInv, TypeOK
<1>8. TypeOK'
  BY <1>2, <1>3, <1>5, <1>6 DEF OwnInv, TypeOK
<1>9. MkOK'
  BY <1>2, <1>5, <1>6 DEF OwnInv, MkOK
<1>10. BusyOK'
  BY <1>1, <1>2, <1>5, <1>6 DEF OwnInv, BusyOK, Linked, f
<1>11. MemOK'
  BY <1>2, <1>6 DEF OwnInv, MemOK, Linked
<1>12. \A g \in Inums : ip(g)' = ip(g)
  BY <1>2, <1>6 DEF ip
<1>13. ClaimOK' /\ EntryOK' /\ FreeZero'
  BY <1>2, <1>5, <1>8, <1>11, <1>12, CallStep DEF At, Linked
<1>14. LinkOK'
  BY <1>2, <1>5, <1>12 DEF OwnInv, LinkOK, Top, Bn, TypeOK, RunOK
<1> QED BY <1>2, <1>8, <1>9, <1>10, <1>11, <1>13, <1>14 DEF OwnInv, PanicOK

LEMMA IupdateKeeps ==
  ASSUME OwnInv, NEW p \in Procs, writei_iupdate(p)
  PROVE  OwnInv'
<1> DEFINE f == run[p].f
           node == [mem[f] EXCEPT !.size = IF run[p].end > @ THEN run[p].end ELSE @]
<1>1. RunOK(run[p]) /\ DOMAIN run = Procs /\ f \in Inums /\ run[p].end \in Nat
  BY DEF OwnInv, TypeOK, RunOK, writei_iupdate, At
<1>2. /\ run[p].op = "write" /\ run' = [run EXCEPT ![p] = Idle]
      /\ dino' = [dino EXCEPT ![f] = node] /\ mem' = [mem EXCEPT ![f] = Out]
      /\ UNCHANGED <<blk, bit, mk, panicked>>
  BY <1>1 DEF writei_iupdate, At, RunOK
<1>3. RunOK(Idle)
  BY DEF RunOK, Idle
<1>4. mem[f] \in Node /\ mem[f] # Out /\ Linked(f)
  BY <1>1, <1>2, IpIsNode DEF OwnInv, BusyOK
<1>5. run'[p].op = "idle" /\ run'[p] = Idle /\ \A q \in Procs \ {p} : run'[q] = run[q]
  BY <1>1, <1>2 DEF Idle
<1>6. mem'[f] = Out /\ \A g \in Inums \ {f} : mem'[g] = mem[g] /\ dino'[g] = dino[g]
  BY <1>1, <1>2 DEF OwnInv, TypeOK
<1>7. /\ dino'[f] \in Node /\ dino'[f].addrs = mem[f].addrs
      /\ dino'[f].type = mem[f].type /\ dino'[f].nlink = mem[f].nlink
  BY <1>1, <1>2, <1>4 DEF OwnInv, TypeOK, Node
<1> HIDE DEF f, node
<1>8. TypeOK'
  BY <1>2, <1>3, <1>5, <1>6, <1>7 DEF OwnInv, TypeOK
<1>9. MkOK'
  BY <1>2, <1>5, <1>6 DEF OwnInv, MkOK
<1>L. \A g \in Inums : Linked(g)' <=> Linked(g)
  BY <1>1, <1>4, <1>6, <1>7 DEF OwnInv, MemOK, Linked
<1>10. BusyOK'
  <2>1. \A q \in Procs : run[q].op # "idle" => run[q].f \in Inums
    BY DEF OwnInv, TypeOK, RunOK
  <2>2. \A q \in Procs \ {p} : run[q].op # "idle" => run[q].f # f
    BY <1>2 DEF OwnInv, BusyOK, f
  <2> QED BY <1>5, <1>6, <1>L, <2>1, <2>2 DEF OwnInv, BusyOK
<1>11. MemOK'
  BY <1>2, <1>4, <1>6, <1>7, <1>L DEF OwnInv, MemOK
<1>12. \A g \in Inums : ip(g)'.addrs = ip(g).addrs
  BY <1>2, <1>4, <1>6, <1>7 DEF ip
<1>13. ClaimOK' /\ EntryOK' /\ FreeZero'
  BY <1>2, <1>5, <1>8, <1>11, <1>12, <1>L, CallStep DEF At
<1>14. LinkOK'
  BY <1>2, <1>5, <1>12 DEF OwnInv, LinkOK, Top, Bn, TypeOK, RunOK
<1> QED BY <1>2, <1>8, <1>9, <1>10, <1>11, <1>13, <1>14 DEF OwnInv, PanicOK

\* The memory is forgotten: what the disk has is what it had.
LEMMA ForgetSmaller ==
  ASSUME OwnInv, NEW f \in Inums, Live(f)' => Linked(f), dino' = dino, blk' = blk,
         mem'[f] = Out \/ mem'[f] = mem[f], \A j : Gone(f, j)' <=> Gone(f, j),
         mem'[f] = Out => \A j : ~Gone(f, j)
  PROVE  Smaller(f)
<1>1. CASE mem'[f] = mem[f]
  BY <1>1 DEF Smaller, Live, Top, ip
<1>2. CASE mem'[f] = Out
  <2>1. ip(f)' = dino[f]
    BY <1>2 DEF ip
  <2>2. ASSUME NEW i \in 0 .. NDIRECT, Live(f)', dino[f].addrs[i] # 0
        PROVE  Live(f) /\ ip(f).addrs[i] # 0 /\ AddrMask(dino[f].addrs[i]) = AddrMask(ip(f).addrs[i])
    BY <2>2 DEF OwnInv, MemOK, ip, Live
  <2>3. AddrMask(dino[f].addrs[NDIRECT]) = dino[f].addrs[NDIRECT] /\ AddrMask(Top(f)) = Top(f)
    <3>1. dino[f].addrs[NDIRECT] \in Nat /\ dino[f].addrs[NDIRECT] < TAG
      <4>1. dino[f] \in Node
        BY IpIsNode DEF OwnInv
      <4>2. dino[f].addrs \in [0 .. NDIRECT -> Nat]
        BY <4>1 DEF Node
      <4> QED BY <4>2, Sizes DEF OwnInv, MemOK
    <3> QED BY <3>1, Untagged, TopType, Sizes DEF OwnInv
  <2>4. Live(f)' /\ Top(f)' # 0 => Live(f) /\ Top(f)' = Top(f)
    BY <2>1, <2>2, <2>3, Sizes DEF Top
  <2> QED BY <1>2, <2>1, <2>2, <2>4 DEF Smaller, Top
<1> QED BY <1>1, <1>2

LEMMA EvictKeeps ==
  ASSUME OwnInv, NEW f \in Inums, Evict(f)
  PROVE  OwnInv'
<1>1. /\ mem[f] # Out /\ Free(f) /\ mem' = [mem EXCEPT ![f] = Out]
      /\ UNCHANGED <<dino, blk, bit, mk, run, panicked>>
  BY DEF Evict, mkvars
<1>2. mem'[f] = Out /\ \A g \in Inums \ {f} : mem'[g] = mem[g]
  BY <1>1 DEF OwnInv, TypeOK
<1>3. mk.phase = "run"
  BY <1>1 DEF OwnInv, MkOK
<1>4. TypeOK'
  BY <1>1, <1>2 DEF OwnInv, TypeOK
<1>5. MkOK'
  BY <1>1, <1>2 DEF OwnInv, MkOK
<1>6. BusyOK'
  BY <1>1, <1>2 DEF OwnInv, BusyOK, Linked, Free
<1>7. MemOK'
  BY <1>1, <1>2 DEF OwnInv, MemOK, Linked
<1>8. ASSUME NEW g \in Inums PROVE Smaller(g)
  <2>1. \A j : Gone(g, j)' <=> Gone(g, j)
    BY <1>1 DEF Gone, In
  <2>2. CASE g = f
    <3>1. \A j : ~Gone(g, j)
      BY <1>1, <2>2 DEF Gone, In, Free
    <3>2. Live(g)' => Linked(g)
      BY <1>1, <1>3, <2>2 DEF Live, Linked, Free
    <3> QED BY <1>1, <1>2, <2>1, <2>2, <3>1, <3>2, ForgetSmaller
  <2>3. CASE g # f
    BY <1>1, <1>2, <2>1, <2>3 DEF Smaller, Live, Top, ip, Linked
  <2> QED BY <2>2, <2>3
<1>9. \A g \in Inums : \A n, b : Pending(g, n, b)' => Pending(g, n, b)
  BY <1>1 DEF Pending, At, Bn
<1>10. ClaimOK' /\ EntryOK' /\ FreeZero'
  BY <1>1, <1>4, <1>7, <1>8, <1>9, QuietClaims
<1>11. LinkOK'
  BY <1>1, <1>2 DEF OwnInv, LinkOK, Top, Bn, Free, ip, TypeOK, RunOK
<1> QED BY <1>1, <1>4, <1>5, <1>6, <1>7, <1>10, <1>11 DEF OwnInv, PanicOK

LEMMA CrashKeeps ==
  ASSUME OwnInv, Crash
  PROVE  OwnInv'
<1>1. /\ mk.phase = "run" /\ mem' = [f \in Inums |-> Out] /\ run' = [p \in Procs |-> Idle]
      /\ UNCHANGED <<dino, blk, bit, mk, panicked>>
  BY DEF Crash, mkvars
<1>2. \A p \in Procs : run'[p].op = "idle" /\ RunOK(run'[p])
  BY <1>1 DEF RunOK, Idle
<1>3. TypeOK'
  BY <1>1, <1>2 DEF OwnInv, TypeOK
<1>4. MkOK'
  BY <1>1 DEF OwnInv, MkOK
<1>5. BusyOK' /\ LinkOK'
  BY <1>2 DEF BusyOK, LinkOK
<1>6. MemOK'
  BY <1>1 DEF OwnInv, MemOK
<1>7. ASSUME NEW g \in Inums PROVE Smaller(g)
  <2>1. \A j : ~Gone(g, j)'
    BY <1>2 DEF Gone, In
  <2>2. Live(g)' => Linked(g)
    BY <1>1, <1>2 DEF Live, Linked
  <2>3. Linked(g) => \A j : ~Gone(g, j)
    BY DEF OwnInv, BusyOK, Gone, In, Linked, TypeOK, RunOK
  <2>4. CASE Linked(g)
    BY <1>1, <2>1, <2>2, <2>3, <2>4, ForgetSmaller
  <2>5. CASE ~Linked(g)
    BY <2>2, <2>5 DEF Smaller
  <2> QED BY <2>4, <2>5
<1>8. \A g \in Inums : \A n, b : Pending(g, n, b)' => Pending(g, n, b)
  BY <1>2 DEF Pending, At
<1>9. ClaimOK' /\ EntryOK' /\ FreeZero'
  BY <1>1, <1>3, <1>6, <1>7, <1>8, QuietClaims
<1> QED BY <1>1, <1>3, <1>4, <1>5, <1>6, <1>9 DEF OwnInv, PanicOK

\* Two processes never work on one inode.
LEMMA Alone ==
  ASSUME TypeOK, BusyOK, NEW p \in Procs, run[p].op # "idle"
  PROVE  /\ run[p].f \in Inums /\ mem[run[p].f] # Out /\ mem[run[p].f] \in Node
         /\ \A q \in Procs \ {p} : run[q].op # "idle" => run[q].f \in Inums /\ run[q].f # run[p].f
<1>1. \A q \in Procs : run[q].op # "idle" => run[q].f \in Inums
  BY DEF TypeOK, RunOK
<1>2. mem[run[p].f] # Out
  BY DEF BusyOK
<1>3. mem[run[p].f] \in Node
  BY <1>1, <1>2, IpIsNode
<1> QED BY <1>1, <1>2, <1>3 DEF BusyOK

\* A step of process p on inode f, seen from another inode.
LEMMA OtherInode ==
  ASSUME NEW p \in Procs, NEW f \in Inums, NEW g \in Inums \ {f},
         dino'[g] = dino[g], mem'[g] = mem[g], mk'.phase = mk.phase,
         \A q \in Procs \ {p} : run'[q] = run[q],
         run[p].op # "idle" => run[p].f = f, run'[p].op # "idle" => run'[p].f = f,
         Live(g) /\ Top(g) # 0 => blk'[Top(g)] = blk[Top(g)]
  PROVE  /\ Smaller(g) /\ ip(g)' = ip(g) /\ Top(g)' = Top(g) /\ (Live(g)' <=> Live(g))
         /\ (Linked(g)' <=> Linked(g))
<1>1. ip(g)' = ip(g) /\ Top(g)' = Top(g) /\ (Linked(g)' <=> Linked(g))
  BY DEF ip, Top, Linked
<1>2. \A q \in Procs : run'[q].op = "itrunc" /\ run'[q].f = g <=> run[q].op = "itrunc" /\ run[q].f = g
  OBVIOUS
<1>3. Live(g)' <=> Live(g)
  BY <1>1, <1>2 DEF Live
<1>4. \A j : Gone(g, j)' <=> Gone(g, j)
  <2>1. \A q \in Procs : run'[q].op = "itrunc" /\ run'[q].f = g => run'[q] = run[q]
    OBVIOUS
  <2> QED BY <1>2, <2>1 DEF Gone, In
<1> QED BY <1>1, <1>3, <1>4 DEF Smaller

\* Other processes in bmap are not disturbed.
LEMMA LinkOthers ==
  ASSUME OwnInv, NEW p \in Procs, NEW f \in Inums, blk' = blk,
         \A q \in Procs \ {p} : run'[q] = run[q],
         \A q \in Procs \ {p} : run[q].op # "idle" => run[q].f \in Inums /\ run[q].f # f,
         \A g \in Inums \ {f} : mem'[g] = mem[g] /\ dino'[g] = dino[g],
         run'[p].op \notin {"read", "write"}
  PROVE  LinkOK'
<1> SUFFICES ASSUME NEW q \in Procs, run'[q].op \in {"read", "write"}
             PROVE  /\ run'[q].pc \in {"link", "sum"} => Top(run[q].f)' # 0
                    /\ run'[q].pc = "link" => blk'[Top(run[q].f)'][Bn(q)' - NDIRECT] = 0
                    /\ run'[q].pc = "sum" => blk'[Top(run[q].f)'][Bn(q)' - NDIRECT] # 0
                    /\ run'[q].f = run[q].f
  BY DEF LinkOK, Top, ip
<1>1. q # p /\ run'[q] = run[q] /\ run[q].f \in Inums /\ run[q].f # f
  OBVIOUS
<1>2. ip(run[q].f)' = ip(run[q].f)
  BY <1>1 DEF ip
<1> QED BY <1>1, <1>2 DEF OwnInv, LinkOK, Top, Bn

LEMMA CreateKeeps ==
  ASSUME OwnInv, NEW p \in Procs, NEW f \in Inums, NEW t \in {T_FILE, T_CHECKED}, Create(p, f, t)
  PROVE  OwnInv'
<1>1. /\ mk.phase = "run" /\ Free(f) /\ mem[f] = Out /\ dino' = [dino EXCEPT ![f] = Inode(t, 1)]
      /\ run[p].op = "idle" /\ UNCHANGED <<blk, bit, mk, mem, run, panicked>>
  BY DEF Create, Ready
<1>2. Inode(t, 1) \in Node /\ \A i \in 0 .. NDIRECT : Inode(t, 1).addrs[i] = 0
  BY DEF Inode, Node, T_FILE, T_CHECKED
<1>3. dino'[f] = Inode(t, 1) /\ \A g \in Inums \ {f} : dino'[g] = dino[g]
  BY <1>1 DEF OwnInv, TypeOK
<1>4. TypeOK'
  BY <1>1, <1>2, <1>3 DEF OwnInv, TypeOK
<1>5. MkOK'
  BY <1>1 DEF OwnInv, MkOK
<1>6. BusyOK'
  <2>1. \A q \in Procs : run[q].op # "idle" => run[q].f \in Inums /\ run[q].f # f
    BY <1>1 DEF OwnInv, TypeOK, RunOK, Free
  <2> QED BY <1>1, <1>3, <2>1 DEF OwnInv, BusyOK, Linked
<1>7. MemOK'
  BY <1>1, <1>2, <1>3, Sizes DEF OwnInv, MemOK, Linked
<1>8. ASSUME NEW g \in Inums PROVE Smaller(g)
  <2>1. CASE g = f
    <3>1. ip(g)' = Inode(t, 1)
      BY <1>1, <1>3, <2>1 DEF ip
    <3>2. Top(g)' = 0
      BY <1>2, <3>1, Sizes DEF Top
    <3> QED BY <1>2, <3>1, <3>2 DEF Smaller
  <2>2. CASE g # f
    BY <1>1, <1>3, <2>2, OtherInode
  <2> QED BY <2>1, <2>2
<1>9. \A g \in Inums : \A n, b : Pending(g, n, b)' => Pending(g, n, b)
  BY <1>1 DEF Pending, At, Bn
<1>10. ClaimOK' /\ EntryOK' /\ FreeZero'
  BY <1>1, <1>4, <1>7, <1>8, <1>9, QuietClaims
<1>11. LinkOK'
  <2>1. \A q \in Procs : run[q].op # "idle" => run[q].f \in Inums /\ run[q].f # f
    BY <1>1 DEF OwnInv, TypeOK, RunOK, Free
  <2> QED BY <1>1, <1>3, <2>1, LinkOthers
<1> QED BY <1>1, <1>4, <1>5, <1>6, <1>7, <1>10, <1>11 DEF OwnInv, PanicOK

LEMMA DeleteKeeps ==
  ASSUME OwnInv, NEW p \in Procs, NEW f \in Inums, Delete(p, f)
  PROVE  OwnInv'
<1> DEFINE node == [ip(f) EXCEPT !.nlink = 0]
           r == [op |-> "itrunc", pc |-> "direct", f |-> f, j |-> 0]
<1>1. /\ mk.phase = "run" /\ Free(f) /\ Linked(f) /\ run[p].op = "idle"
      /\ dino' = [dino EXCEPT ![f] = node] /\ mem' = [mem EXCEPT ![f] = node]
      /\ run' = [run EXCEPT ![p] = r] /\ UNCHANGED <<blk, bit, mk, panicked>>
  BY DEF Delete, Ready, Begin
<1>2. ip(f) \in Node
  BY IpIsNode DEF OwnInv
<1>3. node \in Node /\ node.addrs = ip(f).addrs /\ node.nlink = 0
  BY <1>2 DEF Node
<1>4. RunOK(r)
  BY Sizes DEF RunOK
<1> HIDE DEF node
<1>5. run'[p] = r /\ \A q \in Procs \ {p} : run'[q] = run[q]
  BY <1>1 DEF OwnInv, TypeOK
<1>6. /\ mem'[f] = node /\ dino'[f] = node
      /\ \A g \in Inums \ {f} : mem'[g] = mem[g] /\ dino'[g] = dino[g]
  BY <1>1 DEF OwnInv, TypeOK
<1>7. \A q \in Procs : run[q].op # "idle" => run[q].f \in Inums /\ run[q].f # f
  BY <1>1 DEF OwnInv, TypeOK, RunOK, Free
<1>8. TypeOK'
  BY <1>1, <1>3, <1>4, <1>5, <1>6 DEF OwnInv, TypeOK
<1>9. MkOK'
  BY <1>1 DEF OwnInv, MkOK
<1>10. BusyOK'
  BY <1>3, <1>5, <1>6, <1>7, OutIsNoNode DEF OwnInv, BusyOK, Linked
<1>11. MemOK'
  <2>1. node.addrs[NDIRECT] < TAG
    BY <1>3 DEF OwnInv, MemOK, ip
  <2> QED BY <1>3, <1>6, <2>1 DEF OwnInv, MemOK, Linked
<1>12. ASSUME NEW g \in Inums PROVE Smaller(g)
  <2>1. CASE g = f
    <3>1. Live(g) /\ ip(g)' = node
      BY <1>1, <1>3, <1>6, <2>1, OutIsNoNode DEF Live, ip
    <3>2. \A j : ~Gone(g, j)
      BY <1>7, <2>1 DEF Gone, In
    <3> QED BY <1>1, <1>3, <2>1, <3>1, <3>2 DEF Smaller, Top
  <2>2. CASE g # f
    BY <1>1, <1>5, <1>6, <2>2, OtherInode
  <2> QED BY <2>1, <2>2
<1>13. \A g \in Inums : \A n, b : Pending(g, n, b)' => Pending(g, n, b)
  BY <1>5 DEF Pending, At, Bn
<1>14. ClaimOK' /\ EntryOK' /\ FreeZero'
  BY <1>1, <1>8, <1>11, <1>12, <1>13, QuietClaims
<1>15. LinkOK'
  BY <1>1, <1>5, <1>6, <1>7, LinkOthers
<1> QED BY <1>1, <1>8, <1>9, <1>10, <1>11, <1>14, <1>15 DEF OwnInv, PanicOK

\* The last steps of iput: the inode without addresses goes to the disk.
LEMMA TruncUpdateKeeps ==
  ASSUME OwnInv, NEW p \in Procs, itrunc_iupdate(p)
  PROVE  OwnInv'
<1> DEFINE f == run[p].f
           node == [mem[f] EXCEPT !.size = 0]
           r == [run[p] EXCEPT !.pc = "free", !.j = 0]
<1>1. RunOK(run[p]) /\ DOMAIN run = Procs /\ run[p].op = "itrunc" /\ run[p].pc = "iupdate"
  BY DEF OwnInv, TypeOK, itrunc_iupdate, In
<1>2. /\ f \in Inums /\ mem[f] # Out /\ mem[f] \in Node
      /\ \A q \in Procs \ {p} : run[q].op # "idle" => run[q].f \in Inums /\ run[q].f # f
  BY <1>1, Alone DEF OwnInv
<1>3. node \in Node /\ node.addrs = mem[f].addrs /\ node.nlink = mem[f].nlink
  BY <1>2 DEF Node
<1>4. /\ dino' = [dino EXCEPT ![f] = node] /\ mem' = [mem EXCEPT ![f] = node]
      /\ run' = [run EXCEPT ![p] = r] /\ UNCHANGED <<blk, bit, mk, panicked>>
  <2>1. mem' = [mem EXCEPT ![f] = node]
    BY <1>2 DEF itrunc_iupdate, OwnInv, TypeOK
  <2>2. mem'[f] = node
    BY <1>2, <2>1 DEF OwnInv, TypeOK
  <2> QED BY <2>1, <2>2 DEF itrunc_iupdate, Step, quiet
<1>5. RunOK(r) /\ r.op = "itrunc" /\ r.pc = "free" /\ r.f = f
  BY <1>1, Sizes DEF RunOK
<1> HIDE DEF node, r, f
<1>6. run'[p] = r /\ \A q \in Procs \ {p} : run'[q] = run[q]
  BY <1>1, <1>4
<1>7. /\ mem'[f] = node /\ dino'[f] = node
      /\ \A g \in Inums \ {f} : mem'[g] = mem[g] /\ dino'[g] = dino[g]
  BY <1>2, <1>4 DEF OwnInv, TypeOK
<1>8. mem[f].nlink = 0 /\ run[p].f = f
  BY <1>1, <1>2 DEF OwnInv, BusyOK, MemOK, f
<1>9. TypeOK'
  BY <1>1, <1>3, <1>4, <1>5, <1>6, <1>7 DEF OwnInv, TypeOK
<1>10. MkOK'
  BY <1>1, <1>4 DEF OwnInv, MkOK
<1>11. BusyOK'
  BY <1>1, <1>2, <1>3, <1>5, <1>6, <1>7, <1>8, OutIsNoNode DEF OwnInv, BusyOK, Linked
<1>12. MemOK'
  BY <1>2, <1>3, <1>7, <1>8 DEF OwnInv, MemOK, Linked
<1>13. ASSUME NEW g \in Inums PROVE Smaller(g)
  <2>1. CASE g = f
    <3>1. Live(g) /\ ip(g) = mem[f] /\ ip(g)' = node
      BY <1>1, <1>2, <1>3, <1>7, <1>8, <2>1, OutIsNoNode DEF Live, ip
    <3>2. \A j : ~Gone(g, j)
      BY <1>1, <1>2, <2>1 DEF Gone, In
    <3> QED BY <1>3, <1>4, <2>1, <3>1, <3>2 DEF Smaller, Top
  <2>2. CASE g # f
    BY <1>2, <1>4, <1>5, <1>6, <1>7, <1>8, <2>2, OtherInode
  <2> QED BY <2>1, <2>2
<1>14. \A g \in Inums : \A n, b : Pending(g, n, b)' => Pending(g, n, b)
  BY <1>5, <1>6 DEF Pending, At, Bn
<1>15. ClaimOK' /\ EntryOK' /\ FreeZero'
  BY <1>4, <1>9, <1>12, <1>13, <1>14, QuietClaims
<1>16. LinkOK'
  BY <1>2, <1>4, <1>5, <1>6, <1>7, LinkOthers
<1> QED BY <1>4, <1>9, <1>10, <1>11, <1>12, <1>15, <1>16 DEF OwnInv, PanicOK

LEMMA IputFreeKeeps ==
  ASSUME OwnInv, NEW p \in Procs, iput_free(p)
  PROVE  OwnInv'
<1> DEFINE f == run[p].f
           node == [mem[f] EXCEPT !.type = 0]
<1>1. RunOK(run[p]) /\ DOMAIN run = Procs /\ run[p].op = "itrunc" /\ run[p].pc = "free"
  BY DEF OwnInv, TypeOK, iput_free, In
<1>2. /\ f \in Inums /\ mem[f] # Out /\ mem[f] \in Node
      /\ \A q \in Procs \ {p} : run[q].op # "idle" => run[q].f \in Inums /\ run[q].f # f
  BY <1>1, Alone DEF OwnInv
<1>3. node \in Node /\ node.addrs = mem[f].addrs /\ node.type = 0
  BY <1>2 DEF Node
<1>4. /\ dino' = [dino EXCEPT ![f] = node] /\ mem' = [mem EXCEPT ![f] = Out]
      /\ run' = [run EXCEPT ![p] = Idle] /\ UNCHANGED <<blk, bit, mk, panicked>>
  BY DEF iput_free, quiet
<1>5. RunOK(Idle) /\ Idle.op = "idle"
  BY DEF RunOK, Idle
<1> HIDE DEF node, f
<1>6. run'[p] = Idle /\ run'[p].op = "idle" /\ \A q \in Procs \ {p} : run'[q] = run[q]
  BY <1>1, <1>4, <1>5
<1>7. /\ mem'[f] = Out /\ dino'[f] = node
      /\ \A g \in Inums \ {f} : mem'[g] = mem[g] /\ dino'[g] = dino[g]
  BY <1>2, <1>4 DEF OwnInv, TypeOK
<1>8. run[p].f = f /\ mk.phase = "run"
  BY <1>1 DEF f, OwnInv, MkOK
<1>9. TypeOK'
  BY <1>1, <1>3, <1>4, <1>5, <1>6, <1>7 DEF OwnInv, TypeOK
<1>10. MkOK'
  BY <1>1, <1>4, <1>6 DEF OwnInv, MkOK
<1>11. BusyOK'
  BY <1>1, <1>2, <1>6, <1>7 DEF OwnInv, BusyOK, Linked
<1>12. MemOK'
  BY <1>2, <1>3, <1>7, <1>8 DEF OwnInv, MemOK, Linked
<1>13. ASSUME NEW g \in Inums PROVE Smaller(g)
  <2>1. CASE g = f
    <3>1. ~Live(g)'
      BY <1>2, <1>3, <1>4, <1>6, <1>7, <1>8, <2>1 DEF Live, Linked
    <3> QED BY <3>1 DEF Smaller
  <2>2. CASE g # f
    BY <1>2, <1>4, <1>5, <1>6, <1>7, <1>8, <2>2, OtherInode
  <2> QED BY <2>1, <2>2
<1>14. \A g \in Inums : \A n, b : Pending(g, n, b)' => Pending(g, n, b)
  BY <1>5, <1>6 DEF Pending, At, Bn
<1>15. ClaimOK' /\ EntryOK' /\ FreeZero'
  BY <1>4, <1>9, <1>12, <1>13, <1>14, QuietClaims
<1>16. LinkOK'
  BY <1>2, <1>4, <1>6, <1>7, LinkOthers
<1> QED BY <1>4, <1>9, <1>10, <1>11, <1>12, <1>15, <1>16 DEF OwnInv, PanicOK

----------------------------------------------------------------------------
(* itrunc                                                                  *)

\* A block is freed that one place has led to and no place leads to now.
LEMMA FreeClaims ==
  ASSUME OwnInv, Roomy, mk.phase = "run", mk' = mk, TypeOK', MemOK',
         NEW f \in Inums, NEW n \in 0 .. MAXFILE, NEW a \in Nat, Claim(f, n, a), ~Claim(f, n, a)',
         blk' = [blk EXCEPT ![a] = ZeroBlock], bit' = [bit EXCEPT ![a] = 0],
         \A g \in Inums : Smaller(g),
         \A g \in Inums : \A m, b : Pending(g, m, b)' => Pending(g, m, b)
  PROVE  ClaimOK' /\ EntryOK' /\ FreeZero'
<1>1. a \in Blocks /\ a \in Bits /\ a >= FirstData /\ bit[a] = 1 /\ a < TAG
  BY ClaimBlock DEF OwnInv
<1>2. bit'[a] = 0 /\ \A b \in Bits \ {a} : bit'[b] = bit[b]
  BY <1>1 DEF OwnInv, TypeOK
<1>3. blk'[a] = ZeroBlock /\ \A b \in Blocks \ {a} : blk'[b] = blk[b]
  BY <1>1 DEF OwnInv, TypeOK
<1>4. \A b : Taken(b)' <=> Taken(b) /\ b # a
  BY <1>1, <1>2 DEF Taken
<1>5. ASSUME NEW g \in Inums, NEW m \in 0 .. MAXFILE, NEW b \in Nat, Claim(g, m, b)'
      PROVE  Claim(g, m, b) /\ b # a
  <2>1. Claim(g, m, b)
    BY <1>5, SmallerClaim DEF Claim
  <2>2. b = a => g = f /\ m = n
    BY <2>1 DEF OwnInv, ClaimOK
  <2> QED BY <1>5, <2>1, <2>2
<1>6. ClaimOK'
  BY <1>4, <1>5, ClaimsKept DEF OwnInv
<1>7. EntryOK'
  <2> SUFFICES ASSUME NEW g \in Inums, Live(g)', Top(g)' # 0, Top(g)' \in Blocks,
                      NEW j \in 0 .. (NINDIRECT - 1)
               PROVE  blk'[Top(g)'][j] \in Nat
    BY DEF EntryOK
  <2>1. Live(g) /\ ip(g).addrs[NDIRECT] # 0
        /\ AddrMask(ip(g)'.addrs[NDIRECT]) = AddrMask(ip(g).addrs[NDIRECT])
    BY Sizes DEF Smaller, Top
  <2>2. AddrMask(Top(g)') = Top(g)' /\ AddrMask(Top(g)) = Top(g)
    BY TopMask, TopMaskNext DEF OwnInv
  <2>3. blk[Top(g)'][j] \in Nat
    BY <2>1, <2>2 DEF Top, EntryOK, OwnInv
  <2>4. CASE Top(g)' = a
    BY <1>3, <2>4, Sizes DEF ZeroBlock
  <2> QED BY <1>3, <2>3, <2>4
<1>8. FreeZero'
  BY <1>3, <1>4 DEF FreeZero, OwnInv
<1> QED BY <1>6, <1>7, <1>8

\* What bfree does in either case.
Frees(f, n, a) ==
  \/ blk' = blk /\ bit' = bit /\ PanicOK'
  \/ /\ a \in Nat /\ Claim(f, n, a) /\ ~Claim(f, n, a)' /\ PanicOK'
     /\ blk' = [blk EXCEPT ![a] = ZeroBlock] /\ bit' = [bit EXCEPT ![a] = 0]

LEMMA BfreeFrees ==
  ASSUME OwnInv, Roomy, mk.phase = "run", NEW f \in Inums, NEW n \in 0 .. MAXFILE, NEW a \in Nat,
         a < TAG => Claim(f, n, a) /\ ~Claim(f, n, a)', bfree(a)
  PROVE  Frees(f, n, a)
<1>1. CASE a >= TAG
  BY <1>1 DEF bfree, Frees, PanicOK
<1>2. CASE a < TAG
  <2>1. bit[a] = 1
    BY <1>2, ClaimBlock DEF OwnInv
  <2>2. ~(a >= TAG)
    BY <1>2, Sizes
  <2>3. /\ blk' = [blk EXCEPT ![a] = ZeroBlock] /\ bit' = [bit EXCEPT ![a] = 0]
        /\ panicked' = "no"
    BY <2>1, <2>2 DEF bfree
  <2> QED BY <1>2, <2>3 DEF Frees, PanicOK
<1> QED BY <1>1, <1>2, Sizes

\* One step of itrunc: the process, its inode in memory, and one block.
TruncStep(p, f, r, node, n, a) ==
  /\ run[p].op = "itrunc" /\ run[p].f = f /\ RunOK(r) /\ r.op = "itrunc" /\ r.f = f
  /\ node \in Node /\ node.type = mem[f].type /\ node.nlink = mem[f].nlink
  /\ node.size = mem[f].size /\ node.addrs[NDIRECT] < TAG
  /\ r.pc = "indirect" => node.addrs[NDIRECT] # 0
  /\ run' = [run EXCEPT ![p] = r] /\ mem' = [mem EXCEPT ![f] = node] /\ dino' = dino /\ mk' = mk
  /\ n \in 0 .. MAXFILE /\ Frees(f, n, a) /\ (n = NDIRECT => node.addrs[NDIRECT] = 0)
  /\ \A i \in 0 .. NDIRECT : node.addrs[i] # 0 => node.addrs[i] = mem[f].addrs[i]
  /\ \A j \in 0 .. (NINDIRECT - 1) :
       node.addrs[NDIRECT] # 0 /\ Gone(f, j) /\ blk[Top(f)][j] # 0 => Gone(f, j)'

LEMMA TruncKeeps ==
  ASSUME OwnInv, Roomy, NEW p \in Procs, NEW f \in Inums, NEW r, NEW node, NEW n, NEW a,
         TruncStep(p, f, r, node, n, a)
  PROVE  OwnInv'
<1> USE DEF TruncStep
<1>1. /\ mem[f] # Out /\ mem[f] \in Node
      /\ \A q \in Procs \ {p} : run[q].op # "idle" => run[q].f \in Inums /\ run[q].f # f
  BY Alone DEF OwnInv
<1>2. mk.phase = "run" /\ mem[f].nlink = 0 /\ dino[f].nlink = 0 /\ Live(f)
  BY <1>1 DEF OwnInv, MkOK, BusyOK, MemOK, Live
<1>3. run'[p] = r /\ \A q \in Procs \ {p} : run'[q] = run[q]
  BY DEF OwnInv, TypeOK
<1>4. mem'[f] = node /\ \A g \in Inums \ {f} : mem'[g] = mem[g]
  BY DEF OwnInv, TypeOK
<1>5. ASSUME a \in Nat, Claim(f, n, a) PROVE a \in Blocks /\ a \in Bits
  BY <1>2, <1>5, ClaimBlock DEF OwnInv
<1>6. TypeOK'
  <2>1. DOMAIN run' = Procs /\ \A q \in Procs : RunOK(run'[q])
    BY <1>3 DEF OwnInv, TypeOK
  <2>2. dino' \in [Inums -> Node] /\ mem' \in [Inums -> Node \cup {Out}]
    BY DEF OwnInv, TypeOK
  <2>3. /\ DOMAIN blk' = Blocks /\ \A b \in Blocks : DOMAIN blk'[b] = 0 .. (BSIZE - 1)
        /\ bit' \in [Bits -> {0, 1}]
    <3>1. CASE blk' = blk /\ bit' = bit
      BY <3>1 DEF OwnInv, TypeOK
    <3>2. CASE /\ a \in Nat /\ Claim(f, n, a)
               /\ blk' = [blk EXCEPT ![a] = ZeroBlock] /\ bit' = [bit EXCEPT ![a] = 0]
      BY <1>5, <3>2 DEF OwnInv, TypeOK, ZeroBlock
    <3> QED BY <3>1, <3>2 DEF Frees
  <2> QED BY <2>1, <2>2, <2>3 DEF TypeOK
<1>7. MemOK'
  BY <1>1, <1>2, <1>4 DEF OwnInv, MemOK, Linked
<1>8. BusyOK'
  BY <1>1, <1>2, <1>3, <1>4, OutIsNoNode DEF OwnInv, BusyOK, Linked
<1>9. ip(f) = mem[f] /\ ip(f)' = node /\ Top(f) = mem[f].addrs[NDIRECT]
      /\ Top(f)' = node.addrs[NDIRECT]
  BY <1>1, <1>4, OutIsNoNode DEF ip, Top
<1>10. ASSUME a \in Nat, Claim(f, n, a), NEW g \in Inums, Live(g), Top(g) = a, Top(g) # 0
       PROVE  g = f /\ n = NDIRECT
  <2>1. Claim(g, NDIRECT, a) /\ NDIRECT \in 0 .. MAXFILE
    BY <1>10, TopClaim, Sizes DEF OwnInv
  <2> QED BY <1>10, <2>1 DEF OwnInv, ClaimOK
<1>11. ASSUME NEW g \in Inums, Live(g), Top(g) # 0, g # f \/ node.addrs[NDIRECT] # 0
       PROVE  blk'[Top(g)] = blk[Top(g)]
  <2>1. CASE blk' = blk
    BY <2>1
  <2>2. CASE a \in Nat /\ Claim(f, n, a) /\ blk' = [blk EXCEPT ![a] = ZeroBlock]
    <3>1. Top(g) # a
      BY <1>10, <1>11, <2>2
    <3>2. Top(g) \in Blocks
      BY <1>2, <1>11, TopClaim, TopType, ClaimBlock, Sizes DEF OwnInv
    <3> QED BY <2>2, <3>1, <3>2 DEF OwnInv, TypeOK
  <2> QED BY <2>1, <2>2 DEF Frees
<1>12. ASSUME NEW g \in Inums PROVE Smaller(g)
  <2>1. CASE g # f
    <3>1. Live(g) /\ Top(g) # 0 => blk'[Top(g)] = blk[Top(g)]
      BY <1>11, <2>1
    <3>2. dino'[g] = dino[g] /\ mem'[g] = mem[g] /\ mk'.phase = mk.phase
      BY <1>4, <2>1
    <3> QED BY <1>3, <2>1, <3>1, <3>2, OtherInode
  <2>2. CASE g = f
    <3>1. \A i \in 0 .. NDIRECT : node.addrs[i] # 0 =>
            ip(f).addrs[i] # 0 /\ AddrMask(node.addrs[i]) = AddrMask(ip(f).addrs[i])
      BY <1>9
    <3>2. ASSUME NEW j \in 0 .. (NINDIRECT - 1), Top(f)' # 0, ~Gone(f, j)', blk'[Top(f)'][j] # 0
          PROVE  Top(f) # 0 /\ ~Gone(f, j) /\ blk[Top(f)][j] # 0
                 /\ AddrMask(blk'[Top(f)'][j]) = AddrMask(blk[Top(f)][j])
      <4>1. Top(f)' = Top(f) /\ Top(f) # 0 /\ node.addrs[NDIRECT] # 0
        BY <1>9, <3>2, Sizes
      <4>2. blk'[Top(f)] = blk[Top(f)]
        BY <1>2, <1>11, <4>1
      <4> QED BY <3>2, <4>1, <4>2
    <3> QED BY <1>2, <1>9, <2>2, <3>1, <3>2 DEF Smaller
  <2> QED BY <2>1, <2>2
<1>13. \A g \in Inums : \A m, b : Pending(g, m, b)' => Pending(g, m, b)
  BY <1>3 DEF Pending, At, Bn
<1>14. ClaimOK' /\ EntryOK' /\ FreeZero' /\ PanicOK'
  <2>1. CASE blk' = blk /\ bit' = bit /\ PanicOK'
    BY <1>6, <1>7, <1>12, <1>13, <2>1, QuietClaims
  <2>2. CASE /\ a \in Nat /\ Claim(f, n, a) /\ ~Claim(f, n, a)' /\ PanicOK'
             /\ blk' = [blk EXCEPT ![a] = ZeroBlock] /\ bit' = [bit EXCEPT ![a] = 0]
    BY <1>2, <1>6, <1>7, <1>12, <1>13, <2>2, FreeClaims
  <2> QED BY <2>1, <2>2 DEF Frees
<1>15. MkOK'
  <2>1. \A b \in 0 .. (FirstData - 1) : bit'[b] = 1
    <3>1. CASE bit' = bit
      BY <1>2, <3>1 DEF OwnInv, MkOK
    <3>2. CASE a \in Nat /\ Claim(f, n, a) /\ bit' = [bit EXCEPT ![a] = 0]
      <4>1. a >= FirstData /\ a \in Bits
        BY <1>2, <3>2, ClaimBlock DEF OwnInv
      <4> QED BY <1>2, <3>2, <4>1, Sizes DEF OwnInv, MkOK, TypeOK, Bits
    <3> QED BY <3>1, <3>2 DEF Frees
  <2> QED BY <1>2, <2>1 DEF OwnInv, MkOK
<1>16. LinkOK'
  <2> SUFFICES ASSUME NEW q \in Procs, run'[q].op \in {"read", "write"}
               PROVE  /\ run'[q].pc \in {"link", "sum"} => Top(run[q].f)' # 0
                      /\ run'[q].pc = "link" => blk'[Top(run[q].f)'][Bn(q)' - NDIRECT] = 0
                      /\ run'[q].pc = "sum" => blk'[Top(run[q].f)'][Bn(q)' - NDIRECT] # 0
                      /\ run'[q].f = run[q].f
    BY DEF LinkOK, Top, ip
  <2>1. q # p /\ run'[q] = run[q] /\ run[q].f \in Inums /\ run[q].f # f
    BY <1>1, <1>3
  <2>2. Top(run[q].f)' = Top(run[q].f)
    BY <1>4, <2>1 DEF Top, ip
  <2>3. Live(run[q].f)
    BY <2>1 DEF OwnInv, BusyOK, Live
  <2>4. Top(run[q].f) # 0 => blk'[Top(run[q].f)] = blk[Top(run[q].f)]
    BY <1>11, <2>1, <2>3
  <2> QED BY <2>1, <2>2, <2>4 DEF OwnInv, LinkOK, Bn
<1> QED BY <1>6, <1>7, <1>8, <1>14, <1>15, <1>16 DEF OwnInv

\* What a process that truncates is about to do.
LEMMA TruncFacts ==
  ASSUME OwnInv, NEW p \in Procs, run[p].op = "itrunc"
  PROVE  /\ RunOK(run[p]) /\ DOMAIN run = Procs /\ run[p].f \in Inums /\ mk.phase = "run"
         /\ mem[run[p].f] # Out /\ mem[run[p].f] \in Node /\ Live(run[p].f)
         /\ ip(run[p].f) = mem[run[p].f] /\ Top(run[p].f) = mem[run[p].f].addrs[NDIRECT]
         /\ mem[run[p].f].addrs \in [0 .. NDIRECT -> Nat] /\ mem[run[p].f].addrs[NDIRECT] < TAG
         /\ \A q \in Procs \ {p} : run[q].op # "idle" => run[q].f # run[p].f
<1>1. RunOK(run[p]) /\ DOMAIN run = Procs /\ mk.phase = "run"
  BY DEF OwnInv, TypeOK, MkOK
<1>2. /\ run[p].f \in Inums /\ mem[run[p].f] # Out /\ mem[run[p].f] \in Node
      /\ \A q \in Procs \ {p} : run[q].op # "idle" => run[q].f # run[p].f
  BY Alone DEF OwnInv
<1>3. Live(run[p].f) /\ ip(run[p].f) = mem[run[p].f] /\ Top(run[p].f) = mem[run[p].f].addrs[NDIRECT]
  BY <1>2 DEF Live, ip, Top
<1>4. mem[run[p].f].addrs \in [0 .. NDIRECT -> Nat] /\ mem[run[p].f].addrs[NDIRECT] < TAG
  BY <1>2 DEF Node, OwnInv, MemOK
<1> QED BY <1>1, <1>2, <1>3, <1>4

LEMMA TruncDirectKeeps ==
  ASSUME OwnInv, Roomy, NEW p \in Procs, itrunc_direct(p)
  PROVE  OwnInv'
<1> SUFFICES ASSUME NEW CONSTANT f, f = run[p].f, NEW CONSTANT j, j = run[p].j,
                    NEW CONSTANT a, a = mem[f].addrs[j]
             PROVE  OwnInv'
  OBVIOUS
<1>1. run[p].op = "itrunc" /\ run[p].pc = "direct"
  BY DEF itrunc_direct, In
<1>2. /\ RunOK(run[p]) /\ DOMAIN run = Procs /\ f \in Inums /\ mk.phase = "run"
      /\ mem[f] # Out /\ mem[f] \in Node /\ Live(f)
      /\ ip(f) = mem[f] /\ Top(f) = mem[f].addrs[NDIRECT]
      /\ mem[f].addrs \in [0 .. NDIRECT -> Nat] /\ mem[f].addrs[NDIRECT] < TAG
      /\ \A q \in Procs \ {p} : run[q].op # "idle" => run[q].f # f
  BY <1>1, TruncFacts
<1>3. j \in Nat /\ j <= NDIRECT /\ a \in Nat
  BY <1>1, <1>2, Sizes DEF RunOK
<1>4. \A i : ~Gone(f, i)
  BY <1>1, <1>2 DEF Gone, In
<1>5. /\ dino' = dino /\ mk' = mk
      /\ IF j = NDIRECT
         THEN /\ Step(p, IF a = 0 THEN "iupdate" ELSE "indirect") /\ mem' = mem
              /\ UNCHANGED <<blk, bit, panicked, leaky>>
         ELSE /\ Loop(p) /\ mem' = [mem EXCEPT ![f].addrs[j] = 0]
              /\ IF a = 0 THEN UNCHANGED <<blk, bit, panicked, leaky>> ELSE bfree(a)
  BY DEF itrunc_direct, quiet
<1>6. CASE j = NDIRECT
  <2> DEFINE c == IF a = 0 THEN "iupdate" ELSE "indirect"
             r == [run[p] EXCEPT !.pc = c, !.j = 0]
  <2>1. run' = [run EXCEPT ![p] = r] /\ mem' = [mem EXCEPT ![f] = mem[f]]
    BY <1>2, <1>5, <1>6 DEF Step, OwnInv, TypeOK
  <2>2. RunOK(r) /\ r.op = "itrunc" /\ r.f = f /\ (r.pc = "indirect" => mem[f].addrs[NDIRECT] # 0)
    BY <1>1, <1>2, <1>6, Sizes DEF RunOK
  <2>5. PICK n \in 0 .. MAXFILE : n # NDIRECT
    <3>1. NDIRECT + 1 \in 0 .. MAXFILE /\ NDIRECT + 1 # NDIRECT
      BY Sizes
    <3> QED BY <3>1
  <2>6. Frees(f, n, 0)
    BY <1>5, <1>6 DEF Frees, OwnInv, PanicOK
  <2> HIDE DEF r
  <2>7. TruncStep(p, f, r, mem[f], n, 0)
    BY <1>1, <1>2, <1>4, <1>5, <2>1, <2>2, <2>5, <2>6 DEF TruncStep
  <2> QED BY <1>2, <2>7, TruncKeeps
<1>7. CASE j # NDIRECT
  <2>0. SUFFICES ASSUME NEW CONSTANT r, r = [run[p] EXCEPT !.j = j + 1],
                      NEW CONSTANT node, node = [mem[f] EXCEPT !.addrs[j] = 0]
               PROVE  OwnInv'
    OBVIOUS
  <2>1. run' = [run EXCEPT ![p] = r] /\ mem' = [mem EXCEPT ![f] = node]
    BY <2>0, <1>2, <1>5, <1>7 DEF Loop
  <2>2. RunOK(r) /\ r.op = "itrunc" /\ r.f = f /\ r.pc = "direct"
    <3>1. /\ DOMAIN r = DOMAIN run[p] /\ r.op = "itrunc" /\ r.f = f /\ r.pc = "direct"
          /\ r.j = j + 1 /\ {"pc", "j", "op", "f"} \subseteq DOMAIN run[p]
      BY <2>0, <1>1, <1>2 DEF RunOK
    <3> QED BY <1>2, <1>3, <1>7, <3>1, Sizes DEF RunOK
  <2>3. /\ node \in Node /\ node.type = mem[f].type /\ node.nlink = mem[f].nlink
        /\ node.size = mem[f].size /\ node.addrs = [mem[f].addrs EXCEPT ![j] = 0]
    BY <2>0, <1>2, <1>3 DEF Node
  <2>5. j \in 0 .. NDIRECT /\ j \in 0 .. MAXFILE /\ NDIRECT \in 0 .. NDIRECT
    BY <1>3, Sizes
  <2>4. node.addrs[j] = 0 /\ \A i \in 0 .. NDIRECT : i # j => node.addrs[i] = mem[f].addrs[i]
    BY <1>2, <2>3, <2>5
  <2>6. node.addrs[NDIRECT] < TAG /\ \A i \in 0 .. NDIRECT : node.addrs[i] # 0 => node.addrs[i] = mem[f].addrs[i]
    BY <1>2, <1>7, <2>4, <2>5
  <2>7. ~Claim(f, j, a)'
    <3>1. ip(f)' = node
      BY <1>2, <2>1, <2>3, OutIsNoNode DEF ip, OwnInv, TypeOK
    <3>2. ~InNode(f, j, a)'
      BY <2>4, <3>1 DEF InNode
    <3>3. ~InBlock(f, j, a)'
      BY <1>3, Sizes DEF InBlock
    <3>4. ~Pending(f, j, a)'
      <4>1. run'[p] = r /\ \A q \in Procs \ {p} : run'[q] = run[q]
        BY <1>2, <2>1
      <4> QED BY <1>2, <2>2, <4>1 DEF Pending, At
    <3> QED BY <3>2, <3>3, <3>4 DEF Claim
  <2>8. Frees(f, j, a)
    <3>1. CASE a = 0
      BY <1>5, <1>7, <3>1 DEF Frees, OwnInv, PanicOK
    <3>2. CASE a # 0
      <4>1. a < TAG => AddrMask(a) = a
        BY <1>3, Untagged, Sizes
      <4>2. a < TAG => Claim(f, j, a)
        BY <1>2, <2>5, <3>2, <4>1 DEF Claim, InNode
      <4> QED BY <1>2, <1>3, <1>5, <1>7, <2>5, <2>7, <3>2, <4>2, BfreeFrees
    <3> QED BY <3>1, <3>2
  <2>10. f \in Inums /\ run[p].f = f /\ dino' = dino /\ mk' = mk
    BY <1>2, <1>5
  <2>11. /\ r.pc = "indirect" => node.addrs[NDIRECT] # 0
         /\ j = NDIRECT => node.addrs[NDIRECT] = 0
         /\ \A i \in 0 .. (NINDIRECT - 1) :
              node.addrs[NDIRECT] # 0 /\ Gone(f, i) /\ blk[Top(f)][i] # 0 => Gone(f, i)'
    BY <1>4, <1>7, <2>2
  <2>12. TruncStep(p, f, r, node, j, a)
    BY <1>1, <2>1, <2>2, <2>3, <2>5, <2>6, <2>8, <2>10, <2>11 DEF TruncStep
  <2> QED BY <1>2, <2>12, TruncKeeps
<1> QED BY <1>6, <1>7

LEMMA TruncIndirectKeeps ==
  ASSUME OwnInv, Roomy, NEW p \in Procs, itrunc_indirect(p)
  PROVE  OwnInv'
<1> SUFFICES ASSUME NEW CONSTANT f, f = run[p].f, NEW CONSTANT j, j = run[p].j,
                    NEW CONSTANT a, a = mem[f].addrs[NDIRECT]
             PROVE  OwnInv'
  OBVIOUS
<1>1. run[p].op = "itrunc" /\ run[p].pc = "indirect"
  BY DEF itrunc_indirect, In
<1>2. /\ RunOK(run[p]) /\ DOMAIN run = Procs /\ f \in Inums /\ mk.phase = "run"
      /\ mem[f] # Out /\ mem[f] \in Node /\ Live(f)
      /\ ip(f) = mem[f] /\ Top(f) = a
      /\ mem[f].addrs \in [0 .. NDIRECT -> Nat] /\ a < TAG
      /\ \A q \in Procs \ {p} : run[q].op # "idle" => run[q].f # f
  BY <1>1, TruncFacts
<1>3. j \in Nat /\ j <= NINDIRECT /\ a \in Nat /\ a # 0
  BY <1>1, <1>2, Sizes DEF RunOK, OwnInv, BusyOK
<1>4. \A i : Gone(f, i) <=> i < j
  BY <1>1, <1>2 DEF Gone, In
<1>5. /\ dino' = dino /\ mk' = mk
      /\ IF j = NINDIRECT
         THEN /\ bfree(a) /\ mem' = [mem EXCEPT ![f].addrs[NDIRECT] = 0] /\ Step(p, "iupdate")
         ELSE /\ IF blk[a][j] = 0 THEN UNCHANGED <<blk, bit, panicked, leaky>> ELSE bfree(blk[a][j])
              /\ Loop(p) /\ mem' = mem
  BY DEF itrunc_indirect, quiet
<1>6. Claim(f, NDIRECT, a) /\ a \in Blocks /\ NDIRECT \in 0 .. MAXFILE
  BY <1>2, <1>3, TopClaim, ClaimBlock, Sizes DEF OwnInv
<1>7. CASE j = NINDIRECT
  <2>0. SUFFICES ASSUME NEW CONSTANT r, r = [run[p] EXCEPT !.pc = "iupdate", !.j = 0],
                      NEW CONSTANT node, node = [mem[f] EXCEPT !.addrs[NDIRECT] = 0]
               PROVE  OwnInv'
    OBVIOUS
  <2>1. run' = [run EXCEPT ![p] = r] /\ mem' = [mem EXCEPT ![f] = node]
    BY <2>0, <1>2, <1>5, <1>7 DEF Step
  <2>2. RunOK(r) /\ r.op = "itrunc" /\ r.f = f /\ r.pc = "iupdate"
    BY <2>0, <1>1, <1>2, <1>3, <1>7, Sizes DEF RunOK
  <2>3. /\ node \in Node /\ node.type = mem[f].type /\ node.nlink = mem[f].nlink
        /\ node.size = mem[f].size /\ node.addrs = [mem[f].addrs EXCEPT ![NDIRECT] = 0]
    BY <2>0, <1>2, <1>3 DEF Node
  <2>4. node.addrs[NDIRECT] = 0 /\ \A i \in 0 .. NDIRECT : i # NDIRECT => node.addrs[i] = mem[f].addrs[i]
    BY <1>2, <1>3, <2>3, Sizes
  <2>5. ip(f)' = node
    BY <1>2, <2>1, <2>3, OutIsNoNode DEF ip, OwnInv, TypeOK
  <2>7. ~Claim(f, NDIRECT, a)'
    <3>2. ~InNode(f, NDIRECT, a)'
      BY <2>4, <2>5 DEF InNode
    <3>3. ~InBlock(f, NDIRECT, a)'
      BY <1>3, Sizes DEF InBlock
    <3>4. ~Pending(f, NDIRECT, a)'
      <4>1. run'[p] = r /\ \A q \in Procs \ {p} : run'[q] = run[q]
        BY <1>2, <2>1
      <4> QED BY <1>2, <2>2, <4>1 DEF Pending, At
    <3> QED BY <3>2, <3>3, <3>4 DEF Claim
  <2>8. Frees(f, NDIRECT, a)
    BY <1>2, <1>3, <1>5, <1>6, <1>7, <2>7, BfreeFrees
  <2>9. node.addrs[NDIRECT] < TAG
    BY <2>4, Sizes
  <2>10. f \in Inums /\ run[p].f = f /\ dino' = dino /\ mk' = mk
    BY <1>2, <1>5
  <2>11. /\ r.pc = "indirect" => node.addrs[NDIRECT] # 0
         /\ \A i \in 0 .. NDIRECT : node.addrs[i] # 0 => node.addrs[i] = mem[f].addrs[i]
         /\ \A i \in 0 .. (NINDIRECT - 1) :
              node.addrs[NDIRECT] # 0 /\ Gone(f, i) /\ blk[Top(f)][i] # 0 => Gone(f, i)'
    BY <2>2, <2>4
  <2>12. TruncStep(p, f, r, node, NDIRECT, a)
    BY <1>1, <1>6, <2>1, <2>2, <2>3, <2>4, <2>8, <2>9, <2>10, <2>11 DEF TruncStep
  <2> QED BY <1>2, <2>12, TruncKeeps
<1>8. CASE j # NINDIRECT
  <2> DEFINE r == [run[p] EXCEPT !.j = j + 1]
             n == NDIRECT + 1 + j
  <2> SUFFICES ASSUME NEW CONSTANT e, e = blk[a][j]
               PROVE  OwnInv'
    OBVIOUS
  <2>1. run' = [run EXCEPT ![p] = r] /\ mem' = [mem EXCEPT ![f] = mem[f]] /\ mem' = mem
    BY <1>2, <1>5, <1>8 DEF Loop, OwnInv, TypeOK
  <2>2. RunOK(r) /\ r.op = "itrunc" /\ r.f = f /\ r.pc = "indirect" /\ r.j = j + 1
    <3>1. /\ DOMAIN r = DOMAIN run[p] /\ r.op = "itrunc" /\ r.f = f /\ r.pc = "indirect"
          /\ r.j = j + 1 /\ {"pc", "j", "op", "f"} \subseteq DOMAIN run[p]
      BY <1>1, <1>2 DEF RunOK
    <3> HIDE DEF r
    <3> QED BY <1>2, <1>3, <1>8, <3>1, Sizes DEF RunOK
  <2> HIDE DEF r
  <2>3. n \in 0 .. MAXFILE /\ n # NDIRECT /\ n > NDIRECT /\ j \in 0 .. (NINDIRECT - 1)
    BY <1>3, <1>8, Sizes
  <2>4. e \in Nat
    BY <1>2, <1>3, <1>6, <2>3 DEF OwnInv, EntryOK
  <2>5. run'[p] = r /\ \A q \in Procs \ {p} : run'[q] = run[q]
    BY <1>2, <2>1
  <2>6. \A i \in 0 .. (NINDIRECT - 1) : Gone(f, i)' <=> i < j + 1
    BY <1>2, <2>2, <2>5 DEF Gone, In
  <2>7. ~Claim(f, n, e)'
    <3>2. ~InNode(f, n, e)'
      BY <1>3, Sizes DEF InNode
    <3>3. ~InBlock(f, n, e)'
      BY <1>3, <2>3, <2>6, Sizes DEF InBlock
    <3>4. ~Pending(f, n, e)'
      BY <1>2, <2>2, <2>5 DEF Pending, At
    <3> QED BY <3>2, <3>3, <3>4 DEF Claim
  <2>8. Frees(f, n, e)
    <3>1. CASE e = 0
      BY <1>5, <1>8, <3>1 DEF Frees, OwnInv, PanicOK
    <3>2. CASE e # 0
      <4>1. e < TAG => AddrMask(e) = e
        BY <2>4, UntaggedNat
      <4>2. ~Gone(f, j)
        BY <1>3, <1>4
      <4>3. e < TAG => Claim(f, n, e)
        BY <1>2, <1>3, <2>3, <3>2, <4>1, <4>2 DEF Claim, InBlock
      <4>4. bfree(e)
        BY <1>5, <1>8, <3>2
      <4> HIDE DEF n
      <4> QED BY <1>2, <2>3, <2>4, <2>7, <4>3, <4>4, BfreeFrees
    <3> QED BY <3>1, <3>2
  <2>9. \A i \in 0 .. (NINDIRECT - 1) : Gone(f, i) => Gone(f, i)'
    BY <1>3, <1>4, <2>6, Sizes
  <2> HIDE DEF n
  <2>10. TruncStep(p, f, r, mem[f], n, e)
    BY <1>1, <1>2, <1>3, <1>5, <2>1, <2>2, <2>3, <2>8, <2>9 DEF TruncStep
  <2> QED BY <1>2, <2>10, TruncKeeps
<1> QED BY <1>7, <1>8

----------------------------------------------------------------------------
(* bmap                                                                    *)

\* What a process that reads or writes finds.
LEMMA WorkFacts ==
  ASSUME OwnInv, NEW p \in Procs, run[p].op \in {"read", "write"}
  PROVE  /\ RunOK(run[p]) /\ DOMAIN run = Procs /\ run[p].f \in Inums /\ mk.phase = "run"
         /\ mem[run[p].f] # Out /\ mem[run[p].f] \in Node /\ Linked(run[p].f) /\ Live(run[p].f)
         /\ ip(run[p].f) = mem[run[p].f] /\ Top(run[p].f) = mem[run[p].f].addrs[NDIRECT]
         /\ Root(run[p].f) = Top(run[p].f) /\ Top(run[p].f) \in Nat
         /\ mem[run[p].f].addrs \in [0 .. NDIRECT -> Nat] /\ mem[run[p].f].addrs[NDIRECT] < TAG
         /\ \A j : ~Gone(run[p].f, j)
         /\ \A q \in Procs \ {p} : run[q].op # "idle" => run[q].f \in Inums /\ run[q].f # run[p].f
<1>1. RunOK(run[p]) /\ DOMAIN run = Procs /\ mk.phase = "run"
  BY DEF OwnInv, TypeOK, MkOK
<1>2. /\ run[p].f \in Inums /\ mem[run[p].f] # Out /\ mem[run[p].f] \in Node
      /\ \A q \in Procs \ {p} : run[q].op # "idle" => run[q].f \in Inums /\ run[q].f # run[p].f
  BY Alone DEF OwnInv
<1>3. Linked(run[p].f)
  BY DEF OwnInv, BusyOK
<1>4. Live(run[p].f) /\ ip(run[p].f) = mem[run[p].f] /\ Top(run[p].f) = mem[run[p].f].addrs[NDIRECT]
  BY <1>2, <1>3 DEF Live, ip, Top
<1>5. mem[run[p].f].addrs \in [0 .. NDIRECT -> Nat] /\ mem[run[p].f].addrs[NDIRECT] < TAG
  BY <1>2 DEF Node, OwnInv, MemOK
<1>6. Root(run[p].f) = Top(run[p].f) /\ Top(run[p].f) \in Nat
  BY <1>2, <1>4, TopType DEF Root, OwnInv
<1>7. \A j : ~Gone(run[p].f, j)
  BY <1>2 DEF Gone, In
<1> QED BY <1>1, <1>2, <1>3, <1>4, <1>5, <1>6, <1>7

LEMMA NextFreeIsFree ==
  ASSUME bit \in [Bits -> {0, 1}], FreeBits # {}
  PROVE  NextFree \in FreeBits
<1>1. FreeBits \subseteq Nat
  BY Sizes DEF FreeBits, Bits
<1> DEFINE LT == {ss \in Nat \X Nat : ss[1] < ss[2]}
<1>2. IsWellFoundedOn(LT, Nat)
  BY NatLessThanWellFounded, Zenon DEF OpToRel
<1>3. PICK b \in FreeBits : \A c \in FreeBits : ~(<<c, b>> \in LT)
  BY <1>1, <1>2, WFMin, Zenon
<1>4. \A y, z \in Nat : y < z => <<y, z>> \in LT
  OBVIOUS
<1>5. ASSUME NEW c \in FreeBits PROVE b <= c
  <2> HIDE DEF LT
  <2>1. b \in Nat /\ c \in Nat
    BY <1>1
  <2>2. ~(c < b)
    BY <1>3, <1>4, <2>1
  <2> QED BY <2>1, <2>2
<1> QED BY <1>5 DEF NextFree

\* balloc takes a block that nothing leads to and whose contents are zero.
LEMMA BallocFacts ==
  ASSUME OwnInv, Roomy', mk.phase = "run", mk' = mk, balloc
  PROVE  /\ NextFree \in Nat /\ NextFree \in Bits /\ NextFree \in Blocks /\ NextFree > 0
         /\ NextFree < TAG /\ AddrMask(NextFree) = NextFree
         /\ ~Taken(NextFree) /\ blk[NextFree] = ZeroBlock
         /\ \A b : Taken(b)' <=> Taken(b) \/ b = NextFree
         /\ bit' \in [Bits -> {0, 1}] /\ \A b \in 0 .. (FirstData - 1) : bit'[b] = 1
<1> SUFFICES ASSUME NEW CONSTANT c, c = NextFree
             PROVE  /\ c \in Nat /\ c \in Bits /\ c \in Blocks /\ c > 0
                    /\ c < TAG /\ AddrMask(c) = c
                    /\ ~Taken(c) /\ blk[c] = ZeroBlock
                    /\ \A b : Taken(b)' <=> Taken(b) \/ b = c
                    /\ bit' \in [Bits -> {0, 1}] /\ \A b \in 0 .. (FirstData - 1) : bit'[b] = 1
  OBVIOUS
<1>1. bit \in [Bits -> {0, 1}] /\ \A b \in 0 .. (FirstData - 1) : bit[b] = 1
  BY DEF OwnInv, TypeOK, MkOK
<1>2. FreeBits # {} /\ bit' = [bit EXCEPT ![c] = 1]
  BY DEF balloc
<1>3. c \in Bits /\ bit[c] = 0
  BY <1>1, <1>2, NextFreeIsFree DEF FreeBits
<1>4. c \in Nat /\ c < bitblocks * BPB
  BY <1>3, Constants DEF Bits
<1>5. c >= FirstData
  BY <1>1, <1>3, <1>4, Sizes
<1>6. bit'[c] = 1 /\ bit' \in [Bits -> {0, 1}] /\ \A b \in Bits \ {c} : bit'[b] = bit[b]
  BY <1>1, <1>2, <1>3
<1>7. c < size
  BY <1>3, <1>6 DEF Roomy
<1>8. c \in Blocks /\ c > 0 /\ c < TAG
  BY <1>4, <1>5, <1>7, Sizes DEF Blocks
<1>9. AddrMask(c) = c
  BY <1>4, <1>8, Untagged, Sizes
<1>10. ~Taken(c) /\ \A b : Taken(b)' <=> Taken(b) \/ b = c
  BY <1>3, <1>5, <1>6 DEF Taken
<1>11. blk[c] = ZeroBlock
  BY <1>8, <1>10 DEF OwnInv, FreeZero
<1>12. \A b \in 0 .. (FirstData - 1) : bit'[b] = 1
  <2>1. ASSUME NEW b \in 0 .. (FirstData - 1) PROVE b \in Bits /\ b # c
    BY <1>4, <1>5, Constants DEF Bits
  <2> QED BY <1>1, <1>6, <2>1
<1> QED BY <1>3, <1>4, <1>6, <1>8, <1>9, <1>10, <1>11, <1>12

\* An address is zero when its block number is.
LEMMA NoBlockZero ==
  ASSUME OwnInv, NEW f \in Inums, Live(f)
  PROVE  /\ \A i \in 0 .. NDIRECT : AddrMask(ip(f).addrs[i]) = 0 => ip(f).addrs[i] = 0
         /\ Top(f) # 0 => \A j \in 0 .. (NINDIRECT - 1) :
              ~Gone(f, j) /\ AddrMask(blk[Top(f)][j]) = 0 => blk[Top(f)][j] = 0
<1>1. \A n \in 0 .. MAXFILE : ~Claim(f, n, 0)
  <2> SUFFICES ASSUME NEW n \in 0 .. MAXFILE, Claim(f, n, 0) PROVE FALSE
    OBVIOUS
  <2>1. Taken(0)
    BY DEF OwnInv, ClaimOK
  <2> QED BY <2>1, TakenType DEF OwnInv
<1>2. ASSUME NEW i \in 0 .. NDIRECT, AddrMask(ip(f).addrs[i]) = 0 PROVE ip(f).addrs[i] = 0
  <2>1. i \in 0 .. MAXFILE
    BY Sizes
  <2> QED BY <1>1, <1>2, <2>1 DEF Claim, InNode
<1>3. ASSUME NEW j \in 0 .. (NINDIRECT - 1), Top(f) # 0, ~Gone(f, j), AddrMask(blk[Top(f)][j]) = 0
      PROVE  blk[Top(f)][j] = 0
  <2>1. NDIRECT + 1 + j \in 0 .. MAXFILE
    BY Sizes
  <2> QED BY <1>1, <1>3, <2>1 DEF Claim, InBlock
<1> QED BY <1>2, <1>3

LEMMA BmapInodeKeeps ==
  ASSUME OwnInv, Roomy', NEW p \in Procs, bmap_inode(p)
  PROVE  OwnInv'
<1>0. SUFFICES ASSUME NEW CONSTANT f, f = run[p].f, NEW CONSTANT c, c = NextFree,
                    NEW CONSTANT s, s = IF Bn(p) < NDIRECT THEN Bn(p) ELSE NDIRECT,
                    NEW CONSTANT node, node = [mem[f] EXCEPT !.addrs[s] = c]
             PROVE  OwnInv'
  OBVIOUS
<1>1. run[p].op \in {"read", "write"} /\ run[p].pc = "bmap" /\ run[p].f = f
  BY <1>0 DEF bmap_inode, At
<1>2. /\ RunOK(run[p]) /\ DOMAIN run = Procs /\ f \in Inums /\ mk.phase = "run"
      /\ mem[f] # Out /\ mem[f] \in Node /\ Linked(f) /\ Live(f)
      /\ ip(f) = mem[f] /\ Top(f) = mem[f].addrs[NDIRECT]
      /\ mem[f].addrs \in [0 .. NDIRECT -> Nat] /\ mem[f].addrs[NDIRECT] < TAG
      /\ \A j : ~Gone(f, j)
      /\ \A q \in Procs \ {p} : run[q].op # "idle" => run[q].f \in Inums /\ run[q].f # f
  BY <1>1, WorkFacts
<1>3. /\ c \in Nat /\ c \in Bits /\ c \in Blocks /\ c > 0 /\ c < TAG /\ AddrMask(c) = c
      /\ ~Taken(c) /\ blk[c] = ZeroBlock
      /\ \A b : Taken(b)' <=> Taken(b) \/ b = c
      /\ bit' \in [Bits -> {0, 1}] /\ \A b \in 0 .. (FirstData - 1) : bit'[b] = 1
  <2>1. balloc /\ mk' = mk
    BY DEF bmap_inode
  <2> QED BY <1>0, <1>2, <2>1, BallocFacts
<1>4. s \in 0 .. NDIRECT /\ s \in 0 .. MAXFILE /\ NDIRECT \in 0 .. NDIRECT
  <2>1. Bn(p) \in 0 .. (MAXFILE - 1)
    BY <1>1, <1>2, PieceType
  <2> QED BY <1>0, <2>1, Sizes
<1>5. /\ AddrMask(mem[f].addrs[s]) = 0 /\ mem' = [mem EXCEPT ![f].addrs[s] = c]
      /\ UNCHANGED <<dino, blk, mk, run, panicked>>
  BY <1>0, <1>3 DEF bmap_inode
<1>6. mem[f].addrs[s] = 0
  BY <1>2, <1>4, <1>5, NoBlockZero
<1>7. node \in Node /\ node.type = mem[f].type /\ node.nlink = mem[f].nlink
      /\ node.size = mem[f].size /\ node.addrs = [mem[f].addrs EXCEPT ![s] = c]
  BY <1>0, <1>2, <1>3, <1>4 DEF Node
<1>8. node.addrs[s] = c /\ \A i \in 0 .. NDIRECT : i # s => node.addrs[i] = mem[f].addrs[i]
  BY <1>2, <1>4, <1>7
<1>9. mem'[f] = node /\ \A g \in Inums \ {f} : mem'[g] = mem[g]
  BY <1>0, <1>2, <1>5 DEF OwnInv, TypeOK
<1>10. TypeOK'
  BY <1>3, <1>5, <1>7, <1>9 DEF OwnInv, TypeOK
<1>11. MkOK'
  BY <1>2, <1>3, <1>5 DEF OwnInv, MkOK
<1>12. BusyOK'
  BY <1>2, <1>5, <1>7, <1>9, OutIsNoNode DEF OwnInv, BusyOK, Linked, TypeOK, RunOK
<1>13. MemOK'
  <2>1. \A i \in 0 .. NDIRECT : dino[f].addrs[i] # 0 =>
          node.addrs[i] # 0 /\ AddrMask(node.addrs[i]) = AddrMask(dino[f].addrs[i])
    BY <1>2, <1>6, <1>8 DEF OwnInv, MemOK
  <2>2. node.addrs[NDIRECT] < TAG
    BY <1>2, <1>3, <1>4, <1>8
  <2> QED BY <1>2, <1>5, <1>7, <1>9, <2>1, <2>2 DEF OwnInv, MemOK, Linked
<1>14. ip(f)' = node /\ Top(f)' = node.addrs[NDIRECT]
  BY <1>7, <1>9, OutIsNoNode DEF ip, Top
<1>15. ASSUME NEW g \in Inums, g # f
       PROVE  Smaller(g) /\ ip(g)' = ip(g) /\ Top(g)' = Top(g) /\ (Live(g)' <=> Live(g))
  BY <1>1, <1>2, <1>5, <1>9, <1>15, OtherInode
<1>16. \A g \in Inums : \A n, b : Pending(g, n, b)' <=> Pending(g, n, b)
  BY <1>5 DEF Pending, At, Bn
<1>17. ASSUME NEW n, NEW b, InNode(f, n, b)' PROVE InNode(f, n, b) \/ (n = s /\ b = c)
  BY <1>2, <1>3, <1>8, <1>14, <1>17 DEF InNode
<1>18. ASSUME NEW n, NEW b, InBlock(f, n, b)' PROVE InBlock(f, n, b)
  <2>1. CASE s # NDIRECT
    <3>1. Top(f)' = Top(f)
      BY <1>2, <1>4, <1>8, <1>14, <2>1
    <3> QED BY <1>2, <1>5, <1>18, <3>1 DEF InBlock
  <2>2. CASE s = NDIRECT
    <3>1. Top(f)' = c
      BY <1>8, <1>14, <2>2
    <3>2. \A j \in 0 .. (NINDIRECT - 1) : blk'[c][j] = 0
      BY <1>3, <1>5, Sizes DEF ZeroBlock
    <3> QED BY <1>18, <3>1, <3>2 DEF InBlock
  <2> QED BY <2>1, <2>2
<1>19. ClaimOK'
  <2>1. ASSUME NEW g \in Inums, NEW n \in 0 .. MAXFILE, NEW b \in Nat, Claim(g, n, b)'
        PROVE  Claim(g, n, b) \/ (g = f /\ n = s /\ b = c)
    BY <1>15, <1>16, <1>17, <1>18, <2>1, SmallerClaim DEF Claim
  <2> QED BY <1>2, <1>3, <1>4, <2>1, ClaimsAdded DEF OwnInv
<1>20. EntryOK'
  <2> SUFFICES ASSUME NEW g \in Inums, Live(g)', Top(g)' # 0, Top(g)' \in Blocks,
                      NEW j \in 0 .. (NINDIRECT - 1)
               PROVE  blk'[Top(g)'][j] \in Nat
    BY DEF EntryOK
  <2>1. CASE Top(g)' = c
    BY <1>3, <1>5, <2>1, Sizes DEF ZeroBlock
  <2>2. CASE Top(g)' # c
    <3>1. Top(g)' = Top(g) /\ Live(g)
      BY <1>2, <1>4, <1>8, <1>14, <1>15, <2>2
    <3> QED BY <1>5, <3>1 DEF OwnInv, EntryOK
  <2> QED BY <2>1, <2>2
<1>21. FreeZero'
  BY <1>3, <1>5 DEF OwnInv, FreeZero
<1>22. LinkOK'
  <2> SUFFICES ASSUME NEW q \in Procs, run[q].op \in {"read", "write"}
               PROVE  /\ run[q].pc \in {"link", "sum"} => Top(run[q].f)' # 0
                      /\ run[q].pc = "link" => blk[Top(run[q].f)'][Bn(q) - NDIRECT] = 0
                      /\ run[q].pc = "sum" => blk[Top(run[q].f)'][Bn(q) - NDIRECT] # 0
    BY <1>5 DEF LinkOK, Top, ip, Bn
  <2>1. CASE q = p
    BY <1>1, <2>1
  <2>2. CASE q # p
    <3>1. run[q].f \in Inums /\ run[q].f # f
      BY <1>2, <2>2
    <3>2. Top(run[q].f)' = Top(run[q].f)
      BY <1>9, <1>5, <3>1 DEF Top, ip
    <3> QED BY <3>2 DEF OwnInv, LinkOK
  <2> QED BY <2>1, <2>2
<1> QED BY <1>5, <1>10, <1>11, <1>12, <1>13, <1>19, <1>20, <1>21, <1>22 DEF OwnInv, PanicOK

LEMMA BmapIndirectKeeps ==
  ASSUME OwnInv, Roomy', NEW p \in Procs, bmap_indirect(p)
  PROVE  OwnInv'
<1>0. SUFFICES ASSUME NEW CONSTANT f, f = run[p].f, NEW CONSTANT c, c = NextFree,
                    NEW CONSTANT n, n = Bn(p),
                    NEW CONSTANT r, r = [run[p] EXCEPT !.pc = "link", !.new = c]
             PROVE  OwnInv'
  OBVIOUS
<1>1. run[p].op \in {"read", "write"} /\ run[p].pc = "bmap" /\ run[p].f = f
  BY <1>0 DEF bmap_indirect, At
<1>2. /\ RunOK(run[p]) /\ DOMAIN run = Procs /\ f \in Inums /\ mk.phase = "run"
      /\ mem[f] # Out /\ Linked(f) /\ Live(f) /\ Root(f) = Top(f)
      /\ \A j : ~Gone(f, j)
      /\ \A q \in Procs \ {p} : run[q].op # "idle" => run[q].f \in Inums /\ run[q].f # f
  BY <1>1, WorkFacts
<1>3. /\ c \in Nat /\ c \in Bits /\ c \in Blocks /\ c > 0 /\ c < TAG /\ AddrMask(c) = c
      /\ ~Taken(c) /\ blk[c] = ZeroBlock
      /\ \A b : Taken(b)' <=> Taken(b) \/ b = c
      /\ bit' \in [Bits -> {0, 1}] /\ \A b \in 0 .. (FirstData - 1) : bit'[b] = 1
  <2>1. balloc /\ mk' = mk
    BY DEF bmap_indirect
  <2> QED BY <1>0, <1>2, <2>1, BallocFacts
<1>4. n \in 0 .. (MAXFILE - 1) /\ n = run[p].off \div BSIZE
  BY <1>0, <1>1, <1>2, PieceType DEF Bn
<1>5. /\ n >= NDIRECT /\ Top(f) # 0 /\ AddrMask(blk[Top(f)][n - NDIRECT]) = 0
      /\ run' = [run EXCEPT ![p] = r] /\ UNCHANGED <<dino, blk, mk, mem, panicked>>
  <2>1. /\ n >= NDIRECT /\ Root(f) # 0 /\ BlockOf(f, n) = 0
        /\ run' = [run EXCEPT ![p].pc = "link", ![p].new = c]
        /\ UNCHANGED <<dino, blk, mk, mem, panicked>>
    BY <1>0, <1>1, <1>3 DEF bmap_indirect
  <2>2. run' = [run EXCEPT ![p] = r]
    BY <1>0, <1>2, <2>1
  <2>3. ~(n < NDIRECT)
    BY <1>4, <2>1, Sizes
  <2> QED BY <1>2, <2>1, <2>2, <2>3 DEF BlockOf, Entry
<1>6. n + 1 \in 0 .. MAXFILE /\ n - NDIRECT \in 0 .. (NINDIRECT - 1)
      /\ n + 1 = NDIRECT + 1 + (n - NDIRECT)
  BY <1>4, <1>5, Sizes
<1>7. blk[Top(f)][n - NDIRECT] = 0
  BY <1>2, <1>5, <1>6, NoBlockZero
<1>8. /\ DOMAIN r = DOMAIN run[p] /\ r.op = run[p].op /\ r.f = f /\ r.pc = "link"
      /\ r.new = c /\ r.off = run[p].off /\ r.end = run[p].end /\ r.start = run[p].start
  BY <1>0, <1>1, <1>2 DEF RunOK
<1>9. RunOK(r)
  BY <1>1, <1>2, <1>3, <1>4, <1>5, <1>8 DEF RunOK
<1>10. run'[p] = r /\ \A q \in Procs \ {p} : run'[q] = run[q]
  BY <1>2, <1>5
<1>11. TypeOK'
  BY <1>3, <1>5, <1>9, <1>10 DEF OwnInv, TypeOK
<1>12. MkOK'
  BY <1>2, <1>3, <1>5 DEF OwnInv, MkOK
<1>13. BusyOK'
  BY <1>1, <1>2, <1>5, <1>8, <1>10 DEF OwnInv, BusyOK, Linked
<1>14. MemOK'
  BY <1>5 DEF OwnInv, MemOK, Linked
<1>15. \A g \in Inums : ip(g)' = ip(g) /\ Top(g)' = Top(g) /\ (Live(g)' => Live(g))
  BY <1>1, <1>5, <1>8, <1>10 DEF ip, Top, Live, Linked
<1>16. \A g \in Inums : \A j : Gone(g, j)' <=> Gone(g, j)
  BY <1>1, <1>8, <1>10 DEF Gone, In
<1>17. \A g \in Inums : Smaller(g)
  BY <1>5, <1>15, <1>16 DEF Smaller
<1>18. ASSUME NEW g \in Inums, NEW m, NEW b, Pending(g, m, b)'
       PROVE  Pending(g, m, b) \/ (g = f /\ m = n + 1 /\ b = c)
  BY <1>4, <1>8, <1>10, <1>18 DEF Pending, At, Bn
<1>19. ClaimOK'
  <2>1. ASSUME NEW g \in Inums, NEW m \in 0 .. MAXFILE, NEW b \in Nat, Claim(g, m, b)'
        PROVE  Claim(g, m, b) \/ (g = f /\ m = n + 1 /\ b = c)
    BY <1>17, <1>18, <2>1, SmallerClaim DEF Claim
  <2>2. PICK m \in 0 .. MAXFILE : m = n + 1
    BY <1>6
  <2> QED BY <1>2, <1>3, <2>1, <2>2, ClaimsAdded DEF OwnInv
<1>20. EntryOK'
  BY <1>5, <1>15 DEF OwnInv, EntryOK
<1>21. FreeZero'
  BY <1>3, <1>5 DEF OwnInv, FreeZero
<1>22. LinkOK'
  <2> SUFFICES ASSUME NEW q \in Procs, run'[q].op \in {"read", "write"}
               PROVE  /\ run'[q].pc \in {"link", "sum"} => Top(run'[q].f) # 0
                      /\ run'[q].pc = "link" => blk[Top(run'[q].f)][Bn(q)' - NDIRECT] = 0
                      /\ run'[q].pc = "sum" => blk[Top(run'[q].f)][Bn(q)' - NDIRECT] # 0
    BY <1>5 DEF LinkOK, Top, ip
  <2>1. CASE q = p
    <3>1. Bn(q)' = n /\ run'[q].f = f /\ run'[q].pc = "link"
      BY <1>4, <1>8, <1>10, <2>1 DEF Bn
    <3> QED BY <1>5, <1>7, <3>1
  <2>2. CASE q # p
    BY <1>10, <2>2 DEF OwnInv, LinkOK, Bn
  <2> QED BY <2>1, <2>2
<1> QED BY <1>5, <1>11, <1>12, <1>13, <1>14, <1>19, <1>20, <1>21, <1>22 DEF OwnInv, PanicOK

\* The block of one file's addresses is not that of another's.
LEMMA OtherTop ==
  ASSUME OwnInv, NEW f \in Inums, Live(f), Top(f) # 0, NEW g \in Inums, Live(g), Top(g) = Top(f)
  PROVE  g = f
<1>1. Claim(f, NDIRECT, Top(f)) /\ Claim(g, NDIRECT, Top(f)) /\ NDIRECT \in 0 .. MAXFILE
      /\ Top(f) \in Nat
  BY TopClaim, TopType, Sizes DEF OwnInv
<1> QED BY <1>1 DEF OwnInv, ClaimOK

LEMMA TopBlock ==
  ASSUME OwnInv, Roomy, mk.phase = "run", NEW f \in Inums, Live(f), Top(f) # 0
  PROVE  Top(f) \in Blocks /\ Taken(Top(f))
<1>1. Claim(f, NDIRECT, Top(f)) /\ NDIRECT \in 0 .. MAXFILE /\ Top(f) \in Nat
  BY TopClaim, TopType, Sizes DEF OwnInv
<1> QED BY <1>1, ClaimBlock DEF OwnInv, ClaimOK

\* An entry of the indirect block is written, for a block that is the
\* file's own.
SetEntry(p, f, k, e, r) ==
  /\ run[p].op \in {"read", "write"} /\ run[p].pc \in {"link", "sum"} /\ run[p].f = f
  /\ k = Bn(p) - NDIRECT /\ k \in 0 .. (NINDIRECT - 1) /\ e \in Nat /\ e # 0
  /\ Claim(f, NDIRECT + 1 + k, AddrMask(e))
  /\ RunOK(r) /\ r.op = run[p].op /\ r.f = f /\ r.pc \notin {"link", "sum"}
  /\ run' = [run EXCEPT ![p] = r] /\ blk' = [blk EXCEPT ![Top(f)][k] = e]
  /\ UNCHANGED <<dino, bit, mk, mem, panicked>>

LEMMA SetEntryKeeps ==
  ASSUME OwnInv, Roomy, NEW p \in Procs, NEW f, NEW k, NEW e, NEW r, SetEntry(p, f, k, e, r)
  PROVE  OwnInv'
<1> USE DEF SetEntry
<1>1. /\ RunOK(run[p]) /\ DOMAIN run = Procs /\ f \in Inums /\ mk.phase = "run"
      /\ mem[f] # Out /\ Linked(f) /\ Live(f)
      /\ \A j : ~Gone(f, j)
      /\ \A q \in Procs \ {p} : run[q].op # "idle" => run[q].f \in Inums /\ run[q].f # f
  BY WorkFacts
<1>2. Top(f) # 0 /\ Top(f) \in Blocks /\ Taken(Top(f))
  BY <1>1, TopBlock DEF OwnInv, LinkOK
<1>3. run'[p] = r /\ \A q \in Procs \ {p} : run'[q] = run[q]
  BY <1>1
<1>4. DOMAIN blk = Blocks /\ DOMAIN blk[Top(f)] = 0 .. (BSIZE - 1) /\ k \in 0 .. (BSIZE - 1)
  BY <1>2, Sizes DEF OwnInv, TypeOK
<1>5. /\ DOMAIN blk' = Blocks /\ \A b \in Blocks \ {Top(f)} : blk'[b] = blk[b]
      /\ DOMAIN blk'[Top(f)] = 0 .. (BSIZE - 1) /\ blk'[Top(f)][k] = e
      /\ \A j \in 0 .. (BSIZE - 1) : j # k => blk'[Top(f)][j] = blk[Top(f)][j]
  BY <1>2, <1>4
<1>6. \A g \in Inums : ip(g)' = ip(g) /\ Top(g)' = Top(g) /\ (Live(g)' => Live(g))
  BY <1>3 DEF ip, Top, Live, Linked
<1>7. ASSUME NEW g \in Inums, g # f, Live(g), Top(g) # 0
      PROVE  blk'[Top(g)] = blk[Top(g)]
  <2>1. Top(g) # Top(f)
    BY <1>1, <1>2, <1>7, OtherTop
  <2>2. Top(g) \in Blocks
    BY <1>1, <1>7, TopBlock
  <2> QED BY <1>5, <2>1, <2>2
<1>8. TypeOK'
  BY <1>3, <1>4, <1>5 DEF OwnInv, TypeOK
<1>9. MkOK'
  BY <1>1 DEF OwnInv, MkOK
<1>10. BusyOK'
  BY <1>1, <1>3 DEF OwnInv, BusyOK, Linked
<1>11. MemOK'
  BY DEF OwnInv, MemOK, Linked
<1>12. \A b : Taken(b)' <=> Taken(b)
  BY DEF Taken
<1>13. \A g \in Inums : \A j : Gone(g, j)' <=> Gone(g, j)
  BY <1>3 DEF Gone, In
<1>14. \A g \in Inums : \A n, b : Pending(g, n, b)' => Pending(g, n, b)
  BY <1>3 DEF Pending, At, Bn
<1>15. ASSUME NEW g \in Inums, NEW n \in 0 .. MAXFILE, NEW b \in Nat, Claim(g, n, b)'
       PROVE  Claim(g, n, b)
  <2>1. CASE InNode(g, n, b)'
    BY <1>6, <2>1 DEF InNode, Claim
  <2>2. CASE InBlock(g, n, b)'
    <3>1. PICK j \in 0 .. (NINDIRECT - 1) :
            /\ Live(g) /\ n = NDIRECT + 1 + j /\ Top(g) # 0 /\ ~Gone(g, j)
            /\ blk'[Top(g)][j] # 0 /\ b = AddrMask(blk'[Top(g)][j])
      BY <1>6, <1>13, <2>2 DEF InBlock
    <3>2. CASE g = f /\ j = k
      BY <1>5, <3>1, <3>2
    <3>3. CASE g # f \/ j # k
      <4>1. blk'[Top(g)][j] = blk[Top(g)][j]
        BY <1>5, <1>7, <3>1, <3>3, Sizes
      <4> QED BY <3>1, <4>1 DEF InBlock, Claim
    <3> QED BY <3>2, <3>3
  <2>3. CASE Pending(g, n, b)'
    BY <1>14, <2>3 DEF Claim
  <2> QED BY <1>15, <2>1, <2>2, <2>3 DEF Claim
<1>16. ClaimOK'
  BY <1>12, <1>15, ClaimsKept DEF OwnInv
<1>17. EntryOK'
  <2> SUFFICES ASSUME NEW g \in Inums, Live(g), Top(g) # 0, Top(g) \in Blocks,
                      NEW j \in 0 .. (NINDIRECT - 1)
               PROVE  blk'[Top(g)][j] \in Nat
    BY <1>6 DEF EntryOK
  <2>1. blk[Top(g)][j] \in Nat
    BY DEF OwnInv, EntryOK
  <2>2. CASE g = f
    BY <1>5, <2>1, <2>2, Sizes
  <2> QED BY <1>7, <2>1, <2>2
<1>18. FreeZero'
  BY <1>2, <1>5, <1>12 DEF OwnInv, FreeZero
<1>19. LinkOK'
  <2>0. dino' = dino /\ mem' = mem
    OBVIOUS
  <2> HIDE DEF SetEntry
  <2> SUFFICES ASSUME NEW q \in Procs, run'[q].op \in {"read", "write"}
               PROVE  /\ run'[q].pc \in {"link", "sum"} => Top(run'[q].f) # 0
                      /\ run'[q].pc = "link" => blk'[Top(run'[q].f)][Bn(q)' - NDIRECT] = 0
                      /\ run'[q].pc = "sum" => blk'[Top(run'[q].f)][Bn(q)' - NDIRECT] # 0
    BY <2>0 DEF LinkOK, Top, ip
  <2>1. CASE q = p
    BY <1>3, <2>1 DEF SetEntry
  <2>2. CASE q # p
    <3>1. run'[q] = run[q] /\ run[q].f \in Inums /\ run[q].f # f /\ Live(run[q].f)
      BY <1>1, <1>3, <2>2 DEF OwnInv, BusyOK, Live
    <3>2. Top(run[q].f) # 0 => blk'[Top(run[q].f)] = blk[Top(run[q].f)]
      BY <1>7, <3>1
    <3> QED BY <3>1, <3>2 DEF OwnInv, LinkOK, Bn
  <2> QED BY <2>1, <2>2
<1> QED BY <1>8, <1>9, <1>10, <1>11, <1>16, <1>17, <1>18, <1>19 DEF OwnInv, PanicOK

LEMMA BmapLinkKeeps ==
  ASSUME OwnInv, Roomy, NEW p \in Procs, bmap_link(p)
  PROVE  OwnInv'
<1>0. SUFFICES ASSUME NEW CONSTANT f, f = run[p].f, NEW CONSTANT k, k = Bn(p) - NDIRECT,
                    NEW CONSTANT e, e = run[p].new,
                    NEW CONSTANT r, r = [run[p] EXCEPT !.pc = "bmap"]
             PROVE  OwnInv'
  OBVIOUS
<1>1. run[p].op \in {"read", "write"} /\ run[p].pc = "link" /\ run[p].f = f
  BY <1>0 DEF bmap_link, At
<1>2. RunOK(run[p]) /\ DOMAIN run = Procs /\ f \in Inums /\ mk.phase = "run" /\ Root(f) = Top(f)
  BY <1>1, WorkFacts
<1>3. Bn(p) \in 0 .. (MAXFILE - 1) /\ Bn(p) >= NDIRECT /\ e \in Nat
  BY <1>0, <1>1, <1>2, PieceType DEF RunOK, Bn
<1>4. k \in 0 .. (NINDIRECT - 1) /\ NDIRECT + 1 + k = Bn(p) + 1 /\ NDIRECT + 1 + k \in 0 .. MAXFILE
  BY <1>0, <1>3, Sizes
<1>5. Claim(f, NDIRECT + 1 + k, e)
  BY <1>0, <1>1, <1>4 DEF Claim, Pending, At
<1>6. e # 0 /\ AddrMask(e) = e
  <2>1. PICK n \in 0 .. MAXFILE : n = NDIRECT + 1 + k
    BY <1>4
  <2>2. e < TAG /\ e >= FirstData
    BY <1>2, <1>3, <1>5, <2>1, ClaimBlock DEF OwnInv
  <2> QED BY <1>3, <2>2, Untagged, Sizes
<1>7. /\ DOMAIN r = DOMAIN run[p] /\ r.op = run[p].op /\ r.f = f /\ r.pc = "bmap"
      /\ r.new = e /\ r.off = run[p].off /\ r.end = run[p].end /\ r.start = run[p].start
  BY <1>0, <1>1, <1>2 DEF RunOK
<1>8. RunOK(r)
  BY <1>1, <1>2, <1>3, <1>7 DEF RunOK
<1>9. /\ run' = [run EXCEPT ![p] = r] /\ blk' = [blk EXCEPT ![Top(f)][k] = e]
      /\ UNCHANGED <<dino, bit, mk, mem, panicked>>
  BY <1>0, <1>2 DEF bmap_link, Goto
<1>10. SetEntry(p, f, k, e, r)
  BY <1>0, <1>1, <1>3, <1>4, <1>5, <1>6, <1>7, <1>8, <1>9 DEF SetEntry
<1> QED BY <1>10, SetEntryKeeps

\* The process goes on with the next block, or is at the end.
LEMMA Advances ==
  ASSUME OwnInv, NEW p \in Procs, run[p].op = "write", run[p].pc # "iupdate", Advance(p)
  PROVE  \E r : /\ RunOK(r) /\ r.op = "write" /\ r.f = run[p].f /\ r.pc \in {"bmap", "iupdate"}
                /\ run' = [run EXCEPT ![p] = r]
<1> DEFINE o == run[p].off + Piece(p)
           c == IF o < run[p].end THEN "bmap" ELSE "iupdate"
           r == [run[p] EXCEPT !.off = o, !.pc = c]
<1>1. RunOK(run[p]) /\ DOMAIN run = Procs
  BY DEF OwnInv, TypeOK
<1>2. Piece(p) \in Nat \ {0} /\ o <= run[p].end
  BY <1>1, PieceType
<1>3. o \in Nat
  BY <1>1, <1>2 DEF RunOK
<1>4. run' = [run EXCEPT ![p] = r]
  BY <1>1 DEF Advance
<1> HIDE DEF o
<1>5. /\ DOMAIN r = DOMAIN run[p] /\ r.op = run[p].op /\ r.f = run[p].f /\ r.pc = c
      /\ r.new = run[p].new /\ r.off = o /\ r.end = run[p].end /\ r.start = run[p].start
  BY <1>1 DEF RunOK
<1>6. c \in {"bmap", "iupdate"} /\ (c = "bmap" => o < run[p].end)
  OBVIOUS
<1> HIDE DEF r, c
<1>7. RunOK(r)
  BY <1>1, <1>2, <1>3, <1>5, <1>6 DEF RunOK
<1> QED BY <1>4, <1>5, <1>6, <1>7

LEMMA WriteSumKeeps ==
  ASSUME OwnInv, Roomy, NEW p \in Procs, writei_sum(p)
  PROVE  OwnInv'
<1>0. SUFFICES ASSUME NEW CONSTANT f, f = run[p].f, NEW CONSTANT k, k = Bn(p) - NDIRECT,
                    NEW CONSTANT a, a = blk[Top(f)][k], NEW CONSTANT b, b = AddrMask(a),
                    NEW CONSTANT s, s = SumOf(blk[b]), NEW CONSTANT e, e = b + TAG * s
             PROVE  OwnInv'
  OBVIOUS
<1>1. run[p].op \in {"read", "write"} /\ run[p].pc = "sum" /\ run[p].f = f
  BY <1>0 DEF writei_sum, At
<1>2. /\ RunOK(run[p]) /\ DOMAIN run = Procs /\ f \in Inums /\ mk.phase = "run"
      /\ Live(f) /\ Root(f) = Top(f) /\ ~Gone(f, k)
  BY <1>1, WorkFacts
<1>3. Bn(p) \in 0 .. (MAXFILE - 1) /\ Bn(p) >= NDIRECT /\ run[p].op = "write"
  BY <1>0, <1>1, <1>2, PieceType DEF RunOK, Bn
<1>4. k \in 0 .. (NINDIRECT - 1) /\ NDIRECT + 1 + k = Bn(p) + 1 /\ NDIRECT + 1 + k \in 0 .. MAXFILE
      /\ ~(Bn(p) < NDIRECT)
  BY <1>0, <1>3, Sizes
<1>5. Top(f) # 0 /\ Top(f) \in Blocks /\ a # 0
  BY <1>0, <1>1, <1>2, TopBlock DEF OwnInv, LinkOK
<1>6. a \in Nat
  BY <1>0, <1>2, <1>4, <1>5 DEF OwnInv, EntryOK
<1>7. b \in 0 .. (TAG - 1) /\ b \in Nat
  BY <1>0, <1>6, MaskType, Sizes
<1>8. Claim(f, NDIRECT + 1 + k, b)
  BY <1>0, <1>2, <1>4, <1>5 DEF Claim, InBlock
<1>9. b # 0 /\ b \in Blocks
  <2>1. PICK n \in 0 .. MAXFILE : n = NDIRECT + 1 + k
    BY <1>4
  <2> QED BY <1>2, <1>7, <1>8, <2>1, ClaimBlock, Sizes DEF OwnInv
<1>10. s \in {0, 1}
  <2>1. DOMAIN blk[b] = 0 .. (BSIZE - 1)
    BY <1>9 DEF OwnInv, TypeOK
  <2>2. IsFiniteSet(0 .. (BSIZE - 1))
    BY FS_Interval, Sizes
  <2> QED BY <1>0, <2>1, <2>2, SumType
<1>11. e \in Nat /\ AddrMask(e) = b /\ e # 0
  <2>1. e \in Nat /\ AddrMask(e) = b
    BY <1>0, <1>7, <1>10, Tagged
  <2>2. AddrMask(0) = 0
    BY Untagged, Sizes
  <2> QED BY <1>9, <2>1, <2>2
<1>12. PICK r : /\ RunOK(r) /\ r.op = "write" /\ r.f = run[p].f /\ r.pc \in {"bmap", "iupdate"}
                /\ run' = [run EXCEPT ![p] = r]
  <2>1. Advance(p)
    BY DEF writei_sum
  <2> QED BY <1>1, <1>3, <2>1, Advances
<1>13. blk' = [blk EXCEPT ![Top(f)][k] = e] /\ UNCHANGED <<dino, bit, mk, mem, panicked>>
  <2>1. BlockOf(f, Bn(p)) = b
    BY <1>0, <1>2, <1>4 DEF BlockOf, Entry
  <2> QED BY <1>0, <1>2, <2>1 DEF writei_sum
<1>14. SetEntry(p, f, k, e, r)
  BY <1>0, <1>1, <1>3, <1>4, <1>8, <1>11, <1>12, <1>13 DEF SetEntry
<1> QED BY <1>14, SetEntryKeeps

----------------------------------------------------------------------------
(* The contents of a block of data change.                                 *)

LEMMA DataBlock ==
  ASSUME OwnInv, Roomy, mk.phase = "run", NEW f \in Inums, NEW n \in 0 .. MAXFILE, n # NDIRECT,
         NEW b \in Nat, Claim(f, n, b), NEW c, DOMAIN c = 0 .. (BSIZE - 1),
         blk' = [blk EXCEPT ![b] = c], bit' = bit, mk' = mk
  PROVE  /\ DOMAIN blk' = Blocks /\ \A d \in Blocks : DOMAIN blk'[d] = 0 .. (BSIZE - 1)
         /\ \A g \in Inums : Live(g) /\ Top(g) # 0 => blk'[Top(g)] = blk[Top(g)]
         /\ FreeZero' /\ \A d : Taken(d)' <=> Taken(d)
<1>1. b \in Blocks /\ Taken(b)
  BY ClaimBlock DEF OwnInv, ClaimOK
<1>2. blk'[b] = c /\ DOMAIN blk' = Blocks /\ \A d \in Blocks \ {b} : blk'[d] = blk[d]
  BY <1>1 DEF OwnInv, TypeOK
<1>3. \A d \in Blocks : DOMAIN blk'[d] = 0 .. (BSIZE - 1)
  BY <1>2 DEF OwnInv, TypeOK
<1>4. ASSUME NEW g \in Inums, Live(g), Top(g) # 0 PROVE blk'[Top(g)] = blk[Top(g)]
  <2>1. Top(g) # b
    BY <1>4, NotTheTop DEF OwnInv
  <2>2. Top(g) \in Blocks
    BY <1>4, TopBlock
  <2> QED BY <1>2, <2>1, <2>2
<1>5. \A d : Taken(d)' <=> Taken(d)
  BY DEF Taken
<1>6. FreeZero'
  BY <1>1, <1>2, <1>5 DEF OwnInv, FreeZero
<1> QED BY <1>2, <1>3, <1>4, <1>5, <1>6

\* What a linked inode leads to on the disk, it leads to in memory.
LEMMA RefsClaimed ==
  ASSUME OwnInv, Roomy, mk.phase = "run", NEW f \in Inums, Linked(f), \A j : ~Gone(f, j), NEW node \in {dino[f], ip(f)},
         NEW r \in Refs(node)
  PROVE  r[1] \in 0 .. MAXFILE /\ r[2] \in Nat /\ Claim(f, r[1], r[2])
<1>1. Live(f)
  BY DEF Live
<1>2. node \in Node /\ node.addrs \in [0 .. NDIRECT -> Nat]
  BY IpIsNode DEF OwnInv, Node
<1>3. \A i \in 0 .. NDIRECT : node.addrs[i] # 0 =>
        ip(f).addrs[i] # 0 /\ AddrMask(node.addrs[i]) = AddrMask(ip(f).addrs[i])
  BY DEF OwnInv, MemOK, ip
<1>4. CASE r \in {<<n, AddrMask(node.addrs[n])>> : n \in {i \in 0 .. NDIRECT : node.addrs[i] # 0}}
  <2>1. PICK n \in 0 .. NDIRECT : node.addrs[n] # 0 /\ r = <<n, AddrMask(node.addrs[n])>>
    BY <1>4
  <2>2. AddrMask(node.addrs[n]) \in Nat /\ n \in 0 .. MAXFILE
    <3>1. node.addrs[n] \in Nat
      BY <1>2
    <3>2. AddrMask(node.addrs[n]) \in 0 .. (TAG - 1)
      BY <3>1, MaskType
    <3> QED BY <3>2, Sizes
  <2>3. Claim(f, n, AddrMask(node.addrs[n]))
    BY <1>1, <1>3, <2>1 DEF Claim, InNode
  <2> QED BY <2>1, <2>2, <2>3
<1>5. CASE /\ AddrMask(node.addrs[NDIRECT]) # 0
           /\ r \in {<<NDIRECT + 1 + j, AddrMask(blk[AddrMask(node.addrs[NDIRECT])][j])>> :
                       j \in {i \in 0 .. (NINDIRECT - 1) :
                                blk[AddrMask(node.addrs[NDIRECT])][i] # 0}}
  <2>1. AddrMask(0) = 0 /\ NDIRECT \in 0 .. NDIRECT
    BY Untagged, Sizes
  <2>2. node.addrs[NDIRECT] # 0
    BY <1>5, <2>1
  <2>3. AddrMask(node.addrs[NDIRECT]) = Top(f) /\ Top(f) # 0
    BY <1>3, <2>1, <2>2, TopMask DEF Top, OwnInv
  <2>4. PICK j \in 0 .. (NINDIRECT - 1) :
          blk[Top(f)][j] # 0 /\ r = <<NDIRECT + 1 + j, AddrMask(blk[Top(f)][j])>>
    BY <1>5, <2>3
  <2>5. NDIRECT + 1 + j \in 0 .. MAXFILE
    BY Sizes
  <2>6. Claim(f, NDIRECT + 1 + j, AddrMask(blk[Top(f)][j]))
    BY <1>1, <2>3, <2>4 DEF Claim, InBlock
  <2>7. AddrMask(blk[Top(f)][j]) \in Nat
    <3>1. Top(f) \in Blocks
      BY <1>1, <2>3, TopBlock
    <3>2. blk[Top(f)][j] \in Nat
      BY <1>1, <2>3, <3>1 DEF OwnInv, EntryOK
    <3> QED BY <3>2, MaskType, Sizes
  <2> QED BY <2>4, <2>5, <2>6, <2>7
<1> QED BY <1>4, <1>5 DEF Refs

LEMMA RotKeeps ==
  ASSUME OwnInv, Roomy, NEW f \in Inums, Rot(f)
  PROVE  OwnInv'
<1>1. /\ mk.phase = "run" /\ Free(f) /\ Linked(f)
      /\ UNCHANGED <<dino, bit, mk, mem, run, panicked>>
  BY DEF Rot
<1>2. PICK r \in Refs(dino[f]), u \in 0 .. (BSIZE - 1) :
        r[1] # NDIRECT /\ blk' = [blk EXCEPT ![r[2]][u] = 1 - @]
  BY DEF Rot
<1>3. \A j : ~Gone(f, j)
  BY <1>1 DEF Gone, In, Free
<1>4. PICK n \in 0 .. MAXFILE, b \in Nat : n # NDIRECT /\ n = r[1] /\ b = r[2] /\ Claim(f, n, b)
  BY <1>1, <1>2, <1>3, RefsClaimed
<1>5. b \in Blocks
  BY <1>1, <1>4, ClaimBlock DEF OwnInv
<1>6. PICK c : c = [blk[b] EXCEPT ![u] = 1 - @]
  OBVIOUS
<1>7. DOMAIN c = 0 .. (BSIZE - 1) /\ blk' = [blk EXCEPT ![b] = c]
  BY <1>2, <1>4, <1>5, <1>6 DEF OwnInv, TypeOK
<1>8. /\ DOMAIN blk' = Blocks /\ \A d \in Blocks : DOMAIN blk'[d] = 0 .. (BSIZE - 1)
      /\ \A g \in Inums : Live(g) /\ Top(g) # 0 => blk'[Top(g)] = blk[Top(g)]
      /\ FreeZero' /\ \A d : Taken(d)' <=> Taken(d)
  BY <1>1, <1>4, <1>7, DataBlock
<1>9. TypeOK'
  BY <1>1, <1>8 DEF OwnInv, TypeOK
<1>10. MkOK'
  BY <1>1 DEF OwnInv, MkOK
<1>11. BusyOK' /\ MemOK'
  BY <1>1 DEF OwnInv, BusyOK, MemOK, Linked
<1>12. \A g \in Inums : ip(g)' = ip(g) /\ Top(g)' = Top(g) /\ (Live(g)' <=> Live(g))
  BY <1>1 DEF ip, Top, Live, Linked
<1>13. \A g \in Inums : \A j : Gone(g, j)' <=> Gone(g, j)
  BY <1>1 DEF Gone, In
<1>14. \A g \in Inums : Smaller(g)
  BY <1>8, <1>12, <1>13 DEF Smaller
<1>15. \A g \in Inums : \A m, d : Pending(g, m, d)' => Pending(g, m, d)
  BY <1>1 DEF Pending, At, Bn
<1>16. ClaimOK'
  BY <1>8, <1>14, <1>15, SmallerClaim, ClaimsKept DEF OwnInv, Claim
<1>17. EntryOK'
  BY <1>8, <1>12 DEF OwnInv, EntryOK
<1>18. LinkOK'
  <2> SUFFICES ASSUME NEW q \in Procs, run[q].op \in {"read", "write"}
               PROVE  /\ run[q].pc \in {"link", "sum"} => Top(run[q].f) # 0
                      /\ run[q].pc = "link" => blk'[Top(run[q].f)][Bn(q) - NDIRECT] = 0
                      /\ run[q].pc = "sum" => blk'[Top(run[q].f)][Bn(q) - NDIRECT] # 0
    BY <1>1 DEF LinkOK, Top, ip, Bn
  <2>1. run[q].f \in Inums /\ Live(run[q].f)
    BY WorkFacts
  <2>2. Top(run[q].f) # 0 => blk'[Top(run[q].f)] = blk[Top(run[q].f)]
    BY <1>8, <2>1
  <2> QED BY <2>2 DEF OwnInv, LinkOK
<1> QED BY <1>1, <1>8, <1>9, <1>10, <1>11, <1>16, <1>17, <1>18 DEF OwnInv, PanicOK

LEMMA WriteBlockKeeps ==
  ASSUME OwnInv, Roomy, NEW p \in Procs, writei_block(p)
  PROVE  OwnInv'
<1>0. SUFFICES ASSUME NEW CONSTANT f, f = run[p].f, NEW CONSTANT n, n = Bn(p),
                      NEW CONSTANT b, b = BlockOf(f, n), NEW CONSTANT c, c = Copied(p, blk[b])
               PROVE  OwnInv'
  OBVIOUS
<1>1. run[p].op = "write" /\ run[p].pc = "bmap" /\ run[p].f = f
  BY <1>0 DEF writei_block, Mapped, At
<1>2. /\ RunOK(run[p]) /\ DOMAIN run = Procs /\ f \in Inums /\ mk.phase = "run"
      /\ mem[f] # Out /\ mem[f] \in Node /\ Linked(f) /\ Live(f)
      /\ ip(f) = mem[f] /\ Top(f) = mem[f].addrs[NDIRECT] /\ Root(f) = Top(f)
      /\ mem[f].addrs \in [0 .. NDIRECT -> Nat] /\ mem[f].addrs[NDIRECT] < TAG
      /\ \A j : ~Gone(f, j)
      /\ \A q \in Procs \ {p} : run[q].op # "idle" => run[q].f \in Inums /\ run[q].f # f
  BY <1>1, WorkFacts
<1>3. n \in 0 .. (MAXFILE - 1) /\ n = run[p].off \div BSIZE
  BY <1>0, <1>1, <1>2, PieceType DEF Bn
<1>4. /\ b # 0 /\ (n >= NDIRECT => Top(f) # 0)
      /\ blk' = [blk EXCEPT ![b] = c] /\ mem' = SumInInode(f, n, c)
      /\ IF Checked(f) /\ n >= NDIRECT THEN Goto(p, "sum") ELSE Advance(p)
      /\ UNCHANGED <<dino, bit, mk, panicked>>
  BY <1>0, <1>2 DEF writei_block, Mapped
<1>5. AddrMask(0) = 0
  BY Untagged, Sizes
<1>6. n >= NDIRECT =>
        /\ n - NDIRECT \in 0 .. (NINDIRECT - 1) /\ n + 1 = NDIRECT + 1 + (n - NDIRECT)
        /\ b = AddrMask(blk[Top(f)][n - NDIRECT]) /\ blk[Top(f)][n - NDIRECT] # 0
  <2> SUFFICES ASSUME n >= NDIRECT
               PROVE  /\ n - NDIRECT \in 0 .. (NINDIRECT - 1) /\ n + 1 = NDIRECT + 1 + (n - NDIRECT)
                      /\ b = AddrMask(blk[Top(f)][n - NDIRECT]) /\ blk[Top(f)][n - NDIRECT] # 0
    OBVIOUS
  <2>1. n - NDIRECT \in 0 .. (NINDIRECT - 1) /\ n + 1 = NDIRECT + 1 + (n - NDIRECT) /\ ~(n < NDIRECT)
    BY <1>3, Sizes
  <2>2. b = AddrMask(blk[Top(f)][n - NDIRECT])
    BY <1>0, <1>2, <2>1 DEF BlockOf, Entry
  <2> QED BY <1>4, <1>5, <2>1, <2>2
<1>7. n < NDIRECT => n \in 0 .. NDIRECT /\ b = AddrMask(mem[f].addrs[n]) /\ mem[f].addrs[n] # 0
  <2> SUFFICES ASSUME n < NDIRECT
               PROVE  n \in 0 .. NDIRECT /\ b = AddrMask(mem[f].addrs[n]) /\ mem[f].addrs[n] # 0
    OBVIOUS
  <2>1. b = AddrMask(mem[f].addrs[n])
    BY <1>0 DEF BlockOf, Entry
  <2>2. n \in 0 .. NDIRECT
    BY <1>3, Sizes
  <2> QED BY <1>4, <1>5, <2>1, <2>2
<1>8. PICK m \in 0 .. MAXFILE : m # NDIRECT /\ Claim(f, m, b)
  <2>1. CASE n < NDIRECT
    <3>1. Claim(f, n, b) /\ n \in 0 .. MAXFILE /\ n # NDIRECT
      BY <1>2, <1>3, <1>7, <2>1, Sizes DEF Claim, InNode
    <3> QED BY <3>1
  <2>2. CASE n >= NDIRECT
    <3>1. Claim(f, n + 1, b)
      BY <1>2, <1>4, <1>6, <2>2 DEF Claim, InBlock
    <3>2. n + 1 \in 0 .. MAXFILE /\ n + 1 # NDIRECT
      BY <1>3, <2>2, Sizes
    <3> QED BY <3>1, <3>2
  <2> QED BY <1>3, <2>1, <2>2, Sizes
<1>9. b \in Nat
  <2>1. CASE n < NDIRECT
    <3>1. mem[f].addrs[n] \in Nat
      BY <1>2, <1>7, <2>1
    <3> QED BY <1>7, <2>1, <3>1, MaskType, Sizes
  <2>2. CASE n >= NDIRECT
    <3>1. Top(f) \in Blocks
      BY <1>2, <1>4, <2>2, TopBlock
    <3>2. blk[Top(f)][n - NDIRECT] \in Nat
      BY <1>2, <1>4, <1>6, <2>2, <3>1 DEF OwnInv, EntryOK
    <3> QED BY <1>6, <2>2, <3>2, MaskType, Sizes
  <2> QED BY <1>3, <2>1, <2>2, Sizes
<1>10. b \in Blocks /\ b < TAG
  BY <1>2, <1>8, <1>9, ClaimBlock DEF OwnInv
<1>11. DOMAIN c = 0 .. (BSIZE - 1)
  BY <1>0, <1>10 DEF Copied, OwnInv, TypeOK
<1>12. /\ DOMAIN blk' = Blocks /\ \A d \in Blocks : DOMAIN blk'[d] = 0 .. (BSIZE - 1)
       /\ \A g \in Inums : Live(g) /\ Top(g) # 0 => blk'[Top(g)] = blk[Top(g)]
       /\ FreeZero' /\ \A d : Taken(d)' <=> Taken(d)
  BY <1>2, <1>4, <1>8, <1>9, <1>11, DataBlock
<1>13. PICK node : /\ node \in Node /\ mem' = [mem EXCEPT ![f] = node]
                   /\ node.type = mem[f].type /\ node.nlink = mem[f].nlink
                   /\ node.size = mem[f].size /\ node.addrs[NDIRECT] = mem[f].addrs[NDIRECT]
                   /\ \A i \in 0 .. NDIRECT : (node.addrs[i] # 0 <=> mem[f].addrs[i] # 0)
                        /\ AddrMask(node.addrs[i]) = AddrMask(mem[f].addrs[i])
  <2>1. CASE ~(n < NDIRECT /\ Checked(f))
    <3>1. mem' = [mem EXCEPT ![f] = mem[f]]
      BY <1>4, <2>1 DEF SumInInode, OwnInv, TypeOK
    <3> QED BY <1>2, <3>1
  <2>2. CASE n < NDIRECT /\ Checked(f)
    <3>0. SUFFICES ASSUME NEW CONSTANT s, s = SumOf(c), NEW CONSTANT e, e = b + TAG * s,
                          NEW CONSTANT node, node = [mem[f] EXCEPT !.addrs[n] = e]
                   PROVE  \E x : /\ x \in Node /\ mem' = [mem EXCEPT ![f] = x]
                   /\ x.type = mem[f].type /\ x.nlink = mem[f].nlink
                   /\ x.size = mem[f].size /\ x.addrs[NDIRECT] = mem[f].addrs[NDIRECT]
                   /\ \A i \in 0 .. NDIRECT : (x.addrs[i] # 0 <=> mem[f].addrs[i] # 0)
                        /\ AddrMask(x.addrs[i]) = AddrMask(mem[f].addrs[i])
      OBVIOUS
    <3>1. s \in {0, 1}
      <4>1. IsFiniteSet(0 .. (BSIZE - 1))
        BY FS_Interval, Sizes
      <4> QED BY <3>0, <1>11, <4>1, SumType
    <3>2. e \in Nat /\ AddrMask(e) = b /\ e # 0
      BY <3>0, <1>4, <1>5, <1>9, <1>10, <3>1, Tagged, Sizes
    <3>3. mem' = [mem EXCEPT ![f] = node]
      BY <3>0, <1>2, <1>4, <1>7, <2>2 DEF SumInInode
    <3>4. /\ node \in Node /\ node.type = mem[f].type /\ node.nlink = mem[f].nlink
          /\ node.size = mem[f].size /\ node.addrs = [mem[f].addrs EXCEPT ![n] = e]
      BY <3>0, <1>2, <1>7, <2>2, <3>2 DEF Node
    <3>5. /\ node.addrs[n] = e /\ n \in 0 .. NDIRECT
          /\ \A i \in 0 .. NDIRECT : i # n => node.addrs[i] = mem[f].addrs[i]
      BY <1>2, <1>7, <2>2, <3>4
    <3>6. node.addrs[NDIRECT] = mem[f].addrs[NDIRECT]
      BY <1>3, <2>2, <3>5, Sizes
    <3>7. \A i \in 0 .. NDIRECT : (node.addrs[i] # 0 <=> mem[f].addrs[i] # 0)
                        /\ AddrMask(node.addrs[i]) = AddrMask(mem[f].addrs[i])
      BY <1>7, <2>2, <3>2, <3>5
    <3> QED BY <3>3, <3>4, <3>6, <3>7
  <2> QED BY <2>1, <2>2
<1>14. PICK r : /\ RunOK(r) /\ r.op = "write" /\ r.f = f /\ run' = [run EXCEPT ![p] = r]
                /\ r.pc \in {"bmap", "iupdate"}
                     \/ (r.pc = "sum" /\ r.off = run[p].off /\ n >= NDIRECT)
  <2>1. CASE Advance(p)
    BY <1>1, <2>1, Advances
  <2>2. CASE Goto(p, "sum") /\ n >= NDIRECT
    <3> DEFINE r == [run[p] EXCEPT !.pc = "sum"]
    <3>1. run' = [run EXCEPT ![p] = r]
      BY <1>2, <2>2 DEF Goto
    <3>2. /\ DOMAIN r = DOMAIN run[p] /\ r.op = "write" /\ r.f = f /\ r.pc = "sum"
          /\ r.new = run[p].new /\ r.off = run[p].off /\ r.end = run[p].end /\ r.start = run[p].start
      BY <1>1, <1>2 DEF RunOK
    <3> HIDE DEF r
    <3>3. RunOK(r)
      BY <1>1, <1>2, <1>3, <2>2, <3>2 DEF RunOK
    <3> QED BY <2>2, <3>1, <3>2, <3>3
  <2> QED BY <1>4, <2>1, <2>2
<1>15. run'[p] = r /\ \A q \in Procs \ {p} : run'[q] = run[q]
  BY <1>2, <1>14
<1>16. mem'[f] = node /\ \A g \in Inums \ {f} : mem'[g] = mem[g]
  BY <1>2, <1>13 DEF OwnInv, TypeOK
<1>17. TypeOK'
  BY <1>4, <1>12, <1>13, <1>14, <1>15, <1>16 DEF OwnInv, TypeOK
<1>18. MkOK'
  BY <1>2, <1>4 DEF OwnInv, MkOK
<1>19. BusyOK'
  BY <1>1, <1>2, <1>4, <1>13, <1>14, <1>15, <1>16, OutIsNoNode DEF OwnInv, BusyOK, Linked
<1>20. MemOK'
  <2>1. \A i \in 0 .. NDIRECT : dino[f].addrs[i] # 0 =>
          node.addrs[i] # 0 /\ AddrMask(node.addrs[i]) = AddrMask(dino[f].addrs[i])
    BY <1>2, <1>13 DEF OwnInv, MemOK
  <2> QED BY <1>2, <1>4, <1>13, <1>16, <2>1 DEF OwnInv, MemOK, Linked
<1>21. ip(f)' = node /\ Top(f)' = Top(f)
  BY <1>2, <1>13, <1>16, OutIsNoNode DEF ip, Top
<1>22. ASSUME NEW g \in Inums, g # f
       PROVE  Smaller(g) /\ Top(g)' = Top(g) /\ (Live(g)' <=> Live(g))
  <2>1. Live(g) /\ Top(g) # 0 => blk'[Top(g)] = blk[Top(g)]
    BY <1>12
  <2>2. dino'[g] = dino[g] /\ mem'[g] = mem[g] /\ mk'.phase = mk.phase
    BY <1>4, <1>16, <1>22
  <2> QED BY <1>1, <1>2, <1>14, <1>15, <1>22, <2>1, <2>2, OtherInode
<1>23. Smaller(f)
  <2>1. \A j : ~Gone(f, j)'
    BY <1>2, <1>14, <1>15 DEF Gone, In
  <2> QED BY <1>2, <1>12, <1>13, <1>21, <2>1 DEF Smaller
<1>24. \A g \in Inums : \A k, d : Pending(g, k, d)' => Pending(g, k, d)
  BY <1>14, <1>15 DEF Pending, At, Bn
<1>25. ClaimOK'
  <2>1. \A g \in Inums : Smaller(g)
    BY <1>22, <1>23
  <2> QED BY <1>12, <1>24, <2>1, SmallerClaim, ClaimsKept DEF OwnInv, Claim
<1>26. EntryOK'
  BY <1>2, <1>12, <1>21, <1>22 DEF OwnInv, EntryOK
<1>27. LinkOK'
  <2> SUFFICES ASSUME NEW q \in Procs, run'[q].op \in {"read", "write"}
               PROVE  /\ run'[q].pc \in {"link", "sum"} => Top(run[q].f)' # 0
                      /\ run'[q].pc = "link" => blk'[Top(run[q].f)'][Bn(q)' - NDIRECT] = 0
                      /\ run'[q].pc = "sum" => blk'[Top(run[q].f)'][Bn(q)' - NDIRECT] # 0
                      /\ run'[q].f = run[q].f
    BY DEF LinkOK, Top, ip
  <2>1. CASE q = p
    <3>1. run'[q].f = f /\ run[q].f = f /\ run'[q].pc # "link"
      BY <1>1, <1>14, <1>15, <2>1
    <3>2. ASSUME run'[q].pc = "sum" PROVE Top(f) # 0 /\ blk'[Top(f)][Bn(q)' - NDIRECT] # 0
      <4>1. n >= NDIRECT /\ Bn(q)' = n
        BY <1>3, <1>14, <1>15, <2>1, <3>2 DEF Bn
      <4> QED BY <1>2, <1>4, <1>6, <1>12, <4>1
    <3>3. Top(run[q].f)' = Top(f)
      <4>1. mem'[run'[q].f] = node /\ node # Out
        BY <1>13, <1>16, <3>1, OutIsNoNode
      <4> QED BY <1>2, <1>13, <4>1 DEF Top, ip
    <3> QED BY <3>1, <3>2, <3>3
  <2>2. CASE q # p
    <3>1. run'[q] = run[q] /\ run[q].f \in Inums /\ run[q].f # f /\ Live(run[q].f)
      BY <1>2, <1>15, <2>2 DEF OwnInv, BusyOK, Live
    <3>2. Top(run[q].f) # 0 => blk'[Top(run[q].f)] = blk[Top(run[q].f)]
      BY <1>12, <3>1
    <3>3. Top(run[q].f)' = Top(run[q].f)
      <4>1. mem'[run[q].f] = mem[run[q].f] /\ run'[q].f = run[q].f
        BY <1>16, <3>1
      <4> QED BY <1>4, <4>1 DEF Top, ip
    <3> QED BY <3>1, <3>2, <3>3 DEF OwnInv, LinkOK, Bn
  <2> QED BY <2>1, <2>2
<1> QED BY <1>4, <1>12, <1>17, <1>18, <1>19, <1>20, <1>25, <1>26, <1>27 DEF OwnInv, PanicOK

----------------------------------------------------------------------------
(* mkfs                                                                    *)

LEMMA MkFacts ==
  ASSUME OwnInv, Roomy, mk.phase = "mkfs"
  PROVE  /\ \A p \in Procs : run[p].op = "idle"
         /\ \A f \in Inums : \A j : ~Gone(f, j)
         /\ \A f \in Inums : \A n, b : ~Pending(f, n, b)
         /\ \A b : Taken(b) <=> b \in FirstData .. (mk.freeblock - 1)
         /\ \A f \in Inums :
              /\ mem[f] = Out /\ ip(f) = dino[f] /\ Top(f) = dino[f].addrs[NDIRECT] /\ Live(f)
              /\ dino[f] \in Node /\ dino[f].addrs \in [0 .. NDIRECT -> Nat]
              /\ \A i \in 0 .. NDIRECT :
                   dino[f].addrs[i] \in Blocks /\ AddrMask(dino[f].addrs[i]) = dino[f].addrs[i]
              /\ dino[f].addrs[NDIRECT] # 0 => \A j \in 0 .. (NINDIRECT - 1) :
                   /\ blk[dino[f].addrs[NDIRECT]][j] \in Blocks
                   /\ AddrMask(blk[dino[f].addrs[NDIRECT]][j]) = blk[dino[f].addrs[NDIRECT]][j]
<1>1. (\A p \in Procs : run[p].op = "idle") /\ \A f \in Inums : mem[f] = Out
  BY DEF OwnInv, MkOK
<1>2. (\A f \in Inums : \A j : ~Gone(f, j)) /\ \A f \in Inums : \A n, b : ~Pending(f, n, b)
  BY <1>1 DEF Gone, In, Pending, At
<1>3. \A b : Taken(b) <=> b \in FirstData .. (mk.freeblock - 1)
  BY DEF Taken
<1>4. mk.freeblock \in Nat /\ mk.freeblock <= size
  BY DEF OwnInv, MkOK, Roomy
<1>5. \A x \in Nat : x < mk.freeblock => x \in Blocks /\ AddrMask(x) = x
  <2> SUFFICES ASSUME NEW x \in Nat, x < mk.freeblock PROVE x \in Blocks /\ AddrMask(x) = x
    OBVIOUS
  <2>1. x \in Blocks /\ x \in 0 .. (TAG - 1)
    BY <1>4, Sizes DEF Blocks
  <2> QED BY <2>1, Untagged
<1>6. ASSUME NEW f \in Inums
      PROVE  /\ ip(f) = dino[f] /\ Top(f) = dino[f].addrs[NDIRECT] /\ Live(f)
             /\ dino[f] \in Node /\ dino[f].addrs \in [0 .. NDIRECT -> Nat]
  <2>1. ip(f) = dino[f] /\ Top(f) = dino[f].addrs[NDIRECT] /\ Live(f)
    BY <1>1 DEF ip, Top, Live
  <2>2. dino[f] \in Node
    BY DEF OwnInv, TypeOK
  <2>3. dino[f].addrs \in [0 .. NDIRECT -> Nat]
    BY <2>2 DEF Node
  <2> QED BY <2>1, <2>2, <2>3
<1>7. ASSUME NEW f \in Inums, NEW i \in 0 .. NDIRECT
      PROVE  dino[f].addrs[i] \in Blocks /\ AddrMask(dino[f].addrs[i]) = dino[f].addrs[i]
  <2>1. dino[f].addrs[i] < mk.freeblock
    BY DEF OwnInv, MkOK
  <2> QED BY <1>5, <1>6, <2>1
<1>8. ASSUME NEW f \in Inums, dino[f].addrs[NDIRECT] # 0, NEW j \in 0 .. (NINDIRECT - 1)
      PROVE  /\ blk[dino[f].addrs[NDIRECT]][j] \in Blocks
             /\ AddrMask(blk[dino[f].addrs[NDIRECT]][j]) = blk[dino[f].addrs[NDIRECT]][j]
  <2>1. dino[f].addrs[NDIRECT] \in Blocks
    BY <1>7, Sizes
  <2>2. blk[dino[f].addrs[NDIRECT]][j] \in Nat
    BY <1>6, <1>8, <2>1 DEF OwnInv, EntryOK
  <2>3. blk[dino[f].addrs[NDIRECT]][j] < mk.freeblock
    BY <1>8 DEF OwnInv, MkOK
  <2> QED BY <1>5, <2>2, <2>3
<1> QED BY <1>1, <1>2, <1>3, <1>6, <1>7, <1>8

\* A step of mkfs: the kernel's part of the state is as it was.
LEMMA MkStepKeeps ==
  ASSUME OwnInv, Roomy', mk.phase = "mkfs", mk'.phase = "mkfs", UNCHANGED <<mem, run, bit, panicked>>,
         dino' \in [Inums -> Node], DOMAIN blk' = Blocks,
         \A b \in Blocks : DOMAIN blk'[b] = 0 .. (BSIZE - 1),
         MkOK', ClaimOK', EntryOK', FreeZero'
  PROVE  OwnInv'
<1>1. (\A p \in Procs : run[p].op = "idle") /\ \A f \in Inums : mem[f] = Out
  BY DEF OwnInv, MkOK
<1>2. TypeOK'
  BY DEF OwnInv, TypeOK
<1>3. BusyOK' /\ LinkOK'
  BY <1>1 DEF BusyOK, LinkOK
<1>4. MemOK'
  <2>1. ASSUME NEW f \in Inums PROVE dino'[f].addrs[NDIRECT] < TAG
    <3>1. dino'[f].addrs[NDIRECT] < mk'.freeblock /\ mk'.freeblock \in Nat
      BY Sizes DEF MkOK
    <3>2. dino'[f].addrs \in [0 .. NDIRECT -> Nat]
      BY DEF Node
    <3>3. mk'.freeblock <= size
      BY DEF Roomy
    <3>4. dino'[f].addrs[NDIRECT] \in Nat
      BY <3>2, Sizes
    <3> QED BY <3>1, <3>3, <3>4, Sizes
  <2> QED BY <1>1, <2>1 DEF MemOK
<1> QED BY <1>2, <1>3, <1>4 DEF OwnInv, PanicOK

\* The addresses in the inodes and the indirect blocks are as they were, or
\* gone.
LEMMA MkSmaller ==
  ASSUME OwnInv, Roomy, mk.phase = "mkfs", mk'.phase = "mkfs", UNCHANGED <<mem, run>>,
         NEW f \in Inums,
         \A i \in 0 .. NDIRECT : dino'[f].addrs[i] # 0 => dino'[f].addrs[i] = dino[f].addrs[i],
         dino[f].addrs[NDIRECT] # 0 => blk'[dino[f].addrs[NDIRECT]] = blk[dino[f].addrs[NDIRECT]]
  PROVE  Smaller(f) /\ Live(f)' /\ ip(f)' = dino'[f] /\ Top(f)' = dino'[f].addrs[NDIRECT]
<1>1. /\ mem[f] = Out /\ ip(f) = dino[f] /\ Top(f) = dino[f].addrs[NDIRECT] /\ Live(f)
      /\ \A j : ~Gone(f, j)
  BY MkFacts
<1>2. ip(f)' = dino'[f] /\ Top(f)' = dino'[f].addrs[NDIRECT] /\ Live(f)'
  BY <1>1 DEF ip, Top, Live
<1>3. Top(f)' # 0 => Top(f)' = Top(f) /\ Top(f) # 0
  BY <1>1, <1>2, Sizes
<1> QED BY <1>1, <1>2, <1>3 DEF Smaller

LEMMA MkQuiet ==
  ASSUME OwnInv, Roomy, mk.phase = "mkfs", mk'.phase = "mkfs", UNCHANGED <<mem, run>>,
         mk'.freeblock = mk.freeblock,
         \A f \in Inums, i \in 0 .. NDIRECT :
            dino'[f].addrs[i] # 0 => dino'[f].addrs[i] = dino[f].addrs[i],
         \A f \in Inums : dino[f].addrs[NDIRECT] # 0 =>
            blk'[dino[f].addrs[NDIRECT]] = blk[dino[f].addrs[NDIRECT]],
         \A b \in Blocks : ~Taken(b) => blk'[b] = blk[b]
  PROVE  ClaimOK' /\ EntryOK' /\ FreeZero'
<1>1. ASSUME NEW f \in Inums
      PROVE  Smaller(f) /\ Live(f)' /\ ip(f)' = dino'[f] /\ Top(f)' = dino'[f].addrs[NDIRECT]
  BY MkSmaller
<1>2. \A b : Taken(b)' <=> Taken(b)
  BY DEF Taken
<1>3. \A f \in Inums : \A n, b : Pending(f, n, b)' => Pending(f, n, b)
  BY DEF Pending, At, Bn
<1>4. ClaimOK'
  BY <1>1, <1>2, <1>3, SmallerClaim, ClaimsKept DEF OwnInv, Claim
<1>5. EntryOK'
  <2> SUFFICES ASSUME NEW f \in Inums, Live(f)', Top(f)' # 0, Top(f)' \in Blocks,
                      NEW j \in 0 .. (NINDIRECT - 1)
               PROVE  blk'[Top(f)'][j] \in Nat
    BY DEF EntryOK
  <2>1. Top(f)' = dino[f].addrs[NDIRECT] /\ dino[f].addrs[NDIRECT] # 0
        /\ Top(f) = dino[f].addrs[NDIRECT] /\ Live(f)
    BY <1>1, MkFacts, Sizes
  <2> QED BY <2>1 DEF OwnInv, EntryOK
<1>6. FreeZero'
  BY <1>2 DEF OwnInv, FreeZero
<1> QED BY <1>4, <1>5, <1>6

\* What holds of mk and the inodes while mkfs builds.
LEMMA MkType ==
  ASSUME OwnInv, mk.phase = "mkfs"
  PROVE  /\ DOMAIN mk = {"phase", "freeblock", "usedblocks", "freeinode", "child", "stack", "call"}
         /\ mk.freeblock \in Nat /\ mk.usedblocks = mk.freeblock /\ mk.freeblock >= FirstData
         /\ mk.freeinode \in Nat \ {0} /\ DOMAIN mk.call = {"inum", "p", "done"}
         /\ mk.call.inum \in Inums /\ mk.call.done \in Nat
         /\ DOMAIN dino = Inums /\ DOMAIN blk = Blocks
         /\ \A b \in Blocks : DOMAIN blk[b] = 0 .. (BSIZE - 1)
         /\ dino[Inum] \in Node /\ Off \in Nat /\ Fbn \in Nat /\ Slot \in 0 .. NDIRECT
         /\ Fbn < MAXFILE => Slot \in 0 .. MAXFILE
         /\ Fbn < MAXFILE /\ Fbn >= NDIRECT => Fbn - NDIRECT \in 0 .. (NINDIRECT - 1)
<1>1. /\ DOMAIN mk = {"phase", "freeblock", "usedblocks", "freeinode", "child", "stack", "call"}
      /\ mk.freeblock \in Nat /\ mk.usedblocks = mk.freeblock /\ mk.freeblock >= FirstData
      /\ mk.freeinode \in Nat \ {0} /\ DOMAIN mk.call = {"inum", "p", "done"}
      /\ mk.call.inum \in Inums /\ mk.call.done \in Nat
  BY DEF OwnInv, MkOK
<1>2. /\ DOMAIN dino = Inums /\ DOMAIN blk = Blocks
      /\ \A b \in Blocks : DOMAIN blk[b] = 0 .. (BSIZE - 1) /\ dino[Inum] \in Node
  BY <1>1, Sizes DEF OwnInv, TypeOK, Inum, Blocks
<1>3. Off \in Nat
  BY <1>1 DEF OwnInv, TypeOK, Inum, Off, Node
<1>4. Fbn \in Nat
  <2>1. BSIZE \in Nat \ {0}
    BY Sizes
  <2> QED BY <1>3, <2>1, DivType DEF Fbn
<1>5. Slot \in 0 .. NDIRECT
  BY <1>4, Sizes DEF Slot
<1>6. dino[Inum] \in Node
  BY <1>1 DEF OwnInv, TypeOK, Inum
<1> QED BY <1>1, <1>2, <1>3, <1>4, <1>5, <1>6, Sizes

LEMMA MkOKKept ==
  ASSUME OwnInv, mk.phase = "mkfs", mk'.phase = "mkfs", UNCHANGED <<mem, run, bit>>,
         DOMAIN mk' = DOMAIN mk, mk'.freeblock \in Nat, mk'.usedblocks = mk'.freeblock,
         mk'.freeblock >= FirstData, mk'.freeinode \in Nat \ {0},
         DOMAIN mk'.call = {"inum", "p", "done"}, mk'.call.inum \in Inums, mk'.call.done \in Nat,
         \E S : mk'.stack \in Seq(S) /\ \A x \in S : x.cur \in Inums,
         mk'.child # 0 => mk'.stack # <<>>,
         \A f \in Inums, i \in 0 .. NDIRECT : dino'[f].addrs[i] < mk'.freeblock,
         \A f \in Inums, j \in 0 .. (NINDIRECT - 1) :
            dino'[f].addrs[NDIRECT] # 0 => blk'[dino'[f].addrs[NDIRECT]][j] < mk'.freeblock
  PROVE  MkOK'
<1>1. /\ DOMAIN mk = {"phase", "freeblock", "usedblocks", "freeinode", "child", "stack", "call"}
      /\ \A p \in Procs : run[p].op = "idle"
      /\ \A f \in Inums : mem[f] = Out
      /\ \A b \in Bits : bit[b] = 0
  BY DEF OwnInv, MkOK
<1> QED BY <1>1 DEF MkOK

LEMMA IappendBlockKeeps ==
  ASSUME OwnInv, Roomy, Roomy', iappend_block, UNCHANGED <<mem, run, panicked>>
  PROVE  OwnInv'
<1>0. SUFFICES ASSUME NEW CONSTANT f, f = Inum, NEW CONSTANT s, s = Slot,
                      NEW CONSTANT c, c = mk.freeblock,
                      NEW CONSTANT node, node = [dino[f] EXCEPT !.addrs[s] = c]
               PROVE  OwnInv'
  OBVIOUS
<1>1. /\ mk.phase = "mkfs" /\ Fbn < MAXFILE /\ dino[f].addrs[s] = 0
      /\ dino' = [dino EXCEPT ![f].addrs[s] = c] /\ blk' = blk /\ bit' = bit
      /\ mk' = [mk EXCEPT !.freeblock = @ + 1, !.usedblocks = @ + 1]
  BY <1>0 DEF iappend_block, Appending, TakeBlock
<1>2. /\ DOMAIN mk = {"phase", "freeblock", "usedblocks", "freeinode", "child", "stack", "call"}
      /\ c \in Nat /\ mk.usedblocks = c /\ c >= FirstData /\ f \in Inums
      /\ DOMAIN dino = Inums /\ s \in 0 .. NDIRECT /\ s \in 0 .. MAXFILE
  BY <1>0, <1>1, MkType DEF Inum
<1>3. /\ mk'.phase = "mkfs" /\ mk'.freeblock = c + 1 /\ mk'.usedblocks = c + 1 /\ DOMAIN mk' = DOMAIN mk
      /\ mk'.freeinode = mk.freeinode /\ mk'.child = mk.child /\ mk'.stack = mk.stack
      /\ mk'.call = mk.call
  BY <1>0, <1>1, <1>2
<1>4. c < size /\ c \in Blocks /\ c > 0 /\ c \in 0 .. (TAG - 1)
  BY <1>2, <1>3, Sizes DEF Roomy, Blocks
<1>5. AddrMask(c) = c
  BY <1>4, Untagged
<1>6. /\ \A g \in Inums : \A j : ~Gone(g, j)
      /\ \A g \in Inums : \A n, b : ~Pending(g, n, b)
      /\ \A b : Taken(b) <=> b \in FirstData .. (c - 1)
      /\ \A g \in Inums :
           /\ mem[g] = Out /\ ip(g) = dino[g] /\ Top(g) = dino[g].addrs[NDIRECT] /\ Live(g)
           /\ dino[g] \in Node /\ dino[g].addrs \in [0 .. NDIRECT -> Nat]
  BY <1>0, <1>1, MkFacts
<1>7. ~Taken(c) /\ blk[c] = ZeroBlock /\ \A b : Taken(b)' <=> Taken(b) \/ b = c
  <2>1. ~Taken(c)
    BY <1>2, <1>6, Sizes
  <2>2. \A b : Taken(b)' <=> b \in FirstData .. c
    BY <1>2, <1>3 DEF Taken
  <2>3. \A b : b \in FirstData .. c <=> b \in FirstData .. (c - 1) \/ b = c
    BY <1>2, Sizes
  <2> QED BY <1>4, <1>6, <2>1, <2>2, <2>3 DEF OwnInv, FreeZero
<1>8. node \in Node /\ node.addrs = [dino[f].addrs EXCEPT ![s] = c]
  <2>1. [dino[f].addrs EXCEPT ![s] = c] \in [0 .. NDIRECT -> Nat]
    BY <1>2, <1>6
  <2>2. dino[f] \in Node
    BY <1>2, <1>6
  <2> QED BY <1>0, <2>1, <2>2 DEF Node
<1>9. node.addrs[s] = c /\ \A i \in 0 .. NDIRECT : i # s => node.addrs[i] = dino[f].addrs[i]
  BY <1>2, <1>6, <1>8
<1>10. dino'[f] = node /\ (\A g \in Inums \ {f} : dino'[g] = dino[g]) /\ DOMAIN dino' = Inums
  BY <1>0, <1>1, <1>2
<1>11. dino' \in [Inums -> Node]
  <2>1. \A g \in Inums : dino'[g] \in Node
    BY <1>6, <1>8, <1>10
  <2>2. dino' = [g \in Inums |-> dino'[g]]
    BY <1>1, <1>2
  <2> QED BY <2>1, <2>2
<1>12. ASSUME NEW g \in Inums, g # f
       PROVE  Smaller(g) /\ Live(g)' /\ ip(g)' = dino'[g] /\ Top(g)' = dino'[g].addrs[NDIRECT]
  <2>1. dino'[g] = dino[g]
    BY <1>10, <1>12
  <2> QED BY <1>1, <1>3, <2>1, MkSmaller
<1>13. ip(f)' = node /\ Top(f)' = node.addrs[NDIRECT]
  BY <1>2, <1>6, <1>10 DEF ip, Top
<1>14. \A g \in Inums : \A n, b : ~Pending(g, n, b)'
  BY <1>6 DEF Pending, At, Bn
<1>15. ASSUME NEW n, NEW b, InNode(f, n, b)' PROVE InNode(f, n, b) \/ (n = s /\ b = c)
  BY <1>2, <1>5, <1>6, <1>9, <1>13, <1>15 DEF InNode
<1>16. s = NDIRECT => Top(f)' = c
  BY <1>9, <1>13
<1>17. s # NDIRECT => Top(f)' = Top(f)
  <2>1. NDIRECT \in 0 .. NDIRECT
    BY Sizes
  <2> QED BY <1>2, <1>6, <1>9, <1>13, <2>1
<1>18. \A j \in 0 .. (NINDIRECT - 1) : blk'[c][j] = 0
  BY <1>1, <1>7, Sizes DEF ZeroBlock
<1>19. ASSUME NEW n, NEW b, InBlock(f, n, b)' PROVE InBlock(f, n, b)
  BY <1>1, <1>2, <1>6, <1>16, <1>17, <1>18, <1>19 DEF InBlock
<1>20. ClaimOK'
  <2>1. ASSUME NEW g \in Inums, NEW n \in 0 .. MAXFILE, NEW b \in Nat, Claim(g, n, b)'
        PROVE  Claim(g, n, b) \/ (g = f /\ n = s /\ b = c)
    BY <1>12, <1>14, <1>15, <1>19, <2>1, SmallerClaim DEF Claim
  <2>2. ~Taken(c) /\ Taken(c)' /\ \A b : Taken(b) => Taken(b)'
    BY <1>7
  <2>3. \A g \in Inums, n \in 0 .. MAXFILE, b \in Nat :
           Claim(g, n, b)' => (Claim(g, n, b) /\ (Taken(b) => Taken(b)'))
                                \/ (g = f /\ n = s /\ b = c)
    BY <2>1, <2>2
  <2>4. f \in Inums /\ s \in 0 .. MAXFILE /\ c \in Nat
    BY <1>2
  <2>5. ClaimOK
    BY DEF OwnInv
  <2> QED BY <2>2, <2>3, <2>4, <2>5, ClaimsAdded
<1>21. EntryOK'
  <2> SUFFICES ASSUME NEW g \in Inums, Live(g)', Top(g)' # 0, Top(g)' \in Blocks,
                      NEW j \in 0 .. (NINDIRECT - 1)
               PROVE  blk'[Top(g)'][j] \in Nat
    BY DEF EntryOK
  <2>1. CASE Top(g)' = c
    BY <1>18, <2>1
  <2>2. CASE Top(g)' # c
    <3>1. Top(g)' = Top(g) /\ Live(g)
      BY <1>6, <1>10, <1>12, <1>16, <1>17, <2>2
    <3> QED BY <1>1, <3>1 DEF OwnInv, EntryOK
  <2> QED BY <2>1, <2>2
<1>22. FreeZero'
  BY <1>1, <1>7 DEF OwnInv, FreeZero
<1>23. MkOK'
  <2>1. \A g \in Inums, i \in 0 .. NDIRECT : dino[g].addrs[i] < c
    BY <1>0, <1>1 DEF OwnInv, MkOK
  <2>2. \A g \in Inums, i \in 0 .. NDIRECT : dino[g].addrs[i] \in Nat
    BY <1>6
  <2>3. ASSUME NEW g \in Inums, NEW i \in 0 .. NDIRECT PROVE dino'[g].addrs[i] < c + 1
    <3>1. dino'[g].addrs[i] = dino[g].addrs[i] \/ dino'[g].addrs[i] = c
      BY <1>9, <1>10
    <3> QED BY <1>2, <2>1, <2>2, <3>1
  <2>4. ASSUME NEW g \in Inums, NEW j \in 0 .. (NINDIRECT - 1), dino'[g].addrs[NDIRECT] # 0
        PROVE  blk'[dino'[g].addrs[NDIRECT]][j] < c + 1
    <3>1. CASE dino'[g].addrs[NDIRECT] = c
      BY <1>2, <1>18, <3>1
    <3>2. CASE dino'[g].addrs[NDIRECT] # c
      <4>1. dino'[g].addrs[NDIRECT] = dino[g].addrs[NDIRECT]
        BY <1>2, <1>9, <1>10, <3>2, Sizes
      <4>2. blk[dino[g].addrs[NDIRECT]][j] < c
        BY <1>0, <1>1, <2>4, <4>1 DEF OwnInv, MkOK
      <4>3. blk[dino[g].addrs[NDIRECT]][j] \in Nat
        BY <1>1, <2>4, <4>1, MkFacts DEF Blocks
      <4> QED BY <1>1, <1>2, <4>1, <4>2, <4>3
    <3> QED BY <3>1, <3>2
  <2>5. /\ mk'.freeblock \in Nat /\ mk'.freeblock >= FirstData
        /\ mk'.freeinode \in Nat \ {0} /\ DOMAIN mk'.call = {"inum", "p", "done"}
        /\ mk'.call.inum \in Inums /\ mk'.call.done \in Nat
    <3>1. /\ mk.freeinode \in Nat \ {0} /\ DOMAIN mk.call = {"inum", "p", "done"}
          /\ mk.call.inum \in Inums /\ mk.call.done \in Nat
      BY <1>1, MkType
    <3>2. c + 1 \in Nat /\ c + 1 >= FirstData
      BY <1>2, Sizes
    <3> QED BY <1>3, <3>1, <3>2
  <2>6. /\ \E S : mk'.stack \in Seq(S) /\ \A x \in S : x.cur \in Inums
        /\ mk'.child # 0 => mk'.stack # <<>>
    BY <1>3 DEF OwnInv, MkOK
  <2> QED BY <1>1, <1>3, <2>3, <2>4, <2>5, <2>6, MkOKKept
<1>24. DOMAIN blk' = Blocks /\ \A b \in Blocks : DOMAIN blk'[b] = 0 .. (BSIZE - 1)
  BY <1>1 DEF OwnInv, TypeOK
<1> QED BY <1>1, <1>3, <1>11, <1>20, <1>21, <1>22, <1>23, <1>24, MkStepKeeps

LEMMA IappendIndirectKeeps ==
  ASSUME OwnInv, Roomy, Roomy', iappend_indirect, UNCHANGED <<mem, run, panicked>>
  PROVE  OwnInv'
<1>0. SUFFICES ASSUME NEW CONSTANT f, f = Inum, NEW CONSTANT k, k = Fbn - NDIRECT,
                      NEW CONSTANT root, root = dino[f].addrs[NDIRECT],
                      NEW CONSTANT c, c = mk.freeblock
               PROVE  OwnInv'
  OBVIOUS
<1>1. /\ mk.phase = "mkfs" /\ Fbn < MAXFILE /\ Fbn >= NDIRECT /\ root # 0
      /\ blk[root][k] = 0 /\ blk' = [blk EXCEPT ![root][k] = c] /\ dino' = dino /\ bit' = bit
      /\ mk' = [mk EXCEPT !.freeblock = @ + 1, !.usedblocks = @ + 1]
  BY <1>0 DEF iappend_indirect, Appending, TakeBlock
<1>2. /\ DOMAIN mk = {"phase", "freeblock", "usedblocks", "freeinode", "child", "stack", "call"}
      /\ c \in Nat /\ mk.usedblocks = c /\ c >= FirstData /\ f \in Inums
      /\ DOMAIN blk = Blocks /\ k \in 0 .. (NINDIRECT - 1)
  BY <1>0, <1>1, MkType DEF Inum
<1>3. /\ mk'.phase = "mkfs" /\ mk'.freeblock = c + 1 /\ mk'.usedblocks = c + 1 /\ DOMAIN mk' = DOMAIN mk
      /\ mk'.freeinode = mk.freeinode /\ mk'.child = mk.child /\ mk'.stack = mk.stack
      /\ mk'.call = mk.call
  BY <1>0, <1>1, <1>2
<1>4. c < size /\ c \in Blocks /\ c > 0 /\ c \in 0 .. (TAG - 1)
  BY <1>2, <1>3, Sizes DEF Roomy, Blocks
<1>5. AddrMask(c) = c
  BY <1>4, Untagged
<1>6. /\ \A g \in Inums : \A j : ~Gone(g, j)
      /\ \A g \in Inums : \A n, b : ~Pending(g, n, b)
      /\ \A b : Taken(b) <=> b \in FirstData .. (c - 1)
      /\ \A g \in Inums :
           /\ mem[g] = Out /\ ip(g) = dino[g] /\ Top(g) = dino[g].addrs[NDIRECT] /\ Live(g)
           /\ dino[g].addrs[NDIRECT] \in Blocks
  BY <1>0, <1>1, MkFacts, Sizes
<1>7. ~Taken(c) /\ \A b : Taken(b)' <=> Taken(b) \/ b = c
  <2>1. ~Taken(c)
    BY <1>2, <1>6, Sizes
  <2>2. \A b : Taken(b)' <=> b \in FirstData .. c
    BY <1>2, <1>3 DEF Taken
  <2>3. \A b : b \in FirstData .. c <=> b \in FirstData .. (c - 1) \/ b = c
    BY <1>2, Sizes
  <2> QED BY <1>6, <2>1, <2>2, <2>3
<1>8. Taken(root) /\ root \in Blocks /\ Top(f) = root
  <2>1. Top(f) = root /\ root \in Blocks
    BY <1>0, <1>2, <1>6
  <2>2. Claim(f, NDIRECT, root) /\ NDIRECT \in 0 .. MAXFILE /\ root \in Nat
    BY <1>1, <1>2, <1>6, <2>1, TopClaim, Sizes DEF OwnInv, Blocks
  <2> QED BY <1>2, <2>1, <2>2 DEF OwnInv, ClaimOK
<1>9. /\ DOMAIN blk' = Blocks /\ \A b \in Blocks \ {root} : blk'[b] = blk[b]
      /\ DOMAIN blk'[root] = 0 .. (BSIZE - 1) /\ blk'[root][k] = c
      /\ \A j \in 0 .. (BSIZE - 1) : j # k => blk'[root][j] = blk[root][j]
  <2>1. DOMAIN blk[root] = 0 .. (BSIZE - 1) /\ k \in 0 .. (BSIZE - 1)
    BY <1>2, <1>8, Sizes DEF OwnInv, TypeOK
  <2> QED BY <1>1, <1>2, <1>8, <2>1
<1>10. DOMAIN blk' = Blocks /\ \A b \in Blocks : DOMAIN blk'[b] = 0 .. (BSIZE - 1)
  BY <1>9 DEF OwnInv, TypeOK
<1>11. ASSUME NEW g \in Inums, g # f, Top(g) # 0 PROVE blk'[Top(g)] = blk[Top(g)]
  <2>1. Top(g) # root
    BY <1>1, <1>2, <1>6, <1>8, <1>11, OtherTop
  <2> QED BY <1>6, <1>9, <1>11, <2>1
<1>12. \A g \in Inums : ip(g)' = ip(g) /\ Top(g)' = Top(g) /\ Live(g)'
  BY <1>1, <1>3 DEF ip, Top, Live
<1>13. \A g \in Inums : \A n, b : ~Pending(g, n, b)'
  BY <1>6 DEF Pending, At, Bn
<1>14. \A g \in Inums : \A j : ~Gone(g, j)'
  BY <1>6 DEF Gone, In
<1>15. ASSUME NEW g \in Inums, NEW n \in 0 .. MAXFILE, NEW b \in Nat, Claim(g, n, b)'
       PROVE  Claim(g, n, b) \/ (g = f /\ n = NDIRECT + 1 + k /\ b = c)
  <2>1. CASE InNode(g, n, b)'
    BY <1>6, <1>12, <2>1 DEF InNode, Claim
  <2>2. CASE InBlock(g, n, b)'
    <3>1. PICK j \in 0 .. (NINDIRECT - 1) :
            /\ n = NDIRECT + 1 + j /\ Top(g) # 0
            /\ blk'[Top(g)][j] # 0 /\ b = AddrMask(blk'[Top(g)][j])
      BY <1>12, <2>2 DEF InBlock
    <3>2. CASE g = f /\ j = k
      BY <1>5, <1>8, <1>9, <3>1, <3>2
    <3>3. CASE g # f \/ j # k
      <4>1. blk'[Top(g)][j] = blk[Top(g)][j]
        BY <1>8, <1>9, <1>11, <3>1, <3>3, Sizes
      <4> QED BY <1>6, <3>1, <4>1 DEF InBlock, Claim
    <3> QED BY <3>2, <3>3
  <2> QED BY <1>13, <1>15, <2>1, <2>2 DEF Claim
<1>16. ClaimOK'
  <2>1. PICK m \in 0 .. MAXFILE : m = NDIRECT + 1 + k
    <3>1. NDIRECT + 1 + k \in 0 .. MAXFILE
      BY <1>2, Sizes
    <3> QED BY <3>1
  <2>2. ClaimOK /\ c \in Nat /\ ~Taken(c) /\ Taken(c)' /\ \A b : Taken(b) => Taken(b)'
    BY <1>2, <1>7 DEF OwnInv
  <2>3. ASSUME NEW g \in Inums, NEW n \in 0 .. MAXFILE, NEW b \in Nat, Claim(g, n, b)'
        PROVE  (Claim(g, n, b) /\ (Taken(b) => Taken(b)')) \/ (g = f /\ n = m /\ b = c)
    BY <1>15, <2>1, <2>2, <2>3
  <2> QED BY <1>2, <2>2, <2>3, ClaimsAdded
<1>17. EntryOK'
  <2> SUFFICES ASSUME NEW g \in Inums, Top(g) # 0, Top(g) \in Blocks,
                      NEW j \in 0 .. (NINDIRECT - 1)
               PROVE  blk'[Top(g)][j] \in Nat
    BY <1>12 DEF EntryOK
  <2>1. blk[Top(g)][j] \in Nat
    BY <1>6 DEF OwnInv, EntryOK
  <2>2. CASE g = f
    BY <1>2, <1>8, <1>9, <2>1, <2>2, Sizes
  <2> QED BY <1>11, <2>1, <2>2
<1>18. FreeZero'
  BY <1>7, <1>8, <1>9 DEF OwnInv, FreeZero
<1>19. MkOK'
  <2>1. \A g \in Inums, i \in 0 .. NDIRECT : dino'[g].addrs[i] < c + 1
    <3>1. \A g \in Inums, i \in 0 .. NDIRECT : dino[g].addrs[i] < c /\ dino[g].addrs[i] \in Nat
      BY <1>0, <1>1, MkFacts DEF OwnInv, MkOK, Blocks
    <3> QED BY <1>1, <1>2, <3>1
  <2>2. ASSUME NEW g \in Inums, NEW j \in 0 .. (NINDIRECT - 1), dino'[g].addrs[NDIRECT] # 0
        PROVE  blk'[dino'[g].addrs[NDIRECT]][j] < c + 1
    <3>1. dino'[g].addrs[NDIRECT] = Top(g) /\ Top(g) # 0
      BY <1>1, <1>6, <2>2
    <3>2. blk[Top(g)][j] < c /\ blk[Top(g)][j] \in Nat
      BY <1>0, <1>1, <1>6, <3>1, MkFacts DEF OwnInv, MkOK, Blocks
    <3>3. blk'[Top(g)][j] = blk[Top(g)][j] \/ blk'[Top(g)][j] = c
      BY <1>8, <1>9, <1>11, <3>1, Sizes
    <3> QED BY <1>2, <3>1, <3>2, <3>3
  <2>5. /\ mk'.freeblock \in Nat /\ mk'.freeblock >= FirstData
        /\ mk'.freeinode \in Nat \ {0} /\ DOMAIN mk'.call = {"inum", "p", "done"}
        /\ mk'.call.inum \in Inums /\ mk'.call.done \in Nat
    <3>1. /\ mk.freeinode \in Nat \ {0} /\ DOMAIN mk.call = {"inum", "p", "done"}
          /\ mk.call.inum \in Inums /\ mk.call.done \in Nat
      BY <1>1, MkType
    <3>2. c + 1 \in Nat /\ c + 1 >= FirstData
      BY <1>2, Sizes
    <3> QED BY <1>3, <3>1, <3>2
  <2>6. /\ \E S : mk'.stack \in Seq(S) /\ \A x \in S : x.cur \in Inums
        /\ mk'.child # 0 => mk'.stack # <<>>
    BY <1>3 DEF OwnInv, MkOK
  <2> QED BY <1>1, <1>3, <2>1, <2>2, <2>5, <2>6, MkOKKept
<1>20. dino' \in [Inums -> Node]
  BY <1>1 DEF OwnInv, TypeOK
<1> QED BY <1>1, <1>3, <1>10, <1>16, <1>17, <1>18, <1>19, <1>20, MkStepKeeps

LEMMA IappendUnitKeeps ==
  ASSUME OwnInv, Roomy, Roomy', iappend_unit, UNCHANGED <<mem, run, panicked>>
  PROVE  OwnInv'
<1>0. SUFFICES ASSUME NEW CONSTANT f, f = Inum, NEW CONSTANT n, n = Fbn,
                      NEW CONSTANT root, root = dino[f].addrs[NDIRECT],
                      NEW CONSTANT x, x = IF n < NDIRECT THEN dino[f].addrs[n]
                                          ELSE blk[root][n - NDIRECT],
                      NEW CONSTANT v, v = mk.call.p[mk.call.done + 1],
                      NEW CONSTANT o, o = Off % BSIZE
               PROVE  OwnInv'
  OBVIOUS
<1>1. /\ mk.phase = "mkfs" /\ n < MAXFILE /\ (n >= NDIRECT => root # 0) /\ x # 0
      /\ blk' = [blk EXCEPT ![x][o] = v] /\ dino' = [dino EXCEPT ![f].size = @ + 1]
      /\ mk' = [mk EXCEPT !.call.done = @ + 1] /\ bit' = bit
  BY <1>0 DEF iappend_unit, Appending
<1>2. /\ DOMAIN mk = {"phase", "freeblock", "usedblocks", "freeinode", "child", "stack", "call"}
      /\ mk.freeblock \in Nat /\ mk.usedblocks = mk.freeblock /\ mk.freeblock >= FirstData
      /\ mk.freeinode \in Nat \ {0} /\ DOMAIN mk.call = {"inum", "p", "done"}
      /\ mk.call.inum \in Inums /\ mk.call.done \in Nat
      /\ DOMAIN dino = Inums /\ DOMAIN blk = Blocks
      /\ \A b \in Blocks : DOMAIN blk[b] = 0 .. (BSIZE - 1)
  BY <1>1, MkType
<1>3. /\ f \in Inums /\ dino[f] \in Node /\ n \in Nat
      /\ (n >= NDIRECT => n - NDIRECT \in 0 .. (NINDIRECT - 1))
  BY <1>0, <1>1, MkType DEF Inum
<1>4. /\ mk'.phase = "mkfs" /\ mk'.freeblock = mk.freeblock /\ mk'.usedblocks = mk.usedblocks
      /\ DOMAIN mk' = DOMAIN mk /\ mk'.freeinode = mk.freeinode /\ mk'.child = mk.child
      /\ mk'.stack = mk.stack /\ DOMAIN mk'.call = DOMAIN mk.call
      /\ mk'.call.inum = mk.call.inum /\ mk'.call.done = mk.call.done + 1
  BY <1>1, <1>2
<1>5. \A g \in Inums : /\ ip(g) = dino[g] /\ Top(g) = dino[g].addrs[NDIRECT] /\ Live(g)
                       /\ \A j : ~Gone(g, j)
                       /\ \A i \in 0 .. NDIRECT : dino[g].addrs[i] \in Nat
                            /\ AddrMask(dino[g].addrs[i]) = dino[g].addrs[i]
  BY <1>1, MkFacts DEF Blocks
<1>6. PICK m \in 0 .. MAXFILE : m # NDIRECT /\ Claim(f, m, x)
  <2>1. CASE n < NDIRECT
    <3>1. n \in 0 .. NDIRECT /\ n \in 0 .. MAXFILE /\ n # NDIRECT /\ x = dino[f].addrs[n]
      BY <1>0, <1>3, <2>1, Sizes
    <3>2. Claim(f, n, x)
      BY <1>1, <1>3, <1>5, <3>1 DEF Claim, InNode
    <3> QED BY <3>1, <3>2
  <2>2. CASE n >= NDIRECT
    <3>1. /\ n - NDIRECT \in 0 .. (NINDIRECT - 1) /\ n + 1 = NDIRECT + 1 + (n - NDIRECT)
          /\ n + 1 \in 0 .. MAXFILE /\ n + 1 # NDIRECT /\ x = blk[root][n - NDIRECT]
      <4>1. x = blk[root][n - NDIRECT]
        BY <1>0, <1>3, <2>2, Sizes
      <4> QED BY <1>1, <1>3, <2>2, <4>1, Sizes
    <3>2. Top(f) = root /\ root # 0 /\ AddrMask(x) = x
      <4>1. root = dino[f].addrs[NDIRECT] /\ root # 0
        BY <1>0, <1>1, <2>2
      <4> QED BY <1>1, <1>3, <3>1, <4>1, MkFacts
    <3>3. Claim(f, n + 1, x)
      BY <1>1, <1>3, <1>5, <3>1, <3>2 DEF Claim, InBlock
    <3> QED BY <3>1, <3>3
  <2> QED BY <1>3, <2>1, <2>2, Sizes
<1>7. x \in Nat /\ x \in Blocks
  <2>1. CASE n < NDIRECT
    <3>1. n \in 0 .. NDIRECT /\ x = dino[f].addrs[n]
      BY <1>0, <1>3, <2>1, Sizes
    <3> QED BY <1>1, <1>3, <3>1, MkFacts DEF Blocks
  <2>2. CASE n >= NDIRECT
    <3>1. n - NDIRECT \in 0 .. (NINDIRECT - 1) /\ x = blk[root][n - NDIRECT] /\ root # 0
      <4>1. x = blk[root][n - NDIRECT]
        BY <1>0, <1>3, <2>2, Sizes
      <4> QED BY <1>1, <1>3, <2>2, <4>1
    <3>2. root = dino[f].addrs[NDIRECT]
      BY <1>0
    <3>3. x \in Blocks
      BY <1>1, <1>3, <3>1, <3>2, MkFacts
    <3> QED BY <3>3 DEF Blocks
  <2> QED BY <1>3, <2>1, <2>2, Sizes
<1>8. Taken(x)
  BY <1>3, <1>6, <1>7 DEF OwnInv, ClaimOK
<1>9. /\ DOMAIN blk' = Blocks /\ \A b \in Blocks \ {x} : blk'[b] = blk[b]
      /\ DOMAIN blk'[x] = 0 .. (BSIZE - 1)
  BY <1>1, <1>2, <1>7
<1>10. \A b \in Blocks : DOMAIN blk'[b] = 0 .. (BSIZE - 1)
  BY <1>2, <1>9
<1>11. ASSUME NEW g \in Inums, dino[g].addrs[NDIRECT] # 0
       PROVE  blk'[dino[g].addrs[NDIRECT]] = blk[dino[g].addrs[NDIRECT]]
  <2>1. dino[g].addrs[NDIRECT] # x
    BY <1>3, <1>5, <1>6, <1>7, <1>11, NotTheTop DEF OwnInv
  <2>2. dino[g].addrs[NDIRECT] \in Blocks
    BY <1>1, MkFacts, Sizes
  <2> QED BY <1>9, <2>1, <2>2
<1>12. /\ dino' \in [Inums -> Node] /\ \A g \in Inums : dino'[g].addrs = dino[g].addrs
  <2>1. [dino[f] EXCEPT !.size = @ + 1] \in Node /\ [dino[f] EXCEPT !.size = @ + 1].addrs = dino[f].addrs
    BY <1>3 DEF Node
  <2>2. dino' = [dino EXCEPT ![f] = [dino[f] EXCEPT !.size = @ + 1]]
    BY <1>1, <1>2, <1>3
  <2> QED BY <1>3, <2>1, <2>2 DEF OwnInv, TypeOK
<1>13. ClaimOK' /\ EntryOK' /\ FreeZero'
  <2>1. \A b \in Blocks : ~Taken(b) => blk'[b] = blk[b]
    BY <1>8, <1>9
  <2> QED BY <1>1, <1>4, <1>11, <1>12, <2>1, MkQuiet
<1>14. MkOK'
  <2>1. \A g \in Inums, i \in 0 .. NDIRECT : dino'[g].addrs[i] < mk'.freeblock
    BY <1>1, <1>4, <1>12 DEF OwnInv, MkOK
  <2>2. \A g \in Inums, j \in 0 .. (NINDIRECT - 1) :
          dino'[g].addrs[NDIRECT] # 0 => blk'[dino'[g].addrs[NDIRECT]][j] < mk'.freeblock
    <3>1. \A g \in Inums, j \in 0 .. (NINDIRECT - 1) :
            dino[g].addrs[NDIRECT] # 0 => blk[dino[g].addrs[NDIRECT]][j] < mk.freeblock
      BY <1>1 DEF OwnInv, MkOK
    <3> QED BY <1>4, <1>11, <1>12, <3>1
  <2>3. mk.call.done + 1 \in Nat
    BY <1>2
  <2>4. /\ \E S : mk'.stack \in Seq(S) /\ \A y \in S : y.cur \in Inums
        /\ mk'.child # 0 => mk'.stack # <<>>
    BY <1>4 DEF OwnInv, MkOK
  <2>5. UNCHANGED <<mem, run, bit>>
    BY <1>1
  <2> QED BY <1>1, <1>2, <1>4, <2>1, <2>2, <2>3, <2>4, <2>5, MkOKKept
<1> QED BY <1>1, <1>4, <1>9, <1>10, <1>12, <1>13, <1>14, MkStepKeeps

\* The steps that leave every address of the image alone, or clear it.
LEMMA MkAddrsKeep ==
  ASSUME OwnInv, Roomy, Roomy', mk.phase = "mkfs", mk'.phase = "mkfs",
         UNCHANGED <<mem, run, panicked, blk, bit>>,
         dino' \in [Inums -> Node],
         \A f \in Inums, i \in 0 .. NDIRECT :
            dino'[f].addrs[i] # 0 => dino'[f].addrs[i] = dino[f].addrs[i],
         DOMAIN mk' = DOMAIN mk, mk'.freeblock = mk.freeblock, mk'.usedblocks = mk.usedblocks,
         mk'.freeinode \in Nat \ {0},
         DOMAIN mk'.call = {"inum", "p", "done"}, mk'.call.inum \in Inums, mk'.call.done \in Nat,
         \E S : mk'.stack \in Seq(S) /\ \A x \in S : x.cur \in Inums,
         mk'.child # 0 => mk'.stack # <<>>
  PROVE  OwnInv'
<1>1. ClaimOK' /\ EntryOK' /\ FreeZero'
  BY MkQuiet
<1>2. DOMAIN blk' = Blocks /\ \A b \in Blocks : DOMAIN blk'[b] = 0 .. (BSIZE - 1)
  BY MkType
<1>3. /\ mk'.freeblock \in Nat /\ mk'.usedblocks = mk'.freeblock /\ mk'.freeblock >= FirstData
      /\ mk.freeblock > 0
  BY MkType, Sizes
<1>4. \A f \in Inums, i \in 0 .. NDIRECT : dino'[f].addrs[i] < mk'.freeblock
  <2>1. \A f \in Inums, i \in 0 .. NDIRECT : dino[f].addrs[i] < mk.freeblock
    BY DEF OwnInv, MkOK
  <2> QED BY <1>3, <2>1
<1>5. \A f \in Inums, j \in 0 .. (NINDIRECT - 1) :
        dino'[f].addrs[NDIRECT] # 0 => blk'[dino'[f].addrs[NDIRECT]][j] < mk'.freeblock
  <2>1. \A f \in Inums, j \in 0 .. (NINDIRECT - 1) :
          dino[f].addrs[NDIRECT] # 0 => blk[dino[f].addrs[NDIRECT]][j] < mk.freeblock
    BY DEF OwnInv, MkOK
  <2>2. \A f \in Inums : dino'[f].addrs[NDIRECT] # 0 => dino'[f].addrs[NDIRECT] = dino[f].addrs[NDIRECT]
    BY Sizes
  <2> QED BY <2>1, <2>2
<1>6. MkOK'
  BY <1>3, <1>4, <1>5, MkOKKept
<1> QED BY <1>1, <1>2, <1>6, MkStepKeeps

\* The stack of the calls of add_dir.
Frames(s) == \E S : s \in Seq(S) /\ \A x \in S : x.cur \in Inums

LEMMA FramesPop ==
  ASSUME NEW s, Frames(s), s # <<>>
  PROVE  Head(s).cur \in Inums /\ Frames(Tail(s))
<1>1. PICK S : s \in Seq(S) /\ \A x \in S : x.cur \in Inums
  BY DEF Frames
<1>2. Head(s) \in S /\ Tail(s) \in Seq(S)
  BY <1>1
<1> QED BY <1>1, <1>2 DEF Frames

LEMMA FramesPush ==
  ASSUME NEW s, Frames(s), NEW x, x.cur \in Inums, NEW y, y.cur \in Inums
  PROVE  /\ Frames(<<x>> \o s) /\ <<x>> \o s # <<>>
         /\ Frames(<<x, y>> \o s) /\ <<x, y>> \o s # <<>>
<1>1. PICK S : s \in Seq(S) /\ \A z \in S : z.cur \in Inums
  BY DEF Frames
<1> DEFINE T == S \cup {x, y}
<1>2. s \in Seq(T) /\ <<x>> \in Seq(T) /\ <<x, y>> \in Seq(T)
  BY <1>1
<1>3. \A z \in T : z.cur \in Inums
  BY <1>1
<1> HIDE DEF T
<1>4. <<x>> \o s \in Seq(T) /\ <<x, y>> \o s \in Seq(T)
  BY <1>2
<1>5. Len(<<x>> \o s) = 1 + Len(s) /\ Len(<<x, y>> \o s) = 2 + Len(s) /\ Len(s) \in Nat
  BY <1>2
<1>6. <<x>> \o s # <<>> /\ <<x, y>> \o s # <<>>
  BY <1>5
<1> QED BY <1>3, <1>4, <1>6 DEF Frames

\* ialloc gives the inode no address.
LEMMA IallocFacts ==
  ASSUME OwnInv, Roomy', mk.phase = "mkfs", mk'.freeinode = mk.freeinode + 1, NEW t \in {T_FILE, T_DIR},
         ialloc(t)
  PROVE  /\ mk.freeinode \in Inums /\ dino' \in [Inums -> Node]
         /\ \A f \in Inums, i \in 0 .. NDIRECT :
              dino'[f].addrs[i] # 0 => dino'[f].addrs[i] = dino[f].addrs[i]
<1>1. mk.freeinode \in Nat \ {0}
  BY MkType
<1>2. mk.freeinode \in Inums
  BY <1>1, Sizes DEF Roomy, Inums
<1>3. Inode(t, 1) \in Node /\ \A i \in 0 .. NDIRECT : Inode(t, 1).addrs[i] = 0
  BY DEF Inode, Node, T_FILE, T_DIR
<1>4. dino' = [dino EXCEPT ![mk.freeinode] = Inode(t, 1)]
  BY DEF ialloc
<1> QED BY <1>2, <1>3, <1>4 DEF OwnInv, TypeOK

LEMMA AddFileKeeps ==
  ASSUME OwnInv, Roomy, Roomy', add_file, UNCHANGED <<mem, run, panicked>>
  PROVE  OwnInv'
<1>0. SUFFICES ASSUME NEW CONSTANT call, call = iappend(mk.freeinode, Head(Cur.todo).bytes),
                      NEW CONSTANT x, x = Frame(Cur.cur, Cur.parent, Tail(Cur.todo)),
                      NEW CONSTANT stack, stack = <<x>> \o Rest
               PROVE  OwnInv'
  OBVIOUS
<1>1. /\ mk.phase = "mkfs" /\ mk.stack # <<>> /\ ialloc(T_FILE) /\ blk' = blk /\ bit' = bit
      /\ mk' = [mk EXCEPT !.freeinode = @ + 1, !.child = mk.freeinode, !.call = call, !.stack = stack]
  BY <1>0 DEF add_file, Returned
<1>2. /\ DOMAIN mk = {"phase", "freeblock", "usedblocks", "freeinode", "child", "stack", "call"}
      /\ mk.freeinode \in Nat \ {0}
  BY <1>1, MkType
<1>3. /\ mk'.phase = "mkfs" /\ mk'.freeblock = mk.freeblock /\ mk'.usedblocks = mk.usedblocks
      /\ DOMAIN mk' = DOMAIN mk /\ mk'.freeinode = mk.freeinode + 1 /\ mk'.stack = stack
      /\ mk'.call = call
  BY <1>1, <1>2
<1>4. /\ mk.freeinode \in Inums /\ dino' \in [Inums -> Node]
      /\ \A f \in Inums, i \in 0 .. NDIRECT :
           dino'[f].addrs[i] # 0 => dino'[f].addrs[i] = dino[f].addrs[i]
  BY <1>1, <1>3, IallocFacts
<1>5. DOMAIN call = {"inum", "p", "done"} /\ call.inum \in Inums /\ call.done \in Nat
  BY <1>0, <1>4 DEF iappend
<1>6. Frames(stack) /\ stack # <<>>
  <2>1. Frames(mk.stack)
    BY DEF OwnInv, MkOK, Frames
  <2>2. Cur.cur \in Inums /\ Frames(Rest)
    BY <1>1, <2>1, FramesPop DEF Cur, Rest
  <2>3. x.cur \in Inums
    BY <1>0, <2>2 DEF Frame
  <2> QED BY <1>0, <2>2, <2>3, FramesPush
<1>7. \E S : mk'.stack \in Seq(S) /\ \A y \in S : y.cur \in Inums
  BY <1>3, <1>6 DEF Frames
<1>8. mk.freeinode + 1 \in Nat \ {0} /\ UNCHANGED <<mem, run, panicked, blk, bit>>
  BY <1>1, <1>2
<1> QED BY <1>1, <1>3, <1>4, <1>5, <1>6, <1>7, <1>8, MkAddrsKeep

LEMMA AddDirEnterKeeps ==
  ASSUME OwnInv, Roomy, Roomy', add_dir_enter, UNCHANGED <<mem, run, panicked>>
  PROVE  OwnInv'
<1>0. SUFFICES ASSUME NEW CONSTANT call, call = iappend(mk.freeinode, <<mk.freeinode, Cur.cur>>),
                      NEW CONSTANT x, x = Frame(mk.freeinode, Cur.cur, Head(Cur.todo).ents),
                      NEW CONSTANT y, y = Frame(Cur.cur, Cur.parent, Tail(Cur.todo)),
                      NEW CONSTANT stack, stack = <<x, y>> \o Rest
               PROVE  OwnInv'
  OBVIOUS
<1>1. /\ mk.phase = "mkfs" /\ mk.child = 0 /\ mk.stack # <<>> /\ ialloc(T_DIR)
      /\ blk' = blk /\ bit' = bit
      /\ mk' = [mk EXCEPT !.freeinode = @ + 1, !.call = call, !.stack = stack]
  BY <1>0 DEF add_dir_enter, Returned
<1>2. /\ DOMAIN mk = {"phase", "freeblock", "usedblocks", "freeinode", "child", "stack", "call"}
      /\ mk.freeinode \in Nat \ {0}
  BY <1>1, MkType
<1>3. /\ mk'.phase = "mkfs" /\ mk'.freeblock = mk.freeblock /\ mk'.usedblocks = mk.usedblocks
      /\ DOMAIN mk' = DOMAIN mk /\ mk'.freeinode = mk.freeinode + 1 /\ mk'.stack = stack
      /\ mk'.call = call
  BY <1>1, <1>2
<1>4. /\ mk.freeinode \in Inums /\ dino' \in [Inums -> Node]
      /\ \A f \in Inums, i \in 0 .. NDIRECT :
           dino'[f].addrs[i] # 0 => dino'[f].addrs[i] = dino[f].addrs[i]
  BY <1>1, <1>3, IallocFacts
<1>5. DOMAIN call = {"inum", "p", "done"} /\ call.inum \in Inums /\ call.done \in Nat
  BY <1>0, <1>4 DEF iappend
<1>6. Frames(stack) /\ stack # <<>>
  <2>1. Frames(mk.stack)
    BY DEF OwnInv, MkOK, Frames
  <2>2. Cur.cur \in Inums /\ Frames(Rest)
    BY <1>1, <2>1, FramesPop DEF Cur, Rest
  <2>3. x.cur \in Inums /\ y.cur \in Inums
    BY <1>0, <1>4, <2>2 DEF Frame
  <2> QED BY <1>0, <2>2, <2>3, FramesPush
<1>7. \E S : mk'.stack \in Seq(S) /\ \A z \in S : z.cur \in Inums
  BY <1>3, <1>6 DEF Frames
<1>8. mk.freeinode + 1 \in Nat \ {0} /\ UNCHANGED <<mem, run, panicked, blk, bit>>
  BY <1>1, <1>2
<1> QED BY <1>1, <1>3, <1>4, <1>5, <1>6, <1>7, <1>8, MkAddrsKeep

LEMMA AddEntryKeeps ==
  ASSUME OwnInv, Roomy, Roomy', add_entry, UNCHANGED <<mem, run, panicked>>
  PROVE  OwnInv'
<1>0. SUFFICES ASSUME NEW CONSTANT call, call = iappend(Cur.cur, <<mk.child>>)
               PROVE  OwnInv'
  OBVIOUS
<1>1. /\ mk.phase = "mkfs" /\ mk.child # 0 /\ UNCHANGED <<dino, blk, bit>>
      /\ mk' = [mk EXCEPT !.child = 0, !.call = call]
  BY <1>0 DEF add_entry, Returned
<1>2. /\ DOMAIN mk = {"phase", "freeblock", "usedblocks", "freeinode", "child", "stack", "call"}
      /\ mk.freeinode \in Nat \ {0}
  BY <1>1, MkType
<1>3. /\ mk'.phase = "mkfs" /\ mk'.freeblock = mk.freeblock /\ mk'.usedblocks = mk.usedblocks
      /\ DOMAIN mk' = DOMAIN mk /\ mk'.freeinode = mk.freeinode /\ mk'.stack = mk.stack
      /\ mk'.call = call /\ mk'.child = 0
  BY <1>1, <1>2
<1>4. Frames(mk.stack) /\ mk.stack # <<>>
  BY <1>1 DEF OwnInv, MkOK, Frames
<1>5. Cur.cur \in Inums
  BY <1>4, FramesPop DEF Cur
<1>6. DOMAIN call = {"inum", "p", "done"} /\ call.inum \in Inums /\ call.done \in Nat
  BY <1>0, <1>5 DEF iappend
<1>7. \E S : mk'.stack \in Seq(S) /\ \A z \in S : z.cur \in Inums
  BY <1>3, <1>4 DEF Frames
<1>8. dino' \in [Inums -> Node] /\ UNCHANGED <<mem, run, panicked, blk, bit>>
  BY <1>1 DEF OwnInv, TypeOK
<1> QED BY <1>1, <1>2, <1>3, <1>6, <1>7, <1>8, MkAddrsKeep

LEMMA AddDirReturnKeeps ==
  ASSUME OwnInv, Roomy, Roomy', add_dir_return, UNCHANGED <<mem, run, panicked>>
  PROVE  OwnInv'
<1>0. SUFFICES ASSUME NEW CONSTANT f, f = Cur.cur, NEW CONSTANT rest, rest = Rest,
                      NEW CONSTANT c, c = (IF Rest = <<>> THEN 0 ELSE Cur.cur),
                      NEW CONSTANT z, z = (dino[f].size \div BSIZE + 1) * BSIZE
               PROVE  OwnInv'
  OBVIOUS
<1>1. /\ mk.phase = "mkfs" /\ mk.stack # <<>> /\ blk' = blk /\ bit' = bit
      /\ dino' = [dino EXCEPT ![f].size = z]
      /\ mk' = [mk EXCEPT !.stack = rest, !.child = c]
  BY <1>0 DEF add_dir_return, Returned
<1>2. /\ DOMAIN mk = {"phase", "freeblock", "usedblocks", "freeinode", "child", "stack", "call"}
      /\ mk.freeinode \in Nat \ {0} /\ DOMAIN mk.call = {"inum", "p", "done"}
      /\ mk.call.inum \in Inums /\ mk.call.done \in Nat
  BY <1>1, MkType
<1>3. /\ mk'.phase = "mkfs" /\ mk'.freeblock = mk.freeblock /\ mk'.usedblocks = mk.usedblocks
      /\ DOMAIN mk' = DOMAIN mk /\ mk'.freeinode = mk.freeinode /\ mk'.stack = rest
      /\ mk'.call = mk.call /\ mk'.child = c
  BY <1>1, <1>2
<1>4. Frames(mk.stack)
  BY <1>1 DEF OwnInv, MkOK, Frames
<1>5. f \in Inums /\ Frames(rest)
  BY <1>0, <1>1, <1>4, FramesPop DEF Cur, Rest
<1>6. dino[f] \in Node
  BY <1>5 DEF OwnInv, TypeOK
<1>7. z \in Nat
  <2>1. dino[f].size \in Nat /\ BSIZE \in Nat \ {0}
    BY <1>6, Sizes DEF Node
  <2>2. dino[f].size \div BSIZE \in Nat
    BY <2>1, DivType
  <2>3. \A q \in Nat : (q + 1) * BSIZE \in Nat
    BY Sizes
  <2> QED BY <1>0, <2>2, <2>3
<1>8. [dino[f] EXCEPT !.size = z] \in Node /\ [dino[f] EXCEPT !.size = z].addrs = dino[f].addrs
  BY <1>6, <1>7 DEF Node
<1>9. dino' = [dino EXCEPT ![f] = [dino[f] EXCEPT !.size = z]]
  BY <1>1, <1>5 DEF OwnInv, TypeOK
<1>10. dino' \in [Inums -> Node] /\ \A g \in Inums : dino'[g].addrs = dino[g].addrs
  BY <1>5, <1>8, <1>9 DEF OwnInv, TypeOK
<1>11. \E S : mk'.stack \in Seq(S) /\ \A y \in S : y.cur \in Inums
  BY <1>3, <1>5 DEF Frames
<1>12. mk'.child # 0 => mk'.stack # <<>>
  BY <1>0, <1>3
<1>13. UNCHANGED <<mem, run, panicked, blk, bit>>
  BY <1>1
<1> QED BY <1>1, <1>2, <1>3, <1>10, <1>11, <1>12, <1>13, MkAddrsKeep

LEMMA MarkUsedKeeps ==
  ASSUME OwnInv, Roomy, mark_used, UNCHANGED <<mem, run, panicked>>
  PROVE  OwnInv'
<1>1. /\ mk.phase = "mkfs" /\ mk.usedblocks < BPB /\ dino' = dino /\ blk' = blk
      /\ bit' = [b \in DOMAIN bit |-> IF b < mk.usedblocks THEN 1 ELSE 0]
      /\ mk' = [mk EXCEPT !.phase = "run"]
  BY DEF mark_used, Returned
<1>2. /\ DOMAIN mk = {"phase", "freeblock", "usedblocks", "freeinode", "child", "stack", "call"}
      /\ mk.freeblock \in Nat /\ mk.usedblocks = mk.freeblock /\ mk.freeblock >= FirstData
  BY <1>1, MkType
<1>3. /\ mk'.phase = "run" /\ mk'.freeblock = mk.freeblock /\ mk'.usedblocks = mk.usedblocks
      /\ DOMAIN mk' = DOMAIN mk /\ mk'.freeinode = mk.freeinode /\ mk'.stack = mk.stack
      /\ mk'.call = mk.call /\ mk'.child = mk.child
  BY <1>1, <1>2
<1>4. DOMAIN bit = Bits
  BY DEF OwnInv, TypeOK
<1>5. bit' \in [Bits -> {0, 1}] /\ \A b \in Bits : bit'[b] = 1 <=> b < mk.freeblock
  BY <1>1, <1>2, <1>4
<1>6. \A b : Taken(b)' <=> Taken(b)
  <2>1. \A b : Taken(b)' <=> b \in Bits /\ b >= FirstData /\ b < mk.freeblock
    BY <1>3, <1>5 DEF Taken
  <2>2. \A b : Taken(b) <=> b \in FirstData .. (mk.freeblock - 1)
    BY <1>1 DEF Taken
  <2>3. \A b : b \in Bits /\ b >= FirstData /\ b < mk.freeblock <=> b \in FirstData .. (mk.freeblock - 1)
    BY <1>1, <1>2, Constants DEF Bits
  <2> QED BY <2>1, <2>2, <2>3
<1>7. (\A p \in Procs : run[p].op = "idle") /\ \A f \in Inums : mem[f] = Out
  BY <1>1 DEF OwnInv, MkOK
<1>8. TypeOK'
  BY <1>1, <1>5 DEF OwnInv, TypeOK
<1>9. MkOK'
  <2>1. \A b \in 0 .. (FirstData - 1) : b \in Bits /\ b < mk.freeblock
    BY <1>2, Constants DEF Bits
  <2> QED BY <1>3, <1>5, <2>1 DEF OwnInv, MkOK
<1>10. BusyOK' /\ LinkOK'
  BY <1>7 DEF BusyOK, LinkOK
<1>11. MemOK'
  BY <1>1, <1>7 DEF OwnInv, MemOK
<1>12. \A f \in Inums : ip(f)' = ip(f) /\ Top(f)' = Top(f) /\ Live(f)
  BY <1>1 DEF ip, Top, Live
<1>13. \A f \in Inums : \A j : Gone(f, j)' <=> Gone(f, j)
  BY DEF Gone, In
<1>14. \A f \in Inums : Smaller(f)
  BY <1>1, <1>12, <1>13 DEF Smaller
<1>15. \A f \in Inums : \A n, b : Pending(f, n, b)' => Pending(f, n, b)
  BY DEF Pending, At, Bn
<1>16. ClaimOK'
  BY <1>6, <1>14, <1>15, SmallerClaim, ClaimsKept DEF OwnInv, Claim
<1>17. EntryOK' /\ FreeZero'
  BY <1>1, <1>6, <1>12 DEF OwnInv, EntryOK, FreeZero
<1> QED BY <1>8, <1>9, <1>10, <1>11, <1>16, <1>17 DEF OwnInv, PanicOK

----------------------------------------------------------------------------
(* The theorem.                                                            *)

LEMMA InitOwn == Init => OwnInv
<1> SUFFICES ASSUME Init PROVE OwnInv
  OBVIOUS
<1>1. PICK tree \in HostTrees :
        /\ dino = [i \in Inums |-> IF i = ROOTINO THEN Inode(T_DIR, 1) ELSE NoFile]
        /\ blk = [b \in Blocks |-> ZeroBlock]
        /\ bit = [b \in 0 .. (bitblocks * BPB - 1) |-> 0]
        /\ mk = [phase |-> "mkfs", freeblock |-> FirstData, usedblocks |-> FirstData,
                 freeinode |-> ROOTINO + 1, child |-> 0,
                 stack |-> <<Frame(ROOTINO, ROOTINO, tree)>>,
                 call |-> iappend(ROOTINO, <<ROOTINO, ROOTINO>>)]
  BY DEF Init, MkInit
<1>2. mem = [f \in Inums |-> Out] /\ run = [p \in Procs |-> Idle] /\ panicked = "no"
  BY DEF Init
<1>3. \A f \in Inums : dino[f] \in Node /\ \A i \in 0 .. NDIRECT : dino[f].addrs[i] = 0
  BY <1>1 DEF Inode, NoFile, Node, T_DIR
<1>4. \A p \in Procs : run[p].op = "idle" /\ RunOK(run[p])
  BY <1>2 DEF RunOK, Idle
<1>5. TypeOK
  BY <1>1, <1>2, <1>3, <1>4, Sizes DEF TypeOK, Bits, ZeroBlock
<1>6. NDIRECT \in 0 .. NDIRECT /\ TAG > 0 /\ FirstData > 0 /\ FirstData \in Nat
  BY Sizes
<1>7. MkOK
  <2>1. mk.stack \in Seq({Frame(ROOTINO, ROOTINO, tree)}) /\ Frame(ROOTINO, ROOTINO, tree).cur \in Inums
    BY <1>1, Sizes DEF Frame
  <2>2. \E S : mk.stack \in Seq(S) /\ \A x \in S : x.cur \in Inums
    BY <2>1
  <2>3. /\ DOMAIN mk = {"phase", "freeblock", "usedblocks", "freeinode", "child", "stack", "call"}
        /\ mk.phase = "mkfs" /\ mk.freeblock = FirstData /\ mk.usedblocks = FirstData
        /\ mk.freeinode = 2 /\ mk.child = 0 /\ DOMAIN mk.call = {"inum", "p", "done"}
        /\ mk.call.inum = ROOTINO /\ mk.call.done = 0
    BY <1>1 DEF iappend, ROOTINO
  <2>4. \A b \in Bits : bit[b] = 0
    BY <1>1 DEF Bits
  <2> QED BY <1>2, <1>3, <1>4, <1>6, <2>2, <2>3, <2>4, Sizes DEF MkOK
<1>8. BusyOK /\ LinkOK /\ PanicOK
  BY <1>2, <1>4 DEF BusyOK, LinkOK, PanicOK
<1>9. MemOK
  BY <1>2, <1>3, <1>6 DEF MemOK
<1>10. \A f \in Inums : ip(f) = dino[f] /\ Top(f) = 0
  BY <1>2, <1>3, <1>6 DEF ip, Top
<1>11. \A f \in Inums : \A n, b : ~Claim(f, n, b)
  BY <1>3, <1>4, <1>10 DEF Claim, InNode, InBlock, Pending, At
<1>12. ClaimOK /\ EntryOK /\ FreeZero
  BY <1>1, <1>10, <1>11 DEF ClaimOK, EntryOK, FreeZero
<1> QED BY <1>5, <1>7, <1>8, <1>9, <1>12 DEF OwnInv

LEMMA NextOwn ==
  ASSUME OwnInv, Roomy, Roomy', [Next]_vars
  PROVE  OwnInv'
<1>1. CASE Build
  <2>1. MkNext /\ UNCHANGED <<mem, run, panicked>>
    BY <1>1 DEF Build
  <2> QED BY <2>1, IappendBlockKeeps, IappendIndirectKeeps, IappendUnitKeeps, AddFileKeeps,
             AddDirEnterKeeps, AddEntryKeeps, AddDirReturnKeeps, MarkUsedKeeps DEF MkNext
<1>2. ASSUME NEW p \in Procs, Work(p) PROVE OwnInv'
  BY <1>2, BmapInodeKeeps, BmapIndirectKeeps, BmapLinkKeeps, WriteBlockKeeps, WriteSumKeeps,
     IupdateKeeps, ReadBlockKeeps, DoneKeeps, TruncDirectKeeps, TruncIndirectKeeps,
     TruncUpdateKeeps, IputFreeKeeps DEF Work
<1>3. ASSUME NEW p \in Procs, NEW f \in Inums,
             \/ Delete(p, f) \/ stati(p, f)
             \/ \E t \in {T_FILE, T_CHECKED} : Create(p, f, t)
             \/ \E off \in Units \cup {MAXFILE * BSIZE} :
                  \/ \E s \in Payloads : Write(p, f, off, s)
                  \/ \E n \in ReadLens : Read(p, f, off, n)
      PROVE  OwnInv'
  BY <1>3, DeleteKeeps, StatKeeps, CreateKeeps, WriteKeeps, ReadKeeps
<1>4. ASSUME NEW f \in Inums, Evict(f) \/ Rot(f) PROVE OwnInv'
  BY <1>4, EvictKeeps, RotKeeps
<1>5. CASE Crash
  BY <1>5, CrashKeeps
<1>6. CASE UNCHANGED vars
  <2>1. UNCHANGED <<dino, blk, bit, mk, mem, run, panicked>>
    BY <1>6 DEF vars, mkvars
  <2>2. TypeOK' /\ MkOK' /\ BusyOK' /\ MemOK' /\ PanicOK'
    <3>1. TypeOK' /\ PanicOK'
      BY <2>1 DEF OwnInv, TypeOK, PanicOK
    <3>2. MkOK'
      BY <2>1 DEF OwnInv, MkOK
    <3>3. BusyOK' /\ MemOK'
      BY <2>1 DEF OwnInv, BusyOK, MemOK, Linked
    <3> QED BY <3>1, <3>2, <3>3
  <2>3. /\ \A f, n, b : Claim(f, n, b)' <=> Claim(f, n, b)
        /\ \A b : Taken(b)' <=> Taken(b)
        /\ \A f : Live(f)' <=> Live(f)
        /\ \A f : Top(f)' = Top(f)
        /\ \A p : Bn(p)' = Bn(p)
    BY <2>1 DEF Claim, InNode, InBlock, Pending, Taken, Live, Top, ip, Gone, In, At, Bn, Linked
  <2>4. ClaimOK'
    BY <2>3 DEF OwnInv, ClaimOK
  <2>5. EntryOK' /\ FreeZero'
    BY <2>1, <2>3 DEF OwnInv, EntryOK, FreeZero
  <2>6. LinkOK'
    BY <2>1 DEF OwnInv, LinkOK, Top, ip, Bn
  <2> QED BY <2>2, <2>4, <2>5, <2>6 DEF OwnInv
<1> QED BY <1>1, <1>2, <1>3, <1>4, <1>5, <1>6 DEF Next

LEMMA OwnImplies ==
  ASSUME OwnInv, Roomy
  PROVE  BlocksOwned
<1> SUFFICES ASSUME mk.phase = "run" PROVE BlocksOwned
  BY DEF BlocksOwned
<1>1. \A f \in Inums : Linked(f) => \A j : ~Gone(f, j)
  <2> SUFFICES ASSUME NEW f \in Inums, Linked(f), NEW j, Gone(f, j) PROVE FALSE
    OBVIOUS
  <2>1. PICK p \in Procs : run[p].op = "itrunc" /\ run[p].f = f
    BY DEF Gone, In
  <2>2. dino[f].nlink = 0
    BY <2>1 DEF OwnInv, BusyOK
  <2> QED BY <2>2 DEF Linked
<1>2. ASSUME NEW N, \A f \in Inums : N[f] \in {dino[f], ip(f)} PROVE Owned(N)
  <2> DEFINE all == UNION {{<<f, r[1], r[2]>> : r \in Refs(N[f])} : f \in LinkedFiles}
  <2>1. ASSUME NEW x \in all
        PROVE  \E f \in Inums, n \in 0 .. MAXFILE, b \in Nat : x = <<f, n, b>> /\ Claim(f, n, b)
    <3>1. PICK f \in LinkedFiles : x \in {<<f, r[1], r[2]>> : r \in Refs(N[f])}
      OBVIOUS
    <3>2. PICK r \in Refs(N[f]) : x = <<f, r[1], r[2]>>
      BY <3>1
    <3>3. f \in Inums /\ Linked(f)
      BY DEF LinkedFiles
    <3>4. r[1] \in 0 .. MAXFILE /\ r[2] \in Nat /\ Claim(f, r[1], r[2])
      BY <1>1, <1>2, <3>3, RefsClaimed
    <3> QED BY <3>2, <3>3, <3>4
  <2> HIDE DEF all
  <2>2. ASSUME NEW x \in all PROVE x[3] >= FirstData /\ bit[x[3]] = 1
    BY <2>1, ClaimBlock DEF OwnInv
  <2>3. ASSUME NEW x \in all, NEW y \in all, x[3] = y[3] PROVE x = y
    <3>1. PICK f \in Inums, n \in 0 .. MAXFILE, b \in Nat : x = <<f, n, b>> /\ Claim(f, n, b)
      BY <2>1
    <3>2. PICK g \in Inums, m \in 0 .. MAXFILE, c \in Nat : y = <<g, m, c>> /\ Claim(g, m, c)
      BY <2>1
    <3>3. c = b
      BY <2>3, <3>1, <3>2
    <3>4. f = g /\ n = m
      BY <3>1, <3>2, <3>3 DEF OwnInv, ClaimOK
    <3> QED BY <3>1, <3>2, <3>3, <3>4
  <2> QED BY <2>2, <2>3 DEF Owned, all
<1>3. Owned(dino)
  BY <1>2
<1>4. Owned([f \in Inums |-> ip(f)])
  BY <1>2
<1> QED BY <1>3, <1>4 DEF BlocksOwned, OwnInv, PanicOK

\* Whatever the sizes, the number of processes and the host's directory: as
\* long as the image has room for what mkfs and balloc take, a block that a
\* linked inode leads to, from memory or from the disk, is marked in the
\* bitmap and belongs to one place of one file, between any two steps of
\* bmap, writei and itrunc and after a crash; bfree never frees a free block.
THEOREM BlocksOwnedCorrect == Spec /\ []Roomy => []BlocksOwned
<1>1. Init => OwnInv
  BY InitOwn
<1>2. OwnInv /\ Roomy /\ Roomy' /\ [Next]_vars => OwnInv'
  BY NextOwn
<1>3. OwnInv /\ Roomy => BlocksOwned
  BY OwnImplies
<1> QED BY <1>1, <1>2, <1>3, PTL DEF Spec

=============================================================================
