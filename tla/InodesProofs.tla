---------------------------- MODULE InodesProofs ----------------------------
(***************************************************************************)
(* Proofs about Inodes, for any number of processes, of inodes, of entries *)
(* of the inode cache and of names: first the reference counts, for every  *)
(* set of paths, then locks and link counts, for paths that do not go up.  *)
(***************************************************************************)
EXTENDS Inodes, TLAPS, FiniteSetTheorems, WellFoundedInduction

Puts  == {"iput", "iput_free", "iput_done"}
DpAt  == {"cr_dp", "cr_new", "un_dp", "un_ip", "un_ne", "ln_dp", "ln_exists"}
IpAt  == {"op", "cd", "cr_new", "cr_found", "mk_end", "un_ip", "un_end",
          "ln", "ln_new", "ln_dp", "ln_end", "ln_exists", "ln_bad"}
Inner == {"user", "nx"} \cup DpAt \cup IpAt
Calls == {"open", "openw", "creat", "mkdir", "unlink", "link", "chdir"}
Types == {"0", "DIR", "FILE"}

Stacks ==
  [pc : Inner \cup Puts, k : Inner, op : Calls \cup {"-"}, path : Seq(Elems), name : Elems,
   cur : Slots \cup {Nil}, ip : Slots \cup {Nil}, dp : Slots \cup {Nil},
   arg : Slots \cup {Nil}, lk : SUBSET Slots]
Caches ==
  [Slots -> [inum : Inums \cup {Nil}, ref : Nat, busy : BOOLEAN, valid : BOOLEAN,
             type : Types, nlink : Int]]

\* Where a process is, or will be when iput() returns.
Place(r) == IF r.pc \in Puts THEN r.k ELSE r.pc

\* The pointers a kernel stack holds at place k.
Holds(k, r) ==
  /\ IF k = "nx" THEN r.cur \in Slots /\ r.op \in Calls ELSE r.cur = Nil
  /\ IF k \in DpAt THEN r.dp \in Slots ELSE r.dp = Nil
  /\ IF k \in IpAt THEN r.ip \in Slots ELSE r.ip # Nil => k = "nx" /\ r.op = "link"
  /\ k \in {"ln", "ln_new"} => r.op = "link"
Shape(r) ==
  /\ IF r.pc \in Puts THEN r.arg \in Slots ELSE r.arg = Nil
  /\ Holds(Place(r), r)
  /\ r.pc = "user" => r = User

\* No two entries in use are for the same inode.
CacheOK(c) ==
  /\ c \in Caches
  /\ \A s \in Slots : c[s].ref > 0 => c[s].inum \in Inums
  /\ \A s, t \in Slots : c[s].ref > 0 /\ c[t].ref > 0 /\ c[s].inum = c[t].inum => s = t

\* The types of the variables.
TypeOK ==
  /\ CacheOK(icache)
  /\ dinode \in [Inums -> [type : Types, nlink : Int]]
  /\ dents \in [Inums -> [Elems -> Inums \cup {Nil}]]
  /\ pr \in [Procs -> Stacks]
  /\ \A p \in Procs : Shape(pr[p])
  /\ cwd \in [Procs -> Slots]
  /\ ofile \in [Procs -> Slots \cup {Nil}]

RInv == TypeOK /\ RefsCounted

----------------------------------------------------------------------------
(* Counting pointers: those of one process and those of the others.        *)

Fields == {"cur", "ip", "dp", "arg"}
One(x, s) == IF x = s THEN 1 ELSE 0

\* The pointers to s in a stack r, a working directory c and a descriptor o.
Own(r, s) == One(r.cur, s) + One(r.ip, s) + One(r.dp, s) + One(r.arg, s)
Mine(r, c, o, s) == Own(r, s) + One(c, s) + One(o, s)

\* The pointers to s in the stacks f, the working directories c and the
\* descriptors o of the processes in P.
Count(P, f, c, o, s) ==
  Cardinality({x \in P \X Fields : f[x[1]][x[2]] = s})
  + Cardinality({q \in P : c[q] = s}) + Cardinality({q \in P : o[q] = s})

\* The least member of a set of naturals is one of its members.
LEMMA MinIn == ASSUME NEW S \in SUBSET Nat, S # {} PROVE Min(S) \in S
<1> DEFINE LT == {ss \in Nat \X Nat : ss[1] < ss[2]}
<1>1. IsWellFoundedOn(LT, Nat)
  BY NatLessThanWellFounded, Zenon DEF OpToRel
<1>2. PICK x \in S : \A y \in S : ~(<<y, x>> \in LT)
  BY <1>1, WFMin, Zenon
<1>3. \A y, z \in Nat : y < z => <<y, z>> \in LT
  OBVIOUS
<1>4. \A y \in S : ~(y < x)
  <2> HIDE DEF LT
  <2> QED
    BY <1>2, <1>3
<1>5. \A y \in S : x =< y
  BY <1>4
<1> QED
  BY <1>5 DEF Min

\* The parts of a finite set with and without an element.
LEMMA CountOne ==
  ASSUME NEW S, IsFiniteSet(S), NEW x
  PROVE  /\ IsFiniteSet(S \ {x}) /\ Cardinality(S \ {x}) \in Nat
         /\ Cardinality(S) = Cardinality(S \ {x}) + (IF x \in S THEN 1 ELSE 0)
<1>1. IsFiniteSet(S \ {x}) /\ Cardinality(S \ {x}) = IF x \in S THEN Cardinality(S) - 1 ELSE Cardinality(S)
  BY FS_RemoveElement
<1>2. Cardinality(S) \in Nat /\ Cardinality(S \ {x}) \in Nat
  BY <1>1, FS_CardinalityType
<1> QED
  BY <1>1, <1>2

\* The pointers to s are those of p and those of the others.
LEMMA Split ==
  ASSUME IsFiniteSet(Procs), NEW f, NEW c, NEW o, NEW p \in Procs, NEW s
  PROVE  /\ Count(Procs \ {p}, f, c, o, s) \in Nat
         /\ Count(Procs, f, c, o, s)
              = Count(Procs \ {p}, f, c, o, s) + Mine(f[p], c[p], o[p], s)
<1> DEFINE A  == {x \in Procs \X Fields : f[x[1]][x[2]] = s}
           A1 == A \ {<<p, "cur">>}
           A2 == A1 \ {<<p, "ip">>}
           A3 == A2 \ {<<p, "dp">>}
           A4 == A3 \ {<<p, "arg">>}
           B  == {x \in (Procs \ {p}) \X Fields : f[x[1]][x[2]] = s}
           C  == {q \in Procs : c[q] = s}
           D  == {q \in Procs : o[q] = s}
<1>1. IsFiniteSet(A) /\ IsFiniteSet(C) /\ IsFiniteSet(D)
  <2>1. IsFiniteSet(Fields)
    <3>1. IsFiniteSet({"cur"})
      BY FS_Singleton
    <3>2. IsFiniteSet({"cur"} \cup {"ip"})
      BY <3>1, FS_AddElement
    <3>3. IsFiniteSet(({"cur"} \cup {"ip"}) \cup {"dp"})
      BY <3>2, FS_AddElement
    <3>4. IsFiniteSet((({"cur"} \cup {"ip"}) \cup {"dp"}) \cup {"arg"})
      BY <3>3, FS_AddElement
    <3>5. Fields = (({"cur"} \cup {"ip"}) \cup {"dp"}) \cup {"arg"}
      BY DEF Fields
    <3> QED
      BY <3>4, <3>5
  <2>2. IsFiniteSet(Procs \X Fields)
    BY <2>1, FS_Product
  <2>3. A \in SUBSET (Procs \X Fields) /\ C \in SUBSET Procs /\ D \in SUBSET Procs
    OBVIOUS
  <2> QED
    BY <2>2, <2>3, FS_Subset
<1>2. /\ <<p, "cur">> \in A <=> f[p]["cur"] = s
      /\ <<p, "ip">> \in A1 <=> f[p]["ip"] = s
      /\ <<p, "dp">> \in A2 <=> f[p]["dp"] = s
      /\ <<p, "arg">> \in A3 <=> f[p]["arg"] = s
  BY DEF Fields
<1>3. A4 = B
  BY DEF Fields
<1>4. /\ p \in C <=> c[p] = s
      /\ p \in D <=> o[p] = s
      /\ C \ {p} = {q \in Procs \ {p} : c[q] = s}
      /\ D \ {p} = {q \in Procs \ {p} : o[q] = s}
  OBVIOUS
<1> HIDE DEF A, B, C, D
<1>6. /\ IsFiniteSet(A1) /\ Cardinality(A) = Cardinality(A1) + One(f[p].cur, s)
      /\ IsFiniteSet(A2) /\ Cardinality(A1) = Cardinality(A2) + One(f[p].ip, s)
      /\ IsFiniteSet(A3) /\ Cardinality(A2) = Cardinality(A3) + One(f[p].dp, s)
      /\ Cardinality(A3) = Cardinality(A4) + One(f[p].arg, s) /\ Cardinality(A4) \in Nat
  <2>1. IsFiniteSet(A1) /\ Cardinality(A) = Cardinality(A1) + One(f[p].cur, s)
    BY <1>1, <1>2, CountOne DEF One
  <2> HIDE DEF A1
  <2>2. IsFiniteSet(A2) /\ Cardinality(A1) = Cardinality(A2) + One(f[p].ip, s)
    BY <2>1, <1>2, CountOne DEF One
  <2> HIDE DEF A2
  <2>3. IsFiniteSet(A3) /\ Cardinality(A2) = Cardinality(A3) + One(f[p].dp, s)
    BY <2>2, <1>2, CountOne DEF One
  <2> HIDE DEF A3
  <2>4. Cardinality(A3) = Cardinality(A4) + One(f[p].arg, s) /\ Cardinality(A4) \in Nat
    BY <2>3, <1>2, CountOne DEF One
  <2> QED
    BY <2>1, <2>2, <2>3, <2>4
<1>7. /\ Cardinality(C) = Cardinality(C \ {p}) + One(c[p], s) /\ Cardinality(C \ {p}) \in Nat
      /\ Cardinality(D) = Cardinality(D \ {p}) + One(o[p], s) /\ Cardinality(D \ {p}) \in Nat
  BY <1>1, <1>4, CountOne DEF One
<1> HIDE DEF A1, A2, A3, A4
<1>8. Count(Procs \ {p}, f, c, o, s) = Cardinality(A4) + Cardinality(C \ {p}) + Cardinality(D \ {p})
  BY <1>3, <1>4 DEF Count, B
<1>9. Count(Procs, f, c, o, s) = Cardinality(A) + Cardinality(C) + Cardinality(D)
  BY DEF Count, A, C, D
<1>10. \A x, y : One(x, y) \in Nat
  BY DEF One
<1> HIDE DEF A4
<1> QED
  BY <1>6, <1>7, <1>8, <1>9, <1>10 DEF Mine, Own

\* The pointers to s before and after a step.
LEMMA PointersSplit ==
  ASSUME NEW p \in Procs, NEW s
  PROVE  /\ Pointers(s) = Count(Procs \ {p}, pr, cwd, ofile, s) + Mine(pr[p], cwd[p], ofile[p], s)
         /\ Count(Procs \ {p}, pr, cwd, ofile, s) \in Nat
<1>1. Pointers(s) = Count(Procs, pr, cwd, ofile, s)
  BY DEF Pointers, Count, Fields
<1>2. IsFiniteSet(Procs)
  BY InodesAssumption
<1>3. /\ Count(Procs \ {p}, pr, cwd, ofile, s) \in Nat
      /\ Count(Procs, pr, cwd, ofile, s)
           = Count(Procs \ {p}, pr, cwd, ofile, s) + Mine(pr[p], cwd[p], ofile[p], s)
  BY <1>2, Split
<1> QED
  BY <1>1, <1>3, Zenon

\* PointersSplit, of the next state.
LEMMA PointersSplitNext ==
  ASSUME NEW p \in Procs, NEW s
  PROVE  Pointers(s)' = Count(Procs \ {p}, pr', cwd', ofile', s) + Mine(pr'[p], cwd'[p], ofile'[p], s)
<1>1. Pointers(s)' = Count(Procs, pr', cwd', ofile', s)
  BY DEF Pointers, Count, Fields
<1>2. IsFiniteSet(Procs)
  BY InodesAssumption
<1>3. /\ Count(Procs \ {p}, pr', cwd', ofile', s) \in Nat
      /\ Count(Procs, pr', cwd', ofile', s)
           = Count(Procs \ {p}, pr', cwd', ofile', s) + Mine(pr'[p], cwd'[p], ofile'[p], s)
  BY <1>2, Split
<1> QED
  BY <1>1, <1>3, Zenon

\* What a step of one process makes of the pointers to a slot.
LEMMA PointersChange ==
  ASSUME NEW p \in Procs, NEW s, NEW z \in Nat
  PROVE  /\ Count(Procs \ {p}, pr', cwd', ofile', s) = Count(Procs \ {p}, pr, cwd, ofile, s)
         /\ Mine(pr'[p], cwd'[p], ofile'[p], s) = z
         /\ icache[s].ref = Pointers(s) /\ icache'[s].ref \in Nat
         /\ icache'[s].ref + Mine(pr[p], cwd[p], ofile[p], s) = icache[s].ref + z
         => icache'[s].ref = Pointers(s)'
<1>0. ASSUME /\ Count(Procs \ {p}, pr', cwd', ofile', s) = Count(Procs \ {p}, pr, cwd, ofile, s)
             /\ Mine(pr'[p], cwd'[p], ofile'[p], s) = z
             /\ icache[s].ref = Pointers(s) /\ icache'[s].ref \in Nat
             /\ icache'[s].ref + Mine(pr[p], cwd[p], ofile[p], s) = icache[s].ref + z
      PROVE  icache'[s].ref = Pointers(s)'
  <2>1. PICK x \in Nat : x = Count(Procs \ {p}, pr, cwd, ofile, s)
    BY PointersSplit
  <2>2. PICK y \in Nat : y = Mine(pr[p], cwd[p], ofile[p], s)
    BY DEF Mine, Own, One
  <2>3. Pointers(s) = x + y
    BY <2>1, <2>2, PointersSplit
  <2>4. Pointers(s)' = x + z
    BY <1>0, <2>1, PointersSplitNext
  <2>5. icache'[s].ref + y = icache[s].ref + z
    BY <1>0, <2>2, Zenon
  <2>6. icache[s].ref = Pointers(s) /\ icache'[s].ref \in Nat
    BY <1>0, Zenon
  <2> QED
    BY <2>3, <2>4, <2>5, <2>6
<1> QED
  BY <1>0, Zenon

\* The count of every entry stays right if its references change by as much
\* as the pointers of the process that makes the step.
LEMMA Balance ==
  ASSUME RInv, NEW p \in Procs, NEW r \in Stacks, Shape(r), pr' = [pr EXCEPT ![p] = r],
         cwd' \in [Procs -> Slots], ofile' \in [Procs -> Slots \cup {Nil}],
         \A q \in Procs \ {p} : cwd'[q] = cwd[q] /\ ofile'[q] = ofile[q],
         CacheOK(icache'),
         dinode' \in [Inums -> [type : Types, nlink : Int]],
         dents' \in [Inums -> [Elems -> Inums \cup {Nil}]],
         \A s \in Slots : icache'[s].ref + Mine(pr[p], cwd[p], ofile[p], s)
                            = icache[s].ref + Mine(r, cwd'[p], ofile'[p], s)
  PROVE  RInv'
<1>2. pr'[p] = r /\ \A q \in Procs \ {p} : pr'[q] = pr[q]
  BY DEF RInv, TypeOK
<1>3. pr' \in [Procs -> Stacks] /\ \A q \in Procs : Shape(pr'[q])
  BY <1>2 DEF RInv, TypeOK
<1>4. ASSUME NEW s \in Slots PROVE icache'[s].ref = Pointers(s)'
  <2> DEFINE z == Mine(r, cwd'[p], ofile'[p], s)
  <2>1. Count(Procs \ {p}, pr', cwd', ofile', s) = Count(Procs \ {p}, pr, cwd, ofile, s)
    <3>1. {t \in (Procs \ {p}) \X Fields : pr'[t[1]][t[2]] = s}
            = {t \in (Procs \ {p}) \X Fields : pr[t[1]][t[2]] = s}
      BY <1>2
    <3>2. /\ {q \in Procs \ {p} : cwd'[q] = s} = {q \in Procs \ {p} : cwd[q] = s}
          /\ {q \in Procs \ {p} : ofile'[q] = s} = {q \in Procs \ {p} : ofile[q] = s}
      OBVIOUS
    <3> QED
      BY <3>1, <3>2, Zenon DEF Count
  <2>2. Mine(pr'[p], cwd'[p], ofile'[p], s) = z
    BY <1>2, Zenon
  <2>3. icache[s].ref = Pointers(s) /\ icache'[s].ref \in Nat
    BY DEF RInv, RefsCounted, TypeOK, CacheOK, Caches
  <2>4. z \in Nat
    BY DEF Mine, Own, One
  <2>5. icache'[s].ref + Mine(pr[p], cwd[p], ofile[p], s) = icache[s].ref + z
    OBVIOUS
  <2> HIDE DEF z
  <2> QED
    BY <2>1, <2>2, <2>3, <2>4, <2>5, PointersChange, Zenon
<1> QED
  BY <1>3, <1>4 DEF RInv, TypeOK, RefsCounted

\* The same when nothing is counted up or down.
LEMMA Moves ==
  ASSUME RInv, NEW p \in Procs, NEW r \in Stacks, Shape(r), pr' = [pr EXCEPT ![p] = r],
         cwd' \in [Procs -> Slots], ofile' \in [Procs -> Slots \cup {Nil}],
         \A q \in Procs \ {p} : cwd'[q] = cwd[q] /\ ofile'[q] = ofile[q],
         icache' \in Caches,
         \A s \in Slots : icache'[s].ref = icache[s].ref /\ icache'[s].inum = icache[s].inum,
         dinode' \in [Inums -> [type : Types, nlink : Int]],
         dents' \in [Inums -> [Elems -> Inums \cup {Nil}]],
         \A s \in Slots : Mine(pr[p], cwd[p], ofile[p], s) = Mine(r, cwd'[p], ofile'[p], s)
  PROVE  RInv'
<1>1. CacheOK(icache')
  BY DEF RInv, TypeOK, CacheOK
<1>2. \A s \in Slots : icache'[s].ref + Mine(pr[p], cwd[p], ofile[p], s)
                         = icache[s].ref + Mine(r, cwd'[p], ofile'[p], s)
  OBVIOUS
<1> QED
  BY <1>1, <1>2, Balance

\* An entry that a process points to is in use.
LEMMA Pointed ==
  ASSUME RInv, NEW p \in Procs, NEW s \in Slots,
         s \in {pr[p].cur, pr[p].ip, pr[p].dp, pr[p].arg, cwd[p], ofile[p]}
  PROVE  /\ icache[s].ref > 0 /\ icache[s].inum \in Inums
         /\ icache[s].ref >= Mine(pr[p], cwd[p], ofile[p], s)
<1>1. /\ Count(Procs \ {p}, pr, cwd, ofile, s) \in Nat
      /\ Pointers(s) = Count(Procs \ {p}, pr, cwd, ofile, s) + Mine(pr[p], cwd[p], ofile[p], s)
  BY PointersSplit
<1>3. icache[s].ref = Pointers(s)
  BY DEF RInv, RefsCounted
<1>4. Mine(pr[p], cwd[p], ofile[p], s) \in Nat \ {0}
  BY DEF Mine, Own, One
<1>5. icache[s].ref > 0 /\ icache[s].ref >= Mine(pr[p], cwd[p], ofile[p], s)
  BY <1>1, <1>3, <1>4
<1> QED
  BY <1>5 DEF RInv, TypeOK, CacheOK

----------------------------------------------------------------------------
(* What the operators on the cache do.                                     *)

\* Slots are numbers, and the mark of no slot is neither a slot nor an inode.
LEMMA SlotsNat == Slots \in SUBSET Nat /\ Nil \notin Slots /\ 1 \in Slots /\ Nil \notin Inums
<1>1. Cardinality(Inums) >= 1
  <2>1. Cardinality(Inums) \in Nat /\ Cardinality(Inums) # 0
    BY InodesAssumption, FS_CardinalityType, FS_EmptySet
  <2> QED
    BY <2>1
<1>2. Cardinality(Inums) \in Nat
  BY InodesAssumption, FS_CardinalityType
<1> QED
  BY <1>1, <1>2, InodesAssumption DEF Slots, Nil

\* While an inode is not in the cache, an entry is free: there are as many
\* entries as inodes.
LEMMA FreeSlot ==
  ASSUME TypeOK, NEW i \in Inums, Cached(i) = {}
  PROVE  {s \in Slots : icache[s].ref = 0} # {}
<1> SUFFICES ASSUME \A s \in Slots : icache[s].ref # 0 PROVE FALSE
  OBVIOUS
<1> DEFINE f == [s \in Slots |-> icache[s].inum]
           T == Inums \ {i}
<1>1. \A s \in Slots : icache[s].ref > 0 /\ icache[s].inum # i
  BY DEF TypeOK, CacheOK, Caches, Cached
<1>2. f \in [Slots -> T]
  BY <1>1 DEF TypeOK, CacheOK
<1>3. IsFiniteSet(Slots) /\ Cardinality(Slots) = NINODE
  <2>1. NINODE \in Nat /\ NINODE >= 1
    BY InodesAssumption, SlotsNat DEF Slots
  <2>2. IsFiniteSet(1 .. NINODE) /\ Cardinality(1 .. NINODE) = IF 1 > NINODE THEN 0 ELSE NINODE - 1 + 1
    BY <2>1, FS_Interval
  <2> QED
    BY <2>1, <2>2 DEF Slots
<1>4. IsFiniteSet(T) /\ Cardinality(T) = Cardinality(Inums) - 1
  BY InodesAssumption, FS_RemoveElement
<1>5. Cardinality(T) < Cardinality(Slots)
  <2>1. Cardinality(Inums) \in Nat
    BY InodesAssumption, FS_CardinalityType
  <2> QED
    BY <1>3, <1>4, <2>1, InodesAssumption
<1> HIDE DEF T
<1>6. \E x, y \in Slots : x # y /\ f[x] = f[y]
  <2> HIDE DEF f
  <2> QED
    BY <1>2, <1>3, <1>4, <1>5, FS_PigeonHole
<1> QED
  BY <1>1, <1>6 DEF TypeOK, CacheOK

\* iget() counts one more reference to the entry it returns, which is that
\* of the inode.
LEMMA IgetIs ==
  ASSUME TypeOK, NEW i \in Inums
  PROVE  /\ igot(i) \in Slots
         /\ CacheOK(iget(i))
         /\ \A s \in Slots : iget(i)[s].ref = icache[s].ref + One(igot(i), s)
         /\ iget(i)[igot(i)].inum = i
         /\ \A s \in Slots : s # igot(i) => iget(i)[s] = icache[s]
         /\ Cached(i) # {} => icache[igot(i)].ref > 0 /\ icache[igot(i)].inum = i
                              /\ iget(i)[igot(i)] = Ref(icache[igot(i)], 1)
         /\ Cached(i) = {} => iget(i)[igot(i)] = Fresh(i, 1)
                              /\ icache[igot(i)].ref = 0
<1> DEFINE g == igot(i)
           c == iget(i)
<1>0. CacheOK(icache) /\ icache \in Caches
  BY DEF TypeOK, CacheOK
<1>a. c = [icache EXCEPT ![g] = IF Cached(i) # {} THEN Ref(icache[g], 1)
                                ELSE Fresh(i, 1)]
  BY Zenon DEF iget
<1>1. CASE Cached(i) # {}
  <2>1. g \in Cached(i)
    <3>1. Cached(i) \in SUBSET Nat
      BY SlotsNat DEF Cached
    <3> QED
      BY <1>1, <3>1, MinIn DEF igot
  <2>2. g \in Slots /\ icache[g].ref > 0 /\ icache[g].inum = i
    BY <2>1 DEF Cached
  <2> HIDE DEF g, c
  <2>3. c = [icache EXCEPT ![g] = Ref(icache[g], 1)]
    BY <1>1, <1>a
  <2>4. c[g] = Ref(icache[g], 1) /\ \A s \in Slots \ {g} : c[s] = icache[s]
    BY <1>0, <2>2, <2>3 DEF Caches
  <2>5. c[g].ref = icache[g].ref + 1 /\ c[g].inum = icache[g].inum
    BY <1>0, <2>2, <2>4 DEF Caches, Ref
  <2>6. c \in Caches
    BY <1>0, <2>2, <2>3 DEF Caches, Ref
  <2>7. \A s \in Slots : icache[s].ref \in Nat
    BY <1>0 DEF Caches
  <2>8. \A s \in Slots : (c[s].ref > 0 <=> icache[s].ref > 0) /\ c[s].inum = icache[s].inum
    <3> SUFFICES ASSUME NEW s \in Slots
                 PROVE  (c[s].ref > 0 <=> icache[s].ref > 0) /\ c[s].inum = icache[s].inum
      OBVIOUS
    <3>1. CASE s = g
      BY <3>1, <2>2, <2>5, <2>7
    <3>2. CASE s # g
      BY <3>2, <2>4
    <3> QED
      BY <3>1, <3>2
  <2>9. CacheOK(c)
    BY <1>0, <2>6, <2>8 DEF CacheOK
  <2>10. \A s \in Slots : c[s].ref = icache[s].ref + One(g, s)
    <3> SUFFICES ASSUME NEW s \in Slots PROVE c[s].ref = icache[s].ref + One(g, s)
      OBVIOUS
    <3>1. CASE s = g
      BY <3>1, <2>5 DEF One
    <3>2. CASE s # g
      BY <3>2, <2>4, <2>7 DEF One
    <3> QED
      BY <3>1, <3>2
  <2> QED
    BY <1>1, <2>2, <2>4, <2>5, <2>9, <2>10 DEF g, c
<1>2. CASE Cached(i) = {}
  <2>1. g \in {s \in Slots : icache[s].ref = 0}
    <3>1. {s \in Slots : icache[s].ref = 0} \in SUBSET Nat
      BY SlotsNat
    <3> QED
      BY <1>2, <3>1, FreeSlot, MinIn DEF igot
  <2>2. g \in Slots /\ icache[g].ref = 0
    BY <2>1
  <2> HIDE DEF g, c
  <2> DEFINE new == Fresh(i, 1)
  <2>3. c = [icache EXCEPT ![g] = new]
    BY <1>2, <1>a
  <2>5. new \in [inum : Inums \cup {Nil}, ref : Nat, busy : BOOLEAN, valid : BOOLEAN,
                 type : Types, nlink : Int] /\ new.ref = 1 /\ new.inum = i
    BY DEF Fresh, Types
  <2> HIDE DEF new
  <2>4. c[g] = new /\ \A s \in Slots \ {g} : c[s] = icache[s]
    BY <1>0, <2>2, <2>3 DEF Caches
  <2>6. c \in Caches
    BY <1>0, <2>2, <2>3, <2>5 DEF Caches
  <2>7. \A s \in Slots : icache[s].ref \in Nat
    BY <1>0 DEF Caches
  <2>8. \A s \in Slots : icache[s].ref > 0 => icache[s].inum # i
    BY <1>2 DEF Cached
  <2>9. CacheOK(c)
    <3>1. \A s \in Slots : c[s].ref > 0 => c[s].inum \in Inums
      BY <1>0, <2>4, <2>5 DEF CacheOK
    <3>2. ASSUME NEW s \in Slots, NEW t \in Slots, c[s].ref > 0, c[t].ref > 0, c[s].inum = c[t].inum
          PROVE  s = t
      BY <3>2, <1>0, <2>2, <2>4, <2>5, <2>8 DEF CacheOK
    <3> QED
      BY <2>6, <3>1, <3>2 DEF CacheOK
  <2>10. \A s \in Slots : c[s].ref = icache[s].ref + One(g, s)
    <3> SUFFICES ASSUME NEW s \in Slots PROVE c[s].ref = icache[s].ref + One(g, s)
      OBVIOUS
    <3>1. CASE s = g
      BY <3>1, <2>2, <2>4, <2>5 DEF One
    <3>2. CASE s # g
      BY <3>2, <2>4, <2>7 DEF One
    <3> QED
      BY <3>1, <3>2
  <2> QED
    BY <1>2, <2>2, <2>4, <2>5, <2>9, <2>10 DEF g, c, new
<1> QED
  BY <1>1, <1>2

\* A cache in which only locks and contents differ.
LEMMA CacheKept ==
  ASSUME NEW c, CacheOK(c), NEW d \in Caches,
         \A s \in Slots : d[s].ref = c[s].ref /\ d[s].inum = c[s].inum
  PROVE  CacheOK(d)
BY DEF CacheOK

\* iunlock() changes the busy flag of its slot and nothing else.
LEMMA UnlockIs ==
  ASSUME NEW c \in Caches, NEW t
  PROVE  /\ iunlock(c, t) \in Caches
         /\ \A s \in Slots : /\ iunlock(c, t)[s].ref = c[s].ref /\ iunlock(c, t)[s].inum = c[s].inum
                             /\ iunlock(c, t)[s].valid = c[s].valid
                             /\ iunlock(c, t)[s].type = c[s].type
                             /\ iunlock(c, t)[s].nlink = c[s].nlink
                             /\ iunlock(c, t)[s].busy = IF s = t THEN FALSE ELSE c[s].busy
BY DEF Caches, iunlock

\* Unlocking keeps every count and number of the cache.
LEMMA UnlockKeeps ==
  ASSUME NEW c \in Caches, NEW t
  PROVE  /\ iunlock(c, t) \in Caches
         /\ \A s \in Slots : iunlock(c, t)[s].ref = c[s].ref /\ iunlock(c, t)[s].inum = c[s].inum
BY DEF Caches, iunlock

\* A change of ip->nlink changes that of its slot and nothing else.
LEMMA LinksIs ==
  ASSUME NEW c \in Caches, NEW t, NEW d \in Int
  PROVE  /\ Links(c, t, d) \in Caches
         /\ \A s \in Slots : /\ Links(c, t, d)[s].ref = c[s].ref /\ Links(c, t, d)[s].inum = c[s].inum
                             /\ Links(c, t, d)[s].valid = c[s].valid
                             /\ Links(c, t, d)[s].type = c[s].type
                             /\ Links(c, t, d)[s].busy = c[s].busy
                             /\ Links(c, t, d)[s].nlink = IF s = t THEN c[s].nlink + d ELSE c[s].nlink
<1> DEFINE new == [c[t] EXCEPT !.nlink = @ + d]
<1>1. Links(c, t, d) = [c EXCEPT ![t] = new]
  BY DEF Links
<1>2. t \in Slots => new \in [inum : Inums \cup {Nil}, ref : Nat, busy : BOOLEAN, valid : BOOLEAN,
                              type : Types, nlink : Int]
  BY DEF Caches
<1>3. t \in Slots => /\ new.ref = c[t].ref /\ new.inum = c[t].inum /\ new.valid = c[t].valid
                     /\ new.type = c[t].type /\ new.busy = c[t].busy /\ new.nlink = c[t].nlink + d
  BY DEF Caches
<1> HIDE DEF new
<1> QED
  BY <1>1, <1>2, <1>3 DEF Caches

\* iupdate() keeps the type of the inodes on disk.
LEMMA IupdateType ==
  ASSUME NEW c \in Caches, NEW S \in SUBSET Slots, TypeOK
  PROVE  iupdate(c, S) \in [Inums -> [type : Types, nlink : Int]]
<1> DEFINE T(i) == {s \in S : c[s].inum = i}
<1>1. ASSUME NEW i \in Inums, T(i) # {} PROVE Min(T(i)) \in Slots
  <2>1. T(i) \in SUBSET Nat /\ T(i) \in SUBSET Slots
    BY SlotsNat
  <2> HIDE DEF T
  <2> QED
    BY <1>1, <2>1, MinIn
<1>2. \A s \in Slots : c[s].type \in Types /\ c[s].nlink \in Int
  BY DEF Caches
<1>3. \A i \in Inums : T(i) # {} =>
        [type |-> c[Min(T(i))].type, nlink |-> c[Min(T(i))].nlink] \in [type : Types, nlink : Int]
  BY <1>1, <1>2
<1>4. \A i \in Inums : dinode[i] \in [type : Types, nlink : Int]
  BY DEF TypeOK
<1>5. iupdate(c, S) = [i \in Inums |-> IF T(i) = {} THEN dinode[i]
                        ELSE [type |-> c[Min(T(i))].type, nlink |-> c[Min(T(i))].nlink]]
  BY DEF iupdate
<1> HIDE DEF T
<1> QED
  BY <1>3, <1>4, <1>5

----------------------------------------------------------------------------
(* Kinds of steps.                                                         *)

\* What RInv says of the types, for one process.
LEMMA Typed ==
  ASSUME RInv, NEW p \in Procs
  PROVE  /\ TypeOK /\ CacheOK(icache) /\ icache \in Caches
         /\ pr[p] \in Stacks /\ Shape(pr[p])
         /\ cwd[p] \in Slots /\ ofile[p] \in Slots \cup {Nil}
         /\ cwd \in [Procs -> Slots] /\ ofile \in [Procs -> Slots \cup {Nil}]
         /\ dinode \in [Inums -> [type : Types, nlink : Int]]
         /\ dents \in [Inums -> [Elems -> Inums \cup {Nil}]]
BY DEF RInv, TypeOK, CacheOK

\* The process passes its pointers on and nothing is counted.
LEMMA OwnMoves ==
  ASSUME RInv, NEW p \in Procs, NEW r \in Stacks, Shape(r), Set(p, r), UNCHANGED <<cwd, ofile>>,
         icache' \in Caches,
         \A s \in Slots : icache'[s].ref = icache[s].ref /\ icache'[s].inum = icache[s].inum,
         dinode' \in [Inums -> [type : Types, nlink : Int]],
         dents' \in [Inums -> [Elems -> Inums \cup {Nil}]],
         \A s \in Slots : Own(pr[p], s) = Own(r, s)
  PROVE  RInv'
<1>1. \A s \in Slots : Mine(pr[p], cwd[p], ofile[p], s) = Mine(r, cwd'[p], ofile'[p], s)
  BY DEF Mine
<1>2. /\ cwd' \in [Procs -> Slots] /\ ofile' \in [Procs -> Slots \cup {Nil}]
      /\ \A q \in Procs \ {p} : cwd'[q] = cwd[q] /\ ofile'[q] = ofile[q]
  BY Typed
<1> QED
  BY <1>1, <1>2, Moves DEF Set

\* The process gets one pointer more, to g, or (d = -1) loses one.
LEMMA OwnCounts ==
  ASSUME RInv, NEW p \in Procs, NEW r \in Stacks, Shape(r), Set(p, r), UNCHANGED <<cwd, ofile>>,
         CacheOK(icache'), NEW g \in Slots, NEW d \in {-1, 1},
         \A s \in Slots : icache'[s].ref = icache[s].ref + (IF s = g THEN d ELSE 0),
         dinode' \in [Inums -> [type : Types, nlink : Int]],
         dents' \in [Inums -> [Elems -> Inums \cup {Nil}]],
         \A s \in Slots : Own(r, s) = Own(pr[p], s) + (IF s = g THEN d ELSE 0)
  PROVE  RInv'
<1>1. ASSUME NEW s \in Slots
      PROVE  icache'[s].ref + Mine(pr[p], cwd[p], ofile[p], s)
               = icache[s].ref + Mine(r, cwd'[p], ofile'[p], s)
  <2>1. /\ icache'[s].ref = icache[s].ref + (IF s = g THEN d ELSE 0)
        /\ Own(r, s) = Own(pr[p], s) + (IF s = g THEN d ELSE 0)
        /\ icache[s].ref \in Nat
    BY Typed DEF Caches
  <2>2. Own(pr[p], s) \in Nat /\ Own(r, s) \in Nat /\ One(cwd[p], s) \in Nat /\ One(ofile[p], s) \in Nat
    BY DEF Own, One
  <2>3. /\ Mine(pr[p], cwd[p], ofile[p], s) = Own(pr[p], s) + One(cwd[p], s) + One(ofile[p], s)
        /\ Mine(r, cwd'[p], ofile'[p], s) = Own(r, s) + One(cwd[p], s) + One(ofile[p], s)
    BY DEF Mine
  <2>4. PICK a \in Nat, b \in Nat, x \in Nat, y \in Nat : /\ a = Own(pr[p], s) /\ b = Own(r, s)
                                                         /\ x = One(cwd[p], s) /\ y = One(ofile[p], s)
    BY <2>2, Zenon
  <2>5. PICK e \in {-1, 0, 1} : e = IF s = g THEN d ELSE 0
    BY Zenon
  <2>6. icache'[s].ref = icache[s].ref + e /\ b = a + e
    BY <2>1, <2>4, <2>5, Zenon
  <2>7. /\ Mine(pr[p], cwd[p], ofile[p], s) = a + x + y
        /\ Mine(r, cwd'[p], ofile'[p], s) = b + x + y
    BY <2>3, <2>4, Zenon
  <2>8. PICK u \in Nat : u = icache[s].ref
    BY <2>1, Zenon
  <2>9. (u + e) + (a + x + y) = u + (b + x + y)
    <3>1. b = a + e
      BY <2>6
    <3> QED
      BY <3>1
  <2> QED
    BY <2>6, <2>7, <2>8, <2>9, Zenon
<1>2. /\ cwd' \in [Procs -> Slots] /\ ofile' \in [Procs -> Slots \cup {Nil}]
      /\ \A q \in Procs \ {p} : cwd'[q] = cwd[q] /\ ofile'[q] = ofile[q]
  BY Typed
<1> QED
  BY <1>1, <1>2, Balance DEF Set

\* The stack of a process that calls iput().
LEMMA IputIs ==
  ASSUME NEW r \in Stacks, NEW s \in Slots, NEW k \in Inner
  PROVE  /\ Iput(r, s, k) \in Stacks
         /\ Iput(r, s, k).pc = "iput" /\ Iput(r, s, k).k = k /\ Iput(r, s, k).arg = s
         /\ Iput(r, s, k).cur = r.cur /\ Iput(r, s, k).ip = r.ip /\ Iput(r, s, k).dp = r.dp
         /\ Iput(r, s, k).op = r.op /\ Iput(r, s, k).path = r.path /\ Iput(r, s, k).name = r.name
         /\ Iput(r, s, k).lk = r.lk \ {s}
BY DEF Iput, Stacks, Puts

\* A process in user space points to nothing.
LEMMA UserIs == User \in Stacks /\ Shape(User) /\ \A s \in Slots : Own(User, s) = 0
<1>1. Nil \notin Slots /\ <<>> \in Seq(Elems)
  BY SlotsNat
<1>2. Up \in Elems
  BY DEF Elems
<1>3. User \in Stacks
  BY <1>1, <1>2 DEF User, Stacks, Inner
<1>4. Shape(User)
  BY DEF User, Shape, Holds, Place, Puts, DpAt, IpAt
<1>5. \A s \in Slots : Own(User, s) = 0
  BY <1>1 DEF User, Own, One
<1> QED
  BY <1>3, <1>4, <1>5

\* Where ilock() locks, the process points to the slot.
LEMMA TargetIs ==
  ASSUME RInv, NEW p \in Procs, Target(p) # Nil
  PROVE  /\ Target(p) \in Slots /\ Target(p) \in {pr[p].cur, pr[p].dp, pr[p].ip}
         /\ pr[p].pc \notin Puts \cup {"user"}
<1>1. pr[p] \in Stacks
  BY Typed
<1>2. CASE pr[p].pc = "nx" /\ pr[p].path # <<>>
  BY <1>1, <1>2 DEF Target, Stacks, Puts
<1>3. CASE pr[p].pc \in {"cr_dp", "un_dp", "ln_dp"}
  BY <1>1, <1>3 DEF Target, Stacks, Puts
<1>4. CASE pr[p].pc \in {"op", "cd", "ln", "ln_bad", "cr_new", "cr_found", "un_ip"}
  BY <1>1, <1>4 DEF Target, Stacks, Puts
<1>5. CASE /\ ~(pr[p].pc = "nx" /\ pr[p].path # <<>>)
           /\ pr[p].pc \notin {"cr_dp", "un_dp", "ln_dp"}
           /\ pr[p].pc \notin {"op", "cd", "ln", "ln_bad", "cr_new", "cr_found", "un_ip"}
  BY <1>5 DEF Target
<1> QED
  BY <1>2, <1>3, <1>4, <1>5

----------------------------------------------------------------------------
(* The actions keep the count.                                             *)

\* ilock() keeps every count.
LEMMA IlockR == ASSUME RInv, NEW p \in Procs, ilock(p) PROVE RInv'
<1> DEFINE s == Target(p)
           r == pr[p]
           n == [r EXCEPT !.lk = @ \cup {s}]
           d == dinode[icache[s].inum]
           e == IF icache[s].valid THEN [icache[s] EXCEPT !.busy = TRUE]
                ELSE [icache[s] EXCEPT !.busy = TRUE, !.valid = TRUE, !.type = d.type, !.nlink = d.nlink]
<1>0. s # Nil /\ Set(p, n) /\ icache' = [icache EXCEPT ![s] = e] /\ UNCHANGED <<dinode, dents, cwd, ofile>>
  BY DEF ilock, Wants
<1>1. s \in Slots /\ s \in {r.cur, r.dp, r.ip} /\ r.pc \notin Puts \cup {"user"}
  BY <1>0, TargetIs
<1>2. r \in Stacks /\ Shape(r) /\ icache \in Caches /\ dinode \in [Inums -> [type : Types, nlink : Int]]
      /\ dents \in [Inums -> [Elems -> Inums \cup {Nil}]]
  BY Typed
<1>3. icache[s].inum \in Inums
  BY <1>1, Pointed
<1> HIDE DEF s
<1>4. /\ e \in [inum : Inums \cup {Nil}, ref : Nat, busy : BOOLEAN, valid : BOOLEAN, type : Types, nlink : Int]
      /\ e.ref = icache[s].ref /\ e.inum = icache[s].inum
  <2>1. d \in [type : Types, nlink : Int]
    BY <1>2, <1>3
  <2>2. icache[s] \in [inum : Inums \cup {Nil}, ref : Nat, busy : BOOLEAN, valid : BOOLEAN, type : Types, nlink : Int]
    BY <1>1, <1>2 DEF Caches
  <2> HIDE DEF d
  <2> QED
    BY <2>1, <2>2
<1> HIDE DEF e
<1>5. icache' \in Caches /\ \A t \in Slots : icache'[t].ref = icache[t].ref /\ icache'[t].inum = icache[t].inum
  BY <1>0, <1>1, <1>2, <1>4 DEF Caches
<1>6. n \in Stacks /\ n.pc = r.pc /\ n.k = r.k /\ n.cur = r.cur /\ n.ip = r.ip /\ n.dp = r.dp /\ n.arg = r.arg
      /\ n.op = r.op
  BY <1>1, <1>2 DEF Stacks
<1> HIDE DEF n
<1>7. Shape(n)
  BY <1>1, <1>2, <1>6 DEF Shape, Holds, Place
<1>8. \A t \in Slots : Own(r, t) = Own(n, t)
  BY <1>6 DEF Own
<1> QED
  BY <1>0, <1>2, <1>5, <1>6, <1>7, <1>8, OwnMoves

\* What a step that counts no reference leaves alone.
Kept == /\ icache' \in Caches
        /\ \A s \in Slots : icache'[s].ref = icache[s].ref /\ icache'[s].inum = icache[s].inum
        /\ dinode' \in [Inums -> [type : Types, nlink : Int]]
        /\ dents' \in [Inums -> [Elems -> Inums \cup {Nil}]]
        /\ UNCHANGED <<cwd, ofile>>

\* A step that leaves the cache and the directories alone keeps the counts.
LEMMA KeptSame ==
  ASSUME RInv, UNCHANGED <<icache, dinode, dents, cwd, ofile>> PROVE Kept
BY DEF Kept, RInv, TypeOK, CacheOK

\* iunlock() keeps the counts.
LEMMA KeptUnlock ==
  ASSUME RInv, NEW s, icache' = iunlock(icache, s), UNCHANGED <<dinode, dents, cwd, ofile>> PROVE Kept
<1>1. icache \in Caches
  BY DEF RInv, TypeOK, CacheOK
<1>2. icache' \in Caches /\ \A t \in Slots : icache'[t].ref = icache[t].ref /\ icache'[t].inum = icache[t].inum
  <2>1. /\ iunlock(icache, s) \in Caches
        /\ \A t \in Slots : /\ iunlock(icache, s)[t].ref = icache[t].ref
                            /\ iunlock(icache, s)[t].inum = icache[t].inum
    BY <1>1 DEF iunlock, Caches
  <2> QED
    BY <2>1, Zenon
<1> QED
  BY <1>2 DEF Kept, RInv, TypeOK

\* A step that changes the links of an inode, writes it and unlocks it.
LEMMA KeptLinks ==
  ASSUME RInv, NEW c \in Caches, \A t \in Slots : c[t].ref = icache[t].ref /\ c[t].inum = icache[t].inum,
         NEW s, NEW S \in SUBSET Slots,
         icache' = iunlock(c, s), dinode' = iupdate(c, S),
         dents' \in [Inums -> [Elems -> Inums \cup {Nil}]], UNCHANGED <<cwd, ofile>>
  PROVE  Kept
<1>1. icache' \in Caches /\ \A t \in Slots : icache'[t].ref = icache[t].ref /\ icache'[t].inum = icache[t].inum
  <2>1. /\ iunlock(c, s) \in Caches
        /\ \A t \in Slots : iunlock(c, s)[t].ref = c[t].ref /\ iunlock(c, s)[t].inum = c[t].inum
    BY DEF iunlock, Caches
  <2> QED
    BY <2>1, Zenon
<1>2. dinode' \in [Inums -> [type : Types, nlink : Int]]
  BY IupdateType DEF RInv
<1> QED
  BY <1>1, <1>2 DEF Kept

\* The stack r without one of its pointers.
LEMMA DropIs ==
  ASSUME NEW r \in Stacks
  PROVE  /\ [r EXCEPT !.cur = Nil] \in Stacks /\ [r EXCEPT !.cur = Nil].cur = Nil
         /\ [r EXCEPT !.cur = Nil].ip = r.ip /\ [r EXCEPT !.cur = Nil].dp = r.dp
         /\ [r EXCEPT !.cur = Nil].op = r.op
         /\ [r EXCEPT !.ip = Nil] \in Stacks /\ [r EXCEPT !.ip = Nil].ip = Nil
         /\ [r EXCEPT !.ip = Nil].cur = r.cur /\ [r EXCEPT !.ip = Nil].dp = r.dp
         /\ [r EXCEPT !.ip = Nil].op = r.op
         /\ [r EXCEPT !.dp = Nil] \in Stacks /\ [r EXCEPT !.dp = Nil].dp = Nil
         /\ [r EXCEPT !.dp = Nil].cur = r.cur /\ [r EXCEPT !.dp = Nil].ip = r.ip
         /\ [r EXCEPT !.dp = Nil].op = r.op
BY DEF Stacks

\* A process that calls iput() on a pointer it drops.
LEMMA PutStep ==
  ASSUME RInv, NEW p \in Procs, NEW n \in Stacks, NEW s \in Slots, NEW k \in Inner,
         Set(p, Iput(n, s, k)), Holds(k, n), pr[p].pc \notin Puts, Kept,
         \/ n.cur = Nil /\ pr[p].cur = s /\ n.ip = pr[p].ip /\ n.dp = pr[p].dp
         \/ n.ip = Nil /\ pr[p].ip = s /\ n.cur = pr[p].cur /\ n.dp = pr[p].dp
         \/ n.dp = Nil /\ pr[p].dp = s /\ n.cur = pr[p].cur /\ n.ip = pr[p].ip
  PROVE  RInv'
<1> DEFINE m == Iput(n, s, k)
<1>1. /\ m \in Stacks /\ m.pc = "iput" /\ m.k = k /\ m.arg = s
      /\ m.cur = n.cur /\ m.ip = n.ip /\ m.dp = n.dp /\ m.op = n.op
  BY IputIs
<1> HIDE DEF m
<1>2. Shape(m)
  BY <1>1 DEF Shape, Holds, Place, Puts
<1>3. pr[p].arg = Nil
  BY Typed DEF Shape
<1>4. \A t \in Slots : Own(pr[p], t) = Own(m, t)
  BY <1>1, <1>3, SlotsNat DEF Own, One
<1>5. Set(p, m)
  BY DEF m
<1> QED
  BY <1>1, <1>2, <1>4, <1>5, OwnMoves DEF Kept

\* namex() that returns the inode keeps every count.
LEMMA NxEndR == ASSUME RInv, NEW p \in Procs, NxEnd(p) PROVE RInv'
<1> DEFINE r == pr[p]
           n == [r EXCEPT !.cur = Nil]
           m == [r EXCEPT !.pc = Found(r), !.ip = r.cur, !.cur = Nil]
<1>1. r \in Stacks /\ Shape(r) /\ r.pc = "nx"
  BY Typed DEF NxEnd, Running
<1>2. r.cur \in Slots /\ r.op \in Calls /\ r.dp = Nil /\ r.arg = Nil /\ (r.ip # Nil => r.op = "link")
  BY <1>1 DEF Shape, Holds, Place, Puts, DpAt, IpAt
<1>3. Kept
  BY KeptSame DEF NxEnd
<1>4. CASE Parent(r)
  <2>1. Set(p, Iput(n, r.cur, Failed(r)))
    BY <1>4 DEF NxEnd
  <2>2. Failed(r) \in Inner /\ (r.ip = Nil => Failed(r) = "user") /\ (r.ip # Nil => Failed(r) = "ln_bad")
    BY <1>2 DEF Failed, Inner, IpAt
  <2>3. Holds(Failed(r), n)
    BY <1>1, <1>2, <2>2, DropIs DEF Holds, DpAt, IpAt, Stacks
  <2>4. n \in Stacks /\ n.cur = Nil /\ n.ip = r.ip /\ n.dp = r.dp
    BY <1>1, DropIs
  <2> HIDE DEF n
  <2> QED
    BY <1>1, <1>2, <1>3, <2>1, <2>2, <2>3, <2>4, PutStep DEF Puts
<1>5. CASE ~Parent(r)
  <2>1. Set(p, m)
    BY <1>5 DEF NxEnd
  <2>2. r.ip = Nil /\ r.op \in {"open", "openw", "chdir", "link"}
    BY <1>2, <1>5 DEF Parent, Calls
  <2>3. Found(r) \in {"op", "cd", "ln"} /\ (Found(r) = "ln" => r.op = "link")
    BY <2>2 DEF Found
  <2>4. /\ m \in Stacks /\ m.pc = Found(r) /\ m.ip = r.cur /\ m.cur = Nil /\ m.dp = Nil /\ m.arg = Nil
        /\ m.op = r.op
    BY <1>1, <1>2, <2>3 DEF Stacks, Inner, IpAt
  <2> HIDE DEF m
  <2>5. Shape(m)
    BY <1>2, <2>3, <2>4 DEF Shape, Holds, Place, Puts, DpAt, IpAt
  <2>6. \A t \in Slots : Own(r, t) = Own(m, t)
    BY <1>2, <2>2, <2>4, SlotsNat DEF Own, One
  <2> QED
    BY <1>3, <2>1, <2>4, <2>5, <2>6, OwnMoves DEF Kept
<1> QED
  BY <1>4, <1>5

\* namex() that returns the parent keeps every count.
LEMMA NxParentR == ASSUME RInv, NEW p \in Procs, NxParent(p) PROVE RInv'
<1> DEFINE r == pr[p]
           m == [r EXCEPT !.pc = Found(r), !.dp = r.cur, !.cur = Nil, !.name = Head(r.path),
                          !.path = <<>>, !.lk = @ \ {r.cur}]
<1>1. r \in Stacks /\ Shape(r) /\ r.pc = "nx" /\ r.path # <<>> /\ Parent(r) /\ Set(p, m)
  BY Typed DEF NxParent, At, Running, LastOne
<1>2. r.cur \in Slots /\ r.op \in Calls /\ r.dp = Nil /\ r.arg = Nil /\ (r.ip # Nil => r.op = "link")
  BY <1>1 DEF Shape, Holds, Place, Puts, DpAt, IpAt
<1>3. Kept
  BY KeptUnlock DEF NxParent
<1>4. /\ Found(r) \in {"cr_dp", "un_dp", "ln_dp"}
      /\ Found(r) = "ln_dp" <=> r.ip # Nil
  BY <1>1, <1>2 DEF Found, Parent
<1>5. Head(r.path) \in Elems
  BY <1>1 DEF Stacks
<1>6. /\ m \in Stacks /\ m.pc = Found(r) /\ m.dp = r.cur /\ m.cur = Nil /\ m.ip = r.ip /\ m.arg = Nil
      /\ m.op = r.op
  <2>1. Found(r) \in Inner /\ <<>> \in Seq(Elems) /\ r.lk \ {r.cur} \in SUBSET Slots
    BY <1>1, <1>4 DEF Inner, DpAt, Stacks
  <2> HIDE DEF Found
  <2> QED
    BY <1>1, <1>2, <1>5, <2>1 DEF Stacks
<1> HIDE DEF m
<1>7. Shape(m)
  <2>1. r.ip # Nil => r.ip \in Slots
    BY <1>1 DEF Stacks
  <2> QED
    BY <1>2, <1>4, <1>6, <2>1 DEF Shape, Holds, Place, Puts, DpAt, IpAt
<1>8. \A t \in Slots : Own(r, t) = Own(m, t)
  BY <1>2, <1>6, SlotsNat DEF Own, One
<1> QED
  BY <1>1, <1>3, <1>6, <1>7, <1>8, OwnMoves DEF Kept

\* namex() that fails keeps every count.
LEMMA NxFailR == ASSUME RInv, NEW p \in Procs, NxFail(p) PROVE RInv'
<1> DEFINE r == pr[p]
           n == [r EXCEPT !.cur = Nil]
<1>1. r \in Stacks /\ Shape(r) /\ r.pc = "nx" /\ Set(p, Iput(n, r.cur, Failed(r)))
  BY Typed DEF NxFail, At, Running
<1>2. r.cur \in Slots /\ r.op \in Calls /\ r.dp = Nil /\ r.arg = Nil /\ (r.ip # Nil => r.op = "link")
  BY <1>1 DEF Shape, Holds, Place, Puts, DpAt, IpAt
<1>3. Kept
  BY KeptUnlock DEF NxFail
<1>4. Failed(r) \in Inner /\ (r.ip = Nil => Failed(r) = "user") /\ (r.ip # Nil => Failed(r) = "ln_bad")
  BY <1>2 DEF Failed, Inner, IpAt
<1>5. Holds(Failed(r), n)
  BY <1>1, <1>2, <1>4, DropIs DEF Holds, DpAt, IpAt, Stacks
<1>6. n \in Stacks /\ n.cur = Nil /\ n.ip = r.ip /\ n.dp = r.dp
  BY <1>1, DropIs
<1> HIDE DEF n
<1> QED
  BY <1>1, <1>2, <1>3, <1>4, <1>5, <1>6, PutStep DEF Puts

----------------------------------------------------------------------------
(* iput                                                                    *)

\* The cache after ip->ref--.
LEMMA UnrefIs ==
  ASSUME NEW c, CacheOK(c), NEW s \in Slots, c[s].ref > 0
  PROVE  /\ CacheOK(Unref(c, s))
         /\ \A t \in Slots : Unref(c, s)[t].ref = c[t].ref + (IF t = s THEN -1 ELSE 0)
<1> DEFINE new == IF c[s].ref = 1 THEN Unused ELSE Ref(c[s], -1)
           d == Unref(c, s)
<1>1. d = [c EXCEPT ![s] = new]
  BY DEF Unref
<1>2. c \in Caches /\ c[s].ref \in Nat /\ \A t \in Slots : c[t].ref \in Nat
  BY DEF CacheOK, Caches
<1>3. /\ new \in [inum : Inums \cup {Nil}, ref : Nat, busy : BOOLEAN, valid : BOOLEAN,
                  type : Types, nlink : Int]
      /\ new.ref = c[s].ref - 1 /\ (new.ref > 0 => new.inum = c[s].inum)
  <2>1. CASE c[s].ref = 1
    BY <1>2, <2>1 DEF Unused, Fresh, Types
  <2>2. CASE c[s].ref # 1
    BY <1>2, <2>2 DEF Ref, Caches
  <2> QED
    BY <2>1, <2>2
<1> HIDE DEF new, d
<1>4. d \in Caches /\ d[s] = new /\ \A t \in Slots : t # s => d[t] = c[t]
  BY <1>1, <1>2, <1>3 DEF Caches
<1>5. \A t \in Slots : d[t].ref > 0 => c[t].ref > 0 /\ d[t].inum = c[t].inum
  BY <1>2, <1>3, <1>4
<1>6. CacheOK(d)
  BY <1>4, <1>5 DEF CacheOK
<1>7. \A t \in Slots : d[t].ref = c[t].ref + (IF t = s THEN -1 ELSE 0)
  BY <1>2, <1>3, <1>4
<1> QED
  BY <1>6, <1>7 DEF d

\* The stack after iput() returns.
LEMMA BackIs ==
  ASSUME NEW r \in Stacks, Shape(r), r.pc \in Puts
  PROVE  /\ Back(r) \in Stacks /\ Shape(Back(r)) /\ r.arg \in Slots
         /\ \A t \in Slots : Own(Back(r), t) = Own(r, t) + (IF t = r.arg THEN -1 ELSE 0)
<1>1. r.arg \in Slots /\ Holds(r.k, r) /\ r.k \in Inner
  BY DEF Shape, Place, Stacks
<1>2. CASE r.k = "user"
  <2>1. r.cur = Nil /\ r.ip = Nil /\ r.dp = Nil
    BY <1>1, <1>2 DEF Holds, DpAt, IpAt
  <2>2. Back(r) = User
    BY <1>2 DEF Back
  <2>3. \A t \in Slots : Own(r, t) = IF t = r.arg THEN 1 ELSE 0
    BY <2>1, <1>1, SlotsNat DEF Own, One
  <2> QED
    BY <1>1, <2>2, <2>3, UserIs
<1>3. CASE r.k # "user"
  <2> DEFINE b == [r EXCEPT !.pc = r.k, !.arg = Nil, !.k = "user"]
  <2>1. Back(r) = b
    BY <1>3 DEF Back
  <2>2. /\ b \in Stacks /\ b.pc = r.k /\ b.arg = Nil /\ b.cur = r.cur /\ b.ip = r.ip /\ b.dp = r.dp
        /\ b.op = r.op
    BY <1>1 DEF Stacks, Inner
  <2> HIDE DEF b
  <2>3. r.k \notin Puts
    BY <1>1 DEF Inner, Puts, DpAt, IpAt
  <2>4. Shape(b)
    BY <1>1, <1>3, <2>2, <2>3 DEF Shape, Holds, Place
  <2>5. \A t \in Slots : Own(b, t) = Own(r, t) + (IF t = r.arg THEN -1 ELSE 0)
    BY <1>1, <2>2, SlotsNat DEF Own, One
  <2> QED
    BY <1>1, <2>1, <2>2, <2>4, <2>5
<1> QED
  BY <1>2, <1>3

\* The end of iput(): the reference is given up with the pointer.
LEMMA BackStep ==
  ASSUME RInv, NEW p \in Procs, pr[p].pc \in Puts, NEW c, CacheOK(c),
         \A t \in Slots : c[t].ref = icache[t].ref,
         icache' = Unref(c, pr[p].arg), Set(p, Back(pr[p])), UNCHANGED <<dinode, dents, cwd, ofile>>
  PROVE  RInv'
<1> DEFINE s == pr[p].arg
<1>1. pr[p] \in Stacks /\ Shape(pr[p])
  BY Typed
<1>2. /\ Back(pr[p]) \in Stacks /\ Shape(Back(pr[p])) /\ s \in Slots
      /\ \A t \in Slots : Own(Back(pr[p]), t) = Own(pr[p], t) + (IF t = s THEN -1 ELSE 0)
  BY <1>1, BackIs
<1>3. c[s].ref > 0
  BY <1>2, Pointed
<1>4. /\ CacheOK(Unref(c, s))
      /\ \A t \in Slots : Unref(c, s)[t].ref = c[t].ref + (IF t = s THEN -1 ELSE 0)
  BY <1>2, <1>3, UnrefIs
<1>5. /\ CacheOK(icache')
      /\ \A t \in Slots : icache'[t].ref = icache[t].ref + (IF t = s THEN -1 ELSE 0)
  BY <1>4
<1>6. /\ dinode' \in [Inums -> [type : Types, nlink : Int]]
      /\ dents' \in [Inums -> [Elems -> Inums \cup {Nil}]]
  BY Typed
<1>7. -1 \in {-1, 1}
  OBVIOUS
<1> HIDE DEF s
<1> QED
  BY <1>2, <1>5, <1>6, <1>7, OwnCounts

\* iput() goes on with the same pointers.
LEMMA SameStep ==
  ASSUME RInv, NEW p \in Procs, NEW l \in Puts, pr[p].pc \in Puts,
         Set(p, [pr[p] EXCEPT !.pc = l]), Kept
  PROVE  RInv'
<1> DEFINE r == pr[p]
           m == [r EXCEPT !.pc = l]
<1>1. r \in Stacks /\ Shape(r)
  BY Typed
<1>2. /\ m \in Stacks /\ m.pc = l /\ m.arg = r.arg /\ m.cur = r.cur /\ m.ip = r.ip /\ m.dp = r.dp
      /\ m.op = r.op /\ m.k = r.k
  BY <1>1 DEF Stacks
<1>a. Set(p, m)
  OBVIOUS
<1> HIDE DEF m
<1>3. Shape(m)
  BY <1>1, <1>2 DEF Shape, Holds, Place, Puts
<1>4. \A t \in Slots : Own(r, t) = Own(m, t)
  BY <1>2 DEF Own
<1> QED
  BY <1>a, <1>2, <1>3, <1>4, OwnMoves DEF Kept

\* The first locked part of iput() keeps every count.
LEMMA IputR == ASSUME RInv, NEW p \in Procs, iput(p) PROVE RInv'
<1> DEFINE s == pr[p].arg
<1>1. pr[p].pc = "iput" /\ UNCHANGED <<dinode, dents, cwd, ofile>> /\ icache \in Caches /\ CacheOK(icache)
  BY Typed DEF iput, Running
<1>2. CASE MustFree(s)
  <2>1. icache' = [icache EXCEPT ![s].busy = TRUE] /\ Set(p, [pr[p] EXCEPT !.pc = "iput_free"])
    BY <1>2 DEF iput
  <2>2. icache' \in Caches /\ \A t \in Slots : icache'[t].ref = icache[t].ref /\ icache'[t].inum = icache[t].inum
    BY <1>1, <2>1 DEF Caches
  <2>3. Kept
    BY <1>1, <2>2, Typed DEF Kept
  <2> QED
    BY <1>1, <2>1, <2>3, SameStep DEF Puts
<1>3. CASE ~MustFree(s)
  <2>1. icache' = Unref(icache, s) /\ Set(p, Back(pr[p]))
    BY <1>3 DEF iput
  <2> QED
    BY <1>1, <2>1, BackStep DEF Puts
<1> QED
  BY <1>2, <1>3

\* The truncation and update of iput() keep every count.
LEMMA IputFreeR == ASSUME RInv, NEW p \in Procs, IputFree(p) PROVE RInv'
<1> DEFINE s == pr[p].arg
<1>1. /\ pr[p].pc = "iput_free" /\ UNCHANGED <<cwd, ofile>> /\ icache \in Caches /\ TypeOK
      /\ icache' = [icache EXCEPT ![s].type = "0"] /\ dinode' = iupdate(icache', {s})
      /\ dents' = [dents EXCEPT ![icache[s].inum] = NoDents]
      /\ Set(p, [pr[p] EXCEPT !.pc = "iput_done"])
      /\ dents \in [Inums -> [Elems -> Inums \cup {Nil}]]
  BY Typed DEF IputFree, Running
<1>2. s \in Slots
  BY <1>1, Typed DEF Shape, Puts
<1>3. icache' \in Caches /\ \A t \in Slots : icache'[t].ref = icache[t].ref /\ icache'[t].inum = icache[t].inum
  BY <1>1 DEF Caches, Types
<1>4. dinode' \in [Inums -> [type : Types, nlink : Int]]
  BY <1>1, <1>2, <1>3, IupdateType
<1>5. dents' \in [Inums -> [Elems -> Inums \cup {Nil}]]
  BY <1>1 DEF NoDents
<1>6. Kept
  BY <1>1, <1>3, <1>4, <1>5 DEF Kept
<1> QED
  BY <1>1, <1>6, SameStep DEF Puts

\* The last locked part of iput() keeps every count.
LEMMA IputDoneR == ASSUME RInv, NEW p \in Procs, IputDone(p) PROVE RInv'
<1> DEFINE s == pr[p].arg
           c == [icache EXCEPT ![s] = [icache[s] EXCEPT !.busy = FALSE, !.valid = FALSE]]
<1>1. /\ pr[p].pc = "iput_done" /\ UNCHANGED <<dinode, dents, cwd, ofile>>
      /\ icache' = Unref(c, s) /\ Set(p, Back(pr[p]))
  BY DEF IputDone, Running
<1>2. icache \in Caches /\ CacheOK(icache)
  BY Typed
<1>3. c \in Caches /\ \A t \in Slots : c[t].ref = icache[t].ref /\ c[t].inum = icache[t].inum
  BY <1>2 DEF Caches
<1> HIDE DEF c
<1>4. CacheOK(c)
  BY <1>2, <1>3, CacheKept
<1> QED
  BY <1>1, <1>3, <1>4, BackStep DEF Puts

----------------------------------------------------------------------------
(* Steps that take a reference.                                            *)

\* iget() returns a slot of the inode and adds one reference there.
LEMMA GetIs ==
  ASSUME RInv, NEW i \in Inums
  PROVE  /\ igot(i) \in Slots /\ CacheOK(iget(i))
         /\ \A t \in Slots : iget(i)[t].ref = icache[t].ref + (IF t = igot(i) THEN 1 ELSE 0)
<1>1. /\ igot(i) \in Slots /\ CacheOK(iget(i))
      /\ \A t \in Slots : iget(i)[t].ref = icache[t].ref + One(igot(i), t)
  BY IgetIs, Zenon DEF RInv
<1>2. \A t \in Slots : One(igot(i), t) = IF t = igot(i) THEN 1 ELSE 0
  BY DEF One
<1> QED
  BY <1>1, <1>2

\* iget(), and then iunlock() of a slot.
LEMMA GetUnlockIs ==
  ASSUME RInv, NEW i \in Inums, NEW s
  PROVE  /\ igot(i) \in Slots /\ CacheOK(iunlock(iget(i), s))
         /\ \A t \in Slots : iunlock(iget(i), s)[t].ref = icache[t].ref + (IF t = igot(i) THEN 1 ELSE 0)
<1> DEFINE c == iget(i)
<1>1. /\ igot(i) \in Slots /\ CacheOK(c)
      /\ \A t \in Slots : c[t].ref = icache[t].ref + (IF t = igot(i) THEN 1 ELSE 0)
  BY GetIs, Zenon
<1> HIDE DEF c
<1>2. c \in Caches
  BY <1>1 DEF CacheOK
<1>3. /\ iunlock(c, s) \in Caches
      /\ \A t \in Slots : iunlock(c, s)[t].ref = c[t].ref /\ iunlock(c, s)[t].inum = c[t].inum
  BY <1>2 DEF iunlock, Caches
<1>4. CacheOK(iunlock(c, s))
  BY <1>1, <1>3, CacheKept
<1> QED
  BY <1>1, <1>3, <1>4 DEF c

\* The entry that a directory in use has for a name.
LEMMA LookIs ==
  ASSUME RInv, NEW p \in Procs, NEW s \in Slots, s \in {pr[p].cur, pr[p].dp}, NEW n \in Elems, Look(s, n) # Nil
  PROVE  Look(s, n) \in Inums
<1>1. icache[s].inum \in Inums
  BY Pointed
<1>2. dents \in [Inums -> [Elems -> Inums \cup {Nil}]]
  BY Typed
<1> QED
  BY <1>1, <1>2 DEF Look

\* A process that gets a pointer to the entry for i.
LEMMA GetStep ==
  ASSUME RInv, NEW p \in Procs, NEW r \in Stacks, Shape(r), Set(p, r), UNCHANGED <<cwd, ofile>>,
         NEW i \in Inums, icache' = iget(i) \/ \E s \in Slots : icache' = iunlock(iget(i), s),
         dinode' \in [Inums -> [type : Types, nlink : Int]], UNCHANGED dents,
         \A t \in Slots : Own(r, t) = Own(pr[p], t) + (IF t = igot(i) THEN 1 ELSE 0)
  PROVE  RInv'
<1>1. /\ igot(i) \in Slots /\ CacheOK(icache')
      /\ \A t \in Slots : icache'[t].ref = icache[t].ref + (IF t = igot(i) THEN 1 ELSE 0)
  <2>1. CASE icache' = iget(i)
    BY <2>1, GetIs
  <2>2. CASE \E s \in Slots : icache' = iunlock(iget(i), s)
    BY <2>2, GetUnlockIs
  <2> QED
    BY <2>1, <2>2
<1>2. dents' \in [Inums -> [Elems -> Inums \cup {Nil}]]
  BY Typed
<1>3. 1 \in {-1, 1}
  OBVIOUS
<1> QED
  BY <1>1, <1>2, <1>3, OwnCounts

\* A step of namex() to the next directory keeps every count.
LEMMA NxStepR == ASSUME RInv, NEW p \in Procs, NxStep(p) PROVE RInv'
<1> DEFINE r == pr[p]
           i == Look(r.cur, Head(r.path))
           g == igot(i)
           n == [r EXCEPT !.cur = g, !.path = Tail(@)]
           m == Iput(n, r.cur, "nx")
<1>1. /\ r \in Stacks /\ Shape(r) /\ r.pc = "nx" /\ r.path # <<>> /\ i # Nil
      /\ icache' = iunlock(iget(i), r.cur) /\ Set(p, m) /\ UNCHANGED <<dinode, dents, cwd, ofile>>
  BY Typed DEF NxStep, At, Running
<1>2. r.cur \in Slots /\ r.op \in Calls /\ r.dp = Nil /\ r.arg = Nil /\ (r.ip # Nil => r.op = "link")
  BY <1>1 DEF Shape, Holds, Place, Puts, DpAt, IpAt
<1>3. Head(r.path) \in Elems /\ Tail(r.path) \in Seq(Elems)
  BY <1>1 DEF Stacks
<1>4. i \in Inums
  BY <1>1, <1>2, <1>3, LookIs
<1> HIDE DEF i
<1>5. g \in Slots
  BY <1>4, GetIs
<1>a. igot(i) = g
  OBVIOUS
<1> HIDE DEF g
<1>6. n \in Stacks /\ n.cur = g /\ n.ip = r.ip /\ n.dp = Nil /\ n.op = r.op
  BY <1>1, <1>2, <1>3, <1>5 DEF Stacks
<1> HIDE DEF n
<1>7. m \in Stacks /\ m.pc = "iput" /\ m.k = "nx" /\ m.arg = r.cur /\ m.cur = g /\ m.ip = r.ip /\ m.dp = Nil
      /\ m.op = r.op
  BY <1>2, <1>6, IputIs DEF Inner
<1> HIDE DEF m
<1>8. Shape(m)
  BY <1>2, <1>5, <1>7 DEF Shape, Holds, Place, Puts, DpAt, IpAt
<1>9. \A t \in Slots : Own(m, t) = Own(r, t) + (IF t = igot(i) THEN 1 ELSE 0)
  BY <1>a, <1>2, <1>7, SlotsNat DEF Own, One
<1>10. dinode' \in [Inums -> [type : Types, nlink : Int]]
  BY <1>1, Typed
<1> QED
  BY <1>1, <1>2, <1>4, <1>7, <1>8, <1>9, <1>10, GetStep

\* namex() starts with a reference of its own.
LEMMA PathIs ==
  ASSUME NEW path \in Paths
  PROVE  IF path # <<>> /\ Head(path) = "/" THEN Tail(path) \in Seq(Elems) ELSE path \in Seq(Elems)
<1>1. path \in Seq(Elems \cup {"/"}) /\ \A k \in DOMAIN path : path[k] = "/" => k = 1
  BY InodesAssumption
<1>2. CASE path # <<>> /\ Head(path) = "/"
  <2>1. Tail(path) \in Seq(Elems \cup {"/"}) /\ Len(Tail(path)) = Len(path) - 1 /\ Len(path) \in Nat
        /\ \A k \in 1 .. Len(path) - 1 : Tail(path)[k] = path[k + 1]
    BY <1>1, <1>2
  <2>2. \A k \in 1 .. Len(Tail(path)) : Tail(path)[k] \in Elems
    BY <1>1, <2>1
  <2> HIDE <1>2
  <2> DEFINE t == Tail(path)
  <2>3. t \in Seq(Elems \cup {"/"}) /\ \A k \in 1 .. Len(t) : t[k] \in Elems
    BY <2>1, <2>2
  <2> HIDE DEF t
  <2>4. t \in Seq(Elems)
    BY <2>3
  <2> QED
    BY <1>2, <2>4 DEF t
<1>3. CASE path = <<>>
  BY <1>3
<1>4. CASE path # <<>> /\ Head(path) # "/"
  <2>1. \A k \in 1 .. Len(path) : path[k] \in Elems
    BY <1>1, <1>4
  <2>2. path \in Seq(Elems)
    BY <1>1, <2>1
  <2> QED
    BY <1>4, <2>2
<1> QED
  BY <1>2, <1>3, <1>4

\* The start of namex() keeps every count.
LEMMA NamexR ==
  ASSUME RInv, NEW p \in Procs, NEW r \in Stacks, NEW path \in Paths, Namex(p, r, path),
         r.op \in Calls, r.cur = Nil, r.dp = Nil, r.arg = Nil, r.ip # Nil => r.op = "link",
         \A t \in Slots : Own(r, t) = Own(pr[p], t), UNCHANGED <<dinode, dents, cwd, ofile>>
  PROVE  RInv'
<1> DEFINE abs == path # <<>> /\ Head(path) = "/"
           g == IF abs THEN igot(ROOTINO) ELSE cwd[p]
           rest == IF abs THEN Tail(path) ELSE path
           m == [r EXCEPT !.pc = "nx", !.cur = g, !.path = rest]
<1>1. icache' = (IF abs THEN iget(ROOTINO) ELSE idup(cwd[p])) /\ Set(p, m)
  BY DEF Namex
<1>2. rest \in Seq(Elems)
  BY PathIs
<1>3. ROOTINO \in Inums /\ cwd[p] \in Slots /\ icache \in Caches /\ CacheOK(icache)
  BY InodesAssumption, Typed
<1>4. g \in Slots
  BY <1>3, GetIs
<1>5. CacheOK(icache') /\ \A t \in Slots : icache'[t].ref = icache[t].ref + (IF t = g THEN 1 ELSE 0)
  <2>1. CASE abs
    BY <1>1, <1>3, <2>1, GetIs
  <2>2. CASE ~abs
    <3>1. cwd[p] = g /\ icache' = [icache EXCEPT ![g] = Ref(icache[g], 1)]
      BY <1>1, <2>2 DEF idup
    <3> HIDE DEF g
    <3>2. icache[g].ref > 0
      BY <1>4, <3>1, Pointed
    <3>3. /\ Ref(icache[g], 1) \in [inum : Inums \cup {Nil}, ref : Nat, busy : BOOLEAN, valid : BOOLEAN,
                                    type : Types, nlink : Int]
          /\ Ref(icache[g], 1).ref = icache[g].ref + 1 /\ Ref(icache[g], 1).inum = icache[g].inum
      BY <1>3, <1>4 DEF Ref, Caches
    <3>4. /\ icache' \in Caches /\ icache'[g] = Ref(icache[g], 1)
          /\ \A t \in Slots : t # g => icache'[t] = icache[t]
      BY <1>3, <1>4, <3>1, <3>3 DEF Caches
    <3>5. \A t \in Slots : icache[t].ref \in Nat
      BY <1>3 DEF Caches
    <3>6. \A t \in Slots : (icache'[t].ref > 0 <=> icache[t].ref > 0) /\ icache'[t].inum = icache[t].inum
      BY <3>2, <3>3, <3>4, <3>5
    <3>7. CacheOK(icache')
      BY <1>3, <3>4, <3>6 DEF CacheOK
    <3>8. \A t \in Slots : icache'[t].ref = icache[t].ref + (IF t = g THEN 1 ELSE 0)
      BY <3>3, <3>4, <3>5
    <3> QED
      BY <3>7, <3>8
  <2> QED
    BY <2>1, <2>2
<1> HIDE DEF g, rest, abs
<1>6. /\ m \in Stacks /\ m.pc = "nx" /\ m.cur = g /\ m.ip = r.ip /\ m.dp = Nil /\ m.arg = Nil
      /\ m.op = r.op
  BY <1>2, <1>4 DEF Stacks, Inner
<1> HIDE DEF m
<1>7. Shape(m)
  BY <1>4, <1>6 DEF Shape, Holds, Place, Puts, DpAt, IpAt
<1>8. \A t \in Slots : Own(m, t) = Own(r, t) + (IF t = g THEN 1 ELSE 0)
  BY <1>4, <1>6, SlotsNat DEF Own, One
<1>9. \A t \in Slots : Own(m, t) = Own(pr[p], t) + (IF t = g THEN 1 ELSE 0)
  BY <1>8
<1>10. /\ dinode' \in [Inums -> [type : Types, nlink : Int]]
       /\ dents' \in [Inums -> [Elems -> Inums \cup {Nil}]] /\ 1 \in {-1, 1}
  BY Typed
<1> QED
  BY <1>1, <1>4, <1>5, <1>6, <1>7, <1>9, <1>10, OwnCounts

\* The start of a system call keeps every count.
LEMMA CallR ==
  ASSUME RInv, NEW p \in Procs, NEW op \in Ops \ {"close"}, NEW path \in Paths, Call(p, op, path)
  PROVE  RInv'
<1> DEFINE r == [User EXCEPT !.op = op]
<1>1. pr[p] = User
  BY Typed DEF Shape, Call, Running
<1>2. op \in Calls
  BY InodesAssumption DEF Calls
<1>3. r \in Stacks /\ r.op = op /\ r.cur = Nil /\ r.dp = Nil /\ r.arg = Nil /\ r.ip = Nil
  <2>1. User \in Stacks /\ User.cur = Nil /\ User.dp = Nil /\ User.arg = Nil /\ User.ip = Nil
    BY UserIs DEF User
  <2> QED
    BY <1>2, <2>1 DEF Stacks
<1>4. Namex(p, r, path) /\ UNCHANGED <<dinode, dents, cwd, ofile>>
  BY DEF Call
<1> HIDE DEF r
<1>5. \A t \in Slots : Own(r, t) = 0
  BY <1>3, SlotsNat DEF Own, One
<1>6. \A t \in Slots : Own(r, t) = Own(pr[p], t)
  BY <1>1, <1>5, UserIs
<1> QED
  BY <1>2, <1>3, <1>4, <1>6, NamexR

\* The second path of sys_link() keeps every count.
LEMMA LnNewR == ASSUME RInv, NEW p \in Procs, LnNew(p) PROVE RInv'
<1>1. PICK path \in Paths : Namex(p, pr[p], path)
  BY DEF LnNew
<1>2. pr[p] \in Stacks /\ Shape(pr[p]) /\ pr[p].pc = "ln_new" /\ UNCHANGED <<dinode, dents, cwd, ofile>>
  BY Typed DEF LnNew, Running
<1>3. pr[p].op = "link" /\ pr[p].cur = Nil /\ pr[p].dp = Nil /\ pr[p].arg = Nil
  BY <1>2 DEF Shape, Holds, Place, Puts, DpAt, IpAt
<1> QED
  BY <1>1, <1>2, <1>3, NamexR DEF Calls

----------------------------------------------------------------------------
(* open, close, chdir                                                      *)

\* The end of sys_open() keeps every count.
LEMMA OpenDoneR == ASSUME RInv, NEW p \in Procs, OpenDone(p) PROVE RInv'
<1> DEFINE r == pr[p]
           s == r.ip
           n == [r EXCEPT !.ip = Nil]
           bad == (r.op = "openw" /\ IsDir(s)) \/ ofile[p] # Nil
<1>1. /\ r \in Stacks /\ Shape(r) /\ r.pc = "op" /\ icache' = iunlock(icache, s)
      /\ UNCHANGED <<dinode, dents, cwd>>
  BY Typed DEF OpenDone, At, Running
<1>2. s \in Slots /\ r.cur = Nil /\ r.dp = Nil /\ r.arg = Nil
  BY <1>1 DEF Shape, Holds, Place, Puts, DpAt, IpAt
<1>3. CASE bad
  <2>1. Set(p, Iput(n, s, "user")) /\ UNCHANGED ofile
    BY <1>3 DEF OpenDone
  <2>2. Kept
    BY <1>1, <2>1, KeptUnlock
  <2>3. n \in Stacks /\ n.ip = Nil /\ n.cur = r.cur /\ n.dp = r.dp
    BY <1>1, DropIs
  <2> HIDE DEF n
  <2>4. Holds("user", n) /\ "user" \in Inner /\ r.pc \notin Puts
    BY <1>1, <1>2, <2>3 DEF Holds, DpAt, IpAt, Inner, Puts
  <2> QED
    BY <1>2, <2>1, <2>2, <2>3, <2>4, PutStep
<1>4. CASE ~bad
  <2>1. Set(p, User) /\ ofile' = [ofile EXCEPT ![p] = s] /\ ofile[p] = Nil
    BY <1>4 DEF OpenDone
  <2>2. /\ ofile' \in [Procs -> Slots \cup {Nil}] /\ ofile'[p] = s /\ cwd'[p] = cwd[p]
        /\ \A q \in Procs \ {p} : cwd'[q] = cwd[q] /\ ofile'[q] = ofile[q]
        /\ cwd' \in [Procs -> Slots]
    BY <1>1, <1>2, <2>1, Typed
  <2>3. /\ icache' \in Caches
        /\ \A t \in Slots : icache'[t].ref = icache[t].ref /\ icache'[t].inum = icache[t].inum
    <3>1. icache \in Caches /\ icache' = iunlock(icache, s)
      BY <1>1, Typed
    <3> HIDE DEF s, r
    <3> QED
      BY <3>1, UnlockKeeps, Zenon
  <2>4. ASSUME NEW t \in Slots PROVE Mine(pr[p], cwd[p], ofile[p], t) = Mine(User, cwd'[p], ofile'[p], t)
    <3>1. Own(User, t) = 0 /\ One(Nil, t) = 0 /\ One(cwd[p], t) \in Nat /\ One(s, t) \in Nat
      BY UserIs, SlotsNat DEF One
    <3>2. Own(r, t) = One(s, t)
      BY <1>2, SlotsNat DEF Own, One
    <3>3. Mine(User, cwd'[p], ofile'[p], t) = 0 + One(cwd[p], t) + One(s, t)
      BY <2>2, <3>1 DEF Mine
    <3>4. Mine(r, cwd[p], ofile[p], t) = One(s, t) + One(cwd[p], t) + 0
      BY <2>1, <3>1, <3>2 DEF Mine
    <3> HIDE DEF s
    <3> QED
      BY <3>1, <3>3, <3>4
  <2>5. /\ dinode' \in [Inums -> [type : Types, nlink : Int]]
        /\ dents' \in [Inums -> [Elems -> Inums \cup {Nil}]]
    BY <1>1, Typed
  <2>6. User \in Stacks /\ Shape(User) /\ pr' = [pr EXCEPT ![p] = User]
    BY <2>1, UserIs DEF Set
  <2> QED
    BY <2>2, <2>3, <2>4, <2>5, <2>6, Moves
<1> QED
  BY <1>3, <1>4

\* sys_close() keeps every count.
LEMMA CloseR == ASSUME RInv, NEW p \in Procs, close(p) PROVE RInv'
<1> DEFINE s == ofile[p]
           m == Iput(User, s, "user")
<1>1. /\ pr[p] = User /\ s \in Slots /\ pr' = [pr EXCEPT ![p] = m] /\ ofile' = [ofile EXCEPT ![p] = Nil]
      /\ UNCHANGED <<icache, dinode, dents, cwd>>
  BY Typed DEF close, Running, Shape, Set
<1>2. /\ m \in Stacks /\ m.pc = "iput" /\ m.k = "user" /\ m.arg = s
      /\ m.cur = Nil /\ m.ip = Nil /\ m.dp = Nil /\ m.op = "-"
  <2>1. User \in Stacks /\ User.cur = Nil /\ User.dp = Nil /\ User.ip = Nil /\ User.op = "-" /\ "user" \in Inner
    BY UserIs DEF User, Inner
  <2> QED
    BY <1>1, <2>1, IputIs
<1> HIDE DEF m
<1>3. Shape(m)
  BY <1>1, <1>2 DEF Shape, Holds, Place, Puts, DpAt, IpAt
<1>4. /\ ofile' \in [Procs -> Slots \cup {Nil}] /\ ofile'[p] = Nil /\ cwd'[p] = cwd[p]
      /\ \A q \in Procs \ {p} : cwd'[q] = cwd[q] /\ ofile'[q] = ofile[q]
      /\ cwd' \in [Procs -> Slots]
  BY <1>1, Typed
<1>5. /\ icache' \in Caches
      /\ \A t \in Slots : icache'[t].ref = icache[t].ref /\ icache'[t].inum = icache[t].inum
      /\ dinode' \in [Inums -> [type : Types, nlink : Int]]
      /\ dents' \in [Inums -> [Elems -> Inums \cup {Nil}]]
  BY <1>1, Typed
<1>6. ASSUME NEW t \in Slots PROVE Mine(pr[p], cwd[p], ofile[p], t) = Mine(m, cwd'[p], ofile'[p], t)
  <2>1. Own(User, t) = 0 /\ One(Nil, t) = 0 /\ One(cwd[p], t) \in Nat /\ One(s, t) \in Nat
    BY UserIs, SlotsNat DEF One
  <2>2. Own(m, t) = One(s, t)
    BY <1>2, SlotsNat DEF Own, One
  <2>3. Mine(m, cwd'[p], ofile'[p], t) = One(s, t) + One(cwd[p], t) + 0
    BY <1>4, <2>1, <2>2 DEF Mine
  <2>4. Mine(pr[p], cwd[p], s, t) = 0 + One(cwd[p], t) + One(s, t)
    BY <1>1, <2>1 DEF Mine
  <2> HIDE DEF s
  <2>5. ofile[p] = s
    BY DEF s
  <2> QED
    BY <2>1, <2>3, <2>4, <2>5
<1> QED
  BY <1>1, <1>2, <1>3, <1>4, <1>5, <1>6, Moves

\* The end of sys_chdir() keeps every count.
LEMMA ChdirDoneR == ASSUME RInv, NEW p \in Procs, ChdirDone(p) PROVE RInv'
<1> DEFINE r == pr[p]
           s == r.ip
           n == [r EXCEPT !.ip = Nil, !.lk = {}]
<1>1. /\ r \in Stacks /\ Shape(r) /\ r.pc = "cd" /\ icache' = iunlock(icache, s)
      /\ UNCHANGED <<dinode, dents, ofile>>
  BY Typed DEF ChdirDone, At, Running
<1>2. s \in Slots /\ r.cur = Nil /\ r.dp = Nil /\ r.arg = Nil
  BY <1>1 DEF Shape, Holds, Place, Puts, DpAt, IpAt
<1>3. n \in Stacks /\ n.ip = Nil /\ n.cur = Nil /\ n.dp = Nil /\ n.op = r.op
  BY <1>1, <1>2 DEF Stacks
<1>4. CASE ~IsDir(s)
  <2>1. Set(p, Iput(n, s, "user")) /\ UNCHANGED cwd
    BY <1>4 DEF ChdirDone
  <2>2. Kept
    BY <1>1, <2>1, KeptUnlock
  <2> HIDE DEF n
  <2>4. Holds("user", n) /\ "user" \in Inner /\ r.pc \notin Puts
    BY <1>1, <1>2, <1>3 DEF Holds, DpAt, IpAt, Inner, Puts
  <2> QED
    BY <1>2, <1>3, <2>1, <2>2, <2>4, PutStep
<1>5. CASE IsDir(s)
  <2> DEFINE m == Iput(n, cwd[p], "user")
  <2>1. pr' = [pr EXCEPT ![p] = m] /\ cwd' = [cwd EXCEPT ![p] = s]
    BY <1>5 DEF ChdirDone, Set
  <2>2. /\ cwd' \in [Procs -> Slots] /\ cwd'[p] = s /\ ofile'[p] = ofile[p] /\ cwd[p] \in Slots
        /\ \A q \in Procs \ {p} : cwd'[q] = cwd[q] /\ ofile'[q] = ofile[q]
        /\ ofile' \in [Procs -> Slots \cup {Nil}]
    BY <1>1, <1>2, <2>1, Typed
  <2> HIDE DEF n
  <2>3. /\ m \in Stacks /\ m.pc = "iput" /\ m.k = "user" /\ m.arg = cwd[p]
        /\ m.cur = Nil /\ m.ip = Nil /\ m.dp = Nil
    BY <1>3, <2>2, IputIs DEF Inner
  <2> HIDE DEF m
  <2>4. Shape(m)
    BY <2>2, <2>3 DEF Shape, Holds, Place, Puts, DpAt, IpAt
  <2>5. /\ icache' \in Caches
        /\ \A t \in Slots : icache'[t].ref = icache[t].ref /\ icache'[t].inum = icache[t].inum
    <3>1. icache \in Caches /\ icache' = iunlock(icache, s)
      BY <1>1, Typed
    <3> HIDE DEF s, r
    <3> QED
      BY <3>1, UnlockKeeps, Zenon
  <2>6. /\ dinode' \in [Inums -> [type : Types, nlink : Int]]
        /\ dents' \in [Inums -> [Elems -> Inums \cup {Nil}]]
    BY <1>1, Typed
  <2>7. ASSUME NEW t \in Slots PROVE Mine(pr[p], cwd[p], ofile[p], t) = Mine(m, cwd'[p], ofile'[p], t)
    <3>1. One(ofile[p], t) \in Nat /\ One(cwd[p], t) \in Nat /\ One(s, t) \in Nat
      BY DEF One
    <3>2. Own(m, t) = One(cwd[p], t) /\ Own(r, t) = One(s, t)
      BY <1>2, <2>3, SlotsNat DEF Own, One
    <3>3. Mine(m, cwd'[p], ofile'[p], t) = One(cwd[p], t) + One(s, t) + One(ofile[p], t)
      BY <2>2, <3>2 DEF Mine
    <3>4. Mine(r, cwd[p], ofile[p], t) = One(s, t) + One(cwd[p], t) + One(ofile[p], t)
      BY <3>2 DEF Mine
    <3> HIDE DEF s
    <3> QED
      BY <3>1, <3>3, <3>4
  <2> QED
    BY <2>1, <2>2, <2>3, <2>4, <2>5, <2>6, <2>7, Moves
<1> QED
  BY <1>4, <1>5

----------------------------------------------------------------------------
(* create, unlink and link                                                 *)

\* A process that puts its inode, or its directory, and goes on at k.
LEMMA PutIp ==
  ASSUME RInv, NEW p \in Procs, NEW k \in Inner, Kept,
         Set(p, Iput([pr[p] EXCEPT !.ip = Nil], pr[p].ip, k)), pr[p].pc \in IpAt,
         k \notin IpAt \cup {"nx"}, k \in DpAt <=> pr[p].pc \in DpAt
  PROVE  RInv'
<1> DEFINE r == pr[p]
           n == [r EXCEPT !.ip = Nil]
<1>1. r \in Stacks /\ Shape(r) /\ r.pc \notin Puts /\ r.pc # "nx"
  BY Typed DEF IpAt, Puts
<1>2. r.ip \in Slots /\ r.cur = Nil /\ IF k \in DpAt THEN r.dp \in Slots ELSE r.dp = Nil
  BY <1>1 DEF Shape, Holds, Place
<1>3. n \in Stacks /\ n.ip = Nil /\ n.cur = r.cur /\ n.dp = r.dp
  BY <1>1, DropIs
<1>a. Set(p, Iput(n, r.ip, k))
  OBVIOUS
<1> HIDE DEF n
<1>4. k \notin {"ln", "ln_new"}
  BY DEF IpAt
<1>5. Holds(k, n)
  BY <1>2, <1>3, <1>4 DEF Holds
<1> QED
  BY <1>a, <1>1, <1>2, <1>3, <1>5, PutStep

\* A step that ends with iput(dp) keeps every count.
LEMMA PutDp ==
  ASSUME RInv, NEW p \in Procs, NEW k \in Inner, Kept,
         Set(p, Iput([pr[p] EXCEPT !.dp = Nil], pr[p].dp, k)), pr[p].pc \in DpAt,
         k \notin DpAt \cup {"nx", "ln", "ln_new"}, k \in IpAt <=> pr[p].pc \in IpAt
  PROVE  RInv'
<1> DEFINE r == pr[p]
           n == [r EXCEPT !.dp = Nil]
<1>1. r \in Stacks /\ Shape(r) /\ r.pc \notin Puts /\ r.pc # "nx"
  BY Typed DEF DpAt, Puts
<1>2. r.dp \in Slots /\ r.cur = Nil /\ IF k \in IpAt THEN r.ip \in Slots ELSE r.ip = Nil
  BY <1>1 DEF Shape, Holds, Place
<1>3. n \in Stacks /\ n.dp = Nil /\ n.cur = r.cur /\ n.ip = r.ip
  BY <1>1, DropIs
<1>a. Set(p, Iput(n, r.dp, k))
  OBVIOUS
<1> HIDE DEF n
<1>5. Holds(k, n)
  BY <1>2, <1>3 DEF Holds
<1> QED
  BY <1>a, <1>1, <1>2, <1>3, <1>5, PutStep

\* Steps that unlock what they put.
LEMMA UnlockingR ==
  ASSUME RInv, NEW p \in Procs,
         MkdirEnd(p) \/ UnFail(p) \/ UnNotEmpty(p) \/ UnNotEmptyEnd(p) \/ LnFail(p) \/ LnExistsEnd(p) \/ LnEnd(p)
  PROVE  RInv'
<1>1. CASE MkdirEnd(p)
  <2>1. Kept
    BY <1>1, KeptUnlock DEF MkdirEnd
  <2> QED
    BY <1>1, <2>1, PutIp DEF MkdirEnd, Running, IpAt, DpAt, Inner
<1>2. CASE UnFail(p)
  <2>1. Kept
    BY <1>2, KeptUnlock DEF UnFail
  <2> QED
    BY <1>2, <2>1, PutDp DEF UnFail, At, Running, IpAt, DpAt, Inner
<1>3. CASE UnNotEmpty(p)
  <2>1. Kept
    BY <1>3, KeptUnlock DEF UnNotEmpty
  <2> QED
    BY <1>3, <2>1, PutIp DEF UnNotEmpty, At, Running, IpAt, DpAt, Inner
<1>4. CASE UnNotEmptyEnd(p)
  <2>1. Kept
    BY <1>4, KeptUnlock DEF UnNotEmptyEnd
  <2> QED
    BY <1>4, <2>1, PutDp DEF UnNotEmptyEnd, Running, IpAt, DpAt, Inner
<1>5. CASE LnFail(p)
  <2>1. Kept
    BY <1>5, KeptUnlock DEF LnFail
  <2> QED
    BY <1>5, <2>1, PutIp DEF LnFail, At, Running, IpAt, DpAt, Inner
<1>6. CASE LnExistsEnd(p)
  <2>1. Kept
    BY <1>6, KeptUnlock DEF LnExistsEnd
  <2> QED
    BY <1>6, <2>1, PutDp DEF LnExistsEnd, Running, IpAt, DpAt, Inner
<1>7. CASE LnEnd(p)
  <2>1. Kept
    BY <1>7, KeptSame DEF LnEnd
  <2> QED
    BY <1>7, <2>1, PutIp DEF LnEnd, Running, IpAt, DpAt, Inner
<1> QED
  BY <1>1, <1>2, <1>3, <1>4, <1>5, <1>6, <1>7

\* create() that finds the name keeps every count.
LEMMA CrFoundR == ASSUME RInv, NEW p \in Procs, CrFound(p) PROVE RInv'
<1> DEFINE r == pr[p]
           m == [r EXCEPT !.pc = "op"]
<1>1. r \in Stacks /\ Shape(r) /\ r.pc = "cr_found" /\ UNCHANGED <<dinode, dents, cwd, ofile>>
  BY Typed DEF CrFound, At, Running
<1>2. CASE Kind(r.op) = "FILE" /\ icache[r.ip].type = "FILE"
  <2>1. Set(p, m) /\ UNCHANGED icache
    BY <1>2 DEF CrFound
  <2>2. Kept
    BY <1>1, <2>1, KeptSame
  <2>3. m \in Stacks /\ m.pc = "op" /\ m.arg = r.arg /\ m.cur = r.cur /\ m.ip = r.ip /\ m.dp = r.dp /\ m.op = r.op
    BY <1>1 DEF Stacks, Inner, IpAt
  <2> HIDE DEF m
  <2>4. Shape(m)
    BY <1>1, <2>3 DEF Shape, Holds, Place, Puts, IpAt, DpAt
  <2>5. \A t \in Slots : Own(r, t) = Own(m, t)
    BY <2>3 DEF Own
  <2> QED
    BY <2>1, <2>2, <2>3, <2>4, <2>5, OwnMoves DEF Kept
<1>3. CASE ~(Kind(r.op) = "FILE" /\ icache[r.ip].type = "FILE")
  <2>1. icache' = iunlock(icache, r.ip) /\ Set(p, Iput([r EXCEPT !.ip = Nil], r.ip, "user"))
    BY <1>3 DEF CrFound
  <2>2. Kept
    BY <1>1, <2>1, KeptUnlock
  <2> QED
    BY <1>1, <2>1, <2>2, PutIp DEF IpAt, DpAt, Inner
<1> QED
  BY <1>2, <1>3

\* create() that returns the file it found keeps every count.
LEMMA CrExistsR == ASSUME RInv, NEW p \in Procs, CrExists(p) PROVE RInv'
<1> DEFINE r == pr[p]
           i == Look(r.dp, r.name)
           g == igot(i)
           n == [r EXCEPT !.ip = g, !.dp = Nil]
           m == Iput(n, r.dp, "cr_found")
<1>1. /\ r \in Stacks /\ Shape(r) /\ r.pc = "cr_dp" /\ i # Nil
      /\ icache' = iunlock(iget(i), r.dp) /\ Set(p, m) /\ UNCHANGED <<dinode, dents, cwd, ofile>>
  BY Typed DEF CrExists, At, Running
<1>2. r.dp \in Slots /\ r.cur = Nil /\ r.ip = Nil /\ r.arg = Nil /\ r.name \in Elems
  BY <1>1 DEF Shape, Holds, Place, Puts, DpAt, IpAt, Stacks
<1>4. i \in Inums
  BY <1>1, <1>2, LookIs
<1> HIDE DEF i
<1>5. g \in Slots
  BY <1>4, GetIs
<1>a. igot(i) = g
  OBVIOUS
<1> HIDE DEF g
<1>6. n \in Stacks /\ n.cur = Nil /\ n.ip = g /\ n.dp = Nil /\ n.op = r.op
  BY <1>1, <1>2, <1>5 DEF Stacks
<1> HIDE DEF n
<1>7. m \in Stacks /\ m.pc = "iput" /\ m.k = "cr_found" /\ m.arg = r.dp /\ m.cur = Nil /\ m.ip = g /\ m.dp = Nil
      /\ m.op = r.op
  BY <1>2, <1>6, IputIs DEF Inner, IpAt
<1> HIDE DEF m
<1>8. Shape(m)
  BY <1>2, <1>5, <1>7 DEF Shape, Holds, Place, Puts, DpAt, IpAt
<1>9. \A t \in Slots : Own(m, t) = Own(r, t) + (IF t = igot(i) THEN 1 ELSE 0)
  BY <1>a, <1>2, <1>7, SlotsNat DEF Own, One
<1>10. dinode' \in [Inums -> [type : Types, nlink : Int]]
  BY <1>1, Typed
<1> QED
  BY <1>1, <1>2, <1>4, <1>7, <1>8, <1>9, <1>10, GetStep

\* A process at a directory that gets the inode of a name, in ip or to put it.
LEMMA GetIp ==
  ASSUME RInv, NEW p \in Procs, pr[p].pc \in {"cr_dp", "un_dp"}, NEW i \in Inums, icache' = iget(i),
         NEW l \in {"cr_new", "un_ip"}, Set(p, [pr[p] EXCEPT !.pc = l, !.ip = igot(i)]),
         dinode' \in [Inums -> [type : Types, nlink : Int]], UNCHANGED <<dents, cwd, ofile>>
  PROVE  RInv'
<1> DEFINE r == pr[p]
           g == igot(i)
           m == [r EXCEPT !.pc = l, !.ip = g]
<1>1. r \in Stacks /\ Shape(r) /\ Set(p, m)
  BY Typed
<1>2. r.dp \in Slots /\ r.cur = Nil /\ r.ip = Nil /\ r.arg = Nil
  BY <1>1 DEF Shape, Holds, Place, Puts, DpAt, IpAt, Stacks
<1>5. g \in Slots /\ igot(i) = g
  BY GetIs
<1> HIDE DEF g
<1>7. m \in Stacks /\ m.pc = l /\ m.arg = Nil /\ m.cur = Nil /\ m.ip = g /\ m.dp = r.dp /\ m.op = r.op
  <2>1. l \in Inner /\ r \in Stacks /\ g \in Slots
    BY <1>1, <1>5 DEF Inner, DpAt, IpAt
  <2>a. m \in Stacks
    BY <2>1 DEF Stacks
  <2>b. m.pc = l /\ m.ip = g
    BY <2>1 DEF Stacks
  <2>c. m.arg = Nil /\ m.cur = Nil /\ m.dp = r.dp /\ m.op = r.op
    BY <1>2, <2>1 DEF Stacks
  <2> QED
    BY <2>a, <2>b, <2>c
<1> HIDE DEF m
<1>8. Shape(m)
  BY <1>2, <1>5, <1>7 DEF Shape, Holds, Place, Puts, DpAt, IpAt
<1>9. \A t \in Slots : Own(m, t) = Own(r, t) + (IF t = igot(i) THEN 1 ELSE 0)
  BY <1>2, <1>5, <1>7, SlotsNat DEF Own, One
<1> QED
  BY <1>1, <1>7, <1>8, <1>9, GetStep

\* ialloc() in create() keeps every count.
LEMMA CrAllocR == ASSUME RInv, NEW p \in Procs, CrAlloc(p) PROVE RInv'
<1> DEFINE free == {i \in Inums : dinode[i].type = "0"}
           i == Min(free)
<1>1. CASE free = {}
  <2>1. UNCHANGED <<icache, dinode, dents, pr, cwd, ofile>>
    BY <1>1 DEF CrAlloc
  <2> QED
    BY <2>1 DEF RInv, TypeOK, RefsCounted, Pointers
<1>2. CASE free # {}
  <2>1. /\ dinode' = [dinode EXCEPT ![i] = [type |-> Kind(pr[p].op), nlink |-> 0]]
        /\ icache' = iget(i) /\ Set(p, [pr[p] EXCEPT !.pc = "cr_new", !.ip = igot(i)])
        /\ UNCHANGED <<dents, cwd, ofile>> /\ pr[p].pc = "cr_dp"
    BY <1>2 DEF CrAlloc, At, Running
  <2>2. free \in SUBSET Nat /\ free \in SUBSET Inums
    BY InodesAssumption
  <2> HIDE DEF free
  <2>3. i \in Inums
    BY <1>2, <2>2, MinIn
  <2> HIDE DEF i
  <2>4. Kind(pr[p].op) \in Types
    BY DEF Kind, Types
  <2>5. dinode' \in [Inums -> [type : Types, nlink : Int]]
    BY <2>1, <2>3, <2>4, Typed
  <2> QED
    BY <2>1, <2>3, <2>5, GetIp
<1> QED
  BY <1>1, <1>2

\* The lookup of sys_unlink() keeps every count.
LEMMA UnFoundR == ASSUME RInv, NEW p \in Procs, UnFound(p) PROVE RInv'
<1> DEFINE i == Look(pr[p].dp, pr[p].name)
<1>1. /\ pr[p].pc = "un_dp" /\ i # Nil /\ icache' = iget(i)
      /\ Set(p, [pr[p] EXCEPT !.pc = "un_ip", !.ip = igot(i)]) /\ UNCHANGED <<dinode, dents, cwd, ofile>>
  BY DEF UnFound, At, Running, Removable
<1>2. pr[p].dp \in Slots /\ pr[p].name \in Elems
  BY <1>1, Typed DEF Shape, Holds, Place, Puts, DpAt, Stacks
<1>3. i \in Inums
  BY <1>1, <1>2, LookIs
<1>4. dinode' \in [Inums -> [type : Types, nlink : Int]]
  BY <1>1, Typed
<1> HIDE DEF i
<1> QED
  BY <1>1, <1>3, <1>4, GetIp

\* sys_link() that finds the new name in use keeps every count.
LEMMA LnExistsR == ASSUME RInv, NEW p \in Procs, LnExists(p) PROVE RInv'
<1> DEFINE r == pr[p]
           i == Look(r.dp, r.name)
           g == igot(i)
           m == [r EXCEPT !.pc = "iput", !.arg = g, !.k = "ln_exists"]
<1>1. /\ r \in Stacks /\ Shape(r) /\ r.pc = "ln_dp" /\ i # Nil
      /\ icache' = iget(i) /\ Set(p, m) /\ UNCHANGED <<dinode, dents, cwd, ofile>>
  BY Typed DEF LnExists, At, Running
<1>2. r.dp \in Slots /\ r.cur = Nil /\ r.ip \in Slots /\ r.arg = Nil /\ r.name \in Elems
  BY <1>1 DEF Shape, Holds, Place, Puts, DpAt, IpAt, Stacks
<1>4. i \in Inums
  BY <1>1, <1>2, LookIs
<1> HIDE DEF i
<1>5. g \in Slots /\ igot(i) = g
  BY <1>4, GetIs
<1> HIDE DEF g
<1>7. m \in Stacks /\ m.pc = "iput" /\ m.k = "ln_exists" /\ m.arg = g /\ m.cur = Nil /\ m.ip = r.ip /\ m.dp = r.dp
      /\ m.op = r.op
  BY <1>1, <1>2, <1>5 DEF Stacks, Inner, IpAt, Puts
<1> HIDE DEF m
<1>8. Shape(m)
  BY <1>2, <1>5, <1>7 DEF Shape, Holds, Place, Puts, DpAt, IpAt
<1>9. \A t \in Slots : Own(m, t) = Own(r, t) + (IF t = igot(i) THEN 1 ELSE 0)
  BY <1>2, <1>5, <1>7, SlotsNat DEF Own, One
<1>10. dinode' \in [Inums -> [type : Types, nlink : Int]]
  BY <1>1, Typed
<1> QED
  BY <1>1, <1>4, <1>7, <1>8, <1>9, <1>10, GetStep

\* An entry of a directory that is in use is written.
LEMMA WriteDent ==
  ASSUME NEW D \in [Inums -> [Elems -> Inums \cup {Nil}]], NEW j, NEW n, NEW i \in Inums \cup {Nil}
  PROVE  [D EXCEPT ![j][n] = i] \in [Inums -> [Elems -> Inums \cup {Nil}]]
OBVIOUS

\* create() that writes the new inode and its entries keeps every count.
LEMMA CrNewR == ASSUME RInv, NEW p \in Procs, CrNew(p) PROVE RInv'
<1> DEFINE r == pr[p]
           dir == r.op = "mkdir"
           b == [icache EXCEPT ![r.ip].nlink = 1]
           c == Links(b, r.dp, UpLinks(r.op))
           k == IF dir THEN "mk_end" ELSE "op"
           i == icache[r.ip].inum
           j == icache[r.dp].inum
           D == [dents EXCEPT ![i][Up] = IF dir THEN j ELSE @]
<1>1. /\ r \in Stacks /\ Shape(r) /\ r.pc = "cr_new"
      /\ icache' = iunlock(c, r.dp) /\ dinode' = iupdate(c, {r.ip, r.dp})
      /\ Set(p, Iput([r EXCEPT !.dp = Nil], r.dp, k)) /\ UNCHANGED <<cwd, ofile>>
      /\ icache \in Caches /\ dents \in [Inums -> [Elems -> Inums \cup {Nil}]]
  BY Typed DEF CrNew, At, Running
<1>2. r.dp \in Slots /\ r.ip \in Slots
  BY <1>1 DEF Shape, Holds, Place, Puts, DpAt, IpAt
<1>3. i \in Inums /\ j \in Inums
  BY <1>2, Pointed
<1>4. dents' = [D EXCEPT ![j][r.name] = i]
  BY DEF CrNew
<1>5. b \in Caches /\ \A t \in Slots : b[t].ref = icache[t].ref /\ b[t].inum = icache[t].inum
  <2> DEFINE e == [icache[r.ip] EXCEPT !.nlink = 1]
  <2>1. b = [icache EXCEPT ![r.ip] = e]
    OBVIOUS
  <2>2. /\ e \in [inum : Inums \cup {Nil}, ref : Nat, busy : BOOLEAN, valid : BOOLEAN, type : Types, nlink : Int]
        /\ e.ref = icache[r.ip].ref /\ e.inum = icache[r.ip].inum
    BY <1>1, <1>2, SMTT(30) DEF Caches
  <2> HIDE DEF e, b
  <2> QED
    BY <1>1, <1>2, <2>1, <2>2 DEF Caches
<1>6. UpLinks(r.op) \in Int
  BY DEF UpLinks
<1> HIDE DEF b
<1>7. c \in Caches /\ \A t \in Slots : c[t].ref = b[t].ref /\ c[t].inum = b[t].inum
  BY <1>5, <1>6, LinksIs
<1>8. dents' \in [Inums -> [Elems -> Inums \cup {Nil}]]
  <2>1. D \in [Inums -> [Elems -> Inums \cup {Nil}]]
    BY <1>1, <1>3
  <2> HIDE DEF D, i, j
  <2> QED
    BY <1>3, <1>4, <2>1, WriteDent
<1> HIDE DEF c
<1>9. \A t \in Slots : c[t].ref = icache[t].ref /\ c[t].inum = icache[t].inum
  BY <1>5, <1>7
<1>10. {r.ip, r.dp} \in SUBSET Slots
  BY <1>2
<1>11. Kept
  BY <1>1, <1>7, <1>8, <1>9, <1>10, KeptLinks
<1> QED
  BY <1>1, <1>11, PutDp DEF DpAt, IpAt, Inner

\* sys_unlink() that erases the entry keeps every count.
LEMMA UnEraseR == ASSUME RInv, NEW p \in Procs, UnErase(p) PROVE RInv'
<1> DEFINE r == pr[p]
           d == IF IsDir(r.ip) THEN -1 ELSE 0
           c == Links(icache, r.dp, d)
           j == icache[r.dp].inum
<1>1. /\ r \in Stacks /\ Shape(r) /\ r.pc = "un_ip"
      /\ icache' = iunlock(c, r.dp) /\ dinode' = iupdate(c, {r.dp})
      /\ Set(p, Iput([r EXCEPT !.dp = Nil], r.dp, "un_end")) /\ UNCHANGED <<cwd, ofile>>
      /\ icache \in Caches /\ dents \in [Inums -> [Elems -> Inums \cup {Nil}]]
      /\ dents' = [dents EXCEPT ![j][r.name] = Nil]
  BY Typed DEF UnErase, At, Running
<1>2. {r.dp} \in SUBSET Slots
  BY <1>1 DEF Shape, Holds, Place, Puts, DpAt, IpAt
<1>3. d \in Int
  OBVIOUS
<1> HIDE DEF d
<1>4. c \in Caches /\ \A t \in Slots : c[t].ref = icache[t].ref /\ c[t].inum = icache[t].inum
  BY <1>1, <1>3, LinksIs
<1> HIDE DEF c, j
<1>5. dents' \in [Inums -> [Elems -> Inums \cup {Nil}]]
  BY <1>1, WriteDent
<1>6. Kept
  BY <1>1, <1>2, <1>4, <1>5, KeptLinks
<1> QED
  BY <1>1, <1>6, PutDp DEF DpAt, IpAt, Inner

\* A step that counts d links of the inode of the call, which it unlocks.
LEMMA KeptCount ==
  ASSUME RInv, NEW p \in Procs, pr[p].pc \in IpAt, NEW d \in Int,
         icache' = iunlock(Links(icache, pr[p].ip, d), pr[p].ip),
         dinode' = iupdate(Links(icache, pr[p].ip, d), {pr[p].ip}),
         UNCHANGED <<dents, cwd, ofile>>
  PROVE  Kept
<1> DEFINE c == Links(icache, pr[p].ip, d)
<1>1. {pr[p].ip} \in SUBSET Slots
  BY Typed DEF Shape, Holds, Place, Puts, IpAt
<1>2. c \in Caches /\ \A t \in Slots : c[t].ref = icache[t].ref /\ c[t].inum = icache[t].inum
  BY Typed, LinksIs
<1>a. icache' = iunlock(c, pr[p].ip) /\ dinode' = iupdate(c, {pr[p].ip})
  OBVIOUS
<1> HIDE DEF c
<1>3. dents' \in [Inums -> [Elems -> Inums \cup {Nil}]]
  BY Typed
<1> QED
  BY <1>a, <1>1, <1>2, <1>3, KeptLinks

\* The steps of sys_link() and the end of sys_unlink() keep every count.
LEMMA LinkingR ==
  ASSUME RInv, NEW p \in Procs, UnEnd(p) \/ LnCount(p) \/ LnName(p) \/ LnBad(p)
  PROVE  RInv'
<1>1. CASE UnEnd(p)
  <2>1. Kept
    BY <1>1, KeptCount DEF UnEnd, Running, IpAt
  <2> QED
    BY <1>1, <2>1, PutIp DEF UnEnd, Running, IpAt, DpAt, Inner
<1>2. CASE LnBad(p)
  <2>1. Kept
    BY <1>2, KeptCount DEF LnBad, At, Running, IpAt
  <2> QED
    BY <1>2, <2>1, PutIp DEF LnBad, At, Running, IpAt, DpAt, Inner
<1>3. CASE LnName(p)
  <2> DEFINE r == pr[p]
             i == icache[r.ip].inum
             j == icache[r.dp].inum
  <2>1. /\ r \in Stacks /\ Shape(r) /\ r.pc = "ln_dp" /\ icache' = iunlock(icache, r.dp)
        /\ Set(p, Iput([r EXCEPT !.dp = Nil], r.dp, "ln_end")) /\ UNCHANGED <<dinode, cwd, ofile>>
        /\ icache \in Caches /\ dents \in [Inums -> [Elems -> Inums \cup {Nil}]]
        /\ dents' = [dents EXCEPT ![j][r.name] = i]
        /\ dinode \in [Inums -> [type : Types, nlink : Int]]
    BY <1>3, Typed DEF LnName, At, Running
  <2>2. r.ip \in Slots
    BY <2>1 DEF Shape, Holds, Place, Puts, IpAt
  <2>3. i \in Inums
    BY <2>2, Pointed
  <2> HIDE DEF i, j
  <2>4. dents' \in [Inums -> [Elems -> Inums \cup {Nil}]]
    BY <2>1, <2>3, WriteDent
  <2>5. /\ icache' \in Caches
        /\ \A t \in Slots : icache'[t].ref = icache[t].ref /\ icache'[t].inum = icache[t].inum
    <3>1. icache \in Caches /\ icache' = iunlock(icache, r.dp)
      BY <2>1
    <3> HIDE DEF r
    <3> QED
      BY <3>1, UnlockKeeps, Zenon
  <2>6. Kept
    BY <2>1, <2>4, <2>5 DEF Kept
  <2> QED
    BY <2>1, <2>6, PutDp DEF IpAt, DpAt, Inner
<1>4. CASE LnCount(p)
  <2> DEFINE r == pr[p]
             m == [r EXCEPT !.pc = "ln_new", !.lk = {}]
  <2>1. r \in Stacks /\ Shape(r) /\ r.pc = "ln" /\ Set(p, m)
    BY <1>4, Typed DEF LnCount, At, Running
  <2>2. Kept
    BY <1>4, KeptCount DEF LnCount, At, Running, IpAt, LnMore
  <2>3. m \in Stacks /\ m.pc = "ln_new" /\ m.arg = r.arg /\ m.cur = r.cur /\ m.ip = r.ip /\ m.dp = r.dp
        /\ m.op = r.op
    BY <2>1 DEF Stacks, Inner, IpAt
  <2> HIDE DEF m
  <2>4. Shape(m)
    BY <2>1, <2>3 DEF Shape, Holds, Place, Puts, IpAt, DpAt
  <2>5. \A t \in Slots : Own(r, t) = Own(m, t)
    BY <2>3 DEF Own
  <2> QED
    BY <2>1, <2>2, <2>3, <2>4, <2>5, OwnMoves DEF Kept
<1> QED
  BY <1>1, <1>2, <1>3, <1>4

----------------------------------------------------------------------------

\* After iinit() and userinit() the counts are exact.
LEMMA InitR == ASSUME Init PROVE RInv
<1>1. IsFiniteSet(Procs) /\ Cardinality(Procs) \in Nat /\ ROOTINO \in Inums /\ 1 \in Slots
  BY InodesAssumption, FS_CardinalityType, SlotsNat
<1>2. Unused \in [inum : Inums \cup {Nil}, ref : Nat, busy : BOOLEAN, valid : BOOLEAN, type : Types, nlink : Int]
      /\ Unused.ref = 0
  BY DEF Unused, Fresh, Types
<1> DEFINE first == Fresh(ROOTINO, Cardinality(Procs))
<1>3. first \in [inum : Inums \cup {Nil}, ref : Nat, busy : BOOLEAN, valid : BOOLEAN, type : Types, nlink : Int]
      /\ first.ref = Cardinality(Procs) /\ first.inum = ROOTINO
  BY <1>1 DEF Fresh, Types
<1>4. icache = [s \in Slots |-> IF s = 1 THEN first ELSE Unused]
  BY DEF Init
<1> HIDE DEF first
<1>5. icache \in Caches /\ icache[1] = first /\ \A s \in Slots : s # 1 => icache[s] = Unused
  BY <1>1, <1>2, <1>3, <1>4 DEF Caches
<1>6. CacheOK(icache)
  BY <1>1, <1>2, <1>3, <1>5 DEF CacheOK
<1>7. /\ dinode \in [Inums -> [type : Types, nlink : Int]]
      /\ dents \in [Inums -> [Elems -> Inums \cup {Nil}]]
  <2>1. Free \in [type : Types, nlink : Int] /\ [type |-> "DIR", nlink |-> 1] \in [type : Types, nlink : Int]
    BY DEF Free, Types
  <2>2. NoDents \in [Elems -> Inums \cup {Nil}]
    BY DEF NoDents
  <2>3. [NoDents EXCEPT ![Up] = ROOTINO] \in [Elems -> Inums \cup {Nil}]
    BY <1>1, <2>2
  <2> QED
    BY <2>1, <2>2, <2>3 DEF Init
<1>8. /\ pr \in [Procs -> Stacks] /\ \A p \in Procs : pr[p] = User /\ Shape(pr[p])
      /\ cwd \in [Procs -> Slots] /\ ofile \in [Procs -> Slots \cup {Nil}]
      /\ \A p \in Procs : cwd[p] = 1 /\ ofile[p] = Nil
  BY <1>1, UserIs DEF Init
<1>9. TypeOK
  BY <1>6, <1>7, <1>8 DEF TypeOK
<1>10. ASSUME NEW s \in Slots PROVE icache[s].ref = Pointers(s)
  <2>1. s # Nil
    BY SlotsNat
  <2>2. {x \in Procs \X {"cur", "ip", "dp", "arg"} : pr[x[1]][x[2]] = s} = {}
    <3>1. User["cur"] = Nil /\ User["ip"] = Nil /\ User["dp"] = Nil /\ User["arg"] = Nil
      BY DEF User
    <3> QED
      BY <1>8, <2>1, <3>1
  <2>3. {p \in Procs : ofile[p] = s} = {}
    BY <1>8, <2>1
  <2>4. {p \in Procs : cwd[p] = s} = IF s = 1 THEN Procs ELSE {}
    BY <1>8
  <2>5. Cardinality({}) = 0
    BY FS_EmptySet
  <2>6. Pointers(s) = 0 + (IF s = 1 THEN Cardinality(Procs) ELSE 0) + 0
    BY <2>2, <2>3, <2>4, <2>5 DEF Pointers
  <2>7. icache[s].ref = IF s = 1 THEN Cardinality(Procs) ELSE 0
    BY <1>2, <1>3, <1>5
  <2> QED
    BY <1>1, <2>6, <2>7
<1> QED
  BY <1>9, <1>10 DEF RInv, RefsCounted

\* Every step keeps every count.
LEMMA NextR == ASSUME RInv, [Next]_vars PROVE RInv'
<1>1. CASE UNCHANGED vars
  BY <1>1 DEF vars, RInv, TypeOK, RefsCounted, Pointers
<1>2. CASE Next
  <2>1. PICK p \in Procs : \/ Kernel(p) \/ close(p)
                           \/ \E op \in Ops \ {"close"}, path \in Paths : Call(p, op, path)
    BY <1>2 DEF Next
  <2>2. CASE Kernel(p)
    <3>1. CASE ilock(p) \/ iput(p) \/ IputFree(p) \/ IputDone(p)
      BY <3>1, IlockR, IputR, IputFreeR, IputDoneR
    <3>2. CASE NamexStep(p)
      BY <3>2, NxEndR, NxParentR, NxFailR, NxStepR DEF NamexStep
    <3>3. CASE OpenDone(p) \/ ChdirDone(p)
      BY <3>3, OpenDoneR, ChdirDoneR
    <3>4. CASE CreateStep(p)
      BY <3>4, CrExistsR, CrFoundR, CrAllocR, CrNewR, UnlockingR DEF CreateStep
    <3>5. CASE UnlinkStep(p)
      BY <3>5, UnFoundR, UnEraseR, UnlockingR, LinkingR DEF UnlinkStep
    <3>6. CASE LinkStep(p)
      BY <3>6, LnNewR, LnExistsR, UnlockingR, LinkingR DEF LinkStep
    <3> QED
      BY <2>2, <3>1, <3>2, <3>3, <3>4, <3>5, <3>6 DEF Kernel
  <2>3. CASE close(p)
    BY <2>3, CloseR
  <2>4. CASE \E op \in Ops \ {"close"}, path \in Paths : Call(p, op, path)
    BY <2>4, CallR
  <2> QED
    BY <2>1, <2>2, <2>3, <2>4
<1> QED
  BY <1>1, <1>2

\* "ip->ref counts the number of pointer references to this cached inode"
\* (fs.c:113), at every step of every call of any number of processes: no
\* return path of sysfile.c leaks a reference or puts one it does not have.
THEOREM RefsCountedCorrect == Spec => []RefsCounted
<1>1. Init => RInv
  BY InitR
<1>2. RInv /\ [Next]_vars => RInv'
  BY NextR
<1>3. RInv => RefsCounted
  BY DEF RInv
<1> QED
  BY <1>1, <1>2, <1>3, PTL DEF Spec

----------------------------------------------------------------------------
(* Locks and link counts.                                                  *)

\* No path goes up: section 4 of the README says what happens otherwise.
NoUp == \A path \in Paths : \A k \in DOMAIN path : path[k] # Up

Num(s) == icache[s].inum

----------------------------------------------------------------------------
(* Locks.                                                                  *)

\* The places where the inode of the call may be locked.
IpLock == {"cr_new", "un_ip", "cr_found", "op", "cd", "mk_end", "un_end", "ln", "ln_bad"}

\* What a stack has locked.
LockOK(r) ==
  /\ \A s \in r.lk : \/ s = r.cur /\ r.pc = "nx" /\ r.path # <<>>
                     \/ s = r.dp /\ Place(r) \in DpAt
                     \/ s = r.ip /\ Place(r) \in IpLock
  /\ Place(r) \in {"cr_new", "un_ip", "un_ne", "ln_exists"} => r.dp \in r.lk
  /\ Place(r) \in {"mk_end", "un_end"} => r.ip \in r.lk
  /\ r.pc \in {"iput_free", "iput_done"} => r.arg \notin r.lk

\* A process in the long part of iput(), and one that has an entry locked.
FreesIt(r, s) == r.pc \in {"iput_free", "iput_done"} /\ r.arg = s
Holder(r, s) == s \in r.lk \/ FreesIt(r, s)

LockInv ==
  /\ \A p \in Procs : LockOK(pr[p])
  /\ \A p, q \in Procs, s \in Slots : Holder(pr[p], s) /\ Holder(pr[q], s) => p = q
  /\ \A p \in Procs, s \in Slots : Holder(pr[p], s) => icache[s].busy /\ icache[s].valid
  /\ \A s \in Slots : icache[s].ref > 0 /\ icache[s].busy => \E p \in Procs : Holder(pr[p], s)

----------------------------------------------------------------------------
(* Cache and disk.                                                         *)

\* An inode that has been freed on disk and is still in the cache.
Gone(s) == \E p \in Procs : pr[p].pc = "iput_done" /\ pr[p].arg = s

CacheInv ==
  /\ \A s \in Slots : icache[s].ref > 0 /\ icache[s].valid /\ ~Gone(s) =>
        dinode[Num(s)].type = icache[s].type /\ dinode[Num(s)].nlink = icache[s].nlink
  /\ \A s \in Slots : icache[s].ref > 0 /\ ~Gone(s) => dinode[Num(s)].type # "0"
FreeInv ==
  /\ \A p \in Procs : pr[p].pc = "iput_free" => icache[pr[p].arg].ref = 1 /\ icache[pr[p].arg].nlink = 0
  /\ \A p \in Procs : pr[p].pc = "iput_done" /\ dinode[Num(pr[p].arg)].type = "0" => icache[pr[p].arg].ref = 1

----------------------------------------------------------------------------
(* Directories.                                                            *)

Bare(de, i) == \A n \in Elems : de[i][n] = Nil

TreeInv(dn, de) ==
  /\ dn[ROOTINO].type = "DIR"
  /\ \A i \in Inums : dn[i].type = "0" => dn[i].nlink = 0
  /\ \A i \in Inums : dn[i].type # "DIR" => Bare(de, i)
  /\ \A i \in Inums, n \in Names : de[i][n] # ROOTINO
  /\ \A i, d \in Inums, n \in Names : de[i][n] = d /\ dn[d].type = "DIR" => de[d][Up] = i
  /\ \A i, j, d \in Inums, n, m \in Names :
       de[i][n] = d /\ de[j][m] = d /\ dn[d].type = "DIR" => i = j /\ n = m
  /\ \A i, j \in Inums, n, m \in Names : ~(de[i][n] = j /\ de[j][m] = i)

----------------------------------------------------------------------------
(* Processes.                                                              *)

\* A link that is counted and has no name yet, or no name any more.
Linking(r) == Place(r) \in {"ln_new", "ln_dp", "ln_exists", "ln_bad"} \/ (Place(r) = "nx" /\ r.ip # Nil)
Owes(r) == Place(r) = "un_end" \/ Linking(r)

\* What holds of a stack, given the cache, the inodes and the directories.
PlaceOK(r, ic, dn, de) ==
  /\ r.path \in Seq(Names)
  /\ Place(r) \in DpAt => r.name \in Names /\ dn[ic[r.dp].inum].type = "DIR"
  /\ Place(r) = "un_ip" => de[ic[r.dp].inum][r.name] = ic[r.ip].inum
  /\ Linking(r) => dn[ic[r.ip].inum].type = "FILE"
  /\ Place(r) \in {"cr_dp", "cr_new"} => r.op \in {"creat", "mkdir"}
  /\ r.pc = "cr_new" => dn[ic[r.ip].inum].type = Kind(r.op)
  /\ r.k # "cr_new"
PlaceInv == \A p \in Procs : PlaceOK(pr[p], icache, dinode, dents)

\* The pointers of process p that it does not give up.
PtrsOf(p) == {pr[p].cur, pr[p].ip, pr[p].dp, cwd[p], ofile[p]}

\* A new inode has no name, and only its creator has a pointer to it (and who
\* freed it, perhaps).
NewOK(p) ==
  LET s == pr[p].ip IN
  /\ dinode[Num(s)].nlink = 0 /\ Bare(dents, Num(s))
  /\ \A i \in Inums, n \in Names : dents[i][n] # Num(s)
  /\ s \notin {pr[p].dp, cwd[p], ofile[p]}
  /\ \A q \in Procs \ {p} : s \notin PtrsOf(q) /\ (pr[q].arg = s => pr[q].pc = "iput_done")
NewInv == \A p \in Procs : pr[p].pc = "cr_new" => NewOK(p)

\* What a link count has to cover: names, subdirectories, and the links of
\* calls that are on their way to a name or back.
Pend(i) == {p \in Procs : Owes(pr[p]) /\ Num(pr[p].ip) = i}
Due(i) == Cardinality(Named(i)) + Cardinality(Subdirs(i)) + Cardinality(Pend(i)) + One(i, ROOTINO)
CoverInv == \A i \in Inums : dinode[i].nlink >= Due(i)

NoPanic == panicked \in {"none", "ialloc: no inodes"}

LInv == /\ RInv /\ LockInv /\ CacheInv /\ FreeInv /\ TreeInv(dinode, dents)
        /\ PlaceInv /\ NewInv /\ CoverInv /\ NoPanic

----------------------------------------------------------------------------
(* Pointers.                                                               *)

AllPtrs(p) == PtrsOf(p) \cup {pr[p].arg}

\* An entry that a process points to is in use.
LEMMA PointedBy ==
  ASSUME RInv, NEW p \in Procs, NEW s \in Slots, s \in AllPtrs(p)
  PROVE  icache[s].ref \in Nat /\ icache[s].ref > 0 /\ icache[s].inum \in Inums
<1>1. s \in {pr[p].cur, pr[p].ip, pr[p].dp, pr[p].arg, cwd[p], ofile[p]}
  BY Zenon DEF AllPtrs, PtrsOf
<1>2. icache[s].ref > 0 /\ icache[s].inum \in Inums
  BY <1>1, Pointed
<1> QED
  BY <1>2 DEF RInv, TypeOK, CacheOK, Caches

\* The same in the next state.
LEMMA PointedNext ==
  ASSUME RInv', NEW p \in Procs, NEW s \in Slots, s \in AllPtrs(p)'
  PROVE  icache'[s].ref > 0
<1>1. Mine(pr'[p], cwd'[p], ofile'[p], s) \in Nat \ {0}
  BY DEF Mine, Own, One, AllPtrs, PtrsOf
<1>2. Pointers(s)' = Count(Procs \ {p}, pr', cwd', ofile', s) + Mine(pr'[p], cwd'[p], ofile'[p], s)
  BY PointersSplitNext
<1>3. Count(Procs \ {p}, pr', cwd', ofile', s) \in Nat
  BY Split, InodesAssumption
<1>4. icache'[s].ref = Pointers(s)'
  BY DEF RInv, RefsCounted
<1> QED
  BY <1>1, <1>2, <1>3, <1>4

\* An entry that two processes point to has two references.
LEMMA TwoPointers ==
  ASSUME RInv, NEW p \in Procs, NEW q \in Procs, p # q, NEW s \in Slots,
         s \in AllPtrs(p), s \in AllPtrs(q)
  PROVE  icache[s].ref >= 2
<1>a. PICK f, c, o : /\ f = [pr EXCEPT ![p] = User]
                     /\ c = [cwd EXCEPT ![p] = Nil] /\ o = [ofile EXCEPT ![p] = Nil]
  OBVIOUS
<1>1. /\ \A x \in Procs \ {p} : f[x] = pr[x] /\ c[x] = cwd[x] /\ o[x] = ofile[x]
      /\ f[p] = User /\ c[p] = Nil /\ o[p] = Nil
  BY <1>a DEF RInv, TypeOK
<1>2. Mine(f[p], c[p], o[p], s) = 0
  BY <1>1, SlotsNat DEF Mine, Own, One, User, Nil
<1>3. Mine(f[q], c[q], o[q], s) \in Nat \ {0}
  BY <1>1 DEF Mine, Own, One, AllPtrs, PtrsOf
<1>4. Mine(pr[p], cwd[p], ofile[p], s) \in Nat \ {0}
  BY DEF Mine, Own, One, AllPtrs, PtrsOf
<1>5. Count(Procs \ {p}, f, c, o, s) = Count(Procs \ {p}, pr, cwd, ofile, s)
  <2>1. {t \in (Procs \ {p}) \X Fields : f[t[1]][t[2]] = s}
          = {t \in (Procs \ {p}) \X Fields : pr[t[1]][t[2]] = s}
    BY <1>1
  <2>2. /\ {x \in Procs \ {p} : c[x] = s} = {x \in Procs \ {p} : cwd[x] = s}
        /\ {x \in Procs \ {p} : o[x] = s} = {x \in Procs \ {p} : ofile[x] = s}
    BY <1>1
  <2> QED
    BY <2>1, <2>2, Zenon DEF Count
<1>6. PICK a \in Nat, b \in Nat : a = Count(Procs \ {p}, f, c, o, s) /\ b = Count(Procs \ {q}, f, c, o, s)
  BY Split, InodesAssumption
<1>7. PICK x \in Nat \ {0}, y \in Nat \ {0} :
        x = Mine(f[q], c[q], o[q], s) /\ y = Mine(pr[p], cwd[p], ofile[p], s)
  BY <1>3, <1>4
<1>8. /\ Count(Procs, f, c, o, s) = Count(Procs \ {p}, f, c, o, s) + Mine(f[p], c[p], o[p], s)
      /\ Count(Procs, f, c, o, s) = Count(Procs \ {q}, f, c, o, s) + Mine(f[q], c[q], o[q], s)
  BY Split, InodesAssumption
<1>9. a = b + x
  <2>1. a + 0 = b + x
    BY <1>2, <1>6, <1>7, <1>8, Zenon
  <2> QED
    BY <2>1
<1>10. icache[s].ref = a + y
  <2>1. Pointers(s) = Count(Procs \ {p}, pr, cwd, ofile, s) + Mine(pr[p], cwd[p], ofile[p], s)
    BY PointersSplit
  <2>2. icache[s].ref = Pointers(s)
    BY DEF RInv, RefsCounted
  <2> QED
    BY <1>5, <1>6, <1>7, <2>1, <2>2, Zenon
<1> QED
  BY <1>9, <1>10

\* iput() of an entry to which the process has another pointer.
LEMMA ArgTwice ==
  ASSUME RInv, NEW p \in Procs, pr[p].arg \in Slots, pr[p].arg \in PtrsOf(p)
  PROVE  icache[pr[p].arg].ref >= 2
<1> DEFINE s == pr[p].arg
<1>1. Mine(pr[p], cwd[p], ofile[p], s) \in Nat /\ Mine(pr[p], cwd[p], ofile[p], s) >= 2
  BY DEF Mine, Own, One, PtrsOf
<1>2. icache[s].ref >= Mine(pr[p], cwd[p], ofile[p], s)
  BY Pointed
<1>3. icache[s].ref \in Nat
  BY Typed DEF Caches
<1> QED
  BY <1>1, <1>2, <1>3

\* Two entries in use are for different inodes.
LEMMA NumApart ==
  ASSUME RInv, NEW s \in Slots, NEW t \in Slots, icache[s].ref > 0, icache[t].ref > 0, s # t
  PROVE  Num(s) # Num(t)
BY DEF RInv, TypeOK, CacheOK, Num

----------------------------------------------------------------------------
(* What a process has locked.                                              *)

\* A process points to what it has locked, which is in use and valid.
LEMMA HolderIs ==
  ASSUME RInv, LockInv, NEW p \in Procs, NEW s \in Slots, Holder(pr[p], s)
  PROVE  /\ s \in AllPtrs(p) /\ (s \in pr[p].lk => s \in PtrsOf(p))
         /\ icache[s].busy /\ icache[s].valid
         /\ icache[s].ref > 0 /\ Num(s) \in Inums
<1>1. s \in AllPtrs(p) /\ (s \in pr[p].lk => s \in PtrsOf(p))
  BY DEF LockInv, LockOK, Holder, FreesIt, AllPtrs, PtrsOf
<1>2. icache[s].busy /\ icache[s].valid
  BY DEF LockInv
<1> QED
  BY <1>1, <1>2, PointedBy DEF Num

\* It is not locked by anybody else.
LEMMA HolderOne ==
  ASSUME LockInv, NEW p \in Procs, NEW q \in Procs, NEW s \in Slots, Holder(pr[p], s), Holder(pr[q], s)
  PROVE  p = q
BY DEF LockInv

\* The locks after a step of one process.
LEMMA LockStep ==
  ASSUME RInv, LockInv, NEW p \in Procs, NEW m \in Stacks, pr' = [pr EXCEPT ![p] = m], LockOK(m),
         \A s \in Slots : Holder(m, s) => /\ icache'[s].busy /\ icache'[s].valid
                                          /\ Holder(pr[p], s) \/ ~icache[s].busy,
         \A s \in Slots : icache[s].ref > 0 /\ icache[s].busy /\ ~Holder(pr[p], s)
                            => icache'[s].busy /\ icache'[s].valid,
         \A s \in Slots : icache'[s].ref > 0 /\ icache'[s].busy /\ ~Holder(m, s)
                            => icache[s].ref > 0 /\ icache[s].busy /\ ~Holder(pr[p], s)
  PROVE  LockInv'
<1>1. pr'[p] = m /\ \A q \in Procs \ {p} : pr'[q] = pr[q]
  BY DEF RInv, TypeOK
<1>2. \A q \in Procs : LockOK(pr'[q])
  BY <1>1 DEF LockInv
<1>3. ASSUME NEW q \in Procs \ {p}, NEW s \in Slots, Holder(pr[q], s)
      PROVE  icache[s].ref > 0 /\ icache[s].busy /\ ~Holder(pr[p], s)
  BY <1>3, HolderIs, HolderOne
<1>4. ASSUME NEW q \in Procs, NEW s \in Slots, Holder(pr'[q], s)
      PROVE  icache'[s].busy /\ icache'[s].valid
  BY <1>1, <1>3, <1>4
<1>5. ASSUME NEW q \in Procs \ {p}, NEW s \in Slots, Holder(pr'[q], s) PROVE ~Holder(m, s)
  BY <1>1, <1>3, <1>5
<1>6. ASSUME NEW x \in Procs, NEW y \in Procs, NEW s \in Slots, Holder(pr'[x], s), Holder(pr'[y], s)
      PROVE  x = y
  <2>1. CASE x = p \/ y = p
    BY <1>1, <1>5, <1>6, <2>1
  <2>2. CASE x # p /\ y # p
    BY <1>1, <1>6, <2>2, HolderOne
  <2> QED
    BY <2>1, <2>2
<1>7. ASSUME NEW s \in Slots, icache'[s].ref > 0, icache'[s].busy
      PROVE  \E q \in Procs : Holder(pr'[q], s)
  <2>1. CASE Holder(m, s)
    BY <1>1, <2>1
  <2>2. CASE ~Holder(m, s)
    <3>1. PICK q \in Procs : Holder(pr[q], s)
      BY <1>7, <2>2 DEF LockInv
    <3>2. q # p
      BY <1>7, <2>2, <3>1
    <3> QED
      BY <1>1, <3>1, <3>2
  <2> QED
    BY <2>1, <2>2
<1> QED
  BY <1>2, <1>4, <1>6, <1>7, Zenon DEF LockInv

----------------------------------------------------------------------------
(* What a step of process p that leaves it with stack m may do.            *)

\* Nobody else has s locked.
Alone(p, s) == \A q \in Procs \ {p} : ~Holder(pr[q], s)

\* A slot that is taken, one that stays as it is, one that p may write, and
\* one whose inode is allocated again while it is being freed.
Took(s) == icache[s].ref = 0 /\ ~icache'[s].valid /\ dinode'[icache'[s].inum].type # "0"
Same(p, s) ==
  /\ icache'[s].valid = icache[s].valid /\ icache'[s].type = icache[s].type /\ icache'[s].nlink = icache[s].nlink
  /\ dinode'[Num(s)].type = dinode[Num(s)].type /\ dinode'[Num(s)].nlink = dinode[Num(s)].nlink
  /\ pr[p].pc = "iput_done" => pr[p].arg # s
Wrote(p, m, s) ==
  /\ Alone(p, s)
  /\ \/ m.pc = "iput_done" /\ m.arg = s
     \/ /\ dinode'[Num(s)].type # "0"
        /\ icache'[s].valid =>
             dinode'[Num(s)].type = icache'[s].type /\ dinode'[Num(s)].nlink = icache'[s].nlink
Reused(p, s) ==
  /\ \E q \in Procs \ {p} : pr[q].pc = "iput_done" /\ pr[q].arg = s
  /\ dinode'[Num(s)].type # "0"

CacheMoves(p, m) ==
  \A s \in Slots : icache'[s].ref > 0 =>
    \/ Took(s)
    \/ /\ icache[s].ref > 0 /\ icache'[s].inum = icache[s].inum
       /\ Same(p, s) \/ Wrote(p, m, s) \/ Reused(p, s)

\* An inode that iget() may be called with: a name or the root, or a new one.
Reach(i) == dinode'[i].type # "0" /\ (dinode'[i].nlink >= 1 \/ dinode[i].type = "0")
RefMoves(p) ==
  \A s \in Slots : icache'[s].ref =< icache[s].ref \/ s \in PtrsOf(p) \/ Reach(icache'[s].inum)

\* Where the pointers come from.
PtrMoves(p, m) ==
  \A s \in Slots : s \in {m.cur, m.ip, m.dp, m.arg, cwd'[p], ofile'[p]} =>
    \/ s \in PtrsOf(p) \/ Reach(icache'[s].inum)
    \/ s = pr[p].arg /\ pr[p].pc # "iput_done"

\* Which inodes and directories change on disk.
DiskMoves(p) ==
  /\ \A i \in Inums : dinode[i].type # "0" =>
       dinode'[i].type = dinode[i].type \/ (pr[p].pc = "iput_free" /\ Num(pr[p].arg) = i)
  /\ \A s \in Slots, n \in Names :
       icache[s].ref > 0 /\ s \notin pr[p].lk /\ ~(pr[p].pc = "iput_free" /\ pr[p].arg = s) =>
         dents'[Num(s)][n] = dents[Num(s)][n]
  /\ \A s \in Slots :
       icache[s].ref > 0 /\ s \notin PtrsOf(p) /\ dinode[Num(s)].type # "0"
         /\ (pr[p].arg = s => pr[p].pc = "iput_done") =>
         /\ dinode'[Num(s)].nlink = dinode[Num(s)].nlink /\ dents'[Num(s)] = dents[Num(s)]
         /\ \A i \in Inums, n \in Names : dents'[i][n] = Num(s) => dents[i][n] = Num(s)

\* A step of p alone.
StepOf(p, m) ==
  /\ m \in Stacks /\ pr' = [pr EXCEPT ![p] = m]
  /\ \A q \in Procs \ {p} : cwd'[q] = cwd[q] /\ ofile'[q] = ofile[q]

\* The stack of p changes, and no other one.
LEMMA OneStack ==
  ASSUME RInv, NEW p \in Procs, NEW m, StepOf(p, m)
  PROVE  pr'[p] = m /\ \A q \in Procs \ {p} : pr'[q] = pr[q] /\ cwd'[q] = cwd[q] /\ ofile'[q] = ofile[q]
BY DEF RInv, TypeOK, StepOf

\* What others point to stays the inode it was.
LEMMA OthersNum ==
  ASSUME RInv, RInv', NEW p \in Procs, NEW m, StepOf(p, m), CacheMoves(p, m),
         NEW q \in Procs \ {p}, NEW s \in Slots, s \in AllPtrs(q)
  PROVE  icache'[s].ref > 0 /\ icache[s].ref > 0 /\ icache'[s].inum = Num(s) /\ Num(s) \in Inums
<1>1. s \in AllPtrs(q)'
  <2>1. pr'[q] = pr[q] /\ cwd'[q] = cwd[q] /\ ofile'[q] = ofile[q]
    BY OneStack
  <2> QED
    BY <2>1 DEF AllPtrs, PtrsOf
<1>2. icache'[s].ref > 0
  BY <1>1, PointedNext
<1>3. icache[s].ref \in Nat /\ icache[s].ref > 0 /\ icache[s].inum \in Inums
  BY PointedBy
<1>4. icache[s].ref # 0
  BY <1>3
<1> QED
  BY <1>2, <1>3, <1>4, Zenon DEF CacheMoves, Took, Num

\* The cache agrees with the disk after the step.
LEMMA CacheStep ==
  ASSUME RInv, CacheInv, NEW p \in Procs, NEW m, StepOf(p, m), CacheMoves(p, m)
  PROVE  CacheInv'
<1>1. pr'[p] = m /\ \A q \in Procs \ {p} : pr'[q] = pr[q]
  BY OneStack
<1>2. SUFFICES ASSUME NEW s \in Slots, icache'[s].ref > 0, ~Gone(s)'
               PROVE  /\ dinode'[icache'[s].inum].type # "0"
                      /\ icache'[s].valid =>
                           /\ dinode'[icache'[s].inum].type = icache'[s].type
                           /\ dinode'[icache'[s].inum].nlink = icache'[s].nlink
  BY Zenon DEF CacheInv, Num
<1>3. CASE Took(s)
  BY <1>3 DEF Took
<1>4. ASSUME icache[s].ref > 0, icache'[s].inum = icache[s].inum, Same(p, s)
      PROVE  /\ dinode'[icache'[s].inum].type # "0"
             /\ icache'[s].valid =>
                  /\ dinode'[icache'[s].inum].type = icache'[s].type
                  /\ dinode'[icache'[s].inum].nlink = icache'[s].nlink
  <2>1. ~Gone(s)
    BY <1>1, <1>2, <1>4 DEF Gone, Same
  <2> QED
    BY <1>4, <2>1 DEF Same, CacheInv, Num
<1>5. ASSUME icache[s].ref > 0, icache'[s].inum = icache[s].inum, Wrote(p, m, s)
      PROVE  /\ dinode'[icache'[s].inum].type # "0"
             /\ icache'[s].valid =>
                  /\ dinode'[icache'[s].inum].type = icache'[s].type
                  /\ dinode'[icache'[s].inum].nlink = icache'[s].nlink
  BY <1>1, <1>2, <1>5 DEF Wrote, Gone, Num
<1>6. ~Reused(p, s)
  BY <1>1, <1>2 DEF Reused, Gone
<1> QED
  BY <1>2, <1>3, <1>4, <1>5, <1>6 DEF CacheMoves

\* Nobody gets hold of what another process is freeing.
LEMMA FreeStep ==
  ASSUME RInv, LockInv, CacheInv, FreeInv, RInv', NEW p \in Procs, NEW m, StepOf(p, m), CacheMoves(p, m),
         RefMoves(p),
         m.pc = "iput_free" => icache'[m.arg].ref = 1 /\ icache'[m.arg].nlink = 0,
         m.pc = "iput_done" /\ dinode'[icache'[m.arg].inum].type = "0" => icache'[m.arg].ref = 1
  PROVE  FreeInv'
<1>1. pr'[p] = m /\ \A q \in Procs \ {p} : pr'[q] = pr[q]
  BY OneStack
<1>2. ASSUME NEW q \in Procs \ {p}, pr[q].pc \in {"iput_free", "iput_done"}
      PROVE  /\ pr[q].pc = "iput_free" => icache'[pr[q].arg].ref = 1 /\ icache'[pr[q].arg].nlink = 0
             /\ pr[q].pc = "iput_done" /\ dinode'[icache'[pr[q].arg].inum].type = "0"
                  => icache'[pr[q].arg].ref = 1
  <2> DEFINE s == pr[q].arg
  <2>1. s \in Slots /\ s \in AllPtrs(q) /\ Holder(pr[q], s)
    BY <1>2, Typed DEF Shape, Puts, AllPtrs, Holder, FreesIt
  <2>2. icache'[s].ref > 0 /\ icache[s].ref > 0 /\ icache'[s].inum = Num(s) /\ Num(s) \in Inums
    BY <2>1, OthersNum
  <2>3. icache[s].ref \in Nat /\ icache'[s].ref \in Nat
    BY <2>1 DEF RInv, TypeOK, CacheOK, Caches
  <2>4. icache[s].valid
    BY <2>1, HolderIs
  <2>5. ~Took(s) /\ ~Wrote(p, m, s)
    <3>1. ~(icache[s].ref = 0)
      BY <2>2, <2>3
    <3>2. ~Alone(p, s)
      BY <2>1, Zenon DEF Alone
    <3> QED
      BY <3>1, <3>2, Zenon DEF Wrote, Took
  <2>6. Same(p, s) \/ Reused(p, s)
    BY <2>1, <2>2, <2>5 DEF CacheMoves
  <2>7. s \in PtrsOf(p) => icache[s].ref >= 2
    BY <2>1, TwoPointers DEF AllPtrs
  <2>8. ASSUME pr[q].pc = "iput_free" PROVE icache'[s].ref = 1 /\ icache'[s].nlink = 0
    <3>1. icache[s].ref = 1 /\ icache[s].nlink = 0
      BY <2>8 DEF FreeInv
    <3>2. ~Gone(s)
      BY <2>1, <2>8, HolderOne DEF Gone, Holder, FreesIt
    <3>3. Same(p, s)
      BY <2>6, <3>2 DEF Reused, Gone
    <3>4. dinode[Num(s)].nlink = 0 /\ dinode[Num(s)].type # "0"
      BY <2>1, <2>2, <2>4, <3>1, <3>2 DEF CacheInv
    <3>5. dinode'[Num(s)].nlink = 0 /\ icache'[s].nlink = 0
      BY <3>1, <3>3, <3>4 DEF Same
    <3>6. ~Reach(icache'[s].inum)
      BY <2>2, <3>4, <3>5 DEF Reach
    <3>7. s \notin PtrsOf(p)
      BY <2>7, <3>1
    <3>8. icache'[s].ref =< icache[s].ref
      BY <2>1, <3>6, <3>7 DEF RefMoves
    <3> QED
      BY <2>2, <2>3, <3>1, <3>5, <3>8
  <2>9. ASSUME pr[q].pc = "iput_done", dinode'[icache'[s].inum].type = "0" PROVE icache'[s].ref = 1
    <3>1. Same(p, s)
      BY <2>2, <2>6, <2>9 DEF Reused
    <3>2. dinode[Num(s)].type = "0"
      BY <2>2, <2>9, <3>1 DEF Same
    <3>3. icache[s].ref = 1
      BY <2>9, <3>2 DEF FreeInv
    <3>4. ~Reach(icache'[s].inum)
      BY <2>9 DEF Reach
    <3>5. s \notin PtrsOf(p)
      BY <2>7, <3>3
    <3>6. icache'[s].ref =< icache[s].ref
      BY <2>1, <3>4, <3>5 DEF RefMoves
    <3> QED
      BY <2>2, <2>3, <3>3, <3>6
  <2> QED
    BY <2>8, <2>9
<1>3. \A q \in Procs : pr'[q].pc = "iput_free" => icache'[pr'[q].arg].ref = 1 /\ icache'[pr'[q].arg].nlink = 0
  BY <1>1, <1>2
<1>4. \A q \in Procs : pr'[q].pc = "iput_done" /\ dinode'[icache'[pr'[q].arg].inum].type = "0"
                         => icache'[pr'[q].arg].ref = 1
  BY <1>1, <1>2
<1> QED
  BY <1>3, <1>4, Zenon DEF FreeInv, Num

\* The pointers that a stack holds where it is.
LEMMA StackIs ==
  ASSUME RInv, NEW p \in Procs
  PROVE  /\ Place(pr[p]) \in DpAt => pr[p].dp \in Slots
         /\ Place(pr[p]) \in IpAt => pr[p].ip \in Slots
         /\ Place(pr[p]) = "nx" => pr[p].cur \in Slots
         /\ Linking(pr[p]) \/ Owes(pr[p]) => pr[p].ip \in Slots
         /\ pr[p].pc \in Puts => pr[p].arg \in Slots
         /\ pr[p].cur \in AllPtrs(p) /\ pr[p].ip \in AllPtrs(p) /\ pr[p].dp \in AllPtrs(p)
         /\ pr[p].arg \in AllPtrs(p)
<1>1. pr[p] \in Stacks /\ Shape(pr[p])
  BY Typed
<1>2. /\ Place(pr[p]) \in DpAt => pr[p].dp \in Slots
      /\ Place(pr[p]) \in IpAt => pr[p].ip \in Slots
      /\ Place(pr[p]) = "nx" => pr[p].cur \in Slots
      /\ pr[p].pc \in Puts => pr[p].arg \in Slots
  BY <1>1 DEF Shape, Holds
<1>3. pr[p].ip # Nil => pr[p].ip \in Slots
  BY <1>1 DEF Stacks
<1>4. Linking(pr[p]) \/ Owes(pr[p]) => pr[p].ip \in Slots
  BY <1>2, <1>3 DEF Linking, Owes, IpAt
<1> QED
  BY <1>2, <1>4 DEF AllPtrs, PtrsOf

\* What others point to keeps its type.
LEMMA OthersType ==
  ASSUME RInv, RInv', FreeInv, NEW p \in Procs, NEW m, StepOf(p, m), CacheMoves(p, m), DiskMoves(p),
         NEW q \in Procs \ {p}, NEW s \in Slots, s \in AllPtrs(q), dinode[Num(s)].type # "0"
  PROVE  icache'[s].inum = Num(s) /\ dinode'[icache'[s].inum].type = dinode[Num(s)].type
<1>1. icache[s].ref > 0 /\ icache'[s].inum = Num(s) /\ Num(s) \in Inums
  BY OthersNum
<1>2. ASSUME pr[p].pc = "iput_free" PROVE Num(pr[p].arg) # Num(s)
  <2> DEFINE a == pr[p].arg
  <2>1. a \in Slots /\ a \in AllPtrs(p)
    BY <1>2, StackIs DEF Puts
  <2>2. icache[a].ref = 1
    BY <1>2 DEF FreeInv
  <2>3. a # s
    BY <2>1, <2>2, TwoPointers
  <2> QED
    BY <1>1, <2>1, <2>2, <2>3, NumApart
<1> QED
  BY <1>1, <1>2 DEF DiskMoves

\* What holds of the stack of another process still does.
LEMMA PlaceStep ==
  ASSUME RInv, RInv', LockInv, FreeInv, PlaceInv, NEW p \in Procs, NEW m, StepOf(p, m), CacheMoves(p, m),
         DiskMoves(p), NEW q \in Procs \ {p}
  PROVE  PlaceOK(pr[q], icache', dinode', dents')
<1> DEFINE r == pr[q]
<1>1. PlaceOK(r, icache, dinode, dents)
  BY DEF PlaceInv
<1>2. /\ Place(r) \in DpAt => r.dp \in Slots
      /\ Place(r) \in IpAt => r.ip \in Slots
      /\ Linking(r) => r.ip \in Slots
      /\ r.ip \in AllPtrs(q) /\ r.dp \in AllPtrs(q)
  BY StackIs
<1>3. Place(r) \in DpAt => /\ r.name \in Names /\ icache'[r.dp].inum = Num(r.dp)
                           /\ dinode'[icache'[r.dp].inum].type = "DIR"
  BY <1>1, <1>2, OthersType DEF PlaceOK, Num
<1>4. Linking(r) => dinode'[icache'[r.ip].inum].type = "FILE"
  BY <1>1, <1>2, OthersType DEF PlaceOK, Num
<1>5. r.pc = "cr_new" => dinode'[icache'[r.ip].inum].type = Kind(r.op)
  <2>1. r.pc = "cr_new" => Place(r) \in IpAt
    BY DEF Place, Puts, IpAt
  <2>2. Kind(r.op) # "0"
    BY DEF Kind
  <2> QED
    BY <1>1, <1>2, <2>1, <2>2, OthersType DEF PlaceOK, Num
<1>6. Place(r) = "un_ip" => dents'[icache'[r.dp].inum][r.name] = icache'[r.ip].inum
  <2> SUFFICES ASSUME Place(r) = "un_ip" PROVE dents'[icache'[r.dp].inum][r.name] = icache'[r.ip].inum
    OBVIOUS
  <2>1. r.dp \in Slots /\ r.ip \in Slots /\ r.name \in Names
    BY <1>2, <1>3 DEF DpAt, IpAt
  <2>2. r.dp \in r.lk
    BY DEF LockInv, LockOK
  <2>3. icache[r.dp].ref > 0 /\ icache'[r.dp].inum = Num(r.dp) /\ icache'[r.ip].inum = Num(r.ip)
    BY <1>2, <2>1, OthersNum
  <2>4. ~Holder(pr[p], r.dp)
    BY <2>1, <2>2, HolderOne DEF Holder
  <2>5. dents'[Num(r.dp)][r.name] = dents[Num(r.dp)][r.name]
    BY <2>1, <2>3, <2>4 DEF DiskMoves, Holder, FreesIt
  <2>6. dents[Num(r.dp)][r.name] = Num(r.ip)
    BY <1>1 DEF PlaceOK, Num
  <2> QED
    BY <2>3, <2>5, <2>6
<1>7. /\ r.path \in Seq(Names)
      /\ Place(r) \in {"cr_dp", "cr_new"} => r.op \in {"creat", "mkdir"}
      /\ r.k # "cr_new"
  BY <1>1 DEF PlaceOK
<1> HIDE DEF r
<1>8. PlaceOK(r, icache', dinode', dents')
  BY <1>3, <1>4, <1>5, <1>6, <1>7 DEF PlaceOK
<1> QED
  BY <1>8 DEF r

\* A new inode of another process stays new.
LEMMA NewStep ==
  ASSUME RInv, RInv', LockInv, FreeInv, PlaceInv, NewInv, NEW p \in Procs, NEW m, StepOf(p, m),
         CacheMoves(p, m), DiskMoves(p), PtrMoves(p, m),
         NEW q \in Procs \ {p}, pr[q].pc = "cr_new"
  PROVE  NewOK(q)'
<1> DEFINE s == pr[q].ip
<1>1. /\ pr'[p] = m
      /\ \A x \in Procs \ {p} : pr'[x] = pr[x] /\ cwd'[x] = cwd[x] /\ ofile'[x] = ofile[x]
  BY OneStack
<1>2. NewOK(q)
  BY DEF NewInv
<1>3. s \in Slots /\ s \in AllPtrs(q) /\ dinode[Num(s)].type # "0"
  <2>1. Place(pr[q]) \in IpAt
    BY DEF Place, Puts, IpAt
  <2>2. dinode[Num(s)].type = Kind(pr[q].op)
    BY DEF PlaceInv, PlaceOK, Num
  <2> QED
    BY <2>1, <2>2, StackIs DEF Kind
<1>4. icache[s].ref > 0 /\ icache'[s].inum = Num(s) /\ Num(s) \in Inums
  BY <1>3, OthersNum
<1>5. /\ dinode[Num(s)].nlink = 0 /\ Bare(dents, Num(s))
      /\ \A i \in Inums, n \in Names : dents[i][n] # Num(s)
      /\ s \notin {pr[q].dp, cwd[q], ofile[q]}
      /\ \A x \in Procs \ {q} : s \notin PtrsOf(x) /\ (pr[x].arg = s => pr[x].pc = "iput_done")
  BY <1>2, Zenon DEF NewOK
<1>6. /\ dinode'[Num(s)].nlink = 0 /\ dents'[Num(s)] = dents[Num(s)]
      /\ \A i \in Inums, n \in Names : dents'[i][n] # Num(s)
  BY <1>3, <1>4, <1>5 DEF DiskMoves
<1>7. ~Reach(icache'[s].inum)
  BY <1>3, <1>4, <1>6 DEF Reach
<1>8. s \notin {m.cur, m.ip, m.dp, m.arg, cwd'[p], ofile'[p]}
  BY <1>3, <1>5, <1>7 DEF PtrMoves
<1>9. Bare(dents', Num(s))
  BY <1>5, <1>6 DEF Bare
<1>10. \A x \in Procs \ {q} : s \notin PtrsOf(x)' /\ (pr'[x].arg = s => pr'[x].pc = "iput_done")
  BY <1>1, <1>5, <1>8 DEF PtrsOf
<1>11. s \notin {pr'[q].dp, cwd'[q], ofile'[q]} /\ pr'[q].ip = s
  BY <1>1, <1>5
<1>12. (Num(s) = icache'[pr'[q].ip].inum)
  BY <1>4, <1>11
<1> HIDE DEF s
<1> QED
  BY <1>6, <1>9, <1>10, <1>11, <1>12 DEF NewOK, Num

\* A step of one process keeps the invariant.
LEMMA StepL ==
  ASSUME LInv, RInv', NEW p \in Procs, NEW m, StepOf(p, m), LockInv', TreeInv(dinode', dents'),
         CoverInv', NoPanic', CacheMoves(p, m), RefMoves(p), PtrMoves(p, m), DiskMoves(p),
         PlaceOK(m, icache', dinode', dents'),
         m.pc = "iput_free" => icache'[m.arg].ref = 1 /\ icache'[m.arg].nlink = 0,
         m.pc = "iput_done" /\ dinode'[icache'[m.arg].inum].type = "0" => icache'[m.arg].ref = 1,
         m.pc = "cr_new" => NewOK(p)'
  PROVE  LInv'
<1>1. pr'[p] = m /\ \A q \in Procs \ {p} : pr'[q] = pr[q]
  BY OneStack DEF LInv
<1>2. CacheInv'
  BY CacheStep DEF LInv
<1>3. FreeInv'
  BY FreeStep DEF LInv
<1>4. PlaceInv'
  <2>1. \A q \in Procs : PlaceOK(pr'[q], icache', dinode', dents')
    BY <1>1, PlaceStep DEF LInv
  <2> QED
    BY <2>1, Zenon DEF PlaceInv
<1>5. NewInv'
  <2>1. ASSUME NEW q \in Procs, pr'[q].pc = "cr_new" PROVE NewOK(q)'
    <3>1. CASE q = p
      BY <1>1, <2>1, <3>1
    <3>2. CASE q # p
      <4>1. pr[q].pc = "cr_new"
        BY <1>1, <2>1, <3>2
      <4> QED
        BY <3>2, <4>1, NewStep DEF LInv
    <3> QED
      BY <3>1, <3>2
  <2> QED
    BY <2>1 DEF NewInv
<1> QED
  BY <1>2, <1>3, <1>4, <1>5, Zenon DEF LInv

----------------------------------------------------------------------------
(* What link counts have to cover.                                         *)

\* An inode that a name leads to, or the root.
Good(i) == dinode[i].type # "0" /\ dinode[i].nlink >= 1

\* The sets that Due counts are finite.
LEMMA DueFinite ==
  ASSUME NEW i
  PROVE  /\ IsFiniteSet(Named(i)) /\ IsFiniteSet(Subdirs(i)) /\ IsFiniteSet(Pend(i))
         /\ Cardinality(Named(i)) \in Nat /\ Cardinality(Subdirs(i)) \in Nat /\ Cardinality(Pend(i)) \in Nat
         /\ One(i, ROOTINO) \in Nat
<1>1. IsFiniteSet(Inums \X Names)
  BY InodesAssumption, FS_Product
<1>2. Named(i) \in SUBSET (Inums \X Names) /\ Subdirs(i) \in SUBSET Inums /\ Pend(i) \in SUBSET Procs
  BY DEF Named, Subdirs, Pend
<1>3. IsFiniteSet(Named(i)) /\ IsFiniteSet(Subdirs(i)) /\ IsFiniteSet(Pend(i))
  BY <1>1, <1>2, InodesAssumption, FS_Subset
<1>4. One(i, ROOTINO) \in Nat
  BY DEF One
<1> QED
  BY <1>3, <1>4, FS_CardinalityType

\* The same in the next state.
LEMMA DueFiniteNext ==
  ASSUME NEW i
  PROVE  /\ IsFiniteSet(Named(i)') /\ IsFiniteSet(Subdirs(i)') /\ IsFiniteSet(Pend(i)')
         /\ Cardinality(Named(i)') \in Nat /\ Cardinality(Subdirs(i)') \in Nat /\ Cardinality(Pend(i)') \in Nat
<1>1. IsFiniteSet(Inums \X Names)
  BY InodesAssumption, FS_Product
<1>2. Named(i)' \in SUBSET (Inums \X Names) /\ Subdirs(i)' \in SUBSET Inums /\ Pend(i)' \in SUBSET Procs
  BY DEF Named, Subdirs, Pend
<1>3. IsFiniteSet(Named(i)') /\ IsFiniteSet(Subdirs(i)') /\ IsFiniteSet(Pend(i)')
  BY <1>1, <1>2, InodesAssumption, FS_Subset
<1> QED
  BY <1>3, FS_CardinalityType

\* Two finite sets that differ in one element at most.
LEMMA CardStep ==
  ASSUME NEW S, NEW T, IsFiniteSet(S), IsFiniteSet(T), NEW x, S \ {x} = T \ {x}
  PROVE  Cardinality(T) + (IF x \in S THEN 1 ELSE 0) = Cardinality(S) + (IF x \in T THEN 1 ELSE 0)
<1>1. Cardinality(S \ {x}) \in Nat /\ Cardinality(S) = Cardinality(S \ {x}) + (IF x \in S THEN 1 ELSE 0)
  BY CountOne
<1>2. Cardinality(T) = Cardinality(S \ {x}) + (IF x \in T THEN 1 ELSE 0)
  BY CountOne
<1> QED
  BY <1>1, <1>2

\* What has a name has a link and a type.
LEMMA NamedGood ==
  ASSUME RInv, CoverInv, TreeInv(dinode, dents), NEW j \in Inums, NEW n \in Names, NEW i \in Inums, dents[j][n] = i
  PROVE  Good(i)
<1>1. Named(i) # {}
  <2>1. <<j, n>> \in Named(i)
    BY DEF Named
  <2> QED
    BY <2>1
<1>2. Cardinality(Named(i)) \in Nat /\ Cardinality(Named(i)) # 0
  BY <1>1, DueFinite, FS_EmptySet
<1>3. dinode[i].nlink >= Cardinality(Named(i)) + Cardinality(Subdirs(i)) + Cardinality(Pend(i)) + One(i, ROOTINO)
  BY DEF CoverInv, Due
<1>4. dinode[i].nlink \in Int
  BY DEF RInv, TypeOK
<1>5. Cardinality(Subdirs(i)) \in Nat /\ Cardinality(Pend(i)) \in Nat /\ One(i, ROOTINO) \in Nat
  BY DueFinite
<1>6. dinode[i].nlink >= 1
  BY <1>2, <1>3, <1>4, <1>5
<1> QED
  BY <1>6 DEF Good, TreeInv

\* The root has a link and a type.
LEMMA RootGood ==
  ASSUME RInv, CoverInv, TreeInv(dinode, dents)
  PROVE  ROOTINO \in Inums /\ Good(ROOTINO)
<1>1. ROOTINO \in Inums
  BY InodesAssumption
<1>2. dinode[ROOTINO].nlink >= Cardinality(Named(ROOTINO)) + Cardinality(Subdirs(ROOTINO))
                                 + Cardinality(Pend(ROOTINO)) + One(ROOTINO, ROOTINO)
  BY <1>1 DEF CoverInv, Due
<1>3. dinode[ROOTINO].nlink \in Int
  BY <1>1 DEF RInv, TypeOK
<1>4. One(ROOTINO, ROOTINO) = 1
  BY DEF One
<1>5. /\ Cardinality(Named(ROOTINO)) \in Nat /\ Cardinality(Subdirs(ROOTINO)) \in Nat
      /\ Cardinality(Pend(ROOTINO)) \in Nat
  BY DueFinite
<1>6. dinode[ROOTINO].nlink >= 1
  BY <1>2, <1>3, <1>4, <1>5
<1> QED
  BY <1>1, <1>6 DEF Good, TreeInv

\* An entry that stays in use stays the one of its inode.
LEMMA NumKept ==
  ASSUME RInv, NEW p, NEW m, CacheMoves(p, m), NEW s \in Slots, icache[s].ref > 0, icache'[s].ref > 0
  PROVE  icache'[s].inum = icache[s].inum
<1>1. icache[s].ref # 0
  OBVIOUS
<1> QED
  BY <1>1 DEF CacheMoves, Took

\* The links that calls owe after a step of p.
LEMMA PendStep ==
  ASSUME RInv, RInv', NEW p \in Procs, NEW m, StepOf(p, m), CacheMoves(p, m), NEW i
  PROVE  /\ Pend(i)' \ {p} = Pend(i) \ {p}
         /\ p \in Pend(i)' <=> Owes(m) /\ icache'[m.ip].inum = i
         /\ p \in Pend(i) <=> Owes(pr[p]) /\ icache[pr[p].ip].inum = i
<1>1. pr'[p] = m /\ \A q \in Procs \ {p} : pr'[q] = pr[q]
  BY OneStack
<1>2. ASSUME NEW q \in Procs \ {p} PROVE q \in Pend(i)' <=> q \in Pend(i)
  <2>1. Owes(pr[q]) => icache'[pr[q].ip].inum = icache[pr[q].ip].inum
    BY StackIs, OthersNum DEF Num
  <2>2. q \in Pend(i)' <=> Owes(pr'[q]) /\ icache'[pr'[q].ip].inum = i
    BY DEF Pend, Num
  <2>3. q \in Pend(i) <=> Owes(pr[q]) /\ icache[pr[q].ip].inum = i
    BY DEF Pend, Num
  <2> QED
    BY <1>1, <2>1, <2>2, <2>3
<1>3. Pend(i)' \in SUBSET Procs /\ Pend(i) \in SUBSET Procs
  BY DEF Pend
<1>4. p \in Pend(i)' <=> Owes(pr'[p]) /\ icache'[pr'[p].ip].inum = i
  BY DEF Pend, Num
<1>5. p \in Pend(i) <=> Owes(pr[p]) /\ icache[pr[p].ip].inum = i
  BY DEF Pend, Num
<1> QED
  BY <1>1, <1>2, <1>3, <1>4, <1>5

\* A step that leaves the disk alone.
LEMMA QuietL ==
  ASSUME LInv, RInv', NEW p \in Procs, NEW m, StepOf(p, m), LockInv', dinode' = dinode, dents' = dents,
         NoPanic', CacheMoves(p, m), RefMoves(p), PtrMoves(p, m),
         PlaceOK(m, icache', dinode, dents),
         m.pc = "iput_free" => icache'[m.arg].ref = 1 /\ icache'[m.arg].nlink = 0,
         m.pc # "iput_done",
         m.pc = "cr_new" => /\ pr[p].pc = "cr_new" /\ m.ip = pr[p].ip /\ m.dp = pr[p].dp
                            /\ cwd'[p] = cwd[p] /\ ofile'[p] = ofile[p],
         Owes(m) <=> Owes(pr[p]), Owes(m) => m.ip = pr[p].ip
  PROVE  LInv'
<1>1. RInv /\ LockInv /\ CoverInv /\ TreeInv(dinode, dents) /\ NewInv /\ PlaceInv /\ FreeInv
  BY DEF LInv
<1>2. /\ pr'[p] = m
      /\ \A q \in Procs \ {p} : pr'[q] = pr[q] /\ cwd'[q] = cwd[q] /\ ofile'[q] = ofile[q]
  BY <1>1, OneStack
<1>3. DiskMoves(p)
  BY DEF DiskMoves
<1>4. ASSUME NEW s \in Slots, s = m.ip, s = pr[p].ip PROVE icache'[s].inum = icache[s].inum
  <2>1. s \in AllPtrs(p) /\ s \in AllPtrs(p)'
    BY <1>2, <1>4 DEF AllPtrs, PtrsOf
  <2>2. icache[s].ref > 0
    BY <1>1, <2>1, PointedBy
  <2>3. icache'[s].ref > 0
    BY <2>1, PointedNext
  <2> QED
    BY <1>1, <2>2, <2>3, NumKept
<1>5. CoverInv'
  <2> SUFFICES ASSUME NEW i \in Inums PROVE dinode'[i].nlink >= Due(i)'
    BY DEF CoverInv
  <2>1. Named(i)' = Named(i) /\ Subdirs(i)' = Subdirs(i)
    BY DEF Named, Subdirs
  <2>2. Owes(pr[p]) => pr[p].ip \in Slots
    BY <1>1, StackIs
  <2>3. p \in Pend(i)' <=> p \in Pend(i)
    BY <1>1, <1>4, <2>2, PendStep
  <2>4. Pend(i)' = Pend(i)
    BY <1>1, <2>3, PendStep
  <2>5. Due(i)' = Due(i)
    BY <2>1, <2>4, Zenon DEF Due
  <2> QED
    BY <1>1, <2>5 DEF CoverInv
<1>6. ASSUME m.pc = "cr_new" PROVE NewOK(p)'
  <2> DEFINE s == pr[p].ip
  <2>1. s \in Slots
    <3>1. Place(pr[p]) \in IpAt
      BY <1>6 DEF Place, Puts, IpAt
    <3> QED
      BY <1>1, <3>1, StackIs
  <2>2. icache'[s].inum = icache[s].inum /\ pr'[p].ip = s /\ pr'[p].dp = pr[p].dp
    BY <1>2, <1>4, <1>6, <2>1
  <2>3. NewOK(p)
    BY <1>1, <1>6 DEF NewInv
  <2>4. \A q \in Procs \ {p} : PtrsOf(q)' = PtrsOf(q)
    BY <1>2 DEF PtrsOf
  <2> QED
    BY <1>2, <1>6, <2>2, <2>3, <2>4 DEF NewOK, Num
<1> QED
  BY <1>1, <1>3, <1>5, <1>6, StepL

\* What iget(), idup() and iunlock() do to the cache: G is the slot that gets
\* a reference, if any, and U the set of those that are unlocked.
Quietly(p, G, U) ==
  /\ \A s \in Slots : icache[s].ref > 0 =>
       /\ icache'[s].ref = icache[s].ref + (IF s = G THEN 1 ELSE 0)
       /\ icache'[s].inum = icache[s].inum /\ icache'[s].valid = icache[s].valid
       /\ icache'[s].type = icache[s].type /\ icache'[s].nlink = icache[s].nlink
       /\ s \in U => ~icache'[s].busy
       /\ s \notin U => icache'[s].busy = icache[s].busy
  /\ \A s \in Slots : icache[s].ref = 0 /\ icache'[s].ref > 0 =>
       s = G /\ ~icache'[s].valid /\ ~icache'[s].busy
  /\ G \in Slots => G \in PtrsOf(p) \/ Good(icache'[G].inum)

\* What a step may do to locks: U is the set of slots it unlocks.
LockMoves(U) ==
  /\ \A s \in Slots : icache[s].ref > 0 =>
       /\ icache'[s].valid = icache[s].valid
       /\ s \in U => ~icache'[s].busy
       /\ s \notin U => icache'[s].busy = icache[s].busy
  /\ \A s \in Slots : icache[s].ref = 0 /\ icache'[s].ref > 0 => ~icache'[s].busy

\* The locks after a step that unlocks some slots.
LEMMA UnlockStep ==
  ASSUME RInv, LockInv, NEW p \in Procs, NEW m, NEW U, StepOf(p, m), LockMoves(U),
         pr[p].pc \notin Puts, m.pc \notin {"iput_free", "iput_done"},
         U \subseteq pr[p].lk, m.lk = pr[p].lk \ U, LockOK(m)
  PROVE  LockInv'
<1>1. \A s \in Slots : icache[s].ref \in Nat
  BY DEF RInv, TypeOK, CacheOK, Caches
<1>2. \A s \in Slots : (Holder(m, s) <=> s \in m.lk) /\ (Holder(pr[p], s) <=> s \in pr[p].lk)
  BY DEF Holder, FreesIt, Puts
<1>3. \A s \in Slots : Holder(m, s) => /\ icache'[s].busy /\ icache'[s].valid
                                       /\ Holder(pr[p], s) \/ ~icache[s].busy
  <2> SUFFICES ASSUME NEW s \in Slots, Holder(m, s)
               PROVE  icache'[s].busy /\ icache'[s].valid /\ Holder(pr[p], s)
    OBVIOUS
  <2>1. Holder(pr[p], s) /\ s \notin U
    BY <1>2
  <2>2. icache[s].ref > 0 /\ icache[s].busy /\ icache[s].valid
    BY <2>1, HolderIs
  <2> QED
    BY <2>1, <2>2 DEF LockMoves
<1>4. \A s \in Slots : icache[s].ref > 0 /\ icache[s].busy /\ ~Holder(pr[p], s)
                         => icache'[s].busy /\ icache'[s].valid
  <2> SUFFICES ASSUME NEW s \in Slots, icache[s].ref > 0, icache[s].busy, ~Holder(pr[p], s)
               PROVE  icache'[s].busy /\ icache'[s].valid
    OBVIOUS
  <2>1. s \notin U
    BY <1>2
  <2>2. icache[s].valid
    BY DEF LockInv
  <2> QED
    BY <2>1, <2>2 DEF LockMoves
<1>5. \A s \in Slots : icache'[s].ref > 0 /\ icache'[s].busy /\ ~Holder(m, s)
                         => icache[s].ref > 0 /\ icache[s].busy /\ ~Holder(pr[p], s)
  <2> SUFFICES ASSUME NEW s \in Slots, icache'[s].ref > 0, icache'[s].busy, ~Holder(m, s)
               PROVE  icache[s].ref > 0 /\ icache[s].busy /\ ~Holder(pr[p], s)
    OBVIOUS
  <2>1. icache[s].ref > 0
    BY <1>1 DEF LockMoves
  <2>2. s \notin U /\ icache[s].busy
    BY <2>1 DEF LockMoves
  <2> QED
    BY <1>2, <2>1, <2>2
<1>6. m \in Stacks /\ pr' = [pr EXCEPT ![p] = m]
  BY DEF StepOf
<1> QED
  BY <1>3, <1>4, <1>5, <1>6, LockStep

\* A step of a system call that looks around in the cache and moves on.
LEMMA EasyL ==
  ASSUME LInv, RInv', NEW p \in Procs, NEW m, NEW G, NEW U, StepOf(p, m),
         dinode' = dinode, dents' = dents, panicked' = panicked, Quietly(p, G, U),
         pr[p].pc \notin Puts, m.pc \notin {"iput_free", "iput_done", "cr_new"},
         U \subseteq pr[p].lk, m.lk = pr[p].lk \ U,
         \A s \in Slots : s \in {m.cur, m.ip, m.dp, m.arg, cwd'[p], ofile'[p]} => s \in PtrsOf(p) \/ s = G,
         LockOK(m), PlaceOK(m, icache', dinode, dents),
         Owes(m) <=> Owes(pr[p]), Owes(m) => m.ip = pr[p].ip
  PROVE  LInv'
<1>1. RInv /\ LockInv
  BY DEF LInv
<1>2. \A s \in Slots : icache[s].ref \in Nat /\ icache'[s].ref \in Nat
  BY <1>1 DEF RInv, TypeOK, CacheOK, Caches
<1>3. \A s \in Slots : s \in PtrsOf(p) => icache[s].ref > 0
  BY <1>1, PointedBy DEF AllPtrs
<1>4. LockInv'
  <2>1. LockMoves(U)
    BY DEF LockMoves, Quietly
  <2> QED
    BY <1>1, <2>1, UnlockStep
<1>5. \A s \in Slots : Good(icache'[s].inum) => Reach(icache'[s].inum)
  BY DEF Good, Reach
<1>6. CacheMoves(p, m)
  <2> SUFFICES ASSUME NEW s \in Slots, icache'[s].ref > 0
               PROVE  Took(s) \/ (icache[s].ref > 0 /\ icache'[s].inum = icache[s].inum /\ Same(p, s))
    BY DEF CacheMoves
  <2>1. CASE icache[s].ref > 0
    BY <2>1 DEF Quietly, Same, Puts
  <2>2. CASE icache[s].ref = 0
    <3>1. s = G /\ ~icache'[s].valid
      BY <2>2 DEF Quietly
    <3>2. Good(icache'[s].inum)
      BY <1>3, <2>2, <3>1 DEF Quietly
    <3> QED
      BY <2>2, <3>1, <3>2 DEF Took, Good
  <2> QED
    BY <1>2, <2>1, <2>2
<1>7. RefMoves(p)
  <2> SUFFICES ASSUME NEW s \in Slots
               PROVE  icache'[s].ref =< icache[s].ref \/ s \in PtrsOf(p) \/ Reach(icache'[s].inum)
    BY DEF RefMoves
  <2>1. CASE s = G
    BY <1>5, <2>1 DEF Quietly
  <2>2. CASE s # G
    BY <1>2, <2>2 DEF Quietly
  <2> QED
    BY <2>1, <2>2
<1>8. PtrMoves(p, m)
  <2>1. G \in Slots => G \in PtrsOf(p) \/ Reach(icache'[G].inum)
    BY <1>5 DEF Quietly
  <2> QED
    BY <2>1 DEF PtrMoves
<1>9. NoPanic'
  BY DEF LInv, NoPanic
<1> QED
  BY <1>4, <1>6, <1>7, <1>8, <1>9, QuietL

----------------------------------------------------------------------------
(* The cache after iget(), idup() and iunlock().                           *)

\* Nothing is done to the cache.
LEMMA QSame == ASSUME RInv, NEW p \in Procs, icache' = icache PROVE Quietly(p, Nil, {})
<1>1. \A s \in Slots : icache[s].ref \in Nat /\ s # Nil
  BY SlotsNat DEF RInv, TypeOK, CacheOK, Caches
<1>2. Nil \notin Slots
  BY SlotsNat
<1> QED
  BY <1>1, <1>2 DEF Quietly

\* What iunlock() does, slot by slot.
LEMMA UnlockEach ==
  ASSUME NEW c \in Caches, NEW t
  PROVE  \A s \in Slots : /\ iunlock(c, t)[s].ref = c[s].ref /\ iunlock(c, t)[s].inum = c[s].inum
                          /\ iunlock(c, t)[s].valid = c[s].valid /\ iunlock(c, t)[s].type = c[s].type
                          /\ iunlock(c, t)[s].nlink = c[s].nlink
                          /\ s = t => ~iunlock(c, t)[s].busy
                          /\ s # t => iunlock(c, t)[s].busy = c[s].busy
BY DEF Caches, iunlock

\* A slot is unlocked.
LEMMA QUnlock ==
  ASSUME RInv, NEW p \in Procs, NEW t \in Slots, icache' = iunlock(icache, t)
  PROVE  Quietly(p, Nil, {t})
<1>1. \A s \in Slots : icache[s].ref \in Nat /\ s # Nil
  BY SlotsNat DEF RInv, TypeOK, CacheOK, Caches
<1>2. \A s \in Slots : /\ icache'[s].ref = icache[s].ref /\ icache'[s].inum = icache[s].inum
                       /\ icache'[s].valid = icache[s].valid /\ icache'[s].type = icache[s].type
                       /\ icache'[s].nlink = icache[s].nlink
                       /\ s = t => ~icache'[s].busy
                       /\ s # t => icache'[s].busy = icache[s].busy
  <2>1. icache \in Caches
    BY Typed
  <2> QED
    BY <2>1, UnlockEach
<1>3. Nil \notin Slots
  BY SlotsNat
<1> QED
  BY <1>1, <1>2, <1>3 DEF Quietly

\* iget() of an inode with a name, in a cache c.
LEMMA GetQuiet ==
  ASSUME RInv, NEW i \in Inums
  PROVE  /\ igot(i) \in Slots /\ iget(i) \in Caches /\ iget(i)[igot(i)].inum = i
         /\ \A s \in Slots : icache[s].ref > 0 =>
              /\ iget(i)[s].ref = icache[s].ref + (IF s = igot(i) THEN 1 ELSE 0)
              /\ iget(i)[s].inum = icache[s].inum /\ iget(i)[s].valid = icache[s].valid
              /\ iget(i)[s].type = icache[s].type /\ iget(i)[s].nlink = icache[s].nlink
              /\ iget(i)[s].busy = icache[s].busy
         /\ \A s \in Slots : icache[s].ref = 0 /\ iget(i)[s].ref > 0 =>
              s = igot(i) /\ ~iget(i)[s].valid /\ ~iget(i)[s].busy
<1>1. PICK c, g : c = iget(i) /\ g = igot(i)
  OBVIOUS
<1>2. TypeOK /\ icache \in Caches
  BY DEF RInv, TypeOK, CacheOK
<1>3. /\ g \in Slots /\ CacheOK(c) /\ c[g].inum = i
      /\ \A s \in Slots : s # g => c[s] = icache[s]
      /\ Cached(i) # {} => icache[g].ref > 0 /\ c[g] = Ref(icache[g], 1)
      /\ Cached(i) = {} => icache[g].ref = 0 /\ c[g] = Fresh(i, 1)
  BY <1>1, <1>2, IgetIs, Zenon
<1>4. c \in Caches
  BY <1>3 DEF CacheOK
<1>5. \A s \in Slots : icache[s].ref \in Nat
  BY <1>2 DEF Caches
<1>6. ASSUME icache[g].ref > 0
      PROVE  /\ c[g].ref = icache[g].ref + 1 /\ c[g].inum = icache[g].inum /\ c[g].valid = icache[g].valid
             /\ c[g].type = icache[g].type /\ c[g].nlink = icache[g].nlink /\ c[g].busy = icache[g].busy
  <2>1. c[g] = Ref(icache[g], 1)
    BY <1>3, <1>6
  <2>2. icache[g] \in [inum : Inums \cup {Nil}, ref : Nat, busy : BOOLEAN, valid : BOOLEAN,
                       type : Types, nlink : Int]
    BY <1>2, <1>3 DEF Caches
  <2> QED
    BY <2>1, <2>2 DEF Ref
<1>7. icache[g].ref = 0 => ~c[g].valid /\ ~c[g].busy
  BY <1>3, <1>5 DEF Fresh
<1>8. \A s \in Slots : icache[s].ref > 0 =>
              /\ c[s].ref = icache[s].ref + (IF s = g THEN 1 ELSE 0)
              /\ c[s].inum = icache[s].inum /\ c[s].valid = icache[s].valid
              /\ c[s].type = icache[s].type /\ c[s].nlink = icache[s].nlink
              /\ c[s].busy = icache[s].busy
  BY <1>3, <1>5, <1>6
<1>9. \A s \in Slots : icache[s].ref = 0 /\ c[s].ref > 0 => s = g /\ ~c[s].valid /\ ~c[s].busy
  BY <1>3, <1>7
<1> QED
  BY <1>1, <1>3, <1>4, <1>8, <1>9

\* iget() of an inode with a name.
LEMMA QGet ==
  ASSUME RInv, NEW p \in Procs, NEW i \in Inums, Good(i), icache' = iget(i)
  PROVE  Quietly(p, igot(i), {}) /\ igot(i) \in Slots /\ icache'[igot(i)].inum = i
BY GetQuiet DEF Quietly

\* The same, and a slot is unlocked.
LEMMA QGetUnlock ==
  ASSUME RInv, NEW p \in Procs, NEW i \in Inums, Good(i), NEW t \in Slots, icache' = iunlock(iget(i), t)
  PROVE  Quietly(p, igot(i), {t}) /\ igot(i) \in Slots /\ icache'[igot(i)].inum = i
<1>1. PICK c, g : c = iget(i) /\ g = igot(i)
  OBVIOUS
<1>2. /\ g \in Slots /\ c \in Caches /\ c[g].inum = i
      /\ \A s \in Slots : icache[s].ref > 0 =>
              /\ c[s].ref = icache[s].ref + (IF s = g THEN 1 ELSE 0)
              /\ c[s].inum = icache[s].inum /\ c[s].valid = icache[s].valid
              /\ c[s].type = icache[s].type /\ c[s].nlink = icache[s].nlink
              /\ c[s].busy = icache[s].busy
      /\ \A s \in Slots : icache[s].ref = 0 /\ c[s].ref > 0 => s = g /\ ~c[s].valid /\ ~c[s].busy
  BY <1>1, GetQuiet
<1>3. \A s \in Slots : /\ icache'[s].ref = c[s].ref /\ icache'[s].inum = c[s].inum
                       /\ icache'[s].valid = c[s].valid /\ icache'[s].type = c[s].type
                       /\ icache'[s].nlink = c[s].nlink
                       /\ s = t => ~icache'[s].busy
                       /\ s # t => icache'[s].busy = c[s].busy
  <2>1. icache' = iunlock(c, t)
    BY <1>1
  <2> QED
    BY <1>2, <2>1, UnlockEach
<1>4. Quietly(p, g, {t})
  <2>1. \A s \in Slots : icache[s].ref > 0 =>
          /\ icache'[s].ref = icache[s].ref + (IF s = g THEN 1 ELSE 0)
          /\ icache'[s].inum = icache[s].inum /\ icache'[s].valid = icache[s].valid
          /\ icache'[s].type = icache[s].type /\ icache'[s].nlink = icache[s].nlink
          /\ s \in {t} => ~icache'[s].busy
          /\ s \notin {t} => icache'[s].busy = icache[s].busy
    BY <1>2, <1>3
  <2>2. \A s \in Slots : icache[s].ref = 0 /\ icache'[s].ref > 0 =>
          s = g /\ ~icache'[s].valid /\ ~icache'[s].busy
    BY <1>2, <1>3
  <2>3. Good(icache'[g].inum)
    BY <1>2, <1>3
  <2> QED
    BY <2>1, <2>2, <2>3, Zenon DEF Quietly
<1> QED
  BY <1>1, <1>2, <1>3, <1>4

\* idup() of the working directory.
LEMMA QDup == ASSUME RInv, NEW p \in Procs, icache' = idup(cwd[p]) PROVE Quietly(p, cwd[p], {})
<1>1. icache \in Caches /\ cwd[p] \in Slots
  BY Typed
<1>2. PICK g : g = cwd[p]
  OBVIOUS
<1>3. icache' = [icache EXCEPT ![g] = Ref(icache[g], 1)]
  BY <1>2 DEF idup
<1>4. icache[g] \in [inum : Inums \cup {Nil}, ref : Nat, busy : BOOLEAN, valid : BOOLEAN,
                     type : Types, nlink : Int]
  BY <1>1, <1>2 DEF Caches
<1>5. icache'[g] = Ref(icache[g], 1) /\ \A s \in Slots \ {g} : icache'[s] = icache[s]
  BY <1>1, <1>2, <1>3 DEF Caches
<1>6. /\ icache'[g].ref = icache[g].ref + 1 /\ icache'[g].inum = icache[g].inum /\ icache'[g].valid = icache[g].valid
      /\ icache'[g].type = icache[g].type /\ icache'[g].nlink = icache[g].nlink /\ icache'[g].busy = icache[g].busy
  BY <1>4, <1>5 DEF Ref
<1>7. icache[g].ref > 0
  BY <1>1, <1>2, PointedBy DEF AllPtrs, PtrsOf
<1>8. g \in PtrsOf(p)
  BY <1>2 DEF PtrsOf
<1>9. \A s \in Slots : icache[s].ref \in Nat
  BY <1>1 DEF Caches
<1>10. Quietly(p, g, {})
  BY <1>5, <1>6, <1>7, <1>8, <1>9 DEF Quietly
<1> QED
  BY <1>2, <1>10

\* The inode of a slot that the process points to stays.
LEMMA NumQuiet ==
  ASSUME RInv, NEW p \in Procs, NEW G, NEW U, Quietly(p, G, U), NEW s \in Slots, s \in PtrsOf(p)
  PROVE  icache'[s].inum = icache[s].inum /\ icache[s].inum \in Inums
<1>1. icache[s].ref > 0 /\ icache[s].inum \in Inums
  BY PointedBy DEF AllPtrs
<1> QED
  BY <1>1 DEF Quietly

\* The parts of the invariant that are about the stack of p.
LEMMA Parts ==
  ASSUME LInv, NEW p \in Procs
  PROVE  /\ RInv /\ LockInv /\ CacheInv /\ FreeInv /\ TreeInv(dinode, dents) /\ CoverInv
         /\ LockOK(pr[p]) /\ PlaceOK(pr[p], icache, dinode, dents)
         /\ pr[p] \in Stacks /\ Shape(pr[p]) /\ cwd[p] \in Slots /\ ofile[p] \in Slots \cup {Nil}
<1>1. /\ RInv /\ LockInv /\ CacheInv /\ FreeInv /\ TreeInv(dinode, dents) /\ CoverInv
      /\ LockOK(pr[p]) /\ PlaceOK(pr[p], icache, dinode, dents)
  BY DEF LInv, LockInv, PlaceInv
<1> QED
  BY <1>1, Typed

\* The stack a step leaves is one of p alone.
LEMMA SetStep ==
  ASSUME RInv, RInv', NEW p \in Procs, NEW m, Set(p, m),
         \A q \in Procs \ {p} : cwd'[q] = cwd[q] /\ ofile'[q] = ofile[q]
  PROVE  StepOf(p, m) /\ m \in Stacks /\ Shape(m)
<1>1. pr' = [pr EXCEPT ![p] = m]
  BY DEF Set
<1>2. pr'[p] = m
  BY <1>1 DEF RInv, TypeOK
<1>3. m \in Stacks /\ Shape(m)
  BY <1>2 DEF RInv, TypeOK
<1> QED
  BY <1>1, <1>3 DEF StepOf

\* A locked slot agrees with the disk.
LEMMA LockedIs ==
  ASSUME LInv, NEW p \in Procs, NEW s \in Slots, s \in pr[p].lk
  PROVE  /\ icache[s].ref > 0 /\ icache[s].busy /\ icache[s].valid /\ Num(s) \in Inums
         /\ dinode[Num(s)].type = icache[s].type /\ dinode[Num(s)].nlink = icache[s].nlink
         /\ dinode[Num(s)].type # "0"
<1>1. RInv /\ LockInv /\ CacheInv /\ LockOK(pr[p])
  BY Parts
<1>2. icache[s].ref > 0 /\ icache[s].busy /\ icache[s].valid /\ Num(s) \in Inums
  BY <1>1, HolderIs DEF Holder
<1>3. ~Gone(s)
  BY <1>1, HolderOne DEF Gone, Holder, FreesIt, LockOK
<1> QED
  BY <1>1, <1>2, <1>3 DEF CacheInv

----------------------------------------------------------------------------
(* Steps that leave the disk alone.                                        *)

\* At un_ip the directory and the file are different inodes.
LEMMA UnApart ==
  ASSUME LInv, NEW p \in Procs, Place(pr[p]) = "un_ip"
  PROVE  pr[p].ip # pr[p].dp
<1>1. /\ TreeInv(dinode, dents) /\ pr[p].name \in Names
      /\ dents[icache[pr[p].dp].inum][pr[p].name] = icache[pr[p].ip].inum
  BY Parts DEF PlaceOK, DpAt
<1>2. icache[pr[p].dp].inum \in Inums
  <2>1. Place(pr[p]) \in DpAt
    BY DEF DpAt
  <2> QED
    BY <2>1, Parts, StackIs, PointedBy
<1> QED
  BY <1>1, <1>2 DEF TreeInv

\* The pointer ip is put.
LEMMA PutIpL ==
  ASSUME LInv, RInv', NEW p \in Procs, NEW k \in {"user", "un_ne"},
         pr[p].pc \in {"op", "mk_end", "ln", "cr_found", "un_ip", "ln_end"}, (k = "un_ne") <=> (pr[p].pc = "un_ip"),
         Set(p, Iput([pr[p] EXCEPT !.ip = Nil], pr[p].ip, k)),
         \/ icache' = iunlock(icache, pr[p].ip) /\ pr[p].ip \in pr[p].lk
         \/ icache' = icache /\ pr[p].ip \notin pr[p].lk,
         UNCHANGED <<dinode, dents, cwd, ofile, panicked>>
  PROVE  LInv'
<1> DEFINE r == pr[p]
<1>1. PICK m : m = Iput([r EXCEPT !.ip = Nil], r.ip, k)
  OBVIOUS
<1>2. /\ RInv /\ LockOK(r) /\ PlaceOK(r, icache, dinode, dents) /\ r \in Stacks
  BY Parts
<1>3. StepOf(p, m) /\ m \in Stacks
  BY <1>1, <1>2, SetStep
<1>4. /\ m.pc = "iput" /\ m.k = k /\ m.cur = r.cur /\ m.dp = r.dp /\ m.ip = Nil /\ m.arg = r.ip
      /\ m.lk = r.lk \ {r.ip} /\ m.path = r.path /\ m.name = r.name /\ m.op = r.op
  BY <1>1, <1>2 DEF Iput, Stacks
<1>5. Place(r) = r.pc /\ Place(m) = k /\ r.pc \notin Puts /\ r.ip \in Slots
  BY <1>2, <1>4, StackIs DEF Place, Puts, IpAt
<1>6. PICK U : Quietly(p, Nil, U) /\ U \subseteq r.lk /\ m.lk = r.lk \ U
  <2>1. CASE icache' = iunlock(icache, r.ip) /\ r.ip \in r.lk
    <3>1. Quietly(p, Nil, {r.ip})
      BY <1>2, <1>5, <2>1, QUnlock
    <3> QED
      BY <1>4, <2>1, <3>1
  <2>2. CASE icache' = icache /\ r.ip \notin r.lk
    <3>1. Quietly(p, Nil, {})
      BY <1>2, <2>2, QSame
    <3> QED
      BY <1>4, <2>2, <3>1
  <2> QED
    BY <2>1, <2>2
<1>7. LockOK(m)
  <2>1. k = "un_ne" => r.dp \in r.lk /\ r.ip # r.dp
    BY <1>2, <1>5, UnApart DEF LockOK
  <2> QED
    BY <1>2, <1>4, <1>5, <2>1 DEF LockOK, DpAt, IpLock
<1>8. PlaceOK(m, icache', dinode, dents)
  <2>1. k = "un_ne" => icache'[r.dp].inum = icache[r.dp].inum
    <3>1. k = "un_ne" => Place(r) \in DpAt
      BY <1>5 DEF DpAt
    <3> QED
      BY <1>2, <1>6, <3>1, StackIs, NumQuiet DEF PtrsOf
  <2>2. ~Linking(m)
    BY <1>5 DEF Linking
  <2> QED
    BY <1>2, <1>4, <1>5, <2>1, <2>2 DEF PlaceOK, DpAt
<1>9. ~Owes(m) /\ ~Owes(r)
  BY <1>5 DEF Owes, Linking
<1>10. \A s \in Slots : s \in {m.cur, m.ip, m.dp, m.arg, cwd'[p], ofile'[p]} => s \in PtrsOf(p) \/ s = Nil
  BY <1>4 DEF PtrsOf
<1>11. pr[p].pc \notin Puts /\ m.pc \notin {"iput_free", "iput_done", "cr_new"}
  BY <1>4, <1>5
<1> QED
  BY <1>3, <1>6, <1>7, <1>8, <1>9, <1>10, <1>11, EasyL

\* The pointer dp is put.
LEMMA PutDpL ==
  ASSUME LInv, RInv', NEW p \in Procs, NEW k \in {"user", "ln_bad"},
         pr[p].pc \in {"un_dp", "un_ne", "ln_exists"}, (k = "ln_bad") <=> (pr[p].pc = "ln_exists"),
         Set(p, Iput([pr[p] EXCEPT !.dp = Nil], pr[p].dp, k)),
         icache' = iunlock(icache, pr[p].dp), pr[p].dp \in pr[p].lk,
         UNCHANGED <<dinode, dents, cwd, ofile, panicked>>
  PROVE  LInv'
<1> DEFINE r == pr[p]
<1>1. PICK m : m = Iput([r EXCEPT !.dp = Nil], r.dp, k)
  OBVIOUS
<1>2. /\ RInv /\ LockOK(r) /\ PlaceOK(r, icache, dinode, dents) /\ r \in Stacks
  BY Parts
<1>3. StepOf(p, m) /\ m \in Stacks
  BY <1>1, <1>2, SetStep
<1>4. /\ m.pc = "iput" /\ m.k = k /\ m.cur = r.cur /\ m.dp = Nil /\ m.ip = r.ip /\ m.arg = r.dp
      /\ m.lk = r.lk \ {r.dp} /\ m.path = r.path /\ m.name = r.name /\ m.op = r.op
  BY <1>1, <1>2 DEF Iput, Stacks
<1>5. Place(r) = r.pc /\ Place(m) = k /\ r.pc \notin Puts /\ r.dp \in Slots
  BY <1>2, <1>4, StackIs DEF Place, Puts, DpAt
<1>6. Quietly(p, Nil, {r.dp})
  BY <1>2, <1>5, QUnlock
<1>7. LockOK(m)
  <2>1. m.lk = {}
    BY <1>2, <1>4, <1>5 DEF LockOK, IpLock
  <2> QED
    BY <1>4, <1>5, <2>1 DEF LockOK
<1>8. (Owes(m) <=> Owes(r)) /\ (Linking(m) => Linking(r)) /\ (Linking(m) => r.ip \in Slots)
  BY <1>2, <1>5, StackIs DEF Owes, Linking
<1>9. PlaceOK(m, icache', dinode, dents)
  <2>1. Linking(m) => icache'[r.ip].inum = icache[r.ip].inum
    BY <1>2, <1>6, <1>8, NumQuiet DEF PtrsOf
  <2> QED
    BY <1>2, <1>4, <1>5, <1>8, <2>1 DEF PlaceOK, DpAt
<1>10. \A s \in Slots : s \in {m.cur, m.ip, m.dp, m.arg, cwd'[p], ofile'[p]} => s \in PtrsOf(p) \/ s = Nil
  BY <1>4 DEF PtrsOf
<1>11. /\ pr[p].pc \notin Puts /\ m.pc \notin {"iput_free", "iput_done", "cr_new"}
       /\ {r.dp} \subseteq r.lk /\ m.lk = r.lk \ {r.dp} /\ m.ip = r.ip
  BY <1>4, <1>5
<1> QED
  BY <1>3, <1>6, <1>7, <1>9, <1>8, <1>10, <1>11, EasyL

\* Where a process is past ilock(), it has the lock.
LEMMA AtIs ==
  ASSUME LInv, NEW p \in Procs, NEW l, At(p, l)
  PROVE  /\ pr[p].pc = l /\ panicked = "none"
         /\ l = "nx" /\ pr[p].path # <<>> => pr[p].cur \in pr[p].lk /\ pr[p].cur \in Slots
         /\ l \in {"cr_dp", "un_dp", "ln_dp"} => pr[p].dp \in pr[p].lk /\ pr[p].dp \in Slots
         /\ l \in {"op", "cd", "ln", "ln_bad", "cr_new", "cr_found", "un_ip"} =>
              pr[p].ip \in pr[p].lk /\ pr[p].ip \in Slots
<1>1. pr[p].pc = l /\ panicked = "none" /\ ~Wants(p)
  BY DEF At, Running
<1>2. RInv
  BY Parts
<1>3. l \notin Puts => Place(pr[p]) = l
  BY <1>1 DEF Place
<1>4. ASSUME l = "nx", pr[p].path # <<>> PROVE pr[p].cur \in pr[p].lk /\ pr[p].cur \in Slots
  <2>1. Target(p) = pr[p].cur
    BY <1>1, <1>4 DEF Target
  <2>2. pr[p].cur \in Slots
    BY <1>2, <1>3, <1>4, StackIs DEF Puts
  <2> QED
    BY <1>1, <2>1, <2>2, SlotsNat DEF Wants
<1>5. ASSUME l \in {"cr_dp", "un_dp", "ln_dp"} PROVE pr[p].dp \in pr[p].lk /\ pr[p].dp \in Slots
  <2>1. Target(p) = pr[p].dp
    BY <1>1, <1>5 DEF Target
  <2>2. pr[p].dp \in Slots
    BY <1>2, <1>3, <1>5, StackIs DEF Puts, DpAt
  <2> QED
    BY <1>1, <2>1, <2>2, SlotsNat DEF Wants
<1>6. ASSUME l \in {"op", "cd", "ln", "ln_bad", "cr_new", "cr_found", "un_ip"}
      PROVE  pr[p].ip \in pr[p].lk /\ pr[p].ip \in Slots
  <2>1. Target(p) = pr[p].ip
    BY <1>1, <1>6 DEF Target
  <2>2. pr[p].ip \in Slots
    BY <1>2, <1>3, <1>6, StackIs DEF Puts, IpAt
  <2> QED
    BY <1>1, <2>1, <2>2, SlotsNat DEF Wants
<1> QED
  BY <1>1, <1>4, <1>5, <1>6

\* The steps that put a pointer and are done.
LEMMA PuttingL ==
  ASSUME LInv, RInv', NEW p \in Procs,
         MkdirEnd(p) \/ UnFail(p) \/ UnNotEmpty(p) \/ UnNotEmptyEnd(p) \/ LnFail(p) \/ LnExistsEnd(p) \/ LnEnd(p)
  PROVE  LInv'
<1>1. LockOK(pr[p]) /\ (pr[p].pc \in Inner => Place(pr[p]) = pr[p].pc)
  BY Parts DEF Place, Puts, Inner, DpAt, IpAt
<1>2. CASE MkdirEnd(p)
  <2>1. pr[p].pc = "mk_end" /\ pr[p].ip \in pr[p].lk
    BY <1>1, <1>2 DEF MkdirEnd, Running, LockOK, Inner, IpAt
  <2> QED
    BY <1>2, <2>1, PutIpL DEF MkdirEnd
<1>3. CASE UnFail(p)
  <2>1. pr[p].pc = "un_dp" /\ pr[p].dp \in pr[p].lk
    BY <1>3, AtIs DEF UnFail
  <2> QED
    BY <1>3, <2>1, PutDpL DEF UnFail
<1>4. CASE UnNotEmpty(p)
  <2>1. pr[p].pc = "un_ip" /\ pr[p].ip \in pr[p].lk
    BY <1>4, AtIs DEF UnNotEmpty
  <2> QED
    BY <1>4, <2>1, PutIpL DEF UnNotEmpty
<1>5. CASE UnNotEmptyEnd(p)
  <2>1. pr[p].pc = "un_ne" /\ pr[p].dp \in pr[p].lk
    BY <1>1, <1>5 DEF UnNotEmptyEnd, Running, LockOK, Inner, DpAt
  <2> QED
    BY <1>5, <2>1, PutDpL DEF UnNotEmptyEnd
<1>6. CASE LnFail(p)
  <2>1. pr[p].pc = "ln" /\ pr[p].ip \in pr[p].lk
    BY <1>6, AtIs DEF LnFail
  <2> QED
    BY <1>6, <2>1, PutIpL DEF LnFail
<1>7. CASE LnExistsEnd(p)
  <2>1. pr[p].pc = "ln_exists" /\ pr[p].dp \in pr[p].lk
    BY <1>1, <1>7 DEF LnExistsEnd, Running, LockOK, Inner, DpAt
  <2> QED
    BY <1>7, <2>1, PutDpL DEF LnExistsEnd
<1>8. CASE LnEnd(p)
  <2>1. pr[p].pc = "ln_end" /\ pr[p].ip \notin pr[p].lk
    BY <1>1, <1>8 DEF LnEnd, Running, LockOK, Inner, IpAt, DpAt, IpLock
  <2> QED
    BY <1>8, <2>1, PutIpL DEF LnEnd
<1> QED
  BY <1>2, <1>3, <1>4, <1>5, <1>6, <1>7, <1>8

\* The call that namex() works for, and where it goes on.
LEMMA CallIs ==
  ASSUME RInv, NEW p \in Procs, pr[p].pc = "nx"
  PROVE  /\ Place(pr[p]) = "nx" /\ pr[p].op \in Calls /\ pr[p].cur \in Slots /\ pr[p].dp = Nil
         /\ pr[p].ip # Nil => pr[p].op = "link" /\ pr[p].ip \in Slots
         /\ Failed(pr[p]) \in {"user", "ln_bad"} /\ (Failed(pr[p]) = "ln_bad" <=> pr[p].ip # Nil)
         /\ Parent(pr[p]) => /\ Found(pr[p]) \in {"un_dp", "cr_dp", "ln_dp"}
                             /\ Found(pr[p]) = "ln_dp" <=> pr[p].ip # Nil
                             /\ Found(pr[p]) = "cr_dp" => pr[p].op \in {"creat", "mkdir"}
         /\ ~Parent(pr[p]) => Found(pr[p]) \in {"op", "cd", "ln"} /\ pr[p].ip = Nil
         /\ (Linking(pr[p]) <=> pr[p].ip # Nil) /\ (Owes(pr[p]) <=> pr[p].ip # Nil)
<1>1. pr[p] \in Stacks /\ Shape(pr[p])
  BY Typed
<1>2. Place(pr[p]) = "nx"
  BY DEF Place, Puts
<1>3. /\ pr[p].op \in Calls /\ pr[p].cur \in Slots /\ pr[p].dp = Nil
      /\ pr[p].ip # Nil => pr[p].op = "link" /\ pr[p].ip \in Slots
  BY <1>1, <1>2 DEF Shape, Holds, Stacks, DpAt, IpAt
<1>4. Failed(pr[p]) \in {"user", "ln_bad"} /\ (Failed(pr[p]) = "ln_bad" <=> pr[p].ip # Nil)
  BY <1>3 DEF Failed
<1>5. ASSUME Parent(pr[p])
      PROVE  /\ Found(pr[p]) \in {"un_dp", "cr_dp", "ln_dp"}
             /\ Found(pr[p]) = "ln_dp" <=> pr[p].ip # Nil
             /\ Found(pr[p]) = "cr_dp" => pr[p].op \in {"creat", "mkdir"}
  BY <1>3, <1>5 DEF Found, Parent
<1>6. ASSUME ~Parent(pr[p]) PROVE Found(pr[p]) \in {"op", "cd", "ln"} /\ pr[p].ip = Nil
  BY <1>3, <1>6 DEF Found, Parent, Calls
<1>7. (Linking(pr[p]) <=> pr[p].ip # Nil) /\ (Owes(pr[p]) <=> pr[p].ip # Nil)
  BY <1>2 DEF Linking, Owes
<1> QED
  BY <1>2, <1>3, <1>4, <1>5, <1>6, <1>7

\* namex() fails, or finds nothing to look up: cur is put.
LEMMA PutCurL ==
  ASSUME LInv, RInv', NEW p \in Procs, pr[p].pc = "nx",
         Set(p, Iput([pr[p] EXCEPT !.cur = Nil], pr[p].cur, Failed(pr[p]))),
         \/ icache' = iunlock(icache, pr[p].cur) /\ pr[p].cur \in pr[p].lk
         \/ icache' = icache /\ pr[p].cur \notin pr[p].lk,
         UNCHANGED <<dinode, dents, cwd, ofile, panicked>>
  PROVE  LInv'
<1> DEFINE r == pr[p]
           k == Failed(r)
<1>1. PICK m : m = Iput([r EXCEPT !.cur = Nil], r.cur, k)
  OBVIOUS
<1>2. /\ RInv /\ LockOK(r) /\ PlaceOK(r, icache, dinode, dents) /\ r \in Stacks
  BY Parts
<1>3. StepOf(p, m) /\ m \in Stacks
  BY <1>1, <1>2, SetStep
<1>4. /\ m.pc = "iput" /\ m.k = k /\ m.cur = Nil /\ m.dp = r.dp /\ m.ip = r.ip /\ m.arg = r.cur
      /\ m.lk = r.lk \ {r.cur} /\ m.path = r.path /\ m.name = r.name /\ m.op = r.op
  BY <1>1, <1>2 DEF Iput, Stacks
<1>a. /\ Place(r) = "nx" /\ r.cur \in Slots /\ (r.ip # Nil => r.ip \in Slots)
      /\ k \in {"user", "ln_bad"} /\ (k = "ln_bad" <=> r.ip # Nil)
      /\ (Linking(r) <=> r.ip # Nil) /\ (Owes(r) <=> r.ip # Nil)
  BY <1>2, CallIs
<1> HIDE DEF k
<1>5. Place(m) = k /\ r.pc \notin Puts
  BY <1>4 DEF Place, Puts
<1>6. PICK U : Quietly(p, Nil, U) /\ U \subseteq r.lk /\ m.lk = r.lk \ U
  <2>1. CASE icache' = iunlock(icache, r.cur) /\ r.cur \in r.lk
    <3>1. Quietly(p, Nil, {r.cur})
      BY <1>2, <1>a, <2>1, QUnlock
    <3> QED
      BY <1>4, <2>1, <3>1
  <2>2. CASE icache' = icache /\ r.cur \notin r.lk
    <3>1. Quietly(p, Nil, {})
      BY <1>2, <2>2, QSame
    <3> QED
      BY <1>4, <2>2, <3>1
  <2> QED
    BY <2>1, <2>2
<1>7. LockOK(m)
  <2>1. m.lk = {}
    BY <1>2, <1>4, <1>a DEF LockOK, DpAt, IpLock
  <2> QED
    BY <1>4, <1>5, <1>a, <2>1 DEF LockOK
<1>8. (Owes(m) <=> r.ip # Nil) /\ (Linking(m) <=> r.ip # Nil)
  BY <1>4, <1>5, <1>a DEF Owes, Linking
<1>9. PlaceOK(m, icache', dinode, dents)
  <2>1. r.ip # Nil => icache'[r.ip].inum = icache[r.ip].inum
    BY <1>2, <1>6, <1>a, NumQuiet DEF PtrsOf
  <2> QED
    BY <1>2, <1>4, <1>5, <1>a, <1>8, <2>1 DEF PlaceOK, DpAt
<1>10. \A s \in Slots : s \in {m.cur, m.ip, m.dp, m.arg, cwd'[p], ofile'[p]} => s \in PtrsOf(p) \/ s = Nil
  BY <1>4 DEF PtrsOf
<1>11. /\ pr[p].pc \notin Puts /\ m.pc \notin {"iput_free", "iput_done", "cr_new"}
       /\ (Owes(m) <=> Owes(pr[p])) /\ m.ip = pr[p].ip
  BY <1>4, <1>5, <1>8, <1>a
<1> QED
  BY <1>3, <1>6, <1>7, <1>9, <1>10, <1>11, EasyL

\* The end of a path.
LEMMA NxEndL == ASSUME LInv, RInv', NEW p \in Procs, NxEnd(p) PROVE LInv'
<1> DEFINE r == pr[p]
<1>1. /\ r.pc = "nx" /\ r.path = <<>> /\ UNCHANGED <<icache, dinode, dents, cwd, ofile, panicked>>
      /\ Set(p, IF Parent(r) THEN Iput([r EXCEPT !.cur = Nil], r.cur, Failed(r))
                ELSE [r EXCEPT !.pc = Found(r), !.ip = r.cur, !.cur = Nil])
  BY DEF NxEnd, Running
<1>2. /\ RInv /\ LockOK(r) /\ PlaceOK(r, icache, dinode, dents) /\ r \in Stacks
  BY Parts
<1>a. /\ Place(r) = "nx" /\ r.cur \in Slots
      /\ ~Parent(r) => Found(r) \in {"op", "cd", "ln"} /\ r.ip = Nil /\ ~Owes(r)
  BY <1>1, <1>2, CallIs
<1>b. r.lk = {}
  BY <1>1, <1>2, <1>a DEF LockOK, DpAt, IpLock
<1>3. CASE Parent(r)
  <2>1. Set(p, Iput([r EXCEPT !.cur = Nil], r.cur, Failed(r))) /\ r.cur \notin r.lk
    BY <1>1, <1>3, <1>b
  <2> QED
    BY <1>1, <2>1, PutCurL
<1>4. CASE ~Parent(r)
  <2> DEFINE k == Found(r)
  <2>1. k \in {"op", "cd", "ln"} /\ r.ip = Nil /\ ~Owes(r)
    BY <1>a, <1>4
  <2>2. PICK m : m = [r EXCEPT !.pc = k, !.ip = r.cur, !.cur = Nil]
    OBVIOUS
  <2>3. StepOf(p, m) /\ m \in Stacks
    BY <1>1, <1>2, <1>4, <2>2, SetStep
  <2> HIDE DEF k
  <2>4. /\ m.pc = k /\ m.k = r.k /\ m.cur = Nil /\ m.dp = r.dp /\ m.ip = r.cur /\ m.arg = r.arg
        /\ m.lk = r.lk /\ m.path = r.path /\ m.name = r.name /\ m.op = r.op
    BY <1>2, <2>2 DEF Stacks
  <2>5. Place(m) = k /\ r.pc \notin Puts /\ r.arg = Nil
    BY <1>1, <2>1, <2>4, Parts DEF Place, Puts, Shape
  <2>6. Quietly(p, Nil, {})
    BY <1>1, <1>2, QSame
  <2>7. LockOK(m)
    BY <1>b, <2>1, <2>4, <2>5 DEF LockOK
  <2>8. ~Linking(m) /\ ~Owes(m)
    BY <2>1, <2>5 DEF Linking, Owes
  <2>9. PlaceOK(m, icache', dinode, dents)
    BY <1>2, <2>1, <2>4, <2>5, <2>8 DEF PlaceOK, DpAt
  <2>10. \A s \in Slots : s \in {m.cur, m.ip, m.dp, m.arg, cwd'[p], ofile'[p]} => s \in PtrsOf(p) \/ s = Nil
    BY <1>1, <2>4, <2>5 DEF PtrsOf
  <2>11. /\ r.pc \notin Puts /\ m.pc \notin {"iput_free", "iput_done", "cr_new"}
         /\ {} \subseteq r.lk /\ m.lk = r.lk \ {} /\ (Owes(m) <=> Owes(r)) /\ (Owes(m) => m.ip = r.ip)
    BY <2>1, <2>4, <2>5, <2>8
  <2> QED
    BY <1>1, <2>3, <2>6, <2>7, <2>9, <2>10, <2>11, EasyL
<1> QED
  BY <1>3, <1>4

\* A path element that is no directory or not found.
LEMMA NxFailL == ASSUME LInv, RInv', NEW p \in Procs, NxFail(p) PROVE LInv'
<1>1. pr[p].pc = "nx" /\ pr[p].cur \in pr[p].lk
  BY AtIs DEF NxFail
<1> QED
  BY <1>1, PutCurL DEF NxFail

\* The elements of a path of names.
LEMMA NamesOf ==
  ASSUME NEW q \in Seq(Names), q # <<>>
  PROVE  Head(q) \in Names /\ Tail(q) \in Seq(Names)
OBVIOUS

\* The parent directory of the last element.
LEMMA NxParentL == ASSUME LInv, RInv', NEW p \in Procs, NxParent(p) PROVE LInv'
<1> DEFINE r == pr[p]
           k == Found(r)
<1>1. /\ r.path # <<>> /\ IsDir(r.cur) /\ Parent(r) /\ icache' = iunlock(icache, r.cur)
      /\ Set(p, [r EXCEPT !.pc = Found(r), !.dp = r.cur, !.cur = Nil, !.name = Head(r.path),
                          !.path = <<>>, !.lk = r.lk \ {r.cur}])
      /\ UNCHANGED <<dinode, dents, cwd, ofile, panicked>>
  BY Zenon DEF NxParent, LastOne
<1>b. r.pc = "nx" /\ r.cur \in r.lk /\ r.cur \in Slots
  BY AtIs DEF NxParent
<1>2. /\ RInv /\ LockOK(r) /\ PlaceOK(r, icache, dinode, dents) /\ r \in Stacks
  BY Parts
<1>a. /\ Place(r) = "nx" /\ k \in {"un_dp", "cr_dp", "ln_dp"} /\ (k = "ln_dp" <=> r.ip # Nil)
      /\ k = "cr_dp" => r.op \in {"creat", "mkdir"}
      /\ (Linking(r) <=> r.ip # Nil) /\ (Owes(r) <=> r.ip # Nil) /\ (r.ip # Nil => r.ip \in Slots)
  BY <1>1, <1>2, <1>b, CallIs
<1>c. Head(r.path) \in Names
  BY <1>1, <1>2, NamesOf DEF PlaceOK
<1>d. dinode[icache[r.cur].inum].type = "DIR"
  BY <1>1, <1>b, LockedIs DEF IsDir, Num
<1>3. PICK n : n = Head(r.path)
  OBVIOUS
<1>4. PICK m : m = [r EXCEPT !.pc = k, !.dp = r.cur, !.cur = Nil, !.name = n, !.path = <<>>,
                             !.lk = r.lk \ {r.cur}]
  OBVIOUS
<1>5. StepOf(p, m) /\ m \in Stacks
  BY <1>1, <1>3, <1>2, <1>4, SetStep
<1> HIDE DEF k
<1>6. /\ m.pc = k /\ m.k = r.k /\ m.cur = Nil /\ m.dp = r.cur /\ m.ip = r.ip /\ m.arg = r.arg
      /\ m.lk = r.lk \ {r.cur} /\ m.path = <<>> /\ m.name = n /\ m.op = r.op
  BY <1>2, <1>4 DEF Stacks
<1>7. Place(m) = k /\ r.pc \notin Puts /\ r.arg = Nil
  BY <1>6, <1>a, <1>b, Parts DEF Place, Puts, Shape
<1>8. Quietly(p, Nil, {r.cur})
  BY <1>1, <1>2, <1>b, QUnlock
<1>9. LockOK(m)
  <2>1. m.lk = {}
    BY <1>2, <1>6, <1>a DEF LockOK, DpAt, IpLock
  <2> QED
    BY <1>6, <1>7, <1>a, <2>1 DEF LockOK
<1>10. (Owes(m) <=> r.ip # Nil) /\ (Linking(m) <=> r.ip # Nil)
  BY <1>6, <1>7, <1>a DEF Owes, Linking
<1>11. PlaceOK(m, icache', dinode, dents)
  <2>1. r.ip # Nil => icache'[r.ip].inum = icache[r.ip].inum
    BY <1>2, <1>8, <1>a, NumQuiet DEF PtrsOf
  <2>2. icache'[r.cur].inum = icache[r.cur].inum
    BY <1>2, <1>8, <1>b, NumQuiet DEF PtrsOf
  <2>3. m.path \in Seq(Names) /\ m.name \in Names
    BY <1>3, <1>6, <1>c
  <2> QED
    BY <1>2, <1>6, <1>7, <1>a, <1>d, <1>10, <2>1, <2>2, <2>3 DEF PlaceOK
<1>12. \A s \in Slots : s \in {m.cur, m.ip, m.dp, m.arg, cwd'[p], ofile'[p]} => s \in PtrsOf(p) \/ s = Nil
  BY <1>1, <1>6, <1>7 DEF PtrsOf
<1>13. /\ r.pc \notin Puts /\ m.pc \notin {"iput_free", "iput_done", "cr_new"}
       /\ {r.cur} \subseteq r.lk /\ m.lk = r.lk \ {r.cur} /\ (Owes(m) <=> Owes(r)) /\ m.ip = r.ip
  BY <1>6, <1>7, <1>10, <1>a, <1>b
<1> QED
  BY <1>1, <1>5, <1>8, <1>9, <1>11, <1>12, <1>13, EasyL

\* What a lookup by name returns.
LEMMA NameLeads ==
  ASSUME LInv, NEW p \in Procs, NEW s \in Slots, s \in PtrsOf(p), NEW n \in Names, Look(s, n) # Nil
  PROVE  Look(s, n) \in Inums /\ Good(Look(s, n))
<1>1. RInv /\ CoverInv /\ TreeInv(dinode, dents) /\ n \in Elems
  BY Parts DEF Elems
<1>2. icache[s].inum \in Inums
  BY <1>1, PointedBy DEF AllPtrs
<1>3. dents[icache[s].inum][n] \in Inums
  BY <1>1, <1>2 DEF RInv, TypeOK, Look
<1> QED
  BY <1>1, <1>2, <1>3, NamedGood DEF Look

\* The next element of a path.
LEMMA NxStepL == ASSUME LInv, RInv', NEW p \in Procs, NxStep(p) PROVE LInv'
<1> DEFINE r == pr[p]
<1>b. r.pc = "nx" /\ r.cur \in r.lk /\ r.cur \in Slots /\ r.path # <<>>
  BY AtIs DEF NxStep
<1>1. /\ RInv /\ LockOK(r) /\ PlaceOK(r, icache, dinode, dents) /\ r \in Stacks
  BY Parts
<1>c. Head(r.path) \in Names /\ Tail(r.path) \in Seq(Names)
  BY <1>1, <1>b, NamesOf DEF PlaceOK
<1>d. PICK i : i = Look(r.cur, Head(r.path))
  OBVIOUS
<1>e. PICK rest : rest = Tail(r.path)
  OBVIOUS
<1>2. /\ i # Nil /\ icache' = iunlock(iget(i), r.cur)
      /\ Set(p, Iput([r EXCEPT !.cur = igot(i), !.path = rest], r.cur, "nx"))
      /\ UNCHANGED <<dinode, dents, cwd, ofile, panicked>>
  BY <1>d, <1>e DEF NxStep
<1>3. i \in Inums /\ Good(i)
  BY <1>2, <1>b, <1>c, <1>d, NameLeads DEF PtrsOf
<1>g. PICK g : g = igot(i)
  OBVIOUS
<1>4. PICK m : m = Iput([r EXCEPT !.cur = g, !.path = rest], r.cur, "nx")
  OBVIOUS
<1>5. StepOf(p, m) /\ m \in Stacks
  BY <1>2, <1>1, <1>4, <1>g, SetStep
<1>6. Quietly(p, g, {r.cur}) /\ g \in Slots
  BY <1>2, <1>3, <1>1, <1>b, <1>g, QGetUnlock
<1>7. /\ m.pc = "iput" /\ m.k = "nx" /\ m.cur = g /\ m.dp = r.dp /\ m.ip = r.ip /\ m.arg = r.cur
      /\ m.lk = r.lk \ {r.cur} /\ m.path = rest /\ m.name = r.name /\ m.op = r.op
  BY <1>1, <1>4 DEF Stacks, Iput
<1>a. /\ Place(r) = "nx" /\ (Linking(r) <=> r.ip # Nil) /\ (Owes(r) <=> r.ip # Nil)
      /\ (r.ip # Nil => r.ip \in Slots)
  BY <1>1, <1>b, CallIs
<1>8. Place(m) = "nx" /\ r.pc \notin Puts
  BY <1>7, <1>b DEF Place, Puts
<1>9. LockOK(m)
  <2>1. m.lk = {}
    BY <1>1, <1>7, <1>a DEF LockOK, DpAt, IpLock
  <2> QED
    BY <1>7, <1>8, <2>1 DEF LockOK
<1>10. (Owes(m) <=> r.ip # Nil) /\ (Linking(m) <=> r.ip # Nil)
  BY <1>7, <1>8 DEF Owes, Linking
<1>11. PlaceOK(m, icache', dinode, dents)
  <2>1. r.ip # Nil => icache'[r.ip].inum = icache[r.ip].inum
    BY <1>1, <1>6, <1>a, NumQuiet DEF PtrsOf
  <2>2. m.path \in Seq(Names)
    BY <1>c, <1>e, <1>7
  <2> QED
    BY <1>1, <1>7, <1>8, <1>a, <1>10, <2>1, <2>2 DEF PlaceOK, DpAt
<1>12. \A s \in Slots : s \in {m.cur, m.ip, m.dp, m.arg, cwd'[p], ofile'[p]} => s \in PtrsOf(p) \/ s = g
  BY <1>2, <1>7 DEF PtrsOf
<1>13. /\ r.pc \notin Puts /\ m.pc \notin {"iput_free", "iput_done", "cr_new"}
       /\ {r.cur} \subseteq r.lk /\ m.lk = r.lk \ {r.cur} /\ (Owes(m) <=> Owes(r)) /\ m.ip = r.ip
  BY <1>7, <1>8, <1>10, <1>a, <1>b
<1> QED
  BY <1>2, <1>5, <1>6, <1>9, <1>11, <1>12, <1>13, EasyL

\* What is left of a path that does not go up, once its "/" is taken off.
LEMMA PathNames ==
  ASSUME NoUp, NEW path \in Paths
  PROVE  (IF path # <<>> /\ Head(path) = "/" THEN Tail(path) ELSE path) \in Seq(Names)
<1>1. /\ path \in Seq(Elems \cup {"/"})
      /\ \A k \in DOMAIN path : (path[k] = "/" => k = 1) /\ path[k] # Up
  BY InodesAssumption DEF NoUp
<1>2. \A k \in 1 .. Len(path) : k # 1 => path[k] \in Names
  BY <1>1 DEF Elems
<1>3. CASE path # <<>> /\ Head(path) = "/"
  <2>1. /\ Tail(path) \in Seq(Elems \cup {"/"}) /\ Len(Tail(path)) = Len(path) - 1 /\ Len(path) \in Nat
        /\ \A k \in 1 .. Len(path) - 1 : Tail(path)[k] = path[k + 1]
    BY <1>1, <1>3
  <2>2. \A k \in 1 .. Len(Tail(path)) : Tail(path)[k] \in Names
    BY <1>2, <2>1
  <2>3. PICK t : t = Tail(path)
    OBVIOUS
  <2>4. t \in Seq(Elems \cup {"/"}) /\ \A k \in 1 .. Len(t) : t[k] \in Names
    BY <2>1, <2>2, <2>3
  <2>5. t \in Seq(Names)
    BY <2>4
  <2> QED
    BY <1>3, <2>3, <2>5
<1>4. CASE ~(path # <<>> /\ Head(path) = "/")
  <2>1. \A k \in 1 .. Len(path) : path[k] \in Names
    <3>1. path # <<>> => path[1] # "/"
      BY <1>1, <1>4
    <3>2. \A k \in 1 .. Len(path) : path[k] # "/"
      BY <1>1, <3>1
    <3> QED
      BY <1>1, <3>2 DEF Elems
  <2>2. path \in Seq(Names)
    BY <1>1, <2>1
  <2> QED
    BY <1>4, <2>2
<1> QED
  BY <1>3, <1>4

\* The start of namex().
LEMMA NamexL ==
  ASSUME NoUp, LInv, RInv', NEW p \in Procs, NEW r \in Stacks, NEW path \in Paths, Namex(p, r, path),
         pr[p].pc \in {"user", "ln_new"}, r.cur = Nil, r.dp = Nil, r.arg = Nil, r.ip = pr[p].ip,
         r.lk = pr[p].lk, r.k # "cr_new",
         UNCHANGED <<dinode, dents, cwd, ofile, panicked>>
  PROVE  LInv'
<1>1. RInv /\ LockOK(pr[p]) /\ PlaceOK(pr[p], icache, dinode, dents) /\ Shape(pr[p]) /\ cwd[p] \in Slots
  BY Parts
<1>2. PICK rest \in Seq(Names) : rest = IF path # <<>> /\ Head(path) = "/" THEN Tail(path) ELSE path
  BY PathNames
<1>3. PICK g : /\ g = (IF path # <<>> /\ Head(path) = "/" THEN igot(ROOTINO) ELSE cwd[p])
               /\ Quietly(p, g, {}) /\ g \in Slots
  <2>1. CASE path # <<>> /\ Head(path) = "/"
    <3>1. icache' = iget(ROOTINO)
      BY <2>1 DEF Namex
    <3>2. ROOTINO \in Inums /\ Good(ROOTINO)
      BY RootGood, Parts
    <3>3. Quietly(p, igot(ROOTINO), {}) /\ igot(ROOTINO) \in Slots
      BY <1>1, <3>1, <3>2, QGet
    <3> QED
      BY <2>1, <3>3
  <2>2. CASE ~(path # <<>> /\ Head(path) = "/")
    <3>1. icache' = idup(cwd[p])
      BY <2>2 DEF Namex
    <3>2. Quietly(p, cwd[p], {})
      BY <1>1, <3>1, QDup
    <3> QED
      BY <1>1, <2>2, <3>2
  <2> QED
    BY <2>1, <2>2
<1>4. PICK m : m = [r EXCEPT !.pc = "nx", !.cur = g, !.path = rest]
  OBVIOUS
<1>5. StepOf(p, m) /\ m \in Stacks
  <2>1. Set(p, [r EXCEPT !.pc = "nx", !.cur = IF path # <<>> /\ Head(path) = "/" THEN igot(ROOTINO) ELSE cwd[p],
                         !.path = IF path # <<>> /\ Head(path) = "/" THEN Tail(path) ELSE path])
    BY Zenon DEF Namex
  <2>2. Set(p, m)
    BY <1>2, <1>3, <1>4, <2>1, Zenon
  <2> QED
    BY <1>1, <2>2, SetStep
<1>6. /\ m.pc = "nx" /\ m.k = r.k /\ m.cur = g /\ m.dp = Nil /\ m.ip = pr[p].ip /\ m.arg = Nil
      /\ m.lk = pr[p].lk /\ m.path = rest
  BY <1>4 DEF Stacks
<1>7. Place(m) = "nx" /\ pr[p].pc \notin Puts /\ Place(pr[p]) = pr[p].pc
  BY <1>6 DEF Place, Puts
<1>8. LockOK(m)
  <2>1. m.lk = {}
    BY <1>1, <1>6, <1>7 DEF LockOK, DpAt, IpLock
  <2> QED
    BY <1>6, <1>7, <2>1 DEF LockOK
<1>9. /\ (Owes(pr[p]) <=> pr[p].ip # Nil) /\ (Owes(m) <=> pr[p].ip # Nil)
      /\ (Linking(pr[p]) <=> pr[p].ip # Nil) /\ (Linking(m) <=> pr[p].ip # Nil)
  <2>1. pr[p].ip # Nil <=> pr[p].pc = "ln_new"
    BY <1>1, <1>7, SlotsNat DEF Shape, Holds, IpAt
  <2> QED
    BY <1>6, <1>7, <2>1 DEF Owes, Linking
<1>10. PlaceOK(m, icache', dinode, dents)
  <2>1. pr[p].ip # Nil => icache'[pr[p].ip].inum = icache[pr[p].ip].inum
    BY <1>1, <1>3, <1>9, StackIs, NumQuiet DEF PtrsOf
  <2> QED
    BY <1>1, <1>2, <1>6, <1>7, <1>9, <2>1 DEF PlaceOK, DpAt
<1>11. \A s \in Slots : s \in {m.cur, m.ip, m.dp, m.arg, cwd'[p], ofile'[p]} => s \in PtrsOf(p) \/ s = g
  BY <1>6, SlotsNat DEF PtrsOf
<1>12. /\ pr[p].pc \notin Puts /\ m.pc \notin {"iput_free", "iput_done", "cr_new"}
       /\ {} \subseteq pr[p].lk /\ m.lk = pr[p].lk \ {} /\ (Owes(m) <=> Owes(pr[p])) /\ m.ip = pr[p].ip
  BY <1>6, <1>7, <1>9
<1> QED
  BY <1>3, <1>5, <1>8, <1>10, <1>11, <1>12, EasyL

\* The start of a call, and of the second half of link().
LEMMA CallL ==
  ASSUME NoUp, LInv, RInv', NEW p \in Procs,
         LnNew(p) \/ \E op \in Ops \ {"close"}, path \in Paths : Call(p, op, path)
  PROVE  LInv'
<1>1. pr[p] \in Stacks /\ Shape(pr[p]) /\ PlaceOK(pr[p], icache, dinode, dents)
  BY Parts
<1>2. CASE LnNew(p)
  <2>1. PICK new \in Paths : Namex(p, pr[p], new)
    BY <1>2 DEF LnNew
  <2>2. pr[p].pc = "ln_new" /\ pr[p].cur = Nil /\ pr[p].dp = Nil /\ pr[p].arg = Nil
    BY <1>1, <1>2 DEF LnNew, Running, Shape, Holds, Place, Puts, DpAt
  <2>3. UNCHANGED <<dinode, dents, cwd, ofile, panicked>>
    BY <1>2 DEF LnNew
  <2> QED
    BY <1>1, <2>1, <2>2, <2>3, NamexL DEF PlaceOK
<1>3. ASSUME NEW op \in Ops \ {"close"}, NEW path \in Paths, Call(p, op, path) PROVE LInv'
  <2>1. PICK r : r = [User EXCEPT !.op = op]
    OBVIOUS
  <2>2. op \in Calls
    BY InodesAssumption DEF Calls
  <2>3. /\ r \in Stacks /\ r.cur = Nil /\ r.dp = Nil /\ r.arg = Nil /\ r.ip = Nil /\ r.lk = {} /\ r.k = "user"
    BY <2>1, <2>2, UserIs DEF User, Stacks
  <2>4. pr[p] = User /\ pr[p].pc = "user"
    BY <1>1, <1>3 DEF Call, Running, Shape
  <2>5. Namex(p, r, path) /\ UNCHANGED <<dinode, dents, cwd, ofile, panicked>>
    BY <1>3, <2>1 DEF Call
  <2>6. User.ip = Nil /\ User.lk = {}
    BY DEF User
  <2> QED
    BY <2>3, <2>4, <2>5, <2>6, NamexL
<1> QED
  BY <1>2, <1>3

\* The end of open().
LEMMA OpenDoneL == ASSUME LInv, RInv', NEW p \in Procs, OpenDone(p) PROVE LInv'
<1> DEFINE r == pr[p]
           s == r.ip
           bad == (r.op = "openw" /\ IsDir(s)) \/ ofile[p] # Nil
<1>1. /\ icache' = iunlock(icache, s) /\ ofile' = IF bad THEN ofile ELSE [ofile EXCEPT ![p] = s]
      /\ Set(p, IF bad THEN Iput([r EXCEPT !.ip = Nil], s, "user") ELSE User)
      /\ UNCHANGED <<dinode, dents, cwd, panicked>>
  BY Zenon DEF OpenDone
<1>b. r.pc = "op" /\ s \in r.lk /\ s \in Slots
  BY AtIs DEF OpenDone
<1> HIDE DEF bad
<1>2. CASE bad
  BY <1>1, <1>2, <1>b, PutIpL
<1>3. CASE ~bad
  <2>1. Set(p, User) /\ ofile' = [ofile EXCEPT ![p] = s]
    BY <1>1, <1>3
  <2>2. RInv /\ LockOK(r) /\ Place(r) = "op" /\ r.pc \notin Puts /\ ofile \in [Procs -> Slots \cup {Nil}]
    BY <1>b, Parts, Typed DEF Place, Puts
  <2>3. ofile'[p] = s /\ \A q \in Procs \ {p} : ofile'[q] = ofile[q]
    BY <2>1, <2>2
  <2>4. StepOf(p, User)
    BY <1>1, <2>1, <2>2, <2>3, SetStep
  <2>5. Quietly(p, Nil, {s})
    BY <1>1, <1>b, <2>2, QUnlock
  <2>6. /\ User.pc = "user" /\ User.k = "user" /\ User.path = <<>> /\ User.lk = {}
        /\ User.cur = Nil /\ User.ip = Nil /\ User.dp = Nil /\ User.arg = Nil
    BY DEF User
  <2>7. User.lk = r.lk \ {s}
    BY <1>b, <2>2, <2>6 DEF LockOK, DpAt
  <2>8. Place(User) = "user" /\ ~Owes(User) /\ ~Linking(User) /\ ~Owes(r)
    BY <2>2, <2>6 DEF Place, Puts, Owes, Linking
  <2>9. LockOK(User)
    BY <2>6, <2>8 DEF LockOK
  <2>10. PlaceOK(User, icache', dinode, dents)
    BY <2>6, <2>8 DEF PlaceOK, DpAt
  <2>11. \A t \in Slots : t \in {User.cur, User.ip, User.dp, User.arg, cwd'[p], ofile'[p]}
                            => t \in PtrsOf(p) \/ t = Nil
    BY <1>1, <2>3, <2>6 DEF PtrsOf
  <2>12. User.pc \notin {"iput_free", "iput_done", "cr_new"} /\ {s} \subseteq r.lk
    BY <1>b, <2>6
  <2> QED
    BY <1>1, <2>2, <2>4, <2>5, <2>7, <2>8, <2>9, <2>10, <2>11, <2>12, EasyL
<1> QED
  BY <1>2, <1>3

\* A process that has nothing locked calls iput() and is done.
LEMMA LastPutL ==
  ASSUME LInv, RInv', NEW p \in Procs, NEW m, NEW U, StepOf(p, m), Quietly(p, Nil, U), pr[p].pc \notin Puts,
         m.pc = "iput", m.k = "user", m.lk = {}, m.path = pr[p].path, m.cur = Nil, m.ip = Nil, m.dp = Nil,
         \A s \in Slots : s \in {m.arg, cwd'[p], ofile'[p]} => s \in PtrsOf(p),
         U \subseteq pr[p].lk, pr[p].lk \ U = {}, ~Owes(pr[p]),
         UNCHANGED <<dinode, dents, panicked>>
  PROVE  LInv'
<1>1. Place(m) = "user"
  BY DEF Place, Puts
<1>2. ~Owes(m) /\ ~Linking(m)
  BY <1>1 DEF Owes, Linking
<1>3. LockOK(m)
  BY <1>1 DEF LockOK
<1>4. PlaceOK(m, icache', dinode, dents)
  BY <1>1, <1>2, Parts DEF PlaceOK, DpAt
<1>5. \A s \in Slots : s \in {m.cur, m.ip, m.dp, m.arg, cwd'[p], ofile'[p]} => s \in PtrsOf(p) \/ s = Nil
  BY DEF PtrsOf
<1>6. m.pc \notin {"iput_free", "iput_done", "cr_new"} /\ m.lk = pr[p].lk \ U
  OBVIOUS
<1> QED
  BY <1>2, <1>3, <1>4, <1>5, <1>6, EasyL

\* close().
LEMMA CloseL == ASSUME LInv, RInv', NEW p \in Procs, close(p) PROVE LInv'
<1> DEFINE s == ofile[p]
<1>1. PICK m : m = Iput(User, s, "user")
  OBVIOUS
<1>2. RInv /\ Shape(pr[p]) /\ s \in Slots \cup {Nil} /\ ofile \in [Procs -> Slots \cup {Nil}]
  BY Parts, Typed
<1>3. /\ pr[p] = User /\ s \in Slots /\ Set(p, m) /\ ofile' = [ofile EXCEPT ![p] = Nil]
      /\ UNCHANGED <<icache, dinode, dents, cwd, panicked>>
  BY <1>1, <1>2 DEF close, Running, Shape
<1>4. ofile'[p] = Nil /\ \A q \in Procs \ {p} : ofile'[q] = ofile[q]
  BY <1>2, <1>3
<1>5. StepOf(p, m)
  BY <1>2, <1>3, <1>4, SetStep
<1>6. /\ m.pc = "iput" /\ m.k = "user" /\ m.lk = {} /\ m.path = User.path /\ m.cur = Nil /\ m.ip = Nil
      /\ m.dp = Nil /\ m.arg = s /\ User.lk = {} /\ User.pc = "user"
  BY <1>1 DEF Iput, User
<1>7. Quietly(p, Nil, {})
  BY <1>2, <1>3, QSame
<1>8. \A t \in Slots : t \in {m.arg, cwd'[p], ofile'[p]} => t \in PtrsOf(p)
  BY <1>3, <1>4, <1>6, SlotsNat DEF PtrsOf
<1>9. ~Owes(pr[p]) /\ pr[p].pc \notin Puts
  BY <1>3, <1>6 DEF Owes, Linking, Place, Puts
<1>10. {} \subseteq pr[p].lk /\ pr[p].lk \ {} = {} /\ m.path = pr[p].path
  BY <1>3, <1>6
<1> QED
  BY <1>3, <1>5, <1>6, <1>7, <1>8, <1>9, <1>10, LastPutL

\* The end of chdir().
LEMMA ChdirDoneL == ASSUME LInv, RInv', NEW p \in Procs, ChdirDone(p) PROVE LInv'
<1> DEFINE r == pr[p]
           s == r.ip
<1>1. PICK a : a = IF IsDir(s) THEN cwd[p] ELSE s
  OBVIOUS
<1>2. PICK m : m = Iput([r EXCEPT !.ip = Nil, !.lk = {}], a, "user")
  OBVIOUS
<1>3. /\ icache' = iunlock(icache, s) /\ cwd' = IF IsDir(s) THEN [cwd EXCEPT ![p] = s] ELSE cwd
      /\ Set(p, m) /\ UNCHANGED <<dinode, dents, ofile, panicked>>
  BY <1>1, <1>2 DEF ChdirDone
<1>4. r.pc = "cd" /\ s \in r.lk /\ s \in Slots
  BY AtIs DEF ChdirDone
<1>5. RInv /\ LockOK(r) /\ Shape(r) /\ r \in Stacks /\ cwd \in [Procs -> Slots] /\ Place(r) = "cd"
  BY <1>4, Parts, Typed DEF Place, Puts
<1>6. cwd'[p] \in {cwd[p], s} /\ a \in {cwd[p], s} /\ \A q \in Procs \ {p} : cwd'[q] = cwd[q]
  BY <1>1, <1>3, <1>5
<1>7. StepOf(p, m)
  BY <1>3, <1>5, <1>6, SetStep
<1>8. /\ m.pc = "iput" /\ m.k = "user" /\ m.lk = {} /\ m.path = r.path /\ m.cur = r.cur /\ m.ip = Nil
      /\ m.dp = r.dp /\ m.arg = a
  BY <1>2, <1>5 DEF Iput, Stacks
<1>9. r.cur = Nil /\ r.dp = Nil
  BY <1>5 DEF Shape, Holds, DpAt
<1>10. Quietly(p, Nil, {s})
  BY <1>3, <1>4, <1>5, QUnlock
<1>11. \A t \in Slots : t \in {m.arg, cwd'[p], ofile'[p]} => t \in PtrsOf(p)
  BY <1>3, <1>6, <1>8 DEF PtrsOf
<1>12. ~Owes(r) /\ r.pc \notin Puts
  BY <1>4, <1>5 DEF Owes, Linking, Puts
<1>13. {s} \subseteq r.lk /\ r.lk \ {s} = {}
  BY <1>4, <1>5 DEF LockOK, DpAt
<1> QED
  BY <1>3, <1>7, <1>8, <1>9, <1>10, <1>11, <1>12, <1>13, LastPutL

\* create() of a name that exists, and its end.
LEMMA CrFoundL == ASSUME LInv, RInv', NEW p \in Procs, CrFound(p) PROVE LInv'
<1> DEFINE r == pr[p]
<1>1. r.pc = "cr_found" /\ r.ip \in r.lk /\ r.ip \in Slots /\ UNCHANGED <<dinode, dents, cwd, ofile, panicked>>
  BY AtIs DEF CrFound
<1>2. CASE Kind(r.op) = "FILE" /\ icache[r.ip].type = "FILE"
  <2>1. PICK m : m = [r EXCEPT !.pc = "op"]
    OBVIOUS
  <2>2. RInv /\ LockOK(r) /\ PlaceOK(r, icache, dinode, dents) /\ r \in Stacks
    BY Parts
  <2>3. Set(p, m) /\ icache' = icache
    BY <1>2, <2>1 DEF CrFound
  <2>4. StepOf(p, m)
    BY <1>1, <2>2, <2>3, SetStep
  <2>5. /\ m.pc = "op" /\ m.k = r.k /\ m.cur = r.cur /\ m.dp = r.dp /\ m.ip = r.ip /\ m.arg = r.arg
        /\ m.lk = r.lk /\ m.path = r.path
    BY <2>1, <2>2 DEF Stacks
  <2>6. Place(m) = "op" /\ Place(r) = "cr_found" /\ r.pc \notin Puts /\ r.arg = Nil
    BY <1>1, <2>5, Parts DEF Place, Puts, Shape
  <2>7. Quietly(p, Nil, {})
    BY <2>2, <2>3, QSame
  <2>8. LockOK(m)
    BY <1>1, <2>2, <2>5, <2>6 DEF LockOK, DpAt, IpLock
  <2>9. ~Owes(m) /\ ~Owes(r) /\ ~Linking(m)
    BY <2>6 DEF Owes, Linking
  <2>10. PlaceOK(m, icache', dinode, dents)
    BY <2>2, <2>5, <2>6, <2>9 DEF PlaceOK, DpAt
  <2>11. \A s \in Slots : s \in {m.cur, m.ip, m.dp, m.arg, cwd'[p], ofile'[p]} => s \in PtrsOf(p) \/ s = Nil
    BY <1>1, <2>5, <2>6 DEF PtrsOf
  <2>12. m.pc \notin {"iput_free", "iput_done", "cr_new"} /\ {} \subseteq r.lk /\ m.lk = r.lk \ {}
    BY <2>5
  <2> QED
    BY <1>1, <2>4, <2>6, <2>7, <2>8, <2>9, <2>10, <2>11, <2>12, EasyL
<1>3. CASE ~(Kind(r.op) = "FILE" /\ icache[r.ip].type = "FILE")
  <2>1. icache' = iunlock(icache, r.ip) /\ Set(p, Iput([r EXCEPT !.ip = Nil], r.ip, "user"))
    BY <1>3 DEF CrFound
  <2> QED
    BY <1>1, <2>1, PutIpL
<1> QED
  BY <1>2, <1>3

\* create() of a name that exists.
LEMMA CrExistsL == ASSUME LInv, RInv', NEW p \in Procs, CrExists(p) PROVE LInv'
<1> DEFINE r == pr[p]
<1>a. r.pc = "cr_dp" /\ r.dp \in r.lk /\ r.dp \in Slots
  BY AtIs DEF CrExists
<1>b. /\ RInv /\ LockOK(r) /\ PlaceOK(r, icache, dinode, dents) /\ r \in Stacks /\ Shape(r)
      /\ Place(r) = "cr_dp" /\ r.pc \notin Puts
  BY <1>a, Parts DEF Place, Puts
<1>c. PICK i, g : i = Look(r.dp, r.name) /\ g = igot(i)
  OBVIOUS
<1>d. PICK m : m = Iput([r EXCEPT !.ip = g, !.dp = Nil], r.dp, "cr_found")
  OBVIOUS
<1>1. /\ i # Nil /\ icache' = iunlock(iget(i), r.dp) /\ Set(p, m)
      /\ UNCHANGED <<dinode, dents, cwd, ofile, panicked>>
  BY <1>c, <1>d DEF CrExists
<1>2. i \in Inums /\ Good(i)
  BY <1>1, <1>a, <1>b, <1>c, NameLeads DEF PtrsOf, PlaceOK, DpAt
<1>3. StepOf(p, m)
  BY <1>1, <1>b, SetStep
<1>4. Quietly(p, g, {r.dp})
  BY <1>1, <1>2, <1>a, <1>b, <1>c, QGetUnlock
<1>5. /\ m.pc = "iput" /\ m.k = "cr_found" /\ m.cur = r.cur /\ m.dp = Nil /\ m.ip = g /\ m.arg = r.dp
      /\ m.lk = r.lk \ {r.dp} /\ m.path = r.path
  BY <1>b, <1>d DEF Stacks, Iput
<1>6. Place(m) = "cr_found"
  BY <1>5 DEF Place, Puts
<1>7. LockOK(m)
  <2>1. m.lk = {}
    BY <1>5, <1>a, <1>b DEF LockOK, IpLock
  <2> QED
    BY <1>5, <1>6, <2>1 DEF LockOK
<1>8. ~Owes(m) /\ ~Owes(r) /\ ~Linking(m)
  BY <1>6, <1>b DEF Owes, Linking
<1>9. PlaceOK(m, icache', dinode, dents)
  BY <1>b, <1>5, <1>6, <1>8 DEF PlaceOK, DpAt
<1>10. \A s \in Slots : s \in {m.cur, m.ip, m.dp, m.arg, cwd'[p], ofile'[p]} => s \in PtrsOf(p) \/ s = g
  BY <1>1, <1>5, SlotsNat DEF PtrsOf
<1>11. /\ m.pc \notin {"iput_free", "iput_done", "cr_new"} /\ {r.dp} \subseteq r.lk /\ m.lk = r.lk \ {r.dp}
  BY <1>5, <1>a
<1> QED
  BY <1>1, <1>b, <1>3, <1>4, <1>7, <1>8, <1>9, <1>10, <1>11, EasyL

\* unlink() finds the name.
LEMMA UnFoundL == ASSUME LInv, RInv', NEW p \in Procs, UnFound(p) PROVE LInv'
<1> DEFINE r == pr[p]
<1>a. r.pc = "un_dp" /\ r.dp \in r.lk /\ r.dp \in Slots
  BY AtIs DEF UnFound
<1>b. /\ RInv /\ LockOK(r) /\ PlaceOK(r, icache, dinode, dents) /\ r \in Stacks /\ Shape(r)
      /\ Place(r) = "un_dp" /\ r.pc \notin Puts
  BY <1>a, Parts DEF Place, Puts
<1>c. PICK i, g : i = Look(r.dp, r.name) /\ g = igot(i)
  OBVIOUS
<1>d. PICK m : m = [r EXCEPT !.pc = "un_ip", !.ip = g]
  OBVIOUS
<1>1. /\ i # Nil /\ icache' = iget(i) /\ Set(p, m)
      /\ UNCHANGED <<dinode, dents, cwd, ofile, panicked>>
  BY <1>c, <1>d DEF UnFound, Removable
<1>2. i \in Inums /\ Good(i)
  BY <1>1, <1>a, <1>b, <1>c, NameLeads DEF PtrsOf, PlaceOK, DpAt
<1>3. StepOf(p, m)
  BY <1>1, <1>b, SetStep
<1>4. Quietly(p, g, {}) /\ icache'[g].inum = i
  BY <1>1, <1>2, <1>b, <1>c, QGet
<1>5. /\ m.pc = "un_ip" /\ m.k = r.k /\ m.cur = r.cur /\ m.dp = r.dp /\ m.ip = g /\ m.arg = r.arg
      /\ m.lk = r.lk /\ m.path = r.path /\ m.name = r.name
  BY <1>b, <1>d DEF Stacks
<1>6. Place(m) = "un_ip" /\ r.arg = Nil
  BY <1>5, <1>b DEF Place, Puts, Shape
<1>7. LockOK(m)
  BY <1>5, <1>6, <1>a, <1>b DEF LockOK, IpLock, DpAt
<1>8. ~Owes(m) /\ ~Owes(r) /\ ~Linking(m)
  BY <1>6, <1>b DEF Owes, Linking
<1>9. PlaceOK(m, icache', dinode, dents)
  <2>1. icache'[r.dp].inum = icache[r.dp].inum
    BY <1>4, <1>a, <1>b, NumQuiet DEF PtrsOf
  <2>2. dents[icache[r.dp].inum][r.name] = i
    BY <1>c DEF Look
  <2> QED
    BY <1>b, <1>4, <1>5, <1>6, <1>8, <2>1, <2>2 DEF PlaceOK, DpAt
<1>10. \A s \in Slots : s \in {m.cur, m.ip, m.dp, m.arg, cwd'[p], ofile'[p]} => s \in PtrsOf(p) \/ s = g
  BY <1>1, <1>5, <1>6, SlotsNat DEF PtrsOf
<1>11. /\ m.pc \notin {"iput_free", "iput_done", "cr_new"} /\ {} \subseteq r.lk /\ m.lk = r.lk \ {}
  BY <1>5
<1> QED
  BY <1>1, <1>b, <1>3, <1>4, <1>7, <1>8, <1>9, <1>10, <1>11, EasyL

\* link() finds that the new name exists.
LEMMA LnExistsL == ASSUME LInv, RInv', NEW p \in Procs, LnExists(p) PROVE LInv'
<1> DEFINE r == pr[p]
<1>a. r.pc = "ln_dp" /\ r.dp \in r.lk /\ r.dp \in Slots
  BY AtIs DEF LnExists
<1>b. /\ RInv /\ LockOK(r) /\ PlaceOK(r, icache, dinode, dents) /\ r \in Stacks /\ Shape(r)
      /\ Place(r) = "ln_dp" /\ r.pc \notin Puts
  BY <1>a, Parts DEF Place, Puts
<1>c. PICK i, g : i = Look(r.dp, r.name) /\ g = igot(i)
  OBVIOUS
<1>d. PICK m : m = [r EXCEPT !.pc = "iput", !.arg = g, !.k = "ln_exists"]
  OBVIOUS
<1>1. /\ i # Nil /\ icache' = iget(i) /\ Set(p, m)
      /\ UNCHANGED <<dinode, dents, cwd, ofile, panicked>>
  BY <1>c, <1>d DEF LnExists
<1>2. i \in Inums /\ Good(i)
  BY <1>1, <1>a, <1>b, <1>c, NameLeads DEF PtrsOf, PlaceOK, DpAt
<1>3. StepOf(p, m)
  BY <1>1, <1>b, SetStep
<1>4. Quietly(p, g, {})
  BY <1>1, <1>2, <1>b, <1>c, QGet
<1>5. /\ m.pc = "iput" /\ m.k = "ln_exists" /\ m.cur = r.cur /\ m.dp = r.dp /\ m.ip = r.ip /\ m.arg = g
      /\ m.lk = r.lk /\ m.path = r.path /\ m.name = r.name
  BY <1>b, <1>d DEF Stacks
<1>6. Place(m) = "ln_exists"
  BY <1>5 DEF Place, Puts
<1>7. LockOK(m)
  BY <1>5, <1>6, <1>a, <1>b DEF LockOK, IpLock, DpAt
<1>8. Owes(m) /\ Owes(r) /\ Linking(m) /\ Linking(r) /\ r.ip \in Slots
  BY <1>6, <1>b, StackIs DEF Owes, Linking
<1>9. PlaceOK(m, icache', dinode, dents)
  <2>1. icache'[r.dp].inum = icache[r.dp].inum /\ icache'[r.ip].inum = icache[r.ip].inum
    BY <1>4, <1>8, <1>a, <1>b, NumQuiet DEF PtrsOf
  <2> QED
    BY <1>b, <1>5, <1>6, <1>8, <2>1 DEF PlaceOK, DpAt
<1>10. \A s \in Slots : s \in {m.cur, m.ip, m.dp, m.arg, cwd'[p], ofile'[p]} => s \in PtrsOf(p) \/ s = g
  BY <1>1, <1>5 DEF PtrsOf
<1>11. /\ m.pc \notin {"iput_free", "iput_done", "cr_new"} /\ {} \subseteq r.lk /\ m.lk = r.lk \ {}
       /\ m.ip = r.ip
  BY <1>5
<1> QED
  BY <1>1, <1>b, <1>3, <1>4, <1>7, <1>8, <1>9, <1>10, <1>11, EasyL

----------------------------------------------------------------------------
(* ilock() and iput().                                                     *)

\* What is not locked is not being freed either.
LEMMA NotBusy ==
  ASSUME LInv, NEW s \in Slots, icache[s].ref > 0, ~icache[s].busy
  PROVE  ~Gone(s) /\ dinode[Num(s)].type # "0" /\ \A q \in Procs : ~Holder(pr[q], s)
<1>1. LockInv /\ CacheInv
  BY DEF LInv
<1>2. \A q \in Procs : ~Holder(pr[q], s)
  BY <1>1 DEF LockInv
<1>3. ~Gone(s)
  BY <1>2 DEF Gone, Holder, FreesIt
<1> QED
  BY <1>1, <1>2, <1>3 DEF CacheInv

\* ilock() gets a lock that nobody has, on an inode with a type.
LEMMA IlockL == ASSUME LInv, RInv', NEW p \in Procs, ilock(p) PROVE LInv'
<1> DEFINE r == pr[p]
<1>a. PICK s : s = Target(p)
  OBVIOUS
<1>b. s # Nil /\ s \notin r.lk /\ ~icache[s].busy /\ panicked = "none"
  BY <1>a DEF ilock, Wants, CanLock
<1>c. /\ RInv /\ LockInv /\ CacheInv /\ LockOK(r) /\ PlaceOK(r, icache, dinode, dents)
      /\ r \in Stacks /\ Shape(r)
  BY Parts
<1>d. s \in Slots /\ s \in {r.cur, r.dp, r.ip} /\ r.pc \notin Puts
  BY <1>a, <1>b, <1>c, TargetIs
<1>e. s \in PtrsOf(p) /\ icache[s].ref > 0 /\ Num(s) \in Inums
  BY <1>c, <1>d, PointedBy DEF PtrsOf, AllPtrs, Num
<1>f. ~Gone(s) /\ dinode[Num(s)].type # "0" /\ \A q \in Procs : ~Holder(pr[q], s)
  BY <1>b, <1>d, <1>e, NotBusy
<1>g. PICK e : e = IF icache[s].valid THEN [icache[s] EXCEPT !.busy = TRUE]
                   ELSE [icache[s] EXCEPT !.busy = TRUE, !.valid = TRUE,
                           !.type = dinode[icache[s].inum].type, !.nlink = dinode[icache[s].inum].nlink]
  OBVIOUS
<1>h. PICK m : m = [r EXCEPT !.lk = r.lk \cup {s}]
  OBVIOUS
<1>1. /\ icache' = [icache EXCEPT ![s] = e] /\ Set(p, m) /\ UNCHANGED <<dinode, dents, cwd, ofile>>
      /\ panicked' = IF ~icache[s].valid /\ dinode[icache[s].inum].type = "0" THEN "ilock: no type" ELSE panicked
  BY <1>a, <1>g, <1>h DEF ilock
<1>2. panicked' = panicked
  BY <1>1, <1>f DEF Num
<1>3. StepOf(p, m)
  BY <1>1, <1>c, SetStep
<1>4. /\ m.pc = r.pc /\ m.k = r.k /\ m.cur = r.cur /\ m.dp = r.dp /\ m.ip = r.ip /\ m.arg = r.arg
      /\ m.lk = r.lk \cup {s} /\ m.path = r.path /\ m.name = r.name /\ m.op = r.op
  BY <1>c, <1>h DEF Stacks
<1>5. /\ e.ref = icache[s].ref /\ e.inum = icache[s].inum /\ e.busy /\ e.valid
      /\ e.type = dinode[Num(s)].type /\ e.nlink = dinode[Num(s)].nlink
  <2>1. icache[s] \in [inum : Inums \cup {Nil}, ref : Nat, busy : BOOLEAN, valid : BOOLEAN,
                       type : Types, nlink : Int]
    BY <1>d, <1>c, Typed DEF Caches
  <2>2. CASE icache[s].valid
    <3>1. e = [icache[s] EXCEPT !.busy = TRUE]
      BY <1>g, <2>2
    <3>2. icache[s].type = dinode[Num(s)].type /\ icache[s].nlink = dinode[Num(s)].nlink
      BY <1>c, <1>d, <1>e, <1>f, <2>2 DEF CacheInv
    <3> QED
      BY <2>1, <2>2, <3>1, <3>2
  <2>3. CASE ~icache[s].valid
    <3>1. e = [icache[s] EXCEPT !.busy = TRUE, !.valid = TRUE,
                 !.type = dinode[icache[s].inum].type, !.nlink = dinode[icache[s].inum].nlink]
      BY <1>g, <2>3
    <3> QED
      BY <2>1, <3>1 DEF Num
  <2> QED
    BY <2>2, <2>3
<1>6. icache'[s] = e /\ \A t \in Slots \ {s} : icache'[t] = icache[t]
  <2>1. icache \in [Slots -> [inum : Inums \cup {Nil}, ref : Nat, busy : BOOLEAN, valid : BOOLEAN,
                              type : Types, nlink : Int]]
    BY <1>c, Typed DEF Caches
  <2> QED
    BY <1>1, <1>d, <2>1
<1>7. LockOK(m)
  <2>1. Place(m) = Place(r) /\ Place(r) = r.pc
    BY <1>4, <1>d DEF Place
  <2>2. \/ s = r.cur /\ r.pc = "nx" /\ r.path # <<>>
        \/ s = r.dp /\ r.pc \in {"cr_dp", "un_dp", "ln_dp"}
        \/ s = r.ip /\ r.pc \in {"op", "cd", "ln", "ln_bad", "cr_new", "cr_found", "un_ip"}
    BY <1>a, <1>b DEF Target
  <2>3. \/ s = r.cur /\ r.pc = "nx" /\ r.path # <<>>
        \/ s = r.dp /\ Place(r) \in DpAt
        \/ s = r.ip /\ Place(r) \in IpLock
    BY <2>1, <2>2 DEF DpAt, IpLock
  <2>4. r.pc \notin {"iput_free", "iput_done"}
    BY <1>d DEF Puts
  <2> QED
    BY <1>4, <1>c, <2>1, <2>3, <2>4 DEF LockOK
<1>8. LockInv'
  <2>1. \A t \in Slots : (Holder(m, t) <=> t \in r.lk \/ t = s) /\ (Holder(r, t) <=> t \in r.lk)
    BY <1>4, <1>d DEF Holder, FreesIt, Puts
  <2>2. \A t \in Slots : Holder(r, t) => icache[t].busy /\ icache[t].valid
    BY <1>c DEF LockInv
  <2>3. \A t \in Slots : icache[t].ref > 0 /\ icache[t].busy => icache[t].valid
    BY <1>c DEF LockInv
  <2>4. \A t \in Slots : Holder(m, t) => /\ icache'[t].busy /\ icache'[t].valid
                                         /\ Holder(r, t) \/ ~icache[t].busy
    BY <1>5, <1>6, <1>b, <2>1, <2>2
  <2>5. \A t \in Slots : icache[t].ref > 0 /\ icache[t].busy /\ ~Holder(r, t)
                           => icache'[t].busy /\ icache'[t].valid
    BY <1>6, <1>b, <2>3
  <2>6. \A t \in Slots : icache'[t].ref > 0 /\ icache'[t].busy /\ ~Holder(m, t)
                           => icache[t].ref > 0 /\ icache[t].busy /\ ~Holder(r, t)
    BY <1>6, <2>1
  <2>7. m \in Stacks /\ pr' = [pr EXCEPT ![p] = m]
    BY <1>3 DEF StepOf
  <2> QED
    BY <1>7, <1>c, <2>4, <2>5, <2>6, <2>7, LockStep
<1>9. CacheMoves(p, m)
  <2>1. Wrote(p, m, s)
    BY <1>1, <1>5, <1>6, <1>f DEF Wrote, Alone
  <2>2. \A t \in Slots \ {s} : Same(p, t)
    BY <1>1, <1>6, <1>d DEF Same, Puts
  <2>3. \A t \in Slots : icache'[t].ref = icache[t].ref /\ icache'[t].inum = icache[t].inum
    BY <1>5, <1>6
  <2> QED
    BY <2>1, <2>2, <2>3 DEF CacheMoves
<1>10. RefMoves(p)
  <2>1. \A t \in Slots : icache'[t].ref = icache[t].ref /\ icache[t].ref \in Nat
    BY <1>5, <1>6, <1>c DEF RInv, TypeOK, CacheOK, Caches
  <2> QED
    BY <2>1 DEF RefMoves
<1>11. PtrMoves(p, m)
  <2>1. r.arg = Nil
    BY <1>c, <1>d DEF Shape
  <2> QED
    BY <1>1, <1>4, <2>1, SlotsNat DEF PtrMoves, PtrsOf
<1>12. Place(m) = Place(r) /\ (Owes(m) <=> Owes(r)) /\ (Linking(m) <=> Linking(r))
  BY <1>4 DEF Place, Owes, Linking
<1>13. PlaceOK(m, icache', dinode, dents)
  <2>1. \A t \in Slots : icache'[t].inum = icache[t].inum
    BY <1>5, <1>6
  <2>2. /\ Place(r) \in DpAt => r.dp \in Slots
        /\ Place(r) \in IpAt => r.ip \in Slots
        /\ Linking(r) => r.ip \in Slots
    BY <1>c, StackIs
  <2>3. (r.pc = "cr_new" => r.ip \in Slots) /\ (Place(r) = "un_ip" => r.ip \in Slots /\ r.dp \in Slots)
    BY <2>2 DEF Place, Puts, IpAt, DpAt
  <2> QED
    BY <1>4, <1>12, <1>c, <2>1, <2>2, <2>3 DEF PlaceOK
<1>14. NoPanic'
  BY <1>2 DEF NoPanic, LInv
<1>15. m.pc \notin Puts /\ m.ip = r.ip /\ m.dp = r.dp /\ m.pc = r.pc /\ cwd'[p] = cwd[p] /\ ofile'[p] = ofile[p]
  BY <1>1, <1>4, <1>d
<1>16. m.pc # "iput_free" /\ m.pc # "iput_done"
  BY <1>15 DEF Puts
<1> QED
  BY <1>1, <1>3, <1>8, <1>9, <1>10, <1>11, <1>12, <1>13, <1>14, <1>15, <1>16, QuietL

\* An entry about to be put that is locked has another reference.
LEMMA PutLocked ==
  ASSUME LInv, NEW p \in Procs, pr[p].pc = "iput", icache[pr[p].arg].busy
  PROVE  icache[pr[p].arg].ref >= 2
<1> DEFINE s == pr[p].arg
<1>1. RInv /\ LockInv /\ LockOK(pr[p])
  BY Parts
<1>2. s \in Slots /\ s \in AllPtrs(p)
  BY <1>1, StackIs DEF Puts
<1>3. icache[s].ref > 0
  BY <1>1, <1>2, PointedBy
<1>4. PICK q \in Procs : Holder(pr[q], s)
  BY <1>1, <1>2, <1>3 DEF LockInv
<1>5. CASE q = p
  <2>1. s \in pr[p].lk
    BY <1>4, <1>5 DEF Holder, FreesIt
  <2>2. s \in PtrsOf(p)
    BY <1>1, <2>1 DEF LockOK, PtrsOf
  <2> QED
    BY <1>1, <1>2, <2>2, ArgTwice
<1>6. CASE q # p
  BY <1>1, <1>2, <1>4, <1>6, HolderIs, TwoPointers
<1> QED
  BY <1>5, <1>6

\* iput() that starts to free an inode.
LEMMA IputFreesL ==
  ASSUME LInv, RInv', NEW p \in Procs, iput(p), MustFree(pr[p].arg)
  PROVE  LInv'
<1> DEFINE r == pr[p]
<1>a. PICK s : s = r.arg
  OBVIOUS
<1>b. /\ r.pc = "iput" /\ icache[s].ref = 1 /\ icache[s].valid /\ icache[s].nlink = 0 /\ panicked = "none"
  BY <1>a DEF iput, Running, MustFree
<1>c. /\ RInv /\ LockInv /\ LockOK(r) /\ PlaceOK(r, icache, dinode, dents) /\ r \in Stacks
  BY Parts
<1>d. s \in Slots /\ s \in AllPtrs(p) /\ r.arg \in Slots
  BY <1>a, <1>b, <1>c, StackIs DEF Puts
<1>e. ~icache[s].busy
  BY <1>a, <1>b, PutLocked
<1>f. s \notin r.lk
  BY <1>c, <1>d, <1>e, HolderIs DEF Holder
<1>g. PICK m : m = [r EXCEPT !.pc = "iput_free"]
  OBVIOUS
<1>1. /\ icache' = [icache EXCEPT ![s].busy = TRUE] /\ Set(p, m) /\ UNCHANGED <<dinode, dents, cwd, ofile>>
      /\ panicked' = panicked
  BY <1>a, <1>e, <1>g DEF iput
<1>2. StepOf(p, m)
  BY <1>1, <1>c, SetStep
<1>3. /\ m.pc = "iput_free" /\ m.k = r.k /\ m.cur = r.cur /\ m.dp = r.dp /\ m.ip = r.ip /\ m.arg = s
      /\ m.lk = r.lk /\ m.path = r.path /\ m.name = r.name /\ m.op = r.op
  BY <1>a, <1>c, <1>g DEF Stacks
<1>4. /\ icache'[s].busy
      /\ \A t \in Slots : /\ icache'[t].ref = icache[t].ref /\ icache'[t].inum = icache[t].inum
                          /\ icache'[t].valid = icache[t].valid /\ icache'[t].type = icache[t].type
                          /\ icache'[t].nlink = icache[t].nlink
                          /\ t # s => icache'[t].busy = icache[t].busy
  <2>1. icache \in [Slots -> [inum : Inums \cup {Nil}, ref : Nat, busy : BOOLEAN, valid : BOOLEAN,
                              type : Types, nlink : Int]]
    BY <1>c, Typed DEF Caches
  <2> QED
    BY <1>1, <1>d, <2>1
<1>5. Place(m) = Place(r) /\ Place(r) = r.k
  BY <1>3, <1>b DEF Place, Puts
<1>6. LockOK(m)
  BY <1>3, <1>5, <1>b, <1>c, <1>f DEF LockOK
<1>7. LockInv'
  <2>1. \A t \in Slots : (Holder(m, t) <=> t \in r.lk \/ t = s) /\ (Holder(r, t) <=> t \in r.lk)
    BY <1>3, <1>b DEF Holder, FreesIt
  <2>2. \A t \in Slots : Holder(r, t) => icache[t].busy /\ icache[t].valid
    BY <1>c DEF LockInv
  <2>3. \A t \in Slots : icache[t].ref > 0 /\ icache[t].busy => icache[t].valid
    BY <1>c DEF LockInv
  <2>4. \A t \in Slots : Holder(m, t) => /\ icache'[t].busy /\ icache'[t].valid
                                         /\ Holder(r, t) \/ ~icache[t].busy
    BY <1>4, <1>b, <1>e, <2>1, <2>2
  <2>5. \A t \in Slots : icache[t].ref > 0 /\ icache[t].busy /\ ~Holder(r, t)
                           => icache'[t].busy /\ icache'[t].valid
    BY <1>4, <1>e, <2>3
  <2>6. \A t \in Slots : icache'[t].ref > 0 /\ icache'[t].busy /\ ~Holder(m, t)
                           => icache[t].ref > 0 /\ icache[t].busy /\ ~Holder(r, t)
    BY <1>4, <2>1
  <2>7. m \in Stacks /\ pr' = [pr EXCEPT ![p] = m]
    BY <1>2 DEF StepOf
  <2> QED
    BY <1>6, <1>c, <2>4, <2>5, <2>6, <2>7, LockStep
<1>8. CacheMoves(p, m)
  <2>1. \A t \in Slots : Same(p, t)
    BY <1>1, <1>4, <1>b DEF Same
  <2> QED
    BY <1>4, <2>1 DEF CacheMoves
<1>9. RefMoves(p)
  <2>1. \A t \in Slots : icache'[t].ref = icache[t].ref /\ icache[t].ref \in Nat
    BY <1>4, <1>c DEF RInv, TypeOK, CacheOK, Caches
  <2> QED
    BY <2>1 DEF RefMoves
<1>10. PtrMoves(p, m)
  BY <1>1, <1>3, <1>a, <1>b DEF PtrMoves, PtrsOf
<1>11. (Owes(m) <=> Owes(r)) /\ (Linking(m) <=> Linking(r))
  BY <1>3, <1>5 DEF Owes, Linking
<1>12. PlaceOK(m, icache', dinode, dents)
  <2>1. /\ Place(r) \in DpAt => r.dp \in Slots
        /\ Place(r) \in IpAt => r.ip \in Slots
        /\ Linking(r) => r.ip \in Slots
    BY <1>c, StackIs
  <2>2. Place(r) = "un_ip" => r.ip \in Slots /\ r.dp \in Slots
    BY <2>1 DEF IpAt, DpAt
  <2> QED
    BY <1>3, <1>5, <1>4, <1>11, <1>c, <2>1, <2>2 DEF PlaceOK
<1>13. NoPanic'
  BY <1>1 DEF NoPanic, LInv
<1>14. /\ m.pc # "iput_done" /\ m.pc # "cr_new" /\ m.ip = r.ip
       /\ icache'[m.arg].ref = 1 /\ icache'[m.arg].nlink = 0
  BY <1>3, <1>4, <1>b, <1>d
<1> QED
  BY <1>1, <1>2, <1>7, <1>8, <1>9, <1>10, <1>11, <1>12, <1>13, <1>14, QuietL

\* The stack after iput().
LEMMA BackOf ==
  ASSUME LInv, NEW p \in Procs, pr[p].pc \in Puts, NEW m, m = Back(pr[p])
  PROVE  /\ m.cur = pr[p].cur /\ m.ip = pr[p].ip /\ m.dp = pr[p].dp /\ m.arg = Nil
         /\ m.lk = pr[p].lk /\ m.pc \notin Puts /\ m.pc # "cr_new"
         /\ LockOK(m) /\ (Owes(m) <=> Owes(pr[p]))
         /\ \A ic : (\A t \in Slots : t \in {pr[p].ip, pr[p].dp} => ic[t].inum = icache[t].inum)
              => PlaceOK(m, ic, dinode, dents)
<1> DEFINE r == pr[p]
<1>a. /\ RInv /\ LockOK(r) /\ PlaceOK(r, icache, dinode, dents) /\ r \in Stacks /\ Shape(r)
  BY Parts
<1>b. Place(r) = r.k /\ r.k \in Inner
  BY <1>a DEF Place, Stacks
<1>c. r.pc # "nx"
  BY DEF Puts
<1>d. /\ Place(r) \in DpAt => r.dp \in Slots
      /\ Place(r) \in IpAt => r.ip \in Slots
      /\ Linking(r) => r.ip \in Slots
  BY <1>a, StackIs
<1>1. CASE r.k = "user"
  <2>1. m = User
    BY <1>1 DEF Back
  <2>2. /\ User.pc = "user" /\ User.k = "user" /\ User.path = <<>> /\ User.lk = {}
        /\ User.cur = Nil /\ User.ip = Nil /\ User.dp = Nil /\ User.arg = Nil
    BY DEF User
  <2>3. r.cur = Nil /\ r.ip = Nil /\ r.dp = Nil
    BY <1>a, <1>b, <1>1 DEF Shape, Holds, DpAt, IpAt
  <2>4. r.lk = {}
    BY <1>a, <1>b, <1>c, <1>1 DEF LockOK, DpAt, IpLock
  <2>5. Place(User) = "user" /\ User.pc \notin Puts
    BY <2>2 DEF Place, Puts
  <2>6. ~Owes(r) /\ ~Owes(User) /\ ~Linking(User)
    BY <1>1, <1>b, <2>5 DEF Owes, Linking
  <2>7. LockOK(User)
    BY <2>2, <2>5 DEF LockOK
  <2>8. \A ic : PlaceOK(User, ic, dinode, dents)
    BY <2>2, <2>5, <2>6 DEF PlaceOK, DpAt
  <2>9. User.pc # "cr_new"
    BY <2>2
  <2> QED
    BY <2>1, <2>2, <2>3, <2>4, <2>5, <2>6, <2>7, <2>8, <2>9
<1>2. CASE r.k # "user"
  <2>1. m = [r EXCEPT !.pc = r.k, !.arg = Nil, !.k = "user"]
    BY <1>2 DEF Back
  <2>2. /\ m.pc = r.k /\ m.k = "user" /\ m.path = r.path /\ m.lk = r.lk /\ m.name = r.name /\ m.op = r.op
        /\ m.cur = r.cur /\ m.ip = r.ip /\ m.dp = r.dp /\ m.arg = Nil
    BY <1>a, <2>1 DEF Stacks
  <2>3. m.pc \notin Puts /\ Place(m) = r.k /\ r.k # "cr_new"
    BY <1>a, <1>b, <2>2 DEF Place, Puts, Inner, DpAt, IpAt, PlaceOK
  <2>4. m.pc \notin {"iput_free", "iput_done"}
    BY <2>3 DEF Puts
  <2>5. LockOK(m)
    BY <1>a, <1>b, <1>c, <2>2, <2>3, <2>4 DEF LockOK
  <2>6. (Owes(m) <=> Owes(r)) /\ (Linking(m) <=> Linking(r))
    BY <1>b, <2>2, <2>3 DEF Owes, Linking
  <2>7. ASSUME NEW ic, \A t \in Slots : t \in {r.ip, r.dp} => ic[t].inum = icache[t].inum
        PROVE  PlaceOK(m, ic, dinode, dents)
    <3>1. Place(r) = "un_ip" => r.ip \in Slots /\ r.dp \in Slots
      BY <1>d DEF IpAt, DpAt
    <3> QED
      BY <1>a, <1>b, <1>d, <2>2, <2>3, <2>6, <2>7, <3>1 DEF PlaceOK
  <2> QED
    BY <2>2, <2>3, <2>5, <2>6, <2>7
<1> QED
  BY <1>1, <1>2

\* A step of p back from iput(), with a reference to s less.
LEMMA BackL ==
  ASSUME LInv, RInv', NEW p \in Procs, pr[p].pc \in Puts, Set(p, Back(pr[p])),
         UNCHANGED <<dinode, dents, cwd, ofile, panicked>>,
         \A t \in Slots : icache'[t].ref =< icache[t].ref,
         \A t \in Slots : icache'[t].ref > 0 => icache'[t].inum = icache[t].inum,
         \A t \in Slots : icache'[t].ref > 0 => Same(p, t) \/ Wrote(p, Back(pr[p]), t),
         LockInv'
  PROVE  LInv'
<1>1. PICK m : m = Back(pr[p])
  OBVIOUS
<1>2. RInv
  BY Parts
<1>3. StepOf(p, m)
  BY <1>1, <1>2, SetStep
<1>4. /\ m.cur = pr[p].cur /\ m.ip = pr[p].ip /\ m.dp = pr[p].dp /\ m.arg = Nil
      /\ m.lk = pr[p].lk /\ m.pc \notin Puts /\ m.pc # "cr_new"
      /\ LockOK(m) /\ (Owes(m) <=> Owes(pr[p]))
      /\ \A ic : (\A t \in Slots : t \in {pr[p].ip, pr[p].dp} => ic[t].inum = icache[t].inum)
              => PlaceOK(m, ic, dinode, dents)
  BY <1>1, BackOf
<1>5. CacheMoves(p, m)
  <2>1. \A t \in Slots : icache[t].ref \in Nat /\ icache'[t].ref \in Nat
    BY <1>2 DEF RInv, TypeOK, CacheOK, Caches
  <2>2. \A t \in Slots : icache'[t].ref > 0 => icache[t].ref > 0
    BY <2>1
  <2>3. \A t \in Slots : icache'[t].ref > 0 => Same(p, t) \/ Wrote(p, m, t)
    BY <1>1
  <2> QED
    BY <2>2, <2>3 DEF CacheMoves
<1>6. RefMoves(p)
  BY DEF RefMoves
<1>7. PtrMoves(p, m)
  BY <1>4, SlotsNat DEF PtrMoves, PtrsOf
<1>8. PlaceOK(m, icache', dinode, dents)
  <2>1. ASSUME NEW t \in Slots, t \in {pr[p].ip, pr[p].dp} PROVE icache'[t].inum = icache[t].inum
    <3>1. pr'[p] = m
      BY <1>2, <1>3, OneStack
    <3>2. t \in AllPtrs(p)'
      BY <1>4, <2>1, <3>1 DEF AllPtrs, PtrsOf
    <3>3. icache'[t].ref > 0
      BY <3>2, PointedNext
    <3> QED
      BY <3>3
  <2> QED
    BY <1>4, <2>1
<1>9. NoPanic'
  BY DEF NoPanic, LInv
<1>10. m.pc # "iput_free" /\ m.pc # "iput_done"
  BY <1>4 DEF Puts
<1> QED
  BY <1>3, <1>4, <1>5, <1>6, <1>7, <1>8, <1>9, <1>10, QuietL

\* What a reference less does, slot by slot.
LEMMA UnrefEach ==
  ASSUME NEW c \in Caches, NEW s \in Slots, NEW d, d = Unref(c, s)
  PROVE  /\ \A t \in Slots \ {s} : d[t] = c[t]
         /\ c[s].ref = 1 => d[s].ref = 0
         /\ c[s].ref # 1 => /\ d[s].ref = c[s].ref - 1 /\ d[s].inum = c[s].inum /\ d[s].busy = c[s].busy
                            /\ d[s].valid = c[s].valid /\ d[s].type = c[s].type /\ d[s].nlink = c[s].nlink
<1>1. PICK e : e = IF c[s].ref = 1 THEN Unused ELSE Ref(c[s], -1)
  OBVIOUS
<1>2. d = [c EXCEPT ![s] = e]
  BY <1>1 DEF Unref
<1>3. c[s] \in [inum : Inums \cup {Nil}, ref : Nat, busy : BOOLEAN, valid : BOOLEAN,
                type : Types, nlink : Int]
  BY DEF Caches
<1>4. d[s] = e /\ \A t \in Slots \ {s} : d[t] = c[t]
  BY <1>2 DEF Caches
<1>5. c[s].ref = 1 => e.ref = 0
  BY <1>1 DEF Unused, Fresh
<1>6. c[s].ref # 1 => /\ e.ref = c[s].ref - 1 /\ e.inum = c[s].inum /\ e.busy = c[s].busy
                      /\ e.valid = c[s].valid /\ e.type = c[s].type /\ e.nlink = c[s].nlink
  BY <1>1, <1>3 DEF Ref
<1> QED
  BY <1>4, <1>5, <1>6

\* iput() that gives a reference back.
LEMMA IputBackL ==
  ASSUME LInv, RInv', NEW p \in Procs, iput(p), ~MustFree(pr[p].arg)
  PROVE  LInv'
<1> DEFINE r == pr[p]
<1>a. PICK s : s = r.arg
  OBVIOUS
<1>1. /\ r.pc = "iput" /\ icache' = Unref(icache, s) /\ Set(p, Back(r))
      /\ UNCHANGED <<dinode, dents, cwd, ofile, panicked>>
  BY <1>a DEF iput, Running
<1>b. RInv /\ LockInv /\ r.pc \in Puts /\ icache \in Caches
  BY <1>1, Parts, Typed DEF Puts
<1>c. s \in Slots /\ s \in AllPtrs(p)
  BY <1>a, <1>b, StackIs
<1>d. icache[s].ref > 0 /\ \A t \in Slots : icache[t].ref \in Nat
  BY <1>b, <1>c, PointedBy DEF Caches
<1>2. /\ \A t \in Slots \ {s} : icache'[t] = icache[t]
      /\ icache[s].ref = 1 => icache'[s].ref = 0
      /\ icache[s].ref # 1 =>
           /\ icache'[s].ref = icache[s].ref - 1 /\ icache'[s].inum = icache[s].inum
           /\ icache'[s].busy = icache[s].busy /\ icache'[s].valid = icache[s].valid
           /\ icache'[s].type = icache[s].type /\ icache'[s].nlink = icache[s].nlink
  <2>1. PICK d : d = icache'
    OBVIOUS
  <2>2. d = Unref(icache, s)
    BY <1>1, <2>1
  <2>3. /\ \A t \in Slots \ {s} : d[t] = icache[t]
        /\ icache[s].ref = 1 => d[s].ref = 0
        /\ icache[s].ref # 1 =>
             /\ d[s].ref = icache[s].ref - 1 /\ d[s].inum = icache[s].inum /\ d[s].busy = icache[s].busy
             /\ d[s].valid = icache[s].valid /\ d[s].type = icache[s].type /\ d[s].nlink = icache[s].nlink
    BY <1>b, <1>c, <2>2, UnrefEach
  <2> QED
    BY <2>1, <2>3
<1>3. icache[s].busy => icache[s].ref # 1
  BY <1>1, <1>a, <1>d, <1>c, PutLocked
<1>4. PICK m : m = Back(r)
  OBVIOUS
<1>5. m.lk = r.lk /\ m.pc \notin Puts /\ LockOK(m)
  BY <1>4, <1>b, BackOf
<1>6. StepOf(p, m)
  BY <1>1, <1>4, <1>b, SetStep
<1>7. \A t \in Slots : icache[t].ref > 0 /\ icache[t].busy =>
        icache'[t].busy /\ icache'[t].valid = icache[t].valid
  BY <1>2, <1>3
<1>8. LockInv'
  <2>1. \A t \in Slots : (Holder(m, t) <=> t \in r.lk) /\ (Holder(r, t) <=> t \in r.lk)
    BY <1>1, <1>5 DEF Holder, FreesIt, Puts
  <2>2. \A t \in Slots : Holder(r, t) => icache[t].ref > 0 /\ icache[t].busy /\ icache[t].valid
    BY <1>b, HolderIs
  <2>3. \A t \in Slots : icache[t].ref > 0 /\ icache[t].busy => icache[t].valid
    BY <1>b DEF LockInv
  <2>4. \A t \in Slots : Holder(m, t) => /\ icache'[t].busy /\ icache'[t].valid
                                         /\ Holder(r, t) \/ ~icache[t].busy
    BY <1>7, <2>1, <2>2
  <2>5. \A t \in Slots : icache[t].ref > 0 /\ icache[t].busy /\ ~Holder(r, t)
                           => icache'[t].busy /\ icache'[t].valid
    BY <1>7, <2>3
  <2>6. \A t \in Slots : icache'[t].ref > 0 /\ icache'[t].busy /\ ~Holder(m, t)
                           => icache[t].ref > 0 /\ icache[t].busy /\ ~Holder(r, t)
    BY <1>2, <1>d, <2>1
  <2>7. m \in Stacks /\ pr' = [pr EXCEPT ![p] = m]
    BY <1>6 DEF StepOf
  <2> QED
    BY <1>5, <1>b, <2>4, <2>5, <2>6, <2>7, LockStep
<1>9. \A t \in Slots : icache'[t].ref > 0 => icache'[t].inum = icache[t].inum /\ Same(p, t)
  BY <1>1, <1>2 DEF Same
<1>10. \A t \in Slots : icache'[t].ref =< icache[t].ref
  BY <1>2, <1>d
<1> QED
  BY <1>1, <1>8, <1>9, <1>10, <1>b, BackL

\* The end of iput() of an inode that is free.
LEMMA IputDoneL == ASSUME LInv, RInv', NEW p \in Procs, IputDone(p) PROVE LInv'
<1> DEFINE r == pr[p]
<1>a. PICK s : s = r.arg
  OBVIOUS
<1>e. PICK c : c = [icache EXCEPT ![s] = [icache[s] EXCEPT !.busy = FALSE, !.valid = FALSE]]
  OBVIOUS
<1>1. /\ r.pc = "iput_done" /\ icache' = Unref(c, s) /\ Set(p, Back(r))
      /\ UNCHANGED <<dinode, dents, cwd, ofile, panicked>>
  BY <1>a, <1>e DEF IputDone, Running
<1>b. /\ RInv /\ LockInv /\ r.pc \in Puts /\ LockOK(r) /\ FreeInv
      /\ icache \in [Slots -> [inum : Inums \cup {Nil}, ref : Nat, busy : BOOLEAN, valid : BOOLEAN,
                               type : Types, nlink : Int]]
  BY <1>1, Parts, Typed DEF Puts, Caches
<1>c. s \in Slots /\ s \in AllPtrs(p) /\ Holder(r, s) /\ s \notin r.lk
  BY <1>a, <1>b, <1>1, StackIs DEF Holder, FreesIt, LockOK
<1>d. icache[s].ref > 0 /\ \A t \in Slots : icache[t].ref \in Nat
  BY <1>b, <1>c, PointedBy
<1>f. /\ c \in Caches /\ \A t \in Slots \ {s} : c[t] = icache[t]
      /\ c[s].ref = icache[s].ref /\ c[s].inum = icache[s].inum /\ ~c[s].busy /\ ~c[s].valid
  BY <1>e, <1>b, <1>c DEF Caches
<1>2. /\ \A t \in Slots \ {s} : icache'[t] = icache[t]
      /\ icache[s].ref = 1 => icache'[s].ref = 0
      /\ icache[s].ref # 1 =>
           /\ icache'[s].ref = icache[s].ref - 1 /\ icache'[s].inum = icache[s].inum /\ ~icache'[s].busy
           /\ ~icache'[s].valid
  <2>1. PICK d : d = icache'
    OBVIOUS
  <2>2. d = Unref(c, s)
    BY <1>1, <2>1
  <2>3. /\ \A t \in Slots \ {s} : d[t] = c[t]
        /\ c[s].ref = 1 => d[s].ref = 0
        /\ c[s].ref # 1 => /\ d[s].ref = c[s].ref - 1 /\ d[s].inum = c[s].inum /\ d[s].busy = c[s].busy
                           /\ d[s].valid = c[s].valid
    BY <1>c, <1>f, <2>2, UnrefEach
  <2> QED
    BY <1>f, <2>1, <2>3
<1>3. PICK m : m = Back(r)
  OBVIOUS
<1>4. m.lk = r.lk /\ m.pc \notin Puts /\ LockOK(m)
  BY <1>3, <1>b, BackOf
<1>5. StepOf(p, m)
  BY <1>1, <1>3, <1>b, SetStep
<1>6. LockInv'
  <2>1. \A t \in Slots : (Holder(m, t) <=> t \in r.lk) /\ (Holder(r, t) <=> t \in r.lk \/ t = s)
    BY <1>1, <1>4, <1>a DEF Holder, FreesIt, Puts
  <2>2. \A t \in Slots : Holder(r, t) => icache[t].ref > 0 /\ icache[t].busy /\ icache[t].valid
    BY <1>b, HolderIs
  <2>3. \A t \in Slots : icache[t].ref > 0 /\ icache[t].busy => icache[t].valid
    BY <1>b DEF LockInv
  <2>4. \A t \in Slots : Holder(m, t) => /\ icache'[t].busy /\ icache'[t].valid
                                         /\ Holder(r, t) \/ ~icache[t].busy
    BY <1>2, <1>c, <2>1, <2>2
  <2>5. \A t \in Slots : icache[t].ref > 0 /\ icache[t].busy /\ ~Holder(r, t)
                           => icache'[t].busy /\ icache'[t].valid
    BY <1>2, <1>c, <2>3
  <2>6. \A t \in Slots : icache'[t].ref > 0 /\ icache'[t].busy /\ ~Holder(m, t)
                           => icache[t].ref > 0 /\ icache[t].busy /\ ~Holder(r, t)
    BY <1>2, <1>d, <2>1
  <2>7. m \in Stacks /\ pr' = [pr EXCEPT ![p] = m]
    BY <1>5 DEF StepOf
  <2> QED
    BY <1>4, <1>b, <2>4, <2>5, <2>6, <2>7, LockStep
<1>7. \A t \in Slots : icache'[t].ref > 0 => icache'[t].inum = icache[t].inum
  BY <1>2
<1>8. \A t \in Slots : icache'[t].ref =< icache[t].ref
  BY <1>2, <1>d
<1>9. \A t \in Slots \ {s} : Same(p, t)
  BY <1>1, <1>2, <1>a DEF Same
<1>10. icache'[s].ref > 0 => Wrote(p, m, s)
  <2> SUFFICES ASSUME icache'[s].ref > 0 PROVE Wrote(p, m, s)
    OBVIOUS
  <2>1. icache[s].ref # 1
    BY <1>2
  <2>2. dinode[Num(s)].type # "0"
    BY <1>1, <1>a, <1>b, <2>1 DEF FreeInv
  <2>3. Alone(p, s)
    BY <1>b, <1>c, HolderOne DEF Alone
  <2> QED
    BY <1>1, <1>2, <2>1, <2>2, <2>3 DEF Wrote
<1>11. \A t \in Slots : icache'[t].ref > 0 => Same(p, t) \/ Wrote(p, Back(r), t)
  BY <1>3, <1>9, <1>10
<1> QED
  BY <1>1, <1>6, <1>7, <1>8, <1>11, <1>b, BackL

----------------------------------------------------------------------------
(* Steps that write locked inodes and directories.                         *)

\* iupdate() writes the inodes of the slots it is given.
LEMMA IupdateIs ==
  ASSUME RInv, NEW c \in Caches, NEW S \in SUBSET Slots, NEW i \in Inums
  PROVE  /\ (\A s \in S : c[s].inum # i) => iupdate(c, S)[i] = dinode[i]
         /\ \A s \in S : c[s].inum = i /\ (\A t \in S : c[t].inum = i => t = s) =>
              iupdate(c, S)[i].type = c[s].type /\ iupdate(c, S)[i].nlink = c[s].nlink
<1> DEFINE T == {s \in S : c[s].inum = i}
<1>1. iupdate(c, S)[i] = IF T = {} THEN dinode[i] ELSE [type |-> c[Min(T)].type, nlink |-> c[Min(T)].nlink]
  BY DEF iupdate
<1>2. ASSUME NEW s \in S, c[s].inum = i, \A t \in S : c[t].inum = i => t = s
      PROVE  T # {} /\ Min(T) = s
  <2>1. T = {s}
    BY <1>2
  <2>2. T \in SUBSET Nat /\ T # {}
    BY <2>1, SlotsNat
  <2> HIDE DEF T
  <2>3. Min(T) \in T
    BY <2>2, MinIn
  <2> QED
    BY <2>1, <2>2, <2>3
<1>3. (\A s \in S : c[s].inum # i) => T = {}
  OBVIOUS
<1> HIDE DEF T
<1> QED
  BY <1>1, <1>2, <1>3

\* What a step of p may do that writes inodes it has locked, and unlocks t.
Writing(p, t) ==
  /\ \A s \in Slots : /\ icache'[s].ref = icache[s].ref /\ icache'[s].inum = icache[s].inum
                      /\ icache'[s].valid = icache[s].valid /\ icache'[s].type = icache[s].type
                      /\ s = t => ~icache'[s].busy
                      /\ s # t => icache'[s].busy = icache[s].busy
                      /\ s \notin pr[p].lk => icache'[s].nlink = icache[s].nlink
                      /\ s \in pr[p].lk => dinode'[Num(s)].nlink = icache'[s].nlink
  /\ \A i \in Inums : dinode'[i].type = dinode[i].type
  /\ \A i \in Inums : (\A s \in Slots : s \in pr[p].lk => Num(s) # i) =>
       dinode'[i].nlink = dinode[i].nlink /\ dents'[i] = dents[i]
  /\ \A i \in Inums, n \in Names :
       \/ dents'[i][n] = dents[i][n] \/ dents'[i][n] = Nil
       \/ \E s \in Slots : s \in PtrsOf(p) /\ dents'[i][n] = Num(s)

\* What is not locked by p is not written.
LEMMA NotWritten ==
  ASSUME LInv, NEW p \in Procs, NEW t, Writing(p, t), NEW s \in Slots, s \notin pr[p].lk, icache[s].ref > 0
  PROVE  /\ Num(s) \in Inums /\ dinode'[Num(s)].nlink = dinode[Num(s)].nlink
         /\ dents'[Num(s)] = dents[Num(s)]
<1>1. RInv
  BY Parts
<1>2. Num(s) \in Inums
  BY <1>1 DEF RInv, TypeOK, CacheOK, Num
<1>3. \A u \in Slots : u \in pr[p].lk => Num(u) # Num(s)
  BY <1>1, LockedIs, NumApart
<1> QED
  BY <1>2, <1>3 DEF Writing

\* The cache agrees with the disk after such a step.
LEMMA WriteCache ==
  ASSUME LInv, NEW p \in Procs, NEW m, NEW t, Writing(p, t), pr[p].pc \notin Puts
  PROVE  CacheMoves(p, m)
<1> SUFFICES ASSUME NEW s \in Slots, icache'[s].ref > 0
             PROVE  /\ icache[s].ref > 0 /\ icache'[s].inum = icache[s].inum
                    /\ Same(p, s) \/ Wrote(p, m, s)
  BY DEF CacheMoves
<1>1. icache[s].ref > 0 /\ icache'[s].inum = icache[s].inum /\ LockInv
  BY Parts DEF Writing
<1>2. CASE s \in pr[p].lk
  <2>1. Alone(p, s)
    BY <1>1, <1>2, HolderOne DEF Alone, Holder
  <2>2. dinode[Num(s)].type = icache[s].type /\ dinode[Num(s)].type # "0" /\ Num(s) \in Inums
    BY <1>2, LockedIs
  <2>3. dinode'[Num(s)].type = icache'[s].type /\ dinode'[Num(s)].type # "0"
    BY <2>2 DEF Writing
  <2>4. dinode'[Num(s)].nlink = icache'[s].nlink
    BY <1>2 DEF Writing
  <2> QED
    BY <1>1, <2>1, <2>3, <2>4 DEF Wrote
<1>3. CASE s \notin pr[p].lk
  <2>1. Num(s) \in Inums /\ dinode'[Num(s)].nlink = dinode[Num(s)].nlink
    BY <1>1, <1>3, NotWritten
  <2>2. /\ icache'[s].valid = icache[s].valid /\ icache'[s].type = icache[s].type
        /\ icache'[s].nlink = icache[s].nlink /\ dinode'[Num(s)].type = dinode[Num(s)].type
    BY <1>3, <2>1 DEF Writing
  <2> QED
    BY <1>1, <2>1, <2>2 DEF Same, Puts
<1> QED
  BY <1>1, <1>2, <1>3

\* Such a step keeps the invariant.
LEMMA WriteL ==
  ASSUME LInv, RInv', NEW p \in Procs, NEW m, NEW t \in Slots, StepOf(p, m), Writing(p, t), NoPanic',
         pr[p].pc \notin Puts, m.pc \notin {"iput_free", "iput_done", "cr_new"},
         t \in pr[p].lk, m.lk = pr[p].lk \ {t},
         \A s \in Slots : s \in {m.cur, m.ip, m.dp, m.arg, cwd'[p], ofile'[p]} => s \in PtrsOf(p),
         LockOK(m), PlaceOK(m, icache', dinode', dents'), TreeInv(dinode', dents'), CoverInv'
  PROVE  LInv'
<1>1. RInv /\ LockInv /\ \A s \in Slots : icache[s].ref \in Nat
  BY Parts DEF RInv, TypeOK, CacheOK, Caches
<1>2. LockInv'
  <2>1. LockMoves({t})
    <3>1. \A s \in Slots : icache[s].ref = 0 => ~(icache'[s].ref > 0)
      BY DEF Writing
    <3> QED
      BY <3>1 DEF LockMoves, Writing
  <2>2. {t} \subseteq pr[p].lk /\ m.pc \notin {"iput_free", "iput_done"}
    OBVIOUS
  <2> QED
    BY <1>1, <2>1, <2>2, UnlockStep
<1>3. CacheMoves(p, m)
  BY WriteCache
<1>4. RefMoves(p)
  <2>1. \A s \in Slots : icache'[s].ref = icache[s].ref
    BY DEF Writing
  <2> QED
    BY <1>1, <2>1 DEF RefMoves
<1>5. PtrMoves(p, m)
  BY DEF PtrMoves
<1>6. DiskMoves(p)
  <2>1. \A i \in Inums : dinode'[i].type = dinode[i].type
    BY DEF Writing
  <2>2. ASSUME NEW s \in Slots, icache[s].ref > 0, s \notin pr[p].lk, NEW n \in Names
        PROVE  dents'[Num(s)][n] = dents[Num(s)][n]
    BY <2>2, NotWritten
  <2>3. ASSUME NEW s \in Slots, icache[s].ref > 0, s \notin PtrsOf(p)
        PROVE  /\ dinode'[Num(s)].nlink = dinode[Num(s)].nlink /\ dents'[Num(s)] = dents[Num(s)]
               /\ \A i \in Inums, n \in Names : dents'[i][n] = Num(s) => dents[i][n] = Num(s)
    <3>1. s \notin pr[p].lk
      BY <1>1, <2>3, HolderIs DEF Holder
    <3>2. Num(s) \in Inums /\ dinode'[Num(s)].nlink = dinode[Num(s)].nlink /\ dents'[Num(s)] = dents[Num(s)]
      BY <2>3, <3>1, NotWritten
    <3>3. \A u \in Slots : u \in PtrsOf(p) => Num(u) # Num(s)
      BY <1>1, <2>3, PointedBy, NumApart DEF AllPtrs
    <3>4. Num(s) # Nil
      BY <3>2, SlotsNat
    <3>5. \A i \in Inums, n \in Names : dents'[i][n] = Num(s) => dents[i][n] = Num(s)
      BY <3>3, <3>4 DEF Writing
    <3> QED
      BY <3>2, <3>5
  <2> QED
    BY <2>1, <2>2, <2>3 DEF DiskMoves
<1> QED
  BY <1>2, <1>3, <1>4, <1>5, <1>6, StepL

----------------------------------------------------------------------------
(* Link counts.                                                            *)

Bit(b) == IF b THEN 1 ELSE 0

\* A finite set that has no more elements than another one, but for x.
LEMMA CardMost ==
  ASSUME NEW S, NEW T, IsFiniteSet(S), IsFiniteSet(T), NEW x, T \ {x} \subseteq S \ {x}
  PROVE  /\ Cardinality(S) \in Nat /\ Cardinality(T) \in Nat
         /\ Cardinality(T) + Bit(x \in S) =< Cardinality(S) + Bit(x \in T)
<1>1. /\ IsFiniteSet(S \ {x}) /\ Cardinality(S \ {x}) \in Nat
      /\ Cardinality(S) = Cardinality(S \ {x}) + Bit(x \in S)
  BY CountOne DEF Bit
<1>2. Cardinality(T \ {x}) \in Nat /\ Cardinality(T) = Cardinality(T \ {x}) + Bit(x \in T)
  BY CountOne DEF Bit
<1>3. Cardinality(T \ {x}) =< Cardinality(S \ {x})
  BY <1>1, FS_Subset
<1>4. Bit(x \in S) \in Nat /\ Bit(x \in T) \in Nat
  BY DEF Bit
<1> QED
  BY <1>1, <1>2, <1>3, <1>4

\* A link count that changes by as much as what it has to cover, when that
\* loses names, subdirectories and owed links, but for x, y and z.
LEMMA DueStep ==
  ASSUME RInv, RInv', CoverInv, NEW i \in Inums, NEW x, NEW y, NEW z,
         Named(i)' \ {x} \subseteq Named(i) \ {x}, Subdirs(i)' \ {y} \subseteq Subdirs(i) \ {y},
         Pend(i)' \ {z} \subseteq Pend(i) \ {z},
         dinode'[i].nlink + Bit(x \in Named(i)) + Bit(y \in Subdirs(i)) + Bit(z \in Pend(i))
           >= dinode[i].nlink + Bit(x \in Named(i)') + Bit(y \in Subdirs(i)') + Bit(z \in Pend(i)')
  PROVE  dinode'[i].nlink >= Due(i)'
<1>1. /\ IsFiniteSet(Named(i)) /\ IsFiniteSet(Subdirs(i)) /\ IsFiniteSet(Pend(i))
      /\ IsFiniteSet(Named(i)') /\ IsFiniteSet(Subdirs(i)') /\ IsFiniteSet(Pend(i)')
      /\ One(i, ROOTINO) \in Nat
  BY DueFinite, DueFiniteNext
<1>2. PICK a, b, c, d, e, f : /\ a = Cardinality(Named(i)) /\ b = Cardinality(Named(i)')
                              /\ c = Cardinality(Subdirs(i)) /\ d = Cardinality(Subdirs(i)')
                              /\ e = Cardinality(Pend(i)) /\ f = Cardinality(Pend(i)')
  OBVIOUS
<1>3. a \in Nat /\ b \in Nat /\ b + Bit(x \in Named(i)) =< a + Bit(x \in Named(i)')
  BY <1>1, <1>2, CardMost
<1>4. c \in Nat /\ d \in Nat /\ d + Bit(y \in Subdirs(i)) =< c + Bit(y \in Subdirs(i)')
  BY <1>1, <1>2, CardMost
<1>5. e \in Nat /\ f \in Nat /\ f + Bit(z \in Pend(i)) =< e + Bit(z \in Pend(i)')
  BY <1>1, <1>2, CardMost
<1>6. dinode[i].nlink \in Int /\ dinode'[i].nlink \in Int
  BY DEF RInv, TypeOK
<1>7. dinode[i].nlink >= a + c + e + One(i, ROOTINO)
  BY <1>2 DEF CoverInv, Due
<1>8. /\ Bit(x \in Named(i)) \in Nat /\ Bit(y \in Subdirs(i)) \in Nat /\ Bit(z \in Pend(i)) \in Nat
      /\ Bit(x \in Named(i)') \in Nat /\ Bit(y \in Subdirs(i)') \in Nat /\ Bit(z \in Pend(i)') \in Nat
  BY DEF Bit
<1>9. dinode'[i].nlink >= b + d + f + One(i, ROOTINO)
  BY <1>1, <1>3, <1>4, <1>5, <1>6, <1>7, <1>8
<1> QED
  BY <1>2, <1>9 DEF Due

\* d links of a locked inode are counted, and it is unlocked.
LEMMA LinksWrite ==
  ASSUME LInv, NEW p \in Procs, NEW t \in Slots, t \in pr[p].lk, NEW d \in Int,
         icache' = iunlock(Links(icache, t, d), t), dinode' = iupdate(Links(icache, t, d), {t})
  PROVE  /\ \A s \in Slots : /\ icache'[s].ref = icache[s].ref /\ icache'[s].inum = icache[s].inum
                             /\ icache'[s].valid = icache[s].valid /\ icache'[s].type = icache[s].type
                             /\ s = t => ~icache'[s].busy
                             /\ s # t => icache'[s].busy = icache[s].busy
                             /\ s # t => icache'[s].nlink = icache[s].nlink
                             /\ s \in pr[p].lk => dinode'[Num(s)].nlink = icache'[s].nlink
         /\ \A i \in Inums : dinode'[i].type = dinode[i].type
         /\ \A i \in Inums : i # Num(t) => dinode'[i].nlink = dinode[i].nlink
         /\ Num(t) \in Inums /\ dinode'[Num(t)].nlink = dinode[Num(t)].nlink + d
<1>1. RInv /\ icache \in Caches
  BY Parts, Typed
<1>2. PICK c : c = Links(icache, t, d)
  OBVIOUS
<1>3. /\ c \in Caches
      /\ \A s \in Slots : /\ c[s].ref = icache[s].ref /\ c[s].inum = icache[s].inum
                          /\ c[s].valid = icache[s].valid /\ c[s].type = icache[s].type
                          /\ c[s].busy = icache[s].busy
                          /\ c[s].nlink = IF s = t THEN icache[s].nlink + d ELSE icache[s].nlink
  BY <1>1, <1>2, LinksIs
<1>4. icache' = iunlock(c, t) /\ dinode' = iupdate(c, {t})
  BY <1>2
<1>5. \A s \in Slots : /\ icache'[s].ref = c[s].ref /\ icache'[s].inum = c[s].inum
                       /\ icache'[s].valid = c[s].valid /\ icache'[s].type = c[s].type
                       /\ icache'[s].nlink = c[s].nlink
                       /\ s = t => ~icache'[s].busy
                       /\ s # t => icache'[s].busy = c[s].busy
  BY <1>3, <1>4, UnlockEach
<1>6. {t} \in SUBSET Slots
  OBVIOUS
<1>7. \A i \in Inums : i # Num(t) => dinode'[i] = dinode[i]
  BY <1>1, <1>3, <1>4, <1>6, IupdateIs DEF Num
<1>8. /\ Num(t) \in Inums /\ dinode[Num(t)].type = icache[t].type /\ dinode[Num(t)].nlink = icache[t].nlink
      /\ icache[t].ref > 0
  BY LockedIs
<1>9. dinode'[Num(t)].type = c[t].type /\ dinode'[Num(t)].nlink = c[t].nlink
  BY <1>1, <1>3, <1>4, <1>6, <1>8, IupdateIs DEF Num
<1>10. \A i \in Inums : dinode'[i].type = dinode[i].type
  BY <1>3, <1>7, <1>8, <1>9
<1>11. ASSUME NEW s \in Slots, s \in pr[p].lk PROVE dinode'[Num(s)].nlink = icache'[s].nlink
  <2>1. CASE s = t
    BY <1>5, <1>9, <2>1
  <2>2. CASE s # t
    <3>1. Num(s) \in Inums /\ dinode[Num(s)].nlink = icache[s].nlink /\ icache[s].ref > 0
      BY <1>11, LockedIs
    <3>2. Num(s) # Num(t)
      BY <1>1, <1>8, <2>2, <3>1, NumApart
    <3> QED
      BY <1>3, <1>5, <1>7, <2>2, <3>1, <3>2
  <2> QED
    BY <2>1, <2>2
<1>12. dinode'[Num(t)].nlink = dinode[Num(t)].nlink + d
  BY <1>3, <1>8, <1>9
<1>13. \A s \in Slots : /\ icache'[s].ref = icache[s].ref /\ icache'[s].inum = icache[s].inum
                        /\ icache'[s].valid = icache[s].valid /\ icache'[s].type = icache[s].type
                        /\ s = t => ~icache'[s].busy
                        /\ s # t => icache'[s].busy = icache[s].busy
                        /\ s # t => icache'[s].nlink = icache[s].nlink
  BY <1>3, <1>5
<1> QED
  BY <1>7, <1>8, <1>10, <1>11, <1>12, <1>13

\* A change of link counts, but for free inodes.
LEMMA TreeKept ==
  ASSUME NEW dn, NEW en, NEW de, TreeInv(dn, de), \A i \in Inums : en[i].type = dn[i].type,
         \A i \in Inums : en[i].nlink = dn[i].nlink \/ dn[i].type # "0"
  PROVE  TreeInv(en, de)
<1>1. ROOTINO \in Inums
  BY InodesAssumption
<1>2. \A i \in Inums : en[i].type = "0" => en[i].nlink = 0
  BY DEF TreeInv
<1> QED
  BY <1>1, <1>2 DEF TreeInv

\* A step that counts links of the inode of the call, as many as the call
\* then owes more.
LEMMA CountL ==
  ASSUME LInv, RInv', NEW p \in Procs, NEW m, NEW d \in Int, StepOf(p, m),
         pr[p].pc \in {"un_end", "ln_bad", "ln"}, pr[p].ip \in pr[p].lk,
         icache' = iunlock(Links(icache, pr[p].ip, d), pr[p].ip),
         dinode' = iupdate(Links(icache, pr[p].ip, d), {pr[p].ip}), dents' = dents, panicked' = panicked,
         m.lk = {}, m.pc \in {"iput", "ln_new"}, LockOK(m), PlaceOK(m, icache', dinode', dents'),
         \A s \in Slots : s \in {m.cur, m.ip, m.dp, m.arg, cwd'[p], ofile'[p]} => s \in PtrsOf(p),
         Owes(m) => m.ip = pr[p].ip, d + Bit(Owes(pr[p])) = Bit(Owes(m))
  PROVE  LInv'
<1>1. PICK t : t = pr[p].ip
  OBVIOUS
<1>2. RInv /\ CoverInv /\ TreeInv(dinode, dents) /\ LockOK(pr[p]) /\ Place(pr[p]) = pr[p].pc
      /\ pr[p].pc \notin Puts
  BY Parts DEF Place, Puts
<1>3. t \in Slots /\ t \in pr[p].lk
  BY <1>1, <1>2, StackIs DEF IpAt
<1>4. pr[p].lk = {t}
  BY <1>1, <1>2, <1>3 DEF LockOK, DpAt
<1>5. /\ \A s \in Slots : /\ icache'[s].ref = icache[s].ref /\ icache'[s].inum = icache[s].inum
                          /\ icache'[s].valid = icache[s].valid /\ icache'[s].type = icache[s].type
                          /\ s = t => ~icache'[s].busy
                          /\ s # t => icache'[s].busy = icache[s].busy
                          /\ s # t => icache'[s].nlink = icache[s].nlink
                          /\ s \in pr[p].lk => dinode'[Num(s)].nlink = icache'[s].nlink
      /\ \A i \in Inums : dinode'[i].type = dinode[i].type
      /\ \A i \in Inums : i # Num(t) => dinode'[i].nlink = dinode[i].nlink
      /\ Num(t) \in Inums /\ dinode'[Num(t)].nlink = dinode[Num(t)].nlink + d
  BY <1>1, <1>3, LinksWrite
<1>6. Writing(p, t)
  BY <1>3, <1>4, <1>5 DEF Writing
<1>7. TreeInv(dinode', dents')
  <2>1. dinode[Num(t)].type # "0"
    BY <1>3, LockedIs
  <2>2. \A i \in Inums : dinode'[i].nlink = dinode[i].nlink \/ dinode[i].type # "0"
    BY <1>5, <2>1
  <2>3. TreeInv(dinode', dents)
    <3>1. PICK dn, en, de : dn = dinode /\ en = dinode' /\ de = dents
      OBVIOUS
    <3>2. /\ TreeInv(dn, de) /\ \A i \in Inums : en[i].type = dn[i].type
          /\ \A i \in Inums : en[i].nlink = dn[i].nlink \/ dn[i].type # "0"
      BY <1>2, <1>5, <2>2, <3>1
    <3>3. TreeInv(en, de)
      BY <3>2, TreeKept
    <3> QED
      BY <3>1, <3>3
  <2> QED
    BY <2>3
<1>8. CoverInv'
  <2> SUFFICES ASSUME NEW i \in Inums PROVE dinode'[i].nlink >= Due(i)'
    BY DEF CoverInv
  <2>1. Named(i)' = Named(i) /\ Subdirs(i)' = Subdirs(i)
    BY DEF Named, Subdirs
  <2>2. CacheMoves(p, m)
    BY <1>2, <1>6, WriteCache
  <2>3. /\ Pend(i)' \ {p} = Pend(i) \ {p}
        /\ p \in Pend(i)' <=> Owes(m) /\ icache'[m.ip].inum = i
        /\ p \in Pend(i) <=> Owes(pr[p]) /\ icache[pr[p].ip].inum = i
    BY <1>2, <2>2, PendStep
  <2>4. dinode[i].nlink \in Int /\ dinode'[i].nlink \in Int
    BY <1>2 DEF RInv, TypeOK
  <2>5. dinode'[i].nlink + Bit(p \in Pend(i)) = dinode[i].nlink + Bit(p \in Pend(i)')
    <3>1. CASE i = Num(t)
      <4>1. (p \in Pend(i)' <=> Owes(m)) /\ (p \in Pend(i) <=> Owes(pr[p]))
        BY <1>1, <1>3, <1>5, <2>3, <3>1 DEF Num
      <4> QED
        BY <1>5, <2>4, <3>1, <4>1 DEF Bit
    <3>2. CASE i # Num(t)
      <4>1. p \notin Pend(i)' /\ p \notin Pend(i)
        BY <1>1, <1>3, <1>5, <2>3, <3>2 DEF Num
      <4> QED
        BY <1>5, <2>4, <3>2, <4>1 DEF Bit
    <3> QED
      BY <3>1, <3>2
  <2>6. dinode'[i].nlink + Bit(p \in Named(i)) + Bit(p \in Subdirs(i)) + Bit(p \in Pend(i))
           >= dinode[i].nlink + Bit(p \in Named(i)') + Bit(p \in Subdirs(i)') + Bit(p \in Pend(i)')
    BY <2>1, <2>4, <2>5 DEF Bit
  <2> QED
    BY <1>2, <2>1, <2>3, <2>6, DueStep
<1>9. NoPanic'
  BY DEF LInv, NoPanic
<1>10. m.pc \notin {"iput_free", "iput_done", "cr_new"} /\ m.lk = pr[p].lk \ {t}
  BY <1>4
<1> QED
  BY <1>2, <1>3, <1>6, <1>7, <1>8, <1>9, <1>10, WriteL

\* The end of unlink(), and of a link() that failed.
LEMMA TakenBackL == ASSUME LInv, RInv', NEW p \in Procs, UnEnd(p) \/ LnBad(p) PROVE LInv'
<1> DEFINE r == pr[p]
<1>a. PICK m : m = Iput([r EXCEPT !.ip = Nil], r.ip, "user")
  OBVIOUS
<1>1. /\ r.pc \in {"un_end", "ln_bad"} /\ icache' = iunlock(Links(icache, r.ip, -1), r.ip) /\ Set(p, m)
      /\ dinode' = iupdate(Links(icache, r.ip, -1), {r.ip}) /\ UNCHANGED <<dents, cwd, ofile, panicked>>
  BY <1>a DEF UnEnd, LnBad, At, Running
<1>b. /\ RInv /\ LockOK(r) /\ PlaceOK(r, icache, dinode, dents) /\ r \in Stacks /\ Shape(r)
      /\ Place(r) = r.pc /\ r.pc \notin Puts
  BY <1>1, Parts DEF Place, Puts
<1>2. r.ip \in r.lk
  <2>1. CASE UnEnd(p)
    <3>1. r.pc = "un_end"
      BY <2>1 DEF UnEnd, Running
    <3> QED
      BY <1>b, <3>1 DEF LockOK
  <2>2. CASE LnBad(p)
    BY <2>2, AtIs DEF LnBad
  <2> QED
    BY <2>1, <2>2
<1>3. StepOf(p, m)
  BY <1>1, <1>b, SetStep
<1>4. /\ m.pc = "iput" /\ m.k = "user" /\ m.cur = r.cur /\ m.dp = r.dp /\ m.ip = Nil /\ m.arg = r.ip
      /\ m.lk = r.lk \ {r.ip} /\ m.path = r.path
  BY <1>b, <1>a DEF Stacks, Iput
<1>5. Place(m) = "user"
  BY <1>4 DEF Place, Puts
<1>6. m.lk = {}
  BY <1>1, <1>4, <1>b DEF LockOK, DpAt
<1>7. LockOK(m)
  BY <1>4, <1>5, <1>6 DEF LockOK
<1>8. ~Owes(m) /\ Owes(r) /\ ~Linking(m)
  BY <1>1, <1>5, <1>b DEF Owes, Linking
<1>9. PlaceOK(m, icache', dinode', dents')
  BY <1>b, <1>4, <1>5, <1>8 DEF PlaceOK, DpAt
<1>10. \A s \in Slots : s \in {m.cur, m.ip, m.dp, m.arg, cwd'[p], ofile'[p]} => s \in PtrsOf(p)
  BY <1>1, <1>4, SlotsNat DEF PtrsOf
<1>11. r.pc \in {"un_end", "ln_bad", "ln"} /\ m.pc \in {"iput", "ln_new"}
  BY <1>1, <1>4
<1>12. -1 \in Int /\ -1 + Bit(Owes(r)) = Bit(Owes(m))
  BY <1>8 DEF Bit
<1>13. dents' = dents /\ panicked' = panicked
  BY <1>1
<1> QED
  BY <1>1, <1>2, <1>3, <1>6, <1>7, <1>8, <1>9, <1>10, <1>11, <1>12, <1>13, CountL

\* link() counts the link.
LEMMA LnCountL == ASSUME LInv, RInv', NEW p \in Procs, LnCount(p) PROVE LInv'
<1> DEFINE r == pr[p]
<1>a. PICK m : m = [r EXCEPT !.pc = "ln_new", !.lk = {}]
  OBVIOUS
<1>1. /\ r.pc = "ln" /\ icache' = iunlock(Links(icache, r.ip, 1), r.ip) /\ Set(p, m)
      /\ dinode' = iupdate(Links(icache, r.ip, 1), {r.ip}) /\ UNCHANGED <<dents, cwd, ofile, panicked>>
      /\ ~IsDir(r.ip)
  BY <1>a DEF LnCount, At, Running, LnMore
<1>b. /\ RInv /\ LockOK(r) /\ PlaceOK(r, icache, dinode, dents) /\ r \in Stacks /\ Shape(r)
      /\ Place(r) = r.pc /\ r.pc \notin Puts
  BY <1>1, Parts DEF Place, Puts
<1>2. r.ip \in r.lk /\ r.ip \in Slots
  BY AtIs DEF LnCount
<1>3. StepOf(p, m)
  BY <1>1, <1>b, SetStep
<1>4. /\ m.pc = "ln_new" /\ m.k = r.k /\ m.cur = r.cur /\ m.dp = r.dp /\ m.ip = r.ip /\ m.arg = r.arg
      /\ m.lk = {} /\ m.path = r.path
  BY <1>b, <1>a DEF Stacks
<1>5. Place(m) = "ln_new" /\ r.arg = Nil
  BY <1>4, <1>b DEF Place, Puts, Shape
<1>6. LockOK(m)
  BY <1>4, <1>5 DEF LockOK
<1>7. Owes(m) /\ ~Owes(r)
  BY <1>1, <1>5, <1>b DEF Owes, Linking
<1>8. PlaceOK(m, icache', dinode', dents')
  <2>1. Num(r.ip) \in Inums /\ dinode[Num(r.ip)].type = icache[r.ip].type /\ dinode[Num(r.ip)].type # "0"
    BY <1>2, LockedIs
  <2>2. dinode[Num(r.ip)].type = "FILE"
    BY <1>1, <1>b, <2>1 DEF IsDir, RInv, TypeOK, Types
  <2>3. icache'[r.ip].inum = Num(r.ip) /\ dinode'[Num(r.ip)].type = dinode[Num(r.ip)].type
    <3>1. PICK t : t = r.ip
      OBVIOUS
    <3>2. /\ t \in Slots /\ t \in pr[p].lk /\ icache' = iunlock(Links(icache, t, 1), t)
          /\ dinode' = iupdate(Links(icache, t, 1), {t}) /\ 1 \in Int
      BY <1>1, <1>2, <3>1
    <3>3. icache'[t].inum = icache[t].inum /\ \A i \in Inums : dinode'[i].type = dinode[i].type
      BY <3>2, LinksWrite
    <3> QED
      BY <2>1, <3>1, <3>3 DEF Num
  <2> QED
    BY <1>b, <1>4, <1>5, <2>2, <2>3 DEF PlaceOK, DpAt
<1>9. \A s \in Slots : s \in {m.cur, m.ip, m.dp, m.arg, cwd'[p], ofile'[p]} => s \in PtrsOf(p)
  BY <1>1, <1>4, <1>5, SlotsNat DEF PtrsOf
<1>10. r.pc \in {"un_end", "ln_bad", "ln"} /\ m.pc \in {"iput", "ln_new"} /\ m.lk = {} /\ m.ip = r.ip
  BY <1>1, <1>4
<1>11. 1 \in Int /\ 1 + Bit(Owes(r)) = Bit(Owes(m))
  BY <1>7 DEF Bit
<1>12. dents' = dents /\ panicked' = panicked
  BY <1>1
<1> QED
  BY <1>1, <1>2, <1>3, <1>6, <1>7, <1>8, <1>9, <1>10, <1>11, <1>12, CountL

----------------------------------------------------------------------------
(* A directory entry is written.                                           *)

\* Two sets that are the same without an element that none of them has.
LEMMA Without == ASSUME NEW S, NEW T, NEW x, S \ {x} = T \ {x}, x \notin S, x \notin T PROVE S = T
OBVIOUS

\* One entry changes, and perhaps some "..".
LEMMA NamedStep ==
  ASSUME NEW j \in Inums, NEW nm \in Names,
         \A x \in Inums, n \in Names : ~(x = j /\ n = nm) => dents'[x][n] = dents[x][n], NEW y
  PROVE  /\ Named(y)' \ {<<j, nm>>} = Named(y) \ {<<j, nm>>}
         /\ <<j, nm>> \in Named(y) <=> dents[j][nm] = y
         /\ <<j, nm>> \in Named(y)' <=> dents'[j][nm] = y
<1>1. \A z \in Inums \X Names : z = <<z[1], z[2]>> /\ z[1] \in Inums /\ z[2] \in Names
  OBVIOUS
<1>2. Named(y) = {z \in Inums \X Names : dents[z[1]][z[2]] = y}
  BY DEF Named
<1>3. Named(y)' = {z \in Inums \X Names : dents'[z[1]][z[2]] = y}
  BY DEF Named
<1>4. <<j, nm>> \in Inums \X Names
  OBVIOUS
<1>5. ASSUME NEW z \in Inums \X Names, z # <<j, nm>> PROVE z \in Named(y)' <=> z \in Named(y)
  <2>1. ~(z[1] = j /\ z[2] = nm)
    BY <1>1, <1>5
  <2> QED
    BY <1>1, <1>2, <1>3, <2>1
<1>6. Named(y)' \ {<<j, nm>>} = Named(y) \ {<<j, nm>>}
  BY <1>2, <1>3, <1>5
<1> QED
  BY <1>2, <1>3, <1>4, <1>6

\* An entry of the directories D is written.
LEMMA DentIs ==
  ASSUME NEW D \in [Inums -> [Elems -> Inums \cup {Nil}]], NEW j \in Inums, NEW nm \in Elems, NEW i
  PROVE  /\ [D EXCEPT ![j][nm] = i][j][nm] = i
         /\ \A x \in Inums, n \in Elems : ~(x = j /\ n = nm) => [D EXCEPT ![j][nm] = i][x][n] = D[x][n]
         /\ \A x \in Inums : x # j => [D EXCEPT ![j][nm] = i][x] = D[x]
OBVIOUS

\* Another name of a file.
LEMMA TreeName ==
  ASSUME NEW dn, NEW de, NEW D, TreeInv(dn, de), NEW i \in Inums, NEW j \in Inums, NEW nm \in Names,
         dn[i].type = "FILE", dn[j].type = "DIR", D[j][nm] = i,
         \A x \in Inums, n \in Elems : ~(x = j /\ n = nm) => D[x][n] = de[x][n]
  PROVE  TreeInv(dn, D)
<1>1. ROOTINO \in Inums /\ Up \notin Names /\ Nil \notin Inums /\ Up \in Elems /\ Names \subseteq Elems
  BY InodesAssumption, SlotsNat DEF Elems
<1>2. \A x \in Inums, n \in Names : ~(x = j /\ n = nm) => D[x][n] = de[x][n]
  BY <1>1
<1>3. \A x \in Inums : D[x][Up] = de[x][Up]
  BY <1>1
<1>4. i # j /\ i # ROOTINO
  BY DEF TreeInv
<1>5. \A n \in Names : D[i][n] = Nil
  BY <1>1, <1>2, <1>4 DEF TreeInv, Bare
<1>6. \A x \in Inums : dn[x].type # "DIR" => Bare(D, x)
  BY DEF TreeInv, Bare
<1>7. \A x \in Inums, n \in Names : D[x][n] # ROOTINO
  BY <1>2, <1>4 DEF TreeInv
<1>8. \A x, d \in Inums, n \in Names : D[x][n] = d /\ dn[d].type = "DIR" => D[d][Up] = x
  BY <1>2, <1>3 DEF TreeInv
<1>9. \A x, y, d \in Inums, n, m \in Names :
        D[x][n] = d /\ D[y][m] = d /\ dn[d].type = "DIR" => x = y /\ n = m
  <2> SUFFICES ASSUME NEW x \in Inums, NEW y \in Inums, NEW d \in Inums, NEW n \in Names, NEW m \in Names,
                      D[x][n] = d, D[y][m] = d, dn[d].type = "DIR"
               PROVE  x = y /\ n = m
    OBVIOUS
  <2>1. de[x][n] = d /\ de[y][m] = d
    BY <1>2
  <2> QED
    BY <2>1 DEF TreeInv
<1>10. \A x, y \in Inums, n, m \in Names : ~(D[x][n] = y /\ D[y][m] = x)
  <2> SUFFICES ASSUME NEW x \in Inums, NEW y \in Inums, NEW n \in Names, NEW m \in Names,
                      D[x][n] = y, D[y][m] = x
               PROVE  FALSE
    OBVIOUS
  <2>1. x # i /\ y # i
    BY <1>1, <1>5
  <2>2. de[x][n] = y /\ de[y][m] = x
    BY <1>2, <2>1
  <2> QED
    BY <2>2 DEF TreeInv
<1>11. dn[ROOTINO].type = "DIR" /\ \A x \in Inums : dn[x].type = "0" => dn[x].nlink = 0
  BY DEF TreeInv
<1> QED
  BY <1>6, <1>7, <1>8, <1>9, <1>10, <1>11 DEF TreeInv

\* link() writes the new name.
LEMMA LnNameL == ASSUME LInv, RInv', NEW p \in Procs, LnName(p) PROVE LInv'
<1> DEFINE r == pr[p]
<1>a. PICK m : m = Iput([r EXCEPT !.dp = Nil], r.dp, "ln_end")
  OBVIOUS
<1>b. PICK i, j, nm : i = Num(r.ip) /\ j = Num(r.dp) /\ nm = r.name
  OBVIOUS
<1>1. /\ r.pc = "ln_dp" /\ dents[j][nm] = Nil /\ dents' = [dents EXCEPT ![j][nm] = i]
      /\ icache' = iunlock(icache, r.dp) /\ Set(p, m)
      /\ UNCHANGED <<dinode, cwd, ofile, panicked>>
  BY <1>a, <1>b DEF LnName, At, Running, Look, Num
<1>c. /\ RInv /\ LockOK(r) /\ PlaceOK(r, icache, dinode, dents) /\ r \in Stacks /\ Shape(r)
      /\ Place(r) = r.pc /\ r.pc \notin Puts /\ TreeInv(dinode, dents) /\ CoverInv
  BY <1>1, Parts DEF Place, Puts
<1>2. r.dp \in r.lk /\ r.dp \in Slots /\ r.ip \in Slots
  BY <1>1, <1>c, AtIs, StackIs DEF LnName, IpAt
<1>3. /\ i \in Inums /\ j \in Inums /\ nm \in Names /\ nm \in Elems
      /\ dinode[i].type = "FILE" /\ dinode[j].type = "DIR"
  <2>1. i \in Inums /\ j \in Inums
    BY <1>2, <1>b, <1>c, PointedBy, StackIs DEF Num
  <2>2. Place(r) = "ln_dp"
    BY <1>1, <1>c
  <2> QED
    BY <1>b, <1>c, <2>1, <2>2 DEF PlaceOK, DpAt, Linking, Num, Elems
<1>4. StepOf(p, m)
  BY <1>1, <1>c, SetStep
<1>5. /\ m.pc = "iput" /\ m.k = "ln_end" /\ m.cur = r.cur /\ m.dp = Nil /\ m.ip = r.ip /\ m.arg = r.dp
      /\ m.lk = r.lk \ {r.dp} /\ m.path = r.path
  BY <1>c, <1>a DEF Stacks, Iput
<1>6. Place(m) = "ln_end"
  BY <1>5 DEF Place, Puts
<1>7. m.lk = {} /\ r.lk = {r.dp}
  BY <1>1, <1>2, <1>5, <1>c DEF LockOK, IpLock
<1>8. LockOK(m)
  BY <1>5, <1>6, <1>7 DEF LockOK
<1>9. ~Owes(m) /\ Owes(r) /\ ~Linking(m)
  BY <1>1, <1>6, <1>c DEF Owes, Linking
<1>10. PlaceOK(m, icache', dinode', dents')
  BY <1>c, <1>5, <1>6, <1>9 DEF PlaceOK, DpAt
<1>11. \A s \in Slots : s \in {m.cur, m.ip, m.dp, m.arg, cwd'[p], ofile'[p]} => s \in PtrsOf(p)
  BY <1>1, <1>5, SlotsNat DEF PtrsOf
<1>12. /\ dents'[j][nm] = i /\ \A x \in Inums, n \in Elems : ~(x = j /\ n = nm) => dents'[x][n] = dents[x][n]
       /\ \A x \in Inums : x # j => dents'[x] = dents[x]
  <2>1. dents \in [Inums -> [Elems -> Inums \cup {Nil}]]
    BY <1>c DEF RInv, TypeOK
  <2> QED
    BY <1>1, <1>3, <2>1, DentIs
<1>13. \A x \in Inums, n \in Names : ~(x = j /\ n = nm) => dents'[x][n] = dents[x][n]
  BY <1>12 DEF Elems
<1>14. Writing(p, r.dp)
  <2>1. \A s \in Slots : /\ icache'[s].ref = icache[s].ref /\ icache'[s].inum = icache[s].inum
                         /\ icache'[s].valid = icache[s].valid /\ icache'[s].type = icache[s].type
                         /\ icache'[s].nlink = icache[s].nlink
                         /\ s = r.dp => ~icache'[s].busy
                         /\ s # r.dp => icache'[s].busy = icache[s].busy
    <3>1. icache \in Caches
      BY <1>c, Typed
    <3> QED
      BY <1>1, <3>1, UnlockEach
  <2>2. \A s \in Slots : s \in r.lk => dinode'[Num(s)].nlink = icache'[s].nlink
    BY <1>1, <2>1, LockedIs
  <2>3. \A x \in Inums : (\A s \in Slots : s \in r.lk => Num(s) # x) =>
          dinode'[x].nlink = dinode[x].nlink /\ dents'[x] = dents[x]
    BY <1>1, <1>2, <1>12, <1>b
  <2>4. \A x \in Inums, n \in Names :
          \/ dents'[x][n] = dents[x][n] \/ dents'[x][n] = Nil
          \/ \E s \in Slots : s \in PtrsOf(p) /\ dents'[x][n] = Num(s)
    BY <1>2, <1>12, <1>13, <1>b DEF PtrsOf
  <2>5. \A x \in Inums : dinode'[x].type = dinode[x].type
    BY <1>1
  <2> QED
    BY <2>1, <2>2, <2>3, <2>4, <2>5 DEF Writing
<1>15. TreeInv(dinode', dents')
  <2>1. PICK dn, de, D : dn = dinode /\ de = dents /\ D = dents'
    OBVIOUS
  <2>2. /\ TreeInv(dn, de) /\ dn[i].type = "FILE" /\ dn[j].type = "DIR" /\ D[j][nm] = i
        /\ \A x \in Inums, n \in Elems : ~(x = j /\ n = nm) => D[x][n] = de[x][n]
    BY <1>3, <1>12, <1>c, <2>1
  <2>3. TreeInv(dn, D)
    BY <1>3, <2>2, TreeName
  <2>4. dinode' = dn
    BY <1>1, <2>1
  <2> QED
    BY <2>1, <2>3, <2>4
<1>16. CoverInv'
  <2> SUFFICES ASSUME NEW y \in Inums PROVE dinode'[y].nlink >= Due(y)'
    BY DEF CoverInv
  <2> DEFINE x == <<j, nm>>
  <2>1. \A z : /\ Named(z)' \ {x} = Named(z) \ {x}
               /\ x \in Named(z) <=> dents[j][nm] = z
               /\ x \in Named(z)' <=> dents'[j][nm] = z
    BY <1>3, <1>13, NamedStep
  <2>2. x \notin Named(y) /\ (x \in Named(y)' <=> y = i)
    BY <1>1, <1>12, <2>1, SlotsNat
  <2>3. Subdirs(y)' = Subdirs(y)
    <3>1. \A d \in Inums : dents'[d][Up] = dents[d][Up]
      BY <1>3, <1>12, InodesAssumption DEF Elems
    <3>2. dents[i][Up] = Nil
      BY <1>3, <1>c DEF TreeInv, Bare, Elems
    <3>3. ASSUME NEW d \in Inums, d # i PROVE Named(d)' = Named(d)
      <4>1. x \notin Named(d) /\ x \notin Named(d)'
        BY <1>1, <1>12, <2>1, <3>3, SlotsNat
      <4> HIDE DEF x
      <4> QED
        BY <2>1, <4>1, Without
    <3>4. \A d \in Inums : dents[d][Up] = y => d # i
      BY <3>2, SlotsNat
    <3>5. Subdirs(y) = {d \in Inums \ {ROOTINO} : dents[d][Up] = y /\ Named(d) # {}}
      BY DEF Subdirs
    <3>6. Subdirs(y)' = {d \in Inums \ {ROOTINO} : dents'[d][Up] = y /\ Named(d)' # {}}
      BY DEF Subdirs
    <3> QED
      BY <3>1, <3>3, <3>4, <3>5, <3>6
  <2>4. CacheMoves(p, m)
    BY <1>14, <1>c, WriteCache
  <2>5. /\ Pend(y)' \ {p} = Pend(y) \ {p}
        /\ p \in Pend(y)' <=> Owes(m) /\ icache'[m.ip].inum = y
        /\ p \in Pend(y) <=> Owes(pr[p]) /\ icache[pr[p].ip].inum = y
    BY <1>4, <1>c, <2>4, PendStep
  <2>6. p \notin Pend(y)' /\ (p \in Pend(y) <=> y = i)
    BY <1>9, <1>b, <2>5 DEF Num
  <2>7. dinode[y].nlink \in Int /\ dinode'[y].nlink = dinode[y].nlink
    BY <1>1, <1>c DEF RInv, TypeOK
  <2>8. dinode'[y].nlink + Bit(x \in Named(y)) + Bit(p \in Subdirs(y)) + Bit(p \in Pend(y))
           >= dinode[y].nlink + Bit(x \in Named(y)') + Bit(p \in Subdirs(y)') + Bit(p \in Pend(y)')
    BY <2>2, <2>3, <2>6, <2>7 DEF Bit
  <2> HIDE DEF x
  <2> QED
    BY <1>c, <2>1, <2>3, <2>5, <2>8, DueStep
<1>17. NoPanic'
  BY <1>1 DEF LInv, NoPanic
<1>18. m.pc \notin {"iput_free", "iput_done", "cr_new"} /\ m.lk = r.lk \ {r.dp} /\ r.pc \notin Puts
  BY <1>5, <1>c
<1> QED
  BY <1>2, <1>4, <1>8, <1>10, <1>11, <1>14, <1>15, <1>16, <1>17, <1>18, WriteL

\* Entries are erased, and inodes without entries freed.
LEMMA TreeLess ==
  ASSUME NEW dn, NEW en, NEW de, NEW D, TreeInv(dn, de),
         \A x \in Inums, n \in Elems : D[x][n] = de[x][n] \/ D[x][n] = Nil,
         \A d \in Inums : D[d][Up] = de[d][Up] \/ (\A x \in Inums, n \in Names : D[x][n] # d),
         \A x \in Inums : en[x].type = dn[x].type \/ (en[x].type = "0" /\ Bare(D, x)),
         \A x \in Inums : en[x].type = "0" => en[x].nlink = 0, en[ROOTINO].type = "DIR"
  PROVE  TreeInv(en, D)
<1>1. ROOTINO \in Inums /\ Nil \notin Inums /\ Names \subseteq Elems
  BY InodesAssumption, SlotsNat DEF Elems
<1>2. \A x \in Inums, n \in Names : D[x][n] \in Inums => D[x][n] = de[x][n]
  BY <1>1
<1>3. \A x \in Inums : en[x].type = "DIR" => dn[x].type = "DIR"
  OBVIOUS
<1>4. \A x \in Inums : en[x].type # "DIR" => Bare(D, x)
  <2> SUFFICES ASSUME NEW x \in Inums, en[x].type # "DIR" PROVE Bare(D, x)
    OBVIOUS
  <2>1. CASE en[x].type = dn[x].type
    <3>1. Bare(de, x)
      BY <2>1 DEF TreeInv
    <3> QED
      BY <3>1 DEF Bare
  <2> QED
    BY <2>1
<1>5. \A x \in Inums, n \in Names : D[x][n] # ROOTINO
  BY <1>1, <1>2 DEF TreeInv
<1>6. \A x, d \in Inums, n \in Names : D[x][n] = d /\ en[d].type = "DIR" => D[d][Up] = x
  BY <1>2, <1>3 DEF TreeInv
<1>7. \A x, y, d \in Inums, n, m \in Names :
        D[x][n] = d /\ D[y][m] = d /\ en[d].type = "DIR" => x = y /\ n = m
  <2> SUFFICES ASSUME NEW x \in Inums, NEW y \in Inums, NEW d \in Inums, NEW n \in Names, NEW m \in Names,
                      D[x][n] = d, D[y][m] = d, en[d].type = "DIR"
               PROVE  x = y /\ n = m
    OBVIOUS
  <2>1. de[x][n] = d /\ de[y][m] = d /\ dn[d].type = "DIR"
    BY <1>2, <1>3
  <2> QED
    BY <2>1 DEF TreeInv
<1>8. \A x, y \in Inums, n, m \in Names : ~(D[x][n] = y /\ D[y][m] = x)
  <2> SUFFICES ASSUME NEW x \in Inums, NEW y \in Inums, NEW n \in Names, NEW m \in Names,
                      D[x][n] = y, D[y][m] = x
               PROVE  FALSE
    OBVIOUS
  <2>1. de[x][n] = y /\ de[y][m] = x
    BY <1>2
  <2> QED
    BY <2>1 DEF TreeInv
<1> QED
  BY <1>4, <1>5, <1>6, <1>7, <1>8 DEF TreeInv

\* What unlink() erases: an entry of another inode, and the only one of it if
\* it is a directory.
LEMMA ErasedIs ==
  ASSUME LInv, NEW p \in Procs, Place(pr[p]) = "un_ip",
         NEW i, NEW j, NEW nm, i = Num(pr[p].ip), j = Num(pr[p].dp), nm = pr[p].name
  PROVE  /\ i \in Inums /\ j \in Inums /\ i # j /\ i # ROOTINO /\ nm \in Names /\ dents[j][nm] = i
         /\ pr[p].ip \in Slots /\ pr[p].dp \in Slots /\ pr[p].ip # pr[p].dp
         /\ Good(i) /\ dinode[j].type = "DIR"
         /\ dinode[i].type # "DIR" => Bare(dents, i)
         /\ dinode[i].type = "DIR" =>
              dents[i][Up] = j /\ \A x \in Inums, n \in Names : dents[x][n] = i => x = j /\ n = nm
<1>1. RInv /\ TreeInv(dinode, dents) /\ CoverInv /\ PlaceOK(pr[p], icache, dinode, dents)
  BY Parts
<1>2. Place(pr[p]) \in DpAt /\ Place(pr[p]) \in IpAt
  BY DEF DpAt, IpAt
<1>3. pr[p].ip \in Slots /\ pr[p].dp \in Slots /\ pr[p].ip \in AllPtrs(p) /\ pr[p].dp \in AllPtrs(p)
  BY <1>1, <1>2, StackIs
<1>4. i \in Inums /\ j \in Inums
  BY <1>1, <1>3, PointedBy DEF Num
<1>5. nm \in Names /\ dents[j][nm] = i /\ dinode[j].type = "DIR"
  BY <1>1, <1>2 DEF PlaceOK, Num
<1>6. i # j /\ i # ROOTINO
  BY <1>1, <1>4, <1>5 DEF TreeInv
<1>7. Good(i)
  BY <1>1, <1>4, <1>5, NamedGood
<1>8. /\ dinode[i].type # "DIR" => Bare(dents, i)
      /\ dinode[i].type = "DIR" => dents[i][Up] = j
  BY <1>1, <1>4, <1>5 DEF TreeInv
<1>9. dinode[i].type = "DIR" => \A x \in Inums, n \in Names : dents[x][n] = i => x = j /\ n = nm
  BY <1>1, <1>4, <1>5 DEF TreeInv
<1>10. pr[p].ip # pr[p].dp
  BY <1>6
<1> QED
  BY <1>3, <1>4, <1>5, <1>6, <1>7, <1>8, <1>9, <1>10

\* Names are erased, and with them subdirectories.
LEMMA SubdirsLess ==
  ASSUME NEW y, NEW e, \A d \in Inums \ {e} : dents'[d][Up] = dents[d][Up],
         \A d \in Inums \ {e} : Named(d)' \subseteq Named(d)
  PROVE  Subdirs(y)' \ {e} \subseteq Subdirs(y) \ {e}
<1>1. Subdirs(y) = {d \in Inums \ {ROOTINO} : dents[d][Up] = y /\ Named(d) # {}}
  BY DEF Subdirs
<1>2. Subdirs(y)' = {d \in Inums \ {ROOTINO} : dents'[d][Up] = y /\ Named(d)' # {}}
  BY DEF Subdirs
<1>3. ASSUME NEW d \in Inums \ {e}, Named(d)' # {} PROVE Named(d) # {}
  <2>1. Named(d)' \subseteq Named(d)
    OBVIOUS
  <2> QED
    BY <1>3, <2>1
<1> QED
  BY <1>1, <1>2, <1>3

\* unlink() erases the entry.
LEMMA UnEraseL == ASSUME LInv, RInv', NEW p \in Procs, UnErase(p) PROVE LInv'
<1> DEFINE r == pr[p]
<1>a. PICK m : m = Iput([r EXCEPT !.dp = Nil], r.dp, "un_end")
  OBVIOUS
<1>b. PICK i, j, nm, t : i = Num(r.ip) /\ j = Num(r.dp) /\ nm = r.name /\ t = r.dp
  OBVIOUS
<1>c. PICK d : d = IF IsDir(r.ip) THEN -1 ELSE 0
  OBVIOUS
<1>1. /\ r.pc = "un_ip" /\ dents' = [dents EXCEPT ![j][nm] = Nil] /\ Set(p, m)
      /\ icache' = iunlock(Links(icache, t, d), t)
      /\ dinode' = iupdate(Links(icache, t, d), {t})
      /\ panicked' = IF icache[r.ip].nlink < 1 THEN "unlink: nlink < 1" ELSE panicked
      /\ UNCHANGED <<cwd, ofile>>
  BY <1>a, <1>b, <1>c DEF UnErase, At, Running, Num
<1>d. /\ RInv /\ LockOK(r) /\ PlaceOK(r, icache, dinode, dents) /\ r \in Stacks /\ Shape(r)
      /\ Place(r) = "un_ip" /\ r.pc \notin Puts /\ TreeInv(dinode, dents) /\ CoverInv
  BY <1>1, Parts DEF Place, Puts
<1>2. r.ip \in r.lk /\ t \in r.lk
  BY <1>d, <1>b, AtIs DEF UnErase, LockOK
<1>3. /\ i \in Inums /\ j \in Inums /\ i # j /\ i # ROOTINO /\ nm \in Names /\ dents[j][nm] = i
      /\ r.ip \in Slots /\ t \in Slots /\ r.ip # t
      /\ Good(i) /\ dinode[j].type = "DIR"
      /\ dinode[i].type # "DIR" => Bare(dents, i)
      /\ dinode[i].type = "DIR" =>
           dents[i][Up] = j /\ \A x \in Inums, n \in Names : dents[x][n] = i => x = j /\ n = nm
  BY <1>b, <1>d, ErasedIs
<1>4. StepOf(p, m)
  BY <1>1, <1>d, SetStep
<1>5. /\ m.pc = "iput" /\ m.k = "un_end" /\ m.cur = r.cur /\ m.dp = Nil /\ m.ip = r.ip /\ m.arg = t
      /\ m.lk = r.lk \ {t} /\ m.path = r.path
  BY <1>d, <1>a, <1>b DEF Stacks, Iput
<1>6. Place(m) = "un_end"
  BY <1>5 DEF Place, Puts
<1>7. m.lk = {r.ip} /\ r.lk = {r.ip, t}
  BY <1>1, <1>2, <1>3, <1>5, <1>b, <1>d DEF LockOK
<1>8. LockOK(m)
  BY <1>5, <1>6, <1>7 DEF LockOK, IpLock
<1>9. Owes(m) /\ ~Owes(r) /\ ~Linking(m)
  BY <1>6, <1>d DEF Owes, Linking
<1>10. PlaceOK(m, icache', dinode', dents')
  BY <1>d, <1>5, <1>6, <1>9 DEF PlaceOK, DpAt
<1>11. \A s \in Slots : s \in {m.cur, m.ip, m.dp, m.arg, cwd'[p], ofile'[p]} => s \in PtrsOf(p)
  BY <1>1, <1>5, <1>b, SlotsNat DEF PtrsOf
<1>12. /\ dents'[j][nm] = Nil
       /\ \A x \in Inums, n \in Elems : ~(x = j /\ n = nm) => dents'[x][n] = dents[x][n]
       /\ \A x \in Inums : x # j => dents'[x] = dents[x]
  <2>1. dents \in [Inums -> [Elems -> Inums \cup {Nil}]] /\ nm \in Elems /\ j \in Inums
    BY <1>3, <1>d DEF RInv, TypeOK, Elems
  <2>2. dents' = [dents EXCEPT ![j][nm] = Nil]
    BY <1>1
  <2> QED
    BY <2>1, <2>2, DentIs
<1>13. /\ \A x \in Inums, n \in Names : ~(x = j /\ n = nm) => dents'[x][n] = dents[x][n]
       /\ \A x \in Inums : dents'[x][Up] = dents[x][Up]
  BY <1>3, <1>12, InodesAssumption DEF Elems
<1>14. /\ \A s \in Slots : /\ icache'[s].ref = icache[s].ref /\ icache'[s].inum = icache[s].inum
                           /\ icache'[s].valid = icache[s].valid /\ icache'[s].type = icache[s].type
                           /\ s = t => ~icache'[s].busy
                           /\ s # t => icache'[s].busy = icache[s].busy
                           /\ s # t => icache'[s].nlink = icache[s].nlink
                           /\ s \in pr[p].lk => dinode'[Num(s)].nlink = icache'[s].nlink
       /\ \A x \in Inums : dinode'[x].type = dinode[x].type
       /\ \A x \in Inums : x # j => dinode'[x].nlink = dinode[x].nlink
       /\ dinode'[j].nlink = dinode[j].nlink + d
  <2>1. d \in Int
    BY <1>c
  <2>2. j = Num(t)
    BY <1>b
  <2>3. /\ t \in Slots /\ t \in pr[p].lk
        /\ icache' = iunlock(Links(icache, t, d), t) /\ dinode' = iupdate(Links(icache, t, d), {t})
    BY <1>1, <1>2, <1>3
  <2> QED
    BY <2>1, <2>2, <2>3, LinksWrite
<1>15. Writing(p, t)
  <2>1. \A x \in Inums : (\A s \in Slots : s \in r.lk => Num(s) # x) =>
          dinode'[x].nlink = dinode[x].nlink /\ dents'[x] = dents[x]
    BY <1>2, <1>3, <1>12, <1>14, <1>b
  <2>2. \A x \in Inums, n \in Names : dents'[x][n] = dents[x][n] \/ dents'[x][n] = Nil
    BY <1>12, <1>13
  <2>3. \A s \in Slots : s \notin pr[p].lk => s # t
    BY <1>2
  <2> QED
    BY <1>14, <2>1, <2>2, <2>3 DEF Writing
<1>16. TreeInv(dinode', dents')
  <2>1. PICK dn, de, en, D : dn = dinode /\ de = dents /\ en = dinode' /\ D = dents'
    OBVIOUS
  <2>2. /\ TreeInv(dn, de)
        /\ \A x \in Inums, n \in Elems : D[x][n] = de[x][n] \/ D[x][n] = Nil
        /\ \A x \in Inums : D[x][Up] = de[x][Up]
        /\ \A x \in Inums : en[x].type = dn[x].type
    BY <1>12, <1>13, <1>14, <1>d, <2>1
  <2>3. \A x \in Inums : en[x].type = "0" => en[x].nlink = 0
    BY <1>3, <1>14, <1>d, <2>1 DEF TreeInv
  <2>4. en[ROOTINO].type = "DIR"
    BY <2>2, InodesAssumption DEF TreeInv
  <2>5. TreeInv(en, D)
    BY <2>2, <2>3, <2>4, TreeLess
  <2> QED
    BY <2>1, <2>5
<1>17. dinode[i].type = icache[r.ip].type /\ dinode[i].nlink = icache[r.ip].nlink
  BY <1>2, <1>3, <1>b, LockedIs
<1>18. CoverInv'
  <2> SUFFICES ASSUME NEW y \in Inums PROVE dinode'[y].nlink >= Due(y)'
    BY DEF CoverInv
  <2>1. PICK x : x = <<j, nm>>
    OBVIOUS
  <2>2. \A z : /\ Named(z)' \ {x} = Named(z) \ {x}
               /\ x \in Named(z) <=> dents[j][nm] = z
               /\ x \in Named(z)' <=> dents'[j][nm] = z
    BY <1>3, <1>13, <2>1, NamedStep
  <2>3. x \notin Named(y)' /\ (x \in Named(y) <=> y = i)
    BY <1>3, <1>12, <2>2, SlotsNat
  <2>4. \A z \in Inums : Named(z)' \subseteq Named(z)
    BY <1>12, <2>2, SlotsNat
  <2>5. Subdirs(y)' \ {i} \subseteq Subdirs(y) \ {i}
    BY <1>13, <2>4, SubdirsLess
  <2>6. /\ i \in Subdirs(y) <=> dents[i][Up] = y
        /\ i \in Subdirs(y)' <=> dents[i][Up] = y /\ Named(i)' # {}
    <3>1. Named(i) # {}
      BY <1>3, <2>2
    <3>2. Subdirs(y) = {z \in Inums \ {ROOTINO} : dents[z][Up] = y /\ Named(z) # {}}
      BY DEF Subdirs
    <3>3. Subdirs(y)' = {z \in Inums \ {ROOTINO} : dents'[z][Up] = y /\ Named(z)' # {}}
      BY DEF Subdirs
    <3> QED
      BY <1>3, <1>13, <3>1, <3>2, <3>3
  <2>7. dinode'[y].nlink + Bit(i \in Subdirs(y)) = dinode[y].nlink + Bit(i \in Subdirs(y)')
    <3>1. dinode[y].nlink \in Int
      BY <1>d DEF RInv, TypeOK
    <3>2. CASE dinode[i].type = "DIR"
      <4>1. Named(i)' = {}
        <5>1. ASSUME NEW z \in Named(i)' PROVE FALSE
          <6>1. z \in Inums \X Names /\ dents'[z[1]][z[2]] = i
            BY <5>1 DEF Named
          <6>2. dents[z[1]][z[2]] = i
            BY <1>3, <1>12, <1>13, <6>1, SlotsNat
          <6>3. z[1] = j /\ z[2] = nm
            BY <1>3, <3>2, <6>1, <6>2
          <6> QED
            BY <1>3, <1>12, <6>1, <6>3, SlotsNat
        <5> QED
          BY <5>1
      <4>2. d = -1
        BY <1>17, <1>c, <3>2 DEF IsDir
      <4>3. (i \in Subdirs(y) <=> y = j) /\ i \notin Subdirs(y)'
        BY <1>3, <2>6, <3>2, <4>1
      <4>4. dinode'[y].nlink = IF y = j THEN dinode[y].nlink - 1 ELSE dinode[y].nlink
        BY <1>14, <4>2
      <4> QED
        BY <3>1, <4>3, <4>4 DEF Bit
    <3>3. CASE dinode[i].type # "DIR"
      <4>1. d = 0
        BY <1>17, <1>c, <3>3 DEF IsDir
      <4>2. i \notin Subdirs(y) /\ i \notin Subdirs(y)'
        BY <1>3, <2>6, <3>3, SlotsNat DEF Bare, Elems
      <4>3. dinode'[y].nlink = dinode[y].nlink
        BY <1>14, <3>1, <4>1
      <4> QED
        BY <3>1, <4>2, <4>3 DEF Bit
    <3> QED
      BY <3>2, <3>3
  <2>8. CacheMoves(p, m)
    BY <1>15, <1>d, WriteCache
  <2>9. /\ Pend(y)' \ {p} = Pend(y) \ {p}
        /\ p \in Pend(y)' <=> Owes(m) /\ icache'[m.ip].inum = y
        /\ p \in Pend(y) <=> Owes(pr[p]) /\ icache[pr[p].ip].inum = y
    BY <1>4, <1>d, <2>8, PendStep
  <2>10. p \notin Pend(y) /\ (p \in Pend(y)' <=> y = i)
    BY <1>3, <1>5, <1>9, <1>14, <1>b, <2>9 DEF Num
  <2>11. dinode'[y].nlink + Bit(x \in Named(y)) + Bit(i \in Subdirs(y)) + Bit(p \in Pend(y))
           >= dinode[y].nlink + Bit(x \in Named(y)') + Bit(i \in Subdirs(y)') + Bit(p \in Pend(y)')
    <3>1. dinode[y].nlink \in Int /\ dinode'[y].nlink \in Int
      BY <1>d DEF RInv, TypeOK
    <3> QED
      BY <2>3, <2>7, <2>10, <3>1 DEF Bit
  <2> QED
    BY <1>d, <2>2, <2>5, <2>9, <2>11, DueStep
<1>19. NoPanic'
  <2>1. dinode[i].nlink >= 1 /\ dinode[i].nlink \in Int
    BY <1>3, <1>d DEF Good, RInv, TypeOK
  <2>2. ~(icache[r.ip].nlink < 1)
    BY <1>17, <2>1
  <2>3. panicked' = IF icache[r.ip].nlink < 1 THEN "unlink: nlink < 1" ELSE panicked
    BY <1>1
  <2>4. panicked' = panicked
    BY <2>2, <2>3
  <2> QED
    BY <2>4 DEF LInv, NoPanic
<1>20. m.pc \notin {"iput_free", "iput_done", "cr_new"} /\ r.pc \notin Puts /\ m.lk = r.lk \ {t}
  BY <1>5, <1>d
<1> QED
  BY <1>2, <1>3, <1>4, <1>8, <1>10, <1>11, <1>15, <1>16, <1>18, <1>19, <1>20, WriteL

\* A new inode gets its link.
OneLink(c, a) == [c EXCEPT ![a].nlink = 1]

\* It changes its link count and nothing else.
LEMMA FirstLink ==
  ASSUME NEW c \in Caches, NEW a \in Slots, NEW b, b = OneLink(c, a)
  PROVE  /\ b \in Caches
         /\ \A s \in Slots : /\ b[s].ref = c[s].ref /\ b[s].inum = c[s].inum
                             /\ b[s].valid = c[s].valid /\ b[s].type = c[s].type
                             /\ b[s].busy = c[s].busy
                             /\ s # a => b[s].nlink = c[s].nlink
                             /\ s = a => b[s].nlink = 1
<1>1. PICK e : e = [c[a] EXCEPT !.nlink = 1]
  OBVIOUS
<1>2. b = [c EXCEPT ![a] = e]
  BY <1>1 DEF OneLink
<1>3. /\ e \in [inum : Inums \cup {Nil}, ref : Nat, busy : BOOLEAN, valid : BOOLEAN, type : Types, nlink : Int]
      /\ e.ref = c[a].ref /\ e.inum = c[a].inum /\ e.valid = c[a].valid
      /\ e.type = c[a].type /\ e.busy = c[a].busy /\ e.nlink = 1
  BY <1>1, SMTT(30) DEF Caches
<1> QED
  BY <1>2, <1>3 DEF Caches

\* A new inode gets its link and its directory u links more; the directory
\* is unlocked.
LEMMA NewWrite ==
  ASSUME LInv, NEW p \in Procs, NEW a \in Slots, NEW t \in Slots, a # t, a \in pr[p].lk, t \in pr[p].lk,
         NEW u \in Int, NEW b \in Caches,
         \A s \in Slots : /\ b[s].ref = icache[s].ref /\ b[s].inum = icache[s].inum
                          /\ b[s].valid = icache[s].valid /\ b[s].type = icache[s].type
                          /\ b[s].busy = icache[s].busy
                          /\ s # a => b[s].nlink = icache[s].nlink
                          /\ s = a => b[s].nlink = 1,
         icache' = iunlock(Links(b, t, u), t), dinode' = iupdate(Links(b, t, u), {a, t})
  PROVE  /\ \A s \in Slots : /\ icache'[s].ref = icache[s].ref /\ icache'[s].inum = icache[s].inum
                             /\ icache'[s].valid = icache[s].valid /\ icache'[s].type = icache[s].type
                             /\ s = t => ~icache'[s].busy
                             /\ s # t => icache'[s].busy = icache[s].busy
                             /\ s \notin {a, t} => icache'[s].nlink = icache[s].nlink
                             /\ s \in pr[p].lk => dinode'[Num(s)].nlink = icache'[s].nlink
         /\ \A i \in Inums : dinode'[i].type = dinode[i].type
         /\ \A i \in Inums : i \notin {Num(a), Num(t)} => dinode'[i].nlink = dinode[i].nlink
         /\ dinode'[Num(t)].nlink = dinode[Num(t)].nlink + u /\ dinode'[Num(a)].nlink = 1
<1>1. RInv /\ icache \in Caches
  BY Parts, Typed
<1>2. PICK c : c = Links(b, t, u)
  OBVIOUS
<1>3. /\ c \in Caches
      /\ \A s \in Slots : /\ c[s].ref = b[s].ref /\ c[s].inum = b[s].inum
                          /\ c[s].valid = b[s].valid /\ c[s].type = b[s].type
                          /\ c[s].busy = b[s].busy
                          /\ c[s].nlink = IF s = t THEN b[s].nlink + u ELSE b[s].nlink
  BY <1>2, LinksIs
<1>4. icache' = iunlock(c, t) /\ dinode' = iupdate(c, {a, t}) /\ {a, t} \in SUBSET Slots
  BY <1>2
<1>5. \A s \in Slots : /\ icache'[s].ref = c[s].ref /\ icache'[s].inum = c[s].inum
                       /\ icache'[s].valid = c[s].valid /\ icache'[s].type = c[s].type
                       /\ icache'[s].nlink = c[s].nlink
                       /\ s = t => ~icache'[s].busy
                       /\ s # t => icache'[s].busy = c[s].busy
  BY <1>3, <1>4, UnlockEach
<1>6. /\ \A s \in Slots : /\ c[s].ref = icache[s].ref /\ c[s].inum = Num(s)
                          /\ c[s].valid = icache[s].valid /\ c[s].type = icache[s].type
                          /\ c[s].busy = icache[s].busy
                          /\ s \notin {a, t} => c[s].nlink = icache[s].nlink
      /\ c[a].nlink = 1 /\ c[t].nlink = icache[t].nlink + u
  BY <1>3 DEF Num
<1>7. \A s \in Slots : s \in pr[p].lk =>
        /\ Num(s) \in Inums /\ icache[s].ref > 0
        /\ dinode[Num(s)].type = icache[s].type /\ dinode[Num(s)].nlink = icache[s].nlink
  BY LockedIs
<1>8. \A s \in Slots, v \in Slots : s \in pr[p].lk /\ v \in pr[p].lk /\ s # v => Num(s) # Num(v)
  BY <1>1, <1>7, NumApart
<1>9. \A i \in Inums : i \notin {Num(a), Num(t)} => dinode'[i] = dinode[i]
  BY <1>1, <1>3, <1>4, <1>6, IupdateIs
<1>10. ASSUME NEW s \in {a, t}
       PROVE  dinode'[Num(s)].type = c[s].type /\ dinode'[Num(s)].nlink = c[s].nlink
  <2>1. \A v \in {a, t} : c[v].inum = Num(s) => v = s
    BY <1>6, <1>8
  <2>2. c[s].inum = Num(s) /\ Num(s) \in Inums
    BY <1>6, <1>7
  <2> QED
    BY <1>1, <1>3, <1>4, <2>1, <2>2, IupdateIs
<1>11. \A i \in Inums : dinode'[i].type = dinode[i].type
  BY <1>6, <1>7, <1>9, <1>10
<1>12. ASSUME NEW s \in Slots, s \in pr[p].lk PROVE dinode'[Num(s)].nlink = icache'[s].nlink
  <2>1. CASE s \in {a, t}
    BY <1>5, <1>10, <2>1
  <2>2. CASE s \notin {a, t}
    <3>1. icache'[s].nlink = icache[s].nlink
      BY <1>5, <1>6, <2>2
    <3>2. Num(s) \in Inums /\ Num(s) \notin {Num(a), Num(t)} /\ dinode[Num(s)].nlink = icache[s].nlink
      BY <1>7, <1>8, <1>12, <2>2
    <3> QED
      BY <1>9, <3>1, <3>2
  <2> QED
    BY <2>1, <2>2
<1>13. dinode'[Num(t)].nlink = dinode[Num(t)].nlink + u /\ dinode'[Num(a)].nlink = 1
  BY <1>6, <1>7, <1>10
<1>14. \A s \in Slots : /\ icache'[s].ref = icache[s].ref /\ icache'[s].inum = icache[s].inum
                        /\ icache'[s].valid = icache[s].valid /\ icache'[s].type = icache[s].type
                        /\ s = t => ~icache'[s].busy
                        /\ s # t => icache'[s].busy = icache[s].busy
                        /\ s \notin {a, t} => icache'[s].nlink = icache[s].nlink
  <2> SUFFICES ASSUME NEW s \in Slots
               PROVE  /\ icache'[s].ref = icache[s].ref /\ icache'[s].inum = icache[s].inum
                      /\ icache'[s].valid = icache[s].valid /\ icache'[s].type = icache[s].type
                      /\ s = t => ~icache'[s].busy
                      /\ s # t => icache'[s].busy = icache[s].busy
                      /\ s \notin {a, t} => icache'[s].nlink = icache[s].nlink
    OBVIOUS
  <2>1. icache'[s].inum = icache[s].inum
    BY <1>5, <1>6 DEF Num
  <2> QED
    BY <1>5, <1>6, <2>1, Zenon
<1> QED
  BY <1>9, <1>11, <1>12, <1>13, <1>14

\* A new inode gets its name, and a new directory its "..".
LEMMA TreeNew ==
  ASSUME NEW dn, NEW en, NEW de, NEW D, TreeInv(dn, de), NEW i \in Inums, NEW j \in Inums, NEW nm \in Names,
         i # j, i # ROOTINO, dn[j].type = "DIR", Bare(de, i), \A x \in Inums, n \in Names : de[x][n] # i,
         \A x \in Inums : en[x].type = dn[x].type,
         \A x \in Inums : en[x].nlink = dn[x].nlink \/ dn[x].type # "0",
         \A x \in Inums, n \in Names : ~(x = j /\ n = nm) => D[x][n] = de[x][n], D[j][nm] = i,
         \A x \in Inums : x # i => D[x][Up] = de[x][Up],
         D[i][Up] = IF dn[i].type = "DIR" THEN j ELSE Nil
  PROVE  TreeInv(en, D)
<1>1. ROOTINO \in Inums /\ Nil \notin Inums /\ Up \notin Names /\ \A n \in Elems : n \in Names \/ n = Up
  BY InodesAssumption, SlotsNat DEF Elems
<1>2. en[ROOTINO].type = "DIR" /\ \A x \in Inums : en[x].type = "0" => en[x].nlink = 0
  BY <1>1 DEF TreeInv
<1>3. \A n \in Names : D[i][n] = Nil
  BY DEF Bare, Elems
<1>4. ASSUME NEW x \in Inums, en[x].type # "DIR" PROVE Bare(D, x)
  <2>1. Bare(de, x) /\ x # j
    BY <1>4 DEF TreeInv
  <2>2. \A n \in Names : D[x][n] = Nil
    BY <2>1 DEF Bare, Elems
  <2>3. D[x][Up] = Nil
    <3>1. CASE x = i
      BY <1>4, <3>1
    <3>2. CASE x # i
      BY <2>1, <3>2 DEF Bare, Elems
    <3> QED
      BY <3>1, <3>2
  <2> QED
    BY <1>1, <2>2, <2>3 DEF Bare
<1>5. \A x \in Inums, n \in Names : D[x][n] # ROOTINO
  BY DEF TreeInv
<1>6. \A x \in Inums, n \in Names : D[x][n] = i => x = j /\ n = nm
  OBVIOUS
<1>7. \A x, d \in Inums, n \in Names : D[x][n] = d /\ d # i => de[x][n] = d
  OBVIOUS
<1>8. ASSUME NEW x \in Inums, NEW d \in Inums, NEW n \in Names, D[x][n] = d, en[d].type = "DIR"
      PROVE  D[d][Up] = x
  <2>1. CASE d = i
    BY <1>6, <1>8, <2>1
  <2>2. CASE d # i
    <3>1. de[x][n] = d /\ dn[d].type = "DIR"
      BY <1>7, <1>8, <2>2
    <3> QED
      BY <2>2, <3>1 DEF TreeInv
  <2> QED
    BY <2>1, <2>2
<1>9. ASSUME NEW x \in Inums, NEW y \in Inums, NEW d \in Inums, NEW n \in Names, NEW m \in Names,
             D[x][n] = d, D[y][m] = d, en[d].type = "DIR"
      PROVE  x = y /\ n = m
  <2>1. CASE d = i
    BY <1>6, <1>9, <2>1
  <2>2. CASE d # i
    <3>1. de[x][n] = d /\ de[y][m] = d /\ dn[d].type = "DIR"
      BY <1>7, <1>9, <2>2
    <3> QED
      BY <3>1 DEF TreeInv
  <2> QED
    BY <2>1, <2>2
<1>10. ASSUME NEW x \in Inums, NEW y \in Inums, NEW n \in Names, NEW m \in Names, D[x][n] = y, D[y][m] = x
       PROVE  FALSE
  <2>1. x # i /\ y # i
    BY <1>1, <1>3, <1>10
  <2>2. de[x][n] = y /\ de[y][m] = x
    BY <1>7, <1>10, <2>1
  <2> QED
    BY <2>2 DEF TreeInv
<1> QED
  BY <1>2, <1>4, <1>5, <1>8, <1>9, <1>10 DEF TreeInv

\* The entry n of directory j is written.
Entered(D, j, n, i) == [D EXCEPT ![j][n] = i]

\* It changes that entry and nothing else.
LEMMA EnteredIs ==
  ASSUME NEW D \in [Inums -> [Elems -> Inums \cup {Nil}]], NEW j \in Inums, NEW nm \in Elems,
         NEW i \in Inums \cup {Nil}
  PROVE  /\ Entered(D, j, nm, i) \in [Inums -> [Elems -> Inums \cup {Nil}]]
         /\ Entered(D, j, nm, i)[j][nm] = i
         /\ \A x \in Inums, n \in Elems : ~(x = j /\ n = nm) => Entered(D, j, nm, i)[x][n] = D[x][n]
         /\ \A x \in Inums : x # j => Entered(D, j, nm, i)[x] = D[x]
BY DEF Entered

\* What create() gives a name to.
LEMMA NewIs ==
  ASSUME LInv, NEW p \in Procs, pr[p].pc = "cr_new",
         NEW i, NEW j, NEW nm, i = Num(pr[p].ip), j = Num(pr[p].dp), nm = pr[p].name
  PROVE  /\ i \in Inums /\ j \in Inums /\ i # j /\ i # ROOTINO /\ nm \in Names
         /\ pr[p].ip \in Slots /\ pr[p].dp \in Slots /\ pr[p].ip # pr[p].dp
         /\ dinode[j].type = "DIR" /\ dinode[i].type = Kind(pr[p].op) /\ dinode[i].nlink = 0
         /\ Bare(dents, i) /\ \A x \in Inums, n \in Names : dents[x][n] # i
<1>1. RInv /\ TreeInv(dinode, dents) /\ CoverInv /\ PlaceOK(pr[p], icache, dinode, dents) /\ NewOK(p)
  BY Parts DEF LInv, NewInv
<1>2. Place(pr[p]) \in DpAt /\ Place(pr[p]) \in IpAt
  BY DEF DpAt, IpAt, Place, Puts
<1>3. pr[p].ip \in Slots /\ pr[p].dp \in Slots /\ pr[p].ip \in AllPtrs(p) /\ pr[p].dp \in AllPtrs(p)
  BY <1>1, <1>2, StackIs
<1>4. i \in Inums /\ j \in Inums /\ icache[pr[p].ip].ref > 0 /\ icache[pr[p].dp].ref > 0
  BY <1>1, <1>3, PointedBy DEF Num
<1>5. nm \in Names /\ dinode[j].type = "DIR" /\ dinode[i].type = Kind(pr[p].op)
  BY <1>1, <1>2 DEF PlaceOK, Num
<1>6. /\ dinode[i].nlink = 0 /\ Bare(dents, i) /\ pr[p].ip # pr[p].dp
      /\ \A x \in Inums, n \in Names : dents[x][n] # i
  BY <1>1 DEF NewOK
<1>7. i # j
  BY <1>1, <1>3, <1>4, <1>6, NumApart
<1>8. i # ROOTINO
  BY <1>1, <1>6, RootGood DEF Good
<1> QED
  BY <1>3, <1>4, <1>5, <1>6, <1>7, <1>8

\* create() writes the new inode, its name and its "..".
LEMMA CrNewL == ASSUME LInv, RInv', NEW p \in Procs, CrNew(p) PROVE LInv'
<1> DEFINE r == pr[p]
<1>a. PICK k : k = IF r.op = "mkdir" THEN "mk_end" ELSE "op"
  OBVIOUS
<1>b. PICK m : m = Iput([r EXCEPT !.dp = Nil], r.dp, k)
  OBVIOUS
<1>c. PICK i, j, nm, t, a : i = Num(r.ip) /\ j = Num(r.dp) /\ nm = r.name /\ t = r.dp /\ a = r.ip
  OBVIOUS
<1>d. PICK u, b : u = UpLinks(r.op) /\ b = [icache EXCEPT ![a].nlink = 1]
  OBVIOUS
<1>1. /\ r.pc = "cr_new" /\ Set(p, m) /\ UNCHANGED <<cwd, ofile, panicked>>
      /\ icache' = iunlock(Links(b, t, u), t)
      /\ dinode' = iupdate(Links(b, t, u), {a, t})
  BY <1>a, <1>b, <1>c, <1>d DEF CrNew, At, Running, Num
<1>2. dents' = [dents EXCEPT ![i][Up] = IF r.op = "mkdir" THEN j ELSE @, ![j][nm] = i]
  BY <1>c DEF CrNew, Num
<1>e. /\ RInv /\ LockOK(r) /\ PlaceOK(r, icache, dinode, dents) /\ r \in Stacks /\ Shape(r)
      /\ Place(r) = "cr_new" /\ r.pc \notin Puts /\ TreeInv(dinode, dents) /\ CoverInv
  BY <1>1, Parts DEF Place, Puts
<1>3. a \in r.lk /\ t \in r.lk
  BY <1>e, <1>c, AtIs DEF CrNew, LockOK
<1>4. /\ i \in Inums /\ j \in Inums /\ i # j /\ i # ROOTINO /\ nm \in Names
      /\ a \in Slots /\ t \in Slots /\ a # t
      /\ dinode[j].type = "DIR" /\ dinode[i].type = Kind(r.op) /\ dinode[i].nlink = 0
      /\ Bare(dents, i) /\ \A x \in Inums, n \in Names : dents[x][n] # i
  BY <1>1, <1>c, NewIs
<1>5. StepOf(p, m)
  BY <1>1, <1>e, SetStep
<1>6. /\ m.pc = "iput" /\ m.k = k /\ m.cur = r.cur /\ m.dp = Nil /\ m.ip = a /\ m.arg = t
      /\ m.lk = r.lk \ {t} /\ m.path = r.path
  BY <1>e, <1>b, <1>c DEF Stacks, Iput
<1>7. Place(m) = k /\ k \in {"mk_end", "op"}
  BY <1>6, <1>a DEF Place, Puts
<1>8. m.lk = {a} /\ r.lk = {a, t}
  BY <1>1, <1>3, <1>4, <1>6, <1>c, <1>e DEF LockOK
<1>9. LockOK(m)
  BY <1>6, <1>7, <1>8 DEF LockOK, IpLock
<1>10. ~Owes(m) /\ ~Owes(r) /\ ~Linking(m)
  BY <1>7, <1>e DEF Owes, Linking
<1>11. PlaceOK(m, icache', dinode', dents')
  BY <1>e, <1>6, <1>7, <1>10 DEF PlaceOK, DpAt
<1>12. \A s \in Slots : s \in {m.cur, m.ip, m.dp, m.arg, cwd'[p], ofile'[p]} => s \in PtrsOf(p)
  BY <1>1, <1>6, <1>c, SlotsNat DEF PtrsOf
<1>13. PICK v : v = (IF r.op = "mkdir" THEN j ELSE Nil)
  OBVIOUS
<1>14. /\ dents'[j][nm] = i /\ \A x \in Inums, n \in Names : ~(x = j /\ n = nm) => dents'[x][n] = dents[x][n]
       /\ \A x \in Inums : x # i => dents'[x][Up] = dents[x][Up]
       /\ dents'[i][Up] = v
       /\ \A x \in Inums : x \notin {i, j} => dents'[x] = dents[x]
  <2>1. PICK D, E : D = dents /\ E = dents'
    OBVIOUS
  <2>2. D \in [Inums -> [Elems -> Inums \cup {Nil}]]
    BY <1>e, <2>1 DEF RInv, TypeOK
  <2>3. v \in Inums \cup {Nil} /\ D[i][Up] = Nil
    BY <1>4, <1>13, <2>1 DEF Bare, Elems
  <2>4. PICK F : F = Entered(D, i, Up, v)
    OBVIOUS
  <2>5. E = Entered(F, j, nm, i)
    <3>1. v = IF r.op = "mkdir" THEN j ELSE D[i][Up]
      BY <1>13, <2>3
    <3> QED
      BY <1>2, <2>1, <2>4, <3>1 DEF Entered
  <2>6. Up \notin Names /\ Up \in Elems /\ nm \in Elems /\ Names \subseteq Elems
    BY <1>4, InodesAssumption DEF Elems
  <2>7. /\ F \in [Inums -> [Elems -> Inums \cup {Nil}]] /\ F[i][Up] = v
        /\ \A x \in Inums, n \in Elems : ~(x = i /\ n = Up) => F[x][n] = D[x][n]
        /\ \A x \in Inums : x # i => F[x] = D[x]
    <3>1. i \in Inums /\ Up \in Elems /\ v \in Inums \cup {Nil}
      BY <1>4, <2>3, <2>6
    <3> QED
      BY <2>2, <2>4, <3>1, EnteredIs
  <2>8. /\ E[j][nm] = i
        /\ \A x \in Inums, n \in Elems : ~(x = j /\ n = nm) => E[x][n] = F[x][n]
        /\ \A x \in Inums : x # j => E[x] = F[x]
    <3>1. /\ F \in [Inums -> [Elems -> Inums \cup {Nil}]] /\ i \in Inums \cup {Nil} /\ j \in Inums
          /\ nm \in Elems
      BY <1>4, <2>6, <2>7
    <3> QED
      BY <2>5, <3>1, EnteredIs
  <2>9. \A x \in Inums, n \in Names : ~(x = j /\ n = nm) => E[x][n] = D[x][n]
    BY <2>6, <2>7, <2>8
  <2>10. \A x \in Inums : x # i => E[x][Up] = D[x][Up]
    BY <1>4, <2>6, <2>7, <2>8
  <2>11. E[i][Up] = v
    BY <1>4, <2>6, <2>7, <2>8
  <2>12. \A x \in Inums : x \notin {i, j} => E[x] = D[x]
    BY <2>7, <2>8
  <2> QED
    BY <2>1, <2>8, <2>9, <2>10, <2>11, <2>12
<1>15. /\ \A s \in Slots : /\ icache'[s].ref = icache[s].ref /\ icache'[s].inum = icache[s].inum
                           /\ icache'[s].valid = icache[s].valid /\ icache'[s].type = icache[s].type
                           /\ s = t => ~icache'[s].busy
                           /\ s # t => icache'[s].busy = icache[s].busy
                           /\ s \notin {a, t} => icache'[s].nlink = icache[s].nlink
                           /\ s \in pr[p].lk => dinode'[Num(s)].nlink = icache'[s].nlink
       /\ \A x \in Inums : dinode'[x].type = dinode[x].type
       /\ \A x \in Inums : x \notin {i, j} => dinode'[x].nlink = dinode[x].nlink
       /\ dinode'[j].nlink = dinode[j].nlink + u /\ dinode'[i].nlink = 1
  <2>1. u \in Int
    BY <1>d DEF UpLinks
  <2>2. j = Num(t) /\ i = Num(a)
    BY <1>c
  <2>3. /\ b \in Caches
        /\ \A s \in Slots : /\ b[s].ref = icache[s].ref /\ b[s].inum = icache[s].inum
                            /\ b[s].valid = icache[s].valid /\ b[s].type = icache[s].type
                            /\ b[s].busy = icache[s].busy
                            /\ s # a => b[s].nlink = icache[s].nlink
                            /\ s = a => b[s].nlink = 1
    <3>1. icache \in Caches
      BY <1>e, Typed
    <3>2. b = OneLink(icache, a)
      BY <1>d DEF OneLink
    <3>3. a \in Slots
      BY <1>4
    <3> QED
      BY <3>1, <3>2, <3>3, FirstLink
  <2>4. icache' = iunlock(Links(b, t, u), t) /\ dinode' = iupdate(Links(b, t, u), {a, t})
    BY <1>1
  <2>5. /\ \A s \in Slots : /\ icache'[s].ref = icache[s].ref /\ icache'[s].inum = icache[s].inum
                            /\ icache'[s].valid = icache[s].valid /\ icache'[s].type = icache[s].type
                            /\ s = t => ~icache'[s].busy
                            /\ s # t => icache'[s].busy = icache[s].busy
                            /\ s \notin {a, t} => icache'[s].nlink = icache[s].nlink
                            /\ s \in pr[p].lk => dinode'[Num(s)].nlink = icache'[s].nlink
        /\ \A x \in Inums : dinode'[x].type = dinode[x].type
        /\ \A x \in Inums : x \notin {Num(a), Num(t)} => dinode'[x].nlink = dinode[x].nlink
        /\ dinode'[Num(t)].nlink = dinode[Num(t)].nlink + u /\ dinode'[Num(a)].nlink = 1
    BY <1>3, <1>4, <2>1, <2>3, <2>4, NewWrite
  <2> QED
    BY <2>2, <2>5, Zenon
<1>16. Writing(p, t)
  <2>1. \A x \in Inums : (\A s \in Slots : s \in r.lk => Num(s) # x) =>
          dinode'[x].nlink = dinode[x].nlink /\ dents'[x] = dents[x]
    <3>1. \A x \in Inums : (\A s \in Slots : s \in r.lk => Num(s) # x) => x \notin {i, j}
      BY <1>3, <1>4, <1>c
    <3> QED
      BY <1>14, <1>15, <3>1
  <2>2. \A x \in Inums, n \in Names :
          \/ dents'[x][n] = dents[x][n] \/ dents'[x][n] = Nil
          \/ \E s \in Slots : s \in PtrsOf(p) /\ dents'[x][n] = Num(s)
    BY <1>4, <1>14, <1>c DEF PtrsOf
  <2>3. \A s \in Slots : s \notin pr[p].lk => s \notin {a, t}
    BY <1>3
  <2> QED
    BY <1>15, <2>1, <2>2, <2>3 DEF Writing
<1>17. Kind(r.op) # "0" /\ (Kind(r.op) = "DIR" <=> r.op = "mkdir")
  BY DEF Kind
<1>18. TreeInv(dinode', dents')
  <2>1. PICK dn, de, en, D : dn = dinode /\ de = dents /\ en = dinode' /\ D = dents'
    OBVIOUS
  <2>2. /\ TreeInv(dn, de) /\ dn[j].type = "DIR" /\ Bare(de, i) /\ \A x \in Inums, n \in Names : de[x][n] # i
        /\ \A x \in Inums : en[x].type = dn[x].type
    BY <1>4, <1>15, <1>e, <2>1
  <2>3. /\ \A x \in Inums, n \in Names : ~(x = j /\ n = nm) => D[x][n] = de[x][n]
        /\ D[j][nm] = i /\ \A x \in Inums : x # i => D[x][Up] = de[x][Up]
    BY <1>14, <2>1
  <2>4. D[i][Up] = IF dn[i].type = "DIR" THEN j ELSE Nil
    BY <1>4, <1>13, <1>14, <1>17, <2>1
  <2>5. \A x \in Inums : en[x].nlink = dn[x].nlink \/ dn[x].type # "0"
    BY <1>4, <1>15, <1>17, <2>1
  <2>6. TreeInv(en, D)
    BY <1>4, <2>2, <2>3, <2>4, <2>5, TreeNew
  <2> QED
    BY <2>1, <2>6
<1>19. CoverInv'
  <2> SUFFICES ASSUME NEW y \in Inums PROVE dinode'[y].nlink >= Due(y)'
    BY DEF CoverInv
  <2>1. PICK x : x = <<j, nm>>
    OBVIOUS
  <2>2. \A z : /\ Named(z)' \ {x} = Named(z) \ {x}
               /\ x \in Named(z) <=> dents[j][nm] = z
               /\ x \in Named(z)' <=> dents'[j][nm] = z
    BY <1>4, <1>14, <2>1, NamedStep
  <2>3. (x \in Named(y)' <=> y = i) /\ (y = i => x \notin Named(y))
    BY <1>4, <1>14, <2>2
  <2>4. ASSUME NEW z \in Inums \ {i} PROVE Named(z)' \subseteq Named(z)
    BY <1>14, <2>2
  <2>5. Subdirs(y)' \ {i} \subseteq Subdirs(y) \ {i}
    BY <1>14, <2>4, SubdirsLess
  <2>6. i \notin Subdirs(y) /\ (i \in Subdirs(y)' <=> r.op = "mkdir" /\ y = j)
    <3>1. Named(i)' # {} /\ dents[i][Up] = Nil
      BY <1>4, <1>14, <2>2 DEF Bare, Elems
    <3>2. Subdirs(y) = {z \in Inums \ {ROOTINO} : dents[z][Up] = y /\ Named(z) # {}}
      BY DEF Subdirs
    <3>3. Subdirs(y)' = {z \in Inums \ {ROOTINO} : dents'[z][Up] = y /\ Named(z)' # {}}
      BY DEF Subdirs
    <3>4. i \in Subdirs(y)' <=> dents'[i][Up] = y
      BY <1>4, <3>1, <3>3
    <3> QED
      BY <1>13, <1>14, <3>1, <3>2, <3>4, SlotsNat
  <2>7. CacheMoves(p, m)
    BY <1>16, <1>e, WriteCache
  <2>8. /\ Pend(y)' \ {p} = Pend(y) \ {p}
        /\ p \in Pend(y)' <=> Owes(m) /\ icache'[m.ip].inum = y
        /\ p \in Pend(y) <=> Owes(pr[p]) /\ icache[pr[p].ip].inum = y
    BY <1>5, <1>e, <2>7, PendStep
  <2>9. p \notin Pend(y) /\ p \notin Pend(y)'
    BY <1>10, <2>8
  <2>10. dinode'[y].nlink + Bit(x \in Named(y)) + Bit(i \in Subdirs(y)) + Bit(p \in Pend(y))
           >= dinode[y].nlink + Bit(x \in Named(y)') + Bit(i \in Subdirs(y)') + Bit(p \in Pend(y)')
    <3>1. dinode[y].nlink \in Int /\ dinode'[y].nlink \in Int
      BY <1>e DEF RInv, TypeOK
    <3>2. CASE y = i
      <4>1. dinode[y].nlink = 0 /\ dinode'[y].nlink = 1 /\ i \notin Subdirs(y)'
        BY <1>4, <1>15, <2>6, <3>2
      <4> QED
        BY <2>3, <2>6, <2>9, <3>2, <4>1 DEF Bit
    <3>3. CASE y = j
      <4>1. dinode'[y].nlink = dinode[y].nlink + u /\ u = Bit(r.op = "mkdir")
        BY <1>15, <1>d, <3>3 DEF UpLinks, Bit
      <4>2. x \notin Named(y)' /\ (i \in Subdirs(y)' <=> r.op = "mkdir")
        BY <1>4, <2>3, <2>6, <3>3
      <4> QED
        BY <2>6, <2>9, <3>1, <4>1, <4>2 DEF Bit
    <3>4. CASE y \notin {i, j}
      <4>1. dinode'[y].nlink = dinode[y].nlink /\ x \notin Named(y)' /\ i \notin Subdirs(y)'
        BY <1>15, <2>3, <2>6, <3>4
      <4> QED
        BY <2>6, <2>9, <3>1, <4>1 DEF Bit
    <3> QED
      BY <3>2, <3>3, <3>4
  <2> QED
    BY <1>e, <2>2, <2>5, <2>8, <2>10, DueStep
<1>20. NoPanic'
  BY <1>1 DEF LInv, NoPanic
<1>21. m.pc \notin {"iput_free", "iput_done", "cr_new"} /\ r.pc \notin Puts /\ m.lk = r.lk \ {t}
  BY <1>6, <1>e
<1> QED
  BY <1>3, <1>4, <1>5, <1>9, <1>11, <1>12, <1>16, <1>18, <1>19, <1>20, <1>21, WriteL

----------------------------------------------------------------------------
(* An inode is freed.                                                      *)

\* An inode without links has no names and no subdirectories, and no call
\* owes it a link.
LEMMA NothingDue ==
  ASSUME RInv, CoverInv, NEW i \in Inums, dinode[i].nlink = 0
  PROVE  Named(i) = {} /\ Subdirs(i) = {} /\ Pend(i) = {} /\ i # ROOTINO
<1>1. dinode[i].nlink >= Cardinality(Named(i)) + Cardinality(Subdirs(i)) + Cardinality(Pend(i)) + One(i, ROOTINO)
  BY DEF CoverInv, Due
<1>2. /\ IsFiniteSet(Named(i)) /\ IsFiniteSet(Subdirs(i)) /\ IsFiniteSet(Pend(i))
      /\ Cardinality(Named(i)) \in Nat /\ Cardinality(Subdirs(i)) \in Nat /\ Cardinality(Pend(i)) \in Nat
      /\ One(i, ROOTINO) \in Nat
  BY DueFinite
<1>3. /\ Cardinality(Named(i)) = 0 /\ Cardinality(Subdirs(i)) = 0 /\ Cardinality(Pend(i)) = 0
      /\ One(i, ROOTINO) = 0
  BY <1>1, <1>2
<1>4. Named(i) = {} /\ Subdirs(i) = {} /\ Pend(i) = {}
  BY <1>2, <1>3, FS_EmptySet
<1>5. i # ROOTINO
  BY <1>3 DEF One
<1> QED
  BY <1>4, <1>5

\* The inode that iput() frees: nobody else has it locked, it has one
\* reference, and no name leads to it.
LEMMA FreedIs ==
  ASSUME LInv, NEW p \in Procs, pr[p].pc = "iput_free", NEW s, s = pr[p].arg, NEW i, i = Num(s)
  PROVE  /\ s \in Slots /\ i \in Inums /\ icache[s].ref = 1 /\ icache[s].nlink = 0
         /\ icache[s].busy /\ icache[s].valid /\ s \notin pr[p].lk /\ s \notin PtrsOf(p)
         /\ Alone(p, s) /\ dinode[i].type # "0" /\ dinode[i].nlink = 0
         /\ Named(i) = {} /\ Subdirs(i) = {} /\ Pend(i) = {} /\ i # ROOTINO
         /\ \A t \in Slots : icache[t].ref > 0 /\ t # s => Num(t) \in Inums /\ Num(t) # i
<1>1. RInv /\ LockInv /\ CacheInv /\ FreeInv /\ CoverInv /\ LockOK(pr[p])
  BY Parts
<1>2. s \in Slots /\ Holder(pr[p], s)
  BY <1>1, StackIs DEF Puts, Holder, FreesIt
<1>3. icache[s].ref = 1 /\ icache[s].nlink = 0
  BY <1>1 DEF FreeInv
<1>4. icache[s].busy /\ icache[s].valid /\ icache[s].ref > 0 /\ i \in Inums
  BY <1>1, <1>2, HolderIs
<1>5. s \notin pr[p].lk
  BY <1>1 DEF LockOK
<1>6. s \notin PtrsOf(p)
  BY <1>1, <1>2, <1>3, ArgTwice
<1>7. Alone(p, s)
  BY <1>1, <1>2, HolderOne DEF Alone
<1>8. ~Gone(s)
  BY <1>7 DEF Alone, Gone, Holder, FreesIt
<1>9. dinode[i].type # "0" /\ dinode[i].nlink = 0
  BY <1>1, <1>2, <1>3, <1>4, <1>8 DEF CacheInv
<1>10. Named(i) = {} /\ Subdirs(i) = {} /\ Pend(i) = {} /\ i # ROOTINO
  BY <1>1, <1>4, <1>9, NothingDue
<1>11. \A t \in Slots : icache[t].ref > 0 /\ t # s => Num(t) \in Inums /\ Num(t) # i
  <2>1. \A t \in Slots : icache[t].ref > 0 => Num(t) \in Inums
    BY <1>1 DEF RInv, TypeOK, CacheOK, Num
  <2> QED
    BY <1>1, <1>2, <1>4, <2>1, NumApart
<1> QED
  BY <1>2, <1>3, <1>4, <1>5, <1>6, <1>7, <1>9, <1>10, <1>11

\* An inode without a type.
NoType(c, a) == [c EXCEPT ![a].type = "0"]

\* It changes its type and nothing else.
LEMMA TypeLess ==
  ASSUME NEW c \in Caches, NEW a \in Slots, NEW b, b = NoType(c, a)
  PROVE  /\ b \in Caches /\ b[a].type = "0"
         /\ \A s \in Slots : /\ b[s].ref = c[s].ref /\ b[s].inum = c[s].inum
                             /\ b[s].valid = c[s].valid /\ b[s].nlink = c[s].nlink
                             /\ b[s].busy = c[s].busy
                             /\ s # a => b[s].type = c[s].type
<1>1. PICK e : e = [c[a] EXCEPT !.type = "0"]
  OBVIOUS
<1>2. b = [c EXCEPT ![a] = e]
  BY <1>1 DEF NoType
<1>3. "0" \in Types
  BY DEF Types
<1>4. /\ e \in [inum : Inums \cup {Nil}, ref : Nat, busy : BOOLEAN, valid : BOOLEAN, type : Types, nlink : Int]
      /\ e.ref = c[a].ref /\ e.inum = c[a].inum /\ e.valid = c[a].valid
      /\ e.nlink = c[a].nlink /\ e.busy = c[a].busy /\ e.type = "0"
  BY <1>3, <1>1, SMTT(30) DEF Caches
<1> QED
  BY <1>2, <1>4 DEF Caches

\* What freeing changes in the cache and on disk.
LEMMA FreedWrites ==
  ASSUME LInv, NEW p \in Procs, IputFree(p), NEW s, s = pr[p].arg, NEW i, i = Num(s)
  PROVE  /\ \A t \in Slots : /\ icache'[t].ref = icache[t].ref /\ icache'[t].inum = icache[t].inum
                             /\ icache'[t].valid = icache[t].valid /\ icache'[t].busy = icache[t].busy
                             /\ icache'[t].nlink = icache[t].nlink
                             /\ t # s => icache'[t].type = icache[t].type
         /\ dinode'[i].type = "0" /\ dinode'[i].nlink = 0
         /\ \A x \in Inums : x # i => dinode'[x] = dinode[x] /\ dents'[x] = dents[x]
         /\ \A n \in Elems : dents'[i][n] = Nil
<1>1. /\ pr[p].pc = "iput_free" /\ icache' = [icache EXCEPT ![s].type = "0"] /\ dinode' = iupdate(icache', {s})
      /\ dents' = [dents EXCEPT ![i] = NoDents]
  BY DEF IputFree, Running, Num
<1>2. s \in Slots /\ i \in Inums /\ icache[s].nlink = 0 /\ dinode[i].nlink = 0
  BY <1>1, FreedIs
<1>3. RInv /\ icache \in Caches /\ dents \in [Inums -> [Elems -> Inums \cup {Nil}]]
  BY Parts, Typed
<1>4. PICK c : c = icache'
  OBVIOUS
<1>5. c = NoType(icache, s)
  BY <1>1, <1>4 DEF NoType
<1>6. /\ c \in Caches /\ c[s].type = "0"
      /\ \A t \in Slots : /\ c[t].ref = icache[t].ref /\ c[t].inum = icache[t].inum
                          /\ c[t].valid = icache[t].valid /\ c[t].busy = icache[t].busy
                          /\ c[t].nlink = icache[t].nlink
                          /\ t # s => c[t].type = icache[t].type
  BY <1>2, <1>3, <1>5, TypeLess
<1>7. dinode' = iupdate(c, {s}) /\ {s} \in SUBSET Slots /\ c[s].inum = i
  BY <1>1, <1>2, <1>4, <1>6 DEF Num
<1>8. \A x \in Inums : x # i => dinode'[x] = dinode[x]
  BY <1>3, <1>6, <1>7, IupdateIs
<1>9. dinode'[i].type = c[s].type /\ dinode'[i].nlink = c[s].nlink
  BY <1>2, <1>3, <1>6, <1>7, IupdateIs
<1>10. /\ \A x \in Inums : x # i => dents'[x] = dents[x]
       /\ \A n \in Elems : dents'[i][n] = Nil
  BY <1>1, <1>2, <1>3 DEF NoDents
<1> QED
  BY <1>2, <1>4, <1>6, <1>8, <1>9, <1>10


\* The stack of a process that frees an inode: its pointers are to others.
LEMMA FreedPlace ==
  ASSUME LInv, NEW p \in Procs, IputFree(p), NEW m, m = [pr[p] EXCEPT !.pc = "iput_done"]
  PROVE  /\ PlaceOK(m, icache', dinode', dents') /\ LockOK(m) /\ (Owes(m) <=> Owes(pr[p]))
         /\ Owes(pr[p]) => icache'[pr[p].ip].inum = icache[pr[p].ip].inum
<1> DEFINE r == pr[p]
<1>a. PICK s, i : s = r.arg /\ i = Num(s)
  OBVIOUS
<1>1. r.pc = "iput_free"
  BY DEF IputFree, Running
<1>2. /\ \A t \in Slots : icache'[t].inum = icache[t].inum
      /\ \A x \in Inums : x # i => dinode'[x] = dinode[x] /\ dents'[x] = dents[x]
  BY <1>a, FreedWrites
<1>3. /\ s \in Slots /\ s \notin r.lk /\ s \notin PtrsOf(p)
      /\ \A t \in Slots : icache[t].ref > 0 /\ t # s => Num(t) \in Inums /\ Num(t) # i
  BY <1>1, <1>a, FreedIs
<1>4. RInv /\ PlaceOK(r, icache, dinode, dents) /\ LockOK(r) /\ r \in Stacks
  BY Parts
<1>5. /\ m.pc = "iput_done" /\ m.k = r.k /\ m.op = r.op /\ m.path = r.path /\ m.name = r.name
      /\ m.cur = r.cur /\ m.ip = r.ip /\ m.dp = r.dp /\ m.arg = s /\ m.lk = r.lk
  BY <1>4, <1>a DEF Stacks
<1>6. Place(m) = r.k /\ Place(r) = r.k
  BY <1>1, <1>5 DEF Place, Puts
<1>7. (Linking(m) <=> Linking(r)) /\ (Owes(m) <=> Owes(r))
  BY <1>5, <1>6 DEF Linking, Owes
<1>8. LockOK(m)
  BY <1>1, <1>3, <1>4, <1>5, <1>6 DEF LockOK
<1>9. ASSUME NEW t \in Slots, t \in PtrsOf(p)
      PROVE  /\ icache'[t].inum = icache[t].inum
             /\ dinode'[icache[t].inum] = dinode[icache[t].inum] /\ dents'[icache[t].inum] = dents[icache[t].inum]
  <2>1. icache[t].ref > 0 /\ t # s
    BY <1>3, <1>4, <1>9, PointedBy DEF AllPtrs
  <2> QED
    BY <1>2, <1>3, <2>1 DEF Num
<1>10. r.dp \in PtrsOf(p) /\ r.ip \in PtrsOf(p)
  BY DEF PtrsOf
<1>11. Place(r) \in DpAt => r.dp \in Slots
  BY <1>4, StackIs
<1>12. Linking(r) \/ Owes(r) \/ Place(r) = "un_ip" => r.ip \in Slots
  BY <1>4, StackIs DEF IpAt
<1>13. r.k \in DpAt => r.name \in Names /\ dinode'[icache'[r.dp].inum].type = "DIR"
  BY <1>4, <1>6, <1>9, <1>10, <1>11 DEF PlaceOK
<1>14. r.k = "un_ip" => dents'[icache'[r.dp].inum][r.name] = icache'[r.ip].inum
  BY <1>4, <1>6, <1>9, <1>10, <1>11, <1>12 DEF PlaceOK, DpAt
<1>15. Linking(r) => dinode'[icache'[r.ip].inum].type = "FILE"
  BY <1>4, <1>6, <1>9, <1>10, <1>12 DEF PlaceOK
<1>16. PlaceOK(m, icache', dinode', dents')
  BY <1>4, <1>5, <1>6, <1>7, <1>13, <1>14, <1>15 DEF PlaceOK
<1> QED
  BY <1>7, <1>8, <1>9, <1>10, <1>12, <1>16

\* iput() frees an inode.
LEMMA IputFreeL == ASSUME LInv, RInv', NEW p \in Procs, IputFree(p) PROVE LInv'
<1> DEFINE r == pr[p]
<1>a. PICK m : m = [r EXCEPT !.pc = "iput_done"]
  OBVIOUS
<1>b. PICK s, i : s = r.arg /\ i = Num(s)
  OBVIOUS
<1>1. r.pc = "iput_free" /\ Set(p, m) /\ UNCHANGED <<cwd, ofile, panicked>>
  BY <1>a DEF IputFree, Running
<1>2. /\ \A t \in Slots : /\ icache'[t].ref = icache[t].ref /\ icache'[t].inum = icache[t].inum
                          /\ icache'[t].valid = icache[t].valid /\ icache'[t].busy = icache[t].busy
                          /\ icache'[t].nlink = icache[t].nlink
                          /\ t # s => icache'[t].type = icache[t].type
      /\ dinode'[i].type = "0" /\ dinode'[i].nlink = 0
      /\ \A x \in Inums : x # i => dinode'[x] = dinode[x] /\ dents'[x] = dents[x]
      /\ \A n \in Elems : dents'[i][n] = Nil
  BY <1>b, FreedWrites
<1>3. /\ s \in Slots /\ i \in Inums /\ icache[s].ref = 1 /\ icache[s].nlink = 0
      /\ icache[s].busy /\ icache[s].valid /\ s \notin r.lk /\ s \notin PtrsOf(p)
      /\ Alone(p, s) /\ dinode[i].type # "0" /\ dinode[i].nlink = 0
      /\ Named(i) = {} /\ Subdirs(i) = {} /\ Pend(i) = {} /\ i # ROOTINO
      /\ \A t \in Slots : icache[t].ref > 0 /\ t # s => Num(t) \in Inums /\ Num(t) # i
  <2>1. pr[p].pc = "iput_free" /\ s = pr[p].arg /\ i = Num(s)
    BY <1>1, <1>b
  <2>2. /\ s \in Slots /\ i \in Inums /\ icache[s].ref = 1 /\ icache[s].nlink = 0
        /\ icache[s].busy /\ icache[s].valid /\ s \notin r.lk /\ s \notin PtrsOf(p)
    BY <2>1, FreedIs
  <2>3. /\ Alone(p, s) /\ dinode[i].type # "0" /\ dinode[i].nlink = 0
        /\ Named(i) = {} /\ Subdirs(i) = {} /\ Pend(i) = {} /\ i # ROOTINO
    BY <2>1, FreedIs
  <2>4. \A t \in Slots : icache[t].ref > 0 /\ t # s => Num(t) \in Inums /\ Num(t) # i
    BY <2>1, FreedIs
  <2> QED
    BY <2>2, <2>3, <2>4
<1>4. RInv /\ LockInv /\ TreeInv(dinode, dents) /\ CoverInv /\ r \in Stacks
  BY Parts
<1>5. StepOf(p, m) /\ m \in Stacks /\ pr' = [pr EXCEPT ![p] = m]
  BY <1>1, <1>4, SetStep DEF Set
<1>6. /\ PlaceOK(m, icache', dinode', dents') /\ LockOK(m) /\ (Owes(m) <=> Owes(pr[p]))
      /\ Owes(pr[p]) => icache'[pr[p].ip].inum = icache[pr[p].ip].inum
  BY <1>a, FreedPlace
<1>7. /\ m.pc = "iput_done" /\ m.cur = r.cur /\ m.ip = r.ip /\ m.dp = r.dp /\ m.arg = s /\ m.lk = r.lk
  BY <1>4, <1>a, <1>b DEF Stacks
<1>8. LockInv'
  <2>1. \A t \in Slots : Holder(m, t) <=> Holder(r, t)
    BY <1>1, <1>7, <1>b DEF Holder, FreesIt
  <2>2. \A t \in Slots : Holder(r, t) => icache[t].busy /\ icache[t].valid
    BY <1>4, HolderIs
  <2>3. \A t \in Slots : icache[t].ref > 0 /\ icache[t].busy => icache[t].valid
    BY <1>4 DEF LockInv
  <2>4. \A t \in Slots : Holder(m, t) => /\ icache'[t].busy /\ icache'[t].valid
                                         /\ Holder(pr[p], t) \/ ~icache[t].busy
    BY <1>2, <2>1, <2>2
  <2>5. \A t \in Slots : icache[t].ref > 0 /\ icache[t].busy /\ ~Holder(pr[p], t)
                           => icache'[t].busy /\ icache'[t].valid
    BY <1>2, <2>3
  <2>6. \A t \in Slots : icache'[t].ref > 0 /\ icache'[t].busy /\ ~Holder(m, t)
                           => icache[t].ref > 0 /\ icache[t].busy /\ ~Holder(pr[p], t)
    BY <1>2, <2>1
  <2> QED
    BY <1>4, <1>5, <1>6, <2>4, <2>5, <2>6, LockStep
<1>9. CacheMoves(p, m)
  <2> SUFFICES ASSUME NEW t \in Slots, icache'[t].ref > 0
               PROVE  /\ icache[t].ref > 0 /\ icache'[t].inum = icache[t].inum
                      /\ Same(p, t) \/ Wrote(p, m, t)
    BY DEF CacheMoves
  <2>1. icache[t].ref > 0 /\ icache'[t].inum = icache[t].inum
    BY <1>2
  <2>2. CASE t = s
    BY <1>3, <1>7, <2>1, <2>2 DEF Wrote
  <2>3. CASE t # s
    <3>1. dinode'[Num(t)] = dinode[Num(t)]
      BY <1>2, <1>3, <2>1, <2>3
    <3>2. Same(p, t)
      BY <1>1, <1>2, <2>3, <3>1 DEF Same
    <3> QED
      BY <2>1, <3>2
  <2> QED
    BY <2>2, <2>3
<1>10. RefMoves(p)
  <2>1. \A t \in Slots : icache[t].ref \in Nat
    BY <1>4 DEF RInv, TypeOK, CacheOK, Caches
  <2> QED
    BY <1>2, <2>1 DEF RefMoves
<1>11. PtrMoves(p, m)
  BY <1>1, <1>7, <1>b DEF PtrMoves, PtrsOf
<1>12. \A x \in Inums, n \in Elems : dents'[x][n] = dents[x][n] \/ dents'[x][n] = Nil
  BY <1>2
<1>13. DiskMoves(p)
  <2>1. \A x \in Inums : dinode[x].type # "0" =>
          dinode'[x].type = dinode[x].type \/ (pr[p].pc = "iput_free" /\ Num(pr[p].arg) = x)
    BY <1>1, <1>2, <1>b
  <2>2. \A t \in Slots, n \in Names :
          icache[t].ref > 0 /\ t \notin pr[p].lk /\ ~(pr[p].pc = "iput_free" /\ pr[p].arg = t) =>
            dents'[Num(t)][n] = dents[Num(t)][n]
    BY <1>1, <1>2, <1>3, <1>b
  <2>3. ASSUME NEW t \in Slots, icache[t].ref > 0, pr[p].arg = t => pr[p].pc = "iput_done"
        PROVE  /\ dinode'[Num(t)].nlink = dinode[Num(t)].nlink /\ dents'[Num(t)] = dents[Num(t)]
               /\ \A x \in Inums, n \in Names : dents'[x][n] = Num(t) => dents[x][n] = Num(t)
    <3>1. t # s /\ Num(t) \in Inums /\ Num(t) # i
      BY <1>1, <1>3, <1>b, <2>3
    <3> QED
      BY <1>2, <1>12, <3>1, SlotsNat DEF Elems
  <2> QED
    BY <2>1, <2>2, <2>3 DEF DiskMoves
<1>14. TreeInv(dinode', dents')
  <2>1. PICK dn, de, en, D : dn = dinode /\ de = dents /\ en = dinode' /\ D = dents'
    OBVIOUS
  <2>2. TreeInv(dn, de) /\ \A x \in Inums, n \in Elems : D[x][n] = de[x][n] \/ D[x][n] = Nil
    BY <1>4, <1>12, <2>1
  <2>3. \A x \in Inums, n \in Names : de[x][n] # i
    <3>1. \A x \in Inums, n \in Names : dents[x][n] = i => <<x, n>> \in Named(i)
      BY DEF Named
    <3> QED
      BY <1>3, <2>1, <3>1
  <2>4. \A x \in Inums, n \in Names : D[x][n] # i
    BY <1>3, <2>2, <2>3, SlotsNat DEF Elems
  <2>5. \A d \in Inums : D[d][Up] = de[d][Up] \/ (\A x \in Inums, n \in Names : D[x][n] # d)
    BY <1>2, <2>1, <2>4
  <2>6. \A x \in Inums : en[x].type = dn[x].type \/ (en[x].type = "0" /\ Bare(D, x))
    BY <1>2, <2>1 DEF Bare
  <2>7. \A x \in Inums : en[x].type = "0" => en[x].nlink = 0
    BY <1>2, <2>1, <2>2 DEF TreeInv
  <2>8. en[ROOTINO].type = "DIR"
    BY <1>2, <1>3, <2>1, <2>2, InodesAssumption DEF TreeInv
  <2>9. TreeInv(en, D)
    BY <2>2, <2>5, <2>6, <2>7, <2>8, TreeLess
  <2> QED
    BY <2>1, <2>9
<1>15. CoverInv'
  <2> SUFFICES ASSUME NEW y \in Inums PROVE dinode'[y].nlink >= Due(y)'
    BY DEF CoverInv
  <2>1. ASSUME NEW z \in Inums PROVE Named(z)' \subseteq Named(z)
    <3>1. Named(z) = {x \in Inums \X Names : dents[x[1]][x[2]] = z}
      BY DEF Named
    <3>2. Named(z)' = {x \in Inums \X Names : dents'[x[1]][x[2]] = z}
      BY DEF Named
    <3>3. \A x \in Inums, n \in Names : dents'[x][n] = z => dents[x][n] = z
      BY <1>12, SlotsNat DEF Elems
    <3> QED
      BY <3>1, <3>2, <3>3
  <2>2. Subdirs(y)' \ {i} \subseteq Subdirs(y) \ {i}
    <3>1. \A d \in Inums \ {i} : dents'[d][Up] = dents[d][Up]
      BY <1>2
    <3> QED
      BY <2>1, <3>1, SubdirsLess
  <2>3. i \notin Subdirs(y)'
    <3>1. Subdirs(y)' = {z \in Inums \ {ROOTINO} : dents'[z][Up] = y /\ Named(z)' # {}}
      BY DEF Subdirs
    <3>2. dents'[i][Up] = Nil
      BY <1>2 DEF Elems
    <3> QED
      BY <3>1, <3>2, SlotsNat
  <2>4. /\ Pend(y)' \ {p} = Pend(y) \ {p}
        /\ p \in Pend(y)' <=> Owes(m) /\ icache'[m.ip].inum = y
        /\ p \in Pend(y) <=> Owes(pr[p]) /\ icache[pr[p].ip].inum = y
    BY <1>4, <1>5, <1>9, PendStep
  <2>5. p \in Pend(y)' <=> p \in Pend(y)
    BY <1>6, <1>7, <2>4
  <2>6. dinode'[y].nlink = dinode[y].nlink /\ dinode[y].nlink \in Int
    BY <1>2, <1>3, <1>4 DEF RInv, TypeOK
  <2>7. dinode'[y].nlink + Bit(Nil \in Named(y)) + Bit(i \in Subdirs(y)) + Bit(p \in Pend(y))
           >= dinode[y].nlink + Bit(Nil \in Named(y)') + Bit(i \in Subdirs(y)') + Bit(p \in Pend(y)')
    <3>1. Nil \in Named(y)' => Nil \in Named(y)
      BY <2>1
    <3> QED
      BY <2>3, <2>5, <2>6, <3>1 DEF Bit
  <2>8. Named(y)' \ {Nil} \subseteq Named(y) \ {Nil} /\ Pend(y)' \ {p} \subseteq Pend(y) \ {p}
    BY <2>1, <2>4
  <2> QED
    BY <1>4, <2>2, <2>7, <2>8, DueStep
<1>16. NoPanic'
  BY <1>1 DEF LInv, NoPanic
<1>17. m.pc \notin {"iput_free", "cr_new"} /\ icache'[m.arg].ref = 1
  BY <1>2, <1>3, <1>7
<1> QED
  BY <1>5, <1>6, <1>8, <1>9, <1>10, <1>11, <1>13, <1>14, <1>15, <1>16, <1>17, StepL

----------------------------------------------------------------------------
(* An inode is allocated.                                                  *)

\* The entry that iget() returns for a free inode: one in no use, or one
\* whose last reference is about to be given up.
LEMMA FreeEntry ==
  ASSUME LInv, NEW i \in Inums, dinode[i].type = "0", NEW g \in Slots, icache[g].ref > 0 => Num(g) = i
  PROVE  /\ \A q \in Procs : g \notin PtrsOf(q) /\ (pr[q].arg = g => pr[q].pc = "iput_done")
         /\ icache[g].ref > 0 => \E q \in Procs : pr[q].pc = "iput_done" /\ pr[q].arg = g
<1>1. RInv /\ CacheInv /\ FreeInv
  BY DEF LInv
<1>2. CASE icache[g].ref > 0
  <2>1. PICK q \in Procs : pr[q].pc = "iput_done" /\ pr[q].arg = g
    BY <1>1, <1>2 DEF CacheInv, Gone
  <2>2. icache[g].ref = 1
    BY <1>1, <1>2, <2>1 DEF FreeInv
  <2>3. g \in AllPtrs(q) /\ g \notin PtrsOf(q)
    BY <1>1, <2>1, <2>2, ArgTwice DEF AllPtrs
  <2>4. \A x \in Procs : x # q => g \notin AllPtrs(x)
    BY <1>1, <2>2, <2>3, TwoPointers
  <2> QED
    BY <2>1, <2>3, <2>4 DEF AllPtrs
<1>3. CASE ~(icache[g].ref > 0)
  <2>1. \A x \in Procs : g \notin AllPtrs(x)
    BY <1>1, <1>3, PointedBy
  <2> QED
    BY <1>3, <2>1 DEF AllPtrs
<1> QED
  BY <1>2, <1>3

\* A free inode is taken.
LEMMA TreeBorn ==
  ASSUME NEW dn, NEW en, NEW de, TreeInv(dn, de), NEW i \in Inums, dn[i].type = "0",
         \A x \in Inums, n \in Names : de[x][n] # i,
         \A x \in Inums : x # i => en[x] = dn[x], en[i].type # "0"
  PROVE  TreeInv(en, de)
<1>1. ROOTINO \in Inums /\ i # ROOTINO
  BY InodesAssumption DEF TreeInv
<1>2. en[ROOTINO].type = "DIR" /\ \A x \in Inums : en[x].type = "0" => en[x].nlink = 0
  BY <1>1 DEF TreeInv
<1>3. \A x \in Inums : en[x].type # "DIR" => Bare(de, x)
  BY DEF TreeInv
<1>4. \A x, d \in Inums, n \in Names : de[x][n] = d => en[d] = dn[d]
  OBVIOUS
<1>5. \A x, d \in Inums, n \in Names : de[x][n] = d /\ en[d].type = "DIR" => de[d][Up] = x
  BY <1>4 DEF TreeInv
<1>6. \A x, y, d \in Inums, n, m \in Names :
        de[x][n] = d /\ de[y][m] = d /\ en[d].type = "DIR" => x = y /\ n = m
  BY <1>4 DEF TreeInv
<1>7. /\ \A x \in Inums, n \in Names : de[x][n] # ROOTINO
      /\ \A x, y \in Inums, n, m \in Names : ~(de[x][n] = y /\ de[y][m] = x)
  BY DEF TreeInv
<1> QED
  BY <1>2, <1>3, <1>5, <1>6, <1>7 DEF TreeInv

\* ialloc() finds no inode.
LEMMA NoInodesL ==
  ASSUME LInv, NoPanic', UNCHANGED <<icache, dinode, dents, pr, cwd, ofile>>
  PROVE  LInv'
<1>1. RInv'
  BY DEF LInv, RInv, TypeOK, RefsCounted, Pointers
<1>2. LockInv' /\ CacheInv' /\ FreeInv' /\ TreeInv(dinode, dents)'
  BY DEF LInv, LockInv, CacheInv, FreeInv, Gone, Num
<1>3. PlaceInv' /\ NewInv'
  BY DEF LInv, PlaceInv, NewInv, NewOK, PtrsOf, Num
<1>4. CoverInv'
  BY DEF LInv, CoverInv, Due, Named, Subdirs, Pend, Num
<1> QED
  BY <1>1, <1>2, <1>3, <1>4 DEF LInv

\* What create() allocates: an inode without links and without names.
LEMMA FreeIs ==
  ASSUME LInv, NEW i \in Inums, dinode[i].type = "0"
  PROVE  /\ dinode[i].nlink = 0 /\ Bare(dents, i) /\ i # ROOTINO
         /\ \A x \in Inums, n \in Names : dents[x][n] # i
<1>1. RInv /\ TreeInv(dinode, dents) /\ CoverInv
  BY DEF LInv
<1>2. dinode[i].nlink = 0 /\ Bare(dents, i)
  BY <1>1 DEF TreeInv
<1>3. Named(i) = {} /\ i # ROOTINO
  BY <1>1, <1>2, NothingDue
<1>4. \A x \in Inums, n \in Names : dents[x][n] = i => <<x, n>> \in Named(i)
  BY DEF Named
<1> QED
  BY <1>2, <1>3, <1>4

\* What iget() returns, slot by slot.
LEMMA GotIs ==
  ASSUME RInv, NEW i \in Inums, NEW g, NEW c, g = igot(i), c = iget(i)
  PROVE  /\ g \in Slots /\ c[g].inum = i
         /\ \A s \in Slots : icache[s].ref > 0 =>
               /\ c[s].ref = icache[s].ref + (IF s = g THEN 1 ELSE 0)
               /\ c[s].inum = icache[s].inum /\ c[s].valid = icache[s].valid
               /\ c[s].type = icache[s].type /\ c[s].nlink = icache[s].nlink
               /\ c[s].busy = icache[s].busy
         /\ \A s \in Slots : icache[s].ref = 0 /\ c[s].ref > 0 => s = g /\ ~c[s].valid /\ ~c[s].busy
<1>1. /\ igot(i) \in Slots /\ iget(i)[igot(i)].inum = i
      /\ \A s \in Slots : icache[s].ref > 0 =>
              /\ iget(i)[s].ref = icache[s].ref + (IF s = igot(i) THEN 1 ELSE 0)
              /\ iget(i)[s].inum = icache[s].inum /\ iget(i)[s].valid = icache[s].valid
              /\ iget(i)[s].type = icache[s].type /\ iget(i)[s].nlink = icache[s].nlink
              /\ iget(i)[s].busy = icache[s].busy
      /\ \A s \in Slots : icache[s].ref = 0 /\ iget(i)[s].ref > 0 =>
              s = igot(i) /\ ~iget(i)[s].valid /\ ~iget(i)[s].busy
  BY GetQuiet
<1> QED
  BY <1>1

\* create() allocates an inode.
LEMMA CrAllocL == ASSUME LInv, RInv', NEW p \in Procs, CrAlloc(p) PROVE LInv'
<1> DEFINE r == pr[p]
<1>a. r.pc = "cr_dp" /\ r.dp \in r.lk /\ r.dp \in Slots
  BY AtIs DEF CrAlloc
<1>b. /\ RInv /\ LockInv /\ LockOK(r) /\ PlaceOK(r, icache, dinode, dents) /\ r \in Stacks /\ Shape(r)
      /\ Place(r) = "cr_dp" /\ r.pc \notin Puts /\ TreeInv(dinode, dents) /\ CoverInv
  BY <1>a, Parts DEF Place, Puts
<1>c. PICK f, i, g : f = {x \in Inums : dinode[x].type = "0"} /\ i = Min(f) /\ g = igot(i)
  OBVIOUS
<1>d. PICK m : m = [r EXCEPT !.pc = "cr_new", !.ip = g]
  OBVIOUS
<1>1. CASE f = {}
  <2>1. panicked' = "ialloc: no inodes" /\ UNCHANGED <<icache, dinode, pr>> /\ UNCHANGED <<dents, cwd, ofile>>
    BY <1>1, <1>c DEF CrAlloc
  <2> QED
    BY <2>1, NoInodesL DEF NoPanic
<1>2. CASE f # {}
  <2>1. /\ dinode' = [dinode EXCEPT ![i] = [type |-> Kind(r.op), nlink |-> 0]]
        /\ icache' = iget(i) /\ Set(p, m) /\ UNCHANGED <<dents, cwd, ofile, panicked>>
    BY <1>2, <1>c, <1>d DEF CrAlloc
  <2>2. i \in Inums /\ dinode[i].type = "0"
    <3>1. f \in SUBSET Nat
      BY <1>c, InodesAssumption
    <3>2. i \in f
      BY <1>2, <1>c, <3>1, MinIn
    <3> QED
      BY <1>c, <3>2
  <2>3. /\ dinode[i].nlink = 0 /\ Bare(dents, i) /\ i # ROOTINO
        /\ \A x \in Inums, n \in Names : dents[x][n] # i
    BY <2>2, FreeIs
  <2>4. /\ dinode'[i].type = Kind(r.op) /\ dinode'[i].nlink = 0 /\ Kind(r.op) # "0"
        /\ \A x \in Inums : x # i => dinode'[x] = dinode[x]
    BY <1>b, <2>1, <2>2 DEF RInv, TypeOK, Kind
  <2>5. /\ g \in Slots /\ icache'[g].inum = i
        /\ \A s \in Slots : icache[s].ref > 0 =>
              /\ icache'[s].ref = icache[s].ref + (IF s = g THEN 1 ELSE 0)
              /\ icache'[s].inum = icache[s].inum /\ icache'[s].valid = icache[s].valid
              /\ icache'[s].type = icache[s].type /\ icache'[s].nlink = icache[s].nlink
              /\ icache'[s].busy = icache[s].busy
        /\ \A s \in Slots : icache[s].ref = 0 /\ icache'[s].ref > 0 =>
              s = g /\ ~icache'[s].valid /\ ~icache'[s].busy
    <3>1. PICK c : c = iget(i)
      OBVIOUS
    <3>2. /\ g \in Slots /\ c[g].inum = i
          /\ \A s \in Slots : icache[s].ref > 0 =>
                /\ c[s].ref = icache[s].ref + (IF s = g THEN 1 ELSE 0)
                /\ c[s].inum = icache[s].inum /\ c[s].valid = icache[s].valid
                /\ c[s].type = icache[s].type /\ c[s].nlink = icache[s].nlink
                /\ c[s].busy = icache[s].busy
          /\ \A s \in Slots : icache[s].ref = 0 /\ c[s].ref > 0 => s = g /\ ~c[s].valid /\ ~c[s].busy
      <4>1. g = igot(i) /\ RInv
        BY <1>b, <1>c
      <4> QED
        BY <2>2, <3>1, <4>1, GotIs
    <3>3. icache' = c
      BY <2>1, <3>1
    <3> QED
      BY <3>2, <3>3
  <2>6. StepOf(p, m) /\ m \in Stacks
    BY <1>b, <2>1, SetStep
  <2>7. /\ m.pc = "cr_new" /\ m.k = r.k /\ m.op = r.op /\ m.path = r.path /\ m.name = r.name
        /\ m.cur = r.cur /\ m.ip = g /\ m.dp = r.dp /\ m.arg = r.arg /\ m.lk = r.lk /\ r.arg = Nil
    BY <1>b, <1>d DEF Stacks, Shape
  <2>8. Place(m) = "cr_new"
    BY <2>7 DEF Place, Puts
  <2>9. \A s \in Slots : icache[s].ref \in Nat /\ icache'[s].ref \in Nat
    BY <1>b DEF RInv, TypeOK, CacheOK, Caches
  <2>10. icache'[g].ref > 0
    <3>1. pr'[p] = m
      BY <1>b, <2>6, OneStack
    <3>2. g \in AllPtrs(p)'
      BY <2>7, <3>1 DEF AllPtrs, PtrsOf
    <3> QED
      BY <2>5, <3>2, PointedNext
  <2>11. \A s \in Slots : icache[s].ref > 0 /\ s # g => Num(s) # i /\ Num(s) \in Inums
    <3>1. \A s, t \in Slots : icache'[s].ref > 0 /\ icache'[t].ref > 0 /\ icache'[s].inum = icache'[t].inum => s = t
      BY DEF RInv, TypeOK, CacheOK
    <3>2. \A s \in Slots : icache[s].ref > 0 => icache[s].inum \in Inums
      BY <1>b DEF RInv, TypeOK, CacheOK
    <3> QED
      BY <2>5, <2>9, <2>10, <3>1, <3>2 DEF Num
  <2>12. icache[g].ref > 0 => Num(g) = i
    BY <2>5 DEF Num
  <2>13. /\ \A q \in Procs : g \notin PtrsOf(q) /\ (pr[q].arg = g => pr[q].pc = "iput_done")
         /\ icache[g].ref > 0 => \E q \in Procs : pr[q].pc = "iput_done" /\ pr[q].arg = g
    BY <2>2, <2>5, <2>12, FreeEntry
  <2>14. CacheMoves(p, m)
    <3> SUFFICES ASSUME NEW s \in Slots, icache'[s].ref > 0
                 PROVE  \/ Took(s)
                        \/ /\ icache[s].ref > 0 /\ icache'[s].inum = icache[s].inum
                           /\ Same(p, s) \/ Reused(p, s)
      BY DEF CacheMoves
    <3>1. CASE icache[s].ref = 0
      BY <2>4, <2>5, <3>1 DEF Took
    <3>2. CASE icache[s].ref > 0 /\ s = g
      <4>1. \E q \in Procs \ {p} : pr[q].pc = "iput_done" /\ pr[q].arg = s
        BY <1>a, <2>13, <3>2
      <4> QED
        BY <2>4, <2>5, <2>12, <3>2, <4>1 DEF Reused
    <3>3. CASE icache[s].ref > 0 /\ s # g
      <4>1. dinode'[Num(s)] = dinode[Num(s)]
        BY <2>4, <2>11, <3>3
      <4> QED
        BY <1>a, <2>5, <3>3, <4>1 DEF Same
    <3> QED
      BY <2>9, <3>1, <3>2, <3>3
  <2>15. Reach(i)
    BY <2>2, <2>4 DEF Reach
  <2>16. RefMoves(p)
    <3> SUFFICES ASSUME NEW s \in Slots, s # g PROVE icache'[s].ref =< icache[s].ref
      BY <2>5, <2>15 DEF RefMoves
    <3> QED
      BY <2>5, <2>9
  <2>17. PtrMoves(p, m)
    BY <2>1, <2>5, <2>7, <2>15, SlotsNat DEF PtrMoves, PtrsOf
  <2>18. DiskMoves(p)
    <3>1. \A s \in Slots : icache[s].ref > 0 /\ dinode[Num(s)].type # "0" => dinode'[Num(s)] = dinode[Num(s)]
      BY <2>2, <2>4, <2>11, <2>12
    <3> QED
      BY <2>1, <2>2, <2>4, <3>1 DEF DiskMoves
  <2>19. TreeInv(dinode', dents')
    <3>1. PICK dn, en, de : dn = dinode /\ en = dinode' /\ de = dents
      OBVIOUS
    <3>2. /\ TreeInv(dn, de) /\ dn[i].type = "0" /\ \A x \in Inums, n \in Names : de[x][n] # i
          /\ \A x \in Inums : x # i => en[x] = dn[x]
          /\ en[i].type # "0"
      BY <1>b, <2>2, <2>3, <2>4, <3>1
    <3>3. TreeInv(en, de)
      BY <2>2, <3>2, TreeBorn
    <3> QED
      BY <2>1, <3>1, <3>3
  <2>20. CoverInv'
    <3> SUFFICES ASSUME NEW y \in Inums PROVE dinode'[y].nlink >= Due(y)'
      BY DEF CoverInv
    <3>1. Named(y)' = Named(y) /\ Subdirs(y)' = Subdirs(y)
      BY <2>1 DEF Named, Subdirs
    <3>2. ~Owes(m) /\ ~Owes(r)
      BY <1>b, <2>8 DEF Owes, Linking
    <3>3. Pend(y)' = Pend(y)
      BY <1>b, <2>6, <2>14, <3>2, PendStep
    <3>4. Due(y)' = Due(y)
      BY <3>1, <3>3, Zenon DEF Due
    <3>5. dinode'[y].nlink = dinode[y].nlink
      BY <2>3, <2>4
    <3> QED
      BY <1>b, <3>4, <3>5 DEF CoverInv
  <2>21. PlaceOK(m, icache', dinode', dents')
    <3>1. r.path \in Seq(Names) /\ r.name \in Names /\ r.op \in {"creat", "mkdir"} /\ r.k # "cr_new"
      BY <1>b DEF PlaceOK, DpAt
    <3>2. dinode[icache[r.dp].inum].type = "DIR"
      BY <1>b DEF PlaceOK, DpAt
    <3>3. icache[r.dp].ref > 0 /\ r.dp # g
      BY <1>a, <1>b, <2>13, PointedBy DEF AllPtrs, PtrsOf
    <3>4. dinode'[icache'[r.dp].inum].type = "DIR"
      BY <1>a, <2>4, <2>5, <2>11, <3>2, <3>3 DEF Num
    <3>5. dinode'[icache'[g].inum].type = Kind(r.op)
      BY <2>4, <2>5
    <3>6. ~Linking(m)
      BY <2>8 DEF Linking
    <3> QED
      BY <2>7, <2>8, <3>1, <3>4, <3>5, <3>6 DEF PlaceOK
  <2>22. LockInv'
    <3>1. LockOK(m)
      <4>1. \A s \in r.lk : s = r.dp
        BY <1>a, <1>b DEF LockOK, IpLock
      <4> QED
        BY <1>a, <2>7, <2>8, <4>1 DEF LockOK, DpAt
    <3>2. LockMoves({})
      BY <2>5 DEF LockMoves
    <3>3. {} \subseteq pr[p].lk /\ m.lk = pr[p].lk \ {} /\ m.pc \notin {"iput_free", "iput_done"}
      BY <2>7
    <3> QED
      BY <1>b, <2>6, <3>1, <3>2, <3>3, UnlockStep
  <2>23. NewOK(p)'
    <3>1. pr'[p] = m /\ \A q \in Procs \ {p} : pr'[q] = pr[q]
      BY <1>b, <2>6, OneStack
    <3>2. \A q \in Procs \ {p} : PtrsOf(q)' = PtrsOf(q)
      BY <2>1, <3>1 DEF PtrsOf
    <3>3. pr'[p].ip = g /\ pr'[p].dp = r.dp
      BY <2>7, <3>1
    <3>4. g \notin {pr'[p].dp, cwd'[p], ofile'[p]}
      BY <2>1, <2>13, <3>3 DEF PtrsOf
    <3>5. \A q \in Procs \ {p} : g \notin PtrsOf(q)' /\ (pr'[q].arg = g => pr'[q].pc = "iput_done")
      BY <2>13, <3>1, <3>2
    <3>6. /\ dinode'[icache'[g].inum].nlink = 0 /\ Bare(dents', icache'[g].inum)
          /\ \A x \in Inums, n \in Names : dents'[x][n] # icache'[g].inum
      BY <2>1, <2>3, <2>4, <2>5
    <3> QED
      BY <3>3, <3>4, <3>5, <3>6 DEF NewOK, Num
  <2>24. NoPanic'
    BY <2>1 DEF LInv, NoPanic
  <2>25. m.pc \notin {"iput_free", "iput_done"}
    BY <2>7
  <2> QED
    BY <2>6, <2>14, <2>16, <2>17, <2>18, <2>19, <2>20, <2>21, <2>22, <2>23, <2>24, <2>25, StepL
<1> QED
  BY <1>1, <1>2

----------------------------------------------------------------------------
(* The invariant holds.                                                    *)

\* After mkfs and userinit there is a root and nothing else.
LEMMA InitL == ASSUME Init PROVE LInv
<1>1. RInv
  BY InitR
<1>2. ROOTINO \in Inums /\ Nil \notin Inums /\ 1 \in Slots /\ Up \notin Names /\ Up \in Elems /\ Names \subseteq Elems
  BY InodesAssumption, SlotsNat DEF Elems
<1>3. \A s \in Slots : /\ ~icache[s].busy /\ ~icache[s].valid
                       /\ icache[s].ref > 0 => icache[s].inum = ROOTINO
  BY <1>2 DEF Init, Fresh, Unused
<1>4. /\ dinode[ROOTINO].type = "DIR" /\ dinode[ROOTINO].nlink = 1
      /\ \A i \in Inums : i # ROOTINO => dinode[i].type = "0" /\ dinode[i].nlink = 0
  BY <1>2 DEF Init, Free
<1>5. /\ \A i \in Inums, n \in Names : dents[i][n] = Nil
      /\ \A i \in Inums : i # ROOTINO => dents[i][Up] = Nil
  BY <1>2 DEF Init, NoDents
<1>6. \A p \in Procs : pr[p] = User
  BY DEF Init
<1>7. /\ User.pc = "user" /\ User.k = "user" /\ User.path = <<>> /\ User.lk = {} /\ User.ip = Nil
      /\ Place(User) = "user"
  BY DEF User, Place, Puts
<1>8. LockOK(User) /\ \A s : ~Holder(User, s)
  BY <1>7 DEF LockOK, Holder, FreesIt
<1>9. LockInv
  BY <1>3, <1>6, <1>8 DEF LockInv
<1>10. CacheInv
  BY <1>3, <1>4 DEF CacheInv, Num
<1>11. FreeInv
  BY <1>6, <1>7 DEF FreeInv
<1>12. TreeInv(dinode, dents)
  <2>1. \A i \in Inums, n \in Names, d \in Inums : dents[i][n] # d
    BY <1>2, <1>5
  <2>2. \A i \in Inums : dinode[i].type = "0" => dinode[i].nlink = 0
    BY <1>4
  <2>3. \A i \in Inums : dinode[i].type # "DIR" => Bare(dents, i)
    BY <1>4, <1>5 DEF Bare, Elems
  <2> QED
    BY <1>2, <1>4, <2>1, <2>2, <2>3 DEF TreeInv
<1>13. PlaceInv
  <2>1. <<>> \in Seq(Names)
    OBVIOUS
  <2>2. ~Linking(User)
    BY <1>7 DEF Linking
  <2>3. PlaceOK(User, icache, dinode, dents)
    BY <1>7, <2>1, <2>2 DEF PlaceOK, DpAt
  <2> QED
    BY <1>6, <2>3 DEF PlaceInv
<1>14. NewInv
  BY <1>6, <1>7 DEF NewInv
<1>15. CoverInv
  <2> SUFFICES ASSUME NEW i \in Inums PROVE dinode[i].nlink >= Due(i)
    BY DEF CoverInv
  <2>1. Named(i) = {}
    BY <1>2, <1>5 DEF Named
  <2>2. Subdirs(i) = {}
    BY <1>2, <1>5 DEF Subdirs
  <2>3. Pend(i) = {}
    BY <1>6, <1>7 DEF Pend, Owes, Linking
  <2>4. Cardinality({}) = 0
    BY FS_EmptySet
  <2>5. Due(i) = One(i, ROOTINO)
    <3>1. One(i, ROOTINO) \in Nat
      BY DEF One
    <3>2. Due(i) = 0 + 0 + 0 + One(i, ROOTINO)
      BY <2>1, <2>2, <2>3, <2>4 DEF Due
    <3> QED
      BY <3>1, <3>2
  <2> QED
    BY <1>4, <2>5 DEF One
<1>16. NoPanic
  BY DEF Init, NoPanic
<1> QED
  BY <1>1, <1>9, <1>10, <1>11, <1>12, <1>13, <1>14, <1>15, <1>16 DEF LInv

\* Every step of every process keeps it.
LEMMA NextL == ASSUME NoUp, LInv, [Next]_vars PROVE LInv'
<1>1. RInv'
  BY NextR DEF LInv
<1>2. CASE UNCHANGED vars
  <2>1. UNCHANGED <<icache, dinode, dents, pr, cwd, ofile>> /\ panicked' = panicked
    BY <1>2 DEF vars
  <2> QED
    BY <2>1, NoInodesL DEF LInv, NoPanic
<1>3. CASE Next
  <2>1. PICK p \in Procs : \/ Kernel(p) \/ close(p)
                           \/ \E op \in Ops \ {"close"}, path \in Paths : Call(p, op, path)
    BY <1>3 DEF Next
  <2>2. CASE Kernel(p)
    <3>1. CASE ilock(p) \/ iput(p) \/ IputFree(p) \/ IputDone(p)
      BY <1>1, <3>1, IlockL, IputFreesL, IputBackL, IputFreeL, IputDoneL
    <3>2. CASE NamexStep(p)
      BY <1>1, <3>2, NxEndL, NxParentL, NxFailL, NxStepL DEF NamexStep
    <3>3. CASE OpenDone(p) \/ ChdirDone(p)
      BY <1>1, <3>3, OpenDoneL, ChdirDoneL
    <3>4. CASE CreateStep(p)
      BY <1>1, <3>4, CrExistsL, CrFoundL, CrAllocL, CrNewL, PuttingL DEF CreateStep
    <3>5. CASE UnlinkStep(p)
      BY <1>1, <3>5, UnFoundL, UnEraseL, PuttingL, TakenBackL DEF UnlinkStep
    <3>6. CASE LinkStep(p)
      BY <1>1, <3>6, CallL, LnExistsL, LnNameL, LnCountL, PuttingL, TakenBackL DEF LinkStep
    <3> QED
      BY <2>2, <3>1, <3>2, <3>3, <3>4, <3>5, <3>6 DEF Kernel
  <2>3. CASE close(p)
    BY <1>1, <2>3, CloseL
  <2>4. CASE \E op \in Ops \ {"close"}, path \in Paths : Call(p, op, path)
    BY <1>1, <2>4, CallL
  <2> QED
    BY <2>1, <2>2, <2>3, <2>4
<1> QED
  BY <1>2, <1>3

\* Locks, cache, disk, directories and link counts fit together at every step.
THEOREM LinkInvariant == NoUp => (Spec => []LInv)
<1> SUFFICES ASSUME NoUp PROVE Spec => []LInv
  OBVIOUS
<1>1. Init => LInv
  BY InitL
<1>2. LInv /\ [Next]_vars => LInv'
  BY NextL
<1> QED
  BY <1>1, <1>2, PTL DEF Spec

\* No entry of the cache that is in use and valid disagrees with the disk, also
\* after ialloc() has handed out the number of an inode that iput() is still
\* letting go, and ilock() and iput() never panic.
THEOREM CoherentCorrect == NoUp => (Spec => []Coherent)
<1> SUFFICES ASSUME NoUp PROVE Spec => []Coherent
  OBVIOUS
<1>1. ASSUME LInv PROVE Coherent
  <2>1. RInv /\ CacheInv /\ panicked \in {"none", "ialloc: no inodes"}
    BY <1>1 DEF LInv, NoPanic
  <2>2. ASSUME NEW s \in Slots, icache[s].ref > 0, icache[s].valid, \A p \in Procs : ~Frees(p, s)
        PROVE  dinode[icache[s].inum] = [type |-> icache[s].type, nlink |-> icache[s].nlink]
    <3>1. ~Gone(s)
      BY <2>2 DEF Gone, Frees
    <3>2. dinode[icache[s].inum].type = icache[s].type /\ dinode[icache[s].inum].nlink = icache[s].nlink
      BY <2>1, <2>2, <3>1 DEF CacheInv, Num
    <3>3. dinode[icache[s].inum] \in [type : Types, nlink : Int]
      BY <2>1, <2>2 DEF RInv, TypeOK, CacheOK
    <3> QED
      BY <3>2, <3>3
  <2> QED
    BY <2>1, <2>2 DEF Coherent
<1> QED
  BY <1>1, LinkInvariant, PTL

\* At every step of create, link and unlink, and while others run between two
\* of them, an inode has a link for each name and each subdirectory it has.
THEOREM LinksCoverCorrect == NoUp => (Spec => []LinksCover)
<1> SUFFICES ASSUME NoUp PROVE Spec => []LinksCover
  OBVIOUS
<1>1. ASSUME LInv, NEW i \in Inums
      PROVE  dinode[i].nlink >= Cardinality(Named(i)) + Cardinality(Subdirs(i))
  <2>1. dinode[i].nlink >= Cardinality(Named(i)) + Cardinality(Subdirs(i)) + Cardinality(Pend(i)) + One(i, ROOTINO)
    BY <1>1 DEF LInv, CoverInv, Due
  <2>2. /\ Cardinality(Named(i)) \in Nat /\ Cardinality(Subdirs(i)) \in Nat /\ Cardinality(Pend(i)) \in Nat
        /\ One(i, ROOTINO) \in Nat
    BY DueFinite
  <2>3. dinode[i].nlink \in Int
    BY <1>1 DEF LInv, RInv, TypeOK
  <2> QED
    BY <2>1, <2>2, <2>3
<1>2. LInv => LinksCover
  BY <1>1 DEF LinksCover
<1> QED
  BY <1>2, LinkInvariant, PTL

\* No name leads to an inode that iput() has freed.
THEOREM NoDanglingCorrect == NoUp => (Spec => []NoDangling)
<1> SUFFICES ASSUME NoUp PROVE Spec => []NoDangling
  OBVIOUS
<1>1. ASSUME LInv, NEW i \in Inums, Named(i) # {} PROVE dinode[i].type # "0"
  <2>1. PICK x \in Inums \X Names : dents[x[1]][x[2]] = i
    BY <1>1 DEF Named
  <2>2. RInv /\ CoverInv /\ TreeInv(dinode, dents)
    BY <1>1 DEF LInv
  <2>3. PICK j \in Inums, n \in Names : dents[j][n] = i
    BY <2>1
  <2> QED
    BY <2>2, <2>3, NamedGood DEF Good
<1>2. LInv => NoDangling
  BY <1>1 DEF NoDangling
<1> QED
  BY <1>2, LinkInvariant, PTL

\* A process that waits for a lock with another one in its hands is in the
\* middle of create or unlink, and waits for an inode below the one it has.
LEMMA WaitsHolding ==
  ASSUME LInv, NEW p \in Procs, Wants(p), NEW s \in pr[p].lk
  PROVE  pr[p].pc \in {"cr_new", "un_ip"} /\ s = pr[p].dp /\ Target(p) = pr[p].ip
<1>1. LockOK(pr[p]) /\ pr[p] \in Stacks
  BY Parts
<1>2. Target(p) # Nil /\ Target(p) \notin pr[p].lk
  BY DEF Wants
<1>3. CASE pr[p].pc = "nx" /\ pr[p].path # <<>>
  <2>1. Target(p) = pr[p].cur /\ Place(pr[p]) = "nx"
    BY <1>3 DEF Target, Place, Puts
  <2> QED
    BY <1>1, <1>2, <2>1 DEF LockOK, DpAt, IpLock
<1>4. CASE pr[p].pc \in {"cr_dp", "un_dp", "ln_dp"}
  <2>1. Target(p) = pr[p].dp /\ Place(pr[p]) = pr[p].pc
    BY <1>4 DEF Target, Place, Puts
  <2> QED
    BY <1>1, <1>2, <1>4, <2>1 DEF LockOK, DpAt, IpLock
<1>5. CASE pr[p].pc \in {"op", "cd", "ln", "ln_bad", "cr_new", "cr_found", "un_ip"}
  <2>1. Target(p) = pr[p].ip /\ Place(pr[p]) = pr[p].pc
    BY <1>5 DEF Target, Place, Puts
  <2> QED
    BY <1>1, <1>2, <1>5, <2>1 DEF LockOK, DpAt, IpLock
<1>6. CASE /\ ~(pr[p].pc = "nx" /\ pr[p].path # <<>>)
           /\ pr[p].pc \notin {"cr_dp", "un_dp", "ln_dp"}
           /\ pr[p].pc \notin {"op", "cd", "ln", "ln_bad", "cr_new", "cr_found", "un_ip"}
  BY <1>2, <1>6 DEF Target
<1> QED
  BY <1>3, <1>4, <1>5, <1>6

\* No two processes hold an inode each and wait for the one of the other:
\* who holds two goes down the tree, and two directories are not below each
\* other.
THEOREM NoLockCycleCorrect == NoUp => (Spec => []NoLockCycle)
<1> SUFFICES ASSUME NoUp PROVE Spec => []NoLockCycle
  OBVIOUS
<1>1. ASSUME LInv, NEW p \in Procs, NEW q \in Procs, WaitsFor(p, q), WaitsFor(q, p) PROVE FALSE
  <2>1. /\ Wants(p) /\ Target(p) \in pr[q].lk /\ Wants(q) /\ Target(q) \in pr[p].lk /\ p # q
    BY <1>1 DEF WaitsFor, Wants
  <2>2. pr[p].pc \in {"cr_new", "un_ip"} /\ Target(q) = pr[p].dp /\ Target(p) = pr[p].ip
    BY <1>1, <2>1, WaitsHolding
  <2>3. pr[q].pc \in {"cr_new", "un_ip"} /\ Target(p) = pr[q].dp /\ Target(q) = pr[q].ip
    BY <1>1, <2>1, WaitsHolding
  <2>4. pr[p].ip = pr[q].dp /\ pr[q].ip = pr[p].dp
    BY <2>2, <2>3
  <2>5. NewInv
    BY <1>1 DEF LInv
  <2>6. pr[p].pc # "cr_new"
    BY <2>1, <2>4, <2>5 DEF NewInv, NewOK, PtrsOf
  <2>7. pr[q].pc # "cr_new"
    BY <2>1, <2>4, <2>5 DEF NewInv, NewOK, PtrsOf
  <2>8. Place(pr[p]) = "un_ip" /\ Place(pr[q]) = "un_ip"
    BY <2>2, <2>3, <2>6, <2>7 DEF Place, Puts
  <2>9. PICK a, b, n, o : a = Num(pr[p].dp) /\ b = Num(pr[p].ip) /\ n = pr[p].name /\ o = pr[q].name
    OBVIOUS
  <2>10. a \in Inums /\ b \in Inums /\ n \in Names /\ dents[a][n] = b
    BY <1>1, <2>8, <2>9, ErasedIs
  <2>11. o \in Names /\ dents[b][o] = a
    <3>1. b = Num(pr[q].dp) /\ a = Num(pr[q].ip)
      BY <2>4, <2>9
    <3> QED
      BY <1>1, <2>8, <2>9, <3>1, ErasedIs
  <2>12. TreeInv(dinode, dents)
    BY <1>1 DEF LInv
  <2> QED
    BY <2>10, <2>11, <2>12 DEF TreeInv
<1>2. LInv => NoLockCycle
  BY <1>1 DEF NoLockCycle
<1> QED
  BY <1>2, LinkInvariant, PTL
=============================================================================
