---------------------------- MODULE MemoryProofs ----------------------------
(***************************************************************************)
(* Proofs about Memory, for any number of pages, of processes, of calls    *)
(* and of programs: every page is in one place, no call ever finds the     *)
(* page tables other than it expects, and the memory of a process holds    *)
(* what the process and its calls have put there.                          *)
(***************************************************************************)
EXTENDS Memory, FiniteSetTheorems, SequenceTheorems, WellFoundedInduction, TLAPS

----------------------------------------------------------------------------
(* The inductive invariant: its parts are predicates of the values they    *)
(* constrain, so that what a step leaves alone is literally the same.      *)

States   == {"UNUSED", "EMBRYO", "RUNNABLE", "ZOMBIE"}
PageOr0  == 0 .. NPAGE
ProcRecs == [state : States, kstack : PageOr0, pgdir : PageOr0, sz : Nat, stk : Int, parent : Nat]
Dirents  == [tab : Seq(Pages), pte : [VPage -> PageOr0] \cup {<<>>}]
Subs     == {"none", "setupkvm", "allocuvm", "deallocuvm", "freevm"}
Ats      == {"grow", "kstack", "copy", "failed", "segment", "load", "commit", "bad", "reap"}
Frames   ==
  [op : {"sbrk", "fork", "exec", "wait"}, at : Ats, sub : Subs, d : PageOr0, a : Nat, old : Nat,
   new : Nat, ret : Nat, np : Nat, prog : Programs \cup {<<>>}, i : Nat, sz : Nat, args : Nat]

Typed ==
  /\ proc \in [Procs -> ProcRecs]
  /\ act \in [Procs -> Frames \cup {User}]
  /\ dir \in [Pages -> Dirents]
  /\ panicked = "no"

\* Who has a page.  The owner of a page directory is the process whose image
\* it is ("pd"), or the call that builds it or takes it apart ("ad").
Kinds == {"free", "lost", "kstack", "pd", "ad", "table", "user"}
Owners == [Pages -> [k : Kinds, a : Nat, b : Nat]]
Holds(o, d)       == o[d].k \in {"pd", "ad"}
Is(o, pg, k, a, b) == o[pg].k = k /\ o[pg].a = a /\ o[pg].b = b
Distinct(s) == \A i, j \in 1 .. Len(s) : s[i] = s[j] => i = j

\* The owner k of every page that the values of f name, and of no other.
Named(o, k, f) ==
  /\ f \in [Procs -> PageOr0]
  /\ \A p \in Procs : f[p] # 0 => Is(o, f[p], k, p, 0)
  /\ \A pg \in Pages : o[pg].k = k => o[pg].a \in Procs /\ f[o[pg].a] = pg

\* What a page directory leads to belongs to it, and nothing else does.
DirOwns(o, dr) ==
  /\ \A d \in Pages : Holds(o, d) =>
       /\ dr[d].tab \in Seq(Pages) /\ Distinct(dr[d].tab) /\ dr[d].pte \in [VPage -> PageOr0]
       /\ \A i \in 1 .. Len(dr[d].tab) : Is(o, dr[d].tab[i], "table", d, 0)
       /\ \A v \in VPage : dr[d].pte[v] # 0 => Is(o, dr[d].pte[v], "user", d, v)
  /\ \A pg \in Pages : o[pg].k = "table" =>
       /\ o[pg].a \in Pages /\ Holds(o, o[pg].a)
       /\ \E i \in 1 .. Len(dr[o[pg].a].tab) : dr[o[pg].a].tab[i] = pg
  /\ \A pg \in Pages : o[pg].k = "user" =>
       /\ o[pg].a \in Pages /\ Holds(o, o[pg].a) /\ o[pg].b \in VPage
       /\ dr[o[pg].a].pte[o[pg].b] = pg

\* The free list, and the pages that are lost.
ListOwns(o, fl, ls) ==
  /\ fl \in Seq(Pages) /\ Distinct(fl) /\ ls \in SUBSET Pages
  /\ \A i \in 1 .. Len(fl) : o[fl[i]].k = "free"
  /\ \A pg \in Pages : o[pg].k = "free" => \E i \in 1 .. Len(fl) : fl[i] = pg
  /\ \A pg \in Pages : o[pg].k = "lost" <=> pg \in ls

Owned(o, fl, ks, pd, ad, dr, ls) ==
  /\ o \in Owners
  /\ ListOwns(o, fl, ls)
  /\ Named(o, "kstack", ks) /\ Named(o, "pd", pd) /\ Named(o, "ad", ad)
  /\ DirOwns(o, dr)

\* The page directory a call has for itself: sbrk works on its process's.
Private(r) == r # User /\ r.op # "sbrk"
Own(r)     == IF Private(r) THEN r.d ELSE 0

KS == [p \in Procs |-> proc[p].kstack]
PD == [p \in Procs |-> IF Reaped(p) THEN 0 ELSE proc[p].pgdir]
AD == [p \in Procs |-> Own(act[p])]

Owning == \E o \in Owners : Owned(o, freelist, KS, PD, AD, dir, lost)

----------------------------------------------------------------------------
(* Sizes.  P is what is present in the page directory of process u, A in   *)
(* that of its call r, and n is the process r.np.                          *)

Aligned(a) == a = Page(a) * PGSIZE

Growing(r, A) ==
  /\ Aligned(r.a) /\ PGROUNDUP(r.old) <= r.a /\ r.a < r.new /\ r.new <= USERTOP
  /\ A = PagesTo(r.a)

SbrkOK(r, u, P) ==
  /\ r.at = "grow" /\ r.d = u.pgdir
  /\ \/ r.sub = "none" /\ r.ret = 0 /\ (P = PagesTo(u.sz) \/ P = {})
     \/ r.sub = "none" /\ r.ret <= USERTOP /\ P = PagesTo(r.ret)
     \/ r.sub = "allocuvm" /\ Growing(r, P) /\ r.old = u.sz
     \/ /\ r.sub = "deallocuvm" /\ PagesTo(r.new) \subseteq P /\ P \subseteq PagesTo(r.old)
        /\ r.new <= USERTOP
        /\ r.ret = r.new \/ (r.ret = 0 /\ r.new = u.sz)

Freeing(r) == (r.sub = "freevm" /\ r.d # 0) \/ (r.sub = "none" /\ r.d = 0)

ForkOK(r, u, n, A) ==
  /\ r.np \in Procs /\ n.state = "EMBRYO"
  /\ \/ r.at = "kstack" /\ r.sub = "none" /\ r.d = 0 /\ r.a = 0 /\ n.kstack = 0
     \/ /\ r.at = "copy" /\ n.kstack # 0
        /\ r.sub = "setupkvm" \/ (r.sub = "none" /\ (r.ret = 0 <=> r.d = 0))
        /\ Aligned(r.a) /\ r.a <= PGROUNDUP(u.sz)
        /\ r.d = 0 \/ r.sub = "setupkvm" => r.a = 0
        /\ r.d # 0 => A = PagesTo(r.a)
     \/ r.at = "failed" /\ n.kstack # 0 /\ Freeing(r)

ExecOK(r, A) ==
  \/ /\ r.at = "segment" /\ r.sub \in {"none", "setupkvm"} /\ r.i >= 1 /\ r.sz <= USERTOP
     /\ r.d = 0 \/ r.sub = "setupkvm" => r.sz = 0
     /\ r.d # 0 => A = PagesTo(r.sz)
  \/ /\ r.at \in {"load", "commit"} /\ r.d # 0
     /\ r.at = "load" => r.i \in 1 .. Len(r.prog)
     /\ \/ r.sub = "allocuvm" /\ Growing(r, A)
        \/ r.sub = "deallocuvm" /\ r.ret = 0
        \/ r.sub = "none" /\ (r.ret = 0 \/ (r.ret <= USERTOP /\ A = PagesTo(r.ret)))
  \/ r.at = "bad" /\ Freeing(r)

WaitOK(r, n) == r.at = "reap" /\ r.np \in Procs /\ n.state = "ZOMBIE" /\ n.kstack = 0 /\ Freeing(r)

CallOK(r, u, n, P, A) ==
  \/ r.op = "sbrk" /\ SbrkOK(r, u, P)
  \/ r.op = "fork" /\ P = PagesTo(u.sz) /\ ForkOK(r, u, n, A)
  \/ r.op = "exec" /\ P = PagesTo(u.sz) /\ ExecOK(r, A)
  \/ r.op = "wait" /\ P = PagesTo(u.sz) /\ WaitOK(r, n)

\* A process in user space has its pages, or has given all of them back.
ProcOK(r, u, n, P, A, reaped) ==
  /\ u.sz <= USERTOP
  /\ u.state = "UNUSED" => u.kstack = 0 /\ u.pgdir = 0
  /\ u.state = "EMBRYO" => u.pgdir = 0
  /\ u.state = "RUNNABLE" => u.kstack # 0 /\ u.pgdir # 0
  /\ u.state = "ZOMBIE" /\ ~reaped => u.kstack # 0 /\ u.pgdir # 0
  /\ reaped => u.state = "ZOMBIE"
  /\ r = User /\ u.state = "RUNNABLE" => P = PagesTo(u.sz) \/ P = {}
  /\ r # User => u.state = "RUNNABLE" /\ CallOK(r, u, n, P, A)

\* What is present in the page directory c.
Pres(c) == {v \in DOMAIN c.pte : c.pte[v] # 0}

Sane ==
  \A p \in Procs :
    ProcOK(act[p], proc[p], proc[act[p].np], Pres(dir[proc[p].pgdir]), Pres(dir[act[p].d]), Reaped(p))

\* A slot is filled by one fork, and one wait holds ptable.lock.
Alone ==
  \A p, q \in Procs : p # q /\ act[p] # User /\ act[q] # User =>
    /\ ~(act[p].op = "fork" /\ act[q].op = "fork" /\ act[p].np = act[q].np)
    /\ ~(act[p].op = "wait" /\ act[q].op = "wait")

MInv == Typed /\ Owning /\ Sane /\ Alone

----------------------------------------------------------------------------
(* Pages and sizes.                                                        *)

\* Division by the size of a page.
LEMMA Divides ==
  ASSUME NEW x \in Nat
  PROVE  /\ Page(x) \in Nat /\ Page(x) * PGSIZE <= x /\ x < Page(x) * PGSIZE + PGSIZE
BY MemoryAssumption DEF Page

\* The order of pages is that of their addresses.
LEMMA Below ==
  ASSUME NEW v \in Nat, NEW n \in Nat
  PROVE  /\ v * PGSIZE \in Nat
         /\ v < n => v * PGSIZE + PGSIZE <= n * PGSIZE
         /\ v <= n => v * PGSIZE <= n * PGSIZE
BY MemoryAssumption

\* Pages of user memory are numbers.
LEMMA VPageNat == VPage \subseteq Nat /\ PGSIZE \in Nat \ {0} /\ \A v \in VPage : v * PGSIZE \in Nat
BY Below, MemoryAssumption DEF VPage

\* A page begins at its number times PGSIZE.
LEMMA PageOf == ASSUME NEW n \in Nat PROVE n * PGSIZE \in Nat /\ Page(n * PGSIZE) = n
<1>1. PICK g \in Nat \ {0} : g = PGSIZE
  BY MemoryAssumption
<1>2. n * g \in Nat
  BY <1>1
<1>3. PICK k \in Nat : k = (n * g) \div g /\ k * g <= n * g /\ n * g < k * g + g
  BY <1>1, <1>2, Divides DEF Page
<1>4. ~(k < n)
  BY <1>1, <1>3, Below
<1>5. ~(n < k)
  BY <1>1, <1>3, Below
<1> QED
  BY <1>1, <1>2, <1>3, <1>4, <1>5 DEF Page

\* PGROUNDUP is the next boundary.
LEMMA RoundUp ==
  ASSUME NEW a \in Nat
  PROVE  /\ PGROUNDUP(a) \in Nat /\ a <= PGROUNDUP(a) /\ PGROUNDUP(a) < a + PGSIZE
         /\ Aligned(PGROUNDUP(a)) /\ Page(PGROUNDUP(a)) \in Nat
<1>1. PGSIZE \in Nat \ {0} /\ a + PGSIZE - 1 \in Nat
  BY MemoryAssumption
<1>2. PICK k \in Nat : k = Page(a + PGSIZE - 1)
  BY <1>1, Divides
<1>3. PGROUNDUP(a) = k * PGSIZE
  BY <1>2 DEF PGROUNDUP, Page
<1>4. k * PGSIZE \in Nat /\ k * PGSIZE <= a + PGSIZE - 1 /\ a + PGSIZE - 1 < k * PGSIZE + PGSIZE
  BY <1>1, <1>2, Divides, Below
<1>5. Page(k * PGSIZE) = k
  BY PageOf
<1> QED
  BY <1>1, <1>3, <1>4, <1>5 DEF Aligned

\* The pages below a boundary.
LEMMA AlignedPages ==
  ASSUME NEW a \in Nat, Aligned(a)
  PROVE  /\ Page(a) \in Nat /\ \A v \in Nat : v * PGSIZE < a <=> v < Page(a)
<1>1. PICK n \in Nat : n = Page(a) /\ a = n * PGSIZE
  BY Divides DEF Aligned
<1>2. ASSUME NEW v \in Nat PROVE v * PGSIZE < a <=> v < n
  <2>1. v < n => v * PGSIZE + PGSIZE <= a
    BY <1>1, Below
  <2>2. ~(v < n) => a <= v * PGSIZE
    BY <1>1, Below
  <2> QED
    BY <1>1, <2>1, <2>2, Below, MemoryAssumption
<1> QED
  BY <1>1, <1>2

\* The next page.
LEMMA NextPage ==
  ASSUME NEW a \in Nat, Aligned(a)
  PROVE  /\ a + PGSIZE \in Nat /\ Aligned(a + PGSIZE) /\ Page(a + PGSIZE) = Page(a) + 1
         /\ Page(a) \notin PagesTo(a)
         /\ PagesTo(a + PGSIZE) = PagesTo(a) \cup {v \in VPage : v = Page(a)}
<1>1. PICK n \in Nat : n = Page(a) /\ a = n * PGSIZE
  BY Divides DEF Aligned
<1>2. (n + 1) * PGSIZE = a + PGSIZE /\ PGSIZE \in Nat \ {0}
  BY <1>1, MemoryAssumption
<1>3. Page(a + PGSIZE) = n + 1
  BY <1>2, PageOf
<1>4. Aligned(a + PGSIZE) /\ a + PGSIZE \in Nat
  BY <1>2, <1>3 DEF Aligned
<1>5. VPage \subseteq Nat
  BY DEF VPage
<1>6. \A v \in VPage : (v * PGSIZE < a <=> v < n) /\ (v * PGSIZE < a + PGSIZE <=> v < n + 1)
  BY <1>1, <1>3, <1>4, <1>5, AlignedPages
<1>7. n \notin PagesTo(a)
  BY <1>1, <1>6 DEF PagesTo
<1>8. \A v \in VPage : v < n + 1 <=> v < n \/ v = n
  BY <1>5
<1> QED
  BY <1>1, <1>3, <1>4, <1>6, <1>7, <1>8 DEF PagesTo

\* An address below USERTOP is in a page of user memory.
LEMMA InRange ==
  ASSUME NEW a \in Nat, Aligned(a), NEW b \in Nat, a < b, b <= USERTOP
  PROVE  Page(a) \in VPage
<1>1. PICK n \in Nat : n = Page(a) /\ a = n * PGSIZE
  BY Divides DEF Aligned
<1>2. VPAGES \in Nat /\ USERTOP = VPAGES * PGSIZE /\ USERTOP \in Nat
  BY MemoryAssumption DEF USERTOP
<1>3. n < VPAGES
  <2>1. ~(n < VPAGES) => USERTOP <= n * PGSIZE
    BY <1>2, Below
  <2> QED
    BY <1>1, <1>2, <2>1
<1> QED
  BY <1>1, <1>2, <1>3 DEF VPage

\* More units are no fewer pages.
LEMMA MorePages ==
  ASSUME NEW a \in Nat, NEW b \in Nat, a <= b
  PROVE  PagesTo(a) \subseteq PagesTo(b)
<1>1. \A v \in VPage : v * PGSIZE \in Nat
  BY VPageNat
<1> QED
  BY <1>1 DEF PagesTo

\* The units of the last page make no difference.
LEMMA LastPage ==
  ASSUME NEW a \in Nat, Aligned(a), NEW b \in Nat, a < b, b <= a + PGSIZE
  PROVE  PagesTo(b) = PagesTo(a + PGSIZE)
<1>1. PICK n \in Nat : n = Page(a) /\ a = n * PGSIZE
  BY Divides DEF Aligned
<1>2. ASSUME NEW v \in VPage PROVE v * PGSIZE < b <=> v * PGSIZE < a + PGSIZE
  <2>1. v \in Nat /\ v * PGSIZE \in Nat /\ PGSIZE \in Nat
    BY VPageNat
  <2>a. PICK x \in Nat : x = v * PGSIZE
    BY <2>1
  <2>2. v <= n => x <= a
    BY <1>1, <2>1, <2>a, Below
  <2>3. n < v => a + PGSIZE <= x
    <3>1. n < v => n * PGSIZE + PGSIZE <= v * PGSIZE
      BY <2>1, Below
    <3> QED
      BY <1>1, <2>a, <3>1
  <2>4. PGSIZE > 0
    BY MemoryAssumption
  <2>5. x < b <=> x < a + PGSIZE
    BY <1>1, <2>1, <2>2, <2>3, <2>4
  <2> QED
    BY <2>a, <2>5
<1> QED
  BY <1>2 DEF PagesTo

\* What lies between a size and its boundary is in the same pages.
LEMMA SamePages ==
  ASSUME NEW a \in Nat, NEW b \in Nat, a <= b, b <= PGROUNDUP(a)
  PROVE  PagesTo(a) = PagesTo(b)
<1>1. PICK n \in Nat : PGROUNDUP(a) = n * PGSIZE /\ n * PGSIZE < a + PGSIZE /\ n * PGSIZE \in Nat
  BY RoundUp DEF Aligned
<1>2. ASSUME NEW v \in VPage PROVE v * PGSIZE < a <=> v * PGSIZE < b
  <2>1. v \in Nat /\ v * PGSIZE \in Nat /\ PGSIZE \in Nat
    BY VPageNat
  <2>2. CASE v < n
    BY <1>1, <2>1, <2>2, Below
  <2>3. CASE n <= v
    BY <1>1, <2>1, <2>3, Below
  <2> QED
    BY <1>1, <2>1, <2>2, <2>3
<1> QED
  BY <1>2 DEF PagesTo

\* deallocuvm begins behind the last page that stays.
LEMMA Behind ==
  ASSUME NEW v \in VPage, NEW a \in Nat
  PROVE  v * PGSIZE >= PGROUNDUP(a) <=> v \notin PagesTo(a)
<1>1. PICK n \in Nat : PGROUNDUP(a) = n * PGSIZE /\ n * PGSIZE < a + PGSIZE /\ n * PGSIZE \in Nat
                       /\ a <= n * PGSIZE
  BY RoundUp DEF Aligned
<1>2. v \in Nat /\ v * PGSIZE \in Nat /\ PGSIZE \in Nat
  BY VPageNat
<1>3. CASE v < n
  BY <1>1, <1>2, <1>3, Below DEF PagesTo
<1>4. CASE n <= v
  BY <1>1, <1>2, <1>4, Below DEF PagesTo
<1> QED
  BY <1>1, <1>2, <1>3, <1>4

\* Nothing fills no page.
LEMMA NoPages == PagesTo(0) = {} /\ Aligned(0) /\ PGROUNDUP(0) = 0
<1>1. \A v \in VPage : v * PGSIZE \in Nat
  BY VPageNat
<1>2. PagesTo(0) = {}
  BY <1>1 DEF PagesTo
<1>3. 0 * PGSIZE = 0 /\ PGSIZE \in Nat \ {0}
  BY MemoryAssumption
<1>4. Page(0) = 0
  BY <1>3, PageOf
<1>5. PGROUNDUP(0) \in Nat /\ PGROUNDUP(0) < PGSIZE
  BY <1>3, RoundUp
<1>6. PGROUNDUP(0) = Page(PGROUNDUP(0)) * PGSIZE /\ Page(PGROUNDUP(0)) \in Nat
  BY RoundUp DEF Aligned
<1>7. ~(0 < Page(PGROUNDUP(0)))
  BY <1>3, <1>5, <1>6, Below
<1> QED
  BY <1>2, <1>3, <1>4, <1>6, <1>7 DEF Aligned

----------------------------------------------------------------------------
(* The owners of pages: what happens when one page changes hands.          *)

\* o2 is o but for the owner x of page pg.
Given(o, o2, pg, x) ==
  /\ o \in Owners /\ o2 \in Owners /\ pg \in Pages
  /\ o2[pg] = x /\ \A g \in Pages : g # pg => o2[g] = o[g]

\* There is such a function.
LEMMA Give ==
  ASSUME NEW o \in Owners, NEW pg \in Pages, NEW k \in Kinds, NEW a \in Nat, NEW b \in Nat
  PROVE  \E o2 \in Owners : Given(o, o2, pg, [k |-> k, a |-> a, b |-> b])
<1> DEFINE x == [k |-> k, a |-> a, b |-> b]
           o2 == [o EXCEPT ![pg] = x]
<1>1. x \in [k : Kinds, a : Nat, b : Nat]
  OBVIOUS
<1> HIDE DEF x
<1>2. Given(o, o2, pg, x)
  BY <1>1 DEF Given, Owners
<1> QED
  BY <1>2 DEF Given, x

\* Pages of other kinds change hands.
LEMMA NamedKept ==
  ASSUME NEW o, NEW o2, NEW pg, NEW x, Given(o, o2, pg, x), NEW k, NEW f, Named(o, k, f),
         o[pg].k # k, x.k # k
  PROVE  Named(o2, k, f)
<1>1. \A p \in Procs : f[p] # 0 => f[p] \in Pages
  BY DEF Named, PageOr0, Pages
<1> QED
  BY <1>1 DEF Named, Given, Is

\* A process gets a page.
LEMMA NamedGain ==
  ASSUME NEW o, NEW o2, NEW pg, NEW p \in Procs, NEW k, Given(o, o2, pg, [k |-> k, a |-> p, b |-> 0]),
         NEW f, Named(o, k, f), o[pg].k # k, f[p] = 0
  PROVE  Named(o2, k, [f EXCEPT ![p] = pg])
<1> DEFINE g == [f EXCEPT ![p] = pg]
<1>1. \A q \in Procs : f[q] # 0 => f[q] \in Pages
  BY DEF Named, PageOr0, Pages
<1>2. pg \in PageOr0 /\ pg # 0 /\ pg \in Pages
  BY MemoryAssumption DEF Given, PageOr0, Pages
<1>3. g \in [Procs -> PageOr0] /\ g[p] = pg /\ \A q \in Procs : q # p => g[q] = f[q]
  BY <1>2 DEF Named
<1> HIDE DEF g
<1>4. o2[pg].k = k /\ o2[pg].a = p /\ o2[pg].b = 0
  BY DEF Given
<1>5. ASSUME NEW q \in Procs, g[q] # 0 PROVE Is(o2, g[q], k, q, 0)
  BY <1>1, <1>3, <1>4, <1>5 DEF Named, Given, Is
<1>6. ASSUME NEW h \in Pages, o2[h].k = k PROVE o2[h].a \in Procs /\ g[o2[h].a] = h
  <2>1. CASE h = pg
    BY <1>3, <1>4, <2>1
  <2>2. CASE h # pg
    <3>1. o2[h] = o[h] /\ o[h].a \in Procs /\ f[o[h].a] = h
      BY <1>6, <2>2 DEF Given, Named
    <3>2. h # 0
      BY MemoryAssumption DEF Pages
    <3> QED
      BY <1>3, <3>1, <3>2
  <2> QED
    BY <2>1, <2>2
<1> QED
  BY <1>3, <1>5, <1>6 DEF Named, g

\* A process gives a page away.
LEMMA NamedLoss ==
  ASSUME NEW o, NEW o2, NEW pg, NEW x, Given(o, o2, pg, x), NEW k, NEW f, Named(o, k, f),
         NEW p \in Procs, f[p] = pg, x.k # k
  PROVE  Named(o2, k, [f EXCEPT ![p] = 0])
<1> DEFINE g == [f EXCEPT ![p] = 0]
<1>1. \A q \in Procs : f[q] # 0 => f[q] \in Pages
  BY DEF Named, PageOr0, Pages
<1>2. pg # 0 /\ pg \in Pages /\ 0 \in PageOr0
  BY MemoryAssumption DEF Given, PageOr0, Pages
<1>3. g \in [Procs -> PageOr0] /\ g[p] = 0 /\ \A q \in Procs : q # p => g[q] = f[q]
  BY <1>2 DEF Named
<1> HIDE DEF g
<1>4. o[pg].a = p /\ o[pg].k = k
  BY <1>2 DEF Named, Is
<1>5. ASSUME NEW q \in Procs, g[q] # 0 PROVE Is(o2, g[q], k, q, 0)
  <2>1. q # p /\ f[q] # 0 /\ g[q] = f[q] /\ Is(o, f[q], k, q, 0) /\ f[q] \in Pages
    BY <1>1, <1>3, <1>5 DEF Named
  <2>2. f[q] # pg
    BY <2>1, <1>4 DEF Is
  <2> QED
    BY <2>1, <2>2 DEF Given, Is
<1>6. ASSUME NEW h \in Pages, o2[h].k = k PROVE o2[h].a \in Procs /\ g[o2[h].a] = h
  <2>1. h # pg
    BY <1>6 DEF Given
  <2>2. o2[h] = o[h] /\ o[h].a \in Procs /\ f[o[h].a] = h
    BY <1>6, <2>1 DEF Given, Named
  <2> QED
    BY <1>3, <1>4, <2>1, <2>2
<1> QED
  BY <1>3, <1>5, <1>6 DEF Named, g

\* kalloc takes the head of the free list.
LEMMA ListTake ==
  ASSUME NEW o, NEW o2, NEW x, NEW fl, NEW ls, ListOwns(o, fl, ls), fl # <<>>,
         Given(o, o2, Head(fl), x), x.k \notin {"free", "lost"}
  PROVE  ListOwns(o2, Tail(fl), ls) /\ o[Head(fl)].k = "free" /\ Head(fl) \in Pages
<1> DEFINE t == Tail(fl)
<1>1. fl \in Seq(Pages) /\ Len(fl) \in Nat /\ Len(fl) >= 1 /\ Head(fl) = fl[1]
  BY DEF ListOwns
<1>2. t \in Seq(Pages) /\ Len(t) = Len(fl) - 1 /\ \A i \in 1 .. Len(t) : t[i] = fl[i + 1] /\ t[i] \in Pages
  BY <1>1
<1> HIDE DEF t
<1>3. \A i \in 1 .. Len(t) : i + 1 \in 1 .. Len(fl) /\ i + 1 # 1
  BY <1>1, <1>2
<1>4. 1 \in 1 .. Len(fl) /\ fl[1] \in Pages
  BY <1>1
<1>5. Distinct(t)
  BY <1>1, <1>2, <1>3 DEF ListOwns, Distinct
<1>6. ASSUME NEW i \in 1 .. Len(t) PROVE t[i] # fl[1] /\ o2[t[i]].k = "free"
  <2>1. i + 1 \in 1 .. Len(fl) /\ i + 1 # 1 /\ t[i] = fl[i + 1] /\ t[i] \in Pages
    BY <1>2, <1>3
  <2>2. t[i] # fl[1]
    BY <1>4, <2>1 DEF ListOwns, Distinct
  <2>3. o[t[i]].k = "free"
    BY <2>1 DEF ListOwns
  <2> QED
    BY <1>1, <2>1, <2>2, <2>3 DEF Given
<1>7. ASSUME NEW h \in Pages, o2[h].k = "free" PROVE \E i \in 1 .. Len(t) : t[i] = h
  <2>1. h # fl[1] /\ o[h].k = "free"
    BY <1>1, <1>7 DEF Given
  <2>2. PICK j \in 1 .. Len(fl) : fl[j] = h
    BY <2>1 DEF ListOwns
  <2>3. j - 1 \in 1 .. Len(t) /\ t[j - 1] = h
    BY <1>1, <1>2, <2>1, <2>2
  <2> QED
    BY <2>3
<1>8. o[fl[1]].k = "free" /\ fl[1] \notin ls
  BY <1>4 DEF ListOwns
<1>9. \A h \in Pages : o2[h].k = "lost" <=> h \in ls
  BY <1>1, <1>8 DEF ListOwns, Given
<1> QED
  BY <1>1, <1>2, <1>4, <1>5, <1>6, <1>7, <1>8, <1>9 DEF ListOwns, t

\* kfree puts a page in front of it.
LEMMA ListGive ==
  ASSUME NEW o, NEW o2, NEW x, NEW fl, NEW ls, ListOwns(o, fl, ls), NEW pg,
         Given(o, o2, pg, x), o[pg].k \notin {"free", "lost"}, x.k = "free"
  PROVE  ListOwns(o2, <<pg>> \o fl, ls)
<1> DEFINE t == <<pg>> \o fl
<1>1. fl \in Seq(Pages) /\ Len(fl) \in Nat /\ pg \in Pages
  BY DEF ListOwns, Given
<1>2. t \in Seq(Pages) /\ Len(t) = Len(fl) + 1 /\ t[1] = pg /\ \A i \in 1 .. Len(fl) : t[i + 1] = fl[i]
  BY <1>1
<1> HIDE DEF t
<1>3. \A i \in 1 .. Len(t) : i # 1 => i - 1 \in 1 .. Len(fl) /\ t[i] = fl[i - 1]
  <2>1. ASSUME NEW i \in 1 .. Len(t), i # 1 PROVE i - 1 \in 1 .. Len(fl) /\ t[i] = fl[i - 1]
    <3>1. i - 1 \in 1 .. Len(fl) /\ (i - 1) + 1 = i
      BY <1>1, <1>2, <2>1
    <3> QED
      BY <1>2, <3>1
  <2> QED
    BY <2>1
<1>4. \A i \in 1 .. Len(fl) : fl[i] # pg /\ fl[i] \in Pages /\ o2[fl[i]].k = "free"
  BY <1>1 DEF ListOwns, Given
<1>5. ASSUME NEW i \in 1 .. Len(t), NEW j \in 1 .. Len(t), t[i] = t[j] PROVE i = j
  <2>1. CASE i = 1 \/ j = 1
    BY <1>2, <1>3, <1>4, <1>5, <2>1
  <2>2. CASE i # 1 /\ j # 1
    <3>1. i - 1 = j - 1
      BY <1>3, <1>5, <2>2 DEF ListOwns, Distinct
    <3> QED
      BY <1>1, <1>2, <3>1
  <2> QED
    BY <2>1, <2>2
<1>6. \A i \in 1 .. Len(t) : o2[t[i]].k = "free"
  BY <1>2, <1>3, <1>4 DEF Given
<1>7. ASSUME NEW h \in Pages, o2[h].k = "free" PROVE \E i \in 1 .. Len(t) : t[i] = h
  <2>1. CASE h = pg
    <3>1. 1 \in 1 .. Len(t)
      BY <1>1, <1>2
    <3> QED
      BY <1>2, <2>1, <3>1
  <2>2. CASE h # pg
    <3>1. PICK j \in 1 .. Len(fl) : fl[j] = h
      BY <1>7, <2>2 DEF ListOwns, Given
    <3>2. j + 1 \in 1 .. Len(t) /\ t[j + 1] = h
      BY <1>1, <1>2, <3>1
    <3> QED
      BY <3>2
  <2> QED
    BY <2>1, <2>2
<1>8. \A h \in Pages : o2[h].k = "lost" <=> h \in ls
  BY <1>1 DEF ListOwns, Given
<1> QED
  BY <1>2, <1>5, <1>6, <1>7, <1>8 DEF ListOwns, Distinct, t

\* Pages that are neither free nor lost change hands.
LEMMA ListKept ==
  ASSUME NEW o, NEW o2, NEW x, NEW fl, NEW ls, ListOwns(o, fl, ls), NEW pg,
         Given(o, o2, pg, x), o[pg].k \notin {"free", "lost"}, x.k \notin {"free", "lost"}
  PROVE  ListOwns(o2, fl, ls)
<1>1. \A i \in 1 .. Len(fl) : fl[i] \in Pages
  BY DEF ListOwns
<1> QED
  BY <1>1 DEF ListOwns, Given

----------------------------------------------------------------------------
(* What page directories lead to, when one page changes hands.             *)

Inside == {"pd", "ad", "table", "user"}

\* What a directory owns is a page.
LEMMA Leads ==
  ASSUME NEW o, NEW dr, DirOwns(o, dr), NEW d \in Pages, Holds(o, d)
  PROVE  /\ \A i \in 1 .. Len(dr[d].tab) : dr[d].tab[i] \in Pages /\ Is(o, dr[d].tab[i], "table", d, 0)
         /\ \A v \in VPage : dr[d].pte[v] # 0 => dr[d].pte[v] \in Pages /\ Is(o, dr[d].pte[v], "user", d, v)
         /\ dr[d].tab \in Seq(Pages) /\ Len(dr[d].tab) \in Nat /\ Distinct(dr[d].tab)
         /\ dr[d].pte \in [VPage -> PageOr0]
<1>1. dr[d].tab \in Seq(Pages) /\ dr[d].pte \in [VPage -> PageOr0]
  BY DEF DirOwns
<1>2. \A v \in VPage : dr[d].pte[v] # 0 => dr[d].pte[v] \in Pages
  BY <1>1 DEF PageOr0, Pages
<1>3. \A i \in 1 .. Len(dr[d].tab) : dr[d].tab[i] \in Pages
  BY <1>1
<1> QED
  BY <1>1, <1>2, <1>3 DEF DirOwns

\* A page outside of all directories changes hands.
LEMMA DirKept ==
  ASSUME NEW o, NEW o2, NEW x, NEW pg, Given(o, o2, pg, x), NEW dr, DirOwns(o, dr),
         o[pg].k \notin Inside, x.k \notin Inside
  PROVE  DirOwns(o2, dr)
<1>1. \A d \in Pages : Holds(o2, d) <=> Holds(o, d)
  BY DEF Given, Holds, Inside
<1>2. ASSUME NEW d \in Pages, Holds(o, d)
      PROVE  /\ \A i \in 1 .. Len(dr[d].tab) : Is(o2, dr[d].tab[i], "table", d, 0)
             /\ \A v \in VPage : dr[d].pte[v] # 0 => Is(o2, dr[d].pte[v], "user", d, v)
  BY <1>2, Leads DEF Given, Is, Inside
<1>3. \A h \in Pages : o2[h].k \in {"table", "user"} => o2[h] = o[h]
  BY DEF Given, Inside
<1> QED
  BY <1>1, <1>2, <1>3 DEF DirOwns

\* Directories change hands between processes and calls.
Moved(o, o2) == \A h \in Pages : o2[h] = o[h] \/ (Holds(o, h) /\ Holds(o2, h))

\* What the directories own does not depend on who holds them.
LEMMA DirMoves ==
  ASSUME NEW o, NEW o2, Moved(o, o2), NEW dr, DirOwns(o, dr)
  PROVE  DirOwns(o2, dr)
<1>1. \A d \in Pages : Holds(o2, d) <=> Holds(o, d)
  BY DEF Moved, Holds
<1>3. \A h \in Pages : o2[h].k \in {"table", "user"} \/ o[h].k \in {"table", "user"} => o2[h] = o[h]
  BY DEF Moved, Holds
<1>2. ASSUME NEW d \in Pages, Holds(o, d)
      PROVE  /\ \A i \in 1 .. Len(dr[d].tab) : Is(o2, dr[d].tab[i], "table", d, 0)
             /\ \A v \in VPage : dr[d].pte[v] # 0 => Is(o2, dr[d].pte[v], "user", d, v)
  BY <1>2, <1>3, Leads DEF Is
<1> QED
  BY <1>1, <1>2, <1>3 DEF DirOwns

\* A free page becomes an empty directory.
LEMMA DirNew ==
  ASSUME NEW o, NEW o2, NEW x, NEW pg, Given(o, o2, pg, x), NEW dr \in [Pages -> Dirents],
         DirOwns(o, dr), o[pg].k \notin Inside, x.k \in {"pd", "ad"},
         NEW e, e.tab = <<>>, e.pte = [v \in VPage |-> 0]
  PROVE  DirOwns(o2, [dr EXCEPT ![pg] = e])
<1> DEFINE dr2 == [dr EXCEPT ![pg] = e]
<1>1. pg \in Pages /\ dr2[pg] = e /\ \A d \in Pages : d # pg => dr2[d] = dr[d]
  BY DEF Given
<1> HIDE DEF dr2
<1>2. \A d \in Pages : d # pg => (Holds(o2, d) <=> Holds(o, d))
  BY DEF Given, Holds
<1>3. ASSUME NEW d \in Pages, Holds(o, d), d # pg
      PROVE  /\ dr2[d].tab \in Seq(Pages) /\ Distinct(dr2[d].tab) /\ dr2[d].pte \in [VPage -> PageOr0]
             /\ \A i \in 1 .. Len(dr2[d].tab) : Is(o2, dr2[d].tab[i], "table", d, 0)
             /\ \A v \in VPage : dr2[d].pte[v] # 0 => Is(o2, dr2[d].pte[v], "user", d, v)
  <2>1. dr2[d] = dr[d]
    BY <1>1, <1>3
  <2>2. /\ \A i \in 1 .. Len(dr[d].tab) : Is(o2, dr[d].tab[i], "table", d, 0)
        /\ \A v \in VPage : dr[d].pte[v] # 0 => Is(o2, dr[d].pte[v], "user", d, v)
    BY <1>3, Leads DEF Given, Is, Inside
  <2> QED
    BY <1>3, <2>1, <2>2, Leads
<1>4. /\ dr2[pg].tab \in Seq(Pages) /\ Distinct(dr2[pg].tab) /\ dr2[pg].pte \in [VPage -> PageOr0]
      /\ Len(dr2[pg].tab) = 0 /\ \A v \in VPage : dr2[pg].pte[v] = 0
  <2>1. dr2[pg].tab = <<>> /\ dr2[pg].pte = [v \in VPage |-> 0] /\ 0 \in PageOr0
    BY <1>1, MemoryAssumption DEF PageOr0
  <2>2. <<>> \in Seq(Pages) /\ Len(<<>>) = 0 /\ Distinct(<<>>)
    BY DEF Distinct
  <2> QED
    BY <2>1, <2>2
<1>5. ASSUME NEW h \in Pages, o2[h].k \in {"table", "user"}
      PROVE  /\ o2[h] = o[h]
             /\ o[h].a \in Pages /\ Holds(o, o[h].a) => o[h].a # pg /\ Holds(o2, o[h].a) /\ dr2[o[h].a] = dr[o[h].a]
  BY <1>1, <1>2, <1>5 DEF Given, Inside, Holds
<1>6. ASSUME NEW d \in Pages, Holds(o2, d)
      PROVE  /\ dr2[d].tab \in Seq(Pages) /\ Distinct(dr2[d].tab) /\ dr2[d].pte \in [VPage -> PageOr0]
             /\ \A i \in 1 .. Len(dr2[d].tab) : Is(o2, dr2[d].tab[i], "table", d, 0)
             /\ \A v \in VPage : dr2[d].pte[v] # 0 => Is(o2, dr2[d].pte[v], "user", d, v)
  <2>1. CASE d = pg
    <3>1. 1 .. Len(dr2[pg].tab) = {}
      BY <1>4
    <3> QED
      BY <1>4, <2>1, <3>1
  <2>2. CASE d # pg
    <3>1. Holds(o, d)
      BY <1>2, <1>6, <2>2
    <3> QED
      BY <1>3, <2>2, <3>1
  <2> QED
    BY <2>1, <2>2
<1>7. ASSUME NEW h \in Pages, o2[h].k = "table"
      PROVE  /\ o2[h].a \in Pages /\ Holds(o2, o2[h].a)
             /\ \E i \in 1 .. Len(dr2[o2[h].a].tab) : dr2[o2[h].a].tab[i] = h
  BY <1>5, <1>7 DEF DirOwns
<1>8. ASSUME NEW h \in Pages, o2[h].k = "user"
      PROVE  /\ o2[h].a \in Pages /\ Holds(o2, o2[h].a) /\ o2[h].b \in VPage
             /\ dr2[o2[h].a].pte[o2[h].b] = h
  BY <1>5, <1>8 DEF DirOwns
<1>9. DirOwns(o2, dr2)
  BY <1>6, <1>7, <1>8 DEF DirOwns
<1> QED
  BY <1>9 DEF dr2

\* An entry becomes e: it gets a table, or a user page where there was none.
Gains(c, e, v, pg, k) ==
  \/ k = "table" /\ e.tab = Append(c.tab, pg) /\ e.pte = c.pte
  \/ /\ k = "user" /\ v \in VPage /\ c.pte[v] = 0
     /\ e.tab = c.tab /\ e.pte = [c.pte EXCEPT ![v] = pg]

\* A directory gets a page.
LEMMA DirGains ==
  ASSUME NEW o, NEW o2, NEW x, NEW pg, Given(o, o2, pg, x), NEW dr \in [Pages -> Dirents],
         DirOwns(o, dr), o[pg].k \notin Inside, NEW d \in Pages, Holds(o, d), NEW e, NEW v,
         Gains(dr[d], e, v, pg, x.k), x.a = d, x.b = IF x.k = "user" THEN v ELSE 0
  PROVE  DirOwns(o2, [dr EXCEPT ![d] = e])
<1> DEFINE dr2 == [dr EXCEPT ![d] = e]
<1>1. pg \in Pages /\ dr2[d] = e /\ \A c \in Pages : c # d => dr2[c] = dr[c]
  BY DEF Given
<1> HIDE DEF dr2
<1>2. (\A c \in Pages : Holds(o2, c) <=> Holds(o, c)) /\ pg # d
  BY DEF Given, Holds, Inside, Gains
<1>3. \A h \in Pages : h # pg => o2[h] = o[h]
  BY DEF Given
<1>4. o2[pg].k = x.k /\ o2[pg].a = x.a /\ o2[pg].b = x.b
  BY DEF Given
<1>5. ASSUME NEW c \in Pages, Holds(o, c)
      PROVE  /\ \A i \in 1 .. Len(dr[c].tab) : Is(o2, dr[c].tab[i], "table", c, 0)
             /\ \A w \in VPage : dr[c].pte[w] # 0 => Is(o2, dr[c].pte[w], "user", c, w)
             /\ dr[c].tab \in Seq(Pages) /\ Distinct(dr[c].tab) /\ dr[c].pte \in [VPage -> PageOr0]
  <2>1. \A i \in 1 .. Len(dr[c].tab) : dr[c].tab[i] # pg
    BY <1>5, Leads DEF Is, Inside
  <2>2. \A w \in VPage : dr[c].pte[w] # 0 => dr[c].pte[w] # pg
    BY <1>5, Leads DEF Is, Inside
  <2>3. \A i \in 1 .. Len(dr[c].tab) : Is(o2, dr[c].tab[i], "table", c, 0)
    BY <1>3, <1>5, <2>1, Leads DEF Is
  <2>4. \A w \in VPage : dr[c].pte[w] # 0 => Is(o2, dr[c].pte[w], "user", c, w)
    BY <1>3, <1>5, <2>2, Leads DEF Is
  <2> QED
    BY <1>5, <2>3, <2>4, Leads
<1>6. \A i \in 1 .. Len(dr[d].tab) : dr[d].tab[i] # pg
  BY Leads DEF Is, Inside
<1>7. dr[d].tab \in Seq(Pages) /\ Len(dr[d].tab) \in Nat /\ Distinct(dr[d].tab) /\ dr[d].pte \in [VPage -> PageOr0]
  BY Leads
<1>8. CASE x.k = "table"
  <2>1. x.a = d /\ x.b = 0 /\ e.tab = Append(dr[d].tab, pg) /\ e.pte = dr[d].pte
    BY <1>8 DEF Gains
  <2>2. /\ e.tab \in Seq(Pages) /\ Len(e.tab) = Len(dr[d].tab) + 1 /\ e.tab[Len(dr[d].tab) + 1] = pg
        /\ \A i \in 1 .. Len(dr[d].tab) : e.tab[i] = dr[d].tab[i]
    BY <1>1, <1>7, <2>1
  <2>3. \A i \in 1 .. Len(e.tab) : i \in 1 .. Len(dr[d].tab) \/ i = Len(dr[d].tab) + 1
    BY <1>7, <2>2
  <2>4. Distinct(e.tab)
    <3>1. \A i \in 1 .. Len(dr[d].tab) : e.tab[i] = dr[d].tab[i] /\ e.tab[i] # pg
      BY <1>6, <2>2
    <3>2. ASSUME NEW i \in 1 .. Len(e.tab), NEW j \in 1 .. Len(e.tab), e.tab[i] = e.tab[j] PROVE i = j
      <4>1. CASE i \in 1 .. Len(dr[d].tab) /\ j \in 1 .. Len(dr[d].tab)
        BY <1>7, <3>1, <3>2, <4>1 DEF Distinct
      <4>2. CASE i = Len(dr[d].tab) + 1 \/ j = Len(dr[d].tab) + 1
        BY <2>2, <2>3, <3>1, <3>2, <4>2
      <4> QED
        BY <2>3, <4>1, <4>2
    <3> QED
      BY <3>2 DEF Distinct
  <2>5. \A i \in 1 .. Len(e.tab) : Is(o2, e.tab[i], "table", d, 0)
    BY <1>4, <1>5, <1>8, <2>1, <2>2, <2>3 DEF Is
  <2>6. ASSUME NEW c \in Pages, Holds(o2, c)
        PROVE  /\ dr2[c].tab \in Seq(Pages) /\ Distinct(dr2[c].tab) /\ dr2[c].pte \in [VPage -> PageOr0]
               /\ \A i \in 1 .. Len(dr2[c].tab) : Is(o2, dr2[c].tab[i], "table", c, 0)
               /\ \A w \in VPage : dr2[c].pte[w] # 0 => Is(o2, dr2[c].pte[w], "user", c, w)
    <3>1. CASE c = d
      <4>1. dr2[c].tab = e.tab /\ dr2[c].pte = dr[d].pte
        BY <1>1, <2>1, <3>1
      <4> QED
        BY <1>5, <1>7, <2>2, <2>4, <2>5, <3>1, <4>1
    <3>2. CASE c # d
      BY <1>1, <1>2, <1>5, <2>6, <3>2
    <3> QED
      BY <3>1, <3>2
  <2>7. ASSUME NEW h \in Pages, o2[h].k = "table"
        PROVE  /\ o2[h].a \in Pages /\ Holds(o2, o2[h].a)
               /\ \E i \in 1 .. Len(dr2[o2[h].a].tab) : dr2[o2[h].a].tab[i] = h
    <3>1. CASE h = pg
      <4>1. Len(dr[d].tab) + 1 \in 1 .. Len(e.tab)
        BY <1>7, <2>2
      <4> QED
        BY <1>1, <1>2, <1>4, <2>1, <2>2, <3>1, <4>1
    <3>2. CASE h # pg
      <4>1. /\ o2[h] = o[h] /\ o[h].a \in Pages /\ Holds(o, o[h].a)
            /\ \E i \in 1 .. Len(dr[o[h].a].tab) : dr[o[h].a].tab[i] = h
        BY <1>3, <2>7, <3>2 DEF DirOwns
      <4>2. CASE o[h].a = d
        <5>1. PICK i \in 1 .. Len(dr[d].tab) : dr[d].tab[i] = h
          BY <4>1, <4>2
        <5>2. i \in 1 .. Len(e.tab) /\ e.tab[i] = h
          BY <1>7, <2>2, <5>1
        <5> QED
          BY <1>1, <1>2, <4>1, <4>2, <5>2
      <4>3. CASE o[h].a # d
        BY <1>1, <1>2, <4>1, <4>3
      <4> QED
        BY <4>2, <4>3
    <3> QED
      BY <3>1, <3>2
  <2>8. ASSUME NEW h \in Pages, o2[h].k = "user"
        PROVE  /\ o2[h].a \in Pages /\ Holds(o2, o2[h].a) /\ o2[h].b \in VPage
               /\ dr2[o2[h].a].pte[o2[h].b] = h
    <3>1. h # pg
      BY <1>4, <1>8, <2>8
    <3>2. /\ o2[h] = o[h] /\ o[h].a \in Pages /\ Holds(o, o[h].a) /\ o[h].b \in VPage
          /\ dr[o[h].a].pte[o[h].b] = h
      BY <1>3, <2>8, <3>1 DEF DirOwns
    <3>3. dr2[o[h].a].pte = dr[o[h].a].pte
      BY <1>1, <2>1, <3>2
    <3> QED
      BY <1>2, <3>2, <3>3
  <2>9. DirOwns(o2, dr2)
    BY <2>6, <2>7, <2>8 DEF DirOwns
  <2> QED
    BY <2>9 DEF dr2
<1>9. CASE x.k # "table"
  <2>1. x.k = "user" /\ x.a = d /\ x.b = v /\ v \in VPage /\ dr[d].pte[v] = 0
        /\ e.tab = dr[d].tab /\ e.pte = [dr[d].pte EXCEPT ![v] = pg]
    BY <1>9 DEF Gains
  <2>2. pg \in PageOr0 /\ pg # 0
    BY <1>1, MemoryAssumption DEF Pages, PageOr0
  <2>3. e.pte \in [VPage -> PageOr0] /\ e.pte[v] = pg /\ \A w \in VPage : w # v => e.pte[w] = dr[d].pte[w]
    BY <1>7, <2>1, <2>2
  <2>4. \A w \in VPage : e.pte[w] # 0 => Is(o2, e.pte[w], "user", d, w)
    <3>1. ASSUME NEW w \in VPage, e.pte[w] # 0 PROVE Is(o2, e.pte[w], "user", d, w)
      <4>1. CASE w = v
        BY <1>4, <2>1, <2>3, <4>1 DEF Is
      <4>2. CASE w # v
        BY <1>5, <2>3, <3>1, <4>2
      <4> QED
        BY <4>1, <4>2
    <3> QED
      BY <3>1
  <2>6. ASSUME NEW c \in Pages, Holds(o2, c)
        PROVE  /\ dr2[c].tab \in Seq(Pages) /\ Distinct(dr2[c].tab) /\ dr2[c].pte \in [VPage -> PageOr0]
               /\ \A i \in 1 .. Len(dr2[c].tab) : Is(o2, dr2[c].tab[i], "table", c, 0)
               /\ \A w \in VPage : dr2[c].pte[w] # 0 => Is(o2, dr2[c].pte[w], "user", c, w)
    <3>1. CASE c = d
      <4>1. dr2[c].tab = dr[d].tab /\ dr2[c].pte = e.pte
        BY <1>1, <2>1, <3>1
      <4> QED
        BY <1>5, <2>3, <2>4, <3>1, <4>1
    <3>2. CASE c # d
      BY <1>1, <1>2, <1>5, <2>6, <3>2
    <3> QED
      BY <3>1, <3>2
  <2>7. ASSUME NEW h \in Pages, o2[h].k = "table"
        PROVE  /\ o2[h].a \in Pages /\ Holds(o2, o2[h].a)
               /\ \E i \in 1 .. Len(dr2[o2[h].a].tab) : dr2[o2[h].a].tab[i] = h
    <3>1. h # pg
      BY <1>4, <1>9, <2>7
    <3>2. /\ o2[h] = o[h] /\ o[h].a \in Pages /\ Holds(o, o[h].a)
          /\ \E i \in 1 .. Len(dr[o[h].a].tab) : dr[o[h].a].tab[i] = h
      BY <1>3, <2>7, <3>1 DEF DirOwns
    <3>3. dr2[o[h].a].tab = dr[o[h].a].tab
      BY <1>1, <2>1, <3>2
    <3> QED
      BY <1>2, <3>2, <3>3
  <2>8. ASSUME NEW h \in Pages, o2[h].k = "user"
        PROVE  /\ o2[h].a \in Pages /\ Holds(o2, o2[h].a) /\ o2[h].b \in VPage
               /\ dr2[o2[h].a].pte[o2[h].b] = h
    <3>1. CASE h = pg
      BY <1>1, <1>2, <1>4, <2>1, <2>3, <3>1
    <3>2. CASE h # pg
      <4>1. /\ o2[h] = o[h] /\ o[h].a \in Pages /\ Holds(o, o[h].a) /\ o[h].b \in VPage
            /\ dr[o[h].a].pte[o[h].b] = h
        BY <1>3, <2>8, <3>2 DEF DirOwns
      <4>2. h # 0
        BY MemoryAssumption DEF Pages
      <4>3. CASE o[h].a = d
        BY <1>1, <1>2, <2>1, <2>3, <4>1, <4>2, <4>3
      <4>4. CASE o[h].a # d
        BY <1>1, <1>2, <4>1, <4>4
      <4> QED
        BY <4>3, <4>4
    <3> QED
      BY <3>1, <3>2
  <2>9. DirOwns(o2, dr2)
    BY <2>6, <2>7, <2>8 DEF DirOwns
  <2> QED
    BY <2>9 DEF dr2
<1> QED
  BY <1>8, <1>9

\* An entry becomes e: it loses its first table, or a user page.
Loses(c, e, v, pg) ==
  \/ c.tab # <<>> /\ pg = Head(c.tab) /\ e.tab = Tail(c.tab) /\ e.pte = c.pte
  \/ /\ v \in VPage /\ c.pte[v] # 0 /\ pg = c.pte[v]
     /\ e.tab = c.tab /\ e.pte = [c.pte EXCEPT ![v] = 0]

\* A directory loses a page.
LEMMA DirLoses ==
  ASSUME NEW o, NEW o2, NEW x, NEW pg, Given(o, o2, pg, x), NEW dr \in [Pages -> Dirents],
         DirOwns(o, dr), x.k \notin Inside, NEW d \in Pages, Holds(o, d), NEW e, NEW v,
         Loses(dr[d], e, v, pg)
  PROVE  DirOwns(o2, [dr EXCEPT ![d] = e])
<1> DEFINE dr2 == [dr EXCEPT ![d] = e]
<1>1. pg \in Pages /\ dr2[d] = e /\ \A c \in Pages : c # d => dr2[c] = dr[c]
  BY DEF Given
<1> HIDE DEF dr2
<1>3. \A h \in Pages : h # pg => o2[h] = o[h]
  BY DEF Given
<1>4. o2[pg].k \notin Inside
  BY DEF Given
<1>7. dr[d].tab \in Seq(Pages) /\ Len(dr[d].tab) \in Nat /\ Distinct(dr[d].tab) /\ dr[d].pte \in [VPage -> PageOr0]
  BY Leads
<1>8. CASE dr[d].tab # <<>> /\ pg = Head(dr[d].tab) /\ e.tab = Tail(dr[d].tab) /\ e.pte = dr[d].pte
  <2> DEFINE n == Len(dr[d].tab)
  <2>1. /\ n >= 1 /\ n \in Nat /\ 1 \in 1 .. n /\ pg = dr[d].tab[1] /\ Len(e.tab) = n - 1 /\ e.tab \in Seq(Pages)
        /\ \A i \in 1 .. Len(e.tab) : i + 1 \in 1 .. n /\ i + 1 # 1 /\ e.tab[i] = dr[d].tab[i + 1]
    BY <1>7, <1>8
  <2>2. o[pg].k = "table" /\ o[pg].a = d
    BY <2>1, Leads DEF Is
  <2>3. \A c \in Pages : Holds(o2, c) <=> Holds(o, c)
    BY <1>3, <1>4, <2>2 DEF Holds, Inside
  <2>4. ASSUME NEW c \in Pages, Holds(o, c)
        PROVE  /\ \A i \in 1 .. Len(dr[c].tab) : dr[c].tab[i] # pg => Is(o2, dr[c].tab[i], "table", c, 0)
               /\ \A w \in VPage : dr[c].pte[w] # 0 => Is(o2, dr[c].pte[w], "user", c, w)
               /\ c # d => \A i \in 1 .. Len(dr[c].tab) : dr[c].tab[i] # pg
    BY <1>3, <2>2, <2>4, Leads DEF Is
  <2>5. \A i \in 1 .. Len(e.tab) : e.tab[i] # pg
    BY <1>7, <2>1 DEF Distinct
  <2>6. Distinct(e.tab)
    BY <1>7, <2>1 DEF Distinct
  <2>7. ASSUME NEW c \in Pages, Holds(o2, c)
        PROVE  /\ dr2[c].tab \in Seq(Pages) /\ Distinct(dr2[c].tab) /\ dr2[c].pte \in [VPage -> PageOr0]
               /\ \A i \in 1 .. Len(dr2[c].tab) : Is(o2, dr2[c].tab[i], "table", c, 0)
               /\ \A w \in VPage : dr2[c].pte[w] # 0 => Is(o2, dr2[c].pte[w], "user", c, w)
    <3>1. CASE c = d
      <4>1. dr2[c].tab = e.tab /\ dr2[c].pte = dr[d].pte
        BY <1>1, <1>8, <3>1
      <4>2. \A i \in 1 .. Len(e.tab) : Is(o2, e.tab[i], "table", d, 0)
        BY <2>1, <2>4, <2>5
      <4> QED
        BY <1>7, <2>1, <2>4, <2>6, <3>1, <4>1, <4>2
    <3>2. CASE c # d
      <4>1. dr2[c] = dr[c] /\ Holds(o, c)
        BY <1>1, <2>3, <2>7, <3>2
      <4> QED
        BY <2>4, <3>2, <4>1, Leads
    <3> QED
      BY <3>1, <3>2
  <2>8. ASSUME NEW h \in Pages, o2[h].k = "table"
        PROVE  /\ o2[h].a \in Pages /\ Holds(o2, o2[h].a)
               /\ \E i \in 1 .. Len(dr2[o2[h].a].tab) : dr2[o2[h].a].tab[i] = h
    <3>1. h # pg
      BY <1>4, <2>8 DEF Inside
    <3>2. /\ o2[h] = o[h] /\ o[h].a \in Pages /\ Holds(o, o[h].a)
          /\ \E i \in 1 .. Len(dr[o[h].a].tab) : dr[o[h].a].tab[i] = h
      BY <1>3, <2>8, <3>1 DEF DirOwns
    <3>3. CASE o[h].a = d
      <4>1. PICK i \in 1 .. n : dr[d].tab[i] = h
        BY <3>2, <3>3
      <4>2. i - 1 \in 1 .. Len(e.tab) /\ e.tab[i - 1] = h
        BY <2>1, <3>1, <4>1
      <4> QED
        BY <1>1, <2>3, <3>2, <3>3, <4>2
    <3>4. CASE o[h].a # d
      BY <1>1, <2>3, <3>2, <3>4
    <3> QED
      BY <3>3, <3>4
  <2>9. ASSUME NEW h \in Pages, o2[h].k = "user"
        PROVE  /\ o2[h].a \in Pages /\ Holds(o2, o2[h].a) /\ o2[h].b \in VPage
               /\ dr2[o2[h].a].pte[o2[h].b] = h
    <3>1. h # pg
      BY <1>4, <2>9 DEF Inside
    <3>2. /\ o2[h] = o[h] /\ o[h].a \in Pages /\ Holds(o, o[h].a) /\ o[h].b \in VPage
          /\ dr[o[h].a].pte[o[h].b] = h
      BY <1>3, <2>9, <3>1 DEF DirOwns
    <3>3. dr2[o[h].a].pte = dr[o[h].a].pte
      BY <1>1, <1>8, <3>2
    <3> QED
      BY <2>3, <3>2, <3>3
  <2>10. DirOwns(o2, dr2)
    BY <2>7, <2>8, <2>9 DEF DirOwns
  <2> QED
    BY <2>10 DEF dr2
<1>9. CASE /\ v \in VPage /\ dr[d].pte[v] # 0 /\ pg = dr[d].pte[v]
           /\ e.tab = dr[d].tab /\ e.pte = [dr[d].pte EXCEPT ![v] = 0]
  <2>1. 0 \in PageOr0
    BY MemoryAssumption DEF PageOr0
  <2>2. o[pg].k = "user" /\ o[pg].a = d /\ o[pg].b = v
    BY <1>9, Leads DEF Is
  <2>3. \A c \in Pages : Holds(o2, c) <=> Holds(o, c)
    BY <1>3, <1>4, <2>2 DEF Holds, Inside
  <2>4. ASSUME NEW c \in Pages, Holds(o, c)
        PROVE  /\ \A i \in 1 .. Len(dr[c].tab) : Is(o2, dr[c].tab[i], "table", c, 0)
               /\ \A w \in VPage : dr[c].pte[w] # 0 /\ (c # d \/ w # v) => Is(o2, dr[c].pte[w], "user", c, w)
    <3>1. ASSUME NEW i \in 1 .. Len(dr[c].tab) PROVE Is(o2, dr[c].tab[i], "table", c, 0)
      <4>1. dr[c].tab[i] \in Pages /\ Is(o, dr[c].tab[i], "table", c, 0)
        BY <2>4, Leads
      <4> QED
        BY <1>3, <2>2, <4>1 DEF Is
    <3>2. ASSUME NEW w \in VPage, dr[c].pte[w] # 0, c # d \/ w # v
          PROVE  Is(o2, dr[c].pte[w], "user", c, w)
      <4>1. dr[c].pte[w] \in Pages /\ Is(o, dr[c].pte[w], "user", c, w)
        BY <2>4, <3>2, Leads
      <4> QED
        BY <1>3, <2>2, <3>2, <4>1 DEF Is
    <3> QED
      BY <3>1, <3>2
  <2>5. e.pte \in [VPage -> PageOr0] /\ e.pte[v] = 0 /\ \A w \in VPage : w # v => e.pte[w] = dr[d].pte[w]
    BY <1>7, <1>9, <2>1
  <2>7. ASSUME NEW c \in Pages, Holds(o2, c)
        PROVE  /\ dr2[c].tab \in Seq(Pages) /\ Distinct(dr2[c].tab) /\ dr2[c].pte \in [VPage -> PageOr0]
               /\ \A i \in 1 .. Len(dr2[c].tab) : Is(o2, dr2[c].tab[i], "table", c, 0)
               /\ \A w \in VPage : dr2[c].pte[w] # 0 => Is(o2, dr2[c].pte[w], "user", c, w)
    <3>1. CASE c = d
      <4>1. dr2[c].tab = dr[d].tab /\ dr2[c].pte = e.pte
        BY <1>1, <1>9, <3>1
      <4>2. \A w \in VPage : e.pte[w] # 0 => Is(o2, e.pte[w], "user", d, w)
        BY <2>4, <2>5
      <4> QED
        BY <1>7, <2>4, <2>5, <3>1, <4>1, <4>2
    <3>2. CASE c # d
      <4>1. dr2[c] = dr[c] /\ Holds(o, c)
        BY <1>1, <2>3, <2>7, <3>2
      <4> QED
        BY <2>4, <3>2, <4>1, Leads
    <3> QED
      BY <3>1, <3>2
  <2>8. ASSUME NEW h \in Pages, o2[h].k = "table"
        PROVE  /\ o2[h].a \in Pages /\ Holds(o2, o2[h].a)
               /\ \E i \in 1 .. Len(dr2[o2[h].a].tab) : dr2[o2[h].a].tab[i] = h
    <3>1. h # pg
      BY <1>4, <2>8 DEF Inside
    <3>2. /\ o2[h] = o[h] /\ o[h].a \in Pages /\ Holds(o, o[h].a)
          /\ \E i \in 1 .. Len(dr[o[h].a].tab) : dr[o[h].a].tab[i] = h
      BY <1>3, <2>8, <3>1 DEF DirOwns
    <3>3. dr2[o[h].a].tab = dr[o[h].a].tab
      BY <1>1, <1>9, <3>2
    <3> QED
      BY <2>3, <3>2, <3>3
  <2>9. ASSUME NEW h \in Pages, o2[h].k = "user"
        PROVE  /\ o2[h].a \in Pages /\ Holds(o2, o2[h].a) /\ o2[h].b \in VPage
               /\ dr2[o2[h].a].pte[o2[h].b] = h
    <3>1. h # pg
      BY <1>4, <2>9 DEF Inside
    <3>2. /\ o2[h] = o[h] /\ o[h].a \in Pages /\ Holds(o, o[h].a) /\ o[h].b \in VPage
          /\ dr[o[h].a].pte[o[h].b] = h
      BY <1>3, <2>9, <3>1 DEF DirOwns
    <3>3. CASE o[h].a = d
      <4>1. o[h].b # v
        BY <1>9, <3>1, <3>2, <3>3
      <4> QED
        BY <1>1, <2>3, <2>5, <3>2, <3>3, <4>1
    <3>4. CASE o[h].a # d
      BY <1>1, <2>3, <3>2, <3>4
    <3> QED
      BY <3>3, <3>4
  <2>10. DirOwns(o2, dr2)
    BY <2>7, <2>8, <2>9 DEF DirOwns
  <2> QED
    BY <2>10 DEF dr2
<1> QED
  BY <1>8, <1>9 DEF Loses

\* Directory d and its tables are inside of no directory any more.
Emptied(o, o2, d) ==
  \A h \in Pages : IF h = d \/ (o[h].k = "table" /\ o[h].a = d)
                   THEN o2[h].k \notin Inside ELSE o2[h] = o[h]

\* An empty directory, with the tables it has left, becomes something else.
LEMMA DirGone ==
  ASSUME NEW o, NEW o2 \in Owners, NEW dr \in [Pages -> Dirents], DirOwns(o, dr),
         NEW d \in Pages, Holds(o, d), \A v \in VPage : dr[d].pte[v] = 0, NEW e, Emptied(o, o2, d)
  PROVE  DirOwns(o2, [dr EXCEPT ![d] = e])
<1> DEFINE dr2 == [dr EXCEPT ![d] = e]
<1>1. \A c \in Pages : c # d => dr2[c] = dr[c]
  OBVIOUS
<1> HIDE DEF dr2
<1>2. \A c \in Pages : Holds(o2, c) <=> c # d /\ Holds(o, c)
  BY DEF Holds, Inside, Emptied
<1>3. ASSUME NEW c \in Pages, Holds(o2, c)
      PROVE  /\ dr2[c].tab \in Seq(Pages) /\ Distinct(dr2[c].tab) /\ dr2[c].pte \in [VPage -> PageOr0]
             /\ \A i \in 1 .. Len(dr2[c].tab) : Is(o2, dr2[c].tab[i], "table", c, 0)
             /\ \A w \in VPage : dr2[c].pte[w] # 0 => Is(o2, dr2[c].pte[w], "user", c, w)
  <2>1. c # d /\ dr2[c] = dr[c] /\ Holds(o, c)
    BY <1>1, <1>2, <1>3
  <2>2. \A i \in 1 .. Len(dr[c].tab) : Is(o2, dr[c].tab[i], "table", c, 0)
    BY <2>1, Leads DEF Is, Holds, Emptied
  <2>3. \A w \in VPage : dr[c].pte[w] # 0 => Is(o2, dr[c].pte[w], "user", c, w)
    BY <2>1, Leads DEF Is, Holds, Emptied
  <2> QED
    BY <2>1, <2>2, <2>3, Leads
<1>4. ASSUME NEW h \in Pages, o2[h].k = "table"
      PROVE  /\ o2[h].a \in Pages /\ Holds(o2, o2[h].a)
             /\ \E i \in 1 .. Len(dr2[o2[h].a].tab) : dr2[o2[h].a].tab[i] = h
  <2>1. o2[h] = o[h] /\ o[h].a # d
    BY <1>4 DEF Inside, Emptied
  <2> QED
    BY <1>1, <1>2, <1>4, <2>1 DEF DirOwns
<1>5. ASSUME NEW h \in Pages, o2[h].k = "user"
      PROVE  /\ o2[h].a \in Pages /\ Holds(o2, o2[h].a) /\ o2[h].b \in VPage
             /\ dr2[o2[h].a].pte[o2[h].b] = h
  <2>1. o2[h] = o[h]
    BY <1>5 DEF Inside, Emptied
  <2>2. o[h].a \in Pages /\ Holds(o, o[h].a) /\ o[h].b \in VPage /\ dr[o[h].a].pte[o[h].b] = h /\ h # 0
    BY <1>5, <2>1, MemoryAssumption DEF DirOwns, Pages
  <2>3. o[h].a # d
    BY <2>2
  <2> QED
    BY <1>1, <1>2, <2>1, <2>2, <2>3
<1>6. DirOwns(o2, dr2)
  BY <1>3, <1>4, <1>5 DEF DirOwns
<1> QED
  BY <1>6 DEF dr2

----------------------------------------------------------------------------
(* What the calls do with pages.                                           *)

\* kalloc of a kernel stack.
LEMMA TakeStack ==
  ASSUME NEW o, NEW fl, NEW ks, NEW pd, NEW ad, NEW dr, NEW ls, Owned(o, fl, ks, pd, ad, dr, ls),
         fl # <<>>, NEW p \in Procs, ks[p] = 0
  PROVE  \E o2 \in Owners : Owned(o2, Tail(fl), [ks EXCEPT ![p] = Head(fl)], pd, ad, dr, ls)
<1>1. Head(fl) \in Pages /\ o \in Owners /\ p \in Nat /\ "kstack" \in Kinds
  BY DEF Owned, ListOwns, Kinds, Procs
<1>2. PICK o2 \in Owners : Given(o, o2, Head(fl), [k |-> "kstack", a |-> p, b |-> 0])
  BY <1>1, Give
<1>3. ListOwns(o2, Tail(fl), ls) /\ o[Head(fl)].k = "free"
  BY <1>2, ListTake DEF Owned
<1>4. Named(o2, "kstack", [ks EXCEPT ![p] = Head(fl)])
  BY <1>2, <1>3, NamedGain DEF Owned
<1>5. Named(o2, "pd", pd) /\ Named(o2, "ad", ad)
  BY <1>2, <1>3, NamedKept DEF Owned
<1>6. DirOwns(o2, dr)
  BY <1>2, <1>3, DirKept DEF Owned, Inside
<1> QED
  BY <1>3, <1>4, <1>5, <1>6 DEF Owned

\* kalloc of a page directory.
LEMMA TakeDir ==
  ASSUME NEW o, NEW fl, NEW ks, NEW pd, NEW ad, NEW dr \in [Pages -> Dirents], NEW ls,
         Owned(o, fl, ks, pd, ad, dr, ls), fl # <<>>, NEW p \in Procs, ad[p] = 0,
         NEW e, e.tab = <<>>, e.pte = [v \in VPage |-> 0]
  PROVE  \E o2 \in Owners :
           Owned(o2, Tail(fl), ks, pd, [ad EXCEPT ![p] = Head(fl)], [dr EXCEPT ![Head(fl)] = e], ls)
<1>1. Head(fl) \in Pages /\ o \in Owners /\ p \in Nat /\ "ad" \in Kinds
  BY DEF Owned, ListOwns, Kinds, Procs
<1>2. PICK o2 \in Owners : Given(o, o2, Head(fl), [k |-> "ad", a |-> p, b |-> 0])
  BY <1>1, Give
<1>3. ListOwns(o2, Tail(fl), ls) /\ o[Head(fl)].k = "free"
  BY <1>2, ListTake DEF Owned
<1>4. Named(o2, "ad", [ad EXCEPT ![p] = Head(fl)])
  BY <1>2, <1>3, NamedGain DEF Owned
<1>5. Named(o2, "pd", pd) /\ Named(o2, "kstack", ks)
  BY <1>2, <1>3, NamedKept DEF Owned
<1>6. DirOwns(o2, [dr EXCEPT ![Head(fl)] = e])
  <2> DEFINE x == [k |-> "ad", a |-> p, b |-> 0]
  <2>1. DirOwns(o, dr) /\ o[Head(fl)].k \notin Inside
    BY <1>3 DEF Owned, Inside
  <2>2. x.k \in {"pd", "ad"} /\ Given(o, o2, Head(fl), x)
    BY <1>2
  <2> HIDE DEF x
  <2> QED
    BY <2>1, <2>2, DirNew, Zenon
<1> QED
  BY <1>3, <1>4, <1>5, <1>6 DEF Owned

\* kalloc of a page table or a user page of directory d.
LEMMA TakeInto ==
  ASSUME NEW o, NEW fl, NEW ks, NEW pd, NEW ad, NEW dr \in [Pages -> Dirents], NEW ls,
         Owned(o, fl, ks, pd, ad, dr, ls), fl # <<>>, NEW d \in Pages, Holds(o, d), NEW e, NEW v,
         NEW k \in {"table", "user"}, Gains(dr[d], e, v, Head(fl), k)
  PROVE  \E o2 \in Owners : Owned(o2, Tail(fl), ks, pd, ad, [dr EXCEPT ![d] = e], ls)
<1> DEFINE w == IF k = "user" THEN v ELSE 0
           x == [k |-> k, a |-> d, b |-> w]
<1>0. fl \in Seq(Pages) /\ o \in Owners /\ k \in Kinds
  BY DEF Owned, ListOwns, Kinds
<1>1. Head(fl) \in Pages
  BY <1>0
<1>2. d \in Nat /\ w \in Nat
  <2>1. k = "user" => v \in VPage
    BY DEF Gains
  <2>2. CASE k = "user"
    <3>1. w = v /\ v \in Nat
      BY <2>1, <2>2, VPageNat
    <3> QED
      BY <3>1 DEF Pages
  <2>3. CASE k # "user"
    <3>1. w = 0
      BY <2>3
    <3> QED
      BY <3>1 DEF Pages
  <2> QED
    BY <2>2, <2>3
<1>3. x.k = k /\ x.a = d /\ x.b = w
  OBVIOUS
<1> HIDE DEF w
<1>4. \E o2 \in Owners : Given(o, o2, Head(fl), x)
  BY <1>0, <1>1, <1>2, Give, Zenon
<1> HIDE DEF x
<1>5. PICK o2 \in Owners : Given(o, o2, Head(fl), x)
  BY <1>4
<1>a. x.k \notin {"free", "lost", "pd", "ad", "kstack"}
  BY <1>3
<1>b. /\ ListOwns(o, fl, ls) /\ Named(o, "pd", pd) /\ Named(o, "ad", ad) /\ Named(o, "kstack", ks)
      /\ DirOwns(o, dr)
  BY DEF Owned
<1>6. ListOwns(o2, Tail(fl), ls) /\ o[Head(fl)].k = "free"
  BY <1>5, <1>a, <1>b, ListTake
<1>7. Named(o2, "pd", pd) /\ Named(o2, "ad", ad) /\ Named(o2, "kstack", ks)
  BY <1>5, <1>6, <1>a, <1>b, NamedKept
<1>8. DirOwns(o2, [dr EXCEPT ![d] = e])
  <2>1. o[Head(fl)].k \notin Inside
    BY <1>6 DEF Inside
  <2>2. Gains(dr[d], e, v, Head(fl), x.k) /\ x.a = d /\ x.b = IF x.k = "user" THEN v ELSE 0
    BY <1>3 DEF w
  <2> QED
    BY <1>5, <1>b, <2>1, <2>2, DirGains, Zenon
<1> QED
  BY <1>6, <1>7, <1>8 DEF Owned

\* kfree of a kernel stack.
LEMMA GiveStack ==
  ASSUME NEW o, NEW fl, NEW ks, NEW pd, NEW ad, NEW dr, NEW ls, Owned(o, fl, ks, pd, ad, dr, ls),
         NEW p \in Procs, ks[p] # 0
  PROVE  \E o2 \in Owners : Owned(o2, <<ks[p]>> \o fl, [ks EXCEPT ![p] = 0], pd, ad, dr, ls)
<1>1. ks[p] \in Pages /\ o \in Owners /\ "free" \in Kinds /\ o[ks[p]].k = "kstack"
  BY DEF Owned, Named, Kinds, Is, PageOr0, Pages
<1>2. PICK o2 \in Owners : Given(o, o2, ks[p], [k |-> "free", a |-> 0, b |-> 0])
  BY <1>1, Give
<1>3. ListOwns(o2, <<ks[p]>> \o fl, ls)
  BY <1>1, <1>2, ListGive DEF Owned
<1>4. Named(o2, "kstack", [ks EXCEPT ![p] = 0])
  BY <1>2, NamedLoss DEF Owned
<1>5. Named(o2, "pd", pd) /\ Named(o2, "ad", ad)
  BY <1>1, <1>2, NamedKept DEF Owned
<1>6. DirOwns(o2, dr)
  BY <1>1, <1>2, DirKept DEF Owned, Inside
<1> QED
  BY <1>3, <1>4, <1>5, <1>6 DEF Owned

\* kfree of the first table or of a user page of directory d.
LEMMA GiveFrom ==
  ASSUME NEW o, NEW fl, NEW ks, NEW pd, NEW ad, NEW dr \in [Pages -> Dirents], NEW ls,
         Owned(o, fl, ks, pd, ad, dr, ls), NEW d \in Pages, Holds(o, d), NEW e, NEW v, NEW pg,
         Loses(dr[d], e, v, pg)
  PROVE  \E o2 \in Owners : Owned(o2, <<pg>> \o fl, ks, pd, ad, [dr EXCEPT ![d] = e], ls)
<1>0. DirOwns(o, dr) /\ o \in Owners /\ "free" \in Kinds
  BY DEF Owned, Kinds
<1>1. pg \in Pages /\ o[pg].k \in {"table", "user"}
  <2>1. CASE dr[d].tab # <<>> /\ pg = Head(dr[d].tab)
    <3>1. dr[d].tab \in Seq(Pages) /\ 1 \in 1 .. Len(dr[d].tab) /\ pg = dr[d].tab[1]
      BY <1>0, <2>1, Leads
    <3> QED
      BY <1>0, <3>1, Leads DEF Is
  <2>2. CASE v \in VPage /\ dr[d].pte[v] # 0 /\ pg = dr[d].pte[v]
    BY <1>0, <2>2, Leads DEF Is
  <2> QED
    BY <2>1, <2>2 DEF Loses
<1>2. PICK o2 \in Owners : Given(o, o2, pg, [k |-> "free", a |-> 0, b |-> 0])
  BY <1>0, <1>1, Give
<1>3. ListOwns(o2, <<pg>> \o fl, ls)
  BY <1>1, <1>2, ListGive DEF Owned
<1>5. Named(o2, "pd", pd) /\ Named(o2, "ad", ad) /\ Named(o2, "kstack", ks)
  BY <1>1, <1>2, NamedKept DEF Owned
<1>6. DirOwns(o2, [dr EXCEPT ![d] = e])
  <2> DEFINE x == [k |-> "free", a |-> 0, b |-> 0]
  <2>1. x.k \notin Inside /\ Given(o, o2, pg, x)
    BY <1>2 DEF Inside
  <2> HIDE DEF x
  <2> QED
    BY <1>0, <2>1, DirLoses, Zenon
<1> QED
  BY <1>3, <1>5, <1>6 DEF Owned

\* kfree of an empty page directory.
LEMMA GiveDir ==
  ASSUME NEW o, NEW fl, NEW ks, NEW pd, NEW ad, NEW dr \in [Pages -> Dirents], NEW ls,
         Owned(o, fl, ks, pd, ad, dr, ls), NEW p \in Procs, NEW d, ad[p] = d, d # 0,
         dr[d].tab = <<>>, \A v \in VPage : dr[d].pte[v] = 0, NEW e
  PROVE  \E o2 \in Owners : Owned(o2, <<d>> \o fl, ks, pd, [ad EXCEPT ![p] = 0], [dr EXCEPT ![d] = e], ls)
<1>0. DirOwns(o, dr) /\ o \in Owners /\ "free" \in Kinds
  BY DEF Owned, Kinds
<1>1. d \in Pages /\ o[d].k = "ad" /\ Holds(o, d)
  BY DEF Owned, Named, Is, PageOr0, Pages, Holds
<1>2. PICK o2 \in Owners : Given(o, o2, d, [k |-> "free", a |-> 0, b |-> 0])
  BY <1>0, <1>1, Give
<1>3. ListOwns(o2, <<d>> \o fl, ls)
  BY <1>1, <1>2, ListGive DEF Owned
<1>4. Named(o2, "ad", [ad EXCEPT ![p] = 0])
  BY <1>2, NamedLoss DEF Owned
<1>5. Named(o2, "pd", pd) /\ Named(o2, "kstack", ks)
  BY <1>1, <1>2, NamedKept DEF Owned
<1>6. DirOwns(o2, [dr EXCEPT ![d] = e])
  <2>1. \A h \in Pages : ~(o[h].k = "table" /\ o[h].a = d)
    <3>1. 1 .. Len(dr[d].tab) = {}
      OBVIOUS
    <3> QED
      BY <1>0, <3>1 DEF DirOwns
  <2>2. Emptied(o, o2, d)
    BY <1>2, <2>1 DEF Given, Inside, Emptied
  <2> QED
    BY <1>0, <1>1, <2>2, DirGone, Zenon
<1> QED
  BY <1>3, <1>4, <1>5, <1>6 DEF Owned

\* A child gets the directory that fork has made.
LEMMA MoveIn ==
  ASSUME NEW o, NEW fl, NEW ks, NEW pd, NEW ad, NEW dr, NEW ls, Owned(o, fl, ks, pd, ad, dr, ls),
         NEW p \in Procs, NEW n \in Procs, NEW d, ad[p] = d, d # 0, pd[n] = 0
  PROVE  \E o2 \in Owners : Owned(o2, fl, ks, [pd EXCEPT ![n] = d], [ad EXCEPT ![p] = 0], dr, ls)
<1>1. d \in Pages /\ o \in Owners /\ n \in Nat /\ "pd" \in Kinds /\ o[d].k = "ad"
  BY DEF Owned, Named, Kinds, Is, PageOr0, Pages, Procs
<1>2. PICK o2 \in Owners : Given(o, o2, d, [k |-> "pd", a |-> n, b |-> 0])
  BY <1>1, Give
<1>3. ListOwns(o2, fl, ls)
  BY <1>1, <1>2, ListKept DEF Owned
<1>4. Named(o2, "pd", [pd EXCEPT ![n] = d])
  BY <1>1, <1>2, NamedGain DEF Owned
<1>5. Named(o2, "ad", [ad EXCEPT ![p] = 0])
  BY <1>2, NamedLoss DEF Owned
<1>6. Named(o2, "kstack", ks)
  BY <1>1, <1>2, NamedKept DEF Owned
<1>7. Moved(o, o2)
  BY <1>1, <1>2 DEF Moved, Given, Holds
<1>8. DirOwns(o2, dr)
  BY <1>7, DirMoves DEF Owned
<1> QED
  BY <1>3, <1>4, <1>5, <1>6, <1>8 DEF Owned

\* wait takes the directory of a zombie.
LEMMA MoveOut ==
  ASSUME NEW o, NEW fl, NEW ks, NEW pd, NEW ad, NEW dr, NEW ls, Owned(o, fl, ks, pd, ad, dr, ls),
         NEW p \in Procs, NEW z \in Procs, NEW d, pd[z] = d, d # 0, ad[p] = 0
  PROVE  \E o2 \in Owners : Owned(o2, fl, ks, [pd EXCEPT ![z] = 0], [ad EXCEPT ![p] = d], dr, ls)
<1>1. d \in Pages /\ o \in Owners /\ p \in Nat /\ "ad" \in Kinds /\ o[d].k = "pd"
  BY DEF Owned, Named, Kinds, Is, PageOr0, Pages, Procs
<1>2. PICK o2 \in Owners : Given(o, o2, d, [k |-> "ad", a |-> p, b |-> 0])
  BY <1>1, Give
<1>3. ListOwns(o2, fl, ls)
  BY <1>1, <1>2, ListKept DEF Owned
<1>4. Named(o2, "ad", [ad EXCEPT ![p] = d])
  BY <1>1, <1>2, NamedGain DEF Owned
<1>5. Named(o2, "pd", [pd EXCEPT ![z] = 0])
  BY <1>2, NamedLoss DEF Owned
<1>6. Named(o2, "kstack", ks)
  BY <1>1, <1>2, NamedKept DEF Owned
<1>7. Moved(o, o2)
  BY <1>1, <1>2 DEF Moved, Given, Holds
<1>8. DirOwns(o2, dr)
  BY <1>7, DirMoves DEF Owned
<1> QED
  BY <1>3, <1>4, <1>5, <1>6, <1>8 DEF Owned

\* exec puts the new directory in the place of the old one.
LEMMA Swap ==
  ASSUME NEW o, NEW fl, NEW ks, NEW pd, NEW ad, NEW dr, NEW ls, Owned(o, fl, ks, pd, ad, dr, ls),
         NEW p \in Procs, NEW c, NEW d, pd[p] = c, c # 0, ad[p] = d, d # 0
  PROVE  \E o2 \in Owners : Owned(o2, fl, ks, [pd EXCEPT ![p] = d], [ad EXCEPT ![p] = c], dr, ls)
<1> DEFINE x == [k |-> "pd", a |-> p, b |-> 0]
           y == [k |-> "ad", a |-> p, b |-> 0]
           o2 == [h \in Pages |-> IF h = d THEN x ELSE IF h = c THEN y ELSE o[h]]
           pd2 == [pd EXCEPT ![p] = d]
           ad2 == [ad EXCEPT ![p] = c]
<1>1. /\ o \in Owners /\ ListOwns(o, fl, ls) /\ DirOwns(o, dr)
      /\ Named(o, "kstack", ks) /\ Named(o, "pd", pd) /\ Named(o, "ad", ad)
  BY DEF Owned
<1>2. /\ d \in Pages /\ c \in Pages /\ c \in PageOr0 /\ d \in PageOr0
      /\ o[d].k = "ad" /\ o[d].a = p /\ o[c].k = "pd" /\ o[c].a = p
  BY <1>1 DEF Named, Is, PageOr0, Pages
<1>3. x \in [k : Kinds, a : Nat, b : Nat] /\ y \in [k : Kinds, a : Nat, b : Nat]
  BY DEF Kinds, Procs
<1>4. /\ x.k = "pd" /\ x.a = p /\ x.b = 0 /\ y.k = "ad" /\ y.a = p /\ y.b = 0
  OBVIOUS
<1> HIDE DEF x, y
<1>5. o2 \in Owners
  BY <1>1, <1>3 DEF Owners
<1>6. c # d /\ o2[d] = x /\ o2[c] = y /\ \A h \in Pages : h # c /\ h # d => o2[h] = o[h]
  BY <1>2
<1> HIDE DEF o2
<1>7. ListOwns(o2, fl, ls)
  <2>1. \A h \in Pages : o[h].k \in {"free", "lost"} \/ o2[h].k \in {"free", "lost"} => o2[h] = o[h]
    BY <1>2, <1>4, <1>6
  <2>2. fl \in Seq(Pages) /\ \A i \in 1 .. Len(fl) : fl[i] \in Pages
    BY <1>1 DEF ListOwns
  <2> QED
    BY <1>1, <2>1, <2>2 DEF ListOwns
<1>8. Named(o2, "kstack", ks)
  <2>1. \A h \in Pages : o[h].k = "kstack" \/ o2[h].k = "kstack" => o2[h] = o[h]
    BY <1>2, <1>4, <1>6
  <2>2. \A q \in Procs : ks[q] # 0 => ks[q] \in Pages
    BY <1>1 DEF Named, PageOr0, Pages
  <2> QED
    BY <1>1, <2>1, <2>2 DEF Named, Is
<1>9. Named(o2, "pd", pd2)
  <2>1. pd2 \in [Procs -> PageOr0] /\ pd2[p] = d /\ \A q \in Procs : q # p => pd2[q] = pd[q]
    BY <1>1, <1>2 DEF Named
  <2> HIDE DEF pd2
  <2>2. \A q \in Procs : pd[q] # 0 => pd[q] \in Pages /\ Is(o, pd[q], "pd", q, 0)
    BY <1>1 DEF Named, PageOr0, Pages
  <2>3. ASSUME NEW q \in Procs, pd2[q] # 0 PROVE Is(o2, pd2[q], "pd", q, 0)
    <3>1. CASE q = p
      BY <1>4, <1>6, <2>1, <3>1 DEF Is
    <3>2. CASE q # p
      <4>1. pd2[q] = pd[q] /\ pd[q] # d /\ pd[q] # c
        BY <1>2, <2>1, <2>2, <2>3, <3>2 DEF Is
      <4> QED
        BY <1>6, <2>2, <2>3, <4>1 DEF Is
    <3> QED
      BY <3>1, <3>2
  <2>4. ASSUME NEW h \in Pages, o2[h].k = "pd" PROVE o2[h].a \in Procs /\ pd2[o2[h].a] = h
    <3>1. CASE h = d
      BY <1>4, <1>6, <2>1, <3>1
    <3>2. CASE h # d
      <4>1. h # c
        BY <1>4, <1>6, <2>4
      <4>2. o2[h] = o[h] /\ o[h].a \in Procs /\ pd[o[h].a] = h
        BY <1>1, <1>6, <2>4, <3>2, <4>1 DEF Named
      <4> QED
        BY <2>1, <4>1, <4>2
    <3> QED
      BY <3>1, <3>2
  <2> QED
    BY <2>1, <2>3, <2>4 DEF Named
<1>10. Named(o2, "ad", ad2)
  <2>1. ad2 \in [Procs -> PageOr0] /\ ad2[p] = c /\ \A q \in Procs : q # p => ad2[q] = ad[q]
    BY <1>1, <1>2 DEF Named
  <2> HIDE DEF ad2
  <2>2. \A q \in Procs : ad[q] # 0 => ad[q] \in Pages /\ Is(o, ad[q], "ad", q, 0)
    BY <1>1 DEF Named, PageOr0, Pages
  <2>3. ASSUME NEW q \in Procs, ad2[q] # 0 PROVE Is(o2, ad2[q], "ad", q, 0)
    <3>1. CASE q = p
      BY <1>4, <1>6, <2>1, <3>1 DEF Is
    <3>2. CASE q # p
      <4>1. ad2[q] = ad[q] /\ ad[q] # d /\ ad[q] # c
        BY <1>2, <2>1, <2>2, <2>3, <3>2 DEF Is
      <4> QED
        BY <1>6, <2>2, <2>3, <4>1 DEF Is
    <3> QED
      BY <3>1, <3>2
  <2>4. ASSUME NEW h \in Pages, o2[h].k = "ad" PROVE o2[h].a \in Procs /\ ad2[o2[h].a] = h
    <3>1. CASE h = c
      BY <1>4, <1>6, <2>1, <3>1
    <3>2. CASE h # c
      <4>1. h # d
        BY <1>4, <1>6, <2>4
      <4>2. o2[h] = o[h] /\ o[h].a \in Procs /\ ad[o[h].a] = h
        BY <1>1, <1>6, <2>4, <3>2, <4>1 DEF Named
      <4> QED
        BY <2>1, <4>1, <4>2
    <3> QED
      BY <3>1, <3>2
  <2> QED
    BY <2>1, <2>3, <2>4 DEF Named
<1>11. Moved(o, o2)
  BY <1>2, <1>4, <1>6 DEF Moved, Holds
<1>12. DirOwns(o2, dr)
  BY <1>1, <1>11, DirMoves
<1>13. Owned(o2, fl, ks, pd2, ad2, dr, ls)
  BY <1>5, <1>7, <1>8, <1>9, <1>10, <1>12 DEF Owned
<1> QED
  BY <1>5, <1>13

\* setupkvm forgets the directory, which has no user pages yet, and its tables.
LEMMA Lose ==
  ASSUME NEW o, NEW fl, NEW ks, NEW pd, NEW ad, NEW dr \in [Pages -> Dirents], NEW ls,
         Owned(o, fl, ks, pd, ad, dr, ls), NEW p \in Procs, NEW d, ad[p] = d, d # 0,
         \A v \in VPage : dr[d].pte[v] = 0, NEW e
  PROVE  \E o2 \in Owners :
           Owned(o2, fl, ks, pd, [ad EXCEPT ![p] = 0], [dr EXCEPT ![d] = e],
                 ls \cup {d} \cup Range(dr[d].tab))
<1> DEFINE x == [k |-> "lost", a |-> 0, b |-> 0]
           T(h) == h = d \/ (o[h].k = "table" /\ o[h].a = d)
           o2 == [h \in Pages |-> IF T(h) THEN x ELSE o[h]]
           ad2 == [ad EXCEPT ![p] = 0]
           ls2 == ls \cup {d} \cup Range(dr[d].tab)
<1>1. /\ o \in Owners /\ ListOwns(o, fl, ls) /\ DirOwns(o, dr)
      /\ Named(o, "kstack", ks) /\ Named(o, "pd", pd) /\ Named(o, "ad", ad)
  BY DEF Owned
<1>2. d \in Pages /\ o[d].k = "ad" /\ o[d].a = p /\ 0 \in PageOr0 /\ Holds(o, d)
  BY <1>1, MemoryAssumption DEF Named, Is, PageOr0, Pages, Holds
<1>3. x \in [k : Kinds, a : Nat, b : Nat] /\ x.k = "lost"
  BY DEF Kinds
<1> HIDE DEF x
<1>5. o2 \in Owners
  BY <1>1, <1>3 DEF Owners
<1>6. \A h \in Pages : (T(h) => o2[h] = x) /\ (~T(h) => o2[h] = o[h])
  OBVIOUS
<1>7. \A h \in Pages : T(h) => o[h].k \in {"ad", "table"} /\ (o[h].k = "ad" => h = d)
  BY <1>2
<1>8. \A h \in Pages : T(h) <=> h = d \/ h \in Range(dr[d].tab)
  <2>1. dr[d].tab \in Seq(Pages) /\ \A i \in 1 .. Len(dr[d].tab) : Is(o, dr[d].tab[i], "table", d, 0)
    BY <1>1, <1>2, Leads
  <2>2. Range(dr[d].tab) = {dr[d].tab[i] : i \in 1 .. Len(dr[d].tab)}
    BY <2>1 DEF Range
  <2>3. \A h \in Pages : o[h].k = "table" /\ o[h].a = d => \E i \in 1 .. Len(dr[d].tab) : dr[d].tab[i] = h
    BY <1>1 DEF DirOwns
  <2> QED
    BY <2>1, <2>2, <2>3 DEF Is
<1>9. Range(dr[d].tab) \subseteq Pages
  <2>1. dr[d].tab \in Seq(Pages)
    BY <1>1, <1>2, Leads
  <2> QED
    BY <2>1 DEF Range
<1> HIDE DEF T, o2
<1>10. ListOwns(o2, fl, ls2)
  <2>1. \A h \in Pages : (o[h].k = "free" \/ o2[h].k = "free") => o2[h] = o[h]
    BY <1>3, <1>6, <1>7
  <2>2. fl \in Seq(Pages) /\ \A i \in 1 .. Len(fl) : fl[i] \in Pages
    BY <1>1 DEF ListOwns
  <2>3. ls2 \in SUBSET Pages
    BY <1>1, <1>2, <1>9 DEF ListOwns
  <2>4. \A h \in Pages : o2[h].k = "lost" <=> h \in ls2
    BY <1>1, <1>3, <1>6, <1>7, <1>8 DEF ListOwns
  <2> HIDE DEF ls2
  <2> QED
    BY <1>1, <2>1, <2>2, <2>3, <2>4 DEF ListOwns
<1>11. Named(o2, "kstack", ks) /\ Named(o2, "pd", pd)
  <2>1. \A h \in Pages : o[h].k \in {"kstack", "pd"} \/ o2[h].k \in {"kstack", "pd"} => o2[h] = o[h]
    BY <1>3, <1>6, <1>7
  <2>2. \A q \in Procs : ks[q] # 0 => ks[q] \in Pages
    BY <1>1 DEF Named, PageOr0, Pages
  <2>3. \A q \in Procs : pd[q] # 0 => pd[q] \in Pages
    BY <1>1 DEF Named, PageOr0, Pages
  <2>4. Named(o2, "kstack", ks)
    BY <1>1, <2>1, <2>2 DEF Named, Is
  <2>5. Named(o2, "pd", pd)
    BY <1>1, <2>1, <2>3 DEF Named, Is
  <2> QED
    BY <2>4, <2>5
<1>12. Named(o2, "ad", ad2)
  <2>1. ad2 \in [Procs -> PageOr0] /\ ad2[p] = 0 /\ \A q \in Procs : q # p => ad2[q] = ad[q]
    BY <1>1, <1>2 DEF Named
  <2> HIDE DEF ad2
  <2>2. \A q \in Procs : ad[q] # 0 => ad[q] \in Pages /\ Is(o, ad[q], "ad", q, 0)
    BY <1>1 DEF Named, PageOr0, Pages
  <2>3. ASSUME NEW q \in Procs, ad2[q] # 0 PROVE Is(o2, ad2[q], "ad", q, 0)
    <3>1. q # p /\ ad2[q] = ad[q]
      BY <2>1, <2>3
    <3>2. ad[q] \in Pages /\ Is(o, ad[q], "ad", q, 0) /\ ad[q] # d
      BY <1>2, <2>2, <2>3, <3>1 DEF Is
    <3>3. o2[ad[q]] = o[ad[q]]
      BY <1>6, <1>7, <3>2 DEF Is
    <3> QED
      BY <3>1, <3>2, <3>3 DEF Is
  <2>4. ASSUME NEW h \in Pages, o2[h].k = "ad" PROVE o2[h].a \in Procs /\ ad2[o2[h].a] = h
    <3>1. o2[h] = o[h] /\ ~T(h)
      BY <1>3, <1>6, <2>4
    <3>2. h # d
      BY <1>8, <3>1
    <3>3. o[h].a \in Procs /\ ad[o[h].a] = h
      BY <1>1, <2>4, <3>1 DEF Named
    <3> QED
      BY <2>1, <3>1, <3>2, <3>3
  <2> QED
    BY <2>1, <2>3, <2>4 DEF Named
<1>13. DirOwns(o2, [dr EXCEPT ![d] = e])
  <2>1. Emptied(o, o2, d)
    BY <1>3, <1>6 DEF Emptied, Inside, T
  <2> QED
    BY <1>1, <1>2, <1>5, <2>1, DirGone, Zenon
<1>14. Owned(o2, fl, ks, pd, ad2, [dr EXCEPT ![d] = e], ls2)
  BY <1>5, <1>10, <1>11, <1>12, <1>13 DEF Owned
<1> QED
  BY <1>5, <1>14

----------------------------------------------------------------------------
(* The processes that do not take the step.                                *)

\* A call is a frame, and its name tells it from user space.
LEMMA Calls ==
  ASSUME NEW r \in Frames \cup {User}
  PROVE  /\ r = User <=> r.op = "user"
         /\ r # User => r \in Frames
  BY DEF Frames, User

\* The owners as functions.
LEMMA Names ==
  ASSUME Typed
  PROVE  /\ KS \in [Procs -> PageOr0] /\ PD \in [Procs -> PageOr0] /\ AD \in [Procs -> PageOr0]
         /\ \A p \in Procs : /\ KS[p] = proc[p].kstack
                             /\ PD[p] = IF Reaped(p) THEN 0 ELSE proc[p].pgdir
                             /\ AD[p] = Own(act[p])
<1>1. ASSUME NEW p \in Procs PROVE proc[p].kstack \in PageOr0 /\ proc[p].pgdir \in PageOr0
  BY DEF Typed, ProcRecs
<1>2. ASSUME NEW p \in Procs, Private(act[p]) PROVE act[p].d \in PageOr0
  <2>1. act[p] \in Frames
    BY <1>2, Calls DEF Typed, Private
  <2> QED
    BY <2>1 DEF Frames
<1>3. 0 \in PageOr0
  BY MemoryAssumption DEF PageOr0
<1> QED
  BY <1>1, <1>2, <1>3 DEF KS, PD, AD, Own

\* A step of p may change directory d.
Mine(o, d, p) == d \in Pages => o[d].k = "free" \/ (Holds(o, d) /\ o[d].a = p)

\* It is then no directory of another process.
LEMMA NotMine ==
  ASSUME NEW o, Named(o, "pd", PD), Named(o, "ad", AD), NEW p \in Procs, NEW q \in Procs, q # p,
         NEW d, Mine(o, d, p)
  PROVE  (PD[q] # 0 => PD[q] # d /\ PD[q] \in Pages) /\ (AD[q] # 0 => AD[q] # d /\ AD[q] \in Pages)
<1>1. PD[q] # 0 => PD[q] \in Pages /\ Is(o, PD[q], "pd", q, 0)
  BY DEF Named, PageOr0, Pages
<1>2. AD[q] # 0 => AD[q] \in Pages /\ Is(o, AD[q], "ad", q, 0)
  BY DEF Named, PageOr0, Pages
<1> QED
  BY <1>1, <1>2 DEF Mine, Is

\* What ProcOK says of a process depends on no more than this.
Alike(u, u2) == u2.state = u.state /\ u2.kstack = u.kstack /\ u2.pgdir = u.pgdir /\ u2.sz = u.sz

\* A process that stays alike keeps its part of the invariant.
LEMMA Stays ==
  ASSUME NEW r, NEW u, NEW n, NEW P, NEW A, NEW reaped \in BOOLEAN, ProcOK(r, u, n, P, A, reaped),
         NEW u2, NEW n2, NEW P2, NEW A2, Alike(u, u2), u.state = "RUNNABLE" => P2 = P,
         Private(r) /\ r.d # 0 => A2 = A,
         r # User /\ r.op \in {"fork", "wait"} => n2.state = n.state /\ n2.kstack = n.kstack
  PROVE  ProcOK(r, u2, n2, P2, A2, reaped)
<1>1. CASE r = User
  BY <1>1 DEF ProcOK, Alike
<1>2. CASE r # User
  <2>1. u.state = "RUNNABLE" /\ P2 = P /\ CallOK(r, u, n, P, A)
    BY <1>2 DEF ProcOK
  <2>2. CallOK(r, u2, n2, P2, A2)
    <3>1. CASE r.op = "sbrk"
      BY <2>1, <3>1 DEF CallOK, SbrkOK, Alike
    <3>2. CASE r.op = "fork"
      <4>1. ForkOK(r, u, n, A) /\ P = PagesTo(u.sz) /\ u2.sz = u.sz
        BY <2>1, <3>2 DEF CallOK, Alike
      <4>2. n2.state = n.state /\ n2.kstack = n.kstack /\ (r.d # 0 => A2 = A)
        BY <1>2, <3>2 DEF Private
      <4>3. ForkOK(r, u2, n2, A2)
        BY <4>1, <4>2 DEF ForkOK
      <4> QED
        BY <2>1, <3>2, <4>1, <4>3 DEF CallOK
    <3>3. CASE r.op = "exec"
      <4>1. ExecOK(r, A) /\ P = PagesTo(u.sz) /\ u2.sz = u.sz
        BY <2>1, <3>3 DEF CallOK, Alike
      <4>2. r.d # 0 => A2 = A
        BY <1>2, <3>3 DEF Private
      <4>3. ExecOK(r, A2)
        BY <4>1, <4>2 DEF ExecOK
      <4> QED
        BY <2>1, <3>3, <4>1, <4>3 DEF CallOK
    <3>4. CASE r.op = "wait"
      <4>1. WaitOK(r, n) /\ P = PagesTo(u.sz) /\ u2.sz = u.sz
        BY <2>1, <3>4 DEF CallOK, Alike
      <4>2. n2.state = n.state /\ n2.kstack = n.kstack
        BY <1>2, <3>4
      <4>3. WaitOK(r, n2)
        BY <4>1, <4>2 DEF WaitOK
      <4> QED
        BY <2>1, <3>4, <4>1, <4>3 DEF CallOK
    <3> QED
      BY <2>1, <3>1, <3>2, <3>3, <3>4 DEF CallOK
  <2> QED
    BY <1>2, <2>1, <2>2 DEF ProcOK, Alike
<1> QED
  BY <1>1, <1>2

\* q keeps its call, and its slot but for the parent; the slot that its call
\* works on and its directories are the same.
LEMMA Others ==
  ASSUME MInv, NEW q \in Procs, act'[q] = act[q], Alike(proc[q], proc'[q]), Reaped(q)' <=> Reaped(q),
         PD[q] # 0 => dir'[PD[q]] = dir[PD[q]], AD[q] # 0 => dir'[AD[q]] = dir[AD[q]],
         act[q].op \in {"fork", "wait"} =>
           proc'[act[q].np].state = proc[act[q].np].state /\ proc'[act[q].np].kstack = proc[act[q].np].kstack
  PROVE  ProcOK(act[q], proc[q], proc[act[q].np], Pres(dir[proc[q].pgdir]), Pres(dir[act[q].d]), Reaped(q))'
<1> DEFINE r == act[q]
           u == proc[q]
           n == proc[act[q].np]
           P == Pres(dir[proc[q].pgdir])
           A == Pres(dir[act[q].d])
           R == Reaped(q)
           n2 == proc'[act[q].np]
           P2 == Pres(dir'[proc[q].pgdir])
           A2 == Pres(dir'[act[q].d])
           u2 == proc'[q]
<1>1. ProcOK(r, u, n, P, A, R) /\ R \in BOOLEAN
  BY DEF MInv, Sane, Reaped
<1>2. u.state = "RUNNABLE" => P2 = P
  <2>1. ASSUME u.state = "RUNNABLE" PROVE PD[q] = u.pgdir /\ PD[q] # 0
    BY <1>1, <2>1, Names DEF ProcOK, MInv
  <2> QED
    BY <2>1
<1>3. Private(r) /\ r.d # 0 => A2 = A
  BY Names DEF MInv, Own
<1>4. r # User /\ r.op \in {"fork", "wait"} => n2.state = n.state /\ n2.kstack = n.kstack
  OBVIOUS
<1>5. Alike(u, u2)
  OBVIOUS
<1> HIDE DEF r, u, n, P, A, R, n2, P2, A2, u2
<1>6. ProcOK(r, u2, n2, P2, A2, R)
  BY <1>1, <1>2, <1>3, <1>4, <1>5, Stays
<1>7. u2.pgdir = u.pgdir
  BY <1>5 DEF Alike
<1> QED
  BY <1>6, <1>7 DEF r, u, n, P, A, R, n2, P2, A2, u2, ProcOK

\* A call goes on, or ends, without a change to who waits for whom.
Keeps(r, r2) ==
  /\ r.op = "wait" => r2.op = "wait"
  /\ r2.op \in {"fork", "wait"} => r2.op = r.op /\ r2.np = r.np

\* Then the same processes are being reaped.
LEMMA KeepsReaped ==
  ASSUME Typed, NEW p \in Procs, NEW r2, act' = [act EXCEPT ![p] = r2], Keeps(act[p], r2)
  PROVE  \A q \in Procs : Reaped(q)' <=> Reaped(q)
<1>1. act'[p] = r2 /\ \A q \in Procs : q # p => act'[q] = act[q]
  BY DEF Typed
<1>2. \A q \in Procs : (act'[q].op = "wait" <=> act[q].op = "wait") /\ (act[q].op = "wait" => act'[q].np = act[q].np)
  BY <1>1 DEF Keeps
<1> QED
  BY <1>2 DEF Reaped

\* Such a step changes no owner but that of the call's directory.
LEMMA KeepsNames ==
  ASSUME Typed, NEW p \in Procs, NEW r2, act' = [act EXCEPT ![p] = r2], Keeps(act[p], r2), proc' = proc
  PROVE  KS' = KS /\ PD' = PD /\ AD' = [AD EXCEPT ![p] = Own(r2)]
<1>1. act'[p] = r2 /\ \A q \in Procs : q # p => act'[q] = act[q]
  BY DEF Typed
<1>2. \A q \in Procs : Reaped(q)' <=> Reaped(q)
  BY KeepsReaped
<1>3. KS' = KS
  BY DEF KS
<1>4. PD' = PD
  BY <1>2 DEF PD
<1>5. AD' = [AD EXCEPT ![p] = Own(r2)]
  <2>1. AD' = [q \in Procs |-> Own(act'[q])]
    BY DEF AD
  <2>2. [AD EXCEPT ![p] = Own(r2)] = [q \in Procs |-> IF q = p THEN Own(r2) ELSE Own(act[q])]
    BY DEF AD
  <2>3. \A q \in Procs : Own(act'[q]) = IF q = p THEN Own(r2) ELSE Own(act[q])
    BY <1>1
  <2> QED
    BY <2>1, <2>2, <2>3
<1> QED
  BY <1>3, <1>4, <1>5

\* A step of p that keeps who waits for whom keeps all but its own part.
LEMMA KeepsRest ==
  ASSUME MInv, NEW p \in Procs, NEW r2 \in Frames \cup {User}, act' = [act EXCEPT ![p] = r2],
         Keeps(act[p], r2), proc' = proc, panicked' = "no",
         NEW o, Owned(o, freelist, KS, PD, AD, dir, lost), NEW d, Mine(o, d, p),
         dir' \in [Pages -> Dirents], \A c \in Pages : c # d => dir'[c] = dir[c],
         ProcOK(r2, proc[p], proc[r2.np], Pres(dir'[proc[p].pgdir]), Pres(dir'[r2.d]), Reaped(p)),
         Owning'
  PROVE  MInv'
<1>1. act'[p] = r2 /\ \A q \in Procs : q # p => act'[q] = act[q]
  BY DEF Typed, MInv
<1>2. \A q \in Procs : Reaped(q)' <=> Reaped(q)
  BY KeepsReaped DEF MInv
<1>3. Typed'
  BY DEF Typed, MInv
<1>4. ASSUME NEW q \in Procs
      PROVE ProcOK(act[q], proc[q], proc[act[q].np], Pres(dir[proc[q].pgdir]), Pres(dir[act[q].d]), Reaped(q))'
  <2>1. CASE q = p
    BY <1>1, <1>2, <2>1 DEF ProcOK
  <2>2. CASE q # p
    <3>1. (PD[q] # 0 => PD[q] # d /\ PD[q] \in Pages) /\ (AD[q] # 0 => AD[q] # d /\ AD[q] \in Pages)
      BY <2>2, NotMine DEF Owned
    <3>2. Alike(proc[q], proc'[q])
      BY DEF Alike
    <3> QED
      BY <1>1, <1>2, <2>2, <3>1, <3>2, Others
  <2> QED
    BY <2>1, <2>2
<1>5. Sane'
  BY <1>4 DEF Sane
<1>6. Alone'
  <2>1. \A q \in Procs : act'[q].op \in {"fork", "wait"} => act'[q].op = act[q].op /\ act'[q].np = act[q].np
    BY <1>1 DEF Keeps
  <2>2. \A q \in Procs : act[q].op \in {"fork", "wait"} => act[q] # User
    BY DEF User
  <2> QED
    BY <2>1, <2>2 DEF Alone, MInv
<1> QED
  BY <1>3, <1>5, <1>6 DEF MInv

----------------------------------------------------------------------------
(* setupkvm                                                                *)

\* A process in a call.
LEMMA InCall ==
  ASSUME MInv, NEW p \in Procs, act[p].op # "user"
  PROVE  /\ act[p] \in Frames /\ act[p] # User /\ proc[p] \in ProcRecs /\ proc[p].state = "RUNNABLE"
         /\ proc[p].kstack # 0 /\ proc[p].pgdir # 0 /\ PD[p] = proc[p].pgdir /\ ~Reaped(p) /\ proc[p].sz <= USERTOP
         /\ CallOK(act[p], proc[p], proc[act[p].np], Pres(dir[proc[p].pgdir]), Pres(dir[act[p].d]))
<1>1. act[p] \in Frames /\ act[p] # User
  BY Calls DEF MInv, Typed
<1>2. ProcOK(act[p], proc[p], proc[act[p].np], Pres(dir[proc[p].pgdir]), Pres(dir[act[p].d]), Reaped(p))
  BY DEF MInv, Sane
<1>3. /\ proc[p].state = "RUNNABLE" /\ proc[p].pgdir # 0 /\ proc[p].kstack # 0 /\ ~Reaped(p) /\ proc[p].sz <= USERTOP
      /\ CallOK(act[p], proc[p], proc[act[p].np], Pres(dir[proc[p].pgdir]), Pres(dir[act[p].d]))
  BY <1>1, <1>2 DEF ProcOK
<1>4. proc[p] \in ProcRecs /\ PD[p] = proc[p].pgdir
  BY <1>3, Names DEF MInv, Typed
<1> QED
  BY <1>1, <1>3, <1>4

\* And what it comes to when the call goes on.
LEMMA GoesOn ==
  ASSUME NEW r2, NEW u, NEW n, NEW P, NEW A, NEW reaped, u.state = "RUNNABLE", u.sz <= USERTOP, u.kstack # 0,
         u.pgdir # 0, ~reaped, CallOK(r2, u, n, P, A), r2 # User
  PROVE  ProcOK(r2, u, n, P, A, reaped)
  BY DEF ProcOK

\* The directory that a call has for itself is nobody else's.
LEMMA OwnDir ==
  ASSUME NEW o, Named(o, "pd", PD), Named(o, "ad", AD), NEW p \in Procs
  PROVE  /\ PD[p] # 0 => PD[p] \in Pages /\ Holds(o, PD[p]) /\ Mine(o, PD[p], p) /\ Is(o, PD[p], "pd", p, 0)
         /\ AD[p] # 0 => AD[p] \in Pages /\ Holds(o, AD[p]) /\ Mine(o, AD[p], p) /\ Is(o, AD[p], "ad", p, 0)
<1>1. PD[p] # 0 => PD[p] \in Pages /\ Is(o, PD[p], "pd", p, 0)
  BY DEF Named, PageOr0, Pages
<1>2. AD[p] # 0 => AD[p] \in Pages /\ Is(o, AD[p], "ad", p, 0)
  BY DEF Named, PageOr0, Pages
<1> QED
  BY <1>1, <1>2 DEF Mine, Is, Holds

\* Entries keep their type.
LEMMA Entry ==
  ASSUME NEW dr \in [Pages -> Dirents], NEW d \in Pages, NEW e \in Dirents
  PROVE  /\ [dr EXCEPT ![d] = e] \in [Pages -> Dirents] /\ [dr EXCEPT ![d] = e][d] = e
         /\ \A c \in Pages : c # d => [dr EXCEPT ![d] = e][c] = dr[c]
  OBVIOUS

\* An entry with other tables, or with other user pages.
LEMMA Entries ==
  ASSUME NEW c \in Dirents
  PROVE  /\ c.tab \in Seq(Pages)
         /\ \A t \in Seq(Pages) : /\ [c EXCEPT !.tab = t] \in Dirents /\ [c EXCEPT !.tab = t].tab = t
                                  /\ [c EXCEPT !.tab = t].pte = c.pte
         /\ \A f \in [VPage -> PageOr0] : /\ [c EXCEPT !.pte = f] \in Dirents /\ [c EXCEPT !.pte = f].pte = f
                                          /\ [c EXCEPT !.pte = f].tab = c.tab
<1> DEFINE F == [VPage -> PageOr0] \cup {<<>>}
           S == Seq(Pages)
<1>1. Dirents = [tab : S, pte : F]
  BY DEF Dirents
<1> HIDE DEF F, S
<1>2. /\ c.tab \in S
      /\ \A t \in S : /\ [c EXCEPT !.tab = t] \in Dirents /\ [c EXCEPT !.tab = t].tab = t
                      /\ [c EXCEPT !.tab = t].pte = c.pte
      /\ \A f \in F : /\ [c EXCEPT !.pte = f] \in Dirents /\ [c EXCEPT !.pte = f].pte = f
                      /\ [c EXCEPT !.pte = f].tab = c.tab
  BY <1>1
<1> QED
  BY <1>2 DEF F, S

\* A call that is in setupkvm.
LEMMA AtSetup ==
  ASSUME MInv, NEW p \in Procs, Sub(p, "setupkvm")
  PROVE  /\ act[p] \in Frames /\ act[p] # User /\ Private(act[p]) /\ AD[p] = act[p].d
         /\ act[p].op = "fork" \/ act[p].op = "exec"
         /\ act[p].op = "fork" => act[p].at = "copy"
         /\ act[p].op = "exec" => act[p].at = "segment"
         /\ act[p].d # 0 => Pres(dir[act[p].d]) = {}
<1>1. act[p] \in Frames /\ act[p] # User /\ act[p].sub = "setupkvm" /\ panicked = "no"
      /\ CallOK(act[p], proc[p], proc[act[p].np], Pres(dir[proc[p].pgdir]), Pres(dir[act[p].d]))
  BY InCall DEF Sub
<1>2. CASE act[p].op = "fork"
  <2>1. ForkOK(act[p], proc[p], proc[act[p].np], Pres(dir[act[p].d]))
    BY <1>1, <1>2 DEF CallOK
  <2>2. act[p].at = "copy" /\ act[p].a = 0 /\ (act[p].d # 0 => Pres(dir[act[p].d]) = PagesTo(0))
    BY <1>1, <2>1 DEF ForkOK, Freeing
  <2> QED
    BY <1>1, <1>2, <2>2, Names, NoPages DEF Private, Own, MInv
<1>3. CASE act[p].op = "exec"
  <2>1. ExecOK(act[p], Pres(dir[act[p].d]))
    BY <1>1, <1>3 DEF CallOK
  <2>2. act[p].at = "segment" /\ act[p].sz = 0 /\ (act[p].d # 0 => Pres(dir[act[p].d]) = PagesTo(0))
    BY <1>1, <2>1 DEF ExecOK, Freeing
  <2> QED
    BY <1>1, <1>3, <2>2, Names, NoPages DEF Private, Own, MInv
<1> QED
  BY <1>1, <1>2, <1>3 DEF CallOK, SbrkOK, WaitOK, Freeing

\* setupkvm goes on, or returns; the entry of its directory has no user page.
SetsUp(r, r2) ==
  /\ r2 \in Frames
  /\ r2.op = r.op /\ r2.at = r.at /\ r2.np = r.np /\ r2.a = r.a /\ r2.i = r.i /\ r2.sz = r.sz /\ r2.prog = r.prog
  /\ r2.sub = "setupkvm" \/ (r2.sub = "none" /\ (r2.ret = 0 <=> r2.d = 0))

\* A step of setupkvm keeps the part of the invariant that is about its process.
LEMMA SetupOK ==
  ASSUME MInv, NEW p \in Procs, Sub(p, "setupkvm"), NEW r2, SetsUp(act[p], r2),
         NEW P, P = Pres(dir[proc[p].pgdir]), NEW A, r2.d # 0 => A = {}
  PROVE  /\ ProcOK(r2, proc[p], proc[r2.np], P, A, Reaped(p))
         /\ Keeps(act[p], r2) /\ Own(r2) = r2.d /\ r2 # User
<1> DEFINE r == act[p]
           u == proc[p]
           n == proc[act[p].np]
<1>1. /\ r \in Frames /\ r # User /\ r.sub = "setupkvm" /\ panicked = "no" /\ u.state = "RUNNABLE"
      /\ u.kstack # 0 /\ u.pgdir # 0 /\ ~Reaped(p) /\ u.sz <= USERTOP
      /\ CallOK(r, u, n, P, Pres(dir[r.d]))
  BY InCall DEF Sub
<1>2. r2 # User /\ r2 \in Frames
  BY DEF SetsUp, Frames, User
<1>3. r.op \in {"fork", "exec"} /\ proc[r2.np] = n
  BY AtSetup DEF SetsUp
<1> HIDE DEF r, u, n
<1>4. CallOK(r2, u, n, P, A)
  <2>1. CASE r.op = "fork"
    <3>1. ForkOK(r, u, n, Pres(dir[r.d])) /\ P = PagesTo(u.sz)
      BY <1>1, <2>1 DEF CallOK
    <3>2. r.at = "copy" /\ r.a = 0
      BY <1>1, <3>1 DEF ForkOK, Freeing
    <3>3. ForkOK(r2, u, n, A)
      BY <1>1, <3>1, <3>2, NoPages DEF ForkOK, SetsUp, r
    <3> QED
      BY <2>1, <3>1, <3>3 DEF CallOK, SetsUp, r
  <2>2. CASE r.op = "exec"
    <3>1. ExecOK(r, Pres(dir[r.d])) /\ P = PagesTo(u.sz)
      BY <1>1, <2>2 DEF CallOK
    <3>2. r.at = "segment" /\ r.sz = 0
      BY <1>1, <3>1 DEF ExecOK, Freeing
    <3>3. ExecOK(r2, A)
      BY <1>1, <3>1, <3>2, NoPages DEF ExecOK, SetsUp, r
    <3> QED
      BY <2>2, <3>1, <3>3 DEF CallOK, SetsUp, r
  <2> QED
    BY <1>3, <2>1, <2>2
<1>5. ProcOK(r2, u, n, P, A, Reaped(p))
  BY <1>1, <1>2, <1>4, GoesOn
<1>6. Keeps(act[p], r2) /\ Own(r2) = r2.d
  BY <1>1, <1>2, <1>3 DEF Keeps, SetsUp, r, Own, Private
<1> QED
  BY <1>2, <1>3, <1>5, <1>6 DEF r, u, n

\* A page directory in use is a function on user pages; here an empty one.
LEMMA NothingPresent ==
  ASSUME NEW c, c.pte \in [VPage -> PageOr0]
  PROVE  Pres(c) \subseteq VPage /\ (Pres(c) = {} <=> \A v \in VPage : c.pte[v] = 0)
         /\ \A v \in VPage : v \in Pres(c) <=> c.pte[v] # 0
  BY DEF Pres

\* A step of setupkvm keeps the invariant.
LEMMA StepSetup ==
  ASSUME MInv, NEW p \in Procs, setupkvm(p)
  PROVE  MInv'
<1> DEFINE r == act[p]
           d == act[p].d
<1>1. /\ Sub(p, "setupkvm") /\ proc' = proc /\ panicked' = panicked /\ panicked = "no"
  BY DEF setupkvm, Sub
<1>2. PICK o \in Owners : Owned(o, freelist, KS, PD, AD, dir, lost)
  BY DEF MInv, Owning
<1>3. /\ r \in Frames /\ r # User /\ Private(r) /\ AD[p] = d /\ d \in PageOr0 /\ r.sub = "setupkvm"
      /\ d # 0 => Pres(dir[d]) = {}
  BY <1>1, AtSetup DEF Frames, Sub
<1>4. dir \in [Pages -> Dirents] /\ act \in [Procs -> Frames \cup {User}]
  BY DEF MInv, Typed
<1>5. /\ Named(o, "pd", PD) /\ Named(o, "ad", AD) /\ DirOwns(o, dir) /\ ListOwns(o, freelist, lost)
      /\ freelist \in Seq(Pages)
  BY <1>2 DEF Owned, ListOwns
<1>6. proc[p].pgdir = PD[p] /\ PD[p] \in Pages /\ Is(o, PD[p], "pd", p, 0) /\ r.op # "user"
  <2>1. r.op # "user"
    BY <1>1 DEF Sub
  <2>2. proc[p].pgdir = PD[p] /\ PD[p] # 0
    BY <2>1, InCall
  <2> QED
    BY <1>5, <2>1, <2>2, OwnDir
<1>7. d # 0 => d \in Pages /\ Holds(o, d) /\ Mine(o, d, p) /\ o[d].k = "ad"
  BY <1>3, <1>5, OwnDir DEF Is
<1>8. CASE \E pg \in Pages : kalloc(pg) /\ d = 0
             /\ dir' = [dir EXCEPT ![pg] = [tab |-> <<>>, pte |-> [v \in VPage |-> 0]]]
             /\ act' = [act EXCEPT ![p].d = pg] /\ lost' = lost
  <2>1. PICK pg \in Pages : kalloc(pg) /\ d = 0
             /\ dir' = [dir EXCEPT ![pg] = [tab |-> <<>>, pte |-> [v \in VPage |-> 0]]]
             /\ act' = [act EXCEPT ![p].d = pg] /\ lost' = lost
    BY <1>8
  <2> DEFINE e  == [tab |-> <<>>, pte |-> [v \in VPage |-> 0]]
             r2 == [r EXCEPT !.d = pg]
  <2>2. freelist # <<>> /\ pg = Head(freelist) /\ freelist' = Tail(freelist) /\ pg # 0 /\ pg \in PageOr0
    BY <2>1 DEF kalloc, Pages, PageOr0
  <2>3. act' = [act EXCEPT ![p] = r2] /\ dir' = [dir EXCEPT ![pg] = e]
    BY <1>4, <2>1
  <2>4. r2 \in Frames /\ SetsUp(r, r2) /\ r2.d = pg
    BY <1>3, <2>2 DEF Frames, SetsUp
  <2>5. e.tab = <<>> /\ e.pte = [v \in VPage |-> 0] /\ e \in Dirents /\ Pres(e) = {}
    <3>1. 0 \in PageOr0 /\ <<>> \in Seq(Pages)
      BY MemoryAssumption DEF PageOr0
    <3> QED
      BY <3>1 DEF Dirents, Pres
  <2> HIDE DEF e, r2, r, d
  <2>6. /\ dir' \in [Pages -> Dirents] /\ dir'[pg] = e /\ \A c \in Pages : c # pg => dir'[c] = dir[c]
    BY <1>4, <2>3, <2>5, Entry
  <2>7. o[pg].k = "free" /\ Mine(o, pg, p) /\ PD[p] # pg
    <3>1. 1 \in 1 .. Len(freelist) /\ pg = freelist[1]
      BY <1>5, <2>2
    <3>2. o[pg].k = "free"
      BY <1>5, <3>1 DEF ListOwns
    <3> QED
      BY <1>6, <3>2 DEF Mine, Is
  <2>8. /\ ProcOK(r2, proc[p], proc[r2.np], Pres(dir'[proc[p].pgdir]), Pres(dir'[r2.d]), Reaped(p))
        /\ Keeps(act[p], r2) /\ Own(r2) = pg
    <3>1. Pres(dir'[proc[p].pgdir]) = Pres(dir[proc[p].pgdir]) /\ Pres(dir'[r2.d]) = {}
      BY <1>6, <2>4, <2>5, <2>6, <2>7
    <3> QED
      BY <1>1, <2>4, <3>1, SetupOK DEF r
  <2>9. KS' = KS /\ PD' = PD /\ AD' = [AD EXCEPT ![p] = pg]
    BY <1>1, <2>3, <2>8, KeepsNames DEF MInv
  <2>10. Owning'
    <3>1. \E o2 \in Owners : Owned(o2, Tail(freelist), KS, PD, [AD EXCEPT ![p] = Head(freelist)],
                                   [dir EXCEPT ![Head(freelist)] = e], lost)
      <4>1. AD[p] = 0
        BY <1>3, <2>1 DEF d
      <4> QED
        BY <1>2, <1>4, <2>2, <2>5, <4>1, TakeDir, Zenon
    <3> QED
      BY <2>1, <2>2, <2>3, <2>9, <3>1 DEF Owning
  <2> QED
    BY <1>1, <1>2, <2>3, <2>4, <2>6, <2>7, <2>8, <2>10, KeepsRest
<1>9. CASE \E pg \in Pages : kalloc(pg) /\ d # 0 /\ dir' = [dir EXCEPT ![d].tab = Append(@, pg)]
             /\ (IF Len(dir[d].tab) + 1 = KTABS THEN Answer(p, d) ELSE UNCHANGED act) /\ lost' = lost
  <2>1. PICK pg \in Pages : kalloc(pg) /\ d # 0 /\ dir' = [dir EXCEPT ![d].tab = Append(@, pg)]
             /\ (IF Len(dir[d].tab) + 1 = KTABS THEN Answer(p, d) ELSE UNCHANGED act) /\ lost' = lost
    BY <1>9
  <2> DEFINE e  == [dir[d] EXCEPT !.tab = Append(dir[d].tab, pg)]
             r2 == IF Len(dir[d].tab) + 1 = KTABS THEN [r EXCEPT !.sub = "none", !.ret = d] ELSE r
  <2>2. freelist # <<>> /\ pg = Head(freelist) /\ freelist' = Tail(freelist) /\ pg # 0 /\ pg \in PageOr0
    BY <2>1 DEF kalloc, Pages, PageOr0
  <2>0. d \in Pages /\ dir[d] \in Dirents /\ d \in Nat
    BY <1>4, <1>7, <2>1 DEF Pages
  <2>3. act' = [act EXCEPT ![p] = r2] /\ dir' = [dir EXCEPT ![d] = e]
    <3>1. dir' = [dir EXCEPT ![d] = e]
      BY <1>4, <2>0, <2>1
    <3>2. CASE Len(dir[d].tab) + 1 = KTABS
      BY <1>4, <2>1, <3>2 DEF Answer
    <3>3. CASE Len(dir[d].tab) + 1 # KTABS
      BY <1>4, <2>1, <3>3
    <3> QED
      BY <3>1, <3>2, <3>3
  <2>4. r2 \in Frames /\ SetsUp(r, r2) /\ r2.d = d
    <3>1. CASE r2 = r
      BY <1>3, <3>1 DEF SetsUp
    <3>2. CASE r2 = [r EXCEPT !.sub = "none", !.ret = d]
      BY <1>3, <2>0, <2>1, <3>2 DEF Frames, SetsUp, Subs
    <3> QED
      BY <3>1, <3>2
  <2>5. e.tab = Append(dir[d].tab, pg) /\ e.pte = dir[d].pte /\ e \in Dirents /\ Pres(e) = {}
    <3>1. e.tab = Append(dir[d].tab, pg) /\ e.pte = dir[d].pte /\ e \in Dirents
      <4>1. Append(dir[d].tab, pg) \in Seq(Pages)
        BY <2>0, Entries
      <4> QED
        BY <2>0, <4>1, Entries
    <3> QED
      BY <1>3, <2>1, <3>1 DEF Pres
  <2> HIDE DEF e, r2, r, d
  <2>6. /\ dir' \in [Pages -> Dirents] /\ dir'[d] = e /\ \A c \in Pages : c # d => dir'[c] = dir[c]
    BY <1>4, <2>0, <2>3, <2>5, Entry
  <2>7. PD[p] # d
    BY <1>6, <1>7, <2>1 DEF Is
  <2>8. /\ ProcOK(r2, proc[p], proc[r2.np], Pres(dir'[proc[p].pgdir]), Pres(dir'[r2.d]), Reaped(p))
        /\ Keeps(act[p], r2) /\ Own(r2) = d
    <3>1. Pres(dir'[proc[p].pgdir]) = Pres(dir[proc[p].pgdir]) /\ Pres(dir'[r2.d]) = {}
      BY <1>6, <2>4, <2>5, <2>6, <2>7
    <3> QED
      BY <1>1, <2>4, <3>1, SetupOK DEF r
  <2>9. KS' = KS /\ PD' = PD /\ AD' = AD
    <3>1. KS' = KS /\ PD' = PD /\ AD' = [AD EXCEPT ![p] = d]
      BY <1>1, <2>3, <2>8, KeepsNames DEF MInv
    <3> QED
      BY <1>3, <3>1, Names DEF MInv
  <2>10. Owning'
    <3>0. Gains(dir[d], e, 0, Head(freelist), "table")
      BY <2>2, <2>5 DEF Gains
    <3>1. \E o2 \in Owners : Owned(o2, Tail(freelist), KS, PD, AD, [dir EXCEPT ![d] = e], lost)
      BY <1>2, <1>4, <1>7, <2>0, <2>1, <2>2, <3>0, TakeInto, Zenon
    <3> QED
      BY <2>1, <2>2, <2>3, <2>9, <3>1 DEF Owning
  <2> QED
    BY <1>1, <1>2, <1>7, <2>1, <2>3, <2>4, <2>6, <2>8, <2>10, KeepsRest
<1>10. CASE /\ NoPage
            /\ act' = [act EXCEPT ![p].sub = "none", ![p].ret = 0, ![p].d = 0]
            /\ dir' = IF d = 0 THEN dir ELSE [dir EXCEPT ![d] = NoDir]
            /\ lost' = IF d = 0 THEN lost ELSE lost \cup {d} \cup Range(dir[d].tab)
  <2> DEFINE r2 == [r EXCEPT !.sub = "none", !.ret = 0, !.d = 0]
  <2>1. act' = [act EXCEPT ![p] = r2] /\ freelist' = freelist
    BY <1>4, <1>10 DEF NoPage
  <2>2. r2 \in Frames /\ SetsUp(r, r2) /\ r2.d = 0
    <3>1. 0 \in PageOr0
      BY MemoryAssumption DEF PageOr0
    <3> QED
      BY <1>3, <3>1 DEF Frames, SetsUp, Subs
  <2>3. NoDir \in Dirents
    BY DEF NoDir, Dirents
  <2> HIDE DEF r2, r, d
  <2>4. /\ dir' \in [Pages -> Dirents] /\ \A c \in Pages : c # d => dir'[c] = dir[c]
    <3>1. CASE d = 0
      BY <1>4, <1>10, <3>1
    <3>2. CASE d # 0
      <4>1. d \in Pages /\ dir' = [dir EXCEPT ![d] = NoDir]
        BY <1>7, <1>10, <3>2
      <4> QED
        BY <1>4, <2>3, <4>1, Entry
    <3> QED
      BY <3>1, <3>2
  <2>5. PD[p] # d
    BY <1>6, <1>7, MemoryAssumption DEF Is, Pages
  <2>6. /\ ProcOK(r2, proc[p], proc[r2.np], Pres(dir'[proc[p].pgdir]), Pres(dir'[r2.d]), Reaped(p))
        /\ Keeps(act[p], r2) /\ Own(r2) = 0
    <3>1. Pres(dir'[proc[p].pgdir]) = Pres(dir[proc[p].pgdir])
      BY <1>6, <2>4, <2>5
    <3> QED
      BY <1>1, <2>2, <3>1, SetupOK DEF r
  <2>7. KS' = KS /\ PD' = PD /\ AD' = [AD EXCEPT ![p] = 0]
    BY <1>1, <2>1, <2>6, KeepsNames DEF MInv
  <2>8. Mine(o, d, p)
    BY <1>7, MemoryAssumption DEF Mine, Pages
  <2>9. Owning'
    <3>1. CASE d = 0
      <4>1. AD' = AD
        BY <1>3, <2>7, <3>1, Names DEF MInv
      <4> QED
        BY <1>2, <1>10, <2>1, <2>7, <3>1, <4>1 DEF Owning
    <3>2. CASE d # 0
      <4>1. \A v \in VPage : dir[d].pte[v] = 0
        <5>1. dir[d].pte \in [VPage -> PageOr0]
          BY <1>5, <1>7, <3>2, Leads
        <5> QED
          BY <1>3, <3>2, <5>1, NothingPresent
      <4>2. \E o2 \in Owners : Owned(o2, freelist, KS, PD, [AD EXCEPT ![p] = 0], [dir EXCEPT ![d] = NoDir],
                                     lost \cup {d} \cup Range(dir[d].tab))
        BY <1>2, <1>3, <1>4, <3>2, <4>1, Lose, Zenon
      <4>3. dir' = [dir EXCEPT ![d] = NoDir] /\ lost' = lost \cup {d} \cup Range(dir[d].tab)
        BY <1>10, <3>2
      <4> QED
        BY <2>1, <2>7, <4>2, <4>3 DEF Owning
    <3> QED
      BY <3>1, <3>2
  <2> QED
    BY <1>1, <1>2, <2>1, <2>2, <2>4, <2>6, <2>8, <2>9, KeepsRest
<1> QED
  BY <1>8, <1>9, <1>10 DEF setupkvm

----------------------------------------------------------------------------
(* allocuvm and deallocuvm                                                 *)

\* A set of numbers has a lowest one.
LEMMA LowestIn ==
  ASSUME NEW S, S \subseteq Nat, S # {}
  PROVE  Lowest(S) \in S
<1> DEFINE LT == {ss \in Nat \X Nat : ss[1] < ss[2]}
<1>1. IsWellFoundedOn(LT, Nat)
  BY NatLessThanWellFounded, Zenon DEF OpToRel
<1>3. PICK x \in S : \A y \in S : ~(<<y, x>> \in LT)
  BY <1>1, WFMin, Zenon
<1>4. \A y, z \in Nat : y < z => <<y, z>> \in LT
  OBVIOUS
<1>5. \A y \in S : ~(y < x)
  <2> HIDE DEF LT
  <2> QED
    BY <1>3, <1>4
<1>6. \A y \in S : x <= y
  BY <1>5
<1> QED
  BY <1>6 DEF Lowest

\* The directory of a call that has one.
LEMMA AtDir ==
  ASSUME MInv, NEW p \in Procs, act[p].op # "user", act[p].d # 0,
         NEW o, Owned(o, freelist, KS, PD, AD, dir, lost)
  PROVE  /\ act[p].d \in Pages /\ Holds(o, act[p].d) /\ Mine(o, act[p].d, p)
         /\ dir[act[p].d] \in Dirents /\ dir[act[p].d].pte \in [VPage -> PageOr0]
         /\ act[p].op = "sbrk" => proc[p].pgdir = act[p].d
         /\ act[p].op # "sbrk" => AD[p] = act[p].d /\ proc[p].pgdir # act[p].d
         /\ proc[p].pgdir \in Pages
         /\ Own(act[p]) = AD[p]
<1>1. /\ act[p] # User /\ PD[p] = proc[p].pgdir /\ proc[p].pgdir # 0
      /\ CallOK(act[p], proc[p], proc[act[p].np], Pres(dir[proc[p].pgdir]), Pres(dir[act[p].d]))
  BY InCall
<1>2. Named(o, "pd", PD) /\ Named(o, "ad", AD) /\ DirOwns(o, dir)
  BY DEF Owned
<1>3. AD[p] = Own(act[p])
  BY Names DEF MInv
<1>4. PD[p] \in Pages /\ Holds(o, PD[p]) /\ Mine(o, PD[p], p) /\ Is(o, PD[p], "pd", p, 0)
  BY <1>1, <1>2, OwnDir
<1>5. CASE act[p].op = "sbrk"
  <2>1. act[p].d = PD[p]
    BY <1>1, <1>5 DEF CallOK, SbrkOK
  <2> QED
    BY <1>1, <1>2, <1>3, <1>4, <1>5, <2>1, Leads DEF MInv, Typed
<1>6. CASE act[p].op # "sbrk"
  <2>1. AD[p] = act[p].d
    BY <1>1, <1>3, <1>6 DEF Own, Private
  <2>2. AD[p] \in Pages /\ Holds(o, AD[p]) /\ Mine(o, AD[p], p) /\ Is(o, AD[p], "ad", p, 0)
    BY <1>2, <2>1, OwnDir
  <2>3. AD[p] # PD[p]
    BY <1>4, <2>2 DEF Is
  <2> QED
    BY <1>1, <1>2, <1>3, <1>4, <1>6, <2>1, <2>2, <2>3, Leads DEF MInv, Typed
<1> QED
  BY <1>5, <1>6

\* What is present for a process when entry e takes the place of its call's.
P2(r, e, P) == IF r.op = "sbrk" THEN Pres(e) ELSE P

\* A call that keeps its directory and changes the entry.
LEMMA OneEntry ==
  ASSUME MInv, NEW p \in Procs, act[p].op # "user", act[p].d # 0, NEW r2 \in Frames,
         act' = [act EXCEPT ![p] = r2], proc' = proc, panicked' = "no",
         r2.op = act[p].op, r2.np = act[p].np, r2.d = act[p].d,
         NEW e \in Dirents, dir' = [dir EXCEPT ![act[p].d] = e],
         \E o2 \in Owners : Owned(o2, freelist', KS, PD, AD, dir', lost'),
         CallOK(r2, proc[p], proc[r2.np], P2(r2, e, Pres(dir[proc[p].pgdir])), Pres(e))
  PROVE  MInv'
<1> DEFINE r == act[p]
           d == act[p].d
<1>1. PICK o \in Owners : Owned(o, freelist, KS, PD, AD, dir, lost)
  BY DEF MInv, Owning
<1>2. /\ d \in Pages /\ Mine(o, d, p) /\ dir[d] \in Dirents /\ proc[p].pgdir \in Pages
      /\ r.op = "sbrk" => proc[p].pgdir = d
      /\ r.op # "sbrk" => proc[p].pgdir # d
      /\ Own(r) = AD[p]
  BY <1>1, AtDir
<1>3. /\ r \in Frames /\ r # User /\ proc[p].state = "RUNNABLE" /\ proc[p].kstack # 0 /\ proc[p].pgdir # 0
      /\ ~Reaped(p) /\ proc[p].sz <= USERTOP
  BY InCall
<1>4. dir \in [Pages -> Dirents]
  BY DEF MInv, Typed
<1> HIDE DEF r, d
<1>5. dir' \in [Pages -> Dirents] /\ dir'[d] = e /\ \A c \in Pages : c # d => dir'[c] = dir[c]
  BY <1>2, <1>4, Entry DEF d
<1>6. r2 # User /\ Keeps(r, r2) /\ Own(r2) = Own(r)
  <2>1. r2 # User
    BY DEF Frames, User
  <2> QED
    BY <1>3, <2>1 DEF Keeps, Own, Private, r
<1>7. KS' = KS /\ PD' = PD /\ AD' = AD
  <2>1. KS' = KS /\ PD' = PD /\ AD' = [AD EXCEPT ![p] = Own(r2)]
    BY <1>6, KeepsNames DEF MInv, r
  <2> QED
    BY <1>2, <1>6, <2>1, Names DEF MInv
<1>8. Owning'
  BY <1>7 DEF Owning
<1>9. Pres(dir'[r2.d]) = Pres(e) /\ Pres(dir'[proc[p].pgdir]) = P2(r2, e, Pres(dir[proc[p].pgdir]))
  BY <1>2, <1>5 DEF P2, d, r
<1>10. ProcOK(r2, proc[p], proc[r2.np], Pres(dir'[proc[p].pgdir]), Pres(dir'[r2.d]), Reaped(p))
  BY <1>3, <1>6, <1>9, GoesOn
<1> QED
  BY <1>1, <1>2, <1>5, <1>6, <1>8, <1>10, KeepsRest DEF r

\* An entry with one more user page, or one less.
LEMMA OnePage ==
  ASSUME NEW c, c.pte \in [VPage -> PageOr0], NEW v \in VPage, NEW x \in PageOr0,
         NEW e, e.pte = [c.pte EXCEPT ![v] = x]
  PROVE  /\ x = 0 => Pres(e) = Pres(c) \ {v}
         /\ x # 0 => Pres(e) = Pres(c) \cup {v}
<1>1. /\ e.pte \in [VPage -> PageOr0] /\ e.pte[v] = x
      /\ \A w \in VPage : w # v => e.pte[w] = c.pte[w]
  OBVIOUS
<1>2. DOMAIN e.pte = VPage /\ DOMAIN c.pte = VPage
  BY <1>1
<1> QED
  BY <1>1, <1>2 DEF Pres

\* A call that is in allocuvm.
LEMMA AtAlloc ==
  ASSUME MInv, NEW p \in Procs, Sub(p, "allocuvm")
  PROVE  /\ act[p].d # 0 /\ Growing(act[p], Pres(dir[act[p].d])) /\ act[p] \in Frames /\ act[p].op # "user"
         /\ act[p].op \in {"sbrk", "exec"} /\ panicked = "no"
         /\ act[p].op = "sbrk" => act[p].at = "grow" /\ act[p].d = proc[p].pgdir /\ act[p].old = proc[p].sz
         /\ act[p].op = "exec" =>
              /\ Pres(dir[proc[p].pgdir]) = PagesTo(proc[p].sz)
              /\ act[p].at \in {"load", "commit"} /\ (act[p].at = "load" => act[p].i \in 1 .. Len(act[p].prog))
<1>1. act[p] \in Frames /\ act[p].sub = "allocuvm" /\ proc[p].pgdir # 0
      /\ CallOK(act[p], proc[p], proc[act[p].np], Pres(dir[proc[p].pgdir]), Pres(dir[act[p].d]))
  BY InCall DEF Sub
<1>2. act[p].op # "user" /\ panicked = "no"
  BY DEF Sub
<1>3. CASE act[p].op = "sbrk"
  <2>1. SbrkOK(act[p], proc[p], Pres(dir[proc[p].pgdir]))
    BY <1>1, <1>3 DEF CallOK
  <2> QED
    BY <1>1, <1>2, <1>3, <2>1 DEF SbrkOK
<1>4. CASE act[p].op = "exec"
  <2>1. ExecOK(act[p], Pres(dir[act[p].d])) /\ Pres(dir[proc[p].pgdir]) = PagesTo(proc[p].sz)
    BY <1>1, <1>4 DEF CallOK
  <2> QED
    BY <1>1, <1>2, <1>4, <2>1 DEF ExecOK, Freeing
<1> QED
  BY <1>1, <1>3, <1>4 DEF CallOK, ForkOK, WaitOK, Freeing

\* A step of allocuvm keeps the invariant.
LEMMA StepAlloc ==
  ASSUME MInv, NEW p \in Procs, allocuvm_page(p)
  PROVE  MInv'
<1> DEFINE r == act[p]
           d == act[p].d
           v == Page(act[p].a)
           n == proc[act[p].np]
<1>1. /\ Sub(p, "allocuvm") /\ proc' = proc /\ lost' = lost
  BY DEF allocuvm_page
<1>2. /\ d # 0 /\ Growing(r, Pres(dir[d])) /\ r \in Frames /\ r.op # "user"
      /\ r.op \in {"sbrk", "exec"} /\ panicked = "no"
      /\ r.op = "sbrk" => r.at = "grow" /\ d = proc[p].pgdir /\ r.old = proc[p].sz
      /\ r.op = "exec" =>
           /\ Pres(dir[proc[p].pgdir]) = PagesTo(proc[p].sz)
           /\ r.at \in {"load", "commit"} /\ (r.at = "load" => r.i \in 1 .. Len(r.prog))
  BY <1>1, AtAlloc
<1>3. PICK o \in Owners : Owned(o, freelist, KS, PD, AD, dir, lost)
  BY DEF MInv, Owning
<1>4. d \in Pages /\ Holds(o, d) /\ dir[d] \in Dirents /\ dir[d].pte \in [VPage -> PageOr0]
  BY <1>2, <1>3, AtDir
<1>5. /\ r.a \in Nat /\ r.new \in Nat /\ r.old \in Nat /\ Aligned(r.a) /\ PGROUNDUP(r.old) <= r.a
      /\ r.a < r.new /\ r.new <= USERTOP /\ Pres(dir[d]) = PagesTo(r.a) /\ r.sub = "allocuvm"
  BY <1>1, <1>2 DEF Growing, Frames, Sub
<1>6. dir \in [Pages -> Dirents] /\ act \in [Procs -> Frames \cup {User}] /\ proc[p].sz <= USERTOP /\ PGSIZE \in Nat /\ USERTOP \in Nat
  <2>1. proc[p].sz <= USERTOP
    BY <1>2, InCall
  <2> QED
    BY <2>1, MemoryAssumption DEF MInv, Typed, USERTOP
<1>7. CASE \E pg \in Pages : Grown(p, pg)
  <2>1. PICK pg \in Pages : Grown(p, pg)
    BY <1>7
  <2> DEFINE e  == [dir[d] EXCEPT !.pte = [dir[d].pte EXCEPT ![v] = pg]]
             done == r.a + PGSIZE >= r.new
             s  == IF done THEN "none" ELSE r.sub
             t  == IF done THEN r.new ELSE r.ret
             r2 == [r EXCEPT !.a = r.a + PGSIZE, !.sub = s, !.ret = t]
  <2>2. freelist # <<>> /\ pg = Head(freelist) /\ freelist' = Tail(freelist) /\ pg # 0 /\ pg \in PageOr0
    BY <2>1 DEF Grown, kalloc, Pages, PageOr0
  <2>3. v \in VPage /\ v \notin PagesTo(r.a)
    BY <1>5, <1>6, InRange, NextPage
  <2>4. act' = [act EXCEPT ![p] = r2]
    BY <1>6, <2>1 DEF Grown
  <2>5. dir' = [dir EXCEPT ![d] = e]
    BY <1>4, <1>6, <2>1 DEF Grown, Map
  <2>6. panicked' = "no"
    <3>1. Present(d) = Pres(dir[d])
      BY DEF Present, Pres
    <3> QED
      BY <1>2, <1>5, <2>1, <2>3, <3>1 DEF Grown, Map, Remap
  <2>7. e \in Dirents /\ e.tab = dir[d].tab /\ e.pte = [dir[d].pte EXCEPT ![v] = pg] /\ Pres(e) = Pres(dir[d]) \cup {v}
    <3> DEFINE c == dir[d]
               f == [c.pte EXCEPT ![v] = pg]
    <3>0. e = [c EXCEPT !.pte = f]
      OBVIOUS
    <3>1. c \in Dirents /\ c.pte \in [VPage -> PageOr0]
      BY <1>4
    <3>2. f = [c.pte EXCEPT ![v] = pg]
      OBVIOUS
    <3> HIDE DEF e, d, v, c, f
    <3>3. f \in [VPage -> PageOr0]
      BY <2>2, <3>1, <3>2
    <3>4. e \in Dirents /\ e.tab = c.tab /\ e.pte = f
      BY <3>0, <3>1, <3>3, Entries
    <3>6. e.pte = [c.pte EXCEPT ![v] = pg]
      BY <3>2, <3>4
    <3>5. Pres(e) = Pres(c) \cup {v}
      BY <2>2, <2>3, <3>1, <3>6, OnePage
    <3> QED
      BY <3>2, <3>4, <3>5 DEF c
  <2>8. /\ r2 \in Frames /\ r2.op = r.op /\ r2.at = r.at /\ r2.np = r.np /\ r2.d = d /\ r2.old = r.old /\ r2.new = r.new
        /\ r2.i = r.i /\ r2.prog = r.prog /\ r2.a = r.a + PGSIZE
        /\ done => r2.sub = "none" /\ r2.ret = r.new
        /\ ~done => r2.sub = "allocuvm"
    <3>1. s \in Subs /\ t \in Nat /\ r.a + PGSIZE \in Nat
      BY <1>2, <1>5, <1>6 DEF Frames, Subs
    <3>2. (done => s = "none" /\ t = r.new) /\ (~done => s = "allocuvm")
      BY <1>5
    <3> HIDE DEF s, t, done
    <3> QED
      BY <1>2, <3>1, <3>2 DEF Frames
  <2>9. Pres(e) = PagesTo(r.a + PGSIZE)
    BY <1>5, <2>3, <2>7, NextPage
  <2>10. \E o2 \in Owners : Owned(o2, freelist', KS, PD, AD, dir', lost')
    <3>1. Gains(dir[d], e, v, Head(freelist), "user")
      <4>1. dir[d].pte[v] = 0
        BY <1>4, <1>5, <2>3, NothingPresent
      <4> HIDE DEF e, v
      <4> QED
        BY <2>2, <2>3, <2>7, <4>1 DEF Gains
    <3> HIDE DEF e, d, v
    <3>2. \E o2 \in Owners : Owned(o2, Tail(freelist), KS, PD, AD, [dir EXCEPT ![d] = e], lost)
      BY <1>3, <1>4, <1>6, <2>2, <3>1, TakeInto, Zenon
    <3> QED
      BY <1>1, <2>2, <2>5, <3>2
  <2> HIDE DEF e, r2, done
  <2>11. CASE done
    <3>1. PagesTo(r.new) = Pres(e)
      <4>1. r.new <= r.a + PGSIZE
        BY <1>5, <1>6, <2>11 DEF done
      <4> QED
        BY <1>5, <2>9, <4>1, LastPage
    <3>2. CASE r.op = "sbrk"
      <4>1. SbrkOK(r2, proc[p], Pres(e)) /\ r2.op = "sbrk" /\ P2(r2, e, Pres(dir[proc[p].pgdir])) = Pres(e)
        BY <1>2, <1>5, <2>8, <2>11, <3>1, <3>2 DEF SbrkOK, P2
      <4>2. CallOK(r2, proc[p], proc[r2.np], P2(r2, e, Pres(dir[proc[p].pgdir])), Pres(e))
        BY <4>1 DEF CallOK
      <4> QED
        BY <1>1, <1>2, <2>4, <2>5, <2>6, <2>7, <2>8, <2>10, <4>2, OneEntry DEF r, d
    <3>3. CASE r.op = "exec"
      <4>1. ExecOK(r2, Pres(e)) /\ r2.op = "exec" /\ P2(r2, e, Pres(dir[proc[p].pgdir])) = PagesTo(proc[p].sz)
        BY <1>2, <1>5, <2>8, <2>11, <3>1, <3>3 DEF ExecOK, P2
      <4>2. CallOK(r2, proc[p], proc[r2.np], P2(r2, e, Pres(dir[proc[p].pgdir])), Pres(e))
        BY <4>1 DEF CallOK
      <4> QED
        BY <1>1, <1>2, <2>4, <2>5, <2>6, <2>7, <2>8, <2>10, <4>2, OneEntry DEF r, d
    <3> QED
      BY <1>2, <3>2, <3>3
  <2>12. CASE ~done
    <3>1. Growing(r2, Pres(e))
      <4>1. r.a + PGSIZE \in Nat /\ Aligned(r.a + PGSIZE)
        BY <1>5, NextPage
      <4>2. PGROUNDUP(r.old) <= r.a + PGSIZE /\ r.a + PGSIZE < r.new
        BY <1>5, <1>6, <2>12, RoundUp DEF done
      <4> QED
        BY <1>5, <2>8, <2>9, <4>1, <4>2 DEF Growing
    <3>2. CASE r.op = "sbrk"
      <4>1. SbrkOK(r2, proc[p], Pres(e)) /\ r2.op = "sbrk" /\ P2(r2, e, Pres(dir[proc[p].pgdir])) = Pres(e)
        BY <1>2, <1>5, <2>8, <2>12, <3>1, <3>2 DEF SbrkOK, P2
      <4>2. CallOK(r2, proc[p], proc[r2.np], P2(r2, e, Pres(dir[proc[p].pgdir])), Pres(e))
        BY <4>1 DEF CallOK
      <4> QED
        BY <1>1, <1>2, <2>4, <2>5, <2>6, <2>7, <2>8, <2>10, <4>2, OneEntry DEF r, d
    <3>3. CASE r.op = "exec"
      <4>1. ExecOK(r2, Pres(e)) /\ r2.op = "exec" /\ P2(r2, e, Pres(dir[proc[p].pgdir])) = PagesTo(proc[p].sz)
        BY <1>2, <1>5, <2>8, <2>12, <3>1, <3>3 DEF ExecOK, P2
      <4>2. CallOK(r2, proc[p], proc[r2.np], P2(r2, e, Pres(dir[proc[p].pgdir])), Pres(e))
        BY <4>1 DEF CallOK
      <4> QED
        BY <1>1, <1>2, <2>4, <2>5, <2>6, <2>7, <2>8, <2>10, <4>2, OneEntry DEF r, d
    <3> QED
      BY <1>2, <3>2, <3>3
  <2> QED
    BY <2>11, <2>12
<1>8. CASE /\ NoPage
           /\ act' = [act EXCEPT ![p].sub = "deallocuvm", ![p].old = r.new, ![p].new = r.old, ![p].ret = 0]
           /\ UNCHANGED <<dir, cell, panicked>>
  <2> DEFINE r2 == [r EXCEPT !.sub = "deallocuvm", !.old = r.new, !.new = r.old, !.ret = 0]
             e  == dir[d]
  <2>1. act' = [act EXCEPT ![p] = r2] /\ freelist' = freelist /\ panicked' = "no"
    BY <1>2, <1>6, <1>8 DEF NoPage
  <2>2. dir' = [dir EXCEPT ![d] = e]
    BY <1>4, <1>6, <1>8
  <2>3. /\ r2 \in Frames /\ r2.op = r.op /\ r2.at = r.at /\ r2.np = r.np /\ r2.d = d /\ r2.old = r.new /\ r2.new = r.old
        /\ r2.i = r.i /\ r2.prog = r.prog /\ r2.sub = "deallocuvm" /\ r2.ret = 0
    BY <1>2, <1>5 DEF Frames, Subs
  <2>4. \E o2 \in Owners : Owned(o2, freelist', KS, PD, AD, dir', lost')
    BY <1>1, <1>3, <1>8, <2>1
  <2> HIDE DEF r2
  <2>5. CASE r.op = "sbrk"
    <3>1. PagesTo(r.old) \subseteq Pres(e) /\ Pres(e) \subseteq PagesTo(r.new)
      <4>1. r.old <= r.a
        BY <1>5, RoundUp
      <4> QED
        BY <1>5, <4>1, MorePages
    <3>2. SbrkOK(r2, proc[p], Pres(e)) /\ r2.op = "sbrk" /\ P2(r2, e, Pres(dir[proc[p].pgdir])) = Pres(e)
      BY <1>2, <1>6, <2>3, <2>5, <3>1 DEF SbrkOK, P2
    <3>3. CallOK(r2, proc[p], proc[r2.np], P2(r2, e, Pres(dir[proc[p].pgdir])), Pres(e))
      BY <3>2 DEF CallOK
    <3> QED
      BY <1>2, <1>4, <2>1, <2>2, <2>3, <2>4, <1>1, <3>3, OneEntry DEF r, d, e
  <2>6. CASE r.op = "exec"
    <3>1. ExecOK(r2, Pres(e)) /\ r2.op = "exec" /\ P2(r2, e, Pres(dir[proc[p].pgdir])) = PagesTo(proc[p].sz)
      BY <1>2, <2>3, <2>6 DEF ExecOK, P2
    <3>3. CallOK(r2, proc[p], proc[r2.np], P2(r2, e, Pres(dir[proc[p].pgdir])), Pres(e))
      BY <3>1 DEF CallOK
    <3> QED
      BY <1>2, <1>4, <2>1, <2>2, <2>3, <2>4, <1>1, <3>3, OneEntry DEF r, d, e
  <2> QED
    BY <1>2, <2>5, <2>6
<1> QED
  BY <1>7, <1>8 DEF allocuvm_page

\* A user page of directory d is freed.
LEMMA Unmaps ==
  ASSUME MInv, NEW o, Owned(o, freelist, KS, PD, AD, dir, lost), NEW d \in Pages, Holds(o, d),
         NEW v \in Pres(dir[d]), Unmap(d, v), lost' = lost
  PROVE  \E e \in Dirents :
           /\ dir' = [dir EXCEPT ![d] = e] /\ Pres(e) = Pres(dir[d]) \ {v}
           /\ \E o2 \in Owners : Owned(o2, freelist', KS, PD, AD, dir', lost')
<1> DEFINE c == dir[d]
           f == [c.pte EXCEPT ![v] = 0]
           e == [c EXCEPT !.pte = f]
<1>1. dir \in [Pages -> Dirents] /\ c \in Dirents /\ c.pte \in [VPage -> PageOr0]
  BY Leads DEF MInv, Typed, Owned
<1>2. v \in VPage /\ c.pte[v] # 0 /\ 0 \in PageOr0
  BY <1>1, MemoryAssumption DEF Pres, PageOr0
<1>3. freelist' = <<c.pte[v]>> \o freelist /\ dir' = [dir EXCEPT ![d] = e]
  <2>1. freelist' = <<dir[d].pte[v]>> \o freelist /\ dir' = [dir EXCEPT ![d].pte[v] = 0]
    BY DEF Unmap, kfree
  <2>2. [dir EXCEPT ![d].pte[v] = 0] = [dir EXCEPT ![d] = e]
    BY <1>1, <1>2
  <2> QED
    BY <2>1, <2>2
<1>4. f = [c.pte EXCEPT ![v] = 0] /\ e = [c EXCEPT !.pte = f]
  OBVIOUS
<1> HIDE DEF e, f, c
<1>5. e \in Dirents /\ e.tab = c.tab /\ e.pte = f /\ Pres(e) = Pres(c) \ {v}
  <2>1. f \in [VPage -> PageOr0]
    BY <1>1, <1>2, <1>4
  <2>2. e \in Dirents /\ e.tab = c.tab /\ e.pte = f
    BY <1>1, <1>4, <2>1, Entries
  <2>3. PICK x \in PageOr0 : x = 0
    BY <1>2
  <2>4. e.pte = [c.pte EXCEPT ![v] = x]
    BY <1>4, <2>2, <2>3
  <2> QED
    BY <1>1, <1>2, <2>2, <2>3, <2>4, OnePage
<1>6. Loses(dir[d], e, v, c.pte[v])
  BY <1>2, <1>4, <1>5 DEF Loses, c
<1>7. \E o2 \in Owners : Owned(o2, <<c.pte[v]>> \o freelist, KS, PD, AD, [dir EXCEPT ![d] = e], lost)
  BY <1>1, <1>6, GiveFrom, Zenon
<1> QED
  BY <1>3, <1>5, <1>7 DEF c

\* A call that is in deallocuvm: sbrk, or exec after a failure.
LEMMA AtDealloc ==
  ASSUME MInv, NEW p \in Procs, Sub(p, "deallocuvm")
  PROVE  /\ act[p].d # 0 /\ act[p] \in Frames /\ act[p].op # "user" /\ act[p].op \in {"sbrk", "exec"}
         /\ panicked = "no"
         /\ act[p].op = "sbrk" => SbrkOK(act[p], proc[p], Pres(dir[act[p].d])) /\ act[p].d = proc[p].pgdir
         /\ act[p].op = "exec" =>
              ExecOK(act[p], Pres(dir[act[p].d])) /\ Pres(dir[proc[p].pgdir]) = PagesTo(proc[p].sz)
<1>1. act[p] \in Frames /\ act[p].sub = "deallocuvm" /\ proc[p].pgdir # 0
      /\ CallOK(act[p], proc[p], proc[act[p].np], Pres(dir[proc[p].pgdir]), Pres(dir[act[p].d]))
  BY InCall DEF Sub
<1>2. act[p].op # "user" /\ panicked = "no"
  BY DEF Sub
<1>3. CASE act[p].op = "sbrk"
  <2>1. SbrkOK(act[p], proc[p], Pres(dir[proc[p].pgdir]))
    BY <1>1, <1>3 DEF CallOK
  <2>2. act[p].d = proc[p].pgdir
    BY <2>1 DEF SbrkOK
  <2> QED
    BY <1>1, <1>2, <1>3, <2>1, <2>2
<1>4. CASE act[p].op = "exec"
  <2>1. ExecOK(act[p], Pres(dir[act[p].d])) /\ Pres(dir[proc[p].pgdir]) = PagesTo(proc[p].sz)
    BY <1>1, <1>4 DEF CallOK
  <2>2. act[p].d # 0
    BY <1>1, <2>1 DEF ExecOK, Freeing
  <2> QED
    BY <1>1, <1>2, <1>4, <2>1, <2>2
<1> QED
  BY <1>1, <1>3, <1>4 DEF CallOK, ForkOK, WaitOK, Freeing

\* A step of deallocuvm keeps the invariant.
LEMMA StepDealloc ==
  ASSUME MInv, NEW p \in Procs, deallocuvm_page(p)
  PROVE  MInv'
<1> DEFINE r == act[p]
           d == act[p].d
           A == Pres(dir[d])
<1>1. /\ Sub(p, "deallocuvm") /\ proc' = proc /\ panicked' = panicked
  BY DEF deallocuvm_page
<1>2. /\ d # 0 /\ r \in Frames /\ r.op # "user" /\ r.op \in {"sbrk", "exec"} /\ panicked = "no"
      /\ r.op = "sbrk" => SbrkOK(r, proc[p], A) /\ d = proc[p].pgdir
      /\ r.op = "exec" => ExecOK(r, A) /\ Pres(dir[proc[p].pgdir]) = PagesTo(proc[p].sz)
      /\ r.sub = "deallocuvm"
  BY <1>1, AtDealloc DEF Sub
<1>3. PICK o \in Owners : Owned(o, freelist, KS, PD, AD, dir, lost)
  BY DEF MInv, Owning
<1>4. d \in Pages /\ Holds(o, d) /\ dir[d] \in Dirents /\ dir[d].pte \in [VPage -> PageOr0]
  BY <1>2, <1>3, AtDir
<1>5. dir \in [Pages -> Dirents] /\ act \in [Procs -> Frames \cup {User}] /\ r.new \in Nat /\ r.old \in Nat
  BY <1>2 DEF MInv, Typed, Frames
<1>6. A \subseteq VPage
  BY <1>4, NothingPresent
<1>7. Doomed(r) = {v \in A : v \notin PagesTo(r.new) /\ v * PGSIZE < r.old}
  <2>1. Present(r.d) = A
    BY DEF Present, Pres
  <2>2. \A v \in A : v * PGSIZE >= PGROUNDUP(r.new) <=> v \notin PagesTo(r.new)
    BY <1>5, <1>6, Behind
  <2> QED
    BY <2>1, <2>2 DEF Doomed
<1>8. r.op = "sbrk" => /\ PagesTo(r.new) \subseteq A /\ A \subseteq PagesTo(r.old) /\ r.new <= USERTOP
                       /\ r.ret = r.new \/ (r.ret = 0 /\ r.new = proc[p].sz)
                       /\ r.at = "grow"
  BY <1>2 DEF SbrkOK
<1>9. r.op = "exec" => /\ r.at \in {"load", "commit"} /\ r.ret = 0
                       /\ r.at = "load" => r.i \in 1 .. Len(r.prog)
  BY <1>2 DEF ExecOK, Freeing
<1>10. CASE Doomed(r) = {}
  <2> DEFINE r2 == [r EXCEPT !.sub = "none"]
             e == dir[d]
  <2>1. act' = [act EXCEPT ![p] = r2] /\ freelist' = freelist /\ dir' = dir /\ lost' = lost
    BY <1>5, <1>10 DEF deallocuvm_page, memory
  <2>2. dir' = [dir EXCEPT ![d] = e]
    BY <1>4, <1>5, <2>1
  <2>3. /\ r2 \in Frames /\ r2.op = r.op /\ r2.at = r.at /\ r2.np = r.np /\ r2.d = d /\ r2.old = r.old /\ r2.new = r.new
        /\ r2.i = r.i /\ r2.prog = r.prog /\ r2.sub = "none" /\ r2.ret = r.ret
    BY <1>2 DEF Frames, Subs
  <2>4. \E o2 \in Owners : Owned(o2, freelist', KS, PD, AD, dir', lost')
    BY <1>3, <2>1
  <2> HIDE DEF r2
  <2>5. CASE r.op = "sbrk"
    <3>1. A = PagesTo(r.new)
      <4>1. \A v \in A : v * PGSIZE < r.old
        BY <1>8, <2>5 DEF PagesTo
      <4> QED
        BY <1>7, <1>8, <1>10, <2>5, <4>1
    <3>2. SbrkOK(r2, proc[p], A) /\ r2.op = "sbrk" /\ P2(r2, e, Pres(dir[proc[p].pgdir])) = A
      BY <1>2, <1>8, <2>3, <2>5, <3>1 DEF SbrkOK, P2
    <3>3. CallOK(r2, proc[p], proc[r2.np], P2(r2, e, Pres(dir[proc[p].pgdir])), Pres(e))
      BY <3>2 DEF CallOK
    <3> QED
      BY <1>1, <1>2, <1>4, <2>1, <2>2, <2>3, <2>4, <3>3, OneEntry DEF r, d, e
  <2>6. CASE r.op = "exec"
    <3>1. ExecOK(r2, A) /\ r2.op = "exec" /\ P2(r2, e, Pres(dir[proc[p].pgdir])) = PagesTo(proc[p].sz)
      BY <1>2, <1>9, <2>3, <2>6 DEF ExecOK, P2
    <3>3. CallOK(r2, proc[p], proc[r2.np], P2(r2, e, Pres(dir[proc[p].pgdir])), Pres(e))
      BY <3>1 DEF CallOK
    <3> QED
      BY <1>1, <1>2, <1>4, <2>1, <2>2, <2>3, <2>4, <3>3, OneEntry DEF r, d, e
  <2> QED
    BY <1>2, <2>5, <2>6
<1>11. CASE Doomed(r) # {}
  <2> DEFINE v == Lowest(Doomed(r))
  <2>1. v \in Doomed(r)
    <3>1. Doomed(r) \subseteq Nat
      BY <1>6, <1>7, VPageNat
    <3> QED
      BY <1>11, <3>1, LowestIn
  <2>2. v \in A /\ v \notin PagesTo(r.new)
    BY <1>7, <2>1
  <2>3. Unmap(d, v) /\ act' = act /\ lost' = lost
    BY <1>11 DEF deallocuvm_page
  <2> HIDE DEF v
  <2>4. PICK e \in Dirents :
           /\ dir' = [dir EXCEPT ![d] = e] /\ Pres(e) = A \ {v}
           /\ \E o2 \in Owners : Owned(o2, freelist', KS, PD, AD, dir', lost')
    BY <1>3, <1>4, <2>2, <2>3, Unmaps
  <2>5. act' = [act EXCEPT ![p] = r]
    BY <1>5, <2>3
  <2>6. CASE r.op = "sbrk"
    <3>2. SbrkOK(r, proc[p], Pres(e)) /\ P2(r, e, Pres(dir[proc[p].pgdir])) = Pres(e)
      BY <1>2, <1>8, <2>2, <2>4, <2>6 DEF SbrkOK, P2
    <3>3. CallOK(r, proc[p], proc[r.np], P2(r, e, Pres(dir[proc[p].pgdir])), Pres(e))
      BY <2>6, <3>2 DEF CallOK
    <3> QED
      BY <1>1, <1>2, <2>4, <2>5, <3>3, OneEntry
  <2>7. CASE r.op = "exec"
    <3>1. ExecOK(r, Pres(e)) /\ P2(r, e, Pres(dir[proc[p].pgdir])) = PagesTo(proc[p].sz)
      BY <1>2, <1>9, <2>7 DEF ExecOK, P2
    <3>3. CallOK(r, proc[p], proc[r.np], P2(r, e, Pres(dir[proc[p].pgdir])), Pres(e))
      BY <2>7, <3>1 DEF CallOK
    <3> QED
      BY <1>1, <1>2, <2>4, <2>5, <3>3, OneEntry
  <2> QED
    BY <1>2, <2>6, <2>7
<1> QED
  BY <1>10, <1>11

----------------------------------------------------------------------------
(* freevm                                                                  *)

\* freevm goes on, or returns.
Frees(r, r2) ==
  /\ r2 \in Frames /\ Freeing(r2)
  /\ r2.op = r.op /\ r2.at = r.at /\ r2.np = r.np

\* What holds in freevm does not depend on what is still there.
LEMMA AtFree ==
  ASSUME MInv, NEW p \in Procs, Sub(p, "freevm")
  PROVE  /\ act[p].d # 0 /\ act[p] \in Frames /\ act[p] # User /\ act[p].op # "user" /\ act[p].op # "sbrk"
         /\ panicked = "no" /\ Frees(act[p], act[p])
         /\ \A r2, A2 : Frees(act[p], r2) =>
              CallOK(r2, proc[p], proc[r2.np], Pres(dir[proc[p].pgdir]), A2)
<1> DEFINE r == act[p]
           u == proc[p]
           n == proc[act[p].np]
           P == Pres(dir[proc[p].pgdir])
           A == Pres(dir[act[p].d])
<1>1. r \in Frames /\ r # User /\ r.sub = "freevm" /\ panicked = "no" /\ r.op # "user" /\ CallOK(r, u, n, P, A)
  BY InCall DEF Sub
<1> HIDE DEF r, u, n, P, A
<1>2. CASE r.op = "fork"
  <2>1. P = PagesTo(u.sz) /\ ForkOK(r, u, n, A)
    BY <1>1, <1>2 DEF CallOK
  <2>2. r.at = "failed" /\ Freeing(r)
    BY <1>1, <2>1 DEF ForkOK
  <2>3. ASSUME NEW r2, NEW A2, Frees(r, r2) PROVE CallOK(r2, u, n, P, A2)
    <3>1. ForkOK(r2, u, n, A2)
      BY <2>1, <2>2, <2>3 DEF ForkOK, Frees
    <3> QED
      BY <1>2, <2>1, <2>3, <3>1 DEF CallOK, Frees
  <2>4. Frees(r, r) /\ r.d # 0
    BY <1>1, <2>2 DEF Frees, Freeing
  <2> QED
    BY <1>1, <1>2, <2>3, <2>4 DEF r, u, n, P, Frees
<1>3. CASE r.op = "exec"
  <2>1. P = PagesTo(u.sz) /\ ExecOK(r, A)
    BY <1>1, <1>3 DEF CallOK
  <2>2. r.at = "bad" /\ Freeing(r)
    BY <1>1, <2>1 DEF ExecOK
  <2>3. ASSUME NEW r2, NEW A2, Frees(r, r2) PROVE CallOK(r2, u, n, P, A2)
    <3>1. ExecOK(r2, A2)
      BY <2>1, <2>2, <2>3 DEF ExecOK, Frees
    <3> QED
      BY <1>3, <2>1, <2>3, <3>1 DEF CallOK, Frees
  <2>4. Frees(r, r) /\ r.d # 0
    BY <1>1, <2>2 DEF Frees, Freeing
  <2> QED
    BY <1>1, <1>3, <2>3, <2>4 DEF r, u, n, P, Frees
<1>4. CASE r.op = "wait"
  <2>1. P = PagesTo(u.sz) /\ WaitOK(r, n)
    BY <1>1, <1>4 DEF CallOK
  <2>2. r.at = "reap" /\ Freeing(r)
    BY <1>1, <2>1 DEF WaitOK
  <2>3. ASSUME NEW r2, NEW A2, Frees(r, r2) PROVE CallOK(r2, u, n, P, A2)
    <3>1. WaitOK(r2, n)
      BY <2>1, <2>2, <2>3 DEF WaitOK, Frees
    <3> QED
      BY <1>4, <2>1, <2>3, <3>1 DEF CallOK, Frees
  <2>4. Frees(r, r) /\ r.d # 0
    BY <1>1, <2>2 DEF Frees, Freeing
  <2> QED
    BY <1>1, <1>4, <2>3, <2>4 DEF r, u, n, P, Frees
<1> QED
  BY <1>1, <1>2, <1>3, <1>4 DEF CallOK, SbrkOK

\* A step of freevm keeps the invariant.
LEMMA StepFree ==
  ASSUME MInv, NEW p \in Procs, freevm(p)
  PROVE  MInv'
<1> DEFINE r == act[p]
           d == act[p].d
           t == dir[act[p].d].tab
           P == Pres(dir[proc[p].pgdir])
<1>1. /\ Sub(p, "freevm") /\ proc' = proc /\ panicked' = panicked /\ lost' = lost
  BY DEF freevm
<1>2. /\ d # 0 /\ r \in Frames /\ r # User /\ r.op # "user" /\ r.op # "sbrk" /\ panicked = "no" /\ Frees(r, r)
      /\ r.sub = "freevm"
  BY <1>1, AtFree DEF Sub
<1>a. \A r2, A2 : Frees(r, r2) => CallOK(r2, proc[p], proc[r2.np], P, A2)
  BY <1>1, AtFree
<1>3. PICK o \in Owners : Owned(o, freelist, KS, PD, AD, dir, lost)
  BY DEF MInv, Owning
<1>4. /\ d \in Pages /\ Holds(o, d) /\ Mine(o, d, p) /\ dir[d] \in Dirents /\ dir[d].pte \in [VPage -> PageOr0]
      /\ AD[p] = d /\ proc[p].pgdir # d /\ proc[p].pgdir \in Pages
  BY <1>2, <1>3, AtDir
<1>5. dir \in [Pages -> Dirents] /\ act \in [Procs -> Frames \cup {User}]
  BY DEF MInv, Typed
<1>6. Present(d) = Pres(dir[d]) /\ Pres(dir[d]) \subseteq VPage
  BY <1>4, NothingPresent DEF Present, Pres
<1>7. act' = act => act' = [act EXCEPT ![p] = r]
  BY <1>5
<1>8. ASSUME NEW e PROVE P2(r, e, P) = P /\ CallOK(r, proc[p], proc[r.np], P, Pres(e))
  BY <1>2, <1>a DEF P2
<1>9. CASE Present(d) # {} /\ Unmap(d, Lowest(Present(d))) /\ act' = act
  <2> DEFINE v == Lowest(Present(d))
  <2>1. v \in Pres(dir[d]) /\ Unmap(d, v)
    BY <1>6, <1>9, VPageNat, LowestIn
  <2> HIDE DEF v
  <2>2. PICK e \in Dirents :
           /\ dir' = [dir EXCEPT ![d] = e] /\ Pres(e) = Pres(dir[d]) \ {v}
           /\ \E o2 \in Owners : Owned(o2, freelist', KS, PD, AD, dir', lost')
    BY <1>1, <1>3, <1>4, <2>1, Unmaps
  <2>3. CallOK(r, proc[p], proc[r.np], P2(r, e, P), Pres(e))
    BY <1>8
  <2> QED
    BY <1>1, <1>2, <1>7, <1>9, <2>2, <2>3, OneEntry
<1>10. CASE Present(d) = {} /\ t # <<>> /\ kfree(Head(t)) /\ dir' = [dir EXCEPT ![d].tab = Tail(t)] /\ act' = act
  <2> DEFINE e == [dir[d] EXCEPT !.tab = Tail(t)]
  <2>1. dir' = [dir EXCEPT ![d] = e] /\ freelist' = <<Head(t)>> \o freelist
    BY <1>4, <1>5, <1>10 DEF kfree
  <2>2. e \in Dirents /\ e.tab = Tail(t) /\ e.pte = dir[d].pte
    <3>1. Tail(t) \in Seq(Pages)
      BY <1>4, <1>10, Entries
    <3> QED
      BY <1>4, <3>1, Entries
  <2> HIDE DEF e, d, r
  <2>3. Loses(dir[d], e, 0, Head(t))
    BY <1>10, <2>2 DEF Loses, d
  <2>4. \E o2 \in Owners : Owned(o2, <<Head(t)>> \o freelist, KS, PD, AD, [dir EXCEPT ![d] = e], lost)
    <3> HIDE DEF t
    <3> QED
      BY <1>3, <1>4, <1>5, <2>3, GiveFrom, Zenon
  <2>5. \E o2 \in Owners : Owned(o2, freelist', KS, PD, AD, dir', lost')
    BY <1>1, <2>1, <2>4
  <2>6. CallOK(r, proc[p], proc[r.np], P2(r, e, P), Pres(e))
    BY <1>8
  <2> QED
    BY <1>1, <1>2, <1>7, <1>10, <2>1, <2>2, <2>5, <2>6, OneEntry DEF r, d
<1>11. CASE /\ Present(d) = {} /\ t = <<>> /\ kfree(d) /\ dir' = [dir EXCEPT ![d] = NoDir]
            /\ act' = [act EXCEPT ![p].sub = "none", ![p].d = 0]
  <2> DEFINE r2 == [r EXCEPT !.sub = "none", !.d = 0]
  <2>1. act' = [act EXCEPT ![p] = r2] /\ freelist' = <<d>> \o freelist
    BY <1>5, <1>11 DEF kfree
  <2>2. r2 \in Frames /\ r2.op = r.op /\ r2.at = r.at /\ r2.np = r.np /\ r2.d = 0 /\ r2.sub = "none"
    <3>1. 0 \in PageOr0
      BY MemoryAssumption DEF PageOr0
    <3> QED
      BY <1>2, <3>1 DEF Frames, Subs
  <2>3. NoDir \in Dirents
    BY DEF NoDir, Dirents
  <2> HIDE DEF r2, r, d
  <2>4. Frees(r, r2) /\ r2 # User
    BY <2>2 DEF Frees, Freeing, Frames, User
  <2>5. dir' \in [Pages -> Dirents] /\ \A c \in Pages : c # d => dir'[c] = dir[c]
    BY <1>4, <1>5, <1>11, <2>3, Entry
  <2>6. Keeps(act[p], r2) /\ Own(r2) = 0
    BY <1>2, <2>2, <2>4 DEF Keeps, Own, Private, r
  <2>7. KS' = KS /\ PD' = PD /\ AD' = [AD EXCEPT ![p] = 0]
    BY <1>1, <2>1, <2>6, KeepsNames DEF MInv
  <2>8. \E o2 \in Owners : Owned(o2, <<d>> \o freelist, KS, PD, [AD EXCEPT ![p] = 0], [dir EXCEPT ![d] = NoDir], lost)
    <3>1. dir[d].tab = <<>>
      BY <1>11 DEF d
    <3>2. \A v \in VPage : dir[d].pte[v] = 0
      BY <1>4, <1>6, <1>11, NothingPresent
    <3> QED
      BY <1>2, <1>3, <1>4, <1>5, <3>1, <3>2, GiveDir, Zenon
  <2>9. Owning'
    BY <1>1, <1>11, <2>1, <2>7, <2>8 DEF Owning
  <2>10. ProcOK(r2, proc[p], proc[r2.np], Pres(dir'[proc[p].pgdir]), Pres(dir'[r2.d]), Reaped(p))
    <3>1. dir'[proc[p].pgdir] = dir[proc[p].pgdir]
      BY <1>4, <2>5
    <3>2. CallOK(r2, proc[p], proc[r2.np], Pres(dir'[proc[p].pgdir]), Pres(dir'[r2.d]))
      BY <1>a, <2>4, <3>1
    <3>3. /\ proc[p].state = "RUNNABLE" /\ proc[p].kstack # 0 /\ proc[p].pgdir # 0
          /\ ~Reaped(p) /\ proc[p].sz <= USERTOP
      BY <1>2, InCall DEF r
    <3> QED
      BY <2>4, <3>2, <3>3, GoesOn
  <2> QED
    BY <1>1, <1>2, <1>3, <1>4, <2>1, <2>2, <2>5, <2>6, <2>9, <2>10, KeepsRest
<1> QED
  BY <1>9, <1>10, <1>11 DEF freevm

----------------------------------------------------------------------------
(* Calls begin, go on and end without a change to pages.                   *)

\* The slot that fork and wait work on.
LEMMA Slot ==
  ASSUME MInv, NEW q \in Procs, act[q].op \in {"fork", "wait"}
  PROVE  /\ act[q].np \in Procs /\ act[q] # User
         /\ act[q].op = "fork" => proc[act[q].np].state = "EMBRYO"
         /\ act[q].op = "wait" => proc[act[q].np].state = "ZOMBIE" /\ Reaped(act[q].np)
<1>1. CallOK(act[q], proc[q], proc[act[q].np], Pres(dir[proc[q].pgdir]), Pres(dir[act[q].d])) /\ act[q] # User
  BY InCall
<1> QED
  BY <1>1 DEF CallOK, ForkOK, WaitOK, Reaped

\* A step of p that changes no page, and of its slot no more than the image.
LEMMA OwnSlot ==
  ASSUME MInv, NEW p \in Procs, NEW r2 \in Frames \cup {User}, act' = [act EXCEPT ![p] = r2],
         Keeps(act[p], r2), NEW u2 \in ProcRecs, proc' = [proc EXCEPT ![p] = u2],
         u2.state = proc[p].state, u2.kstack = proc[p].kstack, dir' = dir, panicked' = "no", Owning',
         ProcOK(r2, u2, proc'[r2.np], Pres(dir[u2.pgdir]), Pres(dir[r2.d]), Reaped(p))
  PROVE  MInv'
<1>1. act'[p] = r2 /\ \A q \in Procs : q # p => act'[q] = act[q]
  BY DEF Typed, MInv
<1>2. proc'[p] = u2 /\ \A q \in Procs : q # p => proc'[q] = proc[q]
  BY DEF Typed, MInv
<1>3. \A q \in Procs : Reaped(q)' <=> Reaped(q)
  BY KeepsReaped DEF MInv
<1>4. Typed'
  BY DEF Typed, MInv
<1>5. ASSUME NEW q \in Procs
      PROVE ProcOK(act[q], proc[q], proc[act[q].np], Pres(dir[proc[q].pgdir]), Pres(dir[act[q].d]), Reaped(q))'
  <2>1. CASE q = p
    BY <1>1, <1>2, <1>3, <2>1 DEF ProcOK
  <2>2. CASE q # p
    <3>1. Alike(proc[q], proc'[q])
      BY <1>2, <2>2 DEF Alike
    <3>2. act[q].op \in {"fork", "wait"} =>
            proc'[act[q].np].state = proc[act[q].np].state /\ proc'[act[q].np].kstack = proc[act[q].np].kstack
      BY <1>2, Slot
    <3> QED
      BY <1>1, <1>3, <2>2, <3>1, <3>2, Others
  <2> QED
    BY <2>1, <2>2
<1>6. Sane'
  BY <1>5 DEF Sane
<1>7. Alone'
  <2>1. \A q \in Procs : act'[q].op \in {"fork", "wait"} => act'[q].op = act[q].op /\ act'[q].np = act[q].np
    BY <1>1 DEF Keeps
  <2>2. \A q \in Procs : act[q].op \in {"fork", "wait"} => act[q] # User
    BY DEF User
  <2> QED
    BY <2>1, <2>2 DEF Alone, MInv
<1> QED
  BY <1>4, <1>6, <1>7 DEF MInv

\* A step that changes no more than p's call.
LEMMA CallOnly ==
  ASSUME MInv, NEW p \in Procs, NEW r2 \in Frames \cup {User}, act' = [act EXCEPT ![p] = r2],
         Keeps(act[p], r2), Own(r2) = Own(act[p]), proc' = proc, panicked' = panicked,
         freelist' = freelist, dir' = dir, lost' = lost,
         ProcOK(r2, proc[p], proc[r2.np], Pres(dir[proc[p].pgdir]), Pres(dir[r2.d]), Reaped(p))
  PROVE  MInv'
<1>1. KS' = KS /\ PD' = PD /\ AD' = AD
  <2>1. KS' = KS /\ PD' = PD /\ AD' = [AD EXCEPT ![p] = Own(r2)]
    BY KeepsNames DEF MInv
  <2> QED
    BY <2>1, Names DEF MInv
<1>2. Owning'
  BY <1>1 DEF Owning, MInv
<1>3. proc' = [proc EXCEPT ![p] = proc[p]] /\ proc[p] \in ProcRecs /\ panicked' = "no"
  BY DEF MInv, Typed
<1> QED
  BY <1>2, <1>3, OwnSlot

\* allocuvm, for a directory with the pages up to old.
LEMMA Allocates ==
  ASSUME NEW r \in Frames, r.sub = "none", NEW old \in Nat, NEW new \in Nat, old <= USERTOP,
         NEW A, A = PagesTo(old), NEW r2, r2 = allocuvm(r, old, new)
  PROVE  /\ r2 \in Frames /\ r2.op = r.op /\ r2.at = r.at /\ r2.d = r.d /\ r2.np = r.np /\ r2.i = r.i
         /\ r2.prog = r.prog /\ r2.sz = r.sz
         /\ \/ r2.sub = "none" /\ r2.ret = 0
            \/ r2.sub = "none" /\ r2.ret <= USERTOP /\ A = PagesTo(r2.ret)
            \/ r2.sub = "allocuvm" /\ Growing(r2, A) /\ r2.old = old
<1>0. USERTOP \in Nat /\ PGROUNDUP(old) \in Nat /\ old <= PGROUNDUP(old) /\ Aligned(PGROUNDUP(old))
  BY MemoryAssumption, RoundUp DEF USERTOP
<1>1. CASE new > USERTOP
  <2>1. r2 = [r EXCEPT !.ret = 0]
    BY <1>1 DEF allocuvm
  <2> QED
    BY <2>1 DEF Frames
<1>2. CASE ~(new > USERTOP) /\ (new < old \/ PGROUNDUP(old) >= new)
  <2> DEFINE x == IF new < old THEN old ELSE new
  <2>1. r2 = [r EXCEPT !.ret = x]
    BY <1>2 DEF allocuvm
  <2>2. x \in Nat /\ x <= USERTOP
    BY <1>0, <1>2
  <2>3. PagesTo(old) = PagesTo(x)
    <3>1. CASE new < old
      BY <3>1
    <3>2. CASE ~(new < old)
      BY <1>0, <1>2, <3>2, SamePages
    <3> QED
      BY <3>1, <3>2
  <2> HIDE DEF x
  <2>4. /\ r2 \in Frames /\ r2.op = r.op /\ r2.at = r.at /\ r2.d = r.d /\ r2.np = r.np /\ r2.i = r.i
        /\ r2.prog = r.prog /\ r2.sz = r.sz /\ r2.sub = "none" /\ r2.ret = x
    BY <2>1, <2>2 DEF Frames
  <2> QED
    BY <2>2, <2>3, <2>4
<1>3. CASE ~(new > USERTOP) /\ ~(new < old \/ PGROUNDUP(old) >= new)
  <2> DEFINE x == PGROUNDUP(old)
  <2>1. r2 = [r EXCEPT !.sub = "allocuvm", !.old = old, !.new = new, !.a = x]
    BY <1>3 DEF allocuvm
  <2>2. x \in Nat /\ x < new /\ new <= USERTOP /\ Aligned(x)
    BY <1>0, <1>3
  <2>3. PagesTo(old) = PagesTo(x)
    BY <1>0, SamePages
  <2>a. x <= x
    BY <1>0
  <2>5. x = PGROUNDUP(old)
    OBVIOUS
  <2> HIDE DEF x
  <2>4. /\ r2 \in Frames /\ r2.op = r.op /\ r2.at = r.at /\ r2.d = r.d /\ r2.np = r.np /\ r2.i = r.i
        /\ r2.prog = r.prog /\ r2.sz = r.sz /\ r2.sub = "allocuvm" /\ r2.old = old /\ r2.new = new /\ r2.a = x
    BY <2>1, <2>2 DEF Frames, Subs
  <2> QED
    BY <2>a, <2>2, <2>3, <2>4, <2>5 DEF Growing
<1> QED
  BY <1>1, <1>2, <1>3

----------------------------------------------------------------------------
(* sbrk                                                                    *)

\* A process that may make a call.
LEMMA AtUser ==
  ASSUME MInv, NEW p \in Procs, Runs(p)
  PROVE  /\ act[p] = User /\ proc[p] \in ProcRecs /\ proc[p].state = "RUNNABLE" /\ proc[p].kstack # 0
         /\ proc[p].pgdir # 0 /\ ~Reaped(p) /\ proc[p].sz <= USERTOP /\ panicked = "no"
         /\ Pres(dir[proc[p].pgdir]) = PagesTo(proc[p].sz) /\ PD[p] = proc[p].pgdir /\ AD[p] = 0
<1>1. act[p] = User /\ proc[p].state = "RUNNABLE" /\ panicked = "no" /\ Present(proc[p].pgdir) # {}
  BY DEF Runs
<1>2. Pres(dir[proc[p].pgdir]) = Present(proc[p].pgdir)
  BY DEF Pres, Present
<1>3. ProcOK(act[p], proc[p], proc[act[p].np], Pres(dir[proc[p].pgdir]), Pres(dir[act[p].d]), Reaped(p))
  BY DEF MInv, Sane
<1>4. /\ proc[p].kstack # 0 /\ proc[p].pgdir # 0 /\ ~Reaped(p) /\ proc[p].sz <= USERTOP
      /\ Pres(dir[proc[p].pgdir]) = PagesTo(proc[p].sz)
  BY <1>1, <1>2, <1>3 DEF ProcOK
<1>5. PD[p] = proc[p].pgdir /\ AD[p] = 0
  BY <1>1, <1>4, Names DEF MInv, Own, Private
<1> QED
  BY <1>1, <1>4, <1>5 DEF MInv, Typed

\* The frame that a call begins with.
LEMMA Begins ==
  ASSUME NEW op \in {"sbrk", "fork", "exec", "wait"}, NEW at \in Ats, NEW sub \in Subs, NEW d \in PageOr0,
         NEW r, r = Frame(op, at, sub, d)
  PROVE  /\ r \in Frames /\ r.op = op /\ r.at = at /\ r.sub = sub /\ r.d = d /\ r.a = 0 /\ r.ret = 0
         /\ r.sz = 0 /\ r.i = 1 /\ r.prog = <<>> /\ r # User
<1>1. r \in Frames
  BY DEF Frame, Frames
<1>2. r # User
  BY <1>1 DEF Frames, User
<1> QED
  BY <1>1, <1>2 DEF Frame

\* sys_sbrk and growproc called by it keep the invariant.
LEMMA StepSbrk ==
  ASSUME MInv, NEW p \in Procs, NEW k \in SbrkBy, Sbrk(p, k)
  PROVE  MInv'
<1> DEFINE sz == proc[p].sz
           new == (proc[p].sz + k) % WORD
           r == Frame("sbrk", "grow", "none", proc[p].pgdir)
           P == Pres(dir[proc[p].pgdir])
<1>1. /\ Runs(p) /\ proc' = proc /\ panicked' = panicked /\ freelist' = freelist /\ dir' = dir /\ lost' = lost
      /\ act' = [act EXCEPT ![p] =
                   IF k >= 0 THEN allocuvm(r, sz, new)
                   ELSE IF new >= sz THEN [r EXCEPT !.ret = sz]
                   ELSE [r EXCEPT !.sub = "deallocuvm", !.old = sz, !.new = new, !.ret = new]]
  BY DEF Sbrk, memory
<1>2. /\ act[p] = User /\ proc[p] \in ProcRecs /\ proc[p].state = "RUNNABLE" /\ proc[p].kstack # 0
      /\ proc[p].pgdir # 0 /\ ~Reaped(p) /\ proc[p].sz <= USERTOP /\ P = PagesTo(sz)
  BY <1>1, AtUser
<1>3. sz \in Nat /\ proc[p].pgdir \in PageOr0
  BY <1>2 DEF ProcRecs
<1>4. k \in Int /\ WORD \in Nat /\ WORD > 0 /\ USERTOP \in Nat
  <2>1. USERTOP \in Nat
    BY MemoryAssumption DEF USERTOP
  <2> QED
    BY <2>1, MemoryAssumption
<1>5. new \in Nat
  BY <1>3, <1>4
<1>6. /\ r \in Frames /\ r.op = "sbrk" /\ r.at = "grow" /\ r.sub = "none" /\ r.d = proc[p].pgdir
      /\ r.ret = 0
  <2>1. r = Frame("sbrk", "grow", "none", proc[p].pgdir)
    OBVIOUS
  <2>2. PICK s \in Subs, at \in Ats, op \in {"sbrk", "fork", "exec", "wait"} :
          s = "none" /\ at = "grow" /\ op = "sbrk"
    BY DEF Subs, Ats
  <2> HIDE DEF r
  <2>3. r = Frame(op, at, s, proc[p].pgdir)
    BY <2>1, <2>2
  <2> QED
    BY <1>3, <2>2, <2>3, Begins
<1> HIDE DEF new, r, sz, P
<1>7. \E r2 \in Frames : /\ act' = [act EXCEPT ![p] = r2] /\ SbrkOK(r2, proc[p], P) /\ r2.op = "sbrk"
                         /\ r2.d = proc[p].pgdir
  <2>1. CASE k >= 0
    <3> DEFINE r2 == allocuvm(r, sz, new)
    <3>1. act' = [act EXCEPT ![p] = r2] /\ r2 = allocuvm(r, sz, new)
      BY <1>1, <2>1
    <3>2. sz <= USERTOP
      BY <1>2 DEF sz
    <3> HIDE DEF r2
    <3>3. /\ r2 \in Frames /\ r2.op = r.op /\ r2.at = r.at /\ r2.d = r.d
          /\ \/ r2.sub = "none" /\ r2.ret = 0
             \/ r2.sub = "none" /\ r2.ret <= USERTOP /\ P = PagesTo(r2.ret)
             \/ r2.sub = "allocuvm" /\ Growing(r2, P) /\ r2.old = sz
      BY <1>2, <1>3, <1>5, <1>6, <3>1, <3>2, Allocates
    <3>4. SbrkOK(r2, proc[p], P)
      BY <1>2, <1>6, <3>3 DEF SbrkOK, sz
    <3> QED
      BY <1>6, <3>1, <3>3, <3>4
  <2>2. CASE ~(k >= 0) /\ new >= sz
    <3> DEFINE r2 == [r EXCEPT !.ret = sz]
    <3>1. act' = [act EXCEPT ![p] = r2]
      BY <1>1, <2>2
    <3>2. r2 \in Frames /\ r2.op = r.op /\ r2.at = r.at /\ r2.d = r.d /\ r2.sub = "none" /\ r2.ret = sz
      BY <1>3, <1>6 DEF Frames
    <3> HIDE DEF r2
    <3>4. SbrkOK(r2, proc[p], P)
      BY <1>2, <1>6, <3>2 DEF SbrkOK, sz
    <3> QED
      BY <1>6, <3>1, <3>2, <3>4
  <2>3. CASE ~(k >= 0) /\ ~(new >= sz)
    <3> DEFINE r2 == [r EXCEPT !.sub = "deallocuvm", !.old = sz, !.new = new, !.ret = new]
    <3>1. act' = [act EXCEPT ![p] = r2]
      BY <1>1, <2>3
    <3>2. /\ r2 \in Frames /\ r2.op = r.op /\ r2.at = r.at /\ r2.d = r.d /\ r2.sub = "deallocuvm"
          /\ r2.old = sz /\ r2.new = new /\ r2.ret = new
      BY <1>3, <1>5, <1>6 DEF Frames, Subs
    <3> HIDE DEF r2
    <3>3. PagesTo(new) \subseteq P /\ P \subseteq PagesTo(sz) /\ new <= USERTOP
      <4>1. new <= sz /\ sz <= USERTOP
        BY <1>2, <1>3, <1>5, <2>3 DEF sz
      <4> QED
        BY <1>2, <1>3, <1>4, <1>5, <4>1, MorePages
    <3>4. SbrkOK(r2, proc[p], P)
      BY <1>6, <3>2, <3>3 DEF SbrkOK
    <3> QED
      BY <1>6, <3>1, <3>2, <3>4
  <2> QED
    BY <2>1, <2>2, <2>3
<1>8. PICK r2 \in Frames : /\ act' = [act EXCEPT ![p] = r2] /\ SbrkOK(r2, proc[p], P) /\ r2.op = "sbrk"
                           /\ r2.d = proc[p].pgdir
  BY <1>7
<1>9. r2 # User /\ Keeps(act[p], r2) /\ Own(r2) = Own(act[p])
  <2>1. r2 # User /\ User.op = "user"
    BY <1>8 DEF User
  <2> QED
    BY <1>2, <1>8, <2>1 DEF Keeps, Own, Private
<1>10. ProcOK(r2, proc[p], proc[r2.np], Pres(dir[proc[p].pgdir]), Pres(dir[r2.d]), Reaped(p))
  <2>1. CallOK(r2, proc[p], proc[r2.np], Pres(dir[proc[p].pgdir]), Pres(dir[r2.d]))
    BY <1>8 DEF CallOK, P
  <2> QED
    BY <1>2, <1>9, <2>1, GoesOn
<1> QED
  BY <1>1, <1>8, <1>9, <1>10, CallOnly

\* The return of growproc keeps the invariant.
LEMMA StepGrowproc ==
  ASSUME MInv, NEW p \in Procs, growproc_return(p)
  PROVE  MInv'
<1> DEFINE r == act[p]
           sz2 == IF act[p].ret = 0 THEN proc[p].sz ELSE act[p].ret
           u2 == [proc[p] EXCEPT !.sz = sz2]
           P == Pres(dir[proc[p].pgdir])
<1>1. /\ r.op = "sbrk" /\ r.at = "grow" /\ r.sub = "none" /\ panicked = "no" /\ act' = [act EXCEPT ![p] = User]
      /\ proc' = [proc EXCEPT ![p].sz = IF r.ret = 0 THEN @ ELSE r.ret]
      /\ freelist' = freelist /\ dir' = dir /\ lost' = lost /\ panicked' = panicked
  BY DEF growproc_return, In, Return, memory
<1>2. /\ r \in Frames /\ r # User /\ proc[p] \in ProcRecs /\ proc[p].state = "RUNNABLE"
      /\ proc[p].kstack # 0 /\ proc[p].pgdir # 0 /\ PD[p] = proc[p].pgdir /\ ~Reaped(p) /\ proc[p].sz <= USERTOP
      /\ CallOK(r, proc[p], proc[r.np], P, Pres(dir[r.d]))
  BY <1>1, InCall
<1>3. proc \in [Procs -> ProcRecs] /\ act \in [Procs -> Frames \cup {User}]
  BY DEF MInv, Typed
<1>4. proc' = [proc EXCEPT ![p] = u2]
  BY <1>1, <1>3
<1>5. sz2 \in Nat
  BY <1>2 DEF Frames, ProcRecs
<1>6. SbrkOK(r, proc[p], P)
  BY <1>1, <1>2 DEF CallOK
<1>7. sz2 <= USERTOP /\ (P = PagesTo(sz2) \/ P = {})
  <2>1. \/ r.ret = 0 /\ (P = PagesTo(proc[p].sz) \/ P = {})
        \/ r.ret <= USERTOP /\ P = PagesTo(r.ret)
    BY <1>1, <1>6 DEF SbrkOK
  <2>2. CASE r.ret = 0
    BY <1>2, <2>1, <2>2, NoPages
  <2>3. CASE r.ret # 0
    BY <2>1, <2>3
  <2> QED
    BY <2>2, <2>3
<1> HIDE DEF sz2
<1>8. /\ u2 \in ProcRecs /\ u2.state = proc[p].state /\ u2.kstack = proc[p].kstack /\ u2.pgdir = proc[p].pgdir
      /\ u2.sz = sz2
  BY <1>2, <1>5 DEF ProcRecs
<1> HIDE DEF u2
<1>9. ProcOK(User, u2, proc'[User.np], Pres(dir[u2.pgdir]), Pres(dir[User.d]), Reaped(p))
  BY <1>2, <1>7, <1>8 DEF ProcOK
<1>10. Keeps(act[p], User) /\ Own(User) = Own(act[p])
  <2>1. User.op = "user"
    BY DEF User
  <2> QED
    BY <1>1, <2>1 DEF Keeps, Own, Private
<1>11. Owning'
  <2>1. proc'[p] = u2 /\ \A q \in Procs : q # p => proc'[q] = proc[q]
    BY <1>3, <1>4
  <2>2. act'[p] = User /\ \A q \in Procs : q # p => act'[q] = act[q]
    BY <1>1, <1>3
  <2>3. \A q \in Procs : Reaped(q)' <=> Reaped(q)
    BY <1>1, <1>10, KeepsReaped DEF MInv
  <2>4. KS' = KS
    BY <1>8, <2>1 DEF KS
  <2>5. PD' = PD
    BY <1>8, <2>1, <2>3 DEF PD
  <2>6. AD' = AD
    <3>1. \A q \in Procs : Own(act'[q]) = Own(act[q])
      BY <1>10, <2>2
    <3> QED
      BY <3>1 DEF AD
  <2> QED
    BY <1>1, <2>4, <2>5, <2>6 DEF Owning, MInv
<1> QED
  BY <1>1, <1>4, <1>8, <1>9, <1>10, <1>11, OwnSlot

----------------------------------------------------------------------------
(* fork                                                                    *)

\* Calls that nobody begins do not collide.
LEMMA AloneKept ==
  ASSUME MInv, NEW p \in Procs, NEW r2, act' = [act EXCEPT ![p] = r2],
         r2.op \in {"fork", "wait"} => r2.op = act[p].op /\ r2.np = act[p].np
  PROVE  Alone'
<1>1. act'[p] = r2 /\ \A q \in Procs : q # p => act'[q] = act[q]
  BY DEF Typed, MInv
<1>2. \A q \in Procs : act'[q].op \in {"fork", "wait"} => act'[q].op = act[q].op /\ act'[q].np = act[q].np
  BY <1>1
<1>3. \A q \in Procs : act[q].op \in {"fork", "wait"} => act[q] # User
  BY DEF User
<1> QED
  BY <1>2, <1>3 DEF Alone, MInv

\* Nobody but p works on slot z.
Only(p, z) == \A q \in Procs : q # p /\ act[q].op \in {"fork", "wait"} => act[q].np # z

\* Slot z becomes u2 and is in no call; whoever else is reaped still is.
Fits(z, u2)   == \A n, A : ProcOK(User, u2, n, Pres(dir[u2.pgdir]), A, Reaped(z)')
ReapedBut(z)  == \A q \in Procs : q # z => (Reaped(q)' <=> Reaped(q))

\* What makes a slot that is in no call fit.
LEMMA Fitting ==
  ASSUME NEW z, NEW u2, u2.sz <= USERTOP, u2.state = "UNUSED" => u2.kstack = 0 /\ u2.pgdir = 0,
         u2.state = "EMBRYO" => u2.pgdir = 0,
         u2.state = "RUNNABLE" =>
           /\ u2.kstack # 0 /\ u2.pgdir # 0
           /\ Pres(dir[u2.pgdir]) = PagesTo(u2.sz) \/ Pres(dir[u2.pgdir]) = {},
         Reaped(z)' <=> u2.state = "ZOMBIE"
  PROVE  Fits(z, u2)
<1>1. ASSUME NEW n, NEW A PROVE ProcOK(User, u2, n, Pres(dir[u2.pgdir]), A, Reaped(z)')
  BY DEF ProcOK
<1> QED
  BY <1>1 DEF Fits

\* A step of p changes slot z, which is in no call, and no page directory.
LEMMA SlotStep ==
  ASSUME MInv, NEW p \in Procs, NEW z \in Procs, z # p, Only(p, z), act[z] = User,
         NEW r2 \in Frames \cup {User}, act' = [act EXCEPT ![p] = r2],
         NEW u2 \in ProcRecs, proc' = [proc EXCEPT ![z] = u2], dir' = dir, panicked' = "no",
         ReapedBut(z),
         ProcOK(r2, proc[p], proc'[r2.np], Pres(dir[proc[p].pgdir]), Pres(dir[r2.d]), Reaped(p)),
         Fits(z, u2), Alone', Owning'
  PROVE  MInv'
<1>1. act'[p] = r2 /\ \A q \in Procs : q # p => act'[q] = act[q]
  BY DEF Typed, MInv
<1>2. proc'[z] = u2 /\ \A q \in Procs : q # z => proc'[q] = proc[q]
  BY DEF Typed, MInv
<1>3. Typed'
  BY DEF Typed, MInv
<1>4. ASSUME NEW q \in Procs
      PROVE ProcOK(act[q], proc[q], proc[act[q].np], Pres(dir[proc[q].pgdir]), Pres(dir[act[q].d]), Reaped(q))'
  <2>1. CASE q = p
    BY <1>1, <1>2, <2>1 DEF ProcOK, ReapedBut
  <2>2. CASE q = z
    <3>1. act'[q] = User /\ proc'[q] = u2
      BY <1>1, <1>2, <2>2
    <3>2. ProcOK(User, u2, proc'[act'[q].np], Pres(dir'[proc'[q].pgdir]), Pres(dir'[act'[q].d]), Reaped(z)')
      BY <3>1 DEF Fits
    <3> QED
      BY <2>2, <3>1, <3>2
  <2>3. CASE q # p /\ q # z
    <3>1. Alike(proc[q], proc'[q])
      BY <1>2, <2>3 DEF Alike
    <3>2. act[q].op \in {"fork", "wait"} =>
            proc'[act[q].np].state = proc[act[q].np].state /\ proc'[act[q].np].kstack = proc[act[q].np].kstack
      BY <1>2, <2>3, Slot DEF Only
    <3> QED
      BY <1>1, <2>3, <3>1, <3>2, Others DEF ReapedBut
  <2> QED
    BY <2>1, <2>2, <2>3
<1>5. Sane'
  BY <1>4 DEF Sane
<1> QED
  BY <1>3, <1>5 DEF MInv

\* The owners after such a step.
LEMMA SlotStacks ==
  ASSUME MInv, NEW z \in Procs, NEW u2, proc' = [proc EXCEPT ![z] = u2]
  PROVE  KS' = [KS EXCEPT ![z] = u2.kstack]
<1>1. proc'[z] = u2 /\ \A q \in Procs : q # z => proc'[q] = proc[q]
  BY DEF Typed, MInv
<1>2. KS' = [q \in Procs |-> proc'[q].kstack]
  BY DEF KS
<1>3. [KS EXCEPT ![z] = u2.kstack] = [q \in Procs |-> IF q = z THEN u2.kstack ELSE proc[q].kstack]
  BY DEF KS
<1>4. \A q \in Procs : proc'[q].kstack = IF q = z THEN u2.kstack ELSE proc[q].kstack
  BY <1>1
<1> QED
  BY <1>2, <1>3, <1>4

\* The directory of slot z is x when its process is not being reaped.
NewDir(z, u2, x) == (Reaped(z)' => x = 0) /\ (~Reaped(z)' => x = u2.pgdir)

\* The directories of the processes after a step that changes slot z.
LEMMA SlotDirs ==
  ASSUME MInv, NEW z \in Procs, NEW u2, proc' = [proc EXCEPT ![z] = u2], ReapedBut(z), NEW x, NewDir(z, u2, x)
  PROVE  PD' = [PD EXCEPT ![z] = x]
<1>1. proc'[z] = u2 /\ \A q \in Procs : q # z => proc'[q] = proc[q]
  BY DEF Typed, MInv
<1> DEFINE F(q) == IF Reaped(q) THEN 0 ELSE proc[q].pgdir
           G(q) == IF Reaped(q)' THEN 0 ELSE proc'[q].pgdir
<1>2. PD' = [q \in Procs |-> G(q)] /\ PD = [q \in Procs |-> F(q)]
  BY DEF PD
<1>3. G(z) = x /\ \A q \in Procs : q # z => G(q) = F(q)
  BY <1>1 DEF ReapedBut, NewDir
<1> HIDE DEF F, G
<1> QED
  BY <1>2, <1>3

\* The directories of the calls after a step of p.
LEMMA CallDirs ==
  ASSUME MInv, NEW p \in Procs, NEW r2, act' = [act EXCEPT ![p] = r2]
  PROVE  AD' = [AD EXCEPT ![p] = Own(r2)]
<1>1. act'[p] = r2 /\ \A q \in Procs : q # p => act'[q] = act[q]
  BY DEF Typed, MInv
<1>2. AD' = [q \in Procs |-> Own(act'[q])]
  BY DEF AD
<1>3. [AD EXCEPT ![p] = Own(r2)] = [q \in Procs |-> IF q = p THEN Own(r2) ELSE Own(act[q])]
  BY DEF AD
<1>4. \A q \in Procs : Own(act'[q]) = IF q = p THEN Own(r2) ELSE Own(act[q])
  BY <1>1
<1> QED
  BY <1>2, <1>3, <1>4

\* Nothing changes for who is reaped unless wait begins or ends.
LEMMA ReapedKept ==
  ASSUME MInv, NEW p \in Procs, NEW r2, act' = [act EXCEPT ![p] = r2], act[p].op # "wait", r2.op # "wait"
  PROVE  \A q \in Procs : Reaped(q)' <=> Reaped(q)
<1>1. act'[p] = r2 /\ \A q \in Procs : q # p => act'[q] = act[q]
  BY DEF Typed, MInv
<1> QED
  BY <1>1 DEF Reaped

\* A slot that is not RUNNABLE is in no call; only a zombie is reaped.
LEMMA AtSlot ==
  ASSUME MInv, NEW z \in Procs
  PROVE  /\ proc[z] \in ProcRecs
         /\ proc[z].state # "RUNNABLE" => act[z] = User
         /\ proc[z].state # "ZOMBIE" => ~Reaped(z) /\ PD[z] = proc[z].pgdir
         /\ proc[z].state = "UNUSED" => proc[z].kstack = 0 /\ proc[z].pgdir = 0
         /\ proc[z].state = "EMBRYO" => proc[z].pgdir = 0
         /\ proc[z].sz <= USERTOP /\ KS[z] = proc[z].kstack
<1>1. ProcOK(act[z], proc[z], proc[act[z].np], Pres(dir[proc[z].pgdir]), Pres(dir[act[z].d]), Reaped(z))
  BY DEF MInv, Sane
<1> QED
  BY <1>1, Names DEF ProcOK, MInv, Typed

\* The begin of fork keeps the invariant.
LEMMA StepFork ==
  ASSUME MInv, NEW p \in Procs, Fork(p)
  PROVE  MInv'
<1>2. PICK z \in Procs : z = Lowest(Unused) /\ proc[z].state = "UNUSED"
  <2>1. Unused \subseteq Nat /\ Unused # {}
    BY DEF Unused, Procs, Fork
  <2>2. Lowest(Unused) \in Unused
    BY <2>1, LowestIn
  <2> QED
    BY <2>2 DEF Unused
<1> DEFINE f == Frame("fork", "kstack", "none", 0)
           r2 == [f EXCEPT !.np = z]
           u2 == [proc[z] EXCEPT !.state = "EMBRYO"]
<1>1. /\ Runs(p) /\ proc' = [proc EXCEPT ![z].state = "EMBRYO"] /\ act' = [act EXCEPT ![p] = r2]
      /\ freelist' = freelist /\ dir' = dir /\ lost' = lost /\ panicked' = panicked
  BY <1>2 DEF Fork, memory
<1>3. /\ act[p] = User /\ proc[p] \in ProcRecs /\ proc[p].state = "RUNNABLE" /\ proc[p].kstack # 0
      /\ proc[p].pgdir # 0 /\ ~Reaped(p) /\ proc[p].sz <= USERTOP /\ panicked = "no"
      /\ Pres(dir[proc[p].pgdir]) = PagesTo(proc[p].sz) /\ PD[p] = proc[p].pgdir /\ AD[p] = 0
  BY <1>1, AtUser
<1>4. /\ proc[z] \in ProcRecs /\ act[z] = User /\ ~Reaped(z) /\ PD[z] = 0 /\ proc[z].kstack = 0 /\ proc[z].pgdir = 0
      /\ proc[z].sz <= USERTOP /\ KS[z] = 0
  BY <1>2, AtSlot
<1>5. f \in Frames /\ f.op = "fork" /\ f.at = "kstack" /\ f.sub = "none" /\ f.d = 0 /\ f.a = 0
  BY MemoryAssumption DEF Frame, Frames, Ats, Subs, PageOr0
<1> HIDE DEF f
<1>6. r2 \in Frames /\ r2.op = "fork" /\ r2.at = "kstack" /\ r2.sub = "none" /\ r2.d = 0 /\ r2.a = 0 /\ r2.np = z
  BY <1>2, <1>5 DEF Frames, Procs
<1>7. /\ u2 \in ProcRecs /\ u2.state = "EMBRYO" /\ u2.kstack = 0 /\ u2.pgdir = 0 /\ u2.sz = proc[z].sz
  BY <1>4 DEF ProcRecs, States
<1>8. proc' = [proc EXCEPT ![z] = u2]
  BY <1>1, <1>2 DEF MInv, Typed
<1> HIDE DEF r2, u2
<1>9. \A q \in Procs : Reaped(q)' <=> Reaped(q)
  <2>1. act[p].op # "wait"
    BY <1>3 DEF User
  <2> QED
    BY <1>1, <1>6, <2>1, ReapedKept
<1>10. \A q \in Procs : act[q].op \in {"fork", "wait"} => act[q].np # z
  BY <1>2, Slot
<1>11. r2 # User
  BY <1>6 DEF User
<1>12. Alone'
  <2>1. act'[p] = r2 /\ \A q \in Procs : q # p => act'[q] = act[q]
    BY <1>1 DEF Typed, MInv
  <2>2. \A q \in Procs : q # p /\ act'[q].op = "fork" => act'[q].np # z
    BY <1>10, <2>1
  <2>3. \A q, s \in Procs : q # s /\ act'[q] # User /\ act'[s] # User => ~(act'[q].op = "fork" /\ act'[s].op = "fork" /\ act'[q].np = act'[s].np)
    <3>1. SUFFICES ASSUME NEW q \in Procs, NEW s \in Procs, q # s, act'[q].op = "fork", act'[s].op = "fork", act'[q].np = act'[s].np
                   PROVE  FALSE
      OBVIOUS
    <3>2. q # p /\ s # p
      BY <1>6, <2>1, <2>2, <3>1
    <3>3. act[q].op = "fork" /\ act[s].op = "fork" /\ act[q].np = act[s].np /\ act[q] # User /\ act[s] # User
      BY <2>1, <3>1, <3>2 DEF User
    <3> QED
      BY <3>1, <3>3 DEF MInv, Alone
  <2>4. \A q \in Procs : act'[q].op = "wait" => act[q].op = "wait" /\ act[q] # User
    BY <1>6, <2>1 DEF User
  <2> QED
    BY <2>3, <2>4 DEF MInv, Alone
<1>13. Own(r2) = 0
  BY <1>6 DEF Own
<1>14. Owning'
  <2>1. ReapedBut(z)
    BY <1>9 DEF ReapedBut
  <2>2. NewDir(z, u2, 0)
    BY <1>7 DEF NewDir
  <2>5. act' = [act EXCEPT ![p] = r2]
    BY <1>1
  <2>3. KS' = [KS EXCEPT ![z] = u2.kstack] /\ PD' = [PD EXCEPT ![z] = 0] /\ AD' = [AD EXCEPT ![p] = Own(r2)]
    <3>1. KS' = [KS EXCEPT ![z] = u2.kstack]
      BY <1>2, <1>8, SlotStacks
    <3>2. PD' = [PD EXCEPT ![z] = 0]
      BY <1>2, <1>8, <2>1, <2>2, SlotDirs, Zenon
    <3>3. AD' = [AD EXCEPT ![p] = Own(r2)]
      BY <2>5, CallDirs
    <3> QED
      BY <3>1, <3>2, <3>3
  <2>4. KS' = KS /\ PD' = PD /\ AD' = AD
    BY <1>2, <1>3, <1>4, <1>7, <1>13, <2>3, Names DEF MInv
  <2> QED
    BY <1>1, <2>4 DEF MInv, Owning
<1>15. ProcOK(r2, proc[p], proc'[r2.np], Pres(dir[proc[p].pgdir]), Pres(dir[r2.d]), Reaped(p))
  <2>1. proc'[z] = u2
    BY <1>2, <1>8 DEF MInv, Typed
  <2>2. ForkOK(r2, proc[p], u2, Pres(dir[r2.d]))
    BY <1>2, <1>6, <1>7 DEF ForkOK
  <2>3. CallOK(r2, proc[p], u2, Pres(dir[proc[p].pgdir]), Pres(dir[r2.d]))
    BY <1>3, <1>6, <2>2 DEF CallOK
  <2>4. ProcOK(r2, proc[p], u2, Pres(dir[proc[p].pgdir]), Pres(dir[r2.d]), Reaped(p))
    BY <1>3, <1>11, <2>3, GoesOn
  <2> QED
    BY <1>6, <2>1, <2>4
<1>16. Fits(z, u2) /\ ReapedBut(z)
  BY <1>2, <1>4, <1>7, <1>9, Fitting DEF ReapedBut
<1>17. Only(p, z) /\ z # p
  BY <1>2, <1>3, <1>10 DEF Only
<1> QED
  BY <1>1, <1>2, <1>3, <1>4, <1>6, <1>7, <1>8, <1>12, <1>14, <1>15, <1>16, <1>17, SlotStep

\* A fork in progress.
LEMMA AtFork ==
  ASSUME MInv, NEW p \in Procs, act[p].op = "fork"
  PROVE  /\ act[p] \in Frames /\ act[p] # User /\ Own(act[p]) = act[p].d /\ AD[p] = act[p].d
         /\ act[p].np \in Procs /\ act[p].np # p /\ proc[act[p].np].state = "EMBRYO" /\ Only(p, act[p].np)
         /\ act[act[p].np] = User /\ ~Reaped(act[p].np) /\ PD[act[p].np] = 0 /\ proc[act[p].np].pgdir = 0
         /\ proc[act[p].np] \in ProcRecs /\ KS[act[p].np] = proc[act[p].np].kstack
         /\ proc[act[p].np].sz <= USERTOP
         /\ Pres(dir[proc[p].pgdir]) = PagesTo(proc[p].sz)
         /\ ForkOK(act[p], proc[p], proc[act[p].np], Pres(dir[act[p].d]))
<1>1. /\ act[p] \in Frames /\ act[p] # User /\ proc[p].state = "RUNNABLE"
      /\ CallOK(act[p], proc[p], proc[act[p].np], Pres(dir[proc[p].pgdir]), Pres(dir[act[p].d]))
  BY InCall
<1>2. /\ ForkOK(act[p], proc[p], proc[act[p].np], Pres(dir[act[p].d]))
      /\ Pres(dir[proc[p].pgdir]) = PagesTo(proc[p].sz)
  BY <1>1 DEF CallOK
<1>3. act[p].np \in Procs /\ proc[act[p].np].state = "EMBRYO"
  BY <1>2 DEF ForkOK
<1>4. Only(p, act[p].np)
  <2>1. ASSUME NEW q \in Procs, q # p, act[q].op \in {"fork", "wait"}, act[q].np = act[p].np PROVE FALSE
    <3>1. act[q] # User /\ (act[q].op = "wait" => proc[act[q].np].state = "ZOMBIE")
      BY <2>1, Slot
    <3>2. act[q].op = "fork"
      BY <1>3, <2>1, <3>1
    <3> QED
      BY <1>1, <2>1, <3>1, <3>2 DEF MInv, Alone
  <2> QED
    BY <2>1 DEF Only
<1>5. Own(act[p]) = act[p].d /\ AD[p] = act[p].d
  BY <1>1, Names DEF Own, Private, MInv
<1>6. act[p].np # p
  BY <1>1, <1>3
<1>7. /\ act[act[p].np] = User /\ ~Reaped(act[p].np) /\ PD[act[p].np] = proc[act[p].np].pgdir
      /\ proc[act[p].np].pgdir = 0 /\ proc[act[p].np] \in ProcRecs /\ KS[act[p].np] = proc[act[p].np].kstack
      /\ proc[act[p].np].sz <= USERTOP
  BY <1>3, AtSlot
<1> QED
  BY <1>1, <1>2, <1>3, <1>4, <1>5, <1>6, <1>7

\* A slot of nobody.
LEMMA Blank ==
  /\ UNUSED \in ProcRecs /\ UNUSED.state = "UNUSED" /\ UNUSED.kstack = 0 /\ UNUSED.pgdir = 0 /\ UNUSED.sz = 0
  /\ 0 <= USERTOP
<1>1. 0 \in PageOr0 /\ USERTOP \in Nat
  BY MemoryAssumption DEF PageOr0, USERTOP
<1> QED
  BY <1>1 DEF UNUSED, ProcRecs, States

\* User space.
LEMMA BackInUser == User.op = "user" /\ Own(User) = 0
  BY DEF User, Own, Private

\* What a slot holds, when no wait is at work on it.
SlotOK(u) ==
  /\ u \in ProcRecs /\ u.sz <= USERTOP
  /\ u.state = "UNUSED" => u.kstack = 0 /\ u.pgdir = 0
  /\ u.state = "EMBRYO" => u.pgdir = 0
  /\ u.state = "RUNNABLE" =>
       /\ u.kstack # 0 /\ u.pgdir # 0
       /\ Pres(dir[u.pgdir]) = PagesTo(u.sz) \/ Pres(dir[u.pgdir]) = {}
  /\ u.state # "ZOMBIE"

\* fork goes on with the slot as it is, or ends.
ForkOn(r2, z) == (r2 \in Frames /\ r2.op = "fork" /\ r2.np = z) \/ r2 = User

\* A step of fork that changes its slot z, and no page directory.
LEMMA ForkStep ==
  ASSUME MInv, NEW p \in Procs, act[p].op = "fork", NEW z, z = act[p].np,
         NEW r2, ForkOn(r2, z), act' = [act EXCEPT ![p] = r2],
         NEW u2, SlotOK(u2), proc' = [proc EXCEPT ![z] = u2],
         r2 # User => ForkOK(r2, proc[p], u2, Pres(dir[r2.d])), dir' = dir, panicked' = "no",
         \E o \in Owners : Owned(o, freelist', [KS EXCEPT ![z] = u2.kstack], [PD EXCEPT ![z] = u2.pgdir],
                                 [AD EXCEPT ![p] = Own(r2)], dir', lost')
  PROVE  MInv'
<1>1. /\ z \in Procs /\ z # p /\ Only(p, z) /\ act[z] = User /\ ~Reaped(z)
      /\ Pres(dir[proc[p].pgdir]) = PagesTo(proc[p].sz)
  BY AtFork
<1>2. /\ proc[p].state = "RUNNABLE" /\ proc[p].kstack # 0 /\ proc[p].pgdir # 0 /\ ~Reaped(p) /\ proc[p].sz <= USERTOP
  BY InCall
<1>3. r2 \in Frames \cup {User} /\ r2.op # "wait" /\ act[p].op # "wait"
  BY DEF ForkOn, User
<1>4. \A q \in Procs : Reaped(q)' <=> Reaped(q)
  BY <1>3, ReapedKept
<1>5. ReapedBut(z) /\ ~Reaped(z)'
  BY <1>1, <1>4 DEF ReapedBut
<1>6. Fits(z, u2)
  BY <1>5, Fitting DEF SlotOK
<1>7. r2.op \in {"fork", "wait"} => r2.op = act[p].op /\ r2.np = act[p].np
  BY DEF ForkOn, User
<1>8. Alone'
  BY <1>7, AloneKept
<1>9. NewDir(z, u2, u2.pgdir)
  BY <1>5 DEF NewDir
<1>10. KS' = [KS EXCEPT ![z] = u2.kstack]
  BY <1>1, SlotStacks
<1>11. PD' = [PD EXCEPT ![z] = u2.pgdir]
  BY <1>1, <1>5, <1>9, SlotDirs, Zenon
<1>12. AD' = [AD EXCEPT ![p] = Own(r2)]
  BY CallDirs
<1>13. Owning'
  BY <1>10, <1>11, <1>12 DEF Owning
<1>14. proc'[z] = u2 /\ u2 \in ProcRecs
  BY <1>1 DEF MInv, Typed, SlotOK
<1>15. ProcOK(r2, proc[p], proc'[r2.np], Pres(dir[proc[p].pgdir]), Pres(dir[r2.d]), Reaped(p))
  <2>1. CASE r2 = User
    BY <1>1, <1>2, <2>1 DEF ProcOK
  <2>2. CASE r2 # User
    <3>1. r2.np = z /\ r2.op = "fork"
      BY <2>2 DEF ForkOn
    <3>2. CallOK(r2, proc[p], u2, Pres(dir[proc[p].pgdir]), Pres(dir[r2.d]))
      BY <1>1, <2>2, <3>1 DEF CallOK
    <3>3. ProcOK(r2, proc[p], u2, Pres(dir[proc[p].pgdir]), Pres(dir[r2.d]), Reaped(p))
      BY <1>2, <2>2, <3>2, GoesOn
    <3> QED
      BY <1>14, <3>1, <3>3
  <2> QED
    BY <2>1, <2>2
<1> QED
  BY <1>1, <1>3, <1>5, <1>6, <1>8, <1>13, <1>14, <1>15, SlotStep

\* Writing back what is there changes nothing.
LEMMA SameNames ==
  ASSUME MInv, NEW z \in Procs
  PROVE  /\ [KS EXCEPT ![z] = KS[z]] = KS /\ [PD EXCEPT ![z] = PD[z]] = PD /\ [AD EXCEPT ![z] = AD[z]] = AD
  BY Names DEF MInv

\* The step fork_kstack keeps the invariant.
LEMMA StepKstack ==
  ASSUME MInv, NEW p \in Procs, fork_kstack(p)
  PROVE  MInv'
<1>1. /\ act[p].op = "fork" /\ act[p].at = "kstack" /\ act[p].sub = "none" /\ panicked = "no"
      /\ dir' = dir /\ lost' = lost /\ panicked' = "no"
  BY DEF fork_kstack, In
<1>2. PICK z : z = act[p].np
  OBVIOUS
<1>3. /\ act[p] \in Frames /\ act[p] # User /\ Own(act[p]) = act[p].d /\ AD[p] = act[p].d
      /\ z \in Procs /\ proc[z].state = "EMBRYO" /\ PD[z] = 0 /\ proc[z].pgdir = 0
      /\ proc[z] \in ProcRecs /\ KS[z] = proc[z].kstack /\ proc[z].sz <= USERTOP
      /\ ForkOK(act[p], proc[p], proc[z], Pres(dir[act[p].d]))
  BY <1>1, <1>2, AtFork
<1>4. act[p].d = 0 /\ act[p].a = 0 /\ proc[z].kstack = 0 /\ AD[p] = 0 /\ KS[z] = 0
  BY <1>1, <1>3 DEF ForkOK
<1>5. PICK o \in Owners : Owned(o, freelist, KS, PD, AD, dir, lost)
  BY DEF MInv, Owning
<1>6. CASE NoPage /\ proc' = [proc EXCEPT ![z] = UNUSED] /\ act' = [act EXCEPT ![p] = User]
  <2>1. SlotOK(UNUSED)
    BY Blank DEF SlotOK
  <2>2. ForkOn(User, z)
    BY DEF ForkOn
  <2>3. [KS EXCEPT ![z] = UNUSED.kstack] = KS /\ [PD EXCEPT ![z] = UNUSED.pgdir] = PD /\ [AD EXCEPT ![p] = Own(User)] = AD
    BY <1>3, <1>4, Blank, BackInUser, SameNames
  <2>4. Owned(o, freelist', [KS EXCEPT ![z] = UNUSED.kstack], [PD EXCEPT ![z] = UNUSED.pgdir],
                                 [AD EXCEPT ![p] = Own(User)], dir', lost')
    BY <1>1, <1>5, <1>6, <2>3 DEF NoPage
  <2> QED
    BY <1>1, <1>2, <1>6, <2>1, <2>2, <2>4, ForkStep
<1>7. ASSUME NEW pg \in Pages, kalloc(pg), proc' = [proc EXCEPT ![z].kstack = pg],
             act' = [act EXCEPT ![p].at = "copy", ![p].sub = "setupkvm"]
      PROVE  MInv'
  <2> DEFINE r2 == [act[p] EXCEPT !.at = "copy", !.sub = "setupkvm"]
             u2 == [proc[z] EXCEPT !.kstack = pg]
  <2>1. r2 \in Frames /\ r2.op = "fork" /\ r2.np = z /\ r2.at = "copy" /\ r2.sub = "setupkvm" /\ r2.d = 0 /\ r2.a = 0
    BY <1>1, <1>2, <1>3, <1>4 DEF Frames, Ats, Subs
  <2>a. pg \in PageOr0 /\ pg # 0
    BY MemoryAssumption DEF PageOr0, Pages
  <2>2. u2 \in ProcRecs /\ u2.state = "EMBRYO" /\ u2.pgdir = 0 /\ u2.kstack = pg /\ u2.sz = proc[z].sz
    BY <1>3, <2>a DEF ProcRecs
  <2>3. act' = [act EXCEPT ![p] = r2] /\ proc' = [proc EXCEPT ![z] = u2]
    BY <1>7, <1>3 DEF MInv, Typed
  <2> HIDE DEF r2, u2
  <2>4. SlotOK(u2)
    BY <1>3, <2>2 DEF SlotOK
  <2>5. ForkOn(r2, z)
    BY <2>1 DEF ForkOn
  <2>6. ForkOK(r2, proc[p], u2, Pres(dir[r2.d]))
    <3>1. 0 <= PGROUNDUP(proc[p].sz)
      <4>1. proc[p].sz \in Nat
        BY DEF MInv, Typed, ProcRecs
      <4> QED
        BY <4>1, RoundUp
    <3> QED
      BY <1>3, <2>a, <2>1, <2>2, <3>1, NoPages DEF ForkOK
  <2>7. [PD EXCEPT ![z] = u2.pgdir] = PD /\ [AD EXCEPT ![p] = Own(r2)] = AD
    <3>1. Own(r2) = 0
      BY <2>1 DEF Own
    <3> QED
      BY <1>3, <1>4, <2>2, <3>1, SameNames
  <2>8. \E o2 \in Owners : Owned(o2, freelist', [KS EXCEPT ![z] = pg], PD, AD, dir, lost)
    <3>1. freelist # <<>> /\ pg = Head(freelist) /\ freelist' = Tail(freelist)
      BY <1>7 DEF kalloc
    <3> QED
      BY <1>3, <1>4, <1>5, <3>1, TakeStack
  <2>9. \E o2 \in Owners : Owned(o2, freelist', [KS EXCEPT ![z] = u2.kstack], [PD EXCEPT ![z] = u2.pgdir],
                                 [AD EXCEPT ![p] = Own(r2)], dir', lost')
    BY <1>1, <2>2, <2>7, <2>8
  <2> QED
    BY <1>1, <1>2, <2>3, <2>4, <2>5, <2>6, <2>9, ForkStep
<1> QED
  BY <1>2, <1>6, <1>7 DEF fork_kstack, Goto, Return
\* A page that begins below a size ends no later than the size rounded up.
LEMMA RoomBelow ==
  ASSUME NEW a \in Nat, Aligned(a), NEW b \in Nat, a < b
  PROVE  a + PGSIZE <= PGROUNDUP(b)
<1>1. /\ PGROUNDUP(b) \in Nat /\ b <= PGROUNDUP(b) /\ Aligned(PGROUNDUP(b)) /\ Page(PGROUNDUP(b)) \in Nat
  BY RoundUp
<1>2. Page(a) \in Nat /\ a = Page(a) * PGSIZE /\ PGROUNDUP(b) = Page(PGROUNDUP(b)) * PGSIZE
  BY <1>1, Divides DEF Aligned
<1>3. Page(a) * PGSIZE < PGROUNDUP(b)
  BY <1>1, <1>2
<1>4. Page(a) < Page(PGROUNDUP(b))
  BY <1>1, <1>2, <1>3, AlignedPages
<1>5. Page(a) * PGSIZE + PGSIZE <= Page(PGROUNDUP(b)) * PGSIZE
  BY <1>1, <1>2, <1>4, Below
<1> QED
  BY <1>2, <1>5

\* A page of user memory is mapped in directory d, where there was none.
LEMMA Maps ==
  ASSUME MInv, NEW o, Owned(o, freelist, KS, PD, AD, dir, lost), NEW d \in Pages, Holds(o, d),
         NEW v \in VPage, v \notin Pres(dir[d]), NEW pg \in Pages, kalloc(pg),
         dir' = [dir EXCEPT ![d].pte[v] = pg], lost' = lost
  PROVE  \E e \in Dirents :
           /\ dir' = [dir EXCEPT ![d] = e] /\ Pres(e) = Pres(dir[d]) \cup {v}
           /\ \E o2 \in Owners : Owned(o2, freelist', KS, PD, AD, dir', lost')
<1> DEFINE c == dir[d]
           f == [c.pte EXCEPT ![v] = pg]
           e == [c EXCEPT !.pte = f]
<1>1. dir \in [Pages -> Dirents] /\ c \in Dirents /\ c.pte \in [VPage -> PageOr0]
  BY Leads DEF MInv, Typed, Owned
<1>2. c.pte[v] = 0 /\ pg \in PageOr0 /\ pg # 0
  BY <1>1, MemoryAssumption DEF Pres, PageOr0, Pages
<1>3. dir' = [dir EXCEPT ![d] = e]
  BY <1>1
<1>4. f = [c.pte EXCEPT ![v] = pg] /\ e = [c EXCEPT !.pte = f]
  OBVIOUS
<1>5. freelist # <<>> /\ pg = Head(freelist) /\ freelist' = Tail(freelist)
  BY DEF kalloc
<1> HIDE DEF e, f, c
<1>6. e \in Dirents /\ e.tab = c.tab /\ e.pte = f /\ Pres(e) = Pres(c) \cup {v}
  <2>1. f \in [VPage -> PageOr0]
    BY <1>1, <1>2, <1>4
  <2>2. e \in Dirents /\ e.tab = c.tab /\ e.pte = f
    <3>1. c \in Dirents /\ e = [c EXCEPT !.pte = f]
      BY <1>1, <1>4
    <3> QED
      BY <2>1, <3>1 DEF Dirents
  <2>4. e.pte = [c.pte EXCEPT ![v] = pg]
    BY <1>4, <2>2
  <2> QED
    BY <1>1, <1>2, <2>2, <2>4, OnePage
<1>7. Gains(dir[d], e, v, Head(freelist), "user")
  BY <1>2, <1>4, <1>5, <1>6 DEF Gains, c
<1>8. \E o2 \in Owners : Owned(o2, Tail(freelist), KS, PD, AD, [dir EXCEPT ![d] = e], lost)
  BY <1>1, <1>5, <1>7, TakeInto, Zenon
<1> QED
  BY <1>3, <1>5, <1>6, <1>8 DEF c

\* A call goes on with the same directory.
LEMMA Continues ==
  ASSUME NEW r \in Frames, NEW r2 \in Frames, r2.op = r.op, r2.np = r.np, r2.d = r.d
  PROVE  r2 # User /\ Keeps(r, r2) /\ Own(r2) = Own(r)
<1>1. r # User /\ r2 # User
  BY DEF Frames, User
<1>2. Keeps(r, r2)
  BY DEF Keeps
<1>3. Own(r2) = Own(r)
  BY <1>1 DEF Own, Private
<1> QED
  BY <1>1, <1>2, <1>3

\* The step copyuvm_page keeps the invariant.
LEMMA StepCopyuvm ==
  ASSUME MInv, NEW p \in Procs, copyuvm_page(p)
  PROVE  MInv'
<1> DEFINE r == act[p]
           d == act[p].d
           a == act[p].a
           sz == proc[p].sz
           n == proc[act[p].np]
           P == Pres(dir[proc[p].pgdir])
           old == dir[proc[p].pgdir].pte[Page(act[p].a)]
<1>1. /\ r.op = "fork" /\ r.at = "copy" /\ r.sub = "none" /\ panicked = "no" /\ r.ret # 0 /\ a < sz
      /\ proc' = proc /\ lost' = lost
      /\ panicked' = IF old = 0 THEN "copyuvm: page not present" ELSE Remap(d, Page(a))
  BY DEF copyuvm_page, In
<1>2. /\ r \in Frames /\ r # User /\ Own(r) = d /\ r.np \in Procs /\ n.state = "EMBRYO"
      /\ P = PagesTo(sz) /\ ForkOK(r, proc[p], n, Pres(dir[d]))
  BY <1>1, AtFork
<1>3. d # 0 /\ n.kstack # 0 /\ Aligned(a) /\ Pres(dir[d]) = PagesTo(a)
  BY <1>1, <1>2 DEF ForkOK
<1>4. /\ proc[p].state = "RUNNABLE" /\ proc[p].kstack # 0 /\ proc[p].pgdir # 0 /\ ~Reaped(p) /\ sz <= USERTOP
      /\ proc[p] \in ProcRecs
  BY <1>1, InCall
<1>5. a \in Nat /\ sz \in Nat /\ PGSIZE \in Nat /\ USERTOP \in Nat
  BY <1>2, <1>4, MemoryAssumption DEF Frames, ProcRecs, USERTOP
<1>6. /\ Page(a) \in VPage /\ Page(a) \in PagesTo(sz) /\ Page(a) \notin PagesTo(a)
      /\ PagesTo(a + PGSIZE) = PagesTo(a) \cup {Page(a)} /\ Aligned(a + PGSIZE) /\ a + PGSIZE \in Nat
      /\ a + PGSIZE <= PGROUNDUP(sz)
  <2>1. Page(a) \in VPage
    BY <1>1, <1>3, <1>4, <1>5, InRange
  <2>2. Page(a) * PGSIZE < sz
    BY <1>1, <1>3 DEF Aligned
  <2>3. Page(a) \in PagesTo(sz)
    BY <2>1, <2>2 DEF PagesTo
  <2>4. a + PGSIZE <= PGROUNDUP(sz)
    BY <1>1, <1>3, <1>5, RoomBelow
  <2> QED
    BY <1>3, <1>5, <2>1, <2>3, <2>4, NextPage
<1>7. PICK o \in Owners : Owned(o, freelist, KS, PD, AD, dir, lost)
  BY DEF MInv, Owning
<1>8. d \in Pages /\ Holds(o, d) /\ dir[d] \in Dirents
  BY <1>1, <1>3, <1>7, AtDir
<1>9. panicked' = "no"
  <2>1. old # 0
    BY <1>2, <1>6 DEF Pres
  <2>2. Present(d) = Pres(dir[d])
    BY DEF Present, Pres
  <2> QED
    BY <1>1, <1>3, <1>6, <2>1, <2>2 DEF Remap
<1>10. act \in [Procs -> Frames \cup {User}]
  BY DEF MInv, Typed
<1>11. ASSUME NEW pg \in Pages, kalloc(pg), dir' = [dir EXCEPT ![d].pte[Page(a)] = pg],
              act' = [act EXCEPT ![p].a = a + PGSIZE]
       PROVE  MInv'
  <2>1. PICK e \in Dirents : /\ dir' = [dir EXCEPT ![d] = e] /\ Pres(e) = Pres(dir[d]) \cup {Page(a)}
                             /\ \E o2 \in Owners : Owned(o2, freelist', KS, PD, AD, dir', lost')
    <3>1. Page(a) \notin Pres(dir[d])
      BY <1>3, <1>6
    <3> HIDE DEF d, a
    <3> QED
      BY <1>1, <1>6, <1>7, <1>8, <1>11, <3>1, Maps
  <2> DEFINE r2 == [r EXCEPT !.a = a + PGSIZE]
  <2>2. /\ r2 \in Frames /\ r2.op = "fork" /\ r2.at = "copy" /\ r2.sub = "none" /\ r2.np = r.np /\ r2.d = d
        /\ r2.ret = r.ret /\ r2.a = a + PGSIZE
    BY <1>1, <1>2, <1>6 DEF Frames
  <2>3. act' = [act EXCEPT ![p] = r2]
    BY <1>10, <1>11
  <2> HIDE DEF r2
  <2>4. ForkOK(r2, proc[p], n, Pres(e))
    <3>1. Pres(e) = PagesTo(a + PGSIZE)
      BY <1>3, <1>6, <2>1
    <3> HIDE DEF a, sz, d, n
    <3> QED
      BY <1>1, <1>2, <1>3, <1>6, <2>2, <3>1 DEF ForkOK, sz
  <2>5. P2(r2, e, P) = P
    BY <2>2 DEF P2
  <2>6. CallOK(r2, proc[p], n, P2(r2, e, P), Pres(e))
    BY <1>2, <2>2, <2>4, <2>5 DEF CallOK
  <2>7. CallOK(r2, proc[p], proc[r2.np], P2(r2, e, P), Pres(e))
    BY <2>2, <2>6
  <2> QED
    BY <1>1, <1>3, <1>9, <2>1, <2>2, <2>3, <2>7, OneEntry
<1>12. CASE NoPage /\ act' = [act EXCEPT ![p].at = "failed", ![p].sub = "freevm"] /\ dir' = dir
  <2> DEFINE r2 == [r EXCEPT !.at = "failed", !.sub = "freevm"]
  <2>1. r2 \in Frames /\ r2.op = "fork" /\ r2.at = "failed" /\ r2.sub = "freevm" /\ r2.np = r.np /\ r2.d = d
    BY <1>1, <1>2 DEF Frames, Ats, Subs
  <2>2. act' = [act EXCEPT ![p] = r2]
    BY <1>10, <1>12
  <2> HIDE DEF r2
  <2>3. r2 # User /\ Keeps(r, r2) /\ Own(r2) = Own(r)
    BY <1>1, <1>2, <2>1, Continues
  <2>4. CallOK(r2, proc[p], n, P, Pres(dir[r2.d]))
    BY <1>2, <1>3, <2>1 DEF CallOK, ForkOK, Freeing
  <2>5. ProcOK(r2, proc[p], proc[r2.np], P, Pres(dir[r2.d]), Reaped(p))
    BY <1>4, <2>1, <2>3, <2>4, GoesOn
  <2>6. freelist' = freelist /\ panicked' = panicked /\ dir' = dir
    BY <1>1, <1>9, <1>12 DEF NoPage
  <2>7. r2 \in Frames \cup {User}
    BY <2>1
  <2> QED
    BY <1>1, <2>2, <2>3, <2>5, <2>6, <2>7, CallOnly
<1> QED
  BY <1>10, <1>11, <1>12 DEF copyuvm_page, Goto


\* The step fork_return keeps the invariant.
LEMMA StepForkReturn ==
  ASSUME MInv, NEW p \in Procs, fork_return(p)
  PROVE  MInv'
<1> DEFINE r == act[p]
           d == act[p].d
           sz == proc[p].sz
<1>1. /\ r.op = "fork" /\ r.at = "copy" /\ r.sub = "none" /\ panicked = "no" /\ r.ret # 0 /\ r.a >= sz
      /\ act' = [act EXCEPT ![p] = User] /\ freelist' = freelist /\ dir' = dir /\ lost' = lost /\ panicked' = "no"
  BY DEF fork_return, In, Return, memory
<1>2. PICK z : z = act[p].np
  OBVIOUS
<1>3. /\ r \in Frames /\ r # User /\ AD[p] = d /\ z \in Procs /\ PD[z] = 0
      /\ proc[z] \in ProcRecs /\ KS[z] = proc[z].kstack
      /\ ForkOK(r, proc[p], proc[z], Pres(dir[d]))
  BY <1>1, <1>2, AtFork
<1>4. d # 0 /\ proc[z].kstack # 0 /\ r.a <= PGROUNDUP(sz) /\ Pres(dir[d]) = PagesTo(r.a)
  BY <1>1, <1>3 DEF ForkOK
<1>5. proc[p] \in ProcRecs /\ sz <= USERTOP /\ sz \in Nat /\ proc[p].stk \in Int /\ d \in PageOr0 /\ p \in Nat /\ r.a \in Nat
  <2>1. proc[p] \in ProcRecs /\ sz <= USERTOP
    BY <1>1, InCall
  <2>2. sz \in Nat /\ proc[p].stk \in Int
    BY <2>1 DEF ProcRecs
  <2>3. d \in PageOr0 /\ r.a \in Nat
    BY <1>3 DEF Frames
  <2>4. p \in Nat
    BY DEF Procs
  <2> QED
    BY <2>1, <2>2, <2>3, <2>4
<1>6. Pres(dir[d]) = PagesTo(sz)
  BY <1>1, <1>4, <1>5, SamePages
<1> DEFINE u2 == [proc[z] EXCEPT !.state = "RUNNABLE", !.pgdir = d, !.sz = sz, !.stk = proc[p].stk, !.parent = p]
<1>7. proc' = [proc EXCEPT ![z] = u2]
  <2>1. proc' = [proc EXCEPT ![z] = [@ EXCEPT !.state = "RUNNABLE", !.pgdir = d, !.sz = sz,
                                              !.stk = proc[p].stk, !.parent = p]]
    BY <1>2 DEF fork_return
  <2> QED
    BY <1>3, <2>1 DEF MInv, Typed
<1>8. /\ u2 \in ProcRecs /\ u2.state = "RUNNABLE" /\ u2.pgdir = d /\ u2.sz = sz /\ u2.kstack = proc[z].kstack
  BY <1>3, <1>5 DEF ProcRecs, States
<1> HIDE DEF u2
<1>9. SlotOK(u2)
  BY <1>4, <1>5, <1>6, <1>8 DEF SlotOK
<1>10. ForkOn(User, z)
  BY DEF ForkOn
<1>11. PICK o \in Owners : Owned(o, freelist, KS, PD, AD, dir, lost)
  BY DEF MInv, Owning
<1>12. \E o2 \in Owners : Owned(o2, freelist, KS, [PD EXCEPT ![z] = d], [AD EXCEPT ![p] = 0], dir, lost)
  <2> HIDE DEF d
  <2> QED
    BY <1>3, <1>4, <1>11, MoveIn, Zenon
<1>13. [KS EXCEPT ![z] = u2.kstack] = KS
  BY <1>3, <1>8, SameNames
<1>14. \E o2 \in Owners : Owned(o2, freelist', [KS EXCEPT ![z] = u2.kstack], [PD EXCEPT ![z] = u2.pgdir],
                                [AD EXCEPT ![p] = Own(User)], dir', lost')
  BY <1>1, <1>8, <1>12, <1>13, BackInUser
<1> QED
  BY <1>1, <1>2, <1>7, <1>9, <1>10, <1>14, ForkStep

\* The step fork_failed keeps the invariant.
LEMMA StepForkFailed ==
  ASSUME MInv, NEW p \in Procs, fork_failed(p)
  PROVE  MInv'
<1> DEFINE r == act[p]
<1>1. /\ r.op = "fork" /\ r.sub = "none" /\ panicked = "no" /\ (r.at = "failed" \/ (r.at = "copy" /\ r.ret = 0))
      /\ act' = [act EXCEPT ![p] = User] /\ dir' = dir /\ lost' = lost /\ panicked' = "no"
      /\ proc' = [proc EXCEPT ![r.np] = UNUSED] /\ freelist' = <<proc[r.np].kstack>> \o freelist
  BY DEF fork_failed, In, Return, kfree
<1>2. PICK z : z = act[p].np
  OBVIOUS
<1>3. /\ AD[p] = r.d /\ z \in Procs /\ PD[z] = 0 /\ KS[z] = proc[z].kstack
      /\ ForkOK(r, proc[p], proc[z], Pres(dir[r.d]))
  BY <1>1, <1>2, AtFork
<1>4. r.d = 0 /\ KS[z] # 0
  BY <1>1, <1>3 DEF ForkOK, Freeing
<1>9. SlotOK(UNUSED)
  BY Blank DEF SlotOK
<1>10. ForkOn(User, z)
  BY DEF ForkOn
<1>11. PICK o \in Owners : Owned(o, freelist, KS, PD, AD, dir, lost)
  BY DEF MInv, Owning
<1>12. \E o2 \in Owners : Owned(o2, <<KS[z]>> \o freelist, [KS EXCEPT ![z] = 0], PD, AD, dir, lost)
  BY <1>3, <1>4, <1>11, GiveStack, Zenon
<1>13. [PD EXCEPT ![z] = UNUSED.pgdir] = PD /\ [AD EXCEPT ![p] = Own(User)] = AD
  BY <1>3, <1>4, Blank, BackInUser, SameNames
<1>15. freelist' = <<KS[z]>> \o freelist
  BY <1>1, <1>2, <1>3
<1>14. \E o2 \in Owners : Owned(o2, freelist', [KS EXCEPT ![z] = UNUSED.kstack], [PD EXCEPT ![z] = UNUSED.pgdir],
                                [AD EXCEPT ![p] = Own(User)], dir', lost')
  BY <1>1, <1>12, <1>13, <1>15, Blank
<1> QED
  BY <1>1, <1>2, <1>9, <1>10, <1>14, ForkStep
----------------------------------------------------------------------------
(* exec                                                                    *)

\* An exec in progress.
LEMMA AtExec ==
  ASSUME MInv, NEW p \in Procs, act[p].op = "exec"
  PROVE  /\ act[p] \in Frames /\ act[p] # User /\ Own(act[p]) = act[p].d /\ AD[p] = act[p].d
         /\ Pres(dir[proc[p].pgdir]) = PagesTo(proc[p].sz) /\ ExecOK(act[p], Pres(dir[act[p].d]))
         /\ proc[p].state = "RUNNABLE" /\ proc[p].kstack # 0 /\ proc[p].pgdir # 0 /\ PD[p] = proc[p].pgdir
         /\ ~Reaped(p) /\ proc[p].sz <= USERTOP /\ proc[p] \in ProcRecs
<1>1. /\ act[p] \in Frames /\ act[p] # User /\ proc[p] \in ProcRecs /\ proc[p].state = "RUNNABLE"
      /\ proc[p].kstack # 0 /\ proc[p].pgdir # 0 /\ PD[p] = proc[p].pgdir /\ ~Reaped(p) /\ proc[p].sz <= USERTOP
      /\ CallOK(act[p], proc[p], proc[act[p].np], Pres(dir[proc[p].pgdir]), Pres(dir[act[p].d]))
  BY InCall
<1>2. Own(act[p]) = act[p].d /\ AD[p] = act[p].d
  BY <1>1, Names DEF Own, Private, MInv
<1> QED
  BY <1>1, <1>2 DEF CallOK

\* A step of exec that changes no page.
LEMMA ExecStep ==
  ASSUME MInv, NEW p \in Procs, act[p].op = "exec", NEW r2 \in Frames, act' = [act EXCEPT ![p] = r2],
         r2.op = "exec", r2.np = act[p].np, r2.d = act[p].d, ExecOK(r2, Pres(dir[r2.d])),
         proc' = proc, panicked' = panicked, freelist' = freelist, dir' = dir, lost' = lost
  PROVE  MInv'
<1>1. /\ act[p] \in Frames /\ Pres(dir[proc[p].pgdir]) = PagesTo(proc[p].sz)
      /\ proc[p].state = "RUNNABLE" /\ proc[p].kstack # 0 /\ proc[p].pgdir # 0 /\ ~Reaped(p) /\ proc[p].sz <= USERTOP
  BY AtExec
<1>2. r2 # User /\ Keeps(act[p], r2) /\ Own(r2) = Own(act[p])
  BY <1>1, Continues
<1>3. CallOK(r2, proc[p], proc[r2.np], Pres(dir[proc[p].pgdir]), Pres(dir[r2.d]))
  BY <1>1 DEF CallOK
<1>4. ProcOK(r2, proc[p], proc[r2.np], Pres(dir[proc[p].pgdir]), Pres(dir[r2.d]), Reaped(p))
  BY <1>1, <1>2, <1>3, GoesOn
<1>5. r2 \in Frames \cup {User}
  OBVIOUS
<1> QED
  BY <1>2, <1>4, <1>5, CallOnly

\* exec returns when it has no directory of its own.
LEMMA ExecEnds ==
  ASSUME MInv, NEW p \in Procs, act[p].op = "exec", act[p].d = 0, act' = [act EXCEPT ![p] = User],
         proc' = proc, panicked' = panicked, freelist' = freelist, dir' = dir, lost' = lost
  PROVE  MInv'
<1>1. /\ Own(act[p]) = 0 /\ Pres(dir[proc[p].pgdir]) = PagesTo(proc[p].sz)
      /\ proc[p].state = "RUNNABLE" /\ proc[p].kstack # 0 /\ proc[p].pgdir # 0 /\ ~Reaped(p) /\ proc[p].sz <= USERTOP
  BY AtExec
<1>2. Keeps(act[p], User) /\ Own(User) = Own(act[p]) /\ User \in Frames \cup {User}
  BY <1>1, BackInUser DEF Keeps
<1>3. ProcOK(User, proc[p], proc[User.np], Pres(dir[proc[p].pgdir]), Pres(dir[User.d]), Reaped(p))
  BY <1>1 DEF ProcOK
<1> QED
  BY <1>2, <1>3, CallOnly

\* The step Exec keeps the invariant.
LEMMA StepExec ==
  ASSUME MInv, NEW p \in Procs, NEW prog \in Programs, NEW k \in ArgLens, Exec(p, prog, k)
  PROVE  MInv'
<1> DEFINE f == Frame("exec", "segment", "setupkvm", 0)
           r2 == [f EXCEPT !.prog = prog, !.args = k]
<1>1. /\ Runs(p) /\ proc' = proc /\ act' = [act EXCEPT ![p] = r2]
      /\ freelist' = freelist /\ dir' = dir /\ lost' = lost /\ panicked' = panicked
  BY DEF Exec, memory
<1>2. /\ act[p] = User /\ proc[p] \in ProcRecs /\ proc[p].state = "RUNNABLE" /\ proc[p].kstack # 0
      /\ proc[p].pgdir # 0 /\ ~Reaped(p) /\ proc[p].sz <= USERTOP
      /\ Pres(dir[proc[p].pgdir]) = PagesTo(proc[p].sz)
  BY <1>1, AtUser
<1>3. /\ f \in Frames /\ f.op = "exec" /\ f.at = "segment" /\ f.sub = "setupkvm" /\ f.d = 0 /\ f.i = 1 /\ f.sz = 0
  BY MemoryAssumption DEF Frame, Frames, Ats, Subs, PageOr0
<1> HIDE DEF f
<1>4. /\ r2 \in Frames /\ r2.op = "exec" /\ r2.at = "segment" /\ r2.sub = "setupkvm" /\ r2.d = 0 /\ r2.i = 1 /\ r2.sz = 0
  <2>1. k \in Nat
    BY MemoryAssumption
  <2> QED
    BY <1>3, <2>1 DEF Frames
<1> HIDE DEF r2
<1>5. r2 # User /\ Keeps(act[p], r2) /\ Own(r2) = 0 /\ Own(act[p]) = 0
  BY <1>2, <1>4, BackInUser DEF Keeps, Own
<1>6. ExecOK(r2, Pres(dir[r2.d]))
  <2>1. USERTOP \in Nat
    BY MemoryAssumption DEF USERTOP
  <2> QED
    BY <1>4, <2>1 DEF ExecOK
<1>7. CallOK(r2, proc[p], proc[r2.np], Pres(dir[proc[p].pgdir]), Pres(dir[r2.d]))
  BY <1>2, <1>4, <1>6 DEF CallOK
<1>8. ProcOK(r2, proc[p], proc[r2.np], Pres(dir[proc[p].pgdir]), Pres(dir[r2.d]), Reaped(p))
  BY <1>2, <1>5, <1>7, GoesOn
<1>9. r2 \in Frames \cup {User} /\ Own(r2) = Own(act[p])
  BY <1>4, <1>5
<1> QED
  BY <1>1, <1>5, <1>8, <1>9, CallOnly

\* What failed is freed.
LEMMA ExecBad ==
  ASSUME MInv, NEW p \in Procs, act[p].op = "exec", act[p].d # 0, Bad(p),
         proc' = proc, panicked' = panicked, freelist' = freelist, dir' = dir, lost' = lost
  PROVE  MInv'
<1> DEFINE r2 == [act[p] EXCEPT !.at = "bad", !.sub = "freevm"]
<1>1. act[p] \in Frames /\ act \in [Procs -> Frames \cup {User}]
  BY AtExec DEF MInv, Typed
<1>2. /\ r2 \in Frames /\ r2.op = "exec" /\ r2.np = act[p].np /\ r2.d = act[p].d /\ r2.at = "bad" /\ r2.sub = "freevm"
  BY <1>1 DEF Frames, Ats, Subs
<1>3. act' = [act EXCEPT ![p] = r2]
  BY <1>1 DEF Bad, Goto
<1> HIDE DEF r2
<1>4. ExecOK(r2, Pres(dir[r2.d]))
  BY <1>2 DEF ExecOK, Freeing
<1> QED
  BY <1>2, <1>3, <1>4, ExecStep

\* The step exec_return keeps the invariant.
LEMMA StepExecReturn ==
  ASSUME MInv, NEW p \in Procs, exec_return(p)
  PROVE  MInv'
<1>1. /\ act[p].op = "exec" /\ act[p].at = "bad" /\ act[p].sub = "none" /\ act' = [act EXCEPT ![p] = User]
      /\ proc' = proc /\ panicked' = panicked /\ freelist' = freelist /\ dir' = dir /\ lost' = lost
  BY DEF exec_return, In, Return, memory
<1>2. ExecOK(act[p], Pres(dir[act[p].d]))
  BY <1>1, AtExec
<1>3. act[p].d = 0
  BY <1>1, <1>2 DEF ExecOK, Freeing
<1> QED
  BY <1>1, <1>3, ExecEnds

\* The step exec_nostack keeps the invariant.
LEMMA StepNostack ==
  ASSUME MInv, NEW p \in Procs, exec_nostack(p)
  PROVE  MInv'
<1>1. /\ act[p].op = "exec" /\ act[p].at = "commit" /\ Bad(p)
      /\ proc' = proc /\ panicked' = panicked /\ freelist' = freelist /\ dir' = dir /\ lost' = lost
  BY DEF exec_nostack, In, memory
<1>2. ExecOK(act[p], Pres(dir[act[p].d]))
  BY <1>1, AtExec
<1>3. act[p].d # 0
  BY <1>1, <1>2 DEF ExecOK
<1> QED
  BY <1>1, <1>3, ExecBad
\* A size in user memory, rounded up, is in user memory.
LEMMA RoundedIn ==
  ASSUME NEW a \in Nat, a <= USERTOP
  PROVE  PGROUNDUP(a) \in Nat /\ PGROUNDUP(a) <= USERTOP /\ PagesTo(PGROUNDUP(a)) = PagesTo(a)
<1>1. /\ PGROUNDUP(a) \in Nat /\ a <= PGROUNDUP(a) /\ PGROUNDUP(a) < a + PGSIZE /\ Page(PGROUNDUP(a)) \in Nat
      /\ PGROUNDUP(a) = Page(PGROUNDUP(a)) * PGSIZE
  BY RoundUp DEF Aligned
<1>2. VPAGES \in Nat /\ PGSIZE \in Nat /\ USERTOP = VPAGES * PGSIZE /\ USERTOP \in Nat
  BY MemoryAssumption DEF USERTOP
<1> DEFINE k == Page(PGROUNDUP(a))
           t == PGROUNDUP(a)
<1>3. k \in Nat /\ t \in Nat /\ t = k * PGSIZE /\ t < a + PGSIZE
  BY <1>1
<1> HIDE DEF k, t
<1>4. ~(VPAGES < k)
  <2>1. SUFFICES ASSUME VPAGES < k PROVE FALSE
    OBVIOUS
  <2>2. VPAGES * PGSIZE + PGSIZE <= k * PGSIZE
    BY <1>2, <1>3, <2>1, Below
  <2>3. USERTOP + PGSIZE <= t
    BY <1>2, <1>3, <2>2
  <2> QED
    BY <1>2, <1>3, <2>3
<1>5. k * PGSIZE <= VPAGES * PGSIZE
  <2>1. k <= VPAGES
    BY <1>2, <1>3, <1>4
  <2> QED
    BY <1>2, <1>3, <2>1, Below
<1>6. PGROUNDUP(a) <= USERTOP
  BY <1>2, <1>3, <1>5 DEF t
<1>7. PagesTo(a) = PagesTo(PGROUNDUP(a))
  BY <1>1, SamePages
<1> QED
  BY <1>1, <1>6, <1>7

\* exec calls allocuvm, for its directory with the pages up to old.
LEMMA ExecAlloc ==
  ASSUME MInv, NEW p \in Procs, act[p].op = "exec", act[p].d # 0, act[p].sub = "none",
         NEW r \in Frames, r.op = "exec", r.at \in {"load", "commit"}, r.sub = "none", r.np = act[p].np,
         r.d = act[p].d, r.at = "load" => r.i \in 1 .. Len(r.prog),
         NEW old \in Nat, old <= USERTOP, Pres(dir[act[p].d]) = PagesTo(old), NEW new \in Nat,
         act' = [act EXCEPT ![p] = allocuvm(r, old, new)],
         proc' = proc, panicked' = panicked, freelist' = freelist, dir' = dir, lost' = lost
  PROVE  MInv'
<1> DEFINE r2 == allocuvm(r, old, new)
           A == Pres(dir[act[p].d])
<1>1. r2 = allocuvm(r, old, new) /\ A = PagesTo(old)
  OBVIOUS
<1>a. act' = [act EXCEPT ![p] = r2]
  OBVIOUS
<1> HIDE DEF r2, A
<1>2. /\ r2 \in Frames /\ r2.op = r.op /\ r2.at = r.at /\ r2.d = r.d /\ r2.np = r.np /\ r2.i = r.i
      /\ r2.prog = r.prog
      /\ \/ r2.sub = "none" /\ r2.ret = 0
         \/ r2.sub = "none" /\ r2.ret <= USERTOP /\ A = PagesTo(r2.ret)
         \/ r2.sub = "allocuvm" /\ Growing(r2, A)
  BY <1>1, Allocates
<1>3. ExecOK(r2, A)
  BY <1>2 DEF ExecOK
<1>4. A = Pres(dir[r2.d])
  BY <1>2 DEF A
<1>5. ExecOK(r2, Pres(dir[r2.d]))
  BY <1>3, <1>4
<1>6. r2 \in Frames /\ r2.op = "exec" /\ r2.d = act[p].d /\ r2.np = act[p].np
  BY <1>2
<1> QED
  BY <1>a, <1>5, <1>6, ExecStep

\* An element of a sequence.
LEMMA Element ==
  ASSUME NEW S, NEW s \in Seq(S), NEW i \in 1 .. Len(s)
  PROVE  s[i] \in S
  OBVIOUS

\* The step exec_segment keeps the invariant.
LEMMA StepSegment ==
  ASSUME MInv, NEW p \in Procs, exec_segment(p)
  PROVE  MInv'
<1> DEFINE r == act[p]
           ph == r.prog[r.i]
           f == [r EXCEPT !.at = "load"]
<1>1. /\ r.op = "exec" /\ r.at = "segment" /\ r.sub = "none" /\ (r.d = 0 \/ r.i <= Len(r.prog))
      /\ proc' = proc /\ panicked' = panicked /\ freelist' = freelist /\ dir' = dir /\ lost' = lost
  BY DEF exec_segment, In, memory
<1>2. r \in Frames /\ ExecOK(r, Pres(dir[r.d]))
  BY <1>1, AtExec
<1>3. r.i >= 1 /\ r.sz <= USERTOP /\ (r.d # 0 => Pres(dir[r.d]) = PagesTo(r.sz))
  BY <1>1, <1>2 DEF ExecOK
<1>4. CASE r.d = 0
  <2>1. act' = [act EXCEPT ![p] = User]
    BY <1>4 DEF exec_segment, Return
  <2> QED
    BY <1>1, <1>4, <2>1, ExecEnds
<1>5. CASE r.d # 0 /\ ph.memsz < ph.filesz
  <2>1. Bad(p)
    BY <1>5 DEF exec_segment
  <2> QED
    BY <1>1, <1>5, <2>1, ExecBad
<1>6. CASE r.d # 0 /\ ~(ph.memsz < ph.filesz)
  <2>1. act' = [act EXCEPT ![p] = allocuvm(f, r.sz, ph.va + ph.memsz)]
    BY <1>6 DEF exec_segment
  <2>2. /\ f \in Frames /\ f.op = "exec" /\ f.at = "load" /\ f.sub = "none" /\ f.np = r.np /\ f.d = r.d
        /\ f.i = r.i /\ f.prog = r.prog
    BY <1>1, <1>2 DEF Frames, Ats
  <2>3. r.i \in Nat /\ r.sz \in Nat /\ r.prog \in Programs \cup {<<>>}
    BY <1>2 DEF Frames
  <2>4. r.prog \in Programs
    BY <1>1, <1>3, <1>6, <2>3
  <2>5. r.prog \in Seq([va : Nat, memsz : Nat, filesz : Nat, readable : BOOLEAN, text : STRING])
    BY <2>4, MemoryAssumption
  <2>6. r.i \in 1 .. Len(r.prog)
    BY <1>1, <1>3, <1>6, <2>3, <2>5
  <2>7. ph \in [va : Nat, memsz : Nat, filesz : Nat, readable : BOOLEAN, text : STRING]
    BY <2>5, <2>6, Element
  <2>8. ph.va + ph.memsz \in Nat
    BY <2>7
  <2> DEFINE new == ph.va + ph.memsz
             sz == r.sz
  <2>9. act' = [act EXCEPT ![p] = allocuvm(f, sz, new)] /\ new \in Nat /\ sz \in Nat /\ sz <= USERTOP
        /\ Pres(dir[r.d]) = PagesTo(sz)
    BY <1>3, <1>6, <2>1, <2>3, <2>8
  <2>10. f.at = "load" => f.i \in 1 .. Len(f.prog)
    BY <2>2, <2>6
  <2>11. f.at \in {"load", "commit"} /\ r.d # 0
    BY <1>6, <2>2
  <2> HIDE DEF f, new, sz, ph
  <2> QED
    BY <1>1, <2>2, <2>9, <2>10, <2>11, ExecAlloc
<1> QED
  BY <1>4, <1>5, <1>6

\* The step exec_load keeps the invariant.
LEMMA StepLoad ==
  ASSUME MInv, NEW p \in Procs, exec_load(p)
  PROVE  MInv'
<1> DEFINE r == act[p]
<1>1. /\ r.op = "exec" /\ r.at = "load" /\ r.sub = "none"
      /\ proc' = proc /\ panicked' = panicked /\ freelist' = freelist /\ dir' = dir /\ lost' = lost
      /\ \/ Bad(p)
         \/ r.ret # 0 /\ act' = [act EXCEPT ![p].at = "segment", ![p].i = r.i + 1, ![p].sz = r.ret]
  <2>1. act \in [Procs -> Frames \cup {User}]
    BY DEF MInv, Typed
  <2> QED
    BY <2>1 DEF exec_load, In
<1>2. r \in Frames /\ ExecOK(r, Pres(dir[r.d])) /\ act \in [Procs -> Frames \cup {User}]
  BY <1>1, AtExec DEF MInv, Typed
<1>3. r.d # 0 /\ (r.ret = 0 \/ (r.ret <= USERTOP /\ Pres(dir[r.d]) = PagesTo(r.ret)))
  BY <1>1, <1>2 DEF ExecOK
<1>4. CASE Bad(p)
  BY <1>1, <1>3, <1>4, ExecBad
<1>5. CASE r.ret # 0 /\ act' = [act EXCEPT ![p].at = "segment", ![p].i = r.i + 1, ![p].sz = r.ret]
  <2> DEFINE r2 == [r EXCEPT !.at = "segment", !.i = r.i + 1, !.sz = r.ret]
  <2>1. r.i \in Nat /\ r.i + 1 \in Nat /\ r.ret \in Nat /\ r.i + 1 >= 1
    BY <1>2 DEF Frames
  <2>2. /\ r2 \in Frames /\ r2.op = "exec" /\ r2.at = "segment" /\ r2.sub = "none" /\ r2.np = r.np /\ r2.d = r.d
        /\ r2.i = r.i + 1 /\ r2.sz = r.ret
    BY <1>1, <1>2, <2>1 DEF Frames, Ats
  <2>3. act' = [act EXCEPT ![p] = r2]
    BY <1>2, <1>5
  <2> HIDE DEF r2
  <2>4. ExecOK(r2, Pres(dir[r2.d]))
    BY <1>3, <1>5, <2>1, <2>2 DEF ExecOK
  <2> QED
    BY <1>1, <2>2, <2>3, <2>4, ExecStep
<1> QED
  BY <1>1, <1>4, <1>5

\* The step exec_stack keeps the invariant.
LEMMA StepStack ==
  ASSUME MInv, NEW p \in Procs, exec_stack(p)
  PROVE  MInv'
<1> DEFINE r == act[p]
           s == PGROUNDUP(r.sz)
           t == s + PGSIZE
           f == [r EXCEPT !.at = "commit"]
<1>1. /\ r.op = "exec" /\ r.at = "segment" /\ r.sub = "none" /\ r.d # 0
      /\ proc' = proc /\ panicked' = panicked /\ freelist' = freelist /\ dir' = dir /\ lost' = lost
      /\ act' = [act EXCEPT ![p] = allocuvm(f, s, t)]
  BY DEF exec_stack, In, memory
<1>2. r \in Frames /\ ExecOK(r, Pres(dir[r.d]))
  BY <1>1, AtExec
<1>3. r.sz \in Nat /\ r.sz <= USERTOP /\ Pres(dir[r.d]) = PagesTo(r.sz)
  BY <1>1, <1>2 DEF ExecOK, Frames
<1>4. s \in Nat /\ s <= USERTOP /\ Pres(dir[r.d]) = PagesTo(s)
  BY <1>3, RoundedIn
<1>5. t \in Nat
  BY <1>4, MemoryAssumption
<1>6. /\ f \in Frames /\ f.op = "exec" /\ f.at = "commit" /\ f.sub = "none" /\ f.np = r.np /\ f.d = r.d
  BY <1>1, <1>2 DEF Frames, Ats
<1>7. f.at \in {"load", "commit"} /\ (f.at = "load" => f.i \in 1 .. Len(f.prog))
  BY <1>6
<1> HIDE DEF f, s, t
<1> QED
  BY <1>1, <1>4, <1>5, <1>6, <1>7, ExecAlloc

\* The step exec_commit keeps the invariant.
LEMMA StepCommit ==
  ASSUME MInv, NEW p \in Procs, exec_commit(p)
  PROVE  MInv'
<1> DEFINE r == act[p]
           d == act[p].d
           c == proc[p].pgdir
           top == act[p].ret
           stk == Page(act[p].ret) - 1
           u2 == [proc[p] EXCEPT !.pgdir = d, !.sz = top, !.stk = stk]
           r2 == [r EXCEPT !.at = "bad", !.sub = "freevm", !.d = c]
<1>0. act \in [Procs -> Frames \cup {User}] /\ proc \in [Procs -> ProcRecs]
  BY DEF MInv, Typed
<1>1. /\ r.op = "exec" /\ r.at = "commit" /\ r.sub = "none" /\ top # 0
      /\ panicked' = "no" /\ freelist' = freelist /\ dir' = dir /\ lost' = lost
  BY DEF exec_commit, In
<1>2. act' = [act EXCEPT ![p] = r2]
  BY <1>0 DEF exec_commit
<1>3. proc' = [proc EXCEPT ![p] = u2]
  BY <1>0 DEF exec_commit
<1>4. /\ r \in Frames /\ AD[p] = d /\ ExecOK(r, Pres(dir[d]))
      /\ proc[p].state = "RUNNABLE" /\ proc[p].kstack # 0 /\ c # 0 /\ PD[p] = c
      /\ ~Reaped(p) /\ proc[p] \in ProcRecs
  BY <1>1, AtExec
<1>5. d # 0 /\ top <= USERTOP /\ Pres(dir[d]) = PagesTo(top)
  BY <1>1, <1>4 DEF ExecOK
<1>6. d \in PageOr0 /\ c \in PageOr0 /\ top \in Nat /\ stk \in Int
  <2>1. d \in PageOr0 /\ c \in PageOr0 /\ top \in Nat
    BY <1>4 DEF Frames, ProcRecs
  <2>2. Page(top) \in Nat
    BY <2>1, Divides
  <2> QED
    BY <2>1, <2>2
<1> HIDE DEF stk
<1>7. /\ r2 \in Frames /\ r2.op = "exec" /\ r2.np = r.np /\ r2.d = c /\ r2.at = "bad" /\ r2.sub = "freevm"
  BY <1>1, <1>4, <1>6 DEF Frames, Ats, Subs
<1>8. /\ u2 \in ProcRecs /\ u2.state = proc[p].state /\ u2.kstack = proc[p].kstack /\ u2.pgdir = d /\ u2.sz = top
  BY <1>4, <1>6 DEF ProcRecs
<1> HIDE DEF r2, u2
<1>9. r2 # User
  BY <1>7 DEF User
<1>10. Keeps(r, r2) /\ Own(r2) = c
  BY <1>1, <1>7, <1>9 DEF Keeps, Own, Private
<1>11. \A q \in Procs : Reaped(q)' <=> Reaped(q)
  BY <1>2, <1>10, KeepsReaped DEF MInv
<1>12. ReapedBut(p) /\ NewDir(p, u2, u2.pgdir)
  BY <1>4, <1>11 DEF ReapedBut, NewDir
<1>13. KS' = [KS EXCEPT ![p] = u2.kstack]
  BY <1>3, SlotStacks
<1>14. PD' = [PD EXCEPT ![p] = u2.pgdir]
  BY <1>3, <1>12, SlotDirs, Zenon
<1>15. AD' = [AD EXCEPT ![p] = Own(r2)]
  BY <1>2, CallDirs
<1>16. PICK o \in Owners : Owned(o, freelist, KS, PD, AD, dir, lost)
  BY DEF MInv, Owning
<1>17. \E o2 \in Owners : Owned(o2, freelist, KS, [PD EXCEPT ![p] = d], [AD EXCEPT ![p] = c], dir, lost)
  <2> HIDE DEF c, d
  <2> QED
    BY <1>4, <1>5, <1>16, Swap, Zenon
<1>18. KS' = KS
  BY <1>8, <1>13, SameNames, Names DEF MInv
<1>19. Owning'
  BY <1>1, <1>8, <1>10, <1>14, <1>15, <1>17, <1>18 DEF Owning
<1>20. ProcOK(r2, u2, proc'[r2.np], Pres(dir[u2.pgdir]), Pres(dir[r2.d]), Reaped(p))
  <2>1. ExecOK(r2, Pres(dir[r2.d]))
    BY <1>4, <1>7 DEF ExecOK, Freeing
  <2>2. CallOK(r2, u2, proc'[r2.np], Pres(dir[u2.pgdir]), Pres(dir[r2.d]))
    BY <1>5, <1>7, <1>8, <2>1 DEF CallOK
  <2> QED
    BY <1>4, <1>5, <1>8, <1>9, <2>2, GoesOn
<1>21. r2 \in Frames \cup {User}
  BY <1>7
<1> QED
  BY <1>1, <1>2, <1>3, <1>8, <1>10, <1>19, <1>20, <1>21, OwnSlot
----------------------------------------------------------------------------
(* exit and wait                                                           *)

\* Nothing that the invariant is about changes.
LEMMA Stutters ==
  ASSUME MInv, freelist' = freelist, dir' = dir, proc' = proc, act' = act, panicked' = panicked, lost' = lost
  PROVE  MInv'
<1>1. Typed' /\ Alone'
  BY DEF MInv, Typed, Alone
<1>2. \A q \in Procs : Reaped(q)' <=> Reaped(q)
  BY DEF Reaped
<1>3. KS' = KS /\ PD' = PD /\ AD' = AD
  BY <1>2 DEF KS, PD, AD
<1>4. Owning'
  BY <1>3 DEF MInv, Owning
<1>5. ASSUME NEW q \in Procs
      PROVE ProcOK(act[q], proc[q], proc[act[q].np], Pres(dir[proc[q].pgdir]), Pres(dir[act[q].d]), Reaped(q))'
  BY <1>2 DEF MInv, Sane, ProcOK
<1>6. Sane'
  BY <1>5 DEF Sane
<1> QED
  BY <1>1, <1>4, <1>6 DEF MInv

\* Without ptable.lock nobody is reaped.
LEMMA NobodyReaped ==
  ASSUME ~ptable_held
  PROVE  \A q \in Procs : act[q].op # "wait" /\ ~Reaped(q)
  BY DEF ptable_held, Reaped

\* The step Exit keeps the invariant.
LEMMA StepExit ==
  ASSUME MInv, NEW p \in Procs, Exit(p)
  PROVE  MInv'
<1> DEFINE u2 == [proc[p] EXCEPT !.state = "ZOMBIE"]
           F(q) == IF q = p THEN [proc[q] EXCEPT !.state = "ZOMBIE"]
                   ELSE IF proc[q].parent = p THEN [proc[q] EXCEPT !.parent = init] ELSE proc[q]
<1>1. /\ panicked = "no" /\ proc[p].state = "RUNNABLE" /\ act[p] = User /\ ~ptable_held
      /\ freelist' = freelist /\ dir' = dir /\ lost' = lost /\ act' = act /\ panicked' = panicked
  BY DEF Exit, memory
<1>2. proc' = [q \in Procs |-> F(q)]
  BY DEF Exit
<1>3. proc \in [Procs -> ProcRecs] /\ act \in [Procs -> Frames \cup {User}]
  BY DEF MInv, Typed
<1>4. \A q \in Procs : proc'[q] \in ProcRecs /\ (q # p => Alike(proc[q], proc'[q]))
  <2>1. SUFFICES ASSUME NEW q \in Procs PROVE F(q) \in ProcRecs /\ (q # p => Alike(proc[q], F(q)))
    BY <1>2
  <2>2. proc[q] \in ProcRecs
    BY <1>3
  <2>3. CASE q = p
    BY <2>2, <2>3 DEF ProcRecs, States
  <2>4. CASE q # p /\ proc[q].parent = p
    <3>1. F(q) = [proc[q] EXCEPT !.parent = 1]
      BY <2>4 DEF init
    <3> QED
      BY <2>2, <2>4, <3>1 DEF ProcRecs, Alike
  <2>5. CASE q # p /\ proc[q].parent # p
    BY <2>2, <2>5 DEF Alike
  <2> QED
    BY <2>3, <2>4, <2>5
<1>5. /\ proc'[p].state = "ZOMBIE" /\ proc'[p].kstack = proc[p].kstack /\ proc'[p].pgdir = proc[p].pgdir
      /\ proc'[p].sz = proc[p].sz
  <2>1. proc'[p] = u2
    BY <1>2
  <2>2. proc[p] \in ProcRecs
    BY <1>3
  <2>3. u2.state = "ZOMBIE" /\ u2.kstack = proc[p].kstack /\ u2.pgdir = proc[p].pgdir /\ u2.sz = proc[p].sz
    BY <2>2 DEF ProcRecs
  <2> QED
    BY <2>1, <2>3
<1>6. \A q \in Procs : proc'[q].kstack = proc[q].kstack /\ proc'[q].pgdir = proc[q].pgdir
  BY <1>4, <1>5 DEF Alike
<1>7. \A q \in Procs : ~Reaped(q) /\ ~Reaped(q)'
  <2>1. \A q \in Procs : ~Reaped(q)
    BY <1>1, NobodyReaped
  <2> QED
    BY <1>1, <2>1 DEF Reaped
<1>8. Typed'
  <2>1. proc' \in [Procs -> ProcRecs]
    BY <1>2, <1>4
  <2> QED
    BY <1>1, <2>1 DEF MInv, Typed
<1>9. Owning'
  <2>1. KS' = KS
    BY <1>6 DEF KS
  <2>2. PD' = PD
    BY <1>6, <1>7 DEF PD
  <2>3. AD' = AD
    BY <1>1 DEF AD
  <2> QED
    BY <1>1, <2>1, <2>2, <2>3 DEF MInv, Owning
<1>10. Alone'
  BY <1>1 DEF MInv, Alone
<1>11. ProcOK(act[p], proc[p], proc[act[p].np], Pres(dir[proc[p].pgdir]), Pres(dir[act[p].d]), Reaped(p))
  BY DEF MInv, Sane
<1>12. ASSUME NEW q \in Procs
       PROVE ProcOK(act[q], proc[q], proc[act[q].np], Pres(dir[proc[q].pgdir]), Pres(dir[act[q].d]), Reaped(q))'
  <2>1. CASE q = p
    <3>1. proc[p].kstack # 0 /\ proc[p].pgdir # 0 /\ proc[p].sz <= USERTOP
      BY <1>1, <1>11 DEF ProcOK
    <3> QED
      BY <1>1, <1>5, <1>7, <2>1, <3>1 DEF ProcOK
  <2>2. CASE q # p
    <3>1. act[q].op \in {"fork", "wait"} => act[q].np \in Procs /\ act[q].np # p
      BY <1>1, Slot
    <3>2. act[q].op \in {"fork", "wait"} =>
            proc'[act[q].np].state = proc[act[q].np].state /\ proc'[act[q].np].kstack = proc[act[q].np].kstack
      BY <1>4, <3>1 DEF Alike
    <3>3. Alike(proc[q], proc'[q]) /\ act'[q] = act[q] /\ (Reaped(q)' <=> Reaped(q)) /\ dir' = dir
      BY <1>1, <1>4, <1>7, <2>2
    <3> QED
      BY <3>2, <3>3, Others
  <2> QED
    BY <2>1, <2>2
<1>13. Sane'
  BY <1>12 DEF Sane
<1> QED
  BY <1>8, <1>9, <1>10, <1>13 DEF MInv

\* The step Wait keeps the invariant.
LEMMA StepWait ==
  ASSUME MInv, NEW p \in Procs, NEW z \in Procs, Wait(p, z)
  PROVE  MInv'
<1> DEFINE d == proc[z].pgdir
           f == Frame("wait", "reap", "freevm", d)
           r2 == [f EXCEPT !.np = z]
           u2 == [proc[z] EXCEPT !.kstack = 0]
<1>1. /\ Runs(p) /\ ~ptable_held /\ proc[z].state = "ZOMBIE" /\ freelist' = <<proc[z].kstack>> \o freelist
      /\ dir' = dir /\ lost' = lost /\ panicked' = panicked
  BY DEF Wait, kfree
<1>2. act' = [act EXCEPT ![p] = r2]
  BY DEF Wait
<1>3. proc' = [proc EXCEPT ![z] = u2]
  BY DEF Wait, MInv, Typed
<1>4. /\ act[p] = User /\ proc[p] \in ProcRecs /\ proc[p].state = "RUNNABLE" /\ proc[p].kstack # 0
      /\ proc[p].pgdir # 0 /\ ~Reaped(p) /\ proc[p].sz <= USERTOP /\ panicked = "no"
      /\ Pres(dir[proc[p].pgdir]) = PagesTo(proc[p].sz) /\ AD[p] = 0
  BY <1>1, AtUser
<1>5. \A q \in Procs : act[q].op # "wait" /\ ~Reaped(q)
  BY <1>1, NobodyReaped
<1>6. /\ proc[z] \in ProcRecs /\ act[z] = User /\ z # p /\ proc[z].kstack # 0 /\ d # 0 /\ proc[z].sz <= USERTOP
      /\ KS[z] = proc[z].kstack /\ PD[z] = d
  <2>1. ProcOK(act[z], proc[z], proc[act[z].np], Pres(dir[proc[z].pgdir]), Pres(dir[act[z].d]), Reaped(z))
    BY DEF MInv, Sane
  <2> QED
    BY <1>1, <1>4, <1>5, <2>1, Names DEF ProcOK, MInv, Typed
<1>7. d \in PageOr0 /\ 0 \in PageOr0
  BY <1>6, MemoryAssumption DEF ProcRecs, PageOr0
<1>8. f \in Frames /\ f.op = "wait" /\ f.at = "reap" /\ f.sub = "freevm" /\ f.d = d
  BY <1>7 DEF Frame, Frames, Ats, Subs
<1> HIDE DEF f, d
<1>9. r2 \in Frames /\ r2.op = "wait" /\ r2.at = "reap" /\ r2.sub = "freevm" /\ r2.d = d /\ r2.np = z
  BY <1>8 DEF Frames, Procs
<1>10. u2 \in ProcRecs /\ u2.state = "ZOMBIE" /\ u2.kstack = 0 /\ u2.pgdir = d /\ u2.sz = proc[z].sz
  BY <1>1, <1>6, <1>7 DEF ProcRecs, d
<1> HIDE DEF r2, u2
<1>11. act'[p] = r2 /\ \A q \in Procs : q # p => act'[q] = act[q]
  BY <1>2 DEF MInv, Typed
<1>12. \A q \in Procs : Reaped(q)' <=> q = z
  <2>1. \A q \in Procs : act'[q].op = "wait" <=> q = p
    BY <1>5, <1>9, <1>11
  <2> QED
    BY <1>9, <1>11, <2>1 DEF Reaped
<1>13. ReapedBut(z) /\ NewDir(z, u2, 0)
  BY <1>5, <1>12 DEF ReapedBut, NewDir
<1>14. Only(p, z)
  BY <1>1, <1>5, Slot DEF Only
<1>15. Fits(z, u2)
  BY <1>6, <1>10, <1>12, Fitting
<1>16. r2 # User
  BY <1>9 DEF User
<1>17. Own(r2) = d
  BY <1>9, <1>16 DEF Own, Private
<1>18. Alone'
  <2>1. \A q \in Procs : act'[q].op = "wait" => q = p
    BY <1>5, <1>11
  <2>2. \A q \in Procs : act'[q].op = "fork" => q # p /\ act'[q] = act[q]
    BY <1>9, <1>11
  <2>3. \A q \in Procs : act[q].op = "fork" => act[q] # User
    BY DEF User
  <2> QED
    BY <2>1, <2>2, <2>3 DEF MInv, Alone
<1>19. KS' = [KS EXCEPT ![z] = 0]
  <2>1. KS' = [KS EXCEPT ![z] = u2.kstack]
    BY <1>3, SlotStacks
  <2> QED
    BY <1>10, <2>1
<1>20. PD' = [PD EXCEPT ![z] = 0]
  BY <1>3, <1>13, SlotDirs, Zenon
<1>21. AD' = [AD EXCEPT ![p] = d]
  <2>1. AD' = [AD EXCEPT ![p] = Own(r2)]
    BY <1>2, CallDirs
  <2> QED
    BY <1>17, <2>1
<1>22. Owning'
  <2>1. PICK o \in Owners : Owned(o, freelist, KS, PD, AD, dir, lost)
    BY DEF MInv, Owning
  <2>2. KS[z] # 0
    BY <1>6
  <2>3. PICK o1 \in Owners : Owned(o1, <<KS[z]>> \o freelist, [KS EXCEPT ![z] = 0], PD, AD, dir, lost)
    BY <2>1, <2>2, GiveStack, Zenon
  <2>4. \E o2 \in Owners : Owned(o2, <<KS[z]>> \o freelist, [KS EXCEPT ![z] = 0], [PD EXCEPT ![z] = 0],
                                 [AD EXCEPT ![p] = d], dir, lost)
    BY <1>4, <1>6, <2>3, MoveOut, Zenon
  <2>5. freelist' = <<KS[z]>> \o freelist
    BY <1>1, <1>6
  <2> QED
    BY <1>1, <1>19, <1>20, <1>21, <2>4, <2>5 DEF Owning
<1>23. ProcOK(r2, proc[p], proc'[r2.np], Pres(dir[proc[p].pgdir]), Pres(dir[r2.d]), Reaped(p))
  <2>1. proc'[z] = u2
    BY <1>3 DEF MInv, Typed
  <2>2. WaitOK(r2, u2)
    BY <1>6, <1>9, <1>10 DEF WaitOK, Freeing
  <2>3. CallOK(r2, proc[p], u2, Pres(dir[proc[p].pgdir]), Pres(dir[r2.d]))
    BY <1>4, <1>9, <2>2 DEF CallOK
  <2>4. ProcOK(r2, proc[p], u2, Pres(dir[proc[p].pgdir]), Pres(dir[r2.d]), Reaped(p))
    BY <1>4, <1>16, <2>3, GoesOn
  <2> QED
    BY <1>9, <2>1, <2>4
<1>24. r2 \in Frames \cup {User} /\ panicked' = "no"
  BY <1>1, <1>4, <1>9
<1> QED
  BY <1>1, <1>2, <1>3, <1>6, <1>10, <1>13, <1>14, <1>15, <1>18, <1>22, <1>23, <1>24, SlotStep

\* The step wait_return keeps the invariant.
LEMMA StepWaitReturn ==
  ASSUME MInv, NEW p \in Procs, wait_return(p)
  PROVE  MInv'
<1> DEFINE r == act[p]
<1>1. /\ r.op = "wait" /\ r.sub = "none" /\ act' = [act EXCEPT ![p] = User] /\ proc' = [proc EXCEPT ![r.np] = UNUSED]
      /\ freelist' = freelist /\ dir' = dir /\ lost' = lost /\ panicked' = "no"
  BY DEF wait_return, In, Return, memory
<1>2. /\ r # User /\ proc[p] \in ProcRecs /\ proc[p].state = "RUNNABLE" /\ ~Reaped(p)
      /\ proc[p].kstack # 0 /\ proc[p].pgdir # 0 /\ proc[p].sz <= USERTOP
      /\ CallOK(r, proc[p], proc[r.np], Pres(dir[proc[p].pgdir]), Pres(dir[r.d]))
  BY <1>1, InCall
<1>3. WaitOK(r, proc[r.np]) /\ Pres(dir[proc[p].pgdir]) = PagesTo(proc[p].sz)
  BY <1>1, <1>2 DEF CallOK
<1>4. r.np \in Procs /\ proc[r.np].state = "ZOMBIE" /\ proc[r.np].kstack = 0 /\ r.d = 0
  BY <1>1, <1>3 DEF WaitOK, Freeing
<1>5. PICK z \in Procs : z = r.np
  BY <1>4
<1>6. z # p /\ act[z] = User /\ KS[z] = 0
  BY <1>2, <1>4, <1>5, AtSlot
<1>7. Reaped(z)
  BY <1>1, <1>5 DEF Reaped
<1>8. PD[z] = 0 /\ AD[p] = 0
  <2>1. AD[p] = Own(r)
    BY Names DEF MInv
  <2> QED
    BY <1>4, <1>7, <2>1, Names DEF MInv, Own
<1>9. \A q \in Procs : q # p => act[q].op # "wait"
  <2>1. \A q \in Procs : act[q].op = "wait" => act[q] # User
    BY DEF User
  <2> QED
    BY <1>1, <1>2, <2>1 DEF MInv, Alone
<1>10. act'[p] = User /\ \A q \in Procs : q # p => act'[q] = act[q]
  BY <1>1 DEF MInv, Typed
<1>11. \A q \in Procs : ~Reaped(q)'
  <2>1. \A q \in Procs : act'[q].op # "wait"
    BY <1>9, <1>10, BackInUser
  <2> QED
    BY <2>1 DEF Reaped
<1>12. ReapedBut(z)
  BY <1>1, <1>5, <1>9, <1>11 DEF Reaped, ReapedBut
<1>13. Only(p, z)
  BY <1>4, <1>5, <1>9, Slot DEF Only
<1>14. Fits(z, UNUSED)
  BY <1>11, Blank, Fitting
<1>15. Alone'
  BY <1>1, AloneKept, BackInUser
<1>16. proc' = [proc EXCEPT ![z] = UNUSED]
  BY <1>1, <1>5
<1>17. Owning'
  <2>1. KS' = [KS EXCEPT ![z] = UNUSED.kstack]
    BY <1>16, SlotStacks
  <2>2. NewDir(z, UNUSED, UNUSED.pgdir)
    BY <1>11 DEF NewDir
  <2>3. PD' = [PD EXCEPT ![z] = UNUSED.pgdir]
    BY <1>12, <1>16, <2>2, SlotDirs, Zenon
  <2>4. AD' = [AD EXCEPT ![p] = Own(User)]
    BY <1>1, CallDirs
  <2>5. KS' = KS /\ PD' = PD /\ AD' = AD
    BY <1>6, <1>8, <2>1, <2>3, <2>4, Blank, BackInUser, SameNames
  <2> QED
    BY <1>1, <2>5 DEF MInv, Owning
<1>18. ProcOK(User, proc[p], proc'[User.np], Pres(dir[proc[p].pgdir]), Pres(dir[User.d]), Reaped(p))
  BY <1>2, <1>3 DEF ProcOK
<1>19. User \in Frames \cup {User} /\ UNUSED \in ProcRecs
  BY Blank
<1> QED
  BY <1>1, <1>6, <1>12, <1>13, <1>14, <1>15, <1>16, <1>17, <1>18, <1>19, SlotStep
----------------------------------------------------------------------------
(* userinit has run.                                                       *)

\* kinit is a sequence of the pages, the highest first.
LEMMA KinitIs ==
  /\ \A i \in Pages : kinit[i] = NPAGE + 1 - i /\ kinit[i] \in Pages
  /\ NPAGE \in Nat /\ KTABS \in Nat /\ KTABS >= 1 /\ NPAGE >= KTABS + 3
  BY MemoryAssumption DEF kinit, Pages

\* What a part of it is.
Part(s, m, n) == s = SubSeq(kinit, m, n) /\ m >= 1 /\ n <= NPAGE /\ m <= n + 1

\* A part of kinit has its pages in order, each one once.
LEMMA PartOf ==
  ASSUME NEW m \in Nat, NEW n \in Nat, NEW s, Part(s, m, n)
  PROVE  /\ s \in Seq(Pages) /\ Len(s) = n + 1 - m /\ Distinct(s)
         /\ \A i \in 1 .. Len(s) : s[i] = NPAGE + 2 - m - i /\ s[i] \in Pages
<1>0. s = SubSeq(kinit, m, n) /\ m >= 1 /\ n <= NPAGE /\ m <= n + 1
  BY DEF Part
<1>1. \A i \in m .. n : i \in Pages /\ kinit[i] \in Pages
  BY <1>0, KinitIs DEF Pages
<1>2. /\ s \in Seq(Pages) /\ Len(s) = IF m <= n THEN n - m + 1 ELSE 0
      /\ \A i \in 1 .. n - m + 1 : s[i] = kinit[m + i - 1]
  BY <1>0, <1>1, SubSeqProperties
<1>3. Len(s) = n + 1 - m /\ Len(s) \in Nat
  BY <1>0, <1>2
<1>4. ASSUME NEW i \in 1 .. Len(s) PROVE s[i] = NPAGE + 2 - m - i /\ s[i] \in Pages
  <2>1. i \in 1 .. n - m + 1 /\ m + i - 1 \in m .. n /\ m + i - 1 \in Int
    BY <1>0, <1>3
  <2>2. s[i] = kinit[m + i - 1]
    BY <1>2, <2>1
  <2> DEFINE j == m + i - 1
  <2>3. j \in m .. n /\ s[i] = kinit[j]
    BY <2>1, <2>2
  <2>4. j \in Pages /\ NPAGE + 1 - j = NPAGE + 2 - m - i
    BY <1>0, <1>1, <2>1, KinitIs
  <2> HIDE DEF j
  <2> QED
    BY <2>3, <2>4, KinitIs
<1>5. Distinct(s)
  <2>1. SUFFICES ASSUME NEW i \in 1 .. Len(s), NEW j \in 1 .. Len(s), s[i] = s[j] PROVE i = j
    BY DEF Distinct
  <2>2. i \in Int /\ j \in Int
    BY <1>3
  <2> QED
    BY <1>4, <2>1, <2>2, KinitIs
<1> QED
  BY <1>2, <1>3, <1>4, <1>5

\* The owners of the pages.
FirstOwner(pg) ==
  LET i == NPAGE + 1 - pg
  IN  IF i = 1 THEN [k |-> "kstack", a |-> 1, b |-> 0]
      ELSE IF i = 2 THEN [k |-> "pd", a |-> 1, b |-> 0]
      ELSE IF i <= KTABS + 2 THEN [k |-> "table", a |-> NPAGE - 1, b |-> 0]
      ELSE IF i = KTABS + 3 THEN [k |-> "user", a |-> NPAGE - 1, b |-> 0]
      ELSE [k |-> "free", a |-> 0, b |-> 0]
FirstOwners == [pg \in Pages |-> FirstOwner(pg)]

\* The owner of each page when userinit has made the first process.
LEMMA FirstOwnersAre ==
  /\ FirstOwners \in Owners
  /\ \A pg \in Pages :
       /\ pg = NPAGE => Is(FirstOwners, pg, "kstack", 1, 0)
       /\ pg = NPAGE - 1 => Is(FirstOwners, pg, "pd", 1, 0)
       /\ pg < NPAGE - 1 /\ pg >= NPAGE - 1 - KTABS => Is(FirstOwners, pg, "table", NPAGE - 1, 0)
       /\ pg = NPAGE - 2 - KTABS => Is(FirstOwners, pg, "user", NPAGE - 1, 0)
       /\ pg < NPAGE - 2 - KTABS => FirstOwners[pg].k = "free"
<1>0. NPAGE \in Nat /\ KTABS \in Nat /\ KTABS >= 1 /\ NPAGE >= KTABS + 3 /\ Pages = 1 .. NPAGE
  BY KinitIs DEF Pages
<1>1. ASSUME NEW pg \in Pages
      PROVE  /\ FirstOwner(pg) \in [k : Kinds, a : Nat, b : Nat]
             /\ pg = NPAGE => FirstOwner(pg) = [k |-> "kstack", a |-> 1, b |-> 0]
             /\ pg = NPAGE - 1 => FirstOwner(pg) = [k |-> "pd", a |-> 1, b |-> 0]
             /\ pg < NPAGE - 1 /\ pg >= NPAGE - 1 - KTABS => FirstOwner(pg) = [k |-> "table", a |-> NPAGE - 1, b |-> 0]
             /\ pg = NPAGE - 2 - KTABS => FirstOwner(pg) = [k |-> "user", a |-> NPAGE - 1, b |-> 0]
             /\ pg < NPAGE - 2 - KTABS => FirstOwner(pg) = [k |-> "free", a |-> 0, b |-> 0]
  BY <1>0 DEF FirstOwner, Kinds
<1>2. \A pg \in Pages : FirstOwners[pg] = FirstOwner(pg)
  BY DEF FirstOwners
<1>3. FirstOwners \in Owners
  BY <1>1 DEF FirstOwners, Owners
<1> QED
  BY <1>1, <1>2, <1>3 DEF Is
\* The first page directory.
LEMMA FirstDirIs ==
  /\ FirstDir \in Dirents /\ FirstDir.tab \in Seq(Pages) /\ Distinct(FirstDir.tab) /\ Len(FirstDir.tab) = KTABS
  /\ \A i \in 1 .. KTABS : FirstDir.tab[i] = NPAGE - 1 - i
  /\ FirstDir.pte \in [VPage -> PageOr0] /\ 0 \in VPage
  /\ FirstDir.pte[0] = NPAGE - 2 - KTABS /\ \A v \in VPage : v # 0 => FirstDir.pte[v] = 0
  /\ Pres(FirstDir) = PagesTo(PGSIZE)
<1>0. /\ NPAGE \in Nat /\ KTABS \in Nat /\ KTABS >= 1 /\ NPAGE >= KTABS + 3 /\ Pages = 1 .. NPAGE /\ PageOr0 = 0 .. NPAGE
      /\ 0 \in VPage
  BY KinitIs, MemoryAssumption DEF Pages, PageOr0, VPage
<1> DEFINE t == SubSeq(kinit, 3, KTABS + 2)
           c == kinit[KTABS + 3]
           f == [v \in VPage |-> IF v = 0 THEN c ELSE 0]
<1>1. /\ t \in Seq(Pages) /\ Len(t) = KTABS /\ Distinct(t)
      /\ \A i \in 1 .. KTABS : t[i] = NPAGE - 1 - i
  <2>1. PICK m \in Nat, n \in Nat : m = 3 /\ n = KTABS + 2
    BY <1>0
  <2>2. Part(t, m, n)
    BY <1>0, <2>1 DEF Part
  <2> HIDE DEF t
  <2>3. /\ t \in Seq(Pages) /\ Len(t) = n + 1 - m /\ Distinct(t)
        /\ \A i \in 1 .. Len(t) : t[i] = NPAGE + 2 - m - i
    BY <2>2, PartOf
  <2>4. n + 1 - m = KTABS /\ \A i \in 1 .. KTABS : NPAGE + 2 - m - i = NPAGE - 1 - i
    BY <1>0, <2>1
  <2> QED
    BY <2>3, <2>4
<1>2. c = NPAGE - 2 - KTABS /\ c \in Pages /\ c \in PageOr0 /\ c # 0 /\ 0 \in PageOr0
  <2>1. KTABS + 3 \in Pages
    BY <1>0
  <2> QED
    BY <1>0, <2>1, KinitIs
<1> HIDE DEF t, c
<1>3. f \in [VPage -> PageOr0] /\ f[0] = c /\ \A v \in VPage : v # 0 => f[v] = 0
  BY <1>0, <1>2
<1>4. FirstDir = [tab |-> t, pte |-> f]
  BY DEF FirstDir, t, c
<1> HIDE DEF f
<1>5. FirstDir.tab = t /\ FirstDir.pte = f /\ FirstDir \in Dirents
  BY <1>1, <1>3, <1>4 DEF Dirents
<1>6. PagesTo(PGSIZE) = {v \in VPage : v = 0}
  <2>1. ASSUME NEW v \in VPage PROVE v * PGSIZE < PGSIZE <=> v = 0
    <3>1. v \in Nat /\ PGSIZE \in Nat \ {0}
      BY VPageNat
    <3>2. PICK w \in Nat : w = 1
      OBVIOUS
    <3>3. w <= v => w * PGSIZE <= v * PGSIZE
      BY <3>1, <3>2, Below
    <3>4. w * PGSIZE = PGSIZE /\ 0 * PGSIZE = 0 /\ v * PGSIZE \in Nat
      BY <3>1, <3>2, Below
    <3> QED
      BY <3>1, <3>2, <3>3, <3>4
  <2> QED
    BY <2>1 DEF PagesTo
<1>7. Pres(FirstDir) = {v \in VPage : v = 0}
  BY <1>2, <1>3, <1>5 DEF Pres
<1> QED
  BY <1>0, <1>1, <1>2, <1>3, <1>5, <1>6, <1>7

\* These own the pages initially.
LEMMA FirstOwned ==
  ASSUME Init
  PROVE  Owning /\ \A q \in Procs : ~Reaped(q)
<1> DEFINE o == FirstOwners
           D == NPAGE - 1
<1>0. /\ NPAGE \in Nat /\ KTABS \in Nat /\ KTABS >= 1 /\ NPAGE >= KTABS + 3 /\ Pages = 1 .. NPAGE /\ PageOr0 = 0 .. NPAGE
      /\ 1 \in Procs /\ NPAGE \in PageOr0 /\ D \in PageOr0 /\ 0 \in PageOr0 /\ D \in Pages /\ NPAGE \in Pages
  BY KinitIs, MemoryAssumption DEF Pages, PageOr0, Procs
<1>1. /\ o \in Owners
      /\ \A pg \in Pages :
           /\ pg = NPAGE => Is(o, pg, "kstack", 1, 0)
           /\ pg = D => Is(o, pg, "pd", 1, 0)
           /\ pg < D /\ pg >= D - KTABS => Is(o, pg, "table", D, 0)
           /\ pg = D - 1 - KTABS => Is(o, pg, "user", D, 0)
           /\ pg < D - 1 - KTABS => o[pg].k = "free"
  <2>1. /\ o \in Owners
        /\ \A pg \in Pages :
             /\ pg = NPAGE => Is(o, pg, "kstack", 1, 0)
             /\ pg = NPAGE - 1 => Is(o, pg, "pd", 1, 0)
             /\ pg < NPAGE - 1 /\ pg >= NPAGE - 1 - KTABS => Is(o, pg, "table", NPAGE - 1, 0)
             /\ pg = NPAGE - 2 - KTABS => Is(o, pg, "user", NPAGE - 1, 0)
             /\ pg < NPAGE - 2 - KTABS => o[pg].k = "free"
    BY FirstOwnersAre
  <2>2. NPAGE - 2 - KTABS = D - 1 - KTABS
    BY <1>0
  <2> QED
    BY <2>1, <2>2
<1>2. /\ o[NPAGE].k = "kstack" /\ o[D].k = "pd"
      /\ \A pg \in Pages : /\ o[pg].k = "kstack" => pg = NPAGE
                           /\ o[pg].k = "pd" => pg = D
                           /\ o[pg].k = "table" => pg < D /\ pg >= D - KTABS
                           /\ o[pg].k = "user" => pg = D - 1 - KTABS
                           /\ o[pg].k = "free" => pg < D - 1 - KTABS
                           /\ o[pg].k # "ad" /\ o[pg].k # "lost"
  <2>1. \A pg \in Pages : pg = NPAGE \/ pg = D \/ (pg < D /\ pg >= D - KTABS) \/ pg = D - 1 - KTABS \/ pg < D - 1 - KTABS
    BY <1>0
  <2> QED
    BY <1>0, <1>1, <2>1 DEF Is
<1> HIDE DEF o
<1>3. /\ dir \in [Pages -> Dirents] /\ dir[D] = FirstDir /\ lost = {} /\ act = [p \in Procs |-> User]
      /\ freelist = SubSeq(kinit, KTABS + 4, NPAGE)
  <2>1. kinit[2] = D
    BY <1>0, KinitIs
  <2>2. NoDir \in Dirents
    <3>1. <<>> \in Seq(Pages)
      OBVIOUS
    <3> QED
      BY <3>1 DEF NoDir, Dirents
  <2> QED
    BY <1>0, <2>1, <2>2, FirstDirIs DEF Init
<1>4. \A q \in Procs : ~Reaped(q)
  <2>1. \A q \in Procs : act[q] = User
    BY <1>3
  <2> QED
    BY <2>1, BackInUser DEF Reaped
<1>5. /\ proc[1].kstack = NPAGE /\ proc[1].pgdir = D
      /\ \A p \in Procs : p # 1 => proc[p].kstack = 0 /\ proc[p].pgdir = 0
  <2>1. kinit[1] = NPAGE /\ kinit[2] = D
    BY <1>0, KinitIs
  <2>2. proc[1] = [UNUSED EXCEPT !.state = "RUNNABLE", !.kstack = kinit[1], !.pgdir = kinit[2], !.sz = PGSIZE]
    BY <1>0 DEF Init, init
  <2>3. \A p \in Procs : p # 1 => proc[p] = UNUSED
    BY DEF Init, init
  <2> QED
    BY <2>1, <2>2, <2>3 DEF UNUSED
<1> HIDE DEF D
<1>6. Named(o, "kstack", KS)
  <2>1. KS \in [Procs -> PageOr0] /\ KS[1] = NPAGE /\ \A p \in Procs : p # 1 => KS[p] = 0
    BY <1>0, <1>5 DEF KS
  <2> QED
    BY <1>0, <1>1, <1>2, <2>1 DEF Named, Is
<1>7. Named(o, "pd", PD)
  <2>1. PD \in [Procs -> PageOr0] /\ PD[1] = D /\ \A p \in Procs : p # 1 => PD[p] = 0
    BY <1>0, <1>4, <1>5 DEF PD
  <2> QED
    BY <1>0, <1>1, <1>2, <2>1 DEF Named, Is
<1>8. Named(o, "ad", AD)
  <2>1. AD \in [Procs -> PageOr0] /\ \A p \in Procs : AD[p] = 0
    BY <1>0, <1>3, BackInUser DEF AD
  <2> QED
    BY <1>2, <2>1 DEF Named
<1>9. ListOwns(o, freelist, lost)
  <2>1. PICK m \in Nat : m = KTABS + 4
    BY <1>0
  <2>2. Part(freelist, m, NPAGE)
    BY <1>0, <1>3, <2>1 DEF Part
  <2>3. /\ freelist \in Seq(Pages) /\ Len(freelist) = NPAGE + 1 - m /\ Distinct(freelist)
        /\ \A i \in 1 .. Len(freelist) : freelist[i] = NPAGE + 2 - m - i /\ freelist[i] \in Pages
    BY <1>0, <2>2, PartOf
  <2>4. \A i \in 1 .. Len(freelist) : o[freelist[i]].k = "free"
    <3>1. ASSUME NEW i \in 1 .. Len(freelist) PROVE freelist[i] < D - 1 - KTABS
      <4>1. i \in Nat /\ i >= 1
        BY <1>0, <2>1, <2>3
      <4> QED
        BY <1>0, <2>1, <2>3, <4>1 DEF D
    <3> QED
      BY <1>1, <2>3, <3>1
  <2>5. ASSUME NEW pg \in Pages, o[pg].k = "free" PROVE \E i \in 1 .. Len(freelist) : freelist[i] = pg
    <3>1. pg < D - 1 - KTABS /\ pg \in Nat /\ pg >= 1
      BY <1>0, <1>2, <2>5
    <3> DEFINE i == NPAGE + 2 - m - pg
    <3>2. i \in 1 .. Len(freelist) /\ NPAGE + 2 - m - i = pg
      BY <1>0, <2>1, <2>3, <3>1 DEF D
    <3> QED
      BY <2>3, <3>2
  <2>6. \A pg \in Pages : o[pg].k = "lost" <=> pg \in lost
    BY <1>2, <1>3
  <2> QED
    BY <1>3, <2>3, <2>4, <2>5, <2>6 DEF ListOwns
<1>10. DirOwns(o, dir)
  <2>1. \A d \in Pages : Holds(o, d) <=> d = D
    BY <1>0, <1>2 DEF Holds
  <2>2. /\ FirstDir.tab \in Seq(Pages) /\ Distinct(FirstDir.tab) /\ Len(FirstDir.tab) = KTABS
        /\ \A i \in 1 .. KTABS : FirstDir.tab[i] = D - i
        /\ FirstDir.pte \in [VPage -> PageOr0] /\ 0 \in VPage
        /\ FirstDir.pte[0] = D - 1 - KTABS /\ \A v \in VPage : v # 0 => FirstDir.pte[v] = 0
    <3>1. NPAGE - 2 - KTABS = D - 1 - KTABS
      BY <1>0 DEF D
    <3> QED
      BY <3>1, FirstDirIs DEF D
  <2>3. ASSUME NEW i \in 1 .. Len(FirstDir.tab) PROVE Is(o, FirstDir.tab[i], "table", D, 0)
    <3>1. FirstDir.tab[i] = D - i /\ D - i \in Pages /\ D - i < D /\ D - i >= D - KTABS
      BY <1>0, <2>2 DEF D
    <3> QED
      BY <1>1, <3>1
  <2>4. ASSUME NEW v \in VPage, FirstDir.pte[v] # 0 PROVE Is(o, FirstDir.pte[v], "user", D, v)
    <3>1. v = 0
      BY <2>2, <2>4
    <3>2. D - 1 - KTABS \in Pages
      BY <1>0 DEF D
    <3> QED
      BY <1>1, <2>2, <3>1, <3>2
  <2>5. ASSUME NEW pg \in Pages, o[pg].k = "table"
        PROVE  o[pg].a = D /\ \E i \in 1 .. Len(FirstDir.tab) : FirstDir.tab[i] = pg
    <3>1. pg < D /\ pg >= D - KTABS /\ pg \in Nat
      BY <1>0, <1>2, <2>5
    <3>2. D - pg \in 1 .. KTABS /\ D - (D - pg) = pg
      BY <1>0, <3>1 DEF D
    <3>3. FirstDir.tab[D - pg] = pg
      BY <2>2, <3>2
    <3> QED
      BY <1>1, <2>2, <3>1, <3>2, <3>3 DEF Is
  <2>6. ASSUME NEW pg \in Pages, o[pg].k = "user"
        PROVE  o[pg].a = D /\ o[pg].b = 0 /\ FirstDir.pte[0] = pg
    BY <1>1, <1>2, <2>2, <2>6 DEF Is
  <2>7. ASSUME NEW d \in Pages, Holds(o, d)
        PROVE  /\ dir[d].tab \in Seq(Pages) /\ Distinct(dir[d].tab) /\ dir[d].pte \in [VPage -> PageOr0]
               /\ \A i \in 1 .. Len(dir[d].tab) : Is(o, dir[d].tab[i], "table", d, 0)
               /\ \A v \in VPage : dir[d].pte[v] # 0 => Is(o, dir[d].pte[v], "user", d, v)
    <3>1. d = D /\ dir[d] = FirstDir
      BY <1>3, <2>1, <2>7
    <3> QED
      BY <2>2, <2>3, <2>4, <3>1
  <2>8. Holds(o, D) /\ D \in Pages /\ dir[D] = FirstDir /\ 0 \in VPage
    BY <1>0, <1>3, <2>1, <2>2
  <2>9. ASSUME NEW pg \in Pages, o[pg].k = "table"
        PROVE  /\ o[pg].a \in Pages /\ Holds(o, o[pg].a)
               /\ \E i \in 1 .. Len(dir[o[pg].a].tab) : dir[o[pg].a].tab[i] = pg
    BY <2>5, <2>8, <2>9
  <2>10. ASSUME NEW pg \in Pages, o[pg].k = "user"
         PROVE  /\ o[pg].a \in Pages /\ Holds(o, o[pg].a) /\ o[pg].b \in VPage
                /\ dir[o[pg].a].pte[o[pg].b] = pg
    BY <2>6, <2>8, <2>10
  <2> QED
    BY <2>7, <2>9, <2>10 DEF DirOwns
<1>11. Owned(o, freelist, KS, PD, AD, dir, lost)
  BY <1>1, <1>6, <1>7, <1>8, <1>9, <1>10 DEF Owned
<1> QED
  BY <1>1, <1>4, <1>11 DEF Owning

\* The invariant holds initially.
LEMMA MInvInit == Init => MInv
<1> SUFFICES ASSUME Init PROVE MInv
  OBVIOUS
<1>0. /\ NPAGE \in Nat /\ KTABS \in Nat /\ KTABS >= 1 /\ NPAGE >= KTABS + 3 /\ Pages = 1 .. NPAGE /\ PageOr0 = 0 .. NPAGE
      /\ 1 \in Procs /\ PGSIZE \in Nat
  BY KinitIs, MemoryAssumption DEF Pages, PageOr0, Procs
<1>1. kinit[1] = NPAGE /\ kinit[2] = NPAGE - 1
  BY <1>0, KinitIs
<1> DEFINE u == [UNUSED EXCEPT !.state = "RUNNABLE", !.kstack = kinit[1], !.pgdir = kinit[2], !.sz = PGSIZE]
<1>2. u \in ProcRecs /\ u.state = "RUNNABLE" /\ u.kstack = NPAGE /\ u.pgdir = NPAGE - 1 /\ u.sz = PGSIZE
  <2>1. kinit[1] \in PageOr0 /\ kinit[2] \in PageOr0
    BY <1>0, <1>1
  <2> QED
    BY <1>0, <1>1, <2>1, Blank DEF ProcRecs, States
<1>3. proc = [p \in Procs |-> IF p = 1 THEN u ELSE UNUSED]
  BY DEF Init, init
<1> HIDE DEF u
<1>4. /\ proc \in [Procs -> ProcRecs] /\ proc[1] = u /\ \A p \in Procs : p # 1 => proc[p] = UNUSED
  BY <1>0, <1>2, <1>3, Blank
<1>5. act \in [Procs -> Frames \cup {User}] /\ \A p \in Procs : act[p] = User
  BY DEF Init
<1>6. dir \in [Pages -> Dirents] /\ dir[NPAGE - 1] = FirstDir
  <2>2. NoDir \in Dirents
    <3>1. <<>> \in Seq(Pages)
      OBVIOUS
    <3> QED
      BY <3>1 DEF NoDir, Dirents
  <2> QED
    BY <1>0, <1>1, <2>2, FirstDirIs DEF Init
<1>7. Typed
  BY <1>4, <1>5, <1>6 DEF Typed, Init
<1>8. PGSIZE <= USERTOP
  <2>1. PICK w \in Nat : w = 1
    OBVIOUS
  <2>2. VPAGES \in Nat /\ w <= VPAGES
    BY <2>1, MemoryAssumption
  <2>3. w * PGSIZE <= VPAGES * PGSIZE
    BY <2>2, Below
  <2> QED
    BY <1>0, <2>1, <2>3 DEF USERTOP
<1>9. ASSUME NEW p \in Procs
      PROVE ProcOK(act[p], proc[p], proc[act[p].np], Pres(dir[proc[p].pgdir]), Pres(dir[act[p].d]), Reaped(p))
  <2>1. ~Reaped(p)
    BY FirstOwned
  <2>2. CASE p = 1
    <3>1. Pres(dir[proc[p].pgdir]) = PagesTo(PGSIZE)
      BY <1>2, <1>4, <1>6, <2>2, FirstDirIs
    <3>2. NPAGE # 0 /\ NPAGE - 1 # 0
      BY <1>0
    <3> QED
      BY <1>2, <1>4, <1>5, <1>8, <2>1, <2>2, <3>1, <3>2 DEF ProcOK
  <2>3. CASE p # 1
    BY <1>4, <1>5, <2>1, <2>3, Blank DEF ProcOK
  <2> QED
    BY <2>2, <2>3
<1>10. Sane
  BY <1>9 DEF Sane
<1>11. Alone
  BY <1>5 DEF Alone
<1> QED
  BY <1>7, <1>10, <1>11, FirstOwned DEF MInv

\* Every step preserves it.
LEMMA MInvStep == MInv /\ [Next]_vars => MInv'
<1> SUFFICES ASSUME MInv, [Next]_vars PROVE MInv'
  OBVIOUS
<1>1. CASE UNCHANGED vars
  BY <1>1, Stutters DEF vars
<1>2. ASSUME NEW p \in Procs, Step(p) PROVE MInv'
  BY <1>2, StepSetup, StepAlloc, StepDealloc, StepFree, StepGrowproc, StepKstack, StepCopyuvm, StepForkReturn,
     StepForkFailed, StepSegment, StepLoad, StepStack, StepCommit, StepNostack, StepExecReturn, StepWaitReturn
     DEF Step
<1>3. ASSUME NEW p \in Procs, NEW v \in VPage, Store(p, v) PROVE MInv'
  BY <1>3, Stutters DEF Store
<1> QED
  BY <1>1, <1>2, <1>3, StepFork, StepExit, StepSbrk, StepExec, StepWait DEF Next

\* The invariant of Memory.
THEOREM MInvCorrect == Spec => []MInv
  BY MInvInit, MInvStep, PTL DEF Spec
----------------------------------------------------------------------------
(* What the invariant says of pages and sizes.                             *)

\* A process that can make a call has exactly the pages below its size, so
\* that copyuvm and mappages find what they expect and never panic.
THEOREM SizeIsMappedCorrect == Spec => []SizeIsMapped
<1>1. ASSUME MInv PROVE SizeIsMapped
  <2>1. panicked = "no"
    BY <1>1 DEF MInv, Typed
  <2>2. ASSUME NEW p \in Procs, Runs(p) PROVE Present(proc[p].pgdir) = PagesTo(proc[p].sz)
    <3>1. Pres(dir[proc[p].pgdir]) = PagesTo(proc[p].sz)
      BY <1>1, <2>2, AtUser
    <3> QED
      BY <3>1 DEF Pres, Present
  <2> QED
    BY <2>1, <2>2 DEF SizeIsMapped
<1> QED
  BY <1>1, MInvCorrect, PTL

\* The page directories are the pages that somebody holds as such.
LEMMA DirsAre ==
  ASSUME MInv, NEW o, Owned(o, freelist, KS, PD, AD, dir, lost)
  PROVE  \A d : d \in Dirs <=> d \in Pages /\ Holds(o, d)
<1>1. Named(o, "pd", PD) /\ Named(o, "ad", AD)
  BY DEF Owned
<1>2. ASSUME NEW p \in Procs, ~Reaped(p), proc[p].pgdir # 0 PROVE proc[p].pgdir \in Pages /\ Holds(o, proc[p].pgdir)
  <2>1. PD[p] = proc[p].pgdir
    BY <1>2, Names DEF MInv
  <2> QED
    BY <1>1, <1>2, <2>1, OwnDir
<1>3. ASSUME NEW p \in Procs, act[p] # User, act[p].d # 0 PROVE act[p].d \in Pages /\ Holds(o, act[p].d)
  <2>1. act[p].op # "user"
    BY <1>3, Calls DEF MInv, Typed
  <2> QED
    BY <1>3, <2>1, AtDir
<1>4. ASSUME NEW d \in Pages, Holds(o, d)
      PROVE  \/ \E p \in Procs : ~Reaped(p) /\ proc[p].pgdir = d
             \/ \E p \in Procs : act[p] # User /\ act[p].d = d
  <2>1. d # 0
    BY DEF Pages
  <2>2. CASE o[d].k = "pd"
    <3>1. o[d].a \in Procs /\ PD[o[d].a] = d
      BY <1>1, <2>2 DEF Named
    <3> QED
      BY <2>1, <3>1, Names DEF MInv
  <2>3. CASE o[d].k = "ad"
    <3>1. o[d].a \in Procs /\ AD[o[d].a] = d
      BY <1>1, <2>3 DEF Named
    <3>2. Own(act[o[d].a]) = d
      BY <3>1, Names DEF MInv
    <3> QED
      BY <2>1, <3>1, <3>2 DEF Own, Private
  <2> QED
    BY <1>4, <2>2, <2>3 DEF Holds
<1>5. ASSUME NEW d \in Pages PROVE d # 0
  BY DEF Pages
<1> QED
  BY <1>2, <1>3, <1>4, <1>5 DEF Dirs

\* The kinds of places.
AtFreelist(x) == \E i \in DOMAIN freelist : x = <<freelist[i], "free", i>>
AtKstack(x)   == \E p \in Procs : proc[p].kstack # 0 /\ x = <<proc[p].kstack, "kstack", p>>
AtPgdir(x)    == \E d \in Dirs : x = <<d, "pgdir", 0>>
AtTable(x)    == \E d \in Dirs : \E i \in DOMAIN dir[d].tab : x = <<dir[d].tab[i], "table", <<d, i>>>>
AtPage(x)     == \E d \in Dirs : \E v \in Present(d) : x = <<dir[d].pte[v], "user", <<d, v>>>>
AtLost(x)     == \E pg \in lost : x = <<pg, "lost", 0>>

\* Places has these and no others.
LEMMA PlacesAre ==
  \A x : x \in Places <=> AtFreelist(x) \/ AtKstack(x) \/ AtPgdir(x) \/ AtTable(x) \/ AtPage(x) \/ AtLost(x)
<1> SUFFICES ASSUME NEW x
             PROVE  x \in Places <=> AtFreelist(x) \/ AtKstack(x) \/ AtPgdir(x) \/ AtTable(x) \/ AtPage(x) \/ AtLost(x)
  OBVIOUS
<1>1. x \in {<<freelist[i], "free", i>> : i \in DOMAIN freelist} <=> AtFreelist(x)
  BY Zenon DEF AtFreelist
<1>2. x \in {<<proc[p].kstack, "kstack", p>> : p \in {q \in Procs : proc[q].kstack # 0}} <=> AtKstack(x)
  BY Zenon DEF AtKstack
<1>3. x \in {<<d, "pgdir", 0>> : d \in Dirs} <=> AtPgdir(x)
  BY Zenon DEF AtPgdir
<1> DEFINE T(d) == {<<dir[d].tab[i], "table", <<d, i>>>> : i \in DOMAIN dir[d].tab}
           U(d) == {<<dir[d].pte[v], "user", <<d, v>>>> : v \in Present(d)}
<1>4. x \in UNION {T(d) : d \in Dirs} <=> AtTable(x)
  <2>1. \A d : x \in T(d) <=> \E i \in DOMAIN dir[d].tab : x = <<dir[d].tab[i], "table", <<d, i>>>>
    BY Zenon
  <2> HIDE DEF T
  <2>2. x \in UNION {T(d) : d \in Dirs} <=> \E d \in Dirs : x \in T(d)
    OBVIOUS
  <2> QED
    BY <2>1, <2>2, Zenon DEF AtTable
<1>5. x \in UNION {U(d) : d \in Dirs} <=> AtPage(x)
  <2>1. \A d : x \in U(d) <=> \E v \in Present(d) : x = <<dir[d].pte[v], "user", <<d, v>>>>
    BY Zenon
  <2> HIDE DEF U
  <2>2. x \in UNION {U(d) : d \in Dirs} <=> \E d \in Dirs : x \in U(d)
    OBVIOUS
  <2> QED
    BY <2>1, <2>2, Zenon DEF AtPage
<1>6. x \in {<<pg, "lost", 0>> : pg \in lost} <=> AtLost(x)
  BY Zenon DEF AtLost
<1> DEFINE A1 == {<<freelist[i], "free", i>> : i \in DOMAIN freelist}
           A2 == {<<proc[p].kstack, "kstack", p>> : p \in {q \in Procs : proc[q].kstack # 0}}
           A3 == {<<d, "pgdir", 0>> : d \in Dirs}
           A4 == UNION {T(d) : d \in Dirs}
           A5 == UNION {U(d) : d \in Dirs}
           A6 == {<<pg, "lost", 0>> : pg \in lost}
<1>7. Places = A1 \cup A2 \cup A3 \cup A4 \cup A5 \cup A6
  BY DEF Places
<1>8. /\ (x \in A1 <=> AtFreelist(x)) /\ (x \in A2 <=> AtKstack(x)) /\ (x \in A3 <=> AtPgdir(x))
      /\ (x \in A4 <=> AtTable(x)) /\ (x \in A5 <=> AtPage(x)) /\ (x \in A6 <=> AtLost(x))
  BY <1>1, <1>2, <1>3, <1>4, <1>5, <1>6
<1> HIDE DEF A1, A2, A3, A4, A5, A6
<1> QED
  BY <1>7, <1>8

\* The place that the owner of a page gives it.
Index(s, pg) == CHOOSE i \in 1 .. Len(s) : s[i] = pg
Place(o, pg) ==
  IF o[pg].k = "free" THEN <<pg, "free", Index(freelist, pg)>>
  ELSE IF o[pg].k = "kstack" THEN <<pg, "kstack", o[pg].a>>
  ELSE IF o[pg].k = "table" THEN <<pg, "table", <<o[pg].a, Index(dir[o[pg].a].tab, pg)>>>>
  ELSE IF o[pg].k = "user" THEN <<pg, "user", <<o[pg].a, o[pg].b>>>>
  ELSE IF o[pg].k = "lost" THEN <<pg, "lost", 0>>
  ELSE <<pg, "pgdir", 0>>

\* The place of a page, owner by owner.
LEMMA PlaceIs ==
  ASSUME NEW o, NEW pg
  PROVE  /\ o[pg].k = "free" => Place(o, pg) = <<pg, "free", Index(freelist, pg)>>
         /\ o[pg].k = "kstack" => Place(o, pg) = <<pg, "kstack", o[pg].a>>
         /\ o[pg].k = "table" => Place(o, pg) = <<pg, "table", <<o[pg].a, Index(dir[o[pg].a].tab, pg)>>>>
         /\ o[pg].k = "user" => Place(o, pg) = <<pg, "user", <<o[pg].a, o[pg].b>>>>
         /\ o[pg].k = "lost" => Place(o, pg) = <<pg, "lost", 0>>
         /\ Holds(o, pg) => Place(o, pg) = <<pg, "pgdir", 0>>
         /\ Place(o, pg)[1] = pg
<1> DEFINE k == o[pg].k
           i == Index(freelist, pg)
           t == <<o[pg].a, Index(dir[o[pg].a].tab, pg)>>
           u == <<o[pg].a, o[pg].b>>
<1>1. Place(o, pg) = IF k = "free" THEN <<pg, "free", i>>
                     ELSE IF k = "kstack" THEN <<pg, "kstack", o[pg].a>>
                     ELSE IF k = "table" THEN <<pg, "table", t>>
                     ELSE IF k = "user" THEN <<pg, "user", u>>
                     ELSE IF k = "lost" THEN <<pg, "lost", 0>>
                     ELSE <<pg, "pgdir", 0>>
  BY DEF Place
<1>2. Holds(o, pg) <=> k \in {"pd", "ad"}
  BY DEF Holds
<1> HIDE DEF k, i, t, u
<1>3. /\ k = "free" => Place(o, pg) = <<pg, "free", i>>
      /\ k = "kstack" => Place(o, pg) = <<pg, "kstack", o[pg].a>>
      /\ k = "table" => Place(o, pg) = <<pg, "table", t>>
      /\ k = "user" => Place(o, pg) = <<pg, "user", u>>
      /\ k = "lost" => Place(o, pg) = <<pg, "lost", 0>>
      /\ Holds(o, pg) => Place(o, pg) = <<pg, "pgdir", 0>>
  BY <1>1, <1>2
<1>4. Place(o, pg)[1] = pg
  BY <1>1
<1> QED
  BY <1>3, <1>4 DEF k, i, t, u

\* The only index of an element.
LEMMA IndexIs ==
  ASSUME NEW S, NEW s \in Seq(S), Distinct(s), NEW i \in 1 .. Len(s)
  PROVE  Index(s, s[i]) = i
<1>1. \A j \in 1 .. Len(s) : s[j] = s[i] => j = i
  BY DEF Distinct
<1> QED
  BY <1>1 DEF Index

\* Every place is the one that the owner gives.
LEMMA PlaceOnly ==
  ASSUME MInv, NEW o, Owned(o, freelist, KS, PD, AD, dir, lost), NEW x \in Places
  PROVE  x[1] \in Pages /\ x = Place(o, x[1])
<1>1. ListOwns(o, freelist, lost) /\ Named(o, "kstack", KS) /\ DirOwns(o, dir)
  BY DEF Owned
<1>2. CASE AtFreelist(x)
  <2>1. freelist \in Seq(Pages) /\ Distinct(freelist) /\ \A i \in 1 .. Len(freelist) : o[freelist[i]].k = "free"
    BY <1>1 DEF ListOwns
  <2>2. PICK i \in DOMAIN freelist : x = <<freelist[i], "free", i>>
    BY <1>2 DEF AtFreelist
  <2>3. i \in 1 .. Len(freelist) /\ freelist[i] \in Pages
    BY <2>1
  <2>4. Index(freelist, freelist[i]) = i
    BY <2>1, <2>3, IndexIs
  <2>5. Place(o, freelist[i]) = <<freelist[i], "free", i>>
    <3>1. o[freelist[i]].k = "free"
      BY <2>1, <2>3
    <3>2. Place(o, freelist[i]) = <<freelist[i], "free", Index(freelist, freelist[i])>>
      BY <3>1, PlaceIs
    <3> QED
      BY <2>4, <3>2
  <2>6. x[1] = freelist[i]
    BY <2>2
  <2> QED
    BY <2>2, <2>3, <2>5, <2>6
<1>3. CASE AtKstack(x)
  <2>1. PICK p \in Procs : proc[p].kstack # 0 /\ x = <<proc[p].kstack, "kstack", p>>
    BY <1>3 DEF AtKstack
  <2>2. KS[p] = proc[p].kstack
    BY Names DEF MInv
  <2>3. proc[p].kstack \in Pages /\ Is(o, proc[p].kstack, "kstack", p, 0)
    BY <1>1, <2>1, <2>2 DEF Named, PageOr0, Pages
  <2>4. Place(o, proc[p].kstack) = <<proc[p].kstack, "kstack", p>>
    BY <2>3, PlaceIs DEF Is
  <2>5. x[1] = proc[p].kstack
    BY <2>1
  <2> QED
    BY <2>1, <2>3, <2>4, <2>5
<1>4. CASE AtPgdir(x)
  <2>1. PICK d \in Dirs : x = <<d, "pgdir", 0>>
    BY <1>4 DEF AtPgdir
  <2>2. d \in Pages /\ Holds(o, d)
    BY DirsAre
  <2>3. Place(o, d) = <<d, "pgdir", 0>> /\ x[1] = d
    BY <2>1, <2>2, PlaceIs
  <2> QED
    BY <2>1, <2>2, <2>3
<1>5. CASE AtTable(x)
  <2>1. PICK d \in Dirs : \E i \in DOMAIN dir[d].tab : x = <<dir[d].tab[i], "table", <<d, i>>>>
    BY <1>5 DEF AtTable
  <2>2. PICK i \in DOMAIN dir[d].tab : x = <<dir[d].tab[i], "table", <<d, i>>>>
    BY <2>1
  <2>3. d \in Pages /\ Holds(o, d)
    BY DirsAre
  <2> DEFINE t == dir[d].tab
             h == t[i]
  <2>4. t \in Seq(Pages) /\ Distinct(t) /\ i \in 1 .. Len(t) /\ h \in Pages /\ Is(o, h, "table", d, 0)
    BY <1>1, <2>3, Leads
  <2> HIDE DEF t
  <2>5. Index(t, t[i]) = i
    BY <2>4, IndexIs
  <2>6. Index(dir[d].tab, h) = i
    BY <2>5 DEF t
  <2> HIDE DEF h
  <2>7. o[h].k = "table" /\ o[h].a = d
    BY <2>4 DEF Is
  <2>8. Place(o, h) = <<h, "table", <<o[h].a, Index(dir[o[h].a].tab, h)>>>>
    BY <2>7, PlaceIs
  <2>9. x = <<h, "table", <<d, i>>>>
    BY <2>2 DEF h, t
  <2>10. x[1] = h
    BY <2>9
  <2> QED
    BY <2>4, <2>6, <2>7, <2>8, <2>9, <2>10
<1>6. CASE AtPage(x)
  <2>1. PICK d \in Dirs : \E v \in Present(d) : x = <<dir[d].pte[v], "user", <<d, v>>>>
    BY <1>6 DEF AtPage
  <2>2. PICK v \in Present(d) : x = <<dir[d].pte[v], "user", <<d, v>>>>
    BY <2>1
  <2>3. d \in Pages /\ Holds(o, d)
    BY DirsAre
  <2>4. dir[d].pte \in [VPage -> PageOr0]
    BY <1>1, <2>3, Leads
  <2>5. v \in VPage /\ dir[d].pte[v] # 0
    BY <2>4 DEF Present
  <2> DEFINE h == dir[d].pte[v]
  <2>6. h \in Pages /\ Is(o, h, "user", d, v)
    BY <1>1, <2>3, <2>5, Leads
  <2>7. x = <<h, "user", <<d, v>>>>
    BY <2>2
  <2> HIDE DEF h
  <2>8. o[h].k = "user" /\ o[h].a = d /\ o[h].b = v
    BY <2>6 DEF Is
  <2>9. Place(o, h) = <<h, "user", <<o[h].a, o[h].b>>>>
    BY <2>8, PlaceIs
  <2>10. x[1] = h
    BY <2>7
  <2> QED
    BY <2>6, <2>7, <2>8, <2>9, <2>10
<1>7. CASE AtLost(x)
  <2>1. PICK pg \in lost : x = <<pg, "lost", 0>>
    BY <1>7 DEF AtLost
  <2>2. pg \in Pages /\ o[pg].k = "lost"
    BY <1>1 DEF ListOwns
  <2>3. Place(o, pg) = <<pg, "lost", 0>> /\ x[1] = pg
    BY <2>1, <2>2, PlaceIs
  <2> QED
    BY <2>1, <2>2, <2>3
<1> QED
  BY <1>2, <1>3, <1>4, <1>5, <1>6, <1>7, PlacesAre

\* And the place that the owner gives is one.
LEMMA PlaceThere ==
  ASSUME MInv, NEW o \in Owners, Owned(o, freelist, KS, PD, AD, dir, lost), NEW pg \in Pages
  PROVE  Place(o, pg) \in Places
<1>1. ListOwns(o, freelist, lost) /\ Named(o, "kstack", KS) /\ DirOwns(o, dir)
  BY DEF Owned
<1>2. CASE o[pg].k = "free"
  <2>1. freelist \in Seq(Pages) /\ Distinct(freelist) /\ \E i \in 1 .. Len(freelist) : freelist[i] = pg
    BY <1>1, <1>2 DEF ListOwns
  <2>2. PICK i \in 1 .. Len(freelist) : freelist[i] = pg
    BY <2>1
  <2>3. Index(freelist, freelist[i]) = i
    BY <2>1, IndexIs
  <2>4. Place(o, pg) = <<freelist[i], "free", i>>
    BY <1>2, <2>2, <2>3, PlaceIs
  <2>5. i \in DOMAIN freelist
    BY <2>1
  <2> QED
    BY <2>4, <2>5, PlacesAre DEF AtFreelist
<1>3. CASE o[pg].k = "kstack"
  <2>1. o[pg].a \in Procs /\ KS[o[pg].a] = pg
    BY <1>1, <1>3 DEF Named
  <2>2. PICK p \in Procs : p = o[pg].a
    BY <2>1
  <2>3. proc[p].kstack = pg /\ pg # 0
    BY <2>1, <2>2, Names DEF MInv, Pages
  <2>4. Place(o, pg) = <<proc[p].kstack, "kstack", p>>
    BY <1>3, <2>2, <2>3, PlaceIs
  <2> QED
    BY <2>3, <2>4, PlacesAre DEF AtKstack
<1>4. CASE Holds(o, pg)
  <2>1. pg \in Dirs /\ Place(o, pg) = <<pg, "pgdir", 0>>
    BY <1>4, PlaceIs, DirsAre
  <2> QED
    BY <2>1, PlacesAre DEF AtPgdir
<1>5. CASE o[pg].k = "table"
  <2>1. /\ o[pg].a \in Pages /\ Holds(o, o[pg].a)
        /\ \E i \in 1 .. Len(dir[o[pg].a].tab) : dir[o[pg].a].tab[i] = pg
    BY <1>1, <1>5 DEF DirOwns
  <2>2. PICK d \in Pages : d = o[pg].a
    BY <2>1
  <2>3. PICK i \in 1 .. Len(dir[d].tab) : dir[d].tab[i] = pg
    BY <2>1, <2>2
  <2>4. Holds(o, d) /\ d \in Dirs
    BY <2>1, <2>2, DirsAre
  <2>5. dir[d].tab \in Seq(Pages) /\ Distinct(dir[d].tab)
    BY <1>1, <2>4, Leads
  <2>6. i \in DOMAIN dir[d].tab
    BY <2>5
  <2>7. Index(dir[d].tab, dir[d].tab[i]) = i
    <3> DEFINE t == dir[d].tab
    <3>1. t \in Seq(Pages) /\ Distinct(t) /\ i \in 1 .. Len(t)
      BY <2>5
    <3> HIDE DEF t
    <3>2. Index(t, t[i]) = i
      BY <3>1, IndexIs
    <3> QED
      BY <3>2 DEF t
  <2>8. Place(o, pg) = <<pg, "table", <<o[pg].a, Index(dir[o[pg].a].tab, pg)>>>>
    BY <1>5, PlaceIs
  <2>9. Place(o, pg) = <<dir[d].tab[i], "table", <<d, i>>>>
    BY <2>2, <2>3, <2>7, <2>8
  <2> QED
    BY <2>4, <2>6, <2>9, PlacesAre DEF AtTable
<1>6. CASE o[pg].k = "user"
  <2>1. /\ o[pg].a \in Pages /\ Holds(o, o[pg].a) /\ o[pg].b \in VPage
        /\ dir[o[pg].a].pte[o[pg].b] = pg
    BY <1>1, <1>6 DEF DirOwns
  <2>2. PICK d \in Pages, v \in VPage : d = o[pg].a /\ v = o[pg].b
    BY <2>1
  <2>3. dir[d].pte[v] = pg /\ Holds(o, d) /\ d \in Dirs /\ pg # 0
    BY <2>1, <2>2, DirsAre DEF Pages
  <2>4. v \in Present(d)
    <3>1. dir[d].pte \in [VPage -> PageOr0]
      BY <1>1, <2>3, Leads
    <3> QED
      BY <2>3, <3>1 DEF Present
  <2>5. Place(o, pg) = <<dir[d].pte[v], "user", <<d, v>>>>
    BY <1>6, <2>2, <2>3, PlaceIs
  <2> QED
    BY <2>3, <2>4, <2>5, PlacesAre DEF AtPage
<1>7. CASE o[pg].k = "lost"
  <2>1. pg \in lost /\ Place(o, pg) = <<pg, "lost", 0>>
    BY <1>1, <1>7, PlaceIs DEF ListOwns
  <2> QED
    BY <2>1, PlacesAre DEF AtLost
<1>8. o[pg].k \in Kinds
  BY DEF Owners
<1> QED
  BY <1>2, <1>3, <1>4, <1>5, <1>6, <1>7, <1>8 DEF Kinds, Holds

\* Every page is in exactly one place, whichever calls run out of memory
\* halfway and undo what they did: kalloc, kfree, setupkvm, allocuvm,
\* deallocuvm, freevm, copyuvm, fork, exec, exit and wait neither lose a page
\* nor hand it out twice.
THEOREM PagesOwnedCorrect == Spec => []PagesOwned
<1>1. ASSUME MInv PROVE PagesOwned
  <2>1. PICK o \in Owners : Owned(o, freelist, KS, PD, AD, dir, lost)
    BY <1>1 DEF MInv, Owning
  <2> DEFINE P == Places
             F == [pg \in Pages |-> Place(o, pg)]
  <2>2. \A x \in P : x[1] \in Pages /\ x = Place(o, x[1])
    BY <1>1, <2>1, PlaceOnly
  <2>3. \A pg \in Pages : Place(o, pg) \in P /\ Place(o, pg)[1] = pg
    BY <1>1, <2>1, PlaceThere, PlaceIs
  <2> HIDE DEF P
  <2>4. {x[1] : x \in P} = Pages
    BY <2>2, <2>3, Zenon
  <2>5. F \in Bijection(Pages, P)
    <3>1. F \in [Pages -> P] /\ \A pg \in Pages : F[pg] = Place(o, pg)
      BY <2>3
    <3> HIDE DEF F
    <3>2. \A a, b \in Pages : F[a] = F[b] => a = b
      BY <2>3, <3>1
    <3>3. \A t \in P : \E pg \in Pages : F[pg] = t
      BY <2>2, <3>1
    <3> QED
      BY <3>1, <3>2, <3>3 DEF Bijection, Injection, Surjection, IsInjective
  <2>6. Pages = 1 .. NPAGE /\ NPAGE \in Nat
    BY MemoryAssumption DEF Pages
  <2>7. ExistsBijection(1 .. NPAGE, P)
    BY <2>5, <2>6 DEF ExistsBijection
  <2>8. Cardinality(P) = NPAGE
    BY <2>6, <2>7, FS_CountingElements
  <2> QED
    BY <2>4, <2>8 DEF PagesOwned, P
<1> QED
  BY <1>1, MInvCorrect, PTL

----------------------------------------------------------------------------
(* What the pages hold.  The theorem assumes of the instance that the      *)
(* arguments of exec and its ustack, which is never empty, fit into the    *)
(* one page of stack (README, section 4: exec does not check it), and that *)
(* no program is written in the word for a page that is not there.         *)
Fitted ==
  /\ \A n \in ArgLens : 1 <= n /\ n <= PGSIZE
  /\ \A prog \in Programs : \A i \in DOMAIN prog : prog[i].text # None

\* User memory, as page directory d shows it.
Seen(dr, cl, d) == [v \in VPage |-> IF dr[d].pte[v] # 0 THEN cl[dr[d].pte[v]] ELSE None]

\* What is in page v when the segments before the n-th are loaded.
Before(prog, n, v) == {j \in DOMAIN prog : j < n /\ v \in Loaded(prog[j])}
Latest(s)          == CHOOSE i \in s : \A j \in s : j <= i
Text(prog, n, v)   ==
  IF Before(prog, n, v) = {} THEN "zero" ELSE prog[Latest(Before(prog, n, v))].text

\* w is what the program expects, M what is in its memory, and A what is in
\* the memory that its call r works on.
SbrkHas(u, w, M) ==
  \A v \in VPage : /\ w[v] = None <=> v \notin PagesTo(u.sz)
                   /\ M[v] # None => M[v] = IF w[v] = None THEN "zero" ELSE w[v]
ForkHas(r, w, A) == r.at = "copy" /\ r.d # 0 => \A v \in VPage : A[v] # None => A[v] = w[v]

\* The segment ph, and after the last one the stack, fit.
LoadHas(r, ph) ==
  /\ ph.filesz <= ph.memsz
  /\ r.sub = "allocuvm" => r.new >= r.sz /\ r.new >= ph.va + ph.memsz
  /\ r.sub = "none" /\ r.ret # 0 => r.ret >= r.sz /\ r.ret >= ph.va + ph.memsz
StackHas(r) ==
  /\ r.i > Len(r.prog)
  /\ r.sub = "allocuvm" => r.new = PGROUNDUP(r.sz) + PGSIZE
  /\ r.sub = "none" /\ r.ret # 0 => r.ret = PGROUNDUP(r.sz) + PGSIZE
Beneath(r) == \A j \in DOMAIN r.prog : j < r.i => Loaded(r.prog[j]) \subseteq PagesTo(r.sz)
ExecHas(r, A) ==
  r.at \in {"segment", "load", "commit"} =>
    /\ r.d # 0 => \A v \in VPage : A[v] # None => A[v] = Text(r.prog, r.i, v)
    /\ Beneath(r) /\ r.args \in ArgLens
    /\ r.sub = "allocuvm" => r.old >= r.sz
    /\ r.at = "segment" /\ (r.d = 0 \/ r.sub = "setupkvm") => r.i = 1
    /\ r.at = "load" => LoadHas(r, r.prog[r.i])
    /\ r.at = "commit" => StackHas(r)

Has(r, u, w, M, A) ==
  u.state = "RUNNABLE" =>
    /\ r = User => M = w \/ M = Empty
    /\ r # User /\ r.op = "sbrk" => SbrkHas(u, w, M)
    /\ r # User /\ r.op # "sbrk" => M = w
    /\ r # User /\ r.op = "fork" => ForkHas(r, w, A)
    /\ r # User /\ r.op = "exec" => ExecHas(r, A)

Texts == UNION {{prog[i].text : i \in DOMAIN prog} : prog \in Programs}
Contents == ({"junk", "zero", "args", "mark", "initcode"} \cup Texts) \ {None}
Cells == [Pages -> Contents]
Wants == [Procs -> [VPage -> Contents \cup {None}]]
HasAll ==
  \A p \in Procs : Has(act[p], proc[p], want[p], Seen(dir, cell, proc[p].pgdir), Seen(dir, cell, act[p].d))

CInv == MInv /\ cell \in Cells /\ want \in Wants /\ HasAll

----------------------------------------------------------------------------
(* Nobody writes to the memory of another process.                         *)

\* Cells that a step changes are free or in directory d.
Touches(o, d) ==
  \A pg \in Pages : cell'[pg] = cell[pg] \/ o[pg].k = "free" \/ (o[pg].k = "user" /\ o[pg].a = d)

\* A step of p reaches no directory but d.
Reaches(o, p, d) ==
  /\ Owned(o, freelist, KS, PD, AD, dir, lost) /\ Mine(o, d, p)
  /\ \A c \in Pages : c # d => dir'[c].pte = dir[c].pte
  /\ Touches(o, d)

\* What another directory shows stays.
LEMMA SeenKept ==
  ASSUME NEW o, DirOwns(o, dir), NEW e \in Pages, Holds(o, e), NEW d, e # d, dir'[e].pte = dir[e].pte,
         Touches(o, d)
  PROVE  Seen(dir', cell', e) = Seen(dir, cell, e)
<1>1. /\ dir[e].pte \in [VPage -> PageOr0]
      /\ \A v \in VPage : dir[e].pte[v] # 0 => Is(o, dir[e].pte[v], "user", e, v)
  BY DEF DirOwns
<1>2. ASSUME NEW v \in VPage, dir[e].pte[v] # 0 PROVE cell'[dir[e].pte[v]] = cell[dir[e].pte[v]]
  <2>1. dir[e].pte[v] \in Pages
    BY <1>1, <1>2, MemoryAssumption DEF Pages, PageOr0
  <2>2. o[dir[e].pte[v]].k = "user" /\ o[dir[e].pte[v]].a = e
    BY <1>1, <1>2 DEF Is
  <2> QED
    BY <2>1, <2>2 DEF Touches
<1> QED
  BY <1>2 DEF Seen

\* The processes that do not take the step: their slots, if they are still
\* RUNNABLE, have the same image.
Calm(q) ==
  proc'[q].state = "RUNNABLE" =>
    proc[q].state = "RUNNABLE" /\ proc'[q].pgdir = proc[q].pgdir /\ proc'[q].sz = proc[q].sz

\* What Has says depends on no more than this.
LEMMA HasKept ==
  ASSUME NEW r, NEW u, NEW w, NEW M, NEW A, Has(r, u, w, M, A), NEW u2, NEW M2, NEW A2,
         u2.state = "RUNNABLE" => u.state = "RUNNABLE" /\ u2.sz = u.sz /\ M2 = M,
         u2.state = "RUNNABLE" /\ Private(r) /\ r.d # 0 => A2 = A
  PROVE  Has(r, u2, w, M2, A2)
<1> SUFFICES ASSUME u2.state = "RUNNABLE" PROVE Has(r, u2, w, M2, A2)
  BY DEF Has
<1>1. u.state = "RUNNABLE" /\ u2.sz = u.sz /\ M2 = M
  OBVIOUS
<1>2. r # User /\ r.op = "sbrk" => SbrkHas(u2, w, M2)
  BY <1>1 DEF Has, SbrkHas
<1>3. ASSUME r # User, r.op = "fork" PROVE ForkHas(r, w, A2)
  <2>1. ForkHas(r, w, A) /\ (r.d # 0 => A2 = A)
    BY <1>1, <1>3 DEF Has, Private
  <2> QED
    BY <2>1 DEF ForkHas
<1>4. ASSUME r # User, r.op = "exec" PROVE ExecHas(r, A2)
  <2>1. ExecHas(r, A) /\ (r.d # 0 => A2 = A)
    BY <1>1, <1>4 DEF Has, Private
  <2> QED
    BY <2>1 DEF ExecHas
<1> QED
  BY <1>1, <1>2, <1>3, <1>4 DEF Has

\* They still have what their programs expect.
LEMMA OthersHave ==
  ASSUME CInv, NEW p \in Procs, NEW o, NEW d, Reaches(o, p, d), NEW q \in Procs, q # p,
         act'[q] = act[q], want'[q] = want[q], Calm(q)
  PROVE  Has(act'[q], proc'[q], want'[q], Seen(dir', cell', proc'[q].pgdir), Seen(dir', cell', act'[q].d))
<1> DEFINE r == act[q]
           M == Seen(dir, cell, proc[q].pgdir)
           A == Seen(dir, cell, act[q].d)
           M2 == Seen(dir', cell', proc'[q].pgdir)
           A2 == Seen(dir', cell', act[q].d)
<1>1. Has(r, proc[q], want[q], M, A) /\ MInv
  BY DEF CInv, HasAll
<1>2. Named(o, "pd", PD) /\ Named(o, "ad", AD) /\ DirOwns(o, dir) /\ Mine(o, d, p) /\ Touches(o, d)
      /\ \A c \in Pages : c # d => dir'[c].pte = dir[c].pte
  BY DEF Reaches, Owned
<1>3. /\ PD[q] # 0 => PD[q] # d /\ PD[q] \in Pages /\ Holds(o, PD[q])
      /\ AD[q] # 0 => AD[q] # d /\ AD[q] \in Pages /\ Holds(o, AD[q])
  BY <1>2, NotMine, OwnDir
<1>4. ASSUME proc'[q].state = "RUNNABLE" PROVE proc[q].state = "RUNNABLE" /\ proc'[q].sz = proc[q].sz /\ M2 = M
  <2>1. proc[q].state = "RUNNABLE" /\ proc'[q].pgdir = proc[q].pgdir /\ proc'[q].sz = proc[q].sz
    BY <1>4 DEF Calm
  <2>2. PD[q] = proc[q].pgdir /\ proc[q].pgdir # 0
    <3>1. ProcOK(act[q], proc[q], proc[act[q].np], Pres(dir[proc[q].pgdir]), Pres(dir[act[q].d]), Reaped(q))
      BY <1>1 DEF MInv, Sane
    <3> QED
      BY <1>1, <2>1, <3>1, AtSlot DEF ProcOK
  <2>3. Seen(dir', cell', proc[q].pgdir) = M
    BY <1>2, <1>3, <2>2, SeenKept
  <2> QED
    BY <2>1, <2>3
<1>5. ASSUME Private(r), r.d # 0 PROVE A2 = A
  <2>1. AD[q] = r.d
    BY <1>1, <1>5, Names DEF MInv, Own
  <2> QED
    BY <1>2, <1>3, <1>5, <2>1, SeenKept
<1> HIDE DEF r, M, A, M2, A2
<1>6. Has(r, proc'[q], want[q], M2, A2)
  BY <1>1, <1>4, <1>5, HasKept
<1> QED
  BY <1>6 DEF r, M2, A2

\* A step of p for which p still has what it expects.
LEMMA OneActs ==
  ASSUME CInv, MInv', NEW p \in Procs, NEW o, NEW d, Reaches(o, p, d), cell' \in Cells, want' \in Wants,
         \A q \in Procs : q # p => act'[q] = act[q] /\ want'[q] = want[q] /\ Calm(q),
         Has(act'[p], proc'[p], want'[p], Seen(dir', cell', proc'[p].pgdir), Seen(dir', cell', act'[p].d))
  PROVE  CInv'
<1>1. ASSUME NEW q \in Procs
      PROVE  Has(act'[q], proc'[q], want'[q], Seen(dir', cell', proc'[q].pgdir), Seen(dir', cell', act'[q].d))
  <2>1. CASE q = p
    BY <2>1
  <2>2. CASE q # p
    BY <2>2, OthersHave
  <2> QED
    BY <2>1, <2>2
<1> QED
  BY <1>1 DEF CInv, HasAll

\* A step that changes the call of p, and pages.
LEMMA CallMoves ==
  ASSUME CInv, MInv', NEW p \in Procs, NEW o, NEW d, Reaches(o, p, d), cell' \in Cells, want' = want,
         proc' = proc, NEW r2, act' = [act EXCEPT ![p] = r2],
         Has(r2, proc[p], want[p], Seen(dir', cell', proc[p].pgdir), Seen(dir', cell', r2.d))
  PROVE  CInv'
<1>1. act'[p] = r2 /\ \A q \in Procs : q # p => act'[q] = act[q]
  BY DEF CInv, MInv, Typed
<1>2. \A q \in Procs : q # p => act'[q] = act[q] /\ want'[q] = want[q] /\ Calm(q)
  BY <1>1 DEF Calm
<1>3. Has(act'[p], proc'[p], want'[p], Seen(dir', cell', proc'[p].pgdir), Seen(dir', cell', act'[p].d))
  BY <1>1
<1>4. want' \in Wants
  BY DEF CInv
<1> QED
  BY <1>2, <1>3, <1>4, OneActs

\* A step that changes no page reaches no directory.
LEMMA StandStill ==
  ASSUME MInv, NEW p \in Procs, dir' = dir, cell' = cell
  PROVE  \E o \in Owners : Reaches(o, p, 0)
<1>1. PICK o \in Owners : Owned(o, freelist, KS, PD, AD, dir, lost)
  BY DEF MInv, Owning
<1>2. Mine(o, 0, p)
  BY DEF Mine, Pages
<1> QED
  BY <1>1, <1>2 DEF Reaches, Touches

\* Then only the call counts.
LEMMA CallTurns ==
  ASSUME CInv, MInv', NEW p \in Procs, dir' = dir, cell' = cell, want' = want,
         proc' = proc, NEW r2, act' = [act EXCEPT ![p] = r2],
         Has(r2, proc[p], want[p], Seen(dir, cell, proc[p].pgdir), Seen(dir, cell, r2.d))
  PROVE  CInv'
<1>1. PICK o \in Owners : Reaches(o, p, 0)
  BY StandStill DEF CInv
<1>2. cell' \in Cells
  BY DEF CInv
<1> QED
  BY <1>1, <1>2, CallMoves


----------------------------------------------------------------------------
(* The ways in which a step changes what a directory shows.                *)

\* A process in a call: what it has.
LEMMA AtHas ==
  ASSUME CInv, NEW p \in Procs, act[p].op # "user"
  PROVE  /\ Has(act[p], proc[p], want[p], Seen(dir, cell, proc[p].pgdir), Seen(dir, cell, act[p].d))
         /\ act[p] \in Frames /\ act[p] # User /\ proc[p].state = "RUNNABLE" /\ proc[p].pgdir # 0
         /\ PD[p] = proc[p].pgdir /\ want[p] \in [VPage -> Contents \cup {None}] /\ proc[p].sz \in Nat /\ MInv
<1>1. MInv /\ want \in Wants
  BY DEF CInv
<1>2. act[p] \in Frames /\ act[p] # User /\ proc[p].state = "RUNNABLE" /\ proc[p].pgdir # 0
      /\ PD[p] = proc[p].pgdir /\ proc[p] \in ProcRecs
  BY <1>1, InCall
<1> QED
  BY <1>1, <1>2 DEF CInv, HasAll, Wants, ProcRecs

\* p's own directory, when the step reaches another one.
LEMMA OwnKept ==
  ASSUME NEW p \in Procs, NEW o, NEW d, Reaches(o, p, d), PD[p] # 0, PD[p] # d
  PROVE  Seen(dir', cell', PD[p]) = Seen(dir, cell, PD[p])
<1>1. Named(o, "pd", PD) /\ Named(o, "ad", AD) /\ DirOwns(o, dir) /\ Touches(o, d)
      /\ \A c \in Pages : c # d => dir'[c].pte = dir[c].pte
  BY DEF Reaches, Owned
<1>2. PD[p] \in Pages /\ Holds(o, PD[p])
  BY <1>1, OwnDir
<1> QED
  BY <1>1, <1>2, SeenKept

\* The first page of the free list is nobody's.
LEMMA HeadFree ==
  ASSUME NEW o, ListOwns(o, freelist, lost), NEW pg, kalloc(pg)
  PROVE  pg \in Pages /\ o[pg].k = "free"
<1>1. freelist \in Seq(Pages) /\ freelist # <<>> /\ pg = Head(freelist)
  BY DEF ListOwns, kalloc
<1>2. 1 \in 1 .. Len(freelist) /\ pg = freelist[1] /\ pg \in Pages
  BY <1>1
<1> QED
  BY <1>2 DEF ListOwns

\* What a cell may hold.
LEMMA Words ==
  /\ "junk" \in Contents /\ "zero" \in Contents /\ "args" \in Contents /\ "mark" \in Contents
  /\ "initcode" \in Contents
  BY DEF Contents, None

\* The pages of a directory that is held.
LEMMA Shows ==
  ASSUME NEW o, DirOwns(o, dir), NEW d \in Pages, Holds(o, d)
  PROVE  /\ dir[d].pte \in [VPage -> PageOr0]
         /\ \A v \in VPage : dir[d].pte[v] # 0 => dir[d].pte[v] \in Pages /\ Is(o, dir[d].pte[v], "user", d, v)
<1>1. dir[d].pte \in [VPage -> PageOr0] /\ \A v \in VPage : dir[d].pte[v] # 0 => Is(o, dir[d].pte[v], "user", d, v)
  BY DEF DirOwns
<1>2. \A x \in PageOr0 : x # 0 => x \in Pages
  BY MemoryAssumption DEF PageOr0, Pages
<1> QED
  BY <1>1, <1>2

\* A page of the free list is filled with x and mapped.
LEMMA Fills ==
  ASSUME MInv, cell \in Cells, NEW p \in Procs, NEW o, Owned(o, freelist, KS, PD, AD, dir, lost),
         NEW d \in Pages, Holds(o, d), Mine(o, d, p), NEW v \in VPage, NEW pg \in Pages, kalloc(pg),
         NEW x \in Contents, dir' = [dir EXCEPT ![d].pte[v] = pg], cell' = [cell EXCEPT ![pg] = x]
  PROVE  /\ Reaches(o, p, d) /\ cell' \in Cells
         /\ Seen(dir', cell', d)[v] = x
         /\ \A w \in VPage : w # v => Seen(dir', cell', d)[w] = Seen(dir, cell, d)[w]
<1>1. DirOwns(o, dir) /\ ListOwns(o, freelist, lost)
  BY DEF Owned
<1>2. o[pg].k = "free" /\ pg # 0
  BY <1>1, HeadFree DEF Pages
<1>3. /\ dir[d].pte \in [VPage -> PageOr0]
      /\ \A w \in VPage : dir[d].pte[w] # 0 => dir[d].pte[w] \in Pages /\ Is(o, dir[d].pte[w], "user", d, w)
  BY <1>1, Shows
<1>4. cell' \in Cells /\ cell'[pg] = x /\ \A h \in Pages : h # pg => cell'[h] = cell[h]
  BY DEF Cells
<1>5. dir \in [Pages -> Dirents]
  BY DEF MInv, Typed
<1>6. (\A c \in Pages : c # d => dir'[c] = dir[c]) /\ dir'[d] = [dir[d] EXCEPT !.pte = [dir[d].pte EXCEPT ![v] = pg]]
  BY <1>5
<1>7. dir'[d].pte = [dir[d].pte EXCEPT ![v] = pg]
  <2>1. dir[d] \in Dirents
    BY <1>5
  <2>2. PICK c \in Dirents : c = dir[d]
    BY <2>1
  <2>3. PICK f : f = [dir[d].pte EXCEPT ![v] = pg]
    OBVIOUS
  <2>4. dir'[d] = [c EXCEPT !.pte = f]
    BY <1>6, <2>2, <2>3
  <2>5. [c EXCEPT !.pte = f].pte = f
    BY DEF Dirents
  <2> QED
    BY <2>3, <2>4, <2>5
<1>8. dir'[d].pte[v] = pg /\ \A w \in VPage : w # v => dir'[d].pte[w] = dir[d].pte[w]
  BY <1>3, <1>7
<1>9. \A w \in VPage : dir[d].pte[w] # 0 => cell'[dir[d].pte[w]] = cell[dir[d].pte[w]]
  BY <1>2, <1>3, <1>4 DEF Is
<1>10. Seen(dir', cell', d)[v] = x
  BY <1>2, <1>4, <1>8 DEF Seen
<1>11. \A w \in VPage : w # v => Seen(dir', cell', d)[w] = Seen(dir, cell, d)[w]
  BY <1>8, <1>9 DEF Seen
<1>12. Reaches(o, p, d)
  BY <1>2, <1>4, <1>6 DEF Reaches, Touches
<1> QED
  BY <1>4, <1>10, <1>11, <1>12

\* A page is unmapped and freed.
LEMMA Drops ==
  ASSUME MInv, cell \in Cells, NEW p \in Procs, NEW o, Owned(o, freelist, KS, PD, AD, dir, lost),
         NEW d \in Pages, Holds(o, d), Mine(o, d, p), NEW v \in VPage, dir[d].pte[v] # 0, Unmap(d, v)
  PROVE  /\ Reaches(o, p, d) /\ cell' \in Cells
         /\ Seen(dir', cell', d)[v] = None
         /\ \A w \in VPage : w # v => Seen(dir', cell', d)[w] = Seen(dir, cell, d)[w]
<1>1. DirOwns(o, dir)
  BY DEF Owned
<1>2. PICK pg : pg = dir[d].pte[v]
  OBVIOUS
<1>3. /\ dir[d].pte \in [VPage -> PageOr0] /\ pg \in Pages /\ Is(o, pg, "user", d, v)
      /\ \A w \in VPage : dir[d].pte[w] # 0 => dir[d].pte[w] \in Pages /\ Is(o, dir[d].pte[w], "user", d, w)
  BY <1>1, <1>2, Shows
<1>4. cell' \in Cells /\ \A h \in Pages : h # pg => cell'[h] = cell[h]
  <2>1. PICK x \in Contents : x = "junk"
    BY Words
  <2>2. cell' = [cell EXCEPT ![pg] = x]
    BY <1>2, <2>1 DEF Unmap, Junked
  <2> QED
    BY <1>3, <2>2 DEF Cells
<1>5. dir \in [Pages -> Dirents] /\ dir' = [dir EXCEPT ![d].pte[v] = 0]
  BY DEF MInv, Typed, Unmap
<1>6. (\A c \in Pages : c # d => dir'[c] = dir[c]) /\ dir'[d] = [dir[d] EXCEPT !.pte = [dir[d].pte EXCEPT ![v] = 0]]
  BY <1>5
<1>7. dir'[d].pte = [dir[d].pte EXCEPT ![v] = 0]
  <2>1. dir[d] \in Dirents
    BY <1>5
  <2>2. PICK c \in Dirents : c = dir[d]
    BY <2>1
  <2>3. PICK f : f = [dir[d].pte EXCEPT ![v] = 0]
    OBVIOUS
  <2>4. dir'[d] = [c EXCEPT !.pte = f]
    BY <1>6, <2>2, <2>3
  <2>5. [c EXCEPT !.pte = f].pte = f
    BY DEF Dirents
  <2> QED
    BY <2>3, <2>4, <2>5
<1>8. dir'[d].pte[v] = 0 /\ \A w \in VPage : w # v => dir'[d].pte[w] = dir[d].pte[w]
  BY <1>3, <1>7
<1>9. \A w \in VPage : w # v /\ dir[d].pte[w] # 0 => cell'[dir[d].pte[w]] = cell[dir[d].pte[w]]
  BY <1>3, <1>4 DEF Is
<1>10. Seen(dir', cell', d)[v] = None
  BY <1>8 DEF Seen
<1>11. \A w \in VPage : w # v => Seen(dir', cell', d)[w] = Seen(dir, cell, d)[w]
  BY <1>8, <1>9 DEF Seen
<1>12. Reaches(o, p, d)
  BY <1>3, <1>4, <1>6 DEF Reaches, Touches, Is
<1> QED
  BY <1>4, <1>10, <1>11, <1>12

\* x is written to the pages V of directory d.
Written(d, V, x) == [pg \in Pages |-> IF pg \in {dir[d].pte[v] : v \in V} THEN x ELSE cell[pg]]

\* Then these pages show it and the others do not.
LEMMA Writes ==
  ASSUME MInv, cell \in Cells, NEW p \in Procs, NEW o, Owned(o, freelist, KS, PD, AD, dir, lost),
         NEW d \in Pages, Holds(o, d), Mine(o, d, p), NEW V, V \subseteq VPage, \A v \in V : dir[d].pte[v] # 0,
         NEW x \in Contents, dir' = dir, cell' = Written(d, V, x)
  PROVE  /\ Reaches(o, p, d) /\ cell' \in Cells
         /\ \A v \in V : Seen(dir', cell', d)[v] = x
         /\ \A w \in VPage : w \notin V => Seen(dir', cell', d)[w] = Seen(dir, cell, d)[w]
<1>1. DirOwns(o, dir)
  BY DEF Owned
<1>2. /\ dir[d].pte \in [VPage -> PageOr0]
      /\ \A v \in VPage : dir[d].pte[v] # 0 => dir[d].pte[v] \in Pages /\ Is(o, dir[d].pte[v], "user", d, v)
  BY <1>1, Shows
<1>3. cell' \in Cells
  BY DEF Cells, Written
<1>4. \A pg \in Pages : (\E v \in V : dir[d].pte[v] = pg) => cell'[pg] = x
  BY DEF Written
<1>5. \A pg \in Pages : ~(\E v \in V : dir[d].pte[v] = pg) => cell'[pg] = cell[pg]
  BY DEF Written
<1>6. Touches(o, d)
  BY <1>2, <1>5 DEF Touches, Is
<1>7. Reaches(o, p, d)
  BY <1>6 DEF Reaches
<1>8. \A v \in V : Seen(dir', cell', d)[v] = x
  BY <1>2, <1>4 DEF Seen
<1>9. ASSUME NEW w \in VPage, w \notin V PROVE Seen(dir', cell', d)[w] = Seen(dir, cell, d)[w]
  <2>1. CASE dir[d].pte[w] = 0
    BY <2>1 DEF Seen
  <2>2. CASE dir[d].pte[w] # 0
    <3>1. dir[d].pte[w] \in Pages /\ Is(o, dir[d].pte[w], "user", d, w)
      BY <1>2, <2>2
    <3>2. ~(\E v \in V : dir[d].pte[v] = dir[d].pte[w])
      BY <1>2, <1>9, <3>1 DEF Is
    <3> QED
      BY <1>5, <2>2, <3>1, <3>2 DEF Seen
  <2> QED
    BY <2>1, <2>2
<1> QED
  BY <1>3, <1>7, <1>8, <1>9


\* A directory that maps nothing shows nothing.
LEMMA NothingSeen ==
  ASSUME NEW dr, NEW cl, NEW d, \A v \in VPage : dr[d].pte[v] = 0
  PROVE  \A v \in VPage : Seen(dr, cl, d)[v] = None
  BY DEF Seen

\* Whether a page is seen is whether it is present.
LEMMA SeenPresent ==
  ASSUME MInv, cell \in Cells, NEW o, Owned(o, freelist, KS, PD, AD, dir, lost), NEW d \in Pages, Holds(o, d)
  PROVE  /\ \A v \in VPage : Seen(dir, cell, d)[v] # None <=> v \in Pres(dir[d])
         /\ \A v \in VPage : v \in Pres(dir[d]) => Seen(dir, cell, d)[v] = cell[dir[d].pte[v]]
         /\ Pres(dir[d]) \subseteq VPage
<1>1. DirOwns(o, dir)
  BY DEF Owned
<1>2. /\ dir[d].pte \in [VPage -> PageOr0]
      /\ \A v \in VPage : dir[d].pte[v] # 0 => dir[d].pte[v] \in Pages
  BY <1>1, Shows
<1>3. Pres(dir[d]) \subseteq VPage /\ \A v \in VPage : v \in Pres(dir[d]) <=> dir[d].pte[v] # 0
  BY <1>2, NothingPresent
<1>4. \A pg \in Pages : cell[pg] # None
  BY DEF Cells, Contents
<1> QED
  BY <1>2, <1>3, <1>4 DEF Seen

\* A step of a call that works on a directory of its own.
LEMMA PrivateStep ==
  ASSUME CInv, MInv', NEW p \in Procs, act[p].op \in {"fork", "exec", "wait"},
         NEW o, NEW d, Reaches(o, p, d), PD[p] # d, cell' \in Cells, want' = want, proc' = proc,
         NEW r2, act' = [act EXCEPT ![p] = r2], r2.op = act[p].op,
         r2.op = "fork" => ForkHas(r2, want[p], Seen(dir', cell', r2.d)),
         r2.op = "exec" => ExecHas(r2, Seen(dir', cell', r2.d))
  PROVE  CInv'
<1>1. /\ Has(act[p], proc[p], want[p], Seen(dir, cell, proc[p].pgdir), Seen(dir, cell, act[p].d))
      /\ act[p] # User /\ proc[p].state = "RUNNABLE" /\ proc[p].pgdir # 0 /\ PD[p] = proc[p].pgdir
  BY AtHas
<1>2. Seen(dir, cell, proc[p].pgdir) = want[p]
  BY <1>1 DEF Has
<1>3. Seen(dir', cell', proc[p].pgdir) = want[p]
  BY <1>1, <1>2, OwnKept
<1>4. PICK M : M = Seen(dir', cell', proc[p].pgdir)
  OBVIOUS
<1>5. PICK A : A = Seen(dir', cell', r2.d)
  OBVIOUS
<1>6. M = want[p] /\ (r2.op = "fork" => ForkHas(r2, want[p], A)) /\ (r2.op = "exec" => ExecHas(r2, A))
  BY <1>3, <1>4, <1>5
<1>7. r2 # User /\ r2.op # "sbrk"
  BY DEF User
<1>8. Has(r2, proc[p], want[p], M, A)
  BY <1>6, <1>7 DEF Has
<1> QED
  BY <1>4, <1>5, <1>8, CallMoves

\* A step that changes one entry, of a directory of the call's own or in a new page.
LEMMA AnEntry ==
  ASSUME MInv, NEW p \in Procs, act[p].op # "user", NEW o, Owned(o, freelist, KS, PD, AD, dir, lost),
         NEW d \in Pages, o[d].k = "free" \/ d = AD[p], NEW e, dir' = [dir EXCEPT ![d] = e], cell' = cell
  PROVE  Reaches(o, p, d) /\ PD[p] # d /\ dir'[d] = e
<1>1. Named(o, "pd", PD) /\ Named(o, "ad", AD)
  BY DEF Owned
<1>2. PD[p] # 0
  BY InCall
<1>3. PD[p] \in Pages /\ Is(o, PD[p], "pd", p, 0)
  BY <1>1, <1>2, OwnDir
<1>4. d = AD[p] => Holds(o, d) /\ Mine(o, d, p) /\ Is(o, d, "ad", p, 0)
  <2>1. d # 0
    BY DEF Pages
  <2> QED
    BY <1>1, <2>1, OwnDir
<1>5. PD[p] # d
  BY <1>3, <1>4 DEF Is
<1>6. Mine(o, d, p)
  BY <1>4 DEF Mine
<1>7. dir'[d] = e /\ \A c \in Pages : c # d => dir'[c] = dir[c]
  BY DEF MInv, Typed
<1> QED
  BY <1>5, <1>6, <1>7 DEF Reaches, Touches

----------------------------------------------------------------------------
(* setupkvm                                                                *)

\* What it changes in a call that has nothing mapped yet.
LEMMA SetHas ==
  ASSUME CInv, NEW p \in Procs, Sub(p, "setupkvm"), NEW r2, SetsUp(act[p], r2), r2.args = act[p].args, NEW A2,
         r2.d # 0 => \A v \in VPage : A2[v] = None
  PROVE  (r2.op = "fork" => ForkHas(r2, want[p], A2)) /\ (r2.op = "exec" => ExecHas(r2, A2))
<1>1. MInv /\ act[p].op # "user" /\ act[p].sub = "setupkvm"
  BY DEF CInv, Sub
<1>2. r2.op = "fork" => ForkHas(r2, want[p], A2)
  BY DEF ForkHas
<1>3. ASSUME r2.op = "exec" PROVE ExecHas(r2, A2)
  <2>1. act[p].op = "exec" /\ act[p] # User /\ act[p].at = "segment" /\ proc[p].state = "RUNNABLE"
    BY <1>1, <1>3, AtSetup, AtHas DEF SetsUp
  <2>2. Has(act[p], proc[p], want[p], Seen(dir, cell, proc[p].pgdir), Seen(dir, cell, act[p].d))
    BY <1>1, AtHas
  <2>3. ExecHas(act[p], Seen(dir, cell, act[p].d))
    BY <2>1, <2>2 DEF Has
  <2>4. act[p].i = 1 /\ Beneath(act[p]) /\ act[p].args \in ArgLens
    BY <1>1, <2>1, <2>3 DEF ExecHas
  <2>5. Beneath(r2) /\ r2.i = 1 /\ r2.at = "segment" /\ r2.sub # "allocuvm"
    BY <2>1, <2>4 DEF SetsUp, Beneath
  <2> QED
    BY <2>4, <2>5 DEF ExecHas
<1> QED
  BY <1>2, <1>3

\* A step of setupkvm keeps what the processes have.
LEMMA HasSetup ==
  ASSUME CInv, MInv', NEW p \in Procs, setupkvm(p)
  PROVE  CInv'
<1> DEFINE r == act[p]
           d == act[p].d
<1>1. /\ Sub(p, "setupkvm") /\ proc' = proc /\ want' = want /\ cell' = cell /\ MInv /\ cell' \in Cells
  BY DEF setupkvm, CInv
<1>2. PICK o \in Owners : Owned(o, freelist, KS, PD, AD, dir, lost)
  BY <1>1 DEF MInv, Owning
<1>3. /\ r \in Frames /\ r # User /\ AD[p] = d /\ d \in PageOr0 /\ r.sub = "setupkvm" /\ r.op # "user"
      /\ r.op \in {"fork", "exec", "wait"}
      /\ d # 0 => Pres(dir[d]) = {}
  BY <1>1, AtSetup DEF Frames, Sub
<1>4. dir \in [Pages -> Dirents] /\ act \in [Procs -> Frames \cup {User}]
  BY <1>1 DEF MInv, Typed
<1>5. d # 0 => d \in Pages /\ dir[d] \in Dirents /\ \A v \in VPage : dir[d].pte[v] = 0
  <2> SUFFICES ASSUME d # 0 PROVE d \in Pages /\ dir[d] \in Dirents /\ \A v \in VPage : dir[d].pte[v] = 0
    OBVIOUS
  <2>1. d \in Pages /\ dir[d] \in Dirents /\ dir[d].pte \in [VPage -> PageOr0]
    BY <1>1, <1>2, <1>3, AtDir
  <2> QED
    BY <1>3, <2>1, NothingPresent
<1>6. CASE \E pg \in Pages : kalloc(pg) /\ d = 0
             /\ dir' = [dir EXCEPT ![pg] = [tab |-> <<>>, pte |-> [v \in VPage |-> 0]]]
             /\ act' = [act EXCEPT ![p].d = pg]
  <2>1. PICK pg \in Pages : kalloc(pg) /\ d = 0
             /\ dir' = [dir EXCEPT ![pg] = [tab |-> <<>>, pte |-> [v \in VPage |-> 0]]]
             /\ act' = [act EXCEPT ![p].d = pg]
    BY <1>6
  <2>2. PICK e : e = [tab |-> <<>>, pte |-> [v \in VPage |-> 0]]
    OBVIOUS
  <2>3. PICK r2 : r2 = [r EXCEPT !.d = pg]
    OBVIOUS
  <2>4. act' = [act EXCEPT ![p] = r2] /\ dir' = [dir EXCEPT ![pg] = e]
    BY <1>4, <2>1, <2>2, <2>3
  <2>5. SetsUp(r, r2) /\ r2.d = pg /\ r2.op = r.op /\ r2.args = r.args /\ pg \in PageOr0
    <3>1. pg \in PageOr0 /\ r.sub = "setupkvm" /\ r \in Frames
      BY <1>3 DEF Pages, PageOr0
    <3>2. r2 \in Frames /\ r2.d = pg /\ r2.op = r.op /\ r2.args = r.args
      BY <2>3, <3>1 DEF Frames
    <3> QED
      BY <2>3, <3>1, <3>2 DEF Frames, SetsUp
  <2>6. o[pg].k = "free"
    BY <1>2, <2>1, HeadFree DEF Owned
  <2>11. MInv /\ act[p].op # "user" /\ cell' = cell /\ dir' = [dir EXCEPT ![pg] = e]
    BY <1>1, <1>3, <2>4
  <2> HIDE DEF r, d
  <2>7. Reaches(o, p, pg) /\ PD[p] # pg /\ dir'[pg] = e
    <3>1. o[pg].k = "free" \/ pg = AD[p]
      BY <2>6
    <3> QED
      BY <1>2, <2>11, <3>1, AnEntry
  <2>8. \A v \in VPage : dir'[r2.d].pte[v] = 0
    BY <2>2, <2>5, <2>7
  <2>9. \A v \in VPage : Seen(dir', cell', r2.d)[v] = None
    BY <2>8, NothingSeen
  <2>10. /\ r2.op = "fork" => ForkHas(r2, want[p], Seen(dir', cell', r2.d))
         /\ r2.op = "exec" => ExecHas(r2, Seen(dir', cell', r2.d))
    BY <1>1, <2>5, <2>9, SetHas DEF r
  <2> QED
    BY <1>1, <1>3, <2>4, <2>5, <2>7, <2>10, PrivateStep DEF r
<1>7. CASE \E pg \in Pages : kalloc(pg) /\ d # 0 /\ dir' = [dir EXCEPT ![d].tab = Append(@, pg)]
             /\ (IF Len(dir[d].tab) + 1 = KTABS THEN Answer(p, d) ELSE UNCHANGED act)
  <2>1. PICK pg \in Pages : kalloc(pg) /\ d # 0 /\ dir' = [dir EXCEPT ![d].tab = Append(@, pg)]
             /\ (IF Len(dir[d].tab) + 1 = KTABS THEN Answer(p, d) ELSE UNCHANGED act)
    BY <1>7
  <2>2. PICK e : e = [dir[d] EXCEPT !.tab = Append(dir[d].tab, pg)]
    OBVIOUS
  <2>3. PICK r2 : r2 = IF Len(dir[d].tab) + 1 = KTABS THEN [r EXCEPT !.sub = "none", !.ret = d] ELSE r
    OBVIOUS
  <2>4. act' = [act EXCEPT ![p] = r2] /\ dir' = [dir EXCEPT ![d] = e]
    <3>1. dir' = [dir EXCEPT ![d] = e]
      BY <1>4, <1>5, <2>1, <2>2
    <3>2. CASE Len(dir[d].tab) + 1 = KTABS
      BY <1>4, <2>1, <2>3, <3>1, <3>2 DEF Answer
    <3>3. CASE Len(dir[d].tab) + 1 # KTABS
      BY <1>4, <2>1, <2>3, <3>1, <3>3
    <3> QED
      BY <3>2, <3>3
  <2>5. SetsUp(r, r2) /\ r2.d = d /\ r2.op = r.op /\ r2.args = r.args
    <3>1. CASE r2 = r
      BY <1>3, <3>1 DEF SetsUp
    <3>2. CASE r2 = [r EXCEPT !.sub = "none", !.ret = d]
      <4>1. d \in Nat
        BY <1>5, <2>1 DEF Pages
      <4> QED
        BY <1>3, <2>1, <3>2, <4>1 DEF Frames, SetsUp, Subs
    <3> QED
      BY <2>3, <3>1, <3>2
  <2>6. e.pte = dir[d].pte
    <3>1. PICK c \in Dirents : c = dir[d]
      BY <1>5, <2>1
    <3>2. PICK t : t = Append(c.tab, pg)
      OBVIOUS
    <3>3. e = [c EXCEPT !.tab = t]
      BY <2>2, <3>1, <3>2
    <3>4. c.tab \in Seq(Pages)
      BY Entries
    <3>5. t \in Seq(Pages)
      BY <3>2, <3>4
    <3>6. e.pte = c.pte
      BY <3>3, <3>5, Entries
    <3> QED
      BY <3>1, <3>6
  <2>11. MInv /\ act[p].op # "user" /\ cell' = cell /\ dir' = [dir EXCEPT ![d] = e] /\ d \in Pages /\ d = AD[p]
    BY <1>1, <1>3, <1>5, <2>1, <2>4
  <2> HIDE DEF r, d
  <2>7. Reaches(o, p, d) /\ PD[p] # d /\ dir'[d] = e
    BY <1>2, <2>11, AnEntry
  <2>8. \A v \in VPage : dir'[r2.d].pte[v] = 0
    BY <1>5, <2>1, <2>5, <2>6, <2>7
  <2>9. \A v \in VPage : Seen(dir', cell', r2.d)[v] = None
    BY <2>8, NothingSeen
  <2>10. /\ r2.op = "fork" => ForkHas(r2, want[p], Seen(dir', cell', r2.d))
         /\ r2.op = "exec" => ExecHas(r2, Seen(dir', cell', r2.d))
    BY <1>1, <2>5, <2>9, SetHas DEF r
  <2> QED
    BY <1>1, <1>3, <2>4, <2>5, <2>7, <2>10, PrivateStep DEF r
<1>8. CASE /\ act' = [act EXCEPT ![p].sub = "none", ![p].ret = 0, ![p].d = 0]
           /\ dir' = IF d = 0 THEN dir ELSE [dir EXCEPT ![d] = NoDir]
  <2>1. PICK r2 : r2 = [r EXCEPT !.sub = "none", !.ret = 0, !.d = 0]
    OBVIOUS
  <2>2. act' = [act EXCEPT ![p] = r2]
    BY <1>4, <1>8, <2>1
  <2>3. SetsUp(r, r2) /\ r2.d = 0 /\ r2.op = r.op /\ r2.args = r.args
    <3>1. 0 \in PageOr0
      BY MemoryAssumption DEF PageOr0
    <3> QED
      BY <1>3, <2>1, <3>1 DEF Frames, SetsUp, Subs
  <2>4. /\ r2.op = "fork" => ForkHas(r2, want[p], Seen(dir', cell', r2.d))
        /\ r2.op = "exec" => ExecHas(r2, Seen(dir', cell', r2.d))
    BY <1>1, <2>3, SetHas DEF r
  <2> HIDE DEF r, d
  <2>5. \E o2, x : Reaches(o2, p, x) /\ PD[p] # x
    <3>1. CASE d = 0
      <4>1. dir' = dir /\ PD[p] # 0
        BY <1>1, <1>3, <1>8, <3>1, InCall DEF r
      <4>2. \E o2 \in Owners : Reaches(o2, p, 0)
        BY <1>1, <4>1, StandStill
      <4> QED
        BY <4>1, <4>2
    <3>2. CASE d # 0
      <4>1. dir' = [dir EXCEPT ![d] = NoDir] /\ d \in Pages /\ d = AD[p]
        BY <1>3, <1>5, <1>8, <3>2
      <4>2. Reaches(o, p, d) /\ PD[p] # d
        BY <1>1, <1>2, <1>3, <4>1, AnEntry DEF r
      <4> QED
        BY <4>2
    <3> QED
      BY <3>1, <3>2
  <2> QED
    BY <1>1, <1>3, <2>2, <2>3, <2>4, <2>5, PrivateStep DEF r
<1> QED
  BY <1>6, <1>7, <1>8 DEF setupkvm


----------------------------------------------------------------------------
(* allocuvm, deallocuvm and freevm                                         *)

\* A step of sbrk.
LEMMA SbrkStep ==
  ASSUME CInv, MInv', NEW p \in Procs, act[p].op = "sbrk",
         NEW o, NEW d, Reaches(o, p, d), cell' \in Cells, want' = want, proc' = proc,
         NEW r2, act' = [act EXCEPT ![p] = r2], r2.op = "sbrk",
         SbrkHas(proc[p], want[p], Seen(dir', cell', proc[p].pgdir))
  PROVE  CInv'
<1>1. PICK M : M = Seen(dir', cell', proc[p].pgdir)
  OBVIOUS
<1>2. PICK A : A = Seen(dir', cell', r2.d)
  OBVIOUS
<1>3. r2 # User
  BY DEF User
<1>4. SbrkHas(proc[p], want[p], M)
  BY <1>1
<1>5. Has(r2, proc[p], want[p], M, A)
  BY <1>3, <1>4 DEF Has
<1> QED
  BY <1>1, <1>2, <1>5, CallMoves

\* Zeroed pages may come, and pages may go.
LEMMA SbrkSame ==
  ASSUME NEW u, NEW w, NEW M, SbrkHas(u, w, M), NEW M2,
         \A v \in VPage : M2[v] = M[v] \/ M2[v] = None \/ (M2[v] = "zero" /\ w[v] = None)
  PROVE  SbrkHas(u, w, M2)
  BY DEF SbrkHas

\* The same for exec.
Same(r, r2) ==
  /\ r2.args = r.args /\ r2.prog = r.prog /\ r2.i = r.i /\ r2.sz = r.sz /\ r2.at = r.at /\ r2.d = r.d
  /\ r2.sub = "allocuvm" => r.sub = "allocuvm" /\ r2.old = r.old /\ r2.new = r.new
  /\ r2.sub = "none" /\ r2.ret # 0 =>
       (r.sub = "allocuvm" /\ r2.ret = r.new) \/ (r.sub = "none" /\ r2.ret = r.ret)
LEMMA ExecSame ==
  ASSUME NEW r, NEW r2, NEW A, NEW A2, ExecHas(r, A), Same(r, r2), r.at \in {"load", "commit"},
         \A v \in VPage : A2[v] = A[v] \/ A2[v] = None \/ A2[v] = Text(r.prog, r.i, v)
  PROVE  ExecHas(r2, A2)
<1>1. /\ r.d # 0 => \A v \in VPage : A[v] # None => A[v] = Text(r.prog, r.i, v)
      /\ Beneath(r) /\ r.args \in ArgLens
      /\ r.sub = "allocuvm" => r.old >= r.sz
      /\ r.at = "load" => LoadHas(r, r.prog[r.i])
      /\ r.at = "commit" => StackHas(r)
  BY DEF ExecHas
<1>2. r2.d # 0 => \A v \in VPage : A2[v] # None => A2[v] = Text(r2.prog, r2.i, v)
  BY <1>1 DEF Same
<1>3. Beneath(r2) /\ r2.args \in ArgLens /\ (r2.sub = "allocuvm" => r2.old >= r2.sz) /\ r2.at # "segment"
  BY <1>1 DEF Beneath, Same
<1>4. r2.at = "load" => LoadHas(r2, r2.prog[r2.i])
  BY <1>1 DEF LoadHas, Same
<1>5. r2.at = "commit" => StackHas(r2)
  BY <1>1 DEF StackHas, Same
<1> QED
  BY <1>2, <1>3, <1>4, <1>5 DEF ExecHas

\* A call in allocuvm or deallocuvm: what it has, and what a step of it must show.
Steps(p, r, r2) ==
  /\ act' = [act EXCEPT ![p] = r2] /\ r2.op = r.op /\ r2.d = r.d
  /\ r.op = "exec" => Same(r, r2) /\ r.at \in {"load", "commit"}
Shifts(r, w, A, A2) ==
  \A v \in VPage : \/ A2[v] = A[v] \/ A2[v] = None
                   \/ A2[v] = "zero" /\ IF r.op = "exec" THEN Text(r.prog, r.i, v) = "zero" ELSE w[v] = None
LEMMA SizeStep ==
  ASSUME CInv, MInv', NEW p \in Procs, act[p].op \in {"sbrk", "exec"}, act[p].d # 0,
         NEW o, Reaches(o, p, act[p].d), cell' \in Cells, want' = want, proc' = proc,
         NEW r2, Steps(p, act[p], r2),
         Shifts(act[p], want[p], Seen(dir, cell, act[p].d), Seen(dir', cell', act[p].d))
  PROVE  CInv'
<1>1. /\ Has(act[p], proc[p], want[p], Seen(dir, cell, proc[p].pgdir), Seen(dir, cell, act[p].d))
      /\ act[p] # User /\ proc[p].state = "RUNNABLE" /\ proc[p].pgdir # 0 /\ PD[p] = proc[p].pgdir /\ MInv
  BY AtHas
<1>2. Owned(o, freelist, KS, PD, AD, dir, lost)
  BY DEF Reaches
<1>3. /\ act[p].op = "sbrk" => proc[p].pgdir = act[p].d
      /\ act[p].op # "sbrk" => proc[p].pgdir # act[p].d
  BY <1>1, <1>2, AtDir
<1>4. PICK A : A = Seen(dir, cell, act[p].d)
  OBVIOUS
<1>5. PICK A2 : A2 = Seen(dir', cell', act[p].d)
  OBVIOUS
<1>6. Shifts(act[p], want[p], A, A2)
  BY <1>4, <1>5
<1>7. CASE act[p].op = "sbrk"
  <2>1. SbrkHas(proc[p], want[p], A)
    BY <1>1, <1>3, <1>4, <1>7 DEF Has
  <2>2. \A v \in VPage : A2[v] = A[v] \/ A2[v] = None \/ (A2[v] = "zero" /\ want[p][v] = None)
    BY <1>6, <1>7 DEF Shifts
  <2>3. SbrkHas(proc[p], want[p], A2)
    BY <2>1, <2>2, SbrkSame
  <2>4. act' = [act EXCEPT ![p] = r2] /\ r2.op = "sbrk"
    BY <1>7 DEF Steps
  <2>5. SbrkHas(proc[p], want[p], Seen(dir', cell', proc[p].pgdir))
    BY <1>3, <1>5, <1>7, <2>3
  <2> QED
    BY <1>7, <2>4, <2>5, SbrkStep
<1>8. CASE act[p].op = "exec"
  <2>1. ExecHas(act[p], A)
    BY <1>1, <1>4, <1>8 DEF Has
  <2>2. \A v \in VPage : A2[v] = A[v] \/ A2[v] = None \/ A2[v] = Text(act[p].prog, act[p].i, v)
    BY <1>6, <1>8 DEF Shifts
  <2>3. Same(act[p], r2) /\ act[p].at \in {"load", "commit"} /\ act' = [act EXCEPT ![p] = r2] /\ r2.op = "exec"
    BY <1>8 DEF Steps
  <2>4. ExecHas(r2, A2)
    BY <2>1, <2>2, <2>3, ExecSame
  <2>5. r2.d = act[p].d
    BY <2>3 DEF Same
  <2>6. PD[p] # act[p].d
    BY <1>1, <1>3, <1>8
  <2>7. ExecHas(r2, Seen(dir', cell', r2.d))
    BY <1>5, <2>4, <2>5
  <2> QED
    BY <1>8, <2>3, <2>6, <2>7, PrivateStep
<1> QED
  BY <1>7, <1>8


\* Nothing is loaded, and nothing is expected, where allocuvm puts a page.
LEMMA Fresh ==
  ASSUME CInv, NEW p \in Procs, Sub(p, "allocuvm")
  PROVE  /\ Page(act[p].a) \in VPage
         /\ act[p].op = "exec" => Text(act[p].prog, act[p].i, Page(act[p].a)) = "zero"
         /\ act[p].op = "sbrk" => want[p][Page(act[p].a)] = None
<1> DEFINE r == act[p]
           v == Page(act[p].a)
<1>1. MInv /\ r.sub = "allocuvm" /\ r.op # "user"
  BY DEF CInv, Sub
<1>2. /\ Growing(r, Pres(dir[r.d])) /\ r \in Frames /\ r.op \in {"sbrk", "exec"}
      /\ r.op = "sbrk" => r.old = proc[p].sz
      /\ r.op = "exec" => r.at \in {"load", "commit"}
  BY <1>1, AtAlloc
<1>3. /\ r.a \in Nat /\ r.new \in Nat /\ r.old \in Nat /\ r.sz \in Nat /\ Aligned(r.a) /\ PGROUNDUP(r.old) <= r.a
      /\ r.a < r.new /\ r.new <= USERTOP
  BY <1>2 DEF Growing, Frames
<1>4. v \in VPage /\ v \notin PagesTo(r.a)
  BY <1>3, InRange, NextPage
<1>5. PGROUNDUP(r.old) \in Nat /\ r.old <= PGROUNDUP(r.old)
  BY <1>3, RoundUp
<1>6. r.old <= r.a
  BY <1>3, <1>5
<1>7. /\ Has(r, proc[p], want[p], Seen(dir, cell, proc[p].pgdir), Seen(dir, cell, r.d))
      /\ r # User /\ proc[p].state = "RUNNABLE" /\ proc[p].sz \in Nat
  BY <1>1, AtHas
<1>8. ASSUME r.op = "sbrk" PROVE want[p][v] = None
  <2>1. SbrkHas(proc[p], want[p], Seen(dir, cell, proc[p].pgdir))
    BY <1>7, <1>8 DEF Has
  <2>2. v \notin PagesTo(proc[p].sz)
    BY <1>2, <1>3, <1>4, <1>6, <1>8, MorePages
  <2> QED
    BY <1>4, <2>1, <2>2 DEF SbrkHas
<1>9. ASSUME r.op = "exec" PROVE Text(r.prog, r.i, v) = "zero"
  <2>1. ExecHas(r, Seen(dir, cell, r.d))
    BY <1>7, <1>9 DEF Has
  <2>2. Beneath(r) /\ r.old >= r.sz
    BY <1>1, <1>2, <1>9, <2>1 DEF ExecHas
  <2>3. v \notin PagesTo(r.sz)
    BY <1>3, <1>4, <1>6, <2>2, MorePages
  <2>4. Before(r.prog, r.i, v) = {}
    BY <2>2, <2>3 DEF Before, Beneath
  <2> QED
    BY <2>4 DEF Text
<1> QED
  BY <1>4, <1>8, <1>9

\* A step of allocuvm keeps what the processes have.
LEMMA HasAlloc ==
  ASSUME CInv, MInv', NEW p \in Procs, allocuvm_page(p)
  PROVE  CInv'
<1> DEFINE r == act[p]
           d == act[p].d
           v == Page(act[p].a)
<1>1. Sub(p, "allocuvm") /\ proc' = proc /\ want' = want /\ MInv /\ cell \in Cells /\ r.sub = "allocuvm"
  BY DEF allocuvm_page, CInv, Sub
<1>2. /\ d # 0 /\ r \in Frames /\ r.op # "user" /\ r.op \in {"sbrk", "exec"}
      /\ r.op = "exec" => r.at \in {"load", "commit"}
  BY <1>1, AtAlloc
<1>3. PICK o \in Owners : Owned(o, freelist, KS, PD, AD, dir, lost)
  BY <1>1 DEF MInv, Owning
<1>4. d \in Pages /\ Holds(o, d) /\ Mine(o, d, p)
  BY <1>1, <1>2, <1>3, AtDir
<1>5. act \in [Procs -> Frames \cup {User}]
  BY <1>1 DEF MInv, Typed
<1>6. /\ v \in VPage
      /\ r.op = "exec" => Text(r.prog, r.i, v) = "zero"
      /\ r.op = "sbrk" => want[p][v] = None
  BY <1>1, Fresh
<1>7. CASE \E pg \in Pages : Grown(p, pg)
  <2>1. PICK pg \in Pages : Grown(p, pg)
    BY <1>7
  <2>2. PICK r2 : r2 = [r EXCEPT !.a = r.a + PGSIZE,
                                 !.sub = IF r.a + PGSIZE >= r.new THEN "none" ELSE r.sub,
                                 !.ret = IF r.a + PGSIZE >= r.new THEN r.new ELSE r.ret]
    OBVIOUS
  <2>3. act' = [act EXCEPT ![p] = r2]
    BY <1>5, <2>1, <2>2 DEF Grown
  <2>4. /\ r2.op = r.op /\ r2.args = r.args /\ r2.d = r.d /\ r2.prog = r.prog /\ r2.i = r.i /\ r2.sz = r.sz /\ r2.at = r.at
        /\ r2.old = r.old /\ r2.new = r.new /\ (r2.sub = "allocuvm" \/ (r2.sub = "none" /\ r2.ret = r.new))
    BY <1>1, <1>2, <2>2 DEF Frames
  <2>5. Steps(p, r, r2)
    BY <1>1, <1>2, <2>3, <2>4 DEF Steps, Same
  <2>6. kalloc(pg) /\ dir' = [dir EXCEPT ![d].pte[v] = pg] /\ cell' = [cell EXCEPT ![pg] = "zero"]
    BY <2>1 DEF Grown, Map
  <2> HIDE DEF r, d, v
  <2>7. PICK x \in Contents : x = "zero"
    BY Words
  <2>10. cell' = [cell EXCEPT ![pg] = x] /\ kalloc(pg) /\ dir' = [dir EXCEPT ![d].pte[v] = pg]
    BY <2>6, <2>7
  <2>8. /\ Reaches(o, p, d) /\ cell' \in Cells
        /\ Seen(dir', cell', d)[v] = x
        /\ \A w \in VPage : w # v => Seen(dir', cell', d)[w] = Seen(dir, cell, d)[w]
    BY <1>1, <1>3, <1>4, <1>6, <2>10, Fills, Zenon
  <2>9. Shifts(r, want[p], Seen(dir, cell, d), Seen(dir', cell', d))
    BY <1>2, <1>6, <2>7, <2>8 DEF Shifts
  <2> QED
    BY <1>1, <1>2, <2>5, <2>8, <2>9, SizeStep, Zenon DEF r, d
<1>8. CASE /\ act' = [act EXCEPT ![p].sub = "deallocuvm", ![p].old = r.new, ![p].new = r.old, ![p].ret = 0]
           /\ UNCHANGED <<dir, cell>>
  <2>2. PICK r2 : r2 = [r EXCEPT !.sub = "deallocuvm", !.old = r.new, !.new = r.old, !.ret = 0]
    OBVIOUS
  <2>3. act' = [act EXCEPT ![p] = r2] /\ cell' \in Cells
    BY <1>1, <1>5, <1>8, <2>2
  <2>4. /\ r2.op = r.op /\ r2.args = r.args /\ r2.d = r.d /\ r2.prog = r.prog /\ r2.i = r.i /\ r2.sz = r.sz /\ r2.at = r.at
        /\ r2.sub = "deallocuvm"
    BY <1>1, <1>2, <2>2 DEF Frames
  <2>5. Steps(p, r, r2)
    BY <1>1, <1>2, <2>3, <2>4 DEF Steps, Same
  <2>6. Reaches(o, p, d) /\ Shifts(r, want[p], Seen(dir, cell, d), Seen(dir', cell', d))
    BY <1>3, <1>4, <1>8 DEF Reaches, Touches, Shifts
  <2> QED
    BY <1>1, <1>2, <2>3, <2>5, <2>6, SizeStep, Zenon
<1> QED
  BY <1>7, <1>8 DEF allocuvm_page

\* A step of deallocuvm keeps what the processes have.
LEMMA HasDealloc ==
  ASSUME CInv, MInv', NEW p \in Procs, deallocuvm_page(p)
  PROVE  CInv'
<1> DEFINE r == act[p]
           d == act[p].d
<1>1. Sub(p, "deallocuvm") /\ proc' = proc /\ want' = want /\ MInv /\ cell \in Cells /\ r.sub = "deallocuvm"
  BY DEF deallocuvm_page, CInv, Sub
<1>2. /\ d # 0 /\ r \in Frames /\ r.op # "user" /\ r.op \in {"sbrk", "exec"}
      /\ r.op = "exec" => r.at \in {"load", "commit"} /\ r.ret = 0
  <2>1. /\ d # 0 /\ r \in Frames /\ r.op # "user" /\ r.op \in {"sbrk", "exec"}
        /\ r.op = "exec" => ExecOK(r, Pres(dir[d]))
    BY <1>1, AtDealloc
  <2> QED
    BY <1>1, <2>1 DEF ExecOK, Freeing
<1>3. PICK o \in Owners : Owned(o, freelist, KS, PD, AD, dir, lost)
  BY <1>1 DEF MInv, Owning
<1>4. d \in Pages /\ Holds(o, d) /\ Mine(o, d, p) /\ dir[d].pte \in [VPage -> PageOr0]
  BY <1>1, <1>2, <1>3, AtDir
<1>5. act \in [Procs -> Frames \cup {User}]
  BY <1>1 DEF MInv, Typed
<1>6. CASE act' = [act EXCEPT ![p].sub = "none"] /\ UNCHANGED memory
  <2>1. PICK r2 : r2 = [r EXCEPT !.sub = "none"]
    OBVIOUS
  <2>2. act' = [act EXCEPT ![p] = r2] /\ cell' \in Cells /\ dir' = dir /\ cell' = cell
    BY <1>1, <1>5, <1>6, <2>1 DEF memory
  <2>3. /\ r2.op = r.op /\ r2.args = r.args /\ r2.d = r.d /\ r2.prog = r.prog /\ r2.i = r.i /\ r2.sz = r.sz /\ r2.at = r.at
        /\ r2.sub = "none" /\ r2.ret = r.ret
    BY <1>1, <1>2, <2>1 DEF Frames
  <2>4. Steps(p, r, r2)
    BY <1>1, <1>2, <2>2, <2>3 DEF Steps, Same
  <2>5. Reaches(o, p, d) /\ Shifts(r, want[p], Seen(dir, cell, d), Seen(dir', cell', d))
    BY <1>3, <1>4, <2>2 DEF Reaches, Touches, Shifts
  <2> QED
    BY <1>1, <1>2, <2>2, <2>4, <2>5, SizeStep, Zenon
<1>7. CASE Doomed(r) # {} /\ Unmap(d, Lowest(Doomed(r))) /\ act' = act
  <2>1. Doomed(r) \subseteq Pres(dir[d]) /\ Pres(dir[d]) \subseteq VPage
    <3>1. Pres(dir[d]) \subseteq VPage
      BY <1>4, NothingPresent
    <3> QED
      BY <3>1 DEF Doomed, Present, Pres
  <2>2. PICK v : v = Lowest(Doomed(r))
    OBVIOUS
  <2>3. v \in Doomed(r)
    <3>1. Doomed(r) \subseteq Nat
      BY <2>1, VPageNat
    <3> QED
      BY <1>7, <2>2, <3>1, LowestIn
  <2>4. v \in VPage /\ dir[d].pte[v] # 0
    BY <1>4, <2>1, <2>3, NothingPresent
  <2>5. Unmap(d, v)
    BY <1>7, <2>2
  <2>6. Steps(p, r, r)
    <3>1. act' = [act EXCEPT ![p] = r]
      BY <1>5, <1>7
    <3> QED
      BY <1>1, <1>2, <3>1 DEF Steps, Same
  <2> HIDE DEF r, d
  <2>7. /\ Reaches(o, p, d) /\ cell' \in Cells
        /\ Seen(dir', cell', d)[v] = None
        /\ \A w \in VPage : w # v => Seen(dir', cell', d)[w] = Seen(dir, cell, d)[w]
    BY <1>1, <1>3, <1>4, <2>4, <2>5, Drops, Zenon
  <2>8. Shifts(r, want[p], Seen(dir, cell, d), Seen(dir', cell', d))
    BY <2>7 DEF Shifts
  <2> QED
    BY <1>1, <1>2, <2>6, <2>7, <2>8, SizeStep, Zenon DEF r, d
<1> QED
  BY <1>6, <1>7 DEF deallocuvm_page

\* A step of freevm keeps what the processes have.
LEMMA HasFree ==
  ASSUME CInv, MInv', NEW p \in Procs, freevm(p)
  PROVE  CInv'
<1> DEFINE r == act[p]
           d == act[p].d
<1>1. Sub(p, "freevm") /\ proc' = proc /\ want' = want /\ MInv /\ cell \in Cells /\ r.sub = "freevm" /\ r.op # "user"
  BY DEF freevm, CInv, Sub
<1>2. /\ d # 0 /\ r \in Frames /\ r # User /\ r.op \in {"fork", "exec", "wait"}
      /\ r.op = "fork" => r.at = "failed"
      /\ r.op = "exec" => r.at = "bad"
  <2>1. d # 0 /\ r \in Frames /\ r # User /\ r.op # "sbrk"
    BY <1>1, AtFree
  <2>2. CallOK(r, proc[p], proc[r.np], Pres(dir[proc[p].pgdir]), Pres(dir[d]))
    BY <1>1, InCall
  <2> QED
    BY <1>1, <2>1, <2>2 DEF CallOK, ForkOK, ExecOK
<1>3. PICK o \in Owners : Owned(o, freelist, KS, PD, AD, dir, lost)
  BY <1>1 DEF MInv, Owning
<1>4. /\ d \in Pages /\ Holds(o, d) /\ Mine(o, d, p) /\ dir[d].pte \in [VPage -> PageOr0]
      /\ d = AD[p] /\ PD[p] # d /\ dir[d] \in Dirents
  BY <1>1, <1>2, <1>3, AtDir, InCall
<1>5. act \in [Procs -> Frames \cup {User}] /\ dir \in [Pages -> Dirents]
  BY <1>1 DEF MInv, Typed
<1>6. ASSUME NEW r2, act' = [act EXCEPT ![p] = r2], r2.op = r.op, r2.at = r.at,
             Reaches(o, p, d), cell' \in Cells
      PROVE  CInv'
  <2>1. (r2.op = "fork" => ForkHas(r2, want[p], Seen(dir', cell', r2.d))) /\
        (r2.op = "exec" => ExecHas(r2, Seen(dir', cell', r2.d)))
    BY <1>2, <1>6 DEF ForkHas, ExecHas
  <2> QED
    BY <1>1, <1>2, <1>4, <1>6, <2>1, PrivateStep, Zenon
<1>7. act' = act => act' = [act EXCEPT ![p] = r]
  BY <1>5
<1>8. CASE Present(d) # {} /\ Unmap(d, Lowest(Present(d))) /\ act' = act
  <2>1. PICK v : v = Lowest(Present(d))
    OBVIOUS
  <2>2. Present(d) \subseteq VPage /\ Present(d) \subseteq Nat /\ \A w \in Present(d) : dir[d].pte[w] # 0
    BY <1>4, VPageNat DEF Present
  <2>3. v \in Present(d)
    BY <1>8, <2>1, <2>2, LowestIn
  <2>4. v \in VPage /\ dir[d].pte[v] # 0 /\ Unmap(d, v)
    BY <1>8, <2>1, <2>2, <2>3
  <2> HIDE DEF r, d
  <2>5. Reaches(o, p, d) /\ cell' \in Cells
    BY <1>1, <1>3, <1>4, <2>4, Drops, Zenon
  <2> QED
    BY <1>6, <1>7, <1>8, <2>5
<1>9. CASE dir' = [dir EXCEPT ![d].tab = Tail(dir[d].tab)] /\ act' = act /\ cell' = cell
  <2>1. PICK e : e = [dir[d] EXCEPT !.tab = Tail(dir[d].tab)]
    OBVIOUS
  <2>2. dir' = [dir EXCEPT ![d] = e]
    BY <1>4, <1>5, <1>9, <2>1
  <2>3. Reaches(o, p, d) /\ cell' \in Cells
    <3>1. MInv /\ act[p].op # "user" /\ cell' = cell /\ (o[d].k = "free" \/ d = AD[p]) /\ cell' \in Cells
      BY <1>1, <1>4, <1>9
    <3> QED
      BY <1>3, <1>4, <2>2, <3>1, AnEntry, Zenon
  <2> QED
    BY <1>6, <1>7, <1>9, <2>3
<1>10. CASE /\ dir' = [dir EXCEPT ![d] = NoDir] /\ cell' = cell
            /\ act' = [act EXCEPT ![p].sub = "none", ![p].d = 0]
  <2>1. PICK r2 : r2 = [r EXCEPT !.sub = "none", !.d = 0]
    OBVIOUS
  <2>2. act' = [act EXCEPT ![p] = r2]
    BY <1>5, <1>10, <2>1
  <2>3. r2.op = r.op /\ r2.at = r.at
    BY <1>2, <2>1 DEF Frames
  <2>4. Reaches(o, p, d) /\ cell' \in Cells
    BY <1>1, <1>3, <1>4, <1>10, AnEntry
  <2> QED
    BY <1>6, <2>2, <2>3, <2>4
<1> QED
  BY <1>8, <1>9, <1>10 DEF freevm


----------------------------------------------------------------------------
(* Calls begin and return.                                                 *)

\* What OwnMemory says: who can make a call, or is in one that leaves its
\* memory alone, finds what it expects.
Settled(p) == Runs(p) \/ act[p].op \in {"fork", "exec", "wait"}
LEMMA Expected ==
  ASSUME CInv, NEW p \in Procs, Settled(p)
  PROVE  /\ Seen(dir, cell, proc[p].pgdir) = want[p] /\ proc[p].state = "RUNNABLE" /\ proc[p].pgdir # 0
         /\ PD[p] = proc[p].pgdir /\ MInv /\ want[p] \in [VPage -> Contents \cup {None}] /\ proc[p] \in ProcRecs
         /\ Pres(dir[proc[p].pgdir]) = PagesTo(proc[p].sz)
<1>1. MInv /\ want[p] \in [VPage -> Contents \cup {None}] /\ cell \in Cells
  BY DEF CInv, Wants
<1>2. CASE Runs(p)
  <2>1. /\ act[p] = User /\ proc[p].state = "RUNNABLE" /\ proc[p].pgdir # 0 /\ PD[p] = proc[p].pgdir
        /\ proc[p] \in ProcRecs /\ Pres(dir[proc[p].pgdir]) = PagesTo(proc[p].sz)
    BY <1>1, <1>2, AtUser
  <2>2. Has(act[p], proc[p], want[p], Seen(dir, cell, proc[p].pgdir), Seen(dir, cell, act[p].d))
    BY DEF CInv, HasAll
  <2>3. Seen(dir, cell, proc[p].pgdir) = want[p] \/ Seen(dir, cell, proc[p].pgdir) = Empty
    BY <2>1, <2>2 DEF Has
  <2>4. PICK o \in Owners : Owned(o, freelist, KS, PD, AD, dir, lost)
    BY <1>1 DEF MInv, Owning
  <2>5. proc[p].pgdir \in Pages /\ Holds(o, proc[p].pgdir)
    BY <2>1, <2>4, OwnDir DEF Owned
  <2>6. 0 \in Pres(dir[proc[p].pgdir])
    BY <1>2 DEF Runs, Present, Pres
  <2>7. 0 \in VPage /\ Seen(dir, cell, proc[p].pgdir)[0] # None
    BY <1>1, <2>4, <2>5, <2>6, SeenPresent
  <2>8. Seen(dir, cell, proc[p].pgdir) # Empty
    BY <2>7 DEF Empty
  <2> QED
    BY <1>1, <2>1, <2>3, <2>8
<1>3. CASE act[p].op \in {"fork", "exec", "wait"}
  <2>1. act[p].op # "user" /\ act[p].op # "sbrk"
    BY <1>3
  <2>2. /\ Has(act[p], proc[p], want[p], Seen(dir, cell, proc[p].pgdir), Seen(dir, cell, act[p].d))
        /\ act[p] # User /\ proc[p].state = "RUNNABLE" /\ proc[p].pgdir # 0 /\ PD[p] = proc[p].pgdir
    BY <2>1, AtHas
  <2>3. proc[p] \in ProcRecs
        /\ CallOK(act[p], proc[p], proc[act[p].np], Pres(dir[proc[p].pgdir]), Pres(dir[act[p].d]))
    BY <1>1, <2>1, InCall
  <2>4. Seen(dir, cell, proc[p].pgdir) = want[p]
    BY <2>1, <2>2 DEF Has
  <2>5. Pres(dir[proc[p].pgdir]) = PagesTo(proc[p].sz)
    BY <2>1, <2>3 DEF CallOK
  <2> QED
    BY <1>1, <2>2, <2>3, <2>4, <2>5
<1> QED
  BY <1>2, <1>3 DEF Settled

\* A call begins, goes on or returns, and no user page is touched.
LEMMA Turns ==
  ASSUME CInv, MInv', NEW p \in Procs, Settled(p), dir' = dir, cell' = cell, want' = want,
         NEW r2, act' = [act EXCEPT ![p] = r2], proc'[p] = proc[p], \A q \in Procs : q # p => Calm(q),
         \/ r2 = User
         \/ /\ r2 # User /\ r2.op \in {"fork", "exec", "wait"}
            /\ r2.op = "fork" => ForkHas(r2, want[p], Seen(dir, cell, r2.d))
            /\ r2.op = "exec" => ExecHas(r2, Seen(dir, cell, r2.d))
  PROVE  CInv'
<1>1. /\ Seen(dir, cell, proc[p].pgdir) = want[p] /\ proc[p].state = "RUNNABLE" /\ MInv
  BY Expected
<1>2. act'[p] = r2 /\ (\A q \in Procs : q # p => act'[q] = act[q]) /\ cell' \in Cells /\ want' \in Wants
  BY DEF CInv, MInv, Typed
<1>3. PICK o \in Owners : Reaches(o, p, 0)
  BY <1>1, StandStill
<1>4. PICK A : A = Seen(dir, cell, r2.d)
  OBVIOUS
<1>5. PICK M : M = Seen(dir, cell, proc[p].pgdir)
  OBVIOUS
<1>6. Has(r2, proc[p], want[p], M, A)
  <2>1. CASE r2 = User
    BY <1>1, <1>5, <2>1 DEF Has
  <2>2. CASE r2 # User
    <3>1. /\ r2.op \in {"fork", "exec", "wait"} /\ M = want[p]
          /\ r2.op = "fork" => ForkHas(r2, want[p], A)
          /\ r2.op = "exec" => ExecHas(r2, A)
      BY <1>1, <1>4, <1>5, <2>2
    <3> QED
      BY <2>2, <3>1 DEF Has
  <2> QED
    BY <2>1, <2>2
<1>7. Has(act'[p], proc'[p], want'[p], Seen(dir', cell', proc'[p].pgdir), Seen(dir', cell', act'[p].d))
  BY <1>2, <1>4, <1>5, <1>6
<1>8. \A q \in Procs : q # p => act'[q] = act[q] /\ want'[q] = want[q] /\ Calm(q)
  BY <1>2
<1> QED
  BY <1>2, <1>3, <1>7, <1>8, OneActs

\* The slots of the others, when one slot that is not RUNNABLE changes.
LEMMA SlotCalm ==
  ASSUME MInv, NEW p \in Procs, NEW z \in Procs, z # p, NEW u2, proc' = [proc EXCEPT ![z] = u2],
         u2.state # "RUNNABLE"
  PROVE  proc'[p] = proc[p] /\ \A q \in Procs : q # p => Calm(q)
<1>1. proc'[z] = u2 /\ \A q \in Procs : q # z => proc'[q] = proc[q]
  BY DEF MInv, Typed
<1> QED
  BY <1>1 DEF Calm

----------------------------------------------------------------------------
(* sbrk                                                                    *)

\* It begins with what the program expects.
LEMMA HasSbrk ==
  ASSUME CInv, MInv', NEW p \in Procs, NEW n \in SbrkBy, Sbrk(p, n)
  PROVE  CInv'
<1>1. Runs(p) /\ proc' = proc /\ want' = want /\ dir' = dir /\ cell' = cell
  BY DEF Sbrk, memory
<1>2. /\ Seen(dir, cell, proc[p].pgdir) = want[p] /\ proc[p].state = "RUNNABLE" /\ proc[p].pgdir # 0
      /\ PD[p] = proc[p].pgdir /\ MInv /\ want[p] \in [VPage -> Contents \cup {None}] /\ proc[p] \in ProcRecs
      /\ Pres(dir[proc[p].pgdir]) = PagesTo(proc[p].sz)
  BY <1>1, Expected DEF Settled
<1>3. PICK r : r = Frame("sbrk", "grow", "none", proc[p].pgdir)
  OBVIOUS
<1>4. r \in Frames /\ r.op = "sbrk"
  <2>1. proc[p].pgdir \in PageOr0
    BY <1>2 DEF ProcRecs
  <2> QED
    BY <1>3, <2>1, Begins DEF Ats, Subs
<1>5. PICK sz : sz = proc[p].sz
  OBVIOUS
<1>6. PICK new : new = (sz + n) % WORD
  OBVIOUS
<1>7. PICK r2 : r2 = IF n >= 0 THEN allocuvm(r, sz, new)
                     ELSE IF new >= sz THEN [r EXCEPT !.ret = sz]
                     ELSE [r EXCEPT !.sub = "deallocuvm", !.old = sz, !.new = new, !.ret = new]
  OBVIOUS
<1>8. act' = [act EXCEPT ![p] = r2]
  BY <1>3, <1>5, <1>6, <1>7 DEF Sbrk
<1>9. r2.op = "sbrk" /\ r2 # User
  <2>1. r2.op = "sbrk"
    BY <1>4, <1>7 DEF allocuvm, Frames
  <2> QED
    BY <2>1 DEF User
<1>10. PICK o \in Owners : Owned(o, freelist, KS, PD, AD, dir, lost)
  BY <1>2 DEF MInv, Owning
<1>11. proc[p].pgdir \in Pages /\ Holds(o, proc[p].pgdir)
  BY <1>2, <1>10, OwnDir DEF Owned
<1>12. \A v \in VPage : want[p][v] # None <=> v \in PagesTo(proc[p].sz)
  <2>1. cell \in Cells
    BY DEF CInv
  <2> QED
    BY <1>2, <1>10, <1>11, <2>1, SeenPresent
<1>13. SbrkHas(proc[p], want[p], want[p])
  BY <1>12 DEF SbrkHas
<1>14. PICK A : A = Seen(dir, cell, r2.d)
  OBVIOUS
<1>15. Has(r2, proc[p], want[p], want[p], A)
  BY <1>9, <1>13 DEF Has
<1> QED
  BY <1>1, <1>2, <1>8, <1>14, <1>15, CallTurns

\* What growproc makes of the program's expectations.
Resized(w, ret) ==
  [v \in VPage |-> IF ret = 0 THEN w[v]
                   ELSE IF v \notin PagesTo(ret) THEN None
                   ELSE IF w[v] = None THEN "zero" ELSE w[v]]

\* They are met, unless there is nothing left.
LEMMA Resizes ==
  ASSUME NEW u, NEW w \in [VPage -> Contents \cup {None}], NEW M, M = [v \in VPage |-> M[v]],
         SbrkHas(u, w, M), NEW P, \A v \in VPage : M[v] # None <=> v \in P, NEW ret,
         (ret = 0 /\ (P = PagesTo(u.sz) \/ P = {})) \/ P = PagesTo(ret)
  PROVE  /\ M = Resized(w, ret) \/ M = Empty
         /\ Resized(w, ret) \in [VPage -> Contents \cup {None}]
<1>1. M = [v \in VPage |-> M[v]]
  OBVIOUS
<1>2. Resized(w, ret) \in [VPage -> Contents \cup {None}]
  BY Words DEF Resized
<1>3. CASE P = {} \/ (ret = 0 /\ P = PagesTo(ret))
  <2>1. \A v \in VPage : M[v] = None
    BY <1>3, NoPages
  <2>2. M = Empty
    BY <1>1, <2>1 DEF Empty
  <2> QED
    BY <1>2, <2>2
<1>4. CASE ret = 0 /\ P = PagesTo(u.sz)
  <2>1. \A v \in VPage : M[v] = w[v]
    BY <1>4 DEF SbrkHas
  <2>2. M = Resized(w, ret)
    BY <1>1, <1>4, <2>1 DEF Resized
  <2> QED
    BY <1>2, <2>2
<1>5. CASE ret # 0 /\ P = PagesTo(ret)
  <2>1. \A v \in VPage : M[v] = IF v \notin PagesTo(ret) THEN None
                                ELSE IF w[v] = None THEN "zero" ELSE w[v]
    BY <1>5 DEF SbrkHas
  <2>2. M = Resized(w, ret)
    BY <1>1, <1>5, <2>1 DEF Resized
  <2> QED
    BY <1>2, <2>2
<1> QED
  BY <1>3, <1>4, <1>5

\* The return of growproc keeps what the processes have.
LEMMA HasGrowproc ==
  ASSUME CInv, MInv', NEW p \in Procs, growproc_return(p)
  PROVE  CInv'
<1> DEFINE r == act[p]
<1>1. /\ In(p, "sbrk", "grow") /\ act' = [act EXCEPT ![p] = User] /\ dir' = dir /\ cell' = cell
      /\ r.op = "sbrk" /\ r.sub = "none"
      /\ proc' = [proc EXCEPT ![p].sz = IF r.ret = 0 THEN @ ELSE r.ret]
  BY DEF growproc_return, memory, Return, In
<1>2. /\ Has(r, proc[p], want[p], Seen(dir, cell, proc[p].pgdir), Seen(dir, cell, r.d))
      /\ r \in Frames /\ r # User /\ proc[p].state = "RUNNABLE" /\ proc[p].pgdir # 0
      /\ PD[p] = proc[p].pgdir /\ want[p] \in [VPage -> Contents \cup {None}] /\ MInv
  BY <1>1, AtHas
<1>3. PICK M : M = Seen(dir, cell, proc[p].pgdir)
  OBVIOUS
<1>4. SbrkHas(proc[p], want[p], M)
  BY <1>1, <1>2, <1>3 DEF Has
<1>5. PICK o \in Owners : Owned(o, freelist, KS, PD, AD, dir, lost)
  BY <1>2 DEF MInv, Owning
<1>6. proc[p].pgdir \in Pages /\ Holds(o, proc[p].pgdir)
  BY <1>2, <1>5, OwnDir DEF Owned
<1>7. PICK P : P = Pres(dir[proc[p].pgdir])
  OBVIOUS
<1>8. \A v \in VPage : M[v] # None <=> v \in P
  <2>1. cell \in Cells
    BY DEF CInv
  <2> QED
    BY <1>2, <1>3, <1>5, <1>6, <1>7, <2>1, SeenPresent
<1>9. (r.ret = 0 /\ (P = PagesTo(proc[p].sz) \/ P = {})) \/ P = PagesTo(r.ret)
  <2>1. CallOK(r, proc[p], proc[r.np], P, Pres(dir[r.d])) /\ proc[p] \in ProcRecs
    BY <1>1, <1>2, <1>7, InCall
  <2>2. SbrkOK(r, proc[p], P)
    BY <1>1, <2>1 DEF CallOK
  <2> QED
    BY <1>1, <2>2 DEF SbrkOK
<1>10. PICK w2 : w2 = Resized(want[p], r.ret)
  OBVIOUS
<1>11. (M = w2 \/ M = Empty) /\ w2 \in [VPage -> Contents \cup {None}]
  <2>1. M = [v \in VPage |-> M[v]]
    BY <1>3 DEF Seen
  <2>2. PICK u : u = proc[p]
    OBVIOUS
  <2>3. PICK ret : ret = r.ret
    OBVIOUS
  <2>4. PICK w \in [VPage -> Contents \cup {None}] : w = want[p]
    BY <1>2
  <2>5. SbrkHas(u, w, M) /\ ((ret = 0 /\ (P = PagesTo(u.sz) \/ P = {})) \/ P = PagesTo(ret))
    BY <1>4, <1>9, <2>2, <2>3, <2>4
  <2>6. (M = Resized(w, ret) \/ M = Empty) /\ Resized(w, ret) \in [VPage -> Contents \cup {None}]
    BY <1>8, <2>1, <2>5, Resizes
  <2> QED
    BY <1>10, <2>3, <2>4, <2>6
<1>12. want' = [want EXCEPT ![p] = w2]
  <2>1. want' = [want EXCEPT ![p] = [v \in VPage |->
                    IF r.ret = 0 THEN want[p][v]
                    ELSE IF v \notin PagesTo(r.ret) THEN None
                    ELSE IF want[p][v] = None THEN "zero" ELSE want[p][v]]]
    BY DEF growproc_return, CInv, Wants
  <2> QED
    BY <1>10, <2>1 DEF Resized
<1>13. want' \in Wants /\ want'[p] = w2 /\ \A q \in Procs : q # p => want'[q] = want[q]
  BY <1>11, <1>12 DEF CInv, Wants
<1>14. act'[p] = User /\ \A q \in Procs : q # p => act'[q] = act[q]
  BY <1>1, <1>2 DEF MInv, Typed
<1>15. proc'[p].pgdir = proc[p].pgdir /\ \A q \in Procs : q # p => proc'[q] = proc[q]
  BY <1>1, <1>2 DEF MInv, Typed, ProcRecs
<1>16. PICK A : A = Seen(dir', cell', act'[p].d)
  OBVIOUS
<1>17. PICK u2 : u2 = proc'[p]
  OBVIOUS
<1>18. Has(User, u2, w2, M, A)
  BY <1>11 DEF Has
<1>19. Has(act'[p], proc'[p], want'[p], Seen(dir', cell', proc'[p].pgdir), Seen(dir', cell', act'[p].d))
  BY <1>1, <1>3, <1>13, <1>14, <1>15, <1>16, <1>17, <1>18
<1>20. \E o2 \in Owners : Reaches(o2, p, 0)
  BY <1>1, <1>2, StandStill
<1>21. cell' \in Cells /\ \A q \in Procs : q # p => act'[q] = act[q] /\ want'[q] = want[q] /\ Calm(q)
  BY <1>1, <1>13, <1>14, <1>15 DEF Calm, CInv
<1> QED
  BY <1>13, <1>19, <1>20, <1>21, OneActs


----------------------------------------------------------------------------
(* fork                                                                    *)

\* It begins.
LEMMA HasFork ==
  ASSUME CInv, MInv', NEW p \in Procs, Fork(p)
  PROVE  CInv'
<1>1. /\ Runs(p) /\ Unused # {} /\ want' = want /\ dir' = dir /\ cell' = cell
      /\ proc' = [proc EXCEPT ![Lowest(Unused)].state = "EMBRYO"]
  BY DEF Fork, memory
<1>2. MInv /\ proc[p].state = "RUNNABLE" /\ proc \in [Procs -> ProcRecs]
  BY <1>1 DEF CInv, Runs, MInv, Typed
<1>3. PICK z : z = Lowest(Unused)
  OBVIOUS
<1>4. z \in Procs /\ proc[z].state = "UNUSED" /\ z # p /\ proc[z] \in ProcRecs
  <2>1. Unused \subseteq Nat
    BY DEF Unused, Procs
  <2>2. z \in Unused
    BY <1>1, <1>3, <2>1, LowestIn
  <2> QED
    BY <1>2, <2>2 DEF Unused
<1>5. PICK u2 : u2 = [proc[z] EXCEPT !.state = "EMBRYO"]
  OBVIOUS
<1>6. proc' = [proc EXCEPT ![z] = u2] /\ u2.state = "EMBRYO"
  BY <1>1, <1>2, <1>3, <1>4, <1>5 DEF ProcRecs
<1>7. proc'[p] = proc[p] /\ \A q \in Procs : q # p => Calm(q)
  BY <1>2, <1>4, <1>6, SlotCalm
<1>8. PICK r : r = Frame("fork", "kstack", "none", 0)
  OBVIOUS
<1>9. r \in Frames /\ r.op = "fork" /\ r.at = "kstack"
  <2>1. 0 \in PageOr0
    BY MemoryAssumption DEF PageOr0
  <2> QED
    BY <1>8, <2>1, Begins DEF Ats, Subs
<1>10. PICK r2 : r2 = [r EXCEPT !.np = z]
  OBVIOUS
<1>11. act' = [act EXCEPT ![p] = r2]
  BY <1>3, <1>8, <1>10 DEF Fork
<1>12. r2.op = "fork" /\ r2.at = "kstack"
  BY <1>9, <1>10 DEF Frames
<1>13. r2 # User /\ ForkHas(r2, want[p], Seen(dir, cell, r2.d))
  BY <1>12 DEF User, ForkHas
<1> QED
  BY <1>1, <1>7, <1>11, <1>12, <1>13, Turns DEF Settled

\* The kernel stack of the child.
LEMMA HasKstack ==
  ASSUME CInv, MInv', NEW p \in Procs, fork_kstack(p)
  PROVE  CInv'
<1> DEFINE r == act[p]
           z == act[p].np
<1>1. In(p, "fork", "kstack") /\ want' = want /\ dir' = dir /\ cell' = cell /\ MInv
      /\ r.op = "fork" /\ r.at = "kstack"
  BY DEF fork_kstack, In, CInv
<1>2. /\ r \in Frames /\ z \in Procs /\ z # p /\ proc[z].state = "EMBRYO" /\ proc[z] \in ProcRecs
      /\ ForkOK(r, proc[p], proc[z], Pres(dir[r.d]))
  BY <1>1, AtFork
<1>3. r.d = 0
  BY <1>1, <1>2 DEF ForkOK
<1>4. act \in [Procs -> Frames \cup {User}] /\ proc \in [Procs -> ProcRecs]
  BY <1>1 DEF MInv, Typed
<1>5. Settled(p)
  BY <1>1 DEF Settled
<1>6. CASE \E pg \in Pages : proc' = [proc EXCEPT ![z].kstack = pg] /\ Goto(p, "copy", "setupkvm")
  <2>1. PICK pg \in Pages : proc' = [proc EXCEPT ![z].kstack = pg] /\ Goto(p, "copy", "setupkvm")
    BY <1>6
  <2>2. PICK u2 : u2 = [proc[z] EXCEPT !.kstack = pg]
    OBVIOUS
  <2>3. proc' = [proc EXCEPT ![z] = u2] /\ u2.state = "EMBRYO"
    BY <1>2, <1>4, <2>1, <2>2 DEF ProcRecs
  <2>4. proc'[p] = proc[p] /\ \A q \in Procs : q # p => Calm(q)
    <3> HIDE DEF z
    <3> QED
      BY <1>1, <1>2, <2>3, SlotCalm
  <2>5. PICK r2 : r2 = [r EXCEPT !.at = "copy", !.sub = "setupkvm"]
    OBVIOUS
  <2>6. act' = [act EXCEPT ![p] = r2]
    BY <1>4, <2>1, <2>5 DEF Goto
  <2>7. r2.op = "fork" /\ r2.d = 0
    BY <1>1, <1>2, <1>3, <2>5 DEF Frames
  <2>8. r2 # User /\ ForkHas(r2, want[p], Seen(dir, cell, r2.d))
    BY <2>7 DEF User, ForkHas
  <2> QED
    BY <1>1, <1>5, <2>4, <2>6, <2>7, <2>8, Turns
<1>7. CASE proc' = [proc EXCEPT ![z] = UNUSED] /\ Return(p)
  <2>1. proc'[p] = proc[p] /\ \A q \in Procs : q # p => Calm(q)
    <3> HIDE DEF z
    <3> QED
      BY <1>1, <1>2, <1>7, Blank, SlotCalm
  <2>2. act' = [act EXCEPT ![p] = User]
    BY <1>7 DEF Return
  <2> QED
    BY <1>1, <1>5, <2>1, <2>2, Turns
<1> QED
  BY <1>6, <1>7 DEF fork_kstack

\* The child's slot is given up.
LEMMA HasForkFailed ==
  ASSUME CInv, MInv', NEW p \in Procs, fork_failed(p)
  PROVE  CInv'
<1> DEFINE z == act[p].np
<1>1. act[p].op = "fork" /\ want' = want /\ dir' = dir /\ cell' = cell /\ MInv
      /\ proc' = [proc EXCEPT ![z] = UNUSED] /\ act' = [act EXCEPT ![p] = User]
  BY DEF fork_failed, In, CInv, Return
<1>2. z \in Procs /\ z # p
  BY <1>1, AtFork
<1>3. proc'[p] = proc[p] /\ \A q \in Procs : q # p => Calm(q)
  <2> HIDE DEF z
  <2> QED
    BY <1>1, <1>2, Blank, SlotCalm
<1>4. Settled(p)
  BY <1>1 DEF Settled
<1> QED
  BY <1>1, <1>3, <1>4, Turns

\* The child gets a page with what is in the parent's.
LEMMA HasCopyuvm ==
  ASSUME CInv, MInv', NEW p \in Procs, copyuvm_page(p)
  PROVE  CInv'
<1> DEFINE r == act[p]
           d == act[p].d
           v == Page(act[p].a)
           old == dir[proc[p].pgdir].pte[v]
<1>1. /\ In(p, "fork", "copy") /\ r.ret # 0 /\ r.a < proc[p].sz /\ want' = want /\ proc' = proc
      /\ r.op = "fork" /\ r.at = "copy" /\ r.sub = "none" /\ cell \in Cells
  BY DEF copyuvm_page, In, CInv
<1>2. /\ Seen(dir, cell, proc[p].pgdir) = want[p] /\ proc[p].state = "RUNNABLE" /\ proc[p].pgdir # 0
      /\ PD[p] = proc[p].pgdir /\ MInv /\ proc[p] \in ProcRecs
      /\ Pres(dir[proc[p].pgdir]) = PagesTo(proc[p].sz)
  BY <1>1, Expected DEF Settled
<1>3. r \in Frames /\ ForkOK(r, proc[p], proc[r.np], Pres(dir[d]))
  BY <1>1, <1>2, AtFork
<1>4. d # 0 /\ Aligned(r.a) /\ r.a \in Nat /\ proc[p].sz \in Nat /\ proc[p].sz <= USERTOP
  <2>1. proc[p].sz <= USERTOP
    BY <1>1, <1>2, InCall
  <2> QED
    BY <1>1, <1>2, <1>3, <2>1 DEF ForkOK, Frames, ProcRecs
<1>5. PICK o \in Owners : Owned(o, freelist, KS, PD, AD, dir, lost)
  BY <1>2 DEF MInv, Owning
<1>6. d \in Pages /\ Holds(o, d) /\ Mine(o, d, p) /\ PD[p] # d
  BY <1>1, <1>2, <1>4, <1>5, AtDir
<1>7. v \in VPage /\ v \in PagesTo(proc[p].sz)
  <2>1. v \in VPage
    BY <1>1, <1>4, InRange
  <2> QED
    BY <1>1, <1>4, <2>1 DEF PagesTo, Aligned
<1>8. proc[p].pgdir \in Pages /\ Holds(o, proc[p].pgdir)
  BY <1>2, <1>5, OwnDir DEF Owned
<1>9. old # 0 /\ old \in Pages /\ cell[old] = want[p][v]
  <2>1. DirOwns(o, dir)
    BY <1>5 DEF Owned
  <2>2. v \in Pres(dir[proc[p].pgdir])
    BY <1>2, <1>7
  <2>3. old # 0
    BY <2>2 DEF Pres
  <2>4. old \in Pages
    BY <1>7, <1>8, <2>1, <2>3, Shows
  <2>5. Seen(dir, cell, proc[p].pgdir)[v] = cell[old]
    BY <1>1, <1>2, <1>5, <1>7, <1>8, <2>2, SeenPresent
  <2> QED
    BY <1>2, <2>3, <2>4, <2>5
<1>10. act \in [Procs -> Frames \cup {User}]
  BY <1>2 DEF MInv, Typed
<1>11. ForkHas(r, want[p], Seen(dir, cell, d))
  BY <1>1, AtHas DEF Has
<1>12. CASE \E pg \in Pages : /\ kalloc(pg) /\ dir' = [dir EXCEPT ![d].pte[v] = pg]
                              /\ cell' = [cell EXCEPT ![pg] = IF old = 0 THEN "junk" ELSE cell[old]]
                              /\ act' = [act EXCEPT ![p].a = @ + PGSIZE]
  <2>1. PICK pg \in Pages : /\ kalloc(pg) /\ dir' = [dir EXCEPT ![d].pte[v] = pg]
                            /\ cell' = [cell EXCEPT ![pg] = IF old = 0 THEN "junk" ELSE cell[old]]
                            /\ act' = [act EXCEPT ![p].a = @ + PGSIZE]
    BY <1>12
  <2>2. PICK r2 : r2 = [r EXCEPT !.a = r.a + PGSIZE]
    OBVIOUS
  <2>3. act' = [act EXCEPT ![p] = r2]
    BY <1>10, <2>1, <2>2
  <2>4. r2.op = "fork" /\ r2.d = d
    BY <1>1, <1>3, <2>2 DEF Frames
  <2>5. PICK x \in Contents : x = cell[old]
    BY <1>1, <1>9 DEF Cells
  <2>6. cell' = [cell EXCEPT ![pg] = x] /\ x = want[p][v]
    BY <1>9, <2>1, <2>5
  <2> HIDE DEF r, d, v, old
  <2>7. /\ Reaches(o, p, d) /\ cell' \in Cells
        /\ Seen(dir', cell', d)[v] = x
        /\ \A w \in VPage : w # v => Seen(dir', cell', d)[w] = Seen(dir, cell, d)[w]
    <3>1. kalloc(pg) /\ dir' = [dir EXCEPT ![d].pte[v] = pg] /\ cell' = [cell EXCEPT ![pg] = x]
      BY <2>1, <2>6
    <3> QED
      BY <1>1, <1>2, <1>5, <1>6, <1>7, <3>1, Fills, Zenon
  <2>8. ForkHas(r2, want[p], Seen(dir', cell', r2.d))
    <3>1. \A w \in VPage : Seen(dir, cell, d)[w] # None => Seen(dir, cell, d)[w] = want[p][w]
      BY <1>1, <1>4, <1>11 DEF ForkHas, d, r
    <3> QED
      BY <2>4, <2>6, <2>7, <3>1 DEF ForkHas
  <2>9. r2.op = act[p].op /\ act[p].op \in {"fork", "exec", "wait"} /\ r2.op # "exec"
    BY <1>1, <2>4 DEF r
  <2> QED
    BY <1>1, <1>6, <2>3, <2>7, <2>8, <2>9, PrivateStep
<1>13. CASE Goto(p, "failed", "freevm") /\ UNCHANGED <<dir, cell>>
  <2>1. PICK r2 : r2 = [r EXCEPT !.at = "failed", !.sub = "freevm"]
    OBVIOUS
  <2>2. act' = [act EXCEPT ![p] = r2]
    BY <1>10, <1>13, <2>1 DEF Goto
  <2>3. r2.op = "fork" /\ r2.at = "failed"
    BY <1>1, <1>3, <2>1 DEF Frames
  <2>4. r2 # User /\ ForkHas(r2, want[p], Seen(dir, cell, r2.d))
    BY <2>3 DEF User, ForkHas
  <2>5. Settled(p) /\ proc'[p] = proc[p] /\ \A q \in Procs : q # p => Calm(q)
    BY <1>1 DEF Settled, Calm
  <2>6. dir' = dir /\ cell' = cell
    BY <1>13
  <2> QED
    BY <1>1, <2>2, <2>3, <2>4, <2>5, <2>6, Turns
<1> QED
  BY <1>12, <1>13 DEF copyuvm_page


\* The child finds what the parent has.
LEMMA HasForkReturn ==
  ASSUME CInv, MInv', NEW p \in Procs, fork_return(p)
  PROVE  CInv'
<1> DEFINE r == act[p]
           d == act[p].d
           z == act[p].np
           w == want[p]
<1>1. /\ In(p, "fork", "copy") /\ r.ret # 0 /\ r.a >= proc[p].sz /\ want' = [want EXCEPT ![z] = w]
      /\ r.op = "fork" /\ r.at = "copy" /\ r.sub = "none" /\ cell \in Cells /\ dir' = dir /\ cell' = cell
      /\ act' = [act EXCEPT ![p] = User]
      /\ proc' = [proc EXCEPT ![z] = [@ EXCEPT !.state = "RUNNABLE", !.pgdir = d, !.sz = proc[p].sz,
                                               !.stk = proc[p].stk, !.parent = p]]
  BY DEF fork_return, In, CInv, memory, Return
<1>2. /\ Seen(dir, cell, proc[p].pgdir) = w /\ proc[p].state = "RUNNABLE" /\ proc[p].pgdir # 0
      /\ PD[p] = proc[p].pgdir /\ MInv /\ proc[p] \in ProcRecs /\ w \in [VPage -> Contents \cup {None}]
      /\ Pres(dir[proc[p].pgdir]) = PagesTo(proc[p].sz)
  BY <1>1, Expected DEF Settled
<1>3. /\ r \in Frames /\ ForkOK(r, proc[p], proc[z], Pres(dir[d])) /\ z \in Procs /\ z # p
      /\ act[z] = User /\ proc[z] \in ProcRecs
  BY <1>1, <1>2, AtFork
<1>4. /\ d # 0 /\ Pres(dir[d]) = PagesTo(r.a) /\ r.a \in Nat /\ proc[p].sz \in Nat
      /\ r.a <= PGROUNDUP(proc[p].sz)
  BY <1>1, <1>2, <1>3 DEF ForkOK, Frames, ProcRecs
<1>5. Pres(dir[d]) = Pres(dir[proc[p].pgdir])
  BY <1>1, <1>2, <1>4, SamePages
<1>6. PICK o \in Owners : Owned(o, freelist, KS, PD, AD, dir, lost)
  BY <1>2 DEF MInv, Owning
<1>7. d \in Pages /\ Holds(o, d)
  BY <1>1, <1>2, <1>4, <1>6, AtDir
<1>8. proc[p].pgdir \in Pages /\ Holds(o, proc[p].pgdir)
  BY <1>2, <1>6, OwnDir DEF Owned
<1>9. Seen(dir, cell, d) = w
  <2>1. \A v \in VPage : Seen(dir, cell, d)[v] # None <=> v \in Pres(dir[d])
    BY <1>1, <1>2, <1>6, <1>7, SeenPresent
  <2>2. \A v \in VPage : w[v] # None <=> v \in Pres(dir[proc[p].pgdir])
    BY <1>1, <1>2, <1>6, <1>8, SeenPresent
  <2>3. \A v \in VPage : Seen(dir, cell, d)[v] # None => Seen(dir, cell, d)[v] = w[v]
    <3>1. ForkHas(r, w, Seen(dir, cell, d))
      BY <1>1, AtHas DEF Has
    <3> QED
      BY <1>1, <1>4, <3>1 DEF ForkHas
  <2>4. PICK A : A = Seen(dir, cell, d)
    OBVIOUS
  <2>5. A = [v \in VPage |-> A[v]]
    BY <2>4 DEF Seen
  <2>6. \A v \in VPage : A[v] = w[v]
    BY <1>5, <2>1, <2>2, <2>3, <2>4
  <2> HIDE DEF w
  <2>7. A = w
    BY <1>2, <2>5, <2>6
  <2> QED
    BY <2>4, <2>7
<1>10. /\ act'[p] = User /\ act'[z] = User /\ \A q \in Procs : q # p => act'[q] = act[q]
  BY <1>1, <1>2, <1>3 DEF MInv, Typed
<1>11. /\ want' \in Wants /\ want'[z] = w /\ \A q \in Procs : q # z => want'[q] = want[q]
  BY <1>1, <1>2, <1>3 DEF CInv, Wants
<1>12. proc'[z].pgdir = d /\ \A q \in Procs : q # z => proc'[q] = proc[q]
  BY <1>1, <1>2, <1>3 DEF MInv, Typed, ProcRecs
<1>13. PICK o2 \in Owners : Reaches(o2, p, 0)
  BY <1>1, <1>2, StandStill
<1>14. ASSUME NEW q \in Procs
       PROVE  Has(act'[q], proc'[q], want'[q], Seen(dir', cell', proc'[q].pgdir), Seen(dir', cell', act'[q].d))
  <2>1. CASE q = p
    <3>1. PICK A : A = Seen(dir', cell', act'[q].d)
      OBVIOUS
    <3>2. Seen(dir', cell', proc'[q].pgdir) = want'[q]
      BY <1>1, <1>2, <1>3, <1>11, <1>12, <2>1
    <3>3. PICK M : M = want'[q]
      OBVIOUS
    <3>4. Has(User, proc'[q], M, M, A)
      BY DEF Has
    <3> QED
      BY <1>10, <2>1, <3>1, <3>2, <3>3, <3>4
  <2>2. CASE q = z
    <3>1. PICK A : A = Seen(dir', cell', act'[q].d)
      OBVIOUS
    <3>2. Seen(dir', cell', proc'[q].pgdir) = want'[q]
      BY <1>1, <1>9, <1>11, <1>12, <2>2
    <3>3. PICK M : M = want'[q]
      OBVIOUS
    <3>4. Has(User, proc'[q], M, M, A)
      BY DEF Has
    <3> QED
      BY <1>10, <2>2, <3>1, <3>2, <3>3, <3>4
  <2>3. CASE q # p /\ q # z
    <3>1. act'[q] = act[q] /\ want'[q] = want[q] /\ Calm(q)
      BY <1>10, <1>11, <1>12, <2>3 DEF Calm
    <3> QED
      BY <1>13, <2>3, <3>1, OthersHave
  <2> QED
    BY <2>1, <2>2, <2>3
<1>15. cell' \in Cells
  BY <1>1
<1> QED
  BY <1>11, <1>14, <1>15 DEF CInv, HasAll

----------------------------------------------------------------------------
(* exit, wait and user programs                                            *)

\* An exit.
LEMMA HasExit ==
  ASSUME CInv, MInv', NEW p \in Procs, Exit(p)
  PROVE  CInv'
<1>1. /\ dir' = dir /\ cell' = cell /\ act' = act /\ want' = [want EXCEPT ![p] = Empty]
      /\ proc' = [q \in Procs |->
                    IF q = p THEN [proc[q] EXCEPT !.state = "ZOMBIE"]
                    ELSE IF proc[q].parent = p THEN [proc[q] EXCEPT !.parent = init] ELSE proc[q]]
  BY DEF Exit, memory
<1>2. MInv /\ proc \in [Procs -> ProcRecs] /\ cell' \in Cells
  BY <1>1 DEF CInv, MInv, Typed
<1>3. proc'[p].state = "ZOMBIE"
  BY <1>1, <1>2 DEF ProcRecs
<1>4. \A q \in Procs : q # p => Calm(q)
  <2> SUFFICES ASSUME NEW q \in Procs, q # p PROVE Calm(q)
    OBVIOUS
  <2>1. PICK u \in ProcRecs : u = proc[q]
    BY <1>2
  <2>2. proc'[q] = u \/ proc'[q] = [u EXCEPT !.parent = init]
    BY <1>1, <2>1
  <2>3. proc'[q].state = u.state /\ proc'[q].pgdir = u.pgdir /\ proc'[q].sz = u.sz
    BY <2>2 DEF ProcRecs
  <2> QED
    BY <2>1, <2>3 DEF Calm
<1>5. want' \in Wants /\ \A q \in Procs : q # p => want'[q] = want[q] /\ act'[q] = act[q]
  BY <1>1 DEF CInv, Wants, Empty
<1>6. PICK o \in Owners : Reaches(o, p, 0)
  BY <1>1, <1>2, StandStill
<1>7. Has(act'[p], proc'[p], want'[p], Seen(dir', cell', proc'[p].pgdir), Seen(dir', cell', act'[p].d))
  BY <1>3 DEF Has
<1> QED
  BY <1>2, <1>4, <1>5, <1>6, <1>7, OneActs

\* wait begins to free what a zombie has left.
LEMMA HasWait ==
  ASSUME CInv, MInv', NEW p \in Procs, NEW z \in Procs, Wait(p, z)
  PROVE  CInv'
<1>1. /\ Runs(p) /\ proc[z].state = "ZOMBIE" /\ dir' = dir /\ cell' = cell /\ want' = want
      /\ proc' = [proc EXCEPT ![z].kstack = 0]
  BY DEF Wait
<1>2. MInv /\ proc[p].state = "RUNNABLE" /\ proc \in [Procs -> ProcRecs] /\ z # p
  BY <1>1 DEF CInv, Runs, MInv, Typed
<1>3. PICK u2 : u2 = [proc[z] EXCEPT !.kstack = 0]
  OBVIOUS
<1>4. proc' = [proc EXCEPT ![z] = u2] /\ u2.state = "ZOMBIE"
  BY <1>1, <1>2, <1>3 DEF ProcRecs
<1>5. proc'[p] = proc[p] /\ \A q \in Procs : q # p => Calm(q)
  BY <1>2, <1>4, SlotCalm
<1>6. PICK r : r = Frame("wait", "reap", "freevm", proc[z].pgdir)
  OBVIOUS
<1>7. r \in Frames /\ r.op = "wait"
  <2>1. proc[z].pgdir \in PageOr0
    BY <1>2 DEF ProcRecs
  <2> QED
    BY <1>6, <2>1, Begins DEF Ats, Subs
<1>8. PICK r2 : r2 = [r EXCEPT !.np = z]
  OBVIOUS
<1>9. act' = [act EXCEPT ![p] = r2]
  BY <1>6, <1>8 DEF Wait
<1>10. r2.op = "wait" /\ r2 # User
  BY <1>7, <1>8 DEF Frames, User
<1> QED
  BY <1>1, <1>5, <1>9, <1>10, Turns DEF Settled

\* The zombie's slot is free again.
LEMMA HasWaitReturn ==
  ASSUME CInv, MInv', NEW p \in Procs, wait_return(p)
  PROVE  CInv'
<1> DEFINE z == act[p].np
<1>1. act[p].op = "wait" /\ want' = want /\ dir' = dir /\ cell' = cell /\ MInv
      /\ proc' = [proc EXCEPT ![z] = UNUSED] /\ act' = [act EXCEPT ![p] = User]
  BY DEF wait_return, In, CInv, Return, memory
<1>2. z \in Procs /\ z # p
  <2>1. z \in Procs /\ proc[z].state = "ZOMBIE"
    BY <1>1, Slot
  <2>2. proc[p].state = "RUNNABLE"
    BY <1>1, InCall
  <2> QED
    BY <2>1, <2>2
<1>3. proc'[p] = proc[p] /\ \A q \in Procs : q # p => Calm(q)
  <2> HIDE DEF z
  <2> QED
    BY <1>1, <1>2, Blank, SlotCalm
<1>4. Settled(p)
  BY <1>1 DEF Settled
<1> QED
  BY <1>1, <1>3, <1>4, Turns

\* A program finds what it has stored.
LEMMA HasStore ==
  ASSUME CInv, MInv', NEW p \in Procs, NEW v \in VPage, Store(p, v)
  PROVE  CInv'
<1> DEFINE d == proc[p].pgdir
           w == want[p]
<1>1. /\ Runs(p) /\ v \in Present(d) /\ dir' = dir /\ proc' = proc /\ act' = act
      /\ cell' = [cell EXCEPT ![dir[d].pte[v]] = "mark"] /\ want' = [want EXCEPT ![p][v] = "mark"]
  BY DEF Store
<1>2. /\ Seen(dir, cell, d) = w /\ d # 0 /\ PD[p] = d /\ MInv /\ w \in [VPage -> Contents \cup {None}]
  BY <1>1, Expected DEF Settled
<1>3. PICK o \in Owners : Owned(o, freelist, KS, PD, AD, dir, lost)
  BY <1>2 DEF MInv, Owning
<1>4. d \in Pages /\ Holds(o, d) /\ Mine(o, d, p) /\ DirOwns(o, dir)
  BY <1>2, <1>3, OwnDir DEF Owned
<1>5. dir[d].pte[v] # 0 /\ dir[d].pte[v] \in Pages
  <2>1. dir[d].pte[v] # 0
    BY <1>1 DEF Present
  <2> QED
    BY <1>4, <2>1, Shows
<1>6. PICK x \in Contents : x = "mark"
  BY Words
<1>7. PICK V : V = {v}
  OBVIOUS
<1>8. cell \in Cells /\ act[p] = User
  BY <1>1 DEF CInv, Runs
<1>9. cell' = Written(d, V, x)
  BY <1>1, <1>5, <1>6, <1>7, <1>8 DEF Written, Cells
<1> HIDE DEF d, w
<1>10. V \subseteq VPage /\ \A k \in V : dir[d].pte[k] # 0
  BY <1>5, <1>7
<1>11. /\ Reaches(o, p, d) /\ cell' \in Cells
       /\ \A k \in V : Seen(dir', cell', d)[k] = x
       /\ \A k \in VPage : k \notin V => Seen(dir', cell', d)[k] = Seen(dir, cell, d)[k]
  <2>1. MInv /\ cell \in Cells /\ dir' = dir /\ Owned(o, freelist, KS, PD, AD, dir, lost)
        /\ d \in Pages /\ Holds(o, d) /\ Mine(o, d, p)
    BY <1>1, <1>2, <1>3, <1>4, <1>8
  <2> QED
    BY <1>9, <1>10, <2>1, Writes
<1>12. PICK w2 : w2 = [w EXCEPT ![v] = x]
  OBVIOUS
<1>13. want' = [want EXCEPT ![p] = w2] /\ w2 \in [VPage -> Contents \cup {None}]
  <2>1. want' = [want EXCEPT ![p] = w2]
    BY <1>1, <1>6, <1>12 DEF CInv, Wants, w
  <2>2. w2 \in [VPage -> Contents \cup {None}]
    BY <1>2, <1>12
  <2> QED
    BY <2>1, <2>2
<1>14. want' \in Wants /\ want'[p] = w2 /\ \A q \in Procs : q # p => want'[q] = want[q]
  BY <1>13 DEF CInv, Wants
<1>15. PICK M : M = Seen(dir', cell', d)
  OBVIOUS
<1>16. M = w2
  <2>1. M = [k \in VPage |-> M[k]]
    BY <1>15 DEF Seen
  <2>2. \A k \in VPage : M[k] = w2[k]
    BY <1>2, <1>7, <1>11, <1>12, <1>15
  <2> QED
    BY <1>13, <2>1, <2>2
<1>17. PICK A : A = Seen(dir', cell', act'[p].d)
  OBVIOUS
<1>18. Has(User, proc[p], w2, M, A)
  BY <1>16 DEF Has
<1>19. Has(act'[p], proc'[p], want'[p], Seen(dir', cell', proc'[p].pgdir), Seen(dir', cell', act'[p].d))
  BY <1>1, <1>8, <1>14, <1>15, <1>17, <1>18 DEF d
<1>20. \A q \in Procs : q # p => act'[q] = act[q] /\ want'[q] = want[q] /\ Calm(q)
  BY <1>1, <1>14 DEF Calm
<1> QED
  BY <1>11, <1>14, <1>19, <1>20, OneActs


----------------------------------------------------------------------------
(* exec                                                                    *)

\* What allocuvm has set up, or answers at once.
LEMMA AllocFields ==
  ASSUME NEW r \in Frames, r.sub = "none", NEW old \in Nat, NEW new \in Nat, NEW r2, r2 = allocuvm(r, old, new)
  PROVE  /\ r2.op = r.op /\ r2.at = r.at /\ r2.d = r.d /\ r2.i = r.i /\ r2.prog = r.prog /\ r2.sz = r.sz
         /\ r2.args = r.args /\ r2.sub \in {"none", "allocuvm"}
         /\ r2.sub = "allocuvm" => r2.old = old /\ r2.new = new /\ new >= old
         /\ r2.sub = "none" /\ r2.ret # 0 => r2.ret >= old /\ r2.ret >= new /\ (new >= old => r2.ret = new)
<1>1. PGROUNDUP(old) \in Nat /\ old <= PGROUNDUP(old)
  BY RoundUp
<1>2. CASE new > USERTOP
  <2>1. r2 = [r EXCEPT !.ret = 0]
    BY <1>2 DEF allocuvm
  <2> QED
    BY <2>1 DEF Frames
<1>3. CASE ~(new > USERTOP) /\ (new < old \/ PGROUNDUP(old) >= new)
  <2>1. PICK k \in Nat : k = IF new < old THEN old ELSE new
    OBVIOUS
  <2>2. r2 = [r EXCEPT !.ret = k]
    BY <1>3, <2>1 DEF allocuvm
  <2>3. k >= old /\ k >= new /\ (new >= old => k = new)
    <3>1. CASE new < old
      BY <2>1, <3>1
    <3>2. CASE ~(new < old)
      BY <2>1, <3>2
    <3> QED
      BY <3>1, <3>2
  <2> QED
    BY <2>2, <2>3 DEF Frames
<1>4. CASE ~(new > USERTOP) /\ ~(new < old \/ PGROUNDUP(old) >= new)
  <2>1. r2 = [r EXCEPT !.sub = "allocuvm", !.old = old, !.new = new, !.a = PGROUNDUP(old)]
    BY <1>4 DEF allocuvm
  <2> QED
    BY <1>4, <2>1 DEF Frames
<1> QED
  BY <1>2, <1>3, <1>4

\* exec: what it has.
LEMMA ExecNow ==
  ASSUME CInv, NEW p \in Procs, act[p].op = "exec"
  PROVE  /\ ExecHas(act[p], Seen(dir, cell, act[p].d)) /\ ExecOK(act[p], Pres(dir[act[p].d]))
         /\ act[p] \in Frames /\ MInv /\ Settled(p) /\ act \in [Procs -> Frames \cup {User}]
<1>1. MInv
  BY DEF CInv
<1>2. ExecHas(act[p], Seen(dir, cell, act[p].d))
  BY AtHas DEF Has
<1>3. ExecOK(act[p], Pres(dir[act[p].d])) /\ act[p] \in Frames
  BY <1>1, AtExec
<1> QED
  BY <1>1, <1>2, <1>3 DEF Settled, MInv, Typed

\* A step of exec that changes only the call.
LEMMA ExecTurns ==
  ASSUME CInv, MInv', NEW p \in Procs, act[p].op = "exec", dir' = dir, cell' = cell, want' = want, proc' = proc,
         NEW r2, act' = [act EXCEPT ![p] = r2],
         r2 = User \/ (r2.op = "exec" /\ (r2.at = "bad" \/ ExecHas(r2, Seen(dir, cell, r2.d))))
  PROVE  CInv'
<1>1. Settled(p) /\ proc'[p] = proc[p] /\ \A q \in Procs : q # p => Calm(q)
  BY DEF Settled, Calm
<1>2. \/ r2 = User
      \/ /\ r2 # User /\ r2.op \in {"fork", "exec", "wait"} /\ r2.op # "fork"
         /\ r2.op = "exec" => ExecHas(r2, Seen(dir, cell, r2.d))
  BY DEF User, ExecHas
<1> QED
  BY <1>1, <1>2, Turns

\* It gives up.
LEMMA HasBad ==
  ASSUME CInv, MInv', NEW p \in Procs, act[p].op = "exec", dir' = dir, cell' = cell, want' = want, proc' = proc,
         Bad(p)
  PROVE  CInv'
<1>1. act[p] \in Frames /\ act \in [Procs -> Frames \cup {User}]
  BY ExecNow
<1>2. PICK r2 : r2 = [act[p] EXCEPT !.at = "bad", !.sub = "freevm"]
  OBVIOUS
<1>3. act' = [act EXCEPT ![p] = r2]
  BY <1>1, <1>2 DEF Bad, Goto
<1>4. r2.op = "exec" /\ r2.at = "bad"
  BY <1>1, <1>2 DEF Frames
<1> QED
  BY <1>3, <1>4, ExecTurns

\* It begins.
LEMMA HasExec ==
  ASSUME CInv, MInv', NEW p \in Procs, NEW prog \in Programs, NEW n \in ArgLens, Exec(p, prog, n)
  PROVE  CInv'
<1>1. Runs(p) /\ want' = want /\ dir' = dir /\ cell' = cell /\ proc' = proc
  BY DEF Exec, memory
<1>2. PICK r : r = Frame("exec", "segment", "setupkvm", 0)
  OBVIOUS
<1>3. r \in Frames /\ r.op = "exec" /\ r.at = "segment" /\ r.i = 1 /\ r.d = 0 /\ r.sub = "setupkvm"
  <2>1. 0 \in PageOr0
    BY MemoryAssumption DEF PageOr0
  <2> QED
    BY <1>2, <2>1, Begins DEF Ats, Subs
<1>4. PICK r2 : r2 = [r EXCEPT !.prog = prog, !.args = n]
  OBVIOUS
<1>5. act' = [act EXCEPT ![p] = r2]
  BY <1>2, <1>4 DEF Exec
<1>6. /\ r2.op = "exec" /\ r2.at = "segment" /\ r2.i = 1 /\ r2.d = 0 /\ r2.sub = "setupkvm"
      /\ r2.prog = prog /\ r2.args = n
  BY <1>3, <1>4 DEF Frames
<1>7. Beneath(r2)
  <2>1. DOMAIN prog \subseteq Nat \ {0}
    BY MemoryAssumption
  <2> QED
    BY <1>6, <2>1 DEF Beneath
<1>8. ExecHas(r2, Seen(dir, cell, r2.d)) /\ r2 # User
  BY <1>6, <1>7 DEF ExecHas, User
<1>9. Settled(p) /\ proc'[p] = proc[p] /\ \A q \in Procs : q # p => Calm(q)
  BY <1>1 DEF Settled, Calm
<1> QED
  BY <1>1, <1>5, <1>6, <1>8, <1>9, Turns

\* There is no room for the stack, or for the arguments.
LEMMA HasNostack ==
  ASSUME CInv, MInv', NEW p \in Procs, exec_nostack(p)
  PROVE  CInv'
<1>1. act[p].op = "exec" /\ dir' = dir /\ cell' = cell /\ want' = want /\ proc' = proc /\ Bad(p)
  BY DEF exec_nostack, In, memory
<1> QED
  BY <1>1, HasBad

\* It returns.
LEMMA HasExecReturn ==
  ASSUME CInv, MInv', NEW p \in Procs, exec_return(p)
  PROVE  CInv'
<1>1. act[p].op = "exec" /\ dir' = dir /\ cell' = cell /\ want' = want /\ proc' = proc /\ act' = [act EXCEPT ![p] = User]
  BY DEF exec_return, In, memory, Return
<1> QED
  BY <1>1, ExecTurns

\* A segment: what exec has read of it.
LEMMA SegmentIs ==
  ASSUME NEW r \in Frames, r.i \in 1 .. Len(r.prog)
  PROVE  /\ r.prog \in Programs /\ r.i \in DOMAIN r.prog
         /\ r.prog[r.i].va \in Nat /\ r.prog[r.i].memsz \in Nat /\ r.prog[r.i].filesz \in Nat
<1>1. r.prog \in Programs
  BY DEF Frames
<1>2. PICK S : S = [va : Nat, memsz : Nat, filesz : Nat, readable : BOOLEAN, text : STRING]
  OBVIOUS
<1>3. r.prog \in Seq(S)
  BY <1>1, <1>2, MemoryAssumption
<1>4. r.prog[r.i] \in S /\ r.i \in DOMAIN r.prog
  BY <1>3, Element
<1>5. \A x \in S : x.va \in Nat /\ x.memsz \in Nat /\ x.filesz \in Nat
  BY <1>2
<1> QED
  BY <1>1, <1>4, <1>5

\* The next segment is allocated.
LEMMA HasSegment ==
  ASSUME CInv, MInv', NEW p \in Procs, exec_segment(p)
  PROVE  CInv'
<1> DEFINE r == act[p]
           ph == r.prog[r.i]
<1>1. /\ r.op = "exec" /\ r.at = "segment" /\ r.sub = "none" /\ (r.d = 0 \/ r.i <= Len(r.prog))
      /\ dir' = dir /\ cell' = cell /\ want' = want /\ proc' = proc
  BY DEF exec_segment, In, memory
<1>2. /\ ExecHas(r, Seen(dir, cell, r.d)) /\ ExecOK(r, Pres(dir[r.d])) /\ r \in Frames
      /\ act \in [Procs -> Frames \cup {User}]
  BY <1>1, ExecNow
<1>3. CASE r.d = 0
  <2>1. act' = [act EXCEPT ![p] = User]
    BY <1>3 DEF exec_segment, Return
  <2> QED
    BY <1>1, <2>1, ExecTurns
<1>4. CASE r.d # 0 /\ ph.memsz < ph.filesz
  <2>1. Bad(p)
    BY <1>4 DEF exec_segment
  <2> QED
    BY <1>1, <2>1, HasBad
<1>5. CASE r.d # 0 /\ ~(ph.memsz < ph.filesz)
  <2>1. r.i \in 1 .. Len(r.prog) /\ r.sz \in Nat
    BY <1>1, <1>2, <1>5 DEF ExecOK, Frames
  <2>2. ph.va \in Nat /\ ph.memsz \in Nat /\ ph.filesz \in Nat
    BY <1>2, <2>1, SegmentIs
  <2>3. PICK r1 : r1 = [r EXCEPT !.at = "load"]
    OBVIOUS
  <2>4. PICK new \in Nat : new = ph.va + ph.memsz
    BY <2>2
  <2>5. PICK r2 : r2 = allocuvm(r1, r.sz, new)
    OBVIOUS
  <2>6. act' = [act EXCEPT ![p] = r2]
    BY <1>5, <2>3, <2>4, <2>5 DEF exec_segment
  <2>7. /\ r1 \in Frames /\ r1.at = "load" /\ r1.sub = "none" /\ r1.op = "exec" /\ r1.d = r.d /\ r1.i = r.i
        /\ r1.prog = r.prog /\ r1.sz = r.sz /\ r1.args = r.args
    BY <1>1, <1>2, <2>3 DEF Frames, Ats
  <2>8. /\ r2.op = "exec" /\ r2.at = "load" /\ r2.d = r.d /\ r2.i = r.i /\ r2.prog = r.prog /\ r2.sz = r.sz
        /\ r2.args = r.args /\ r2.sub \in {"none", "allocuvm"}
        /\ r2.sub = "allocuvm" => r2.old = r.sz /\ r2.new = new /\ new >= r.sz
        /\ r2.sub = "none" /\ r2.ret # 0 => r2.ret >= r.sz /\ r2.ret >= new
    BY <2>1, <2>5, <2>7, AllocFields
  <2>9. LoadHas(r2, ph)
    <3>1. ph.filesz <= ph.memsz
      BY <1>5, <2>2
    <3> HIDE DEF ph, r
    <3> QED
      BY <2>4, <2>8, <3>1 DEF LoadHas
  <2>10. PICK A : A = Seen(dir, cell, r.d)
    OBVIOUS
  <2>11. Beneath(r) /\ r.args \in ArgLens /\ \A v \in VPage : A[v] # None => A[v] = Text(r.prog, r.i, v)
    BY <1>1, <1>2, <1>5, <2>10 DEF ExecHas
  <2>12. Beneath(r2)
    BY <2>8, <2>11 DEF Beneath
  <2>13. r2.sub = "allocuvm" => r2.old >= r2.sz
    BY <2>1, <2>8
  <2>14. LoadHas(r2, r2.prog[r2.i])
    BY <2>8, <2>9
  <2> HIDE DEF ph, r
  <2>15. ExecHas(r2, A)
    BY <2>8, <2>11, <2>12, <2>13, <2>14 DEF ExecHas
  <2>16. ExecHas(r2, Seen(dir, cell, r2.d))
    BY <2>8, <2>10, <2>15
  <2> QED
    BY <1>1, <2>6, <2>8, <2>16, ExecTurns DEF r
<1> QED
  BY <1>3, <1>4, <1>5

\* The stack is allocated.
LEMMA HasStack ==
  ASSUME CInv, MInv', NEW p \in Procs, exec_stack(p)
  PROVE  CInv'
<1> DEFINE r == act[p]
           s == PGROUNDUP(act[p].sz)
<1>1. /\ r.op = "exec" /\ r.at = "segment" /\ r.sub = "none" /\ r.d # 0 /\ r.i > Len(r.prog)
      /\ dir' = dir /\ cell' = cell /\ want' = want /\ proc' = proc
      /\ act' = [act EXCEPT ![p] = allocuvm([r EXCEPT !.at = "commit"], s, s + PGSIZE)]
  BY DEF exec_stack, In, memory
<1>2. /\ ExecHas(r, Seen(dir, cell, r.d)) /\ r \in Frames
  BY <1>1, ExecNow
<1>3. r.sz \in Nat /\ s \in Nat /\ r.sz <= s /\ s + PGSIZE \in Nat /\ s + PGSIZE >= s
  <2>1. r.sz \in Nat
    BY <1>2 DEF Frames
  <2>2. s \in Nat /\ r.sz <= s
    BY <2>1, RoundUp
  <2> HIDE DEF s, r
  <2> QED
    BY <2>1, <2>2, MemoryAssumption
<1>4. PICK r1 : r1 = [r EXCEPT !.at = "commit"]
  OBVIOUS
<1>5. PICK new \in Nat : new = s + PGSIZE
  BY <1>3
<1>6. PICK old \in Nat : old = s
  BY <1>3
<1>7. PICK r2 : r2 = allocuvm(r1, old, new)
  OBVIOUS
<1>8. act' = [act EXCEPT ![p] = r2]
  BY <1>1, <1>4, <1>5, <1>6, <1>7
<1>9. /\ r1 \in Frames /\ r1.at = "commit" /\ r1.sub = "none" /\ r1.op = "exec" /\ r1.d = r.d /\ r1.i = r.i
      /\ r1.prog = r.prog /\ r1.sz = r.sz /\ r1.args = r.args
  BY <1>1, <1>2, <1>4 DEF Frames, Ats
<1>10. /\ r2.op = "exec" /\ r2.at = "commit" /\ r2.d = r.d /\ r2.i = r.i /\ r2.prog = r.prog /\ r2.sz = r.sz
       /\ r2.args = r.args /\ r2.sub \in {"none", "allocuvm"}
       /\ r2.sub = "allocuvm" => r2.old = old /\ r2.new = new
       /\ r2.sub = "none" /\ r2.ret # 0 => r2.ret = new
  <2>1. new >= old
    BY <1>3, <1>5, <1>6
  <2> QED
    BY <1>7, <1>9, <2>1, AllocFields
<1>11. StackHas(r2)
  BY <1>1, <1>5, <1>10 DEF StackHas
<1>12. PICK A : A = Seen(dir, cell, r.d)
  OBVIOUS
<1>13. Beneath(r) /\ r.args \in ArgLens /\ \A v \in VPage : A[v] # None => A[v] = Text(r.prog, r.i, v)
  BY <1>1, <1>2, <1>12 DEF ExecHas
<1>14. Beneath(r2)
  BY <1>10, <1>13 DEF Beneath
<1>15. r2.sub = "allocuvm" => r2.old >= r2.sz
  BY <1>3, <1>6, <1>10
<1> HIDE DEF s, r
<1>16. ExecHas(r2, A)
  BY <1>10, <1>11, <1>13, <1>14, <1>15 DEF ExecHas
<1>17. ExecHas(r2, Seen(dir, cell, r2.d))
  BY <1>10, <1>12, <1>16
<1> QED
  BY <1>1, <1>8, <1>10, <1>17, ExecTurns DEF r


\* The largest of a set of numbers.
LEMMA LatestIs ==
  ASSUME NEW s, s \subseteq Nat, NEW i \in s, \A j \in s : j <= i
  PROVE  Latest(s) = i
<1>1. Latest(s) \in s /\ \A j \in s : j <= Latest(s)
  BY DEF Latest
<1>2. PICK k \in s : k = Latest(s)
  BY <1>1
<1>3. k \in Nat /\ i \in Nat /\ i <= k /\ k <= i
  BY <1>1, <1>2
<1> QED
  BY <1>2, <1>3

\* What is in a page when one more segment is loaded.
LEMMA TextNext ==
  ASSUME NEW prog, DOMAIN prog \subseteq Nat, NEW i \in DOMAIN prog, NEW v
  PROVE  /\ v \in Loaded(prog[i]) => Text(prog, i + 1, v) = prog[i].text
         /\ v \notin Loaded(prog[i]) => Text(prog, i + 1, v) = Text(prog, i, v)
<1>1. i \in Nat /\ \A j \in DOMAIN prog : j \in Nat /\ (j < i + 1 <=> j < i \/ j = i)
  OBVIOUS
<1>2. ASSUME v \in Loaded(prog[i]) PROVE Text(prog, i + 1, v) = prog[i].text
  <2>1. PICK s : s = Before(prog, i + 1, v)
    OBVIOUS
  <2>2. s \subseteq Nat /\ i \in s /\ \A j \in s : j <= i
    BY <1>1, <1>2, <2>1 DEF Before
  <2>3. Latest(s) = i
    BY <2>2, LatestIs
  <2>4. s # {}
    BY <2>2
  <2> QED
    BY <2>1, <2>3, <2>4 DEF Text
<1>3. ASSUME v \notin Loaded(prog[i]) PROVE Text(prog, i + 1, v) = Text(prog, i, v)
  <2>1. Before(prog, i + 1, v) = Before(prog, i, v)
    BY <1>1, <1>3 DEF Before
  <2> QED
    BY <2>1 DEF Text
<1> QED
  BY <1>2, <1>3

\* A segment lies below its end.
LEMMA LoadedBelow ==
  ASSUME NEW ph, ph.va \in Nat, ph.memsz \in Nat, ph.filesz \in Nat, ph.filesz <= ph.memsz,
         NEW sz \in Nat, sz >= ph.va + ph.memsz
  PROVE  Loaded(ph) \subseteq PagesTo(sz) /\ Loaded(ph) \subseteq VPage
<1>1. \A v \in VPage : v * PGSIZE \in Nat
  BY VPageNat
<1>2. ph.va + ph.filesz <= sz
  OBVIOUS
<1>3. ASSUME NEW v \in VPage, v * PGSIZE < ph.va + ph.filesz PROVE v * PGSIZE < sz
  <2>1. PICK k \in Nat : k = v * PGSIZE
    BY <1>1
  <2> QED
    BY <1>2, <1>3, <2>1
<1> QED
  BY <1>3 DEF Loaded, PagesTo

\* A segment is loaded.
LEMMA HasLoad ==
  ASSUME CInv, MInv', Fitted, NEW p \in Procs, exec_load(p)
  PROVE  CInv'
<1> DEFINE r == act[p]
           d == act[p].d
           ph == act[p].prog[act[p].i]
<1>1. /\ r.op = "exec" /\ r.at = "load" /\ r.sub = "none"
      /\ dir' = dir /\ want' = want /\ proc' = proc
  BY DEF exec_load, In
<1>2. /\ ExecHas(r, Seen(dir, cell, d)) /\ ExecOK(r, Pres(dir[d])) /\ r \in Frames /\ MInv
      /\ act \in [Procs -> Frames \cup {User}] /\ cell \in Cells
  BY <1>1, ExecNow DEF CInv
<1>3. CASE r.ret = 0 \/ ~ph.readable
  <2>1. Bad(p) /\ cell' = cell
    BY <1>3 DEF exec_load
  <2> QED
    BY <1>1, <2>1, HasBad
<1>4. CASE ~(r.ret = 0 \/ ~ph.readable)
  <2>1. /\ r.ret # 0 /\ act' = [act EXCEPT ![p].at = "segment", ![p].i = @ + 1, ![p].sz = r.ret]
        /\ cell' = [pg \in Pages |-> IF pg \in {dir[d].pte[v] : v \in Loaded(ph)} THEN ph.text ELSE cell[pg]]
    BY <1>4 DEF exec_load
  <2>2. /\ d # 0 /\ r.i \in 1 .. Len(r.prog) /\ r.ret \in Nat /\ r.i \in Nat /\ r.sz \in Nat
        /\ Pres(dir[d]) = PagesTo(r.ret)
    BY <1>1, <1>2, <2>1 DEF ExecOK, Frames
  <2>3. /\ r.prog \in Programs /\ r.i \in DOMAIN r.prog
        /\ ph.va \in Nat /\ ph.memsz \in Nat /\ ph.filesz \in Nat
    BY <1>2, <2>2, SegmentIs
  <2>4. PICK A : A = Seen(dir, cell, d)
    OBVIOUS
  <2>5. /\ \A v \in VPage : A[v] # None => A[v] = Text(r.prog, r.i, v)
        /\ Beneath(r) /\ r.args \in ArgLens /\ LoadHas(r, ph)
    BY <1>1, <1>2, <2>2, <2>4 DEF ExecHas
  <2>6. ph.filesz <= ph.memsz /\ r.ret >= r.sz /\ r.ret >= ph.va + ph.memsz
    BY <1>1, <2>1, <2>5 DEF LoadHas
  <2>7. PICK x \in Contents : x = ph.text
    <3>1. ph.text \in Texts
      BY <2>3 DEF Texts
    <3>2. ph.text # None
      BY <2>3 DEF Fitted
    <3> QED
      BY <3>1, <3>2 DEF Contents
  <2>8. PICK V : V = Loaded(ph)
    OBVIOUS
  <2>9. PICK o \in Owners : Owned(o, freelist, KS, PD, AD, dir, lost)
    BY <1>2 DEF MInv, Owning
  <2>10. /\ d \in Pages /\ Holds(o, d) /\ Mine(o, d, p) /\ dir[d].pte \in [VPage -> PageOr0] /\ PD[p] # d
    BY <1>1, <1>2, <2>2, <2>9, AtDir, AtExec
  <2>11. cell' = Written(d, V, x)
    BY <2>1, <2>7, <2>8 DEF Written
  <2>12. PICK r2 : r2 = [r EXCEPT !.at = "segment", !.i = r.i + 1, !.sz = r.ret]
    OBVIOUS
  <2>13. act' = [act EXCEPT ![p] = r2]
    BY <1>2, <2>1, <2>12
  <2>14. /\ r2.op = "exec" /\ r2.at = "segment" /\ r2.d = d /\ r2.i = r.i + 1 /\ r2.prog = r.prog /\ r2.sz = r.ret
         /\ r2.args = r.args /\ r2.sub = "none"
    BY <1>1, <1>2, <2>12 DEF Frames
  <2>15. V \subseteq PagesTo(r.ret) /\ V \subseteq VPage
    BY <2>2, <2>3, <2>6, <2>8, LoadedBelow
  <2>16. \A v \in V : dir[d].pte[v] # 0
    <3>1. V \subseteq Pres(dir[d])
      BY <2>2, <2>15
    <3> QED
      BY <3>1 DEF Pres
  <2>17. DOMAIN r.prog \subseteq Nat
    <3>1. PICK S : r.prog \in Seq(S)
      BY <2>3, MemoryAssumption
    <3>2. DOMAIN r.prog = 1 .. Len(r.prog) /\ Len(r.prog) \in Nat
      BY <3>1
    <3> HIDE DEF r
    <3> QED
      BY <3>2
  <2>18. \A v : /\ v \in V => Text(r.prog, r.i + 1, v) = x
                /\ v \notin V => Text(r.prog, r.i + 1, v) = Text(r.prog, r.i, v)
    <3>1. PICK prog : prog = r.prog
      OBVIOUS
    <3>2. PICK i \in DOMAIN prog : i = r.i
      BY <2>3, <3>1
    <3>3. DOMAIN prog \subseteq Nat /\ V = Loaded(prog[i]) /\ x = prog[i].text
      BY <2>7, <2>8, <2>17, <3>1, <3>2
    <3>4. \A v : /\ v \in Loaded(prog[i]) => Text(prog, i + 1, v) = prog[i].text
                 /\ v \notin Loaded(prog[i]) => Text(prog, i + 1, v) = Text(prog, i, v)
      BY <3>3, TextNext
    <3> QED
      BY <3>1, <3>2, <3>3, <3>4
  <2>19. Beneath(r2)
    <3>1. PagesTo(r.sz) \subseteq PagesTo(r.ret)
      BY <2>2, <2>6, MorePages
    <3>2. \A j \in DOMAIN r.prog : j \in Nat /\ (j < r.i + 1 => j < r.i \/ j = r.i)
      BY <2>2, <2>17
    <3>3. \A j \in DOMAIN r.prog : j < r.i + 1 => Loaded(r.prog[j]) \subseteq PagesTo(r.ret)
      BY <2>5, <2>8, <2>15, <3>1, <3>2 DEF Beneath
    <3> QED
      BY <2>14, <3>3 DEF Beneath
  <2> HIDE DEF r, d, ph
  <2>20. /\ Reaches(o, p, d) /\ cell' \in Cells
         /\ \A v \in V : Seen(dir', cell', d)[v] = x
         /\ \A w \in VPage : w \notin V => Seen(dir', cell', d)[w] = Seen(dir, cell, d)[w]
    <3>1. MInv /\ cell \in Cells /\ dir' = dir
      BY <1>1, <1>2
    <3> QED
      BY <2>9, <2>10, <2>11, <2>15, <2>16, <3>1, Writes
  <2>21. PICK A2 : A2 = Seen(dir', cell', d)
    OBVIOUS
  <2>22. \A v \in VPage : A2[v] # None => A2[v] = Text(r.prog, r.i + 1, v)
    BY <2>4, <2>5, <2>18, <2>20, <2>21
  <2>23. ExecHas(r2, A2)
    BY <2>2, <2>5, <2>14, <2>19, <2>22 DEF ExecHas
  <2>24. r2.op = "exec" => ExecHas(r2, Seen(dir', cell', r2.d))
    BY <2>14, <2>21, <2>23
  <2>25. r2.op = act[p].op /\ act[p].op \in {"fork", "exec", "wait"} /\ r2.op # "fork"
    BY <1>1, <2>14 DEF r
  <2> QED
    BY <1>1, <2>10, <2>13, <2>20, <2>24, <2>25, PrivateStep
<1> QED
  BY <1>3, <1>4


\* The page of an address is the one that begins below it and ends behind it.
LEMMA PageIs ==
  ASSUME NEW x \in Nat, NEW m \in Nat, m * PGSIZE <= x, x < m * PGSIZE + PGSIZE
  PROVE  Page(x) = m
<1>1. PICK k \in Nat : k = Page(x)
  BY Divides
<1>2. k * PGSIZE <= x /\ x < k * PGSIZE + PGSIZE
  BY <1>1, Divides
<1>3. PICK a \in Nat : a = m * PGSIZE
  BY Below
<1>4. PICK b \in Nat : b = k * PGSIZE
  BY Below
<1>5. (k < m => b + PGSIZE <= a) /\ (m < k => a + PGSIZE <= b)
  BY <1>3, <1>4, Below
<1>6. PGSIZE \in Nat /\ a <= x /\ x < a + PGSIZE /\ b <= x /\ x < b + PGSIZE
  BY <1>2, <1>3, <1>4, MemoryAssumption
<1>7. ~(k < m) /\ ~(m < k)
  BY <1>5, <1>6
<1> QED
  BY <1>1, <1>7

\* The arguments are in the last page.
LEMMA TopPage ==
  ASSUME NEW sz \in Nat, NEW top, top = PGROUNDUP(sz) + PGSIZE, top <= USERTOP,
         NEW n \in Nat, 1 <= n, n <= PGSIZE, NEW m, m = Page(top) - 1
  PROVE  /\ m \in VPage /\ m \in PagesTo(top) /\ PagesTo(sz) \subseteq PagesTo(top) /\ top \in Nat
         /\ Page(top - n) = m /\ Page(top - n + n - 1) = m
<1>1. PICK s \in Nat : s = PGROUNDUP(sz)
  BY RoundUp
<1>2. sz <= s /\ Aligned(s) /\ Page(s) \in Nat
  BY <1>1, RoundUp
<1>3. PGSIZE \in Nat /\ PGSIZE > 0 /\ top \in Nat /\ top = s + PGSIZE /\ s < top
  BY <1>1, MemoryAssumption
<1>4. Page(top) = Page(s) + 1
  BY <1>2, <1>3, NextPage
<1>5. m = Page(s) /\ m \in Nat /\ s = m * PGSIZE
  BY <1>2, <1>4 DEF Aligned
<1>6. m \in VPage
  BY <1>2, <1>3, <1>5, InRange
<1>7. m \in PagesTo(top)
  BY <1>3, <1>5, <1>6 DEF PagesTo
<1>8. PagesTo(sz) \subseteq PagesTo(top)
  <2>1. sz <= top
    BY <1>2, <1>3
  <2> QED
    BY <1>3, <2>1, MorePages
<1>9. Page(top - n) = m
  <2>1. PICK x \in Nat : x = top - n
    BY <1>3
  <2>2. s <= x /\ x < s + PGSIZE
    BY <1>3, <2>1
  <2>3. m * PGSIZE <= x /\ x < m * PGSIZE + PGSIZE
    BY <1>5, <2>2
  <2>4. Page(x) = m
    BY <1>5, <2>3, PageIs
  <2> QED
    BY <2>1, <2>4
<1>10. Page(top - n + n - 1) = m
  <2>1. PICK x \in Nat : x = top - n + n - 1
    BY <1>3
  <2>2. s <= x /\ x < s + PGSIZE
    BY <1>3, <2>1
  <2>3. m * PGSIZE <= x /\ x < m * PGSIZE + PGSIZE
    BY <1>5, <2>2
  <2>4. Page(x) = m
    BY <1>5, <2>3, PageIs
  <2> QED
    BY <2>1, <2>4
<1> QED
  BY <1>3, <1>6, <1>7, <1>8, <1>9, <1>10

\* What is loaded, with the arguments in the last page, is the image of the program.
LEMMA ImageIs ==
  ASSUME NEW prog, NEW i, \A j \in DOMAIN prog : j < i, NEW sz, PagesTo(sz) \subseteq VPage,
         NEW top, PagesTo(sz) \subseteq PagesTo(top), NEW m, m = Page(top) - 1,
         \A j \in DOMAIN prog : Loaded(prog[j]) \subseteq PagesTo(sz),
         NEW A2, A2 = [v \in VPage |-> A2[v]], A2[m] = "args",
         \A v \in VPage : v # m => (A2[v] # None <=> v \in PagesTo(top)),
         \A v \in VPage : v # m /\ A2[v] # None => A2[v] = Text(prog, i, v)
  PROVE  A2 = ImageOf(prog, top)
<1> DEFINE s(v) == {j \in DOMAIN prog : v \in Loaded(prog[j])}
<1>1. \A v : Before(prog, i, v) = s(v)
  BY DEF Before
<1>2. ASSUME NEW v \in VPage
      PROVE  A2[v] = IF v = Page(top) - 1 THEN "args"
                     ELSE IF s(v) # {} THEN prog[Latest(s(v))].text
                     ELSE IF v \in PagesTo(top) THEN "zero" ELSE None
  <2>1. CASE v = m
    BY <2>1
  <2>2. CASE v # m /\ s(v) # {}
    <3>1. v \in PagesTo(top)
      BY <2>2
    <3>2. A2[v] = Text(prog, i, v)
      BY <2>2, <3>1
    <3>3. Text(prog, i, v) = prog[Latest(s(v))].text
      BY <1>1, <2>2 DEF Text
    <3> QED
      BY <2>2, <3>2, <3>3
  <2>3. CASE v # m /\ s(v) = {}
    <3>1. Text(prog, i, v) = "zero"
      BY <1>1, <2>3 DEF Text
    <3> QED
      BY <2>3, <3>1
  <2> QED
    BY <2>1, <2>2, <2>3
<1>3. ImageOf(prog, top) = [v \in VPage |-> IF v = Page(top) - 1 THEN "args"
                                            ELSE IF s(v) # {} THEN prog[Latest(s(v))].text
                                            ELSE IF v \in PagesTo(top) THEN "zero" ELSE None]
  BY DEF ImageOf, Latest
<1> HIDE DEF s
<1> QED
  BY <1>2, <1>3

\* What is seen is what can be in a page.
LEMMA SeenType ==
  ASSUME NEW dr, NEW cl \in Cells, NEW d, \A v \in VPage : dr[d].pte[v] # 0 => dr[d].pte[v] \in Pages
  PROVE  Seen(dr, cl, d) \in [VPage -> Contents \cup {None}]
  BY DEF Seen, Cells

\* The indices of a program.
LEMMA Indices ==
  ASSUME NEW prog \in Programs \cup {<<>>}
  PROVE  Len(prog) \in Nat /\ \A j \in DOMAIN prog : j \in Nat /\ j <= Len(prog)
<1>1. \E S : prog \in Seq(S)
  <2>1. CASE prog \in Programs
    BY <2>1, MemoryAssumption
  <2>2. CASE prog = <<>>
    <3>1. prog \in Seq({})
      BY <2>2
    <3> QED
      BY <3>1
  <2> QED
    BY <2>1, <2>2
<1>2. PICK S : prog \in Seq(S)
  BY <1>1
<1>3. DOMAIN prog = 1 .. Len(prog) /\ Len(prog) \in Nat
  BY <1>2
<1> QED
  BY <1>3

\* The new image takes the place of the old one.
LEMMA HasCommit ==
  ASSUME CInv, MInv', Fitted, NEW p \in Procs, exec_commit(p)
  PROVE  CInv'
<1> DEFINE r == act[p]
           d == act[p].d
           top == act[p].ret
<1>1. /\ r.op = "exec" /\ r.at = "commit" /\ r.sub = "none" /\ top # 0 /\ dir' = dir
      /\ cell' = [pg \in Pages |-> IF pg \in copyout(d, top - r.args, r.args) THEN "args" ELSE cell[pg]]
      /\ proc' = [proc EXCEPT ![p].pgdir = d, ![p].sz = top, ![p].stk = Page(top) - 1]
      /\ act' = [act EXCEPT ![p].at = "bad", ![p].sub = "freevm", ![p].d = proc[p].pgdir]
      /\ want' = [want EXCEPT ![p] = ImageOf(r.prog, top)]
  BY DEF exec_commit, In
<1>2. /\ ExecHas(r, Seen(dir, cell, d)) /\ ExecOK(r, Pres(dir[d])) /\ r \in Frames /\ MInv
      /\ act \in [Procs -> Frames \cup {User}] /\ cell \in Cells /\ proc \in [Procs -> ProcRecs]
  BY <1>1, ExecNow DEF CInv, MInv, Typed
<1>3. d # 0 /\ top \in Nat /\ r.sz \in Nat /\ r.i \in Nat /\ top <= USERTOP /\ Pres(dir[d]) = PagesTo(top)
  BY <1>1, <1>2 DEF ExecOK, Frames
<1>4. PICK A : A = Seen(dir, cell, d)
  OBVIOUS
<1>5. /\ \A v \in VPage : A[v] # None => A[v] = Text(r.prog, r.i, v)
      /\ Beneath(r) /\ r.args \in ArgLens /\ StackHas(r)
  BY <1>1, <1>2, <1>3, <1>4 DEF ExecHas
<1>6. r.i > Len(r.prog) /\ top = PGROUNDUP(r.sz) + PGSIZE
  BY <1>1, <1>5 DEF StackHas
<1>7. r.args \in Nat /\ 1 <= r.args /\ r.args <= PGSIZE
  BY <1>5, MemoryAssumption DEF Fitted
<1>8. PICK m : m = Page(top) - 1
  OBVIOUS
<1>9. /\ m \in VPage /\ m \in PagesTo(top) /\ PagesTo(r.sz) \subseteq PagesTo(top)
      /\ Page(top - r.args) = m /\ Page(top - r.args + r.args - 1) = m
  BY <1>3, <1>6, <1>7, <1>8, TopPage
<1>10. copyout(d, top - r.args, r.args) = {dir[d].pte[v] : v \in {m}}
  <2>1. m \in Nat
    BY <1>9, VPageNat
  <2>2. m .. m = {m}
    BY <2>1
  <2>3. Page(top - r.args) .. Page(top - r.args + r.args - 1) = {m}
    BY <1>9, <2>2
  <2> QED
    BY <2>3 DEF copyout
<1>11. PICK V : V = {m}
  OBVIOUS
<1>12. PICK x \in Contents : x = "args"
  BY Words
<1>13. cell' = Written(d, V, x)
  BY <1>1, <1>10, <1>11, <1>12 DEF Written
<1>14. PICK o \in Owners : Owned(o, freelist, KS, PD, AD, dir, lost)
  BY <1>2 DEF MInv, Owning
<1>15. d \in Pages /\ Holds(o, d) /\ Mine(o, d, p) /\ DirOwns(o, dir)
  BY <1>1, <1>2, <1>3, <1>14, AtDir DEF Owned
<1>16. V \subseteq VPage /\ \A v \in V : dir[d].pte[v] # 0
  <2>1. V \subseteq Pres(dir[d])
    BY <1>3, <1>9, <1>11
  <2> QED
    BY <1>9, <1>11, <2>1 DEF Pres
<1>17. /\ Reaches(o, p, d) /\ cell' \in Cells
       /\ \A v \in V : Seen(dir', cell', d)[v] = x
       /\ \A w \in VPage : w \notin V => Seen(dir', cell', d)[w] = Seen(dir, cell, d)[w]
  <2> HIDE DEF d, r, top
  <2>1. MInv /\ cell \in Cells /\ dir' = dir
    BY <1>1, <1>2
  <2> QED
    BY <1>13, <1>14, <1>15, <1>16, <2>1, Writes
<1>18. PICK A2 : A2 = Seen(dir', cell', d)
  OBVIOUS
<1>19. A2 = [v \in VPage |-> A2[v]] /\ A2[m] = "args" /\ \A v \in VPage : v # m => A2[v] = A[v]
  <2>1. A2 = [v \in VPage |-> A2[v]]
    BY <1>18 DEF Seen
  <2> QED
    BY <1>4, <1>11, <1>12, <1>17, <1>18, <2>1
<1>20. \A v \in VPage : A[v] # None <=> v \in PagesTo(top)
  BY <1>2, <1>3, <1>4, <1>14, <1>15, SeenPresent
<1>21. \A j \in DOMAIN r.prog : j < r.i
  <2>1. r.prog \in Programs \cup {<<>>}
    BY <1>2 DEF Frames
  <2>2. Len(r.prog) \in Nat /\ \A j \in DOMAIN r.prog : j \in Nat /\ j <= Len(r.prog)
    BY <2>1, Indices
  <2> QED
    BY <1>3, <1>6, <2>2
<1>22. A2 = ImageOf(r.prog, top)
  <2>1. \A j \in DOMAIN r.prog : Loaded(r.prog[j]) \subseteq PagesTo(r.sz)
    BY <1>5, <1>21 DEF Beneath
  <2>2. PagesTo(r.sz) \subseteq VPage
    BY DEF PagesTo
  <2>3. PICK prog : prog = r.prog
    OBVIOUS
  <2>4. PICK i : i = r.i
    OBVIOUS
  <2>5. PICK sz : sz = r.sz
    OBVIOUS
  <2>6. PICK t : t = top
    OBVIOUS
  <2>7. /\ \A j \in DOMAIN prog : j < i /\ Loaded(prog[j]) \subseteq PagesTo(sz)
        /\ PagesTo(sz) \subseteq VPage /\ PagesTo(sz) \subseteq PagesTo(t) /\ m = Page(t) - 1
    BY <1>8, <1>9, <1>21, <2>1, <2>2, <2>3, <2>4, <2>5, <2>6
  <2>8. /\ \A v \in VPage : v # m => (A2[v] # None <=> v \in PagesTo(t))
        /\ \A v \in VPage : v # m /\ A2[v] # None => A2[v] = Text(prog, i, v)
    BY <1>5, <1>19, <1>20, <2>3, <2>4, <2>6
  <2>9. A2 = ImageOf(prog, t)
    BY <1>19, <2>7, <2>8, ImageIs
  <2> QED
    BY <2>3, <2>6, <2>9
<1>23. A2 \in [VPage -> Contents \cup {None}]
  <2>1. \A v \in VPage : dir'[d].pte[v] # 0 => dir'[d].pte[v] \in Pages
    BY <1>1, <1>15, Shows
  <2> QED
    BY <1>17, <1>18, <2>1, SeenType
<1>24. want' \in Wants /\ want'[p] = A2 /\ \A q \in Procs : q # p => want'[q] = want[q]
  BY <1>1, <1>22, <1>23 DEF CInv, Wants
<1>25. PICK r2 : r2 = [r EXCEPT !.at = "bad", !.sub = "freevm", !.d = proc[p].pgdir]
  OBVIOUS
<1>26. act'[p] = r2 /\ \A q \in Procs : q # p => act'[q] = act[q]
  BY <1>1, <1>2, <1>25
<1>27. r2.op = "exec" /\ r2.at = "bad" /\ r2 # User
  BY <1>1, <1>2, <1>25 DEF Frames, User
<1>28. proc'[p].pgdir = d /\ \A q \in Procs : q # p => proc'[q] = proc[q]
  BY <1>1, <1>2 DEF ProcRecs
<1>29. PICK A3 : A3 = Seen(dir', cell', act'[p].d)
  OBVIOUS
<1>30. PICK u2 : u2 = proc'[p]
  OBVIOUS
<1>31. Has(r2, u2, A2, A2, A3)
  BY <1>27 DEF Has, ExecHas
<1>32. Has(act'[p], proc'[p], want'[p], Seen(dir', cell', proc'[p].pgdir), Seen(dir', cell', act'[p].d))
  BY <1>18, <1>24, <1>26, <1>28, <1>29, <1>30, <1>31
<1>33. \A q \in Procs : q # p => act'[q] = act[q] /\ want'[q] = want[q] /\ Calm(q)
  BY <1>24, <1>26, <1>28 DEF Calm
<1> HIDE DEF d, r, top
<1> QED
  BY <1>17, <1>24, <1>32, <1>33, OneActs


----------------------------------------------------------------------------
(* The theorem.                                                            *)

\* userinit leaves initproc what it expects.
LEMMA CInvInit == Init => CInv
<1> SUFFICES ASSUME Init PROVE CInv
  OBVIOUS
<1>1. MInv
  BY MInvInit
<1>2. /\ NPAGE \in Nat /\ KTABS \in Nat /\ KTABS >= 1 /\ NPAGE >= KTABS + 3 /\ Pages = 1 .. NPAGE /\ 1 \in Procs
  BY KinitIs, MemoryAssumption DEF Pages, Procs
<1>3. /\ kinit[2] = NPAGE - 1 /\ kinit[2] \in Pages
      /\ kinit[KTABS + 3] = NPAGE - 2 - KTABS /\ kinit[KTABS + 3] \in Pages
  BY <1>2, KinitIs
<1>4. cell = [pg \in Pages |-> IF pg = kinit[KTABS + 3] THEN "initcode" ELSE "junk"]
  BY DEF Init
<1>5. cell \in Cells /\ cell[NPAGE - 2 - KTABS] = "initcode"
  BY <1>3, <1>4, Words DEF Cells
<1>6. want = [p \in Procs |-> IF p = 1 THEN [Empty EXCEPT ![0] = "initcode"] ELSE Empty]
  BY DEF Init, init
<1>7. PICK w : w = [Empty EXCEPT ![0] = "initcode"]
  OBVIOUS
<1>8. w \in [VPage -> Contents \cup {None}] /\ Empty \in [VPage -> Contents \cup {None}]
  BY <1>7, Words DEF Empty
<1>9. want \in Wants /\ want[1] = w
  BY <1>2, <1>6, <1>7, <1>8 DEF Wants
<1>10. dir[NPAGE - 1] = FirstDir
  BY <1>3 DEF Init
<1>11. /\ FirstDir.pte \in [VPage -> PageOr0] /\ 0 \in VPage
       /\ FirstDir.pte[0] = NPAGE - 2 - KTABS /\ \A v \in VPage : v # 0 => FirstDir.pte[v] = 0
  BY FirstDirIs
<1>12. Seen(dir, cell, NPAGE - 1) = w
  <2>1. PICK M : M = Seen(dir, cell, NPAGE - 1)
    OBVIOUS
  <2>2. M = [v \in VPage |-> M[v]]
    BY <2>1 DEF Seen
  <2>3. NPAGE - 2 - KTABS # 0
    BY <1>2
  <2>4. M[0] = "initcode" /\ \A v \in VPage : v # 0 => M[v] = None
    BY <1>5, <1>10, <1>11, <2>1, <2>3 DEF Seen
  <2>5. w[0] = "initcode" /\ \A v \in VPage : v # 0 => w[v] = None
    BY <1>7, <1>11 DEF Empty
  <2>6. \A v \in VPage : M[v] = w[v]
    BY <2>4, <2>5
  <2>7. M = w
    BY <1>8, <2>2, <2>6
  <2> QED
    BY <2>1, <2>7
<1>13. proc[1].pgdir = NPAGE - 1 /\ \A p \in Procs : p # 1 => proc[p].state # "RUNNABLE"
  <2>1. proc = [p \in Procs |-> IF p = 1 THEN [UNUSED EXCEPT !.state = "RUNNABLE", !.kstack = kinit[1],
                                                             !.pgdir = kinit[2], !.sz = PGSIZE]
                                ELSE UNUSED]
    BY DEF Init, init
  <2> QED
    BY <1>2, <1>3, <2>1, Blank DEF UNUSED
<1>14. ASSUME NEW p \in Procs
       PROVE  Has(act[p], proc[p], want[p], Seen(dir, cell, proc[p].pgdir), Seen(dir, cell, act[p].d))
  <2>1. act[p] = User
    BY DEF Init
  <2>2. CASE p = 1
    <3>1. Seen(dir, cell, proc[p].pgdir) = want[p]
      BY <1>9, <1>12, <1>13, <2>2
    <3> QED
      BY <2>1, <3>1 DEF Has
  <2>3. CASE p # 1
    BY <1>13, <2>3 DEF Has
  <2> QED
    BY <2>2, <2>3
<1> QED
  BY <1>1, <1>5, <1>9, <1>14 DEF CInv, HasAll

\* Every step keeps what the processes have.
LEMMA CInvStep ==
  ASSUME Fitted, CInv, [Next]_vars
  PROVE  CInv'
<1>1. MInv'
  BY MInvStep DEF CInv
<1>2. CASE UNCHANGED vars
  <2>1. freelist' = freelist /\ dir' = dir /\ cell' = cell /\ proc' = proc /\ act' = act /\ want' = want
    BY <1>2 DEF vars
  <2> QED
    BY <1>1, <2>1 DEF CInv, HasAll
<1>3. ASSUME NEW p \in Procs, Step(p) PROVE CInv'
  <2>1. CASE setupkvm(p) \/ allocuvm_page(p) \/ deallocuvm_page(p) \/ freevm(p) \/ growproc_return(p)
    BY <1>1, <2>1, HasSetup, HasAlloc, HasDealloc, HasFree, HasGrowproc
  <2>2. CASE fork_kstack(p) \/ copyuvm_page(p) \/ fork_return(p) \/ fork_failed(p) \/ wait_return(p)
    BY <1>1, <2>2, HasKstack, HasCopyuvm, HasForkReturn, HasForkFailed, HasWaitReturn
  <2>3. CASE exec_segment(p) \/ exec_load(p) \/ exec_stack(p) \/ exec_commit(p) \/ exec_nostack(p) \/ exec_return(p)
    BY <1>1, <2>3, HasSegment, HasLoad, HasStack, HasCommit, HasNostack, HasExecReturn
  <2> QED
    BY <1>3, <2>1, <2>2, <2>3 DEF Step
<1>4. ASSUME NEW p \in Procs, Fork(p) \/ Exit(p) PROVE CInv'
  BY <1>1, <1>4, HasFork, HasExit
<1>5. ASSUME NEW p \in Procs, NEW n \in SbrkBy, Sbrk(p, n) PROVE CInv'
  BY <1>1, <1>5, HasSbrk
<1>6. ASSUME NEW p \in Procs, NEW prog \in Programs, NEW n \in ArgLens, Exec(p, prog, n) PROVE CInv'
  BY <1>1, <1>6, HasExec
<1>7. ASSUME NEW p \in Procs, NEW z \in Procs, Wait(p, z) PROVE CInv'
  BY <1>1, <1>7, HasWait
<1>8. ASSUME NEW p \in Procs, NEW v \in VPage, Store(p, v) PROVE CInv'
  BY <1>1, <1>8, HasStore
<1> QED
  BY <1>2, <1>3, <1>4, <1>5, <1>6, <1>7, <1>8 DEF Next

\* A process finds in its memory what its program, its own stores and its
\* parent at the fork put there, and zeroes in what sbrk added, whatever the
\* others do meanwhile: no page that fork, exec or sbrk takes from the free
\* list is anybody else's, copyuvm copies and loaduvm fills the pages they
\* should, and a call that fails has changed nothing.
THEOREM OwnMemoryCorrect == Fitted => (Spec => []OwnMemory)
<1> SUFFICES ASSUME Fitted PROVE Spec => []OwnMemory
  OBVIOUS
<1>1. Init => CInv
  BY CInvInit
<1>2. CInv /\ [Next]_vars => CInv'
  BY CInvStep
<1>3. CInv => OwnMemory
  <2> SUFFICES ASSUME CInv, NEW p \in Procs, Runs(p) \/ act[p].op \in {"fork", "exec", "wait"}
               PROVE  want[p] = [v \in VPage |-> IF v \in Present(proc[p].pgdir)
                                                 THEN cell[dir[proc[p].pgdir].pte[v]] ELSE None]
    BY DEF OwnMemory
  <2>1. Seen(dir, cell, proc[p].pgdir) = want[p] /\ proc[p].pgdir # 0 /\ PD[p] = proc[p].pgdir /\ MInv
    BY Expected DEF Settled
  <2>2. PICK o \in Owners : Owned(o, freelist, KS, PD, AD, dir, lost)
    BY <2>1 DEF MInv, Owning
  <2>3. proc[p].pgdir \in Pages /\ Holds(o, proc[p].pgdir) /\ DirOwns(o, dir)
    BY <2>1, <2>2, OwnDir DEF Owned
  <2>4. dir[proc[p].pgdir].pte \in [VPage -> PageOr0]
    BY <2>3, Shows
  <2>5. \A v \in VPage : v \in Present(proc[p].pgdir) <=> dir[proc[p].pgdir].pte[v] # 0
    BY <2>4 DEF Present
  <2> QED
    BY <2>1, <2>5 DEF Seen
<1> QED
  BY <1>1, <1>2, <1>3, PTL DEF Spec
=============================================================================
