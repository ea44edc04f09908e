------------------------------- MODULE Memory -------------------------------
(***************************************************************************)
(* Physical pages and address spaces: kernel/kalloc.c, kernel/vm.c,        *)
(* kernel/exec.c, growproc, the memory of fork, exit and wait (proc.c) and *)
(* sys_sbrk.  The processes run concurrently: a call is cut at every call  *)
(* of kalloc and kfree, where kmem.lock is taken, so that two calls run    *)
(* out of memory together, each of them halfway.                           *)
(*                                                                         *)
(* Scaled down: a page holds PGSIZE units, user memory VPAGES pages, and   *)
(* the page tables of the kernel's mappings are KTABS pages.  The first of *)
(* them, made for the I/O space, is the one user memory is mapped in       *)
(* (vm.c:127): no page table is ever made for user pages, and walkpgdir    *)
(* without create finds one in every finished page directory.              *)
(*                                                                         *)
(* A definition named X_Fault, before X, is X with one plausible mistake   *)
(* in it; no specification uses it.                                        *)
(***************************************************************************)
EXTENDS Integers, Sequences, FiniteSets, Functions

CONSTANTS
  NPAGE,      \* pages that kinit and kvmalloc leave
  NPROC,      \* process slots; 1 is initproc
  PGSIZE, VPAGES, KTABS,
  WORD,       \* 2^32: where unsigned sizes wrap
  Programs,   \* executables: sequences of loadable segments
  InitProg,   \* the one initcode executes
  ArgLens,    \* sizes of the arguments and ustack of exec
  SbrkBy,     \* arguments of sbrk
  MaxCalls,   \* bound: fork, exec and sbrk in a behaviour
  MaxStores   \* bound: stores of user programs in a behaviour

USERTOP == VPAGES * PGSIZE
Pages   == 1 .. NPAGE
VPage   == 0 .. (VPAGES - 1)
Procs   == 1 .. NPROC
init    == 1

ASSUME MemoryAssumption ==
  /\ NPROC \in Nat \ {0} /\ PGSIZE \in Nat \ {0} /\ VPAGES \in Nat \ {0}
  /\ KTABS \in Nat \ {0}
  /\ NPAGE \in Nat /\ NPAGE >= KTABS + 3      \* enough for userinit
  /\ WORD \in Nat /\ USERTOP < WORD
  /\ SbrkBy \subseteq Int
  /\ ArgLens \subseteq Nat
  /\ \A prog \in Programs :                    \* what the linker makes: no segment wraps
       /\ prog \in Seq([va : Nat, memsz : Nat, filesz : Nat, readable : BOOLEAN, text : STRING])
       /\ \A i \in DOMAIN prog : prog[i].va + prog[i].memsz < WORD

\* Segments start on a page: loaduvm panics on any other (vm.c:210-211).
ASSUME SegmentsAligned ==
  \A prog \in Programs : \A i \in DOMAIN prog : (prog[i].va % PGSIZE) = 0

VARIABLES
  freelist,   \* kmem.freelist
  dir,        \* page -> the page directory in it, or NoDir
  cell,       \* page -> what it holds, for user pages
  proc,       \* the process table
  act,        \* process -> the system call it is in
  left,       \* calls and stores that may still happen
  panicked,
  \* for the properties only:
  lost,       \* pages setupkvm drops (vm.c:146)
  want        \* process -> user page -> what its program expects there

vars == <<freelist, dir, cell, proc, act, left, panicked, lost, want>>

NoDir == [tab |-> <<>>, pte |-> <<>>]
None  == "none"
Empty == [v \in VPage |-> None]
User  == [op |-> "user"]

UNUSED == [state |-> "UNUSED", kstack |-> 0, pgdir |-> 0, sz |-> 0, stk |-> 0, parent |-> 0]

PGROUNDUP(a) == ((a + PGSIZE - 1) \div PGSIZE) * PGSIZE
Page(a)      == a \div PGSIZE
PagesTo(sz)  == {v \in VPage : v * PGSIZE < sz}

Present(d) == {v \in DOMAIN dir[d].pte : dir[d].pte[v] # 0}
Lowest(S)  == CHOOSE v \in S : \A w \in S : v <= w

----------------------------------------------------------------------------
(* kalloc.c                                                                *)

kalloc_Kept(pg) == freelist # <<>> /\ pg = Head(freelist) /\ UNCHANGED freelist

kalloc(pg)  == freelist # <<>> /\ pg = Head(freelist) /\ freelist' = Tail(freelist)
NoPage      == freelist = <<>> /\ UNCHANGED freelist
kfree(pg)   == freelist' = <<pg>> \o freelist
Junked(pg)  == [cell EXCEPT ![pg] = "junk"]

----------------------------------------------------------------------------
(* A system call: which (op), where in it (at), and where in the function  *)
(* of vm.c it has called (sub); d is the page directory it works on.       *)

Frame(op, at, sub, d) ==
  [op |-> op, at |-> at, sub |-> sub, d |-> d, a |-> 0, old |-> 0, new |-> 0,
   ret |-> 0, np |-> 0, prog |-> <<>>, i |-> 1, sz |-> 0, args |-> 0]

\* A process whose code or stack page is gone makes no call any more: it
\* faults, at the latest when the TLB has lost the page (growproc returns -1
\* before it calls switchuvm, proc.c:117).  What such a process does while
\* stale entries last is not modelled.
Runs(p) ==
  /\ panicked = "no" /\ proc[p].state = "RUNNABLE" /\ act[p] = User
  /\ {0, proc[p].stk} \subseteq Present(proc[p].pgdir)
ptable_held  == \E p \in Procs : act[p].op = "wait"
In(p, op, at) == panicked = "no" /\ act[p].op = op /\ act[p].at = at /\ act[p].sub = "none"
Sub(p, s)    == panicked = "no" /\ act[p].op # "user" /\ act[p].sub = s
Goto(p, at, sub) == act' = [act EXCEPT ![p].at = at, ![p].sub = sub]
Return(p)    == act' = [act EXCEPT ![p] = User]
Answer(p, r) == act' = [act EXCEPT ![p].sub = "none", ![p].ret = r]
Spend        == left.calls > 0 /\ left' = [left EXCEPT !.calls = @ - 1]
memory       == <<freelist, dir, cell, lost>>

----------------------------------------------------------------------------
(* vm.c: each action is one round of a loop, up to its kalloc or kfree.    *)

\* The page directory, then the page tables as mappages needs them.  When
\* memory runs out what has been allocated is forgotten.
setupkvm(p) ==
  LET d == act[p].d
  IN  /\ Sub(p, "setupkvm")
      /\ \/ \E pg \in Pages :
              /\ kalloc(pg)
              /\ IF d = 0
                 THEN /\ dir' = [dir EXCEPT ![pg] = [tab |-> <<>>, pte |-> [v \in VPage |-> 0]]]
                      /\ act' = [act EXCEPT ![p].d = pg]
                 ELSE /\ dir' = [dir EXCEPT ![d].tab = Append(@, pg)]
                      /\ IF Len(dir[d].tab) + 1 = KTABS THEN Answer(p, d) ELSE UNCHANGED act
              /\ UNCHANGED lost
         \/ /\ NoPage
            /\ act' = [act EXCEPT ![p].sub = "none", ![p].ret = 0, ![p].d = 0]
            /\ dir' = IF d = 0 THEN dir ELSE [dir EXCEPT ![d] = NoDir]
            /\ lost' = IF d = 0 THEN lost ELSE lost \cup {d} \cup Range(dir[d].tab)
      /\ UNCHANGED <<cell, proc, left, panicked, want>>

\* mappages of one user page: panic("remap") when it is mapped.
Remap(d, v) == IF v \in Present(d) THEN "remap" ELSE panicked
Map(d, v, pg) ==
  /\ dir' = [dir EXCEPT ![d].pte[v] = pg]
  /\ panicked' = Remap(d, v)

\* The first lines of allocuvm, for the caller's frame r.
allocuvm(r, old, new) ==
  IF new > USERTOP THEN [r EXCEPT !.ret = 0]
  ELSE IF new < old \/ PGROUNDUP(old) >= new
  THEN [r EXCEPT !.ret = IF new < old THEN old ELSE new]
  ELSE [r EXCEPT !.sub = "allocuvm", !.old = old, !.new = new, !.a = PGROUNDUP(old)]

Grown(p, pg) ==
  LET r == act[p]
  IN  /\ kalloc(pg) /\ Map(r.d, Page(r.a), pg)
      /\ cell' = [cell EXCEPT ![pg] = "zero"]
      /\ act' = [act EXCEPT ![p].a = @ + PGSIZE,
                            ![p].sub = IF r.a + PGSIZE >= r.new THEN "none" ELSE @,
                            ![p].ret = IF r.a + PGSIZE >= r.new THEN r.new ELSE @]

allocuvm_page_NoUndo(p) ==
  /\ Sub(p, "allocuvm")
  /\ \/ \E pg \in Pages : Grown(p, pg)
     \/ NoPage /\ Answer(p, 0) /\ UNCHANGED <<dir, cell, panicked>>
  /\ UNCHANGED <<proc, left, lost, want>>

allocuvm_page(p) ==
  LET r == act[p]
  IN  /\ Sub(p, "allocuvm")
      /\ \/ \E pg \in Pages : Grown(p, pg)
         \/ /\ NoPage
            /\ act' = [act EXCEPT ![p].sub = "deallocuvm", ![p].old = r.new, ![p].new = r.old,
                                  ![p].ret = 0]
            /\ UNCHANGED <<dir, cell, panicked>>
      /\ UNCHANGED <<proc, left, lost, want>>

\* The pages that are there between PGROUNDUP(new) and old are freed.
Doomed(r)  == {v \in Present(r.d) : v * PGSIZE >= PGROUNDUP(r.new) /\ v * PGSIZE < r.old}

\* kfree, and then *pte = 0: nobody looks at the entry in between.
Unmap(d, v) ==
  /\ kfree(dir[d].pte[v])
  /\ dir' = [dir EXCEPT ![d].pte[v] = 0]
  /\ cell' = Junked(dir[d].pte[v])

deallocuvm_page(p) ==
  LET r == act[p]
  IN  /\ Sub(p, "deallocuvm")
      /\ IF Doomed(r) = {}
         THEN act' = [act EXCEPT ![p].sub = "none"] /\ UNCHANGED memory
         ELSE Unmap(r.d, Lowest(Doomed(r))) /\ UNCHANGED <<act, lost>>
      /\ UNCHANGED <<proc, left, panicked, want>>

\* The user pages, the page tables, the page directory.
freevm(p) ==
  LET d == act[p].d
      t == dir[d].tab
  IN  /\ Sub(p, "freevm")
      /\ \/ /\ Present(d) # {}
            /\ Unmap(d, Lowest(Present(d)))
            /\ UNCHANGED act
         \/ /\ Present(d) = {} /\ t # <<>>
            /\ kfree(Head(t)) /\ dir' = [dir EXCEPT ![d].tab = Tail(t)]
            /\ UNCHANGED <<act, cell>>
         \/ /\ Present(d) = {} /\ t = <<>>
            /\ kfree(d) /\ dir' = [dir EXCEPT ![d] = NoDir]
            /\ act' = [act EXCEPT ![p].sub = "none", ![p].d = 0]
            /\ UNCHANGED cell
      /\ UNCHANGED <<proc, left, panicked, lost, want>>

----------------------------------------------------------------------------
(* sys_sbrk and growproc                                                   *)

Sbrk(p, n) ==
  LET sz  == proc[p].sz
      new == (sz + n) % WORD
      r   == Frame("sbrk", "grow", "none", proc[p].pgdir)
  IN  /\ Runs(p) /\ p # init /\ Spend
      /\ act' = [act EXCEPT ![p] =
                   IF n >= 0 THEN allocuvm(r, sz, new)
                   ELSE IF new >= sz THEN [r EXCEPT !.ret = sz]
                   ELSE [r EXCEPT !.sub = "deallocuvm", !.old = sz, !.new = new, !.ret = new]]
      /\ UNCHANGED <<memory, proc, panicked, want>>

\* allocuvm and deallocuvm return 0 for an error: a process that gives up
\* all of its memory gets -1 and keeps its size (proc.c:116).
growproc_return(p) ==
  LET r == act[p]
  IN  /\ In(p, "sbrk", "grow")
      /\ Return(p)
      /\ proc' = [proc EXCEPT ![p].sz = IF r.ret = 0 THEN @ ELSE r.ret]
      /\ want' = [want EXCEPT ![p] =
                    [v \in VPage |->
                       IF r.ret = 0 THEN @[v]
                       ELSE IF v \notin PagesTo(r.ret) THEN None
                       ELSE IF @[v] = None THEN "zero" ELSE @[v]]]
      /\ UNCHANGED <<memory, left, panicked>>

----------------------------------------------------------------------------
(* fork                                                                    *)

Unused == {p \in Procs : proc[p].state = "UNUSED"}

\* allocproc takes the first free slot (with none, fork returns -1).
Fork(p) ==
  /\ Runs(p) /\ Unused # {} /\ ~ptable_held /\ Spend
  /\ (p = init => proc[p].stk # 0)
  /\ proc' = [proc EXCEPT ![Lowest(Unused)].state = "EMBRYO"]
  /\ act' = [act EXCEPT ![p] = [Frame("fork", "kstack", "none", 0) EXCEPT !.np = Lowest(Unused)]]
  /\ UNCHANGED <<memory, panicked, want>>

fork_kstack(p) ==
  LET np == act[p].np
  IN  /\ In(p, "fork", "kstack")
      /\ \/ \E pg \in Pages :
              kalloc(pg) /\ proc' = [proc EXCEPT ![np].kstack = pg] /\ Goto(p, "copy", "setupkvm")
         \/ NoPage /\ proc' = [proc EXCEPT ![np] = UNUSED] /\ Return(p)
      /\ UNCHANGED <<dir, cell, left, panicked, lost, want>>

\* One page of copyuvm, once setupkvm has returned a page directory.
copyuvm_page(p) ==
  LET r   == act[p]
      old == dir[proc[p].pgdir].pte[Page(r.a)]
  IN  /\ In(p, "fork", "copy") /\ r.ret # 0 /\ r.a < proc[p].sz
      /\ \/ \E pg \in Pages :
              /\ kalloc(pg)
              /\ dir' = [dir EXCEPT ![r.d].pte[Page(r.a)] = pg]
              /\ cell' = [cell EXCEPT ![pg] = IF old = 0 THEN "junk" ELSE cell[old]]
              /\ act' = [act EXCEPT ![p].a = @ + PGSIZE]
         \/ NoPage /\ Goto(p, "failed", "freevm") /\ UNCHANGED <<dir, cell>>
      /\ panicked' = IF old = 0 THEN "copyuvm: page not present" ELSE Remap(r.d, Page(r.a))
      /\ UNCHANGED <<proc, left, lost, want>>

\* The child is complete.
fork_return(p) ==
  LET r == act[p]
  IN  /\ In(p, "fork", "copy") /\ r.ret # 0 /\ r.a >= proc[p].sz
      /\ proc' = [proc EXCEPT ![r.np] =
                    [@ EXCEPT !.state = "RUNNABLE", !.pgdir = r.d, !.sz = proc[p].sz,
                              !.stk = proc[p].stk, !.parent = p]]
      /\ want' = [want EXCEPT ![r.np] = want[p]]
      /\ Return(p)
      /\ UNCHANGED <<memory, left, panicked>>

fork_failed_KeepsStack(p) ==
  LET np == act[p].np
  IN  /\ In(p, "fork", "failed") \/ (In(p, "fork", "copy") /\ act[p].ret = 0)
      /\ proc' = [proc EXCEPT ![np] = UNUSED]
      /\ Return(p)
      /\ UNCHANGED <<memory, left, panicked, want>>

\* copyuvm has returned 0.
fork_failed(p) ==
  LET np == act[p].np
  IN  /\ In(p, "fork", "failed") \/ (In(p, "fork", "copy") /\ act[p].ret = 0)
      /\ kfree(proc[np].kstack)
      /\ proc' = [proc EXCEPT ![np] = UNUSED]
      /\ Return(p)
      /\ UNCHANGED <<dir, cell, lost, left, panicked, want>>

----------------------------------------------------------------------------
(* exec.  Before setupkvm it changes nothing; what fails there is left out.*)

\* initcode executes init before anything else is there.
Exec(p, prog, n) ==
  /\ Runs(p) /\ Spend
  /\ p = init => proc[p].stk = 0 /\ prog = InitProg
  /\ act' = [act EXCEPT ![p] = [Frame("exec", "segment", "setupkvm", 0)
                                  EXCEPT !.prog = prog, !.args = n]]
  /\ UNCHANGED <<memory, proc, panicked, want>>

Bad(p) == Goto(p, "bad", "freevm")

\* setupkvm has returned, or the previous segment is loaded.
exec_segment(p) ==
  LET r  == act[p]
      ph == r.prog[r.i]
  IN  /\ In(p, "exec", "segment") /\ (r.d = 0 \/ r.i <= Len(r.prog))
      /\ IF r.d = 0 THEN Return(p)
         ELSE IF ph.memsz < ph.filesz THEN Bad(p)
         ELSE act' = [act EXCEPT ![p] = allocuvm([r EXCEPT !.at = "load"], r.sz, ph.va + ph.memsz)]
      /\ UNCHANGED <<memory, proc, left, panicked, want>>

\* The pages loaduvm fills: those from va, which is aligned, to va + filesz.
Loaded(ph) == {v \in VPage : v * PGSIZE >= ph.va /\ v * PGSIZE < ph.va + ph.filesz}

exec_load(p) ==
  LET r  == act[p]
      ph == r.prog[r.i]
      at == {dir[r.d].pte[v] : v \in Loaded(ph)}
  IN  /\ In(p, "exec", "load")
      /\ IF r.ret = 0 \/ ~ph.readable
         THEN Bad(p) /\ UNCHANGED cell
         ELSE /\ cell' = [pg \in Pages |-> IF pg \in at THEN ph.text ELSE cell[pg]]
              /\ act' = [act EXCEPT ![p].at = "segment", ![p].i = @ + 1, ![p].sz = r.ret]
      /\ UNCHANGED <<freelist, dir, proc, left, panicked, lost, want>>

\* One page of stack behind the last segment.
exec_stack(p) ==
  LET r == act[p]
      s == PGROUNDUP(r.sz)
  IN  /\ In(p, "exec", "segment") /\ r.d # 0 /\ r.i > Len(r.prog)
      /\ act' = [act EXCEPT ![p] = allocuvm([r EXCEPT !.at = "commit"], s, s + PGSIZE)]
      /\ UNCHANGED <<memory, proc, left, panicked, want>>

\* What a program finds when it starts.
ImageOf(prog, sz) ==
  [v \in VPage |->
     LET s == {i \in DOMAIN prog : v \in Loaded(prog[i])}
     IN  IF v = Page(sz) - 1 THEN "args"
         ELSE IF s # {} THEN prog[CHOOSE i \in s : \A j \in s : j <= i].text
         ELSE IF v \in PagesTo(sz) THEN "zero" ELSE None]

\* The pages that copyout finds (uva2ka) from va on.
copyout(d, va, len) == {dir[d].pte[v] : v \in Page(va) .. Page(va + len - 1)}

\* The arguments are copied to the top of the stack, however far down they
\* reach, and the new image takes the place of the old one.
exec_commit(p) ==
  LET r     == act[p]
      top   == r.ret
      pages == copyout(r.d, top - r.args, r.args)
  IN  /\ In(p, "exec", "commit") /\ top # 0 /\ r.args <= top
      /\ cell' = [pg \in Pages |-> IF pg \in pages THEN "args" ELSE cell[pg]]
      /\ proc' = [proc EXCEPT ![p].pgdir = r.d, ![p].sz = top, ![p].stk = Page(top) - 1]
      /\ act' = [act EXCEPT ![p].at = "bad", ![p].sub = "freevm", ![p].d = proc[p].pgdir]
      /\ want' = [want EXCEPT ![p] = ImageOf(r.prog, top)]
      /\ UNCHANGED <<freelist, dir, lost, left, panicked>>

exec_nostack(p) ==
  LET r == act[p]
  IN  /\ In(p, "exec", "commit") /\ (r.ret = 0 \/ r.args > r.ret)
      /\ Bad(p)
      /\ UNCHANGED <<memory, proc, left, panicked, want>>

\* freevm of the old image, or of the one that failed, has returned.
exec_return(p) ==
  /\ In(p, "exec", "bad")
  /\ Return(p)
  /\ UNCHANGED <<memory, proc, left, panicked, want>>

----------------------------------------------------------------------------
(* exit and wait, as far as memory goes, and user programs                 *)

\* A call, or the fault of a process that has given up its code or stack.
\* (In this bounded model a process also exits when it has nothing to do.)
Exit(p) ==
  /\ panicked = "no" /\ proc[p].state = "RUNNABLE" /\ act[p] = User /\ p # init
  /\ ~ptable_held
  /\ proc' = [q \in Procs |->
                IF q = p THEN [proc[q] EXCEPT !.state = "ZOMBIE"]
                ELSE IF proc[q].parent = p THEN [proc[q] EXCEPT !.parent = init] ELSE proc[q]]
  /\ want' = [want EXCEPT ![p] = Empty]
  /\ UNCHANGED <<memory, act, left, panicked>>

\* ptable.lock is held until the zombie's memory is freed.
Wait(p, z) ==
  /\ Runs(p) /\ ~ptable_held
  /\ proc[z].state = "ZOMBIE" /\ proc[z].parent = p
  /\ kfree(proc[z].kstack)
  /\ proc' = [proc EXCEPT ![z].kstack = 0]
  /\ act' = [act EXCEPT ![p] = [Frame("wait", "reap", "freevm", proc[z].pgdir) EXCEPT !.np = z]]
  /\ UNCHANGED <<dir, cell, lost, left, panicked, want>>

wait_return(p) ==
  /\ In(p, "wait", "reap")
  /\ proc' = [proc EXCEPT ![act[p].np] = UNUSED]
  /\ Return(p)
  /\ UNCHANGED <<memory, left, panicked, want>>

\* A user program writes to its memory.
Store(p, v) ==
  /\ Runs(p) /\ p # init /\ left.stores > 0
  /\ v \in Present(proc[p].pgdir)
  /\ cell' = [cell EXCEPT ![dir[proc[p].pgdir].pte[v]] = "mark"]
  /\ want' = [want EXCEPT ![p][v] = "mark"]
  /\ left' = [left EXCEPT !.stores = @ - 1]
  /\ UNCHANGED <<freelist, dir, proc, act, panicked, lost>>

----------------------------------------------------------------------------
\* kinit frees the pages from the lowest to the highest.
kinit == [i \in Pages |-> NPAGE + 1 - i]

\* setupkvm and inituvm: the directory, its tables, and the page of initcode.
FirstDir == [tab |-> SubSeq(kinit, 3, KTABS + 2),
             pte |-> [v \in VPage |-> IF v = 0 THEN kinit[KTABS + 3] ELSE 0]]

\* userinit has run.
Init ==
  /\ freelist = SubSeq(kinit, KTABS + 4, NPAGE)
  /\ dir = [pg \in Pages |-> IF pg = kinit[2] THEN FirstDir ELSE NoDir]
  /\ cell = [pg \in Pages |-> IF pg = kinit[KTABS + 3] THEN "initcode" ELSE "junk"]
  /\ proc = [p \in Procs |->
               IF p = init THEN [UNUSED EXCEPT !.state = "RUNNABLE", !.kstack = kinit[1],
                                               !.pgdir = kinit[2], !.sz = PGSIZE]
               ELSE UNUSED]
  /\ act = [p \in Procs |-> User]
  /\ left = [calls |-> MaxCalls, stores |-> MaxStores]
  /\ panicked = "no"
  /\ lost = {}
  /\ want = [p \in Procs |-> IF p = init THEN [Empty EXCEPT ![0] = "initcode"] ELSE Empty]

Step(p) ==
  \/ setupkvm(p) \/ allocuvm_page(p) \/ deallocuvm_page(p) \/ freevm(p)
  \/ growproc_return(p)
  \/ fork_kstack(p) \/ copyuvm_page(p) \/ fork_return(p) \/ fork_failed(p)
  \/ exec_segment(p) \/ exec_load(p) \/ exec_stack(p) \/ exec_commit(p)
  \/ exec_nostack(p) \/ exec_return(p) \/ wait_return(p)

Next ==
  \E p \in Procs :
    \/ Step(p)
    \/ Fork(p) \/ Exit(p)
    \/ \E n \in SbrkBy : Sbrk(p, n)
    \/ \E prog \in Programs, n \in ArgLens : Exec(p, prog, n)
    \/ \E z \in Procs : Wait(p, z)
    \/ \E v \in VPage : Store(p, v)

Spec == Init /\ [][Next]_vars

----------------------------------------------------------------------------
(* Properties.                                                             *)

\* Where a page is: in the free list, a kernel stack, a page directory that
\* a process or a call in progress has, one of its tables, one of its user
\* pages, or nowhere any more.
Reaped(z) == \E p \in Procs : act[p].op = "wait" /\ act[p].np = z
Dirs == ({proc[p].pgdir : p \in {q \in Procs : ~Reaped(q)}}
           \cup {act[p].d : p \in {q \in Procs : act[q] # User}}) \ {0}
Places ==
  LET D == Dirs
  IN  {<<freelist[i], "free", i>> : i \in DOMAIN freelist}
        \cup {<<proc[p].kstack, "kstack", p>> : p \in {q \in Procs : proc[q].kstack # 0}}
        \cup {<<d, "pgdir", 0>> : d \in D}
        \cup (UNION {{<<dir[d].tab[i], "table", <<d, i>>>> : i \in DOMAIN dir[d].tab} : d \in D})
        \cup (UNION {{<<dir[d].pte[v], "user", <<d, v>>>> : v \in Present(d)} : d \in D})
        \cup {<<pg, "lost", 0>> : pg \in lost}

\* Every page is in exactly one place, whichever calls run out of memory
\* halfway and undo what they did; the only pages that are lost are those of
\* a setupkvm that failed.
PagesOwned == LET P == Places IN {x[1] : x \in P} = Pages /\ Cardinality(P) = NPAGE

\* A process that can make a call has exactly the pages below its size, so
\* that copyuvm and mappages find what they expect and never panic.  (Not one
\* that gave everything back and kept its size, proc.c:116: Runs leaves it out.)
SizeIsMapped ==
  /\ panicked = "no"
  /\ \A p \in Procs : Runs(p) => Present(proc[p].pgdir) = PagesTo(proc[p].sz)

\* A process finds in its memory what its program, its own stores and its
\* parent at the fork put there, and zeroes in what sbrk added, whatever the
\* others do meanwhile; a fork, exec or sbrk that fails has changed nothing.
\* This asks that the arguments of every exec fit its stack page (ArgLens).
OwnMemory ==
  \A p \in Procs :
    Runs(p) \/ act[p].op \in {"fork", "exec", "wait"} =>
      want[p] = [v \in VPage |-> IF v \in Present(proc[p].pgdir)
                                 THEN cell[dir[proc[p].pgdir].pte[v]] ELSE None]
=============================================================================
