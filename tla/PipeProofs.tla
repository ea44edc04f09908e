----------------------------- MODULE PipeProofs -----------------------------
(***************************************************************************)
(* Proofs about Pipe, for every number of readers and writers, every size  *)
(* of the ring and every modulus of its counters.                          *)
(***************************************************************************)
EXTENDS Pipe, TLAPS

\* The types at the start.
LEMMA InitType == Init => TypeOK
<1> SUFFICES ASSUME Init PROVE TypeOK
  OBVIOUS
<1> USE PipeAssumption DEF Init
<1>1. lock \in Procs \cup {NoProc} /\ open \subseteq Procs
  OBVIOUS
<1>2. nread \in 0 .. (MOD - 1) /\ nwrite \in 0 .. (MOD - 1)
  OBVIOUS
<1>3. data \in [Index -> Bytes]
  OBVIOUS
<1>4. todo \in [Writers -> Seq(Bytes)] /\ n \in [Readers -> Nat] /\ addr \in [Readers -> Seq(Bytes)]
  OBVIOUS
<1>5. \A p \in Procs : Holding(p) <=> lock = p
  BY DEF Holding
<1> QED
  BY <1>1, <1>2, <1>3, <1>4, <1>5 DEF TypeOK

\* Every step keeps the types, and the lock with the process that is inside.
LEMMA NextType == TypeOK /\ [Next]_vars => TypeOK'
<1> SUFFICES ASSUME TypeOK, [Next]_vars PROVE TypeOK'
  OBVIOUS
<1> USE PipeAssumption DEF TypeOK, Goto, Holding, pipevars, procvars, callvars
<1>w. ASSUME NEW w \in Writers, WStep(w) PROVE TypeOK'
  <2> w \in Procs
    BY DEF Procs
  <2>1. CASE WAcquire(w)
    BY <2>1 DEF WAcquire, acquire
  <2>2. CASE WByte(w)
    BY <2>2 DEF WByte, Index
  <2>3. CASE WGiveUp(w)
    BY <2>3 DEF WGiveUp, release
  <2>4. CASE WFull(w)
    BY <2>4 DEF WFull, wakeup
  <2>5. CASE WSleep(w)
    BY <2>5 DEF WSleep, sleep, release
  <2>6. CASE WDone(w)
    BY <2>6 DEF WDone, wakeup, release
  <2> QED
    BY <1>w, <2>1, <2>2, <2>3, <2>4, <2>5, <2>6 DEF WStep
<1>r. ASSUME NEW r \in Readers, RStep(r) PROVE TypeOK'
  <2> r \in Procs
    BY DEF Procs
  <2>1. CASE RAcquire(r)
    BY <2>1 DEF RAcquire, acquire
  <2>2. CASE RGiveUp(r)
    BY <2>2 DEF RGiveUp, release
  <2>3. CASE REmpty(r)
    BY <2>3 DEF REmpty
  <2>4. CASE RSleep(r)
    BY <2>4 DEF RSleep, sleep, release
  <2>5. CASE RReady(r)
    BY <2>5 DEF RReady
  <2>6. CASE RByte(r)
    BY <2>6 DEF RByte, Index
  <2>7. CASE RDone(r)
    BY <2>7 DEF RDone, wakeup, release
  <2>8. CASE REof(r)
    BY <2>8 DEF REof
  <2> QED
    BY <1>r, <2>1, <2>2, <2>3, <2>4, <2>5, <2>6, <2>7, <2>8 DEF RStep
<1>1. ASSUME NEW w \in Writers, NEW s \in Payloads, pipewrite(w, s)
      PROVE TypeOK'
  <2> w \in Procs /\ s \in Seq(Bytes)
    BY DEF Procs
  <2> QED
    BY <1>1 DEF pipewrite, MayCall
<1>2. ASSUME NEW r \in Readers, NEW k \in ReadSizes, piperead(r, k) PROVE TypeOK'
  <2> r \in Procs /\ k \in Nat
    BY DEF Procs
  <2> QED
    BY <1>2 DEF piperead, MayCall
<1>3. ASSUME NEW p \in Procs, fileclose(p) PROVE TypeOK'
  BY <1>3 DEF fileclose
<1>4. ASSUME NEW p \in Procs, pipeclose(p) PROVE TypeOK'
  BY <1>4 DEF pipeclose, wakeup
<1>5. ASSUME NEW p \in Procs, PipeFree(p) PROVE TypeOK'
  BY <1>5 DEF PipeFree
<1>6. ASSUME NEW p \in Procs, kill(p) PROVE TypeOK'
  BY <1>6 DEF kill
<1>7. CASE UNCHANGED vars
  BY <1>7 DEF vars
<1> QED
  BY <1>w, <1>r, <1>1, <1>2, <1>3, <1>4, <1>5, <1>6, <1>7 DEF Next, CStep

\* Every variable keeps its type, and a process holds p->lock exactly while
\* it is between acquire and release or sleep in pipe.c.
THEOREM TypeCorrect == Spec => []TypeOK
BY InitType, NextType, PTL DEF Spec
----------------------------------------------------------------------------
(* The ends of the pipe: who can be where, and when the page is freed.     *)

\* Where a process of each side can be, and what sleeping and being inside
\* pipe.c say about it.
Places ==
  /\ \A r \in Readers :
       /\ pc[r] \in {"user", "r_acquire", "r_wait", "r_sleep", "r_copy", "eof", "close", "kfree"}
       /\ state[r] = "SLEEPING" => pc[r] = "r_acquire" /\ chan[r] = "nread"
       /\ pc[r] \in {"r_acquire", "r_wait", "r_sleep", "r_copy", "eof"} => r \in open
  /\ \A w \in Writers :
       /\ pc[w] \in {"user", "w_acquire", "w_loop", "w_sleep", "close", "kfree"}
       /\ state[w] = "SLEEPING" => pc[w] = "w_acquire" /\ chan[w] = "nwrite"
       /\ pc[w] \in {"w_acquire", "w_loop", "w_sleep"} => w \in open

\* An end is open while somebody holds a descriptor of it or is closing it;
\* one process closes it, and one process frees the page after both.
Ends ==
  /\ \A r \in Readers : r \in open \/ pc[r] = "close" => readopen
  /\ \A w \in Writers : w \in open \/ pc[w] = "close" => writeopen
  /\ \A p \in Procs : pc[p] = "close" =>
       /\ open \cap SideOf(p) = {}
       /\ \A q \in SideOf(p) : pc[q] = "close" => q = p
  /\ \A p \in Procs : pc[p] = "kfree" =>
       /\ ~readopen /\ ~writeopen /\ ~freed
       /\ \A q \in Procs : pc[q] = "kfree" => q = p
  /\ freed => ~readopen /\ ~writeopen

\* What a reader knows when it copies, and when it has read 0 bytes.
Copying == \A r \in Readers : pc[r] = "r_copy" => ~Empty \/ ~writeopen \/ addr[r] # <<>>
AtEnd   == Copying /\ EofIsFinal

\* Processes stay where their side can be.
LEMMA NextPlaces == Places /\ TypeOK /\ TypeOK' /\ [Next]_vars => Places'
<1> SUFFICES ASSUME Places, TypeOK, TypeOK', [Next]_vars PROVE Places'
  OBVIOUS
<1> USE PipeAssumption DEF TypeOK, Holding, Goto, Procs, pipevars, procvars, callvars, Places
<1>w. ASSUME NEW w \in Writers, WStep(w) PROVE Places'
  <2>1. CASE WAcquire(w)
    BY <2>1 DEF WAcquire, acquire
  <2>2. CASE WByte(w)
    BY <2>2 DEF WByte
  <2>3. CASE WGiveUp(w)
    BY <2>3 DEF WGiveUp, release
  <2>4. CASE WFull(w)
    BY <2>4 DEF WFull, wakeup
  <2>5. CASE WSleep(w)
    BY <2>5 DEF WSleep, sleep, release
  <2>6. CASE WDone(w)
    BY <2>6 DEF WDone, wakeup, release
  <2> QED
    BY <1>w, <2>1, <2>2, <2>3, <2>4, <2>5, <2>6 DEF WStep
<1>r. ASSUME NEW r \in Readers, RStep(r) PROVE Places'
  <2>1. CASE RAcquire(r)
    BY <2>1 DEF RAcquire, acquire
  <2>2. CASE RGiveUp(r)
    BY <2>2 DEF RGiveUp, release
  <2>3. CASE REmpty(r)
    BY <2>3 DEF REmpty
  <2>4. CASE RSleep(r)
    BY <2>4 DEF RSleep, sleep, release
  <2>5. CASE RReady(r)
    BY <2>5 DEF RReady
  <2>6. CASE RByte(r)
    BY <2>6 DEF RByte
  <2>7. CASE RDone(r)
    BY <2>7 DEF RDone, wakeup, release
  <2>8. CASE REof(r)
    BY <2>8 DEF REof
  <2> QED
    BY <1>r, <2>1, <2>2, <2>3, <2>4, <2>5, <2>6, <2>7, <2>8 DEF RStep
<1>1. ASSUME NEW w \in Writers, NEW s \in Payloads, pipewrite(w, s)
      PROVE Places'
  BY <1>1 DEF pipewrite, MayCall
<1>2. ASSUME NEW r \in Readers, NEW k \in ReadSizes, piperead(r, k) PROVE Places'
  BY <1>2 DEF piperead, MayCall
<1>3. ASSUME NEW p \in Procs, fileclose(p) PROVE Places'
  BY <1>3 DEF fileclose, SideOf
<1>4. ASSUME NEW p \in Procs, pipeclose(p) PROVE Places'
  BY <1>4 DEF pipeclose, wakeup, SideOf
<1>5. ASSUME NEW p \in Procs, PipeFree(p) PROVE Places'
  BY <1>5 DEF PipeFree
<1>6. ASSUME NEW p \in Procs, kill(p) PROVE Places'
  BY <1>6 DEF kill
<1>7. CASE UNCHANGED vars
  BY <1>7 DEF vars
<1> QED
  BY <1>w, <1>r, <1>1, <1>2, <1>3, <1>4, <1>5, <1>6, <1>7 DEF Next, CStep

\* The ends close once, and the page is freed after both.
LEMMA NextEnds == Places /\ Ends /\ TypeOK /\ TypeOK' /\ [Next]_vars => Ends'
<1> SUFFICES ASSUME Places, Ends, TypeOK, TypeOK', [Next]_vars PROVE Ends'
  OBVIOUS
<1> USE PipeAssumption DEF TypeOK, Holding, Goto, Procs, pipevars, procvars, callvars, Places, Ends, SideOf
<1>w. ASSUME NEW w \in Writers, WStep(w) PROVE Ends'
  <2>1. CASE WAcquire(w)
    BY <2>1 DEF WAcquire, acquire
  <2>2. CASE WByte(w)
    BY <2>2 DEF WByte
  <2>3. CASE WGiveUp(w)
    BY <2>3 DEF WGiveUp, release
  <2>4. CASE WFull(w)
    BY <2>4 DEF WFull, wakeup
  <2>5. CASE WSleep(w)
    BY <2>5 DEF WSleep, sleep, release
  <2>6. CASE WDone(w)
    BY <2>6 DEF WDone, wakeup, release
  <2> QED
    BY <1>w, <2>1, <2>2, <2>3, <2>4, <2>5, <2>6 DEF WStep
<1>r. ASSUME NEW r \in Readers, RStep(r) PROVE Ends'
  <2>1. CASE RAcquire(r)
    BY <2>1 DEF RAcquire, acquire
  <2>2. CASE RGiveUp(r)
    BY <2>2 DEF RGiveUp, release
  <2>3. CASE REmpty(r)
    BY <2>3 DEF REmpty
  <2>4. CASE RSleep(r)
    BY <2>4 DEF RSleep, sleep, release
  <2>5. CASE RReady(r)
    BY <2>5 DEF RReady
  <2>6. CASE RByte(r)
    BY <2>6 DEF RByte
  <2>7. CASE RDone(r)
    BY <2>7 DEF RDone, wakeup, release
  <2>8. CASE REof(r)
    BY <2>8 DEF REof
  <2> QED
    BY <1>r, <2>1, <2>2, <2>3, <2>4, <2>5, <2>6, <2>7, <2>8 DEF RStep
<1>1. ASSUME NEW w \in Writers, NEW s \in Payloads, pipewrite(w, s)
      PROVE Ends'
  BY <1>1 DEF pipewrite, MayCall
<1>2. ASSUME NEW r \in Readers, NEW k \in ReadSizes, piperead(r, k) PROVE Ends'
  BY <1>2 DEF piperead, MayCall
<1>3. ASSUME NEW p \in Procs, fileclose(p) PROVE Ends'
  BY <1>3 DEF fileclose, SideOf
<1>4. ASSUME NEW p \in Procs, pipeclose(p) PROVE Ends'
  BY <1>4 DEF pipeclose, wakeup, SideOf
<1>5. ASSUME NEW p \in Procs, PipeFree(p) PROVE Ends'
  BY <1>5 DEF PipeFree
<1>6. ASSUME NEW p \in Procs, kill(p) PROVE Ends'
  BY <1>6 DEF kill
<1>7. CASE UNCHANGED vars
  BY <1>7 DEF vars
<1> QED
  BY <1>w, <1>r, <1>1, <1>2, <1>3, <1>4, <1>5, <1>6, <1>7 DEF Next, CStep

\* A reader sees the end only when it is there.
LEMMA NextAtEnd == Places /\ Ends /\ AtEnd /\ TypeOK /\ TypeOK' /\ [Next]_vars => AtEnd'
<1> SUFFICES ASSUME Places, Ends, AtEnd, TypeOK, TypeOK', [Next]_vars PROVE AtEnd'
  OBVIOUS
<1> USE PipeAssumption DEF TypeOK, Holding, Goto, Procs, pipevars, procvars, callvars, Places, Ends, AtEnd, Copying, EofIsFinal, Empty
<1>w. ASSUME NEW w \in Writers, WStep(w) PROVE AtEnd'
  <2>1. CASE WAcquire(w)
    BY <2>1 DEF WAcquire, acquire
  <2>2. CASE WByte(w)
    BY <2>2 DEF WByte
  <2>3. CASE WGiveUp(w)
    BY <2>3 DEF WGiveUp, release
  <2>4. CASE WFull(w)
    BY <2>4 DEF WFull, wakeup
  <2>5. CASE WSleep(w)
    BY <2>5 DEF WSleep, sleep, release
  <2>6. CASE WDone(w)
    BY <2>6 DEF WDone, wakeup, release
  <2> QED
    BY <1>w, <2>1, <2>2, <2>3, <2>4, <2>5, <2>6 DEF WStep
<1>r. ASSUME NEW r \in Readers, RStep(r) PROVE AtEnd'
  <2>1. CASE RAcquire(r)
    BY <2>1 DEF RAcquire, acquire
  <2>2. CASE RGiveUp(r)
    BY <2>2 DEF RGiveUp, release
  <2>3. CASE REmpty(r)
    BY <2>3 DEF REmpty
  <2>4. CASE RSleep(r)
    BY <2>4 DEF RSleep, sleep, release
  <2>5. CASE RReady(r)
    BY <2>5 DEF RReady
  <2>6. CASE RByte(r)
    <3>1. addr'[r] # <<>>
      BY <2>6 DEF RByte, Index
    <3>2. \A q \in Readers \ {r} : pc'[q] # "r_copy"
      BY <2>6 DEF RByte
    <3>3. Copying'
      BY <3>1, <3>2
    <3>4. EofIsFinal'
      BY <2>6 DEF RByte
    <3> QED
      BY <3>3, <3>4
  <2>7. CASE RDone(r)
    BY <2>7 DEF RDone, wakeup, release
  <2>8. CASE REof(r)
    BY <2>8 DEF REof
  <2> QED
    BY <1>r, <2>1, <2>2, <2>3, <2>4, <2>5, <2>6, <2>7, <2>8 DEF RStep
<1>1. ASSUME NEW w \in Writers, NEW s \in Payloads, pipewrite(w, s)
      PROVE AtEnd'
  BY <1>1 DEF pipewrite, MayCall
<1>2. ASSUME NEW r \in Readers, NEW k \in ReadSizes, piperead(r, k) PROVE AtEnd'
  BY <1>2 DEF piperead, MayCall
<1>3. ASSUME NEW p \in Procs, fileclose(p) PROVE AtEnd'
  BY <1>3 DEF fileclose, SideOf
<1>4. ASSUME NEW p \in Procs, pipeclose(p) PROVE AtEnd'
  BY <1>4 DEF pipeclose, wakeup, SideOf
<1>5. ASSUME NEW p \in Procs, PipeFree(p) PROVE AtEnd'
  BY <1>5 DEF PipeFree
<1>6. ASSUME NEW p \in Procs, kill(p) PROVE AtEnd'
  BY <1>6 DEF kill
<1>7. CASE UNCHANGED vars
  BY <1>7 DEF vars
<1> QED
  BY <1>w, <1>r, <1>1, <1>2, <1>3, <1>4, <1>5, <1>6, <1>7 DEF Next, CStep

\* No process touches the pipe once kfree has its page, and the page is given
\* back once (pipeclose): for any number of processes on either end, killed
\* or not.
THEOREM FreedOnce == Spec => []NoUseAfterFree
<1>1. Init => Places /\ Ends
  BY PipeAssumption DEF Init, Places, Ends, Procs
<1>2. TypeOK /\ Places /\ Ends => NoUseAfterFree
  BY PipeAssumption DEF TypeOK, Places, Ends, NoUseAfterFree, Procs
<1> QED
  BY <1>1, <1>2, TypeCorrect, NextPlaces, NextEnds, PTL DEF Spec

\* A read returns 0 only at the end of the stream (piperead).
THEOREM EofCorrect == Spec => []EofIsFinal
<1>1. Init => Places /\ Ends /\ AtEnd
  BY PipeAssumption DEF Init, Places, Ends, AtEnd, Copying, EofIsFinal, Procs
<1>2. AtEnd => EofIsFinal
  BY DEF AtEnd
<1> QED
  BY <1>1, <1>2, TypeCorrect, NextPlaces, NextEnds, NextAtEnd, PTL DEF Spec

----------------------------------------------------------------------------
(* Sleep and wakeup.                                                       *)

\* A process about to sleep still has its reason: it holds the lock.
Quiet ==
  /\ \A r \in Readers : pc[r] = "r_sleep" => Empty /\ writeopen
  /\ \A w \in Writers : pc[w] = "w_sleep" => Full /\ readopen
Awake == Quiet /\ NoLostWakeup

\* kill() is never called on a writer.
WritersSpared == Killable \cap Writers = {}
Spared == \A w \in Writers : killed[w] = FALSE

\* No step forgets a sleeping process.
LEMMA NextAwake == Places /\ Ends /\ Spared /\ Awake /\ TypeOK /\ TypeOK' /\ [Next]_vars => Awake'
<1> SUFFICES ASSUME Places, Ends, Spared, Awake, TypeOK, TypeOK', [Next]_vars PROVE Awake'
  OBVIOUS
<1> USE PipeAssumption DEF TypeOK, Holding, Goto, Procs, pipevars, procvars, callvars, Places, Ends, Spared, Awake, Quiet, NoLostWakeup, ReaderNotForgotten, WriterNotForgotten, Empty, Full
<1>w. ASSUME NEW w \in Writers, WStep(w) PROVE Awake'
  <2>1. CASE WAcquire(w)
    BY <2>1 DEF WAcquire, acquire
  <2>2. CASE WByte(w)
    BY <2>2 DEF WByte
  <2>3. CASE WGiveUp(w)
    BY <2>3 DEF WGiveUp, release
  <2>4. CASE WFull(w)
    BY <2>4 DEF WFull, wakeup
  <2>5. CASE WSleep(w)
    BY <2>5 DEF WSleep, sleep, release
  <2>6. CASE WDone(w)
    BY <2>6 DEF WDone, wakeup, release
  <2> QED
    BY <1>w, <2>1, <2>2, <2>3, <2>4, <2>5, <2>6 DEF WStep
<1>r. ASSUME NEW r \in Readers, RStep(r) PROVE Awake'
  <2>1. CASE RAcquire(r)
    BY <2>1 DEF RAcquire, acquire
  <2>2. CASE RGiveUp(r)
    BY <2>2 DEF RGiveUp, release
  <2>3. CASE REmpty(r)
    BY <2>3 DEF REmpty
  <2>4. CASE RSleep(r)
    BY <2>4 DEF RSleep, sleep, release
  <2>5. CASE RReady(r)
    BY <2>5 DEF RReady
  <2>6. CASE RByte(r)
    BY <2>6 DEF RByte
  <2>7. CASE RDone(r)
    BY <2>7 DEF RDone, wakeup, release
  <2>8. CASE REof(r)
    BY <2>8 DEF REof
  <2> QED
    BY <1>r, <2>1, <2>2, <2>3, <2>4, <2>5, <2>6, <2>7, <2>8 DEF RStep
<1>1. ASSUME NEW w \in Writers, NEW s \in Payloads, pipewrite(w, s)
      PROVE Awake'
  BY <1>1 DEF pipewrite, MayCall
<1>2. ASSUME NEW r \in Readers, NEW k \in ReadSizes, piperead(r, k) PROVE Awake'
  BY <1>2 DEF piperead, MayCall
<1>3. ASSUME NEW p \in Procs, fileclose(p) PROVE Awake'
  BY <1>3 DEF fileclose, SideOf
<1>4. ASSUME NEW p \in Procs, pipeclose(p) PROVE Awake'
  BY <1>4 DEF pipeclose, wakeup, SideOf
<1>5. ASSUME NEW p \in Procs, PipeFree(p) PROVE Awake'
  BY <1>5 DEF PipeFree
<1>6. ASSUME NEW p \in Procs, kill(p) PROVE Awake'
  BY <1>6 DEF kill
<1>7. CASE UNCHANGED vars
  BY <1>7 DEF vars
<1> QED
  BY <1>w, <1>r, <1>1, <1>2, <1>3, <1>4, <1>5, <1>6, <1>7 DEF Next, CStep

\* Only kill() marks a process as killed.
LEMMA NextSpared == WritersSpared /\ Spared /\ TypeOK /\ [Next]_vars => Spared'
<1> SUFFICES ASSUME WritersSpared, Spared, TypeOK, [Next]_vars PROVE Spared'
  OBVIOUS
<1>1. ASSUME NEW p \in Procs, kill(p) PROVE Spared'
  BY <1>1 DEF kill, Spared, WritersSpared, TypeOK
<1>2. CASE UNCHANGED killed
  BY <1>2 DEF Spared
<1> QED
  BY <1>1, <1>2 DEF Next, WStep, RStep, CStep, vars, procvars, WAcquire, WByte, WGiveUp, WFull,
     WSleep, WDone, RAcquire, RGiveUp, REmpty, RSleep, RReady, RByte, RDone, REof, pipewrite,
     piperead, fileclose, pipeclose, PipeFree

\* No wakeup is lost between any number of readers and writers, as long as
\* kill() spares the writers: a killed writer returns from a full pipe
\* without the wakeup of pipewrite-wakeup1.
THEOREM WakeupsKept == WritersSpared => (Spec => []NoLostWakeup)
<1> SUFFICES ASSUME WritersSpared PROVE Spec => []NoLostWakeup
  OBVIOUS
<1>1. Init => Places /\ Ends /\ Spared /\ Awake
  BY PipeAssumption DEF Init, Places, Ends, Spared, Awake, Quiet, NoLostWakeup,
     ReaderNotForgotten, WriterNotForgotten, Procs
<1>2. Awake => NoLostWakeup
  BY DEF Awake
<1>3. Spared /\ TypeOK /\ [Next]_vars => Spared'
  BY NextSpared
<1> QED
  BY <1>1, <1>2, <1>3, TypeCorrect, NextPlaces, NextEnds, NextAwake, PTL DEF Spec

----------------------------------------------------------------------------
(* The ring buffer.                                                        *)

\* Quotient and remainder, and that they are unique.
LEMMA ModSplit ==
  ASSUME NEW m \in Nat \ {0}, NEW x \in Int
  PROVE  x = (x \div m) * m + (x % m) /\ x % m \in 0 .. (m - 1) /\ x \div m \in Int
OBVIOUS

\* A remainder is the only number of its kind below the modulus.
LEMMA ModUnique ==
  ASSUME NEW m \in Nat \ {0}, NEW x \in Int, NEW q \in Int, NEW r \in 0 .. (m - 1), x = q * m + r
  PROVE  x % m = r
OBVIOUS

\* The wrap of a counter does not move its slot: PIPESIZE divides MOD.
LEMMA SameSlot ==
  ASSUME NEW x \in Nat, x < MOD + MOD
  PROVE  (x % MOD) % PIPESIZE = x % PIPESIZE
<1>0. MOD \in Nat \ {0} /\ PIPESIZE \in Nat \ {0}
  BY PipeAssumption
<1>1. CASE x < MOD
  BY <1>0, <1>1
<1>2. CASE MOD <= x
  <2>1. x % MOD = x - MOD
    BY <1>0, <1>2
  <2> DEFINE k == MOD \div PIPESIZE
             q == x \div PIPESIZE
             r == x % PIPESIZE
  <2>2. MOD = k * PIPESIZE /\ k \in Int
    BY <1>0, ModSplit, PipeAssumption
  <2>3. x = q * PIPESIZE + r /\ q \in Int /\ r \in 0 .. (PIPESIZE - 1)
    BY <1>0, ModSplit
  <2> HIDE DEF k, q, r
  <2>4. x - MOD = (q - k) * PIPESIZE + r /\ q - k \in Int /\ x - MOD \in Int
    BY <1>0, <2>2, <2>3
  <2>5. (x - MOD) % PIPESIZE = r
    BY <1>0, <2>3, <2>4, ModUnique
  <2> QED
    BY <2>1, <2>5 DEF r
<1> QED
  BY <1>0, <1>1, <1>2

\* Less than PIPESIZE counts apart, slots differ.
LEMMA OtherSlot ==
  ASSUME NEW a \in Nat, NEW b \in Nat, a < b, b < a + PIPESIZE
  PROVE  a % PIPESIZE # b % PIPESIZE
<1> SUFFICES ASSUME a % PIPESIZE = b % PIPESIZE PROVE FALSE
  OBVIOUS
<1> DEFINE qa == a \div PIPESIZE
           qb == b \div PIPESIZE
           r == a % PIPESIZE
<1>0. PIPESIZE \in Nat \ {0}
  BY PipeAssumption
<1>1. a = qa * PIPESIZE + r /\ b = qb * PIPESIZE + r /\ qa \in Int /\ qb \in Int /\ r \in Int
  BY <1>0, ModSplit
<1> HIDE DEF qa, qb, r
<1>2. b - a = (qb - qa) * PIPESIZE
  BY <1>0, <1>1
<1>3. qb - qa >= 1
  <2> SUFFICES ASSUME qb - qa <= 0 PROVE FALSE
    BY <1>1
  <2>1. (qb - qa) * PIPESIZE <= 0
    BY <1>0, <1>1
  <2> QED
    BY <1>2, <2>1
<1>4. (qb - qa) * PIPESIZE >= PIPESIZE
  BY <1>0, <1>1, <1>3
<1> QED
  BY <1>0, <1>2, <1>4

\* The bytes of a pipe with these counters and this buffer.
Count(nr, nw)   == (nw - nr) % MOD
Ring(nr, nw, d) == [i \in 1 .. Count(nr, nw) |-> d[((nr + i - 1) % MOD) % PIPESIZE]]

\* What the ring holds, element by element.
LEMMA RingIs ==
  ASSUME NEW nr \in 0 .. (MOD - 1), NEW nw \in 0 .. (MOD - 1), NEW d \in [Index -> Bytes],
         Count(nr, nw) <= PIPESIZE
  PROVE  /\ Count(nr, nw) \in Nat /\ Ring(nr, nw, d) \in Seq(Bytes)
         /\ Len(Ring(nr, nw, d)) = Count(nr, nw)
         /\ \A i \in 1 .. Count(nr, nw) : Ring(nr, nw, d)[i] = d[(nr + i - 1) % PIPESIZE]
<1>0. MOD \in Nat \ {0} /\ PIPESIZE \in Nat \ {0} /\ MOD > PIPESIZE
  BY PipeAssumption
<1>1. Count(nr, nw) \in Nat
  BY <1>0 DEF Count
<1> DEFINE c == Count(nr, nw)
<1> HIDE DEF c
<1>2. ASSUME NEW i \in 1 .. c PROVE d[((nr + i - 1) % MOD) % PIPESIZE] \in Bytes
                                      /\ ((nr + i - 1) % MOD) % PIPESIZE = (nr + i - 1) % PIPESIZE
  <2>1. nr + i - 1 \in Nat /\ nr + i - 1 < MOD + MOD
    BY <1>0, <1>1 DEF c
  <2>2. ((nr + i - 1) % MOD) % PIPESIZE = (nr + i - 1) % PIPESIZE
    BY <2>1, SameSlot
  <2>3. (nr + i - 1) % PIPESIZE \in Index
    BY <2>1, <1>0 DEF Index
  <2> QED
    BY <2>2, <2>3
<1>3. Ring(nr, nw, d) = [i \in 1 .. c |-> d[((nr + i - 1) % MOD) % PIPESIZE]]
  BY DEF Ring, c
<1>4. Ring(nr, nw, d) \in [1 .. c -> Bytes] /\ c \in Nat
  BY <1>1, <1>2, <1>3 DEF c
<1>5. Ring(nr, nw, d) \in Seq(Bytes) /\ Len(Ring(nr, nw, d)) = c
  BY <1>4
<1> QED
  BY <1>1, <1>2, <1>3, <1>5 DEF c

\* A pipe that is not full has room.
LEMMA RoomLeft ==
  ASSUME NEW nr \in 0 .. (MOD - 1), NEW nw \in 0 .. (MOD - 1), Count(nr, nw) <= PIPESIZE
  PROVE  /\ nw # (nr + PIPESIZE) % MOD => Count(nr, nw) < PIPESIZE
         /\ nw = nr <=> Count(nr, nw) = 0
         /\ nw = nr + Count(nr, nw) \/ nw = nr + Count(nr, nw) - MOD
         /\ Count(nr, nw) \in Nat
<1>0. MOD \in Nat \ {0} /\ PIPESIZE \in Nat \ {0} /\ MOD > PIPESIZE
  BY PipeAssumption
<1>1. \/ nw >= nr /\ Count(nr, nw) = nw - nr
      \/ nw < nr /\ Count(nr, nw) = nw - nr + MOD
  BY <1>0 DEF Count
<1>2. \/ nr + PIPESIZE < MOD /\ (nr + PIPESIZE) % MOD = nr + PIPESIZE
      \/ nr + PIPESIZE >= MOD /\ (nr + PIPESIZE) % MOD = nr + PIPESIZE - MOD
  BY <1>0
<1> QED
  BY <1>0, <1>1, <1>2

\* One byte in.
LEMMA RingPut ==
  ASSUME NEW nr \in 0 .. (MOD - 1), NEW nw \in 0 .. (MOD - 1), NEW d \in [Index -> Bytes],
         NEW b \in Bytes, Count(nr, nw) < PIPESIZE
  PROVE  /\ Count(nr, (nw + 1) % MOD) = Count(nr, nw) + 1
         /\ Ring(nr, (nw + 1) % MOD, [d EXCEPT ![nw % PIPESIZE] = b]) = Append(Ring(nr, nw, d), b)
<1>0. MOD \in Nat \ {0} /\ PIPESIZE \in Nat \ {0} /\ MOD > PIPESIZE
  BY PipeAssumption
<1> DEFINE c  == Count(nr, nw)
           nx == (nw + 1) % MOD
           e  == [d EXCEPT ![nw % PIPESIZE] = b]
<1>1. c \in Nat /\ c < PIPESIZE /\ (nw = nr + c \/ nw = nr + c - MOD)
  BY <1>0, RoomLeft DEF Count
<1>2. nx \in 0 .. (MOD - 1) /\ (nx = nw + 1 \/ (nw = MOD - 1 /\ nx = 0))
  BY <1>0
<1>3. Count(nr, nx) = c + 1
  <2> HIDE DEF c, nx
  <2>1. nx - nr = c + 1 \/ nx - nr = c + 1 - MOD
    BY <1>0, <1>1, <1>2
  <2> QED
    BY <2>1, <1>0, <1>1 DEF Count
<1>4. nw % PIPESIZE = (nr + c) % PIPESIZE /\ nw % PIPESIZE \in Index
  <2> HIDE DEF c
  <2>1. (nr + c) % MOD = nw
    BY <1>0, <1>1
  <2>2. nr + c \in Nat /\ nr + c < MOD + MOD
    BY <1>0, <1>1
  <2>3. ((nr + c) % MOD) % PIPESIZE = (nr + c) % PIPESIZE
    BY <2>2, SameSlot
  <2> QED
    BY <2>1, <2>3, <1>0 DEF Index
<1>5. e \in [Index -> Bytes] /\ e[nw % PIPESIZE] = b
  BY <1>4
<1> DEFINE R == Ring(nr, nw, d)
           S == Ring(nr, nx, e)
<1>6. R \in Seq(Bytes) /\ Len(R) = c /\ \A i \in 1 .. c : R[i] = d[(nr + i - 1) % PIPESIZE]
  <2>1. Count(nr, nw) <= PIPESIZE
    BY <1>0, <1>1
  <2> QED
    BY <2>1, RingIs
<1> HIDE DEF c, nx, e
<1>7. S \in Seq(Bytes) /\ Len(S) = c + 1 /\ \A i \in 1 .. (c + 1) : S[i] = e[(nr + i - 1) % PIPESIZE]
  <2>1. Count(nr, nx) <= PIPESIZE
    BY <1>0, <1>1, <1>3
  <2> QED
    BY <2>1, <1>2, <1>3, <1>5, RingIs
<1> HIDE DEF R, S
<1>8. S[c + 1] = b
  BY <1>1, <1>4, <1>5, <1>7
<1>9. ASSUME NEW i \in 1 .. c PROVE S[i] = R[i]
  <2>1. (nr + i - 1) % PIPESIZE # (nr + c) % PIPESIZE
    <3>1. /\ nr + i - 1 \in Nat /\ nr + c \in Nat
          /\ nr + i - 1 < nr + c /\ nr + c < nr + i - 1 + PIPESIZE
      BY <1>0, <1>1
    <3> QED
      BY <3>1, OtherSlot
  <2>2. (nr + i - 1) % PIPESIZE \in Index
    BY <1>0, <1>1 DEF Index
  <2>3. e[(nr + i - 1) % PIPESIZE] = d[(nr + i - 1) % PIPESIZE]
    BY <2>1, <2>2, <1>4 DEF e
  <2> QED
    BY <2>3, <1>1, <1>6, <1>7
<1>10. S = Append(R, b)
  BY <1>1, <1>6, <1>7, <1>8, <1>9
<1> QED
  BY <1>3, <1>10 DEF R, S, c, nx, e

\* One byte out.
LEMMA RingGet ==
  ASSUME NEW nr \in 0 .. (MOD - 1), NEW nw \in 0 .. (MOD - 1), NEW d \in [Index -> Bytes],
         Count(nr, nw) <= PIPESIZE, nr # nw
  PROVE  /\ Count((nr + 1) % MOD, nw) = Count(nr, nw) - 1
         /\ Ring(nr, nw, d) # <<>> /\ Ring(nr, nw, d) \in Seq(Bytes)
         /\ Head(Ring(nr, nw, d)) = d[nr % PIPESIZE]
         /\ Ring((nr + 1) % MOD, nw, d) = Tail(Ring(nr, nw, d))
<1>0. MOD \in Nat \ {0} /\ PIPESIZE \in Nat \ {0} /\ MOD > PIPESIZE
  BY PipeAssumption
<1> DEFINE c  == Count(nr, nw)
           nx == (nr + 1) % MOD
           R == Ring(nr, nw, d)
           S == Ring(nx, nw, d)
<1>1. c \in Nat /\ c > 0 /\ c <= PIPESIZE /\ (nw = nr + c \/ nw = nr + c - MOD)
  BY <1>0, RoomLeft
<1>2. nx \in 0 .. (MOD - 1) /\ (nx = nr + 1 \/ (nr = MOD - 1 /\ nx = 0))
  BY <1>0
<1>3. Count(nx, nw) = c - 1
  <2> HIDE DEF c, nx
  <2>1. nw - nx = c - 1 \/ nw - nx = c - 1 - MOD
    BY <1>0, <1>1, <1>2
  <2> QED
    BY <2>1, <1>0, <1>1 DEF Count
<1>4. R \in Seq(Bytes) /\ Len(R) = c /\ \A i \in 1 .. c : R[i] = d[(nr + i - 1) % PIPESIZE]
  BY RingIs
<1> HIDE DEF c, nx
<1>5. S \in Seq(Bytes) /\ Len(S) = c - 1 /\ \A i \in 1 .. (c - 1) : S[i] = d[(nx + i - 1) % PIPESIZE]
  <2>1. Count(nx, nw) <= PIPESIZE
    BY <1>0, <1>1, <1>3
  <2> QED
    BY <2>1, <1>2, <1>3, RingIs
<1> HIDE DEF R, S
<1>6. ASSUME NEW i \in 1 .. (c - 1) PROVE S[i] = R[i + 1]
  <2>1. (nx + i - 1) % PIPESIZE = (nr + i) % PIPESIZE
    <3>1. CASE nx = nr + 1
      BY <3>1
    <3>2. CASE nr = MOD - 1 /\ nx = 0
      <4>1. (nr + i) % MOD = i - 1
        BY <3>2, <1>0, <1>1
      <4>2. nr + i \in Nat /\ nr + i < MOD + MOD
        BY <1>0, <1>1
      <4>3. ((nr + i) % MOD) % PIPESIZE = (nr + i) % PIPESIZE
        BY <4>2, SameSlot
      <4> QED
        BY <3>2, <4>1, <4>3
    <3> QED
      BY <1>2, <3>1, <3>2
  <2>2. i \in 1 .. (c - 1) /\ i + 1 \in 1 .. c /\ nr + (i + 1) - 1 = nr + i
    BY <1>1
  <2> QED
    BY <2>1, <2>2, <1>4, <1>5, SMTT(30)
<1>7. S = Tail(R) /\ R # <<>> /\ Head(R) = R[1]
  BY <1>1, <1>4, <1>5, <1>6, SMTT(30)
<1>8. R[1] = d[nr % PIPESIZE]
  <2>1. 1 \in 1 .. c /\ nr + 1 - 1 = nr
    BY <1>1
  <2> QED
    BY <2>1, <1>4
<1> QED
  BY <1>3, <1>4, <1>7, <1>8 DEF R, S, c, nx

----------------------------------------------------------------------------
(* The stream.                                                             *)

\* The pipe holds at most PIPESIZE bytes, also when the counters have wrapped.
CountOK == Count(nread, nwrite) <= PIPESIZE

\* What a step does to the stream: one byte in, one out, the end of a read,
\* the end of a side, or nothing.
LEMMA NextStream ==
  ASSUME TypeOK, TypeOK', Places, Ends, CountOK, [Next]_vars
  PROVE  CountOK' /\ [Stream!StreamNext]_(Stream!streamvars)
<1>0. /\ nread \in 0 .. (MOD - 1) /\ nwrite \in 0 .. (MOD - 1) /\ data \in [Index -> Bytes]
      /\ InPipe = Ring(nread, nwrite, data)
      /\ InPipe' = Ring(nread', nwrite', data')
      /\ PIPESIZE \in Nat \ {0} /\ Readers \cap Writers = {}
  BY PipeAssumption DEF TypeOK, InPipe, Ring, Count
<1>a. ASSUME pipevars' = pipevars, addr' = addr
      PROVE  CountOK' /\ [Stream!StreamNext]_(Stream!streamvars)
  BY <1>a DEF CountOK, Count, InPipe, pipevars, Stream!streamvars
<1>1. ASSUME NEW w \in Writers, WByte(w) PROVE CountOK' /\ [Stream!StreamNext]_(Stream!streamvars)
  <2>1. Head(todo[w]) \in Bytes /\ ~Full /\ writeopen /\ writeopen' = writeopen /\ readopen' = readopen
        /\ addr' = addr /\ nread' = nread /\ nwrite' = (nwrite + 1) % MOD
        /\ data' = [data EXCEPT ![nwrite % PIPESIZE] = Head(todo[w])]
    BY <1>1 DEF TypeOK, WByte, Places, Ends, Procs
  <2>2. Count(nread, nwrite) < PIPESIZE /\ Count(nread, nwrite) \in Nat
    BY <2>1, <1>0, RoomLeft DEF Full, CountOK
  <2>3. Count(nread', nwrite') = Count(nread, nwrite) + 1 /\ InPipe' = Append(InPipe, Head(todo[w]))
    BY <2>1, <2>2, <1>0, RingPut, ZenonT(30)
  <2>4. CountOK'
    BY <2>2, <2>3, <1>0 DEF CountOK
  <2>5. Len(InPipe) = Count(nread, nwrite)
    BY <1>0, RingIs DEF CountOK
  <2>6. Stream!Put(Head(todo[w]))
    BY <2>1, <2>2, <2>3, <2>5 DEF Stream!Put
  <2> QED
    BY <2>1, <2>4, <2>6 DEF Stream!StreamNext
<1>2. ASSUME NEW r \in Readers, RByte(r) PROVE CountOK' /\ [Stream!StreamNext]_(Stream!streamvars)
  <2>1. nread # nwrite /\ writeopen' = writeopen /\ readopen' = readopen
        /\ addr' = [addr EXCEPT ![r] = Append(@, data[nread % PIPESIZE])]
        /\ nread' = (nread + 1) % MOD /\ nwrite' = nwrite /\ data' = data
    BY <1>2 DEF RByte, Empty
  <2>2. Count(nread, nwrite) \in Nat
    BY <1>0, RoomLeft DEF CountOK
  <2>3. /\ Count(nread', nwrite') = Count(nread, nwrite) - 1
        /\ InPipe # <<>> /\ Head(InPipe) = data[nread % PIPESIZE] /\ InPipe' = Tail(InPipe)
    BY <2>1, <1>0, RingGet DEF CountOK
  <2>4. CountOK'
    BY <2>2, <2>3, <1>0 DEF CountOK
  <2>5. Stream!Get(r)
    BY <2>1, <2>3 DEF Stream!Get
  <2> QED
    BY <2>4, <2>5 DEF Stream!StreamNext
<1>3. ASSUME NEW r \in Readers, RDone(r) PROVE CountOK' /\ [Stream!StreamNext]_(Stream!streamvars)
  <2>1. readopen /\ pipevars' = pipevars /\ addr' = [addr EXCEPT ![r] = <<>>]
    BY <1>3 DEF RDone, Places, Ends, Procs
  <2>2. CountOK' /\ InPipe' = InPipe
    BY <2>1 DEF CountOK, Count, InPipe, pipevars
  <2>3. Stream!End(r)
    BY <2>1, <2>2 DEF Stream!End, pipevars
  <2> QED
    BY <2>2, <2>3 DEF Stream!StreamNext
<1>4. ASSUME NEW p \in Procs, pipeclose(p) PROVE CountOK' /\ [Stream!StreamNext]_(Stream!streamvars)
  <2>1. addr' = addr /\ data' = data /\ nread' = nread /\ nwrite' = nwrite
        /\ writeopen' = (writeopen /\ p \notin Writers) /\ readopen' = (readopen /\ p \notin Readers)
    BY <1>4 DEF pipeclose, callvars
  <2>2. CountOK' /\ InPipe' = InPipe
    BY <2>1 DEF CountOK, Count, InPipe
  <2>3. CASE p \in Writers
    <3>1. writeopen = TRUE /\ writeopen' = FALSE /\ readopen' = readopen
      BY <1>4, <2>1, <2>3, <1>0 DEF pipeclose, Ends, TypeOK
    <3> QED
      BY <2>1, <2>2, <3>1 DEF Stream!StreamNext, Stream!CloseWrite
  <2>4. CASE p \in Readers
    <3>1. readopen = TRUE /\ readopen' = FALSE /\ writeopen' = writeopen
      BY <1>4, <2>1, <2>4, <1>0 DEF pipeclose, Ends, TypeOK
    <3> QED
      BY <2>1, <2>2, <3>1 DEF Stream!StreamNext, Stream!CloseRead
  <2> QED
    BY <2>3, <2>4 DEF Procs
<1>5. ASSUME NEW w \in Writers, WAcquire(w) \/ WGiveUp(w) \/ WFull(w) \/ WSleep(w) \/ WDone(w)
      PROVE  CountOK' /\ [Stream!StreamNext]_(Stream!streamvars)
  BY <1>5, <1>a DEF WAcquire, WGiveUp, WFull, WSleep, WDone, callvars
<1>6. ASSUME NEW r \in Readers, RAcquire(r) \/ RGiveUp(r) \/ REmpty(r) \/ RSleep(r) \/ RReady(r) \/ REof(r)
      PROVE  CountOK' /\ [Stream!StreamNext]_(Stream!streamvars)
  BY <1>6, <1>a DEF RAcquire, RGiveUp, REmpty, RSleep, RReady, REof, callvars
<1>7. ASSUME NEW w \in Writers, NEW s \in Payloads, pipewrite(w, s)
      PROVE  CountOK' /\ [Stream!StreamNext]_(Stream!streamvars)
  BY <1>7, <1>a DEF pipewrite
<1>8. ASSUME NEW r \in Readers, NEW k \in ReadSizes, piperead(r, k)
      PROVE  CountOK' /\ [Stream!StreamNext]_(Stream!streamvars)
  BY <1>8, <1>a DEF piperead
<1>9. ASSUME NEW p \in Procs, fileclose(p) \/ PipeFree(p) \/ kill(p)
      PROVE  CountOK' /\ [Stream!StreamNext]_(Stream!streamvars)
  BY <1>9, <1>a DEF fileclose, PipeFree, kill, callvars
<1>10. ASSUME UNCHANGED vars PROVE CountOK' /\ [Stream!StreamNext]_(Stream!streamvars)
  BY <1>10, <1>a DEF vars, callvars
<1> QED
  BY <1>1, <1>2, <1>3, <1>4, <1>5, <1>6, <1>7, <1>8, <1>9, <1>10 DEF Next, WStep, RStep, CStep

\* The pipe implements the bounded byte stream: every byte written is read
\* once and in order, at most PIPESIZE are on their way, and a side closes
\* once, for every PIPESIZE that divides the range of the counters, across
\* their wrap (pipe.c:58-117).
THEOREM StreamCorrect == Spec => ImplementsStream
<1>1. Init => Places /\ Ends /\ CountOK /\ Stream!StreamInit
  <2> SUFFICES ASSUME Init PROVE Places /\ Ends /\ CountOK /\ Stream!StreamInit
    OBVIOUS
  <2>1. Places /\ Ends
    BY PipeAssumption DEF Init, Places, Ends, Procs
  <2>2. Count(nread, nwrite) = 0
    BY PipeAssumption DEF Init, Count
  <2>3. CountOK
    BY <2>2, PipeAssumption DEF CountOK
  <2>4. InPipe = <<>>
    <3>1. InPipe = Ring(nread, nwrite, data)
      BY DEF InPipe, Ring, Count
    <3>2. Ring(nread, nwrite, data) \in Seq(Bytes) /\ Len(Ring(nread, nwrite, data)) = 0
      BY <2>2, <2>3, RingIs, PipeAssumption DEF Init, CountOK
    <3> QED
      BY <3>1, <3>2
  <2> QED
    BY <2>1, <2>3, <2>4 DEF Init, Stream!StreamInit
<1>2. TypeOK /\ TypeOK' /\ Places /\ Ends /\ CountOK /\ [Next]_vars
        => CountOK' /\ [Stream!StreamNext]_(Stream!streamvars)
  BY NextStream
<1> QED
  BY <1>1, <1>2, TypeCorrect, NextPlaces, NextEnds, PTL DEF Spec, ImplementsStream, Stream!StreamSpec
=============================================================================
