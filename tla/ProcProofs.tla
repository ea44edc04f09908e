----------------------------- MODULE ProcProofs -----------------------------
(***************************************************************************)
(* Proofs about Proc, for any number of CPUs and of slots in the process   *)
(* table, and whatever the bounds of the model are.                        *)
(***************************************************************************)
EXTENDS Proc, TLAPS

ProcStates == {"UNUSED", "EMBRYO", "SLEEPING", "RUNNABLE", "RUNNING", "ZOMBIE"}
Making     == {"f_kalloc", "f_copy", "f_unused", "f_publish"}
Places     == Making \cup {"user", "exit", "wait", "f_name", "s_acquire", "s_loop", "s_sleep"}
Callers    == {"-", "forkret", "yield", "sleep", "wait", "exit"}
Panics     == {"none", "init exiting", "zombie exit", "sched ptable.lock"}

\* The types of the process table, the CPUs and the places in the kernel.
TypeOK ==
  /\ state \in [Slots -> ProcStates]
  /\ pid \in [Slots -> Nat]
  /\ parent \in [Slots -> Slots \cup {NoProc}]
  /\ killed \in [Slots -> BOOLEAN]
  /\ onchan \in [Slots -> {NoChan, Ticks, "proc"}]
  /\ kstack \in [Slots -> BOOLEAN]
  /\ nextpid \in Nat
  /\ lock \in CPUs \cup {NoCPU}
  /\ tickslock \in CPUs \cup {NoCPU}
  /\ cpu \in [CPUs -> Slots \cup {NoProc}]
  /\ intr \in {"none", "tick", "trap"}
  /\ pc \in [Slots -> Places]
  /\ kont \in [Slots -> Callers]
  /\ np \in [Slots -> Slots \cup {NoProc}]
  /\ npid \in [Slots -> Nat]
  /\ left \in [Slots -> Nat]
  /\ panicked \in Panics

\* A CPU is on a live stack of its own; whoever is inside sched(), and
\* whoever is on a CPU without being RUNNING, has that CPU hold the lock.
OnCPU ==
  /\ \A c \in CPUs : cpu[c] # NoProc =>
       /\ state[cpu[c]] = "RUNNING" \/ (kont[cpu[c]] # "-" /\ state[cpu[c]] \notin {"UNUSED", "EMBRYO"})
       /\ kont[cpu[c]] # "-" => lock = c
  /\ \A c, d \in CPUs : cpu[c] # NoProc /\ cpu[c] = cpu[d] => c = d

\* A process that can run has a stack, and does not come back from exit();
\* a zombie is where exit() left it, and a free slot is outside fork().
Lives ==
  \A p \in Slots :
    /\ state[p] \notin {"UNUSED", "EMBRYO"} => kstack[p]
    /\ Alive(p) => kont[p] # "exit"
    /\ ~Alive(p) => pc[p] \in {"user", "exit"}
    /\ state[p] = "ZOMBIE" => pc[p] = "exit"
    /\ pc[p] \in Making \cup {"f_name"} => np[p] \in Slots

\* Each fork() under way has an EMBRYO to itself, and has readied its stack
\* and its context before it gives it a parent.
Forks ==
  /\ \A p \in Slots :
       /\ pc[p] \in Making => state[np[p]] = "EMBRYO"
       /\ pc[p] \in {"f_copy", "f_publish"} =>
            kstack[np[p]] /\ kont[np[p]] = "forkret" /\ pc[np[p]] = "user"
       /\ pc[p] \in {"f_kalloc", "f_copy", "f_unused"} => parent[np[p]] = NoProc
       /\ pc[p] = "f_publish" => parent[np[p]] = p
  /\ \A p, q \in Slots : pc[p] \in Making /\ pc[q] \in Making /\ np[p] = np[q] => p = q

\* init is its own master, and nobody else is his own child; a free slot has
\* no parent.
Family ==
  /\ Alive(init) /\ parent[init] = NoProc
  /\ \A p \in Slots : parent[p] # p /\ (state[p] = "UNUSED" => parent[p] = NoProc)

\* The child that fork() has made RUNNABLE is still its child.
Named ==
  \A p \in Slots : pc[p] = "f_name" =>
    /\ parent[np[p]] = p /\ pid[np[p]] = npid[p]
    /\ Alive(np[p]) \/ state[np[p]] = "ZOMBIE"

\* The only panic is that of a dying init.
PanicOK == panicked \in {"none", "init exiting"}

IInv ==
  TypeOK /\ OnCPU /\ Lives /\ Forks /\ Family /\ Named /\ PanicOK /\ NoMissedExit

----------------------------------------------------------------------------
(* What single steps do.                                                   *)

\* What the provers need of the constants.
LEMMA Constants ==
  /\ init \in Slots /\ NoProc \notin Slots /\ NoCPU \notin CPUs /\ 0 \in CPUs
  /\ KillPids \subseteq Nat /\ SleepTimes \subseteq Nat /\ MaxPid \in Nat
BY ProcAssumption DEF Slots, CPUs, init, NoProc, NoCPU

\* exit() makes the caller a zombie, may wake sleepers and gives the children
\* to init.
LEMMA ExitEffect ==
  ASSUME TypeOK, NEW c \in CPUs, NEW p \in Slots, ExitZombie(c, p), p # init
  PROVE  /\ cpu[c] = p /\ kont[p] = "-" /\ pc[p] = "exit" /\ lock = NoCPU
         /\ state' \in [Slots -> ProcStates] /\ state'[p] = "ZOMBIE"
         /\ \A q \in Slots \ {p} :
              state'[q] = state[q] \/ (state[q] = "SLEEPING" /\ state'[q] = "RUNNABLE")
         /\ parent' \in [Slots -> Slots \cup {NoProc}]
         /\ \A q \in Slots : parent'[q] = IF parent[q] = p THEN init ELSE parent[q]
         /\ lock' = c /\ kont' = [kont EXCEPT ![p] = "exit"]
         /\ UNCHANGED <<pid, killed, onchan, kstack, cpu, pc, np, npid, panicked>>
<1> USE Constants DEF ExitZombie, EnterSched, At
<1>1. state' = [Woken(ExitWakes(p)) EXCEPT ![p] = "ZOMBIE"]
  OBVIOUS
<1>2. parent' = [q \in Slots |-> IF q \in Abandoned(p) THEN init ELSE parent[q]]
  OBVIOUS
<1>3. Woken(ExitWakes(p)) \in [Slots -> ProcStates]
  BY DEF Woken, TypeOK, ProcStates
<1>4. \A q \in Slots : Woken(ExitWakes(p))[q] = state[q]
                        \/ (state[q] = "SLEEPING" /\ Woken(ExitWakes(p))[q] = "RUNNABLE")
  BY DEF Woken
<1>5. \A q \in Slots : parent'[q] = IF parent[q] = p THEN init ELSE parent[q]
  BY <1>2 DEF Abandoned
<1>6. parent' \in [Slots -> Slots \cup {NoProc}]
  BY <1>2 DEF TypeOK
<1>7. /\ state' \in [Slots -> ProcStates] /\ state'[p] = "ZOMBIE"
      /\ \A q \in Slots \ {p} :
           state'[q] = state[q] \/ (state[q] = "SLEEPING" /\ state'[q] = "RUNNABLE")
  BY <1>1, <1>3, <1>4 DEF ProcStates
<1> QED
  BY <1>5, <1>6, <1>7

\* init panics instead and changes nothing.
LEMMA ExitInit ==
  ASSUME NEW c \in CPUs, ExitZombie(c, init)
  PROVE  /\ panicked' = "init exiting"
         /\ UNCHANGED <<state, pid, parent, killed, onchan, kstack, nextpid>>
         /\ UNCHANGED <<lock, tickslock, cpu, intr, pc, kont, np, npid, left>>
BY DEF ExitZombie

\* exit() wakes a parent that waits, and init if it inherits a zombie: whoever
\* sleeps on has no zombie child, and one that lives.
LEMMA ExitKeepsWaiters ==
  ASSUME IInv, NEW c \in CPUs, NEW p \in Slots, ExitZombie(c, p), p # init
  PROVE  NoMissedExit'
<1> USE Constants DEF IInv
<1> SUFFICES ASSUME NEW q \in Slots, state'[q] = "SLEEPING", onchan'[q] = "proc"
             PROVE  Zombies(q)' = {} /\ \E r \in Slots : parent'[r] = q /\ state'[r] # "UNUSED"
  BY DEF NoMissedExit
<1>1. q # p /\ state[q] = "SLEEPING" /\ onchan[q] = "proc"
  BY ExitEffect
<1>2. Zombies(q) = {} /\ \E r \in Slots : parent[r] = q /\ state[r] # "UNUSED"
  BY <1>1 DEF NoMissedExit
<1>3. q \notin ExitWakes(p)
  <2>1. state' = [Woken(ExitWakes(p)) EXCEPT ![p] = "ZOMBIE"]
    BY DEF ExitZombie
  <2>2. q \in ExitWakes(p) => Woken(ExitWakes(p))[q] = "RUNNABLE"
    BY <1>1 DEF Woken, ChanOf
  <2> QED
    BY <1>1, <2>1, <2>2 DEF Woken
<1>4. parent[p] # q
  BY <1>3 DEF ExitWakes
<1>5. ASSUME NEW r \in Slots, parent'[r] = q, state'[r] = "ZOMBIE" PROVE FALSE
  <2>1. CASE parent[r] = p
    <3>1. q = init /\ r # p
      BY <2>1, <1>5, ExitEffect DEF Family
    <3>2. state[r] = "ZOMBIE"
      BY <3>1, <1>5, ExitEffect
    <3>3. init \in ExitWakes(p)
      BY <2>1, <3>2 DEF ExitWakes, Abandoned
    <3> QED
      BY <1>3, <3>1, <3>3
  <2>2. CASE parent[r] # p
    <3>1. parent[r] = q /\ r # p
      BY <2>2, <1>4, <1>5, ExitEffect
    <3>2. state[r] = "ZOMBIE"
      BY <3>1, <1>5, ExitEffect
    <3> QED
      BY <1>2, <3>1, <3>2 DEF Zombies
  <2> QED
    BY <2>1, <2>2
<1>6. \E r \in Slots : parent'[r] = q /\ state'[r] # "UNUSED"
  <2>1. PICK r \in Slots : parent[r] = q /\ state[r] # "UNUSED"
    BY <1>2
  <2>2. parent'[r] = q /\ state'[r] # "UNUSED"
    BY <1>1, <2>1, ExitEffect
  <2> QED
    BY <2>2
<1> QED
  BY <1>5, <1>6 DEF Zombies

\* Inside sched() the CPU holds ptable.lock.
LEMMA SchedHolds ==
  ASSUME IInv, NEW c \in CPUs, NEW p \in Slots, sched(c, p) PROVE lock = c
BY Constants DEF IInv, sched, OnCPU

\* What a process coming back from sched() changes of itself.
LEMMA ResumeEffect ==
  ASSUME IInv, NEW c \in CPUs, NEW p \in Slots, Resume(c, p)
  PROVE  /\ UNCHANGED <<state, pid, parent, killed, kstack, np>>
         /\ state[p] = "RUNNING" /\ kont' = [kont EXCEPT ![p] = "-"]
         /\ pc' \in [Slots -> Places]
         /\ \A q \in Slots : pc'[q] = pc[q] \/ (q = p /\ pc'[q] \in {"user", "exit"})
BY DEF Resume, Ret, IInv, TypeOK, Places, Making

----------------------------------------------------------------------------
(* Every part of the invariant is kept by every step.                      *)

\* Every step keeps the types.
LEMMA TypeStep == IInv /\ [Next]_vars => TypeOK'
<1> SUFFICES ASSUME IInv, [Next]_vars PROVE TypeOK'
  OBVIOUS
<1> USE Constants DEF TypeOK, IInv, Goto, At, table, cpus, kern, ProcStates, Making, Places, Callers, Panics, NoChan, Ticks
<1>1. ASSUME NEW c \in CPUs, NEW p \in Slots, Syscall(c, p) PROVE TypeOK'
  <2>1. CASE fork(c, p)
    BY <2>1 DEF fork
  <2>2. CASE exit(c, p)
    BY <2>2 DEF exit
  <2>3. CASE wait(c, p)
    BY <2>3 DEF wait
  <2>4. ASSUME NEW x \in KillPids, kill(c, p, x) PROVE TypeOK'
    BY <2>4 DEF kill
  <2>5. ASSUME NEW n \in SleepTimes, sys_sleep(c, p, n) PROVE TypeOK'
    BY <2>5 DEF sys_sleep
  <2> QED
    BY <1>1, <2>1, <2>2, <2>3, <2>4, <2>5 DEF Syscall
<1>2. ASSUME NEW c \in CPUs, NEW p \in Slots, Kernel(c, p) PROVE TypeOK'
  <2>1. CASE ForkStack(c, p)
    BY <2>1 DEF ForkStack
  <2>2. CASE ForkNoStack(c, p)
    BY <2>2 DEF ForkNoStack
  <2>3. CASE ForkCopy(c, p)
    BY <2>3 DEF ForkCopy
  <2>4. CASE ForkNoCopy(c, p)
    BY <2>4 DEF ForkNoCopy
  <2>5. CASE ForkUndo(c, p)
    BY <2>5 DEF ForkUndo, Ret
  <2>6. CASE ForkPublish(c, p)
    <3>1. np[p] \in Slots
      BY <2>6 DEF ForkPublish, Lives
    <3> QED
      BY <2>6, <3>1 DEF ForkPublish
  <2>7. CASE ForkName(c, p)
    BY <2>7 DEF ForkName, Ret
  <2>8. CASE ExitZombie(c, p)
    <3>1. CASE p = init
      BY <2>8, <3>1, ExitInit
    <3>2. CASE p # init
      BY <2>8, <3>2, ExitEffect DEF ExitZombie, EnterSched
    <3> QED
      BY <3>1, <3>2
  <2>9. CASE WaitReap(c, p)
    BY <2>9 DEF WaitReap, InWait, Zombies, Ret
  <2>10. CASE WaitNone(c, p)
    BY <2>10 DEF WaitNone, InWait, Ret
  <2>11. CASE WaitSleep(c, p)
    BY <2>11 DEF WaitSleep, InWait, EnterSched
  <2>12. CASE SleepAcquire(c, p)
    BY <2>12 DEF SleepAcquire
  <2>13. CASE SleepReturn(c, p)
    BY <2>13 DEF SleepReturn, Ret
  <2>14. CASE SleepAgain(c, p)
    BY <2>14 DEF SleepAgain
  <2>15. CASE SleepSleep(c, p)
    BY <2>15 DEF SleepSleep, EnterSched
  <2> QED
    BY <1>2, <2>1, <2>2, <2>3, <2>4, <2>5, <2>6, <2>7, <2>8, <2>9, <2>10, <2>11, <2>12, <2>13, <2>14, <2>15 DEF Kernel
<1>3. ASSUME NEW c \in CPUs, NEW p \in Slots, Switch(c, p) PROVE TypeOK'
  <2>1. CASE sched(c, p)
    BY <2>1 DEF sched
  <2>2. CASE Resume(c, p)
    BY <2>2 DEF Resume, Ret
  <2> QED
    BY <1>3, <2>1, <2>2 DEF Switch
<1>4. ASSUME NEW c \in CPUs, NEW p \in Slots, Timer(c, p) PROVE TypeOK'
  <2>1. CASE yield(c, p)
    BY <2>1 DEF yield, EnterSched, Trapped, Interruptible
  <2>2. CASE TrapExit(c, p)
    BY <2>2 DEF TrapExit, Trapped, Interruptible
  <2> QED
    BY <1>4, <2>1, <2>2 DEF Timer
<1>5. ASSUME NEW c \in CPUs, NEW p \in Slots, Run(c, p) PROVE TypeOK'
  BY <1>5 DEF Run
<1>6. ASSUME NEW c \in CPUs, SchedAcquire(c) PROVE TypeOK'
  BY <1>6 DEF SchedAcquire
<1>7. ASSUME NEW c \in CPUs, SchedRelease(c) PROVE TypeOK'
  BY <1>7 DEF SchedRelease
<1>8. CASE Tick
  <2>1. left' = [q \in Slots |-> IF left[q] > 0 THEN left[q] - 1 ELSE 0]
    BY <1>8 DEF Tick
  <2>2. left' \in [Slots -> Nat]
    <3>1. \A q \in Slots : left[q] \in Nat
      OBVIOUS
    <3> HIDE DEF TypeOK, IInv
    <3> QED
      BY <2>1, <3>1
  <2>3. tickslock' \in CPUs
    BY <1>8 DEF Tick
  <2> QED
    BY <1>8, <2>2, <2>3 DEF Tick
<1>9. CASE TickWakeup
  BY <1>9 DEF TickWakeup
<1>10. CASE TrapIdle
  BY <1>10 DEF TrapIdle
<1>11. CASE UNCHANGED vars
  BY <1>11 DEF vars
<1> QED
  BY <1>1, <1>2, <1>3, <1>4, <1>5, <1>6, <1>7, <1>8, <1>9, <1>10, <1>11 DEF Next

\* Every step leaves each CPU on a stack of its own, and the lock with the CPU
\* that is inside sched().
LEMMA OnCPUStep == IInv /\ [Next]_vars => OnCPU'
<1> SUFFICES ASSUME IInv, [Next]_vars PROVE OnCPU'
  OBVIOUS
<1> USE Constants DEF TypeOK, IInv, Goto, At, table, cpus, kern, Alive, ProcStates, Making, OnCPU
<1>1. ASSUME NEW c \in CPUs, NEW p \in Slots, Syscall(c, p) PROVE OnCPU'
  <2>1. CASE fork(c, p)
    BY <2>1 DEF fork
  <2>2. CASE exit(c, p)
    BY <2>2 DEF exit
  <2>3. CASE wait(c, p)
    BY <2>3 DEF wait
  <2>4. ASSUME NEW x \in KillPids, kill(c, p, x) PROVE OnCPU'
    BY <2>4 DEF kill
  <2>5. ASSUME NEW n \in SleepTimes, sys_sleep(c, p, n) PROVE OnCPU'
    BY <2>5 DEF sys_sleep
  <2> QED
    BY <1>1, <2>1, <2>2, <2>3, <2>4, <2>5 DEF Syscall
<1>2. ASSUME NEW c \in CPUs, NEW p \in Slots, Kernel(c, p) PROVE OnCPU'
  <2>1. CASE ForkStack(c, p)
    BY <2>1 DEF ForkStack, Forks, Lives
  <2>2. CASE ForkNoStack(c, p)
    BY <2>2 DEF ForkNoStack
  <2>3. CASE ForkCopy(c, p)
    BY <2>3 DEF ForkCopy
  <2>4. CASE ForkNoCopy(c, p)
    BY <2>4 DEF ForkNoCopy
  <2>5. CASE ForkUndo(c, p)
    BY <2>5 DEF ForkUndo, Ret, Forks, Lives
  <2>6. CASE ForkPublish(c, p)
    BY <2>6 DEF ForkPublish, Forks, Lives
  <2>7. CASE ForkName(c, p)
    BY <2>7 DEF ForkName, Ret
  <2>8. CASE ExitZombie(c, p)
    <3>1. CASE p = init
      <4>1. UNCHANGED <<state, pid, parent, onchan, kstack, lock, cpu, pc, kont, np, npid>>
        BY <2>8, <3>1, ExitInit
      <4> QED
        BY <4>1
    <3>2. CASE p # init
      BY <2>8, <3>2, ExitEffect
    <3> QED
      BY <3>1, <3>2
  <2>9. CASE WaitReap(c, p)
    BY <2>9 DEF WaitReap, InWait, Zombies, Ret
  <2>10. CASE WaitNone(c, p)
    BY <2>10 DEF WaitNone, InWait, Ret
  <2>11. CASE WaitSleep(c, p)
    BY <2>11 DEF WaitSleep, InWait, EnterSched
  <2>12. CASE SleepAcquire(c, p)
    BY <2>12 DEF SleepAcquire
  <2>13. CASE SleepReturn(c, p)
    BY <2>13 DEF SleepReturn, Ret
  <2>14. CASE SleepAgain(c, p)
    BY <2>14 DEF SleepAgain
  <2>15. CASE SleepSleep(c, p)
    BY <2>15 DEF SleepSleep, EnterSched
  <2> QED
    BY <1>2, <2>1, <2>2, <2>3, <2>4, <2>5, <2>6, <2>7, <2>8, <2>9, <2>10, <2>11, <2>12, <2>13, <2>14, <2>15 DEF Kernel
<1>3. ASSUME NEW c \in CPUs, NEW p \in Slots, Switch(c, p) PROVE OnCPU'
  <2>1. CASE sched(c, p)
    <3>1. lock = c
      BY <2>1, SchedHolds
    <3>2. cpu' = [cpu EXCEPT ![c] = NoProc]
      BY <2>1, <3>1 DEF sched
    <3> QED
      BY <2>1, <3>1, <3>2 DEF sched
  <2>2. CASE Resume(c, p)
    BY <2>2 DEF Resume, Ret
  <2> QED
    BY <1>3, <2>1, <2>2 DEF Switch
<1>4. ASSUME NEW c \in CPUs, NEW p \in Slots, Timer(c, p) PROVE OnCPU'
  <2>1. CASE yield(c, p)
    BY <2>1 DEF yield, EnterSched, Trapped, Interruptible
  <2>2. CASE TrapExit(c, p)
    BY <2>2 DEF TrapExit, Trapped, Interruptible
  <2> QED
    BY <1>4, <2>1, <2>2 DEF Timer
<1>5. ASSUME NEW c \in CPUs, NEW p \in Slots, Run(c, p) PROVE OnCPU'
  BY <1>5 DEF Run
<1>6. ASSUME NEW c \in CPUs, SchedAcquire(c) PROVE OnCPU'
  BY <1>6 DEF SchedAcquire
<1>7. ASSUME NEW c \in CPUs, SchedRelease(c) PROVE OnCPU'
  BY <1>7 DEF SchedRelease
<1>8. CASE Tick
  BY <1>8 DEF Tick, Interruptible
<1>9. CASE TickWakeup
  BY <1>9 DEF TickWakeup
<1>10. CASE TrapIdle
  BY <1>10 DEF TrapIdle
<1>11. CASE UNCHANGED vars
  BY <1>11 DEF vars
<1> QED
  BY <1>1, <1>2, <1>3, <1>4, <1>5, <1>6, <1>7, <1>8, <1>9, <1>10, <1>11 DEF Next

\* Every step keeps what is known of live processes, zombies and free slots.
LEMMA LivesStep == IInv /\ [Next]_vars => Lives'
<1> SUFFICES ASSUME IInv, [Next]_vars PROVE Lives'
  OBVIOUS
<1> USE Constants DEF TypeOK, IInv, Goto, At, table, cpus, kern, Alive, ProcStates, Making, Lives
<1>1. ASSUME NEW c \in CPUs, NEW p \in Slots, Syscall(c, p) PROVE Lives'
  <2>1. CASE fork(c, p)
    BY <2>1 DEF fork, OnCPU
  <2>2. CASE exit(c, p)
    BY <2>2 DEF exit
  <2>3. CASE wait(c, p)
    BY <2>3 DEF wait, OnCPU
  <2>4. ASSUME NEW x \in KillPids, kill(c, p, x) PROVE Lives'
    BY <2>4 DEF kill
  <2>5. ASSUME NEW n \in SleepTimes, sys_sleep(c, p, n) PROVE Lives'
    BY <2>5 DEF sys_sleep, OnCPU
  <2> QED
    BY <1>1, <2>1, <2>2, <2>3, <2>4, <2>5 DEF Syscall
<1>2. ASSUME NEW c \in CPUs, NEW p \in Slots, Kernel(c, p) PROVE Lives'
  <2>1. CASE ForkStack(c, p)
    BY <2>1 DEF ForkStack, Forks
  <2>2. CASE ForkNoStack(c, p)
    BY <2>2 DEF ForkNoStack
  <2>3. CASE ForkCopy(c, p)
    BY <2>3 DEF ForkCopy
  <2>4. CASE ForkNoCopy(c, p)
    BY <2>4 DEF ForkNoCopy, Forks
  <2>5. CASE ForkUndo(c, p)
    BY <2>5 DEF ForkUndo, Ret, Forks
  <2>6. CASE ForkPublish(c, p)
    BY <2>6 DEF ForkPublish, Forks
  <2>7. CASE ForkName(c, p)
    BY <2>7 DEF ForkName, Ret
  <2>8. CASE ExitZombie(c, p)
    <3>1. CASE p = init
      <4>1. UNCHANGED <<state, pid, parent, onchan, kstack, lock, cpu, pc, kont, np, npid>>
        BY <2>8, <3>1, ExitInit
      <4> QED
        BY <4>1
    <3>2. CASE p # init
      BY <2>8, <3>2, ExitEffect DEF OnCPU
    <3> QED
      BY <3>1, <3>2
  <2>9. CASE WaitReap(c, p)
    BY <2>9 DEF WaitReap, InWait, Zombies, Ret
  <2>10. CASE WaitNone(c, p)
    BY <2>10 DEF WaitNone, InWait, Ret
  <2>11. CASE WaitSleep(c, p)
    BY <2>11 DEF WaitSleep, InWait, EnterSched
  <2>12. CASE SleepAcquire(c, p)
    BY <2>12 DEF SleepAcquire
  <2>13. CASE SleepReturn(c, p)
    BY <2>13 DEF SleepReturn, Ret
  <2>14. CASE SleepAgain(c, p)
    BY <2>14 DEF SleepAgain
  <2>15. CASE SleepSleep(c, p)
    BY <2>15 DEF SleepSleep, EnterSched
  <2> QED
    BY <1>2, <2>1, <2>2, <2>3, <2>4, <2>5, <2>6, <2>7, <2>8, <2>9, <2>10, <2>11, <2>12, <2>13, <2>14, <2>15 DEF Kernel
<1>3. ASSUME NEW c \in CPUs, NEW p \in Slots, Switch(c, p) PROVE Lives'
  <2>1. CASE sched(c, p)
    BY <2>1 DEF sched
  <2>2. CASE Resume(c, p)
    BY <2>2, ResumeEffect
  <2> QED
    BY <1>3, <2>1, <2>2 DEF Switch
<1>4. ASSUME NEW c \in CPUs, NEW p \in Slots, Timer(c, p) PROVE Lives'
  <2>1. CASE yield(c, p)
    BY <2>1 DEF yield, EnterSched, Trapped, Interruptible, OnCPU
  <2>2. CASE TrapExit(c, p)
    BY <2>2 DEF TrapExit, Trapped, Interruptible
  <2> QED
    BY <1>4, <2>1, <2>2 DEF Timer
<1>5. ASSUME NEW c \in CPUs, NEW p \in Slots, Run(c, p) PROVE Lives'
  BY <1>5 DEF Run
<1>6. ASSUME NEW c \in CPUs, SchedAcquire(c) PROVE Lives'
  BY <1>6 DEF SchedAcquire
<1>7. ASSUME NEW c \in CPUs, SchedRelease(c) PROVE Lives'
  BY <1>7 DEF SchedRelease
<1>8. CASE Tick
  BY <1>8 DEF Tick, Interruptible
<1>9. CASE TickWakeup
  BY <1>9 DEF TickWakeup
<1>10. CASE TrapIdle
  BY <1>10 DEF TrapIdle
<1>11. CASE UNCHANGED vars
  BY <1>11 DEF vars
<1> QED
  BY <1>1, <1>2, <1>3, <1>4, <1>5, <1>6, <1>7, <1>8, <1>9, <1>10, <1>11 DEF Next

\* Every step leaves a fork() its EMBRYO.
LEMMA ForksStep == IInv /\ [Next]_vars => Forks'
<1> SUFFICES ASSUME IInv, [Next]_vars PROVE Forks'
  OBVIOUS
<1> USE Constants DEF TypeOK, IInv, Goto, At, table, cpus, kern, Alive, ProcStates, Making, Forks
<1>1. ASSUME NEW c \in CPUs, NEW p \in Slots, Syscall(c, p) PROVE Forks'
  <2>1. CASE fork(c, p)
    BY <2>1 DEF fork, OnCPU, Lives, Family
  <2>2. CASE exit(c, p)
    BY <2>2 DEF exit
  <2>3. CASE wait(c, p)
    BY <2>3 DEF wait
  <2>4. ASSUME NEW x \in KillPids, kill(c, p, x) PROVE Forks'
    BY <2>4 DEF kill
  <2>5. ASSUME NEW n \in SleepTimes, sys_sleep(c, p, n) PROVE Forks'
    BY <2>5 DEF sys_sleep
  <2> QED
    BY <1>1, <2>1, <2>2, <2>3, <2>4, <2>5 DEF Syscall
<1>2. ASSUME NEW c \in CPUs, NEW p \in Slots, Kernel(c, p) PROVE Forks'
  <2>1. CASE ForkStack(c, p)
    BY <2>1 DEF ForkStack, Lives
  <2>2. CASE ForkNoStack(c, p)
    BY <2>2 DEF ForkNoStack
  <2>3. CASE ForkCopy(c, p)
    BY <2>3 DEF ForkCopy, Lives
  <2>4. CASE ForkNoCopy(c, p)
    BY <2>4 DEF ForkNoCopy
  <2>5. CASE ForkUndo(c, p)
    BY <2>5 DEF ForkUndo, Ret
  <2>6. CASE ForkPublish(c, p)
    BY <2>6 DEF ForkPublish
  <2>7. CASE ForkName(c, p)
    BY <2>7 DEF ForkName, Ret
  <2>8. CASE ExitZombie(c, p)
    <3>1. CASE p = init
      <4>1. UNCHANGED <<state, pid, parent, onchan, kstack, lock, cpu, pc, kont, np, npid>>
        BY <2>8, <3>1, ExitInit
      <4> QED
        BY <4>1
    <3>2. CASE p # init
      BY <2>8, <3>2, ExitEffect DEF Lives, OnCPU
    <3> QED
      BY <3>1, <3>2
  <2>9. CASE WaitReap(c, p)
    BY <2>9 DEF WaitReap, InWait, Zombies, Ret
  <2>10. CASE WaitNone(c, p)
    BY <2>10 DEF WaitNone, InWait, Ret
  <2>11. CASE WaitSleep(c, p)
    BY <2>11 DEF WaitSleep, InWait, EnterSched, OnCPU
  <2>12. CASE SleepAcquire(c, p)
    BY <2>12 DEF SleepAcquire
  <2>13. CASE SleepReturn(c, p)
    BY <2>13 DEF SleepReturn, Ret
  <2>14. CASE SleepAgain(c, p)
    BY <2>14 DEF SleepAgain
  <2>15. CASE SleepSleep(c, p)
    BY <2>15 DEF SleepSleep, EnterSched, OnCPU
  <2> QED
    BY <1>2, <2>1, <2>2, <2>3, <2>4, <2>5, <2>6, <2>7, <2>8, <2>9, <2>10, <2>11, <2>12, <2>13, <2>14, <2>15 DEF Kernel
<1>3. ASSUME NEW c \in CPUs, NEW p \in Slots, Switch(c, p) PROVE Forks'
  <2>1. CASE sched(c, p)
    BY <2>1 DEF sched
  <2>2. CASE Resume(c, p)
    BY <2>2, ResumeEffect DEF Lives
  <2> QED
    BY <1>3, <2>1, <2>2 DEF Switch
<1>4. ASSUME NEW c \in CPUs, NEW p \in Slots, Timer(c, p) PROVE Forks'
  <2>1. CASE yield(c, p)
    BY <2>1 DEF yield, EnterSched, Trapped, Interruptible, OnCPU
  <2>2. CASE TrapExit(c, p)
    BY <2>2 DEF TrapExit, Trapped, Interruptible
  <2> QED
    BY <1>4, <2>1, <2>2 DEF Timer
<1>5. ASSUME NEW c \in CPUs, NEW p \in Slots, Run(c, p) PROVE Forks'
  BY <1>5 DEF Run
<1>6. ASSUME NEW c \in CPUs, SchedAcquire(c) PROVE Forks'
  BY <1>6 DEF SchedAcquire
<1>7. ASSUME NEW c \in CPUs, SchedRelease(c) PROVE Forks'
  BY <1>7 DEF SchedRelease
<1>8. CASE Tick
  BY <1>8 DEF Tick, Interruptible
<1>9. CASE TickWakeup
  BY <1>9 DEF TickWakeup, Lives
<1>10. CASE TrapIdle
  BY <1>10 DEF TrapIdle
<1>11. CASE UNCHANGED vars
  BY <1>11 DEF vars
<1> QED
  BY <1>1, <1>2, <1>3, <1>4, <1>5, <1>6, <1>7, <1>8, <1>9, <1>10, <1>11 DEF Next

\* Every step keeps init alive and the parents right.
LEMMA FamilyStep == IInv /\ [Next]_vars => Family'
<1> SUFFICES ASSUME IInv, [Next]_vars PROVE Family'
  OBVIOUS
<1> USE Constants DEF TypeOK, IInv, Goto, At, table, cpus, kern, Alive, ProcStates, Making, Family
<1>1. ASSUME NEW c \in CPUs, NEW p \in Slots, Syscall(c, p) PROVE Family'
  <2>1. CASE fork(c, p)
    BY <2>1 DEF fork
  <2>2. CASE exit(c, p)
    BY <2>2 DEF exit
  <2>3. CASE wait(c, p)
    BY <2>3 DEF wait
  <2>4. ASSUME NEW x \in KillPids, kill(c, p, x) PROVE Family'
    BY <2>4 DEF kill
  <2>5. ASSUME NEW n \in SleepTimes, sys_sleep(c, p, n) PROVE Family'
    BY <2>5 DEF sys_sleep
  <2> QED
    BY <1>1, <2>1, <2>2, <2>3, <2>4, <2>5 DEF Syscall
<1>2. ASSUME NEW c \in CPUs, NEW p \in Slots, Kernel(c, p) PROVE Family'
  <2>1. CASE ForkStack(c, p)
    BY <2>1 DEF ForkStack
  <2>2. CASE ForkNoStack(c, p)
    BY <2>2 DEF ForkNoStack
  <2>3. CASE ForkCopy(c, p)
    BY <2>3 DEF ForkCopy, Forks
  <2>4. CASE ForkNoCopy(c, p)
    BY <2>4 DEF ForkNoCopy
  <2>5. CASE ForkUndo(c, p)
    BY <2>5 DEF ForkUndo, Ret, Forks
  <2>6. CASE ForkPublish(c, p)
    BY <2>6 DEF ForkPublish
  <2>7. CASE ForkName(c, p)
    BY <2>7 DEF ForkName, Ret
  <2>8. CASE ExitZombie(c, p)
    <3>1. CASE p = init
      <4>1. UNCHANGED <<state, pid, parent, onchan, kstack, lock, cpu, pc, kont, np, npid>>
        BY <2>8, <3>1, ExitInit
      <4> QED
        BY <4>1
    <3>2. CASE p # init
      BY <2>8, <3>2, ExitEffect DEF OnCPU
    <3> QED
      BY <3>1, <3>2
  <2>9. CASE WaitReap(c, p)
    BY <2>9 DEF WaitReap, InWait, Zombies, Ret
  <2>10. CASE WaitNone(c, p)
    BY <2>10 DEF WaitNone, InWait, Ret
  <2>11. CASE WaitSleep(c, p)
    BY <2>11 DEF WaitSleep, InWait, EnterSched
  <2>12. CASE SleepAcquire(c, p)
    BY <2>12 DEF SleepAcquire
  <2>13. CASE SleepReturn(c, p)
    BY <2>13 DEF SleepReturn, Ret
  <2>14. CASE SleepAgain(c, p)
    BY <2>14 DEF SleepAgain
  <2>15. CASE SleepSleep(c, p)
    BY <2>15 DEF SleepSleep, EnterSched
  <2> QED
    BY <1>2, <2>1, <2>2, <2>3, <2>4, <2>5, <2>6, <2>7, <2>8, <2>9, <2>10, <2>11, <2>12, <2>13, <2>14, <2>15 DEF Kernel
<1>3. ASSUME NEW c \in CPUs, NEW p \in Slots, Switch(c, p) PROVE Family'
  <2>1. CASE sched(c, p)
    BY <2>1 DEF sched
  <2>2. CASE Resume(c, p)
    BY <2>2 DEF Resume, Ret
  <2> QED
    BY <1>3, <2>1, <2>2 DEF Switch
<1>4. ASSUME NEW c \in CPUs, NEW p \in Slots, Timer(c, p) PROVE Family'
  <2>1. CASE yield(c, p)
    BY <2>1 DEF yield, EnterSched, Trapped, Interruptible
  <2>2. CASE TrapExit(c, p)
    BY <2>2 DEF TrapExit, Trapped, Interruptible
  <2> QED
    BY <1>4, <2>1, <2>2 DEF Timer
<1>5. ASSUME NEW c \in CPUs, NEW p \in Slots, Run(c, p) PROVE Family'
  BY <1>5 DEF Run
<1>6. ASSUME NEW c \in CPUs, SchedAcquire(c) PROVE Family'
  BY <1>6 DEF SchedAcquire
<1>7. ASSUME NEW c \in CPUs, SchedRelease(c) PROVE Family'
  BY <1>7 DEF SchedRelease
<1>8. CASE Tick
  BY <1>8 DEF Tick, Interruptible
<1>9. CASE TickWakeup
  BY <1>9 DEF TickWakeup
<1>10. CASE TrapIdle
  BY <1>10 DEF TrapIdle
<1>11. CASE UNCHANGED vars
  BY <1>11 DEF vars
<1> QED
  BY <1>1, <1>2, <1>3, <1>4, <1>5, <1>6, <1>7, <1>8, <1>9, <1>10, <1>11 DEF Next

\* Nobody reaps the child of a fork() that has not returned.
LEMMA NamedStep == IInv /\ [Next]_vars => Named'
<1> SUFFICES ASSUME IInv, [Next]_vars PROVE Named'
  OBVIOUS
<1> USE Constants DEF TypeOK, IInv, Goto, At, table, cpus, kern, Alive, ProcStates, Making, Named
<1>1. ASSUME NEW c \in CPUs, NEW p \in Slots, Syscall(c, p) PROVE Named'
  <2>1. CASE fork(c, p)
    BY <2>1 DEF fork
  <2>2. CASE exit(c, p)
    BY <2>2 DEF exit
  <2>3. CASE wait(c, p)
    BY <2>3 DEF wait
  <2>4. ASSUME NEW x \in KillPids, kill(c, p, x) PROVE Named'
    BY <2>4 DEF kill
  <2>5. ASSUME NEW n \in SleepTimes, sys_sleep(c, p, n) PROVE Named'
    BY <2>5 DEF sys_sleep
  <2> QED
    BY <1>1, <2>1, <2>2, <2>3, <2>4, <2>5 DEF Syscall
<1>2. ASSUME NEW c \in CPUs, NEW p \in Slots, Kernel(c, p) PROVE Named'
  <2>1. CASE ForkStack(c, p)
    BY <2>1 DEF ForkStack
  <2>2. CASE ForkNoStack(c, p)
    BY <2>2 DEF ForkNoStack
  <2>3. CASE ForkCopy(c, p)
    BY <2>3 DEF ForkCopy, Forks
  <2>4. CASE ForkNoCopy(c, p)
    BY <2>4 DEF ForkNoCopy
  <2>5. CASE ForkUndo(c, p)
    BY <2>5 DEF ForkUndo, Ret, Forks
  <2>6. CASE ForkPublish(c, p)
    BY <2>6 DEF ForkPublish, OnCPU, Lives, Forks
  <2>7. CASE ForkName(c, p)
    BY <2>7 DEF ForkName, Ret
  <2>8. CASE ExitZombie(c, p)
    <3>1. CASE p = init
      <4>1. UNCHANGED <<state, pid, parent, onchan, kstack, lock, cpu, pc, kont, np, npid>>
        BY <2>8, <3>1, ExitInit
      <4> QED
        BY <4>1
    <3>2. CASE p # init
      BY <2>8, <3>2, ExitEffect DEF Lives, OnCPU
    <3> QED
      BY <3>1, <3>2
  <2>9. CASE WaitReap(c, p)
    BY <2>9 DEF WaitReap, InWait, Zombies, Ret
  <2>10. CASE WaitNone(c, p)
    BY <2>10 DEF WaitNone, InWait, Ret
  <2>11. CASE WaitSleep(c, p)
    BY <2>11 DEF WaitSleep, InWait, EnterSched
  <2>12. CASE SleepAcquire(c, p)
    BY <2>12 DEF SleepAcquire
  <2>13. CASE SleepReturn(c, p)
    BY <2>13 DEF SleepReturn, Ret
  <2>14. CASE SleepAgain(c, p)
    BY <2>14 DEF SleepAgain
  <2>15. CASE SleepSleep(c, p)
    BY <2>15 DEF SleepSleep, EnterSched
  <2> QED
    BY <1>2, <2>1, <2>2, <2>3, <2>4, <2>5, <2>6, <2>7, <2>8, <2>9, <2>10, <2>11, <2>12, <2>13, <2>14, <2>15 DEF Kernel
<1>3. ASSUME NEW c \in CPUs, NEW p \in Slots, Switch(c, p) PROVE Named'
  <2>1. CASE sched(c, p)
    BY <2>1 DEF sched
  <2>2. CASE Resume(c, p)
    BY <2>2, ZenonT(30) DEF Resume, Ret
  <2> QED
    BY <1>3, <2>1, <2>2 DEF Switch
<1>4. ASSUME NEW c \in CPUs, NEW p \in Slots, Timer(c, p) PROVE Named'
  <2>1. CASE yield(c, p)
    BY <2>1 DEF yield, EnterSched, Trapped, Interruptible
  <2>2. CASE TrapExit(c, p)
    BY <2>2 DEF TrapExit, Trapped, Interruptible
  <2> QED
    BY <1>4, <2>1, <2>2 DEF Timer
<1>5. ASSUME NEW c \in CPUs, NEW p \in Slots, Run(c, p) PROVE Named'
  BY <1>5 DEF Run
<1>6. ASSUME NEW c \in CPUs, SchedAcquire(c) PROVE Named'
  BY <1>6 DEF SchedAcquire
<1>7. ASSUME NEW c \in CPUs, SchedRelease(c) PROVE Named'
  BY <1>7 DEF SchedRelease
<1>8. CASE Tick
  BY <1>8 DEF Tick, Interruptible
<1>9. CASE TickWakeup
  BY <1>9 DEF TickWakeup, Lives
<1>10. CASE TrapIdle
  BY <1>10 DEF TrapIdle
<1>11. CASE UNCHANGED vars
  BY <1>11 DEF vars
<1> QED
  BY <1>1, <1>2, <1>3, <1>4, <1>5, <1>6, <1>7, <1>8, <1>9, <1>10, <1>11 DEF Next

\* No step puts a parent to sleep, or leaves it asleep, beside a zombie child.
LEMMA MissedStep == IInv /\ [Next]_vars => NoMissedExit'
<1> SUFFICES ASSUME IInv, [Next]_vars PROVE NoMissedExit'
  OBVIOUS
<1> USE Constants DEF TypeOK, IInv, Goto, At, table, cpus, kern, Alive, ProcStates, Making, NoMissedExit, Zombies
<1>1. ASSUME NEW c \in CPUs, NEW p \in Slots, Syscall(c, p) PROVE NoMissedExit'
  <2>1. CASE fork(c, p)
    BY <2>1 DEF fork
  <2>2. CASE exit(c, p)
    BY <2>2 DEF exit
  <2>3. CASE wait(c, p)
    BY <2>3 DEF wait
  <2>4. ASSUME NEW x \in KillPids, kill(c, p, x) PROVE NoMissedExit'
    BY <2>4 DEF kill
  <2>5. ASSUME NEW n \in SleepTimes, sys_sleep(c, p, n) PROVE NoMissedExit'
    BY <2>5 DEF sys_sleep
  <2> QED
    BY <1>1, <2>1, <2>2, <2>3, <2>4, <2>5 DEF Syscall
<1>2. ASSUME NEW c \in CPUs, NEW p \in Slots, Kernel(c, p) PROVE NoMissedExit'
  <2>1. CASE ForkStack(c, p)
    BY <2>1 DEF ForkStack
  <2>2. CASE ForkNoStack(c, p)
    BY <2>2 DEF ForkNoStack
  <2>3. CASE ForkCopy(c, p)
    BY <2>3 DEF ForkCopy, Forks
  <2>4. CASE ForkNoCopy(c, p)
    BY <2>4 DEF ForkNoCopy
  <2>5. CASE ForkUndo(c, p)
    BY <2>5 DEF ForkUndo, Ret, Forks
  <2>6. CASE ForkPublish(c, p)
    BY <2>6 DEF ForkPublish
  <2>7. CASE ForkName(c, p)
    BY <2>7 DEF ForkName, Ret
  <2>8. CASE ExitZombie(c, p)
    <3>1. CASE p = init
      <4>1. UNCHANGED <<state, pid, parent, onchan, kstack, lock, cpu, pc, kont, np, npid>>
        BY <2>8, <3>1, ExitInit
      <4> QED
        BY <4>1
    <3>2. CASE p # init
      BY <2>8, <3>2, ExitKeepsWaiters
    <3> QED
      BY <3>1, <3>2
  <2>9. CASE WaitReap(c, p)
    BY <2>9 DEF WaitReap, InWait, Zombies, Ret
  <2>10. CASE WaitNone(c, p)
    BY <2>10 DEF WaitNone, InWait, Ret
  <2>11. CASE WaitSleep(c, p)
    BY <2>11 DEF WaitSleep, InWait, EnterSched, Family
  <2>12. CASE SleepAcquire(c, p)
    BY <2>12 DEF SleepAcquire
  <2>13. CASE SleepReturn(c, p)
    BY <2>13 DEF SleepReturn, Ret
  <2>14. CASE SleepAgain(c, p)
    BY <2>14 DEF SleepAgain
  <2>15. CASE SleepSleep(c, p)
    BY <2>15 DEF SleepSleep, EnterSched, Ticks
  <2> QED
    BY <1>2, <2>1, <2>2, <2>3, <2>4, <2>5, <2>6, <2>7, <2>8, <2>9, <2>10, <2>11, <2>12, <2>13, <2>14, <2>15 DEF Kernel
<1>3. ASSUME NEW c \in CPUs, NEW p \in Slots, Switch(c, p) PROVE NoMissedExit'
  <2>1. CASE sched(c, p)
    <3>1. UNCHANGED <<state, parent, onchan>>
      BY <2>1 DEF sched
    <3> QED
      BY <3>1
  <2>2. CASE Resume(c, p)
    <3>1. UNCHANGED <<state, parent>> /\ state[p] = "RUNNING"
      BY <2>2 DEF Resume
    <3>2. \A q \in Slots \ {p} : onchan'[q] = onchan[q]
      BY <2>2 DEF Resume
    <3> QED
      BY <3>1, <3>2
  <2> QED
    BY <1>3, <2>1, <2>2 DEF Switch
<1>4. ASSUME NEW c \in CPUs, NEW p \in Slots, Timer(c, p) PROVE NoMissedExit'
  <2>1. CASE yield(c, p)
    BY <2>1 DEF yield, EnterSched, Trapped, Interruptible
  <2>2. CASE TrapExit(c, p)
    BY <2>2 DEF TrapExit, Trapped, Interruptible
  <2> QED
    BY <1>4, <2>1, <2>2 DEF Timer
<1>5. ASSUME NEW c \in CPUs, NEW p \in Slots, Run(c, p) PROVE NoMissedExit'
  BY <1>5 DEF Run
<1>6. ASSUME NEW c \in CPUs, SchedAcquire(c) PROVE NoMissedExit'
  BY <1>6 DEF SchedAcquire
<1>7. ASSUME NEW c \in CPUs, SchedRelease(c) PROVE NoMissedExit'
  BY <1>7 DEF SchedRelease
<1>8. CASE Tick
  BY <1>8 DEF Tick, Interruptible
<1>9. CASE TickWakeup
  BY <1>9 DEF TickWakeup
<1>10. CASE TrapIdle
  BY <1>10 DEF TrapIdle
<1>11. CASE UNCHANGED vars
  BY <1>11 DEF vars
<1> QED
  BY <1>1, <1>2, <1>3, <1>4, <1>5, <1>6, <1>7, <1>8, <1>9, <1>10, <1>11 DEF Next

\* A zombie does not come back and sched() finds its lock: init alone panics.
LEMMA PanicStep == IInv /\ [Next]_vars => PanicOK'
<1> SUFFICES ASSUME IInv, [Next]_vars PROVE PanicOK'
  OBVIOUS
<1> USE Constants DEF IInv, PanicOK
<1>1. ASSUME NEW c \in CPUs, NEW p \in Slots, sched(c, p) PROVE PanicOK'
  BY <1>1, SchedHolds DEF sched
<1>2. ASSUME NEW c \in CPUs, NEW p \in Slots, Resume(c, p) PROVE PanicOK'
  BY <1>2 DEF Resume, Lives, Alive
<1>3. ASSUME NEW c \in CPUs, NEW p \in Slots, ExitZombie(c, p) PROVE PanicOK'
  BY <1>3 DEF ExitZombie
<1>4. ASSUME NEW c \in CPUs, NEW p \in Slots, Kernel(c, p), ~ExitZombie(c, p)
      PROVE  UNCHANGED panicked
  BY <1>4 DEF Kernel, ForkStack, ForkNoStack, ForkCopy, ForkNoCopy, ForkUndo, ForkPublish,
     ForkName, WaitReap, WaitNone, WaitSleep, SleepAcquire, SleepReturn, SleepAgain, SleepSleep
<1>5. ASSUME NEW c \in CPUs, NEW p \in Slots, Syscall(c, p) \/ Timer(c, p) \/ Run(c, p)
      PROVE  UNCHANGED panicked
  BY <1>5 DEF Syscall, fork, exit, wait, kill, sys_sleep, Timer, yield, TrapExit, Run
<1>6. ASSUME NEW c \in CPUs, SchedAcquire(c) \/ SchedRelease(c) PROVE UNCHANGED panicked
  BY <1>6 DEF SchedAcquire, SchedRelease
<1>7. ASSUME Tick \/ TickWakeup \/ TrapIdle \/ UNCHANGED vars PROVE UNCHANGED panicked
  BY <1>7 DEF Tick, TickWakeup, TrapIdle, vars
<1> QED
  BY <1>1, <1>2, <1>3, <1>4, <1>5, <1>6, <1>7 DEF Next, Switch

\* The invariant holds of the state userinit leaves.
LEMMA InitIInv == Init => IInv
<1> SUFFICES ASSUME Init PROVE IInv
  OBVIOUS
<1> USE Constants DEF Init
<1>1. TypeOK
  BY DEF TypeOK, ProcStates, Making, Places, Callers, Panics, NoChan, Ticks
<1>2. OnCPU /\ Lives /\ Forks /\ Named
  BY DEF OnCPU, Lives, Forks, Named, Making, Alive
<1>3. Family /\ PanicOK
  BY DEF Family, PanicOK, Alive
<1>4. NoMissedExit
  BY DEF NoMissedExit
<1> QED
  BY <1>1, <1>2, <1>3, <1>4 DEF IInv

\* The invariant is inductive.
LEMMA NextIInv == IInv /\ [Next]_vars => IInv'
BY TypeStep, OnCPUStep, LivesStep, ForksStep, FamilyStep, NamedStep, MissedStep, PanicStep DEF IInv

\* The invariant holds in every reachable state.
LEMMA IInvHolds == Spec => []IInv
BY InitIInv, NextIInv, PTL DEF Spec

----------------------------------------------------------------------------
\* The process table, the CPUs and the kernel's places keep their types.
THEOREM TypeCorrect == Spec => []TypeOK
BY IInvHolds, PTL DEF IInv

\* swtch() across a held ptable.lock: on any number of CPUs, none of them is
\* ever on the stack of a freed slot or on a stack another one is on, and
\* sched() finds neither its lock nor the state of its process wrong.
THEOREM OwnStackCorrect == Spec => []OwnStack
<1>1. IInv => OwnStack
  <2> SUFFICES ASSUME IInv PROVE OwnStack
    OBVIOUS
  <2> USE Constants DEF IInv
  <2>1. ASSUME NEW c \in CPUs, cpu[c] # NoProc
        PROVE  /\ kstack[cpu[c]]
               /\ state[cpu[c]] = "RUNNING" \/ lock = c
               /\ \A d \in CPUs \ {c} : cpu[d] # cpu[c]
    <3>1. cpu[c] \in Slots
      BY <2>1 DEF TypeOK
    <3> QED
      BY <2>1, <3>1 DEF OnCPU, Lives
  <2> QED
    BY <2>1 DEF OwnStack, PanicOK
<1> QED
  BY <1>1, IInvHolds, PTL

\* fork() works on its child without the lock, before and after it makes it
\* RUNNABLE; the slot stays that child's all the time.
THEOREM ForkOwnsChildCorrect == Spec => []ForkOwnsChild
<1>1. IInv => ForkOwnsChild
  BY DEF IInv, ForkOwnsChild, Forks, Named, Making
<1> QED
  BY <1>1, IInvHolds, PTL

\* wait() tests for zombies and sleeps under ptable.lock, and exit() becomes a
\* zombie and wakes under it: no parent, and not init either, sleeps on beside
\* a child that has exited.
THEOREM NoMissedExitCorrect == Spec => []NoMissedExit
<1>1. IInv => NoMissedExit
  BY DEF IInv
<1> QED
  BY <1>1, IInvHolds, PTL
=============================================================================
