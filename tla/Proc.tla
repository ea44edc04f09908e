-------------------------------- MODULE Proc --------------------------------
(***************************************************************************)
(* xv6/kernel/proc.c with the parts of trap.c and sysproc.c that drive it: *)
(* the process table, several CPUs with their schedulers, fork, exit,      *)
(* wait, kill, yield, sleep and wakeup (through sys_sleep and the timer).  *)
(*                                                                         *)
(* A critical section under ptable.lock is one step, but the lock itself   *)
(* is a variable: a process that calls sched() keeps it across swtch(),    *)
(* the scheduler of that CPU goes on with it, and whoever is switched to   *)
(* next releases it.  What the code does without the lock (the steps of    *)
(* fork, and the tests of proc->killed) are steps of their own.            *)
(*                                                                         *)
(* pc[p] is the place in the kernel where p goes on; kont[p] names the     *)
(* caller of sched() while p is inside it, before or after the switch.     *)
(* A timer interrupt may come wherever the CPU holds no lock (pushcli).    *)
(*                                                                         *)
(* X_Fault, before X, is X with one plausible mistake; no specification    *)
(* uses it.                                                                *)
(***************************************************************************)
EXTENDS Integers

CONSTANTS
  NPROC,      \* slots of the process table (64)
  NCPU,       \* CPUs
  MaxPid,     \* bound: the last pid fork() hands out
  KillPids,   \* the arguments of kill()
  SleepTimes, \* the arguments of sleep()
  MemFails    \* kalloc() may return 0

Slots == 0 .. (NPROC - 1)
CPUs  == 0 .. (NCPU - 1)
init  == 0            \* initproc
NoProc == -1          \* a null pointer to a process
NoCPU  == -1
NoChan == "0"
Ticks  == "ticks"     \* &ticks; the channel of wait() is the caller's slot

ASSUME ProcAssumption ==
  /\ NPROC \in Nat \ {0} /\ NCPU \in Nat \ {0} /\ MaxPid \in Nat
  /\ KillPids \subseteq Nat /\ SleepTimes \subseteq Nat
  /\ MemFails \in BOOLEAN

VARIABLES
  state, pid, parent, killed,  \* struct proc
  onchan,      \* proc->chan: "0", "ticks" or "proc" (the sleeper itself)
  kstack,      \* the slot has a kernel stack
  nextpid,
  lock,        \* ptable.lock: the CPU that holds it, or NoCPU
  tickslock,   \* the same for tickslock
  cpu,         \* the process each CPU runs, NoProc in its scheduler
  intr,        \* CPU 0's timer interrupt: "none", "tick", "trap"
  pc, kont,
  np,          \* the child a fork() is making
  npid,        \* its pid, as fork() will return it
  left,        \* ticks the sleep() of a process has still to wait
  panicked     \* "none", or what panic() was called with

table == <<state, pid, parent, killed, onchan, kstack, nextpid>>
cpus  == <<lock, tickslock, cpu, intr>>
kern  == <<pc, kont, np, npid, left>>
vars  == <<table, cpus, kern, panicked>>

\* CPU c runs p, outside sched() and outside an interrupt, at l.
At(c, p, l) ==
  /\ panicked = "none" /\ cpu[c] = p /\ kont[p] = "-" /\ pc[p] = l
  /\ c = 0 => intr = "none"

Goto(p, l) == pc' = [pc EXCEPT ![p] = l]

\* trap() on the way back to user space.
Ret(p) == IF killed[p] THEN "exit" ELSE "user"

\* sched() called by p: the lock stays with the CPU.
EnterSched(c, p, who) == lock' = c /\ kont' = [kont EXCEPT ![p] = who]

----------------------------------------------------------------------------
(* fork and allocproc                                                      *)

fork_Runnable(c, p) ==
  /\ At(c, p, "user") /\ ~killed[p] /\ lock = NoCPU /\ nextpid <= MaxPid
  /\ \E q \in Slots :
       /\ state[q] = "UNUSED" /\ \A r \in Slots : r < q => state[r] # "UNUSED"
       /\ state' = [state EXCEPT ![q] = "RUNNABLE"]
       /\ pid' = [pid EXCEPT ![q] = nextpid]
       /\ np' = [np EXCEPT ![p] = q]
  /\ nextpid' = nextpid + 1
  /\ Goto(p, "f_kalloc")
  /\ UNCHANGED <<parent, killed, onchan, kstack, cpus, kont, npid, left, panicked>>

\* fork() up to the end of allocproc's critical section: the first UNUSED
\* slot.  With no such slot fork() fails and nothing changes.
fork(c, p) ==
  /\ At(c, p, "user") /\ ~killed[p] /\ lock = NoCPU /\ nextpid <= MaxPid
  /\ \E q \in Slots :
       /\ state[q] = "UNUSED" /\ \A r \in Slots : r < q => state[r] # "UNUSED"
       /\ state' = [state EXCEPT ![q] = "EMBRYO"]
       /\ pid' = [pid EXCEPT ![q] = nextpid]
       /\ np' = [np EXCEPT ![p] = q]
  /\ nextpid' = nextpid + 1
  /\ Goto(p, "f_kalloc")
  /\ UNCHANGED <<parent, killed, onchan, kstack, cpus, kont, npid, left, panicked>>

\* allocproc: the kernel stack, with a context that starts at forkret.
ForkStack(c, p) ==
  /\ At(c, p, "f_kalloc")
  /\ kstack' = [kstack EXCEPT ![np[p]] = TRUE]
  /\ kont' = [kont EXCEPT ![np[p]] = "forkret"]
  /\ pc' = [pc EXCEPT ![np[p]] = "user", ![p] = "f_copy"]
  /\ UNCHANGED <<state, pid, parent, killed, onchan, nextpid, cpus, np, npid, left, panicked>>

\* kalloc() returned 0.
ForkNoStack(c, p) ==
  /\ MemFails /\ At(c, p, "f_kalloc")
  /\ Goto(p, "f_unused")
  /\ UNCHANGED <<table, cpus, kont, np, npid, left, panicked>>

\* copyuvm(), and the child gets its parent.
ForkCopy(c, p) ==
  /\ At(c, p, "f_copy")
  /\ parent' = [parent EXCEPT ![np[p]] = p]
  /\ Goto(p, "f_publish")
  /\ UNCHANGED <<state, pid, killed, onchan, kstack, nextpid, cpus, kont, np, npid, left, panicked>>

\* copyuvm() failed: the stack is given back.
ForkNoCopy(c, p) ==
  /\ MemFails /\ At(c, p, "f_copy")
  /\ kstack' = [kstack EXCEPT ![np[p]] = FALSE]
  /\ Goto(p, "f_unused")
  /\ UNCHANGED <<state, pid, parent, killed, onchan, nextpid, cpus, kont, np, npid, left, panicked>>

\* The slot is given back, without the lock, and fork() fails.
ForkUndo(c, p) ==
  /\ At(c, p, "f_unused")
  /\ state' = [state EXCEPT ![np[p]] = "UNUSED"]
  /\ np' = [np EXCEPT ![p] = NoProc]
  /\ Goto(p, Ret(p))
  /\ UNCHANGED <<pid, parent, killed, onchan, kstack, nextpid, cpus, kont, npid, left, panicked>>

\* The child becomes RUNNABLE, without the lock.
ForkPublish(c, p) ==
  /\ At(c, p, "f_publish")
  /\ npid' = [npid EXCEPT ![p] = pid[np[p]]]
  /\ state' = [state EXCEPT ![np[p]] = "RUNNABLE"]
  /\ Goto(p, "f_name")
  /\ UNCHANGED <<pid, parent, killed, onchan, kstack, nextpid, cpus, kont, np, left, panicked>>

\* safestrcpy(np->name, ...) comes after that; fork() returns the pid.
ForkName(c, p) ==
  /\ At(c, p, "f_name")
  /\ np' = [np EXCEPT ![p] = NoProc] /\ npid' = [npid EXCEPT ![p] = 0]
  /\ Goto(p, Ret(p))
  /\ UNCHANGED <<table, cpus, kont, left, panicked>>

----------------------------------------------------------------------------
(* sleep, wakeup, kill                                                     *)

\* The states after wakeup1() on a set of channels: Ticks, or a slot for the
\* channel on which that process waits for its children.
ChanOf(q) == IF onchan[q] = "proc" THEN q ELSE NoProc
Woken(S) ==
  [q \in Slots |-> IF state[q] = "SLEEPING" /\ ChanOf(q) \in S THEN "RUNNABLE" ELSE state[q]]

kill_Asleep(c, p, x) ==
  /\ At(c, p, "user") /\ ~killed[p] /\ lock = NoCPU
  /\ \E q \in Slots :
       /\ pid[q] = x /\ \A r \in Slots : r < q => pid[r] # x
       /\ killed' = [killed EXCEPT ![q] = TRUE]
       /\ Goto(p, IF q = p THEN "exit" ELSE "user")
  /\ UNCHANGED <<state, pid, parent, onchan, kstack, nextpid, cpus, kont, np, npid, left, panicked>>

\* kill(): the first slot with the pid, whatever its state.
kill(c, p, x) ==
  /\ At(c, p, "user") /\ ~killed[p] /\ lock = NoCPU
  /\ \E q \in Slots :
       /\ pid[q] = x /\ \A r \in Slots : r < q => pid[r] # x
       /\ killed' = [killed EXCEPT ![q] = TRUE]
       /\ state' = [state EXCEPT ![q] = IF @ = "SLEEPING" THEN "RUNNABLE" ELSE @]
       /\ Goto(p, IF q = p THEN "exit" ELSE "user")
  /\ UNCHANGED <<pid, parent, onchan, kstack, nextpid, cpus, kont, np, npid, left, panicked>>

----------------------------------------------------------------------------
(* exit                                                                    *)

\* exit() from user space: a system call, or trap() finds proc->killed.
exit(c, p) ==
  /\ At(c, p, "user")
  /\ Goto(p, "exit")
  /\ UNCHANGED <<table, cpus, kont, np, npid, left, panicked>>

Abandoned(p) == {q \in Slots : parent[q] = p}

ExitWakes_Self(p) == {p}

\* The processes exit() wakes: the parent, and init if it inherits a zombie.
ExitWakes(p) ==
  {parent[p]} \cup IF \E q \in Abandoned(p) : state[q] = "ZOMBIE" THEN {init} ELSE {}

\* Files are closed and cwd put before the lock is taken.  init panics.
ExitZombie(c, p) ==
  /\ At(c, p, "exit") /\ lock = NoCPU
  /\ IF p = init
     THEN panicked' = "init exiting" /\ UNCHANGED <<state, parent, lock, kont>>
     ELSE /\ state' = [Woken(ExitWakes(p)) EXCEPT ![p] = "ZOMBIE"]
          /\ parent' = [q \in Slots |-> IF q \in Abandoned(p) THEN init ELSE parent[q]]
          /\ EnterSched(c, p, "exit")
          /\ UNCHANGED panicked
  /\ UNCHANGED <<pid, killed, onchan, kstack, nextpid, tickslock, cpu, intr, pc, np, npid, left>>

----------------------------------------------------------------------------
(* wait                                                                    *)

wait(c, p) ==
  /\ At(c, p, "user") /\ ~killed[p]
  /\ Goto(p, "wait")
  /\ UNCHANGED <<table, cpus, kont, np, npid, left, panicked>>

\* The loop runs with the lock, just acquired or kept since sched().
InWait(c, p) == At(c, p, "wait") /\ lock \in {NoCPU, c}

Zombies_Anybodys(p) == {q \in Slots : state[q] = "ZOMBIE"}
Zombies(p) == {q \in Slots : parent[q] = p /\ state[q] = "ZOMBIE"}

\* The first zombie child is reaped and its slot is free again.
WaitReap(c, p) ==
  /\ InWait(c, p)
  /\ \E q \in Zombies(p) :
       /\ \A r \in Zombies(p) : q <= r
       /\ kstack' = [kstack EXCEPT ![q] = FALSE]
       /\ state' = [state EXCEPT ![q] = "UNUSED"]
       /\ pid' = [pid EXCEPT ![q] = 0]
       /\ parent' = [parent EXCEPT ![q] = NoProc]
       /\ killed' = [killed EXCEPT ![q] = FALSE]
  /\ Goto(p, Ret(p))
  /\ lock' = NoCPU
  /\ UNCHANGED <<onchan, nextpid, tickslock, cpu, intr, kont, np, npid, left, panicked>>

WaitNone(c, p) ==
  /\ InWait(c, p) /\ Zombies(p) = {}
  /\ killed[p] \/ \A q \in Slots : parent[q] # p
  /\ Goto(p, Ret(p))
  /\ lock' = NoCPU
  /\ UNCHANGED <<table, tickslock, cpu, intr, kont, np, npid, left, panicked>>

\* sleep(proc, &ptable.lock)
WaitSleep(c, p) ==
  /\ InWait(c, p) /\ Zombies(p) = {}
  /\ ~killed[p] /\ \E q \in Slots : parent[q] = p
  /\ state' = [state EXCEPT ![p] = "SLEEPING"]
  /\ onchan' = [onchan EXCEPT ![p] = "proc"]
  /\ EnterSched(c, p, "wait")
  /\ UNCHANGED <<pid, parent, killed, kstack, nextpid, tickslock, cpu, intr, pc, np, npid, left, panicked>>

----------------------------------------------------------------------------
(* sys_sleep and the timer                                                 *)

\* sys_sleep(n).  left stands for n - (ticks - ticks0).
sys_sleep(c, p, n) ==
  /\ At(c, p, "user") /\ ~killed[p]
  /\ Goto(p, "s_acquire") /\ left' = [left EXCEPT ![p] = n]
  /\ UNCHANGED <<table, cpus, kont, np, npid, panicked>>

SleepAcquire(c, p) ==
  /\ At(c, p, "s_acquire") /\ tickslock = NoCPU
  /\ tickslock' = c
  /\ Goto(p, "s_loop")
  /\ UNCHANGED <<table, lock, cpu, intr, kont, np, npid, left, panicked>>

SleepReturn(c, p) ==
  /\ At(c, p, "s_loop")
  /\ left[p] = 0 \/ killed[p]
  /\ tickslock' = NoCPU
  /\ Goto(p, Ret(p)) /\ left' = [left EXCEPT ![p] = 0]
  /\ UNCHANGED <<table, lock, cpu, intr, kont, np, npid, panicked>>

SleepAgain(c, p) ==
  /\ At(c, p, "s_loop")
  /\ left[p] > 0 /\ ~killed[p]
  /\ Goto(p, "s_sleep")
  /\ UNCHANGED <<table, cpus, kont, np, npid, left, panicked>>

\* sleep(&ticks, &tickslock): tickslock is released under ptable.lock.
SleepSleep(c, p) ==
  /\ At(c, p, "s_sleep") /\ lock = NoCPU
  /\ state' = [state EXCEPT ![p] = "SLEEPING"]
  /\ onchan' = [onchan EXCEPT ![p] = Ticks]
  /\ EnterSched(c, p, "sleep")
  /\ tickslock' = NoCPU
  /\ Goto(p, "s_acquire")
  /\ UNCHANGED <<pid, parent, killed, kstack, nextpid, cpu, intr, np, npid, left, panicked>>

\* Interrupts are on: the CPU holds no spinlock and is not inside sched().
Interruptible(c) ==
  /\ panicked = "none" /\ lock # c /\ tickslock # c
  /\ cpu[c] # NoProc => kont[cpu[c]] = "-"

\* CPU 0's clock: ticks++ under tickslock ...
Tick ==
  /\ Interruptible(0) /\ intr = "none" /\ tickslock = NoCPU
  /\ tickslock' = 0 /\ intr' = "tick"
  /\ left' = [p \in Slots |-> IF left[p] > 0 THEN left[p] - 1 ELSE 0]
  /\ UNCHANGED <<table, lock, cpu, pc, kont, np, npid, panicked>>

\* ... and wakeup(&ticks), which takes ptable.lock for a moment.
TickWakeup ==
  /\ intr = "tick" /\ lock = NoCPU
  /\ state' = [q \in Slots |->
       IF state[q] = "SLEEPING" /\ onchan[q] = Ticks THEN "RUNNABLE" ELSE state[q]]
  /\ tickslock' = NoCPU /\ intr' = "trap"
  /\ UNCHANGED <<pid, parent, killed, onchan, kstack, nextpid, lock, cpu, kern, panicked>>

\* The timer interrupt of CPU c comes to its end (of CPU 0: after the tick).
Trapped(c) ==
  /\ Interruptible(c)
  /\ c = 0 => intr = "trap"

\* trap(): the process gives up the CPU ...
yield(c, p) ==
  /\ Trapped(c) /\ cpu[c] = p /\ lock = NoCPU
  /\ ~(killed[p] /\ pc[p] = "user")
  /\ state' = [state EXCEPT ![p] = "RUNNABLE"]
  /\ EnterSched(c, p, "yield")
  /\ intr' = IF c = 0 THEN "none" ELSE intr
  /\ UNCHANGED <<pid, parent, killed, onchan, kstack, nextpid, tickslock, cpu, pc, np, npid, left, panicked>>

\* ... or exits, if it was killed and in user space ...
TrapExit(c, p) ==
  /\ Trapped(c) /\ cpu[c] = p /\ killed[p] /\ pc[p] = "user"
  /\ Goto(p, "exit")
  /\ intr' = IF c = 0 THEN "none" ELSE intr
  /\ UNCHANGED <<table, lock, tickslock, cpu, kont, np, npid, left, panicked>>

\* ... or the scheduler was interrupted.
TrapIdle ==
  /\ intr = "trap" /\ cpu[0] = NoProc
  /\ intr' = "none"
  /\ UNCHANGED <<table, lock, tickslock, cpu, kern, panicked>>

----------------------------------------------------------------------------
(* scheduler and sched                                                     *)

\* The scheduler holds the lock during a pass over the table; a pass may be
\* taken over from the process that called sched().
SchedAcquire(c) ==
  /\ panicked = "none" /\ cpu[c] = NoProc /\ lock = NoCPU
  /\ c = 0 => intr = "none"
  /\ lock' = c
  /\ UNCHANGED <<table, tickslock, cpu, intr, kern, panicked>>

SchedRelease(c) ==
  /\ cpu[c] = NoProc /\ lock = c
  /\ lock' = NoCPU
  /\ UNCHANGED <<table, tickslock, cpu, intr, kern, panicked>>

\* The pass comes to a RUNNABLE process.
Run(c, p) ==
  /\ cpu[c] = NoProc /\ lock = c
  /\ state[p] = "RUNNABLE"
  /\ state' = [state EXCEPT ![p] = "RUNNING"]
  /\ cpu' = [cpu EXCEPT ![c] = p]
  /\ UNCHANGED <<pid, parent, killed, onchan, kstack, nextpid, lock, tickslock, intr, kern, panicked>>

\* sched(): to the scheduler of this CPU, which must find the lock held.
sched(c, p) ==
  /\ panicked = "none" /\ cpu[c] = p /\ kont[p] # "-" /\ state[p] # "RUNNING"
  /\ IF lock = c
     THEN cpu' = [cpu EXCEPT ![c] = NoProc] /\ UNCHANGED panicked
     ELSE panicked' = "sched ptable.lock" /\ UNCHANGED cpu
  /\ UNCHANGED <<table, lock, tickslock, intr, kern>>

\* Back from sched(): forkret and yield release the lock, sleep() clears chan
\* and releases it unless it is wait()'s, and a zombie must not come back.
Resume(c, p) ==
  /\ panicked = "none" /\ cpu[c] = p /\ kont[p] # "-" /\ state[p] = "RUNNING"
  /\ panicked' = IF kont[p] = "exit" THEN "zombie exit" ELSE panicked
  /\ kont' = [kont EXCEPT ![p] = "-"]
  /\ onchan' = IF kont[p] \in {"sleep", "wait"} THEN [onchan EXCEPT ![p] = NoChan] ELSE onchan
  /\ lock' = IF kont[p] = "wait" THEN lock ELSE NoCPU
  /\ pc' = IF kont[p] = "yield" /\ pc[p] = "user" THEN [pc EXCEPT ![p] = Ret(p)] ELSE pc
  /\ UNCHANGED <<state, pid, parent, killed, kstack, nextpid, tickslock, cpu, intr, np, npid, left>>

----------------------------------------------------------------------------
\* userinit
Init ==
  /\ state = [p \in Slots |-> IF p = init THEN "RUNNABLE" ELSE "UNUSED"]
  /\ pid = [p \in Slots |-> IF p = init THEN 1 ELSE 0]
  /\ parent = [p \in Slots |-> NoProc]
  /\ killed = [p \in Slots |-> FALSE]
  /\ onchan = [p \in Slots |-> NoChan]
  /\ kstack = [p \in Slots |-> p = init]
  /\ nextpid = 2
  /\ lock = NoCPU /\ tickslock = NoCPU
  /\ cpu = [c \in CPUs |-> NoProc]
  /\ intr = "none"
  /\ pc = [p \in Slots |-> "user"]
  /\ kont = [p \in Slots |-> "forkret"]
  /\ np = [p \in Slots |-> NoProc] /\ npid = [p \in Slots |-> 0]
  /\ left = [p \in Slots |-> 0]
  /\ panicked = "none"

\* The system calls a user program chooses to make.
Syscall(c, p) ==
  \/ fork(c, p) \/ exit(c, p) \/ wait(c, p)
  \/ \E x \in KillPids : kill(c, p, x)
  \/ \E n \in SleepTimes : sys_sleep(c, p, n)

\* What p does in the kernel once it is there.
Kernel(c, p) ==
  \/ ForkStack(c, p) \/ ForkNoStack(c, p) \/ ForkCopy(c, p) \/ ForkNoCopy(c, p)
  \/ ForkUndo(c, p) \/ ForkPublish(c, p) \/ ForkName(c, p)
  \/ ExitZombie(c, p)
  \/ WaitReap(c, p) \/ WaitNone(c, p) \/ WaitSleep(c, p)
  \/ SleepAcquire(c, p) \/ SleepReturn(c, p) \/ SleepAgain(c, p) \/ SleepSleep(c, p)

Switch(c, p) == sched(c, p) \/ Resume(c, p)

Timer(c, p) == yield(c, p) \/ TrapExit(c, p)

Next ==
  \/ \E c \in CPUs, p \in Slots : 
       Syscall(c, p) \/ Kernel(c, p) \/ Switch(c, p) \/ Timer(c, p) \/ Run(c, p)
  \/ \E c \in CPUs : SchedAcquire(c) \/ SchedRelease(c)
  \/ Tick \/ TickWakeup \/ TrapIdle

\* Every CPU keeps taking its spinlocks in the end, the scheduler's pass comes
\* round to every RUNNABLE process, the clock ticks, and init goes on calling
\* wait() (user/init.c).
Fairness ==
  /\ \A p \in Slots :
       /\ SF_vars(\E c \in CPUs : Kernel(c, p))
       /\ SF_vars(\E c \in CPUs : Run(c, p))
  /\ \A c \in CPUs :
       /\ SF_vars(SchedAcquire(c)) /\ WF_vars(SchedRelease(c))
       /\ WF_vars(\E p \in Slots : Switch(c, p)) /\ SF_vars(\E p \in Slots : Timer(c, p))
  /\ SF_vars(Tick) /\ SF_vars(TickWakeup) /\ WF_vars(TrapIdle)
  /\ SF_vars(\E c \in CPUs : wait(c, init))

Spec == Init /\ [][Next]_vars
FairSpec == Spec /\ Fairness

----------------------------------------------------------------------------
(* Properties.                                                             *)

Alive(p) == state[p] \in {"SLEEPING", "RUNNABLE", "RUNNING"}

\* A CPU runs on a kernel stack that exists and that no other CPU is on; a
\* process is on a CPU as long as it is RUNNING, and a zombie's stack is
\* reaped only when its CPU has left it; sched() never finds its lock or its
\* state wrong (the only panic is that of a dying init).
OwnStack ==
  /\ panicked \in {"none", "init exiting"}
  /\ \A c \in CPUs : cpu[c] # NoProc =>
       /\ kstack[cpu[c]]
       /\ state[cpu[c]] = "RUNNING" \/ lock = c
       /\ \A d \in CPUs \ {c} : cpu[d] # cpu[c]

\* A parent that sleeps in wait() has a child and none of them is a zombie:
\* no exit is missed, not even that of a child init inherits.
NoMissedExit ==
  \A p \in Slots : state[p] = "SLEEPING" /\ onchan[p] = "proc" =>
    Zombies(p) = {} /\ \E q \in Slots : parent[q] = p /\ state[q] # "UNUSED"

\* The child that fork() has made RUNNABLE without the lock, and whose name
\* it still has to copy, is still that child.
ForkOwnsChild ==
  \A p \in Slots :
    /\ pc[p] \in {"f_kalloc", "f_copy", "f_unused", "f_publish"} => state[np[p]] = "EMBRYO"
    /\ pc[p] = "f_name" => /\ parent[np[p]] = p /\ pid[np[p]] = npid[p]
                           /\ Alive(np[p]) \/ state[np[p]] = "ZOMBIE"

Stopped == panicked # "none"

\* A killed process gets to exit(), wherever it sleeps or runs.
KilledExits == \A p \in Slots \ {init} : killed[p] /\ Alive(p) ~> Stopped \/ state[p] = "ZOMBIE"

\* A zombie that has init for its parent is reaped.
OrphansReaped ==
  \A p \in Slots \ {init} : state[p] = "ZOMBIE" /\ parent[p] = init ~> Stopped \/ state[p] # "ZOMBIE"
=============================================================================
