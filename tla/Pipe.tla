-------------------------------- MODULE Pipe --------------------------------
(***************************************************************************)
(* xv6/kernel/pipe.c: a ring buffer shared by processes that sleep and     *)
(* wake each other (sleep, wakeup and kill of proc.c, the spinlock of      *)
(* spinlock.c).                                                            *)
(*                                                                         *)
(* A process holds p->lock from acquire to release or to sleep, and the    *)
(* steps between are separate because kill(), which takes ptable.lock      *)
(* only, may come between any two of them.  sleep() gives p->lock back     *)
(* with ptable.lock held and wakeup() and kill() take ptable.lock, so each *)
(* of the three is one step.  RUNNING and RUNNABLE are both "awake".       *)
(*                                                                         *)
(* nread and nwrite are unsigned and wrap at MOD (2^32).                   *)
(*                                                                         *)
(* A definition named X_Fault, before X, is X with one plausible mistake   *)
(* in it; no specification uses it.  The README says which property sees   *)
(* which mistake.                                                          *)
(***************************************************************************)
EXTENDS Integers, Sequences, FiniteSets

CONSTANTS
  Readers, Writers,  \* the processes that share each end
  PIPESIZE,          \* 512 in the code
  MOD,               \* 2^32 in the code
  Bytes,
  Payloads,          \* the sequences of bytes passed to write()
  ReadSizes,         \* the counts passed to read()
  Killable           \* the processes kill() may be called on

Procs  == Readers \cup Writers
NoProc == "none"
NoChan == "0"

ASSUME PipeAssumption ==
  /\ Readers \cap Writers = {} /\ NoProc \notin Procs
  /\ PIPESIZE \in Nat \ {0}
  /\ MOD \in Nat /\ MOD > PIPESIZE /\ MOD % PIPESIZE = 0
  /\ Payloads \subseteq Seq(Bytes) /\ ReadSizes \subseteq Nat
  /\ Killable \subseteq Procs

VARIABLES
  lock,        \* holder of p->lock, or NoProc
  data, nread, nwrite, readopen, writeopen,  \* struct pipe
  freed,       \* kfree(p) was called
  open,        \* the processes that hold a descriptor of their end
  pc,          \* where each process is
  state, chan, \* proc->state ("awake" or "SLEEPING") and proc->chan
  killed,      \* proc->killed
  todo,        \* bytes the writer has left to write
  n,           \* count of the reader's call
  addr         \* bytes the reader's call has copied; none between calls

pipevars == <<data, nread, nwrite, readopen, writeopen>>
procvars == <<state, chan, killed>>
callvars == <<todo, n, addr>>
vars == <<lock, pipevars, freed, open, pc, procvars, callvars>>

Index == 0 .. (PIPESIZE - 1)

Empty == nread = nwrite

Full_Late == nwrite = (nread + PIPESIZE + 1) % MOD
Full  == nwrite = (nread + PIPESIZE) % MOD

----------------------------------------------------------------------------
(* proc.c and spinlock.c                                                   *)

acquire(p) == lock = NoProc /\ lock' = p

release(p) == lock = p /\ lock' = NoProc

wakeup_One(ch) ==
  LET S == {q \in Procs : state[q] = "SLEEPING" /\ chan[q] = ch}
  IN  state' = IF S = {} THEN state ELSE [state EXCEPT ![CHOOSE q \in S : TRUE] = "awake"]

\* wakeup(ch): every process that sleeps on ch becomes runnable.
wakeup(ch) ==
  state' = [q \in Procs |-> IF state[q] = "SLEEPING" /\ chan[q] = ch
                            THEN "awake" ELSE state[q]]

\* sleep(ch, &p->lock), up to sched().
sleep(p, ch) ==
  /\ release(p)
  /\ state' = [state EXCEPT ![p] = "SLEEPING"]
  /\ chan' = [chan EXCEPT ![p] = ch]

kill(p) ==
  /\ p \in Killable
  /\ killed' = [killed EXCEPT ![p] = TRUE]
  /\ state' = [state EXCEPT ![p] = "awake"]
  /\ UNCHANGED <<lock, pipevars, freed, open, pc, chan, callvars>>

\* From kernel to the next system call of p: a killed process goes to exit().
MayCall(p) == pc[p] = "user" /\ p \in open /\ ~killed[p]

Goto(p, l) == pc' = [pc EXCEPT ![p] = l]

----------------------------------------------------------------------------
(* pipewrite                                                               *)

pipewrite(w, s) ==
  /\ MayCall(w)
  /\ Goto(w, "w_acquire")
  /\ todo' = [todo EXCEPT ![w] = s]
  /\ UNCHANGED <<lock, pipevars, freed, open, procvars, n, addr>>

\* The first acquire, and the one at the end of sleep().
WAcquire(w) ==
  /\ pc[w] = "w_acquire" /\ state[w] = "awake"
  /\ acquire(w)
  /\ Goto(w, "w_loop")
  /\ chan' = [chan EXCEPT ![w] = NoChan]
  /\ UNCHANGED <<pipevars, freed, open, state, killed, callvars>>

WByte(w) ==
  /\ pc[w] = "w_loop" /\ todo[w] # <<>> /\ ~Full
  /\ data' = [data EXCEPT ![nwrite % PIPESIZE] = Head(todo[w])]
  /\ nwrite' = (nwrite + 1) % MOD
  /\ todo' = [todo EXCEPT ![w] = Tail(@)]
  /\ UNCHANGED <<lock, nread, readopen, writeopen, freed, open, pc, procvars, n, addr>>

\* The pipe is full and nobody can make room, or the writer is killed.
WGiveUp(w) ==
  /\ pc[w] = "w_loop" /\ todo[w] # <<>> /\ Full
  /\ ~readopen \/ killed[w]
  /\ release(w)
  /\ Goto(w, "user")
  /\ todo' = [todo EXCEPT ![w] = <<>>]
  /\ UNCHANGED <<pipevars, freed, open, procvars, n, addr>>

WFull(w) ==
  /\ pc[w] = "w_loop" /\ todo[w] # <<>> /\ Full
  /\ readopen /\ ~killed[w]
  /\ wakeup("nread")
  /\ Goto(w, "w_sleep")
  /\ UNCHANGED <<lock, pipevars, freed, open, chan, killed, callvars>>

WSleep(w) ==
  /\ pc[w] = "w_sleep"
  /\ sleep(w, "nwrite")
  /\ Goto(w, "w_acquire")
  /\ UNCHANGED <<pipevars, freed, open, killed, callvars>>

WDone(w) ==
  /\ pc[w] = "w_loop" /\ todo[w] = <<>>
  /\ wakeup("nread")
  /\ release(w)
  /\ Goto(w, "user")
  /\ UNCHANGED <<pipevars, freed, open, chan, killed, callvars>>

----------------------------------------------------------------------------
(* piperead                                                                *)

piperead(r, k) ==
  /\ MayCall(r)
  /\ Goto(r, "r_acquire")
  /\ n' = [n EXCEPT ![r] = k]
  /\ UNCHANGED <<lock, pipevars, freed, open, procvars, todo, addr>>

RAcquire(r) ==
  /\ pc[r] = "r_acquire" /\ state[r] = "awake"
  /\ acquire(r)
  /\ Goto(r, "r_wait")
  /\ chan' = [chan EXCEPT ![r] = NoChan]
  /\ UNCHANGED <<pipevars, freed, open, state, killed, callvars>>

RGiveUp(r) ==
  /\ pc[r] = "r_wait" /\ Empty /\ writeopen /\ killed[r]
  /\ release(r)
  /\ Goto(r, "user")
  /\ n' = [n EXCEPT ![r] = 0]
  /\ UNCHANGED <<pipevars, freed, open, procvars, todo, addr>>

REmpty(r) ==
  /\ pc[r] = "r_wait" /\ Empty /\ writeopen /\ ~killed[r]
  /\ Goto(r, "r_sleep")
  /\ UNCHANGED <<lock, pipevars, freed, open, procvars, callvars>>

RSleep_WrongChannel(r) ==
  /\ pc[r] = "r_sleep"
  /\ sleep(r, "nwrite")
  /\ Goto(r, "r_acquire")
  /\ UNCHANGED <<pipevars, freed, open, killed, callvars>>

RSleep(r) ==
  /\ pc[r] = "r_sleep"
  /\ sleep(r, "nread")
  /\ Goto(r, "r_acquire")
  /\ UNCHANGED <<pipevars, freed, open, killed, callvars>>

RReady_NoWait(r) ==
  /\ pc[r] = "r_wait"
  /\ Goto(r, "r_copy")
  /\ UNCHANGED <<lock, pipevars, freed, open, procvars, callvars>>

RReady(r) ==
  /\ pc[r] = "r_wait" /\ ~(Empty /\ writeopen)
  /\ Goto(r, "r_copy")
  /\ UNCHANGED <<lock, pipevars, freed, open, procvars, callvars>>

RByte(r) ==
  /\ pc[r] = "r_copy" /\ Len(addr[r]) < n[r] /\ ~Empty
  /\ addr' = [addr EXCEPT ![r] = Append(@, data[nread % PIPESIZE])]
  /\ nread' = (nread + 1) % MOD
  /\ UNCHANGED <<lock, data, nwrite, readopen, writeopen, freed, open, pc, procvars, todo, n>>

RDone(r) ==
  /\ pc[r] = "r_copy" /\ (Len(addr[r]) = n[r] \/ Empty)
  /\ wakeup("nwrite")
  /\ release(r)
  /\ Goto(r, IF addr[r] = <<>> /\ n[r] > 0 THEN "eof" ELSE "user")
  /\ addr' = [addr EXCEPT ![r] = <<>>] /\ n' = [n EXCEPT ![r] = 0]
  /\ UNCHANGED <<pipevars, freed, open, chan, killed, todo>>

\* read() returned 0: the caller has seen the end of the stream.
REof(r) ==
  /\ pc[r] = "eof"
  /\ Goto(r, "user")
  /\ UNCHANGED <<lock, pipevars, freed, open, procvars, callvars>>

----------------------------------------------------------------------------
(* fileclose and pipeclose                                                 *)

SideOf(p) == IF p \in Writers THEN Writers ELSE Readers

fileclose_Always(p) ==
  /\ pc[p] = "user" /\ p \in open
  /\ open' = open \ {p}
  /\ Goto(p, "close")
  /\ UNCHANGED <<lock, pipevars, freed, procvars, callvars>>

\* fileclose of a process (close() or exit()): the last one of its side
\* goes on to pipeclose.
fileclose(p) ==
  /\ pc[p] = "user" /\ p \in open
  /\ open' = open \ {p}
  /\ Goto(p, IF open \cap SideOf(p) = {p} THEN "close" ELSE "user")
  /\ UNCHANGED <<lock, pipevars, freed, procvars, callvars>>

pipeclose_NoWakeup(p) ==
  /\ pc[p] = "close" /\ lock = NoProc
  /\ writeopen' = (writeopen /\ p \notin Writers)
  /\ readopen' = (readopen /\ p \notin Readers)
  /\ Goto(p, IF writeopen' \/ readopen' THEN "user" ELSE "kfree")
  /\ UNCHANGED <<lock, data, nread, nwrite, freed, open, procvars, callvars>>

pipeclose(p) ==
  /\ pc[p] = "close" /\ lock = NoProc
  /\ writeopen' = (writeopen /\ p \notin Writers)
  /\ readopen' = (readopen /\ p \notin Readers)
  /\ wakeup(IF p \in Writers THEN "nread" ELSE "nwrite")
  /\ Goto(p, IF writeopen' \/ readopen' THEN "user" ELSE "kfree")
  /\ UNCHANGED <<lock, data, nread, nwrite, freed, open, chan, killed, callvars>>

PipeFree(p) ==
  /\ pc[p] = "kfree"
  /\ freed' = TRUE
  /\ Goto(p, "user")
  /\ UNCHANGED <<lock, pipevars, open, procvars, callvars>>

----------------------------------------------------------------------------
\* pipealloc; kalloc leaves the data as they were.
Init ==
  /\ lock = NoProc
  /\ data \in [Index -> Bytes] /\ nread = 0 /\ nwrite = 0
  /\ readopen = TRUE /\ writeopen = TRUE
  /\ freed = FALSE
  /\ open = Procs
  /\ pc = [p \in Procs |-> "user"]
  /\ state = [p \in Procs |-> "awake"]
  /\ chan = [p \in Procs |-> NoChan]
  /\ killed = [p \in Procs |-> FALSE]
  /\ todo = [w \in Writers |-> <<>>]
  /\ n = [r \in Readers |-> 0]
  /\ addr = [r \in Readers |-> <<>>]

WStep(w) == WAcquire(w) \/ WByte(w) \/ WGiveUp(w) \/ WFull(w) \/ WSleep(w) \/ WDone(w)
RStep(r) == \/ RAcquire(r) \/ RGiveUp(r) \/ REmpty(r) \/ RSleep(r)
            \/ RReady(r) \/ RByte(r) \/ RDone(r) \/ REof(r)
CStep(p) == pipeclose(p) \/ PipeFree(p)

Next ==
  \/ \E w \in Writers :
       WStep(w) \/ \E s \in Payloads : pipewrite(w, s)
  \/ \E r \in Readers : RStep(r) \/ \E k \in ReadSizes : piperead(r, k)
  \/ \E p \in Procs : fileclose(p) \/ CStep(p) \/ kill(p)

\* The scheduler runs every runnable process; a killed process exits and
\* closes its files; a reader reads on until it closes its end.
Fairness ==
  /\ \A w \in Writers : WF_vars(WStep(w))
  /\ \A r \in Readers :
       WF_vars(RStep(r)) /\ WF_vars(fileclose(r) \/ \E k \in ReadSizes : piperead(r, k))
  /\ \A p \in Procs : WF_vars(CStep(p)) /\ WF_vars(killed[p] /\ fileclose(p))

Spec == Init /\ [][Next]_vars /\ Fairness

----------------------------------------------------------------------------
(* Properties.                                                             *)

Holding(p) == pc[p] \in {"w_loop", "w_sleep", "r_wait", "r_sleep", "r_copy"}
InRead(r)  == pc[r] \in {"r_acquire", "r_wait", "r_sleep", "r_copy"}
InWrite(w) == pc[w] \in {"w_acquire", "w_loop", "w_sleep"}

\* Types of the variables, and who holds the lock.
TypeOK ==
  /\ lock \in Procs \cup {NoProc}
  /\ data \in [Index -> Bytes]
  /\ nread \in 0 .. (MOD - 1) /\ nwrite \in 0 .. (MOD - 1)
  /\ readopen \in BOOLEAN /\ writeopen \in BOOLEAN /\ freed \in BOOLEAN
  /\ open \subseteq Procs
  /\ pc \in [Procs -> {"user", "w_acquire", "w_loop", "w_sleep", "r_acquire", "r_wait",
                       "r_sleep", "r_copy", "eof", "close", "kfree"}]
  /\ state \in [Procs -> {"awake", "SLEEPING"}]
  /\ chan \in [Procs -> {NoChan, "nread", "nwrite"}]
  /\ killed \in [Procs -> BOOLEAN]
  /\ todo \in [Writers -> Seq(Bytes)]
  /\ n \in [Readers -> Nat] /\ addr \in [Readers -> Seq(Bytes)]
  /\ \A p \in Procs : Holding(p) <=> lock = p

\* No wakeup is lost: a reader that sleeps has nothing to read and may still
\* get something, or the process that holds the lock is going to wake it;
\* the same for a writer and room in the buffer.
ReaderNotForgotten ==
  \A r \in Readers : state[r] = "SLEEPING" =>
    \/ Empty /\ writeopen
    \/ \E w \in Writers : pc[w] = "w_loop"
WriterNotForgotten ==
  \A w \in Writers : state[w] = "SLEEPING" =>
    \/ Full /\ readopen
    \/ \E r \in Readers : pc[r] = "r_copy"
NoLostWakeup == ReaderNotForgotten /\ WriterNotForgotten

\* The page of the pipe is given back once, and no process is anywhere in
\* pipe.c, or can come back to it, when it is.
NoUseAfterFree ==
  /\ freed => \A p \in Procs : pc[p] = "user" /\ p \notin open
  /\ \A p, q \in Procs : pc[p] = "kfree" /\ pc[q] \in {"close", "kfree"} => p = q

\* A read that returns 0 has seen the end: everything that was written has
\* been read and nobody can write any more.
EofIsFinal == \A r \in Readers : pc[r] = "eof" => Empty /\ ~writeopen /\ open \cap Writers = {}

\* A process alone on its side of the pipe (the spinlock is not fair between
\* several).
Alone(p) == open \cap SideOf(p) = {p}

\* A read with bytes in the pipe returns, whatever the writers do, and a
\* write, however long, returns when the readers read on or close.
CallsReturn ==
  /\ \A r \in Readers : InRead(r) /\ Alone(r) /\ ~Empty ~> ~InRead(r)
  /\ \A w \in Writers : InWrite(w) /\ Alone(w) ~> ~InWrite(w)

\* The pipe is a bounded byte stream: the bytes between nread and nwrite,
\* across the wrap of the counters.
InPipe ==
  [i \in 1 .. ((nwrite - nread) % MOD) |-> data[((nread + i - 1) % MOD) % PIPESIZE]]
Stream == INSTANCE ByteStream WITH
            stream <- InPipe, wopen <- writeopen, ropen <- readopen, Cap <- PIPESIZE
ImplementsStream == Stream!StreamSpec
=============================================================================
