------------------------------ MODULE BufCache ------------------------------
(***************************************************************************)
(* The buffer cache (xv6/kernel/bio.c) on the disk driver (ide.c).         *)
(*                                                                         *)
(* bget, brelse and the list of buffers are under bcache.lock, idequeue is *)
(* under idelock, and sleep() gives the lock back with ptable.lock held:   *)
(* what a process or the interrupt handler does from acquire to release,   *)
(* or to sleep, is one step.  A process waiting in bget for a buffer and   *)
(* the owner of the buffer waiting in iderw sleep on the same channel, the *)
(* buffer; each goes back to its test when it is woken.                    *)
(*                                                                         *)
(* The callers are those of fs.c, stati apart: a process may hold an       *)
(* indirect block while it asks for a data block, the super block or a     *)
(* bitmap block, and never the other way round.  The sectors are numbered  *)
(* in that order, so that a caller holding buffers asks for a higher one.  *)
(* What a caller changes it writes with bwrite before anything else.       *)
(* stati, which never releases the buffer it reads, is not a caller here.  *)
(*                                                                         *)
(* A definition named X_Fault, before X, is X with one plausible mistake   *)
(* in it; no specification uses it.  The README says which property sees   *)
(* which mistake.                                                          *)
(***************************************************************************)
EXTENDS Integers, Sequences, FiniteSets

CONSTANTS
  Procs,
  Bufs,        \* bcache.buf (NBUF of them)
  Sectors,     \* in the order in which the callers nest them
  Values,      \* contents of a sector
  Zero,        \* what the buffers hold before anything is read
  MaxHold,     \* bound: buffers one process holds at a time
  BadSectors   \* the sectors a read of which may fail

NoSector == -1
NoBuf    == "none"

ASSUME BufAssumption ==
  /\ Sectors \subseteq Nat /\ Zero \in Values
  /\ IsFiniteSet(Bufs) /\ Bufs # {} /\ NoBuf \notin Bufs
  /\ MaxHold \in Nat \ {0}
  /\ BadSectors \subseteq Sectors

VARIABLES
  lru,          \* the list of buffers, most recently used first
  sector,       \* buffer -> the sector it stands for
  flags,        \* buffer -> its flags
  data,         \* buffer -> its contents
  idequeue,     \* the buffers to be read or written, the one in work first
  disk,         \* sector -> its contents on the disk
  pc,           \* where each process is
  chan,         \* process -> the buffer it sleeps on, NoBuf when it is runnable
  want,         \* process -> the sector it asks for
  cur,          \* process -> the buffer it is working on
  held,         \* process -> the buffers bread gave it and it has not released
  panicked

bufvars  == <<sector, flags, data>>
procvars == <<pc, chan, want, cur, held>>
vars == <<lru, bufvars, idequeue, disk, procvars, panicked>>

Goto(p, l) == pc' = [pc EXCEPT ![p] = l]
Busy(b)    == "B_BUSY" \in flags[b]

Sleep(p, b) == chan' = [chan EXCEPT ![p] = b]

wakeup(b) == chan' = [q \in Procs |-> IF chan[q] = b THEN NoBuf ELSE chan[q]]

----------------------------------------------------------------------------
(* bio.c                                                                   *)

Cached(s) == {b \in Bufs : sector[b] = s}
Idle      == {i \in 1 .. Len(lru) : ~Busy(lru[i])}
Oldest(i) == \A j \in Idle : j <= i

Ask_AnyOrder(p, s) ==
  /\ pc[p] = "run"
  /\ Cardinality(held[p]) < MaxHold
  /\ \A b \in held[p] : sector[b] # s
  /\ want' = [want EXCEPT ![p] = s]
  /\ Goto(p, "bget")
  /\ UNCHANGED <<lru, bufvars, idequeue, disk, chan, cur, held, panicked>>

\* A process calls bread(s).
Ask(p, s) ==
  /\ pc[p] = "run"
  /\ Cardinality(held[p]) < MaxHold
  /\ \A b \in held[p] : sector[b] < s
  /\ want' = [want EXCEPT ![p] = s]
  /\ Goto(p, "bget")
  /\ UNCHANGED <<lru, bufvars, idequeue, disk, chan, cur, held, panicked>>

Runs(p, l) == pc[p] = l /\ chan[p] = NoBuf

Got(p) == Goto(p, "bread") /\ want' = [want EXCEPT ![p] = NoSector]

bget_hit(p) ==
  /\ Runs(p, "bget")
  /\ \E b \in Cached(want[p]) :
       /\ ~Busy(b)
       /\ flags' = [flags EXCEPT ![b] = @ \cup {"B_BUSY"}]
       /\ cur' = [cur EXCEPT ![p] = b]
  /\ Got(p)
  /\ UNCHANGED <<lru, sector, data, idequeue, disk, chan, held, panicked>>

bget_wait_Given(p) ==
  /\ Runs(p, "bget")
  /\ \E b \in Cached(want[p]) : Busy(b) /\ cur' = [cur EXCEPT ![p] = b]
  /\ Got(p)
  /\ UNCHANGED <<lru, bufvars, idequeue, disk, chan, held, panicked>>

bget_wait(p) ==
  /\ Runs(p, "bget")
  /\ \E b \in Cached(want[p]) : Busy(b) /\ Sleep(p, b)
  /\ UNCHANGED <<lru, bufvars, idequeue, disk, pc, want, cur, held, panicked>>

bget_recycle_FlagsKept(p) ==
  /\ Runs(p, "bget") /\ Cached(want[p]) = {}
  /\ \E i \in Idle :
       /\ Oldest(i)
       /\ sector' = [sector EXCEPT ![lru[i]] = want[p]]
       /\ flags' = [flags EXCEPT ![lru[i]] = @ \cup {"B_BUSY"}]
       /\ cur' = [cur EXCEPT ![p] = lru[i]]
  /\ Got(p)
  /\ UNCHANGED <<lru, data, idequeue, disk, chan, held, panicked>>

bget_recycle_NoSearch(p) ==
  /\ Runs(p, "bget")
  /\ \E i \in Idle :
       /\ Oldest(i)
       /\ sector' = [sector EXCEPT ![lru[i]] = want[p]]
       /\ flags' = [flags EXCEPT ![lru[i]] = {"B_BUSY"}]
       /\ cur' = [cur EXCEPT ![p] = lru[i]]
  /\ Got(p)
  /\ UNCHANGED <<lru, data, idequeue, disk, chan, held, panicked>>

\* Not cached: the least recently used buffer that is not busy.
bget_recycle(p) ==
  /\ Runs(p, "bget") /\ Cached(want[p]) = {}
  /\ \E i \in Idle :
       /\ Oldest(i)
       /\ sector' = [sector EXCEPT ![lru[i]] = want[p]]
       /\ flags' = [flags EXCEPT ![lru[i]] = {"B_BUSY"}]
       /\ cur' = [cur EXCEPT ![p] = lru[i]]
  /\ Got(p)
  /\ UNCHANGED <<lru, data, idequeue, disk, chan, held, panicked>>

\* panic("bget: no buffers")
bget_panic(p) ==
  /\ Runs(p, "bget") /\ Cached(want[p]) = {} /\ Idle = {}
  /\ panicked' = TRUE
  /\ UNCHANGED <<lru, bufvars, idequeue, disk, procvars>>

Return(p) ==
  /\ held' = [held EXCEPT ![p] = @ \cup {cur[p]}]
  /\ cur' = [cur EXCEPT ![p] = NoBuf]
  /\ Goto(p, "run")

bread_valid(p) ==
  /\ pc[p] = "bread" /\ "B_VALID" \in flags[cur[p]]
  /\ Return(p)
  /\ UNCHANGED <<lru, bufvars, idequeue, disk, chan, want, panicked>>

\* iderw up to its first sleep: the request cannot be finished yet, since
\* ideintr waits for idelock.
Enqueue(p, b) ==
  /\ idequeue' = Append(idequeue, b)
  /\ Sleep(p, b)
  /\ Goto(p, "iderw")

bread_miss(p) ==
  /\ pc[p] = "bread" /\ "B_VALID" \notin flags[cur[p]]
  /\ Enqueue(p, cur[p])
  /\ UNCHANGED <<lru, bufvars, disk, want, cur, held, panicked>>

\* The owner changes the contents.
Modify(p, b, v) ==
  /\ pc[p] = "run" /\ b \in held[p]
  /\ data' = [data EXCEPT ![b] = v]
  /\ cur' = [cur EXCEPT ![p] = b]
  /\ Goto(p, "bwrite")
  /\ UNCHANGED <<lru, sector, flags, idequeue, disk, chan, want, held, panicked>>

bwrite(p) ==
  /\ pc[p] = "bwrite"
  /\ flags' = [flags EXCEPT ![cur[p]] = @ \cup {"B_DIRTY"}]
  /\ Enqueue(p, cur[p])
  /\ UNCHANGED <<lru, sector, data, disk, want, cur, held, panicked>>

\* The list s with b taken out and put in front.
ToFront(s, b) ==
  LET k == CHOOSE i \in 1 .. Len(s) : s[i] = b
  IN  [i \in 1 .. Len(s) |-> IF i = 1 THEN b ELSE IF i <= k THEN s[i - 1] ELSE s[i]]

brelse_NoWakeup(p, b) ==
  /\ pc[p] = "run" /\ b \in held[p]
  /\ lru' = ToFront(lru, b)
  /\ flags' = [flags EXCEPT ![b] = @ \ {"B_BUSY"}]
  /\ held' = [held EXCEPT ![p] = @ \ {b}]
  /\ UNCHANGED <<sector, data, idequeue, disk, pc, chan, want, cur, panicked>>

brelse(p, b) ==
  /\ pc[p] = "run" /\ b \in held[p]
  /\ lru' = ToFront(lru, b)
  /\ flags' = [flags EXCEPT ![b] = @ \ {"B_BUSY"}]
  /\ wakeup(b)
  /\ held' = [held EXCEPT ![p] = @ \ {b}]
  /\ UNCHANGED <<sector, data, idequeue, disk, pc, want, cur, panicked>>

----------------------------------------------------------------------------
(* ide.c                                                                   *)

Finished(b) == "B_VALID" \in flags[b] /\ "B_DIRTY" \notin flags[b]

iderw_done(p) ==
  /\ Runs(p, "iderw") /\ Finished(cur[p])
  /\ Return(p)
  /\ UNCHANGED <<lru, bufvars, idequeue, disk, chan, want, panicked>>

iderw_again(p) ==
  /\ Runs(p, "iderw") /\ ~Finished(cur[p])
  /\ Sleep(p, cur[p])
  /\ UNCHANGED <<lru, bufvars, idequeue, disk, pc, want, cur, held, panicked>>

ideintr_DirtyKept ==
  /\ idequeue # <<>>
  /\ LET b == Head(idequeue)
     IN  /\ IF "B_DIRTY" \in flags[b]
            THEN disk' = [disk EXCEPT ![sector[b]] = data[b]] /\ UNCHANGED data
            ELSE data' = [data EXCEPT ![b] = disk[sector[b]]] /\ UNCHANGED disk
         /\ flags' = [flags EXCEPT ![b] = @ \cup {"B_VALID"}]
         /\ wakeup(b)
  /\ idequeue' = Tail(idequeue)
  /\ UNCHANGED <<lru, sector, pc, want, cur, held, panicked>>

\* The disk has carried out the request at the head of the queue (idestart
\* handed it the data of a write) and interrupts.  After a read that failed
\* the buffer is marked all the same.  The next request is started.
ideintr ==
  /\ idequeue # <<>>
  /\ LET b == Head(idequeue)
     IN  /\ \/ /\ "B_DIRTY" \in flags[b]
               /\ disk' = [disk EXCEPT ![sector[b]] = data[b]]
               /\ UNCHANGED data
            \/ /\ "B_DIRTY" \notin flags[b]
               /\ data' = [data EXCEPT ![b] = disk[sector[b]]]
               /\ UNCHANGED disk
            \/ /\ "B_DIRTY" \notin flags[b] /\ sector[b] \in BadSectors
               /\ UNCHANGED <<data, disk>>
         /\ flags' = [flags EXCEPT ![b] = (@ \cup {"B_VALID"}) \ {"B_DIRTY"}]
         /\ wakeup(b)
  /\ idequeue' = Tail(idequeue)
  /\ UNCHANGED <<lru, sector, pc, want, cur, held, panicked>>

----------------------------------------------------------------------------
\* binit: the buffers stand for no sector.
Init ==
  /\ lru \in [1 .. Cardinality(Bufs) -> Bufs]
  /\ \A b \in Bufs : \E i \in DOMAIN lru : lru[i] = b
  /\ sector = [b \in Bufs |-> NoSector]
  /\ flags = [b \in Bufs |-> {}]
  /\ data = [b \in Bufs |-> Zero]
  /\ idequeue = <<>>
  /\ disk \in [Sectors -> Values]
  /\ pc = [p \in Procs |-> "run"]
  /\ chan = [p \in Procs |-> NoBuf]
  /\ want = [p \in Procs |-> NoSector]
  /\ cur = [p \in Procs |-> NoBuf]
  /\ held = [p \in Procs |-> {}]
  /\ panicked = FALSE

Work(p) ==
  \/ bget_hit(p) \/ bget_wait(p) \/ bget_recycle(p) \/ bget_panic(p)
  \/ bread_valid(p) \/ bread_miss(p) \/ bwrite(p)
  \/ iderw_done(p) \/ iderw_again(p)

Next ==
  /\ ~panicked
  /\ \/ ideintr
     \/ \E p \in Procs :
          \/ Work(p)
          \/ \E s \in Sectors : Ask(p, s)
          \/ \E b \in Bufs : brelse(p, b) \/ \E v \in Values : Modify(p, b, v)

\* The disk answers, and the scheduler runs every runnable process.
Fairness ==
  /\ WF_vars(~panicked /\ ideintr)
  /\ \A p \in Procs : WF_vars(~panicked /\ Work(p))

Spec == Init /\ [][Next]_vars /\ Fairness

----------------------------------------------------------------------------
(* Properties.                                                             *)

Places == {"run", "bget", "bread", "bwrite", "iderw"}
Flags  == {"B_BUSY", "B_VALID", "B_DIRTY"}

\* Types of the variables.
TypeOK ==
  /\ lru \in Seq(Bufs) /\ idequeue \in Seq(Bufs)
  /\ sector \in [Bufs -> Sectors \cup {NoSector}]
  /\ flags \in [Bufs -> SUBSET Flags]
  /\ data \in [Bufs -> Values] /\ disk \in [Sectors -> Values]
  /\ pc \in [Procs -> Places]
  /\ chan \in [Procs -> Bufs \cup {NoBuf}] /\ cur \in [Procs -> Bufs \cup {NoBuf}]
  /\ want \in [Procs -> Sectors \cup {NoSector}]
  /\ held \in [Procs -> SUBSET Bufs]
  /\ panicked \in BOOLEAN

\* The buffers a process owns: the ones it holds, and the one it is getting.
Owns(p) == held[p] \cup (IF pc[p] \in {"bread", "iderw"} THEN {cur[p]} ELSE {})

\* A sector has at most one buffer, and a busy buffer exactly one owner: two
\* processes never work on two copies of a block, or on one at a time.
OneCopy ==
  /\ \A b, c \in Bufs : sector[b] = sector[c] /\ sector[b] # NoSector => b = c
  /\ \A b \in Bufs : Busy(b) <=> \E p \in Procs : b \in Owns(p)
  /\ \A p, q \in Procs : Owns(p) \cap Owns(q) # {} => p = q

\* bread "returns a B_BUSY buf with the contents of the indicated disk
\* sector" (bio.c:95), and a buffer is given back only when the disk has
\* what it holds: B_VALID means "the buffer data has been initialized with
\* the associated disk block contents" (bio.c:19).  A failed read breaks
\* that promise for its own sector (ideintr, ide.c:105) and for no other.
Queued(b)  == \E i \in 1 .. Len(idequeue) : idequeue[i] = b
Writing(b) == \E p \in Procs : cur[p] = b /\ (pc[p] = "bwrite" \/ Queued(b))
ValidIsDisk ==
  \A b \in Bufs : "B_VALID" \in flags[b] /\ ~Writing(b) /\ sector[b] \notin BadSectors
                   => data[b] = disk[sector[b]]

\* A process that sleeps is owed a wakeup: the buffer it waits for is busy
\* and its owner will release it, or its request is in the queue.  (bget's
\* waiters and the owner in iderw share a channel.)
OwedWakeup ==
  \A p \in Procs : chan[p] # NoBuf =>
    \/ pc[p] = "bget" /\ Busy(chan[p]) /\ chan[p] \notin Owns(p)
    \/ pc[p] = "iderw" /\ chan[p] = cur[p] /\ Queued(cur[p])

\* A request that reaches the disk queue is carried out and its process
\* goes on.
IoCompletes == \A p \in Procs : pc[p] = "iderw" ~> pc[p] = "run" \/ panicked

\* Nobody waits for everybody: while a process is in bread or bwrite, some
\* process can move or the disk is at work.
Progress ==
  (\E p \in Procs : pc[p] # "run") =>
    \/ idequeue # <<>> \/ panicked
    \/ \E p \in Procs : chan[p] = NoBuf /\ (pc[p] # "run" \/ held[p] # {})

\* The cache is a store of blocks with one owner each: what a process reads
\* is what the last owner left, whatever was evicted and read again since
\* and whatever reads of other sectors failed.
blockOf(s) ==
  IF \E b \in Cached(s) : "B_VALID" \in flags[b]
  THEN data[CHOOSE b \in Cached(s) : "B_VALID" \in flags[b]] ELSE disk[s]
ownerOf(s) == {p \in Procs : \E b \in held[p] : sector[b] = s}
GoodSectors == Sectors \ BadSectors
Store == INSTANCE BlockStore WITH
           Sectors <- GoodSectors,
           block <- [s \in GoodSectors |-> blockOf(s)],
           owner <- [s \in GoodSectors |-> ownerOf(s)]
ImplementsStore == Store!StoreSpec
=============================================================================
