--------------------------- MODULE BufCacheProofs ---------------------------
(***************************************************************************)
(* Proofs about BufCache, for any number of processes, buffers, sectors    *)
(* and buffers held at a time.                                             *)
(***************************************************************************)
EXTENDS BufCache, TLAPS, FiniteSetTheorems

----------------------------------------------------------------------------
(* The inductive invariant, part by part.                                  *)

\* A process works on a buffer, and a buffer in use stands for a sector.
Shape ==
  /\ \A p \in Procs : /\ pc[p] \in {"bread", "iderw"} => cur[p] \in Bufs
                      /\ pc[p] = "bwrite" => cur[p] \in held[p]
                      /\ pc[p] = "bget" => want[p] \in Sectors
  /\ \A b \in Bufs : flags[b] # {} => sector[b] \in Sectors

\* A queued buffer belongs to a process in iderw, is queued once, and is
\* queued until it is finished.
QueueOK ==
  /\ \A i \in 1 .. Len(idequeue) :
       /\ ~Finished(idequeue[i])
       /\ \E p \in Procs : pc[p] = "iderw" /\ cur[p] = idequeue[i]
  /\ \A i, j \in 1 .. Len(idequeue) : idequeue[i] = idequeue[j] => i = j
  /\ \A p \in Procs : pc[p] = "iderw" /\ ~Finished(cur[p]) => Queued(cur[p])

Inv1 == TypeOK /\ Shape /\ OneCopy /\ QueueOK

\* brelse moves a buffer to the front of the list and keeps the others.
LEMMA FrontType ==
  ASSUME NEW s \in Seq(Bufs), NEW b \in Bufs PROVE ToFront(s, b) \in Seq(Bufs)
<1> DEFINE k == CHOOSE i \in 1 .. Len(s) : s[i] = b
           f == [i \in 1 .. Len(s) |-> IF i = 1 THEN b ELSE IF i <= k THEN s[i - 1] ELSE s[i]]
<1> HIDE DEF k
<1>1. ASSUME NEW i \in 1 .. Len(s) PROVE f[i] \in Bufs
  <2>1. i = 1 \/ (i - 1 \in 1 .. Len(s))
    OBVIOUS
  <2> QED
    BY <2>1
<1>2. f \in [1 .. Len(s) -> Bufs] /\ Len(s) \in Nat
  BY <1>1
<1>3. f \in Seq(Bufs)
  BY <1>2
<1> QED
  BY <1>3 DEF ToFront, k

\* An interrupt takes the head of the queue.
LEMMA TailOf ==
  ASSUME NEW q \in Seq(Bufs), q # <<>>
  PROVE  /\ Head(q) \in Bufs /\ Head(q) = q[1] /\ 1 \in 1 .. Len(q) /\ Tail(q) \in Seq(Bufs)
         /\ Len(Tail(q)) = Len(q) - 1
         /\ \A i \in 1 .. Len(Tail(q)) : Tail(q)[i] = q[i + 1] /\ i + 1 \in 1 .. Len(q)
OBVIOUS

\* A request goes to the end of the queue.
LEMMA AppendOf ==
  ASSUME NEW q \in Seq(Bufs), NEW b \in Bufs
  PROVE  /\ Append(q, b) \in Seq(Bufs) /\ Len(Append(q, b)) = Len(q) + 1
         /\ \A i \in 1 .. Len(q) : Append(q, b)[i] = q[i]
         /\ Append(q, b)[Len(q) + 1] = b
OBVIOUS

----------------------------------------------------------------------------
\* The buffers after binit().
LEMMA InitInv1 == Init => Inv1
<1> SUFFICES ASSUME Init PROVE Inv1
  OBVIOUS
<1>1. lru \in Seq(Bufs) /\ idequeue \in Seq(Bufs)
  <2>1. Cardinality(Bufs) \in Nat
    BY BufAssumption, FS_CardinalityType
  <2>2. \A m \in Nat : [1 .. m -> Bufs] \subseteq Seq(Bufs)
    OBVIOUS
  <2>3. lru \in [1 .. Cardinality(Bufs) -> Bufs] /\ idequeue = <<>>
    BY DEF Init
  <2> QED
    BY <2>1, <2>2, <2>3
<1>2. TypeOK
  <2>1. /\ sector \in [Bufs -> Sectors \cup {NoSector}]
        /\ data \in [Bufs -> Values] /\ disk \in [Sectors -> Values]
    BY BufAssumption DEF Init
  <2>2. flags \in [Bufs -> SUBSET Flags] /\ pc \in [Procs -> Places]
    BY DEF Init, Places
  <2>3. /\ chan \in [Procs -> Bufs \cup {NoBuf}] /\ cur \in [Procs -> Bufs \cup {NoBuf}]
        /\ want \in [Procs -> Sectors \cup {NoSector}] /\ held \in [Procs -> SUBSET Bufs]
        /\ panicked \in BOOLEAN
    BY DEF Init
  <2> QED
    BY <1>1, <2>1, <2>2, <2>3 DEF TypeOK
<1>3. Shape
  BY DEF Init, Shape
<1>4. OneCopy
  BY DEF Init, OneCopy, Owns, Busy
<1>5. QueueOK
  BY DEF Init, QueueOK
<1> QED
  BY <1>2, <1>3, <1>4, <1>5 DEF Inv1

----------------------------------------------------------------------------
(* What the steps have in common.                                          *)

\* Ownership is kept when nobody's buffers, sectors and busy flags change.
LEMMA SameOwners ==
  ASSUME OneCopy, sector' = sector,
         \A q \in Procs : Owns(q)' = Owns(q),
         \A b \in Bufs : Busy(b)' <=> Busy(b)
  PROVE  OneCopy'
BY DEF OneCopy

\* The queue is kept when its owners stay and no busy buffer finishes.
LEMMA SameQueue ==
  ASSUME Inv1, idequeue' = idequeue,
         \A q \in Procs : pc[q] = "iderw" /\ ~Finished(cur[q]) => pc'[q] = "iderw" /\ cur'[q] = cur[q],
         \A q \in Procs : pc'[q] = "iderw" => pc[q] = "iderw" /\ cur'[q] = cur[q],
         \A b \in Bufs : Busy(b) => (Finished(b)' <=> Finished(b))
  PROVE  QueueOK'
<1>1. \A q \in Procs : pc[q] = "iderw" => cur[q] \in Bufs /\ Busy(cur[q])
  BY DEF Inv1, Shape, OneCopy, Owns
<1>2. ASSUME NEW i \in 1 .. Len(idequeue)
      PROVE  ~Finished(idequeue[i])' /\ \E q \in Procs : pc'[q] = "iderw" /\ cur'[q] = idequeue[i]
  <2>1. PICK q \in Procs : pc[q] = "iderw" /\ cur[q] = idequeue[i] /\ ~Finished(idequeue[i])
    BY DEF Inv1, QueueOK
  <2>2. pc'[q] = "iderw" /\ cur'[q] = idequeue[i]
    BY <2>1
  <2>3. ~Finished(cur[q])'
    BY <1>1, <2>1, <2>2
  <2> QED
    BY <2>1, <2>2, <2>3
<1>3. ASSUME NEW q \in Procs, pc'[q] = "iderw", ~Finished(cur[q])' PROVE Queued(cur[q])'
  <2>1. pc[q] = "iderw" /\ cur'[q] = cur[q] /\ ~Finished(cur[q])
    BY <1>1, <1>3
  <2>2. Queued(cur[q])
    BY <2>1 DEF Inv1, QueueOK
  <2> QED
    BY <2>1, <2>2 DEF Queued
<1>4. \A i, j \in 1 .. Len(idequeue) : idequeue[i] = idequeue[j] => i = j
  BY DEF Inv1, QueueOK
<1> QED
  BY <1>2, <1>3, <1>4 DEF QueueOK

\* The owner of a buffer puts it into the queue, where it was not.
LEMMA NewRequest ==
  ASSUME Inv1, NEW p \in Procs, pc[p] \in {"bread", "bwrite"},
         idequeue' = Append(idequeue, cur[p]), pc' = [pc EXCEPT ![p] = "iderw"], cur' = cur,
         \A b \in Bufs : b # cur[p] => flags'[b] = flags[b], ~Finished(cur[p])'
  PROVE  QueueOK'
<1>0. cur[p] \in Bufs /\ cur[p] \in Owns(p) /\ idequeue \in Seq(Bufs) /\ pc \in [Procs -> Places]
  BY DEF Inv1, Shape, Owns, TypeOK
<1>1. /\ Len(idequeue') = Len(idequeue) + 1
      /\ \A i \in 1 .. Len(idequeue) : idequeue'[i] = idequeue[i]
      /\ idequeue'[Len(idequeue) + 1] = cur[p] /\ Len(idequeue) \in Nat
  BY <1>0, AppendOf
<1>2. \A q \in Procs : q # p => pc'[q] = pc[q]
  BY <1>0
<1>3. ASSUME NEW i \in 1 .. Len(idequeue)
      PROVE  /\ idequeue[i] # cur[p] /\ ~Finished(idequeue[i])'
             /\ \E q \in Procs : pc'[q] = "iderw" /\ cur'[q] = idequeue[i]
  <2>1. PICK q \in Procs : pc[q] = "iderw" /\ cur[q] = idequeue[i] /\ ~Finished(idequeue[i])
    BY DEF Inv1, QueueOK
  <2>2. q # p /\ cur[q] \in Owns(q) /\ idequeue[i] \in Bufs
    BY <2>1, <1>0 DEF Owns
  <2>3. idequeue[i] # cur[p]
    BY <2>1, <2>2, <1>0 DEF Inv1, OneCopy
  <2> QED
    BY <2>1, <2>2, <2>3, <1>0, <1>2 DEF Finished
<1>4. ASSUME NEW i \in 1 .. Len(idequeue')
      PROVE  /\ ~Finished(idequeue[i])'
             /\ \E q \in Procs : pc'[q] = "iderw" /\ cur'[q] = idequeue'[i]
  <2>1. CASE i \in 1 .. Len(idequeue)
    <3>1. idequeue'[i] = idequeue[i]
      BY <2>1, <1>1
    <3> QED
      BY <2>1, <3>1, <1>3
  <2>2. CASE i = Len(idequeue) + 1
    <3>1. idequeue'[i] = cur[p] /\ pc'[p] = "iderw"
      BY <2>2, <1>1, <1>0
    <3> QED
      BY <3>1
  <2> QED
    BY <2>1, <2>2, <1>1
<1>5. ASSUME NEW i \in 1 .. Len(idequeue'), NEW j \in 1 .. Len(idequeue'), idequeue'[i] = idequeue'[j]
      PROVE  i = j
  BY <1>1, <1>3, <1>5 DEF Inv1, QueueOK
<1>6. ASSUME NEW q \in Procs, pc'[q] = "iderw", ~Finished(cur[q])' PROVE Queued(cur[q])'
  <2>1. CASE q = p
    BY <2>1, <1>1 DEF Queued
  <2>2. CASE q # p
    <3>1. pc[q] = "iderw" /\ cur[q] \in Owns(q) /\ cur[q] \in Bufs
      BY <2>2, <1>2, <1>6 DEF Owns, Inv1, Shape
    <3>2. cur[q] # cur[p]
      BY <3>1, <2>2, <1>0 DEF Inv1, OneCopy
    <3>3. ~Finished(cur[q])
      BY <3>1, <3>2, <1>6 DEF Finished
    <3>4. PICK i \in 1 .. Len(idequeue) : idequeue[i] = cur[q]
      BY <3>1, <3>3 DEF Inv1, QueueOK, Queued
    <3> QED
      BY <3>4, <1>1 DEF Queued
  <2> QED
    BY <2>1, <2>2
<1> QED
  BY <1>4, <1>5, <1>6 DEF QueueOK

----------------------------------------------------------------------------
(* Every step keeps the invariant.                                         *)

\* Every step keeps the types and the list.
LEMMA NextInv1 == ASSUME Inv1, [Next]_vars PROVE Inv1'
<1> USE DEF Inv1
<1>0. /\ pc \in [Procs -> Places] /\ cur \in [Procs -> Bufs \cup {NoBuf}]
      /\ held \in [Procs -> SUBSET Bufs] /\ flags \in [Bufs -> SUBSET Flags]
  BY DEF TypeOK
<1>1. ASSUME NEW p \in Procs, bget_hit(p) PROVE Inv1'
  <2>1. TypeOK'
    BY <1>1 DEF TypeOK, Shape, Places, Flags, bufvars, procvars, bget_hit, Got, Goto, Runs, Cached, Busy
  <2>2. Shape'
    BY <1>1 DEF TypeOK, Shape, bufvars, procvars, bget_hit, Got, Goto, Runs, Cached, Busy
  <2>3. OneCopy'
    BY <1>1 DEF TypeOK, Shape, OneCopy, Owns, Busy, bufvars, procvars, bget_hit, Got, Goto, Runs, Cached
  <2>4. QueueOK'
    <3>1. \A q \in Procs : pc[q] = "iderw" /\ ~Finished(cur[q]) => pc'[q] = "iderw" /\ cur'[q] = cur[q]
      BY <1>1, <1>0 DEF bget_hit, Got, Goto, Runs, Cached, Busy, procvars
    <3>2. \A q \in Procs : pc'[q] = "iderw" => pc[q] = "iderw" /\ cur'[q] = cur[q]
      BY <1>1, <1>0 DEF bget_hit, Got, Goto, Runs, Cached, Busy, procvars
    <3>3. idequeue' = idequeue /\ \A b \in Bufs : Busy(b) => (Finished(b)' <=> Finished(b))
      BY <1>1, <1>0 DEF bget_hit, Got, Goto, Runs, Cached, Busy, bufvars, Busy, Finished
    <3> QED
      BY <3>1, <3>2, <3>3, SameQueue
  <2> QED
    BY <2>1, <2>2, <2>3, <2>4
<1>2. ASSUME NEW p \in Procs, bget_wait(p) PROVE Inv1'
  <2>1. TypeOK'
    BY <1>2 DEF TypeOK, Shape, Places, Flags, bufvars, procvars, bget_wait, Runs, Sleep, Cached, Busy
  <2>2. Shape'
    BY <1>2 DEF TypeOK, Shape, bufvars, procvars, bget_wait, Runs, Sleep, Cached, Busy
  <2>3. OneCopy'
    <3>1. \A q \in Procs : Owns(q)' = Owns(q)
      BY <1>2, <1>0 DEF Owns, Shape, bget_wait, Runs, Sleep, Cached, Busy, procvars
    <3>2. sector' = sector /\ \A b \in Bufs : Busy(b)' <=> Busy(b)
      BY <1>2, <1>0 DEF Busy, Shape, bget_wait, Runs, Sleep, Cached, Busy, bufvars
    <3> QED
      BY <3>1, <3>2, SameOwners
  <2>4. QueueOK'
    <3>1. \A q \in Procs : pc[q] = "iderw" /\ ~Finished(cur[q]) => pc'[q] = "iderw" /\ cur'[q] = cur[q]
      BY <1>2, <1>0 DEF bget_wait, Runs, Sleep, Cached, Busy, procvars
    <3>2. \A q \in Procs : pc'[q] = "iderw" => pc[q] = "iderw" /\ cur'[q] = cur[q]
      BY <1>2, <1>0 DEF bget_wait, Runs, Sleep, Cached, Busy, procvars
    <3>3. idequeue' = idequeue /\ \A b \in Bufs : Busy(b) => (Finished(b)' <=> Finished(b))
      BY <1>2, <1>0 DEF bget_wait, Runs, Sleep, Cached, Busy, bufvars, Busy, Finished
    <3> QED
      BY <3>1, <3>2, <3>3, SameQueue
  <2> QED
    BY <2>1, <2>2, <2>3, <2>4
<1>3. ASSUME NEW p \in Procs, bget_recycle(p) PROVE Inv1'
  <2>1. TypeOK'
    BY <1>3 DEF TypeOK, Shape, Places, Flags, bufvars, procvars, bget_recycle, Got, Goto, Runs, Idle, Busy, Cached
  <2>2. Shape'
    BY <1>3 DEF TypeOK, Shape, bufvars, procvars, bget_recycle, Got, Goto, Runs, Idle, Busy, Cached
  <2>3. OneCopy'
    BY <1>3 DEF TypeOK, Shape, OneCopy, Owns, Busy, bufvars, procvars, bget_recycle, Got, Goto, Runs, Idle, Cached
  <2>4. QueueOK'
    <3>1. \A q \in Procs : pc[q] = "iderw" /\ ~Finished(cur[q]) => pc'[q] = "iderw" /\ cur'[q] = cur[q]
      BY <1>3, <1>0 DEF bget_recycle, Got, Goto, Runs, Idle, Busy, Cached, procvars
    <3>2. \A q \in Procs : pc'[q] = "iderw" => pc[q] = "iderw" /\ cur'[q] = cur[q]
      BY <1>3, <1>0 DEF bget_recycle, Got, Goto, Runs, Idle, Busy, Cached, procvars
    <3>3. idequeue' = idequeue /\ \A b \in Bufs : Busy(b) => (Finished(b)' <=> Finished(b))
      BY <1>3, <1>0 DEF bget_recycle, Got, Goto, Runs, Idle, Busy, Cached, bufvars, Busy, Finished
    <3> QED
      BY <3>1, <3>2, <3>3, SameQueue
  <2> QED
    BY <2>1, <2>2, <2>3, <2>4
<1>4. ASSUME NEW p \in Procs, bget_panic(p) PROVE Inv1'
  <2>1. TypeOK'
    BY <1>4 DEF TypeOK, Shape, Places, Flags, bufvars, procvars, bget_panic
  <2>2. Shape'
    BY <1>4 DEF TypeOK, Shape, bufvars, procvars, bget_panic
  <2>3. OneCopy'
    <3>1. \A q \in Procs : Owns(q)' = Owns(q)
      BY <1>4, <1>0 DEF Owns, Shape, bget_panic, procvars
    <3>2. sector' = sector /\ \A b \in Bufs : Busy(b)' <=> Busy(b)
      BY <1>4, <1>0 DEF Busy, Shape, bget_panic, bufvars
    <3> QED
      BY <3>1, <3>2, SameOwners
  <2>4. QueueOK'
    <3>1. \A q \in Procs : pc[q] = "iderw" /\ ~Finished(cur[q]) => pc'[q] = "iderw" /\ cur'[q] = cur[q]
      BY <1>4, <1>0 DEF bget_panic, procvars
    <3>2. \A q \in Procs : pc'[q] = "iderw" => pc[q] = "iderw" /\ cur'[q] = cur[q]
      BY <1>4, <1>0 DEF bget_panic, procvars
    <3>3. idequeue' = idequeue /\ \A b \in Bufs : Busy(b) => (Finished(b)' <=> Finished(b))
      BY <1>4, <1>0 DEF bget_panic, bufvars, Busy, Finished
    <3> QED
      BY <3>1, <3>2, <3>3, SameQueue
  <2> QED
    BY <2>1, <2>2, <2>3, <2>4
<1>5. ASSUME NEW p \in Procs, bread_valid(p) PROVE Inv1'
  <2>1. TypeOK'
    BY <1>5 DEF TypeOK, Shape, Places, Flags, bufvars, procvars, bread_valid, Return, Goto
  <2>2. Shape'
    BY <1>5 DEF TypeOK, Shape, bufvars, procvars, bread_valid, Return, Goto
  <2>3. OneCopy'
    <3>1. \A q \in Procs : Owns(q)' = Owns(q)
      BY <1>5, <1>0 DEF Owns, Shape, bread_valid, Return, Goto, procvars
    <3>2. sector' = sector /\ \A b \in Bufs : Busy(b)' <=> Busy(b)
      BY <1>5, <1>0 DEF Busy, Shape, bread_valid, Return, Goto, bufvars
    <3> QED
      BY <3>1, <3>2, SameOwners
  <2>4. QueueOK'
    <3>1. \A q \in Procs : pc[q] = "iderw" /\ ~Finished(cur[q]) => pc'[q] = "iderw" /\ cur'[q] = cur[q]
      BY <1>5, <1>0 DEF bread_valid, Return, Goto, procvars
    <3>2. \A q \in Procs : pc'[q] = "iderw" => pc[q] = "iderw" /\ cur'[q] = cur[q]
      BY <1>5, <1>0 DEF bread_valid, Return, Goto, procvars
    <3>3. idequeue' = idequeue /\ \A b \in Bufs : Busy(b) => (Finished(b)' <=> Finished(b))
      BY <1>5, <1>0 DEF bread_valid, Return, Goto, bufvars, Busy, Finished
    <3> QED
      BY <3>1, <3>2, <3>3, SameQueue
  <2> QED
    BY <2>1, <2>2, <2>3, <2>4
<1>6. ASSUME NEW p \in Procs, bread_miss(p) PROVE Inv1'
  <2>1. TypeOK'
    BY <1>6 DEF TypeOK, Shape, Places, Flags, bufvars, procvars, bread_miss, Enqueue, Sleep, Goto
  <2>2. Shape'
    BY <1>6 DEF TypeOK, Shape, bufvars, procvars, bread_miss, Enqueue, Sleep, Goto
  <2>3. OneCopy'
    <3>1. \A q \in Procs : Owns(q)' = Owns(q)
      BY <1>6, <1>0 DEF Owns, Shape, bread_miss, Enqueue, Sleep, Goto, procvars
    <3>2. sector' = sector /\ \A b \in Bufs : Busy(b)' <=> Busy(b)
      BY <1>6, <1>0 DEF Busy, Shape, bread_miss, Enqueue, Sleep, Goto, bufvars
    <3> QED
      BY <3>1, <3>2, SameOwners
  <2>4. QueueOK'
    <3>1. /\ pc[p] \in {"bread", "bwrite"} /\ idequeue' = Append(idequeue, cur[p])
          /\ pc' = [pc EXCEPT ![p] = "iderw"] /\ cur' = cur
      BY <1>6 DEF bread_miss, Enqueue, Sleep, Goto
    <3>2. (\A b \in Bufs : b # cur[p] => flags'[b] = flags[b]) /\ ~Finished(cur[p])'
      BY <1>6, <1>0 DEF bread_miss, Enqueue, Sleep, Goto, bufvars, Finished, Shape, TypeOK
    <3> QED
      BY <3>1, <3>2, NewRequest
  <2> QED
    BY <2>1, <2>2, <2>3, <2>4
<1>7. ASSUME NEW p \in Procs, bwrite(p) PROVE Inv1'
  <2>1. TypeOK'
    BY <1>7 DEF TypeOK, Shape, Places, Flags, bufvars, procvars, bwrite, Enqueue, Sleep, Goto
  <2>2. Shape'
    <3>1. cur[p] \in Bufs /\ sector[cur[p]] \in Sectors
      <4>1. cur[p] \in Bufs /\ Busy(cur[p])
        BY <1>7, <1>0 DEF bwrite, Shape, OneCopy, Owns
      <4> QED
        BY <4>1 DEF Busy, Shape
    <3> QED
      BY <1>7, <3>1 DEF TypeOK, Shape, bwrite, Enqueue, Sleep, Goto
  <2>3. OneCopy'
    <3>1. \A q \in Procs : Owns(q)' = Owns(q)
      BY <1>7, <1>0 DEF Owns, Shape, bwrite, Enqueue, Sleep, Goto, procvars
    <3>2. sector' = sector /\ \A b \in Bufs : Busy(b)' <=> Busy(b)
      BY <1>7, <1>0 DEF Busy, Shape, bwrite, Enqueue, Sleep, Goto, bufvars
    <3> QED
      BY <3>1, <3>2, SameOwners
  <2>4. QueueOK'
    <3>1. /\ pc[p] \in {"bread", "bwrite"} /\ idequeue' = Append(idequeue, cur[p])
          /\ pc' = [pc EXCEPT ![p] = "iderw"] /\ cur' = cur
      BY <1>7 DEF bwrite, Enqueue, Sleep, Goto
    <3>2. (\A b \in Bufs : b # cur[p] => flags'[b] = flags[b]) /\ ~Finished(cur[p])'
      BY <1>7, <1>0 DEF bwrite, Enqueue, Sleep, Goto, bufvars, Finished, Shape, TypeOK
    <3> QED
      BY <3>1, <3>2, NewRequest
  <2> QED
    BY <2>1, <2>2, <2>3, <2>4
<1>8. ASSUME NEW p \in Procs, iderw_done(p) PROVE Inv1'
  <2>1. TypeOK'
    BY <1>8 DEF TypeOK, Shape, Places, Flags, bufvars, procvars, iderw_done, Return, Goto, Runs
  <2>2. Shape'
    BY <1>8 DEF TypeOK, Shape, bufvars, procvars, iderw_done, Return, Goto, Runs
  <2>3. OneCopy'
    <3>1. \A q \in Procs : Owns(q)' = Owns(q)
      BY <1>8, <1>0 DEF Owns, Shape, iderw_done, Return, Goto, Runs, procvars
    <3>2. sector' = sector /\ \A b \in Bufs : Busy(b)' <=> Busy(b)
      BY <1>8, <1>0 DEF Busy, Shape, iderw_done, Return, Goto, Runs, bufvars
    <3> QED
      BY <3>1, <3>2, SameOwners
  <2>4. QueueOK'
    <3>1. \A q \in Procs : pc[q] = "iderw" /\ ~Finished(cur[q]) => pc'[q] = "iderw" /\ cur'[q] = cur[q]
      BY <1>8, <1>0 DEF iderw_done, Return, Goto, Runs, procvars
    <3>2. \A q \in Procs : pc'[q] = "iderw" => pc[q] = "iderw" /\ cur'[q] = cur[q]
      BY <1>8, <1>0 DEF iderw_done, Return, Goto, Runs, procvars
    <3>3. idequeue' = idequeue /\ \A b \in Bufs : Busy(b) => (Finished(b)' <=> Finished(b))
      BY <1>8, <1>0 DEF iderw_done, Return, Goto, Runs, bufvars, Busy, Finished
    <3> QED
      BY <3>1, <3>2, <3>3, SameQueue
  <2> QED
    BY <2>1, <2>2, <2>3, <2>4
<1>9. ASSUME NEW p \in Procs, iderw_again(p) PROVE Inv1'
  <2>1. TypeOK'
    BY <1>9 DEF TypeOK, Shape, Places, Flags, bufvars, procvars, iderw_again, Sleep, Runs
  <2>2. Shape'
    BY <1>9 DEF TypeOK, Shape, bufvars, procvars, iderw_again, Sleep, Runs
  <2>3. OneCopy'
    <3>1. \A q \in Procs : Owns(q)' = Owns(q)
      BY <1>9, <1>0 DEF Owns, Shape, iderw_again, Sleep, Runs, procvars
    <3>2. sector' = sector /\ \A b \in Bufs : Busy(b)' <=> Busy(b)
      BY <1>9, <1>0 DEF Busy, Shape, iderw_again, Sleep, Runs, bufvars
    <3> QED
      BY <3>1, <3>2, SameOwners
  <2>4. QueueOK'
    <3>1. \A q \in Procs : pc[q] = "iderw" /\ ~Finished(cur[q]) => pc'[q] = "iderw" /\ cur'[q] = cur[q]
      BY <1>9, <1>0 DEF iderw_again, Sleep, Runs, procvars
    <3>2. \A q \in Procs : pc'[q] = "iderw" => pc[q] = "iderw" /\ cur'[q] = cur[q]
      BY <1>9, <1>0 DEF iderw_again, Sleep, Runs, procvars
    <3>3. idequeue' = idequeue /\ \A b \in Bufs : Busy(b) => (Finished(b)' <=> Finished(b))
      BY <1>9, <1>0 DEF iderw_again, Sleep, Runs, bufvars, Busy, Finished
    <3> QED
      BY <3>1, <3>2, <3>3, SameQueue
  <2> QED
    BY <2>1, <2>2, <2>3, <2>4
<1>10. ASSUME NEW p \in Procs, NEW s \in Sectors, Ask(p, s) PROVE Inv1'
  <2>1. TypeOK'
    BY <1>10 DEF TypeOK, Shape, Places, Flags, bufvars, procvars, Ask, Goto
  <2>2. Shape'
    BY <1>10 DEF TypeOK, Shape, bufvars, procvars, Ask, Goto
  <2>3. OneCopy'
    <3>1. \A q \in Procs : Owns(q)' = Owns(q)
      BY <1>10, <1>0 DEF Owns, Shape, Ask, Goto, procvars
    <3>2. sector' = sector /\ \A b \in Bufs : Busy(b)' <=> Busy(b)
      BY <1>10, <1>0 DEF Busy, Shape, Ask, Goto, bufvars
    <3> QED
      BY <3>1, <3>2, SameOwners
  <2>4. QueueOK'
    <3>1. \A q \in Procs : pc[q] = "iderw" /\ ~Finished(cur[q]) => pc'[q] = "iderw" /\ cur'[q] = cur[q]
      BY <1>10, <1>0 DEF Ask, Goto, procvars
    <3>2. \A q \in Procs : pc'[q] = "iderw" => pc[q] = "iderw" /\ cur'[q] = cur[q]
      BY <1>10, <1>0 DEF Ask, Goto, procvars
    <3>3. idequeue' = idequeue /\ \A b \in Bufs : Busy(b) => (Finished(b)' <=> Finished(b))
      BY <1>10, <1>0 DEF Ask, Goto, bufvars, Busy, Finished
    <3> QED
      BY <3>1, <3>2, <3>3, SameQueue
  <2> QED
    BY <2>1, <2>2, <2>3, <2>4
<1>11. ASSUME NEW p \in Procs, NEW b \in Bufs, brelse(p, b) PROVE Inv1'
  <2>1. TypeOK'
    BY <1>11, FrontType DEF TypeOK, Shape, Places, Flags, bufvars, procvars, brelse, wakeup
  <2>2. Shape'
    BY <1>11 DEF TypeOK, Shape, bufvars, procvars, brelse, wakeup
  <2>3. OneCopy'
    <3>1. \A q \in Procs : Owns(q)' = Owns(q) \ {b}
      <4>1. b \in Owns(p) /\ Owns(p)' = Owns(p) \ {b}
        BY <1>11, <1>0 DEF Owns, brelse
      <4>2. ASSUME NEW q \in Procs, q # p PROVE b \notin Owns(q) /\ Owns(q)' = Owns(q)
        BY <4>1, <4>2, <1>11, <1>0 DEF Owns, brelse, OneCopy
      <4> QED
        BY <4>1, <4>2
    <3>2. sector' = sector /\ \A c \in Bufs : Busy(c)' <=> Busy(c) /\ c # b
      BY <1>11, <1>0 DEF Busy, brelse
    <3> QED
      BY <3>1, <3>2 DEF OneCopy
  <2>4. QueueOK'
    <3>1. pc' = pc /\ cur' = cur /\ idequeue' = idequeue
      BY <1>11 DEF brelse
    <3>2. \A c \in Bufs : Finished(c)' <=> Finished(c)
      BY <1>11, <1>0 DEF brelse, Finished
    <3> QED
      BY <3>1, <3>2, SameQueue
  <2> QED
    BY <2>1, <2>2, <2>3, <2>4
<1>12. ASSUME NEW p \in Procs, NEW b \in Bufs, NEW v \in Values, Modify(p, b, v) PROVE Inv1'
  <2>1. TypeOK'
    BY <1>12 DEF TypeOK, Shape, Places, Flags, bufvars, procvars, Modify, Goto
  <2>2. Shape'
    BY <1>12 DEF TypeOK, Shape, bufvars, procvars, Modify, Goto
  <2>3. OneCopy'
    <3>1. \A q \in Procs : Owns(q)' = Owns(q)
      BY <1>12, <1>0 DEF Owns, Shape, Modify, Goto, procvars
    <3>2. sector' = sector /\ \A c \in Bufs : Busy(c)' <=> Busy(c)
      BY <1>12, <1>0 DEF Busy, Shape, Modify, Goto, bufvars
    <3> QED
      BY <3>1, <3>2, SameOwners
  <2>4. QueueOK'
    <3>1. \A q \in Procs : pc[q] = "iderw" /\ ~Finished(cur[q]) => pc'[q] = "iderw" /\ cur'[q] = cur[q]
      BY <1>12, <1>0 DEF Modify, Goto, procvars
    <3>2. \A q \in Procs : pc'[q] = "iderw" => pc[q] = "iderw" /\ cur'[q] = cur[q]
      BY <1>12, <1>0 DEF Modify, Goto, procvars
    <3>3. idequeue' = idequeue /\ \A c \in Bufs : Busy(c) => (Finished(c)' <=> Finished(c))
      BY <1>12, <1>0 DEF Modify, Goto, bufvars, Busy, Finished
    <3> QED
      BY <3>1, <3>2, <3>3, SameQueue
  <2> QED
    BY <2>1, <2>2, <2>3, <2>4
<1>13. ASSUME ideintr PROVE Inv1'
  <2>1. TypeOK'
    <3> DEFINE b == Head(idequeue)
    <3>1. b \in Bufs /\ Tail(idequeue) \in Seq(Bufs) /\ sector[b] \in Sectors
      <4>1. b \in Bufs /\ b = idequeue[1] /\ 1 \in 1 .. Len(idequeue) /\ Tail(idequeue) \in Seq(Bufs)
        BY <1>13, TailOf DEF ideintr, TypeOK
      <4>2. Busy(b)
        BY <4>1 DEF QueueOK, OneCopy, Owns
      <4> QED
        BY <4>1, <4>2 DEF Busy, Shape
    <3>2. flags' \in [Bufs -> SUBSET Flags]
      BY <1>13, <3>1, <1>0 DEF ideintr, Flags
    <3>3. data' \in [Bufs -> Values] /\ disk' \in [Sectors -> Values]
      BY <1>13, <3>1 DEF ideintr, TypeOK
    <3>4. chan' \in [Procs -> Bufs \cup {NoBuf}]
      BY <1>13 DEF ideintr, wakeup, TypeOK
    <3> QED
      BY <1>13, <3>1, <3>2, <3>3, <3>4 DEF ideintr, TypeOK
  <2>2. Shape'
    <3>1. Head(idequeue) \in Bufs /\ Busy(Head(idequeue))
      BY <1>13, TailOf DEF ideintr, TypeOK, QueueOK, OneCopy, Owns
    <3> QED
      BY <1>13, <3>1, <1>0 DEF ideintr, Shape, Busy
  <2>3. OneCopy'
    <3>1. \A q \in Procs : Owns(q)' = Owns(q)
      BY <1>13 DEF Owns, ideintr
    <3>2. sector' = sector /\ \A b \in Bufs : Busy(b)' <=> Busy(b)
      BY <1>13, <1>0 DEF Busy, ideintr
    <3> QED
      BY <3>1, <3>2, SameOwners
  <2>4. QueueOK'
    <3>1. /\ Head(idequeue) \in Bufs /\ Head(idequeue) = idequeue[1] /\ 1 \in 1 .. Len(idequeue)
          /\ idequeue' = Tail(idequeue) /\ Len(idequeue') = Len(idequeue) - 1
          /\ \A i \in 1 .. Len(idequeue') : idequeue'[i] = idequeue[i + 1] /\ i + 1 \in 1 .. Len(idequeue)
          /\ Len(idequeue) \in Nat
      BY <1>13, TailOf DEF ideintr, TypeOK
    <3>h. PICK h \in Bufs : h = Head(idequeue)
      BY <3>1
    <3>2. /\ pc' = pc /\ cur' = cur /\ Finished(h)'
          /\ \A b \in Bufs : b # h => (Finished(b)' <=> Finished(b))
      BY <1>13, <3>h, <1>0 DEF ideintr, Finished
    <3>3. ASSUME NEW i \in 1 .. Len(idequeue')
          PROVE  ~Finished(idequeue[i])' /\ \E q \in Procs : pc'[q] = "iderw" /\ cur'[q] = idequeue'[i]
      <4>1. idequeue'[i] = idequeue[i + 1] /\ i + 1 \in 1 .. Len(idequeue) /\ i + 1 # 1
        BY <3>1
      <4>2. idequeue[i + 1] # h /\ idequeue[i + 1] \in Bufs
        BY <4>1, <3>1, <3>h DEF QueueOK, TypeOK
      <4>3. ~Finished(idequeue[i + 1]) /\ \E q \in Procs : pc[q] = "iderw" /\ cur[q] = idequeue[i + 1]
        BY <4>1 DEF QueueOK
      <4>4. PICK c \in Bufs : c = idequeue[i + 1]
        BY <4>2
      <4>5. ~Finished(c)' /\ idequeue'[i] = c
        BY <4>1, <4>2, <4>3, <4>4, <3>2
      <4> QED
        BY <4>3, <4>4, <4>5, <3>2
    <3>4. \A i, j \in 1 .. Len(idequeue') : idequeue'[i] = idequeue'[j] => i = j
      BY <3>1 DEF QueueOK
    <3>5. ASSUME NEW q \in Procs, pc'[q] = "iderw", ~Finished(cur[q])' PROVE Queued(cur[q])'
      <4>1. pc[q] = "iderw" /\ cur[q] # h /\ cur[q] \in Bufs
        BY <3>5, <3>2 DEF Shape
      <4>2. ~Finished(cur[q])
        BY <3>5, <3>2, <4>1
      <4>3. PICK i \in 1 .. Len(idequeue) : idequeue[i] = cur[q]
        BY <4>1, <4>2 DEF QueueOK, Queued
      <4>4. i - 1 \in 1 .. Len(idequeue') /\ idequeue'[i - 1] = cur[q]
        BY <3>1, <3>h, <4>1, <4>3
      <4> QED
        BY <3>2, <4>4 DEF Queued
    <3> QED
      BY <3>3, <3>4, <3>5 DEF QueueOK
  <2> QED
    BY <2>1, <2>2, <2>3, <2>4
<1>14. ASSUME UNCHANGED vars PROVE Inv1'
  BY <1>14 DEF vars, bufvars, procvars, TypeOK, Shape, OneCopy, Owns, Busy, QueueOK, Queued, Finished
<1> QED
  BY <1>1, <1>2, <1>3, <1>4, <1>5, <1>6, <1>7, <1>8, <1>9, <1>10, <1>11, <1>12, <1>13, <1>14 DEF Next, Work

----------------------------------------------------------------------------
(* Wakeups.                                                                *)

\* The callers ask for sectors in one order.
Ordered == \A p \in Procs : pc[p] = "bget" => \A b \in held[p] : sector[b] < want[p]

\* A sleeper is still owed its wakeup when its place, its buffers, the busy
\* flags and the queue are kept.
LEMMA SameSleeper ==
  ASSUME OwedWakeup, NEW q \in Procs, chan'[q] = chan[q], chan[q] # NoBuf,
         pc'[q] = pc[q], cur'[q] = cur[q], Owns(q)' = Owns(q),
         "B_BUSY" \in flags[chan[q]] => "B_BUSY" \in flags'[chan[q]],
         Queued(chan[q]) => \E i \in 1 .. Len(idequeue') : idequeue'[i] = chan[q]
  PROVE  \/ pc'[q] = "bget" /\ "B_BUSY" \in flags'[chan'[q]] /\ chan'[q] \notin Owns(q)'
         \/ /\ pc'[q] = "iderw" /\ chan'[q] = cur'[q]
            /\ \E i \in 1 .. Len(idequeue') : idequeue'[i] = cur'[q]
BY DEF OwedWakeup, Busy, Queued

\* Every step keeps the queue in order and every sleeper a wakeup it is owed.
LEMMA NextOwed ==
  ASSUME Inv1, Inv1', Ordered, OwedWakeup, [Next]_vars
  PROVE  Ordered' /\ OwedWakeup'
<1> USE DEF Inv1
<1>0. /\ pc \in [Procs -> Places] /\ cur \in [Procs -> Bufs \cup {NoBuf}]
      /\ held \in [Procs -> SUBSET Bufs] /\ flags \in [Bufs -> SUBSET Flags]
      /\ chan \in [Procs -> Bufs \cup {NoBuf}] /\ want \in [Procs -> Sectors \cup {NoSector}]
      /\ sector \in [Bufs -> Sectors \cup {NoSector}] /\ idequeue \in Seq(Bufs)
  BY DEF TypeOK
<1>1. ASSUME NEW p \in Procs, bget_hit(p) PROVE Ordered' /\ OwedWakeup'
  <2>1. Ordered'
    BY <1>1, <1>0 DEF Ordered, bufvars, procvars, TypeOK, Shape, bget_hit, Got, Goto, Runs, Cached, Busy
  <2>2. OwedWakeup'
    BY <1>1, <1>0 DEF OwedWakeup, Shape, OneCopy, Owns, Busy, Queued, bufvars, procvars, bget_hit, Got, Goto, Runs, Cached
  <2> QED
    BY <2>1, <2>2
<1>2. ASSUME NEW p \in Procs, bget_wait(p) PROVE Ordered' /\ OwedWakeup'
  <2>1. Ordered'
    BY <1>2, <1>0 DEF Ordered, bufvars, procvars, TypeOK, Shape, bget_wait, Runs, Sleep, Cached, Busy
  <2>2. OwedWakeup'
    <3>1. PICK b \in Bufs : sector[b] = want[p] /\ Busy(b) /\ chan' = [chan EXCEPT ![p] = b]
      BY <1>2 DEF bget_wait, Cached, Sleep
    <3>2. b \notin held[p]
      BY <1>2, <3>1, BufAssumption DEF bget_wait, Runs, Ordered, Shape
    <3> QED
      BY <1>2, <3>1, <3>2, <1>0 DEF OwedWakeup, Owns, Busy, Queued, bufvars, bget_wait, Runs
  <2> QED
    BY <2>1, <2>2
<1>3. ASSUME NEW p \in Procs, bget_recycle(p) PROVE Ordered' /\ OwedWakeup'
  <2>1. Ordered'
    <3>1. PICK i \in Idle : sector' = [sector EXCEPT ![lru[i]] = want[p]]
      BY <1>3 DEF bget_recycle
    <3>2. \A q \in Procs : \A c \in held[q] : c # lru[i]
      <4>1. ~Busy(lru[i])
        BY <3>1 DEF Idle
      <4>2. \A q \in Procs : \A c \in held[q] : Busy(c)
        BY <1>0 DEF OneCopy, Owns
      <4> QED
        BY <4>1, <4>2
    <3>3. \A q \in Procs : \A c \in held[q] : sector'[c] = sector[c]
      BY <3>1, <3>2, <1>0
    <3>4. \A q \in Procs : pc'[q] = "bget" => pc[q] = "bget" /\ want'[q] = want[q] /\ held'[q] = held[q]
      BY <1>3, <1>0 DEF bget_recycle, Got, Goto, Runs
    <3> QED
      BY <3>3, <3>4 DEF Ordered
  <2>2. OwedWakeup'
    BY <1>3, <1>0 DEF OwedWakeup, Shape, OneCopy, Owns, Busy, Queued, bufvars, procvars, bget_recycle, Got, Goto, Runs, Idle, Cached
  <2> QED
    BY <2>1, <2>2
<1>4. ASSUME NEW p \in Procs, bget_panic(p) PROVE Ordered' /\ OwedWakeup'
  <2>1. Ordered'
    BY <1>4, <1>0 DEF Ordered, bufvars, procvars, TypeOK, Shape, bget_panic
  <2>2. OwedWakeup'
    BY <1>4, <1>0 DEF OwedWakeup, Shape, OneCopy, Owns, Busy, Queued, bufvars, procvars, bget_panic
  <2> QED
    BY <2>1, <2>2
<1>5. ASSUME NEW p \in Procs, bread_valid(p) PROVE Ordered' /\ OwedWakeup'
  <2>1. Ordered'
    BY <1>5, <1>0 DEF Ordered, bufvars, procvars, TypeOK, Shape, bread_valid, Return, Goto
  <2>2. OwedWakeup'
    BY <1>5, <1>0 DEF OwedWakeup, Shape, OneCopy, Owns, Busy, Queued, bufvars, procvars, bread_valid, Return, Goto
  <2> QED
    BY <2>1, <2>2
<1>6. ASSUME NEW p \in Procs, bread_miss(p) PROVE Ordered' /\ OwedWakeup'
  <2>1. Ordered'
    BY <1>6, <1>0 DEF Ordered, bufvars, procvars, TypeOK, Shape, bread_miss, Enqueue, Sleep, Goto
  <2>2. OwedWakeup'
    BY <1>6, <1>0 DEF OwedWakeup, Shape, OneCopy, Owns, Busy, Queued, bufvars, procvars, bread_miss, Enqueue, Sleep, Goto
  <2> QED
    BY <2>1, <2>2
<1>7. ASSUME NEW p \in Procs, bwrite(p) PROVE Ordered' /\ OwedWakeup'
  <2>1. Ordered'
    BY <1>7, <1>0 DEF Ordered, bufvars, procvars, TypeOK, Shape, bwrite, Enqueue, Sleep, Goto
  <2>2. OwedWakeup'
    BY <1>7, <1>0 DEF OwedWakeup, Shape, OneCopy, Owns, Busy, Queued, bufvars, procvars, bwrite, Enqueue, Sleep, Goto
  <2> QED
    BY <2>1, <2>2
<1>8. ASSUME NEW p \in Procs, iderw_done(p) PROVE Ordered' /\ OwedWakeup'
  <2>1. Ordered'
    BY <1>8, <1>0 DEF Ordered, bufvars, procvars, TypeOK, Shape, iderw_done, Return, Goto, Runs
  <2>2. OwedWakeup'
    BY <1>8, <1>0 DEF OwedWakeup, Shape, OneCopy, Owns, Busy, Queued, bufvars, procvars, iderw_done, Return, Goto, Runs
  <2> QED
    BY <2>1, <2>2
<1>9. ASSUME NEW p \in Procs, iderw_again(p) PROVE Ordered' /\ OwedWakeup'
  <2>1. Ordered'
    BY <1>9, <1>0 DEF Ordered, bufvars, procvars, TypeOK, Shape, iderw_again, Sleep, Runs
  <2>2. OwedWakeup'
    <3>1. Queued(cur[p])
      BY <1>9 DEF iderw_again, Runs, QueueOK
    <3> QED
      BY <1>9, <3>1, <1>0 DEF OwedWakeup, Owns, Busy, Queued, bufvars, iderw_again, Sleep, Runs
  <2> QED
    BY <2>1, <2>2
<1>10. ASSUME NEW p \in Procs, NEW s \in Sectors, Ask(p, s) PROVE Ordered' /\ OwedWakeup'
  <2>1. Ordered'
    BY <1>10, <1>0 DEF Ordered, bufvars, procvars, TypeOK, Shape, Ask, Goto
  <2>2. OwedWakeup'
    BY <1>10, <1>0 DEF OwedWakeup, Shape, OneCopy, Owns, Busy, Queued, bufvars, procvars, Ask, Goto
  <2> QED
    BY <2>1, <2>2
<1>11. ASSUME NEW p \in Procs, NEW b \in Bufs, brelse(p, b) PROVE Ordered' /\ OwedWakeup'
  <2>1. Ordered'
    BY <1>11, <1>0 DEF Ordered, bufvars, procvars, TypeOK, Shape, brelse, wakeup
  <2>2. OwedWakeup'
    BY <1>11, <1>0 DEF OwedWakeup, Shape, OneCopy, Owns, Busy, Queued, bufvars, procvars, brelse, wakeup
  <2> QED
    BY <2>1, <2>2
<1>12. ASSUME NEW p \in Procs, NEW b \in Bufs, NEW v \in Values, Modify(p, b, v) PROVE Ordered' /\ OwedWakeup'
  <2>1. Ordered'
    BY <1>12, <1>0 DEF Ordered, bufvars, procvars, TypeOK, Shape, Modify, Goto
  <2>2. OwedWakeup'
    BY <1>12, <1>0 DEF OwedWakeup, Shape, OneCopy, Owns, Busy, Queued, bufvars, procvars, Modify, Goto
  <2> QED
    BY <2>1, <2>2
<1>13. ASSUME ideintr PROVE Ordered' /\ OwedWakeup'
  <2>1. Ordered'
    BY <1>13, <1>0 DEF Ordered, bufvars, procvars, TypeOK, Shape, ideintr, wakeup
  <2>2. OwedWakeup'
    <3>1. /\ Head(idequeue) \in Bufs /\ Head(idequeue) = idequeue[1]
          /\ idequeue' = Tail(idequeue) /\ Len(idequeue') = Len(idequeue) - 1
          /\ \A i \in 1 .. Len(idequeue') : idequeue'[i] = idequeue[i + 1] /\ i + 1 \in 1 .. Len(idequeue)
          /\ Len(idequeue) \in Nat
      BY <1>13, <1>0, TailOf DEF ideintr
    <3>2. PICK h \in Bufs : h = Head(idequeue)
      BY <3>1
    <3>3. /\ pc' = pc /\ cur' = cur /\ held' = held
          /\ \A b \in Bufs : "B_BUSY" \in flags[b] => "B_BUSY" \in flags'[b]
          /\ \A q \in Procs : chan'[q] # NoBuf => chan'[q] = chan[q] /\ chan[q] # h
      BY <1>13, <3>2, <1>0, BufAssumption DEF ideintr, wakeup
    <3>4. ASSUME NEW q \in Procs, chan'[q] # NoBuf
          PROVE  \/ pc'[q] = "bget" /\ "B_BUSY" \in flags'[chan'[q]] /\ chan'[q] \notin Owns(q)'
                 \/ /\ pc'[q] = "iderw" /\ chan'[q] = cur'[q]
                    /\ \E i \in 1 .. Len(idequeue') : idequeue'[i] = cur'[q]
      <4>1. chan'[q] = chan[q] /\ chan[q] # NoBuf /\ chan[q] # h /\ chan[q] \in Bufs
        BY <3>3, <3>4, <1>0
      <4>2. Owns(q)' = Owns(q)
        BY <3>3 DEF Owns
      <4>3. ASSUME NEW i \in 1 .. Len(idequeue), idequeue[i] = chan[q]
            PROVE  \E j \in 1 .. Len(idequeue') : idequeue'[j] = chan[q]
        <5>1. i # 1
          BY <4>1, <4>3, <3>1, <3>2
        <5>2. i - 1 \in 1 .. Len(idequeue') /\ idequeue'[i - 1] = chan[q]
          BY <5>1, <4>3, <3>1
        <5> QED
          BY <5>2
      <4> QED
        BY <4>1, <4>2, <4>3, <3>3, SameSleeper DEF Queued
    <3> QED
      BY <3>4 DEF OwedWakeup, Busy, Queued
  <2> QED
    BY <2>1, <2>2
<1>14. ASSUME UNCHANGED vars PROVE Ordered' /\ OwedWakeup'
  BY <1>14 DEF vars, bufvars, procvars, Ordered, OwedWakeup, Owns, Busy, Queued
<1> QED
  BY <1>1, <1>2, <1>3, <1>4, <1>5, <1>6, <1>7, <1>8, <1>9, <1>10, <1>11, <1>12, <1>13, <1>14 DEF Next, Work

----------------------------------------------------------------------------
(* Contents.                                                               *)

\* A process that is in none of the calls works on no buffer.
NoWork == \A p \in Procs : pc[p] \in {"run", "bget"} => cur[p] = NoBuf

\* Of a buffer in the queue, only the process in iderw is the owner; a process
\* that leaves bread or iderw was not writing.
LEMMA LeaverNotQueued ==
  ASSUME Inv1, NEW p \in Procs,
         pc[p] = "bread" \/ (pc[p] = "iderw" /\ Finished(cur[p]))
  PROVE  ~Queued(cur[p])
<1> SUFFICES ASSUME NEW i \in 1 .. Len(idequeue), idequeue[i] = cur[p] PROVE FALSE
  BY DEF Queued
<1>1. PICK q \in Procs : pc[q] = "iderw" /\ cur[q] = cur[p] /\ ~Finished(cur[p])
  BY DEF Inv1, QueueOK
<1>2. cur[p] \in Owns(p) /\ cur[p] \in Owns(q)
  BY <1>1 DEF Owns
<1>3. p = q
  BY <1>2 DEF Inv1, OneCopy
<1> QED
  BY <1>1, <1>3

\* Every step keeps a valid buffer equal to its sector.
LEMMA NextValid ==
  ASSUME Inv1, Inv1', NoWork, ValidIsDisk, [Next]_vars
  PROVE  NoWork' /\ ValidIsDisk'
<1>0. /\ pc \in [Procs -> Places] /\ cur \in [Procs -> Bufs \cup {NoBuf}]
      /\ held \in [Procs -> SUBSET Bufs] /\ flags \in [Bufs -> SUBSET Flags]
      /\ data \in [Bufs -> Values] /\ disk \in [Sectors -> Values]
      /\ sector \in [Bufs -> Sectors \cup {NoSector}] /\ idequeue \in Seq(Bufs)
  BY DEF Inv1, TypeOK
\* A step that keeps the disk, the contents of every buffer that stays valid,
\* and every writer, keeps ValidIsDisk.
<1>a. ASSUME disk' = disk,
             \A b \in Bufs : "B_VALID" \in flags'[b] =>
                               /\ "B_VALID" \in flags[b] /\ sector'[b] = sector[b]
                               /\ data'[b] = data[b] \/ Writing(b)',
             \A b \in Bufs : Writing(b) => Writing(b)'
      PROVE  ValidIsDisk'
  BY <1>a DEF ValidIsDisk
<1>1. ASSUME NEW p \in Procs, bget_hit(p) PROVE NoWork' /\ ValidIsDisk'
  <2>1. NoWork'
    BY <1>1, <1>0 DEF NoWork, bget_hit, Got, Goto, Runs
  <2>2. \A b \in Bufs : Writing(b) => Writing(b)'
    BY <1>1, <1>0, BufAssumption DEF NoWork, Writing, Queued, bget_hit, Got, Goto, Runs
  <2>3. \A b \in Bufs : "B_VALID" \in flags'[b] => "B_VALID" \in flags[b]
    BY <1>1, <1>0 DEF bget_hit
  <2> QED
    BY <2>1, <2>2, <2>3, <1>a, <1>1 DEF bget_hit
<1>2. ASSUME NEW p \in Procs, bget_wait(p) \/ iderw_again(p) \/ bget_panic(p)
      PROVE  NoWork' /\ ValidIsDisk'
  BY <1>2 DEF NoWork, ValidIsDisk, Writing, Queued, bget_wait, iderw_again, bget_panic,
              bufvars, procvars
<1>3. ASSUME NEW p \in Procs, bget_recycle(p) PROVE NoWork' /\ ValidIsDisk'
  <2>1. NoWork'
    BY <1>3, <1>0 DEF NoWork, bget_recycle, Got, Goto, Runs
  <2>2. \A b \in Bufs : Writing(b) => Writing(b)'
    BY <1>3, <1>0, BufAssumption DEF NoWork, Writing, Queued, bget_recycle, Got, Goto, Runs
  <2>3. \A b \in Bufs : "B_VALID" \in flags'[b] => "B_VALID" \in flags[b] /\ sector'[b] = sector[b]
    BY <1>3, <1>0 DEF bget_recycle
  <2> QED
    BY <2>1, <2>2, <2>3, <1>a, <1>3 DEF bget_recycle
<1>4. ASSUME NEW p \in Procs, bread_valid(p) \/ iderw_done(p) PROVE NoWork' /\ ValidIsDisk'
  <2>1. NoWork'
    BY <1>4, <1>0 DEF NoWork, bread_valid, iderw_done, Return, Goto
  <2>2. ~Queued(cur[p]) /\ pc[p] # "bwrite"
    BY <1>4, LeaverNotQueued DEF bread_valid, iderw_done, Runs
  <2>3. \A b \in Bufs : Writing(b) => Writing(b)'
    BY <1>4, <2>2, <1>0 DEF Writing, Queued, bread_valid, iderw_done, Return, Goto
  <2> QED
    BY <2>1, <2>3, <1>a, <1>4 DEF bread_valid, iderw_done, bufvars
<1>5. ASSUME NEW p \in Procs, bread_miss(p) \/ bwrite(p) PROVE NoWork' /\ ValidIsDisk'
  <2>1. NoWork' /\ cur' = cur
    BY <1>5, <1>0 DEF NoWork, bread_miss, bwrite, Enqueue, Goto
  <2>2. cur[p] \in Bufs /\ idequeue' = Append(idequeue, cur[p])
    BY <1>5, <1>0 DEF Inv1, Shape, bread_miss, bwrite, Enqueue
  <2>3. \A b \in Bufs : Queued(b) \/ b = cur[p] => \E i \in 1 .. Len(idequeue') : idequeue'[i] = b
    <3>1. /\ Len(idequeue') = Len(idequeue) + 1 /\ Len(idequeue) \in Nat
          /\ \A i \in 1 .. Len(idequeue) : idequeue'[i] = idequeue[i]
          /\ idequeue'[Len(idequeue) + 1] = cur[p]
      BY <2>2, <1>0, AppendOf
    <3> QED
      BY <3>1 DEF Queued
  <2>4. \A q \in Procs : q # p => pc'[q] = pc[q]
    BY <1>5, <1>0 DEF bread_miss, bwrite, Enqueue, Goto
  <2>5. \A b \in Bufs : Writing(b) => Writing(b)'
    BY <2>1, <2>3, <2>4 DEF Writing, Queued
  <2>6. \A b \in Bufs : "B_VALID" \in flags'[b] => "B_VALID" \in flags[b]
    BY <1>5, <2>2, <1>0 DEF bread_miss, bwrite, bufvars
  <2> QED
    BY <2>1, <2>5, <2>6, <1>a, <1>5 DEF bread_miss, bwrite, bufvars
<1>6. ASSUME NEW p \in Procs, NEW s \in Sectors, Ask(p, s) PROVE NoWork' /\ ValidIsDisk'
  <2>1. NoWork'
    BY <1>6, <1>0 DEF NoWork, Ask, Goto
  <2>2. \A b \in Bufs : Writing(b) => Writing(b)'
    BY <1>6, <1>0 DEF Writing, Queued, Ask, Goto
  <2> QED
    BY <2>1, <2>2, <1>a, <1>6 DEF Ask, bufvars
<1>7. ASSUME NEW p \in Procs, NEW b \in Bufs, brelse(p, b) PROVE NoWork' /\ ValidIsDisk'
  <2>1. NoWork' /\ \A c \in Bufs : Writing(c) => Writing(c)'
    BY <1>7 DEF NoWork, brelse, Writing, Queued
  <2>2. \A c \in Bufs : "B_VALID" \in flags'[c] => "B_VALID" \in flags[c]
    BY <1>7, <1>0 DEF brelse
  <2> QED
    BY <2>1, <2>2, <1>a, <1>7 DEF brelse
<1>8. ASSUME NEW p \in Procs, NEW b \in Bufs, NEW v \in Values, Modify(p, b, v)
      PROVE  NoWork' /\ ValidIsDisk'
  <2>1. NoWork'
    BY <1>8, <1>0 DEF NoWork, Modify, Goto
  <2>2. Writing(b)' /\ \A c \in Bufs : Writing(c) => Writing(c)'
    BY <1>8, <1>0, BufAssumption DEF NoWork, Writing, Queued, Modify, Goto
  <2>3. \A c \in Bufs : data'[c] = data[c] \/ Writing(c)'
    BY <1>8, <2>2, <1>0 DEF Modify
  <2> QED
    BY <2>1, <2>2, <2>3, <1>a, <1>8 DEF Modify
<1>9. ASSUME ideintr PROVE NoWork' /\ ValidIsDisk'
  <2>0. PICK h \in Bufs : h = Head(idequeue)
    BY <1>9, <1>0, TailOf DEF ideintr
  <2>1. NoWork' /\ cur' = cur /\ pc' = pc /\ sector' = sector
    BY <1>9 DEF NoWork, ideintr
  <2>2. sector[h] \in Sectors
    <3>1. 1 \in 1 .. Len(idequeue) /\ h = idequeue[1]
      BY <1>9, <2>0, <1>0, TailOf DEF ideintr
    <3>2. PICK q \in Procs : pc[q] = "iderw" /\ cur[q] = h
      BY <3>1 DEF Inv1, QueueOK
    <3>3. Busy(h)
      BY <3>2 DEF Inv1, OneCopy, Owns
    <3> QED
      BY <3>3 DEF Busy, Inv1, Shape
  <2>3. /\ sector[h] \notin BadSectors => data'[h] = disk'[sector[h]]
        /\ \A c \in Bufs : c # h => data'[c] = data[c] /\ flags'[c] = flags[c]
        /\ \A s \in Sectors : s # sector[h] => disk'[s] = disk[s]
    BY <1>9, <2>0, <2>2, <1>0 DEF ideintr
  <2>4. ASSUME NEW c \in Bufs, c # h, Writing(c) PROVE Writing(c)'
    <3>1. PICK q \in Procs : cur[q] = c /\ (pc[q] = "bwrite" \/ Queued(c))
      BY <2>4 DEF Writing
    <3>2. CASE pc[q] = "bwrite"
      BY <3>1, <3>2, <2>1 DEF Writing
    <3>3. CASE Queued(c)
      <4>1. PICK i \in 1 .. Len(idequeue) : idequeue[i] = c
        BY <3>3 DEF Queued
      <4>2. /\ idequeue[1] = h /\ idequeue' = Tail(idequeue) /\ Len(idequeue) \in Nat
            /\ Len(Tail(idequeue)) = Len(idequeue) - 1
            /\ \A j \in 1 .. Len(Tail(idequeue)) : Tail(idequeue)[j] = idequeue[j + 1]
        BY <1>9, <2>0, <1>0, TailOf DEF ideintr
      <4>3. i - 1 \in 1 .. Len(idequeue') /\ idequeue'[i - 1] = c
        BY <4>1, <4>2, <2>4
      <4> QED
        BY <4>3, <3>1, <2>1 DEF Writing, Queued
    <3> QED
      BY <3>1, <3>2, <3>3
  <2>5. ASSUME NEW c \in Bufs, "B_VALID" \in flags'[c], ~Writing(c)',
               sector'[c] \notin BadSectors
        PROVE  data'[c] = disk'[sector'[c]]
    <3>1. CASE c = h
      BY <3>1, <2>3, <2>1, <2>5
    <3>2. CASE c # h
      <4>1. "B_VALID" \in flags[c] /\ ~Writing(c) /\ data'[c] = data[c]
        BY <3>2, <2>3, <2>4, <2>5
      <4>2. sector[c] \in Sectors
        BY <4>1 DEF Inv1, Shape
      <4>3. sector[c] # sector[h]
        BY <3>2, <4>2, BufAssumption DEF Inv1, OneCopy, NoSector
      <4> QED
        BY <4>1, <4>2, <4>3, <2>1, <2>3, <2>5 DEF ValidIsDisk
    <3> QED
      BY <3>1, <3>2
  <2> QED
    BY <2>1, <2>5 DEF ValidIsDisk
<1>10. ASSUME UNCHANGED vars PROVE NoWork' /\ ValidIsDisk'
  BY <1>10 DEF vars, bufvars, procvars, NoWork, ValidIsDisk, Writing, Queued
<1> QED
  BY <1>1, <1>2, <1>3, <1>4, <1>5, <1>6, <1>7, <1>8, <1>9, <1>10 DEF Next, Work

----------------------------------------------------------------------------
(* Nobody waits for everybody.                                             *)

\* A process sleeps in bget on the buffer of the sector it asks for: bget
\* never takes a busy buffer for another sector.
Awaits == \A p \in Procs : pc[p] = "bget" /\ chan[p] # NoBuf => sector[chan[p]] = want[p]

\* Every step keeps a sleeper in bget on the buffer of its sector.
LEMMA NextAwaits ==
  ASSUME Inv1, Inv1', OwedWakeup, Awaits, [Next]_vars
  PROVE  Awaits'
<1>0. /\ pc \in [Procs -> Places] /\ want \in [Procs -> Sectors \cup {NoSector}]
      /\ chan \in [Procs -> Bufs \cup {NoBuf}]
      /\ sector \in [Bufs -> Sectors \cup {NoSector}] /\ idequeue \in Seq(Bufs)
  BY DEF Inv1, TypeOK
\* A step that leaves a sleeper in bget, if anything, as it was keeps Awaits.
<1>a. ASSUME \A q \in Procs : pc'[q] = "bget" /\ chan'[q] # NoBuf =>
               /\ pc[q] = "bget" /\ chan[q] = chan'[q] /\ want'[q] = want[q]
               /\ sector'[chan[q]] = sector[chan[q]]
      PROVE  Awaits'
  BY <1>a DEF Awaits
<1>1. ASSUME NEW p \in Procs, bget_hit(p) PROVE Awaits'
  BY <1>1, <1>0, <1>a DEF bget_hit, Got, Goto, Runs
<1>2. ASSUME NEW p \in Procs, bget_wait(p) PROVE Awaits'
  BY <1>2, <1>0 DEF bget_wait, Sleep, Cached, Awaits, bufvars
<1>3. ASSUME NEW p \in Procs, bget_recycle(p) PROVE Awaits'
  <2>1. PICK i \in Idle : sector' = [sector EXCEPT ![lru[i]] = want[p]]
    BY <1>3 DEF bget_recycle
  <2>2. \A q \in Procs : pc[q] = "bget" /\ chan[q] # NoBuf => chan[q] # lru[i]
    BY <2>1 DEF Idle, OwedWakeup
  <2> QED
    BY <1>3, <2>1, <2>2, <1>0, <1>a DEF bget_recycle, Got, Goto, Runs
<1>4. ASSUME NEW p \in Procs, bget_panic(p) \/ bread_valid(p) \/ iderw_done(p) PROVE Awaits'
  BY <1>4, <1>0, <1>a DEF bget_panic, bread_valid, iderw_done, Return, Goto, bufvars, procvars
<1>5. ASSUME NEW p \in Procs, bread_miss(p) \/ bwrite(p) PROVE Awaits'
  BY <1>5, <1>0, <1>a DEF bread_miss, bwrite, Enqueue, Sleep, Goto, bufvars
<1>6. ASSUME NEW p \in Procs, iderw_again(p) PROVE Awaits'
  BY <1>6, <1>0, <1>a DEF iderw_again, Sleep, Runs, bufvars
<1>7. ASSUME NEW p \in Procs, NEW s \in Sectors, Ask(p, s) PROVE Awaits'
  <2>1. chan[p] = NoBuf
    BY <1>7 DEF OwedWakeup, Ask
  <2> QED
    BY <1>7, <2>1, <1>0, <1>a DEF Ask, Goto, bufvars
<1>8. ASSUME NEW p \in Procs, NEW b \in Bufs, brelse(p, b) PROVE Awaits'
  BY <1>8, <1>0, <1>a DEF brelse, wakeup
<1>9. ASSUME NEW p \in Procs, NEW b \in Bufs, NEW v \in Values, Modify(p, b, v) PROVE Awaits'
  BY <1>9, <1>0, <1>a DEF Modify, Goto
<1>10. ASSUME ideintr PROVE Awaits'
  BY <1>10, <1>0, <1>a DEF ideintr, wakeup
<1>11. ASSUME UNCHANGED vars PROVE Awaits'
  BY <1>11 DEF vars, bufvars, procvars, Awaits
<1> QED
  BY <1>1, <1>2, <1>3, <1>4, <1>5, <1>6, <1>7, <1>8, <1>9, <1>10, <1>11 DEF Next, Work

\* If everybody slept, the owner of a buffer somebody waits for would itself
\* wait for a buffer of a higher sector, and so on without end.
LEMMA SomebodyMoves ==
  ASSUME Inv1, Ordered, OwedWakeup, Awaits
  PROVE  Progress
<1> SUFFICES ASSUME NEW p0 \in Procs, pc[p0] # "run", idequeue = <<>>,
                    \A p \in Procs : pc[p] # "run" \/ held[p] # {} => chan[p] # NoBuf
             PROVE  FALSE
  BY DEF Progress
<1>0. \A b \in Bufs : sector[b] \in Int
  <2>1. sector \in [Bufs -> Sectors \cup {NoSector}]
    BY DEF Inv1, TypeOK
  <2>2. Sectors \cup {NoSector} \subseteq Int
    BY BufAssumption DEF NoSector
  <2> QED
    BY <2>1, <2>2
<1> DEFINE Stuck == {p \in Procs : pc[p] = "bget" /\ chan[p] # NoBuf}
           Above(p) == {b \in Bufs : sector[b] > sector[chan[p]]}
           Sets == {Above(p) : p \in Stuck}
           R == StrictSubsetOrdering(Bufs)
<1>1. ASSUME NEW p \in Procs, chan[p] # NoBuf
      PROVE  p \in Stuck /\ chan[p] \in Bufs /\ Busy(chan[p]) /\ sector[chan[p]] = want[p] /\ want[p] \in Sectors
  <2>1. ~Queued(cur[p])
    BY DEF Queued
  <2> QED
    BY <1>1, <2>1 DEF OwedWakeup, Awaits, Inv1, TypeOK, Shape
<1>2. ASSUME NEW p \in Stuck PROVE \E q \in Stuck : Above(q) \subseteq Above(p) /\ Above(q) # Above(p)
  <2>1. chan[p] \in Bufs /\ Busy(chan[p]) /\ chan[p] # NoBuf
    BY <1>1
  <2>2. PICK q \in Procs : chan[p] \in Owns(q)
    BY <2>1 DEF Inv1, OneCopy
  <2>3. pc[q] # "run" \/ held[q] # {}
    BY <2>2 DEF Owns
  <2>4. q \in Stuck /\ chan[q] \in Bufs /\ sector[chan[q]] = want[q] /\ want[q] \in Sectors
    BY <2>3, <1>1
  <2>5. chan[p] \in held[q]
    BY <2>2, <2>4 DEF Owns
  <2>6. sector[chan[p]] < sector[chan[q]]
    BY <2>4, <2>5 DEF Ordered
  <2>7. \A b \in Bufs : sector[b] \in Int
    BY <1>0
  <2>8. chan[q] \in Above(p) /\ chan[q] \notin Above(q)
    BY <2>1, <2>4, <2>6, <2>7
  <2>9. Above(q) \subseteq Above(p)
    BY <2>1, <2>4, <2>6, <2>7
  <2> QED
    BY <2>4, <2>8, <2>9
<1>3. p0 \in Stuck
  BY <1>1
<1>4. Sets \subseteq FiniteSubsetsOf(Bufs) /\ Sets # {}
  <2>1. \A T \in SUBSET Bufs : IsFiniteSet(T)
    BY BufAssumption, FS_Subset
  <2> QED
    BY <2>1, <1>3 DEF FiniteSubsetsOf
<1>5. IsWellFoundedOn(R, FiniteSubsetsOf(Bufs))
  BY FS_StrictSubsetOrderingWellFounded
<1>6. PICK x \in Sets : \A y \in Sets : ~(<<y, x>> \in R)
  <2> HIDE DEF Sets, R
  <2> QED
    BY <1>4, <1>5, WFMin
<1>7. PICK p \in Stuck : x = Above(p)
  OBVIOUS
<1>8. PICK q \in Stuck : Above(q) \subseteq Above(p) /\ Above(q) # Above(p)
  BY <1>2
<1>9. <<Above(q), Above(p)>> \in R
  BY <1>8 DEF StrictSubsetOrdering
<1> QED
  BY <1>6, <1>7, <1>9

----------------------------------------------------------------------------
(* The store of blocks.                                                    *)

\* What a process holds has been read, and what is to be written has too.
HeldValid ==
  /\ \A p \in Procs : \A b \in held[p] : "B_VALID" \in flags[b]
  /\ \A b \in Bufs : "B_DIRTY" \in flags[b] => "B_VALID" \in flags[b]

\* Every step keeps what is held read.
LEMMA NextHeld ==
  ASSUME Inv1, HeldValid, [Next]_vars
  PROVE  HeldValid'
<1>0. /\ pc \in [Procs -> Places] /\ cur \in [Procs -> Bufs \cup {NoBuf}]
      /\ held \in [Procs -> SUBSET Bufs] /\ flags \in [Bufs -> SUBSET Flags]
      /\ idequeue \in Seq(Bufs) /\ \A i \in Idle : lru[i] \in Bufs
  BY DEF Inv1, TypeOK, Idle
<1>1. ASSUME NEW p \in Procs, bget_hit(p) PROVE HeldValid'
  BY <1>1, <1>0 DEF HeldValid, bget_hit, Cached
<1>2. ASSUME NEW p \in Procs, bget_recycle(p) PROVE HeldValid'
  <2>1. PICK i \in Idle : flags' = [flags EXCEPT ![lru[i]] = {"B_BUSY"}]
    BY <1>2 DEF bget_recycle
  <2>2. \A q \in Procs : \A c \in held[q] : c # lru[i]
    <3>1. \A q \in Procs : \A c \in held[q] : Busy(c)
      BY <1>0 DEF Inv1, OneCopy, Owns
    <3> QED
      BY <3>1 DEF Idle
  <2> QED
    BY <1>2, <2>1, <2>2, <1>0 DEF HeldValid, bget_recycle
<1>3. ASSUME NEW p \in Procs, bget_wait(p) \/ bget_panic(p) \/ bread_miss(p) \/ iderw_again(p)
      PROVE  HeldValid'
  BY <1>3 DEF HeldValid, bget_wait, bget_panic, bread_miss, iderw_again, bufvars, procvars
<1>4. ASSUME NEW p \in Procs, bread_valid(p) \/ iderw_done(p) PROVE HeldValid'
  BY <1>4, <1>0 DEF HeldValid, bread_valid, iderw_done, Finished, Return, bufvars
<1>5. ASSUME NEW p \in Procs, bwrite(p) PROVE HeldValid'
  <2>1. cur[p] \in held[p] /\ cur[p] \in Bufs
    BY <1>5, <1>0 DEF bwrite, Inv1, Shape
  <2> QED
    BY <1>5, <2>1, <1>0 DEF HeldValid, bwrite
<1>6. ASSUME NEW p \in Procs, NEW s \in Sectors, Ask(p, s) PROVE HeldValid'
  BY <1>6 DEF HeldValid, Ask, bufvars
<1>7. ASSUME NEW p \in Procs, NEW b \in Bufs, brelse(p, b) PROVE HeldValid'
  BY <1>7, <1>0 DEF HeldValid, brelse
<1>8. ASSUME NEW p \in Procs, NEW b \in Bufs, NEW v \in Values, Modify(p, b, v) PROVE HeldValid'
  BY <1>8 DEF HeldValid, Modify
<1>9. ASSUME ideintr PROVE HeldValid'
  <2>1. Head(idequeue) \in Bufs
    BY <1>9, <1>0, TailOf DEF ideintr
  <2> QED
    BY <1>9, <2>1, <1>0 DEF HeldValid, ideintr
<1>10. ASSUME UNCHANGED vars PROVE HeldValid'
  BY <1>10 DEF vars, bufvars, procvars, HeldValid
<1> QED
  BY <1>1, <1>2, <1>3, <1>4, <1>5, <1>6, <1>7, <1>8, <1>9, <1>10 DEF Next, Work

\* The one buffer of a sector, if it is valid, is the one blockOf chooses.
LEMMA TheBuffer ==
  ASSUME NEW sec, NEW flg, NEW s, NEW b \in Bufs, sec[b] = s, "B_VALID" \in flg[b],
         \A c \in Bufs : sec[c] = s => c = b
  PROVE  (CHOOSE c \in {x \in Bufs : sec[x] = s} : "B_VALID" \in flg[c]) = b
<1> DEFINE C == {x \in Bufs : sec[x] = s}
<1>1. b \in C /\ \A c \in C : c = b
  OBVIOUS
<1> QED
  BY <1>1

\* The contents of a block: the valid buffer of its sector, or the disk.
LEMMA BlockIs ==
  ASSUME Inv1, NEW s \in Sectors
  PROVE  /\ \A b \in Bufs : sector[b] = s /\ "B_VALID" \in flags[b] => blockOf(s) = data[b]
         /\ (\A b \in Bufs : sector[b] = s => "B_VALID" \notin flags[b]) => blockOf(s) = disk[s]
<1>1. ASSUME NEW b \in Bufs, sector[b] = s, "B_VALID" \in flags[b] PROVE blockOf(s) = data[b]
  <2>1. \A c \in Bufs : sector[c] = s => c = b
    BY <1>1, BufAssumption DEF Inv1, OneCopy, NoSector
  <2> QED
    BY <1>1, <2>1, TheBuffer DEF blockOf, Cached
<1>2. ASSUME \A b \in Bufs : sector[b] = s => "B_VALID" \notin flags[b] PROVE blockOf(s) = disk[s]
  BY <1>2 DEF blockOf, Cached
<1> QED
  BY <1>1, <1>2

\* The same after a step.
LEMMA BlockBecomes ==
  ASSUME Inv1', NEW s \in Sectors
  PROVE  /\ \A b \in Bufs : sector'[b] = s /\ "B_VALID" \in flags'[b] => blockOf(s)' = data'[b]
         /\ (\A b \in Bufs : sector'[b] = s => "B_VALID" \notin flags'[b]) => blockOf(s)' = disk'[s]
<1>1. ASSUME NEW b \in Bufs, sector'[b] = s, "B_VALID" \in flags'[b] PROVE blockOf(s)' = data'[b]
  <2>1. \A c \in Bufs : sector'[c] = s => c = b
    BY <1>1, BufAssumption DEF Inv1, OneCopy, NoSector
  <2> QED
    BY <1>1, <2>1, TheBuffer DEF blockOf, Cached
<1>2. ASSUME \A b \in Bufs : sector'[b] = s => "B_VALID" \notin flags'[b] PROVE blockOf(s)' = disk'[s]
  BY <1>2 DEF blockOf, Cached
<1> QED
  BY <1>1, <1>2

\* A block keeps its contents when no buffer becomes valid or invalid for it,
\* or changes, and its sector is not written.
LEMMA SameBlock ==
  ASSUME Inv1, Inv1', NEW s \in Sectors, disk'[s] = disk[s],
         \A b \in Bufs : (sector'[b] = s /\ "B_VALID" \in flags'[b])
                           <=> (sector[b] = s /\ "B_VALID" \in flags[b]),
         \A b \in Bufs : sector[b] = s => data'[b] = data[b]
  PROVE  blockOf(s)' = blockOf(s)
<1>1. CASE \E b \in Bufs : sector[b] = s /\ "B_VALID" \in flags[b]
  BY <1>1, BlockIs, BlockBecomes
<1>2. CASE \A b \in Bufs : sector[b] = s => "B_VALID" \notin flags[b]
  BY <1>2, BlockIs, BlockBecomes
<1> QED
  BY <1>1, <1>2

\* The owner of a block is its buffer's holder.
LEMMA OwnerIs ==
  ASSUME Inv1, NEW s \in Sectors, NEW p \in Procs, NEW b \in held[p], sector[b] = s
  PROVE  ownerOf(s) = {p}
<1>1. ASSUME NEW q \in Procs, NEW c \in held[q], sector[c] = s PROVE q = p
  <2>1. b \in Bufs /\ c \in Bufs
    BY DEF Inv1, TypeOK
  <2>2. c = b
    BY <1>1, <2>1, BufAssumption DEF Inv1, OneCopy, NoSector
  <2> QED
    BY <2>2 DEF Inv1, OneCopy, Owns
<1> QED
  BY <1>1 DEF ownerOf

\* No other process holds a buffer a process works on.
LEMMA NoOwner ==
  ASSUME Inv1, NEW p \in Procs, NEW b \in Bufs, b \in Owns(p), b \notin held[p], sector[b] \in Sectors
  PROVE  ownerOf(sector[b]) = {}
<1> SUFFICES ASSUME NEW q \in Procs, NEW c \in held[q], sector[c] = sector[b] PROVE FALSE
  BY DEF ownerOf
<1>1. c \in Bufs /\ c = b
  BY BufAssumption DEF Inv1, TypeOK, OneCopy, NoSector
<1>2. q = p
  BY <1>1 DEF Inv1, OneCopy, Owns
<1> QED
  BY <1>1, <1>2

\* The steps in which nobody gets, changes or returns a block.
LEMMA Quiet ==
  ASSUME \A s \in GoodSectors : blockOf(s)' = blockOf(s),
         \A s \in GoodSectors : ownerOf(s)' = ownerOf(s)
  PROVE  UNCHANGED Store!storevars
BY DEF Store!storevars

\* A process gets a buffer, or a block it already has.
LEMMA Gets ==
  ASSUME Inv1, Inv1', NEW p \in Procs, bread_valid(p) \/ iderw_done(p)
  PROVE  [Store!StoreNext]_(Store!storevars)
<1>0. held \in [Procs -> SUBSET Bufs] /\ cur[p] \in Bufs /\ pc[p] \in {"bread", "iderw"}
  BY DEF Inv1, TypeOK, Shape, bread_valid, iderw_done, Runs
<1>1. \A s \in GoodSectors : blockOf(s)' = blockOf(s)
  BY SameBlock DEF GoodSectors, bread_valid, iderw_done, bufvars
<1>2. held' = [held EXCEPT ![p] = @ \cup {cur[p]}] /\ sector' = sector
  BY DEF bread_valid, iderw_done, Return, bufvars
<1>3. CASE cur[p] \in held[p]
  <2>1. held' = held
    BY <1>0, <1>2, <1>3
  <2> QED
    BY <1>1, <1>2, <2>1, Quiet DEF ownerOf
<1>4. CASE cur[p] \notin held[p]
  <2>1. cur[p] \in Owns(p) /\ sector[cur[p]] \in Sectors
    <3>1. cur[p] \in Owns(p)
      BY <1>0 DEF Owns
    <3>2. Busy(cur[p])
      BY <3>1, <1>0 DEF Inv1, OneCopy
    <3> QED
      BY <3>1, <3>2, <1>0 DEF Busy, Inv1, Shape
  <2>2. PICK t \in Sectors : t = sector[cur[p]]
    BY <2>1
  <2>3. \A s \in Sectors : s # t => ownerOf(s)' = ownerOf(s)
    BY <2>2, <1>2, <1>0 DEF ownerOf
  <2>4. CASE t \notin GoodSectors
    BY <2>3, <2>4, <1>1, Quiet DEF GoodSectors
  <2>5. CASE t \in GoodSectors
    <3>1. ownerOf(t) = {}
      BY <2>1, <2>2, <1>0, <1>4, NoOwner
    <3>2. ownerOf(t)' = {p}
      BY <3>1, <2>2, <1>2, <1>0 DEF ownerOf
    <3>3. Store!Take(p, t)
      BY <3>1, <3>2, <2>3, <2>5, <1>1 DEF Store!Take, GoodSectors
    <3> QED
      BY <3>3, <2>5 DEF Store!StoreNext
  <2> QED
    BY <2>4, <2>5
<1> QED
  BY <1>3, <1>4

\* brelse gives the block back.
LEMMA Gives ==
  ASSUME Inv1, Inv1', NEW p \in Procs, NEW b \in Bufs, brelse(p, b)
  PROVE  [Store!StoreNext]_(Store!storevars)
<1>0. /\ held \in [Procs -> SUBSET Bufs] /\ flags \in [Bufs -> SUBSET Flags]
      /\ b \in held[p] /\ sector' = sector /\ held' = [held EXCEPT ![p] = @ \ {b}]
  BY DEF Inv1, TypeOK, brelse
<1>1. \A s \in GoodSectors : blockOf(s)' = blockOf(s)
  BY <1>0, SameBlock DEF GoodSectors, brelse
<1>2. PICK t \in Sectors : t = sector[b]
  BY <1>0 DEF Inv1, OneCopy, Owns, Busy, Shape
<1>3. \A s \in Sectors : s # t => ownerOf(s)' = ownerOf(s)
  BY <1>0, <1>2 DEF ownerOf
<1>4. CASE t \notin GoodSectors
  BY <1>3, <1>4, <1>1, Quiet DEF GoodSectors
<1>5. CASE t \in GoodSectors
  <2>1. ownerOf(t) = {p}
    BY <1>0, <1>2, OwnerIs
  <2>2. ownerOf(t)' = {}
    <3>1. \A c \in Bufs : sector[c] = t => c = b
      BY <1>2, BufAssumption DEF Inv1, OneCopy, NoSector
    <3>2. \A q \in Procs : q # p => b \notin held[q]
      BY <1>0 DEF Inv1, OneCopy, Owns
    <3> QED
      BY <3>1, <3>2, <1>0 DEF ownerOf
  <2>3. Store!Give(p, t)
    BY <2>1, <2>2, <1>3, <1>5, <1>1 DEF Store!Give, GoodSectors
  <2> QED
    BY <2>3, <1>5 DEF Store!StoreNext
<1> QED
  BY <1>4, <1>5

\* The owner changes the block.
LEMMA Changes ==
  ASSUME Inv1, Inv1', HeldValid, NEW p \in Procs, NEW b \in Bufs, NEW v \in Values, Modify(p, b, v)
  PROVE  [Store!StoreNext]_(Store!storevars)
<1>0. /\ data \in [Bufs -> Values] /\ b \in held[p] /\ data' = [data EXCEPT ![b] = v]
      /\ sector' = sector /\ flags' = flags /\ disk' = disk /\ held' = held
  BY DEF Inv1, TypeOK, Modify
<1>1. \A s \in GoodSectors : ownerOf(s)' = ownerOf(s)
  BY <1>0 DEF ownerOf
<1>2. PICK t \in Sectors : t = sector[b]
  BY <1>0 DEF Inv1, OneCopy, Owns, Busy, Shape
<1>3. \A s \in Sectors : s # t => blockOf(s)' = blockOf(s)
  BY <1>0, <1>2, SameBlock
<1>4. CASE t \notin GoodSectors
  BY <1>3, <1>4, <1>1, Quiet DEF GoodSectors
<1>5. CASE t \in GoodSectors
  <2>1. ownerOf(t) = {p}
    BY <1>0, <1>2, OwnerIs
  <2>2. blockOf(t)' = v
    <3>1. sector'[b] = t /\ "B_VALID" \in flags'[b] /\ data'[b] = v
      BY <1>0, <1>2 DEF HeldValid
    <3> QED
      BY <3>1, BlockBecomes
  <2>3. Store!Update(p, t, v)
    BY <2>1, <2>2, <1>3, <1>5, <1>1 DEF Store!Update, GoodSectors
  <2> QED
    BY <2>3, <1>5 DEF Store!StoreNext
<1> QED
  BY <1>4, <1>5

\* A buffer that is taken for another sector leaves what it held on the disk.
LEMMA Recycles ==
  ASSUME Inv1, Inv1', ValidIsDisk, NEW p \in Procs, bget_recycle(p)
  PROVE  UNCHANGED Store!storevars
<1>0. /\ held' = held /\ data' = data /\ disk' = disk /\ want[p] \in Sectors
      /\ \A b \in Bufs : sector[b] # want[p]
      /\ sector \in [Bufs -> Sectors \cup {NoSector}] /\ flags \in [Bufs -> SUBSET Flags]
  BY DEF Inv1, TypeOK, Shape, bget_recycle, Runs, Cached
<1>1. PICK i \in Idle : /\ sector' = [sector EXCEPT ![lru[i]] = want[p]]
                        /\ flags' = [flags EXCEPT ![lru[i]] = {"B_BUSY"}]
  BY DEF bget_recycle
<1>2. PICK c \in Bufs : c = lru[i] /\ ~Busy(c)
  BY <1>1 DEF Inv1, TypeOK, Idle
<1>3. \A q \in Procs : c \notin Owns(q)
  BY <1>2 DEF Inv1, OneCopy
<1>4. \A s \in GoodSectors : ownerOf(s)' = ownerOf(s)
  <2>1. \A q \in Procs : \A b \in held[q] : sector'[b] = sector[b]
    BY <1>0, <1>1, <1>2, <1>3 DEF Owns, Inv1, TypeOK
  <2> QED
    BY <2>1, <1>0 DEF ownerOf
<1>5. ASSUME NEW s \in GoodSectors PROVE blockOf(s)' = blockOf(s)
  <2>0. s \in Sectors /\ s \notin BadSectors
    BY DEF GoodSectors
  <2>1. CASE s = want[p]
    <3>1. blockOf(s) = disk[s]
      BY <2>0, <2>1, <1>0, BlockIs
    <3>2. \A b \in Bufs : sector'[b] = s => "B_VALID" \notin flags'[b]
      BY <2>1, <1>0, <1>1, <1>2
    <3> QED
      BY <3>1, <3>2, <2>0, <1>0, BlockBecomes
  <2>2. CASE s # want[p] /\ sector[c] = s /\ "B_VALID" \in flags[c]
    <3>1. ~Writing(c)
      <4>1. ASSUME NEW q \in Procs, cur[q] = c, pc[q] = "bwrite" PROVE FALSE
        BY <4>1, <1>3 DEF Inv1, Shape, Owns
      <4>2. ASSUME Queued(c) PROVE FALSE
        BY <4>2, <1>3 DEF Queued, Inv1, QueueOK, Owns
      <4> QED
        BY <4>1, <4>2 DEF Writing
    <3>2. blockOf(s) = disk[s]
      BY <2>0, <2>2, <3>1, BlockIs DEF ValidIsDisk
    <3>3. \A b \in Bufs : sector'[b] = s => "B_VALID" \notin flags'[b]
      <4>1. \A b \in Bufs : sector[b] = s => b = c
        BY <2>0, <2>2, BufAssumption DEF Inv1, OneCopy, NoSector
      <4> QED
        BY <4>1, <2>2, <1>0, <1>1, <1>2
    <3> QED
      BY <3>2, <3>3, <2>0, <1>0, BlockBecomes
  <2>3. CASE s # want[p] /\ ~(sector[c] = s /\ "B_VALID" \in flags[c])
    <3>1. \A b \in Bufs : (sector'[b] = s /\ "B_VALID" \in flags'[b])
                              <=> (sector[b] = s /\ "B_VALID" \in flags[b])
      BY <2>3, <1>0, <1>1, <1>2
    <3> QED
      BY <3>1, <2>0, <1>0, SameBlock
  <2> QED
    BY <2>1, <2>2, <2>3
<1> QED
  BY <1>4, <1>5, Quiet

\* The disk reads what it has, or writes what the buffer already said.
LEMMA Interrupts ==
  ASSUME Inv1, Inv1', HeldValid, ideintr
  PROVE  UNCHANGED Store!storevars
<1>0. /\ held' = held /\ sector' = sector /\ idequeue \in Seq(Bufs)
      /\ flags \in [Bufs -> SUBSET Flags] /\ data \in [Bufs -> Values] /\ disk \in [Sectors -> Values]
  BY DEF Inv1, TypeOK, ideintr
<1>1. PICK h \in Bufs : h = Head(idequeue) /\ 1 \in 1 .. Len(idequeue) /\ h = idequeue[1]
  BY <1>0, TailOf DEF ideintr
<1>2. PICK t \in Sectors : t = sector[h]
  <2>1. PICK q \in Procs : pc[q] = "iderw" /\ cur[q] = h
    BY <1>1 DEF Inv1, QueueOK
  <2>2. Busy(h)
    BY <2>1 DEF Inv1, OneCopy, Owns
  <2> QED
    BY <2>2 DEF Busy, Inv1, Shape
<1>3. \A s \in GoodSectors : ownerOf(s)' = ownerOf(s)
  BY <1>0 DEF ownerOf
<1>4. /\ "B_VALID" \in flags'[h]
      /\ \A b \in Bufs : b # h => data'[b] = data[b] /\ flags'[b] = flags[b]
      /\ \A s \in Sectors : s # t => disk'[s] = disk[s]
  BY <1>0, <1>1, <1>2 DEF ideintr
<1>5. ASSUME NEW s \in Sectors, s # t PROVE blockOf(s)' = blockOf(s)
  <2>1. \A b \in Bufs : sector[b] = s => b # h
    BY <1>2, <1>5
  <2> QED
    BY <2>1, <1>0, <1>4, <1>5, SameBlock
<1>6. ASSUME t \notin BadSectors PROVE blockOf(t)' = blockOf(t)
  <2>1. blockOf(t)' = data'[h]
    BY <1>0, <1>2, <1>4, BlockBecomes
  <2>2. CASE "B_DIRTY" \in flags[h]
    <3>1. blockOf(t) = data[h]
      BY <2>2, <1>2, BlockIs DEF HeldValid
    <3>2. data' = data
      BY <2>2, <1>1 DEF ideintr
    <3> QED
      BY <2>1, <3>1, <3>2
  <2>3. CASE "B_DIRTY" \notin flags[h]
    <3>1. "B_VALID" \notin flags[h]
      BY <2>3, <1>1 DEF Inv1, QueueOK, Finished
    <3>2. \A b \in Bufs : sector[b] = t => b = h
      BY <1>2, BufAssumption DEF Inv1, OneCopy, NoSector
    <3>3. blockOf(t) = disk[t]
      BY <3>1, <3>2, BlockIs
    <3>4. data'[h] = disk[t]
      BY <2>3, <1>0, <1>1, <1>2, <1>6 DEF ideintr
    <3> QED
      BY <2>1, <3>3, <3>4
  <2> QED
    BY <2>2, <2>3
<1> QED
  BY <1>3, <1>5, <1>6, Quiet DEF GoodSectors

\* Every step is one of the abstract store, or none.
LEMMA NextStore ==
  ASSUME Inv1, Inv1', ValidIsDisk, HeldValid, [Next]_vars
  PROVE  [Store!StoreNext]_(Store!storevars)
<1>0. flags \in [Bufs -> SUBSET Flags]
  BY DEF Inv1, TypeOK
\* A step that keeps the buffers, the disk and the holders is not seen.
<1>a. ASSUME sector' = sector, data' = data, disk' = disk, held' = held,
             \A b \in Bufs : "B_VALID" \in flags'[b] <=> "B_VALID" \in flags[b]
      PROVE  [Store!StoreNext]_(Store!storevars)
  <2>1. \A s \in GoodSectors : blockOf(s)' = blockOf(s)
    BY <1>a, SameBlock DEF GoodSectors
  <2>2. \A s \in GoodSectors : ownerOf(s)' = ownerOf(s)
    BY <1>a DEF ownerOf
  <2> QED
    BY <2>1, <2>2, Quiet
<1>1. ASSUME NEW p \in Procs, bget_hit(p) PROVE [Store!StoreNext]_(Store!storevars)
  BY <1>1, <1>0, <1>a DEF bget_hit
<1>2. ASSUME NEW p \in Procs, bget_wait(p) \/ bget_panic(p) \/ bread_miss(p) \/ iderw_again(p)
      PROVE  [Store!StoreNext]_(Store!storevars)
  BY <1>2, <1>a DEF bget_wait, bget_panic, bread_miss, iderw_again, bufvars, procvars
<1>3. ASSUME NEW p \in Procs, bwrite(p) PROVE [Store!StoreNext]_(Store!storevars)
  BY <1>3, <1>0, <1>a DEF bwrite
<1>4. ASSUME NEW p \in Procs, NEW s \in Sectors, Ask(p, s) PROVE [Store!StoreNext]_(Store!storevars)
  BY <1>4, <1>a DEF Ask, bufvars
<1>5. ASSUME UNCHANGED vars PROVE [Store!StoreNext]_(Store!storevars)
  BY <1>5, <1>a DEF vars, bufvars, procvars
<1> QED
  BY <1>1, <1>2, <1>3, <1>4, <1>5, Gets, Gives, Changes, Recycles, Interrupts DEF Next, Work

----------------------------------------------------------------------------
(* Theorems.                                                               *)

\* The invariant that carries the others.
THEOREM CacheInv == Spec => []Inv1
<1>1. Init => Inv1
  BY InitInv1
<1>2. Inv1 /\ [Next]_vars => Inv1'
  BY NextInv1
<1> QED
  BY <1>1, <1>2, PTL DEF Spec

\* The types: bget, bread, bwrite, brelse and ideintr keep the types of the
\* buffers, the queue and the processes, for every number of them.
THEOREM TypeCorrect == Spec => []TypeOK
BY CacheInv, PTL DEF Inv1

\* One buffer per sector and one owner per busy buffer, whatever bget's
\* waiters, the releases and the interrupts do to each other (bio.c:61-137).
THEOREM OneCopyCorrect == Spec => []OneCopy
BY CacheInv, PTL DEF Inv1

\* No wakeup is lost: whoever sleeps on a buffer, in bget or in iderw, is
\* still owed one by the owner of the buffer or by ideintr.
THEOREM WakeupsOwed == Spec => []OwedWakeup
<1>1. Init => Ordered /\ OwedWakeup
  BY DEF Init, Ordered, OwedWakeup
<1>2. Inv1 /\ Inv1' /\ Ordered /\ OwedWakeup /\ [Next]_vars => Ordered' /\ OwedWakeup'
  BY NextOwed
<1> QED
  BY <1>1, <1>2, CacheInv, PTL DEF Spec

\* A valid buffer that nobody is writing has the contents of its sector
\* (bio.c:19-20, 95), whatever reads of other sectors failed (ide.c:105).
THEOREM ValidCorrect == Spec => []ValidIsDisk
<1>1. Init => NoWork /\ ValidIsDisk
  BY DEF Init, NoWork, ValidIsDisk
<1>2. Inv1 /\ Inv1' /\ NoWork /\ ValidIsDisk /\ [Next]_vars => NoWork' /\ ValidIsDisk'
  BY NextValid
<1> QED
  BY <1>1, <1>2, CacheInv, PTL DEF Spec

\* There is no deadlock among the users of the cache: while a process is in
\* bread or bwrite, the disk is at work or somebody can move (bio.c:61-137).
\* It needs the order in which fs.c nests its blocks, and no bound on the
\* number of processes or of buffers.
THEOREM NoDeadlock == Spec => []Progress
<1>1. Init => Awaits
  BY DEF Init, Awaits
<1>2. Inv1 /\ Inv1' /\ OwedWakeup /\ Awaits /\ [Next]_vars => Awaits'
  BY NextAwaits
<1>3. Inv1 /\ Ordered /\ OwedWakeup /\ Awaits => Progress
  BY SomebodyMoves
<1>4. Init => Ordered /\ OwedWakeup
  BY DEF Init, Ordered, OwedWakeup
<1>5. Inv1 /\ Inv1' /\ Ordered /\ OwedWakeup /\ [Next]_vars => Ordered' /\ OwedWakeup'
  BY NextOwed
<1> QED
  BY <1>1, <1>2, <1>3, <1>4, <1>5, CacheInv, PTL DEF Spec

\* The buffer cache implements the store of blocks: what bread returns is
\* what the last owner of the block left, one owner at a time, through every
\* eviction, write and interrupt (bio.c:61-137, ide.c:91-150).
THEOREM StoreCorrect == Spec => ImplementsStore
<1>1. Init => HeldValid /\ NoWork /\ ValidIsDisk
  BY DEF Init, HeldValid, NoWork, ValidIsDisk
<1>2. Inv1 /\ HeldValid /\ [Next]_vars => HeldValid'
  BY NextHeld
<1>3. Inv1 /\ Inv1' /\ NoWork /\ ValidIsDisk /\ [Next]_vars => NoWork' /\ ValidIsDisk'
  BY NextValid
<1>4. Init => Store!StoreInit
  <2> SUFFICES ASSUME Init PROVE Store!StoreInit
    OBVIOUS
  <2>1. \A s \in GoodSectors : blockOf(s) = disk[s] /\ ownerOf(s) = {}
    BY DEF Init, GoodSectors, blockOf, ownerOf, Cached
  <2>2. \A s \in GoodSectors : disk[s] \in Values
    BY DEF Init, GoodSectors
  <2> QED
    BY <2>1, <2>2 DEF Store!StoreInit
<1>5. Inv1 /\ Inv1' /\ ValidIsDisk /\ HeldValid /\ [Next]_vars => [Store!StoreNext]_(Store!storevars)
  BY NextStore
<1> QED
  BY <1>1, <1>2, <1>3, <1>4, <1>5, CacheInv, PTL DEF Spec, ImplementsStore, Store!StoreSpec
=============================================================================
