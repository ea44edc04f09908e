# Verification of 537_P5

TLA+ models, TLC runs and TLAPS proofs for the two systems of this
repository: the network file server under `linux/` and the xv6 kernel under
`xv6/`.  `PROJECT.json` lists every run, mutant, mapping from definition to
source lines, finding, hazard and theorem; this file explains them.

    tlc -config MCLFS_tree.cfg MCLFS        # one run
    tlapm LFSProofs.tla                     # one module of proofs

## 1. Inventory

### linux/: a log-structured file server over UDP

| part | state | operations | hard behaviour |
|---|---|---|---|
| `lfs.c` server | `imap[]`, `next_block`, the image file (checkpoint region, blocks), the file position | lookup, stat, creat, write, read, unlink, shutdown, start | crash between two `write()` calls; restart from the checkpoint region; directories of several blocks; full tables; stale inode numbers |
| `mfs.c`, `sendPacket.c` client | one socket per call, the packet, the time left in `tv` | MFS_* calls; send, wait, send again | lost, repeated and late datagrams; an unbounded retry loop |
| `listenServer.c`, `udp.c`, `server.c` | the server's socket buffer | receive, dispatch, answer, shut down | executes every copy; ends with requests in its buffer |

The client calls reach the handlers through datagrams only; the handlers
share `imap`, `next_block` and the image.  The server is single-threaded.
Correct means: the image is a tree with one name per file and no dangling
name, no append overwrites a live block, a restart loses nothing, a retried
call is invisible, and every call on a running server returns.

### xv6/: the kernel

| part | state | operations | hard behaviour |
|---|---|---|---|
| `pipe.c` | ring, two counters, two open flags | pipewrite, piperead, pipeclose | sleep/wakeup, kill, last close frees the page, counters wrap |
| `bio.c` | list of buffers, flags, owner | bget, bread, bwrite, brelse | waiters and owner share a channel, eviction, exhaustion, nesting |
| `ide.c` | request queue | iderw, ideintr | interrupts, read errors |
| `proc.c`, `trap.c`, `sysproc.c`, `spinlock.c` | process table, per-CPU state, locks | fork, exit, wait, kill, sleep, wakeup, scheduler | slot reuse, orphans, lost wakeups, a lock that changes hands in swtch |
| `file.c`, `sysfile.c` | file table, descriptors | open, close, dup, read, write, link, unlink | reference counts, partial failure |
| `fs.c` | inode cache, directories, bitmap, block map, checksums of checked files | iget, ilock, iput, dirlookup, dirlink, namei, bmap, readi, writei, stati | inode reuse, link and reference counts on every way out, lock order, two-step checksum update, buffers used after release |
| `vm.c`, `kalloc.c`, `exec.c` | free list, page tables, sizes | kalloc, kfree, allocuvm, deallocuvm, copyuvm, freevm, growproc, exec | memory runs out halfway, in several processes at once; sizes that wrap |
| `console.c` and devices | input ring, output lock | consoleintr, consoleread | interrupt against reader |
| `tools/mkfs.c` | the image | add_dir, iappend, ialloc, balloc | the kernel must agree with every number in it |
| `user/sh.c` | commands, the descriptors of each process | parse, fork, pipe, redirect, wait | pipe ends left open, fork failing halfway, the order of waits |
| `user/` otherwise | user heap | malloc, free, programs | — |

The kernel's parts share memory under spinlocks and wait with
`sleep`/`wakeup` on channels; the disk answers by interrupts.  Correct means:
a kernel stack has one user, no exit and no wakeup is missed, a process slot,
an inode, a buffer or a page is reused only when nothing refers to it, what
is cached is what is stored, a read returns what was written, a process has
its memory for itself, and nobody waits for ever.

## 2. Modules

    FileService        what the MFS interface promises          (abstract)
      ^ refined by
    LFS                lfs.c        --- LFSRefinement, LFSProofs, MCLFS
      ^ extended by
    MFSNet             client library, datagrams and server loop, on the
                       handlers of LFS --- MFSNetProofs, MCMFSNet

    ByteStream         what a pipe promises                      (abstract)
      ^ refined by
    Pipe               pipe.c with sleep, wakeup, kill, fileclose
                                    --- PipeProofs, MCPipe

    BlockStore         what the buffer cache promises            (abstract)
      ^ refined by
    BufCache           bio.c and ide.c --- BufCacheProofs, MCBufCache

    Proc               proc.c, trap.c, sysproc.c --- ProcProofs, MCProc
    Inodes             the inode layer of fs.c under sysfile.c
                                    --- InodesProofs, MCInodes
    MkFS               tools/mkfs.c
      ^ extended by
    FileBlocks         block map, bitmap and checksums of fs.c, on an image
                       that MkFS has built --- FileBlocksProofs, MCFileBlocks
    Memory             kalloc.c, vm.c, exec.c, growproc, the memory of fork,
                       exit and wait --- MemoryProofs, MCMemory
    Shell              user/sh.c on fork, wait, exec, open, dup and pipe
                                    --- MCShell

**LFS.**  `imap` and `next_block` are the globals, `disk` the image: the
checkpoint region (`disk.imap`, `disk.next`) and the blocks.  A block holds an
inode, a directory block or data; sizes are counted in blocks.  One action per
handler.  A handler is an *outcome*: return value, new globals, and the
sequence of images its `write()` calls produce in the order of the code.
`Commit` installs the last image, `CrashIn` an earlier one and stops the
server; `start_server` reads the globals back from the checkpoint region.
`find_inode` on a free number returns what the failed seek makes it read
(`StaleInodes`); `read_server` of a directory takes its second direct pointer
for the parent and looks there (`pnodes`, `dirEnt`).  What clients ask for is
not the server's to choose: `StaleInums`, `FarNames` and `ReadDirs` say whether
they name free inodes, unlink what lies behind the first block of a directory,
and read directories; section 4 says what goes wrong when they do.

**MFSNet.**  A call is `Call`, any number of `Retry`, then `Return`.  The
number of a call stands for its ephemeral port.  The network is what UDP is:
the datagrams on their way are a set, from which any one may be lost (`Lose`),
delivered, or delivered and kept to be delivered again (`Delivered`), in any
order and after any delay.  `Serve` is one round of the server's loop: it
executes whatever copy comes, by the handler of LFS that the switch selects
(`Handle`), and answers it; `Start` and `ServeShutdown` are LFS's.  `last` and
`strayed` are history variables used by RetriesTransparent only.

**Pipe.**  Each statement group between two points where `kill()` can strike
is an action; `p->lock` is a variable.  `sleep`, `wakeup` and `kill` are one
step each because they run under `ptable.lock`.  The counters wrap at `MOD`
(2^32 in the code, a small multiple of the ring here).

**BufCache.**  A critical section is one step.  `lru` is the list, `sector`,
`flags`, `data` the buffers, `idequeue` the requests.  A process is in `run`
(between calls), `bget`, `bread`, `bwrite` or `iderw`.  Callers nest as fs.c
does: an indirect block may be held while a data, super or bitmap block is
asked for (`bmap`, `itrunc`), never the reverse; sectors are numbered in that
order.  `stati`, which never releases its buffer, is not among the callers.

**Proc.**  A critical section under `ptable.lock` is one step, but `lock` is a
variable with the CPU that holds it: `sched` keeps it across the switch, the
scheduler of that CPU goes on with it (`Run`, `SchedRelease`) and the process
switched to releases it (`Resume`).  `kont[p]` is the caller of `sched` that
`p` will return to, `pc[p]` its place in the kernel.  What the code does
without the lock is a step of its own: the stack, the copy, the publication
and the name in `fork`, the undoing of a failed `fork`.  `tickslock` is a
variable too, and the timer interrupt of CPU 0 (`Tick`, `TickWakeup`) comes
wherever the CPU holds no spinlock.  `left[p]` stands for
`n - (ticks - ticks0)` of `sys_sleep`.  The scheduler may come to the
RUNNABLE processes in any order.

**Inodes.**  `icache` is the cache with `ref`, I_BUSY and I_VALID, `dinode` the
type and link count on disk, `dents` the directories.  `pr[p]` is the kernel
stack of a process: its place, the pointers it holds (`cur` in namex, `ip`,
`dp`, and `arg` while inside iput) and the entries it has locked.  `ilock`
waits, locks and reads; what a process does under I_BUSY up to the `iunlock`
is one step; `iput` is up to three, since it lets go of `icache.lock` while it
frees the inode.  An entry without references is normalised, because the next
`iget` of it clears its flags.

**MkFS** builds the image that FileBlocks starts from: a behaviour begins with
mkfs, entry by entry of a directory of the host, and the kernel boots on what
it leaves.  `mk` has its globals, the calls of `add_dir` in progress and the
last call of `iappend`, which goes on in steps: one for a block it takes
(`iappend_block`, `iappend_indirect`) and one for a unit it copies.  Where an
assert or `rsect` would end mkfs no step is possible.  A byte, a directory entry and a block address all take one unit of
a block, so that a block of two units already has an indirect block with two
addresses.

**FileBlocks.**  `bit`, `blk` and `dino` are the disk, `mem` the inodes in
memory that differ from it.  A disk write is a step: `balloc`, the link from the
inode or the indirect block (`bmap_*`), the data (`writei_block`), the checksum
(`writei_sum`) and the inode (`writei_iupdate`); `itrunc` frees one block per
step.  Two pairs of writes are one step each: the zeroes and the bit of bfree
(fs.c:88, 97; bmap itself clears nothing), and the new inode and its link count
in create; a crash inside either leaves a block or an inode that no operation
reads.  balloc with no free bit, a panic in the code, is no step.  Checksums are the XOR of units, kept in the
high digit of an address as in the code (`TAG` is 2^24).  `Crash` forgets the
memory between any two steps, `Rot` flips a unit of a data block of a checked
file.  A process in a
call has its inode locked (Inodes) and a buffer has one owner (BufCache): this
module builds on both and models neither.  Where readi looks into the indirect
block after `brelse` (fs.c:484), `Recycled` lets it find anything.  `want`,
`torn` (files a crash cut a write of), `flips` (damaged units) and `leaky` are
history variables for the properties.

**Memory.**  A call is cut at every kalloc and kfree.  `act[p]` is its frame:
the call, the place in it, and the loop of vm.c it is in.  `cell` is what a
page holds: a program, zeroes, a mark that a process stored, or the junk kfree
writes.  `want` is what each process expects to find; `lost` collects the pages
that a failing setupkvm forgets.

**Shell.**  The parser is a set of recursive operators on sequences of tokens,
one per function of sh.c.  A process has its state (the place in runcmd or in
its program), its descriptors, and in `todo` the closes and dups it still has
to do before it goes on; every one of these is a step, since each may be the
one that ends a pipe.  A struct file lives as long as a descriptor refers to
it.  `Eval` says what a command means without processes; LineDoesWhatItSays
compares it with what the processes did.

Definitions named `X_Fault` are `X` with one plausible mistake.  They belong
to no specification; section 6 says which property notices which.

## 3. Runs

| run | instance | shows |
|---|---|---|
| lfs_tree | 4 inodes, 2 pointers, 3 entries, 14 blocks, 3 names, 2 payloads, killed inside unlink; clients as in section 4 | end of log, no shared block, checkpoint in sync, no dangling name, refinement of FileService, with shutdowns and restarts anywhere |
| lfs_far_entry | a name in the second directory block | **violation** of NoDangling |
| net_retry | 2 clients, 2 calls, all methods, 2 inodes of which one may be free, 13 blocks, 2 starts, any number of copies | transparent retries, calls return |
| pipe_stream | 2 writers, 2 readers, ring of 2, writes of 1 and 3 bytes, one reader killable | no lost wakeup, freed once, end-of-file final, reads and writes return, refinement of ByteStream |
| buf_cache | 2 processes, 2 buffers, 3 sectors of which reads of one may fail, nesting 2 | one copy, valid means disk, wakeups owed, nobody waits for everybody, requests complete, refinement of BlockStore, up to the panic of bget |
| proc_smp | 3 slots, 2 CPUs, pids to 4, kills of 2 and 3, sleeps of 1 tick, kalloc may fail | kernel stacks and panics, missed exits, fork's child |
| proc_uni | 3 slots, 1 CPU, pids to 3, kill of 2 | killed processes exit, orphans are reaped |
| ino_dirs | 2 processes, 3 inodes, mkdir, unlink, chdir of "a", "a/..", "/" | references, cache and disk, links, no lock cycle, no panic |
| ino_files | 2 processes, 3 inodes, 2 names and the root, open, creat, link, unlink, close | references, no dangling name |
| fs_files | 2 processes, 3 inodes, blocks of 2 units, 1 direct address, 3 calls with 1 fstat, 1 crash, 2 damaged units, 2 host trees | blocks have one owner, none is lost, reads return what was written, no false alarm, fstat's checksum |
| mem_full | 3 processes, 18 pages (3 processes of the usual size), 4 calls, 3 executables of which 2 fail late | pages have one place, sizes are mapped, memory is private |
| sh_lines | 2 lines out of 11, 6 processes, 4 struct files, pipes of 1 byte | the effect of a line, termination |

**Why the bounds are enough.**  The log needs room for a directory, a file and
two writes, so that an append can meet every kind of block.  With three entries
in a block, two of them the dots, the second name of a directory is in its second
block, and with four inodes the inode map fills up; a directory whose blocks are
*all* full is not reached (it would take five inodes and a longer log).
Three names suffice for a collision and for a directory in a directory.  Two
calls over two clients are a finished call and one after it, or two that
overlap, each with copies that come at any time, before and after a shutdown and
a restart; nothing is killed inside a handler there (the theorem allows it
inside unlink).  A ring
of two with counters modulo four wraps within three writes; writes of three
do not fit it.  Three sectors over two buffers force eviction of a block that
is used again.  Three slots are init, a
parent and its child, and pids to 4 make a slot be used twice.  An orphan that
is a zombie already when init inherits it from a process other than init's
own child would need a fourth slot.  Three inodes are the root, a directory
and one in it, or two files; a number is reused within one more call.  The
cache has as many entries as there are inodes (`iget: no inodes` does not
happen), and a process has one descriptor.  One direct address and two
indirect ones make a file of three units cross from one kind to the other;
three calls are a write, another that extends or overwrites it and a read, or a
creation after a deletion.  Eighteen pages let three processes exist but no
fourth address space beside two of them grow, so every kalloc of fork, exec and
sbrk fails in some behaviour and succeeds in another.  The lines of sh_lines
have every construct, nesting in both directions, a pipeline of three, a
command that is not found, a background command that outlives its line, and two
syntax errors; with six processes and four struct files fork and pipe fail when
the background command is slow.  Symmetry is declared only for model values that no definition
tells apart, and never together with a liveness property.

**Deadlock** is checked except where the system may stop: in MFSNet after the
last call (MaxCalls), in Pipe when everybody has closed, in BufCache,
Proc and Inodes after a panic, in FileBlocks, Memory and Shell when the calls
or lines of the bound have been made.

**Fairness.**  MFSNet: select() comes back and the loop sends again (weak
fairness of `Retry`); of a request that is sent again and again some copy
reaches the server and is executed, and of the responses to a call some copy
reaches it (strong fairness of `ServeFor` and `Return`; without it no protocol
over UDP returns).  Pipe: the scheduler runs every runnable process (round robin over
the table), a killed process gets to `exit`, and a reader reads on or closes;
none of these forces a *particular* process to win the spinlock, which is why
CallsReturn is about a process that is alone on its side of
the pipe (`Alone`), be it from the start or because the others have closed.
BufCache: the disk answers, and runnable processes run; callers are not
forced to release anything.  Proc: every CPU gets its spinlocks in the end,
the scheduler's pass comes to every RUNNABLE process, the clock ticks, and
init goes on calling `wait` (user/init.c:34).  User programs are not forced to
do anything.  The liveness run has one CPU: on two, a process may be scheduled
only while CPU 0's tick handler holds the lock it wants, an unfairness of the
spinlock that the code does not exclude and that SF on each step does not.
Shell: some process that can run does; a process has finitely many steps, so
this weakest fairness is enough, and Terminates then says that nobody is left
waiting.

## 4. Findings

`lfs.c:479`: `unlink_server` only knows the first block of the parent; a name
further on survives its file (lfs_far_entry).

The following came up while modelling.  They are stated as assumptions or
limits of the properties that hold; the constants in brackets bring them back.

* `lfs.c:384-388`: `write_server` writes the inode before `next_block` is
  saved; killed in between, the restarted server overwrites the file's block
  with its next append (LogEnd, with `Crashes = {"write"}`).  A crash inside
  creat leaves a dangling name (`Crashes = {"creat"}`).
* `lfs.c:59-61`: `find_inode` does not look for a free inode number, so `stat`
  of one succeeds, against the comment of lfs.c:219, and `creat` and `write`
  write on the strength of one (NoSharing and ImplementsService, with
  `StaleInums = TRUE`).
* `lfs.c:479, 507`: unlink_server knows the first block of the parent, and of
  the directory it removes, only.  A name further on survives its file, and a
  directory with names in its second block is removed with them (NoDangling and
  ImplementsService, with `FarNames = TRUE`; the run lfs_far_entry is the first
  of the two).
* `lfs.c:420-444`: `read_server` of a directory takes its *second direct
  pointer* for the inode number of the parent, searches the blocks of that inode
  for an entry with the directory's own number, and copies an entry, or what the
  stack holds, where mfs.c:104-106 promises the data of the directory
  (ImplementsService, with `ReadDirs = TRUE`: FileService answers with an entry
  of the directory, lfs.c with another or with bytes nobody wrote).
* A copy of a request that arrives after another request has been executed, be
  it of the same client's next call, is executed too: it may undo what the later
  call did, or answer something else.  UDP may deliver such copies after any
  time, and nothing in mfs.c or listenServer.c numbers the requests, so
  RetriesTransparent is about copies between which no other request was
  executed.  It also leaves out requests about a free inode number, and what
  follows once the server has written on the strength of one or has been asked
  to unlink something behind a first block (`strayed`).  An entry that is not in use has
  the name "DNE", so a client that passes this name may be shown such an entry
  instead of its file (`Plain` excludes it).
* `pipe.c:104-108`: a process killed between the test of `killed` and
  `sleep()` sleeps on.  A killed writer leaves a full pipe without
  `wakeup(&p->nread)`, so NoLostWakeup is for writers that are not killed.
* `ide.c:105-109`: a failed read is marked valid (ValidIsDisk, for
  a sector of `BadSectors`; the property is about the others).
* `proc.c:397`: `kill` does not look at the state of a slot.  `kill(0)`, or the
  pid a failed `fork` leaves behind, marks an UNUSED slot, and `allocproc` does
  not clear `killed`: the next child is born killed.
* `sysfile.c:201-204`: a removed directory keeps its "..", for which its parent
  has lost the link.  If a process still works in it and the parent is removed
  and freed, the process's ".." leads to a free inode (`ilock: no type`) or to
  the next owner of its number, where a mkdir spoils the link count (Coherent,
  LinksCover, with `<<"..">>` among the `Paths`).
* A file created in a removed directory keeps its inode for good; LinksCover is
  therefore "at least" and not "exactly".
* `lfs.c:304`: creat with an invalid type returns -1 after it has written the
  entry (`Types` with another value).
* `fs.c:429`: `stati` never releases the indirect block it reads, so the next
  process that needs it waits for ever; it sums 64 of the 128 indirect blocks
  (fs.c:432).  `fs.c:484`: readi compares with a buffer it has released.
* `fs.c:467-475`: the checksum of a block is the XOR of its units, so an *even*
  number of damaged units in one block is not seen, and the damaged data is
  returned.  ReadsBack says so (`Unseen`), and fs_files reaches it with two
  damaged units.  Addresses, indirect blocks, inodes and the bitmap have no
  checksum at all; `Rot` does not damage them.
* `fs.c:389-402`: itrunc passes the addresses of a checked file to bfree with
  the checksum in them.  Its blocks are lost, and the kernel may panic.
* `fs.c:66`: balloc looks at every bit of the bitmap blocks and may hand out a
  block beyond `sb.size`; the runs have room.
* `mkfs.c:191` gives a full directory the size of one block more than it has.
  The first read of that block allocates one that only the inode in memory
  knows; it is lost when the inode leaves the cache.
* `sysfile.c:276`: no call reaches the creation of a checked file.  Create in
  FileBlocks stands for what `create()` would be called with.
* `vm.c:145`: setupkvm loses the directory and tables it has when memory runs
  out (`lost`).  `proc.c:116`: `sbrk(-size)` frees everything, returns -1 and
  keeps the size.  It also returns before `switchuvm` (proc.c:120), so the TLB may
  still have the freed pages, and the process may go on to use them until its
  address space is loaded again; then it faults.  Memory has no TLB, and `Runs`
  leaves such a process out of its properties.
* `sysfile.c:274, 289`: open with O_CREATE leaves the new file behind when there is no
  struct file for it.
* `exec.c:61-66`: arguments that take more than the stack page are copied into
  the page below it; `usertests.c:1457` asks "does exec do something sensible
  if the arguments are larger than a page?"  The run's arguments fit.
* `sh.c:385-391`: of several redirections of one stream the *first* wins, since
  the last one wraps the others and is opened first; `>>` neither appends nor
  does `>` truncate.  When fork fails for the second process of a pipeline the
  first is left to init.

## 5. Proofs

TLAPS proves the following for every value of the constants that satisfies
the module's ASSUME (`LFSAssumption`, `PipeAssumption`, `BufAssumption`,
`ProcAssumption`, `NetAssumption`, `InodesAssumption`,
`FileBlocksAssumption`, `MemoryAssumption` with `SegmentsAligned`): numbers of processes, buffers,
inodes, pages, clients and calls, and sizes of blocks, rings, tables, pages
and directories are free.  A hypothesis
beyond that is part of the theorem's statement.

* **LFSProofs** — `TypeCorrect`, `LogEndCorrect`, `CheckpointCorrect`,
  `NoSharingCorrect`, under `Disciplined`: the server may be killed between
  requests and inside unlink, but not inside creat or write; inode numbers are
  allocated ones, types 0 and 1, names other than the placeholder "?".  Each
  of these is needed: section 4 says what happens without.  LogEnd is not
  inductive: an append changes an inode through what `find_inode` read, so
  one has to know that every inode stored *anywhere* in the image, live or
  not, points below `next_block`.  `LogInv` says so of memory while the server
  is up and of the image always, which carries it over a crash and a restart.
  NoSharing adds that the blocks of different inodes are `Apart`, that a used
  pointer leads to a block of its kind, and that an append is at a place
  nothing leads to, which is LogEnd.  The proof treats an outcome's images one
  by one in the order of the code.
* **LFSProofs**, the directories — `NoDanglingCorrect`: every entry leads to an
  allocated inode, in directories of any number of blocks, as long as clients
  unlink nothing that lies behind a first block (`~FarNames`; the run
  `lfs_far_entry` shows that without it the property is false).  Clients pass no
  "." or ".." (`PlainNames`).
  NoDangling is not inductive: unlink clears one entry and frees an inode, so
  one has to know that no inode has two names (`Once`), that the root has
  none, and that dot entries are only in the first two slots (`DirsOK`, checked
  by TLC first).  `CreatIs` says once what creat leaves on the image, `From`
  where an entry may come from.
* **PipeProofs** — `TypeCorrect`, `FreedOnce`, `EofCorrect`, `WakeupsKept`,
  `StreamCorrect`.  The invariants say who holds `p->lock` at each place, and
  tie the two open flags to the set of descriptors and to the process that is
  on its way through `pipeclose`.  WakeupsKept assumes that writers are not
  killed.  StreamCorrect is the refinement of ByteStream: the bytes between
  the two counters, taken modulo the ring, are the abstract queue; `CountOK`
  bounds their number across the wrap of the counters.
* **BufCacheProofs** — `TypeCorrect`, `OneCopyCorrect`, `WakeupsOwed`,
  `ValidCorrect`, `NoDeadlock`, `StoreCorrect`.  `Inv1` couples three facts
  that only hold together: a busy buffer has one owner, a queued buffer
  belongs to a process in iderw and is queued once, and an unfinished request
  is queued.  WakeupsOwed adds `Ordered`, the nesting of the callers: without
  it a process could wait for a buffer it holds itself.  NoDeadlock follows
  the owners from a sleeper upwards in that order to one that is awake or
  waits for the disk.  ValidCorrect is about sectors whose reads do not fail,
  which section 4 shows to be needed.  StoreCorrect is the refinement of
  BlockStore; `HeldValid` says that what a caller holds has been read.
* **ProcProofs** — `TypeCorrect`, `OwnStackCorrect`, `ForkOwnsChildCorrect`,
  `NoMissedExitCorrect`, for any number of CPUs and slots.  `IInv` says what a
  CPU is running at each of its places and that it is the holder of
  ptable.lock exactly there (`OnCPU`), which states a slot can be in while
  somebody works on it (`Lives`, `Forks`, `Named`), and that parents are
  alive or init (`Family`).  NoMissedExit is one of its conjuncts: it is
  inductive only with the others.
* **MFSNetProofs** — `RetriesTransparentCorrect`: of the handlers of lfs.c, for
  any number of clients, calls, copies and restarts, and with the server killed
  inside unlink.  Under `Plain`: as for LFSProofs, but inode numbers are free
  too, and names are neither dots nor "DNE".  The property compares two
  executions that may lie far apart, so the invariant must remember what the
  first one has established.  `Settled(r, reply, ...)` says for each method that
  request r has been given this answer and that in the image there is nothing
  left for it to do: a name that was created is there, a name that was removed
  is not, a written block has the data and the size covers it, a refused request
  still meets the reason for the refusal (`NoPlace`, `Filled`).  `LastSettled`
  says it of the request that was executed last; lemma `Settles` shows that
  executing a request settles it, `Again` that executing a settled request
  changes nothing, although write_server then appends another copy of the block
  and moves the end of the log (`WriteView`).  Both need LogInv and DirsOK above
  (that lookup finds what is in a directory, that inodes are apart), which hold
  as long as no request has strayed; they are carried along as `NetInv`.
* **InodesProofs** — `RefsCountedCorrect`, for any number of processes,
  inodes and names and every set of paths, ".." included.  A reference is
  counted where a pointer is: `Shape` says which of the four pointers of a
  kernel stack are set at each place, `CacheOK` that no two entries in use are
  for one inode, and `Balance` that a step which changes a count by as much
  as it changes the pointers of its process keeps all the counts right.  That
  iget finds a free entry is the pigeonhole principle on
  `NINODE >= Cardinality(Inums)`.
* **InodesProofs**, locks and links — `LinkInvariant` and from it
  `CoherentCorrect`, `LinksCoverCorrect`, `NoDanglingCorrect`,
  `NoLockCycleCorrect`, under `NoUp`: no path has a ".." in it.  Without it
  they are false (section 4), since a removed directory keeps a ".." that
  nobody counts; which paths with ".." are harmless depends on what the others
  remove meanwhile, so `<<"a", "..">>` is left to the run ino_dirs.  The
  four hold only together, as parts of `LInv`, on top of the exact counts
  above.  `LockInv`: a busy entry has one holder, who is at one of a few
  places (`LockOK`) or frees it.  `CacheInv`: a cached inode has a type on
  disk and, once valid, agrees with it, except one that iput has freed and not
  yet let go.  `FreeInv`: what iput frees has one reference, also once it is
  free on disk and until it is allocated again, which is what keeps ialloc's
  reuse of the number harmless (`Reused`).  `TreeInv`: a
  directory has one name, its ".." is the directory of that name, and no two
  directories are in each other.  `CoverInv` is LinksCover with what is between
  two steps of a call: a link that link() has counted before the name exists,
  one that unlink() has erased and not yet subtracted (`Pend`), and the root.
  `NewInv`: nobody but its creator reaches an inode that has no name yet.
  `PlaceInv`: between its steps unlink() relies on an entry that only it can
  change.  `StepL` says once what a step of one process must not do to the
  others; the lemma of each action shows that it does not.  NoDangling follows
  from CoverInv (a free inode has no links), NoLockCycle from LockInv and
  TreeInv: only create and unlink ask for a lock with one in their hands, and
  they ask for a child of what they hold.
* **FileBlocksProofs** — `BlocksOwnedCorrect`, for any sizes of blocks, inodes
  and image, any number of processes, crashes and decayed blocks, and any
  directory of the host.  The hypothesis `Roomy` says that the image has the
  inodes and blocks that mkfs takes for that directory, that no directory of the
  host grows to more than MAXFILE blocks when add_dir rounds its size, and that
  balloc takes no block behind the image.  The code checks none of this: ialloc
  of mkfs writes over the bitmap, the rounded size leads bmap past its last
  address (a panic), and balloc (fs.c) goes through whole bitmap blocks and
  hands out numbers behind the end of the disk.  The inductive invariant
  `OwnInv` speaks of claims: an address in an inode (`InNode`), an address in an
  indirect block that itrunc has not come to (`InBlock`) and the block that bmap
  has taken and not yet entered (`Pending`) each claim a block for one place of
  one file.  `ClaimOK`: a claimed block is marked, or during mkfs below freeblock,
  and is claimed by one place.  `FreeZero`: an unmarked block is zero, so a block
  taken as an indirect block claims nothing.  `EntryOK`: units of an indirect
  block are addresses, which writei and Rot could spoil if blocks were shared.
  `LinkOK`: between two steps of bmap and of the checksum nobody else changes the
  entry it works on, since by `BusyOK` no two calls are on one inode.  `MemOK`:
  memory has every address the disk has, up to the checksum in its high digit
  (`Tagged`: the digit does not change the block), and a lost address in memory
  after a crash only leaves a marked block that nobody claims.  A step then adds
  a claim to a block that was free, or removes claims, and the lemma of each
  action shows which.  TLC checked OwnInv and Roomy, before the proof, on 871,443
  states.
* **MemoryProofs** — `MInvCorrect`, `PagesOwnedCorrect`,
  `SizeIsMappedCorrect`, for any number of pages, processes, programs and
  calls in progress at once.  PagesOwned counts places, which no step can be
  followed through; so `Owning` says that there is a function from pages to
  owners — the free list, the lost pages, a kernel stack, a process or a call
  that holds a page directory, a directory at a table or at a user page — with
  which all of the lists, fields and page tables agree in both directions.  A
  step then gives one page a new owner (`Given`), or hands a directory from a
  call to a process.  `Sane` says for each call and each place in it which
  pages its directory has (`Growing`, `Freeing`, `ForkOK`, `ExecOK`), which is
  SizeIsMapped while a call is halfway through allocuvm, copyuvm or freevm, and
  `Alone` that no two calls work on one slot: without it fork's child or wait's
  zombie could be freed by both.  Typed includes that nothing has panicked: the
  "remap" of mappages and the "page not present" of copyuvm are unreachable.
  The places of PagesOwned are then the image of the owner function, one for
  each page.  `MemoryAssumption` asks for enough pages for userinit, which
  panics otherwise, and for programs whose segments do not wrap around 2^32,
  which exec.c does not check and the linker sees to.
* **MemoryProofs**, what the pages hold — `OwnMemoryCorrect`.  `CInv` is MInv
  with, for each process, what its memory and the memory that its call works
  on hold (`Has`): halfway through sbrk the pages that are not yet wanted are
  zero (`SbrkHas`), the copy of fork shows what the parent's pages show as far
  as it has come (`ForkHas`), and exec's new image shows, in each page, the
  last of the segments loaded so far, or zero (`ExecHas`, `Text`), the stack
  pages being above all of them (`Beneath`, `StackHas`).  `Reaches` says of a
  step that it writes only to free pages and to those of one directory of its
  own; by Owning no other process sees those, so what the others see stays.
  The hypothesis `Fitted` says that the arguments of exec and its ustack,
  which is never empty, fit into the one stack page, which exec does not check
  (section 4: without it the property is false), and that no text in a program
  is the word for a page that is not there.  TLC checked CInv, before it was
  proved, on 595,760 states of three processes and, with programs of
  overlapping segments and longer arguments, on 1,231,566.

Only model-checked, and why:

* liveness under fairness (KilledExits, OrphansReaped, CallReturns,
  CallsReturn, IoCompletes, Terminates): outside this prover's logic;
* Shell, whose parser is recursive;
* ReadsBack, NoFalseAlarm and StatSum of FileBlocks: what a checksum says after
  a write needs the XOR of a block with one unit changed, block by block, and
  StatSum the XOR of all of them: induction over data;
* NothingLost of FileBlocks: the converse of BlocksOwned, that a marked block is
  claimed, which holds only as long as there was no crash, no deletion of a file
  whose addresses carry checksums and no eviction of an inode for which a read
  has allocated a block (`leaky`); OwnInv says nothing of them;
* ImplementsService of LFS: it needs that names are unique in a directory on
  top of DirsOK, and what lookup then finds.

## 6. What the properties notice

| property | mistake |
|---|---|
| LogEnd | `CRNext_OffByOne`: next_block saved one too low |
| NoSharing | `AppendBlock_Before`: pointer one too low |
| CRInSync | `CRImap_Skipped`: the imap cell not saved |
| NoDangling | `UnlinkOut_ImapFirst`: inode map before entry |
| ImplementsService | `NotEmpty_Skips`: off by one in the test for an empty directory |
| RetriesTransparent | `Unlink_AbsentFails`: unlink of an absent name is an error |
| CallReturns | `Retry_Never`: one packet per call |
| NoLostWakeup | `wakeup_One`: one sleeper woken instead of all |
| CallsReturn | `pipeclose_NoWakeup`: close wakes nobody |
| NoUseAfterFree | `fileclose_Always`: every close closes the pipe |
| EofIsFinal | `RReady_NoWait` |
| ImplementsStream | `Full_Late`: the ring one byte too long |
| OneCopy | `bget_recycle_NoSearch`: no second search after a wait |
| ValidIsDisk | `bget_recycle_FlagsKept` |
| OwedWakeup | `brelse_NoWakeup` |
| IoCompletes | `ideintr_DirtyKept` |
| ImplementsStore | `bget_wait_Given` |
| Progress | `Ask_AnyOrder`: callers nest in any order |
| OwnStack | `fork_Runnable`: the slot RUNNABLE before it has a stack |
| NoMissedExit, OrphansReaped | `ExitWakes_Self`: exit wakes itself instead of its parent |
| ForkOwnsChild | `Zombies_Anybodys`: wait reaps any zombie |
| KilledExits | `kill_Asleep`: sleepers not woken |
| RefsCounted | `ChdirDone_Forgets`: the old directory not put; `OpenDone_Leaks`: the inode not put when open fails |
| Coherent | `IputDone_FlagsKept`: a freed inode stays valid |
| LinksCover | `UpLinks_None`: the link of ".." not counted |
| NoLockCycle | `Removable_DotsToo`: unlink of ".." locks upwards |
| NoDangling (Inodes) | `LnMore_Forgotten`: a link not counted |
| BlocksOwned | `balloc_NotWritten`: the bitmap block not written |
| NothingLost | `bfree_BitKept`: the bit not cleared |
| ReadsBack | `SumWrong_DirectOnly`: indirect blocks not verified |
| NoFalseAlarm, StatSum | `SumInInode_OfOldBlock`: the checksum taken before the copy |
| PagesOwned | `fork_failed_KeepsStack`: the kernel stack not freed |
| SizeIsMapped | `allocuvm_page_NoUndo`: pages of a failed sbrk kept |
| OwnMemory | `kalloc_Kept`: a page handed out twice |
| LineDoesWhatItSays | `PIPE_wait_Once`: one wait for two children |
| Terminates | `RightCalls_KeepWriteEnd`: the reader keeps the write end |

## 7. Not modelled

* `lfs.c`: the reserved names ".", ".." and "DNE" as arguments, a crash while
  the image is created, `write()` failing.
* `mfs.c`, `sendPacket.c`: argument checks before a packet exists, failing
  sockets.  An ephemeral port is not used again while a response to its
  previous owner is on its way.  Damaged datagrams, which the kernel drops.
* `ide.c`: port I/O; a spurious interrupt, which changes nothing; a second
  disk.
* `proc.c`: procdump; faults of user programs, which set `killed` as kill does;
  the nesting counters of pushcli and popcli.  exit's closing of files and of
  cwd happens before the lock and touches nothing of the table.
* `sysfile.c`, `file.c`: mknod, the checks of user pointers.  `sys_open`'s branch
  for O_CHECKED, which the condition of sysfile.c:276 never reaches.
* `fs.c`: the names inside directory blocks (Inodes has directories as
  functions, FileBlocks has their blocks without names).
* `vm.c`, `exec.c`: segments, control registers and protection bits; the checks
  of exec before it allocates; the page tables are those the kernel's mappings
  need, since user memory lies under the first of them.
* `mkfs.c`: names, byte order, errors of the host.
* `sh.c`: cd, standard error, characters inside words (nulterminate), and init's
  restart of a shell that has died for lack of processes.
* Device I/O: `console.c` (its line editing could be modelled as Pipe is, its
  ring is filled by an interrupt), `kbd.c`, `uart.c`, `lapic.c`, `ioapic.c`,
  `picirq.c`, `mp.c`; boot code; `string.c`, `umalloc.c`, `ulib.c` and the other
  user programs, which are sequential libraries and callers; `usertests.c` and
  `linux/tests`, which are tests.

## 8. Plan

Done: the modules of section 2 with the proofs of section 5.  Left:

1. Proofs: NothingLost of FileBlocks, from OwnInv and the converse of ClaimOK;
   ImplementsService of LFS.
2. The console's input ring, and the free list of umalloc.
