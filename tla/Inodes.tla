------------------------------- MODULE Inodes -------------------------------
(***************************************************************************)
(* The inode layer of xv6/kernel/fs.c (ialloc, iget, idup, ilock, iunlock, *)
(* iput, dirlookup, dirlink, namex) under the system calls of sysfile.c    *)
(* that use it: open, close, mkdir, unlink, link, chdir, by several        *)
(* processes on one device.                                                *)
(*                                                                         *)
(* I_BUSY is a lock held across disk accesses.  What a process does to an  *)
(* inode and to its directory entries while it holds the lock is one step, *)
(* together with the iunlock() that ends it; ilock() and the stages of     *)
(* iput() are steps of their own.  lk[p] in the record of a process is the *)
(* set of cache entries it has locked, and cur, ip, dp, arg are the        *)
(* pointers its kernel stack holds (arg: the argument of iput).            *)
(*                                                                         *)
(* Contents of files are left out, a directory is a function from names to *)
(* inode numbers, and "." is left out of it.                               *)
(*                                                                         *)
(* X_Fault, before X, is X with one plausible mistake; no specification    *)
(* uses it.                                                                *)
(***************************************************************************)
EXTENDS Integers, Sequences, FiniteSets, FiniteSetsExt

CONSTANTS
  Procs,
  Inums,    \* inode numbers of the device, ROOTINO = 1 among them
  NINODE,   \* entries of the inode cache (50)
  Names,    \* names of files other than "." and ".."
  Paths,    \* arguments of the calls: sequences of names, "/" first if absolute
  Ops       \* the system calls programs make

ROOTINO == 1
Up      == ".."
Slots   == 1 .. NINODE
Nil     == 0            \* a null pointer, or no directory entry
Elems   == Names \cup {Up}
Free    == [type |-> "0", nlink |-> 0]

ASSUME InodesAssumption ==
  /\ IsFiniteSet(Procs)
  /\ ROOTINO \in Inums /\ Inums \subseteq Nat \ {0} /\ IsFiniteSet(Inums)
  /\ NINODE \in Nat /\ NINODE >= Cardinality(Inums)
  /\ IsFiniteSet(Names) /\ Up \notin Names /\ "/" \notin Names
  /\ \A path \in Paths : /\ path \in Seq(Elems \cup {"/"})
                          /\ \A k \in DOMAIN path : path[k] = "/" => k = 1
  /\ Ops \subseteq {"open", "openw", "creat", "mkdir", "unlink", "link", "chdir", "close"}

VARIABLES
  icache,   \* struct inode of each slot
  dinode,   \* type and nlink of each inode on disk
  dents,    \* the entries of each directory
  pr,       \* the kernel stack of each process
  cwd, ofile,  \* proc->cwd and the one descriptor of a process
  panicked

vars == <<icache, dinode, dents, pr, cwd, ofile, panicked>>

\* A struct inode that iget() has set up with n references, and one in no use.
Fresh(i, n) == [inum |-> i, ref |-> n, busy |-> FALSE, valid |-> FALSE, type |-> "0", nlink |-> 0]
Unused == Fresh(Nil, 0)
NoDents == [n \in Elems |-> Nil]
User == [pc |-> "user", k |-> "user", op |-> "-", path |-> <<>>, name |-> Up,
         cur |-> Nil, ip |-> Nil, dp |-> Nil, arg |-> Nil, lk |-> {}]

----------------------------------------------------------------------------
(* The cache                                                               *)

\* The entry of the cache for inode i, if one is in use.
Cached(i) == {s \in Slots : icache[s].ref > 0 /\ icache[s].inum = i}

\* A struct inode with d references more.
Ref(e, d) == [e EXCEPT !.ref = @ + d]

\* iget(): the entry it returns ...
igot(i) == IF Cached(i) # {} THEN Min(Cached(i)) ELSE Min({s \in Slots : icache[s].ref = 0})

\* ... and the cache after it.
iget(i) ==
  [icache EXCEPT ![igot(i)] =
     IF Cached(i) # {} THEN Ref(@, 1)
     ELSE Fresh(i, 1)]

\* ip->ref-- in a cache c.  The next iget() of an entry without references
\* clears its flags, so nothing is kept of it.
Unref(c, s) == [c EXCEPT ![s] = IF @.ref = 1 THEN Unused ELSE Ref(@, -1)]

idup(s) == [icache EXCEPT ![s] = Ref(@, 1)]

\* iunlock() in a cache c.
iunlock(c, s) == [c EXCEPT ![s].busy = FALSE]

\* A change of nlink in a cache c; iupdate() then copies it to the disk.
Links(c, s, d) == [c EXCEPT ![s].nlink = @ + d]
iupdate(c, S) ==
  [i \in Inums |->
     LET T == {s \in S : c[s].inum = i}
     IN  IF T = {} THEN dinode[i]
         ELSE [type |-> c[Min(T)].type, nlink |-> c[Min(T)].nlink]]

\* dirlookup() in the directory of a cache entry.
Look(s, n) == dents[icache[s].inum][n]

----------------------------------------------------------------------------
(* Control                                                                 *)

Set(p, r) == pr' = [pr EXCEPT ![p] = r]
Running(p, l) == panicked = "none" /\ pr[p].pc = l

\* What the process wants locked at each place.
Target(p) ==
  CASE pr[p].pc = "nx" /\ pr[p].path # <<>> -> pr[p].cur
    [] pr[p].pc \in {"cr_dp", "un_dp", "ln_dp"} -> pr[p].dp
    [] pr[p].pc \in {"op", "cd", "ln", "ln_bad", "cr_new", "cr_found", "un_ip"} -> pr[p].ip
    [] OTHER -> Nil
Wants(p)  == Target(p) # Nil /\ Target(p) \notin pr[p].lk
At(p, l)  == Running(p, l) /\ ~Wants(p)

CanLock(s) == ~icache[s].busy

\* ilock(), with the read of the inode the first time.
ilock(p) ==
  /\ panicked = "none" /\ Wants(p) /\ CanLock(Target(p))
  /\ LET s == Target(p)
         d == dinode[icache[s].inum]
     IN  /\ icache' = [icache EXCEPT ![s] =
               IF @.valid THEN [@ EXCEPT !.busy = TRUE]
               ELSE [@ EXCEPT !.busy = TRUE, !.valid = TRUE, !.type = d.type, !.nlink = d.nlink]]
         /\ panicked' = IF ~icache[s].valid /\ d.type = "0" THEN "ilock: no type" ELSE panicked
         /\ Set(p, [pr[p] EXCEPT !.lk = @ \cup {s}])
  /\ UNCHANGED <<dinode, dents, cwd, ofile>>

\* The stack r, about to call iput(s) and then to go on at k.
Iput(r, s, k) == [r EXCEPT !.pc = "iput", !.arg = s, !.k = k, !.lk = @ \ {s}]

\* Back from iput().
Back(r) == IF r.k = "user" THEN User ELSE [r EXCEPT !.pc = r.k, !.arg = Nil, !.k = "user"]

\* The last reference to an inode without links.
MustFree(s) == icache[s].ref = 1 /\ icache[s].valid /\ icache[s].nlink = 0

iput(p) ==
  /\ Running(p, "iput")
  /\ LET s == pr[p].arg
     IN  IF MustFree(s)
         THEN /\ panicked' = IF icache[s].busy THEN "iput busy" ELSE panicked
              /\ icache' = [icache EXCEPT ![s].busy = TRUE]
              /\ Set(p, [pr[p] EXCEPT !.pc = "iput_free"])
         ELSE /\ icache' = Unref(icache, s)
              /\ Set(p, Back(pr[p]))
              /\ UNCHANGED panicked
  /\ UNCHANGED <<dinode, dents, cwd, ofile>>

\* itrunc(), type = 0 and iupdate(), with I_BUSY but without icache.lock.
IputFree(p) ==
  /\ Running(p, "iput_free")
  /\ LET s == pr[p].arg IN
     /\ icache' = [icache EXCEPT ![s].type = "0"]
     /\ dinode' = iupdate(icache', {s})
     /\ dents' = [dents EXCEPT ![icache[s].inum] = NoDents]
  /\ Set(p, [pr[p] EXCEPT !.pc = "iput_done"])
  /\ UNCHANGED <<cwd, ofile, panicked>>

IputDone_FlagsKept(p) ==
  /\ Running(p, "iput_done")
  /\ icache' = Unref([icache EXCEPT ![pr[p].arg].busy = FALSE], pr[p].arg)
  /\ Set(p, Back(pr[p]))
  /\ UNCHANGED <<dinode, dents, cwd, ofile, panicked>>

IputDone(p) ==
  /\ Running(p, "iput_done")
  /\ icache' = Unref([icache EXCEPT ![pr[p].arg] = [@ EXCEPT !.busy = FALSE, !.valid = FALSE]], pr[p].arg)
  /\ Set(p, Back(pr[p]))
  /\ UNCHANGED <<dinode, dents, cwd, ofile, panicked>>

----------------------------------------------------------------------------
(* namex                                                                   *)

\* The start of namex() on a path, for the process with stack r.
Namex(p, r, path) ==
  LET abs == path # <<>> /\ Head(path) = "/"
  IN  /\ icache' = IF abs THEN iget(ROOTINO) ELSE idup(cwd[p])
      /\ Set(p, [r EXCEPT !.pc = "nx", !.cur = IF abs THEN igot(ROOTINO) ELSE cwd[p],
                          !.path = IF abs THEN Tail(path) ELSE path])

\* A call is looking for the parent of its last path element; link() does in
\* its second half.
Parent(r) == r.op \in {"creat", "mkdir", "unlink"} \/ (r.op = "link" /\ r.ip # Nil)

\* Where a call goes on once namex() has returned, and when it has failed.
Found(r) ==
  CASE r.op \in {"open", "openw"} -> "op" [] r.op = "chdir" -> "cd" [] r.op = "unlink" -> "un_dp"
    [] r.op \in {"creat", "mkdir"} -> "cr_dp" [] r.op = "link" -> IF r.ip = Nil THEN "ln" ELSE "ln_dp"
Failed(r) == IF r.op = "link" /\ r.ip # Nil THEN "ln_bad" ELSE "user"

\* The path is used up.
NxEnd(p) ==
  /\ Running(p, "nx") /\ pr[p].path = <<>>
  /\ LET r == pr[p] IN
     Set(p, IF Parent(r) THEN Iput([r EXCEPT !.cur = Nil], r.cur, Failed(r))
            ELSE [r EXCEPT !.pc = Found(r), !.ip = r.cur, !.cur = Nil])
  /\ UNCHANGED <<icache, dinode, dents, cwd, ofile, panicked>>

IsDir(s) == icache[s].type = "DIR"
LastOne(r) == Parent(r) /\ Len(r.path) = 1

NxParent(p) ==
  /\ At(p, "nx") /\ pr[p].path # <<>>
  /\ IsDir(pr[p].cur) /\ LastOne(pr[p])
  /\ icache' = iunlock(icache, pr[p].cur)
  /\ LET r == pr[p] IN
     Set(p, [r EXCEPT !.pc = Found(r), !.dp = r.cur, !.cur = Nil, !.name = Head(r.path),
                      !.path = <<>>, !.lk = @ \ {r.cur}])
  /\ UNCHANGED <<dinode, dents, cwd, ofile, panicked>>

NxFail(p) ==
  /\ At(p, "nx") /\ pr[p].path # <<>>
  /\ LET r == pr[p] IN
     /\ ~IsDir(r.cur) \/ (~LastOne(r) /\ Look(r.cur, Head(r.path)) = Nil)
     /\ icache' = iunlock(icache, r.cur)
     /\ Set(p, Iput([r EXCEPT !.cur = Nil], r.cur, Failed(r)))
  /\ UNCHANGED <<dinode, dents, cwd, ofile, panicked>>

NxStep(p) ==
  /\ At(p, "nx") /\ pr[p].path # <<>>
  /\ LET r == pr[p]
         i == Look(r.cur, Head(r.path))
     IN  /\ IsDir(r.cur) /\ ~LastOne(r) /\ i # Nil
         /\ icache' = iunlock(iget(i), r.cur)
         /\ Set(p, Iput([r EXCEPT !.cur = igot(i), !.path = Tail(@)], r.cur, "nx"))
  /\ UNCHANGED <<dinode, dents, cwd, ofile, panicked>>

----------------------------------------------------------------------------
(* open, close, chdir                                                      *)

Call(p, op, path) ==
  /\ Running(p, "user") /\ op \in Ops
  /\ Namex(p, [User EXCEPT !.op = op], path)
  /\ UNCHANGED <<dinode, dents, cwd, ofile, panicked>>

OpenDone_Leaks(p) ==
  /\ At(p, "op")
  /\ LET s == pr[p].ip
         bad == (pr[p].op = "openw" /\ IsDir(s)) \/ ofile[p] # Nil
     IN  /\ icache' = iunlock(icache, s)
         /\ ofile' = IF bad THEN ofile ELSE [ofile EXCEPT ![p] = s]
  /\ Set(p, User)
  /\ UNCHANGED <<dinode, dents, cwd, panicked>>

\* sys_open once the inode is locked: no write access to a directory, and a
\* process that has a descriptor does not get another one.
OpenDone(p) ==
  /\ At(p, "op")
  /\ LET s == pr[p].ip
         bad == (pr[p].op = "openw" /\ IsDir(s)) \/ ofile[p] # Nil
     IN  /\ icache' = iunlock(icache, s)
         /\ ofile' = IF bad THEN ofile ELSE [ofile EXCEPT ![p] = s]
         /\ Set(p, IF bad THEN Iput([pr[p] EXCEPT !.ip = Nil], s, "user") ELSE User)
  /\ UNCHANGED <<dinode, dents, cwd, panicked>>

\* sys_close and fileclose.
close(p) ==
  /\ Running(p, "user") /\ "close" \in Ops /\ ofile[p] # Nil
  /\ Set(p, Iput(User, ofile[p], "user"))
  /\ ofile' = [ofile EXCEPT ![p] = Nil]
  /\ UNCHANGED <<icache, dinode, dents, cwd, panicked>>

ChdirDone_Forgets(p) ==
  /\ At(p, "cd")
  /\ LET s == pr[p].ip IN
     /\ icache' = iunlock(icache, s)
     /\ cwd' = IF IsDir(s) THEN [cwd EXCEPT ![p] = s] ELSE cwd
     /\ Set(p, IF IsDir(s) THEN User ELSE Iput([pr[p] EXCEPT !.ip = Nil], s, "user"))
  /\ UNCHANGED <<dinode, dents, ofile, panicked>>

\* The new directory takes the place of the old one, which is put.
ChdirDone(p) ==
  /\ At(p, "cd")
  /\ LET s == pr[p].ip IN
     /\ icache' = iunlock(icache, s)
     /\ cwd' = IF IsDir(s) THEN [cwd EXCEPT ![p] = s] ELSE cwd
     /\ Set(p, Iput([pr[p] EXCEPT !.ip = Nil, !.lk = {}], IF IsDir(s) THEN cwd[p] ELSE s, "user"))
  /\ UNCHANGED <<dinode, dents, ofile, panicked>>

----------------------------------------------------------------------------
(* create: open with O_CREATE, and mkdir                                   *)

UpLinks_None(op) == 0
\* The link that the ".." of a new directory is to its parent.
UpLinks(op) == IF op = "mkdir" THEN 1 ELSE 0

Kind(op) == IF op = "mkdir" THEN "DIR" ELSE "FILE"

CrExists(p) ==
  /\ At(p, "cr_dp")
  /\ LET r == pr[p]
         i == Look(r.dp, r.name)
     IN  /\ i # Nil
         /\ icache' = iunlock(iget(i), r.dp)
         /\ Set(p, Iput([r EXCEPT !.ip = igot(i), !.dp = Nil], r.dp, "cr_found"))
  /\ UNCHANGED <<dinode, dents, cwd, ofile, panicked>>

\* The file is opened if it is one and one was wanted.
CrFound(p) ==
  /\ At(p, "cr_found")
  /\ LET r == pr[p] IN
     IF Kind(r.op) = "FILE" /\ icache[r.ip].type = "FILE"
     THEN Set(p, [r EXCEPT !.pc = "op"]) /\ UNCHANGED icache
     ELSE /\ icache' = iunlock(icache, r.ip)
          /\ Set(p, Iput([r EXCEPT !.ip = Nil], r.ip, "user"))
  /\ UNCHANGED <<dinode, dents, cwd, ofile, panicked>>

\* ialloc(): a free inode is taken on disk before it is in the cache.
CrAlloc(p) ==
  /\ At(p, "cr_dp") /\ Look(pr[p].dp, pr[p].name) = Nil
  /\ LET free == {i \in Inums : dinode[i].type = "0"}
         i == Min(free)
     IN  IF free = {}
         THEN panicked' = "ialloc: no inodes" /\ UNCHANGED <<icache, dinode, pr>>
         ELSE /\ dinode' = [dinode EXCEPT ![i] = [type |-> Kind(pr[p].op), nlink |-> 0]]
              /\ icache' = iget(i)
              /\ Set(p, [pr[p] EXCEPT !.pc = "cr_new", !.ip = igot(i)])
              /\ UNCHANGED panicked
  /\ UNCHANGED <<dents, cwd, ofile>>

\* The new inode gets its link, a directory its "..", and then its name.
CrNew(p) ==
  /\ At(p, "cr_new")
  /\ LET r == pr[p]
         dir == r.op = "mkdir"
         c == Links([icache EXCEPT ![r.ip].nlink = 1], r.dp, UpLinks(r.op))
     IN  /\ icache' = iunlock(c, r.dp)
         /\ dinode' = iupdate(c, {r.ip, r.dp})
         /\ dents' = [dents EXCEPT
              ![icache[r.ip].inum][Up] = IF dir THEN icache[r.dp].inum ELSE @,
              ![icache[r.dp].inum][r.name] = icache[r.ip].inum]
         /\ Set(p, Iput([r EXCEPT !.dp = Nil], r.dp, IF dir THEN "mk_end" ELSE "op"))
  /\ UNCHANGED <<cwd, ofile, panicked>>

MkdirEnd(p) ==
  /\ Running(p, "mk_end")
  /\ icache' = iunlock(icache, pr[p].ip)
  /\ Set(p, Iput([pr[p] EXCEPT !.ip = Nil], pr[p].ip, "user"))
  /\ UNCHANGED <<dinode, dents, cwd, ofile, panicked>>

----------------------------------------------------------------------------
(* unlink                                                                  *)

Removable_DotsToo(s, n) == Look(s, n) # Nil
\* "Cannot unlink "." or ".."."
Removable(s, n) == n # Up /\ Look(s, n) # Nil

UnFail(p) ==
  /\ At(p, "un_dp") /\ ~Removable(pr[p].dp, pr[p].name)
  /\ icache' = iunlock(icache, pr[p].dp)
  /\ Set(p, Iput([pr[p] EXCEPT !.dp = Nil], pr[p].dp, "user"))
  /\ UNCHANGED <<dinode, dents, cwd, ofile, panicked>>

\* The entry is found; the file is locked next, with its directory locked.
UnFound(p) ==
  /\ At(p, "un_dp") /\ Removable(pr[p].dp, pr[p].name)
  /\ LET i == Look(pr[p].dp, pr[p].name) IN
     /\ icache' = iget(i)
     /\ Set(p, [pr[p] EXCEPT !.pc = "un_ip", !.ip = igot(i)])
  /\ UNCHANGED <<dinode, dents, cwd, ofile, panicked>>

isdirempty(s) == \A n \in Names : Look(s, n) = Nil

UnNotEmpty(p) ==
  /\ At(p, "un_ip")
  /\ LET s == pr[p].ip IN
     /\ icache[s].nlink >= 1 /\ IsDir(s) /\ ~isdirempty(s)
     /\ icache' = iunlock(icache, s)
     /\ Set(p, Iput([pr[p] EXCEPT !.ip = Nil], s, "un_ne"))
  /\ UNCHANGED <<dinode, dents, cwd, ofile, panicked>>

UnNotEmptyEnd(p) ==
  /\ Running(p, "un_ne")
  /\ icache' = iunlock(icache, pr[p].dp)
  /\ Set(p, Iput([pr[p] EXCEPT !.dp = Nil], pr[p].dp, "user"))
  /\ UNCHANGED <<dinode, dents, cwd, ofile, panicked>>

\* The entry is erased and the directory let go ...
UnErase(p) ==
  /\ At(p, "un_ip")
  /\ LET r == pr[p]
         c == Links(icache, r.dp, IF IsDir(r.ip) THEN -1 ELSE 0)
     IN  /\ icache[r.ip].nlink < 1 \/ ~IsDir(r.ip) \/ isdirempty(r.ip)
         /\ panicked' = IF icache[r.ip].nlink < 1 THEN "unlink: nlink < 1" ELSE panicked
         /\ icache' = iunlock(c, r.dp)
         /\ dinode' = iupdate(c, {r.dp})
         /\ dents' = [dents EXCEPT ![icache[r.dp].inum][r.name] = Nil]
         /\ Set(p, Iput([r EXCEPT !.dp = Nil], r.dp, "un_end"))
  /\ UNCHANGED <<cwd, ofile>>

\* ... and the file loses a link.
UnEnd(p) ==
  /\ Running(p, "un_end")
  /\ LET c == Links(icache, pr[p].ip, -1) IN
     /\ icache' = iunlock(c, pr[p].ip)
     /\ dinode' = iupdate(c, {pr[p].ip})
  /\ Set(p, Iput([pr[p] EXCEPT !.ip = Nil], pr[p].ip, "user"))
  /\ UNCHANGED <<dents, cwd, ofile, panicked>>

----------------------------------------------------------------------------
(* link                                                                    *)

LnFail(p) ==
  /\ At(p, "ln") /\ IsDir(pr[p].ip)
  /\ icache' = iunlock(icache, pr[p].ip)
  /\ Set(p, Iput([pr[p] EXCEPT !.ip = Nil], pr[p].ip, "user"))
  /\ UNCHANGED <<dinode, dents, cwd, ofile, panicked>>

LnMore_Forgotten == 0
\* The link is counted before the new name exists.
LnMore == 1

LnCount(p) ==
  /\ At(p, "ln") /\ ~IsDir(pr[p].ip)
  /\ LET c == Links(icache, pr[p].ip, LnMore) IN
     /\ icache' = iunlock(c, pr[p].ip)
     /\ dinode' = iupdate(c, {pr[p].ip})
  /\ Set(p, [pr[p] EXCEPT !.pc = "ln_new", !.lk = {}])
  /\ UNCHANGED <<dents, cwd, ofile, panicked>>

\* The second argument of link() is not looked at before this.
LnNew(p) ==
  /\ Running(p, "ln_new")
  /\ \E new \in Paths : Namex(p, pr[p], new)
  /\ UNCHANGED <<dinode, dents, cwd, ofile, panicked>>

LnName(p) ==
  /\ At(p, "ln_dp") /\ Look(pr[p].dp, pr[p].name) = Nil
  /\ LET r == pr[p] IN
     /\ dents' = [dents EXCEPT ![icache[r.dp].inum][r.name] = icache[r.ip].inum]
     /\ icache' = iunlock(icache, r.dp)
     /\ Set(p, Iput([r EXCEPT !.dp = Nil], r.dp, "ln_end"))
  /\ UNCHANGED <<dinode, cwd, ofile, panicked>>

LnEnd(p) ==
  /\ Running(p, "ln_end")
  /\ Set(p, Iput([pr[p] EXCEPT !.ip = Nil], pr[p].ip, "user"))
  /\ UNCHANGED <<icache, dinode, dents, cwd, ofile, panicked>>

\* dirlink() finds the name and puts the inode it leads to.
LnExists(p) ==
  /\ At(p, "ln_dp")
  /\ LET i == Look(pr[p].dp, pr[p].name) IN
     /\ i # Nil
     /\ icache' = iget(i)
     /\ Set(p, [pr[p] EXCEPT !.pc = "iput", !.arg = igot(i), !.k = "ln_exists"])
  /\ UNCHANGED <<dinode, dents, cwd, ofile, panicked>>

LnExistsEnd(p) ==
  /\ Running(p, "ln_exists")
  /\ icache' = iunlock(icache, pr[p].dp)
  /\ Set(p, Iput([pr[p] EXCEPT !.dp = Nil], pr[p].dp, "ln_bad"))
  /\ UNCHANGED <<dinode, dents, cwd, ofile, panicked>>

\* bad: the link is taken back.
LnBad(p) ==
  /\ At(p, "ln_bad")
  /\ LET c == Links(icache, pr[p].ip, -1) IN
     /\ icache' = iunlock(c, pr[p].ip)
     /\ dinode' = iupdate(c, {pr[p].ip})
  /\ Set(p, Iput([pr[p] EXCEPT !.ip = Nil], pr[p].ip, "user"))
  /\ UNCHANGED <<dents, cwd, ofile, panicked>>

----------------------------------------------------------------------------
\* The image of mkfs: a root directory.  userinit and fork have given every
\* process a reference to it.
Init ==
  /\ icache = [s \in Slots |->
       IF s = 1 THEN Fresh(ROOTINO, Cardinality(Procs)) ELSE Unused]
  /\ dinode = [i \in Inums |-> IF i = ROOTINO THEN [type |-> "DIR", nlink |-> 1] ELSE Free]
  /\ dents = [i \in Inums |-> IF i = ROOTINO THEN [NoDents EXCEPT ![Up] = ROOTINO] ELSE NoDents]
  /\ pr = [p \in Procs |-> User]
  /\ cwd = [p \in Procs |-> 1] /\ ofile = [p \in Procs |-> Nil]
  /\ panicked = "none"

NamexStep(p) == NxEnd(p) \/ NxParent(p) \/ NxFail(p) \/ NxStep(p)
CreateStep(p) == CrExists(p) \/ CrFound(p) \/ CrAlloc(p) \/ CrNew(p) \/ MkdirEnd(p)
UnlinkStep(p) == \/ UnFail(p) \/ UnFound(p) \/ UnNotEmpty(p) \/ UnNotEmptyEnd(p)
                 \/ UnErase(p) \/ UnEnd(p)
LinkStep(p) == \/ LnFail(p) \/ LnCount(p) \/ LnNew(p) \/ LnName(p) \/ LnEnd(p)
               \/ LnExists(p) \/ LnExistsEnd(p) \/ LnBad(p)

Kernel(p) ==
  \/ ilock(p) \/ iput(p) \/ IputFree(p) \/ IputDone(p) \/ NamexStep(p)
  \/ OpenDone(p) \/ ChdirDone(p) \/ CreateStep(p) \/ UnlinkStep(p) \/ LinkStep(p)

Next ==
  \E p \in Procs :
    \/ Kernel(p) \/ close(p)
    \/ \E op \in Ops \ {"close"}, path \in Paths : Call(p, op, path)

Spec == Init /\ [][Next]_vars

----------------------------------------------------------------------------
(* Properties.                                                             *)

\* "ip->ref counts the number of pointer references to this cached inode"
\* (fs.c:113): the pointers on kernel stacks, in descriptors and in cwd.
Pointers(s) ==
  Cardinality({x \in Procs \X {"cur", "ip", "dp", "arg"} : pr[x[1]][x[2]] = s})
  + Cardinality({p \in Procs : cwd[p] = s}) + Cardinality({p \in Procs : ofile[p] = s})
RefsCounted == \A s \in Slots : icache[s].ref = Pointers(s)

\* A locked inode has one holder: the process that locked it, or the one that
\* is freeing it.
Frees(p, s) == pr[p].pc \in {"iput_free", "iput_done"} /\ pr[p].arg = s

\* A valid entry of the cache that is in use agrees with the disk, also after
\* its number has been freed and allocated again, and nobody locks an inode
\* without a type or frees a locked one (the only panic is for lack of inodes).
Coherent ==
  /\ panicked \in {"none", "ialloc: no inodes"}
  /\ \A s \in Slots :
       icache[s].ref > 0 /\ icache[s].valid /\ (\A p \in Procs : ~Frees(p, s)) =>
         dinode[icache[s].inum] = [type |-> icache[s].type, nlink |-> icache[s].nlink]

\* The names and subdirectories that a link count has to cover.
Named(i) == {x \in Inums \X Names : dents[x[1]][x[2]] = i}
Subdirs(i) == {d \in Inums \ {ROOTINO} : dents[d][Up] = i /\ Named(d) # {}}
\* An inode has at least as many links as directory entries lead to it, at
\* every point of every call.
LinksCover == \A i \in Inums : dinode[i].nlink >= Cardinality(Named(i)) + Cardinality(Subdirs(i))

\* A name leads to an inode that is in use.
NoDangling == \A i \in Inums : Named(i) # {} => dinode[i].type # "0"

\* No two processes wait for each other's inodes.  (A process that asks for
\* an inode it has locked itself is not what this says: Wants leaves it out.)
WaitsFor(p, q) == Wants(p) /\ Target(p) \in pr[q].lk
NoLockCycle == \A p, q \in Procs : ~(WaitsFor(p, q) /\ WaitsFor(q, p))

=============================================================================
