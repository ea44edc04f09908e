----------------------------- MODULE BlockStore -----------------------------
(***************************************************************************)
(* What the buffer cache promises to fs.c: blocks that one process at a    *)
(* time owns, reads and changes.                                           *)
(***************************************************************************)
CONSTANTS Procs, Sectors, Values

VARIABLES
  block,   \* sector -> contents
  owner    \* sector -> the processes that hold it

storevars == <<block, owner>>

Take(p, s) ==
  /\ owner[s] = {}
  /\ owner' = [owner EXCEPT ![s] = {p}]
  /\ UNCHANGED block

Update(p, s, v) ==
  /\ owner[s] = {p}
  /\ block' = [block EXCEPT ![s] = v]
  /\ UNCHANGED owner

Give(p, s) ==
  /\ owner[s] = {p}
  /\ owner' = [owner EXCEPT ![s] = {}]
  /\ UNCHANGED block

StoreInit ==
  /\ block \in [Sectors -> Values]
  /\ owner = [s \in Sectors |-> {}]

StoreNext ==
  \E p \in Procs, s \in Sectors :
    Take(p, s) \/ Give(p, s) \/ \E v \in Values : Update(p, s, v)

StoreSpec == StoreInit /\ [][StoreNext]_storevars
=============================================================================
