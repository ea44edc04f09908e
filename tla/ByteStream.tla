----------------------------- MODULE ByteStream -----------------------------
(***************************************************************************)
(* What a pipe promises (xv6/kernel/pipe.c): a bounded stream of bytes     *)
(* that arrive in the order in which they were put, each once, and whose   *)
(* ends close for good.                                                    *)
(***************************************************************************)
EXTENDS Integers, Sequences

CONSTANTS Bytes, Readers, Cap

VARIABLES
  stream,   \* the bytes on their way
  addr,     \* reader -> what its current read has copied
  wopen,
  ropen

streamvars == <<stream, addr, wopen, ropen>>

Put(b) ==
  /\ wopen /\ Len(stream) < Cap
  /\ stream' = Append(stream, b)
  /\ UNCHANGED <<addr, wopen, ropen>>

Get(r) ==
  /\ stream # <<>>
  /\ addr' = [addr EXCEPT ![r] = Append(@, Head(stream))]
  /\ stream' = Tail(stream)
  /\ UNCHANGED <<wopen, ropen>>

\* A read returns; the next one starts with nothing.
End(r) ==
  /\ ropen
  /\ addr' = [addr EXCEPT ![r] = <<>>]
  /\ UNCHANGED <<stream, wopen, ropen>>

CloseWrite == wopen /\ wopen' = FALSE /\ UNCHANGED <<stream, addr, ropen>>
CloseRead  == ropen /\ ropen' = FALSE /\ UNCHANGED <<stream, addr, wopen>>

StreamInit ==
  /\ stream = <<>> /\ addr = [r \in Readers |-> <<>>]
  /\ wopen = TRUE /\ ropen = TRUE

StreamNext ==
  \/ \E b \in Bytes : Put(b)
  \/ \E r \in Readers : Get(r) \/ End(r)
  \/ CloseWrite \/ CloseRead

StreamSpec == StreamInit /\ [][StreamNext]_streamvars
=============================================================================
