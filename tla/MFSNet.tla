------------------------------- MODULE MFSNet -------------------------------
(***************************************************************************)
(* The client library (linux/mfs.c, sendPacket.c), the datagrams between   *)
(* it and the server (udp.c) and the server loop (listenServer.c), which   *)
(* calls the handlers of LFS.                                              *)
(*                                                                         *)
(* A call opens a socket of its own, sends its packet and sends it again   *)
(* whenever select() finds no response; the server executes every copy it  *)
(* receives and answers each.  The network is what UDP is: a datagram may  *)
(* be lost, delivered again, delayed for as long as it likes and overtaken *)
(* by others, so the datagrams on their way are a set.  The number of a    *)
(* call stands for its ephemeral port: the model assumes that the kernel   *)
(* does not hand out a port again while a response for its previous owner  *)
(* is on its way.                                                          *)
(*                                                                         *)
(* A definition named X_Fault, before X, is X with one plausible mistake   *)
(* in it; no specification uses it.  The README says which property sees   *)
(* which mistake.                                                          *)
(***************************************************************************)
EXTENDS LFS

CONSTANTS
  MaxCalls,   \* bound: calls the clients make
  Clients,
  Requests,   \* the packets clients send
  MaxStarts   \* bound: how often the server is started

\* The packets the MFS_ functions build.  The functions check neither the
\* inode number nor the block.
Packets ==
  [method : {"lookup", "unlink"}, inum : InumArgs, name : Names] \cup
  [method : {"creat"}, inum : InumArgs, name : Names, type : Types] \cup
  [method : {"stat"}, inum : InumArgs] \cup
  [method : {"read"}, inum : InumArgs, block : BlockArgs] \cup
  [method : {"write"}, inum : InumArgs, block : BlockArgs, buffer : Data] \cup
  [method : {"shutdown"}]

ASSUME NetAssumption ==
  MaxCalls \in Nat /\ MaxStarts \in Nat /\ Requests \subseteq Packets

VARIABLES
  calls,    \* number of calls made so far
  call,     \* client -> its call in progress, or Idle
  reqs,     \* requests on their way, with the port to answer
  rsps,     \* the ports that responses are on their way to
  starts,   \* how often the server was started
  last,     \* history: the request executed last, or NoRequest
  strayed   \* history: was some request outside what the handlers allow for?

netvars == <<calls, call, reqs, rsps, starts, last, strayed>>
allvars == <<vars, netvars>>

Idle      == [id |-> 0]
NoRequest == [port |-> 0]

----------------------------------------------------------------------------
(* The client: MFS_Lookup ... MFS_Shutdown over sendPacket.                *)

\* UDP_Open(0) and the first round of sendPacket's loop.
Call(c, req) ==
  /\ call[c] = Idle /\ calls < MaxCalls
  /\ calls' = calls + 1
  /\ call' = [call EXCEPT ![c] = [id |-> calls + 1, req |-> req]]
  /\ reqs' = reqs \cup {[port |-> calls + 1, req |-> req]}
  /\ UNCHANGED <<vars, rsps, starts, last, strayed>>

Retry_Never(c) == FALSE /\ UNCHANGED allvars

\* select() found nothing: the loop sends the packet again.  tv is set once,
\* outside the loop, so from the second round on nothing is waited for, and a
\* response may be on its way.
Retry(c) ==
  /\ call[c] # Idle
  /\ reqs' = reqs \cup {[port |-> call[c].id, req |-> call[c].req]}
  /\ UNCHANGED <<vars, calls, call, rsps, starts, last, strayed>>

\* A response reaches the socket of the call that is waiting: sendPacket
\* closes the socket, and with it goes what else arrives there; the MFS_
\* function returns.
Return(c) ==
  /\ call[c] # Idle
  /\ call[c].id \in rsps
  /\ call' = [call EXCEPT ![c] = Idle]
  /\ rsps' = rsps \ {call[c].id}
  /\ UNCHANGED <<vars, calls, reqs, starts, last, strayed>>

\* The network, or the buffer of a socket that is full, absent or closed,
\* drops a datagram.
Lose ==
  /\ \/ \E m \in reqs : reqs' = reqs \ {m} /\ UNCHANGED rsps
     \/ \E q \in rsps : rsps' = rsps \ {q} /\ UNCHANGED reqs
  /\ UNCHANGED <<vars, calls, call, starts, last, strayed>>

----------------------------------------------------------------------------
(* The server loop.                                                        *)

\* The switch of listenOnServer.
Handle(r) ==
  \/ r.method = "lookup" /\ Lookup(r.inum, r.name)
  \/ r.method = "stat"   /\ Stat(r.inum)
  \/ r.method = "write"  /\ Write(r.inum, r.buffer, r.block)
  \/ r.method = "read"   /\ Read(r.inum, r.block)
  \/ r.method = "creat"  /\ Creat(r.inum, r.type, r.name)
  \/ r.method = "unlink" /\ Unlink(r.inum, r.name)

\* find_inode gives an answer of its own for this number.
InUse(i) == i \notin Inums \/ imap[i] # -1

\* Requests that handlers do not see through: one that writes on the strength
\* of an inode number that is free (lfs.c:59), and an unlink of something
\* outside the first block of a directory (lfs.c:479, 507).
Strays(r) ==
  \/ r.method \in {"creat", "write", "unlink"} /\ ~InUse(r.inum)
  \/ r.method = "unlink" /\ ~Near(r.inum, r.name)

\* UDP_Read: the network has delivered the datagram, or one copy of it.
Delivered(m) == reqs' \in {reqs, reqs \ {m}}

\* UDP_Write to the port the request came from; nobody reads it there once
\* the call has returned.
Answered(port) ==
  rsps' = IF \E c \in Clients : call[c].id = port THEN rsps \cup {port} ELSE rsps

\* One round of the loop: read a packet, execute it, send the response, all
\* of it unless the process is killed inside the handler.
Serve(m) ==
  /\ m.req.method # "shutdown"
  /\ Handle(m.req)
  /\ Delivered(m)
  /\ IF up' THEN Answered(m.port) ELSE UNCHANGED rsps
  /\ last' = IF up' /\ InUse(m.req.inum) THEN m ELSE NoRequest
  /\ strayed' = (strayed \/ Strays(m.req))
  /\ UNCHANGED <<calls, call, starts>>

\* SHUTDOWN: the response is sent (its inum is whatever the stack held),
\* then shutdown_server ends the process.
ServeShutdown(m) ==
  /\ m.req.method = "shutdown"
  /\ Shutdown
  /\ Delivered(m)
  /\ Answered(m.port)
  /\ last' = m
  /\ UNCHANGED <<calls, call, starts, strayed>>

\* server.c: start_server on the image the last run left.
Start ==
  /\ starts < MaxStarts
  /\ start_server
  /\ starts' = starts + 1
  /\ UNCHANGED <<calls, call, reqs, rsps, last, strayed>>

----------------------------------------------------------------------------
NetInit ==
  /\ Init
  /\ calls = 0
  /\ call = [c \in Clients |-> Idle]
  /\ reqs = {} /\ rsps = {}
  /\ starts = 0
  /\ last = NoRequest /\ strayed = FALSE

NetNext ==
  \/ \E c \in Clients : (\E r \in Requests : Call(c, r)) \/ Retry(c) \/ Return(c)
  \/ \E m \in reqs : Serve(m) \/ ServeShutdown(m)
  \/ Lose \/ Start

\* The network delivers some copy of a datagram that is sent again and again:
\* the request of a call to the server, a response to the call.
ServeFor(c) == \E m \in reqs : m.port = call[c].id /\ (Serve(m) \/ ServeShutdown(m))

Fairness ==
  \A c \in Clients :
    WF_allvars(Retry(c)) /\ SF_allvars(ServeFor(c)) /\ SF_allvars(Return(c))

NetSpec == NetInit /\ [][NetNext]_allvars /\ Fairness

----------------------------------------------------------------------------
(* Properties.                                                             *)

\* What the image holds under an inode number, apart from where in the log it
\* is: the type, the size and the contents of the blocks.
FileView(d, i) ==
  IF d.imap[i] = -1 THEN Hole
  ELSE LET node == d.blk[d.imap[i]]
       IN  [type |-> node.type, size |-> node.size,
            blocks |-> [j \in Ptrs |-> IF node.used[j] = 1 THEN d.blk[node.ptr[j]] ELSE Hole]]
View(d) == [i \in Inums |-> FileView(d, i)]

\* What a read of a directory returns is not determined (lfs.c:425).
Comparable(r) ==
  r.method = "read" => \A node \in find_inode(r.inum) : node.type = MFS_REGULAR_FILE

\* Retries are transparent: as long as no other request comes between, and
\* whether or not the server was restarted, executing another copy of a
\* request changes nothing that the image holds and gives the answer the copy
\* before it was given.  This is what "If name already exists, return success
\* (why?)" and "If the name doesn't exist, it is not a failure (why?)"
\* (mfs.c:130, 152) are for.  (Not once a request has strayed, nor for a
\* request about a free inode number.)
RetriesTransparent ==
  [][ \A m \in reqs : ~strayed /\ m = last /\ Serve(m) =>
        /\ View(disk') = View(disk) /\ imap' = imap
        /\ reply'.op = reply.op /\ reply'.ret = reply.ret
        /\ Comparable(m.req) => reply'.val = reply.val ]_allvars

\* Every call returns, or sees the server stop or the log reach its bound; in
\* particular, no call waits for ever on a running server, however many
\* datagrams are lost.
CallReturns ==
  \A c \in Clients : call[c] # Idle ~> call[c] = Idle \/ ~up \/ ~HasRoom
=============================================================================
