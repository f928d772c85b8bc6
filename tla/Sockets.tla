------------------------------ MODULE Sockets ------------------------------
(***************************************************************************)
(* What the message server sees of the kernel: its io_uring, the listening *)
(* socket and one TCP connection per client. None of it is code of the     *)
(* repository; it is modelled from how networking/ and client/ use it.     *)
(*                                                                         *)
(*  - io_uring_get_sqe returns the slots of the submission ring in turn    *)
(*    and does not clear the operation a slot was last used for;           *)
(*  - a send completes when it is submitted; a recv or an accept waits for *)
(*    data or for a connection, and takes what is there when it completes; *)
(*  - completions are read in the order in which they were posted;         *)
(*  - accept and close use the lowest free descriptor number;              *)
(*  - a connection keeps the order of messages and does not frame them: a  *)
(*    recv returns all that is pending, and the protobuf parser then lets  *)
(*    the last message of the batch win. A message fits in a segment and   *)
(*    is not split.                                                        *)
(***************************************************************************)
EXTENDS Integers, Sequences, FiniteSets

CONSTANTS
  Clients,     \* client processes; each connects once
  NoClient,    \* a descriptor that is not open
  MAX_FD,      \* descriptors are 1 .. MAX_FD
  SQ_ENTRIES,  \* slots of the submission ring (setup_iouring: 1024)
  SOCKBUF      \* messages a connection holds for a client that does not read

ASSUME SocketsAssumption ==
  /\ NoClient \notin Clients
  /\ MAX_FD \in Nat \ {0}
  /\ SQ_ENTRIES \in Nat \ {0, 1}
  /\ SOCKBUF \in Nat \ {0}

VARIABLES
  sqes,     \* the operation each slot of the submission ring holds
  sqTail,   \* the slot io_uring_get_sqe returns next
  cq,       \* completions not yet seen by the event loop
  accepts,  \* accepts waiting for a connection, by user_data
  recvs,    \* recvs waiting on a connection
  backlog,  \* clients connected and not yet accepted
  fdtab,    \* the connection behind each descriptor of the server
  shut,     \* connections the server has shut down
  gone,     \* clients whose process has ended
  s2c,      \* messages on their way to a client
  c2s       \* messages on their way to the server

kernelVars == <<sqes, sqTail, cq, accepts, recvs, backlog, fdtab, shut, gone, s2c, c2s>>

Fds == 1 .. MAX_FD
NoFd == -1

\* The two operators of SequencesExt that the model uses. The whole of that
\* module, in the context of every proof obligation, triples their cost.
Last(s) == s[Len(s)]
RemoveAt(s, i) == SubSeq(s, 1, i - 1) \o SubSeq(s, i + 1, Len(s))

ServerStatus == {"ASK_NEED_MSG", "MESSAGE_SENDED", "ALL_BLOCK_MSG_SENDED"}
ClientStatus == {"NEED_MORE", "ACKN_OK", "ENOUGH", "ALL_BLOCK_RECEIVED"}

\* An IpcMessage: its status code and, with MESSAGE_SENDED, the message it
\* carries. GARBLED is a byte string that does not parse.
Messages == [status : ServerStatus \cup ClientStatus \cup {"GARBLED"}, msg : Nat]
Status(st) == [status |-> st, msg |-> 0]

\* Operations of the submission ring. A send has a length: that of a status
\* alone or that of a status with a signed message.
Length(m) == IF m.status = "MESSAGE_SENDED" THEN "message" ELSE "status"
NopOp == [op |-> "NOP"]
AcceptOp == [op |-> "ACCEPT"]
SendOp(fd, len) == [op |-> "SEND", fd |-> fd, len |-> len]
RecvOp(fd) == [op |-> "RECV", fd |-> fd]
Ops ==
  [op : {"NOP", "ACCEPT"}] \cup [op : {"RECV"}, fd : Fds]
    \cup [op : {"SEND"}, fd : Fds, len : {"status", "message"}]

\* Mutant: the flag is not shifted past the descriptor and reads as 0.
request_data_unshifted(fd, flag) == [fd |-> fd, flag |-> "FLAG_ACCEPT"]

make_request_data(fd, flag) == [fd |-> fd, flag |-> flag]
AcceptData == make_request_data(0, "FLAG_ACCEPT")
ClientData ==
  [fd : Fds, flag : {"READ_RESPONSE", "TEST_RESPONSE", "FLAG_CLOSE_CONNECTION"}]

\* res is the new descriptor for an accept, otherwise 1 (> 0) or 0 (<= 0).
Cqe(ud, res) == [ud |-> ud, res |-> res]
Cqes == [ud : {AcceptData}, res : Fds] \cup [ud : ClientData, res : Nat]

\* What waits in the kernel: recvs with the buffer they fill, and accepts.
PendingRecvs == [buf : Fds, ud : ClientData]
PendingAccepts == {AcceptData} \cup ClientData

KernelTypeOK ==
  /\ sqes \in [0 .. SQ_ENTRIES - 1 -> Ops]
  /\ sqTail \in 0 .. SQ_ENTRIES - 1
  /\ cq \in Seq(Cqes)
  /\ accepts \in Seq(PendingAccepts)
  /\ recvs \in [Clients -> Seq(PendingRecvs)]
  /\ backlog \in Seq(Clients)
  /\ fdtab \in [Fds -> Clients \cup {NoClient}]
  /\ shut \subseteq Clients
  /\ gone \subseteq Clients
  /\ s2c \in [Clients -> Seq(Messages)]
  /\ c2s \in [Clients -> Seq(Messages)]

\* No client has connected; the ring is set up by the server.
SocketsInit ==
  /\ cq = <<>>
  /\ recvs = [c \in Clients |-> <<>>]
  /\ backlog = <<>>
  /\ fdtab = [fd \in Fds |-> NoClient]
  /\ shut = {}
  /\ gone = {}
  /\ s2c = [c \in Clients |-> <<>>]
  /\ c2s = [c \in Clients |-> <<>>]

\* The slot k submissions from now.
SqSlot(k) == (sqTail + k) % SQ_ENTRIES

FreeFds == {fd \in Fds : fdtab[fd] = NoClient}
LowestFreeFd == CHOOSE fd \in FreeFds : \A g \in FreeFds : fd <= g

\* s2c after the server sends m on descriptor fd: nothing is delivered if the
\* descriptor is closed, the client's process has ended or the socket's
\* buffers are full.
Sent(fd, m) ==
  IF fdtab[fd] # NoClient /\ fdtab[fd] \notin gone /\ Len(s2c[fdtab[fd]]) < SOCKBUF
    THEN [s2c EXCEPT ![fdtab[fd]] = Append(@, m)]
    ELSE s2c

\* Client c's send reaches the server unless the server has closed the
\* connection.
Deliver(c, m) ==
  c2s' = IF c \in shut THEN c2s ELSE [c2s EXCEPT ![c] = Append(@, m)]

\* Client c's connect: an accept that waits completes with it, in the order
\* in which the accepts were armed; otherwise c waits in the backlog.
Connected(c) ==
  IF accepts # <<>>
    THEN /\ FreeFds # {}
         /\ fdtab' = [fdtab EXCEPT ![LowestFreeFd] = c]
         /\ cq' = Append(cq, Cqe(Head(accepts), LowestFreeFd))
         /\ accepts' = Tail(accepts)
         /\ UNCHANGED backlog
    ELSE /\ backlog' = Append(backlog, c)
         /\ UNCHANGED <<fdtab, cq, accepts>>

\* The completions posted at once when an accept is submitted.
AcceptCqes(ud) ==
  IF backlog # <<>> THEN <<Cqe(ud, LowestFreeFd)>> ELSE <<>>

\* An accept is submitted: it takes the head of the backlog or waits.
ArmAccept(ud) ==
  IF backlog # <<>>
    THEN /\ FreeFds # {}
         /\ fdtab' = [fdtab EXCEPT ![LowestFreeFd] = Head(backlog)]
         /\ backlog' = Tail(backlog)
         /\ UNCHANGED accepts
    ELSE /\ accepts' = Append(accepts, ud)
         /\ UNCHANGED <<fdtab, backlog>>

\* A recv into the buffer of descriptor fd is submitted: it waits on the
\* connection, or fails at once if the descriptor is not open.
RecvCqes(fd, ud) == IF fdtab[fd] = NoClient THEN <<Cqe(ud, 0)>> ELSE <<>>
ArmRecv(fd, ud) ==
  recvs' = IF fdtab[fd] = NoClient
             THEN recvs
             ELSE [recvs EXCEPT ![fdtab[fd]] = Append(@, [buf |-> fd, ud |-> ud])]
============================================================================
