-------------------------- MODULE MessageExchange --------------------------
(***************************************************************************)
(* The message server and its clients, over the sockets that connect them. *)
(***************************************************************************)
EXTENDS MessageServer, MessageClient

CONSTANT MAX_ACTIVE  \* clients that may be connected at a time

\* The sizes of the two programs agree well enough: what the server sends,
\* and what it hashes, is no more than what makes a block. (All are 512.)
ASSUME ExchangeAssumption ==
  /\ MAX_ACTIVE \in Nat \ {0}
  /\ MERKLE_LEAVES <= BLOCKSIZE
  /\ N_MESSAGES <= BLOCKSIZE

vars == <<kernelVars, serverVars, clientVars>>

Init == SocketsInit /\ ServerInit /\ ClientInit

\* The clients that have connected and whose connection both ends hold open.
Active == {c \in Clients : pc[c] # "start" /\ c \notin shut \cup gone}

ServerStep == EventLoop /\ UNCHANGED clientVars

KernelStep == RecvCompletion /\ UNCHANGED clientVars

ConnectStep(c) ==
  /\ Cardinality(Active) < MAX_ACTIVE
  /\ Connect(c)
  /\ UNCHANGED serverVars

ClientStep(c) == MessageThread(c) /\ UNCHANGED serverVars

StrayStep(c) == DesyncedTurn(c) /\ UNCHANGED serverVars

FailStep(c) == Fail(c) /\ UNCHANGED serverVars

Next ==
  \/ ServerStep
  \/ KernelStep
  \/ \E c \in Clients : ConnectStep(c) \/ ClientStep(c) \/ StrayStep(c) \/ FailStep(c)

Spec == Init /\ [][Next]_vars

\* The event loop handles a completion whenever there is one, the kernel
\* completes a recv that has data, and a client's thread that is not killed
\* turns its loop: each process is scheduled.
Fairness ==
  /\ WF_vars(ServerStep)
  /\ WF_vars(KernelStep)
  /\ \A c \in Clients : WF_vars(ClientStep(c))

FairSpec == Spec /\ Fairness

----------------------------------------------------------------------------
\* Type invariant of the server, its clients and the kernel state they share.
TypeOK == KernelTypeOK /\ ServerTypeOK /\ ClientTypeOK

\* The server never dereferences an empty or freed slot of its buffer and
\* never loops forever in GET_nth_circ_buf, whatever the clients do and in
\* whatever order their connections, answers, blocks and failures interleave
\* with the resets of fill_size and of the counters in FINISH_SENDING and at
\* the closing of a connection.
BufferNeverFails == server \notin {"hung", "crashed"}

\* Until the first client has finished, what read_ONLY_STATUS_response finds in
\* the buffer of a descriptor is the answer of its client: no send and no second
\* recv comes between the recv and the parsing, although both use one buffer per
\* descriptor and the completions of all clients share a queue. Afterwards a
\* client may get the descriptor of one that is still being answered, and the
\* server ends on the NULL of ipc_message__unpack.
AnswersParse == server = "unparsed" => CBUF.fill_size = 0

\* The step keeps every message that a slot of the buffer holds.
KeepsMessages ==
  \A i \in Slots : CBUF.buffer[i] # NULL => /\ CBUF'.buffer[i] = CBUF.buffer[i]
                                            /\ Loaded(CBUF', i)

\* A slot of the buffer that holds a message keeps it for as long as the
\* server runs: no two clients are sent different messages for one slot, and
\* the buffer is never cleaned under a client that is still reading it. After
\* FINISH_SENDING has set fill_size to 0 this rests on the wrap-around of
\* fill_size - 1 in GET_nth_circ_buf.
SlotsKeepTheirMessage == [][KeepsMessages]_vars

\* Until the first client has finished, every client has received exactly the
\* messages of the buffer, in order and without a gap, however many clients
\* are served at once and whichever of them fail.
ReceivedInOrder ==
  CBUF.fill_size > 0 =>
    \A c \in Clients : \A i \in 1 .. Len(msg_arr[c]) :
      msg_arr[c][i] = CBUF.buffer[i - 1]

\* The server never gets ahead of a connection by more than the message it
\* waits to see acknowledged, until the first client has finished.
\* (beffer_sended_N against what the client has stored).
OneUnacknowledged ==
  CBUF.fill_size > 0 =>
    \A fd \in Fds :
      LET c == fdtab[fd]
      IN  c # NoClient =>
            beffer_sended_N[fd] \in Len(msg_arr[c]) .. Len(msg_arr[c]) + 1

\* A client's block is the block the server computes its Merkle root of.
BlocksAgree ==
  \A c \in Clients :
    block[c] => msg_arr[c] = [i \in 1 .. BLOCKSIZE |-> CBUF.buffer[i - 1]]

\* The connection the server closes is that of a client it has served: the
\* close follows the client's ENOUGH (event_loop.c: "close connection for a
\* client", "client %d accepted 512 messages\nClosing connection").
OnlyServedAreClosed == \A c \in shut : block[c]

\* A client that stops reading because the server has sent it all messages
\* has its block (connection_handlers.c: "block filled").
FilledMeansBlock == \A c \in Clients : pc[c] = "filled" => block[c]

\* A client that connects gets its block.
EveryClientServed == \A c \in Clients : pc[c] = "loop" ~> block[c]

\* The connection of a client that has its block is closed.
ServedIsClosed == \A c \in Clients : block[c] ~> c \in shut

\* As soon as a client connects, it or another gets through to the end of its
\* block, however the others interleave with it and whichever of them fail,
\* unless it dies itself.
SomeClientFinishes ==
  \A c \in Clients : pc[c] = "loop" ~> CBUF.fill_size = 0 \/ pc[c] = "dead"

\* The exchange as a distribution of one block to the clients.
D == INSTANCE Distribution WITH
       SIZE <- CIRC_BUF_SIZE, log <- CBUF.buffer, got <- msg_arr,
       finished <- CBUF.fill_size = 0

\* Served one at a time, every client gets the messages of the one block the
\* server makes, each once and in order: through the sockets, the ring, the
\* counters and the reset of fill_size nothing else becomes of them.
DistributesInOrder == D!OrderedSpec

\* Served at once, all clients get the messages of the one block, in order until
\* the first has the whole of it, and never a message that is not of the block.
Distributes == D!Spec

----------------------------------------------------------------------------
(***************************************************************************)
(* The inductive invariant behind BufferNeverFails. The life of the server *)
(* has two phases: fill_size counts the messages loaded until the first    *)
(* ENOUGH is handled, and is 0 for ever after.                             *)
(***************************************************************************)
FirstPhase == CBUF.fill_size > 0

\* In the first phase the slots below fill_size hold the messages in the
\* order they were generated; afterwards a whole block of slots is loaded.
BufferInv ==
  /\ server \in {"up", "unparsed"}
  /\ CBUF.freed = {}
  /\ CBUF.fill_size <= CIRC_BUF_SIZE
  /\ FirstPhase => /\ CBUF.made = CBUF.fill_size
                   /\ \A i \in Slots :
                        CBUF.buffer[i] = IF i < CBUF.fill_size THEN i + 1 ELSE NULL
  /\ ~FirstPhase => \A i \in 0 .. BLOCKSIZE - 1 : i \in Slots /\ CBUF.buffer[i] # NULL

\* No connection is closed in the first phase, so a descriptor belongs to one
\* client and a client to one descriptor.
DescriptorInv ==
  /\ shut = {}
  /\ \A i \in 1 .. Len(cq) : cq[i].ud.flag # "FLAG_CLOSE_CONNECTION"
  /\ \A c \in Clients : \A i \in 1 .. Len(recvs[c]) :
       recvs[c][i].ud.flag # "FLAG_CLOSE_CONNECTION"
  /\ \A i \in 1 .. Len(accepts) : accepts[i] = AcceptData
  /\ \A f, g \in Fds : fdtab[f] = fdtab[g] /\ fdtab[f] # NoClient => f = g
  /\ \A i \in 1 .. Len(backlog) :
       /\ pc[backlog[i]] # "start"
       /\ \A fd \in Fds : fdtab[fd] # backlog[i]
       /\ \A j \in 1 .. Len(backlog) : backlog[i] = backlog[j] => i = j
  /\ \A c \in Clients : pc[c] = "start" => \A fd \in Fds : fdtab[fd] # c

\* What client c holds and what is on its way to it, against beffer_sended_N:
\* a message on its way has a higher serial number than c has messages, and
\* neither is above the counter of c's descriptor.
ClientInv(c) ==
  /\ pc[c] # "desynced"
  /\ \A i \in 1 .. Len(s2c[c]) :
       /\ s2c[c][i].status \in ServerStatus
       /\ s2c[c][i].status = "MESSAGE_SENDED" => s2c[c][i].msg > Len(msg_arr[c])
  /\ (\A fd \in Fds : fdtab[fd] # c) => msg_arr[c] = <<>> /\ s2c[c] = <<>>
  /\ \A fd \in Fds : fdtab[fd] = c =>
       /\ Len(msg_arr[c]) <= beffer_sended_N[fd]
       /\ \A i \in 1 .. Len(s2c[c]) : s2c[c][i].msg <= beffer_sended_N[fd]

\* An ENOUGH that has been sent stands for a full block in the buffer.
EnoughInv ==
  /\ \A c \in Clients : \A i \in 1 .. Len(c2s[c]) :
       c2s[c][i].status = "ENOUGH" => CBUF.fill_size >= BLOCKSIZE
  /\ \A fd \in Fds :
       buffers[fd].status = "ENOUGH" => CBUF.fill_size >= BLOCKSIZE

FirstPhaseInv ==
  /\ DescriptorInv
  /\ \A c \in Clients : ClientInv(c)
  /\ \A fd \in Fds : beffer_sended_N[fd] <= CBUF.fill_size
  /\ EnoughInv

IInv == TypeOK /\ BufferInv /\ (FirstPhase => FirstPhaseInv)

(***************************************************************************)
(* The invariant behind Distributes. Server and client take turns on a     *)
(* connection of the first phase, whatever else is in the ring.            *)
(***************************************************************************)
Answer(fd) == make_request_data(fd, "TEST_RESPONSE")

\* Completion e lets the server send on descriptor fd: its accept, or a recv
\* that has returned an answer.
Due(e, fd) == (e.ud = AcceptData /\ e.res = fd) \/ (e.ud = Answer(fd) /\ e.res > 0)

Has(q, fd) == \E i \in 1 .. Len(q) : Due(q[i], fd)
Once(q, fd) == \A i, j \in 1 .. Len(q) : Due(q[i], fd) /\ Due(q[j], fd) => i = j

\* Client c, served on fd: an answer that the server has read, one on its way,
\* and a message of the server's are never there at once; and the counter is
\* ahead of the client only by a message on its way, or lost with the client.
TurnOf(fd, c) ==
  /\ \A i \in 1 .. Len(recvs[c]) : recvs[c][i] = [buf |-> fd, ud |-> Answer(fd)]
  /\ beffer_sended_N[fd] <= Len(msg_arr[c]) + 1
  /\ Has(cq, fd) => /\ s2c[c] = <<>> /\ c2s[c] = <<>>
                    /\ beffer_sended_N[fd] = Len(msg_arr[c])
  /\ c2s[c] # <<>> => s2c[c] = <<>> /\ beffer_sended_N[fd] = Len(msg_arr[c])
  /\ \A i \in 1 .. Len(s2c[c]) :
       s2c[c][i].status # "MESSAGE_SENDED" => beffer_sended_N[fd] = Len(msg_arr[c])

TurnInv ==
  /\ \A fd \in Fds : Once(cq, fd)
  /\ \A fd \in Fds : fdtab[fd] = NoClient => beffer_sended_N[fd] = 0 /\ ~Has(cq, fd)
  /\ \A c \in Clients : (\A fd \in Fds : fdtab[fd] # c) => recvs[c] = <<>> /\ c2s[c] = <<>>
  /\ \A fd \in Fds, c \in Clients : fdtab[fd] = c => TurnOf(fd, c)

\* An ENOUGH comes from a client that has its block.
HasBlock == \E c \in Clients : Len(msg_arr[c]) = BLOCKSIZE
FullInv ==
  /\ \A c \in Clients : \A i \in 1 .. Len(c2s[c]) : c2s[c][i].status = "ENOUGH" => HasBlock
  /\ \A fd \in Fds : buffers[fd].status = "ENOUGH" => HasBlock

\* An answer that has been read and not yet handled is in its buffer.
Replied(e, fd) == e.ud = Answer(fd) /\ e.res > 0
HasReply(q, fd) == \E i \in 1 .. Len(q) : Replied(q[i], fd)
AnswerInv ==
  /\ server = "up"
  /\ \A fd \in Fds : HasReply(cq, fd) => buffers[fd].status \in ClientStatus

\* In both phases: a message that is stored, on its way, or in a buffer from
\* which it may be sent once more, is one of the block, and a client sends
\* nothing but a status of its own.
Made(m) == \E n \in Slots : CBUF.buffer[n] # NULL /\ CBUF.buffer[n] = m
OfBlock(m) == m.status = "MESSAGE_SENDED" => Made(m.msg)
CopiesInv ==
  /\ \A c \in Clients : \A i \in 1 .. Len(msg_arr[c]) : Made(msg_arr[c][i])
  /\ \A c \in Clients : \A i \in 1 .. Len(s2c[c]) : OfBlock(s2c[c][i])
  /\ \A c \in Clients : \A i \in 1 .. Len(c2s[c]) : c2s[c][i].status \in ClientStatus
  /\ \A fd \in Fds : OfBlock(buffers[fd])

\* The inductive invariant of the hand-out, with IInv: until FINISH_SENDING has
\* handled the first ENOUGH, the server sends to a client only in its turn, finds
\* its answer in the buffer, and an ENOUGH means a whole block; and what the
\* handlers send, even a send that the ring repeats, is of the block.
HandOutInv ==
  (FirstPhase => TurnInv /\ FullInv /\ AnswerInv) /\ CopiesInv /\ ReceivedInOrder

(***************************************************************************)
(* The invariant behind the promises to clients served one at a time: every*)
(* descriptor is closed before the next client comes, so that all of them  *)
(* are served on descriptor 1, and the exchange is in one of five stages.  *)
(***************************************************************************)
OneAtATime ==
  /\ IsFiniteSet(Clients)
  /\ MAX_ACTIVE = 1
  /\ MAX_FAILURES = 0
  /\ N_MESSAGES = BLOCKSIZE

Silent(c) == recvs[c] = <<>> /\ c2s[c] = <<>>
Told == beffer_sended_N[1]

\* m tells c to ask, or is the message of the slot c has got to.
Tells(m, c) ==
  /\ pc[c] = "loop"
  /\ \/ m.status = "ASK_NEED_MSG" /\ Told = Len(msg_arr[c])
     \/ /\ m.status = "MESSAGE_SENDED" /\ Told = Len(msg_arr[c]) + 1
        /\ m.msg = CBUF.buffer[Len(msg_arr[c])] /\ m.msg # NULL

Answers(a, c) ==
  /\ Told = Len(msg_arr[c])
  /\ \/ pc[c] = "loop" /\ a.status \in {"NEED_MORE", "ACKN_OK"}
     \/ pc[c] = "filled" /\ a.status = "ENOUGH"

Accepted(c) ==
  /\ cq = <<Cqe(AcceptData, 1)>> /\ accepts = <<>>
  /\ Silent(c) /\ s2c[c] = <<>>
  /\ pc[c] = "loop" /\ msg_arr[c] = <<>> /\ Told = 0

\* The server has sent, and arms the recv for the answer or has armed it.
Listening(c) ==
  \/ cq = <<Cqe(make_request_data(1, "READ_RESPONSE"), 1)>> /\ recvs[c] = <<>>
  \/ cq = <<>> /\ recvs[c] = <<[buf |-> 1, ud |-> Answer(1)]>>

Spoken(c) ==
  Listening(c) /\ c2s[c] = <<>> /\ Len(s2c[c]) = 1 /\ Tells(Last(s2c[c]), c)
Answered(c) ==
  Listening(c) /\ s2c[c] = <<>> /\ Len(c2s[c]) = 1 /\ Answers(Last(c2s[c]), c)
Heard(c) ==
  cq = <<Cqe(Answer(1), 1)>> /\ Silent(c) /\ s2c[c] = <<>> /\ Answers(buffers[1], c)

InTurn(c) ==
  /\ current_client_fd = 1 /\ accepts = <<AcceptData>>
  /\ Spoken(c) \/ Answered(c) \/ Heard(c)

\* ENOUGH is handled: the connection is about to be closed, unless the slot
\* FINISH_SENDING submitted held an accept or a recv, which never completes.
Closing(c) ==
  LET ud == make_request_data(1, "FLAG_CLOSE_CONNECTION")
  IN  /\ current_client_fd = 1 /\ pc[c] = "filled" /\ c2s[c] = <<>> /\ Told = 0
      /\ \/ cq = <<Cqe(ud, 1)>> /\ accepts = <<AcceptData>> /\ recvs[c] = <<>>
         \/ cq = <<>> /\ accepts = <<AcceptData, ud>> /\ recvs[c] = <<>>
         \/ cq = <<>> /\ accepts = <<AcceptData>> /\ recvs[c] = <<[buf |-> 1, ud |-> ud]>>

\* What c holds is the block as far as c has got, and only a client that has the
\* whole of it stops reading or is shut; c has descriptor 1 while it is active.
Holds(c) ==
  /\ pc[c] \in {"start", "loop", "filled"}
  /\ Len(msg_arr[c]) <= BLOCKSIZE
  /\ pc[c] = "filled" <=> Len(msg_arr[c]) = BLOCKSIZE
  /\ block[c] <=> Len(msg_arr[c]) = BLOCKSIZE
  /\ \A i \in 1 .. Len(msg_arr[c]) :
       msg_arr[c][i] # NULL /\ msg_arr[c][i] = CBUF.buffer[i - 1]
  /\ pc[c] = "start" => msg_arr[c] = <<>> /\ s2c[c] = <<>>
  /\ c \in shut => pc[c] = "filled"
  /\ c \in Active <=> fdtab[1] = c
  /\ fdtab[1] # c => Silent(c)

LineInv ==
  /\ backlog = <<>> /\ gone = {}
  /\ \A fd \in Fds : fd # 1 => fdtab[fd] = NoClient
  /\ \A i \in 0 .. SQ_ENTRIES - 1 : sqes[i].op \in {"RECV", "SEND"} => sqes[i].fd = 1
  /\ fdtab[1] = NoClient => cq = <<>> /\ accepts = <<AcceptData>> /\ Told = 0

\* The inductive invariant of the exchange with one client at a time.
OneAtATimeInv ==
  /\ LineInv
  /\ \A c \in Clients : Holds(c)
  /\ \A c \in Clients : fdtab[1] = c => Accepted(c) \/ InTurn(c) \/ Closing(c)
============================================================================
