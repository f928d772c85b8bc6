----------------------- MODULE MessageExchangeProofs ------------------------
(***************************************************************************)
(* Proofs about the message exchange, for any number of clients, any sizes *)
(* that satisfy the assumptions, and any ring: its types, what the buffer  *)
(* holds under the invariant IInv, what a step does to it, and what a send *)
(* leaves of the invariant's other parts.                                  *)
(***************************************************************************)
EXTENDS MessageExchange, WellFoundedInduction, TLAPS

\* Steps of arithmetic that many proofs below take.
LEMMA NextIsNat == \A n \in Nat : n + 1 \in Nat
OBVIOUS

LEMMA AboveAll == \A x, y, z \in Nat : (x > y /\ z <= y => x > z) /\ (x <= y /\ z >= y => x <= z)
OBVIOUS

LEMMA BelowNext == \A x, y \in Nat : x < y => x < y + 1
OBVIOUS

LEMMA NoElements == \A s : s = <<>> => \A j \in 1 .. Len(s) : FALSE
OBVIOUS

LEMMA SerialAppended == \A s \in Seq(Nat) : \A n \in Nat : Append(s, n) \in Seq(Nat)
OBVIOUS

LEMMA MessageAppended ==
  \A s \in Seq(Messages) : \A m : \A j \in 1 .. Len(Append(s, m)) :
    \/ j \in 1 .. Len(s) /\ Append(s, m)[j] = s[j]
    \/ Append(s, m)[j] = m
OBVIOUS

\* The elements of a concatenation.
LEMMA ConcatElements ==
  ASSUME NEW S, NEW s \in Seq(S), NEW t \in Seq(S)
  PROVE  /\ s \o t \in Seq(S)
         /\ Len(s \o t) = Len(s) + Len(t)
         /\ \A j \in 1 .. Len(s) : (s \o t)[j] = s[j]
         /\ \A j \in Len(s) + 1 .. Len(s) + Len(t) : (s \o t)[j] = t[j - Len(s)]
OBVIOUS

\* RemoveAt, which takes a completed recv off its connection's list, keeps
\* only elements of the list.
LEMMA RemoveAtElements ==
  ASSUME NEW S, NEW s \in Seq(S), NEW i \in 1 .. Len(s)
  PROVE  /\ RemoveAt(s, i) \in Seq(S)
         /\ \A j \in 1 .. Len(RemoveAt(s, i)) :
              \E k \in 1 .. Len(s) : RemoveAt(s, i)[j] = s[k]
<1>1. PICK a, b : a = SubSeq(s, 1, i - 1) /\ b = SubSeq(s, i + 1, Len(s))
  BY Zenon
<1>2. RemoveAt(s, i) = a \o b
  BY <1>1 DEF RemoveAt
<1>3. a \in Seq(S) /\ Len(a) = i - 1 /\ \A j \in 1 .. i - 1 : a[j] = s[j]
  BY <1>1
<1>4. b \in Seq(S) /\ Len(b) = Len(s) - i /\ \A j \in 1 .. Len(s) - i : b[j] = s[i + j]
  BY <1>1
<1>5. /\ a \o b \in Seq(S)
      /\ Len(a \o b) = Len(s) - 1
      /\ \A j \in 1 .. i - 1 : (a \o b)[j] = s[j]
      /\ \A j \in i .. Len(s) - 1 : (a \o b)[j] = s[j + 1]
  <2>1. /\ a \o b \in Seq(S)
        /\ Len(a \o b) = Len(a) + Len(b)
        /\ \A j \in 1 .. Len(a) : (a \o b)[j] = a[j]
        /\ \A j \in Len(a) + 1 .. Len(a) + Len(b) : (a \o b)[j] = b[j - Len(a)]
    <3>1. a \in Seq(S) /\ b \in Seq(S)
      BY Zenon, <1>3, <1>4
    <3>. QED  BY <3>1
  <2>2. Len(s) \in Nat
    OBVIOUS
  <2>3. ASSUME NEW j \in i .. Len(s) - 1
        PROVE  (a \o b)[j] = s[j + 1]
    <3>1. (a \o b)[j] = b[j - (i - 1)]
      BY <1>3, <1>4, <2>1, <2>2
    <3>2. j - (i - 1) \in 1 .. Len(s) - i /\ i + (j - (i - 1)) = j + 1
      BY <2>2
    <3>. QED  BY <1>4, <3>1, <3>2
  <2>. QED  BY <1>3, <1>4, <2>1, <2>2, <2>3
<1>6. ASSUME NEW j \in 1 .. Len(a \o b)
      PROVE  \E k \in 1 .. Len(s) : (a \o b)[j] = s[k]
  <2>1. CASE j <= i - 1
    <3>1. (a \o b)[j] = s[j] /\ j \in 1 .. Len(s)
      BY <1>5, <2>1
    <3>. QED  BY <3>1
  <2>2. CASE j > i - 1
    <3>1. (a \o b)[j] = s[j + 1] /\ j + 1 \in 1 .. Len(s)
      BY <1>5, <2>2
    <3>. QED  BY <3>1
  <2>. QED  BY <2>1, <2>2
<1>. QED  BY Zenon, <1>2, <1>5, <1>6

\* The elements of a completion queue after the head is taken off and new
\* completions are added.
LEMMA QueueElements ==
  ASSUME NEW S, NEW s \in Seq(S), s # <<>>, NEW t \in Seq(S)
  PROVE  /\ Head(s) \in S
         /\ Head(s) = s[1]
         /\ Tail(s) \o t \in Seq(S)
         /\ \A j \in 1 .. Len(Tail(s) \o t) :
              \/ \E k \in 1 .. Len(s) : (Tail(s) \o t)[j] = s[k]
              \/ \E k \in 1 .. Len(t) : (Tail(s) \o t)[j] = t[k]
<1>1. /\ Tail(s) \in Seq(S)
      /\ Len(Tail(s)) = Len(s) - 1
      /\ \A j \in 1 .. Len(s) - 1 : Tail(s)[j] = s[j + 1]
  OBVIOUS
<1>2. Head(s) \in S /\ Head(s) = s[1]
  OBVIOUS
<1>3. Tail(s) \o t \in Seq(S) /\ Len(Tail(s) \o t) = Len(s) - 1 + Len(t)
  BY <1>1
<1>4. ASSUME NEW j \in 1 .. Len(Tail(s) \o t)
      PROVE  \/ \E k \in 1 .. Len(s) : (Tail(s) \o t)[j] = s[k]
             \/ \E k \in 1 .. Len(t) : (Tail(s) \o t)[j] = t[k]
  <2>1. CASE j <= Len(s) - 1
    <3>1. (Tail(s) \o t)[j] = s[j + 1] /\ j + 1 \in 1 .. Len(s)
      BY <1>1, <1>3, <2>1
    <3>. QED  BY <3>1
  <2>2. CASE j > Len(s) - 1
    <3>1. (Tail(s) \o t)[j] = t[j - (Len(s) - 1)] /\ j - (Len(s) - 1) \in 1 .. Len(t)
      BY <1>1, <1>3, <2>2
    <3>. QED  BY <3>1
  <2>. QED  BY <2>1, <2>2
<1>. QED  BY <1>2, <1>3, <1>4

----------------------------------------------------------------------------
\* What the event loop reads off the completion it handles: the new
\* descriptor of an accept, or the descriptor in the user_data.
LEMMA EventType ==
  ASSUME TypeOK, cq # <<>>
  PROVE  /\ Head(cq) \in Cqes
         /\ Tail(cq) \in Seq(Cqes)
         /\ Head(cq).ud.flag = "FLAG_ACCEPT" => Head(cq).res \in Fds
         /\ Head(cq).ud.flag # "FLAG_ACCEPT" => client_fd \in Fds
         /\ Head(cq).res \in Nat
<1>1. Head(cq) \in Cqes /\ Tail(cq) \in Seq(Cqes)
  BY DEF TypeOK, KernelTypeOK
<1>2. MAX_FD \in Nat
  BY SocketsAssumption
<1>. QED  BY <1>1, <1>2 DEF Cqes, AcceptData, ClientData, make_request_data, client_fd, Fds

\* accept returns a descriptor that is not open: the lowest free one exists.
LEMMA FreeFdType ==
  ASSUME TypeOK, FreeFds # {}
  PROVE  /\ LowestFreeFd \in Fds
         /\ fdtab[LowestFreeFd] = NoClient
<1>1. FreeFds \subseteq Fds /\ Fds \subseteq Nat
  BY SocketsAssumption DEF FreeFds, Fds
<1>2. \E fd \in FreeFds : \A g \in FreeFds : fd <= g
  <2>1. \E x \in FreeFds : \A y \in FreeFds : ~(<<y, x>> \in OpToRel(<, Nat))
    BY Zenon, <1>1, NatLessThanWellFounded, WFMin
  <2>2. \A x, y \in Nat : y < x => <<y, x>> \in OpToRel(<, Nat)
    BY DEF OpToRel
  <2>3. \E R : /\ \E x \in FreeFds : \A y \in FreeFds : ~(<<y, x>> \in R)
               /\ \A x, y \in Nat : y < x => <<y, x>> \in R
    BY <2>1, <2>2, Zenon
  <2>4. PICK R : /\ \E x \in FreeFds : \A y \in FreeFds : ~(<<y, x>> \in R)
                 /\ \A x, y \in Nat : y < x => <<y, x>> \in R
    BY Zenon, <2>3
  <2>5. PICK x \in FreeFds : \A y \in FreeFds : ~(y < x)
    BY <1>1, <2>4, Zenon
  <2>. QED  BY <1>1, <2>5
<1>. QED  BY Zenon, <1>1, <1>2 DEF LowestFreeFd, FreeFds

\* The helpers the handlers share preserve the types of what they change.
LEMMA SentType ==
  ASSUME TypeOK, NEW fd \in Fds, NEW m \in Messages
  PROVE  Sent(fd, m) \in [Clients -> Seq(Messages)]
<1>1. CASE fdtab[fd] # NoClient /\ fdtab[fd] \notin gone /\ Len(s2c[fdtab[fd]]) < SOCKBUF
  <2>1. fdtab[fd] \in Clients
    BY <1>1 DEF TypeOK, KernelTypeOK
  <2>2. Append(s2c[fdtab[fd]], m) \in Seq(Messages)
    BY <2>1 DEF TypeOK, KernelTypeOK
  <2>. QED  BY <1>1, <2>1, <2>2 DEF Sent, TypeOK, KernelTypeOK
<1>2. CASE ~(fdtab[fd] # NoClient /\ fdtab[fd] \notin gone /\ Len(s2c[fdtab[fd]]) < SOCKBUF)
  BY <1>2 DEF Sent, TypeOK, KernelTypeOK
<1>. QED  BY <1>1, <1>2

\* io_uring_get_sqe moves on to the next slot of the submission ring.
LEMMA SubmitType ==
  ASSUME TypeOK, cq # <<>>, NEW op \in Ops, NEW t \in Seq(Cqes), Submit(op, t)
  PROVE  /\ sqes' \in [0 .. SQ_ENTRIES - 1 -> Ops]
         /\ sqTail' \in 0 .. SQ_ENTRIES - 1
         /\ cq' \in Seq(Cqes)
<1>1. sqes' \in [0 .. SQ_ENTRIES - 1 -> Ops]
  BY DEF Submit, TypeOK, KernelTypeOK
<1>2. sqTail' \in 0 .. SQ_ENTRIES - 1
  BY SocketsAssumption DEF Submit, SqSlot, TypeOK, KernelTypeOK
<1>3. cq' \in Seq(Cqes)
  BY QueueElements DEF Submit, TypeOK, KernelTypeOK
<1>. QED  BY <1>1, <1>2, <1>3

\* A recv prepared by add_read_request completes or waits on its connection.
LEMMA ArmRecvType ==
  ASSUME TypeOK, NEW fd \in Fds, NEW ud \in ClientData
  PROVE  /\ RecvCqes(fd, ud) \in Seq(Cqes)
         /\ ArmRecv(fd, ud) => recvs' \in [Clients -> Seq(PendingRecvs)]
<1>1. Cqe(ud, 0) \in Cqes
  BY DEF Cqe, Cqes
<1>2. RecvCqes(fd, ud) \in Seq(Cqes)
  BY <1>1 DEF RecvCqes
<1>3. CASE fdtab[fd] = NoClient
  BY <1>2, <1>3 DEF ArmRecv, TypeOK, KernelTypeOK
<1>4. CASE fdtab[fd] # NoClient
  <2>1. fdtab[fd] \in Clients
    BY <1>4 DEF TypeOK, KernelTypeOK
  <2>2. [buf |-> fd, ud |-> ud] \in PendingRecvs
    BY DEF PendingRecvs
  <2>3. Append(recvs[fdtab[fd]], [buf |-> fd, ud |-> ud]) \in Seq(PendingRecvs)
    BY <2>1, <2>2 DEF TypeOK, KernelTypeOK
  <2>. QED  BY Zenon, <1>2, <1>4, <2>1, <2>3 DEF ArmRecv, TypeOK, KernelTypeOK
<1>. QED  BY <1>3, <1>4

\* add_accept_request takes the first client of the backlog, or waits.
LEMMA ArmAcceptType ==
  ASSUME TypeOK, NEW ud \in PendingAccepts, ArmAccept(ud)
  PROVE  /\ AcceptCqes(ud) \in Seq(Cqes)
         /\ fdtab' \in [Fds -> Clients \cup {NoClient}]
         /\ backlog' \in Seq(Clients)
         /\ accepts' \in Seq(PendingAccepts)
<1>1. CASE backlog # <<>>
  <2>1. LowestFreeFd \in Fds /\ LowestFreeFd \in Nat
    BY <1>1, FreeFdType, SocketsAssumption DEF ArmAccept, Fds
  <2>2. Head(backlog) \in Clients /\ Tail(backlog) \in Seq(Clients)
    BY <1>1 DEF TypeOK, KernelTypeOK
  <2>3. Cqe(ud, LowestFreeFd) \in Cqes
    BY <2>1 DEF Cqe, Cqes, PendingAccepts
  <2>4. AcceptCqes(ud) \in Seq(Cqes)
    BY <1>1, <2>3 DEF AcceptCqes
  <2>. QED  BY Zenon, <1>1, <2>1, <2>2, <2>4 DEF ArmAccept, TypeOK, KernelTypeOK
<1>2. CASE backlog = <<>>
  <2>1. AcceptCqes(ud) \in Seq(Cqes)
    BY <1>2 DEF AcceptCqes
  <2>2. Append(accepts, ud) \in Seq(PendingAccepts)
    BY DEF TypeOK, KernelTypeOK
  <2>. QED  BY Zenon, <1>2, <2>1, <2>2 DEF ArmAccept, TypeOK, KernelTypeOK
<1>. QED  BY <1>1, <1>2

\* A status alone, as send_STATUS packs it, is a message.
LEMMA StatusType ==
  ASSUME NEW st \in ServerStatus \cup ClientStatus \cup {"GARBLED"}
  PROVE  Status(st) \in Messages
BY DEF Status, Messages

\* A send of a client's buffer keeps the types of what it changes.
LEMMA SendFromBufferType ==
  ASSUME TypeOK, cq # <<>>, NEW fd \in Fds, NEW m \in Messages, SendFromBuffer(fd, m)
  PROVE  /\ buffers' \in [Fds -> Messages]
         /\ s2c' \in [Clients -> Seq(Messages)]
         /\ sqes' \in [0 .. SQ_ENTRIES - 1 -> Ops]
         /\ sqTail' \in 0 .. SQ_ENTRIES - 1
         /\ cq' \in Seq(Cqes)
<1>1. SendOp(fd, Length(m)) \in Ops
  BY DEF SendOp, Length, Ops
<1>2. Cqe(make_request_data(fd, "READ_RESPONSE"), 1) \in Cqes
  BY DEF Cqe, Cqes, make_request_data, ClientData
<1>3. <<Cqe(make_request_data(fd, "READ_RESPONSE"), 1)>> \in Seq(Cqes)
  BY <1>2
<1>4. buffers' \in [Fds -> Messages]
  BY DEF SendFromBuffer, TypeOK, ServerTypeOK
<1>5. s2c' \in [Clients -> Seq(Messages)]
  BY SentType DEF SendFromBuffer
<1>. QED  BY Zenon, <1>1, <1>3, <1>4, <1>5, SubmitType DEF SendFromBuffer

\* fill_size - 1 in size_t.
LEMMA LastSerial ==
  ASSUME NEW cbuf \in CircBufs
  PROVE  cur_last_msg_serial(cbuf) =
           IF cbuf.fill_size = 0 THEN SIZE_MOD - 1 ELSE cbuf.fill_size - 1
<1>1. cbuf.fill_size \in 0 .. CIRC_BUF_SIZE
  BY DEF CircBufs
<1>2. \A k \in Int, m \in Nat : m > 0 /\ 0 <= k /\ k < m => k % m = k
  OBVIOUS
<1>3. \A m \in Nat : m > 0 => (0 - 1) % m = m - 1
  OBVIOUS
<1>4. CASE cbuf.fill_size = 0
  BY <1>3, <1>4, CircBufAssumption DEF cur_last_msg_serial
<1>5. CASE cbuf.fill_size # 0
  BY <1>1, <1>2, <1>5, CircBufAssumption DEF cur_last_msg_serial
<1>. QED  BY <1>4, <1>5

\* The buffer's functions return buffers.
LEMMA CircBufType ==
  ASSUME NEW cbuf \in CircBufs, NEW n \in Nat
  PROVE  /\ GET_nth_terminates(cbuf, n) => GET_nth_circ_buf(cbuf, n) \in CircBufs
         /\ [cbuf EXCEPT !.fill_size = 0] \in CircBufs
<1>. DEFINE filled == [i \in Slots |-> IF i \in cbuf.fill_size .. n
                                        THEN cbuf.made + 1 + (i - cbuf.fill_size)
                                        ELSE cbuf.buffer[i]]
<1>0. /\ cbuf.buffer \in [Slots -> Nat]
      /\ cbuf.fill_size \in 0 .. CIRC_BUF_SIZE
      /\ cbuf.made \in Nat
      /\ cbuf.freed \in SUBSET Nat
  BY DEF CircBufs
<1>1. filled \in [Slots -> Nat]
  <2>1. ASSUME NEW i \in Slots, i \in cbuf.fill_size .. n
        PROVE  cbuf.made + 1 + (i - cbuf.fill_size) \in Nat
    BY <1>0, <2>1
  <2>. QED  BY <1>0, <2>1
<1>2. ASSUME n > cur_last_msg_serial(cbuf), n \in Slots
      PROVE  GET_nth_circ_buf(cbuf, n) \in CircBufs
  <2>1. cbuf.fill_size # 0 /\ n > cbuf.fill_size - 1
    BY <1>0, <1>2, LastSerial, CircBufAssumption DEF Slots
  <2>2. n + 1 - cbuf.fill_size \in Nat /\ n + 1 \in 0 .. CIRC_BUF_SIZE
    BY <1>0, <1>2, <2>1, CircBufAssumption DEF Slots
  <2>3. cbuf.made + (n + 1 - cbuf.fill_size) \in Nat
    BY <1>0, <2>2
  <2>4. GET_nth_circ_buf(cbuf, n) = [buffer |-> filled, fill_size |-> n + 1,
                                     made |-> cbuf.made + (n + 1 - cbuf.fill_size),
                                     freed |-> cbuf.freed]
    BY Zenon, <1>2 DEF GET_nth_circ_buf, CircBufs
  <2>. QED  BY <1>0, <1>1, <2>2, <2>3, <2>4 DEF CircBufs
<1>3. ASSUME ~(n > cur_last_msg_serial(cbuf))
      PROVE  GET_nth_circ_buf(cbuf, n) \in CircBufs
  BY <1>3 DEF GET_nth_circ_buf, CircBufs
<1>4. [cbuf EXCEPT !.fill_size = 0] \in CircBufs
  BY <1>0, CircBufAssumption DEF CircBufs
<1>. QED  BY <1>2, <1>3, <1>4 DEF GET_nth_terminates

----------------------------------------------------------------------------
\* The state in which server_loop starts is well typed.
LEMMA InitType == Init => TypeOK
<1>. SUFFICES ASSUME Init  PROVE TypeOK
  OBVIOUS
<1>. USE DEF Init
<1>1. KernelTypeOK
  <2>1. sqes \in [0 .. SQ_ENTRIES - 1 -> Ops]
    BY DEF ServerInit, AcceptOp, NopOp, Ops
  <2>2. sqTail \in 0 .. SQ_ENTRIES - 1
    BY SocketsAssumption DEF ServerInit
  <2>3. accepts \in Seq(PendingAccepts)
    BY DEF ServerInit, PendingAccepts
  <2>. QED  BY <2>1, <2>2, <2>3 DEF KernelTypeOK, SocketsInit
<1>2. ServerTypeOK
  <2>1. CBUF \in CircBufs
    <3>1. create_circ_buf.fill_size # CIRC_BUF_SIZE /\ 0 \in Slots
      BY CircBufAssumption DEF create_circ_buf, Slots
    <3>2. CBUF = [buffer |-> [[i \in Slots |-> NULL] EXCEPT ![0] = 1],
                  fill_size |-> 1, made |-> 1, freed |-> {}]
      <4>. DEFINE c0 == create_circ_buf
      <4>1. c0 = [buffer |-> [i \in Slots |-> NULL], fill_size |-> 0, made |-> 0, freed |-> {}]
        BY DEF create_circ_buf
      <4>2. CBUF = [c0 EXCEPT !.buffer = [c0.buffer EXCEPT ![c0.fill_size] = c0.made + 1],
                              !.fill_size = c0.fill_size + 1,
                              !.made = c0.made + 1]
        BY <3>1 DEF ServerInit, PUSH_msg_circ_buf
      <4>3. c0.buffer = [i \in Slots |-> NULL] /\ c0.fill_size = 0 /\ c0.made = 0
        BY <4>1
      <4>4. CBUF = [c0 EXCEPT !.buffer = [[i \in Slots |-> NULL] EXCEPT ![0] = 1],
                              !.fill_size = 1,
                              !.made = 1]
        <5>1. 0 + 1 = 1
          OBVIOUS
        <5>. HIDE DEF c0
        <5>. QED  BY <4>2, <4>3, <5>1, Zenon
      <4>. QED  BY Zenon, <4>1, <4>4
    <3>3. [[i \in Slots |-> NULL] EXCEPT ![0] = 1] \in [Slots -> Nat]
      BY Zenon DEF NULL
    <3>4. 1 \in 0 .. CIRC_BUF_SIZE
      BY CircBufAssumption
    <3>. QED  BY <3>2, <3>3, <3>4 DEF CircBufs
  <2>2. buffers \in [Fds -> Messages]
    BY StatusType DEF ServerInit
  <2>. QED  BY <2>1, <2>2 DEF ServerTypeOK, ServerInit
<1>3. ClientTypeOK
  BY DEF ClientTypeOK, ClientInit
<1>. QED  BY <1>1, <1>2, <1>3 DEF TypeOK

\* An answer is parsed, or the server ends.
LEMMA ReadOutcome ==
  ASSUME OnNoResponse  PROVE server' \in {"up", "unparsed"}
<1>1. \A m : Unpacked(m) \subseteq {"up", "unparsed"}
  BY DEF Unpacked
<1>2. server' = "up" \/ server' \in Unpacked(buffers[client_fd])
  BY DEF OnNoResponse
<1>. QED  BY Zenon, <1>1, <1>2

\* The event loop preserves the type invariant.
LEMMA ServerStepType ==
  ASSUME TypeOK, ServerStep  PROVE TypeOK'
<1>. SUFFICES ASSUME cq # <<>>  PROVE TypeOK'
  BY Zenon DEF ServerStep, EventLoop, OnAccept, OnReadResponse, OnClose, OnNeedMoreAllSent,
         OnNeedMore, OnAcknOk, FINISH_SENDING, OnNoResponse, NextStatus, NextEvent
<1>0. ClientTypeOK'
  BY DEF TypeOK, ClientTypeOK, ServerStep, clientVars
<1>1. CASE OnAccept
  <2>. DEFINE fd == Head(cq).res
  <2>. USE <1>1 DEF OnAccept
  <2>1. fd \in Fds
    BY EventType DEF NextEvent
  <2>2. fdtab' \in [Fds -> Clients \cup {NoClient}] /\ backlog' \in Seq(Clients)
        /\ accepts' \in Seq(PendingAccepts) /\ AcceptCqes(AcceptData) \in Seq(Cqes)
    BY ArmAcceptType DEF PendingAccepts
  <2>3. sqes' \in [0 .. SQ_ENTRIES - 1 -> Ops]
    <3>1. AcceptOp \in Ops /\ SendOp(fd, "status") \in Ops
      BY <2>1 DEF AcceptOp, SendOp, Ops
    <3>. QED  BY Zenon, <3>1 DEF TypeOK, KernelTypeOK
  <2>4. sqTail' \in 0 .. SQ_ENTRIES - 1
    BY SocketsAssumption DEF SqSlot, TypeOK, KernelTypeOK
  <2>5. cq' \in Seq(Cqes)
    <3>1. Cqe(make_request_data(fd, "READ_RESPONSE"), 1) \in Cqes
      BY <2>1 DEF Cqe, Cqes, make_request_data, ClientData
    <3>. QED  BY <2>2, <3>1, EventType
  <2>6. Status("ASK_NEED_MSG") \in Messages
    BY StatusType DEF ServerStatus
  <2>7. s2c' \in [Clients -> Seq(Messages)]
    BY <2>1, <2>6, SentType
  <2>8. KernelTypeOK'
    BY Zenon, <2>2, <2>3, <2>4, <2>5, <2>7 DEF TypeOK, KernelTypeOK
  <2>9. ServerTypeOK'
    BY <2>1, <2>6 DEF TypeOK, ServerTypeOK
  <2>. QED  BY <1>0, <2>8, <2>9 DEF TypeOK
<1>2. CASE OnReadResponse
  <2>. DEFINE ud == make_request_data(client_fd, "TEST_RESPONSE")
  <2>. USE <1>2 DEF OnReadResponse
  <2>1. client_fd \in Fds /\ ud \in ClientData
    BY EventType DEF NextEvent, ClientData, make_request_data
  <2>2. RecvOp(client_fd) \in Ops
    BY <2>1 DEF RecvOp, Ops
  <2>3. RecvCqes(client_fd, ud) \in Seq(Cqes) /\ recvs' \in [Clients -> Seq(PendingRecvs)]
    BY <2>1, ArmRecvType
  <2>4. /\ sqes' \in [0 .. SQ_ENTRIES - 1 -> Ops]
        /\ sqTail' \in 0 .. SQ_ENTRIES - 1
        /\ cq' \in Seq(Cqes)
    BY <2>2, <2>3, SubmitType
  <2>. QED  BY <1>0, <2>3, <2>4 DEF TypeOK, KernelTypeOK, ServerTypeOK, serverVars
<1>3. CASE OnClose
  <2>. USE <1>3 DEF OnClose
  <2>1. client_fd \in Fds /\ Tail(cq) \in Seq(Cqes)
    BY EventType DEF NextEvent
  <2>2. shut' \subseteq Clients /\ fdtab' \in [Fds -> Clients \cup {NoClient}]
    BY Zenon DEF TypeOK, KernelTypeOK
  <2>. QED  BY Zenon, <1>0, <2>1, <2>2 DEF TypeOK, KernelTypeOK, ServerTypeOK
<1>4. CASE OnNeedMoreAllSent
  <2>. USE <1>4 DEF OnNeedMoreAllSent
  <2>1. client_fd \in Fds /\ Status("ALL_BLOCK_MSG_SENDED") \in Messages
    <3>1. client_fd \in Fds
      BY Zenon, EventType DEF NextStatus, NextEvent
    <3>2. Status("ALL_BLOCK_MSG_SENDED") \in Messages
      BY Zenon, StatusType DEF ServerStatus
    <3>. QED  BY Zenon, <3>1, <3>2
  <2>. QED  BY <1>0, <2>1, SendFromBufferType DEF TypeOK, KernelTypeOK, ServerTypeOK
<1>5. CASE OnNeedMore
  <2>. DEFINE n == beffer_sended_N[client_fd]
              filled == GET_nth_circ_buf(CBUF, n)
              m == [status |-> "MESSAGE_SENDED", msg |-> filled.buffer[n]]
  <2>. USE <1>5 DEF OnNeedMore
  <2>1. client_fd \in Fds /\ n \in Nat
    BY Zenon, EventType DEF NextStatus, NextEvent, TypeOK, ServerTypeOK
  <2>2. CASE GET_nth_terminates(CBUF, n) /\ Loaded(filled, n)
    <3>1. filled \in CircBufs
      BY Zenon, <2>1, <2>2, CircBufType DEF TypeOK, ServerTypeOK
    <3>2. m \in Messages
      BY Zenon, <2>2, <3>1 DEF Loaded, CircBufs, Messages, ServerStatus
    <3>3. SendFromBuffer(client_fd, m)
      BY <2>2
    <3>4. /\ buffers' \in [Fds -> Messages]
          /\ s2c' \in [Clients -> Seq(Messages)]
          /\ sqes' \in [0 .. SQ_ENTRIES - 1 -> Ops]
          /\ sqTail' \in 0 .. SQ_ENTRIES - 1
          /\ cq' \in Seq(Cqes)
      BY <2>1, <3>2, <3>3, SendFromBufferType
    <3>5. beffer_sended_N' \in [Fds -> Nat]
      <4>1. beffer_sended_N' = [beffer_sended_N EXCEPT ![client_fd] = n + 1]
        BY Zenon, <2>2
      <4>2. beffer_sended_N \in [Fds -> Nat]
        BY Zenon DEF TypeOK, ServerTypeOK
      <4>. HIDE DEF n
      <4>3. n + 1 \in Nat
        BY Zenon, <2>1, NextIsNat
      <4>. QED  BY Zenon, <4>1, <4>2, <4>3
    <3>6. CBUF' \in CircBufs /\ server' \in {"up", "hung", "crashed", "unparsed"}
      BY <2>2, <3>1 DEF TypeOK, ServerTypeOK
    <3>. QED  BY Zenon, <1>0, <3>4, <3>5, <3>6 DEF TypeOK, KernelTypeOK, ServerTypeOK
  <2>3. CASE ~(GET_nth_terminates(CBUF, n) /\ Loaded(filled, n))
    BY <1>0, <2>3 DEF TypeOK, KernelTypeOK, ServerTypeOK
  <2>. QED  BY Zenon, <2>2, <2>3
<1>6. CASE OnAcknOk
  <2>. USE <1>6 DEF OnAcknOk
  <2>1. client_fd \in Fds /\ Status("ASK_NEED_MSG") \in Messages
    <3>1. client_fd \in Fds
      BY Zenon, EventType DEF NextStatus, NextEvent
    <3>2. Status("ASK_NEED_MSG") \in Messages
      BY Zenon, StatusType DEF ServerStatus
    <3>. QED  BY Zenon, <3>1, <3>2
  <2>. QED  BY <1>0, <2>1, SendFromBufferType DEF TypeOK, KernelTypeOK, ServerTypeOK
<1>7. CASE FINISH_SENDING
  <2>. DEFINE old == sqes[sqTail]
              ud == make_request_data(client_fd, "FLAG_CLOSE_CONNECTION")
  <2>. USE <1>7 DEF FINISH_SENDING
  <2>1. client_fd \in Fds /\ ud \in ClientData
    BY EventType DEF NextStatus, NextEvent, ClientData, make_request_data
  <2>2. old \in Ops
    BY DEF TypeOK, KernelTypeOK
  <2>3. <<Cqe(ud, 1)>> \in Seq(Cqes)
    <3>1. Cqe(ud, 1) \in Cqes
      BY <2>1 DEF Cqe, Cqes
    <3>. QED  BY <3>1
  <2>4. ServerTypeOK'
    <3>1. [CBUF EXCEPT !.fill_size = 0] \in CircBufs
      BY CircBufType DEF TypeOK, ServerTypeOK
    <3>2. CBUF' \in CircBufs
      BY <3>1 DEF TypeOK, ServerTypeOK
    <3>3. beffer_sended_N' \in [Fds -> Nat]
      BY <2>1 DEF TypeOK, ServerTypeOK
    <3>4. server' \in {server, "crashed"} /\ UNCHANGED <<buffers, current_client_fd>>
      OBVIOUS
    <3>. QED  BY <3>2, <3>3, <3>4 DEF TypeOK, ServerTypeOK
  <2>5. CASE \A i \in 0 .. MERKLE_LEAVES - 1 : Loaded(CBUF, i)
    <3>1. ASSUME old.op \in {"NOP", "SEND"}, Submit(old, <<Cqe(ud, 1)>>)
          PROVE  /\ sqes' \in [0 .. SQ_ENTRIES - 1 -> Ops]
                 /\ sqTail' \in 0 .. SQ_ENTRIES - 1
                 /\ cq' \in Seq(Cqes)
      BY Zenon, <2>2, <2>3, <3>1, SubmitType
    <3>2. CASE old.op = "NOP"
      BY <1>0, <2>4, <2>5, <3>1, <3>2 DEF TypeOK, KernelTypeOK
    <3>3. CASE old.op = "ACCEPT"
      <4>1. Submit(old, AcceptCqes(ud)) /\ ArmAccept(ud) /\ UNCHANGED <<recvs, s2c>>
        BY <2>5, <3>3
      <4>2. ud \in PendingAccepts
        BY <2>1 DEF PendingAccepts
      <4>. QED  BY <1>0, <2>2, <2>4, <4>1, <4>2, ArmAcceptType, SubmitType
             DEF TypeOK, KernelTypeOK
    <3>4. CASE old.op = "RECV"
      <4>1. Submit(old, RecvCqes(old.fd, ud)) /\ ArmRecv(old.fd, ud)
            /\ UNCHANGED <<accepts, backlog, fdtab, s2c>>
        BY <2>5, <3>4
      <4>2. old.fd \in Fds
        BY <2>2, <3>4 DEF Ops
      <4>. QED  BY Zenon, <1>0, <2>1, <2>2, <2>4, <4>1, <4>2, ArmRecvType, SubmitType
             DEF TypeOK, KernelTypeOK
    <3>5. CASE old.op = "SEND"
      <4>1. old.fd \in Fds
        BY <2>2, <3>5 DEF Ops
      <4>2. PICK m \in {buffers[old.fd], Status("GARBLED")} : s2c' = Sent(old.fd, m)
        BY <2>5, <3>5
      <4>3. m \in Messages
        BY <4>1, StatusType DEF TypeOK, ServerTypeOK
      <4>4. s2c' \in [Clients -> Seq(Messages)]
        BY <4>1, <4>2, <4>3, SentType
      <4>. QED  BY <1>0, <2>4, <2>5, <3>1, <3>5, <4>4 DEF TypeOK, KernelTypeOK
    <3>. QED  BY <2>2, <3>2, <3>3, <3>4, <3>5 DEF Ops
  <2>6. CASE ~(\A i \in 0 .. MERKLE_LEAVES - 1 : Loaded(CBUF, i))
    <3>1. UNCHANGED kernelVars
      BY Zenon, <2>6 DEF kernelVars
    <3>2. KernelTypeOK'
      BY Zenon, <3>1 DEF TypeOK, KernelTypeOK, kernelVars
    <3>. QED  BY Zenon, <1>0, <2>4, <3>2 DEF TypeOK
  <2>. QED  BY <2>5, <2>6
<1>8. CASE OnNoResponse
  <2>1. server' \in {"up", "unparsed"}
    BY Zenon, <1>8, ReadOutcome
  <2>2. cq' \in Seq(Cqes)
    BY Zenon, <1>8, EventType DEF OnNoResponse
  <2>. QED  BY Zenon, <1>0, <1>8, <2>1, <2>2 DEF OnNoResponse, TypeOK, KernelTypeOK, ServerTypeOK
<1>. QED  BY <1>1, <1>2, <1>3, <1>4, <1>5, <1>6, <1>7, <1>8 DEF ServerStep, EventLoop

\* So does the kernel when it completes a recv.
LEMMA KernelStepType ==
  ASSUME TypeOK, KernelStep  PROVE TypeOK'
<1>0. ClientTypeOK'
  BY DEF TypeOK, ClientTypeOK, KernelStep, clientVars
<1>1a. PICK c \in Clients : \E i \in 1 .. Len(recvs[c]) : RecvCompletes(c, i) \/ RecvEnds(c, i)
  BY DEF KernelStep, RecvCompletion
<1>1. PICK i \in 1 .. Len(recvs[c]) : RecvCompletes(c, i) \/ RecvEnds(c, i)
  BY <1>1a
<1>. DEFINE r == recvs[c][i]
<1>2. recvs[c] \in Seq(PendingRecvs) /\ r \in PendingRecvs
  BY DEF TypeOK, KernelTypeOK
<1>3. r.buf \in Fds /\ r.ud \in ClientData
  BY <1>2 DEF PendingRecvs
<1>4. RemoveAt(recvs[c], i) \in Seq(PendingRecvs)
  BY <1>2, RemoveAtElements
<1>5. \A res \in {0, 1} : Append(cq, Cqe(r.ud, res)) \in Seq(Cqes)
  <2>1. \A res \in {0, 1} : Cqe(r.ud, res) \in Cqes
    BY <1>3 DEF Cqe, Cqes
  <2>. QED  BY <2>1 DEF TypeOK, KernelTypeOK
<1>6. CASE RecvCompletes(c, i)
  <2>1. Last(c2s[c]) \in Messages
    BY <1>6 DEF RecvCompletes, Last, TypeOK, KernelTypeOK
  <2>2. KernelTypeOK'
    BY <1>4, <1>5, <1>6 DEF RecvCompletes, TypeOK, KernelTypeOK
  <2>3. ServerTypeOK'
    BY <1>3, <1>6, <2>1 DEF RecvCompletes, TypeOK, ServerTypeOK
  <2>. QED  BY Zenon, <1>0, <2>2, <2>3 DEF TypeOK
<1>7. CASE RecvEnds(c, i)
  <2>1. KernelTypeOK'
    BY Zenon, <1>4, <1>5, <1>7 DEF RecvEnds, TypeOK, KernelTypeOK
  <2>2. ServerTypeOK'
    BY <1>7 DEF RecvEnds, TypeOK, ServerTypeOK, serverVars
  <2>. QED  BY Zenon, <1>0, <2>1, <2>2 DEF TypeOK
<1>. QED  BY <1>1, <1>6, <1>7

\* The elements of a sequence over S are in S.
LEMMA ElementsOfSeq ==
  \A S : \A s \in Seq(S) : \A i \in 1 .. Len(s) : s[i] \in S
OBVIOUS

\* The messages a client has received are serial numbers.
LEMMA KnownType ==
  ASSUME TypeOK, NEW c \in Clients  PROVE Known(c) \subseteq Nat
<1>1. msg_arr[c] \in Seq(Nat) /\ s2c[c] \in Seq(Messages)
  BY DEF TypeOK, KernelTypeOK, ClientTypeOK
<1>2. \A i \in 1 .. Len(msg_arr[c]) : msg_arr[c][i] \in Nat
  BY Zenon, <1>1, ElementsOfSeq
<1>3. \A i \in 1 .. Len(s2c[c]) : s2c[c][i].msg \in Nat
  <2>1. \A i \in 1 .. Len(s2c[c]) : s2c[c][i] \in Messages
    BY Zenon, <1>1, ElementsOfSeq
  <2>. QED  BY ONLY <2>1 DEF Messages
<1>. QED  BY Zenon, <1>2, <1>3 DEF Known

\* And so do the steps of a client.
LEMMA ClientStepType ==
  ASSUME TypeOK, NEW c \in Clients,
         ConnectStep(c) \/ ClientStep(c) \/ StrayStep(c) \/ FailStep(c)
  PROVE  TypeOK'
<1>0. ServerTypeOK'
  BY DEF TypeOK, ServerTypeOK, serverVars, ConnectStep, ClientStep, StrayStep, FailStep
<1>1. \A st \in ClientStatus : send_STATUS(c, st) => c2s' \in [Clients -> Seq(Messages)]
  <2>. SUFFICES ASSUME NEW st \in ClientStatus, send_STATUS(c, st)
                PROVE  c2s' \in [Clients -> Seq(Messages)]
    OBVIOUS
  <2>1. Append(c2s[c], Status(st)) \in Seq(Messages)
    BY StatusType DEF TypeOK, KernelTypeOK
  <2>. QED  BY <2>1 DEF send_STATUS, Deliver, TypeOK, KernelTypeOK
<1>2. \A st : Received(c, st) => s2c' \in [Clients -> Seq(Messages)] /\ s2c[c] # <<>>
  <2>. SUFFICES ASSUME NEW st, Received(c, st)
                PROVE  s2c' \in [Clients -> Seq(Messages)] /\ s2c[c] # <<>>
    BY Zenon
  <2>1. s2c[c] # <<>> /\ s2c' = [s2c EXCEPT ![c] = <<>>]
    BY Zenon DEF Received
  <2>2. s2c \in [Clients -> Seq(Messages)] /\ <<>> \in Seq(Messages)
    BY DEF TypeOK, KernelTypeOK
  <2>. QED  BY Zenon, <2>1, <2>2
<1>3. s2c[c] # <<>> => Append(msg_arr[c], Last(s2c[c]).msg) \in Seq(Nat)
  <2>1. s2c[c] # <<>> => Last(s2c[c]) \in Messages
    BY DEF Last, TypeOK, KernelTypeOK
  <2>2. s2c[c] # <<>> => Last(s2c[c]).msg \in Nat
    BY <2>1 DEF Messages
  <2>3. msg_arr[c] \in Seq(Nat)
    BY DEF TypeOK, ClientTypeOK
  <2>. QED  BY Zenon, <2>2, <2>3, SerialAppended
<1>. USE DEF TypeOK, KernelTypeOK, ClientTypeOK, serverSide, ClientStatus
<1>4. CASE Connect(c)
  <2>1. /\ fdtab' \in [Fds -> Clients \cup {NoClient}]
        /\ cq' \in Seq(Cqes)
        /\ accepts' \in Seq(PendingAccepts)
        /\ backlog' \in Seq(Clients)
    <3>1. CASE accepts # <<>>
      <4>1. LowestFreeFd \in Fds /\ LowestFreeFd \in Nat
        <5>1. FreeFds # {}
          BY Zenon, <1>4, <3>1 DEF Connect, Connected
        <5>2. Fds \subseteq Nat
          BY ONLY SocketsAssumption DEF Fds
        <5>. QED  BY Zenon, <5>1, <5>2, FreeFdType
      <4>2. Head(accepts) \in PendingAccepts /\ Tail(accepts) \in Seq(PendingAccepts)
        <5>1. accepts \in Seq(PendingAccepts)
          BY Zenon
        <5>. QED  BY ONLY <3>1, <5>1
      <4>3. Cqe(Head(accepts), LowestFreeFd) \in Cqes
        BY <4>1, <4>2 DEF Cqe, Cqes, PendingAccepts
      <4>4. Append(cq, Cqe(Head(accepts), LowestFreeFd)) \in Seq(Cqes)
        BY <4>3
      <4>5. [fdtab EXCEPT ![LowestFreeFd] = c] \in [Fds -> Clients \cup {NoClient}]
        BY <4>1
      <4>. QED  BY Zenon, <1>4, <3>1, <4>2, <4>4, <4>5 DEF Connect, Connected
    <3>2. CASE accepts = <<>>
      <4>1. Append(backlog, c) \in Seq(Clients)
        OBVIOUS
      <4>. QED  BY Zenon, <1>4, <3>2, <4>1 DEF Connect, Connected
    <3>. QED  BY <3>1, <3>2
  <2>. QED  BY <1>0, <1>4, <2>1 DEF Connect
<1>5. CASE OnAsk(c)
  BY <1>0, <1>1, <1>2, <1>5 DEF OnAsk, clientVars
<1>6. CASE OnMessage(c)
  BY Zenon, <1>0, <1>1, <1>2, <1>3, <1>6 DEF OnMessage
<1>7. CASE OnLastMessage(c)
  BY Zenon, <1>0, <1>1, <1>2, <1>3, <1>7 DEF OnLastMessage
<1>8. CASE OnAllSent(c)
  BY <1>0, <1>1, <1>2, <1>8 DEF OnAllSent
<1>9. CASE OnOtherStatus(c)
  BY <1>0, <1>2, <1>9 DEF OnOtherStatus
<1>10. CASE Dies(c)
  <2>1. KernelTypeOK'
    BY <1>10 DEF Dies
  <2>2. ClientTypeOK'
    BY <1>10 DEF Dies
  <2>. QED  BY Zenon, <1>0, <2>1, <2>2
<1>11. CASE UnpackFails(c) \/ Fail(c)
  BY Zenon, <1>10, <1>11 DEF UnpackFails, Fail
<1>12. CASE DesyncedTurn(c)
  <2>. SUFFICES ASSUME ~Dies(c)  PROVE TypeOK'
    BY Zenon, <1>10
  <2>1. UNCHANGED <<serverSide, cq, accepts, backlog, fdtab, gone>>
    BY Zenon, <1>12 DEF DesyncedTurn
  <2>2. s2c' \in [Clients -> Seq(Messages)]
    <3>1. [s2c EXCEPT ![c] = <<>>] \in [Clients -> Seq(Messages)]
      OBVIOUS
    <3>. QED  BY Zenon, <1>12, <3>1 DEF DesyncedTurn
  <2>3. c2s' \in [Clients -> Seq(Messages)]
    BY Zenon, <1>1, <1>12 DEF DesyncedTurn
  <2>4. msg_arr' \in [Clients -> Seq(Nat)]
    <3>1. \A m \in Known(c) : Append(msg_arr[c], m) \in Seq(Nat)
      BY Zenon, KnownType, SerialAppended
    <3>2. \A m \in Known(c) : [msg_arr EXCEPT ![c] = Append(msg_arr[c], m)] \in [Clients -> Seq(Nat)]
      BY Zenon, <3>1
    <3>3. \/ UNCHANGED msg_arr
          \/ \E m \in Known(c) : msg_arr' = [msg_arr EXCEPT ![c] = Append(msg_arr[c], m)]
      BY <1>12 DEF DesyncedTurn, clientVars
    <3>. QED  BY Zenon, <1>0, <3>2, <3>3
  <2>5. /\ pc' \in [Clients -> {"start", "loop", "filled", "desynced", "dead"}]
        /\ block' \in [Clients -> BOOLEAN]
    BY Zenon, <1>12 DEF DesyncedTurn, clientVars
  <2>. QED  BY Zenon, <1>0, <2>1, <2>2, <2>3, <2>4, <2>5
<1>. QED  BY Zenon, <1>4, <1>5, <1>6, <1>7, <1>8, <1>9, <1>11, <1>12
       DEF ConnectStep, ClientStep, StrayStep, FailStep, MessageThread

\* A step that changes nothing keeps the types.
LEMMA StutterType ==
  ASSUME TypeOK, UNCHANGED vars  PROVE TypeOK'
BY DEF TypeOK, KernelTypeOK, ServerTypeOK, ClientTypeOK, vars, kernelVars, serverVars, clientVars

\* Every reachable state is well typed: in particular every user_data the
\* event loop reads back names a descriptor, and fill_size stays within the
\* buffer.
THEOREM TypeCorrect == Spec => []TypeOK
<1>1. TypeOK /\ [Next]_vars => TypeOK'
  BY ServerStepType, KernelStepType, ClientStepType, StutterType DEF Next
<1>. QED  BY <1>1, InitType, PTL DEF Spec

-----------------------------------------------------------------------------
\* What the buffer holds, and what is sent from it.

\* The message GET_nth_circ_buf returns, under the invariant. In the first
\* phase at most one message is pushed, into slot n; later none is, because
\* fill_size - 1 wraps around to the largest size_t.
LEMMA GetNth ==
  ASSUME TypeOK, BufferInv, NEW n \in Nat, n < N_MESSAGES,
         FirstPhase => n <= CBUF.fill_size
  PROVE  LET filled == GET_nth_circ_buf(CBUF, n)
         IN  /\ GET_nth_terminates(CBUF, n)
             /\ Loaded(filled, n)
             /\ filled.freed = {}
             /\ ~FirstPhase => filled = CBUF
             /\ FirstPhase =>
                  /\ filled.fill_size =
                       IF n = CBUF.fill_size THEN n + 1 ELSE CBUF.fill_size
                  /\ filled.fill_size \in 1 .. CIRC_BUF_SIZE
                  /\ filled.made = filled.fill_size
                  /\ filled.buffer[n] = n + 1
                  /\ \A i \in Slots : filled.buffer[i] =
                       IF i < filled.fill_size THEN i + 1 ELSE NULL
<1>. DEFINE filled == GET_nth_circ_buf(CBUF, n)
<1>0. /\ CBUF \in CircBufs
      /\ CBUF.buffer \in [Slots -> Nat]
      /\ CBUF.fill_size \in 0 .. CIRC_BUF_SIZE
      /\ CBUF.made \in Nat
      /\ CBUF.freed = {}
      /\ n \in Slots
      /\ N_MESSAGES \in Nat /\ N_MESSAGES <= CIRC_BUF_SIZE /\ N_MESSAGES <= BLOCKSIZE
      /\ CIRC_BUF_SIZE \in Nat /\ SIZE_MOD \in Nat /\ SIZE_MOD > CIRC_BUF_SIZE
      /\ BLOCKSIZE \in Nat
  BY CircBufAssumption, ServerAssumption, ExchangeAssumption, ClientAssumption
     DEF TypeOK, ServerTypeOK, CircBufs, BufferInv, Slots
<1>1. GET_nth_terminates(CBUF, n)
  BY <1>0 DEF GET_nth_terminates
<1>2. cur_last_msg_serial(CBUF) =
        IF CBUF.fill_size = 0 THEN SIZE_MOD - 1 ELSE CBUF.fill_size - 1
  BY <1>0, LastSerial
<1>3. CASE ~FirstPhase
  <2>1. filled = CBUF
    BY <1>0, <1>2, <1>3 DEF GET_nth_circ_buf, FirstPhase
  <2>2. CBUF.buffer[n] # NULL
    BY <1>0, <1>3 DEF BufferInv
  <2>. QED  BY <1>0, <1>1, <1>3, <2>1, <2>2 DEF Loaded
<1>4. CASE FirstPhase /\ n < CBUF.fill_size
  <2>1. filled = CBUF
    BY <1>0, <1>2, <1>4 DEF GET_nth_circ_buf, FirstPhase
  <2>2. CBUF.buffer[n] = n + 1 /\ n + 1 # NULL
    BY <1>0, <1>4 DEF BufferInv, NULL
  <2>3. CBUF.made = CBUF.fill_size
        /\ \A i \in Slots : CBUF.buffer[i] = IF i < CBUF.fill_size THEN i + 1 ELSE NULL
    BY Zenon, <1>4 DEF BufferInv
  <2>4. CBUF.fill_size \in 1 .. CIRC_BUF_SIZE /\ n # CBUF.fill_size
    BY <1>0, <1>4
  <2>5. Loaded(CBUF, n)
    BY <1>0, <2>2 DEF Loaded
  <2>6. CBUF.freed = {}
    BY Zenon, <1>0
  <2>7. /\ filled.fill_size = IF n = CBUF.fill_size THEN n + 1 ELSE CBUF.fill_size
        /\ filled.fill_size \in 1 .. CIRC_BUF_SIZE
        /\ filled.made = filled.fill_size
        /\ filled.buffer[n] = n + 1
        /\ \A i \in Slots : filled.buffer[i] = IF i < filled.fill_size THEN i + 1 ELSE NULL
    <3>. HIDE DEF filled
    <3>. QED  BY Zenon, <2>1, <2>2, <2>3, <2>4
  <2>8. Loaded(filled, n) /\ filled.freed = {}
    <3>. HIDE DEF filled
    <3>. QED  BY Zenon, <2>1, <2>5, <2>6
  <2>. QED  BY Zenon, <1>1, <1>4, <2>7, <2>8
<1>5. CASE FirstPhase /\ n = CBUF.fill_size
  <2>. DEFINE buf == [i \in Slots |-> IF i \in CBUF.fill_size .. n
                                      THEN CBUF.made + 1 + (i - CBUF.fill_size)
                                      ELSE CBUF.buffer[i]]
  <2>1. n > cur_last_msg_serial(CBUF) /\ CBUF.made = n
    BY <1>0, <1>2, <1>5 DEF FirstPhase, BufferInv
  <2>2. filled = [CBUF EXCEPT !.buffer = buf, !.fill_size = n + 1,
                              !.made = CBUF.made + (n + 1 - CBUF.fill_size)]
    BY <2>1 DEF GET_nth_circ_buf
  <2>3. /\ filled.buffer = buf
        /\ filled.fill_size = n + 1
        /\ filled.made = CBUF.made + (n + 1 - CBUF.fill_size)
        /\ filled.freed = {}
    <3>. HIDE DEF filled, buf
    <3>. QED  BY <1>0, <2>2 DEF CircBufs
  <2>4. \A i \in Slots : buf[i] = IF i < n + 1 THEN i + 1 ELSE NULL
    <3>1. \A i \in Slots : CBUF.buffer[i] = IF i < n THEN i + 1 ELSE NULL
      BY <1>5 DEF BufferInv
    <3>. QED  BY <1>0, <1>5, <2>1, <3>1 DEF Slots
  <2>. HIDE DEF buf, filled
  <2>5. filled.made = n + 1 /\ n + 1 \in 1 .. CIRC_BUF_SIZE /\ n + 1 # NULL
    <3>1. filled.made = n + (n + 1 - n)
      BY Zenon, <1>5, <2>1, <2>3
    <3>2. n \in Nat /\ n < CIRC_BUF_SIZE /\ CIRC_BUF_SIZE \in Nat
      BY <1>0 DEF Slots
    <3>. QED  BY <3>1, <3>2 DEF NULL
  <2>6. filled.buffer[n] = n + 1
    <3>1. n < n + 1
      OBVIOUS
    <3>. QED  BY Zenon, <1>0, <2>3, <2>4, <3>1
  <2>. QED  BY <1>0, <1>1, <1>5, <2>3, <2>4, <2>5, <2>6 DEF Loaded, filled
<1>6. FirstPhase => n < CBUF.fill_size \/ n = CBUF.fill_size
  BY <1>0
<1>. QED  BY Zenon, <1>3, <1>4, <1>5, <1>6

\* The message OnNeedMore looks up is one it may look up.
LEMMA NeedMoreIndex ==
  ASSUME IInv, NextStatus("NEED_MORE"), beffer_sended_N[client_fd] < N_MESSAGES
  PROVE  /\ client_fd \in Fds
         /\ beffer_sended_N[client_fd] \in Nat
         /\ FirstPhase => beffer_sended_N[client_fd] <= CBUF.fill_size
<1>1. client_fd \in Fds
  BY EventType DEF IInv, NextStatus, NextEvent
<1>. QED  BY <1>1 DEF IInv, FirstPhaseInv, TypeOK, ServerTypeOK

\* FINISH_SENDING finds a whole block in the buffer.
LEMMA FinishLoaded ==
  ASSUME IInv, NextStatus("ENOUGH")
  PROVE  \A i \in 0 .. BLOCKSIZE - 1 : Loaded(CBUF, i)
<1>1. client_fd \in Fds
  BY EventType DEF IInv, NextStatus, NextEvent
<1>2. CASE ~FirstPhase
  BY <1>2 DEF IInv, BufferInv, Loaded
<1>3. CASE FirstPhase
  <2>1. CBUF.fill_size >= BLOCKSIZE
    BY <1>1, <1>3 DEF IInv, FirstPhaseInv, EnoughInv, NextStatus
  <2>2. CBUF.fill_size \in 0 .. CIRC_BUF_SIZE
    BY DEF IInv, TypeOK, ServerTypeOK, CircBufs
  <2>3. \A i \in 0 .. BLOCKSIZE - 1 : i \in Slots /\ i < CBUF.fill_size /\ i + 1 # NULL
    BY <2>1, <2>2, ClientAssumption, CircBufAssumption DEF Slots, NULL
  <2>. QED  BY <1>3, <2>3 DEF IInv, BufferInv, Loaded
<1>. QED  BY <1>2, <1>3

\* Every step keeps the buffer's part of the invariant, and the second phase
\* never ends.
LEMMA BufferStep ==
  ASSUME IInv, [Next]_vars
  PROVE  BufferInv' /\ (FirstPhase' => FirstPhase)
<1>1. CASE UNCHANGED <<CBUF, server>>
  BY <1>1 DEF IInv, BufferInv, FirstPhase
<1>2. CASE OnNeedMore
  <2>. DEFINE n == beffer_sended_N[client_fd]
              filled == GET_nth_circ_buf(CBUF, n)
  <2>1. /\ n \in Nat /\ n < N_MESSAGES
        /\ FirstPhase => n <= CBUF.fill_size
    BY <1>2, NeedMoreIndex DEF OnNeedMore
  <2>2. /\ GET_nth_terminates(CBUF, n)
        /\ Loaded(filled, n)
        /\ filled.freed = {}
        /\ ~FirstPhase => filled = CBUF
        /\ FirstPhase =>
             /\ filled.fill_size \in 1 .. CIRC_BUF_SIZE
             /\ filled.made = filled.fill_size
             /\ \A i \in Slots : filled.buffer[i] =
                  IF i < filled.fill_size THEN i + 1 ELSE NULL
    BY <2>1, GetNth DEF IInv
  <2>3. CBUF' = filled /\ server' = server
    BY <1>2, <2>2 DEF OnNeedMore
  <2>4. CASE ~FirstPhase
    BY <2>2, <2>3, <2>4 DEF IInv, BufferInv, FirstPhase
  <2>5. CASE FirstPhase
    <3>1. CBUF'.fill_size \in 1 .. CIRC_BUF_SIZE /\ CBUF'.made = CBUF'.fill_size
          /\ CBUF'.freed = {}
      BY <2>2, <2>3, <2>5
    <3>2. \A i \in Slots : CBUF'.buffer[i] = IF i < CBUF'.fill_size THEN i + 1 ELSE NULL
      BY <2>2, <2>3, <2>5
    <3>3. FirstPhase' /\ CBUF'.fill_size <= CIRC_BUF_SIZE
      BY <3>1, CircBufAssumption DEF FirstPhase
    <3>4. server' \in {"up", "unparsed"}
      BY Zenon, <2>3 DEF IInv, BufferInv
    <3>. QED  BY Zenon, <2>5, <3>1, <3>2, <3>3, <3>4 DEF BufferInv
  <2>. QED  BY <2>4, <2>5
<1>3. CASE FINISH_SENDING
  <2>1. \A i \in 0 .. BLOCKSIZE - 1 : Loaded(CBUF, i)
    BY <1>3, FinishLoaded DEF FINISH_SENDING
  <2>2. \A i \in 0 .. MERKLE_LEAVES - 1 : Loaded(CBUF, i)
    BY <2>1, ExchangeAssumption, ServerAssumption, ClientAssumption
  <2>3. CBUF' = [CBUF EXCEPT !.fill_size = 0] /\ server' = server
    BY <1>3, <2>2 DEF FINISH_SENDING
  <2>4. CBUF'.fill_size = 0 /\ CBUF'.buffer = CBUF.buffer /\ CBUF'.freed = CBUF.freed
    BY <2>3 DEF IInv, TypeOK, ServerTypeOK, CircBufs
  <2>. QED  BY <2>1, <2>3, <2>4, CircBufAssumption DEF IInv, BufferInv, FirstPhase, Loaded
<1>4. CASE ServerStep
  <2>1. UNCHANGED <<CBUF, server>> \/ OnNeedMore \/ FINISH_SENDING \/ OnNoResponse
    BY <1>4 DEF ServerStep, EventLoop, OnAccept, OnReadResponse, OnClose, OnNeedMoreAllSent,
                OnAcknOk, serverVars
  <2>2. CASE OnNoResponse
    <3>1. UNCHANGED CBUF /\ server' \in {"up", "unparsed"}
      BY Zenon, <2>2, ReadOutcome DEF OnNoResponse
    <3>. QED  BY <3>1 DEF IInv, BufferInv, FirstPhase
  <2>. QED  BY Zenon, <1>1, <1>2, <1>3, <2>1, <2>2
<1>5. CASE KernelStep
  BY <1>1, <1>5 DEF KernelStep, RecvCompletion, RecvCompletes, RecvEnds, serverVars
<1>6. CASE \E c \in Clients : ConnectStep(c) \/ ClientStep(c) \/ StrayStep(c) \/ FailStep(c)
  BY <1>1, <1>6 DEF ConnectStep, ClientStep, StrayStep, FailStep, serverVars
<1>7. CASE UNCHANGED vars
  BY <1>1, <1>7 DEF vars, serverVars
<1>. QED  BY <1>4, <1>5, <1>6, <1>7 DEF Next

----------------------------------------------------------------------------
\* Steps that open and close no connection keep DescriptorInv.
LEMMA SameDescriptors ==
  ASSUME DescriptorInv, UNCHANGED <<shut, accepts, fdtab, backlog>>,
         \A c \in Clients : pc'[c] = "start" <=> pc[c] = "start",
         \A i \in 1 .. Len(cq') : cq'[i].ud.flag # "FLAG_CLOSE_CONNECTION",
         \A c \in Clients : \A i \in 1 .. Len(recvs'[c]) :
           recvs'[c][i].ud.flag # "FLAG_CLOSE_CONNECTION",
         backlog \in Seq(Clients)
  PROVE  DescriptorInv'
<1>1. \A i \in 1 .. Len(backlog) : backlog[i] \in Clients
  BY Zenon, ElementsOfSeq
<1>2. \A i \in 1 .. Len(backlog) : /\ pc'[backlog[i]] # "start"
                                   /\ \A fd \in Fds : fdtab[fd] # backlog[i]
                                   /\ \A j \in 1 .. Len(backlog) : backlog[i] = backlog[j] => i = j
  BY Zenon, <1>1 DEF DescriptorInv
<1>3. \A c \in Clients : pc'[c] = "start" => \A fd \in Fds : fdtab[fd] # c
  BY Zenon DEF DescriptorInv
<1>4. /\ shut = {}
      /\ \A i \in 1 .. Len(accepts) : accepts[i] = AcceptData
      /\ \A f, g \in Fds : fdtab[f] = fdtab[g] /\ fdtab[f] # NoClient => f = g
  BY Zenon DEF DescriptorInv
<1>5. shut' = shut /\ accepts' = accepts /\ fdtab' = fdtab /\ backlog' = backlog
  BY Zenon
<1>6. /\ \A i \in 1 .. Len(cq') : cq'[i].ud.flag # "FLAG_CLOSE_CONNECTION"
      /\ \A c \in Clients : \A i \in 1 .. Len(recvs'[c]) :
           recvs'[c][i].ud.flag # "FLAG_CLOSE_CONNECTION"
  BY Zenon
<1>. QED  BY ONLY Zenon, <1>2, <1>3, <1>4, <1>5, <1>6 DEF DescriptorInv

\* A sequence whose elements all lie in P is a sequence over P.
LEMMA SeqOfElements ==
  ASSUME NEW S, NEW s \in Seq(S), NEW P, \A i \in 1 .. Len(s) : s[i] \in P
  PROVE  s \in Seq(P)
OBVIOUS

\* Completions that a handler adds behind the queue.
LEMMA SubmitFlags ==
  ASSUME TypeOK, DescriptorInv, cq # <<>>, NEW op, NEW t \in Seq(Cqes), Submit(op, t),
         \A i \in 1 .. Len(t) : t[i].ud.flag # "FLAG_CLOSE_CONNECTION"
  PROVE  \A i \in 1 .. Len(cq') : cq'[i].ud.flag # "FLAG_CLOSE_CONNECTION"
<1>. DEFINE Open == {e \in Cqes : e.ud.flag # "FLAG_CLOSE_CONNECTION"}
<1>1. cq \in Seq(Cqes) /\ cq' = Tail(cq) \o t
  BY DEF TypeOK, KernelTypeOK, Submit
<1>2. \A i \in 1 .. Len(cq) : cq[i].ud.flag # "FLAG_CLOSE_CONNECTION"
  BY DEF DescriptorInv
<1>3. cq \in Seq(Open)
  <2>1. \A i \in 1 .. Len(cq) : cq[i] \in Open
    BY <1>1, <1>2
  <2>. HIDE DEF Open
  <2>. QED  BY <1>1, <2>1, SeqOfElements
<1>4. t \in Seq(Open)
  <2>1. \A i \in 1 .. Len(t) : t[i] \in Open
    <3>1. \A i \in 1 .. Len(t) : t[i] \in Cqes
      BY Zenon, ElementsOfSeq
    <3>. QED  BY Zenon, <3>1
  <2>. HIDE DEF Open
  <2>. QED  BY <2>1, SeqOfElements
<1>5. cq' \in Seq(Open)
  <2>. HIDE DEF Open
  <2>. QED  BY <1>1, <1>3, <1>4
<1>. QED  BY <1>5

\* What a send by the server may add to a client's connection.
LEMMA SentElements ==
  ASSUME TypeOK, NEW fd \in Fds, NEW m \in Messages, NEW c \in Clients
  PROVE  /\ fdtab[fd] # c => Sent(fd, m)[c] = s2c[c]
         /\ \A j \in 1 .. Len(Sent(fd, m)[c]) :
              \/ j \in 1 .. Len(s2c[c]) /\ Sent(fd, m)[c][j] = s2c[c][j]
              \/ Sent(fd, m)[c][j] = m
<1>1. s2c[c] \in Seq(Messages) /\ s2c \in [Clients -> Seq(Messages)]
  BY DEF TypeOK, KernelTypeOK
<1>2. CASE Sent(fd, m)[c] = s2c[c]
  BY <1>2
<1>3. CASE Sent(fd, m)[c] # s2c[c]
  <2>1. fdtab[fd] = c /\ Sent(fd, m)[c] = Append(s2c[c], m)
    BY <1>1, <1>3 DEF Sent
  <2>2. \A j \in 1 .. Len(Append(s2c[c], m)) :
          \/ j \in 1 .. Len(s2c[c]) /\ Append(s2c[c], m)[j] = s2c[c][j]
          \/ Append(s2c[c], m)[j] = m
    BY Zenon, <1>1, MessageAppended
  <2>. QED  BY Zenon, <2>1, <2>2
<1>. QED  BY <1>2, <1>3

----------------------------------------------------------------------------
\* The server sends m on descriptor fd and sets its counter to k.
LEMMA ServerSend ==
  ASSUME IInv, FirstPhase, cq # <<>>, NEW fd \in Fds, NEW m \in Messages, NEW k \in Nat,
         SendFromBuffer(fd, m),
         m.status \in ServerStatus, m.msg <= k, k >= beffer_sended_N[fd],
         m.status = "MESSAGE_SENDED" => m.msg > beffer_sended_N[fd],
         beffer_sended_N' = [beffer_sended_N EXCEPT ![fd] = k],
         CBUF'.fill_size \in Nat, CBUF'.fill_size >= CBUF.fill_size, CBUF'.fill_size >= k,
         UNCHANGED <<accepts, recvs, backlog, fdtab, shut, gone, c2s, clientVars>>
  PROVE  FirstPhaseInv'
<1>. USE DEF clientVars
<1>0. /\ TypeOK /\ FirstPhaseInv
      /\ CBUF.fill_size \in Nat
      /\ BLOCKSIZE \in Nat
      /\ beffer_sended_N \in [Fds -> Nat]
      /\ s2c \in [Clients -> Seq(Messages)]
      /\ msg_arr \in [Clients -> Seq(Nat)]
      /\ buffers \in [Fds -> Messages]
      /\ c2s \in [Clients -> Seq(Messages)]
      /\ backlog \in Seq(Clients)
  <2>1. FirstPhaseInv /\ CBUF \in CircBufs
    BY DEF IInv, TypeOK, ServerTypeOK
  <2>2. CBUF.fill_size \in Nat
    BY <2>1, CircBufAssumption DEF CircBufs
  <2>. QED  BY <2>1, <2>2, ClientAssumption
         DEF IInv, TypeOK, KernelTypeOK, ServerTypeOK, ClientTypeOK
<1>1. DescriptorInv'
  <2>. DEFINE t == <<Cqe(make_request_data(fd, "READ_RESPONSE"), 1)>>
  <2>1. t \in Seq(Cqes) /\ \A i \in 1 .. Len(t) : t[i].ud.flag # "FLAG_CLOSE_CONNECTION"
    BY DEF Cqe, Cqes, ClientData, make_request_data
  <2>2. \A i \in 1 .. Len(cq') : cq'[i].ud.flag # "FLAG_CLOSE_CONNECTION"
    <3>1. Submit(SendOp(fd, Length(m)), t)
      BY Zenon DEF SendFromBuffer
    <3>. HIDE DEF t
    <3>. QED  BY Zenon, <1>0, <2>1, <3>1, SubmitFlags DEF FirstPhaseInv
  <2>3. \A c \in Clients : \A i \in 1 .. Len(recvs'[c]) :
           recvs'[c][i].ud.flag # "FLAG_CLOSE_CONNECTION"
    BY <1>0 DEF FirstPhaseInv, DescriptorInv
  <2>. QED  BY <1>0, <2>2, <2>3, SameDescriptors DEF FirstPhaseInv
<1>2. ASSUME NEW c \in Clients  PROVE ClientInv(c)'
  <2>1. ClientInv(c)
    BY <1>0 DEF FirstPhaseInv
  <2>2. /\ fdtab[fd] # c => s2c'[c] = s2c[c]
        /\ \A j \in 1 .. Len(s2c'[c]) :
             \/ j \in 1 .. Len(s2c[c]) /\ s2c'[c][j] = s2c[c][j]
             \/ s2c'[c][j] = m
    <3>1. s2c' = Sent(fd, m)
      BY Zenon DEF SendFromBuffer
    <3>2. /\ fdtab[fd] # c => Sent(fd, m)[c] = s2c[c]
          /\ \A j \in 1 .. Len(Sent(fd, m)[c]) :
               \/ j \in 1 .. Len(s2c[c]) /\ Sent(fd, m)[c][j] = s2c[c][j]
               \/ Sent(fd, m)[c][j] = m
      BY Zenon, <1>0, SentElements
    <3>. QED  BY Zenon, <3>1, <3>2
  <2>3. m.msg \in Nat /\ \A j \in 1 .. Len(s2c[c]) : s2c[c][j].msg \in Nat
    <3>1. \A x \in Messages : x.msg \in Nat
      BY DEF Messages
    <3>2. s2c[c] \in Seq(Messages)
      BY Zenon, <1>0
    <3>3. \A j \in 1 .. Len(s2c[c]) : s2c[c][j] \in Messages
      BY <3>2
    <3>. QED  BY Zenon, <3>1, <3>3
  <2>4. CASE fdtab[fd] # c
    <3>1. s2c'[c] = s2c[c] /\ UNCHANGED <<fdtab, msg_arr, pc>>
      BY Zenon, <2>2, <2>4
    <3>2. \A f \in Fds : fdtab[f] = c => beffer_sended_N'[f] = beffer_sended_N[f]
      BY <1>0, <2>4
    <3>. QED  BY Zenon, <2>1, <3>1, <3>2 DEF ClientInv
  <2>5. CASE fdtab[fd] = c
    <3>1. \A f \in Fds : fdtab[f] = c => f = fd
      <4>1. c # NoClient
        BY SocketsAssumption
      <4>. QED  BY <1>0, <2>5, <4>1 DEF FirstPhaseInv, DescriptorInv
    <3>2. Len(msg_arr[c]) \in Nat /\ Len(msg_arr[c]) <= beffer_sended_N[fd]
      <4>1. msg_arr[c] \in Seq(Nat) /\ Len(msg_arr[c]) <= beffer_sended_N[fd]
        BY Zenon, <1>0, <2>1, <2>5 DEF ClientInv
      <4>. QED  BY <4>1
    <3>0. beffer_sended_N[fd] \in Nat
      BY Zenon, <1>0
    <3>3. \A j \in 1 .. Len(s2c'[c]) :
            /\ s2c'[c][j].status \in ServerStatus
            /\ s2c'[c][j].status = "MESSAGE_SENDED" => s2c'[c][j].msg > Len(msg_arr[c])
      <4>1. m.status = "MESSAGE_SENDED" => m.msg > Len(msg_arr[c])
        <5>. SUFFICES ASSUME m.status = "MESSAGE_SENDED"  PROVE m.msg > Len(msg_arr[c])
          BY Zenon
        <5>1. m.msg > beffer_sended_N[fd]
          BY Zenon
        <5>. QED  BY Zenon, <2>3, <3>0, <3>2, <5>1, AboveAll
      <4>. QED  BY <2>1, <2>2, <4>1 DEF ClientInv
    <3>4. \A j \in 1 .. Len(s2c'[c]) : s2c'[c][j].msg <= k
      <4>1. \A j \in 1 .. Len(s2c[c]) : s2c[c][j].msg <= beffer_sended_N[fd]
        BY <2>1, <2>5 DEF ClientInv
      <4>2. \A j \in 1 .. Len(s2c[c]) : s2c[c][j].msg <= k
        <5>1. k \in Nat /\ k >= beffer_sended_N[fd]
          BY Zenon
        <5>. QED  BY Zenon, <2>3, <3>0, <4>1, <5>1, AboveAll
      <4>. QED  BY <2>2, <4>2
    <3>5. beffer_sended_N'[fd] = k /\ Len(msg_arr[c]) <= k
      BY <1>0, <3>2
    <3>. QED  BY Zenon, <2>1, <2>5, <3>1, <3>3, <3>4, <3>5 DEF ClientInv
  <2>. QED  BY <2>4, <2>5
<1>3. \A f \in Fds : beffer_sended_N'[f] <= CBUF'.fill_size
  BY <1>0 DEF FirstPhaseInv
<1>4. EnoughInv'
  <2>1. m.status # "ENOUGH"
    BY DEF ServerStatus
  <2>2. buffers' = [buffers EXCEPT ![fd] = m]
    BY DEF SendFromBuffer
  <2>3. /\ \A d \in Clients : \A i \in 1 .. Len(c2s[d]) :
             c2s[d][i].status = "ENOUGH" => CBUF.fill_size >= BLOCKSIZE
        /\ \A f \in Fds : buffers[f].status = "ENOUGH" => CBUF.fill_size >= BLOCKSIZE
    BY Zenon, <1>0 DEF FirstPhaseInv, EnoughInv
  <2>4. CBUF.fill_size >= BLOCKSIZE => CBUF'.fill_size >= BLOCKSIZE
    BY <1>0
  <2>5. \A f \in Fds : buffers'[f] = IF f = fd THEN m ELSE buffers[f]
    BY <1>0, <2>2
  <2>6. \A f \in Fds : buffers'[f].status = "ENOUGH" => CBUF'.fill_size >= BLOCKSIZE
    BY Zenon, <2>1, <2>3, <2>4, <2>5
  <2>. QED  BY Zenon, <2>3, <2>4, <2>6 DEF EnoughInv
<1>. QED  BY <1>1, <1>2, <1>3, <1>4 DEF FirstPhaseInv

\* What the invariant says in the first phase, with the types it needs.
LEMMA FirstPhaseFacts ==
  ASSUME IInv, FirstPhase
  PROVE  /\ TypeOK /\ FirstPhaseInv
         /\ CBUF.fill_size \in Nat
         /\ BLOCKSIZE \in Nat \ {0}
         /\ beffer_sended_N \in [Fds -> Nat]
         /\ s2c \in [Clients -> Seq(Messages)]
         /\ c2s \in [Clients -> Seq(Messages)]
         /\ msg_arr \in [Clients -> Seq(Nat)]
         /\ buffers \in [Fds -> Messages]
         /\ backlog \in Seq(Clients)
         /\ cq \in Seq(Cqes)
         /\ recvs \in [Clients -> Seq(PendingRecvs)]
         /\ fdtab \in [Fds -> Clients \cup {NoClient}]
<1>1. FirstPhaseInv /\ CBUF \in CircBufs
  BY DEF IInv, TypeOK, ServerTypeOK
<1>2. CBUF.fill_size \in Nat
  BY <1>1, CircBufAssumption DEF CircBufs
<1>. QED  BY <1>1, <1>2, ClientAssumption
       DEF IInv, TypeOK, KernelTypeOK, ServerTypeOK, ClientTypeOK

\* A client that has no descriptor is given a free one.
LEMMA NewDescriptor ==
  ASSUME IInv, FirstPhase, NEW d \in Clients, NEW g \in Fds, fdtab[g] = NoClient,
         \A fd \in Fds : fdtab[fd] # d,
         fdtab' = [fdtab EXCEPT ![g] = d]
  PROVE  /\ \A f, h \in Fds : fdtab'[f] = fdtab'[h] /\ fdtab'[f] # NoClient => f = h
         /\ \A fd \in Fds : fdtab'[fd] = d <=> fd = g
         /\ \A c \in Clients \ {d} : \A fd \in Fds : fdtab'[fd] = c <=> fdtab[fd] = c
<1>1. fdtab \in [Fds -> Clients \cup {NoClient}] /\ DescriptorInv
  BY FirstPhaseFacts DEF FirstPhaseInv
<1>2. \A f, h \in Fds : fdtab[f] = fdtab[h] /\ fdtab[f] # NoClient => f = h
  BY <1>1 DEF DescriptorInv
<1>3. \A fd \in Fds : fdtab'[fd] = IF fd = g THEN d ELSE fdtab[fd]
  BY <1>1
<1>. QED  BY <1>2, <1>3, SocketsAssumption

----------------------------------------------------------------------------
(***************************************************************************)
(* Server and client take turns (TurnInv): which completions of the queue  *)
(* are due, and what a step leaves of the turns.                           *)
(***************************************************************************)

\* Which completions let the server send on which descriptor.
LEMMA DueOf ==
  ASSUME NEW f \in Fds, NEW g \in Fds
  PROVE  /\ Due(Cqe(AcceptData, g), f) <=> f = g
         /\ Due(Cqe(Answer(g), 1), f) <=> f = g
         /\ ~Due(Cqe(Answer(g), 0), f)
         /\ ~Due(Cqe(make_request_data(g, "READ_RESPONSE"), 1), f)
BY DEF Due, Cqe, AcceptData, Answer, make_request_data

\* The event loop takes a completion off the queue.
LEMMA TailDue ==
  ASSUME NEW q \in Seq(Cqes), q # <<>>, NEW f
  PROVE  /\ Tail(q) \in Seq(Cqes)
         /\ Has(Tail(q), f) => Has(q, f)
         /\ Due(Head(q), f) => Has(q, f)
         /\ Once(q, f) => Once(Tail(q), f) /\ (Due(Head(q), f) => ~Has(Tail(q), f))
<1>1. /\ Tail(q) \in Seq(Cqes) /\ Len(Tail(q)) = Len(q) - 1 /\ Len(q) \in Nat
      /\ \A i \in 1 .. Len(Tail(q)) : Tail(q)[i] = q[i + 1] /\ i + 1 \in 1 .. Len(q) /\ i + 1 # 1
      /\ Head(q) = q[1] /\ 1 \in 1 .. Len(q)
  OBVIOUS
<1>2. \A i, j \in 1 .. Len(Tail(q)) : i + 1 = j + 1 => i = j
  BY <1>1
<1>. QED  BY Zenon, <1>1, <1>2 DEF Has, Once

\* A completion is posted.
LEMMA AppendDue ==
  ASSUME NEW q \in Seq(Cqes), NEW e \in Cqes, NEW f
  PROVE  /\ Append(q, e) \in Seq(Cqes)
         /\ Has(Append(q, e), f) => Has(q, f) \/ Due(e, f)
         /\ Once(q, f) /\ (Due(e, f) => ~Has(q, f)) => Once(Append(q, e), f)
<1>1. /\ Append(q, e) \in Seq(Cqes) /\ Len(Append(q, e)) = Len(q) + 1 /\ Len(q) \in Nat
      /\ \A i \in 1 .. Len(Append(q, e)) :
           \/ i \in 1 .. Len(q) /\ Append(q, e)[i] = q[i]
           \/ i = Len(q) + 1 /\ Append(q, e)[i] = e
  OBVIOUS
<1>. QED  BY Zenon, <1>1 DEF Has, Once

\* A handler posts at most one completion behind the queue.
LEMMA ConcatAppend ==
  ASSUME NEW S, NEW q \in Seq(S), NEW e \in S
  PROVE  q \o <<e>> = Append(q, e) /\ q \o <<>> = q
OBVIOUS

\* What the handlers find: the completion they handle is due, so that the
\* client it names has nothing on its way.
LEMMA DueClient ==
  ASSUME IInv, FirstPhase, TurnInv, cq # <<>>, NEW fd \in Fds, Due(Head(cq), fd)
  PROVE  \E c \in Clients : /\ fdtab[fd] = c /\ TurnOf(fd, c)
                            /\ s2c[c] = <<>> /\ c2s[c] = <<>>
                            /\ beffer_sended_N[fd] = Len(msg_arr[c])
                            /\ ~Has(Tail(cq), fd)
<1>1. Has(cq, fd) /\ ~Has(Tail(cq), fd)
  BY Zenon, TailDue, FirstPhaseFacts DEF TurnInv
<1>2. PICK c \in Clients : fdtab[fd] = c
  BY <1>1, FirstPhaseFacts DEF TurnInv
<1>3. TurnOf(fd, c)
  BY <1>2 DEF TurnInv
<1>. QED  BY Zenon, <1>1, <1>2, <1>3 DEF TurnOf

\* A step that does not concern the connection of c.
LEMMA TurnKept ==
  ASSUME NEW fd \in Fds, NEW c \in Clients, TurnOf(fd, c),
         \A i \in 1 .. Len(recvs'[c]) : recvs'[c][i] = [buf |-> fd, ud |-> Answer(fd)],
         Has(cq', fd) => Has(cq, fd),
         s2c'[c] = s2c[c], c2s'[c] = c2s[c], msg_arr'[c] = msg_arr[c],
         beffer_sended_N'[fd] = beffer_sended_N[fd]
  PROVE  TurnOf(fd, c)'
BY Zenon DEF TurnOf

\* A step that concerns the connections F: those it gives a turn of their own,
\* all others it leaves alone.
LEMMA TurnStep ==
  ASSUME IInv, FirstPhase, TurnInv, NEW F \in SUBSET Fds,
         \A f \in Fds \ F : fdtab'[f] = fdtab[f],
         \A f, h \in Fds : fdtab'[f] = fdtab'[h] /\ fdtab'[f] # NoClient => f = h,
         \A f \in F : /\ fdtab[f] \in {NoClient, fdtab'[f]}
                      /\ \E c \in Clients : fdtab'[f] = c /\ TurnOf(f, c)',
         \A f \in Fds : Once(cq', f),
         \A f \in Fds \ F : /\ Has(cq', f) => Has(cq, f)
                            /\ beffer_sended_N'[f] = beffer_sended_N[f],
         \A c \in Clients : (\A f \in F : fdtab'[f] # c) =>
           /\ recvs'[c] = recvs[c] /\ s2c'[c] = s2c[c]
           /\ c2s'[c] = c2s[c] /\ msg_arr'[c] = msg_arr[c]
  PROVE  TurnInv'
<1>0. \A c \in Clients : c # NoClient
  BY SocketsAssumption
<1>1. \A f \in Fds : fdtab'[f] = NoClient => beffer_sended_N'[f] = 0 /\ ~Has(cq', f)
  BY Zenon, <1>0 DEF TurnInv
<1>2. \A c \in Clients : (\A f \in Fds : fdtab'[f] # c) => recvs'[c] = <<>> /\ c2s'[c] = <<>>
  <2>. SUFFICES ASSUME NEW c \in Clients, \A f \in Fds : fdtab'[f] # c
                PROVE  recvs'[c] = <<>> /\ c2s'[c] = <<>>
    OBVIOUS
  <2>1. \A f \in Fds : fdtab[f] # c
    BY Zenon, <1>0
  <2>. QED  BY Zenon, <2>1 DEF TurnInv
<1>3. ASSUME NEW f \in Fds, NEW c \in Clients, fdtab'[f] = c  PROVE TurnOf(f, c)'
  <2>1. CASE f \in F
    BY Zenon, <1>3, <2>1
  <2>2. CASE f \notin F
    <3>1. TurnOf(f, c) /\ \A h \in F : fdtab'[h] # c
      BY Zenon, <1>0, <1>3, <2>2 DEF TurnInv
    <3>2. \A i \in 1 .. Len(recvs'[c]) : recvs'[c][i] = [buf |-> f, ud |-> Answer(f)]
      BY Zenon, <3>1 DEF TurnOf
    <3>. QED  BY Zenon, <2>2, <3>1, <3>2, TurnKept
  <2>. QED  BY <2>1, <2>2
<1>. QED  BY Zenon, <1>1, <1>2, <1>3 DEF TurnInv

\* A step that concerns one connection.
LEMMA OwnTurn ==
  ASSUME IInv, FirstPhase, TurnInv, NEW fd \in Fds, NEW c \in Clients, fdtab[fd] = c,
         UNCHANGED fdtab, TurnOf(fd, c)',
         \A f \in Fds : Once(cq', f),
         \A f \in Fds : f # fd => /\ Has(cq', f) => Has(cq, f)
                                  /\ beffer_sended_N'[f] = beffer_sended_N[f],
         \A d \in Clients : d # c => /\ recvs'[d] = recvs[d] /\ s2c'[d] = s2c[d]
                                     /\ c2s'[d] = c2s[d] /\ msg_arr'[d] = msg_arr[d]
  PROVE  TurnInv'
<1>1. \A f, h \in Fds : fdtab'[f] = fdtab'[h] /\ fdtab'[f] # NoClient => f = h
  BY Zenon, FirstPhaseFacts DEF FirstPhaseInv, DescriptorInv
<1>2. PICK F \in SUBSET Fds : F = {fd}
  OBVIOUS
<1>3. /\ \A f \in Fds \ F : f # fd
      /\ \A f \in F : /\ fdtab[f] \in {NoClient, fdtab'[f]}
                      /\ \E d \in Clients : fdtab'[f] = d /\ TurnOf(f, d)'
      /\ \A d \in Clients : (\A f \in F : fdtab'[f] # d) => d # c
  BY Zenon, <1>2
<1>4. /\ \A f \in Fds \ F : fdtab'[f] = fdtab[f]
      /\ \A f \in Fds \ F : /\ Has(cq', f) => Has(cq, f)
                            /\ beffer_sended_N'[f] = beffer_sended_N[f]
  BY Zenon, <1>3
<1>5. \A d \in Clients : (\A f \in F : fdtab'[f] # d) =>
        /\ recvs'[d] = recvs[d] /\ s2c'[d] = s2c[d]
        /\ c2s'[d] = c2s[d] /\ msg_arr'[d] = msg_arr[d]
  BY Zenon, <1>3
<1>. QED  BY Zenon, <1>1, <1>3, <1>4, <1>5, TurnStep

\* A step that changes no connection and gives no one a turn.
LEMMA QuietTurn ==
  ASSUME IInv, FirstPhase, TurnInv, UNCHANGED <<fdtab, recvs, s2c, c2s, msg_arr, beffer_sended_N>>,
         \A f \in Fds : Once(cq', f) /\ (Has(cq', f) => Has(cq, f))
  PROVE  TurnInv'
<1>1. \A f, h \in Fds : fdtab'[f] = fdtab'[h] /\ fdtab'[f] # NoClient => f = h
  BY Zenon, FirstPhaseFacts DEF FirstPhaseInv, DescriptorInv
<1>2. PICK F \in SUBSET Fds : F = {}
  BY Zenon
<1>. QED  BY Zenon, <1>1, <1>2, TurnStep

\* A handler takes its completion off the queue and posts one, if any, that is
\* due to nobody.
LEMMA NextTurn ==
  ASSUME IInv, FirstPhase, TurnInv, cq # <<>>, NEW t, cq' = Tail(cq) \o t,
         t = <<>> \/ \E e \in Cqes : t = <<e>> /\ \A f \in Fds : ~Due(e, f)
  PROVE  \A f \in Fds : /\ Once(cq', f)
                        /\ Has(cq', f) => Has(cq, f)
                        /\ Due(Head(cq), f) => ~Has(cq', f)
<1>1. PICK q : q = Tail(cq)
  BY Zenon
<1>2. /\ q \in Seq(Cqes)
      /\ \A f \in Fds : /\ Once(q, f) /\ (Has(q, f) => Has(cq, f))
                        /\ Due(Head(cq), f) => ~Has(q, f)
  BY Zenon, <1>1, TailDue, FirstPhaseFacts DEF TurnInv
<1>3. CASE t = <<>>
  <2>1. cq' = q
    BY <1>1, <1>2, <1>3
  <2>. QED  BY <1>2, <2>1
<1>4. CASE \E e \in Cqes : t = <<e>> /\ \A f \in Fds : ~Due(e, f)
  <2>1. PICK e \in Cqes : t = <<e>> /\ \A f \in Fds : ~Due(e, f)
    BY Zenon, <1>4
  <2>2. cq' = Append(q, e)
    BY <1>1, <1>2, <2>1, ConcatAppend
  <2>3. PICK r : r = Append(q, e)
    BY Zenon
  <2>4. \A f \in Fds : /\ Once(r, f) /\ (Has(r, f) => Has(cq, f))
                       /\ Due(Head(cq), f) => ~Has(r, f)
    BY <1>2, <2>1, <2>3, AppendDue
  <2>. QED  BY <2>2, <2>3, <2>4
<1>. QED  BY <1>3, <1>4

\* The server sends to a client whose turn it has taken.
LEMMA SendTurn ==
  ASSUME IInv, FirstPhase, TurnInv, cq # <<>>, NEW fd \in Fds, Due(Head(cq), fd),
         NEW m \in Messages, NEW k \in Nat, SendFromBuffer(fd, m),
         beffer_sended_N' = [beffer_sended_N EXCEPT ![fd] = k],
         k = IF m.status = "MESSAGE_SENDED" THEN beffer_sended_N[fd] + 1 ELSE beffer_sended_N[fd],
         UNCHANGED <<recvs, fdtab, c2s, msg_arr>>
  PROVE  TurnInv'
<1>1. PICK c \in Clients : /\ fdtab[fd] = c /\ TurnOf(fd, c)
                           /\ s2c[c] = <<>> /\ c2s[c] = <<>>
                           /\ beffer_sended_N[fd] = Len(msg_arr[c])
  BY Zenon, DueClient
<1>2. \A f \in Fds : /\ Once(cq', f) /\ (Has(cq', f) => Has(cq, f))
                     /\ Due(Head(cq), f) => ~Has(cq', f)
  <2>1. PICK e \in Cqes : e = Cqe(make_request_data(fd, "READ_RESPONSE"), 1)
    BY DEF Cqe, Cqes, ClientData, make_request_data
  <2>2. \A f \in Fds : ~Due(e, f)
    BY Zenon, <2>1, DueOf
  <2>3. cq' = Tail(cq) \o <<e>>
    BY <2>1 DEF SendFromBuffer, Submit
  <2>. QED  BY Zenon, <2>2, <2>3, NextTurn
<1>3. /\ \A d \in Clients : fdtab[fd] # d => s2c'[d] = s2c[d]
      /\ \A j \in 1 .. Len(s2c'[c]) : s2c'[c][j] = m
  <2>1. s2c' = Sent(fd, m) /\ TypeOK
    BY Zenon, FirstPhaseFacts DEF SendFromBuffer
  <2>2. \A j \in 1 .. Len(s2c[c]) : FALSE
    BY Zenon, <1>1, NoElements
  <2>3. \A d \in Clients : fdtab[fd] # d => s2c'[d] = s2c[d]
    BY Zenon, <2>1, SentElements
  <2>4. \A j \in 1 .. Len(s2c'[c]) : s2c'[c][j] = m
    BY Zenon, <2>1, <2>2, SentElements
  <2>. QED  BY Zenon, <2>3, <2>4
<1>4. /\ beffer_sended_N'[fd] = k
      /\ \A f \in Fds : f # fd => beffer_sended_N'[f] = beffer_sended_N[f]
  BY FirstPhaseFacts
<1>5. /\ k <= Len(msg_arr[c]) + 1
      /\ m.status # "MESSAGE_SENDED" => k = Len(msg_arr[c])
  BY <1>1, FirstPhaseFacts
<1>6. TurnOf(fd, c)'
  BY Zenon, <1>1, <1>2, <1>3, <1>4, <1>5 DEF TurnOf
<1>. QED  BY Zenon, <1>1, <1>2, <1>3, <1>4, <1>6, OwnTurn

\* A descriptor given to a new client finds nothing of an earlier one.
LEMMA FreshTurn ==
  ASSUME IInv, FirstPhase, TurnInv, NEW g \in Fds, NEW b \in Clients,
         fdtab[g] = NoClient, \A f \in Fds : fdtab[f] # b,
         s2c'[b] = s2c[b], UNCHANGED <<recvs, c2s, msg_arr, beffer_sended_N>>
  PROVE  TurnOf(g, b)' /\ ~Has(cq, g)
<1>1. /\ recvs[b] = <<>> /\ c2s[b] = <<>> /\ beffer_sended_N[g] = 0 /\ ~Has(cq, g)
      /\ msg_arr[b] = <<>> /\ s2c[b] = <<>>
  BY Zenon, FirstPhaseFacts DEF TurnInv, FirstPhaseInv, ClientInv
<1>2. /\ \A i \in 1 .. Len(recvs[b]) : FALSE
      /\ \A i \in 1 .. Len(s2c[b]) : FALSE
      /\ Len(msg_arr[b]) = 0 /\ beffer_sended_N[g] = Len(msg_arr[b])
      /\ beffer_sended_N[g] <= Len(msg_arr[b]) + 1
  BY <1>1
<1>3. PICK N : N = Len(msg_arr[b]) + 1
  BY Zenon
<1>. QED  BY Zenon, <1>1, <1>2, <1>3 DEF TurnOf
=============================================================================
