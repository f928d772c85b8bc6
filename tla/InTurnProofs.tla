---------------------------- MODULE InTurnProofs ----------------------------
(***************************************************************************)
(* Clients served one at a time (OneAtATime): the proof that every one of  *)
(* them gets the block the server hashes, in order, and that the server    *)
(* closes no connection but a served client's. The invariant is            *)
(* OneAtATimeInv of MessageExchange, which says at which of the five       *)
(* stages of the exchange the one connected client is.                     *)
(***************************************************************************)
EXTENDS DistributionProofs, FiniteSetTheorems

\* A queue of one element.
LEMMA Single ==
  ASSUME NEW e
  PROVE  /\ <<e>> # <<>> /\ Head(<<e>>) = e /\ Last(<<e>>) = e /\ Len(<<e>>) = 1
         /\ Tail(<<e>>) = <<>>
         /\ Append(<<>>, e) = <<e>> /\ <<>> \o <<e>> = <<e>> /\ <<>> \o <<>> = <<>>
         /\ RemoveAt(<<e>>, 1) = <<>>
  BY DEF Last, RemoveAt

\* A queue of two.
LEMMA Pair ==
  ASSUME NEW d, NEW e  PROVE Append(<<d>>, e) = <<d, e>>
<1>. DEFINE s == Append(<<d>>, e)
            t == <<d, e>>
<1>1. s \in Seq({d, e}) /\ t \in Seq({d, e})
  OBVIOUS
<1>2. Len(s) = 2 /\ Len(t) = 2 /\ s[1] = d /\ s[2] = e /\ t[1] = d /\ t[2] = e
  OBVIOUS
<1>3. s = [i \in 1 .. 2 |-> s[i]] /\ t = [i \in 1 .. 2 |-> t[i]]
  BY <1>1, <1>2
<1>4. \A i \in 1 .. 2 : s[i] = t[i]
  BY <1>2
<1>. QED  BY Zenon, <1>3, <1>4

\* A sequence of length one has no element but its last.
LEMMA OnlyElement ==
  ASSUME NEW S, NEW s \in Seq(S), Len(s) = 1
  PROVE  s # <<>> /\ Last(s) \in S /\ \A i \in 1 .. Len(s) : s[i] = Last(s)
  BY DEF Last

\* Descriptor 1 is a descriptor, and the lowest one that is free if all are.
LEMMA FirstDescriptor ==
  /\ 1 \in Fds /\ 1 # NoFd
  /\ fdtab[1] = NoClient => FreeFds # {} /\ LowestFreeFd = 1
<1>1. 1 \in Fds /\ 1 # NoFd /\ \A fd \in Fds : 1 <= fd /\ (fd <= 1 => fd = 1)
  BY SocketsAssumption DEF Fds, NoFd
<1>2. ASSUME fdtab[1] = NoClient
      PROVE  FreeFds # {} /\ LowestFreeFd = 1
  <2>1. 1 \in FreeFds /\ \A g \in FreeFds : 1 <= g
    BY <1>1, <1>2 DEF FreeFds
  <2>2. LowestFreeFd \in FreeFds /\ \A g \in FreeFds : LowestFreeFd <= g
    BY <2>1 DEF LowestFreeFd
  <2>. QED  BY <1>1, <2>1, <2>2 DEF FreeFds
<1>. QED  BY <1>1, <1>2

\* Only one client is active, and it is the one with descriptor 1.
LEMMA ActiveIsServed ==
  ASSUME TypeOK, OneAtATimeInv, NEW c \in Clients, pc[c] = "loop" \/ fdtab[1] = c
  PROVE  fdtab[1] = c /\ pc[c] # "start" /\ c \notin shut /\ c \notin gone
<1>1. Holds(c) /\ gone = {}
  BY Zenon DEF OneAtATimeInv, LineInv
<1>2. c \in Active
  <2>1. pc[c] = "loop" => c \notin shut
    BY <1>1 DEF Holds
  <2>2. CASE pc[c] = "loop"
    BY <1>1, <2>1, <2>2 DEF Active
  <2>. QED  BY Zenon, <1>1, <2>2 DEF Holds
<1>. QED  BY Zenon, <1>1, <1>2 DEF Active, Holds

\* The completions of an exchange with one client are told apart by their flag.
LEMMA EventData ==
  /\ Cqe(AcceptData, 1).ud.flag = "FLAG_ACCEPT" /\ Cqe(AcceptData, 1).res = 1
  /\ \A f, r : /\ Cqe(make_request_data(1, f), r).ud.flag = f
               /\ Cqe(make_request_data(1, f), r).ud.fd = 1
               /\ Cqe(make_request_data(1, f), r).res = r
  /\ Answer(1) = make_request_data(1, "TEST_RESPONSE")
  BY DEF Cqe, AcceptData, make_request_data, Answer

\* A completion is the only one, and is of the client with descriptor 1: its
\* flag says at which stage the exchange is.
LEMMA EventStage ==
  ASSUME TypeOK, OneAtATimeInv, cq # <<>>
  PROVE  \E c \in Clients :
           /\ fdtab[1] = c /\ Tail(cq) = <<>>
           /\ \/ /\ Head(cq).ud.flag = "FLAG_ACCEPT" /\ Head(cq).res = 1
                 /\ Accepted(c)
              \/ /\ Head(cq).ud.flag = "READ_RESPONSE" /\ client_fd = 1
                 /\ InTurn(c) /\ (Spoken(c) \/ Answered(c)) /\ recvs[c] = <<>>
              \/ /\ Head(cq).ud.flag = "TEST_RESPONSE" /\ client_fd = 1 /\ Head(cq).res = 1
                 /\ InTurn(c) /\ Heard(c)
              \/ /\ Head(cq).ud.flag = "FLAG_CLOSE_CONNECTION" /\ client_fd = 1
                 /\ Closing(c) /\ accepts = <<AcceptData>> /\ recvs[c] = <<>>
<1>1. PICK c \in Clients : fdtab[1] = c
  <2>1. fdtab[1] \in Clients \cup {NoClient}
    BY Zenon, FirstDescriptor DEF TypeOK, KernelTypeOK
  <2>. QED  BY Zenon, <2>1 DEF OneAtATimeInv, LineInv
<1>2. Accepted(c) \/ InTurn(c) \/ Closing(c)
  BY Zenon, <1>1 DEF OneAtATimeInv
<1>3. CASE Accepted(c)
  <2>1. cq = <<Cqe(AcceptData, 1)>>
    BY Zenon, <1>3 DEF Accepted
  <2>2. Head(cq) = Cqe(AcceptData, 1) /\ Tail(cq) = <<>>
    BY Zenon, <2>1, Single
  <2>3. Head(cq).ud.flag = "FLAG_ACCEPT" /\ Head(cq).res = 1
    BY <2>2, EventData DEF client_fd
  <2>. QED  BY Zenon, <1>1, <1>3, <2>2, <2>3
<1>4. CASE InTurn(c) /\ (Spoken(c) \/ Answered(c))
  <2>1. cq = <<Cqe(make_request_data(1, "READ_RESPONSE"), 1)>> /\ recvs[c] = <<>>
    BY Zenon, <1>4 DEF Spoken, Answered, Listening
  <2>2. Head(cq) = Cqe(make_request_data(1, "READ_RESPONSE"), 1) /\ Tail(cq) = <<>>
    BY Zenon, <2>1, Single
  <2>3. Head(cq).ud.flag = "READ_RESPONSE" /\ client_fd = 1
    BY <2>2, EventData DEF client_fd
  <2>. QED  BY Zenon, <1>1, <1>4, <2>1, <2>2, <2>3
<1>5. CASE InTurn(c) /\ Heard(c)
  <2>1. cq = <<Cqe(make_request_data(1, "TEST_RESPONSE"), 1)>>
    BY Zenon, <1>5 DEF Heard, Answer
  <2>2. Head(cq) = Cqe(make_request_data(1, "TEST_RESPONSE"), 1) /\ Tail(cq) = <<>>
    BY Zenon, <2>1, Single
  <2>3. Head(cq).ud.flag = "TEST_RESPONSE" /\ client_fd = 1 /\ Head(cq).res = 1
    BY <2>2, EventData DEF client_fd
  <2>. QED  BY Zenon, <1>1, <1>5, <2>1, <2>2, <2>3
<1>6. CASE Closing(c)
  <2>1. /\ cq = <<Cqe(make_request_data(1, "FLAG_CLOSE_CONNECTION"), 1)>>
        /\ accepts = <<AcceptData>> /\ recvs[c] = <<>>
    BY Zenon, <1>6 DEF Closing
  <2>2. Head(cq) = Cqe(make_request_data(1, "FLAG_CLOSE_CONNECTION"), 1) /\ Tail(cq) = <<>>
    BY Zenon, <2>1, Single
  <2>3. Head(cq).ud.flag = "FLAG_CLOSE_CONNECTION" /\ client_fd = 1
    BY <2>2, EventData DEF client_fd
  <2>. QED  BY Zenon, <1>1, <1>6, <2>1, <2>2, <2>3
<1>. QED  BY Zenon, <1>2, <1>3, <1>4, <1>5, <1>6 DEF InTurn

\* A block has a slot for each of its messages.
LEMMA BlockFits ==
  ASSUME OneAtATime
  PROVE  /\ BLOCKSIZE \in Nat /\ N_MESSAGES = BLOCKSIZE
         /\ \A i \in Nat : i < BLOCKSIZE => i \in Slots
         /\ \A n \in Nat : \A i \in 1 .. n : n <= BLOCKSIZE => i - 1 \in Slots
  BY ServerAssumption, ClientAssumption, CircBufAssumption DEF OneAtATime, Slots

\* What a client holds stays the block as far as it has got.
LEMMA HeldIsKept ==
  ASSUME OneAtATime, IInv, IInv', [Next]_vars, NEW c \in Clients, Holds(c),
         NEW i \in 1 .. Len(msg_arr[c])
  PROVE  msg_arr[c][i] # NULL /\ msg_arr[c][i] = CBUF'.buffer[i - 1]
<1>1. PICK k \in Slots : k = i - 1
  <2>1. Len(msg_arr[c]) \in Nat /\ Len(msg_arr[c]) <= BLOCKSIZE
    BY DEF Holds, IInv, TypeOK, ClientTypeOK
  <2>. QED  BY Zenon, <2>1, BlockFits
<1>2. CBUF.buffer[k] = msg_arr[c][i] /\ CBUF.buffer[k] # NULL
  BY Zenon, <1>1 DEF Holds
<1>. QED  BY Zenon, <1>1, <1>2, MessagesKept

\* A step that changes nothing of client d, and does not give it descriptor 1,
\* keeps what the invariant says of d.
LEMMA OtherHolds ==
  ASSUME OneAtATime, IInv, IInv', [Next]_vars, NEW d \in Clients, Holds(d),
         fdtab[1] # d, fdtab'[1] # d, gone = {}, gone' = {},
         pc'[d] = pc[d], msg_arr'[d] = msg_arr[d], block'[d] = block[d],
         s2c'[d] = s2c[d], recvs'[d] = recvs[d], c2s'[d] = c2s[d],
         d \in shut' <=> d \in shut
  PROVE  Holds(d)'
<1>1. d \notin Active
  BY Zenon DEF Holds
<1>2. d \notin Active'
  BY Zenon, <1>1 DEF Active
<1>3. \A i \in 1 .. Len(msg_arr'[d]) : msg_arr'[d][i] # NULL /\ msg_arr'[d][i] = CBUF'.buffer[i - 1]
  BY Zenon, HeldIsKept
<1>4. Silent(d)'
  BY Zenon DEF Holds, Silent
<1>. QED  BY <1>2, <1>3, <1>4 DEF Holds

\* The step changes nothing of the clients other than c.
OnlyConcerns(c) ==
  \A d \in Clients : d # c =>
    /\ pc'[d] = pc[d] /\ msg_arr'[d] = msg_arr[d] /\ block'[d] = block[d]
    /\ s2c'[d] = s2c[d] /\ recvs'[d] = recvs[d] /\ c2s'[d] = c2s[d]
    /\ d \in shut' <=> d \in shut

\* A step in the exchange with c keeps the invariant if it keeps what that says
\* of c and of the line.
LEMMA StepWith ==
  ASSUME OneAtATime, IInv, IInv', [Next]_vars, OneAtATimeInv, NEW c \in Clients,
         fdtab[1] \in {c, NoClient}, fdtab'[1] \in {c, NoClient}, OnlyConcerns(c),
         LineInv', Holds(c)',
         fdtab'[1] = c => Accepted(c)' \/ InTurn(c)' \/ Closing(c)'
  PROVE  OneAtATimeInv'
<1>1. NoClient \notin Clients
  BY SocketsAssumption
<1>2. gone = {} /\ gone' = {}
  BY Zenon DEF OneAtATimeInv, LineInv
<1>3. ASSUME NEW d \in Clients, d # c
      PROVE  Holds(d)' /\ fdtab'[1] # d
  <2>1. fdtab[1] # d /\ fdtab'[1] # d /\ Holds(d)
    BY <1>1, <1>3 DEF OneAtATimeInv
  <2>. QED  BY Zenon, <1>2, <1>3, <2>1, OtherHolds DEF OnlyConcerns
<1>. QED  BY Zenon, <1>3 DEF OneAtATimeInv

\* A step of the exchange with c that leaves c's thread and descriptor alone.
LEMMA HoldsStill ==
  ASSUME OneAtATime, IInv, IInv', [Next]_vars, OneAtATimeInv, NEW c \in Clients,
         fdtab[1] = c, UNCHANGED <<pc, msg_arr, block, fdtab, shut, gone>>
  PROVE  Holds(c)'
<1>1. Holds(c) /\ pc[c] # "start"
  BY Zenon, ActiveIsServed DEF OneAtATimeInv, IInv
<1>2. \A i \in 1 .. Len(msg_arr'[c]) : msg_arr'[c][i] # NULL /\ msg_arr'[c][i] = CBUF'.buffer[i - 1]
  BY Zenon, <1>1, HeldIsKept
<1>3. c \in Active' <=> fdtab'[1] = c
  BY Zenon, <1>1 DEF Holds, Active
<1>. QED  BY <1>1, <1>2, <1>3 DEF Holds

\* An operation on descriptor 1, or on none.
OnFirst(op) == op.op \in {"RECV", "SEND"} => op.fd = 1

\* The line is kept by what the handlers submit.
LEMMA LineStill ==
  ASSUME TypeOK, OneAtATimeInv, NEW c \in Clients, fdtab[1] = c,
         UNCHANGED <<fdtab, gone, backlog>>,
         \/ sqes' = sqes
         \/ \E i, op : sqes' = [sqes EXCEPT ![i] = op] /\ OnFirst(op)
         \/ \E i, j, op1, op2 : /\ sqes' = [sqes EXCEPT ![i] = op1, ![j] = op2]
                                /\ OnFirst(op1) /\ OnFirst(op2)
  PROVE  LineInv'
<1>1. fdtab[1] # NoClient
  BY SocketsAssumption
<1>2. /\ sqes \in [0 .. SQ_ENTRIES - 1 -> Ops]
      /\ \A i \in 0 .. SQ_ENTRIES - 1 : OnFirst(sqes[i])
  BY Zenon DEF TypeOK, KernelTypeOK, OneAtATimeInv, LineInv, OnFirst
<1>3. \A i \in 0 .. SQ_ENTRIES - 1 : OnFirst(sqes'[i])
  <2>1. CASE \E i, op : sqes' = [sqes EXCEPT ![i] = op] /\ OnFirst(op)
    BY Zenon, <1>2, <2>1
  <2>2. CASE \E i, j, op1, op2 : /\ sqes' = [sqes EXCEPT ![i] = op1, ![j] = op2]
                                 /\ OnFirst(op1) /\ OnFirst(op2)
    BY <1>2, <2>2
  <2>. QED  BY Zenon, <1>2, <2>1, <2>2
<1>. QED  BY Zenon, <1>1, <1>3 DEF OneAtATimeInv, LineInv, OnFirst

\* What the server sends on descriptor 1 to a client that has read all reaches it.
LEMMA SentToServed ==
  ASSUME TypeOK, OneAtATimeInv, NEW c \in Clients, fdtab[1] = c, s2c[c] = <<>>, NEW m
  PROVE  Sent(1, m) = [s2c EXCEPT ![c] = <<m>>]
<1>1. /\ fdtab[1] # NoClient /\ fdtab[1] \notin gone
      /\ Len(s2c[fdtab[1]]) < SOCKBUF
  BY SocketsAssumption DEF OneAtATimeInv, LineInv
<1>2. Append(s2c[c], m) = <<m>>
  BY Zenon, Single
<1>3. [s2c EXCEPT ![fdtab[1]] = Append(s2c[fdtab[1]], m)] = [s2c EXCEPT ![c] = <<m>>]
  BY Zenon, <1>2
<1>. QED  BY Zenon, <1>1, <1>3 DEF Sent

\* Once it has sent, the server listens to the client.
LEMMA SendStep ==
  ASSUME OneAtATime, IInv, IInv', [Next]_vars, OneAtATimeInv, NEW c \in Clients,
         fdtab[1] = c, InTurn(c), Heard(c), Tail(cq) = <<>>, NEW m,
         SendFromBuffer(1, m), Tells(m, c)',
         UNCHANGED <<accepts, recvs, backlog, fdtab, shut, gone, c2s, current_client_fd, clientVars>>
  PROVE  OneAtATimeInv'
<1>1. s2c' = [s2c EXCEPT ![c] = <<m>>] /\ s2c'[c] = <<m>>
  <2>1. s2c' = [s2c EXCEPT ![c] = <<m>>]
    BY Zenon, SentToServed DEF SendFromBuffer, Heard, IInv
  <2>. QED  BY Zenon, <2>1 DEF IInv, TypeOK, KernelTypeOK
<1>2. LineInv'
  <2>1. OnFirst(SendOp(1, Length(m)))
    BY DEF OnFirst, SendOp
  <2>. QED  BY Zenon, <2>1, LineStill DEF SendFromBuffer, Submit, IInv
<1>3. Holds(c)'
  BY Zenon, HoldsStill DEF clientVars
<1>4. cq' = <<Cqe(make_request_data(1, "READ_RESPONSE"), 1)>>
  BY Zenon, Single DEF SendFromBuffer, Submit
<1>5. InTurn(c)'
  <2>1. Len(s2c'[c]) = 1 /\ Last(s2c'[c]) = m
    BY Zenon, <1>1, Single
  <2>2. Spoken(c)'
    BY Zenon, <1>4, <2>1 DEF Spoken, Listening, Heard, Silent
  <2>. QED  BY Zenon, <2>2 DEF InTurn
<1>6. OnlyConcerns(c)
  BY Zenon, <1>1 DEF OnlyConcerns, clientVars, IInv, TypeOK, KernelTypeOK
<1>. QED  BY Zenon, <1>2, <1>3, <1>5, <1>6, StepWith

\* OnAccept asks the client that has come.
LEMMA AcceptInTurn ==
  ASSUME OneAtATime, IInv, IInv', [Next]_vars, OneAtATimeInv, OnAccept, UNCHANGED clientVars
  PROVE  OneAtATimeInv'
<1>1. PICK c \in Clients : /\ fdtab[1] = c /\ Tail(cq) = <<>> /\ Head(cq).res = 1 /\ Accepted(c)
  BY EventStage DEF OnAccept, NextEvent, IInv
<1>. DEFINE ask == Status("ASK_NEED_MSG")
<1>2. backlog = <<>> /\ gone = {}
  BY Zenon DEF OneAtATimeInv, LineInv
<1>3. /\ sqes' = [sqes EXCEPT ![sqTail] = AcceptOp, ![SqSlot(1)] = SendOp(1, "status")]
      /\ accepts' = Append(accepts, AcceptData) /\ UNCHANGED <<fdtab, backlog>>
      /\ current_client_fd' = 1
      /\ cq' = Tail(cq) \o <<>> \o <<Cqe(make_request_data(1, "READ_RESPONSE"), 1)>>
      /\ s2c' = Sent(1, ask)
      /\ UNCHANGED <<recvs, shut, gone, c2s, beffer_sended_N>>
  BY Zenon, <1>1, <1>2 DEF OnAccept, ArmAccept, AcceptCqes
<1>4. s2c' = [s2c EXCEPT ![c] = <<ask>>] /\ s2c'[c] = <<ask>>
  <2>1. s2c' = [s2c EXCEPT ![c] = <<ask>>]
    BY Zenon, <1>1, <1>3, SentToServed DEF Accepted, IInv
  <2>. QED  BY Zenon, <2>1 DEF IInv, TypeOK, KernelTypeOK
<1>5. /\ cq' = <<Cqe(make_request_data(1, "READ_RESPONSE"), 1)>>
      /\ accepts' = <<AcceptData>>
  <2>1. <<>> \o <<>> = <<>>
    OBVIOUS
  <2>. QED  BY Zenon, <1>1, <1>3, <2>1, Single DEF Accepted
<1>6. LineInv'
  <2>1. OnFirst(SendOp(1, "status")) /\ OnFirst(AcceptOp)
    BY DEF OnFirst, SendOp, AcceptOp
  <2>. QED  BY Zenon, <1>1, <1>3, <2>1, LineStill DEF IInv
<1>7. Holds(c)'
  BY Zenon, <1>1, <1>3, HoldsStill DEF clientVars
<1>8. InTurn(c)'
  <2>1. Len(s2c'[c]) = 1 /\ Last(s2c'[c]) = ask
    BY Zenon, <1>4, Single
  <2>2. Tells(ask, c)'
    BY <1>1, <1>3 DEF Accepted, Tells, Status, Told, clientVars
  <2>3. Spoken(c)'
    BY Zenon, <1>1, <1>3, <1>5, <2>1, <2>2 DEF Spoken, Listening, Accepted, Silent
  <2>. QED  BY Zenon, <1>3, <1>5, <2>3 DEF InTurn
<1>9. OnlyConcerns(c)
  BY Zenon, <1>3, <1>4 DEF OnlyConcerns, clientVars, IInv, TypeOK, KernelTypeOK
<1>. QED  BY Zenon, <1>1, <1>3, <1>6, <1>7, <1>8, <1>9, StepWith

\* OnReadResponse arms the recv for the answer of the client it has sent to.
LEMMA ReadResponseInTurn ==
  ASSUME OneAtATime, IInv, IInv', [Next]_vars, OneAtATimeInv, OnReadResponse, UNCHANGED clientVars
  PROVE  OneAtATimeInv'
<1>1. PICK c \in Clients : /\ fdtab[1] = c /\ Tail(cq) = <<>> /\ client_fd = 1
                           /\ InTurn(c) /\ (Spoken(c) \/ Answered(c)) /\ recvs[c] = <<>>
  BY EventStage DEF OnReadResponse, NextEvent, IInv
<1>2. fdtab[1] # NoClient
  BY <1>1, SocketsAssumption
<1>3. /\ sqes' = [sqes EXCEPT ![sqTail] = RecvOp(1)]
      /\ cq' = Tail(cq) \o <<>>
      /\ recvs' = [recvs EXCEPT ![c] = Append(recvs[c], [buf |-> 1, ud |-> Answer(1)])]
      /\ UNCHANGED <<accepts, backlog, fdtab, shut, gone, s2c, c2s, serverVars>>
  BY Zenon, <1>1, <1>2 DEF OnReadResponse, Submit, ArmRecv, RecvCqes, Answer
<1>4. cq' = <<>> /\ recvs'[c] = <<[buf |-> 1, ud |-> Answer(1)]>>
  <2>1. <<>> \o <<>> = <<>>
    OBVIOUS
  <2>2. recvs'[c] = Append(recvs[c], [buf |-> 1, ud |-> Answer(1)])
    BY Zenon, <1>3 DEF IInv, TypeOK, KernelTypeOK
  <2>. QED  BY Zenon, <1>1, <1>3, <2>1, <2>2, Single
<1>5. LineInv'
  <2>1. OnFirst(RecvOp(1))
    BY DEF OnFirst, RecvOp
  <2>. QED  BY Zenon, <1>1, <1>3, <2>1, LineStill DEF IInv
<1>6. Holds(c)'
  BY Zenon, <1>1, <1>3, HoldsStill DEF clientVars
<1>7. InTurn(c)'
  <2>1. Listening(c)'
    BY Zenon, <1>4 DEF Listening
  <2>2. Spoken(c) => Spoken(c)'
    BY Zenon, <1>3, <2>1 DEF Spoken, Tells, Told, serverVars, clientVars
  <2>3. Answered(c) => Answered(c)'
    BY Zenon, <1>3, <2>1 DEF Answered, Answers, Told, serverVars, clientVars
  <2>. QED  BY Zenon, <1>1, <1>3, <2>2, <2>3 DEF InTurn, serverVars
<1>8. OnlyConcerns(c)
  BY Zenon, <1>3 DEF OnlyConcerns, clientVars, IInv, TypeOK, KernelTypeOK
<1>. QED  BY Zenon, <1>1, <1>3, <1>5, <1>6, <1>7, <1>8, StepWith

\* OnClose closes the connection of the client that has its block.
LEMMA CloseInTurn ==
  ASSUME OneAtATime, IInv, IInv', [Next]_vars, OneAtATimeInv, OnClose, UNCHANGED clientVars
  PROVE  OneAtATimeInv'
<1>1. PICK c \in Clients : /\ fdtab[1] = c /\ Tail(cq) = <<>> /\ client_fd = 1
                           /\ Closing(c) /\ accepts = <<AcceptData>> /\ recvs[c] = <<>>
  BY EventStage DEF OnClose, NextEvent, IInv
<1>2. 1 \in Fds /\ c # NoClient /\ current_client_fd = 1
  BY Zenon, <1>1, FirstDescriptor, SocketsAssumption DEF Closing
<1>3. /\ cq' = <<>> /\ shut' = shut \cup {c} /\ fdtab' = [fdtab EXCEPT ![1] = NoClient]
      /\ beffer_sended_N' = [beffer_sended_N EXCEPT ![1] = 0]
      /\ UNCHANGED <<sqes, accepts, recvs, backlog, gone, s2c, c2s, CBUF>>
  BY Zenon, <1>1, <1>2 DEF OnClose
<1>4. /\ fdtab'[1] = NoClient /\ \A fd \in Fds : fd # 1 => fdtab'[fd] = NoClient
      /\ beffer_sended_N'[1] = 0
  <2>1. fdtab \in [Fds -> Clients \cup {NoClient}] /\ beffer_sended_N \in [Fds -> Nat]
    BY Zenon DEF IInv, TypeOK, KernelTypeOK, ServerTypeOK
  <2>2. \A fd \in Fds : fd # 1 => fdtab[fd] = NoClient
    BY Zenon DEF OneAtATimeInv, LineInv
  <2>. QED  BY Zenon, <1>2, <1>3, <2>1, <2>2
<1>5. LineInv'
  BY Zenon, <1>1, <1>3, <1>4 DEF OneAtATimeInv, LineInv, Told
<1>6. Holds(c)'
  <2>1. Holds(c) /\ pc[c] = "filled" /\ Silent(c)'
    BY Zenon, <1>1, <1>3 DEF OneAtATimeInv, Closing, Silent
  <2>2. \A i \in 1 .. Len(msg_arr'[c]) : msg_arr'[c][i] # NULL /\ msg_arr'[c][i] = CBUF'.buffer[i - 1]
    BY Zenon, <2>1, HeldIsKept DEF clientVars
  <2>3. c \notin Active' /\ fdtab'[1] # c
    BY Zenon, <1>2, <1>3, <1>4 DEF Active
  <2>. QED  BY <2>1, <2>2, <2>3 DEF Holds, clientVars
<1>7. OnlyConcerns(c)
  BY Zenon, <1>3 DEF OnlyConcerns, clientVars
<1>. QED  BY Zenon, <1>1, <1>2, <1>4, <1>5, <1>6, <1>7, StepWith

\* An answer the server handles is that of the client it serves, which holds all
\* messages it was sent.
LEMMA AnswerStage ==
  ASSUME TypeOK, OneAtATimeInv, NextEvent("TEST_RESPONSE")
  PROVE  \E c \in Clients :
           /\ fdtab[1] = c /\ Tail(cq) = <<>> /\ client_fd = 1 /\ Head(cq).res = 1
           /\ InTurn(c) /\ Heard(c) /\ Holds(c) /\ Answers(buffers[1], c)
           /\ beffer_sended_N[1] = Len(msg_arr[c])
<1>1. PICK c \in Clients : /\ fdtab[1] = c /\ Tail(cq) = <<>> /\ client_fd = 1 /\ Head(cq).res = 1
                           /\ InTurn(c) /\ Heard(c)
  BY EventStage DEF NextEvent
<1>. QED  BY Zenon, <1>1 DEF OneAtATimeInv, Heard, Answers, Told

\* A client that asks for more has not got all messages yet.
LEMMA AskStage ==
  ASSUME OneAtATime, TypeOK, OneAtATimeInv, NextStatus("NEED_MORE") \/ NextStatus("ACKN_OK")
  PROVE  \E c \in Clients :
           /\ fdtab[1] = c /\ Tail(cq) = <<>> /\ client_fd = 1
           /\ InTurn(c) /\ Heard(c) /\ Holds(c) /\ pc[c] = "loop"
           /\ beffer_sended_N[1] = Len(msg_arr[c])
           /\ Len(msg_arr[c]) \in Nat /\ Len(msg_arr[c]) < N_MESSAGES
<1>1. PICK c \in Clients : /\ fdtab[1] = c /\ Tail(cq) = <<>> /\ client_fd = 1
                           /\ InTurn(c) /\ Heard(c) /\ Holds(c) /\ Answers(buffers[1], c)
                           /\ beffer_sended_N[1] = Len(msg_arr[c])
  BY Zenon, AnswerStage DEF NextStatus
<1>2. pc[c] = "loop"
  BY <1>1 DEF NextStatus, Answers
<1>3. Len(msg_arr[c]) \in Nat /\ Len(msg_arr[c]) < N_MESSAGES
  BY <1>1, <1>2, BlockFits DEF Holds, TypeOK, ClientTypeOK
<1>. QED  BY Zenon, <1>1, <1>2, <1>3

\* The server never runs out of messages for a client that wants one, nor does
\* it ever read anything but NEED_MORE, ACKN_OK and ENOUGH.
LEMMA NeverAllSent ==
  ASSUME OneAtATime, TypeOK, OneAtATimeInv
  PROVE  ~OnNeedMoreAllSent /\ ~OnNoResponse
<1>1. ASSUME OnNeedMoreAllSent  PROVE FALSE
  <2>1. PICK n \in Nat : client_fd = 1 /\ beffer_sended_N[1] = n /\ n < N_MESSAGES
    BY Zenon, <1>1, AskStage DEF OnNeedMoreAllSent
  <2>. QED  BY <1>1, <2>1, ServerAssumption DEF OnNeedMoreAllSent
<1>2. ASSUME OnNoResponse  PROVE FALSE
  <2>1. PICK c \in Clients : client_fd = 1 /\ Head(cq).res = 1 /\ Answers(buffers[1], c)
    BY Zenon, <1>2, AnswerStage DEF OnNoResponse
  <2>2. buffers[1].status \in {"NEED_MORE", "ACKN_OK", "ENOUGH"}
    BY <2>1 DEF Answers
  <2>3. Head(cq).res = 0 \/ buffers[1].status \notin {"NEED_MORE", "ACKN_OK", "ENOUGH"}
    BY Zenon, <1>2, <2>1 DEF OnNoResponse
  <2>. QED  BY ONLY <2>1, <2>2, <2>3
<1>. QED  BY Zenon, <1>1, <1>2

\* OnAcknOk asks the client once more.
LEMMA AcknOkInTurn ==
  ASSUME OneAtATime, IInv, IInv', [Next]_vars, OneAtATimeInv, OnAcknOk, UNCHANGED clientVars
  PROVE  OneAtATimeInv'
<1>1. PICK c \in Clients : /\ fdtab[1] = c /\ Tail(cq) = <<>> /\ client_fd = 1
                           /\ InTurn(c) /\ Heard(c) /\ pc[c] = "loop"
                           /\ beffer_sended_N[1] = Len(msg_arr[c])
  BY Zenon, AskStage DEF OnAcknOk, IInv
<1>2. /\ SendFromBuffer(1, Status("ASK_NEED_MSG"))
      /\ UNCHANGED <<accepts, recvs, backlog, fdtab, shut, gone, c2s, beffer_sended_N, current_client_fd>>
  BY Zenon, <1>1 DEF OnAcknOk
<1>3. Tells(Status("ASK_NEED_MSG"), c)'
  BY <1>1, <1>2 DEF Tells, Status, Told, clientVars
<1>. QED  BY Zenon, <1>1, <1>2, <1>3, SendStep

\* OnNeedMore sends the message of the slot the client has got to.
LEMMA NeedMoreInTurn ==
  ASSUME OneAtATime, IInv, IInv', [Next]_vars, OneAtATimeInv, OnNeedMore, UNCHANGED clientVars
  PROVE  OneAtATimeInv'
<1>1. PICK c \in Clients : /\ fdtab[1] = c /\ Tail(cq) = <<>> /\ client_fd = 1
                           /\ InTurn(c) /\ Heard(c) /\ pc[c] = "loop"
                           /\ beffer_sended_N[1] = Len(msg_arr[c])
                           /\ Len(msg_arr[c]) \in Nat /\ Len(msg_arr[c]) < N_MESSAGES
  BY Zenon, AskStage DEF OnNeedMore, IInv
<1>2. PICK n \in Nat : n = Len(msg_arr[c]) /\ n < N_MESSAGES /\ beffer_sended_N[1] = n
  BY Zenon, <1>1
<1>3. FirstPhase => n <= CBUF.fill_size
  BY Zenon, <1>2, FirstDescriptor DEF IInv, FirstPhaseInv
<1>4. GET_nth_terminates(CBUF, n) /\ Loaded(GET_nth_circ_buf(CBUF, n), n)
  BY Zenon, <1>2, <1>3, GetNth DEF IInv
<1>5. PICK m : /\ m = [status |-> "MESSAGE_SENDED", msg |-> CBUF'.buffer[n]]
               /\ SendFromBuffer(1, m)
               /\ CBUF' = GET_nth_circ_buf(CBUF, n)
               /\ beffer_sended_N' = [beffer_sended_N EXCEPT ![1] = n + 1]
               /\ UNCHANGED <<accepts, recvs, backlog, fdtab, shut, gone, c2s, current_client_fd>>
  BY Zenon, <1>1, <1>2, <1>4 DEF OnNeedMore
<1>6. Tells(m, c)'
  <2>1. beffer_sended_N'[1] = n + 1
    BY Zenon, <1>5, FirstDescriptor DEF IInv, TypeOK, ServerTypeOK
  <2>2. m.status = "MESSAGE_SENDED" /\ m.msg = CBUF'.buffer[n] /\ CBUF'.buffer[n] # NULL
    BY <1>4, <1>5 DEF Loaded
  <2>. QED  BY Zenon, <1>1, <1>2, <2>1, <2>2 DEF Tells, Told, clientVars
<1>. QED  BY Zenon, <1>1, <1>5, <1>6, SendStep

\* FINISH_SENDING, whatever operation its slot repeats, leaves the connection to
\* be closed or waiting for ever.
LEMMA FinishInTurn ==
  ASSUME OneAtATime, IInv, IInv', [Next]_vars, OneAtATimeInv, FINISH_SENDING, UNCHANGED clientVars
  PROVE  OneAtATimeInv'
<1>1. PICK c \in Clients : /\ fdtab[1] = c /\ Tail(cq) = <<>> /\ client_fd = 1
                           /\ InTurn(c) /\ Heard(c) /\ Answers(buffers[1], c)
  BY Zenon, AnswerStage DEF FINISH_SENDING, NextStatus, IInv
<1>2. pc[c] = "filled"
  BY <1>1 DEF FINISH_SENDING, NextStatus, Answers
<1>3. PICK ud : ud = make_request_data(1, "FLAG_CLOSE_CONNECTION")
  OBVIOUS
<1>4. PICK old : old = sqes[sqTail] /\ OnFirst(old)
  BY Zenon DEF OneAtATimeInv, LineInv, OnFirst, IInv, TypeOK, KernelTypeOK
<1>5. backlog = <<>> /\ c # NoClient /\ s2c[c] = <<>> /\ Silent(c) /\ accepts = <<AcceptData>>
      /\ current_client_fd = 1
  BY Zenon, <1>1, SocketsAssumption DEF OneAtATimeInv, LineInv, Heard, InTurn
<1>6. /\ beffer_sended_N' = [beffer_sended_N EXCEPT ![1] = 0]
      /\ UNCHANGED <<shut, gone, c2s, buffers, current_client_fd>>
      /\ \/ /\ Submit(old, <<Cqe(ud, 1)>>)
            /\ UNCHANGED <<accepts, recvs, backlog, fdtab, s2c>>
         \/ /\ Submit(old, AcceptCqes(ud))
            /\ ArmAccept(ud)
            /\ UNCHANGED <<recvs, s2c>>
         \/ /\ old.op = "RECV"
            /\ Submit(old, RecvCqes(old.fd, ud))
            /\ ArmRecv(old.fd, ud)
            /\ UNCHANGED <<accepts, backlog, fdtab, s2c>>
         \/ /\ old.op = "SEND"
            /\ Submit(old, <<Cqe(ud, 1)>>)
            /\ \E m : s2c' = Sent(old.fd, m)
            /\ UNCHANGED <<accepts, recvs, backlog, fdtab>>
  <2>1. server' \in {"up", "unparsed"}
    BY Zenon DEF IInv, BufferInv
  <2>2. server' # "crashed"
    BY <2>1
  <2>. QED  BY Zenon, <1>1, <1>3, <1>4, <2>2 DEF FINISH_SENDING
<1>7. beffer_sended_N'[1] = 0 /\ pc'[c] = "filled" /\ c2s'[c] = <<>> /\ current_client_fd' = 1
  BY Zenon, <1>2, <1>5, <1>6, FirstDescriptor
     DEF Silent, clientVars, IInv, TypeOK, ServerTypeOK
<1>8. ASSUME fdtab' = fdtab, backlog' = backlog, NEW q, Submit(old, q), OnlyConcerns(c), Closing(c)'
      PROVE  OneAtATimeInv'
  <2>1. LineInv'
    BY Zenon, <1>1, <1>4, <1>6, <1>8, LineStill DEF Submit, IInv
  <2>2. Holds(c)'
    BY Zenon, <1>1, <1>6, <1>8, HoldsStill DEF clientVars
  <2>. QED  BY Zenon, <1>1, <1>8, <2>1, <2>2, StepWith
<1>9. CASE Submit(old, <<Cqe(ud, 1)>>) /\ UNCHANGED <<accepts, recvs, backlog, fdtab>>
           /\ \A d \in Clients : d # c => s2c'[d] = s2c[d]
  <2>1. cq' = <<Cqe(ud, 1)>>
    BY Zenon, <1>1, <1>9, Single DEF Submit
  <2>2. Closing(c)'
    BY Zenon, <1>3, <1>5, <1>7, <1>9, <2>1 DEF Closing, Told, Silent
  <2>3. OnlyConcerns(c)
    BY Zenon, <1>6, <1>9 DEF OnlyConcerns, clientVars
  <2>. QED  BY Zenon, <1>8, <1>9, <2>2, <2>3
<1>10. CASE Submit(old, AcceptCqes(ud)) /\ ArmAccept(ud) /\ UNCHANGED <<recvs, s2c>>
  <2>1. cq' = <<>> \o <<>> /\ accepts' = Append(<<AcceptData>>, ud) /\ UNCHANGED <<fdtab, backlog>>
    BY Zenon, <1>1, <1>5, <1>10 DEF Submit, AcceptCqes, ArmAccept
  <2>2. <<>> \o <<>> = <<>> /\ Append(<<AcceptData>>, ud) = <<AcceptData, ud>>
    BY Zenon, Single, Pair
  <2>3. Closing(c)'
    BY Zenon, <1>3, <1>5, <1>7, <1>10, <2>1, <2>2 DEF Closing, Told, Silent
  <2>4. OnlyConcerns(c)
    BY Zenon, <1>6, <1>10 DEF OnlyConcerns, clientVars
  <2>. QED  BY Zenon, <1>8, <1>10, <2>1, <2>3, <2>4
<1>11. CASE /\ old.op = "RECV"
            /\ Submit(old, RecvCqes(old.fd, ud))
            /\ ArmRecv(old.fd, ud)
            /\ UNCHANGED <<accepts, backlog, fdtab, s2c>>
  <2>1. old.fd = 1
    BY <1>4, <1>11 DEF OnFirst
  <2>2. /\ cq' = <<>> \o <<>>
        /\ recvs' = [recvs EXCEPT ![c] = Append(recvs[c], [buf |-> 1, ud |-> ud])]
    BY Zenon, <1>1, <1>5, <1>11, <2>1 DEF Submit, RecvCqes, ArmRecv
  <2>3. <<>> \o <<>> = <<>>
    OBVIOUS
  <2>4. recvs'[c] = <<[buf |-> 1, ud |-> ud]>>
    BY Zenon, <1>5, <2>2, Single DEF Silent, IInv, TypeOK, KernelTypeOK
  <2>5. Closing(c)'
    BY Zenon, <1>3, <1>5, <1>7, <1>11, <2>2, <2>3, <2>4 DEF Closing, Told
  <2>6. OnlyConcerns(c)
    BY Zenon, <1>6, <1>11, <2>2 DEF OnlyConcerns, clientVars, IInv, TypeOK, KernelTypeOK
  <2>. QED  BY Zenon, <1>8, <1>11, <2>5, <2>6
<1>12. ASSUME old.op = "SEND", NEW m, s2c' = Sent(old.fd, m)
       PROVE  \A d \in Clients : d # c => s2c'[d] = s2c[d]
  <2>1. old.fd = 1
    BY <1>4, <1>12 DEF OnFirst
  <2>2. s2c' = [s2c EXCEPT ![c] = <<m>>]
    BY Zenon, <1>1, <1>5, <1>12, <2>1, SentToServed DEF IInv
  <2>. QED  BY Zenon, <2>2 DEF IInv, TypeOK, KernelTypeOK
<1>. QED  BY Zenon, <1>6, <1>9, <1>10, <1>11, <1>12

\* The recv of the client's answer completes with that answer, and none ends
\* without one.
LEMMA RecvInTurn ==
  ASSUME OneAtATime, IInv, IInv', [Next]_vars, OneAtATimeInv, RecvCompletion, UNCHANGED clientVars
  PROVE  OneAtATimeInv'
<1>0. PICK c \in Clients : \E i \in 1 .. Len(recvs[c]) : RecvCompletes(c, i) \/ RecvEnds(c, i)
  BY Zenon DEF RecvCompletion
<1>1. PICK i \in 1 .. Len(recvs[c]) : RecvCompletes(c, i) \/ RecvEnds(c, i)
  BY Zenon, <1>0
<1>2. recvs[c] # <<>>
  BY <1>1
<1>3. fdtab[1] = c
  BY Zenon, <1>2 DEF OneAtATimeInv, Holds, Silent
<1>4. c \notin shut /\ c \notin gone
  BY Zenon, <1>3, ActiveIsServed DEF IInv
<1>5. c2s[c] # <<>> /\ RecvCompletes(c, i)
  BY Zenon, <1>1, <1>4 DEF RecvCompletes, RecvEnds
<1>6. InTurn(c) /\ Answered(c) /\ recvs[c] = <<[buf |-> 1, ud |-> Answer(1)]>> /\ cq = <<>>
  BY Zenon, <1>2, <1>3, <1>5
     DEF OneAtATimeInv, Accepted, InTurn, Closing, Spoken, Answered, Heard, Listening, Silent
<1>7. i = 1 /\ recvs[c][i].buf = 1 /\ recvs[c][i].ud = Answer(1)
  BY <1>1, <1>6
<1>8. /\ cq' = <<Cqe(Answer(1), 1)>> /\ RemoveAt(recvs[c], i) = <<>>
      /\ buffers' = [buffers EXCEPT ![1] = Last(c2s[c])]
      /\ c2s' = [c2s EXCEPT ![c] = <<>>]
      /\ recvs' = [recvs EXCEPT ![c] = <<>>]
      /\ UNCHANGED <<sqes, sqTail, accepts, backlog, fdtab, shut, gone, s2c,
                     CBUF, beffer_sended_N, current_client_fd, server>>
  BY Zenon, <1>5, <1>6, <1>7, Single DEF RecvCompletes
<1>9. buffers'[1] = Last(c2s[c]) /\ c2s'[c] = <<>> /\ recvs'[c] = <<>>
  BY Zenon, <1>8, FirstDescriptor DEF IInv, TypeOK, KernelTypeOK, ServerTypeOK
<1>10. InTurn(c)'
  <2>1. Answers(buffers[1], c)'
    BY Zenon, <1>6, <1>8, <1>9 DEF Answered, Answers, Told, clientVars
  <2>2. Heard(c)'
    BY Zenon, <1>6, <1>8, <1>9, <2>1 DEF Heard, Silent, Answered
  <2>. QED  BY Zenon, <1>6, <1>8, <2>2 DEF InTurn
<1>11. LineInv'
  BY Zenon, <1>3, <1>8, LineStill DEF IInv
<1>12. Holds(c)'
  BY Zenon, <1>3, <1>8, HoldsStill DEF clientVars
<1>13. OnlyConcerns(c)
  BY Zenon, <1>8 DEF OnlyConcerns, clientVars, IInv, TypeOK, KernelTypeOK
<1>. QED  BY Zenon, <1>3, <1>8, <1>10, <1>11, <1>12, <1>13, StepWith

\* A client connects when no other is, and gets descriptor 1.
LEMMA ConnectInTurn ==
  ASSUME OneAtATime, IInv, IInv', [Next]_vars, OneAtATimeInv, NEW c \in Clients, ConnectStep(c)
  PROVE  OneAtATimeInv'
<1>1. Active = {}
  <2>1. IsFiniteSet(Active) /\ Cardinality(Active) < 1
    <3>1. Active \subseteq Clients
      BY Zenon DEF Active
    <3>. QED  BY <3>1, FS_Subset DEF OneAtATime, ConnectStep
  <2>. QED  BY <2>1, FS_CardinalityType, FS_EmptySet
<1>2. fdtab[1] = NoClient
  <2>1. fdtab[1] \in Clients \cup {NoClient}
    BY Zenon, FirstDescriptor DEF IInv, TypeOK, KernelTypeOK
  <2>. QED  BY Zenon, <1>1, <2>1 DEF OneAtATimeInv, Holds
<1>3. cq = <<>> /\ accepts = <<AcceptData>> /\ beffer_sended_N[1] = 0 /\ accepts # <<>>
  BY Zenon, <1>2, Single DEF OneAtATimeInv, LineInv, Told
<1>4. FreeFds # {} /\ LowestFreeFd = 1
  BY Zenon, <1>2, FirstDescriptor
<1>5. /\ pc[c] = "start" /\ pc' = [pc EXCEPT ![c] = "loop"]
      /\ fdtab' = [fdtab EXCEPT ![1] = c]
      /\ cq' = Append(cq, Cqe(Head(accepts), 1)) /\ accepts' = Tail(accepts)
      /\ UNCHANGED <<backlog, sqes, recvs, shut, gone, s2c, c2s, msg_arr, block, beffer_sended_N>>
  BY Zenon, <1>3, <1>4 DEF ConnectStep, Connect, Connected, serverSide, serverVars
<1>6. cq' = <<Cqe(AcceptData, 1)>> /\ accepts' = <<>>
  BY Zenon, <1>3, <1>5, Single
<1>7. pc'[c] = "loop" /\ fdtab'[1] = c /\ \A fd \in Fds : fd # 1 => fdtab'[fd] = NoClient
  <2>1. fdtab \in [Fds -> Clients \cup {NoClient}] /\ pc \in [Clients -> {"start", "loop", "filled", "desynced", "dead"}]
    BY Zenon DEF IInv, TypeOK, KernelTypeOK, ClientTypeOK
  <2>2. \A fd \in Fds : fd # 1 => fdtab[fd] = NoClient
    BY Zenon DEF OneAtATimeInv, LineInv
  <2>. QED  BY Zenon, <1>5, <2>1, <2>2, FirstDescriptor
<1>8. /\ Holds(c) /\ Silent(c) /\ s2c[c] = <<>> /\ msg_arr[c] = <<>>
      /\ c \notin shut /\ c \notin gone
  <2>1. Holds(c) /\ fdtab[1] # c /\ gone = {}
    BY Zenon, <1>2, SocketsAssumption DEF OneAtATimeInv, LineInv
  <2>. QED  BY <1>5, <2>1 DEF Holds
<1>9. Accepted(c)'
  BY Zenon, <1>3, <1>5, <1>6, <1>7, <1>8 DEF Accepted, Silent, Told
<1>10. LineInv'
  <2>1. c # NoClient
    BY SocketsAssumption
  <2>. QED  BY Zenon, <1>5, <1>7, <2>1 DEF OneAtATimeInv, LineInv
<1>11. Holds(c)'
  <2>1. c \in Active'
    BY <1>5, <1>7, <1>8 DEF Active
  <2>. QED  BY <1>5, <1>7, <1>8, <2>1 DEF Holds
<1>12. OnlyConcerns(c)
  BY Zenon, <1>5 DEF OnlyConcerns, IInv, TypeOK, ClientTypeOK
<1>. QED  BY Zenon, <1>2, <1>7, <1>9, <1>10, <1>11, <1>12, StepWith

\* A client's thread reads when the server has told it something.
LEMMA ReadStage ==
  ASSUME TypeOK, OneAtATimeInv, NEW c \in Clients, pc[c] = "loop", s2c[c] # <<>>
  PROVE  /\ fdtab[1] = c /\ c \notin shut /\ Holds(c)
         /\ InTurn(c) /\ Spoken(c) /\ Tells(Last(s2c[c]), c)
         /\ \A i \in 1 .. Len(s2c[c]) : s2c[c][i] = Last(s2c[c])
<1>1. fdtab[1] = c /\ c \notin shut /\ Holds(c)
  BY Zenon, ActiveIsServed DEF OneAtATimeInv
<1>2. ~Closing(c) /\ ~Accepted(c)
  BY DEF Closing, Accepted
<1>3. InTurn(c) /\ Spoken(c)
  BY Zenon, <1>1, <1>2 DEF OneAtATimeInv, InTurn, Answered, Heard
<1>4. \A i \in 1 .. Len(s2c[c]) : s2c[c][i] = Last(s2c[c])
  BY Zenon, <1>3, OnlyElement DEF Spoken, TypeOK, KernelTypeOK
<1>. QED  BY Zenon, <1>1, <1>3, <1>4 DEF Spoken

\* The client's turn: it has read what the server told it and answers.
LEMMA AnswerStep ==
  ASSUME OneAtATime, IInv, IInv', [Next]_vars, OneAtATimeInv, NEW c \in Clients, NEW st, NEW a,
         Received(c, st), send_STATUS(c, a), Answers(Status(a), c)', Holds(c)',
         UNCHANGED <<serverSide, cq, accepts, backlog, fdtab, gone, serverVars>>,
         \A d \in Clients : d # c =>
           pc'[d] = pc[d] /\ msg_arr'[d] = msg_arr[d] /\ block'[d] = block[d]
  PROVE  OneAtATimeInv'
<1>1. /\ fdtab[1] = c /\ c \notin shut /\ InTurn(c) /\ Spoken(c)
  BY Zenon, ReadStage DEF Received, IInv
<1>2. /\ s2c' = [s2c EXCEPT ![c] = <<>>]
      /\ c2s' = [c2s EXCEPT ![c] = <<Status(a)>>]
  BY Zenon, <1>1, Single DEF Received, send_STATUS, Deliver, Spoken
<1>3. s2c'[c] = <<>> /\ c2s'[c] = <<Status(a)>>
  BY Zenon, <1>2 DEF IInv, TypeOK, KernelTypeOK
<1>4. InTurn(c)'
  <2>1. Len(c2s'[c]) = 1 /\ Last(c2s'[c]) = Status(a)
    BY Zenon, <1>3, Single
  <2>2. Answered(c)'
    BY Zenon, <1>1, <1>3, <2>1 DEF Spoken, Answered, Listening, serverSide
  <2>. QED  BY Zenon, <1>1, <2>2 DEF InTurn, serverVars
<1>5. LineInv'
  BY Zenon, <1>1, LineStill DEF IInv, serverSide
<1>6. OnlyConcerns(c)
  BY Zenon, <1>2 DEF OnlyConcerns, serverSide, IInv, TypeOK, KernelTypeOK
<1>. QED  BY Zenon, <1>1, <1>4, <1>5, <1>6, StepWith

\* OnAsk asks for the next message.
LEMMA AskInTurn ==
  ASSUME OneAtATime, IInv, IInv', [Next]_vars, OneAtATimeInv, NEW c \in Clients, OnAsk(c),
         UNCHANGED serverVars
  PROVE  OneAtATimeInv'
<1>1. /\ fdtab[1] = c /\ Tells(Last(s2c[c]), c) /\ pc[c] = "loop"
      /\ Last(s2c[c]).status = "ASK_NEED_MSG"
  BY Zenon, ReadStage DEF OnAsk, Received, IInv
<1>2. Answers(Status("NEED_MORE"), c)'
  BY <1>1 DEF Tells, Answers, Status, Told, OnAsk, clientVars, serverVars
<1>3. Holds(c)'
  BY Zenon, <1>1, HoldsStill DEF OnAsk, clientVars, serverSide
<1>. QED  BY Zenon, <1>2, <1>3, AnswerStep DEF OnAsk, clientVars

\* The message a client stores is that of the slot it has got to.
LEMMA StoreHolds ==
  ASSUME OneAtATime, IInv, IInv', [Next]_vars, OneAtATimeInv, NEW c \in Clients,
         OnMessage(c) \/ OnLastMessage(c), UNCHANGED serverVars
  PROVE  /\ fdtab[1] = c /\ c \notin shut /\ Holds(c) /\ pc[c] = "loop" /\ UNCHANGED CBUF
         /\ Len(msg_arr[c]) \in Nat /\ Len(msg_arr[c]) < BLOCKSIZE
         /\ msg_arr'[c] \in Seq(Nat) /\ Len(msg_arr'[c]) = Len(msg_arr[c]) + 1
         /\ beffer_sended_N'[1] = Len(msg_arr'[c])
         /\ CBUF.buffer[Len(msg_arr[c])] = Last(s2c[c]).msg /\ Last(s2c[c]).msg # NULL
         /\ \A i \in 1 .. Len(msg_arr'[c]) :
              msg_arr'[c][i] # NULL /\ msg_arr'[c][i] = CBUF'.buffer[i - 1]
<1>1. /\ fdtab[1] = c /\ c \notin shut /\ Holds(c) /\ Tells(Last(s2c[c]), c) /\ pc[c] = "loop"
      /\ Last(s2c[c]).status = "MESSAGE_SENDED"
      /\ msg_arr' = [msg_arr EXCEPT ![c] = Append(msg_arr[c], Last(s2c[c]).msg)]
  BY Zenon, ReadStage DEF OnMessage, OnLastMessage, Received, IInv
<1>2. /\ UNCHANGED <<CBUF, beffer_sended_N>>
      /\ beffer_sended_N[1] = Len(msg_arr[c]) + 1
      /\ CBUF.buffer[Len(msg_arr[c])] = Last(s2c[c]).msg /\ Last(s2c[c]).msg # NULL
  BY <1>1 DEF Tells, Told, serverVars
<1>3. PICK s \in Seq(Nat) : s = msg_arr[c] /\ Len(s) < BLOCKSIZE
  BY Zenon, Stored DEF IInv, TypeOK, ClientTypeOK
<1>4. PICK m \in Nat : m = Last(s2c[c]).msg /\ m = CBUF.buffer[Len(s)] /\ m # NULL
  <2>1. Len(s) \in Slots
    BY <1>3, BlockFits
  <2>. QED  BY Zenon, <1>2, <1>3, <2>1 DEF IInv, TypeOK, ServerTypeOK, CircBufs
<1>5. msg_arr'[c] = Append(s, m)
  BY Zenon, <1>1, <1>3, <1>4 DEF IInv, TypeOK, ClientTypeOK
<1>6. Append(s, m) \in Seq(Nat) /\ Len(Append(s, m)) = Len(s) + 1
  OBVIOUS
<1>7. \A i \in 1 .. Len(s) : s[i] # NULL /\ s[i] = CBUF.buffer[i - 1]
  BY Zenon, <1>1, <1>3 DEF Holds
<1>8. ASSUME NEW i \in 1 .. Len(Append(s, m))
      PROVE  Append(s, m)[i] # NULL /\ Append(s, m)[i] = CBUF.buffer[i - 1]
  <2>1. CASE i \in 1 .. Len(s)
    <3>1. Append(s, m)[i] = s[i]
      BY <2>1
    <3>. QED  BY Zenon, <1>7, <2>1, <3>1
  <2>2. CASE i = Len(s) + 1
    <3>1. Append(s, m)[i] = m /\ i - 1 = Len(s)
      BY <2>2
    <3>. QED  BY Zenon, <1>4, <3>1
  <2>. QED  BY <1>6, <2>1, <2>2
<1>9. beffer_sended_N'[1] = Len(msg_arr'[c])
  BY Zenon, <1>2, <1>3, <1>5, <1>6
<1>10. Len(s) \in Nat
  OBVIOUS
<1>. QED  BY Zenon, <1>1, <1>2, <1>3, <1>5, <1>6, <1>8, <1>9, <1>10

\* The count of a block that one more message does not fill, and of one it fills.
LEMMA FillsOneMore ==
  ASSUME NEW n \in Nat, NEW b \in Nat, NEW m, m = n + 1
  PROVE  /\ n < b - 1 => m < b /\ n < b /\ m <= b /\ m # b /\ n # b
         /\ n = b - 1 => m = b /\ m <= b
OBVIOUS

\* OnMessage stores a message that does not fill the block.
LEMMA MessageInTurn ==
  ASSUME OneAtATime, IInv, IInv', [Next]_vars, OneAtATimeInv, NEW c \in Clients, OnMessage(c),
         UNCHANGED serverVars
  PROVE  OneAtATimeInv'
<1>1. /\ fdtab[1] = c /\ c \notin shut /\ Holds(c) /\ pc[c] = "loop"
      /\ Len(msg_arr[c]) \in Nat /\ Len(msg_arr'[c]) = Len(msg_arr[c]) + 1
      /\ beffer_sended_N'[1] = Len(msg_arr'[c])
      /\ \A i \in 1 .. Len(msg_arr'[c]) :
           msg_arr'[c][i] # NULL /\ msg_arr'[c][i] = CBUF'.buffer[i - 1]
  BY Zenon, StoreHolds
<1>2. /\ Len(msg_arr[c]) < BLOCKSIZE - 1
      /\ msg_arr' = [msg_arr EXCEPT ![c] = Append(msg_arr[c], Last(s2c[c]).msg)]
      /\ Received(c, "MESSAGE_SENDED") /\ send_STATUS(c, "ACKN_OK")
      /\ UNCHANGED <<serverSide, cq, accepts, backlog, fdtab, gone, pc, block>>
  BY Zenon DEF OnMessage
<1>3. /\ Len(msg_arr'[c]) < BLOCKSIZE /\ Len(msg_arr[c]) < BLOCKSIZE
      /\ Len(msg_arr'[c]) <= BLOCKSIZE /\ Len(msg_arr'[c]) # BLOCKSIZE
      /\ Len(msg_arr[c]) # BLOCKSIZE
  <2>1. BLOCKSIZE \in Nat
    BY ClientAssumption
  <2>. QED  BY Zenon, <1>1, <1>2, <2>1, FillsOneMore
<1>4. Answers(Status("ACKN_OK"), c)'
  BY <1>1, <1>2 DEF Answers, Status, Told
<1>5. Holds(c)'
  <2>1. c \in Active' <=> fdtab'[1] = c
    BY Zenon, <1>1, <1>2 DEF Holds, Active, serverSide
  <2>2. /\ pc'[c] = "loop" /\ ~block'[c] /\ c \notin shut'
        /\ Len(msg_arr'[c]) <= BLOCKSIZE /\ Len(msg_arr'[c]) # BLOCKSIZE /\ fdtab'[1] = c
    BY Zenon, <1>1, <1>2, <1>3 DEF Holds, serverSide
  <2>. QED  BY <1>1, <2>1, <2>2 DEF Holds
<1>6. \A d \in Clients : d # c =>
        pc'[d] = pc[d] /\ msg_arr'[d] = msg_arr[d] /\ block'[d] = block[d]
  BY Zenon, <1>2 DEF IInv, TypeOK, ClientTypeOK
<1>. QED  BY Zenon, <1>2, <1>4, <1>5, <1>6, AnswerStep

\* OnLastMessage stores the message that fills the block.
LEMMA LastMessageInTurn ==
  ASSUME OneAtATime, IInv, IInv', [Next]_vars, OneAtATimeInv, NEW c \in Clients, OnLastMessage(c),
         UNCHANGED serverVars
  PROVE  OneAtATimeInv'
<1>1. /\ fdtab[1] = c /\ c \notin shut /\ Holds(c) /\ pc[c] = "loop"
      /\ Len(msg_arr[c]) \in Nat /\ Len(msg_arr'[c]) = Len(msg_arr[c]) + 1
      /\ beffer_sended_N'[1] = Len(msg_arr'[c])
      /\ \A i \in 1 .. Len(msg_arr'[c]) :
           msg_arr'[c][i] # NULL /\ msg_arr'[c][i] = CBUF'.buffer[i - 1]
  BY Zenon, StoreHolds
<1>2. /\ Len(msg_arr[c]) = BLOCKSIZE - 1
      /\ msg_arr' = [msg_arr EXCEPT ![c] = Append(msg_arr[c], Last(s2c[c]).msg)]
      /\ Received(c, "MESSAGE_SENDED") /\ send_STATUS(c, "ENOUGH")
      /\ pc' = [pc EXCEPT ![c] = "filled"] /\ block' = [block EXCEPT ![c] = TRUE]
      /\ UNCHANGED <<serverSide, cq, accepts, backlog, fdtab, gone>>
  BY Zenon DEF OnLastMessage
<1>3. Len(msg_arr'[c]) = BLOCKSIZE /\ Len(msg_arr'[c]) <= BLOCKSIZE
  <2>1. BLOCKSIZE \in Nat
    BY ClientAssumption
  <2>. QED  BY Zenon, <1>1, <1>2, <2>1, FillsOneMore
<1>4. pc'[c] = "filled" /\ block'[c] = TRUE
  BY Zenon, <1>2 DEF IInv, TypeOK, ClientTypeOK
<1>5. Answers(Status("ENOUGH"), c)'
  BY <1>1, <1>4 DEF Answers, Status, Told
<1>6. Holds(c)'
  <2>1. c \in Active'
    <3>1. c \notin shut' /\ c \notin gone'
      BY Zenon, <1>1, <1>2, ActiveIsServed DEF serverSide, IInv
    <3>. QED  BY <1>4, <3>1 DEF Active
  <2>2. fdtab'[1] = c
    BY Zenon, <1>1, <1>2
  <2>3. pc'[c] \in {"start", "loop", "filled"} /\ pc'[c] # "start"
    BY <1>4
  <2>. QED  BY Zenon, <1>1, <1>3, <1>4, <2>1, <2>2, <2>3 DEF Holds
<1>7. \A d \in Clients : d # c =>
        pc'[d] = pc[d] /\ msg_arr'[d] = msg_arr[d] /\ block'[d] = block[d]
  BY Zenon, <1>2 DEF IInv, TypeOK, ClientTypeOK
<1>. QED  BY Zenon, <1>2, <1>5, <1>6, <1>7, AnswerStep

\* No client reads anything else, dies of what it reads, or fails.
LEMMA NothingElseHappens ==
  ASSUME OneAtATime, TypeOK, OneAtATimeInv, NEW c \in Clients
  PROVE  /\ ~OnAllSent(c) /\ ~OnOtherStatus(c) /\ ~UnpackFails(c)
         /\ ~DesyncedTurn(c) /\ ~Fail(c)
<1>1. \A st : Received(c, st) => st \in {"ASK_NEED_MSG", "MESSAGE_SENDED"}
  <2>. SUFFICES ASSUME NEW st, Received(c, st)  PROVE st \in {"ASK_NEED_MSG", "MESSAGE_SENDED"}
    OBVIOUS
  <2>1. Tells(Last(s2c[c]), c) /\ Last(s2c[c]).status = st
    BY Zenon, ReadStage DEF Received
  <2>. QED  BY <2>1 DEF Tells
<1>2. ~OnAllSent(c)
  BY <1>1 DEF OnAllSent
<1>3. ~OnOtherStatus(c)
  BY <1>1 DEF OnOtherStatus, ClientStatus
<1>4. ASSUME UnpackFails(c)  PROVE FALSE
  <2>1. pc[c] = "loop" /\ c \notin shut
    BY Zenon, <1>4, ActiveIsServed DEF UnpackFails
  <2>2. PICK i \in 1 .. Len(s2c[c]) : s2c[c][i].status = "GARBLED"
    BY Zenon, <1>4, <2>1 DEF UnpackFails
  <2>3. s2c[c] # <<>>
    BY <2>2
  <2>4. Tells(s2c[c][i], c)
    BY Zenon, <2>1, <2>2, <2>3, ReadStage
  <2>. QED  BY <2>2, <2>4 DEF Tells
<1>5. pc[c] \in {"start", "loop", "filled"} /\ \A d \in Clients : pc[d] # "dead"
  BY DEF OneAtATimeInv, Holds
<1>6. ~DesyncedTurn(c)
  BY <1>5 DEF DesyncedTurn
<1>7. ~Fail(c)
  <2>1. Cardinality({d \in Clients : pc[d] = "dead"}) \in Nat
    BY FS_EmptySet, <1>5
  <2>. QED  BY <2>1 DEF Fail, OneAtATime
<1>. QED  BY Zenon, <1>2, <1>3, <1>4, <1>6, <1>7

\* The invariant holds before the first client comes...
LEMMA OneAtATimeInit ==
  Init => OneAtATimeInv
<1>. SUFFICES ASSUME Init  PROVE OneAtATimeInv
  OBVIOUS
<1>1. 1 \in Fds /\ BLOCKSIZE \in Nat /\ BLOCKSIZE # 0 /\ NoClient \notin Clients
  BY FirstDescriptor, ClientAssumption, SocketsAssumption
<1>2. /\ backlog = <<>> /\ gone = {} /\ shut = {} /\ cq = <<>> /\ accepts = <<AcceptData>>
      /\ \A fd \in Fds : fdtab[fd] = NoClient /\ beffer_sended_N[fd] = 0
      /\ \A c \in Clients : /\ recvs[c] = <<>> /\ s2c[c] = <<>> /\ c2s[c] = <<>>
                            /\ pc[c] = "start" /\ msg_arr[c] = <<>> /\ block[c] = FALSE
  BY Zenon DEF Init, SocketsInit, ServerInit, ClientInit
<1>3. \A i \in 0 .. SQ_ENTRIES - 1 : sqes[i].op \notin {"RECV", "SEND"}
  BY DEF Init, ServerInit, AcceptOp, NopOp
<1>4. LineInv
  BY Zenon, <1>1, <1>2, <1>3 DEF LineInv, Told
<1>5. ASSUME NEW c \in Clients  PROVE Holds(c) /\ fdtab[1] # c
  <2>1. c \notin Active /\ fdtab[1] # c /\ Silent(c)
    BY Zenon, <1>1, <1>2 DEF Active, Silent
  <2>2. Len(msg_arr[c]) = 0 /\ \A i \in 1 .. Len(msg_arr[c]) : FALSE
    BY <1>2
  <2>. QED  BY <1>1, <1>2, <2>1, <2>2 DEF Holds
<1>. QED  BY Zenon, <1>4, <1>5 DEF OneAtATimeInv

\* ... and every step keeps it.
LEMMA OneAtATimeStep ==
  ASSUME OneAtATime, IInv, IInv', [Next]_vars, OneAtATimeInv
  PROVE  OneAtATimeInv'
<1>1. CASE UNCHANGED vars
  <2>. USE <1>1 DEF vars, kernelVars, serverVars, clientVars
  <2>1. LineInv'
    BY Zenon DEF OneAtATimeInv, LineInv, Told
  <2>2. ASSUME NEW c \in Clients  PROVE Holds(c)'
    <3>1. Active' = Active /\ (Silent(c)' <=> Silent(c))
      BY Zenon DEF Silent, Active
    <3>2. /\ pc' = pc /\ msg_arr' = msg_arr /\ block' = block /\ CBUF' = CBUF /\ s2c' = s2c
          /\ shut' = shut /\ fdtab' = fdtab
      BY Zenon
    <3>3. Holds(c)
      BY Zenon DEF OneAtATimeInv
    <3>. QED  BY ONLY Zenon, <3>1, <3>2, <3>3 DEF Holds
  <2>3. ASSUME NEW c \in Clients, fdtab[1] = c
        PROVE  (Accepted(c) \/ InTurn(c) \/ Closing(c))'
    <3>1. Accepted(c) => Accepted(c)'
      BY Zenon DEF Accepted, Silent, Told
    <3>2. InTurn(c) => InTurn(c)'
      BY Zenon DEF InTurn, Spoken, Answered, Heard, Listening, Silent, Tells, Answers, Told
    <3>3. Closing(c) => Closing(c)'
      BY Zenon DEF Closing, Told
    <3>. QED  BY Zenon, <2>3, <3>1, <3>2, <3>3 DEF OneAtATimeInv
  <2>. QED  BY Zenon, <2>1, <2>2, <2>3 DEF OneAtATimeInv
<1>2. CASE ServerStep
  BY Zenon, <1>2, AcceptInTurn, ReadResponseInTurn, CloseInTurn, NeverAllSent, NeedMoreInTurn,
     AcknOkInTurn, FinishInTurn DEF ServerStep, EventLoop, IInv
<1>3. CASE KernelStep
  BY Zenon, <1>3, RecvInTurn DEF KernelStep
<1>4. ASSUME NEW c \in Clients, ConnectStep(c) \/ ClientStep(c) \/ StrayStep(c) \/ FailStep(c)
      PROVE  OneAtATimeInv'
  BY Zenon, <1>4, ConnectInTurn, AskInTurn, MessageInTurn, LastMessageInTurn, NothingElseHappens
     DEF ClientStep, StrayStep, FailStep, MessageThread, IInv
<1>. QED  BY Zenon, <1>1, <1>2, <1>3, <1>4 DEF Next

\* Served one at a time, the clients are in turn: the inductive invariant.
THEOREM ServedInTurn ==
  ASSUME OneAtATime  PROVE Spec => []OneAtATimeInv
<1>1. IInv /\ IInv' /\ [Next]_vars /\ OneAtATimeInv => OneAtATimeInv'
  BY Zenon, OneAtATimeStep
<1>. QED  BY <1>1, OneAtATimeInit, InvariantHolds, PTL DEF Spec

ServerIsUp == server = "up"

\* Served one at a time, the event loop never ends: no handler reads an empty
\* slot or loops for ever, and read_ONLY_STATUS_response always parses an answer,
\* for as many clients as come, although all of them share descriptor 1, its
\* buffer and its counter.
THEOREM ServerStaysUp ==
  ASSUME OneAtATime  PROVE Spec => []ServerIsUp
<1>1. Init => ServerIsUp
  BY DEF Init, ServerInit, ServerIsUp
<1>2. IInv /\ IInv' /\ OneAtATimeInv /\ [Next]_vars /\ ServerIsUp => ServerIsUp'
  <2>. SUFFICES ASSUME IInv, IInv', OneAtATimeInv, [Next]_vars, server = "up"  PROVE server' = "up"
    BY Zenon DEF ServerIsUp
  <2>1. CASE OnNeedMore \/ FINISH_SENDING
    <3>1. server' \in {server, "hung", "crashed"}
      BY Zenon, <2>1 DEF OnNeedMore, FINISH_SENDING
    <3>2. server' \in {"up", "unparsed"}
      BY Zenon DEF IInv, BufferInv
    <3>. QED  BY <3>1, <3>2
  <2>2. ~OnNoResponse
    BY Zenon, NeverAllSent DEF IInv
  <2>3. CASE ServerStep
    BY Zenon, <2>1, <2>2, <2>3
       DEF ServerStep, EventLoop, OnAccept, OnReadResponse, OnClose, OnNeedMoreAllSent, OnAcknOk,
           serverVars
  <2>4. CASE ~ServerStep
    <3>1. UNCHANGED server
      BY Zenon, <2>4 DEF Next, KernelStep, RecvCompletion, RecvCompletes, RecvEnds, ConnectStep,
                         ClientStep, StrayStep, FailStep, serverVars, vars
    <3>. QED  BY Zenon, <3>1
  <2>. QED  BY Zenon, <2>3, <2>4
<1>. QED  BY <1>1, <1>2, InvariantHolds, ServedInTurn, PTL DEF Spec

\* Served one at a time, a client's block is the block the server hashes in
\* FINISH_SENDING: the resets of fill_size and of beffer_sended_N and the reuse of
\* the descriptor never give a later client other messages.
THEOREM BlocksDoAgree ==
  ASSUME OneAtATime  PROVE Spec => []BlocksAgree
<1>1. TypeOK /\ OneAtATimeInv => BlocksAgree
  <2>. SUFFICES ASSUME TypeOK, OneAtATimeInv, NEW c \in Clients, block[c]
                PROVE  msg_arr[c] = [i \in 1 .. BLOCKSIZE |-> CBUF.buffer[i - 1]]
    BY Zenon DEF BlocksAgree
  <2>1. PICK s \in Seq(Nat) : s = msg_arr[c]
    BY Zenon DEF TypeOK, ClientTypeOK
  <2>2. Len(s) = BLOCKSIZE /\ \A i \in 1 .. Len(s) : s[i] = CBUF.buffer[i - 1]
    BY Zenon, <2>1 DEF OneAtATimeInv, Holds
  <2>3. s = [i \in 1 .. Len(s) |-> s[i]]
    OBVIOUS
  <2>. QED  BY Zenon, <2>1, <2>2, <2>3
<1>. QED  BY <1>1, TypeCorrect, ServedInTurn, PTL

\* Served one at a time, the connection that OnClose shuts down, that of
\* current_client_fd, is of a client that has its block.
THEOREM ClosedAreServed ==
  ASSUME OneAtATime  PROVE Spec => []OnlyServedAreClosed
<1>1. TypeOK /\ OneAtATimeInv => OnlyServedAreClosed
  <2>. SUFFICES ASSUME TypeOK, OneAtATimeInv, NEW c \in shut  PROVE block[c]
    BY Zenon DEF OnlyServedAreClosed
  <2>. QED  BY Zenon DEF OneAtATimeInv, Holds, TypeOK, KernelTypeOK
<1>. QED  BY <1>1, TypeCorrect, ServedInTurn, PTL

\* Served one at a time, a client stops reading only with its block built: the
\* server never says ALL_BLOCK_MSG_SENDED to a client that still wants messages.
THEOREM FilledHaveBlocks ==
  ASSUME OneAtATime  PROVE Spec => []FilledMeansBlock
<1>1. OneAtATimeInv => FilledMeansBlock
  BY Zenon DEF OneAtATimeInv, Holds, FilledMeansBlock
<1>. QED  BY <1>1, ServedInTurn, PTL

\* A client served alone gets the next message of the one block, in both phases.
LEMMA StoreInOrder ==
  ASSUME OneAtATime, IInv, IInv', [Next]_vars, OneAtATimeInv, NEW c \in Clients,
         OnMessage(c) \/ OnLastMessage(c), UNCHANGED serverVars
  PROVE  D!OrderedNext
<1>1. /\ UNCHANGED CBUF /\ Len(msg_arr[c]) \in Nat /\ Len(msg_arr[c]) < BLOCKSIZE
      /\ CBUF.buffer[Len(msg_arr[c])] = Last(s2c[c]).msg /\ Last(s2c[c]).msg # NULL
  BY Zenon, StoreHolds
<1>2. msg_arr' = [msg_arr EXCEPT ![c] = Append(msg_arr[c], Last(s2c[c]).msg)]
  BY Zenon, Stored
<1>3. Len(msg_arr[c]) \in D!Slots
  BY Zenon, <1>1, BlockFits DEF Slots, D!Slots
<1>4. D!InOrder(c)
  BY Zenon, <1>1, <1>2, <1>3 DEF D!InOrder, D!Get, NULL
<1>. QED  BY Zenon, <1>4 DEF D!OrderedNext

\* Served one at a time, the exchange implements the distribution that hands out
\* every message in order for ever, for any number of clients and any sizes: the
\* sockets, the ring that repeats old operations, the counters and the reset of
\* fill_size never show.
THEOREM ExchangeDistributesInOrder ==
  ASSUME OneAtATime  PROVE Spec => DistributesInOrder
<1>1. IInv /\ IInv' /\ HandOutInv /\ OneAtATimeInv /\ [Next]_vars => [D!OrderedNext]_D!vars
  <2>. SUFFICES ASSUME IInv, IInv', HandOutInv, OneAtATimeInv, [Next]_vars
                PROVE  [D!OrderedNext]_D!vars
    OBVIOUS
  <2>1. CASE UNCHANGED <<msg_arr, CBUF>>
    BY Zenon, <2>1 DEF D!vars
  <2>2. CASE ServerStep /\ (OnNeedMore \/ FINISH_SENDING)
    <3>1. UNCHANGED msg_arr
      BY Zenon, <2>2 DEF ServerStep, clientVars
    <3>. QED  BY Zenon, <2>2, <3>1, NeedMoreDistributes, FinishDistributes
  <2>3. CASE UNCHANGED serverVars /\ \E c \in Clients : OnMessage(c) \/ OnLastMessage(c)
    BY Zenon, <2>3, StoreInOrder
  <2>4. \A c \in Clients : pc[c] \in {"start", "loop", "filled"}
    BY Zenon DEF OneAtATimeInv, Holds
  <2>5. \A c \in Clients : ~DesyncedTurn(c)
    BY <2>4 DEF DesyncedTurn
  <2>. QED  BY Zenon, <2>1, <2>2, <2>3, <2>5, BufferChanges, StoresStep
<1>. QED  BY <1>1, DistributionInit, InvariantHolds, HandOutHolds, ServedInTurn, PTL
       DEF Spec, DistributesInOrder, D!OrderedSpec
=============================================================================
