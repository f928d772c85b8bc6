------------------------- MODULE DistributionProofs -------------------------
(***************************************************************************)
(* Proof that the message exchange implements the abstract Distribution,   *)
(* for any number of clients served at once. The invariant HandOutInv says *)
(* that server and client take turns until the first ENOUGH is handled, so *)
(* that the message a client reads is the next one it needs. The lemmas    *)
(* about the queue and the other steps' turns are in the modules extended. *)
(***************************************************************************)
EXTENDS MessageExchangeSafety

\* OnAccept asks a client that is new to the server, and the accept it arms may
\* take the next from the backlog.
LEMMA AcceptTurn ==
  ASSUME IInv, FirstPhase, TurnInv, OnAccept, UNCHANGED clientVars
  PROVE  TurnInv'
<1>1. PICK fd \in Fds : /\ fd = Head(cq).res /\ cq # <<>>
                        /\ Due(Head(cq), fd)
  <2>1. cq # <<>> /\ Head(cq).ud.flag = "FLAG_ACCEPT" /\ Head(cq) \in Cqes /\ Head(cq).res \in Fds
    BY FirstPhaseFacts, EventType DEF OnAccept, NextEvent
  <2>2. Head(cq).ud = AcceptData
    BY <2>1 DEF Cqes, ClientData
  <2>. QED  BY <2>1, <2>2 DEF Due
<1>2. PICK c \in Clients : /\ fdtab[fd] = c /\ TurnOf(fd, c)
                           /\ s2c[c] = <<>> /\ c2s[c] = <<>>
                           /\ beffer_sended_N[fd] = Len(msg_arr[c])
                           /\ ~Has(Tail(cq), fd)
  BY Zenon, <1>1, DueClient
<1>3. PICK ask \in Messages : ask = Status("ASK_NEED_MSG") /\ ask.status # "MESSAGE_SENDED"
  <2>1. Status("ASK_NEED_MSG") \in Messages
    BY StatusType DEF ServerStatus
  <2>2. Status("ASK_NEED_MSG").status # "MESSAGE_SENDED"
    BY DEF Status
  <2>. QED  BY Zenon, <2>1, <2>2
<1>4. /\ \A d \in Clients : d # c => s2c'[d] = s2c[d]
      /\ \A j \in 1 .. Len(s2c'[c]) : s2c'[c][j] = ask
  <2>1. s2c' = Sent(fd, ask) /\ TypeOK
    BY Zenon, <1>1, <1>3, FirstPhaseFacts DEF OnAccept
  <2>2. \A j \in 1 .. Len(s2c[c]) : FALSE
    BY <1>2
  <2>3. \A d \in Clients : fdtab[fd] # d => s2c'[d] = s2c[d]
    BY Zenon, <2>1, SentElements
  <2>4. \A j \in 1 .. Len(s2c'[c]) : s2c'[c][j] = ask
    BY Zenon, <2>1, <2>2, SentElements
  <2>. QED  BY Zenon, <1>2, <2>3, <2>4
<1>5. UNCHANGED <<recvs, c2s, msg_arr, beffer_sended_N>>
  BY Zenon DEF OnAccept, clientVars
<1>6. PICK e \in Cqes : /\ e = Cqe(make_request_data(fd, "READ_RESPONSE"), 1)
                        /\ \A f \in Fds : ~Due(e, f)
  <2>1. Cqe(make_request_data(fd, "READ_RESPONSE"), 1) \in Cqes
    BY DEF Cqe, Cqes, ClientData, make_request_data
  <2>. QED  BY Zenon, <2>1, DueOf
<1>7. cq' = Tail(cq) \o AcceptCqes(AcceptData) \o <<e>>
  BY Zenon, <1>1, <1>6 DEF OnAccept
<1>8. ~Has(cq', fd) => TurnOf(fd, c)'
  BY Zenon, <1>2, <1>3, <1>4, <1>5 DEF TurnOf
<1>9. \A f, h \in Fds : fdtab'[f] = fdtab'[h] /\ fdtab'[f] # NoClient => f = h
  BY Zenon, AcceptKeepsFirstPhase DEF FirstPhaseInv, DescriptorInv
<1>10. CASE backlog = <<>>
  <2>1. cq' = Tail(cq) \o <<e>> /\ fdtab' = fdtab
    <3>1. Tail(cq) \in Seq(Cqes) /\ AcceptCqes(AcceptData) = <<>>
      BY <1>1, <1>10, FirstPhaseFacts DEF AcceptCqes
    <3>2. Tail(cq) \o <<>> = Tail(cq)
      BY <3>1
    <3>. QED  BY Zenon, <1>7, <1>10, <3>1, <3>2 DEF OnAccept, ArmAccept
  <2>2. \A f \in Fds : /\ Once(cq', f) /\ (Has(cq', f) => Has(cq, f))
                       /\ Due(Head(cq), f) => ~Has(cq', f)
    BY Zenon, <1>1, <1>6, <2>1, NextTurn
  <2>3. TurnOf(fd, c)' /\ UNCHANGED fdtab /\ \A f \in Fds : Once(cq', f)
    BY Zenon, <1>1, <1>8, <2>1, <2>2
  <2>4. \A f \in Fds : f # fd => /\ Has(cq', f) => Has(cq, f)
                                 /\ beffer_sended_N'[f] = beffer_sended_N[f]
    BY Zenon, <1>2, <1>4, <1>5, <2>2
  <2>5. \A d \in Clients : d # c => /\ recvs'[d] = recvs[d] /\ s2c'[d] = s2c[d]
                                    /\ c2s'[d] = c2s[d] /\ msg_arr'[d] = msg_arr[d]
    BY Zenon, <1>4, <1>5
  <2>. QED  BY Zenon, <1>1, <1>2, <2>3, <2>4, <2>5, OwnTurn
<1>11. CASE backlog # <<>>
  <2>1. PICK b \in Clients, g \in Fds : /\ fdtab[g] = NoClient
                                        /\ \A f \in Fds : fdtab[f] # b
                                        /\ fdtab' = [fdtab EXCEPT ![g] = b]
                                        /\ g = LowestFreeFd
    <3>0. backlog \in Seq(Clients)
      BY Zenon, FirstPhaseFacts
    <3>1. Head(backlog) \in Clients /\ Head(backlog) = backlog[1] /\ 1 \in 1 .. Len(backlog)
      BY <1>11, <3>0
    <3>2. FreeFds # {} /\ fdtab' = [fdtab EXCEPT ![LowestFreeFd] = Head(backlog)]
      BY Zenon, <1>11 DEF OnAccept, ArmAccept
    <3>3. \A f \in Fds : fdtab[f] # backlog[1]
      BY Zenon, <3>1, FirstPhaseFacts DEF FirstPhaseInv, DescriptorInv
    <3>. QED  BY Zenon, <3>1, <3>2, <3>3, FreeFdType, FirstPhaseFacts
  <2>2. /\ g # fd /\ b # c /\ fdtab'[g] = b
        /\ \A f \in Fds : f # g => fdtab'[f] = fdtab[f]
    BY <1>2, <2>1, SocketsAssumption, FirstPhaseFacts
  <2>3. TurnOf(g, b)' /\ ~Has(cq, g)
    BY Zenon, <1>4, <1>5, <2>1, <2>2, FreshTurn
  <2>4. PICK a \in Cqes : /\ a = Cqe(AcceptData, g)
                          /\ \A f \in Fds : Due(a, f) <=> f = g
    <3>1. Cqe(AcceptData, g) \in Cqes
      BY DEF Cqe, Cqes
    <3>2. \A f \in Fds : Due(Cqe(AcceptData, g), f) <=> f = g
      BY Zenon, DueOf
    <3>. QED  BY Zenon, <3>1, <3>2
  <2>5. PICK q : q = Tail(cq)
    BY Zenon
  <2>6. /\ q \in Seq(Cqes)
        /\ \A f \in Fds : /\ Once(q, f)
                          /\ Has(q, f) => Has(cq, f)
                          /\ Due(Head(cq), f) => ~Has(q, f)
    BY Zenon, <1>1, <2>5, TailDue, FirstPhaseFacts DEF TurnInv
  <2>7. PICK r : r = Append(q, a)
    BY Zenon
  <2>8. /\ r \in Seq(Cqes)
        /\ \A f \in Fds : /\ Once(r, f)
                          /\ Has(r, f) => Has(q, f) \/ f = g
    BY <2>3, <2>4, <2>6, <2>7, AppendDue
  <2>9. PICK s : s = Append(r, e)
    BY Zenon
  <2>10. \A f \in Fds : /\ Once(s, f)
                        /\ Has(s, f) => Has(r, f)
    BY <1>6, <2>8, <2>9, AppendDue
  <2>11. cq' = s
    <3>1. AcceptCqes(AcceptData) = <<a>>
      BY <1>11, <2>1, <2>4 DEF AcceptCqes
    <3>2. cq' = q \o <<a>> \o <<e>>
      BY Zenon, <1>7, <2>5, <3>1
    <3>3. q \o <<a>> = r
      BY <2>4, <2>6, <2>7, ConcatAppend
    <3>4. r \o <<e>> = s
      BY <2>8, <2>9, ConcatAppend
    <3>. QED  BY Zenon, <3>2, <3>3, <3>4
  <2>12. /\ \A f \in Fds : Once(cq', f)
         /\ \A f \in Fds : Has(cq', f) => Has(cq, f) \/ f = g
         /\ ~Has(cq', fd)
    BY <1>1, <2>2, <2>6, <2>8, <2>10, <2>11
  <2>13. PICK F \in SUBSET Fds : F = {fd, g}
    OBVIOUS
  <2>14. /\ \A f \in Fds \ F : f # fd /\ f # g
         /\ \A f \in F : /\ fdtab[f] \in {NoClient, fdtab'[f]}
                         /\ \E d \in Clients : fdtab'[f] = d /\ TurnOf(f, d)'
         /\ \A d \in Clients : (\A f \in F : fdtab'[f] # d) => d # c
    BY Zenon, <1>2, <1>8, <2>1, <2>2, <2>3, <2>12, <2>13
  <2>. QED  BY Zenon, <1>4, <1>5, <1>9, <2>2, <2>12, <2>14, TurnStep
<1>. QED  BY Zenon, <1>10, <1>11

\* A client connects: an accept that waits gives the server its turn.
LEMMA ConnectTurn ==
  ASSUME IInv, FirstPhase, TurnInv, NEW c \in Clients, ConnectStep(c)
  PROVE  TurnInv'
<1>1. /\ Connected(c) /\ \A f \in Fds : fdtab[f] # c
      /\ UNCHANGED <<recvs, s2c, c2s, msg_arr, beffer_sended_N>>
  BY Zenon, FirstPhaseFacts
     DEF ConnectStep, Connect, serverSide, serverVars, FirstPhaseInv, DescriptorInv
<1>2. CASE accepts = <<>>
  <2>1. UNCHANGED <<fdtab, cq>>
    BY Zenon, <1>1, <1>2 DEF Connected
  <2>. QED  BY Zenon, <1>1, <2>1, QuietTurn DEF TurnInv
<1>3. CASE accepts # <<>>
  <2>1. PICK g \in Fds : g = LowestFreeFd /\ fdtab[g] = NoClient
    BY Zenon, <1>1, <1>3, FreeFdType, FirstPhaseFacts DEF Connected
  <2>2. Head(accepts) = AcceptData
    <3>1. accepts \in Seq(PendingAccepts) /\ \A i \in 1 .. Len(accepts) : accepts[i] = AcceptData
      BY Zenon, FirstPhaseFacts DEF TypeOK, KernelTypeOK, FirstPhaseInv, DescriptorInv
    <3>. QED  BY <1>3, <3>1
  <2>3. PICK a \in Cqes : /\ a = Cqe(AcceptData, g)
                          /\ \A f \in Fds : Due(a, f) <=> f = g
    <3>1. Cqe(AcceptData, g) \in Cqes
      BY DEF Cqe, Cqes
    <3>2. \A f \in Fds : Due(Cqe(AcceptData, g), f) <=> f = g
      BY Zenon, DueOf
    <3>. QED  BY Zenon, <3>1, <3>2
  <2>4. cq' = Append(cq, a) /\ fdtab' = [fdtab EXCEPT ![g] = c]
    BY Zenon, <1>1, <1>3, <2>1, <2>2, <2>3 DEF Connected
  <2>5. TurnOf(g, c)' /\ ~Has(cq, g)
    BY Zenon, <1>1, <2>1, FreshTurn
  <2>6. \A f \in Fds : Once(Append(cq, a), f) /\ (Has(Append(cq, a), f) => Has(cq, f) \/ f = g)
    BY Zenon, <2>3, <2>5, AppendDue, FirstPhaseFacts DEF TurnInv
  <2>7. \A f \in Fds : Once(cq', f) /\ (Has(cq', f) => Has(cq, f) \/ f = g)
    BY <2>4, <2>6
  <2>8. PICK F \in SUBSET Fds : F = {g}
    OBVIOUS
  <2>9. fdtab'[g] = c /\ \A f \in Fds : f # g => fdtab'[f] = fdtab[f]
    BY Zenon, <2>4, FirstPhaseFacts
  <2>10. /\ \A f \in Fds \ F : f # g
         /\ \A f \in F : /\ fdtab[f] \in {NoClient, fdtab'[f]}
                         /\ \E d \in Clients : fdtab'[f] = d /\ TurnOf(f, d)'
    BY Zenon, <2>1, <2>5, <2>8, <2>9
  <2>11. \A f, h \in Fds : fdtab'[f] = fdtab'[h] /\ fdtab'[f] # NoClient => f = h
    BY Zenon, ConnectKeepsFirstPhase DEF FirstPhaseInv, DescriptorInv
  <2>. QED  BY Zenon, <1>1, <2>7, <2>9, <2>10, <2>11, TurnStep
<1>. QED  BY Zenon, <1>2, <1>3

----------------------------------------------------------------------------
\* The answer the event loop handles is due.
LEMMA AnswerIsDue ==
  ASSUME IInv, NEW st, NextStatus(st)
  PROVE  client_fd \in Fds /\ Due(Head(cq), client_fd) /\ cq # <<>>
<1>1. /\ cq # <<>> /\ Head(cq).ud.flag = "TEST_RESPONSE" /\ Head(cq) \in Cqes /\ Head(cq).res > 0
      /\ client_fd \in Fds
  BY EventType DEF NextStatus, NextEvent, IInv
<1>2. Head(cq).ud = [fd |-> client_fd, flag |-> "TEST_RESPONSE"]
  BY <1>1 DEF Cqes, ClientData, client_fd, AcceptData, make_request_data
<1>. QED  BY <1>1, <1>2 DEF Due, Answer, make_request_data

\* What OnNeedMore sends, in both phases: a message of the buffer, which is the
\* next one of the client's counter.
LEMMA MessageSent ==
  ASSUME IInv, OnNeedMore
  PROVE  \E n \in Nat, m \in Messages :
           /\ n = beffer_sended_N[client_fd] /\ n + 1 \in Nat
           /\ n \in Slots /\ (FirstPhase => n <= CBUF.fill_size)
           /\ m.status = "MESSAGE_SENDED"
           /\ m.msg = CBUF'.buffer[n] /\ CBUF'.buffer[n] # NULL
           /\ SendFromBuffer(client_fd, m)
           /\ CBUF' = GET_nth_circ_buf(CBUF, n)
           /\ beffer_sended_N' = [beffer_sended_N EXCEPT ![client_fd] = n + 1]
<1>1. PICK n \in Nat : /\ n = beffer_sended_N[client_fd] /\ n < N_MESSAGES
                       /\ FirstPhase => n <= CBUF.fill_size
  BY Zenon, NeedMoreIndex DEF OnNeedMore
<1>2. PICK filled : filled = GET_nth_circ_buf(CBUF, n)
  BY Zenon
<1>3. GET_nth_terminates(CBUF, n) /\ Loaded(filled, n)
  BY Zenon, <1>1, <1>2, GetNth DEF IInv
<1>4. PICK m : m = [status |-> "MESSAGE_SENDED", msg |-> filled.buffer[n]]
  BY Zenon
<1>5. /\ CBUF' = filled
      /\ SendFromBuffer(client_fd, m)
      /\ beffer_sended_N' = [beffer_sended_N EXCEPT ![client_fd] = n + 1]
  BY Zenon, <1>1, <1>2, <1>3, <1>4 DEF OnNeedMore
<1>6. n \in Slots /\ n + 1 \in Nat
  BY <1>1, ServerAssumption, CircBufAssumption DEF Slots
<1>7. filled \in CircBufs
  BY Zenon, <1>2, <1>3, CircBufType DEF IInv, TypeOK, ServerTypeOK
<1>8. filled.buffer[n] \in Nat /\ filled.buffer[n] # NULL
  BY <1>3, <1>6, <1>7 DEF CircBufs, Loaded
<1>9. m \in Messages /\ m.status = "MESSAGE_SENDED" /\ m.msg = filled.buffer[n]
  BY <1>4, <1>8 DEF Messages, ServerStatus
<1>. QED  BY Zenon, <1>1, <1>2, <1>5, <1>6, <1>8, <1>9

\* What the event loop does in the first phase, when the phase goes on.
LEMMA ServerTurn ==
  ASSUME IInv, FirstPhase, TurnInv, ServerStep, FirstPhase'
  PROVE  TurnInv'
<1>0. UNCHANGED clientVars
  BY Zenon DEF ServerStep
<1>1. ~OnClose /\ ~FINISH_SENDING
  BY Zenon, PhaseGoesOn
<1>2. CASE OnNeedMoreAllSent \/ OnAcknOk
  <2>1. PICK st \in {"ALL_BLOCK_MSG_SENDED", "ASK_NEED_MSG"} :
           /\ \E s : NextStatus(s)
           /\ SendFromBuffer(client_fd, Status(st))
           /\ UNCHANGED <<recvs, fdtab, c2s, beffer_sended_N>>
    BY Zenon, <1>2 DEF OnNeedMoreAllSent, OnAcknOk
  <2>2. client_fd \in Fds /\ Due(Head(cq), client_fd) /\ cq # <<>>
    BY Zenon, <2>1, AnswerIsDue
  <2>3. PICK m \in Messages : m = Status(st) /\ m.status # "MESSAGE_SENDED"
    <3>1. Status(st) \in Messages
      BY <2>1, StatusType DEF ServerStatus
    <3>2. Status(st).status # "MESSAGE_SENDED"
      BY <2>1 DEF Status
    <3>. QED  BY Zenon, <3>1, <3>2
  <2>4. PICK k \in Nat : k = beffer_sended_N[client_fd]
    BY <2>2, FirstPhaseFacts
  <2>5. beffer_sended_N' = [beffer_sended_N EXCEPT ![client_fd] = k]
    BY <2>1, <2>2, <2>4, FirstPhaseFacts
  <2>. QED  BY Zenon, <1>0, <2>1, <2>2, <2>3, <2>4, <2>5, SendTurn DEF clientVars
<1>3. CASE OnNeedMore
  <2>1. PICK n \in Nat, m \in Messages :
           /\ n = beffer_sended_N[client_fd] /\ n + 1 \in Nat
           /\ m.status = "MESSAGE_SENDED"
           /\ SendFromBuffer(client_fd, m)
           /\ beffer_sended_N' = [beffer_sended_N EXCEPT ![client_fd] = n + 1]
    BY Zenon, <1>3, MessageSent
  <2>2. client_fd \in Fds /\ Due(Head(cq), client_fd) /\ cq # <<>>
    BY Zenon, <1>3, AnswerIsDue DEF OnNeedMore
  <2>3. UNCHANGED <<recvs, fdtab, c2s>>
    BY Zenon, <1>3 DEF OnNeedMore
  <2>. QED  BY Zenon, <1>0, <2>1, <2>2, <2>3, SendTurn DEF clientVars
<1>. QED  BY Zenon, <1>0, <1>1, <1>2, <1>3, AcceptTurn, ReadResponseTurn, NoResponseTurn
       DEF ServerStep, EventLoop

----------------------------------------------------------------------------
\* What a step puts into a buffer: an answer it has received, or a message of
\* the server's. In both phases.
LEMMA BuffersStep ==
  ASSUME IInv, [Next]_vars, NEW f \in Fds
  PROVE  \/ buffers'[f] = buffers[f]
         \/ \E c \in Clients : \E i \in 1 .. Len(c2s[c]) : buffers'[f] = c2s[c][i]
         \/ OfBlock(buffers[f])' /\ buffers'[f].status # "ENOUGH"
<1>0. TypeOK /\ buffers \in [Fds -> Messages]
  BY DEF IInv, TypeOK, ServerTypeOK
<1>1. ASSUME NEW fd \in Fds, NEW m, buffers' = [buffers EXCEPT ![fd] = m]
      PROVE  buffers'[f] \in {buffers[f], m}
  BY Zenon, <1>0, <1>1
<1>2. CASE UNCHANGED buffers
  BY Zenon, <1>2
<1>3. CASE OnAccept
  <2>1. Head(cq).res \in Fds
    BY Zenon, <1>0, <1>3, EventType DEF OnAccept, NextEvent
  <2>2. buffers' = [buffers EXCEPT ![Head(cq).res] = Status("ASK_NEED_MSG")]
    BY Zenon, <1>3 DEF OnAccept
  <2>. QED  BY <1>1, <2>1, <2>2 DEF Status, OfBlock
<1>4. CASE OnNeedMoreAllSent \/ OnAcknOk
  <2>1. PICK st \in {"ALL_BLOCK_MSG_SENDED", "ASK_NEED_MSG"} :
           /\ \E s : NextStatus(s)
           /\ buffers' = [buffers EXCEPT ![client_fd] = Status(st)]
    BY Zenon, <1>4 DEF OnNeedMoreAllSent, OnAcknOk, SendFromBuffer
  <2>2. client_fd \in Fds
    BY Zenon, <2>1, AnswerIsDue
  <2>. QED  BY <1>1, <2>1, <2>2 DEF Status, OfBlock
<1>5. CASE OnNeedMore
  <2>1. PICK n \in Nat, m \in Messages :
           /\ n \in Slots /\ m.status = "MESSAGE_SENDED"
           /\ m.msg = CBUF'.buffer[n] /\ CBUF'.buffer[n] # NULL
           /\ buffers' = [buffers EXCEPT ![client_fd] = m]
    BY Zenon, <1>5, MessageSent DEF SendFromBuffer
  <2>2. client_fd \in Fds
    BY Zenon, <1>5, AnswerIsDue DEF OnNeedMore
  <2>3. CASE buffers'[f] = m
    BY <2>1, <2>3 DEF OfBlock, Made
  <2>. QED  BY Zenon, <1>1, <2>1, <2>2, <2>3
<1>6. CASE KernelStep
  <2>1. PICK c \in Clients : \E i \in 1 .. Len(recvs[c]) : RecvCompletes(c, i) \/ RecvEnds(c, i)
    BY Zenon, <1>6 DEF KernelStep, RecvCompletion
  <2>2. PICK i \in 1 .. Len(recvs[c]) : RecvCompletes(c, i) \/ RecvEnds(c, i)
    BY Zenon, <2>1
  <2>3. CASE RecvEnds(c, i)
    BY Zenon, <1>2, <2>3 DEF RecvEnds, serverVars
  <2>4. CASE RecvCompletes(c, i)
    <3>1. c2s[c] \in Seq(Messages) /\ recvs[c] \in Seq(PendingRecvs) /\ c2s[c] # <<>>
      BY Zenon, <1>0, <2>4 DEF TypeOK, KernelTypeOK, RecvCompletes
    <3>2. recvs[c][i].buf \in Fds
      <4>1. recvs[c][i] \in PendingRecvs
        BY <3>1
      <4>. QED  BY <4>1 DEF PendingRecvs
    <3>3. Len(c2s[c]) \in 1 .. Len(c2s[c])
      BY <3>1
    <3>4. buffers' = [buffers EXCEPT ![recvs[c][i].buf] = Last(c2s[c])]
      BY Zenon, <2>4 DEF RecvCompletes
    <3>5. buffers'[f] \in {buffers[f], Last(c2s[c])}
      BY Zenon, <1>1, <3>2, <3>4
    <3>. QED  BY Zenon, <3>3, <3>5 DEF Last
  <2>. QED  BY Zenon, <2>2, <2>3, <2>4
<1>7. UNCHANGED buffers \/ OnAccept \/ OnNeedMoreAllSent \/ OnAcknOk \/ OnNeedMore \/ KernelStep
  <2>1. CASE ServerStep
    BY Zenon, <2>1 DEF ServerStep, EventLoop, OnReadResponse, OnClose, FINISH_SENDING, OnNoResponse,
                       serverVars
  <2>2. CASE ~ServerStep
    BY Zenon, <2>2 DEF Next, ConnectStep, ClientStep, StrayStep, FailStep, serverVars, vars
  <2>. QED  BY Zenon, <2>1, <2>2
<1>. QED  BY Zenon, <1>2, <1>3, <1>4, <1>5, <1>6, <1>7

\* What a step sends the server.
LEMMA AnswersStep ==
  ASSUME IInv, [Next]_vars, NEW c \in Clients, NEW j \in 1 .. Len(c2s'[c])
  PROVE  \/ \E i \in 1 .. Len(c2s[c]) : c2s'[c][j] = c2s[c][i]
         \/ /\ c2s'[c][j].status \in ClientStatus
            /\ c2s'[c][j].status = "ENOUGH" => OnLastMessage(c) \/ DesyncedTurn(c)
<1>0. c2s \in [Clients -> Seq(Messages)]
  BY DEF IInv, TypeOK, KernelTypeOK
<1>1. CASE c2s'[c] = c2s[c]
  BY Zenon, <1>1
<1>2. CASE c2s'[c] = <<>>
  BY <1>2
<1>3. ASSUME NEW d \in Clients, NEW a \in ClientStatus, send_STATUS(d, a),
             a = "ENOUGH" => OnLastMessage(d) \/ DesyncedTurn(d)
      PROVE  \/ \E i \in 1 .. Len(c2s[c]) : c2s'[c][j] = c2s[c][i]
             \/ /\ c2s'[c][j].status \in ClientStatus
                /\ c2s'[c][j].status = "ENOUGH" => OnLastMessage(c) \/ DesyncedTurn(c)
  <2>1. PICK m : m = Status(a)
    BY Zenon
  <2>2. c2s'[c] = c2s[c] \/ (c2s'[c] = Append(c2s[c], m) /\ d = c)
    BY Zenon, <1>0, <1>3, <2>1 DEF send_STATUS, Deliver
  <2>3. m.status = a
    BY <2>1 DEF Status
  <2>4. ASSUME c2s'[c] = Append(c2s[c], m)
        PROVE  (\E i \in 1 .. Len(c2s[c]) : c2s'[c][j] = c2s[c][i]) \/ c2s'[c][j] = m
    <3>1. PICK q \in Seq(Messages) : q = c2s[c]
      BY Zenon, <1>0
    <3>2. \A k \in 1 .. Len(Append(q, m)) :
            (\E i \in 1 .. Len(q) : Append(q, m)[k] = q[i]) \/ Append(q, m)[k] = m
      OBVIOUS
    <3>. QED  BY Zenon, <2>4, <3>1, <3>2
  <2>. QED  BY Zenon, <1>1, <1>3, <2>2, <2>3, <2>4
<1>4. CASE ServerStep \/ UNCHANGED vars
  <2>1. c2s' = c2s
    BY Zenon, <1>4 DEF ServerStep, EventLoop, OnAccept, OnReadResponse, OnClose, OnNeedMoreAllSent,
              OnNeedMore, OnAcknOk, FINISH_SENDING, OnNoResponse, vars, kernelVars
  <2>. QED  BY Zenon, <1>1, <2>1
<1>5. CASE KernelStep
  <2>1. PICK d \in Clients : c2s' = c2s \/ c2s' = [c2s EXCEPT ![d] = <<>>]
    BY Zenon, <1>5 DEF KernelStep, RecvCompletion, RecvCompletes, RecvEnds
  <2>. QED  BY Zenon, <1>0, <1>1, <1>2, <2>1
<1>6. ASSUME NEW d \in Clients, ConnectStep(d) \/ ClientStep(d) \/ StrayStep(d) \/ FailStep(d)
      PROVE  \/ c2s' = c2s
             \/ \E a \in ClientStatus : /\ send_STATUS(d, a)
                                        /\ a = "ENOUGH" => OnLastMessage(d) \/ DesyncedTurn(d)
  <2>1. CASE OnAsk(d) \/ OnMessage(d) \/ OnLastMessage(d) \/ OnAllSent(d)
    BY <2>1 DEF OnAsk, OnMessage, OnLastMessage, OnAllSent, ClientStatus
  <2>2. CASE DesyncedTurn(d)
    <3>1. {"NEED_MORE", "ALL_BLOCK_RECEIVED", "ACKN_OK", "ENOUGH"} \subseteq ClientStatus
      BY DEF ClientStatus
    <3>. QED  BY Zenon, <2>2, <3>1 DEF DesyncedTurn, Dies
  <2>. QED  BY Zenon, <1>6, <2>1, <2>2
         DEF ConnectStep, Connect, ClientStep, StrayStep, FailStep, MessageThread, OnOtherStatus,
             UnpackFails, Fail, Dies
<1>. QED  BY Zenon, <1>1, <1>3, <1>4, <1>5, <1>6 DEF Next

\* What a step sends a client: a message of the block or a status, or, repeated
\* by FINISH_SENDING, what a buffer holds.
LEMMA SendsStep ==
  ASSUME IInv, [Next]_vars, NEW c \in Clients, NEW j \in 1 .. Len(s2c'[c])
  PROVE  \/ \E i \in 1 .. Len(s2c[c]) : s2c'[c][j] = s2c[c][i]
         \/ \E f \in Fds : s2c'[c][j] = buffers[f]
         \/ OfBlock(s2c[c][j])'
<1>0. TypeOK /\ s2c \in [Clients -> Seq(Messages)]
  BY DEF IInv, TypeOK, KernelTypeOK
<1>1. CASE s2c'[c] = s2c[c]
  BY Zenon, <1>1
<1>2. CASE s2c'[c] = <<>>
  BY <1>2
<1>3. ASSUME NEW fd \in Fds, NEW m \in Messages, s2c' = Sent(fd, m)
      PROVE  (\E i \in 1 .. Len(s2c[c]) : s2c'[c][j] = s2c[c][i]) \/ s2c'[c][j] = m
  BY Zenon, <1>0, <1>3, SentElements
<1>4. ASSUME NEW fd \in Fds, NEW st \in ServerStatus \cup {"GARBLED"}, st # "MESSAGE_SENDED",
             s2c' = Sent(fd, Status(st))
      PROVE  (\E i \in 1 .. Len(s2c[c]) : s2c'[c][j] = s2c[c][i]) \/ OfBlock(s2c[c][j])'
  <2>1. Status(st) \in Messages
    BY Zenon, StatusType
  <2>2. CASE s2c'[c][j] = Status(st)
    BY <1>4, <2>2 DEF Status, OfBlock
  <2>. QED  BY Zenon, <1>3, <1>4, <2>1, <2>2
<1>5. CASE OnAccept
  <2>1. Head(cq).res \in Fds
    BY Zenon, <1>0, <1>5, EventType DEF OnAccept, NextEvent
  <2>2. s2c' = Sent(Head(cq).res, Status("ASK_NEED_MSG"))
    BY Zenon, <1>5 DEF OnAccept
  <2>. QED  BY <1>4, <2>1, <2>2 DEF ServerStatus
<1>6. CASE OnNeedMoreAllSent \/ OnAcknOk
  <2>1. PICK st \in {"ALL_BLOCK_MSG_SENDED", "ASK_NEED_MSG"} :
           (\E s : NextStatus(s)) /\ s2c' = Sent(client_fd, Status(st))
    BY Zenon, <1>6 DEF OnNeedMoreAllSent, OnAcknOk, SendFromBuffer
  <2>2. client_fd \in Fds
    BY Zenon, <2>1, AnswerIsDue
  <2>. QED  BY <1>4, <2>1, <2>2 DEF ServerStatus
<1>7. CASE OnNeedMore
  <2>1. PICK n \in Nat, m \in Messages :
           /\ n \in Slots /\ m.status = "MESSAGE_SENDED"
           /\ m.msg = CBUF'.buffer[n] /\ CBUF'.buffer[n] # NULL
           /\ s2c' = Sent(client_fd, m)
    BY Zenon, <1>7, MessageSent DEF SendFromBuffer
  <2>2. client_fd \in Fds
    BY Zenon, <1>7, AnswerIsDue DEF OnNeedMore
  <2>3. CASE s2c'[c][j] = m
    BY <2>1, <2>3 DEF OfBlock, Made
  <2>. QED  BY Zenon, <1>3, <2>1, <2>2, <2>3
<1>8. CASE FINISH_SENDING
  <2>1. \/ s2c' = s2c
        \/ /\ sqes[sqTail].op = "SEND"
           /\ \E m \in {buffers[sqes[sqTail].fd], Status("GARBLED")} : s2c' = Sent(sqes[sqTail].fd, m)
    BY Zenon, <1>8 DEF FINISH_SENDING
  <2>2. sqes[sqTail] \in Ops /\ buffers \in [Fds -> Messages]
    BY <1>0 DEF TypeOK, KernelTypeOK, ServerTypeOK
  <2>3. CASE s2c' = s2c
    BY Zenon, <1>1, <2>3
  <2>4. CASE s2c' # s2c
    <3>1. PICK fd \in Fds : \E m \in {buffers[fd], Status("GARBLED")} : s2c' = Sent(fd, m)
      <4>1. sqes[sqTail].fd \in Fds
        BY <2>1, <2>2, <2>4 DEF Ops
      <4>. QED  BY Zenon, <2>1, <2>4, <4>1
    <3>2. CASE s2c' = Sent(fd, buffers[fd])
      <4>1. buffers[fd] \in Messages
        BY Zenon, <2>2
      <4>. QED  BY Zenon, <1>3, <3>2, <4>1
    <3>3. CASE s2c' = Sent(fd, Status("GARBLED"))
      BY <1>4, <3>3
    <3>. QED  BY Zenon, <3>1, <3>2, <3>3
  <2>. QED  BY Zenon, <2>3, <2>4
<1>9. CASE OnReadResponse \/ OnClose \/ OnNoResponse \/ KernelStep \/ UNCHANGED vars
  <2>1. s2c' = s2c
    BY Zenon, <1>9 DEF OnReadResponse, OnClose, OnNoResponse, KernelStep, RecvCompletion, RecvCompletes,
              RecvEnds, vars, kernelVars
  <2>. QED  BY Zenon, <1>1, <2>1
<1>10. ASSUME NEW d \in Clients, ConnectStep(d) \/ ClientStep(d) \/ StrayStep(d) \/ FailStep(d)
       PROVE  s2c' = s2c \/ s2c' = [s2c EXCEPT ![d] = <<>>]
  BY Zenon, <1>10
     DEF ConnectStep, Connect, ClientStep, StrayStep, FailStep, MessageThread, OnAsk, OnMessage,
         OnLastMessage, OnAllSent, OnOtherStatus, UnpackFails, Fail, DesyncedTurn, Dies, Received
<1>11. ASSUME NEW d \in Clients, ConnectStep(d) \/ ClientStep(d) \/ StrayStep(d) \/ FailStep(d)
       PROVE  s2c'[c] = s2c[c] \/ s2c'[c] = <<>>
  BY Zenon, <1>0, <1>10, <1>11
<1>. QED  BY Zenon, <1>1, <1>2, <1>5, <1>6, <1>7, <1>8, <1>9, <1>11 DEF Next, ServerStep, EventLoop

\* A message of the block stays one.
LEMMA MadeKept ==
  ASSUME IInv, IInv', [Next]_vars
  PROVE  /\ \A m : Made(m) => \E n \in Slots : CBUF'.buffer[n] # NULL /\ CBUF'.buffer[n] = m
         /\ \A m : OfBlock(m) => \/ m.status # "MESSAGE_SENDED"
                                 \/ \E n \in Slots : CBUF'.buffer[n] # NULL /\ CBUF'.buffer[n] = m.msg
BY Zenon, MessagesKept DEF OfBlock, Made

\* Who stores a message, and which: the last that came, or, out of step with its
\* connection, one that came before.
LEMMA StoresStep ==
  ASSUME [Next]_vars
  PROVE  \/ UNCHANGED msg_arr
         \/ /\ UNCHANGED serverVars
            /\ \E c \in Clients :
                 \/ OnMessage(c) \/ OnLastMessage(c)
                 \/ /\ DesyncedTurn(c) /\ Len(msg_arr[c]) < BLOCKSIZE
                    /\ \E m \in Known(c) : msg_arr' = [msg_arr EXCEPT ![c] = Append(msg_arr[c], m)]
<1>1. ASSUME NEW c \in Clients, ConnectStep(c) \/ ClientStep(c) \/ StrayStep(c) \/ FailStep(c)
      PROVE  \/ UNCHANGED msg_arr
             \/ UNCHANGED serverVars /\ (OnMessage(c) \/ OnLastMessage(c) \/ DesyncedTurn(c))
  BY Zenon, <1>1
     DEF ConnectStep, Connect, ClientStep, StrayStep, FailStep, MessageThread, OnAsk,
         OnAllSent, OnOtherStatus, UnpackFails, Fail, Dies, clientVars
<1>2. ServerStep \/ KernelStep \/ UNCHANGED vars => UNCHANGED msg_arr
  BY Zenon DEF ServerStep, KernelStep, vars, clientVars
<1>3. ASSUME NEW c \in Clients, DesyncedTurn(c)
      PROVE  \/ UNCHANGED msg_arr
             \/ /\ Len(msg_arr[c]) < BLOCKSIZE
                /\ \E m \in Known(c) : msg_arr' = [msg_arr EXCEPT ![c] = Append(msg_arr[c], m)]
  BY Zenon, <1>3 DEF DesyncedTurn, Dies, clientVars
<1>. QED  BY Zenon, <1>1, <1>2, <1>3 DEF Next

\* What a client that stores a message had, and has.
LEMMA Stored ==
  ASSUME IInv, NEW c \in Clients, OnMessage(c) \/ OnLastMessage(c)
  PROVE  /\ Received(c, "MESSAGE_SENDED")
         /\ Last(s2c[c]).msg \in Nat
         /\ Len(msg_arr[c]) < BLOCKSIZE
         /\ msg_arr' = [msg_arr EXCEPT ![c] = Append(msg_arr[c], Last(s2c[c]).msg)]
         /\ Len(msg_arr'[c]) = Len(msg_arr[c]) + 1
         /\ msg_arr'[c][Len(msg_arr[c]) + 1] = Last(s2c[c]).msg
         /\ \A i \in 1 .. Len(msg_arr[c]) : msg_arr'[c][i] = msg_arr[c][i]
<1>0. /\ msg_arr \in [Clients -> Seq(Nat)] /\ s2c \in [Clients -> Seq(Messages)]
      /\ BLOCKSIZE \in Nat
  BY ClientAssumption DEF IInv, TypeOK, ClientTypeOK, KernelTypeOK
<1>1. /\ Received(c, "MESSAGE_SENDED")
      /\ msg_arr' = [msg_arr EXCEPT ![c] = Append(msg_arr[c], Last(s2c[c]).msg)]
  BY Zenon DEF OnMessage, OnLastMessage
<1>2. Len(msg_arr[c]) < BLOCKSIZE
  BY <1>0 DEF OnMessage, OnLastMessage
<1>3. Last(s2c[c]).msg \in Nat
  <2>1. Last(s2c[c]) \in Messages
    BY <1>0, <1>1 DEF Received, Last
  <2>. QED  BY <2>1 DEF Messages
<1>4. PICK n \in Nat : n = Last(s2c[c]).msg
  BY Zenon, <1>3
<1>5. msg_arr'[c] = Append(msg_arr[c], n) /\ msg_arr[c] \in Seq(Nat)
  BY Zenon, <1>0, <1>1, <1>4
<1>6. /\ Len(msg_arr'[c]) = Len(msg_arr[c]) + 1
      /\ msg_arr'[c][Len(msg_arr[c]) + 1] = n
      /\ \A i \in 1 .. Len(msg_arr[c]) : msg_arr'[c][i] = msg_arr[c][i]
  BY <1>5
<1>. QED  BY Zenon, <1>1, <1>2, <1>3, <1>4, <1>6

\* What a client stores is of the block, in both phases.
LEMMA StoredIsMade ==
  ASSUME IInv, CopiesInv, [Next]_vars, NEW c \in Clients, NEW j \in 1 .. Len(msg_arr'[c])
  PROVE  Made(msg_arr'[c][j])
<1>0. msg_arr \in [Clients -> Seq(Nat)]
  BY DEF IInv, TypeOK, ClientTypeOK
<1>1. CASE msg_arr'[c] = msg_arr[c]
  BY Zenon, <1>1 DEF CopiesInv
<1>2. ASSUME NEW d \in Clients, NEW m, Made(m), m \in Nat,
             msg_arr' = [msg_arr EXCEPT ![d] = Append(msg_arr[d], m)]
      PROVE  Made(msg_arr'[c][j])
  <2>1. msg_arr'[c] = msg_arr[c] \/ msg_arr'[c] = Append(msg_arr[c], m)
    BY Zenon, <1>0, <1>2
  <2>2. ASSUME msg_arr'[c] = Append(msg_arr[c], m)
        PROVE  (\E i \in 1 .. Len(msg_arr[c]) : msg_arr'[c][j] = msg_arr[c][i]) \/ msg_arr'[c][j] = m
    <3>1. PICK q \in Seq(Nat) : q = msg_arr[c]
      BY Zenon, <1>0
    <3>2. \A k \in 1 .. Len(Append(q, m)) :
            (\E i \in 1 .. Len(q) : Append(q, m)[k] = q[i]) \/ Append(q, m)[k] = m
      BY <1>2
    <3>. QED  BY Zenon, <2>2, <3>1, <3>2
  <2>. QED  BY Zenon, <1>1, <1>2, <2>1, <2>2 DEF CopiesInv
<1>3. ASSUME NEW d \in Clients, OnMessage(d) \/ OnLastMessage(d)  PROVE Made(Last(s2c[d]).msg)
  <2>1. Received(d, "MESSAGE_SENDED")
    BY Zenon, <1>3, Stored
  <2>2. Last(s2c[d]).status = "MESSAGE_SENDED" /\ Len(s2c[d]) \in 1 .. Len(s2c[d])
    BY <2>1 DEF Received, IInv, TypeOK, KernelTypeOK
  <2>. QED  BY Zenon, <2>2 DEF CopiesInv, OfBlock, Last
<1>4. ASSUME NEW d \in Clients, NEW m \in Known(d)  PROVE Made(m)
  BY Zenon, <1>4 DEF Known, CopiesInv, OfBlock
<1>5. \A d \in Clients : Known(d) \subseteq Nat
  BY Zenon, KnownType DEF IInv
<1>6. CASE UNCHANGED msg_arr
  BY Zenon, <1>1, <1>6
<1>7. ASSUME NEW d \in Clients, OnMessage(d) \/ OnLastMessage(d)  PROVE Made(msg_arr'[c][j])
  BY Zenon, <1>2, <1>3, <1>7, Stored
<1>8. ASSUME NEW d \in Clients, NEW m \in Known(d),
             msg_arr' = [msg_arr EXCEPT ![d] = Append(msg_arr[d], m)]
      PROVE  Made(msg_arr'[c][j])
  BY Zenon, <1>2, <1>4, <1>5, <1>8
<1>. QED  BY Zenon, <1>6, <1>7, <1>8, StoresStep

\* What is stored or on its way stays a copy of the block, in both phases.
LEMMA CopiesStep ==
  ASSUME IInv, IInv', [Next]_vars, CopiesInv
  PROVE  CopiesInv'
<1>1. ASSUME NEW c \in Clients, NEW j \in 1 .. Len(msg_arr'[c])  PROVE Made(msg_arr[c][j])'
  BY Zenon, <1>1, StoredIsMade, MadeKept DEF Made
<1>2. ASSUME NEW c \in Clients, NEW j \in 1 .. Len(s2c'[c])  PROVE OfBlock(s2c[c][j])'
  <2>1. CASE \E i \in 1 .. Len(s2c[c]) : s2c'[c][j] = s2c[c][i]
    <3>1. PICK m : m = s2c'[c][j] /\ OfBlock(m)
      BY Zenon, <2>1 DEF CopiesInv
    <3>. QED  BY Zenon, <3>1, MadeKept DEF OfBlock, Made
  <2>2. CASE \E f \in Fds : s2c'[c][j] = buffers[f]
    <3>1. PICK m : m = s2c'[c][j] /\ OfBlock(m)
      BY Zenon, <2>2 DEF CopiesInv
    <3>. QED  BY Zenon, <3>1, MadeKept DEF OfBlock, Made
  <2>. QED  BY Zenon, <1>2, <2>1, <2>2, SendsStep
<1>3. ASSUME NEW c \in Clients, NEW j \in 1 .. Len(c2s'[c])
      PROVE  c2s'[c][j].status \in ClientStatus
  <2>1. \A i \in 1 .. Len(c2s[c]) : c2s[c][i].status \in ClientStatus
    BY Zenon DEF CopiesInv
  <2>. QED  BY Zenon, <1>3, <2>1, AnswersStep
<1>4. ASSUME NEW f \in Fds  PROVE OfBlock(buffers[f])'
  <2>1. CASE buffers'[f] = buffers[f]
    <3>1. PICK m : m = buffers'[f] /\ OfBlock(m)
      BY Zenon, <1>4, <2>1 DEF CopiesInv
    <3>. QED  BY Zenon, <3>1, MadeKept DEF OfBlock, Made
  <2>2. CASE \E c \in Clients : \E i \in 1 .. Len(c2s[c]) : buffers'[f] = c2s[c][i]
    <3>1. buffers'[f].status \in ClientStatus
      BY Zenon, <2>2 DEF CopiesInv
    <3>2. "MESSAGE_SENDED" \notin ClientStatus
      BY DEF ClientStatus
    <3>. QED  BY Zenon, <3>1, <3>2 DEF OfBlock
  <2>. QED  BY Zenon, <1>4, <2>1, <2>2, BuffersStep
<1>. QED  BY Zenon, <1>1, <1>2, <1>3, <1>4 DEF CopiesInv

\* A block that a client has is not lost, and ENOUGH follows the last message.
LEMMA FullStep ==
  ASSUME IInv, FirstPhase, [Next]_vars, FullInv
  PROVE  FullInv'
<1>0. \A c \in Clients : ~DesyncedTurn(c)
  BY Zenon, FirstPhaseFacts DEF FirstPhaseInv, ClientInv, DesyncedTurn
<1>1. HasBlock => HasBlock'
  <2>. SUFFICES ASSUME NEW c \in Clients, Len(msg_arr[c]) = BLOCKSIZE  PROVE HasBlock'
    BY Zenon DEF HasBlock
  <2>1. CASE UNCHANGED msg_arr
    BY Zenon, <2>1 DEF HasBlock
  <2>2. ASSUME NEW d \in Clients, OnMessage(d) \/ OnLastMessage(d)  PROVE HasBlock'
    <3>1. d # c
      BY <2>2, Stored, FirstPhaseFacts
    <3>2. msg_arr'[c] = msg_arr[c]
      BY Zenon, <2>2, <3>1, Stored, FirstPhaseFacts
    <3>. QED  BY Zenon, <3>2 DEF HasBlock
  <2>. QED  BY Zenon, <1>0, <2>1, <2>2, StoresStep
<1>2. \A c \in Clients : OnLastMessage(c) => HasBlock'
  <2>. SUFFICES ASSUME NEW c \in Clients, OnLastMessage(c)  PROVE HasBlock'
    OBVIOUS
  <2>1. Len(msg_arr'[c]) = Len(msg_arr[c]) + 1
    BY Zenon, Stored
  <2>2. Len(msg_arr[c]) = BLOCKSIZE - 1
    BY Zenon DEF OnLastMessage
  <2>3. Len(msg_arr'[c]) = BLOCKSIZE
    BY <2>1, <2>2, FirstPhaseFacts
  <2>. QED  BY Zenon, <2>3 DEF HasBlock
<1>3. ASSUME NEW c \in Clients, NEW j \in 1 .. Len(c2s'[c]), c2s'[c][j].status = "ENOUGH"
      PROVE  HasBlock'
  <2>1. CASE \E i \in 1 .. Len(c2s[c]) : c2s'[c][j] = c2s[c][i]
    BY Zenon, <1>1, <1>3, <2>1 DEF FullInv
  <2>. QED  BY Zenon, <1>0, <1>2, <1>3, <2>1, AnswersStep
<1>4. ASSUME NEW f \in Fds, buffers'[f].status = "ENOUGH"  PROVE HasBlock'
  BY Zenon, <1>1, <1>4, BuffersStep DEF FullInv
<1>. QED  BY Zenon, <1>3, <1>4 DEF FullInv

\* In the first phase the i-th message of a client, and of the buffer, is i.
LEMMA InOrderMeans ==
  ASSUME IInv, FirstPhase, NEW c \in Clients, NEW i \in 1 .. Len(msg_arr[c])
  PROVE  i - 1 \in Slots /\ CBUF.buffer[i - 1] = i
<1>1. PICK fd \in Fds : Len(msg_arr[c]) <= beffer_sended_N[fd] /\ beffer_sended_N[fd] <= CBUF.fill_size
  <2>1. msg_arr[c] # <<>>
    BY FirstPhaseFacts
  <2>. QED  BY Zenon, <2>1, FirstPhaseFacts DEF FirstPhaseInv, ClientInv
<1>2. /\ Len(msg_arr[c]) \in Nat /\ beffer_sended_N[fd] \in Nat /\ CBUF.fill_size \in Nat
      /\ CBUF.fill_size <= CIRC_BUF_SIZE /\ CIRC_BUF_SIZE \in Nat
  BY FirstPhaseFacts, CircBufAssumption DEF IInv, BufferInv
<1>3. i - 1 \in Slots /\ i - 1 < CBUF.fill_size /\ (i - 1) + 1 = i
  BY <1>1, <1>2 DEF Slots
<1>4. \A k \in Slots : k < CBUF.fill_size => CBUF.buffer[k] = k + 1
  BY DEF IInv, BufferInv
<1>. QED  BY <1>3, <1>4

\* The message a client of the first phase stores is that of the next slot.
LEMMA NextIsLoaded ==
  ASSUME IInv, FirstPhase, TurnInv, NEW c \in Clients, Received(c, "MESSAGE_SENDED")
  PROVE  /\ Len(msg_arr[c]) \in Slots
         /\ Last(s2c[c]).msg = CBUF.buffer[Len(msg_arr[c])]
         /\ Last(s2c[c]).msg # NULL
<1>1. PICK fd \in Fds : /\ beffer_sended_N[fd] = Len(msg_arr[c]) + 1
                        /\ Last(s2c[c]).msg = Len(msg_arr[c]) + 1
  BY Zenon, ReadsNext
<1>2. PICK k \in Nat : k = Len(msg_arr[c])
  BY FirstPhaseFacts
<1>3. PICK b \in Nat : b = beffer_sended_N[fd] /\ b <= CBUF.fill_size
  BY FirstPhaseFacts DEF FirstPhaseInv
<1>4. CBUF.fill_size \in Nat /\ CBUF.fill_size <= CIRC_BUF_SIZE /\ CIRC_BUF_SIZE \in Nat
  BY FirstPhaseFacts, CircBufAssumption DEF IInv, BufferInv
<1>5. b = k + 1
  BY Zenon, <1>1, <1>2, <1>3
<1>6. k \in Slots /\ k < CBUF.fill_size
  BY <1>3, <1>4, <1>5 DEF Slots
<1>7. CBUF.buffer[k] = k + 1
  BY <1>6 DEF IInv, BufferInv
<1>8. k + 1 # NULL
  BY DEF NULL
<1>. QED  BY Zenon, <1>1, <1>2, <1>6, <1>7, <1>8

\* What the clients have received stays in order.
LEMMA InOrderStep ==
  ASSUME IInv, IInv', FirstPhase, TurnInv, [Next]_vars, ReceivedInOrder
  PROVE  ReceivedInOrder'
<1>1. ASSUME NEW c \in Clients, NEW i \in 1 .. Len(msg_arr[c])
      PROVE  msg_arr[c][i] = CBUF'.buffer[i - 1]
  <2>1. i - 1 \in Slots /\ CBUF.buffer[i - 1] = i
    BY Zenon, <1>1, InOrderMeans
  <2>2. CBUF.buffer[i - 1] # NULL
    BY <2>1 DEF NULL
  <2>3. msg_arr[c][i] = CBUF.buffer[i - 1]
    BY Zenon, <1>1 DEF ReceivedInOrder, FirstPhase
  <2>. QED  BY Zenon, <2>1, <2>2, <2>3, MessagesKept
<1>2. CASE UNCHANGED msg_arr
  BY Zenon, <1>1, <1>2 DEF ReceivedInOrder
<1>3. ASSUME NEW c \in Clients, OnMessage(c) \/ OnLastMessage(c), UNCHANGED CBUF,
             NEW d \in Clients, NEW i \in 1 .. Len(msg_arr'[d])
      PROVE  msg_arr'[d][i] = CBUF'.buffer[i - 1]
  <2>1. CASE d # c
    <3>1. msg_arr'[d] = msg_arr[d]
      BY Zenon, <1>3, <2>1, Stored, FirstPhaseFacts
    <3>. QED  BY Zenon, <1>1, <1>3, <3>1
  <2>2. CASE d = c
    <3>1. PICK k \in Nat : k = Len(msg_arr[c])
      BY FirstPhaseFacts
    <3>2. /\ Len(msg_arr'[c]) = k + 1 /\ msg_arr'[c][k + 1] = Last(s2c[c]).msg
          /\ \A h \in 1 .. k : msg_arr'[c][h] = msg_arr[c][h]
          /\ Received(c, "MESSAGE_SENDED")
      BY Zenon, <1>3, <3>1, Stored
    <3>3. Last(s2c[c]).msg = CBUF.buffer[k]
      BY Zenon, <3>1, <3>2, NextIsLoaded
    <3>4. CASE i \in 1 .. k
      BY Zenon, <1>1, <2>2, <3>1, <3>2, <3>4
    <3>5. CASE i = k + 1
      <4>1. i - 1 = k
        BY <3>5
      <4>. QED  BY Zenon, <1>3, <2>2, <3>2, <3>3, <3>5, <4>1
    <3>6. i \in 1 .. k \/ i = k + 1
      BY <1>3, <2>2, <3>2
    <3>. QED  BY Zenon, <3>4, <3>5, <3>6
  <2>. QED  BY Zenon, <2>1, <2>2
<1>4. \A c \in Clients : ~DesyncedTurn(c)
  BY Zenon, FirstPhaseFacts DEF FirstPhaseInv, ClientInv, DesyncedTurn
<1>. QED  BY Zenon, <1>2, <1>3, <1>4, StoresStep DEF ReceivedInOrder, serverVars

----------------------------------------------------------------------------
\* A completion that returns an answer is due.
LEMMA ReplyIsDue ==
  ASSUME NEW q, NEW f, HasReply(q, f)  PROVE Has(q, f)
BY Zenon DEF HasReply, Has, Replied, Due

\* The answers among what a handler leaves in the queue and posts behind it, and
\* among what the kernel posts.
LEMMA QueueReplies ==
  ASSUME NEW q \in Seq(Cqes), NEW f
  PROVE  /\ \A e \in Cqes : HasReply(Append(q, e), f) => HasReply(q, f) \/ Replied(e, f)
         /\ q # <<>> /\ HasReply(Tail(q), f) => HasReply(q, f)
<1>1. ASSUME NEW e \in Cqes, HasReply(Append(q, e), f)  PROVE HasReply(q, f) \/ Replied(e, f)
  <2>1. \A i \in 1 .. Len(Append(q, e)) :
          (i \in 1 .. Len(q) /\ Append(q, e)[i] = q[i]) \/ Append(q, e)[i] = e
    OBVIOUS
  <2>. QED  BY Zenon, <1>1, <2>1 DEF HasReply
<1>2. ASSUME q # <<>>, HasReply(Tail(q), f)  PROVE HasReply(q, f)
  <2>1. \A i \in 1 .. Len(Tail(q)) : Tail(q)[i] = q[i + 1] /\ i + 1 \in 1 .. Len(q)
    BY <1>2
  <2>. QED  BY Zenon, <1>2, <2>1 DEF HasReply
<1>. QED  BY Zenon, <1>1, <1>2

\* Completions that are no answer: of an accept, of a send, of a failed recv.
LEMMA NoReply ==
  ASSUME NEW f \in Fds, NEW g \in Fds
  PROVE  /\ ~Replied(Cqe(AcceptData, g), f)
         /\ ~Replied(Cqe(make_request_data(g, "READ_RESPONSE"), 1), f)
         /\ ~Replied(Cqe(Answer(g), 0), f)
         /\ Replied(Cqe(Answer(g), 1), f) => f = g
BY DEF Replied, Cqe, AcceptData, Answer, make_request_data

\* A handler sends on the descriptor whose completion it handles, which no other
\* completion of the queue concerns: the answers that wait stay in their buffers.
LEMMA SendAnswers ==
  ASSUME IInv, FirstPhase, TurnInv, AnswerInv, cq # <<>>, NEW fd \in Fds, Due(Head(cq), fd),
         NEW m, buffers' = [buffers EXCEPT ![fd] = m],
         NEW f \in Fds, HasReply(Tail(cq), f)
  PROVE  buffers'[f].status \in ClientStatus
<1>1. ~Has(Tail(cq), fd)
  BY Zenon, DueClient
<1>2. f # fd
  BY Zenon, <1>1, ReplyIsDue
<1>3. buffers'[f] = buffers[f]
  BY Zenon, <1>2, FirstPhaseFacts
<1>. QED  BY Zenon, <1>3, QueueReplies, FirstPhaseFacts DEF AnswerInv

\* What the event loop does to the answers.
LEMMA ServerAnswers ==
  ASSUME IInv, FirstPhase, TurnInv, AnswerInv, ServerStep, FirstPhase', NEW f \in Fds, HasReply(cq', f)
  PROVE  buffers'[f].status \in ClientStatus
<1>0. cq \in Seq(Cqes) /\ ~OnClose /\ ~FINISH_SENDING
  BY Zenon, FirstPhaseFacts, PhaseGoesOn
<1>1. ASSUME cq # <<>>  PROVE Tail(cq) \in Seq(Cqes)
  BY Zenon, <1>0, <1>1, TailDue
<1>2. ASSUME NEW g \in Fds
      PROVE  /\ Cqe(make_request_data(g, "READ_RESPONSE"), 1) \in Cqes
             /\ Cqe(AcceptData, g) \in Cqes
             /\ Cqe(Answer(g), 0) \in Cqes
  BY DEF Cqe, Cqes, ClientData, make_request_data, Answer
<1>3. CASE OnNeedMoreAllSent \/ OnAcknOk \/ OnNeedMore
  <2>1. PICK m : (\E st : NextStatus(st)) /\ SendFromBuffer(client_fd, m)
    BY Zenon, <1>3, MessageSent DEF OnNeedMoreAllSent, OnAcknOk, OnNeedMore
  <2>2. PICK fd \in Fds : Due(Head(cq), fd) /\ cq # <<>> /\ SendFromBuffer(fd, m)
    BY Zenon, <2>1, AnswerIsDue
  <2>3. PICK e \in Cqes : e = Cqe(make_request_data(fd, "READ_RESPONSE"), 1)
    BY Zenon, <1>2
  <2>4. cq' = Append(Tail(cq), e) /\ buffers' = [buffers EXCEPT ![fd] = m]
    BY Zenon, <1>1, <2>2, <2>3, ConcatAppend DEF SendFromBuffer, Submit
  <2>5. HasReply(Tail(cq), f)
    BY Zenon, <1>1, <2>2, <2>3, <2>4, QueueReplies, NoReply
  <2>. QED  BY Zenon, <2>2, <2>4, <2>5, SendAnswers
<1>4. CASE OnAccept
  <2>1. PICK fd \in Fds : fd = Head(cq).res /\ cq # <<>> /\ Due(Head(cq), fd)
    <3>1. cq # <<>> /\ Head(cq).ud.flag = "FLAG_ACCEPT" /\ Head(cq) \in Cqes /\ Head(cq).res \in Fds
      BY <1>4, FirstPhaseFacts, EventType DEF OnAccept, NextEvent
    <3>2. Head(cq).ud = AcceptData
      BY <3>1 DEF Cqes, ClientData
    <3>. QED  BY <3>1, <3>2 DEF Due
  <2>2. PICK e \in Cqes : e = Cqe(make_request_data(fd, "READ_RESPONSE"), 1)
    BY Zenon, <1>2, <2>1
  <2>3. PICK q \in Seq(Cqes) : /\ q = Tail(cq) \o AcceptCqes(AcceptData)
                               /\ HasReply(q, f) => HasReply(Tail(cq), f)
    <3>1. CASE backlog = <<>>
      BY Zenon, <1>1, <2>1, <2>2, <3>1, ConcatAppend DEF AcceptCqes
    <3>2. CASE backlog # <<>>
      <4>1. LowestFreeFd \in Fds
        BY Zenon, <1>4, <3>2, FirstPhaseFacts, FreeFdType DEF OnAccept, ArmAccept
      <4>2. Tail(cq) \o AcceptCqes(AcceptData) = Append(Tail(cq), Cqe(AcceptData, LowestFreeFd))
        BY Zenon, <1>1, <1>2, <2>1, <3>2, <4>1, ConcatAppend DEF AcceptCqes
      <4>. QED  BY Zenon, <1>1, <1>2, <2>1, <4>1, <4>2, AppendDue, QueueReplies, NoReply
    <3>. QED  BY Zenon, <3>1, <3>2
  <2>4. cq' = Append(q, e)
    <3>1. cq' = Tail(cq) \o AcceptCqes(AcceptData) \o <<e>>
      BY Zenon, <1>4, <2>1, <2>2 DEF OnAccept
    <3>. QED  BY Zenon, <2>3, <3>1, ConcatAppend
  <2>5. HasReply(Tail(cq), f)
    <3>1. ~Replied(e, f)
      BY Zenon, <2>2, NoReply
    <3>2. HasReply(q, f)
      BY Zenon, <2>4, <3>1, QueueReplies
    <3>. QED  BY Zenon, <2>3, <3>2
  <2>6. buffers' = [buffers EXCEPT ![fd] = Status("ASK_NEED_MSG")]
    BY Zenon, <1>4, <2>1 DEF OnAccept
  <2>. QED  BY Zenon, <2>1, <2>5, <2>6, SendAnswers
<1>5. CASE OnReadResponse
  <2>1. PICK fd \in Fds : fd = client_fd /\ cq # <<>>
    BY Zenon, <1>5, FirstPhaseFacts, EventType DEF OnReadResponse, NextEvent
  <2>2. cq' = Tail(cq) \o RecvCqes(fd, Answer(fd)) /\ UNCHANGED buffers
    BY Zenon, <1>5, <2>1 DEF OnReadResponse, Submit, Answer, serverVars
  <2>3. cq' = Tail(cq) \/ cq' = Append(Tail(cq), Cqe(Answer(fd), 0))
    BY Zenon, <1>1, <1>2, <2>1, <2>2, ConcatAppend DEF RecvCqes
  <2>4. HasReply(Tail(cq), f)
    <3>1. PICK e \in Cqes : e = Cqe(Answer(fd), 0)
      BY Zenon, <1>2
    <3>2. ~Replied(e, f)
      BY Zenon, <3>1, NoReply
    <3>3. CASE cq' = Append(Tail(cq), e)
      BY Zenon, <1>1, <2>1, <3>2, <3>3, QueueReplies
    <3>. QED  BY Zenon, <2>3, <3>1, <3>3
  <2>. QED  BY Zenon, <1>0, <2>1, <2>2, <2>4, QueueReplies DEF AnswerInv
<1>6. CASE OnNoResponse
  BY Zenon, <1>0, <1>6, QueueReplies DEF OnNoResponse, NextEvent, AnswerInv
<1>. QED  BY Zenon, <1>0, <1>3, <1>4, <1>5, <1>6 DEF ServerStep, EventLoop

\* What a completion of a recv and a connection do to them.
LEMMA KernelAnswers ==
  ASSUME IInv, FirstPhase, TurnInv, AnswerInv, CopiesInv, KernelStep, NEW f \in Fds, HasReply(cq', f)
  PROVE  buffers'[f].status \in ClientStatus
<1>0. /\ TypeOK /\ cq \in Seq(Cqes) /\ buffers \in [Fds -> Messages]
      /\ recvs \in [Clients -> Seq(PendingRecvs)] /\ c2s \in [Clients -> Seq(Messages)]
  BY Zenon, FirstPhaseFacts
<1>1. PICK c \in Clients : \E i \in 1 .. Len(recvs[c]) : RecvCompletes(c, i) \/ RecvEnds(c, i)
  BY Zenon DEF KernelStep, RecvCompletion
<1>2. PICK i \in 1 .. Len(recvs[c]) : RecvCompletes(c, i) \/ RecvEnds(c, i)
  BY Zenon, <1>1
<1>3. PICK fd \in Fds : recvs[c][i] = [buf |-> fd, ud |-> Answer(fd)]
  <2>1. recvs[c] # <<>>
    BY Zenon, <1>2, NoElements
  <2>. QED  BY Zenon, <2>1 DEF TurnInv, TurnOf
<1>4. recvs[c][i].buf = fd /\ recvs[c][i].ud = Answer(fd)
  BY <1>3
<1>5. Cqe(Answer(fd), 0) \in Cqes /\ Cqe(Answer(fd), 1) \in Cqes
  BY DEF Cqe, Cqes, ClientData, make_request_data, Answer
<1>6. CASE RecvEnds(c, i)
  <2>1. cq' = Append(cq, Cqe(Answer(fd), 0)) /\ UNCHANGED buffers
    BY Zenon, <1>4, <1>6 DEF RecvEnds, serverVars
  <2>. QED  BY Zenon, <1>0, <1>5, <2>1, QueueReplies, NoReply DEF AnswerInv
<1>7. CASE RecvCompletes(c, i)
  <2>1. /\ cq' = Append(cq, Cqe(Answer(fd), 1)) /\ buffers' = [buffers EXCEPT ![fd] = Last(c2s[c])]
        /\ c2s[c] # <<>>
    BY Zenon, <1>4, <1>7 DEF RecvCompletes
  <2>2. Last(c2s[c]).status \in ClientStatus
    <3>1. Len(c2s[c]) \in 1 .. Len(c2s[c])
      BY <1>0, <2>1
    <3>. QED  BY Zenon, <3>1 DEF CopiesInv, Last
  <2>3. CASE f = fd
    BY Zenon, <1>0, <2>1, <2>2, <2>3
  <2>4. CASE f # fd
    <3>1. HasReply(cq, f) /\ buffers'[f] = buffers[f]
      BY Zenon, <1>0, <1>5, <2>1, <2>4, QueueReplies, NoReply
    <3>. QED  BY Zenon, <3>1 DEF AnswerInv
  <2>. QED  BY Zenon, <2>3, <2>4
<1>. QED  BY Zenon, <1>2, <1>6, <1>7

LEMMA ConnectAnswers ==
  ASSUME IInv, FirstPhase, AnswerInv, NEW c \in Clients, ConnectStep(c), NEW f \in Fds,
         HasReply(cq', f)
  PROVE  buffers'[f].status \in ClientStatus
<1>0. /\ TypeOK /\ cq \in Seq(Cqes) /\ UNCHANGED buffers
      /\ \A i \in 1 .. Len(accepts) : accepts[i] = AcceptData
  BY Zenon, FirstPhaseFacts DEF ConnectStep, Connect, serverVars, FirstPhaseInv, DescriptorInv
<1>1. CASE accepts = <<>>
  BY Zenon, <1>0, <1>1 DEF ConnectStep, Connect, Connected, AnswerInv
<1>2. CASE accepts # <<>>
  <2>1. Head(accepts) = AcceptData
    <3>1. accepts \in Seq(PendingAccepts)
      BY <1>0 DEF TypeOK, KernelTypeOK
    <3>2. Head(accepts) = accepts[1] /\ 1 \in 1 .. Len(accepts)
      BY <1>2, <3>1
    <3>. QED  BY Zenon, <1>0, <3>2
  <2>2. cq' = Append(cq, Cqe(AcceptData, LowestFreeFd)) /\ LowestFreeFd \in Fds
    BY Zenon, <1>0, <1>2, <2>1, FreeFdType DEF ConnectStep, Connect, Connected
  <2>3. Cqe(AcceptData, LowestFreeFd) \in Cqes
    BY <2>2 DEF Cqe, Cqes
  <2>. QED  BY Zenon, <1>0, <2>2, <2>3, QueueReplies, NoReply DEF AnswerInv
<1>. QED  BY Zenon, <1>1, <1>2

\* Every step of the first phase leaves the answers that wait in their buffers,
\* so that the server parses each of them.
LEMMA AnswersKept ==
  ASSUME IInv, FirstPhase, TurnInv, AnswerInv, CopiesInv, [Next]_vars, FirstPhase'
  PROVE  AnswerInv'
<1>1. ASSUME NEW f \in Fds, HasReply(cq', f)  PROVE buffers'[f].status \in ClientStatus
  <2>1. CASE UNCHANGED <<cq, buffers>>
    BY Zenon, <1>1, <2>1 DEF AnswerInv
  <2>2. UNCHANGED vars => UNCHANGED <<cq, buffers>>
    BY Zenon DEF vars, kernelVars, serverVars
  <2>. QED  BY Zenon, <1>1, <2>1, <2>2, ServerAnswers, KernelAnswers, ConnectAnswers, ClientLeaves
         DEF Next
<1>2. server' = "up"
  <2>1. CASE OnNoResponse
    <3>1. CASE Head(cq).res = 0
      BY <2>1, <3>1 DEF OnNoResponse
    <3>2. CASE Head(cq).res # 0
      <4>1. /\ cq # <<>> /\ Head(cq).ud.flag = "TEST_RESPONSE" /\ Head(cq) \in Cqes
            /\ Head(cq).res > 0 /\ client_fd \in Fds
        BY <2>1, <3>2, EventType, FirstPhaseFacts DEF OnNoResponse, NextEvent
      <4>2. Head(cq).ud = Answer(client_fd)
        BY <4>1 DEF Cqes, ClientData, client_fd, AcceptData, make_request_data, Answer
      <4>3. Head(cq) = cq[1] /\ 1 \in 1 .. Len(cq)
        BY <4>1, FirstPhaseFacts
      <4>4. buffers[client_fd].status \in ClientStatus
        BY Zenon, <4>1, <4>2, <4>3 DEF AnswerInv, HasReply, Replied
      <4>5. Unpacked(buffers[client_fd]) = {"up"}
        BY <4>4 DEF Unpacked, ClientStatus, ServerStatus
      <4>. QED  BY Zenon, <2>1, <3>2, <4>5 DEF OnNoResponse
    <3>. QED  BY Zenon, <3>1, <3>2
  <2>2. CASE OnNeedMore \/ FINISH_SENDING
    <3>1. server' \in {server, "hung", "crashed"}
      BY Zenon, <2>2 DEF OnNeedMore, FINISH_SENDING
    <3>2. server' \in {"up", "unparsed"} /\ server = "up"
      BY Zenon, BufferStep DEF BufferInv, AnswerInv
    <3>. QED  BY <3>1, <3>2
  <2>3. CASE UNCHANGED server
    BY Zenon, <2>3 DEF AnswerInv
  <2>4. CASE ServerStep
    BY Zenon, <2>1, <2>2, <2>3, <2>4
       DEF ServerStep, EventLoop, OnAccept, OnReadResponse, OnClose, OnNeedMoreAllSent, OnAcknOk,
           serverVars
  <2>5. CASE ~ServerStep
    <3>1. UNCHANGED server
      BY Zenon, <2>5 DEF Next, KernelStep, RecvCompletion, RecvCompletes, RecvEnds, ConnectStep,
                         ClientStep, StrayStep, FailStep, serverVars, vars
    <3>. QED  BY Zenon, <2>3, <3>1
  <2>. QED  BY Zenon, <2>4, <2>5
<1>. QED  BY Zenon, <1>1, <1>2 DEF AnswerInv

----------------------------------------------------------------------------
\* event_loop starts with no connection and no message on its way.
LEMMA HandOutInit == Init => HandOutInv
<1>. SUFFICES ASSUME Init  PROVE HandOutInv
  OBVIOUS
<1>. USE DEF Init, SocketsInit, ServerInit, ClientInit
<1>1. TurnInv
  BY SocketsAssumption DEF TurnInv, Once, Has
<1>2. FullInv
  BY DEF FullInv, Status
<1>3. CopiesInv
  BY DEF CopiesInv, OfBlock, Status
<1>4. AnswerInv
  BY DEF AnswerInv, HasReply
<1>5. ReceivedInOrder
  BY DEF ReceivedInOrder
<1>. QED  BY Zenon, <1>1, <1>2, <1>3, <1>4, <1>5 DEF HandOutInv

\* Every step keeps what HandOutInv says, in each phase.
LEMMA HandOutStep ==
  ASSUME IInv, IInv', HandOutInv, [Next]_vars
  PROVE  HandOutInv'
<1>1. FirstPhase' => FirstPhase
  BY Zenon, BufferStep
<1>2. ASSUME FirstPhase'  PROVE TurnInv'
  <2>1. FirstPhase /\ TurnInv
    BY Zenon, <1>1, <1>2 DEF HandOutInv
  <2>2. CASE UNCHANGED vars
    BY Zenon, <2>1, <2>2, QuietTurn DEF vars, kernelVars, serverVars, clientVars, TurnInv
  <2>3. CASE Next
    BY Zenon, <1>2, <2>1, <2>3, ServerTurn, RecvTurn, ConnectTurn, ClientTurn DEF Next
  <2>. QED  BY Zenon, <2>2, <2>3
<1>3. FirstPhase' => FullInv'
  BY Zenon, <1>1, FullStep DEF HandOutInv
<1>4. CopiesInv'
  BY Zenon, CopiesStep DEF HandOutInv
<1>5. ReceivedInOrder'
  <2>1. CASE FirstPhase
    BY Zenon, <2>1, InOrderStep DEF HandOutInv
  <2>2. CASE ~FirstPhase
    BY Zenon, <1>1, <2>2 DEF ReceivedInOrder, FirstPhase
  <2>. QED  BY Zenon, <2>1, <2>2
<1>6. FirstPhase' => AnswerInv'
  BY Zenon, <1>1, AnswersKept DEF HandOutInv
<1>. QED  BY Zenon, <1>2, <1>3, <1>4, <1>5, <1>6 DEF HandOutInv

\* Server and client take turns until the first ENOUGH is handled, and a message
\* on its way is always one of the block, although completions of all clients
\* share the ring, recvs return whole batches and FINISH_SENDING may repeat an
\* old send.
THEOREM HandOutHolds == Spec => []HandOutInv
BY HandOutInit, HandOutStep, InvariantStep, InvariantHolds, PTL DEF Spec

\* Until the first client has finished, every client has the messages of the
\* buffer in order and without a gap.
THEOREM TurnsAreTaken == Spec => []ReceivedInOrder
<1>1. HandOutInv => ReceivedInOrder
  BY Zenon DEF HandOutInv
<1>. QED  BY <1>1, HandOutHolds, PTL

\* Until then beffer_sended_N of a connection is ahead of its client by at most
\* the one message the server waits to see acknowledged.
THEOREM OneMessageAhead == Spec => []OneUnacknowledged
<1>1. ASSUME IInv, HandOutInv  PROVE OneUnacknowledged
  <2>1. ASSUME FirstPhase, NEW fd \in Fds, fdtab[fd] # NoClient
        PROVE  beffer_sended_N[fd] \in Len(msg_arr[fdtab[fd]]) .. Len(msg_arr[fdtab[fd]]) + 1
    <3>1. PICK c \in Clients : c = fdtab[fd]
      BY Zenon, <1>1, <2>1, FirstPhaseFacts
    <3>2. beffer_sended_N[fd] <= Len(msg_arr[c]) + 1
      BY Zenon, <1>1, <2>1, <3>1 DEF HandOutInv, TurnInv, TurnOf
    <3>3. Len(msg_arr[c]) <= beffer_sended_N[fd]
      BY Zenon, <1>1, <2>1, <3>1, FirstPhaseFacts DEF FirstPhaseInv, ClientInv
    <3>4. Len(msg_arr[c]) \in Nat /\ beffer_sended_N[fd] \in Nat
      <4>1. msg_arr[c] \in Seq(Nat) /\ beffer_sended_N[fd] \in Nat
        BY Zenon, <1>1, <2>1, FirstPhaseFacts
      <4>. QED  BY <4>1
    <3>5. beffer_sended_N[fd] \in Len(msg_arr[c]) .. Len(msg_arr[c]) + 1
      BY <3>2, <3>3, <3>4
    <3>. QED  BY Zenon, <3>1, <3>5
  <2>. QED  BY Zenon, <2>1 DEF OneUnacknowledged, FirstPhase
<1>. QED  BY <1>1, InvariantHolds, HandOutHolds, PTL

\* Until then the server parses every answer: read_ONLY_STATUS_response never
\* finds a message of the server's own in the buffer that it shares with the
\* send, and never dereferences the NULL of a failed unpack.
THEOREM AnswersAreParsed == Spec => []AnswersParse
<1>1. ASSUME IInv, HandOutInv  PROVE AnswersParse
  <2>1. CASE FirstPhase
    BY <1>1, <2>1 DEF HandOutInv, AnswerInv, AnswersParse
  <2>2. CASE ~FirstPhase
    BY <1>1, <2>2 DEF FirstPhase, IInv, TypeOK, ServerTypeOK, CircBufs, AnswersParse
  <2>. QED  BY Zenon, <2>1, <2>2
<1>. QED  BY <1>1, InvariantHolds, HandOutHolds, PTL

----------------------------------------------------------------------------
\* The exchange starts as the distribution does.
LEMMA DistributionInit == Init => D!Init
<1>. SUFFICES ASSUME Init  PROVE D!Init
  OBVIOUS
<1>1. IInv
  BY InitInvariant
<1>2. CBUF = PUSH_msg_circ_buf(create_circ_buf) /\ msg_arr = [c \in Clients |-> <<>>]
  BY DEF Init, ServerInit, ClientInit
<1>3. CBUF.fill_size = 1
  BY <1>2, CircBufAssumption DEF PUSH_msg_circ_buf, create_circ_buf
<1>4. \A i \in Slots : CBUF.buffer[i] = IF i = 0 THEN 1 ELSE 0
  BY <1>1, <1>3 DEF IInv, BufferInv, FirstPhase, Slots, NULL
<1>5. CBUF.buffer \in [Slots -> Nat]
  BY <1>1 DEF IInv, TypeOK, ServerTypeOK, CircBufs
<1>6. CBUF.buffer = [i \in Slots |-> IF i = 0 THEN 1 ELSE 0]
  BY <1>4, <1>5
<1>. QED  BY <1>2, <1>3, <1>6 DEF D!Init, D!Slots, Slots

\* A client that stores a message gets one of the block: the next one in the
\* first phase, and any afterwards.
LEMMA StoreDistributes ==
  ASSUME IInv, HandOutInv, NEW c \in Clients, OnMessage(c) \/ OnLastMessage(c), UNCHANGED CBUF
  PROVE  D!Next
<1>1. /\ Received(c, "MESSAGE_SENDED") /\ Len(msg_arr[c]) < BLOCKSIZE
      /\ msg_arr' = [msg_arr EXCEPT ![c] = Append(msg_arr[c], Last(s2c[c]).msg)]
  BY Zenon, Stored
<1>2. ASSUME NEW n \in Slots, CBUF.buffer[n] # NULL, CBUF.buffer[n] = Last(s2c[c]).msg
      PROVE  D!Get(c, n)
  BY <1>1, <1>2 DEF D!Get, D!Slots, Slots, NULL
<1>3. CASE FirstPhase
  <2>1. D!InOrder(c)
    BY Zenon, <1>1, <1>2, <1>3, NextIsLoaded DEF HandOutInv, D!InOrder
  <2>. QED  BY Zenon, <2>1 DEF D!Next, D!OrderedNext
<1>4. CASE ~FirstPhase
  <2>1. Last(s2c[c]).status = "MESSAGE_SENDED" /\ Len(s2c[c]) \in 1 .. Len(s2c[c])
    BY <1>1 DEF Received, IInv, TypeOK, KernelTypeOK
  <2>2. OfBlock(Last(s2c[c]))
    BY Zenon, <2>1 DEF HandOutInv, CopiesInv, Last
  <2>3. PICK n \in Slots : CBUF.buffer[n] # NULL /\ CBUF.buffer[n] = Last(s2c[c]).msg
    BY Zenon, <2>1, <2>2 DEF OfBlock, Made
  <2>4. CBUF.fill_size = 0
    BY <1>4 DEF FirstPhase, IInv, TypeOK, ServerTypeOK, CircBufs
  <2>5. D!AnyOrder(c)
    BY Zenon, <1>2, <2>3, <2>4 DEF D!AnyOrder, D!Slots, Slots
  <2>. QED  BY Zenon, <2>5 DEF D!Next
<1>. QED  BY Zenon, <1>3, <1>4

\* So does a client that has lost step with its connection, which happens only
\* after a client has finished.
LEMMA StrayStoreDistributes ==
  ASSUME IInv, HandOutInv, NEW c \in Clients, pc[c] = "desynced", Len(msg_arr[c]) < BLOCKSIZE,
         NEW m \in Known(c), msg_arr' = [msg_arr EXCEPT ![c] = Append(msg_arr[c], m)],
         UNCHANGED CBUF
  PROVE  D!Next
<1>1. ~FirstPhase
  BY Zenon, FirstPhaseFacts DEF FirstPhaseInv, ClientInv
<1>2. CBUF.fill_size = 0
  BY <1>1 DEF FirstPhase, IInv, TypeOK, ServerTypeOK, CircBufs
<1>3. Made(m)
  BY Zenon DEF HandOutInv, Known, CopiesInv, OfBlock
<1>4. PICK n \in Slots : CBUF.buffer[n] # NULL /\ CBUF.buffer[n] = m
  BY Zenon, <1>3 DEF Made
<1>5. D!Get(c, n)
  BY <1>4 DEF D!Get, D!Slots, Slots, NULL
<1>. QED  BY Zenon, <1>2, <1>4, <1>5 DEF D!AnyOrder, D!Next, D!Slots, Slots

\* OnNeedMore makes the next message of the block or makes none.
LEMMA NeedMoreDistributes ==
  ASSUME IInv, IInv', OnNeedMore, UNCHANGED msg_arr
  PROVE  [D!OrderedNext]_D!vars
<1>1. PICK n \in Slots : /\ n \in Nat /\ n < N_MESSAGES
                         /\ FirstPhase => n <= CBUF.fill_size
                         /\ CBUF' = GET_nth_circ_buf(CBUF, n)
  <2>1. PICK n \in Nat : /\ n \in Slots
                         /\ n = beffer_sended_N[client_fd]
                         /\ FirstPhase => n <= CBUF.fill_size
                         /\ CBUF' = GET_nth_circ_buf(CBUF, n)
    BY Zenon, MessageSent
  <2>. QED  BY Zenon, <2>1 DEF OnNeedMore
<1>2. CASE ~FirstPhase
  <2>1. CBUF' = CBUF
    BY Zenon, <1>1, <1>2, GetNth DEF IInv
  <2>. QED  BY Zenon, <2>1 DEF D!vars
<1>3. CASE FirstPhase
  <2>1. /\ CBUF'.fill_size = IF n = CBUF.fill_size THEN n + 1 ELSE CBUF.fill_size
        /\ \A i \in Slots : CBUF'.buffer[i] = IF i < CBUF'.fill_size THEN i + 1 ELSE NULL
    BY <1>1, <1>3, GetNth DEF IInv
  <2>2. \A i \in Slots : CBUF.buffer[i] = IF i < CBUF.fill_size THEN i + 1 ELSE NULL
    BY <1>3 DEF IInv, BufferInv
  <2>3. /\ CBUF.buffer \in [Slots -> Nat] /\ CBUF'.buffer \in [Slots -> Nat]
        /\ CBUF.fill_size \in Nat /\ CBUF.fill_size > 0
    BY <1>3 DEF IInv, TypeOK, ServerTypeOK, CircBufs, FirstPhase
  <2>4. CASE n # CBUF.fill_size
    <3>1. CBUF'.fill_size = CBUF.fill_size /\ CBUF'.buffer = CBUF.buffer
      BY <2>1, <2>2, <2>3, <2>4
    <3>. QED  BY Zenon, <3>1 DEF D!vars
  <2>5. CASE n = CBUF.fill_size
    <3>1. \A i \in Slots : i \in Nat
      BY CircBufAssumption DEF Slots
    <3>2. \A i \in Slots : CBUF.buffer[i] = 0 <=> i >= n
      BY <1>1, <2>2, <2>3, <2>5, <3>1 DEF NULL
    <3>3. \A i \in Slots : CBUF'.buffer[i] = IF i = n THEN n + 1 ELSE CBUF.buffer[i]
      BY <1>1, <2>1, <2>2, <2>5, <3>1
    <3>4. CBUF'.buffer = [CBUF.buffer EXCEPT ![n] = n + 1]
      BY <2>3, <3>3
    <3>5. CBUF.fill_size # 0 /\ CBUF'.fill_size # 0
      BY <1>1, <2>1, <2>3, <2>5
    <3>6. D!Make
      BY <3>2, <3>4, <3>5 DEF D!Make, D!Slots, Slots
    <3>. QED  BY Zenon, <3>6 DEF D!OrderedNext
  <2>. QED  BY Zenon, <2>4, <2>5
<1>. QED  BY Zenon, <1>2, <1>3

\* FINISH_SENDING finishes the distribution, once.
LEMMA FinishDistributes ==
  ASSUME IInv, IInv', HandOutInv, FINISH_SENDING, UNCHANGED msg_arr
  PROVE  [D!OrderedNext]_D!vars
<1>1. CBUF' = [CBUF EXCEPT !.fill_size = 0] \/ UNCHANGED CBUF
  BY Zenon DEF FINISH_SENDING
<1>2. CBUF'.buffer = CBUF.buffer
  BY <1>1 DEF IInv, TypeOK, ServerTypeOK, CircBufs
<1>3. CASE FirstPhase
  <2>1. CBUF.fill_size # 0 /\ CBUF'.fill_size = 0
    <3>1. CBUF' = [CBUF EXCEPT !.fill_size = 0]
      BY Zenon, <1>3, PhaseGoesOn
    <3>. QED  BY <1>3, <3>1 DEF FirstPhase, IInv, TypeOK, ServerTypeOK, CircBufs
  <2>2. HasBlock
    <3>1. client_fd \in Fds /\ buffers[client_fd].status = "ENOUGH"
      BY Zenon, AnswerIsDue DEF FINISH_SENDING, NextStatus
    <3>. QED  BY Zenon, <1>3, <3>1 DEF HandOutInv, FullInv
  <2>3. D!Finish
    BY <1>2, <2>1, <2>2 DEF D!Finish, HasBlock
  <2>. QED  BY Zenon, <2>3 DEF D!OrderedNext
<1>4. CASE ~FirstPhase
  <2>1. CBUF.fill_size = 0 /\ CBUF'.fill_size = 0
    BY <1>1, <1>4 DEF FirstPhase, IInv, TypeOK, ServerTypeOK, CircBufs
  <2>. QED  BY <1>2, <2>1 DEF D!vars
<1>. QED  BY Zenon, <1>3, <1>4

\* The exchange implements the abstract distribution: for any number of clients
\* at once, any sizes and any interleaving, the server makes one block, once, and
\* every message a client stores is the next one of it until a client has the
\* whole block and says ENOUGH, and one of it for ever.
THEOREM ExchangeDistributes == Spec => Distributes
<1>1. IInv /\ IInv' /\ HandOutInv /\ [Next]_vars => [D!Next]_D!vars
  <2>. SUFFICES ASSUME IInv, IInv', HandOutInv, [Next]_vars  PROVE [D!Next]_D!vars
    OBVIOUS
  <2>1. CASE UNCHANGED <<msg_arr, CBUF>>
    BY Zenon, <2>1 DEF D!vars
  <2>2. CASE ServerStep /\ (OnNeedMore \/ FINISH_SENDING)
    <3>1. UNCHANGED msg_arr
      BY Zenon, <2>2 DEF ServerStep, clientVars
    <3>2. [D!OrderedNext]_D!vars
      BY Zenon, <2>2, <3>1, NeedMoreDistributes, FinishDistributes
    <3>. QED  BY Zenon, <3>2 DEF D!Next
  <2>3. CASE UNCHANGED serverVars /\ \E c \in Clients : OnMessage(c) \/ OnLastMessage(c)
    BY Zenon, <2>3, StoreDistributes DEF serverVars
  <2>4. ASSUME UNCHANGED serverVars, NEW c \in Clients, DesyncedTurn(c), Len(msg_arr[c]) < BLOCKSIZE,
               \E m \in Known(c) : msg_arr' = [msg_arr EXCEPT ![c] = Append(msg_arr[c], m)]
        PROVE  D!Next
    BY Zenon, <2>4, StrayStoreDistributes DEF DesyncedTurn, serverVars
  <2>. QED  BY Zenon, <2>1, <2>2, <2>3, <2>4, BufferChanges, StoresStep
<1>. QED  BY <1>1, DistributionInit, InvariantHolds, HandOutHolds, PTL
       DEF Spec, Distributes, D!Spec
=============================================================================
