----------------------- MODULE MessageExchangeSafety ------------------------
(***************************************************************************)
(* Proof that the message server never fails, by the invariant IInv: the   *)
(* buffer is read only where it is loaded and GET_nth_circ_buf always      *)
(* returns, for any number of clients and any interleaving with them. The  *)
(* steps of the first phase, before the first ENOUGH, have a lemma for each*)
(* kind of step of the kernel, of the event loop and of a client.          *)
(***************************************************************************)
EXTENDS MessageExchangeProofs

\* OnAccept: the client asked is one of the first phase, and the one taken
\* from the backlog is new to its descriptor.
LEMMA AcceptKeepsFirstPhase ==
  ASSUME IInv, FirstPhase, OnAccept, UNCHANGED clientVars
  PROVE  FirstPhaseInv'
<1>. USE DEF clientVars
<1>. DEFINE fd == Head(cq).res
            ask == Status("ASK_NEED_MSG")
            b == Head(backlog)
            g == LowestFreeFd
<1>0. /\ FirstPhaseInv /\ TypeOK /\ DescriptorInv
      /\ fd \in Fds
      /\ ask \in Messages /\ ask.msg = 0 /\ ask.status = "ASK_NEED_MSG"
      /\ cq # <<>>
  BY FirstPhaseFacts, EventType, StatusType
     DEF OnAccept, NextEvent, FirstPhaseInv, Status, ServerStatus
<1>1. backlog # <<>> => /\ b \in Clients /\ b = backlog[1] /\ 1 \in 1 .. Len(backlog)
                        /\ g \in Fds /\ fdtab[g] = NoClient
                        /\ \A f \in Fds : fdtab[f] # b
                        /\ pc[b] # "start"
                        /\ fdtab' = [fdtab EXCEPT ![g] = b]
  <2>. SUFFICES ASSUME backlog # <<>>
                PROVE  /\ b \in Clients /\ b = backlog[1] /\ 1 \in 1 .. Len(backlog)
                       /\ g \in Fds /\ fdtab[g] = NoClient
                       /\ \A f \in Fds : fdtab[f] # b
                       /\ pc[b] # "start"
                       /\ fdtab' = [fdtab EXCEPT ![g] = b]
    OBVIOUS
  <2>1. b \in Clients /\ b = backlog[1] /\ 1 \in 1 .. Len(backlog)
    BY FirstPhaseFacts
  <2>2. FreeFds # {} /\ fdtab' = [fdtab EXCEPT ![g] = b]
    BY DEF OnAccept, ArmAccept
  <2>. QED  BY <1>0, <2>1, <2>2, FreeFdType DEF DescriptorInv
<1>2. backlog = <<>> => fdtab' = fdtab /\ backlog' = backlog
  BY DEF OnAccept, ArmAccept
<1>3. \A c \in Clients : (backlog = <<>> \/ c # b) =>
        \A f \in Fds : fdtab'[f] = c <=> fdtab[f] = c
  BY <1>1, <1>2, NewDescriptor
<1>4. backlog # <<>> => \A f \in Fds : fdtab'[f] = b <=> f = g
  BY <1>1, NewDescriptor
<1>5. DescriptorInv'
  <2>1. \A i \in 1 .. Len(cq') : cq'[i].ud.flag # "FLAG_CLOSE_CONNECTION"
    <3>. DEFINE Open == {e \in Cqes : e.ud.flag # "FLAG_CLOSE_CONNECTION"}
                t == <<Cqe(make_request_data(fd, "READ_RESPONSE"), 1)>>
    <3>1. cq \in Seq(Open)
      <4>1. \A i \in 1 .. Len(cq) : cq[i] \in Open
        BY <1>0, FirstPhaseFacts DEF DescriptorInv
      <4>. HIDE DEF Open
      <4>. QED  BY <4>1, SeqOfElements, FirstPhaseFacts
    <3>2. AcceptCqes(AcceptData) \in Seq(Open)
      <4>1. CASE backlog = <<>>
        BY <4>1 DEF AcceptCqes
      <4>2. CASE backlog # <<>>
        <5>1. Cqe(AcceptData, g) \in Open
          BY <1>1, <4>2 DEF Cqe, Cqes, AcceptData, make_request_data
        <5>. HIDE DEF Open
        <5>. QED  BY <4>2, <5>1 DEF AcceptCqes
      <4>. QED  BY <4>1, <4>2
    <3>3. t \in Seq(Open)
      <4>1. Cqe(make_request_data(fd, "READ_RESPONSE"), 1) \in Open
        BY <1>0 DEF Cqe, Cqes, ClientData, make_request_data
      <4>. HIDE DEF Open
      <4>. QED  BY <4>1
    <3>4. cq' = Tail(cq) \o AcceptCqes(AcceptData) \o t
      BY DEF OnAccept
    <3>5. cq' \in Seq(Open)
      <4>. HIDE DEF Open, t
      <4>. QED  BY <1>0, <3>1, <3>2, <3>3, <3>4
    <3>. QED  BY <3>5
  <2>2. \A i \in 1 .. Len(accepts') : accepts'[i] = AcceptData
    <3>1. accepts' = accepts \/ accepts' = Append(accepts, AcceptData)
      BY DEF OnAccept, ArmAccept
    <3>2. accepts \in Seq(PendingAccepts) /\ \A i \in 1 .. Len(accepts) : accepts[i] = AcceptData
      BY <1>0 DEF TypeOK, KernelTypeOK, DescriptorInv
    <3>3. \A i \in 1 .. Len(Append(accepts, AcceptData)) : Append(accepts, AcceptData)[i] = AcceptData
      BY <3>2
    <3>. QED  BY <3>1, <3>2, <3>3
  <2>3. \A f, h \in Fds : fdtab'[f] = fdtab'[h] /\ fdtab'[f] # NoClient => f = h
    <3>1. CASE backlog = <<>>
      BY <1>0, <1>2, <3>1 DEF DescriptorInv
    <3>2. CASE backlog # <<>>
      BY <1>1, <3>2, NewDescriptor
    <3>. QED  BY <3>1, <3>2
  <2>4. \A i \in 1 .. Len(backlog') :
          /\ pc'[backlog'[i]] # "start"
          /\ \A f \in Fds : fdtab'[f] # backlog'[i]
          /\ \A j \in 1 .. Len(backlog') : backlog'[i] = backlog'[j] => i = j
    <3>1. CASE backlog = <<>>
      BY <1>0, <1>2, <3>1 DEF DescriptorInv
    <3>2. CASE backlog # <<>>
      <4>1. backlog' = Tail(backlog) /\ backlog \in Seq(Clients)
        BY <3>2, FirstPhaseFacts DEF OnAccept, ArmAccept
      <4>2. \A i \in 1 .. Len(backlog') : /\ i + 1 \in 1 .. Len(backlog)
                                          /\ backlog'[i] = backlog[i + 1]
                                          /\ backlog[i + 1] \in Clients
                                          /\ i + 1 # 1
        BY <3>2, <4>1
      <4>3. \A i, j \in 1 .. Len(backlog) : backlog[i] = backlog[j] => i = j
        BY <1>0 DEF DescriptorInv
      <4>4. ASSUME NEW i \in 1 .. Len(backlog')
            PROVE  /\ pc'[backlog'[i]] # "start"
                   /\ \A f \in Fds : fdtab'[f] # backlog'[i]
        <5>1. backlog[i + 1] # b
          BY <1>1, <3>2, <4>2, <4>3
        <5>2. PICK d \in Clients : d = backlog[i + 1]
          BY <4>2
        <5>3. pc[d] # "start" /\ \A f \in Fds : fdtab[f] # d
          BY <1>0, <4>2, <5>2 DEF DescriptorInv
        <5>4. \A f \in Fds : fdtab'[f] # d
          BY <1>3, <5>1, <5>2, <5>3
        <5>. QED  BY <4>2, <5>2, <5>3, <5>4
      <4>5. ASSUME NEW i \in 1 .. Len(backlog'), NEW j \in 1 .. Len(backlog'),
                   backlog'[i] = backlog'[j]
            PROVE  i = j
        <5>1. backlog[i + 1] = backlog[j + 1]
          BY <4>2, <4>5
        <5>2. i + 1 = j + 1
          BY <4>2, <4>3, <5>1
        <5>. QED  BY <5>2
      <4>. QED  BY <4>4, <4>5
    <3>. QED  BY <3>1, <3>2
  <2>5. \A c \in Clients : pc'[c] = "start" => \A f \in Fds : fdtab'[f] # c
    <3>. HIDE DEF b, g, fd, ask
    <3>1. \A c \in Clients : pc[c] = "start" => \A f \in Fds : fdtab[f] # c
      BY Zenon, <1>0 DEF DescriptorInv
    <3>2. pc' = pc
      BY Zenon
    <3>. QED  BY Zenon, <1>1, <1>3, <3>1, <3>2
  <2>. QED  BY Zenon, <1>0, <2>1, <2>2, <2>3, <2>4, <2>5 DEF DescriptorInv, OnAccept
<1>6. ASSUME NEW c \in Clients  PROVE ClientInv(c)'
  <2>. HIDE DEF ask, fd
  <2>1. ClientInv(c) /\ Len(msg_arr[c]) \in Nat
    BY <1>0, FirstPhaseFacts DEF FirstPhaseInv
  <2>2. /\ fdtab[fd] # c => s2c'[c] = s2c[c]
        /\ \A j \in 1 .. Len(s2c'[c]) :
             \/ j \in 1 .. Len(s2c[c]) /\ s2c'[c][j] = s2c[c][j]
             \/ s2c'[c][j] = ask
    <3>1. s2c' = Sent(fd, ask)
      BY DEF OnAccept, ask, fd
    <3>. QED  BY <1>0, <3>1, SentElements
  <2>3. \A j \in 1 .. Len(s2c'[c]) :
          /\ s2c'[c][j].status \in ServerStatus
          /\ s2c'[c][j].status = "MESSAGE_SENDED" => s2c'[c][j].msg > Len(msg_arr[c])
    <3>1. ask.status \in ServerStatus /\ ask.status # "MESSAGE_SENDED"
      BY <1>0 DEF ServerStatus
    <3>. QED  BY <2>1, <2>2, <3>1 DEF ClientInv
  <2>4. /\ pc'[c] = pc[c] /\ msg_arr'[c] = msg_arr[c]
        /\ beffer_sended_N' = beffer_sended_N /\ beffer_sended_N \in [Fds -> Nat]
    BY FirstPhaseFacts DEF OnAccept
  <2>5. CASE backlog # <<>> /\ c = b
    <3>1. msg_arr[c] = <<>> /\ s2c[c] = <<>> /\ s2c'[c] = <<>>
      BY <1>0, <1>1, <2>1, <2>2, <2>5 DEF ClientInv
    <3>2. Len(msg_arr[c]) = 0 /\ Len(s2c'[c]) = 0
      BY <3>1
    <3>. QED  BY <2>1, <2>3, <2>4, <3>1, <3>2 DEF ClientInv
  <2>6. CASE backlog = <<>> \/ c # b
    <3>1. \A f \in Fds : fdtab'[f] = c <=> fdtab[f] = c
      BY <1>3, <2>6
    <3>2. (\A f \in Fds : fdtab'[f] # c) => msg_arr[c] = <<>> /\ s2c'[c] = <<>>
      BY <1>0, <2>1, <2>2, <3>1 DEF ClientInv
    <3>3. ASSUME NEW f \in Fds, fdtab'[f] = c
          PROVE  /\ Len(msg_arr[c]) <= beffer_sended_N[f]
                 /\ \A i \in 1 .. Len(s2c'[c]) : s2c'[c][i].msg <= beffer_sended_N[f]
      <4>1. ask.msg <= beffer_sended_N[f]
        BY <1>0, <2>4
      <4>. QED  BY <2>1, <2>2, <3>1, <3>3, <4>1 DEF ClientInv
    <3>. QED  BY <2>1, <2>3, <2>4, <3>2, <3>3 DEF ClientInv
  <2>. QED  BY <2>5, <2>6
<1>7. \A f \in Fds : beffer_sended_N'[f] <= CBUF'.fill_size
  BY <1>0 DEF FirstPhaseInv, OnAccept
<1>8. EnoughInv'
  <2>1. ask.status # "ENOUGH" /\ buffers' = [buffers EXCEPT ![fd] = ask]
    BY <1>0 DEF OnAccept
  <2>2. UNCHANGED <<CBUF, c2s>>
    BY DEF OnAccept
  <2>. HIDE DEF ask, fd
  <2>. QED  BY <1>0, <2>1, <2>2, FirstPhaseFacts DEF FirstPhaseInv, EnoughInv
<1>. QED  BY <1>5, <1>6, <1>7, <1>8 DEF FirstPhaseInv

\* Steps that add no message and change no counter: they keep what the
\* invariant says of clients and of ENOUGH.
LEMMA QuietClients ==
  ASSUME FirstPhaseInv, UNCHANGED <<CBUF, beffer_sended_N, fdtab, s2c, msg_arr, pc>>
  PROVE  /\ \A c \in Clients : ClientInv(c)'
         /\ \A f \in Fds : beffer_sended_N'[f] <= CBUF'.fill_size
BY DEF FirstPhaseInv, ClientInv

\* OnReadResponse arms a recv with the flag TEST_RESPONSE.
LEMMA ReadResponseKeepsFirstPhase ==
  ASSUME IInv, FirstPhase, OnReadResponse, UNCHANGED clientVars
  PROVE  FirstPhaseInv'
<1>. DEFINE ud == make_request_data(client_fd, "TEST_RESPONSE")
            t == RecvCqes(client_fd, ud)
<1>0. /\ FirstPhaseInv /\ TypeOK /\ DescriptorInv
      /\ client_fd \in Fds
      /\ cq # <<>>
  BY FirstPhaseFacts, EventType DEF OnReadResponse, NextEvent, FirstPhaseInv
<1>1. ud \in ClientData /\ ud.flag = "TEST_RESPONSE"
  BY <1>0 DEF make_request_data, ClientData
<1>2. \A i \in 1 .. Len(cq') : cq'[i].ud.flag # "FLAG_CLOSE_CONNECTION"
  <2>1. Submit(RecvOp(client_fd), t)
    BY DEF OnReadResponse
  <2>2. t \in Seq(Cqes)
    BY <1>0, <1>1, ArmRecvType
  <2>3. \A i \in 1 .. Len(t) : t[i].ud.flag # "FLAG_CLOSE_CONNECTION"
    <3>. HIDE DEF ud
    <3>. QED  BY <1>1 DEF RecvCqes, Cqe
  <2>. HIDE DEF t
  <2>. QED  BY <1>0, <2>1, <2>2, <2>3, SubmitFlags
<1>3. ASSUME NEW c \in Clients, NEW i \in 1 .. Len(recvs'[c])
      PROVE  recvs'[c][i].ud.flag # "FLAG_CLOSE_CONNECTION"
  <2>. DEFINE r == [buf |-> client_fd, ud |-> ud]
  <2>1. recvs'[c] = recvs[c] \/ recvs'[c] = Append(recvs[c], r)
    BY Zenon, FirstPhaseFacts DEF OnReadResponse, ArmRecv
  <2>2. recvs[c] \in Seq(PendingRecvs)
    BY FirstPhaseFacts
  <2>3. \A j \in 1 .. Len(recvs[c]) : recvs[c][j].ud.flag # "FLAG_CLOSE_CONNECTION"
    BY <1>0 DEF DescriptorInv
  <2>4. r.ud.flag # "FLAG_CLOSE_CONNECTION"
    BY <1>1
  <2>5. CASE i \in 1 .. Len(recvs[c])
    <3>1. recvs'[c][i] = recvs[c][i]
      <4>. HIDE DEF r
      <4>. QED  BY <2>1, <2>2, <2>5
    <3>. QED  BY <2>3, <2>5, <3>1
  <2>6. CASE i \notin 1 .. Len(recvs[c])
    <3>1. recvs'[c][i] = r
      <4>. HIDE DEF r
      <4>. QED  BY <1>3, <2>1, <2>2, <2>6
    <3>. QED  BY <2>4, <3>1
  <2>. QED  BY <2>5, <2>6
<1>4. DescriptorInv'
  BY <1>0, <1>2, <1>3, SameDescriptors, FirstPhaseFacts DEF OnReadResponse, clientVars
<1>5. UNCHANGED <<CBUF, beffer_sended_N, buffers, c2s, fdtab, s2c, msg_arr, pc>>
  BY DEF OnReadResponse, clientVars, serverVars
<1>6. EnoughInv'
  BY <1>0, <1>5 DEF FirstPhaseInv, EnoughInv
<1>. QED  BY <1>0, <1>4, <1>5, <1>6, QuietClients DEF FirstPhaseInv

\* OnNoResponse only takes a completion off the queue.
LEMMA NoResponseKeepsFirstPhase ==
  ASSUME IInv, FirstPhase, OnNoResponse, UNCHANGED clientVars
  PROVE  FirstPhaseInv'
<1>0. FirstPhaseInv /\ TypeOK /\ DescriptorInv /\ cq # <<>>
  BY FirstPhaseFacts DEF OnNoResponse, NextEvent, FirstPhaseInv
<1>1. \A i \in 1 .. Len(cq') : cq'[i].ud.flag # "FLAG_CLOSE_CONNECTION"
  <2>1. cq' = Tail(cq) /\ cq \in Seq(Cqes)
    BY FirstPhaseFacts DEF OnNoResponse
  <2>2. \A i \in 1 .. Len(cq') : cq'[i] = cq[i + 1] /\ i + 1 \in 1 .. Len(cq)
    BY <1>0, <2>1
  <2>. QED  BY <1>0, <2>2 DEF DescriptorInv
<1>2. UNCHANGED <<shut, accepts, backlog, recvs, CBUF, beffer_sended_N, buffers, c2s, fdtab,
                  s2c, msg_arr, pc>>
  BY Zenon DEF OnNoResponse, clientVars, serverVars
<1>3. DescriptorInv'
  BY Zenon, <1>0, <1>1, <1>2, FirstPhaseFacts, SameDescriptors DEF DescriptorInv
<1>4. EnoughInv'
  BY <1>0, <1>2 DEF FirstPhaseInv, EnoughInv
<1>. QED  BY <1>0, <1>2, <1>3, <1>4, QuietClients DEF FirstPhaseInv

\* A recv completes: a pending ENOUGH moves to a buffer.
LEMMA RecvKeepsFirstPhase ==
  ASSUME IInv, FirstPhase, KernelStep
  PROVE  FirstPhaseInv'
<1>0. FirstPhaseInv /\ TypeOK /\ DescriptorInv
  BY FirstPhaseFacts DEF FirstPhaseInv
<1>1. PICK c \in Clients : \E i \in 1 .. Len(recvs[c]) : RecvCompletes(c, i) \/ RecvEnds(c, i)
  BY DEF KernelStep, RecvCompletion
<1>2. PICK i \in 1 .. Len(recvs[c]) : RecvCompletes(c, i) \/ RecvEnds(c, i)
  BY <1>1
<1>3. recvs[c] \in Seq(PendingRecvs) /\ recvs[c][i] \in PendingRecvs
      /\ recvs[c][i].ud.flag # "FLAG_CLOSE_CONNECTION"
  <2>1. recvs[c] \in Seq(PendingRecvs)
    BY Zenon, FirstPhaseFacts
  <2>2. recvs[c][i] \in PendingRecvs
    BY <2>1
  <2>. QED  BY Zenon, <1>0, <2>1, <2>2 DEF DescriptorInv
<1>4. UNCHANGED <<shut, accepts, backlog, CBUF, beffer_sended_N, fdtab, s2c, msg_arr, pc>>
  BY Zenon, <1>2 DEF RecvCompletes, RecvEnds, serverVars, KernelStep, clientVars
<1>5. PICK res \in {0, 1} : cq' = Append(cq, Cqe(recvs[c][i].ud, res))
  BY <1>2 DEF RecvCompletes, RecvEnds
<1>6. \A j \in 1 .. Len(cq') : cq'[j].ud.flag # "FLAG_CLOSE_CONNECTION"
  <2>. DEFINE e == Cqe(recvs[c][i].ud, res)
  <2>1. e.ud.flag # "FLAG_CLOSE_CONNECTION"
    BY <1>3 DEF Cqe
  <2>2. cq \in Seq(Cqes) /\ cq' = Append(cq, e)
    BY <1>5, FirstPhaseFacts
  <2>3. \A j \in 1 .. Len(cq') : (j \in 1 .. Len(cq) /\ cq'[j] = cq[j]) \/ cq'[j] = e
    <3>. HIDE DEF e
    <3>. QED  BY <2>2
  <2>. QED  BY <1>0, <2>1, <2>3 DEF DescriptorInv
<1>7. \A d \in Clients : \A j \in 1 .. Len(recvs'[d]) :
        recvs'[d][j].ud.flag # "FLAG_CLOSE_CONNECTION"
  <2>1. recvs' = [recvs EXCEPT ![c] = RemoveAt(recvs[c], i)]
    BY <1>2 DEF RecvCompletes, RecvEnds
  <2>2. \A j \in 1 .. Len(RemoveAt(recvs[c], i)) :
          \E k \in 1 .. Len(recvs[c]) : RemoveAt(recvs[c], i)[j] = recvs[c][k]
    <3>1. PICK q : q = recvs[c]
      BY Zenon
    <3>2. q \in Seq(PendingRecvs) /\ i \in 1 .. Len(q)
      BY Zenon, <1>3, <3>1
    <3>3. \A j \in 1 .. Len(RemoveAt(q, i)) :
            \E k \in 1 .. Len(q) : RemoveAt(q, i)[j] = q[k]
      BY <3>2, RemoveAtElements
    <3>. QED  BY Zenon, <3>1, <3>3
  <2>3. \A j \in 1 .. Len(RemoveAt(recvs[c], i)) :
          RemoveAt(recvs[c], i)[j].ud.flag # "FLAG_CLOSE_CONNECTION"
    BY <1>0, <2>2 DEF DescriptorInv
  <2>. QED  BY Zenon, <1>0, <2>1, <2>3, FirstPhaseFacts DEF DescriptorInv
<1>8. DescriptorInv'
  BY Zenon, <1>0, <1>4, <1>6, <1>7, FirstPhaseFacts, SameDescriptors
<1>9. EnoughInv'
  <2>1. CASE RecvEnds(c, i)
    BY <1>0, <1>4, <2>1 DEF RecvEnds, serverVars, FirstPhaseInv, EnoughInv
  <2>2. CASE RecvCompletes(c, i)
    <3>1. Len(c2s[c]) \in 1 .. Len(c2s[c])
      BY <2>2, FirstPhaseFacts DEF RecvCompletes
    <3>2. Last(c2s[c]).status = "ENOUGH" => CBUF.fill_size >= BLOCKSIZE
      BY <1>0, <3>1 DEF Last, FirstPhaseInv, EnoughInv
    <3>3. /\ c2s' = [c2s EXCEPT ![c] = <<>>]
          /\ buffers' = [buffers EXCEPT ![recvs[c][i].buf] = Last(c2s[c])]
      BY <2>2 DEF RecvCompletes
    <3>4. \A d \in Clients : \A j \in 1 .. Len(c2s'[d]) : j \in 1 .. Len(c2s[d]) /\ c2s'[d][j] = c2s[d][j]
      BY <3>3, FirstPhaseFacts
    <3>5. \A f \in Fds : buffers'[f] = buffers[f] \/ buffers'[f] = Last(c2s[c])
      BY <3>3, FirstPhaseFacts
    <3>. QED  BY <1>0, <1>4, <3>2, <3>4, <3>5 DEF FirstPhaseInv, EnoughInv
  <2>. QED  BY <1>2, <2>1, <2>2
<1>. QED  BY <1>0, <1>4, <1>8, <1>9, QuietClients DEF FirstPhaseInv

----------------------------------------------------------------------------
\* A client connects: it is given a free descriptor or joins the backlog.
LEMMA ConnectKeepsFirstPhase ==
  ASSUME IInv, FirstPhase, NEW c \in Clients, ConnectStep(c)
  PROVE  FirstPhaseInv'
<1>0. /\ FirstPhaseInv /\ TypeOK /\ DescriptorInv
      /\ pc[c] = "start" /\ \A f \in Fds : fdtab[f] # c
      /\ pc \in [Clients -> {"start", "loop", "filled", "desynced", "dead"}]
  BY Zenon, FirstPhaseFacts
     DEF FirstPhaseInv, ConnectStep, Connect, DescriptorInv, TypeOK, ClientTypeOK
<1>1. /\ pc' = [pc EXCEPT ![c] = "loop"]
      /\ Connected(c)
      /\ UNCHANGED <<recvs, shut, s2c, c2s, msg_arr, CBUF, beffer_sended_N, buffers>>
  BY DEF ConnectStep, Connect, serverSide, serverVars
<1>2. \A d \in Clients : pc'[d] = IF d = c THEN "loop" ELSE pc[d]
  BY <1>0, <1>1
<1>3. \A i \in 1 .. Len(backlog) : backlog[i] \in Clients /\ backlog[i] # c
  <2>1. backlog \in Seq(Clients)
    BY FirstPhaseFacts
  <2>2. \A i \in 1 .. Len(backlog) : pc[backlog[i]] # "start"
    BY <1>0 DEF DescriptorInv
  <2>. QED  BY <1>0, <2>1, <2>2
<1>4. \A d \in Clients \ {c} : \A f \in Fds : fdtab'[f] = d <=> fdtab[f] = d
  <2>1. CASE accepts # <<>>
    <3>1. FreeFds # {} /\ fdtab' = [fdtab EXCEPT ![LowestFreeFd] = c]
      BY <1>1, <2>1 DEF Connected
    <3>. QED  BY Zenon, <1>0, <3>1, FreeFdType, NewDescriptor
  <2>2. CASE accepts = <<>>
    BY <1>1, <2>2 DEF Connected
  <2>. QED  BY <2>1, <2>2
<1>5. DescriptorInv'
  <2>1. CASE accepts # <<>>
    <3>1. /\ FreeFds # {} /\ fdtab' = [fdtab EXCEPT ![LowestFreeFd] = c]
          /\ cq' = Append(cq, Cqe(Head(accepts), LowestFreeFd))
          /\ accepts' = Tail(accepts)
          /\ backlog' = backlog
      BY <1>1, <2>1 DEF Connected
    <3>2. accepts \in Seq(PendingAccepts) /\ \A i \in 1 .. Len(accepts) : accepts[i] = AcceptData
      BY <1>0 DEF TypeOK, KernelTypeOK, DescriptorInv
    <3>3. \A i \in 1 .. Len(accepts') : accepts'[i] = AcceptData
      BY <2>1, <3>1, <3>2
    <3>4. \A i \in 1 .. Len(cq') : cq'[i].ud.flag # "FLAG_CLOSE_CONNECTION"
      <4>. DEFINE e == Cqe(Head(accepts), LowestFreeFd)
      <4>1. Head(accepts) = AcceptData
        BY <2>1, <3>2
      <4>2. e.ud.flag # "FLAG_CLOSE_CONNECTION"
        BY <4>1 DEF Cqe, AcceptData, make_request_data
      <4>3. cq \in Seq(Cqes)
        BY FirstPhaseFacts
      <4>4. \A j \in 1 .. Len(cq') : (j \in 1 .. Len(cq) /\ cq'[j] = cq[j]) \/ cq'[j] = e
        <5>. HIDE DEF e
        <5>. QED  BY <3>1, <4>3 DEF e
      <4>. QED  BY <1>0, <4>2, <4>4 DEF DescriptorInv
    <3>5. \A f, h \in Fds : fdtab'[f] = fdtab'[h] /\ fdtab'[f] # NoClient => f = h
      BY Zenon, <1>0, <3>1, FreeFdType, NewDescriptor
    <3>6. \A i \in 1 .. Len(backlog) : /\ pc'[backlog[i]] # "start"
                                       /\ \A f \in Fds : fdtab'[f] # backlog[i]
      <4>1. \A i \in 1 .. Len(backlog) : /\ pc[backlog[i]] # "start"
                                         /\ \A f \in Fds : fdtab[f] # backlog[i]
        BY Zenon, <1>0 DEF DescriptorInv
      <4>2. \A i \in 1 .. Len(backlog) : backlog[i] \in Clients \ {c}
        BY Zenon, <1>3
      <4>. QED  BY Zenon, <1>2, <1>4, <4>1, <4>2
    <3>7. \A d \in Clients : pc'[d] = "start" => \A f \in Fds : fdtab'[f] # d
      <4>. SUFFICES ASSUME NEW d \in Clients, pc'[d] = "start"
                    PROVE  \A f \in Fds : fdtab'[f] # d
        BY Zenon
      <4>1. d # c /\ pc[d] = "start"
        BY <1>2
      <4>2. \A f \in Fds : fdtab[f] # d
        BY Zenon, <1>0, <4>1 DEF DescriptorInv
      <4>. QED  BY Zenon, <1>4, <4>1, <4>2
    <3>8. \A i, j \in 1 .. Len(backlog) : backlog[i] = backlog[j] => i = j
      BY <1>0 DEF DescriptorInv
    <3>9. shut' = {} /\ \A d \in Clients : \A i \in 1 .. Len(recvs'[d]) :
                           recvs'[d][i].ud.flag # "FLAG_CLOSE_CONNECTION"
      BY Zenon, <1>0, <1>1 DEF DescriptorInv
    <3>10. \A i \in 1 .. Len(backlog') :
             /\ pc'[backlog'[i]] # "start"
             /\ \A f \in Fds : fdtab'[f] # backlog'[i]
             /\ \A j \in 1 .. Len(backlog') : backlog'[i] = backlog'[j] => i = j
      BY Zenon, <3>1, <3>6, <3>8
    <3>. QED  BY Zenon, <3>3, <3>4, <3>5, <3>7, <3>9, <3>10 DEF DescriptorInv
  <2>2. CASE accepts = <<>>
    <3>1. backlog' = Append(backlog, c) /\ UNCHANGED <<fdtab, cq, accepts>>
      BY <1>1, <2>2 DEF Connected
    <3>2. backlog \in Seq(Clients)
      BY FirstPhaseFacts
    <3>3. \A i \in 1 .. Len(backlog') :
            \/ i \in 1 .. Len(backlog) /\ backlog'[i] = backlog[i]
            \/ i = Len(backlog) + 1 /\ backlog'[i] = c
      BY <3>1, <3>2
    <3>4. \A i \in 1 .. Len(backlog') : /\ pc'[backlog'[i]] # "start"
                                        /\ \A f \in Fds : fdtab'[f] # backlog'[i]
      <4>1. \A i \in 1 .. Len(backlog) : /\ pc[backlog[i]] # "start"
                                         /\ \A f \in Fds : fdtab[f] # backlog[i]
        BY Zenon, <1>0 DEF DescriptorInv
      <4>2. pc'[c] = "loop" /\ \A i \in 1 .. Len(backlog) : pc'[backlog[i]] = pc[backlog[i]]
        BY Zenon, <1>2, <1>3
      <4>3. UNCHANGED fdtab /\ \A f \in Fds : fdtab[f] # c
        BY Zenon, <1>0, <3>1
      <4>. QED  BY Zenon, <3>3, <4>1, <4>2, <4>3
    <3>5. \A i, j \in 1 .. Len(backlog') : backlog'[i] = backlog'[j] => i = j
      <4>1. \A i, j \in 1 .. Len(backlog) : backlog[i] = backlog[j] => i = j
        BY <1>0 DEF DescriptorInv
      <4>. QED  BY <1>3, <3>3, <4>1
    <3>6. \A d \in Clients : pc'[d] = "start" => \A f \in Fds : fdtab'[f] # d
      BY <1>0, <1>2, <3>1 DEF DescriptorInv
    <3>. QED  BY <1>0, <1>1, <3>1, <3>4, <3>5, <3>6 DEF DescriptorInv
  <2>. QED  BY Zenon, <2>1, <2>2
<1>6. ASSUME NEW d \in Clients  PROVE ClientInv(d)'
  <2>1. ClientInv(d)
    BY Zenon, <1>0 DEF FirstPhaseInv
  <2>2. CASE d = c
    <3>1. msg_arr[c] = <<>> /\ s2c[c] = <<>> /\ Len(msg_arr[c]) = 0 /\ Len(s2c[c]) = 0
      <4>1. msg_arr[c] = <<>> /\ s2c[c] = <<>>
        BY Zenon, <1>0, <2>1, <2>2 DEF ClientInv
      <4>. QED  BY <4>1
    <3>2. \A f \in Fds : beffer_sended_N[f] >= 0
      BY FirstPhaseFacts
    <3>. QED  BY <1>1, <1>2, <2>2, <3>1, <3>2 DEF ClientInv
  <2>3. CASE d # c
    BY Zenon, <1>1, <1>2, <1>4, <2>1, <2>3 DEF ClientInv
  <2>. QED  BY <2>2, <2>3
<1>7. EnoughInv' /\ \A f \in Fds : beffer_sended_N'[f] <= CBUF'.fill_size
  BY <1>0, <1>1 DEF FirstPhaseInv, EnoughInv
<1>. QED  BY Zenon, <1>5, <1>6, <1>7 DEF FirstPhaseInv

----------------------------------------------------------------------------
(***************************************************************************)
(* Of these, the steps that receive an answer keep the turns of server and *)
(* client (TurnInv); those that admit a client are in DistributionProofs.  *)
(***************************************************************************)

\* OnReadResponse arms a recv for the client's answer.
LEMMA ReadResponseTurn ==
  ASSUME IInv, FirstPhase, TurnInv, OnReadResponse, UNCHANGED clientVars
  PROVE  TurnInv'
<1>1. PICK fd \in Fds : fd = client_fd /\ cq # <<>>
  BY FirstPhaseFacts, EventType DEF OnReadResponse, NextEvent
<1>2. UNCHANGED <<fdtab, s2c, c2s, msg_arr, beffer_sended_N>>
  BY Zenon DEF OnReadResponse, clientVars, serverVars
<1>3. /\ cq' = Tail(cq) \o RecvCqes(fd, Answer(fd))
      /\ ArmRecv(fd, Answer(fd))
  BY Zenon, <1>1 DEF OnReadResponse, Submit, Answer
<1>4. CASE fdtab[fd] = NoClient
  <2>1. PICK e \in Cqes : /\ e = Cqe(Answer(fd), 0)
                          /\ \A f \in Fds : ~Due(e, f)
    <3>1. Cqe(Answer(fd), 0) \in Cqes
      BY DEF Cqe, Cqes, ClientData, Answer, make_request_data
    <3>. QED  BY Zenon, <3>1, DueOf
  <2>2. cq' = Tail(cq) \o <<e>> /\ recvs' = recvs
    BY Zenon, <1>3, <1>4, <2>1 DEF RecvCqes, ArmRecv
  <2>3. \A f \in Fds : Once(cq', f) /\ (Has(cq', f) => Has(cq, f))
    BY Zenon, <1>1, <2>1, <2>2, NextTurn
  <2>. QED  BY Zenon, <1>2, <2>2, <2>3, QuietTurn
<1>5. CASE fdtab[fd] # NoClient
  <2>1. PICK c \in Clients : fdtab[fd] = c /\ TurnOf(fd, c)
    BY Zenon, <1>5, FirstPhaseFacts DEF TurnInv
  <2>2. PICK q \in Seq(PendingRecvs) : q = recvs[c] /\ \A i \in 1 .. Len(q) : q[i] = [buf |-> fd, ud |-> Answer(fd)]
    BY Zenon, <2>1, FirstPhaseFacts DEF TurnOf
  <2>3. PICK r \in PendingRecvs : r = [buf |-> fd, ud |-> Answer(fd)]
    <3>1. [buf |-> fd, ud |-> Answer(fd)] \in PendingRecvs
      BY DEF PendingRecvs, Answer, make_request_data, ClientData
    <3>. QED  BY Zenon, <3>1
  <2>4. cq' = Tail(cq) \o <<>> /\ recvs' = [recvs EXCEPT ![c] = Append(q, r)]
    BY Zenon, <1>3, <1>5, <2>1, <2>2, <2>3 DEF RecvCqes, ArmRecv
  <2>5. recvs'[c] = Append(q, r) /\ \A d \in Clients : d # c => recvs'[d] = recvs[d]
    BY Zenon, <2>4, FirstPhaseFacts
  <2>6. \A f \in Fds : Once(cq', f) /\ (Has(cq', f) => Has(cq, f))
    BY Zenon, <1>1, <2>4, NextTurn
  <2>7. \A i \in 1 .. Len(Append(q, r)) : Append(q, r)[i] = r
    BY <2>2, <2>3
  <2>8. TurnOf(fd, c)'
    BY Zenon, <1>2, <2>1, <2>3, <2>5, <2>6, <2>7, TurnKept
  <2>. QED  BY Zenon, <1>2, <2>1, <2>5, <2>6, <2>8, OwnTurn
<1>. QED  BY Zenon, <1>4, <1>5

\* OnNoResponse answers nothing: the turn is the server's no longer.
LEMMA NoResponseTurn ==
  ASSUME IInv, FirstPhase, TurnInv, OnNoResponse, UNCHANGED clientVars
  PROVE  TurnInv'
<1>1. UNCHANGED <<fdtab, recvs, s2c, c2s, msg_arr, beffer_sended_N>> /\ cq # <<>>
  BY Zenon DEF OnNoResponse, NextEvent, clientVars, serverVars
<1>2. cq' = Tail(cq) \o <<>>
  BY <1>1, FirstPhaseFacts DEF OnNoResponse
<1>3. \A f \in Fds : Once(cq', f) /\ (Has(cq', f) => Has(cq, f))
  BY Zenon, <1>1, <1>2, NextTurn
<1>. QED  BY Zenon, <1>1, <1>3, QuietTurn

\* A recv completes: the answer of the client gives the server its turn.
LEMMA RecvTurn ==
  ASSUME IInv, FirstPhase, TurnInv, KernelStep
  PROVE  TurnInv'
<1>1. PICK c \in Clients : \E i \in 1 .. Len(recvs[c]) : RecvCompletes(c, i) \/ RecvEnds(c, i)
  BY DEF KernelStep, RecvCompletion
<1>2. PICK i \in 1 .. Len(recvs[c]) : RecvCompletes(c, i) \/ RecvEnds(c, i)
  BY <1>1
<1>3. PICK fd \in Fds : fdtab[fd] = c /\ TurnOf(fd, c)
  <2>1. recvs[c] # <<>>
    BY <1>2, FirstPhaseFacts
  <2>. QED  BY Zenon, <2>1 DEF TurnInv
<1>4. recvs[c][i].ud = Answer(fd)
  BY <1>3 DEF TurnOf
<1>5. UNCHANGED <<fdtab, s2c, msg_arr, beffer_sended_N>>
  BY Zenon, <1>2 DEF RecvCompletes, RecvEnds, serverVars, KernelStep, clientVars
<1>6. /\ \A d \in Clients : d # c => recvs'[d] = recvs[d]
      /\ \A j \in 1 .. Len(recvs'[c]) : recvs'[c][j] = [buf |-> fd, ud |-> Answer(fd)]
  <2>1. recvs' = [recvs EXCEPT ![c] = RemoveAt(recvs[c], i)]
    BY Zenon, <1>2 DEF RecvCompletes, RecvEnds
  <2>2. recvs'[c] = RemoveAt(recvs[c], i) /\ \A d \in Clients : d # c => recvs'[d] = recvs[d]
    BY Zenon, <2>1, FirstPhaseFacts
  <2>3. PICK q : q = recvs[c]
    BY Zenon
  <2>4. q \in Seq(PendingRecvs) /\ i \in 1 .. Len(q)
    BY Zenon, <1>2, <2>3, FirstPhaseFacts
  <2>5. \A j \in 1 .. Len(RemoveAt(q, i)) : \E k \in 1 .. Len(q) : RemoveAt(q, i)[j] = q[k]
    BY <2>4, RemoveAtElements
  <2>6. \A k \in 1 .. Len(q) : q[k] = [buf |-> fd, ud |-> Answer(fd)]
    BY Zenon, <1>3, <2>3 DEF TurnOf
  <2>. QED  BY Zenon, <2>2, <2>3, <2>5, <2>6
<1>7. CASE RecvEnds(c, i)
  <2>1. PICK e \in Cqes : e = Cqe(Answer(fd), 0) /\ \A f \in Fds : ~Due(e, f)
    <3>1. Cqe(Answer(fd), 0) \in Cqes
      BY DEF Cqe, Cqes, ClientData, Answer, make_request_data
    <3>. QED  BY Zenon, <3>1, DueOf
  <2>2. cq' = Append(cq, e) /\ c2s' = c2s
    BY Zenon, <1>4, <1>7, <2>1 DEF RecvEnds
  <2>3. \A f \in Fds : Once(Append(cq, e), f) /\ (Has(Append(cq, e), f) => Has(cq, f))
    BY Zenon, <2>1, AppendDue, FirstPhaseFacts DEF TurnInv
  <2>4. \A f \in Fds : Once(cq', f) /\ (Has(cq', f) => Has(cq, f))
    BY <2>2, <2>3
  <2>5. TurnOf(fd, c)'
    BY Zenon, <1>3, <1>5, <1>6, <2>2, <2>4, TurnKept
  <2>. QED  BY Zenon, <1>3, <1>5, <1>6, <2>2, <2>4, <2>5, OwnTurn
<1>8. CASE RecvCompletes(c, i)
  <2>1. PICK e \in Cqes : e = Cqe(Answer(fd), 1) /\ \A f \in Fds : Due(e, f) <=> f = fd
    <3>1. Cqe(Answer(fd), 1) \in Cqes
      BY DEF Cqe, Cqes, ClientData, Answer, make_request_data
    <3>2. \A f \in Fds : Due(Cqe(Answer(fd), 1), f) <=> f = fd
      BY Zenon, DueOf
    <3>. QED  BY Zenon, <3>1, <3>2
  <2>2. cq' = Append(cq, e) /\ c2s' = [c2s EXCEPT ![c] = <<>>] /\ c2s[c] # <<>>
    BY Zenon, <1>4, <1>8, <2>1 DEF RecvCompletes
  <2>3. c2s'[c] = <<>> /\ \A d \in Clients : d # c => c2s'[d] = c2s[d]
    BY Zenon, <2>2, FirstPhaseFacts
  <2>4. s2c[c] = <<>> /\ beffer_sended_N[fd] = Len(msg_arr[c]) /\ ~Has(cq, fd)
    BY Zenon, <1>3, <2>2 DEF TurnOf
  <2>5. \A f \in Fds : Once(Append(cq, e), f) /\ (Has(Append(cq, e), f) => Has(cq, f) \/ f = fd)
    <3>1. cq \in Seq(Cqes) /\ \A f \in Fds : Once(cq, f)
      BY Zenon, FirstPhaseFacts DEF TurnInv
    <3>. QED  BY Zenon, <2>1, <2>4, <3>1, AppendDue
  <2>6. \A f \in Fds : Once(cq', f) /\ (Has(cq', f) => Has(cq, f) \/ f = fd)
    BY <2>2, <2>5
  <2>7. TurnOf(fd, c)'
    <3>1. \A j \in 1 .. Len(s2c[c]) : FALSE
      BY <2>4
    <3>2. beffer_sended_N[fd] <= Len(msg_arr[c]) + 1
      BY Zenon, <1>3 DEF TurnOf
    <3>. QED  BY Zenon, <1>5, <1>6, <2>3, <2>4, <3>1, <3>2 DEF TurnOf
  <2>. QED  BY Zenon, <1>3, <1>5, <1>6, <2>3, <2>6, <2>7, OwnTurn
<1>. QED  BY Zenon, <1>2, <1>7, <1>8

-----------------------------------------------------------------------------
\* The clients' steps, all steps together, and the theorems.

\* A client of the first phase is in step with its completions, and what the
\* server holds it leaves alone.
LEMMA ClientLeaves ==
  ASSUME IInv, FirstPhase, NEW c \in Clients, ClientStep(c) \/ StrayStep(c) \/ FailStep(c)
  PROVE  /\ ~DesyncedTurn(c)
         /\ ~OnOtherStatus(c)
         /\ UNCHANGED <<cq, recvs, shut, accepts, backlog, fdtab, CBUF, beffer_sended_N, buffers>>
<1>0. ClientInv(c)
  BY FirstPhaseFacts DEF FirstPhaseInv
<1>1. /\ ~DesyncedTurn(c)
      /\ ~OnOtherStatus(c)
  <2>1. ~DesyncedTurn(c)
    BY <1>0 DEF ClientInv, DesyncedTurn
  <2>2. \A st \in ClientStatus : Received(c, st) => FALSE
    <3>1. s2c[c] # <<>> => Len(s2c[c]) \in 1 .. Len(s2c[c])
      BY FirstPhaseFacts
    <3>2. s2c[c] # <<>> => Last(s2c[c]).status \in ServerStatus
      BY <1>0, <3>1 DEF ClientInv, Last
    <3>. QED  BY <3>2 DEF Received, ServerStatus, ClientStatus
  <2>. QED  BY <2>1, <2>2 DEF OnOtherStatus
<1>2. UNCHANGED <<cq, recvs, shut, accepts, backlog, fdtab, CBUF, beffer_sended_N, buffers>>
  BY Zenon, <1>1 DEF ClientStep, StrayStep, FailStep, MessageThread, OnAsk, OnMessage, OnLastMessage,
              OnAllSent, UnpackFails, Fail, Dies, serverSide, serverVars
<1>. QED  BY <1>1, <1>2

\* The message a client stores is one more than it has, at least, and no further
\* than the server's counter.
LEMMA MessageIsNew ==
  ASSUME IInv, FirstPhase, NEW c \in Clients, NEW fd \in Fds, fdtab[fd] = c,
         Received(c, "MESSAGE_SENDED")
  PROVE  /\ Last(s2c[c]).msg \in Nat
         /\ Len(msg_arr[c]) < Last(s2c[c]).msg
         /\ Last(s2c[c]).msg <= beffer_sended_N[fd]
<1>0. ClientInv(c)
  BY FirstPhaseFacts DEF FirstPhaseInv
<1>1. /\ Len(s2c[c]) \in 1 .. Len(s2c[c]) /\ Last(s2c[c]) = s2c[c][Len(s2c[c])]
      /\ Last(s2c[c]) \in Messages
      /\ Last(s2c[c]).status = "MESSAGE_SENDED"
  <2>1. s2c[c] \in Seq(Messages) /\ s2c[c] # <<>>
    BY Zenon, FirstPhaseFacts DEF Received
  <2>2. Last(s2c[c]).status = "MESSAGE_SENDED"
    BY Zenon DEF Received
  <2>. QED  BY <2>1, <2>2 DEF Last
<1>2. Last(s2c[c]).msg > Len(msg_arr[c]) /\ Last(s2c[c]).msg <= beffer_sended_N[fd]
  BY Zenon, <1>0, <1>1 DEF ClientInv
<1>3. Last(s2c[c]).msg \in Nat /\ Len(msg_arr[c]) \in Nat
  <2>1. msg_arr[c] \in Seq(Nat)
    BY Zenon, FirstPhaseFacts
  <2>2. \A m \in Messages : m.msg \in Nat
    BY DEF Messages
  <2>3. Last(s2c[c]).msg \in Nat
    BY Zenon, <1>1, <2>2
  <2>. QED  BY <2>1, <2>3
<1>. HIDE DEF Last
<1>. QED  BY <1>2, <1>3

\* A turn of a client's loop, and the end of its process.
LEMMA ClientKeepsFirstPhase ==
  ASSUME IInv, FirstPhase, NEW c \in Clients, ClientStep(c) \/ StrayStep(c) \/ FailStep(c)
  PROVE  FirstPhaseInv'
<1>0. /\ FirstPhaseInv /\ TypeOK /\ DescriptorInv /\ ClientInv(c)
      /\ pc \in [Clients -> {"start", "loop", "filled", "desynced", "dead"}]
  BY FirstPhaseFacts DEF FirstPhaseInv, TypeOK, ClientTypeOK
<1>1. ~DesyncedTurn(c) /\ ~OnOtherStatus(c)
  BY Zenon, ClientLeaves
<1>2. UNCHANGED <<cq, recvs, shut, accepts, backlog, fdtab, CBUF, beffer_sended_N, buffers>>
  BY Zenon, ClientLeaves
<1>3. /\ \A d \in Clients : d # c => pc'[d] = pc[d] /\ msg_arr'[d] = msg_arr[d] /\ s2c'[d] = s2c[d]
      /\ pc'[c] # "desynced" /\ pc[c] # "start" /\ pc'[c] # "start"
      /\ s2c'[c] = <<>>
  <2>1. msg_arr \in [Clients -> Seq(Nat)] /\ s2c \in [Clients -> Seq(Messages)]
    BY FirstPhaseFacts
  <2>2. CASE \E st : Received(c, st) /\ (pc' = pc \/ pc' = [pc EXCEPT ![c] = "filled"])
                    /\ (msg_arr' = msg_arr \/ msg_arr' = [msg_arr EXCEPT ![c] = Append(msg_arr[c], Last(s2c[c]).msg)])
    BY Zenon, <1>0, <2>1, <2>2 DEF Received, ClientInv
  <2>3. CASE Dies(c) /\ pc[c] # "start"
    BY <1>0, <2>1, <2>3 DEF Dies
  <2>4. UnpackFails(c) \/ Fail(c) => Dies(c) /\ pc[c] # "start"
    BY Zenon DEF UnpackFails, Fail
  <2>. QED  BY Zenon, <1>1, <2>2, <2>3, <2>4
         DEF ClientStep, StrayStep, FailStep, MessageThread, OnAsk, OnMessage, OnLastMessage,
             OnAllSent, clientVars
<1>4. DescriptorInv'
  <2>1. \A d \in Clients : pc'[d] = "start" <=> pc[d] = "start"
    BY <1>3
  <2>. QED  BY Zenon, <1>0, <1>2, <2>1, FirstPhaseFacts, SameDescriptors DEF DescriptorInv
<1>5. s2c[c] # <<>> => \E fd \in Fds : fdtab[fd] = c
  BY Zenon, <1>0 DEF ClientInv
\* The message a client stores is no further than the server's counter.
<1>6. ASSUME NEW fd \in Fds, fdtab[fd] = c, Received(c, "MESSAGE_SENDED")
      PROVE  Len(msg_arr[c]) + 1 <= beffer_sended_N[fd]
  <2>1. PICK n \in Nat : Len(msg_arr[c]) < n /\ n <= beffer_sended_N[fd]
    BY Zenon, <1>6, MessageIsNew
  <2>. QED  BY <2>1, FirstPhaseFacts
<1>7. \/ msg_arr'[c] = msg_arr[c]
      \/ /\ Received(c, "MESSAGE_SENDED")
         /\ Len(msg_arr'[c]) = Len(msg_arr[c]) + 1
  <2>1. ASSUME OnMessage(c) \/ OnLastMessage(c)
        PROVE  Received(c, "MESSAGE_SENDED") /\ Len(msg_arr'[c]) = Len(msg_arr[c]) + 1
    <3>1. /\ Received(c, "MESSAGE_SENDED")
          /\ msg_arr' = [msg_arr EXCEPT ![c] = Append(msg_arr[c], Last(s2c[c]).msg)]
      BY <2>1 DEF OnMessage, OnLastMessage
    <3>2. msg_arr'[c] = Append(msg_arr[c], Last(s2c[c]).msg) /\ msg_arr[c] \in Seq(Nat)
      BY <3>1, FirstPhaseFacts
    <3>3. Last(s2c[c]).msg \in Nat
      <4>1. s2c[c] \in Seq(Messages) /\ s2c[c] # <<>>
        BY Zenon, <3>1, FirstPhaseFacts DEF Received
      <4>2. Last(s2c[c]) \in Messages
        BY <4>1 DEF Last
      <4>. QED  BY <4>2 DEF Messages
    <3>. QED  BY <3>1, <3>2, <3>3
  <2>2. ASSUME ~(OnMessage(c) \/ OnLastMessage(c))  PROVE msg_arr' = msg_arr
    BY <1>1, <2>2 DEF ClientStep, StrayStep, FailStep, MessageThread, OnAsk, OnAllSent,
                      UnpackFails, Fail, Dies, clientVars
  <2>. QED  BY <2>1, <2>2
<1>8. ASSUME NEW d \in Clients  PROVE ClientInv(d)'
  <2>1. CASE d # c
    <3>1. ClientInv(d)
      BY <1>0 DEF FirstPhaseInv
    <3>. QED  BY <1>2, <1>3, <2>1, <3>1 DEF ClientInv
  <2>2. CASE d = c
    <3>1. \A fd \in Fds : fdtab[fd] = c => Len(msg_arr'[c]) <= beffer_sended_N[fd]
      BY <1>0, <1>6, <1>7 DEF ClientInv
    <3>2. (\A fd \in Fds : fdtab[fd] # c) => msg_arr'[c] = <<>>
      BY Zenon, <1>0, <1>5, <1>7 DEF ClientInv, Received
    <3>3. s2c'[c] = <<>> /\ pc'[c] # "desynced"
      BY Zenon, <1>3
    <3>4. \A i \in 1 .. Len(s2c'[c]) : FALSE
      BY Zenon, <3>3, NoElements
    <3>5. UNCHANGED <<fdtab, beffer_sended_N>>
      BY Zenon, <1>2
    <3>6. (\A fd \in Fds : fdtab'[fd] # c) => msg_arr'[c] = <<>> /\ s2c'[c] = <<>>
      BY Zenon, <3>2, <3>3, <3>5
    <3>7. \A fd \in Fds : fdtab'[fd] = c => Len(msg_arr'[c]) <= beffer_sended_N'[fd]
      BY Zenon, <3>1, <3>5
    <3>. QED  BY Zenon, <2>2, <3>3, <3>4, <3>6, <3>7 DEF ClientInv
  <2>. QED  BY <2>1, <2>2
<1>9. EnoughInv'
  <2>1. PICK m \in Messages :
           /\ \A d \in Clients : \A j \in 1 .. Len(c2s'[d]) :
                \/ j \in 1 .. Len(c2s[d]) /\ c2s'[d][j] = c2s[d][j]
                \/ c2s'[d][j] = m
           /\ m.status = "ENOUGH" => OnLastMessage(c)
    <3>1. \A st \in ClientStatus : send_STATUS(c, st) =>
            \A d \in Clients : \A j \in 1 .. Len(c2s'[d]) :
                \/ j \in 1 .. Len(c2s[d]) /\ c2s'[d][j] = c2s[d][j]
                \/ c2s'[d][j] = Status(st)
      <4>. SUFFICES ASSUME NEW st \in ClientStatus, send_STATUS(c, st), NEW d \in Clients
                    PROVE  \A j \in 1 .. Len(c2s'[d]) :
                             \/ j \in 1 .. Len(c2s[d]) /\ c2s'[d][j] = c2s[d][j]
                             \/ c2s'[d][j] = Status(st)
        BY Zenon
      <4>1. c2s[d] \in Seq(Messages) /\ c2s \in [Clients -> Seq(Messages)]
        BY FirstPhaseFacts
      <4>2. c2s'[d] = c2s[d] \/ c2s'[d] = Append(c2s[d], Status(st))
        BY <4>1 DEF send_STATUS, Deliver
      <4>3. PICK m : m = Status(st)
        OBVIOUS
      <4>4. \A j \in 1 .. Len(Append(c2s[d], m)) :
              \/ j \in 1 .. Len(c2s[d]) /\ Append(c2s[d], m)[j] = c2s[d][j]
              \/ Append(c2s[d], m)[j] = m
        BY Zenon, <4>1, MessageAppended
      <4>5. CASE c2s'[d] = c2s[d]
        BY Zenon, <4>5
      <4>6. CASE c2s'[d] = Append(c2s[d], m)
        BY <4>3, <4>4, <4>6
      <4>. QED  BY Zenon, <4>2, <4>3, <4>5, <4>6
    <3>2. \A st \in ClientStatus : Status(st) \in Messages /\ Status(st).status = st
      BY Zenon, StatusType DEF Status
    <3>3. CASE c2s' = c2s
      <4>1. Status("ACKN_OK") \in Messages /\ Status("ACKN_OK").status # "ENOUGH"
        BY <3>2 DEF ClientStatus
      <4>. QED  BY <3>3, <4>1
    <3>4. CASE \E st \in ClientStatus \ {"ENOUGH"} : send_STATUS(c, st)
      <4>1. PICK st \in ClientStatus \ {"ENOUGH"} : send_STATUS(c, st)
        BY <3>4
      <4>2. Status(st) \in Messages /\ Status(st).status # "ENOUGH"
        BY <3>2
      <4>. QED  BY <3>1, <4>1, <4>2
    <3>5. CASE OnLastMessage(c)
      <4>1. send_STATUS(c, "ENOUGH") /\ Status("ENOUGH") \in Messages
        BY <3>2, <3>5 DEF OnLastMessage, ClientStatus
      <4>. QED  BY <3>1, <3>5, <4>1 DEF ClientStatus
    <3>. QED  BY Zenon, <1>1, <3>3, <3>4, <3>5
           DEF ClientStep, StrayStep, FailStep, MessageThread, OnAsk, OnMessage, OnAllSent,
               UnpackFails, Fail, Dies, ClientStatus
  <2>2. OnLastMessage(c) => CBUF.fill_size >= BLOCKSIZE
    <3>. SUFFICES ASSUME OnLastMessage(c)  PROVE CBUF.fill_size >= BLOCKSIZE
      OBVIOUS
    <3>1. Received(c, "MESSAGE_SENDED") /\ Len(msg_arr[c]) = BLOCKSIZE - 1
      BY DEF OnLastMessage
    <3>2. PICK fd \in Fds : fdtab[fd] = c
      BY Zenon, <1>5, <3>1 DEF Received
    <3>3. Len(msg_arr[c]) + 1 <= beffer_sended_N[fd]
      BY Zenon, <1>6, <3>1, <3>2
    <3>4. beffer_sended_N[fd] <= CBUF.fill_size
      BY <1>0 DEF FirstPhaseInv
    <3>. QED  BY <3>1, <3>3, <3>4, FirstPhaseFacts
  <2>. QED  BY Zenon, <1>0, <1>2, <2>1, <2>2 DEF FirstPhaseInv, EnoughInv
<1>. QED  BY <1>0, <1>2, <1>4, <1>8, <1>9 DEF FirstPhaseInv

----------------------------------------------------------------------------
\* No completion of the first phase closes a connection, and FINISH_SENDING ends
\* the phase.
LEMMA PhaseGoesOn ==
  ASSUME IInv, FirstPhase
  PROVE  ~OnClose /\ (FINISH_SENDING => CBUF' = [CBUF EXCEPT !.fill_size = 0] /\ ~FirstPhase')
<1>1. ~OnClose
  <2>1. cq \in Seq(Cqes) /\ DescriptorInv
    BY Zenon, FirstPhaseFacts DEF FirstPhaseInv
  <2>2. cq # <<>> => Head(cq) = cq[1] /\ 1 \in 1 .. Len(cq)
    BY <2>1
  <2>3. cq # <<>> => Head(cq).ud.flag # "FLAG_CLOSE_CONNECTION"
    BY Zenon, <2>1, <2>2 DEF DescriptorInv
  <2>. QED  BY Zenon, <2>3 DEF OnClose, NextEvent
<1>2. ASSUME FINISH_SENDING  PROVE CBUF' = [CBUF EXCEPT !.fill_size = 0]
  <2>1. \A i \in 0 .. BLOCKSIZE - 1 : Loaded(CBUF, i)
    BY Zenon, <1>2, FinishLoaded DEF FINISH_SENDING
  <2>2. \A i \in 0 .. MERKLE_LEAVES - 1 : Loaded(CBUF, i)
    BY <2>1, ExchangeAssumption, ServerAssumption, ClientAssumption
  <2>. QED  BY Zenon, <1>2, <2>2 DEF FINISH_SENDING
<1>3. ASSUME FINISH_SENDING  PROVE ~FirstPhase'
  <2>1. CBUF \in CircBufs
    BY FirstPhaseFacts DEF TypeOK, ServerTypeOK
  <2>2. CBUF'.fill_size = 0
    BY <1>2, <1>3, <2>1 DEF CircBufs
  <2>. QED  BY <2>2 DEF FirstPhase
<1>. QED  BY <1>1, <1>2, <1>3

\* The steps of the event loop together: OnClose cannot happen in the first
\* phase, and FINISH_SENDING ends it.
LEMMA ServerKeepsFirstPhase ==
  ASSUME IInv, FirstPhase, ServerStep, FirstPhase'
  PROVE  FirstPhaseInv'
<1>0. FirstPhaseInv /\ TypeOK /\ DescriptorInv /\ UNCHANGED clientVars
  BY FirstPhaseFacts DEF FirstPhaseInv, ServerStep
<1>1. CASE OnAccept
  BY <1>0, <1>1, AcceptKeepsFirstPhase
<1>2. CASE OnReadResponse
  BY <1>0, <1>2, ReadResponseKeepsFirstPhase
<1>3. CASE OnNoResponse
  BY <1>0, <1>3, NoResponseKeepsFirstPhase
<1>4. ~OnClose /\ ~FINISH_SENDING
  BY Zenon, PhaseGoesOn
<1>5. CASE OnNeedMoreAllSent \/ OnAcknOk
  <2>1. PICK st \in {"ALL_BLOCK_MSG_SENDED", "ASK_NEED_MSG"} :
           /\ cq # <<>> /\ Head(cq).ud.flag = "TEST_RESPONSE"
           /\ SendFromBuffer(client_fd, Status(st))
           /\ UNCHANGED <<accepts, recvs, backlog, fdtab, shut, gone, c2s, CBUF, beffer_sended_N>>
    BY <1>5 DEF OnNeedMoreAllSent, OnAcknOk, NextStatus, NextEvent
  <2>2. client_fd \in Fds
    BY <1>0, <2>1, EventType
  <2>3. PICK m : m = Status(st)
    OBVIOUS
  <2>4. m \in Messages /\ m.status = st /\ m.msg = 0 /\ m.status \in ServerStatus
        /\ m.status # "MESSAGE_SENDED"
    BY <2>3, StatusType DEF Status, ServerStatus
  <2>0. beffer_sended_N \in [Fds -> Nat] /\ CBUF.fill_size \in Nat
    BY Zenon, FirstPhaseFacts
  <2>5. PICK k \in Nat : k = beffer_sended_N[client_fd] /\ k <= CBUF.fill_size
    <3>1. beffer_sended_N[client_fd] \in Nat
      BY <2>0, <2>2
    <3>. QED  BY Zenon, <1>0, <2>2, <3>1 DEF FirstPhaseInv
  <2>6. beffer_sended_N' = [beffer_sended_N EXCEPT ![client_fd] = k]
    BY <2>0, <2>1, <2>5
  <2>7. CBUF'.fill_size = CBUF.fill_size /\ CBUF.fill_size \in Nat
    BY Zenon, <2>0, <2>1
  <2>8. /\ m.msg <= k /\ k >= beffer_sended_N[client_fd]
        /\ CBUF'.fill_size \in Nat /\ CBUF'.fill_size >= CBUF.fill_size
        /\ CBUF'.fill_size >= k
    BY <2>4, <2>5, <2>7
  <2>9. SendFromBuffer(client_fd, m)
    BY <2>1, <2>3
  <2>. QED  BY Zenon, <1>0, <2>1, <2>2, <2>4, <2>6, <2>8, <2>9, ServerSend
\* The message sent is the one its counter points to.
<1>6. CASE OnNeedMore
  <2>. DEFINE n == beffer_sended_N[client_fd]
              filled == GET_nth_circ_buf(CBUF, n)
  <2>1. /\ n \in Nat /\ n < N_MESSAGES /\ client_fd \in Fds /\ n <= CBUF.fill_size /\ cq # <<>>
    BY Zenon, <1>6, NeedMoreIndex DEF OnNeedMore, NextStatus, NextEvent
  <2>2. /\ GET_nth_terminates(CBUF, n)
        /\ Loaded(filled, n)
        /\ filled.fill_size = IF n = CBUF.fill_size THEN n + 1 ELSE CBUF.fill_size
        /\ filled.buffer[n] = n + 1
    BY <1>0, <2>1, GetNth DEF IInv
  <2>3. PICK m : m = [status |-> "MESSAGE_SENDED", msg |-> n + 1]
    OBVIOUS
  <2>4. /\ CBUF' = filled
        /\ SendFromBuffer(client_fd, m)
        /\ beffer_sended_N' = [beffer_sended_N EXCEPT ![client_fd] = n + 1]
        /\ UNCHANGED <<accepts, recvs, backlog, fdtab, shut, gone, c2s>>
    BY <1>6, <2>2, <2>3 DEF OnNeedMore
  <2>5. m \in Messages /\ m.status \in ServerStatus /\ m.msg = n + 1
    BY <2>1, <2>3 DEF Messages, ServerStatus
  <2>6. /\ CBUF'.fill_size \in Nat /\ CBUF'.fill_size >= CBUF.fill_size
        /\ CBUF'.fill_size >= n + 1
    <3>1. CBUF.fill_size \in Nat
      BY Zenon, FirstPhaseFacts
    <3>2. CBUF'.fill_size = IF n = CBUF.fill_size THEN n + 1 ELSE CBUF.fill_size
      BY Zenon, <2>2, <2>4
    <3>. HIDE DEF n, filled
    <3>. QED  BY <2>1, <3>1, <3>2
  <2>7. /\ n + 1 \in Nat /\ m.msg <= n + 1 /\ n + 1 >= n /\ m.msg > n
    BY <2>1, <2>5
  <2>. HIDE DEF filled
  <2>. QED  BY Zenon, <1>0, <2>1, <2>4, <2>5, <2>6, <2>7, ServerSend
<1>. QED  BY <1>1, <1>2, <1>3, <1>4, <1>5, <1>6 DEF ServerStep, EventLoop

\* server_loop starts with one message pushed, in slot 0, and no client.
LEMMA InitInvariant == Init => IInv
<1>. SUFFICES ASSUME Init  PROVE IInv
  OBVIOUS
<1>1. TypeOK
  BY InitType
<1>2. /\ CBUF.fill_size = 1 /\ CBUF.made = 1 /\ CBUF.freed = {}
      /\ CBUF.buffer = [[i \in Slots |-> NULL] EXCEPT ![0] = 1]
  <2>. DEFINE c0 == create_circ_buf
  <2>1. /\ c0 = [buffer |-> [i \in Slots |-> NULL], fill_size |-> 0, made |-> 0, freed |-> {}]
        /\ c0.fill_size # CIRC_BUF_SIZE
    BY CircBufAssumption DEF create_circ_buf
  <2>2. CBUF = [c0 EXCEPT !.buffer = [c0.buffer EXCEPT ![c0.fill_size] = c0.made + 1],
                          !.fill_size = c0.fill_size + 1,
                          !.made = c0.made + 1]
    BY <2>1 DEF Init, ServerInit, PUSH_msg_circ_buf
  <2>. HIDE DEF c0
  <2>3. /\ CBUF.fill_size = c0.fill_size + 1
        /\ CBUF.made = c0.made + 1
        /\ CBUF.freed = c0.freed
        /\ CBUF.buffer = [c0.buffer EXCEPT ![c0.fill_size] = c0.made + 1]
    BY <2>1, <2>2
  <2>4. c0.buffer = [i \in Slots |-> NULL] /\ c0.fill_size = 0 /\ c0.made = 0 /\ c0.freed = {}
    BY <2>1
  <2>. QED  BY <2>3, <2>4
<1>3. BufferInv
  <2>1. \A i \in Slots : CBUF.buffer[i] = IF i < 1 THEN i + 1 ELSE NULL
    <3>1. \A i \in Slots : CBUF.buffer[i] = IF i = 0 THEN 1 ELSE NULL
      BY Zenon, <1>2
    <3>2. \A i \in Slots : i \in Nat
      BY DEF Slots
    <3>. QED  BY <3>1, <3>2
  <2>2. server = "up"
    BY Zenon DEF Init, ServerInit
  <2>. QED  BY <1>2, <2>1, <2>2, CircBufAssumption DEF BufferInv, FirstPhase
<1>4. DescriptorInv
  <2>1. /\ shut = {} /\ cq = <<>> /\ accepts = <<AcceptData>> /\ backlog = <<>>
        /\ \A c \in Clients : recvs[c] = <<>>
        /\ \A f \in Fds : fdtab[f] = NoClient
    BY DEF Init, SocketsInit, ServerInit
  <2>2. \A c \in Clients : c # NoClient
    BY Zenon, SocketsAssumption
  <2>3. /\ \A i \in 1 .. Len(cq) : FALSE
        /\ \A i \in 1 .. Len(backlog) : FALSE
        /\ \A i \in 1 .. Len(accepts) : accepts[i] = AcceptData
    BY <2>1
  <2>4. \A c \in Clients : \A i \in 1 .. Len(recvs[c]) : FALSE
    BY <2>1
  <2>. QED  BY Zenon, <2>1, <2>2, <2>3, <2>4 DEF DescriptorInv
<1>5. EnoughInv
  <2>1. /\ \A c \in Clients : c2s[c] = <<>>
        /\ \A fd \in Fds : buffers[fd] = Status("GARBLED")
    BY Zenon DEF Init, SocketsInit, ServerInit
  <2>2. \A c \in Clients : \A i \in 1 .. Len(c2s[c]) : FALSE
    BY <2>1
  <2>3. \A fd \in Fds : buffers[fd].status # "ENOUGH"
    BY <2>1 DEF Status
  <2>. QED  BY Zenon, <2>2, <2>3 DEF EnoughInv
<1>6. \A c \in Clients : ClientInv(c)
  <2>1. /\ \A c \in Clients : s2c[c] = <<>> /\ msg_arr[c] = <<>> /\ pc[c] = "start"
        /\ \A fd \in Fds : fdtab[fd] = NoClient
    BY Zenon DEF Init, SocketsInit, ServerInit, ClientInit
  <2>2. \A c \in Clients : pc[c] # "desynced" /\ c # NoClient
    BY <2>1, SocketsAssumption
  <2>3. \A c \in Clients : \A i \in 1 .. Len(s2c[c]) : FALSE
    BY <2>1
  <2>. QED  BY Zenon, <2>1, <2>2, <2>3 DEF ClientInv
<1>7. \A fd \in Fds : beffer_sended_N[fd] <= CBUF.fill_size
  <2>1. \A fd \in Fds : beffer_sended_N[fd] = 0
    BY Zenon DEF Init, ServerInit
  <2>. QED  BY <1>2, <2>1
<1>. QED  BY <1>1, <1>3, <1>4, <1>5, <1>6, <1>7 DEF IInv, FirstPhaseInv

\* Every step of the exchange keeps the invariant.
LEMMA InvariantStep ==
  ASSUME IInv, [Next]_vars  PROVE IInv'
<1>1. TypeOK'
  BY ServerStepType, KernelStepType, ClientStepType, StutterType DEF IInv, Next
<1>2. BufferInv' /\ (FirstPhase' => FirstPhase)
  BY BufferStep
<1>3. ASSUME FirstPhase'  PROVE FirstPhaseInv'
  <2>1. FirstPhase /\ FirstPhaseInv
    BY Zenon, <1>2, <1>3 DEF IInv
  <2>2. CASE UNCHANGED vars
    <3>. USE <2>1, <2>2 DEF FirstPhaseInv, vars, kernelVars, serverVars, clientVars
    <3>1. DescriptorInv'
      BY Zenon DEF DescriptorInv
    <3>2. \A c \in Clients : ClientInv(c)'
      BY Zenon DEF ClientInv
    <3>3. EnoughInv'
      BY Zenon DEF EnoughInv
    <3>4. \A fd \in Fds : beffer_sended_N'[fd] <= CBUF'.fill_size
      BY Zenon
    <3>. QED  BY Zenon, <3>1, <3>2, <3>3, <3>4
  <2>3. CASE Next
    BY <1>3, <2>1, <2>3, ServerKeepsFirstPhase, RecvKeepsFirstPhase, ConnectKeepsFirstPhase,
       ClientKeepsFirstPhase DEF Next
  <2>. QED  BY <2>2, <2>3
<1>. QED  BY <1>1, <1>2, <1>3 DEF IInv

\* The two-phase invariant holds throughout: until the first ENOUGH the
\* buffer holds the messages 1 .. fill_size in order and no client is ahead of
\* its counter; from then on fill_size is 0 and a whole block stays loaded.
THEOREM InvariantHolds == Spec => []IInv
BY InitInvariant, InvariantStep, PTL DEF Spec

\* The event loop never hangs in GET_nth_circ_buf and never reads an empty or
\* freed slot, for any number of clients, any sizes with N_MESSAGES and
\* MERKLE_LEAVES at most BLOCKSIZE and N_MESSAGES at most CIRC_BUF_SIZE, and
\* any interleaving of connections, answers and client failures.
THEOREM BufferIsSafe == Spec => []BufferNeverFails
<1>1. IInv => BufferNeverFails
  BY DEF IInv, BufferInv, BufferNeverFails
<1>. QED  BY <1>1, InvariantHolds, PTL

\* Only the event loop changes the buffer, in two of its cases.
LEMMA BufferChanges ==
  ASSUME [Next]_vars
  PROVE  UNCHANGED CBUF \/ (ServerStep /\ (OnNeedMore \/ FINISH_SENDING))
<1>1. CASE ServerStep
  <2>1. EventLoop
    BY Zenon, <1>1 DEF ServerStep
  <2>2. /\ OnAccept => UNCHANGED CBUF
        /\ OnReadResponse => UNCHANGED CBUF
        /\ OnClose => UNCHANGED CBUF
        /\ OnNeedMoreAllSent => UNCHANGED CBUF
        /\ OnAcknOk => UNCHANGED CBUF
        /\ OnNoResponse => UNCHANGED CBUF
    BY DEF OnAccept, OnReadResponse, OnClose, OnNeedMoreAllSent, OnAcknOk, OnNoResponse, serverVars
  <2>. QED  BY Zenon, <1>1, <2>1, <2>2 DEF EventLoop
<1>2. CASE ~ServerStep
  BY <1>2 DEF Next, KernelStep, RecvCompletion, RecvCompletes, RecvEnds, ConnectStep,
              ClientStep, StrayStep, FailStep, serverVars, vars
<1>. QED  BY Zenon, <1>1, <1>2

\* No step replaces or frees a message that a slot of the buffer holds.
LEMMA MessagesKept ==
  ASSUME IInv, [Next]_vars, IInv', NEW i \in Slots, CBUF.buffer[i] # NULL
  PROVE  CBUF'.buffer[i] = CBUF.buffer[i] /\ Loaded(CBUF', i)
<1>1. CBUF'.buffer[i] = CBUF.buffer[i] => Loaded(CBUF', i)
  BY DEF IInv, BufferInv, Loaded
<1>2. CASE UNCHANGED CBUF
  BY <1>1, <1>2
<1>3. CASE OnNeedMore
  <2>. DEFINE n == beffer_sended_N[client_fd]
              filled == GET_nth_circ_buf(CBUF, n)
  <2>1. n \in Nat /\ n < N_MESSAGES /\ (FirstPhase => n <= CBUF.fill_size)
    BY Zenon, <1>3, NeedMoreIndex DEF OnNeedMore
  <2>2. /\ ~FirstPhase => filled = CBUF
        /\ FirstPhase =>
             /\ filled.fill_size = IF n = CBUF.fill_size THEN n + 1 ELSE CBUF.fill_size
             /\ filled.buffer[i] = IF i < filled.fill_size THEN i + 1 ELSE NULL
    BY Zenon, <2>1, GetNth DEF IInv
  <2>3. CBUF' = filled \/ UNCHANGED CBUF
    BY Zenon, <1>3 DEF OnNeedMore
  <2>. HIDE DEF n, filled
  <2>4. CASE FirstPhase
    <3>1. CBUF.buffer[i] = i + 1 /\ i < CBUF.fill_size /\ CBUF.fill_size \in Nat /\ i \in Nat
      <4>1. CBUF.fill_size \in Nat
        BY Zenon, <2>4, FirstPhaseFacts
      <4>2. CBUF.buffer[i] = IF i < CBUF.fill_size THEN i + 1 ELSE NULL
        BY Zenon, <2>4 DEF IInv, BufferInv
      <4>3. i \in Nat
        BY DEF Slots
      <4>. QED  BY Zenon, <4>1, <4>2, <4>3
    <3>2. i < filled.fill_size
      <4>1. filled.fill_size = CBUF.fill_size \/ filled.fill_size = CBUF.fill_size + 1
        BY Zenon, <2>2, <2>4
      <4>2. i < CBUF.fill_size + 1
        BY Zenon, <3>1, BelowNext
      <4>. QED  BY Zenon, <3>1, <4>1, <4>2
    <3>3. filled.buffer[i] = CBUF.buffer[i]
      BY <2>2, <2>4, <3>1, <3>2
    <3>. QED  BY Zenon, <1>1, <2>3, <3>3
  <2>5. CASE ~FirstPhase
    BY Zenon, <1>1, <2>2, <2>3, <2>5
  <2>. QED  BY Zenon, <2>4, <2>5
<1>4. CASE FINISH_SENDING
  <2>1. CBUF' = [CBUF EXCEPT !.fill_size = 0] \/ UNCHANGED CBUF
    BY <1>4 DEF FINISH_SENDING
  <2>2. CBUF'.buffer = CBUF.buffer
    BY <2>1 DEF IInv, TypeOK, ServerTypeOK, CircBufs
  <2>. QED  BY <1>1, <2>2
<1>. QED  BY Zenon, <1>2, <1>3, <1>4, BufferChanges

\* No step replaces or frees a message that a slot of the buffer holds: a
\* message once generated is the one every client is sent for that slot.
THEOREM SlotsAreKept == Spec => SlotsKeepTheirMessage
<1>1. IInv /\ IInv' /\ [Next]_vars => [KeepsMessages]_vars
  BY MessagesKept DEF KeepsMessages
<1>. QED  BY <1>1, InvariantHolds, PTL DEF Spec, SlotsKeepTheirMessage

----------------------------------------------------------------------------
(***************************************************************************)
(* A step of a client keeps the turns (TurnInv).                           *)
(***************************************************************************)

\* A client that reads the server's message has none behind it, and the one it
\* stores is the next one.
LEMMA ReadsNext ==
  ASSUME IInv, FirstPhase, TurnInv, NEW c \in Clients, NEW st, Received(c, st)
  PROVE  \E fd \in Fds :
           /\ fdtab[fd] = c /\ TurnOf(fd, c)
           /\ ~Has(cq, fd) /\ c2s[c] = <<>>
           /\ st # "MESSAGE_SENDED" => beffer_sended_N[fd] = Len(msg_arr[c])
           /\ st = "MESSAGE_SENDED" => /\ beffer_sended_N[fd] = Len(msg_arr[c]) + 1
                                       /\ Last(s2c[c]).msg = Len(msg_arr[c]) + 1
<1>1. s2c[c] # <<>> /\ Last(s2c[c]).status = st
  BY Zenon DEF Received
<1>2. PICK fd \in Fds : fdtab[fd] = c /\ TurnOf(fd, c)
  BY Zenon, <1>1, FirstPhaseFacts DEF TurnInv, FirstPhaseInv, ClientInv
<1>3. ~Has(cq, fd) /\ c2s[c] = <<>> /\ beffer_sended_N[fd] <= Len(msg_arr[c]) + 1
  BY Zenon, <1>1, <1>2 DEF TurnOf
<1>4. st # "MESSAGE_SENDED" => beffer_sended_N[fd] = Len(msg_arr[c])
  <2>1. Len(s2c[c]) \in 1 .. Len(s2c[c])
    BY <1>1, FirstPhaseFacts
  <2>. QED  BY Zenon, <1>1, <1>2, <2>1 DEF TurnOf, Last
<1>5. ASSUME st = "MESSAGE_SENDED"
      PROVE  beffer_sended_N[fd] = Len(msg_arr[c]) + 1 /\ Last(s2c[c]).msg = Len(msg_arr[c]) + 1
  <2>1. PICK n \in Nat : n = Last(s2c[c]).msg /\ Len(msg_arr[c]) < n /\ n <= beffer_sended_N[fd]
    BY Zenon, <1>2, <1>5, MessageIsNew
  <2>2. PICK k \in Nat : k = Len(msg_arr[c])
    BY FirstPhaseFacts
  <2>3. PICK b \in Nat : b = beffer_sended_N[fd]
    BY FirstPhaseFacts
  <2>4. k < n /\ n <= b /\ b <= k + 1
    BY Zenon, <1>3, <2>1, <2>2, <2>3
  <2>5. n = k + 1 /\ b = k + 1
    BY <2>4
  <2>. QED  BY Zenon, <2>1, <2>2, <2>3, <2>5
<1>. QED  BY Zenon, <1>2, <1>3, <1>4, <1>5

\* What a step of a client does: its process ends, or it reads and answers.
LEMMA ClientEffect ==
  ASSUME IInv, FirstPhase, NEW c \in Clients, ClientStep(c) \/ StrayStep(c) \/ FailStep(c)
  PROVE  \/ Dies(c)
         \/ \E st \in ServerStatus, a \in ClientStatus :
              /\ Received(c, st)
              /\ c2s' = [c2s EXCEPT ![c] = Append(c2s[c], Status(a))]
              /\ a = "ENOUGH" => st = "MESSAGE_SENDED" /\ Len(msg_arr[c]) = BLOCKSIZE - 1
              /\ IF st = "MESSAGE_SENDED"
                   THEN /\ Len(msg_arr[c]) < BLOCKSIZE
                        /\ msg_arr' = [msg_arr EXCEPT ![c] = Append(msg_arr[c], Last(s2c[c]).msg)]
                   ELSE msg_arr' = msg_arr
<1>1. \A a : send_STATUS(c, a) => c2s' = [c2s EXCEPT ![c] = Append(c2s[c], Status(a))]
  <2>1. c \notin shut
    BY FirstPhaseFacts DEF FirstPhaseInv, DescriptorInv
  <2>. QED  BY Zenon, <2>1 DEF send_STATUS, Deliver
<1>2. ~DesyncedTurn(c) /\ ~OnOtherStatus(c)
  BY Zenon, ClientLeaves
<1>3. CASE OnAsk(c)
  BY Zenon, <1>1, <1>3 DEF OnAsk, clientVars, ServerStatus, ClientStatus
<1>4. CASE OnAllSent(c)
  BY Zenon, <1>1, <1>4 DEF OnAllSent, ServerStatus, ClientStatus
<1>5. CASE OnMessage(c)
  <2>1. Len(msg_arr[c]) < BLOCKSIZE
    BY <1>5, FirstPhaseFacts DEF OnMessage
  <2>. QED  BY Zenon, <1>1, <1>5, <2>1 DEF OnMessage, ServerStatus, ClientStatus
<1>6. CASE OnLastMessage(c)
  <2>1. Len(msg_arr[c]) < BLOCKSIZE
    BY <1>6, FirstPhaseFacts DEF OnLastMessage
  <2>. QED  BY Zenon, <1>1, <1>6, <2>1 DEF OnLastMessage, ServerStatus, ClientStatus
<1>7. CASE UnpackFails(c) \/ Fail(c)
  BY Zenon, <1>7 DEF UnpackFails, Fail
<1>. QED  BY Zenon, <1>2, <1>3, <1>4, <1>5, <1>6, <1>7
       DEF ClientStep, StrayStep, FailStep, MessageThread

\* A client's turn ends with its answer.
LEMMA ClientTurn ==
  ASSUME IInv, FirstPhase, TurnInv, NEW c \in Clients,
         ClientStep(c) \/ StrayStep(c) \/ FailStep(c)
  PROVE  TurnInv'
<1>1. UNCHANGED <<cq, recvs, fdtab, beffer_sended_N>>
  BY Zenon, ClientLeaves
<1>2. \A f \in Fds : Once(cq', f) /\ (Has(cq', f) <=> Has(cq, f))
  BY Zenon, <1>1 DEF TurnInv
<1>3. CASE Dies(c)
  <2>1. UNCHANGED <<c2s, msg_arr>> /\ s2c' = [s2c EXCEPT ![c] = <<>>]
    BY Zenon, <1>3 DEF Dies
  <2>2. s2c'[c] = <<>> /\ \A d \in Clients : d # c => s2c'[d] = s2c[d]
    BY Zenon, <2>1, FirstPhaseFacts
  <2>3. CASE \A f \in Fds : fdtab[f] # c
    <3>1. s2c[c] = <<>>
      BY Zenon, <2>3, FirstPhaseFacts DEF FirstPhaseInv, ClientInv
    <3>2. s2c' = s2c
      BY <2>1, <3>1, FirstPhaseFacts
    <3>. QED  BY Zenon, <1>1, <1>2, <2>1, <3>2, QuietTurn
  <2>4. CASE \E f \in Fds : fdtab[f] = c
    <3>1. PICK fd \in Fds : fdtab[fd] = c /\ TurnOf(fd, c)
      BY Zenon, <2>4 DEF TurnInv
    <3>2. PICK q : q = s2c'[c] /\ \A i \in 1 .. Len(q) : FALSE
      BY <2>2
    <3>3. TurnOf(fd, c)'
      BY Zenon, <1>1, <1>2, <2>1, <2>2, <3>1, <3>2 DEF TurnOf
    <3>. QED  BY Zenon, <1>1, <1>2, <2>1, <2>2, <3>1, <3>3, OwnTurn
  <2>. QED  BY Zenon, <2>3, <2>4
<1>4. ASSUME NEW st \in ServerStatus, NEW a \in ClientStatus,
             Received(c, st), c2s' = [c2s EXCEPT ![c] = Append(c2s[c], Status(a))],
             IF st = "MESSAGE_SENDED"
               THEN msg_arr' = [msg_arr EXCEPT ![c] = Append(msg_arr[c], Last(s2c[c]).msg)]
               ELSE msg_arr' = msg_arr
      PROVE  TurnInv'
  <2>1. PICK fd \in Fds :
           /\ fdtab[fd] = c /\ TurnOf(fd, c)
           /\ ~Has(cq, fd)
           /\ st # "MESSAGE_SENDED" => beffer_sended_N[fd] = Len(msg_arr[c])
           /\ st = "MESSAGE_SENDED" => /\ beffer_sended_N[fd] = Len(msg_arr[c]) + 1
                                       /\ Last(s2c[c]).msg = Len(msg_arr[c]) + 1
    BY Zenon, <1>4, ReadsNext
  <2>2. /\ s2c'[c] = <<>>
        /\ \A d \in Clients : d # c => s2c'[d] = s2c[d] /\ c2s'[d] = c2s[d] /\ msg_arr'[d] = msg_arr[d]
    BY Zenon, <1>4, FirstPhaseFacts DEF Received
  <2>3. beffer_sended_N[fd] = Len(msg_arr'[c])
    <3>1. CASE st # "MESSAGE_SENDED"
      BY Zenon, <1>4, <2>1, <3>1
    <3>2. CASE st = "MESSAGE_SENDED"
      <4>1. PICK n : n = Last(s2c[c]).msg
        BY Zenon
      <4>2. msg_arr'[c] = Append(msg_arr[c], n) /\ msg_arr[c] \in Seq(Nat)
        BY Zenon, <1>4, <3>2, <4>1, FirstPhaseFacts
      <4>3. n \in Nat
        BY Zenon, <1>4, <2>1, <3>2, <4>1, MessageIsNew
      <4>4. Len(Append(msg_arr[c], n)) = Len(msg_arr[c]) + 1
        BY <4>2, <4>3
      <4>. QED  BY <2>1, <3>2, <4>2, <4>4
    <3>. QED  BY Zenon, <3>1, <3>2
  <2>4. PICK q : q = s2c'[c] /\ \A i \in 1 .. Len(q) : FALSE
    BY <2>2
  <2>5. beffer_sended_N[fd] <= Len(msg_arr'[c]) + 1
    BY <2>3, FirstPhaseFacts
  <2>6. TurnOf(fd, c)'
    BY Zenon, <1>1, <1>2, <2>1, <2>2, <2>3, <2>4, <2>5 DEF TurnOf
  <2>. QED  BY Zenon, <1>1, <1>2, <2>1, <2>2, <2>6, OwnTurn
<1>. QED  BY Zenon, <1>3, <1>4, ClientEffect
=============================================================================
