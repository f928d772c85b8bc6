--------------------------- MODULE MessageServer ---------------------------
(***************************************************************************)
(* The message server: event_loop (networking/event_loop.c) and the        *)
(* handlers of networking/connection_handlers.c. One action per case of    *)
(* the event loop's switch; an action is the whole handler, and it takes   *)
(* the completion it handles off the completion queue (io_uring_cqe_seen). *)
(***************************************************************************)
EXTENDS Sockets, CircBuf

CONSTANTS
  N_MESSAGES,     \* messages sent on a descriptor (settings.h: 512)
  MERKLE_LEAVES   \* messages calc_merkle_tree reads (1 << 9)

ASSUME ServerAssumption ==
  /\ N_MESSAGES \in Nat \ {0}
  /\ MERKLE_LEAVES \in Nat \ {0}
  /\ N_MESSAGES <= CIRC_BUF_SIZE

VARIABLES
  CBUF,                \* the message buffer
  beffer_sended_N,     \* per descriptor: messages sent to it
  buffers,             \* per descriptor: the message its I/O buffer holds
  current_client_fd,   \* the descriptor of the last accept handled
  server               \* "up"; "hung": GET_nth never returns; "crashed": read an empty or
                       \* freed slot; "unparsed": read an answer that does not parse

serverVars == <<CBUF, beffer_sended_N, buffers, current_client_fd, server>>

ServerTypeOK ==
  /\ CBUF \in CircBufs
  /\ beffer_sended_N \in [Fds -> Nat]
  /\ buffers \in [Fds -> Messages]
  /\ current_client_fd \in Fds \cup {NoFd}
  /\ server \in {"up", "hung", "crashed", "unparsed"}

\* event_loop before its loop: one message is pushed and one accept armed.
ServerInit ==
  /\ sqes = [i \in 0 .. SQ_ENTRIES - 1 |-> IF i = 0 THEN AcceptOp ELSE NopOp]
  /\ sqTail = 1
  /\ accepts = <<AcceptData>>
  /\ CBUF = PUSH_msg_circ_buf(create_circ_buf)
  /\ beffer_sended_N = [fd \in Fds |-> 0]
  /\ buffers = [fd \in Fds |-> Status("GARBLED")]
  /\ current_client_fd = NoFd
  /\ server = "up"

\* The completion the event loop handles next has this flag.
NextEvent(flag) ==
  /\ server = "up"
  /\ cq # <<>>
  /\ Head(cq).ud.flag = flag

\* The descriptor in the user_data of the completion being handled.
client_fd == Head(cq).ud.fd

\* A handler submits op in the next slot; the completions it posts at once
\* are added behind those not yet seen.
Submit(op, cqes) ==
  /\ sqes' = [sqes EXCEPT ![sqTail] = op]
  /\ sqTail' = SqSlot(1)
  /\ cq' = Tail(cq) \o cqes

\* Mutant: the completion of a send is taken for the end of the exchange.
SendAndClose(fd, m) ==
  /\ buffers' = [buffers EXCEPT ![fd] = m]
  /\ s2c' = Sent(fd, m)
  /\ Submit(SendOp(fd, Length(m)), <<Cqe(make_request_data(fd, "FLAG_CLOSE_CONNECTION"), 1)>>)

\* Mutant: the completion of a send is taken for that of the answer.
SendAndTest(fd, m) ==
  /\ buffers' = [buffers EXCEPT ![fd] = m]
  /\ s2c' = Sent(fd, m)
  /\ Submit(SendOp(fd, Length(m)), <<Cqe(make_request_data(fd, "TEST_RESPONSE"), 1)>>)

\* The message m is serialized to the descriptor's buffer and sent from it.
\* A send never returns 0, so the completion is always taken as a success.
SendFromBuffer(fd, m) ==
  /\ buffers' = [buffers EXCEPT ![fd] = m]
  /\ s2c' = Sent(fd, m)
  /\ Submit(SendOp(fd, Length(m)), <<Cqe(make_request_data(fd, "READ_RESPONSE"), 1)>>)

\* case FLAG_ACCEPT: the accept is armed again, which may complete at once
\* with a client of the backlog, and then the new client is asked.
OnAccept ==
  /\ NextEvent("FLAG_ACCEPT")
  /\ LET fd == Head(cq).res
         ask == Status("ASK_NEED_MSG")
     IN  /\ sqes' = [sqes EXCEPT ![sqTail] = AcceptOp, ![SqSlot(1)] = SendOp(fd, "status")]
         /\ sqTail' = SqSlot(2)
         /\ cq' = Tail(cq) \o AcceptCqes(AcceptData)
                           \o <<Cqe(make_request_data(fd, "READ_RESPONSE"), 1)>>
         /\ ArmAccept(AcceptData)
         /\ current_client_fd' = fd
         /\ buffers' = [buffers EXCEPT ![fd] = ask]
         /\ s2c' = Sent(fd, ask)
  /\ UNCHANGED <<recvs, shut, gone, c2s, CBUF, beffer_sended_N, server>>

\* Mutant: no recv is armed.
OnReadResponseUnarmed ==
  /\ NextEvent("READ_RESPONSE")
  /\ cq' = Tail(cq)
  /\ UNCHANGED <<sqes, sqTail, accepts, recvs, backlog, fdtab, shut, gone, s2c, c2s, serverVars>>

\* case READ_RESPONSE: READ_STATUS_RESPONSE arms a recv for the answer.
OnReadResponse ==
  /\ NextEvent("READ_RESPONSE")
  /\ LET ud == make_request_data(client_fd, "TEST_RESPONSE")
     IN  /\ Submit(RecvOp(client_fd), RecvCqes(client_fd, ud))
         /\ ArmRecv(client_fd, ud)
  /\ UNCHANGED <<accepts, backlog, fdtab, shut, gone, s2c, c2s, serverVars>>

\* Mutant: the counter is reset and nothing closed.
OnCloseKeepsOpen ==
  /\ NextEvent("FLAG_CLOSE_CONNECTION")
  /\ cq' = Tail(cq)
  /\ beffer_sended_N' = [beffer_sended_N EXCEPT ![client_fd] = 0]
  /\ UNCHANGED <<sqes, sqTail, accepts, recvs, backlog, fdtab, shut, gone, s2c, c2s,
                 CBUF, buffers, current_client_fd, server>>

\* case FLAG_CLOSE_CONNECTION: shuts down and closes current_client_fd, and
\* resets the counter of the descriptor in the user_data.
OnClose ==
  /\ NextEvent("FLAG_CLOSE_CONNECTION")
  /\ cq' = Tail(cq)
  /\ IF current_client_fd \in Fds /\ fdtab[current_client_fd] # NoClient
       THEN /\ shut' = shut \cup {fdtab[current_client_fd]}
            /\ fdtab' = [fdtab EXCEPT ![current_client_fd] = NoClient]
       ELSE UNCHANGED <<shut, fdtab>>
  /\ beffer_sended_N' = [beffer_sended_N EXCEPT ![client_fd] = 0]
  /\ UNCHANGED <<sqes, sqTail, accepts, recvs, backlog, gone, s2c, c2s,
                 CBUF, buffers, current_client_fd, server>>

\* case TEST_RESPONSE, with the status in the descriptor's buffer.
NextStatus(st) ==
  /\ NextEvent("TEST_RESPONSE")
  /\ Head(cq).res > 0
  /\ buffers[client_fd].status = st

\* Mutant: one message too early.
OnNeedMoreAllButOne ==
  /\ NextStatus("NEED_MORE")
  /\ beffer_sended_N[client_fd] >= N_MESSAGES - 1
  /\ SendFromBuffer(client_fd, Status("ALL_BLOCK_MSG_SENDED"))
  /\ UNCHANGED <<accepts, recvs, backlog, fdtab, shut, gone, c2s,
                 CBUF, beffer_sended_N, current_client_fd, server>>

\* NEED_MORE, all messages sent: the client is told so.
OnNeedMoreAllSent ==
  /\ NextStatus("NEED_MORE")
  /\ beffer_sended_N[client_fd] >= N_MESSAGES
  /\ SendFromBuffer(client_fd, Status("ALL_BLOCK_MSG_SENDED"))
  /\ UNCHANGED <<accepts, recvs, backlog, fdtab, shut, gone, c2s,
                 CBUF, beffer_sended_N, current_client_fd, server>>

\* NEED_MORE: the next message of the buffer is serialized and sent.
OnNeedMore ==
  /\ NextStatus("NEED_MORE")
  /\ beffer_sended_N[client_fd] < N_MESSAGES
  /\ LET n == beffer_sended_N[client_fd]
         filled == GET_nth_circ_buf(CBUF, n)
     IN  IF GET_nth_terminates(CBUF, n) /\ Loaded(filled, n)
           THEN /\ CBUF' = filled
                /\ SendFromBuffer(client_fd, [status |-> "MESSAGE_SENDED",
                                              msg |-> filled.buffer[n]])
                /\ beffer_sended_N' = [beffer_sended_N EXCEPT ![client_fd] = n + 1]
                /\ UNCHANGED server
           ELSE /\ server' = IF GET_nth_terminates(CBUF, n) THEN "crashed" ELSE "hung"
                /\ UNCHANGED <<sqes, sqTail, cq, s2c, CBUF, beffer_sended_N, buffers>>
  /\ UNCHANGED <<accepts, recvs, backlog, fdtab, shut, gone, c2s, current_client_fd>>

\* Mutant: the acknowledgement falls through to the default case.
OnAcknOkIgnored ==
  /\ NextStatus("ACKN_OK")
  /\ cq' = Tail(cq)
  /\ UNCHANGED <<sqes, sqTail, accepts, recvs, backlog, fdtab, shut, gone, s2c, c2s, serverVars>>

\* Mutant: the acknowledged message is destroyed, as a line commented out of
\* the code would.
OnAcknOkDestroys ==
  /\ NextStatus("ACKN_OK")
  /\ SendFromBuffer(client_fd, Status("ASK_NEED_MSG"))
  /\ CBUF' = [CBUF EXCEPT !.freed = @ \cup {CBUF.buffer[0]}]
  /\ UNCHANGED <<accepts, recvs, backlog, fdtab, shut, gone, c2s,
                 beffer_sended_N, current_client_fd, server>>

\* ACKN_OK: the client is asked again.
OnAcknOk ==
  /\ NextStatus("ACKN_OK")
  /\ SendFromBuffer(client_fd, Status("ASK_NEED_MSG"))
  /\ UNCHANGED <<accepts, recvs, backlog, fdtab, shut, gone, c2s,
                 CBUF, beffer_sended_N, current_client_fd, server>>

\* ENOUGH, FINISH_SENDING: the buffer and the counter are reset, the Merkle
\* root of the buffer computed, and a slot submitted with a user_data but no
\* operation: the kernel executes the operation the slot was last used for.
\* A send repeated so takes the old length and what the buffer holds by now:
\* the bytes that leave may be that message if the lengths are alike, and
\* otherwise do not parse.
FINISH_SENDING ==
  /\ NextStatus("ENOUGH")
  /\ IF \A i \in 0 .. MERKLE_LEAVES - 1 : Loaded(CBUF, i)
       THEN /\ CBUF' = [CBUF EXCEPT !.fill_size = 0]
            /\ beffer_sended_N' = [beffer_sended_N EXCEPT ![client_fd] = 0]
            /\ UNCHANGED server
            /\ LET old == sqes[sqTail]
                   ud == make_request_data(client_fd, "FLAG_CLOSE_CONNECTION")
               IN  \/ /\ old.op = "NOP"
                      /\ Submit(old, <<Cqe(ud, 1)>>)
                      /\ UNCHANGED <<accepts, recvs, backlog, fdtab, s2c>>
                   \/ /\ old.op = "ACCEPT"
                      /\ Submit(old, AcceptCqes(ud))
                      /\ ArmAccept(ud)
                      /\ UNCHANGED <<recvs, s2c>>
                   \/ /\ old.op = "RECV"
                      /\ Submit(old, RecvCqes(old.fd, ud))
                      /\ ArmRecv(old.fd, ud)
                      /\ UNCHANGED <<accepts, backlog, fdtab, s2c>>
                   \/ /\ old.op = "SEND"
                      /\ Submit(old, <<Cqe(ud, 1)>>)
                      /\ \E m \in {buffers[old.fd], Status("GARBLED")} :
                           /\ m = buffers[old.fd] => Length(m) = old.len
                           /\ s2c' = Sent(old.fd, m)
                      /\ UNCHANGED <<accepts, recvs, backlog, fdtab>>
       ELSE /\ server' = "crashed"
            /\ UNCHANGED <<sqes, sqTail, cq, accepts, recvs, backlog, fdtab, s2c,
                           CBUF, beffer_sended_N>>
  /\ UNCHANGED <<shut, gone, c2s, buffers, current_client_fd>>

\* read_ONLY_STATUS_response parses the buffer with the length of the answer
\* and dereferences what ipc_message__unpack returns. That is NULL when a
\* message sent on the descriptor has overwritten the answer; a status that has
\* may or may not be as long as the answer.
Unpacked(m) ==
  CASE m.status \in ClientStatus -> {"up"}
    [] m.status \in ServerStatus \ {"MESSAGE_SENDED"} -> {"up", "unparsed"}
    [] OTHER -> {"unparsed"}

\* ALL_BLOCK_RECEIVED, any other status, and a recv that returned no data:
\* nothing is done, and no recv is armed again. What is no answer of a client
\* may end the server.
OnNoResponse ==
  /\ NextEvent("TEST_RESPONSE")
  /\ \/ Head(cq).res = 0
     \/ buffers[client_fd].status \notin {"NEED_MORE", "ACKN_OK", "ENOUGH"}
  /\ cq' = Tail(cq)
  /\ server' \in IF Head(cq).res = 0 THEN {"up"} ELSE Unpacked(buffers[client_fd])
  /\ UNCHANGED <<sqes, sqTail, accepts, recvs, backlog, fdtab, shut, gone, s2c, c2s,
                 CBUF, beffer_sended_N, buffers, current_client_fd>>

\* The kernel completes a recv with all that is pending on its connection...
RecvCompletes(c, i) ==
  /\ c2s[c] # <<>>
  /\ cq' = Append(cq, Cqe(recvs[c][i].ud, 1))
  /\ buffers' = [buffers EXCEPT ![recvs[c][i].buf] = Last(c2s[c])]
  /\ c2s' = [c2s EXCEPT ![c] = <<>>]
  /\ recvs' = [recvs EXCEPT ![c] = RemoveAt(@, i)]
  /\ UNCHANGED <<sqes, sqTail, accepts, backlog, fdtab, shut, gone, s2c,
                 CBUF, beffer_sended_N, current_client_fd, server>>

\* ... or with 0 or an error, once either end has closed it.
RecvEnds(c, i) ==
  /\ c2s[c] = <<>>
  /\ c \in shut \cup gone
  /\ cq' = Append(cq, Cqe(recvs[c][i].ud, 0))
  /\ recvs' = [recvs EXCEPT ![c] = RemoveAt(@, i)]
  /\ UNCHANGED <<sqes, sqTail, accepts, backlog, fdtab, shut, gone, s2c, c2s, serverVars>>

EventLoop ==
  \/ OnAccept
  \/ OnReadResponse
  \/ OnClose
  \/ OnNeedMoreAllSent
  \/ OnNeedMore
  \/ OnAcknOk
  \/ FINISH_SENDING
  \/ OnNoResponse

RecvCompletion == \E c \in Clients : \E i \in 1 .. Len(recvs[c]) : RecvCompletes(c, i) \/ RecvEnds(c, i)
============================================================================
