--------------------------- MODULE MessageClient ---------------------------
(***************************************************************************)
(* The client's message thread: setup_client_iouring of                    *)
(* client/setup_client.c. It connects, then alternates one recv with one   *)
(* send until it holds a block. A turn of its loop (recv, handle, send) is *)
(* one action: the thread shares nothing with the server but the           *)
(* connection, and reads only at the start of the turn.                    *)
(***************************************************************************)
EXTENDS Sockets

CONSTANTS
  BLOCKSIZE,     \* messages of a block (setup_client.c: 512)
  MAX_FAILURES   \* bound: client processes that may die

ASSUME ClientAssumption ==
  /\ BLOCKSIZE \in Nat \ {0}
  /\ MAX_FAILURES \in Nat

VARIABLES
  pc,        \* "start", "loop" or, once flag_block_filled is set, "filled";
             \* "desynced": the loop has marked a completion seen that was
             \* not there; "dead": the process has ended
  msg_arr,   \* the messages stored so far: count is its length
  block      \* flag_block_created

clientVars == <<pc, msg_arr, block>>

ClientTypeOK ==
  /\ pc \in [Clients -> {"start", "loop", "filled", "desynced", "dead"}]
  /\ msg_arr \in [Clients -> Seq(Nat)]
  /\ block \in [Clients -> BOOLEAN]

ClientInit ==
  /\ pc = [c \in Clients |-> "start"]
  /\ msg_arr = [c \in Clients |-> <<>>]
  /\ block = [c \in Clients |-> FALSE]

\* Variables of the kernel no client step changes.
serverSide == <<sqes, sqTail, recvs, shut>>

Connect(c) ==
  /\ pc[c] = "start"
  /\ pc' = [pc EXCEPT ![c] = "loop"]
  /\ Connected(c)
  /\ UNCHANGED <<serverSide, gone, s2c, c2s, msg_arr, block>>

\* recv returns all that is pending; read_response_ONLY_STATUS parses it, and
\* the last message of the batch gives the status and the payload.
Received(c, st) ==
  /\ pc[c] = "loop"
  /\ s2c[c] # <<>>
  /\ \A i \in 1 .. Len(s2c[c]) : s2c[c][i].status # "GARBLED"
  /\ Last(s2c[c]).status = st
  /\ s2c' = [s2c EXCEPT ![c] = <<>>]

send_STATUS(c, st) == Deliver(c, Status(st))

\* ASK_NEED_MSG
OnAsk(c) ==
  /\ Received(c, "ASK_NEED_MSG")
  /\ send_STATUS(c, "NEED_MORE")
  /\ UNCHANGED <<serverSide, cq, accepts, backlog, fdtab, gone, clientVars>>

\* Mutant: acknowledged and not stored.
OnMessageUnstored(c) ==
  /\ Received(c, "MESSAGE_SENDED")
  /\ Len(msg_arr[c]) < BLOCKSIZE - 1
  /\ send_STATUS(c, "ACKN_OK")
  /\ UNCHANGED <<serverSide, cq, accepts, backlog, fdtab, gone, clientVars>>

\* MESSAGE_SENDED, not the last message of the block: stored, acknowledged.
OnMessage(c) ==
  /\ Received(c, "MESSAGE_SENDED")
  /\ Len(msg_arr[c]) < BLOCKSIZE - 1
  /\ msg_arr' = [msg_arr EXCEPT ![c] = Append(@, Last(s2c[c]).msg)]
  /\ send_STATUS(c, "ACKN_OK")
  /\ UNCHANGED <<serverSide, cq, accepts, backlog, fdtab, gone, pc, block>>

\* Mutant: the block is taken for full one message early.
OnLastButOneMessage(c) ==
  /\ Received(c, "MESSAGE_SENDED")
  /\ Len(msg_arr[c]) = BLOCKSIZE - 2
  /\ msg_arr' = [msg_arr EXCEPT ![c] = Append(@, Last(s2c[c]).msg)]
  /\ send_STATUS(c, "ENOUGH")
  /\ block' = [block EXCEPT ![c] = TRUE]
  /\ pc' = [pc EXCEPT ![c] = "filled"]
  /\ UNCHANGED <<serverSide, cq, accepts, backlog, fdtab, gone>>

\* MESSAGE_SENDED, the last message: stored, ENOUGH is sent, and the block is
\* built from msg_arr. count stays at BLOCKSIZE - 1 and is not read again, so
\* the branch of the code that answers ERROR is never taken.
OnLastMessage(c) ==
  /\ Received(c, "MESSAGE_SENDED")
  /\ Len(msg_arr[c]) = BLOCKSIZE - 1
  /\ msg_arr' = [msg_arr EXCEPT ![c] = Append(@, Last(s2c[c]).msg)]
  /\ send_STATUS(c, "ENOUGH")
  /\ block' = [block EXCEPT ![c] = TRUE]
  /\ pc' = [pc EXCEPT ![c] = "filled"]
  /\ UNCHANGED <<serverSide, cq, accepts, backlog, fdtab, gone>>

\* ALL_BLOCK_MSG_SENDED: the loop stops reading, with no block built.
OnAllSent(c) ==
  /\ Received(c, "ALL_BLOCK_MSG_SENDED")
  /\ send_STATUS(c, "ALL_BLOCK_RECEIVED")
  /\ pc' = [pc EXCEPT ![c] = "filled"]
  /\ UNCHANGED <<serverSide, cq, accepts, backlog, fdtab, gone, msg_arr, block>>

\* Any other status (the default case): nothing is sent, yet the turn ends
\* with a second io_uring_cqe_seen, for a completion that is not there.
OnOtherStatus(c) ==
  /\ \E st \in ClientStatus : Received(c, st)
  /\ pc' = [pc EXCEPT ![c] = "desynced"]
  /\ UNCHANGED <<serverSide, cq, accepts, backlog, fdtab, gone, c2s, msg_arr, block>>

\* The process of c ends and the kernel closes its socket.
Dies(c) ==
  /\ pc' = [pc EXCEPT ![c] = "dead"]
  /\ gone' = gone \cup {c}
  /\ s2c' = [s2c EXCEPT ![c] = <<>>]
  /\ UNCHANGED <<serverSide, cq, accepts, backlog, fdtab, c2s, msg_arr, block>>

\* The messages client c has received.
Known(c) ==
  {msg_arr[c][i] : i \in 1 .. Len(msg_arr[c])}
    \cup {s2c[c][i].msg : i \in {j \in 1 .. Len(s2c[c]) : s2c[c][j].status = "MESSAGE_SENDED"}}

\* From then on a turn takes the completion of an earlier operation for that of
\* its recv, which may or may not have completed by then. It parses what the
\* buffer holds with some earlier length: any branch of the loop may follow, with
\* any message received, or the NULL that ends the process. The model lets it
\* send when its last answer has been read.
DesyncedTurn(c) ==
  /\ pc[c] = "desynced"
  /\ \/ /\ c2s[c] = <<>>
        /\ s2c' \in {s2c, [s2c EXCEPT ![c] = <<>>]}
        /\ \/ /\ send_STATUS(c, "NEED_MORE")
              /\ UNCHANGED clientVars
           \/ /\ send_STATUS(c, "ALL_BLOCK_RECEIVED")
              /\ pc' = [pc EXCEPT ![c] = "filled"]
              /\ UNCHANGED <<msg_arr, block>>
           \/ /\ Len(msg_arr[c]) < BLOCKSIZE
              /\ \E m \in Known(c) : msg_arr' = [msg_arr EXCEPT ![c] = Append(@, m)]
              /\ IF Len(msg_arr[c]) < BLOCKSIZE - 1
                   THEN send_STATUS(c, "ACKN_OK") /\ UNCHANGED <<pc, block>>
                   ELSE /\ send_STATUS(c, "ENOUGH")
                        /\ block' = [block EXCEPT ![c] = TRUE]
                        /\ pc' = [pc EXCEPT ![c] = "filled"]
           \/ UNCHANGED <<c2s, clientVars>>
        /\ UNCHANGED <<serverSide, cq, accepts, backlog, fdtab, gone>>
     \/ Dies(c)

\* The recv returns 0 or an error because the server has closed the
\* connection, or bytes that do not parse: ipc_message__unpack returns NULL,
\* which read_response_ONLY_STATUS dereferences.
UnpackFails(c) ==
  /\ pc[c] = "loop"
  /\ \/ s2c[c] = <<>> /\ c \in shut
     \/ \E i \in 1 .. Len(s2c[c]) : s2c[c][i].status = "GARBLED"
  /\ Dies(c)

\* The client's process is killed or its machine fails.
Fail(c) ==
  /\ pc[c] \notin {"start", "dead"}
  /\ Cardinality({d \in Clients : pc[d] = "dead"}) < MAX_FAILURES
  /\ Dies(c)

MessageThread(c) ==
  \/ OnAsk(c)
  \/ OnMessage(c)
  \/ OnLastMessage(c)
  \/ OnAllSent(c)
  \/ OnOtherStatus(c)
  \/ UnpackFails(c)
============================================================================
