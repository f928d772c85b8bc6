------------------------------ MODULE P2PServer ------------------------------
(***************************************************************************)
(* The P2P server thread: event_loop_p2p (client/p2p_event_loop.c) with    *)
(* the handlers of client/dhandlers_p2p.c. A turn of the loop is two       *)
(* steps: the try of block_created_mtx, then the handler of the            *)
(* completion, between which the message thread may run. The handler that  *)
(* sends the block is two steps itself: it reads the size of the block,    *)
(* then copies the block, without the mutex.                               *)
(***************************************************************************)
EXTENDS PeerLinks

VARIABLES
  events,            \* completions not yet handled, oldest first
  armed,             \* connections a recv of their server waits on
  turn,              \* "wait" for a completion, "handle" one (the mutex was tried)
                     \* or "copy" the block (its size was read)
  flag_block_ready,  \* what the try found
  buffer_lengths     \* the size of the block that is being sent is not 0

p2pServerVars == <<events, armed, turn, flag_block_ready, buffer_lengths>>

\* Two accepts are armed at the start, and one more in each FLAG_ACCEPT.
ACCEPTS == 2

\* A completion: its user_data (flag and connection) and, for a recv, the
\* status read into the connection's buffer ("none": res <= 0).
Event(flag, l, st) == [flag |-> flag, conn |-> l, status |-> st]
Events ==
  [flag : {"FLAG_ACCEPT", "FLAG_WAIT_PONG", "FLAG_TEST_RESPONSE",
           "FLAG_BLOCK_SENDED", "FLAG_READ_RESPONSE"},
   conn : Peers, status : ServerStatus \cup {"none"}]

P2PServerTypeOK ==
  /\ events \in [Peers -> Seq(Events)]
  /\ armed \subseteq Peers
  /\ turn \in [Peers -> {"wait", "handle", "copy"}]
  /\ flag_block_ready \in [Peers -> BOOLEAN]
  /\ buffer_lengths \in [Peers -> BOOLEAN]

P2PServerInit ==
  /\ events = [p \in Peers |-> <<>>]
  /\ armed = {}
  /\ turn = [p \in Peers |-> "wait"]
  /\ flag_block_ready = [p \in Peers |-> FALSE]
  /\ buffer_lengths = [p \in Peers |-> FALSE]

\* io_uring_wait_cqe, mtx_trylock and, if it succeeded, mtx_unlock.
TryMutex(p) ==
  /\ alive[p] /\ turn[p] = "wait" /\ events[p] # <<>>
  /\ flag_block_ready' = [flag_block_ready EXCEPT ![p] = ~block_created_mtx[p]]
  /\ turn' = [turn EXCEPT ![p] = "handle"]
  /\ UNCHANGED <<linkVars, events, armed, buffer_lengths>>

\* The turn handles a completion with this flag...
Handles(p, flag) ==
  /\ alive[p] /\ turn[p] = "handle"
  /\ Head(events[p]).flag = flag
  /\ turn' = [turn EXCEPT ![p] = "wait"]
  /\ UNCHANGED <<flag_block_ready, buffer_lengths>>

\* ... of this connection ...
conn(p) == Head(events[p]).conn

\* Mutant: the completion is not marked seen.
NotSeen(p, new) == events' = [events EXCEPT ![p] = @ \o new]

\* ... marks it seen and submits operations that complete with new at once.
Seen(p, new) == events' = [events EXCEPT ![p] = Tail(@) \o new]

\* A status is sent; its completion carries flag. A listener that has ended
\* receives nothing.
P2Pser_send_STATUS(p, st, flag) ==
  /\ Seen(p, <<Event(flag, conn(p), "none")>>)
  /\ toListener' = IF alive[conn(p)]
                     THEN [toListener EXCEPT ![conn(p)] = Append(@, st)]
                     ELSE toListener
  /\ UNCHANGED <<alive, killed, processVars, toServer, armed>>

OnAccept(p) ==
  /\ Handles(p, "FLAG_ACCEPT")
  /\ P2Pser_send_STATUS(p, "PING", "FLAG_WAIT_PONG")

\* FLAG_WAIT_PONG and FLAG_READ_RESPONSE: P2P_read_status_response.
OnReadResponse(p) ==
  /\ \E flag \in {"FLAG_WAIT_PONG", "FLAG_READ_RESPONSE"} : Handles(p, flag)
  /\ Seen(p, <<>>)
  /\ armed' = armed \cup {conn(p)}
  /\ UNCHANGED linkVars

HandlesStatus(p, st) ==
  /\ Handles(p, "FLAG_TEST_RESPONSE")
  /\ Head(events[p]).status = st

OnPong(p) ==
  /\ HandlesStatus(p, "PONG")
  /\ P2Pser_send_STATUS(p, "OK", "FLAG_READ_RESPONSE")

OnAskNotReady(p) ==
  /\ HandlesStatus(p, "ASK_IF_BLOCK_READY")
  /\ ~flag_block_ready[p]
  /\ P2Pser_send_STATUS(p, "BLOCK_NOT_READY", "FLAG_READ_RESPONSE")

\* Mutant: the block is copied first, and then its size read.
CopyBeforeSize(p) ==
  /\ alive[p] /\ turn[p] = "handle" /\ flag_block_ready[p]
  /\ Head(events[p]).flag = "FLAG_TEST_RESPONSE"
  /\ Head(events[p]).status = "ASK_IF_BLOCK_READY"
  /\ buffer_lengths' = [buffer_lengths EXCEPT ![p] = buffer_BLOCK_DATA[p] # "empty"]
  /\ turn' = [turn EXCEPT ![p] = "copy"]
  /\ UNCHANGED <<linkVars, events, armed, flag_block_ready>>

\* P2Pser_send_block: reads block_written_size, 0 while no block is serialized...
ReadBlockSize(p) ==
  /\ alive[p] /\ turn[p] = "handle" /\ flag_block_ready[p]
  /\ Head(events[p]).flag = "FLAG_TEST_RESPONSE"
  /\ Head(events[p]).status = "ASK_IF_BLOCK_READY"
  /\ buffer_lengths' = [buffer_lengths EXCEPT ![p] = block_written_size[p]]
  /\ turn' = [turn EXCEPT ![p] = "copy"]
  /\ UNCHANGED <<linkVars, events, armed, flag_block_ready>>

\* Mutant: the whole buffer is sent, whatever the size was.
SendWholeBuffer(p) ==
  /\ alive[p] /\ turn[p] = "copy"
  /\ turn' = [turn EXCEPT ![p] = "wait"]
  /\ P2Pser_send_STATUS(p, "BLOCK", "FLAG_BLOCK_SENDED")
  /\ UNCHANGED <<flag_block_ready, buffer_lengths>>

\* ... then copies buffer_BLOCK_DATA and sends that many bytes of the copy.
P2Pser_send_block(p) ==
  /\ alive[p] /\ turn[p] = "copy"
  /\ turn' = [turn EXCEPT ![p] = "wait"]
  /\ IF buffer_lengths[p]
       THEN P2Pser_send_STATUS(p, IF buffer_BLOCK_DATA[p] = "whole" THEN "BLOCK" ELSE "GARBLED",
                               "FLAG_BLOCK_SENDED")
       ELSE /\ Seen(p, <<Event("FLAG_BLOCK_SENDED", conn(p), "none")>>)
            /\ UNCHANGED <<linkVars, armed>>
  /\ UNCHANGED <<flag_block_ready, buffer_lengths>>

OnBlockSended(p) ==
  /\ Handles(p, "FLAG_BLOCK_SENDED")
  /\ P2Pser_send_STATUS(p, "FINISH", "FLAG_WAIT_PONG")

\* The recv failed: nothing is done, and none is armed again.
OnNoResponse(p) ==
  /\ HandlesStatus(p, "none")
  /\ Seen(p, <<>>)
  /\ UNCHANGED <<linkVars, armed>>

EventLoopP2P(p) ==
  \/ TryMutex(p)
  \/ OnAccept(p)
  \/ OnReadResponse(p)
  \/ OnPong(p)
  \/ OnAskNotReady(p)
  \/ ReadBlockSize(p)
  \/ P2Pser_send_block(p)
  \/ OnBlockSended(p)
  \/ OnNoResponse(p)

\* Listener l's connection completes an accept, if one waits; otherwise l stays
\* in the backlog, with nothing to read, until the loop arms the next.
Accepted(l) ==
  LET p == Neighbour[l]
  IN  /\ Cardinality({i \in DOMAIN events[p] : events[p][i].flag = "FLAG_ACCEPT"}) < ACCEPTS
      /\ events' = [events EXCEPT ![p] = Append(@, Event("FLAG_ACCEPT", l, "none"))]
      /\ UNCHANGED <<armed, turn, flag_block_ready, buffer_lengths>>

\* The kernel completes the recv that waits on connection l: with what is
\* pending, or with 0 or an error once the listener's process has ended.
RecvDone(l) ==
  /\ l \in armed /\ alive[Neighbour[l]]
  /\ toServer[l] # <<>> \/ ~alive[l]
  /\ LET st == IF toServer[l] # <<>> THEN Last(toServer[l]) ELSE "none"
     IN  events' = [events EXCEPT ![Neighbour[l]] =
                      Append(@, Event("FLAG_TEST_RESPONSE", l, st))]
  /\ armed' = armed \ {l}
  /\ toServer' = [toServer EXCEPT ![l] = <<>>]
  /\ UNCHANGED <<alive, killed, processVars, toListener, turn, flag_block_ready,
                 buffer_lengths>>
=============================================================================
