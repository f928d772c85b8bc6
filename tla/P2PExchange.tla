----------------------------- MODULE P2PExchange -----------------------------
(***************************************************************************)
(* The peers: in each process the P2P server, the listener, and of the     *)
(* message thread (MessageClient) what it does to block_created_mtx, to    *)
(* buffer_BLOCK_DATA and to block_written_size.                            *)
(***************************************************************************)
EXTENDS P2PServer, P2PListener

VARIABLE
  thread  \* "connecting"; "receiving"; "packing", "packed" and "sized" while the
          \* block is serialized; "created"; or "filled", with no block

vars == <<linkVars, p2pServerVars, listenerVars, thread>>

Init ==
  /\ LinkInit
  /\ P2PServerInit
  /\ ListenerInit
  /\ thread = [p \in Peers |-> "connecting"]

\* The message thread takes the mutex once connect has completed...
LockMutex(p) ==
  /\ alive[p]
  /\ thread[p] = "connecting" /\ ~block_created_mtx[p]
  /\ block_created_mtx' = [block_created_mtx EXCEPT ![p] = TRUE]
  /\ thread' = [thread EXCEPT ![p] = "receiving"]
  /\ UNCHANGED <<alive, killed, buffer_BLOCK_DATA, block_written_size, toListener,
                 toServer, p2pServerVars, listenerVars>>

\* ... and when the last message has come builds the block and serializes it,
\* byte by byte ...
BeginSerialize(p) ==
  /\ alive[p]
  /\ thread[p] = "receiving"
  /\ buffer_BLOCK_DATA' = [buffer_BLOCK_DATA EXCEPT ![p] = "partial"]
  /\ thread' = [thread EXCEPT ![p] = "packing"]
  /\ UNCHANGED <<alive, killed, block_created_mtx, block_written_size, toListener,
                 toServer, p2pServerVars, listenerVars>>

\* Mutant: the size is stored where the packed size is computed, before the
\* block is packed.
SizeBeforePack(p) ==
  /\ alive[p]
  /\ \/ /\ thread[p] = "receiving"
        /\ block_written_size' = [block_written_size EXCEPT ![p] = TRUE]
        /\ buffer_BLOCK_DATA' = [buffer_BLOCK_DATA EXCEPT ![p] = "partial"]
        /\ thread' = [thread EXCEPT ![p] = "packing"]
     \/ /\ thread[p] = "packing"
        /\ buffer_BLOCK_DATA' = [buffer_BLOCK_DATA EXCEPT ![p] = "whole"]
        /\ thread' = [thread EXCEPT ![p] = "packed"]
        /\ UNCHANGED block_written_size
  /\ UNCHANGED <<alive, killed, block_created_mtx, toListener, toServer,
                 p2pServerVars, listenerVars>>

EndSerialize(p) ==
  /\ alive[p]
  /\ thread[p] = "packing"
  /\ buffer_BLOCK_DATA' = [buffer_BLOCK_DATA EXCEPT ![p] = "whole"]
  /\ thread' = [thread EXCEPT ![p] = "packed"]
  /\ UNCHANGED <<alive, killed, block_created_mtx, block_written_size, toListener,
                 toServer, p2pServerVars, listenerVars>>

\* ... publishes its size ...
SetBlockSize(p) ==
  /\ alive[p]
  /\ thread[p] = "packed"
  /\ block_written_size' = [block_written_size EXCEPT ![p] = TRUE]
  /\ thread' = [thread EXCEPT ![p] = "sized"]
  /\ UNCHANGED <<alive, killed, block_created_mtx, buffer_BLOCK_DATA, toListener,
                 toServer, p2pServerVars, listenerVars>>

\* Mutant: the mutex is not released.
KeepMutex(p) ==
  /\ alive[p]
  /\ thread[p] = "sized"
  /\ thread' = [thread EXCEPT ![p] = "created"]
  /\ UNCHANGED <<linkVars, p2pServerVars, listenerVars>>

\* ... and releases the mutex ("unlock to signal") ...
UnlockMutex(p) ==
  /\ alive[p]
  /\ thread[p] = "sized"
  /\ block_created_mtx' = [block_created_mtx EXCEPT ![p] = FALSE]
  /\ thread' = [thread EXCEPT ![p] = "created"]
  /\ UNCHANGED <<alive, killed, buffer_BLOCK_DATA, block_written_size, toListener,
                 toServer, p2pServerVars, listenerVars>>

\* ... or is told ALL_BLOCK_MSG_SENDED and stops, holding the mutex.
StopFilled(p) ==
  /\ alive[p]
  /\ thread[p] = "receiving"
  /\ thread' = [thread EXCEPT ![p] = "filled"]
  /\ UNCHANGED <<linkVars, p2pServerVars, listenerVars>>

\* The process is killed; or connect fails, the message thread returns and
\* main, which has joined it, returns as well.
Kill(p) ==
  /\ alive[p]
  /\ Cardinality(killed) < MAX_FAILURES
  /\ killed' = killed \cup {p}
  /\ Ends(p)
  /\ UNCHANGED <<p2pServerVars, listenerVars, thread>>

ServerStep(p) == EventLoopP2P(p) /\ UNCHANGED <<listenerVars, thread>>

KernelStep(l) == RecvDone(l) /\ UNCHANGED <<listenerVars, thread>>

ConnectStep(l) == ConnectToPeer(l) /\ Accepted(l) /\ UNCHANGED thread

ListenerStep(l) == ListenerThread(l) /\ UNCHANGED <<p2pServerVars, thread>>

MessageThreadStep(p) ==
  \/ LockMutex(p)
  \/ BeginSerialize(p)
  \/ EndSerialize(p)
  \/ SetBlockSize(p)
  \/ UnlockMutex(p)
  \/ StopFilled(p)

Next ==
  \E p \in Peers :
    \/ MessageThreadStep(p)
    \/ Kill(p)
    \/ ServerStep(p)
    \/ KernelStep(p)
    \/ ConnectStep(p)
    \/ ListenerStep(p)

Spec == Init /\ [][Next]_vars

\* Every thread is scheduled, the kernel completes what has data, and a
\* listener tries to connect again until it succeeds. Nothing is assumed of
\* when, or whether, the message thread gets its block.
Fairness ==
  \A p \in Peers :
    /\ WF_vars(ServerStep(p))
    /\ WF_vars(KernelStep(p))
    /\ WF_vars(ConnectStep(p))
    /\ WF_vars(ListenerStep(p))

FairSpec == Spec /\ Fairness

\* ... unless its server is assumed to answer it: then it, too, goes on.
ServedSpec == FairSpec /\ \A p \in Peers : WF_vars(MessageThreadStep(p))

-----------------------------------------------------------------------------
\* Type invariant of the peers.
TypeOK ==
  /\ LinkTypeOK
  /\ P2PServerTypeOK
  /\ ListenerTypeOK
  /\ thread \in [Peers -> {"connecting", "receiving", "packing", "packed", "sized",
                           "created", "filled"}]

\* A connection's buffer, used both to send from and to receive into, never
\* serves two operations: what a recv has put there is still there when its
\* completion is handled.
BufferServesOne ==
  \A l \in Peers : \A i \in DOMAIN events[Neighbour[l]] :
    events[Neighbour[l]][i].conn = l =>
      /\ l \notin armed
      /\ \A j \in DOMAIN events[Neighbour[l]] : events[Neighbour[l]][j].conn = l => i = j

\* The block that P2Pser_send_block copies without holding the mutex is
\* whole: it sends no block that the message thread is still packing, although
\* it may have found the mutex free before the thread took it.
SentIsWhole ==
  \A l \in Peers : \A i \in DOMAIN toListener[l] : toListener[l][i] # "GARBLED"

\* A listener accepts its neighbour's block only once the neighbour has
\* serialized one, although the P2P server takes a free mutex for a block.
AcceptedIsCreated ==
  \A l \in Peers : accepted[l] => thread[Neighbour[l]] \in {"sized", "created"}

\* What the message thread has done to the block when: a size is published only
\* of a whole block, and the size a send has read is a published one.
BlockInv ==
  \A p \in Peers :
    /\ block_written_size[p] => thread[p] \in {"sized", "created"}
    /\ thread[p] \in {"packed", "sized", "created"} => buffer_BLOCK_DATA[p] = "whole"
    /\ turn[p] = "copy" /\ buffer_lengths[p] => block_written_size[p]

\* A completion belongs to a connection to this server, made by a listener that
\* has connected; and a turn of the loop has one to handle.
ConnectionInv ==
  /\ \A p \in Peers : \A i \in DOMAIN events[p] :
       Neighbour[events[p][i].conn] = p /\ listener[events[p][i].conn] # "connecting"
  /\ \A l \in armed : listener[l] # "connecting"
  /\ \A p \in Peers : turn[p] # "wait" => events[p] # <<>>

\* A block that is on its way, or was accepted, was published; and a listener
\* that has its block is idle.
DeliveryInv ==
  \A l \in Peers :
    /\ \A i \in DOMAIN toListener[l] :
         toListener[l][i] = "BLOCK" => block_written_size[Neighbour[l]]
    /\ accepted[l] => block_written_size[Neighbour[l]] /\ listener[l] = "idle"

\* The completions of connection l among ev.
Of(ev, l) == {ev[i] : i \in {j \in DOMAIN ev : ev[j].conn = l}}

\* Completion e lets the server send to a listener: a connection is accepted or
\* a status read.
LetsSend(e) == e.flag = "FLAG_ACCEPT" \/ (e.flag = "FLAG_TEST_RESPONSE" /\ e.status # "none")

\* When the server may send on connection l, nothing is under way on it; and
\* nothing but the block when it is about to send FINISH.
LinkInv(l) ==
  /\ \A e \in Of(events[Neighbour[l]], l) : e.status # "none" => e.flag = "FLAG_TEST_RESPONSE"
  /\ listener[l] = "connecting" => toListener[l] = <<>> /\ toServer[l] = <<>>
  /\ listener[l] = "waiting" =>
       /\ toServer[l] # <<>> => Len(toServer[l]) = 1 /\ toListener[l] = <<>>
       /\ Len(toListener[l]) <= 1 \/ toListener[l] = <<"BLOCK", "FINISH">>
       /\ \A e \in Of(events[Neighbour[l]], l) :
            /\ LetsSend(e) => toListener[l] = <<>> /\ toServer[l] = <<>>
            /\ e.flag = "FLAG_BLOCK_SENDED" =>
                 toListener[l] \in {<<>>, <<"BLOCK">>} /\ toServer[l] = <<>>

TurnsInv ==
  /\ \A p \in Peers : turn[p] = "copy" =>
       Head(events[p]).flag = "FLAG_TEST_RESPONSE" /\ Head(events[p]).status = "ASK_IF_BLOCK_READY"
  /\ \A l \in Peers : LinkInv(l)

\* The inductive invariant of the peers.
PeerInv ==
  /\ TypeOK
  /\ BlockInv
  /\ ConnectionInv
  /\ DeliveryInv
  /\ BufferServesOne
  /\ SentIsWhole
  /\ TurnsInv

\* The two ends of a connection take turns, so that a recv finds one message:
\* the only two a listener can ever read together, of which the parser keeps
\* the last, are the block and the FINISH sent right behind it.
TakeTurns ==
  \A l \in Peers :
    LET p == Neighbour[l]
        read == {i \in DOMAIN events[p] : events[p][i].conn = l /\ events[p][i].status # "none"}
    IN  listener[l] = "waiting" =>
          \/ Len(toListener[l]) + Len(toServer[l]) + Cardinality(read) <= 1
          \/ toListener[l] = <<"BLOCK", "FINISH">>

\* A listener whose neighbour has created its block stops asking for it: it
\* ends idle, with the block or, when it saw only the FINISH, without; unless
\* one of the two processes has ended.
AskingEnds ==
  \A l \in Peers :
    thread[Neighbour[l]] = "created" ~>
      listener[l] = "idle" \/ ~alive[l] \/ ~alive[Neighbour[l]]

\* A process ends only if it is killed or if the peers its listener depends
\* on, from one neighbour to the next, lead to one that was killed; and a
\* listener that has its block no longer depends on its neighbour.
EndsWithNeighbour ==
  \A p \in Peers :
    ~alive[p] => p \in killed \/ (~alive[Neighbour[p]] /\ ~accepted[p])

\* A listener that is sent the block accepts it (p2p_listen.c: "wait till
\* block is ready!", "BLOCK ACCEPTED").
SentIsAccepted ==
  \A l \in Peers :
    (\E i \in DOMAIN toListener[l] : toListener[l][i] = "BLOCK") ~> accepted[l] \/ ~alive[l]

\* A listener that waits for its neighbour's block does not wait for ever
\* (p2p_listen.c: "wait till block is ready!").
WaitEnds ==
  \A l \in Peers :
    listener[l] = "waiting" ~>
      listener[l] = "idle" \/ ~alive[l] \/ ~alive[Neighbour[l]]
=============================================================================
