------------------------------ MODULE PeerLinks ------------------------------
(***************************************************************************)
(* What the threads of the client processes (peers) share. Each peer runs  *)
(* a message thread, a P2P server thread and a P2P listener thread, and    *)
(* the listener connects once, to the P2P server of the neighbour given on *)
(* the command line: a connection is named by its listener.                *)
(*                                                                         *)
(* The kernel is external and modelled as in Sockets: a send completes at  *)
(* once, a recv returns all that is pending, the last status wins.         *)
(***************************************************************************)
EXTENDS Naturals, Sequences, FiniteSets

CONSTANTS
  Peers,         \* client processes
  Neighbour,     \* argv[1] of each: the peer its listener connects to
  MAX_FAILURES   \* bound: processes that may be killed

ASSUME PeerAssumption ==
  /\ Neighbour \in [Peers -> Peers]
  /\ MAX_FAILURES \in Nat

VARIABLES
  alive,              \* the process runs
  killed,             \* processes that were killed or found no message server
  block_created_mtx,  \* the mutex is held
  buffer_BLOCK_DATA,  \* the peer's own block, serialized: "empty", "partial" or "whole"
  block_written_size, \* the size of the serialized block is set (not 0)
  toListener,         \* per connection: statuses on their way to the listener
  toServer            \* per connection: statuses on their way to the server

\* The state the threads of a process share, and all the peers share.
processVars == <<block_created_mtx, buffer_BLOCK_DATA, block_written_size>>
linkVars == <<alive, killed, processVars, toListener, toServer>>

\* The operator of SequencesExt that the models use: see Sockets.
Last(s) == s[Len(s)]

\* GARBLED: bytes of a block that was not whole when it was sent. SentIsWhole
\* says that there are none, so no listener has a case for them.
ListenerStatus == {"PING", "OK", "BLOCK", "BLOCK_NOT_READY", "FINISH", "GARBLED"}
ServerStatus == {"PONG", "ASK_IF_BLOCK_READY"}

LinkTypeOK ==
  /\ alive \in [Peers -> BOOLEAN]
  /\ killed \subseteq Peers
  /\ block_created_mtx \in [Peers -> BOOLEAN]
  /\ buffer_BLOCK_DATA \in [Peers -> {"empty", "partial", "whole"}]
  /\ block_written_size \in [Peers -> BOOLEAN]
  /\ toListener \in [Peers -> Seq(ListenerStatus)]
  /\ toServer \in [Peers -> Seq(ServerStatus)]

\* main: buffers, flags and mutexes are set up before the threads start.
LinkInit ==
  /\ alive = [p \in Peers |-> TRUE]
  /\ killed = {}
  /\ block_created_mtx = [p \in Peers |-> FALSE]
  /\ buffer_BLOCK_DATA = [p \in Peers |-> "empty"]
  /\ block_written_size = [p \in Peers |-> FALSE]
  /\ toListener = [p \in Peers |-> <<>>]
  /\ toServer = [p \in Peers |-> <<>>]

\* The process of p ends, and its sockets with it.
Ends(p) ==
  /\ alive' = [alive EXCEPT ![p] = FALSE]
  /\ UNCHANGED <<processVars, toListener, toServer>>
=============================================================================
