----------------------------- MODULE P2PListener -----------------------------
(***************************************************************************)
(* The P2P listener thread: setup_p2p_listening (client/p2p_listen.c). A   *)
(* recv, its handling, the answer it sends and the arming of the next recv *)
(* are one action: the thread shares only the connection, and what it      *)
(* reads is what is pending when the recv completes.                       *)
(***************************************************************************)
EXTENDS PeerLinks

VARIABLES
  listener,   \* "connecting", "waiting" (a recv is armed) or "idle" (none is)
  accepted    \* the neighbour's block was deserialized ("BLOCK ACCEPTED")

listenerVars == <<listener, accepted>>

ListenerTypeOK ==
  /\ listener \in [Peers -> {"connecting", "waiting", "idle"}]
  /\ accepted \in [Peers -> BOOLEAN]

ListenerInit ==
  /\ listener = [l \in Peers |-> "connecting"]
  /\ accepted = [l \in Peers |-> FALSE]

\* connect succeeds (it is tried again every 2 seconds), a recv is armed.
ConnectToPeer(l) ==
  /\ alive[l] /\ alive[Neighbour[l]]
  /\ listener[l] = "connecting"
  /\ listener' = [listener EXCEPT ![l] = "waiting"]
  /\ UNCHANGED <<linkVars, accepted>>

\* PROCESS_RESPONSE with this status, the last of those pending.
Receives(l, st) ==
  /\ alive[l]
  /\ listener[l] = "waiting"
  /\ toListener[l] # <<>> /\ Last(toListener[l]) = st
  /\ toListener' = [toListener EXCEPT ![l] = <<>>]
  /\ UNCHANGED <<alive, killed, processVars>>

\* Mutant: the status is sent twice.
SendTwice(l, st) ==
  toServer' = IF alive[Neighbour[l]] THEN [toServer EXCEPT ![l] = @ \o <<st, st>>] ELSE toServer

cl_p2p_send_STATUS(l, st) ==
  toServer' = IF alive[Neighbour[l]] THEN [toServer EXCEPT ![l] = Append(@, st)] ELSE toServer

\* Mutant: the PING is sent back.
EchoPing(l) ==
  /\ Receives(l, "PING")
  /\ cl_p2p_send_STATUS(l, "PING")
  /\ UNCHANGED listenerVars

OnPing(l) ==
  /\ Receives(l, "PING")
  /\ cl_p2p_send_STATUS(l, "PONG")
  /\ UNCHANGED listenerVars

\* OK, or BLOCK_NOT_READY: the listener asks, again after two seconds.
OnOkOrNotReady(l) ==
  /\ \E st \in {"OK", "BLOCK_NOT_READY"} : Receives(l, st)
  /\ cl_p2p_send_STATUS(l, "ASK_IF_BLOCK_READY")
  /\ UNCHANGED listenerVars

\* Mutant: a recv is armed after the block.
OnBlockReadOn(l) ==
  /\ Receives(l, "BLOCK")
  /\ accepted' = [accepted EXCEPT ![l] = TRUE]
  /\ UNCHANGED <<toServer, listener>>

\* BLOCK: the block is deserialized; nothing is sent and no recv armed.
OnBlock(l) ==
  /\ Receives(l, "BLOCK")
  /\ accepted' = [accepted EXCEPT ![l] = TRUE]
  /\ listener' = [listener EXCEPT ![l] = "idle"]
  /\ UNCHANGED toServer

\* default, that is FINISH: nothing is sent and no recv armed.
OnFinish(l) ==
  /\ Receives(l, "FINISH")
  /\ listener' = [listener EXCEPT ![l] = "idle"]
  /\ UNCHANGED <<toServer, accepted>>

\* recv returns 0 or an error because the neighbour's process has ended:
\* P2P_deserialize_STATUS dereferences NULL, and this process ends as well.
OnNeighbourGone(l) ==
  /\ alive[l] /\ ~alive[Neighbour[l]]
  /\ listener[l] = "waiting"
  /\ toListener[l] = <<>>
  /\ Ends(l)
  /\ UNCHANGED <<killed, listenerVars>>

ListenerThread(l) ==
  \/ OnPing(l)
  \/ OnOkOrNotReady(l)
  \/ OnBlock(l)
  \/ OnFinish(l)
  \/ OnNeighbourGone(l)
=============================================================================
