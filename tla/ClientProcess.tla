---------------------------- MODULE ClientProcess ----------------------------
(***************************************************************************)
(* The life of a client process: main (client/main.c) sets up what its     *)
(* threads share (client/p2p_setup.c), starts the message thread, the P2P  *)
(* server (worker) and the listener, detaches the last two, joins the      *)
(* first, releases what was set up and returns. kill_thread_p2p, which     *)
(* would end the loops of the threads, is never set. What the message      *)
(* thread does in its loop is in BlockCreation; ClientBlock has both.      *)
(***************************************************************************)
EXTENDS Naturals

VARIABLES
  main,      \* where main is: the step it takes next; "exited" ends the process
  ready,     \* what is set up and not yet released
  message,   \* the message thread: "none", "connecting", "loop", "returned"
  worker,    \* the P2P server: "none", "created", "waiting", "handling"
  listener   \* the listener: "none", "connecting", "loop", "returned"

processVars == <<main, ready, message, worker, listener>>

\* What is set up: "buffers" of the connections, "block" (buffer_BLOCK_DATA),
\* "socket", "ring", "mutex" and "params" (el_params).
Resources == {"buffers", "block", "socket", "ring", "mutex", "params"}

\* The steps of main: it sets up, then runs, then releases.
SettingUp == {"buffers", "socket", "ring", "mutex", "messages", "worker", "listener"}
Releasing == {"destroy_buffers", "close", "queue_exit", "free"}

ProcessTypeOK ==
  /\ main \in SettingUp \cup {"join", "exited"} \cup Releasing
  /\ ready \subseteq Resources
  /\ message \in {"none", "connecting", "loop", "returned"}
  /\ worker \in {"none", "created", "waiting", "handling"}
  /\ listener \in {"none", "connecting", "loop", "returned"}

ProcessInit ==
  /\ main = "buffers"
  /\ ready = {}
  /\ message = "none" /\ worker = "none" /\ listener = "none"

-----------------------------------------------------------------------------
\* main takes this step and goes on to the next.
Does(step, next) == main = step /\ main' = next

\* The call of this step fails, and die or exit ends the process.
Dies(step) == main = step /\ main' = "exited" /\ UNCHANGED <<ready, message, worker, listener>>

\* A step that sets resources up...
SetsUp(step, next, resources) ==
  \/ /\ Does(step, next)
     /\ ready' = ready \cup resources
     /\ UNCHANGED <<message, worker, listener>>
  \/ Dies(step)

setup_buffers == SetsUp("buffers", "socket", {"buffers", "block"})
setup_serv_sock == SetsUp("socket", "ring", {"socket"})
setup_iouring == SetsUp("ring", "mutex", {"ring"})

init_flags ==
  /\ Does("mutex", "messages")
  /\ ready' = ready \cup {"mutex"}
  /\ UNCHANGED <<message, worker, listener>>

CreateMessages ==
  \/ /\ Does("messages", "worker")
     /\ message' = "connecting"
     /\ UNCHANGED <<ready, worker, listener>>
  \/ Dies("messages")

\* Mutant: el_params is filled in once the thread has been created.
CreateWorkerFirst ==
  \/ /\ main = "worker" /\ worker = "none"
     /\ worker' = "created"
     /\ UNCHANGED <<main, ready, message, listener>>
  \/ /\ Does("worker", "listener") /\ worker # "none"
     /\ ready' = ready \cup {"params"}
     /\ UNCHANGED <<message, worker, listener>>

CreateWorker ==
  \/ /\ Does("worker", "listener")
     /\ ready' = ready \cup {"params"}
     /\ worker' = "created"
     /\ UNCHANGED <<message, listener>>
  \/ Dies("worker")

CreateListener ==
  \/ /\ Does("listener", "join")
     /\ listener' = "connecting"
     /\ UNCHANGED <<ready, message, worker>>
  \/ Dies("listener")

\* Mutant: the message thread is detached like the two others.
NoJoin ==
  /\ Does("join", "destroy_buffers")
  /\ UNCHANGED <<ready, message, worker, listener>>

JoinMessages ==
  /\ message = "returned"
  /\ Does("join", "destroy_buffers")
  /\ UNCHANGED <<ready, message, worker, listener>>

\* A step that releases resources.
Releases(step, next, resources) ==
  /\ Does(step, next)
  /\ ready' = ready \ resources
  /\ UNCHANGED <<message, worker, listener>>

destroy_buffers == Releases("destroy_buffers", "close", {"buffers"})
teardown_server_sock == Releases("close", "queue_exit", {"socket"})
queue_exit == Releases("queue_exit", "free", {"ring"})
free_rest == Releases("free", "exited", {"params", "block"})

Main ==
  \/ setup_buffers \/ setup_serv_sock \/ setup_iouring \/ init_flags
  \/ CreateMessages \/ CreateWorker \/ CreateListener
  \/ JoinMessages \/ destroy_buffers \/ teardown_server_sock \/ queue_exit \/ free_rest

-----------------------------------------------------------------------------
\* The name of the server does not resolve, and exit ends the process; or connect
\* completes: with success the thread enters its loop, which nothing ends;
\* otherwise it returns, and keeps the mutex it has taken.
MessageThread ==
  /\ main # "exited"
  /\ message = "connecting"
  /\ \/ main' = "exited" /\ UNCHANGED message
     \/ message' \in {"loop", "returned"} /\ UNCHANGED main
  /\ UNCHANGED <<ready, worker, listener>>

\* event_loop_p2p: the parameters are read and accepts submitted, and then
\* completions come and are handled in the buffers, one after the other.
Worker ==
  /\ main # "exited"
  /\ \/ worker \in {"created", "handling"} /\ worker' = "waiting"
     \/ worker = "waiting" /\ worker' = "handling"
  /\ UNCHANGED <<main, ready, message, listener>>

\* setup_p2p_listening: the name does not resolve, or connect has succeeded.
\* The thread works in memory of its own.
Listener ==
  /\ main # "exited"
  /\ listener = "connecting"
  /\ listener' \in {"loop", "returned"}
  /\ UNCHANGED <<main, ready, message, worker>>

ProcessThreads == Main \/ MessageThread \/ Worker \/ Listener

-----------------------------------------------------------------------------
\* What the worker uses in its present state, and the message thread in its.
WorkerUses ==
  CASE worker = "none" -> {}
    [] worker = "created" -> {"params", "socket", "ring"}
    [] worker = "waiting" -> {"ring", "mutex"}
    [] worker = "handling" -> {"ring", "buffers", "block", "socket"}

MessageUses == IF message \in {"connecting", "loop"} THEN {"block", "mutex"} ELSE {}
=============================================================================
