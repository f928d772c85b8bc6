----------------------------- MODULE ClientBlock -----------------------------
(***************************************************************************)
(* A client process that makes its block: main and its threads             *)
(* (ClientProcess), and what the message thread and the puzzle thread it   *)
(* starts do once the last message has come (BlockCreation).               *)
(***************************************************************************)
EXTENDS BlockCreation, ClientProcess

vars == <<blockVars, processVars>>

Init == BlockInit /\ ProcessInit

\* main or one of the threads it starts.
ProcessStep == ProcessThreads /\ UNCHANGED blockVars

\* The message thread is in its loop and goes on; a crash ends the process.
MessageThreadStep ==
  /\ main # "exited" /\ message = "loop"
  /\ BlockThread
  /\ main' = IF thread' = "crashed" THEN "exited" ELSE main
  /\ UNCHANGED <<ready, message, worker, listener>>

\* The puzzle thread tries nonce n, or is through with the search.
TryStep(n) == main # "exited" /\ TryNonce(n) /\ UNCHANGED processVars

WriteStep == main # "exited" /\ WriteNonce /\ UNCHANGED processVars

\* The worker sends the block in the buffer, and the neighbour reads it.
DeliverStep ==
  /\ main # "exited" /\ worker = "handling"
  /\ deserialize_block
  /\ UNCHANGED processVars

TickStep == Tick /\ UNCHANGED processVars

Next ==
  \/ ProcessStep
  \/ MessageThreadStep
  \/ \E n \in Nonces : TryStep(n)
  \/ WriteStep
  \/ DeliverStep
  \/ TickStep

Spec == Init /\ [][Next]_vars

\* Both threads are scheduled, and random nonces leave none out for ever.
FairSpec ==
  /\ Spec
  /\ WF_vars(MessageThreadStep)
  /\ \A n \in Nonces : WF_vars(TryStep(n))
  /\ WF_vars(WriteStep)

-----------------------------------------------------------------------------
\* Type invariant of the process and its block.
TypeOK == BlockTypeOK /\ ProcessTypeOK

\* The puzzle thread reads the root from the message thread's stack and writes
\* the nonce to memory the message thread frees: it is through with both before
\* processing_block frees and returns.
PuzzleUsesLive == puzzle \in {"searching", "found"} => live

\* In whatever order the threads run, the message thread finds what it uses set
\* up for as long as the process lives, and the P2P server, which is detached,
\* until main has released it. main does that only after a failed connect: no
\* block has been made then, and none has been or will be sent.
UsedIsReady ==
  main # "exited" =>
    /\ MessageUses \subseteq ready
    /\ \/ WorkerUses \subseteq ready
       \/ /\ main \in {"close", "queue_exit", "free"} /\ message = "returned"
          /\ thread = "tree" /\ wire = None

\* What the neighbour has deserialized is what the client published, the tail
\* of the date excepted: it carries the hash of the root, and its times are in
\* order, created and then finished. Its nonce solves the puzzle of the root if
\* the puzzle thread has run; after a failed thrd_create, which is only printed,
\* the block has gone out with nonce 0, whether or not 0 solves it.
ReceivedIsAsMade ==
  received # None =>
    /\ received \in {block, [block EXCEPT !.tail = "heap"]}
    /\ received.merkle_root = calc_hashof_hash(Root)
    /\ IF puzzle = "failed" THEN received.nonce = 0 ELSE solves(received.nonce)
    /\ received.timestamp_begin <= received.timestamp_end

\* Where the puzzle thread is when the message thread is where, and what its
\* nonce is worth.
PuzzleInv ==
  /\ puzzle = "none" <=> thread = "tree"
  /\ puzzle \in {"searching", "found"} => thread = "joining"
  /\ thread = "joining" => live
  /\ puzzle = "found" => solves(sample)
  /\ puzzle = "ended" => solves(nonce_answ)
  /\ puzzle = "failed" => nonce_answ = 0

\* What the block is made of at each step, and the copies of it on its way.
ContentInv ==
  /\ thread \in {"dummy", "block", "published"} =>
       /\ block.tail = "zeros"
       /\ block.merkle_root = calc_hashof_hash(Root)
       /\ block.timestamp_begin <= now
  /\ thread \in {"block", "published"} =>
       /\ block.nonce = nonce_answ
       /\ block.timestamp_begin <= block.timestamp_end
  /\ wire # None => thread = "published" /\ wire = [block EXCEPT !.tail = "none"]
  /\ received # None => wire # None /\ \E bytes \in {"zeros", "heap"} :
                                          received = [wire EXCEPT !.tail = bytes]

\* What main has set up, and which threads it has started, at each step.
ProcessInv ==
  /\ main \notin {"close", "queue_exit", "free", "exited"} =>
       /\ main # "buffers" => {"buffers", "block"} \subseteq ready
       /\ main \notin {"buffers", "socket"} => "socket" \in ready
       /\ main \notin {"buffers", "socket", "ring"} => "ring" \in ready
       /\ main \notin {"buffers", "socket", "ring", "mutex"} => "mutex" \in ready
       /\ main \in {"listener", "join", "destroy_buffers"} => "params" \in ready
  /\ main \in SettingUp \ {"worker", "listener"} => message = "none"
  /\ main \in SettingUp \ {"listener"} => worker = "none"
  /\ main \in Releasing => message = "returned"

\* A block is begun only in the loop of the message thread.
LoopInv == message # "loop" => thread = "tree"

\* The inductive invariant of the client.
ClientInv == TypeOK /\ PuzzleInv /\ ContentInv /\ ProcessInv /\ LoopInv

\* Once the client is connected, has received its messages and built the tree,
\* which is where BlockCreation starts, the search ends and the block is
\* published (and with it the mutex that the P2P server tries released), unless
\* the process ends.
BlockIsPublished == message = "loop" ~> thread = "published" \/ main = "exited"
=============================================================================
