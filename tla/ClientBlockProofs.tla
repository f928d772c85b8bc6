-------------------------- MODULE ClientBlockProofs --------------------------
(***************************************************************************)
(* The client is safe for all nonces, hashes, difficulties and clocks:     *)
(* ClientInv is inductive and implies the properties of ClientBlock. The   *)
(* steps of main and its threads leave the block alone, those of the       *)
(* message thread and the puzzle thread the process, so that each part of  *)
(* the invariant has a lemma for the steps that can disturb it.            *)
(***************************************************************************)
EXTENDS ClientBlock, TLAPS

\* The initial states satisfy the invariant.
LEMMA InitClientInv == Init => ClientInv
<1> SUFFICES ASSUME Init PROVE ClientInv
  OBVIOUS
<1> USE DEF Init, BlockInit, ProcessInit
<1>1. None \in Block
  BY BlockAssumption DEF None, Block, Hashes
<1>2. TypeOK
  <2>1. BlockTypeOK
    <3>1. now \in 0 .. MAX_TIME
      BY BlockAssumption
    <3>2. live \in BOOLEAN /\ {block, wire, received} \subseteq Block
      BY <1>1, Zenon
    <3> QED BY <3>1, <3>2, BlockAssumption, Zenon DEF BlockTypeOK
  <2>2. ProcessTypeOK
    BY DEF ProcessTypeOK, SettingUp
  <2> QED BY <2>1, <2>2 DEF TypeOK
<1>3. PuzzleInv /\ ContentInv
  BY DEF PuzzleInv, ContentInv
<1>4. ProcessInv /\ LoopInv
  BY DEF ProcessInv, LoopInv, SettingUp, Releasing
<1> QED BY <1>2, <1>3, <1>4 DEF ClientInv

-----------------------------------------------------------------------------
\* A step of main or of a thread it starts keeps the types of the process.
LEMMA ProcessTypes == ProcessTypeOK /\ ProcessThreads => ProcessTypeOK'
<1> SUFFICES ASSUME ProcessTypeOK, ProcessThreads PROVE ProcessTypeOK'
  OBVIOUS
<1> USE DEF ProcessTypeOK, SettingUp, Releasing, Resources, Does, Dies, SetsUp, Releases
<1>1. CASE setup_buffers \/ setup_serv_sock \/ setup_iouring \/ init_flags
  BY <1>1 DEF setup_buffers, setup_serv_sock, setup_iouring, init_flags
<1>2. CASE CreateMessages \/ CreateWorker \/ CreateListener \/ JoinMessages
  BY <1>2 DEF CreateMessages, CreateWorker, CreateListener, JoinMessages
<1>3. CASE destroy_buffers \/ teardown_server_sock \/ queue_exit \/ free_rest
  BY <1>3 DEF destroy_buffers, teardown_server_sock, queue_exit, free_rest
<1>4. CASE MessageThread \/ Worker \/ Listener
  BY <1>4 DEF MessageThread, Worker, Listener
<1> QED BY <1>1, <1>2, <1>3, <1>4 DEF ProcessThreads, Main

\* ... and what main has set up and started at each of its steps.
LEMMA ProcessSteps == ProcessTypeOK /\ ProcessInv /\ ProcessThreads => ProcessInv'
<1> SUFFICES ASSUME ProcessTypeOK, ProcessInv, ProcessThreads PROVE ProcessInv'
  OBVIOUS
<1> USE DEF ProcessTypeOK, ProcessInv, SettingUp, Releasing, Does, Dies, SetsUp, Releases
<1>1. CASE setup_buffers
  BY <1>1 DEF setup_buffers
<1>2. CASE setup_serv_sock
  BY <1>2 DEF setup_serv_sock
<1>3. CASE setup_iouring
  BY <1>3 DEF setup_iouring
<1>4. CASE init_flags
  BY <1>4 DEF init_flags
<1>5. CASE CreateMessages \/ CreateWorker \/ CreateListener \/ JoinMessages
  BY <1>5 DEF CreateMessages, CreateWorker, CreateListener, JoinMessages
<1>6. CASE destroy_buffers \/ teardown_server_sock \/ queue_exit \/ free_rest
  BY <1>6 DEF destroy_buffers, teardown_server_sock, queue_exit, free_rest
<1>7. CASE MessageThread
  BY <1>7 DEF MessageThread
<1>8. CASE Worker \/ Listener
  BY <1>8 DEF Worker, Listener
<1> QED BY <1>1, <1>2, <1>3, <1>4, <1>5, <1>6, <1>7, <1>8 DEF ProcessThreads, Main

\* ... and the message thread in its loop.
LEMMA LoopSteps == ProcessInv /\ LoopInv /\ ProcessThreads /\ UNCHANGED thread => LoopInv'
<1> SUFFICES ASSUME ProcessInv, LoopInv, ProcessThreads, UNCHANGED thread PROVE LoopInv'
  OBVIOUS
<1>1. CASE CreateMessages
  BY <1>1 DEF CreateMessages, LoopInv, ProcessInv, SettingUp, Does, Dies
<1>2. CASE MessageThread
  BY <1>2 DEF MessageThread, LoopInv
<1>3. CASE UNCHANGED message
  BY <1>3 DEF LoopInv
<1>4. UNCHANGED message \/ CreateMessages \/ MessageThread
  BY Zenon DEF ProcessThreads, Main, setup_buffers, setup_serv_sock, setup_iouring, init_flags,
     CreateWorker, CreateListener, JoinMessages, destroy_buffers, teardown_server_sock, queue_exit,
     free_rest, Worker, Listener, Dies, SetsUp, Releases
<1> QED BY <1>1, <1>2, <1>3, <1>4

-----------------------------------------------------------------------------
\* The steps that make, send and read a block, and the clock.
BlockStep ==
  \/ BlockThread
  \/ \E n \in Nonces : TryNonce(n)
  \/ WriteNonce
  \/ deserialize_block
  \/ Tick

\* Such a step keeps the types of what the block is made of.
LEMMA BlockTypes == BlockTypeOK /\ BlockStep => BlockTypeOK'
<1> SUFFICES ASSUME BlockTypeOK, BlockStep PROVE BlockTypeOK'
  OBVIOUS
<1> USE BlockAssumption DEF BlockTypeOK
<1>1. CASE StartPuzzle
  BY <1>1 DEF StartPuzzle
<1>2. CASE Join
  BY <1>2 DEF Join
<1>3. CASE create_block_dummy
  BY <1>3 DEF create_block_dummy, Block, Hashes
<1>4. CASE set_nonce_to_block
  <2>1. block' \in Block
    <3>1. block \in Block /\ nonce_answ \in Nonces /\ now \in 0 .. MAX_TIME
      BY Zenon
    <3>2. ZEROS \in Hashes
      BY DEF Hashes
    <3>3. block' = [block EXCEPT !.nonce = nonce_answ, !.timestamp_end = now,
                                 !.previous_block = ZEROS]
      BY Zenon, <1>4 DEF set_nonce_to_block
    <3>4. ASSUME NEW b \in Block, NEW n \in Nonces, NEW t \in 0 .. MAX_TIME, NEW h \in Hashes
          PROVE  [b EXCEPT !.nonce = n, !.timestamp_end = t, !.previous_block = h] \in Block
      BY DEF Block
    <3>. QED  BY Zenon, <3>1, <3>2, <3>3, <3>4
  <2>. QED  BY Zenon, <1>4, <2>1 DEF set_nonce_to_block
<1>5. CASE P2P_serialize_block_to_sock
  BY <1>5 DEF P2P_serialize_block_to_sock, Block
<1>6. CASE \E n \in Nonces : TryNonce(n)
  BY <1>6 DEF TryNonce
<1>7. CASE WriteNonce
  BY <1>7 DEF WriteNonce
<1>8. CASE deserialize_block
  BY <1>8 DEF deserialize_block, Block
<1>9. CASE Tick
  BY <1>9 DEF Tick
<1> QED
  BY <1>1, <1>2, <1>3, <1>4, <1>5, <1>6, <1>7, <1>8, <1>9 DEF BlockStep, BlockThread

\* ... and where the puzzle thread is and what its nonce is worth.
LEMMA PuzzleSteps == BlockTypeOK /\ PuzzleInv /\ BlockStep => PuzzleInv'
<1> SUFFICES ASSUME BlockTypeOK, PuzzleInv, BlockStep PROVE PuzzleInv'
  OBVIOUS
<1> USE DEF BlockTypeOK, PuzzleInv, solves
<1>1. CASE StartPuzzle
  BY <1>1 DEF StartPuzzle
<1>2. CASE Join
  BY <1>2 DEF Join
<1>3. CASE create_block_dummy \/ P2P_serialize_block_to_sock
  BY <1>3 DEF create_block_dummy, P2P_serialize_block_to_sock
<1>4. CASE set_nonce_to_block
  BY <1>4 DEF set_nonce_to_block
<1>5. CASE \E n \in Nonces : TryNonce(n)
  BY <1>5 DEF TryNonce
<1>6. CASE WriteNonce
  BY <1>6 DEF WriteNonce
<1>7. CASE deserialize_block \/ Tick
  BY <1>7 DEF deserialize_block, Tick
<1> QED BY <1>1, <1>2, <1>3, <1>4, <1>5, <1>6, <1>7 DEF BlockStep, BlockThread

\* ... and what the block and its copies are made of: once the block is
\* published neither it nor the nonce changes.
LEMMA ContentSteps == BlockTypeOK /\ PuzzleInv /\ ContentInv /\ BlockStep => ContentInv'
<1> SUFFICES ASSUME BlockTypeOK, PuzzleInv, ContentInv, BlockStep PROVE ContentInv'
  OBVIOUS
<1> USE DEF ContentInv
<1>1. CASE StartPuzzle
  BY <1>1 DEF StartPuzzle
<1>2. CASE Join
  BY <1>2 DEF Join
<1>3. CASE create_block_dummy
  BY <1>3, BlockAssumption DEF create_block_dummy, BlockTypeOK
<1>4. CASE set_nonce_to_block
  BY <1>4, BlockAssumption DEF set_nonce_to_block, BlockTypeOK, Block
<1>5. CASE P2P_serialize_block_to_sock
  BY <1>5 DEF P2P_serialize_block_to_sock
<1>6. CASE \E n \in Nonces : TryNonce(n)
  BY <1>6 DEF TryNonce
<1>7. CASE WriteNonce
  BY <1>7 DEF WriteNonce, PuzzleInv
<1>8. CASE deserialize_block
  BY <1>8 DEF deserialize_block
<1>9. CASE Tick
  BY <1>9, BlockAssumption DEF Tick, BlockTypeOK, Block
<1> QED
  BY <1>1, <1>2, <1>3, <1>4, <1>5, <1>6, <1>7, <1>8, <1>9 DEF BlockStep, BlockThread

-----------------------------------------------------------------------------
\* Every step of the client keeps the invariant.
LEMMA NextClientInv == ClientInv /\ [Next]_vars => ClientInv'
<1> SUFFICES ASSUME ClientInv, [Next]_vars PROVE ClientInv'
  OBVIOUS
<1> USE DEF ClientInv, TypeOK
<1>1. CASE ProcessStep
  <2>1. ProcessTypeOK' /\ ProcessInv'
    BY <1>1, ProcessTypes, ProcessSteps DEF ProcessStep
  <2>2. UNCHANGED blockVars
    BY <1>1 DEF ProcessStep
  <2>3. BlockTypeOK' /\ PuzzleInv' /\ ContentInv'
    BY <2>2 DEF blockVars, BlockTypeOK, PuzzleInv, ContentInv, solves
  <2>4. LoopInv'
    BY <1>1, <2>2, LoopSteps DEF ProcessStep, blockVars
  <2> QED BY <2>1, <2>3, <2>4
<1>2. ASSUME BlockStep, UNCHANGED processVars, UNCHANGED thread PROVE ClientInv'
  <2>1. BlockTypeOK' /\ PuzzleInv' /\ ContentInv'
    BY <1>2, BlockTypes, PuzzleSteps, ContentSteps
  <2>2. ProcessTypeOK' /\ ProcessInv' /\ LoopInv'
    BY <1>2 DEF processVars, ProcessTypeOK, ProcessInv, LoopInv
  <2> QED BY <2>1, <2>2
<1>3. CASE MessageThreadStep
  <2>1. BlockTypeOK' /\ PuzzleInv' /\ ContentInv'
    BY <1>3, BlockTypes, PuzzleSteps, ContentSteps DEF MessageThreadStep, BlockStep
  <2>2. /\ main' \in {main, "exited"} /\ message = "loop"
        /\ UNCHANGED <<ready, message, worker, listener>>
    BY <1>3 DEF MessageThreadStep
  <2>3. ProcessTypeOK' /\ ProcessInv' /\ LoopInv'
    BY <2>2 DEF ProcessTypeOK, ProcessInv, LoopInv, SettingUp, Releasing
  <2> QED BY <2>1, <2>3
<1>4. CASE (\E n \in Nonces : TryStep(n)) \/ WriteStep \/ DeliverStep \/ TickStep
  BY <1>2, <1>4 DEF TryStep, WriteStep, DeliverStep, TickStep, BlockStep, TryNonce, WriteNonce,
                    deserialize_block, Tick
<1>5. CASE UNCHANGED vars
  BY <1>5 DEF vars, blockVars, processVars, BlockTypeOK, PuzzleInv, ContentInv, solves,
              ProcessTypeOK, ProcessInv, LoopInv
<1> QED BY <1>1, <1>3, <1>4, <1>5 DEF Next

\* The client satisfies the inductive invariant: the puzzle thread runs only
\* while processing_block waits for it, a nonce that is written solves the
\* puzzle, and what is published, sent and read is the block that was made.
THEOREM ClientInvHolds == Spec => []ClientInv
  BY InitClientInv, NextClientInv, PTL DEF Spec

\* The invariant is enough for the properties of the client.
LEMMA ClientInvSuffices ==
  ClientInv => TypeOK /\ PuzzleUsesLive /\ UsedIsReady /\ ReceivedIsAsMade
<1> SUFFICES ASSUME ClientInv
             PROVE  TypeOK /\ PuzzleUsesLive /\ UsedIsReady /\ ReceivedIsAsMade
  OBVIOUS
<1> USE DEF ClientInv
<1>1. TypeOK
  OBVIOUS
<1>2. PuzzleUsesLive
  BY DEF PuzzleUsesLive, PuzzleInv
<1>3. UsedIsReady
  <2> SUFFICES ASSUME main # "exited"
               PROVE  /\ MessageUses \subseteq ready
                      /\ \/ WorkerUses \subseteq ready
                         \/ /\ main \in {"close", "queue_exit", "free"} /\ message = "returned"
                            /\ thread = "tree" /\ wire = None
    BY DEF UsedIsReady
  <2> USE DEF ProcessInv, TypeOK, ProcessTypeOK, SettingUp, Releasing
  <2>1. CASE main \in {"close", "queue_exit", "free"}
    <3>1. message = "returned" /\ thread = "tree"
      BY <2>1 DEF LoopInv
    <3>2. wire = None
      BY <3>1 DEF ContentInv
    <3> QED BY <2>1, <3>1, <3>2 DEF MessageUses
  <2>2. CASE main \notin {"close", "queue_exit", "free"}
    <3>1. MessageUses \subseteq ready
      BY <2>2 DEF MessageUses
    <3>2. WorkerUses \subseteq ready
      BY <2>2 DEF WorkerUses
    <3> QED BY <3>1, <3>2
  <2> QED BY <2>1, <2>2
<1>4. ReceivedIsAsMade
  <2> SUFFICES ASSUME received # None
               PROVE  /\ received \in {block, [block EXCEPT !.tail = "heap"]}
                      /\ received.merkle_root = calc_hashof_hash(Root)
                      /\ IF puzzle = "failed" THEN received.nonce = 0 ELSE solves(received.nonce)
                      /\ received.timestamp_begin <= received.timestamp_end
    BY DEF ReceivedIsAsMade
  <2>1. thread = "published" /\ wire = [block EXCEPT !.tail = "none"]
    BY DEF ContentInv
  <2>2. PICK bytes \in {"zeros", "heap"} : received = [wire EXCEPT !.tail = bytes]
    BY DEF ContentInv
  <2>3. block \in Block /\ block.tail = "zeros"
    BY <2>1 DEF ContentInv, TypeOK, BlockTypeOK
  <2>4. received = [block EXCEPT !.tail = bytes]
    BY <2>1, <2>2, <2>3 DEF Block
  <2>5. received \in {block, [block EXCEPT !.tail = "heap"]}
    BY <2>3, <2>4 DEF Block
  <2>6. /\ received.merkle_root = block.merkle_root
        /\ received.nonce = block.nonce
        /\ received.timestamp_begin = block.timestamp_begin
        /\ received.timestamp_end = block.timestamp_end
    BY <2>3, <2>4 DEF Block
  <2>7. IF puzzle = "failed" THEN nonce_answ = 0 ELSE solves(nonce_answ)
    BY <2>1 DEF PuzzleInv, TypeOK, BlockTypeOK
  <2> QED BY <2>1, <2>5, <2>6, <2>7 DEF ContentInv
<1> QED BY <1>1, <1>2, <1>3, <1>4

\* For all nonces, hashes and clocks the client's values keep their types.
THEOREM ClientIsTyped == Spec => []TypeOK
  BY ClientInvHolds, ClientInvSuffices, PTL

\* The puzzle thread is through with the root and the nonce, which it has by
\* address, before processing_block frees them and returns.
THEOREM PuzzleIsLive == Spec => []PuzzleUsesLive
  BY ClientInvHolds, ClientInvSuffices, PTL

\* The message thread never uses what is not set up or already released; if the
\* P2P server does, the message thread has returned after a failed connect, main
\* is on its way out, and no block has been made or sent.
THEOREM UsesAreReadyOrBlockless == Spec => []UsedIsReady
  BY ClientInvHolds, ClientInvSuffices, PTL

\* A block that arrives is the one that was made, the tail of the date excepted;
\* its nonce solves the puzzle if the puzzle thread was created, and is 0 if not.
THEOREM ReceivedBlocksAreAsMade == Spec => []ReceivedIsAsMade
  BY ClientInvHolds, ClientInvSuffices, PTL
=============================================================================
