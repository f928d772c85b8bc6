---------------------------- MODULE BlockCreation ----------------------------
(***************************************************************************)
(* How a client makes its block out of the root of its Merkle tree and how *)
(* the block reaches the neighbour: processing_block                       *)
(* (client/block_process.c), which starts a thread that solves the puzzle  *)
(* and waits for it; the block of block_data/blockdata.c; and the pair     *)
(* P2P_serialize_block_to_sock / deserialize_block                         *)
(* (client/ipc_messages_client.c).                                         *)
(*                                                                         *)
(* A hash is a term: the root, or the hash of one. How many zero bytes the *)
(* hash of a nonce and the root begins with is chosen once, at the start.  *)
(* ClientBlock puts the steps together.                                    *)
(***************************************************************************)
EXTENDS Naturals, Sequences

CONSTANTS
  Nonces,      \* values of the 15 bytes of a nonce, 0 among them
  ZeroBytes,   \* zero bytes that a hash may begin with
  DIFFICULTY,  \* zero bytes that solve the puzzle (3)
  MAX_TIME     \* bound: the last instant of the clock

ASSUME BlockAssumption ==
  /\ 0 \in Nonces
  /\ ZeroBytes \subseteq Nat
  /\ DIFFICULTY \in Nat
  /\ MAX_TIME \in Nat

VARIABLES
  leading,     \* zero bytes of the hash of a nonce and the root
  thread,      \* the message thread: "tree", "joining", "joined", "dummy", "block",
               \* "published", or "crashed"
  puzzle,      \* the puzzle thread: "none", "searching", "found", "ended", "failed"
  sample,      \* CONCAT_BYTES: the nonce tried last
  nonce_answ,  \* pc->nonce
  live,        \* pc, nonce_answ and merkle_root_first are still there
  block,       \* block_dummy
  wire,        \* buffer_BLOCK_DATA
  received,    \* the block the neighbour's listener has deserialized
  now          \* the clock

blockVars == <<leading, thread, puzzle, sample, nonce_answ, live, block, wire, received, now>>

Root == <<"root">>
calc_hashof_hash(h) == <<"hash">> \o h
ZEROS == <<>>
Hashes == {Root, calc_hashof_hash(Root), ZEROS}

\* No block yet: the pointers are NULL, the buffer is empty.
None == [nonce |-> 0, date |-> 0, tail |-> "none", timestamp_begin |-> 0,
         timestamp_end |-> 0, difficulty |-> 0, previous_block |-> ZEROS,
         merkle_root |-> ZEROS]

\* block_t. The date is 24 bytes of text and a tail of 11: zeros in a block
\* that is created, whatever follows the text in memory in one received.
Block ==
  [nonce : Nonces, date : 0 .. MAX_TIME, tail : {"none", "zeros", "heap"},
   timestamp_begin : 0 .. MAX_TIME, timestamp_end : 0 .. MAX_TIME,
   difficulty : Nat, previous_block : Hashes, merkle_root : Hashes]

solves(n) == leading[n] >= DIFFICULTY

BlockTypeOK ==
  /\ leading \in [Nonces -> ZeroBytes]
  /\ thread \in {"tree", "joining", "joined", "dummy", "block", "published", "crashed"}
  /\ puzzle \in {"none", "searching", "found", "ended", "failed"}
  /\ sample \in Nonces
  /\ nonce_answ \in Nonces
  /\ live \in BOOLEAN
  /\ {block, wire, received} \subseteq Block
  /\ now \in 0 .. MAX_TIME

\* The last message has come and the tree is built.
BlockInit ==
  /\ leading \in [Nonces -> ZeroBytes]
  /\ \E n \in Nonces : solves(n)
  /\ thread = "tree"
  /\ puzzle = "none"
  /\ sample = 0
  /\ nonce_answ = 0
  /\ live = FALSE
  /\ block = None /\ wire = None /\ received = None
  /\ now = 0

-----------------------------------------------------------------------------
\* The container, the root's copy and the nonce, zeroed, are allocated and the
\* puzzle thread is created; if that fails the code only prints a message.
StartPuzzle ==
  /\ thread = "tree"
  /\ live' = TRUE
  /\ nonce_answ' = 0
  /\ puzzle' \in {"searching", "failed"}
  /\ thread' = "joining"
  /\ UNCHANGED <<leading, sample, block, wire, received, now>>

\* Mutant: one zero byte too few is compared.
TryNonceEasy(n) ==
  /\ puzzle = "searching"
  /\ sample' = n
  /\ puzzle' = IF leading[n] >= DIFFICULTY - 1 THEN "found" ELSE "searching"
  /\ UNCHANGED <<leading, thread, nonce_answ, live, block, wire, received, now>>

\* Mutant: the loop wants one zero byte more, which no nonce may give.
TryNonceHard(n) ==
  /\ puzzle = "searching"
  /\ sample' = n
  /\ puzzle' = IF leading[n] > DIFFICULTY THEN "found" ELSE "searching"
  /\ UNCHANGED <<leading, thread, nonce_answ, live, block, wire, received, now>>

\* A turn of the loop of solve_puzzle_fixed_diff: a random nonce.
TryNonce(n) ==
  /\ puzzle = "searching"
  /\ sample' = n
  /\ puzzle' = IF solves(n) THEN "found" ELSE "searching"
  /\ UNCHANGED <<leading, thread, nonce_answ, live, block, wire, received, now>>

\* ... and behind the loop: the nonce is copied to pc->nonce.
WriteNonce ==
  /\ puzzle = "found"
  /\ nonce_answ' = sample
  /\ puzzle' = "ended"
  /\ UNCHANGED <<leading, thread, sample, live, block, wire, received, now>>

\* Mutant: the puzzle thread is detached ("dETACH HOW?") and not waited for.
Detach ==
  /\ thread = "joining"
  /\ thread' = "joined"
  /\ UNCHANGED <<leading, puzzle, sample, nonce_answ, live, block, wire, received, now>>

\* thrd_join returns when the puzzle thread has ended. If there is none, the
\* thrd_t is uninitialised: the call returns an error, which is printed, or it
\* follows a wild pointer.
Join ==
  /\ thread = "joining"
  /\ \/ puzzle = "ended" /\ thread' = "joined"
     \/ puzzle = "failed" /\ thread' \in {"joined", "crashed"}
  /\ UNCHANGED <<leading, puzzle, sample, nonce_answ, live, block, wire, received, now>>

\* Mutant: the block is not cleared, and what it is not given is heap bytes.
DummyNotCleared ==
  /\ thread = "joined"
  /\ \E date \in 0 .. MAX_TIME :
       block' = [nonce |-> 0, date |-> date, tail |-> "zeros",
                 timestamp_begin |-> now, timestamp_end |-> MAX_TIME + 1, difficulty |-> 0,
                 previous_block |-> ZEROS, merkle_root |-> calc_hashof_hash(Root)]
  /\ thread' = "dummy"
  /\ UNCHANGED <<leading, puzzle, sample, nonce_answ, live, wire, received, now>>

\* The date is what the threads' calls of gmtime make of it (Timestamp).
create_block_dummy ==
  /\ thread = "joined"
  /\ \E date \in 0 .. MAX_TIME :
       block' = [nonce |-> 0, date |-> date, tail |-> "zeros",
                 timestamp_begin |-> now, timestamp_end |-> 0, difficulty |-> 0,
                 previous_block |-> ZEROS, merkle_root |-> calc_hashof_hash(Root)]
  /\ thread' = "dummy"
  /\ UNCHANGED <<leading, puzzle, sample, nonce_answ, live, wire, received, now>>

\* set_nonce_to_block, which frees the nonce; set_prev_block_hash, with NULL;
\* the container is freed, and merkle_root_first goes with the frame.
set_nonce_to_block ==
  /\ thread = "dummy"
  /\ block' = [block EXCEPT !.nonce = nonce_answ, !.timestamp_end = now,
                            !.previous_block = ZEROS]
  /\ live' = FALSE
  /\ thread' = "block"
  /\ UNCHANGED <<leading, puzzle, sample, nonce_answ, wire, received, now>>

\* The date goes as a string: its tail does not.
P2P_serialize_block_to_sock ==
  /\ thread = "block"
  /\ wire' = [block EXCEPT !.tail = "none"]
  /\ thread' = "published"
  /\ UNCHANGED <<leading, puzzle, sample, nonce_answ, live, block, received, now>>

\* 35 bytes are copied from a string of 24: the tail is what follows it.
deserialize_block ==
  /\ wire # None /\ received = None
  /\ \E bytes \in {"zeros", "heap"} : received' = [wire EXCEPT !.tail = bytes]
  /\ UNCHANGED <<leading, thread, puzzle, sample, nonce_answ, live, block, wire, now>>

Tick ==
  /\ now < MAX_TIME
  /\ now' = now + 1
  /\ UNCHANGED <<leading, thread, puzzle, sample, nonce_answ, live, block, wire, received>>

\* The steps of the message thread.
BlockThread ==
  \/ StartPuzzle
  \/ Join
  \/ create_block_dummy
  \/ set_nonce_to_block
  \/ P2P_serialize_block_to_sock
=============================================================================
