# A TLA+ model of the message server, its clients and their blocks

The repository holds two programs. The *message server* (`sources/networking`,
`sources/main`) generates signed messages and hands them to clients over TCP,
with one io_uring event loop. The *client* (`sources/client`) has three threads:
the message thread collects 512 messages from the server, builds their Merkle
tree, solves a puzzle and makes a block; the P2P server (worker) hands the block
to a neighbour that asks for it; the P2P listener asks a neighbour for its block.
This directory models both programs, checks the models with TLC on small
instances, and proves with TLAPS, for all instances, every safety invariant that
a passing run checks.

Paths below are relative to `src/sources/`.

## Inventory

| part | code | module |
|---|---|---|
| kernel: ring, sockets | (external) | `Sockets` |
| message buffer | `networking/data_handlers.c` | `CircBuf` |
| message server | `networking/event_loop.c`, `connection_handlers.c` | `MessageServer` |
| message thread | `client/setup_client.c`, `ipc_messages_client.c` | `MessageClient` |
| server and clients together | | `MessageExchange`, `MCExchange`; proofs: `MessageExchangeProofs`, `MessageExchangeSafety` |
| what the server promises | | `Distribution`; proofs: `DistributionProofs`, `InTurnProofs` |
| signing, packing, parsing | `accounts/acc_utils.c`, `misc/misc.c`, `serdes/serdes.c`, `networking/ipcmessages.c` | `SignedMessages`; proofs: `SignedMessagesProofs` |
| Merkle tree | `block_data/layering.c`, `merkle_process.c`, `hashing/hashing.c` | `Merkle`; proofs: `MerkleProofs` |
| block, proof of work | `block_data/blockdata.c`, `client/block_process.c` | `BlockCreation` |
| client process | `client/main.c`, `common.c`, `p2p_setup.c` | `ClientProcess` |
| process and block together | | `ClientBlock`; proofs: `ClientBlockProofs` |
| dates | `misc/misc.c` (`get_timestamp`) | `Timestamp` |
| what peers share | `client/main.c`, `ipc_messages_client.c` | `PeerLinks` |
| P2P server | `client/p2p_event_loop.c`, `dhandlers_p2p.c` | `P2PServer` |
| P2P listener | `client/p2p_listen.c` | `P2PListener` |
| peers together | | `P2PExchange`, `MCP2P`; proofs: `P2PProofs` |

How they interact: every client's message thread talks to the one server, and
all clients share the server's buffer, ring and `current_client_fd`. Within a
client process the message thread signals the P2P server through
`block_created_mtx`, `block_written_size` and `buffer_BLOCK_DATA`. Listener and
P2P server of different processes talk over one connection per listener.

What is hard here, and is in the models: several clients interleaved on shared
state; a reset by one client in the middle of another's block; unsigned
wrap-around; slots of a ring and descriptors that are reused; TCP messages that
are read together; processes that die; a mutex used as an event; a block read
while it may be being written; threads that start before, and run after, what
they use is there; answers that arrive when nobody reads.

## The message exchange

`Sockets` is what both ends see of the kernel. A slot of the submission ring
keeps its operation until it is overwritten; a send completes when submitted; a
recv returns all that is pending and the protobuf parser lets the last message
win; a message is not split. `CircBuf` is the buffer as operators on a value.
`MessageServer` and `MessageClient` are the two programs; `MessageExchange`
composes them and states the properties. `MCExchange` adds the symmetry set.

| code | model |
|---|---|
| `FLAG_ACCEPT` | `OnAccept`: arms the next accept, sets `current_client_fd`, asks |
| `READ_RESPONSE` | `OnReadResponse`: arms a recv |
| `TEST_RESPONSE` with `NEED_MORE` | `OnNeedMore`, `OnNeedMoreAllSent` |
| ... `ACKN_OK` / `ENOUGH` / others | `OnAcknOk` / `FINISH_SENDING` / `OnNoResponse` |
| `FLAG_CLOSE_CONNECTION` | `OnClose`: closes `current_client_fd` |
| client: `ASK_NEED_MSG` | `OnAsk` |
| client: `MESSAGE_SENDED` | `OnMessage`, `OnLastMessage` |
| client: `ALL_BLOCK_MSG_SENDED` | `OnAllSent` |
| client: any other status | `OnOtherStatus`, then `DesyncedTurn` |
| client: nothing, or bytes that do not parse | `UnpackFails` |

Four places deserve a note.

* `FINISH_SENDING` takes a slot of the submission ring, sets its `user_data`
  and submits it without preparing an operation. The kernel then executes what
  the slot held before: nothing, an accept, a recv, or a send from a buffer
  that may hold something else by now. All four are disjuncts of the action.
* `GET_nth_circ_buf` computes `fill_size - 1` in `size_t`. After the reset to 0
  this is the largest number, so every slot counts as loaded. `CircBuf` keeps
  the width (`SIZE_MOD`).
* In the client, the default case sends nothing, and the second
  `io_uring_cqe_seen` of the turn then skips a completion still to come. What
  the loop does from then on depends on old completions and on what its buffer
  held. `DesyncedTurn` lets a turn take any branch of the loop, with any message
  the client has received, or end the process on a failed unpack. It sends only
  when the answer before has been read.
* The server parses an answer in the buffer from which it also sends on that
  descriptor, some completions after the recv. If something else was put there,
  `read_ONLY_STATUS_response` gets NULL from the parser and dereferences it
  (`Unpacked`; `server = "unparsed"`). A bare status of the server's own may
  have the length of the answer or not, and both outcomes are in the model.

Abstractions: a signed message is the serial number of its generation
(`SignedMessages` justifies this); descriptors do not run out (`MAX_FD` is at
least the number of clients); the scratch `IpcMessage` of a descriptor is not
modelled; a send to a socket whose buffers are full is dropped. A status carries
an uninitialised timestamp, whose length may vary: a repeated send of the same
kind may therefore parse or not, and both are modelled.

### The abstract distribution

`Distribution` says what the exchange promises, without sockets, rings or
counters: one block of messages is made, once, slot by slot; clients get
messages of it. `MessageExchange` implements it under the refinement mapping
`log <- CBUF.buffer`, `got <- msg_arr`, `finished <- CBUF.fill_size = 0`. There
are two promises. With clients served one at a time, each gets every message
once and in order, for ever (`OrderedSpec`, property `DistributesInOrder`). With
clients served at once this holds until the first has its block; from then on a
client may get a message twice, though never one that is not of the block
(`Spec`, property `Distributes`). Both refinements are proved.

### Runs

`CHECK_DEADLOCK FALSE` is stated because the system does stop, when every client
has been served or has ended.

| run | instance | shows |
|---|---|---|
| `served_in_turn` | three clients, one at a time, blocks of three, 12 ring slots | each gets the block the server hashes (`BlocksAgree`), only served clients are closed (`OnlyServedAreClosed`), none stops without a block (`FilledMeansBlock`), every client is served and closed (`EveryClientServed`, `ServedIsClosed`), and `DistributesInOrder`; the inductive invariant `OneAtATimeInv` of the proofs |
| `concurrent` | two clients at once, of which one may die at any step, blocks of three, 7 ring slots | types; the server never reads an empty or freed slot and never hangs in `GET_nth_circ_buf` (`BufferNeverFails`); until the first client finishes it parses every answer as it was sent (`AnswersParse`); slots are stable (`SlotsKeepTheirMessage`); until the first client finishes all get the same prefix (`ReceivedInOrder`) and the counters agree with it (`OneUnacknowledged`); a client that lives sees one finish (`SomeClientFinishes`); the inductive invariants `IInv` and `HandOutInv` of the proofs; `Distributes` |
| `closes_another` | two clients at once, blocks of two | violation of `OnlyServedAreClosed`: the client accepted last is closed instead of the one served |
| `blocks_differ` | the same | violation of `BlocksAgree`: a repeated send gives a client one message twice |
| `filled_without_block` | the same | violation of `FilledMeansBlock`: a repeated question makes a client ask twice, and it reads its last message together with the end |

Bounds: the code has blocks of 512 messages and a ring of 1024 slots, so the ring
comes round within a client's exchange. Three messages tell a first, a middle,
a last and a repeated message apart. A client served alone uses one slot of the
ring for the accept, four per message (question, recv, message, recv) and one in
`FINISH_SENDING`. In the code 4 * 512 is a multiple of 1024, in `served_in_turn`
4 * 3 is one of 12; so in both each `FINISH_SENDING` meets the slot of an
`ASK_NEED_MSG` sent to the same client. Clients that interleave shift this: with
7 slots, `concurrent` meets accepts, recvs and sends, of either client. (A slot never
used is met only if the ring is longer than an exchange, as it is neither in the
code nor in a run; the theorems cover that as well.) Two clients at once suffice
for every violation found; three in turn reuse a descriptor twice.

Fairness (`FairSpec`): weak fairness of the event loop, of recv completion in
the kernel, and of each client's thread. Each waits for one event and handles it
when it comes, so a step that stays enabled is taken. That a client connects, or
dies, is not assumed.

## What is inside a message

`SignedMessages` opens what the exchange takes for a whole: the text, the
signature and the public key, how they are packed, and the parser that merges
several packed messages field by field. It uses the buffer of `CircBuf` in any
order, resets included, and has the push loop of `GET_nth_circ_buf` as a loop.
Run `signed_messages` (three slots, five messages made, two pending, `size_t` of
3 bits; 672,771 states): a message stored by the client is one of the server's
with its own key (`StoredValidates`); the one-step `GET_nth_circ_buf` of
the other models is the code's loop, also where the loop never ends
(`GetNthIsTheLoop`); a full buffer is live and without duplicates when cleaned
(`FilledAreLive`). `SignedInv` is the inductive invariant of the
proofs. A size of three lets `fill_size` come round, and two pending messages are
what a merge needs.

## The Merkle tree

`Merkle` builds the layers as `calc_merkle_tree` does and runs the verification
loop, with any set of messages overwritten after the tree is built (as
`test_mekrle_proof_WRONG` does with one). A hash is the term it was computed
from, so hashes are equal only if their inputs are. Run `merkle` (8 messages:
base, one inner layer and the root): the layers are those of the recursive
definition (`LayersAreTheTree`); a message is rejected exactly if it or the one
it is paired with has changed (`VerifyDetects`); the loop ends with the count the
tests expect (`CountsIntact`). Fairness is that of a sequential program that
runs on. The branch of `merkle_verify_message` that answers 1 to a mismatch
between inner layers is modelled and cannot be reached, since nothing changes a
node.

## The client process and its block

`ClientProcess` is `main`: what it sets up, the threads it starts, the one it
joins, and what it releases, each step with its failure. `BlockCreation` is what
happens between the Merkle root and the neighbour: `processing_block` starts the
puzzle thread, joins it, and makes the block, which is serialized, sent and
deserialized. `ClientBlock` composes the two: the message thread makes its block
only once it is in its loop, the worker sends only while it handles a
completion, and a crash of one thread ends all. How many zero bytes each nonce
gives is chosen at the start and any choice with a solution is allowed.

Run `client_block` (three nonces, hashes below, at and above the difficulty,
three instants; 177,042 states): the puzzle thread never works on memory that was
freed (`PuzzleUsesLive`). The message thread finds all it uses as long as the
process lives, and the worker until `main` has released it; `main` gets to its
releases only after a failed connect, with no block begun and none sent
(`UsedIsReady`). The neighbour receives the block that was made, the tail of the
date excepted, with a nonce that solves the puzzle if the puzzle thread ran and
with nonce 0 if it could not be created (`ReceivedIsAsMade`). A client that is
connected, has its messages and has built the tree (where `BlockCreation` starts)
publishes its block or ends (`BlockIsPublished`).
`ClientInv` is the inductive invariant of the proof. Fairness: the message and
the puzzle thread are scheduled, and random draws leave no nonce out for ever
(true with probability 1, not by the code). Nothing is assumed of `main`, of the
worker, or of the clock.

`Timestamp` is `get_timestamp` with the one `struct tm` that `gmtime` keeps for the
process. Run `date_torn`: violation of `DateIsCreation`. The message thread has formatted
the first fields of the time when another thread, which read the clock earlier,
has its own time broken down into the same structure; the message thread formats
the rest from that. The date of the block, made of two times, is an instant the
clock has not come to. `BlockCreation` therefore lets the date of a block be any.

## The P2P exchange

`PeerLinks` is what the threads and processes share; `P2PServer` and
`P2PListener` are the two threads; `P2PExchange` composes them with what the
message thread does to the mutex, to the size and to the block buffer. A turn of
the P2P server is the try of the mutex and then the handler, and the handler
that sends the block reads its size and then copies it without the mutex; the
message thread, which packs the block, publishes the size and releases the
mutex in separate steps, can run in between. A turn of the listener is one step:
it shares only the connection. A recv that returns no bytes makes
`P2P_deserialize_STATUS` dereference NULL, and the process ends
(`OnNeighbourGone`). The status is read from memory just freed; the model takes
the value that was there. `MCP2P` gives two topologies: the two clients of the
readme, connected to each other (`EachOther`), and both connected to the first
one, so that one P2P server has two connections, one of them from its own process
(`ServedByFirst`).

| run | shows |
|---|---|
| `p2p_one_server` | `ServedByFirst`, one process may be killed: types; a buffer never serves two operations (`BufferServesOne`); no block is sent while it is being packed (`SentIsWhole`); a block accepted was created (`AcceptedIsCreated`); the ends take turns, with one exception (`TakeTurns`); a process ends only if killed or as a listener without its block whose neighbour has ended (`EndsWithNeighbour`); the inductive invariant `PeerInv`; a listener stops asking once the block exists, whether or not it then has it (`AskingEnds`) |
| `p2p_block_lost` | `EachOther`: violation of `SentIsAccepted`: block and `FINISH` read together, the block is lost |
| `p2p_asks_forever` | `EachOther`: violation of `WaitEnds`: a client told `ALL_BLOCK_MSG_SENDED` (see `filled_without_block`) keeps the mutex for ever, and its neighbour asks for ever |

The properties of `p2p_one_server` were checked with `EachOther` as well, which
takes three times as long and is not kept as a run. Fairness (`FairSpec`): every
thread is scheduled, the kernel completes a recv that has data, and connecting
is retried; whether a message thread ever gets its block is left open.
`ServedSpec`, used by `p2p_asks_forever` alone, adds that it goes on, so that the
counterexample is not one of a thread that stands still. `MAX_FAILURES` bounds the
processes killed; two peers suffice for the properties, each of which is about
one connection or one pair of neighbours.

## What is proved

The theorems hold for every value of the constants that the named assumptions
allow (`CircBufAssumption`, `SocketsAssumption`, `ServerAssumption`,
`ClientAssumption`, `ExchangeAssumption`, `PeerAssumption`, `BlockAssumption`,
`SignedAssumption`, `MerkleAssumption`). Those of `InTurnProofs` have a hypothesis
besides, `OneAtATime`, explained below.

| module | theorem | what it states of `Spec` |
|---|---|---|
| `MessageExchangeProofs` | `TypeCorrect` | `TypeOK` is an invariant |
| `MessageExchangeSafety` | `InvariantHolds` | `IInv` is an invariant |
| | `BufferIsSafe` | `BufferNeverFails` is an invariant |
| | `SlotsAreKept` | the action property `SlotsKeepTheirMessage` |
| `DistributionProofs` | `HandOutHolds` | `HandOutInv` is an invariant |
| | `TurnsAreTaken`, `OneMessageAhead` | `ReceivedInOrder` and `OneUnacknowledged` are invariants |
| | `AnswersAreParsed` | `AnswersParse` is an invariant |
| | `ExchangeDistributes` | `Distributes`, the refinement |
| `InTurnProofs` | `ServedInTurn` | `OneAtATimeInv` is an invariant, under `OneAtATime` like the five below |
| | `BlocksDoAgree` | `BlocksAgree` is an invariant |
| | `ClosedAreServed` | `OnlyServedAreClosed` is an invariant |
| | `FilledHaveBlocks` | `FilledMeansBlock` is an invariant |
| | `ServerStaysUp` | the server is always up: it fails neither on its buffer nor on an answer |
| | `ExchangeDistributesInOrder` | `DistributesInOrder`, the refinement of the ordered promise |
| `P2PProofs` | `PeerInvHolds` | `PeerInv` is an invariant |
| | `PeersAreTyped`, `BuffersServeOne`, `SentBlocksAreWhole`, `AcceptedWasCreated` | `TypeOK`, `BufferServesOne`, `SentIsWhole`, `AcceptedIsCreated` are invariants |
| | `PeersTakeTurns` | `TakeTurns` is an invariant |
| | `EndsAreExplained` | `EndsWithNeighbour` is an invariant |
| `ClientBlockProofs` | `ClientInvHolds` | `ClientInv` is an invariant |
| | `ClientIsTyped`, `PuzzleIsLive`, `UsesAreReadyOrBlockless`, `ReceivedBlocksAreAsMade` | `TypeOK`, `PuzzleUsesLive`, `UsedIsReady`, `ReceivedIsAsMade` are invariants |
| `SignedMessagesProofs` | `MessagesAreSound` | `SignedInv` is an invariant |
| | `MessagesAreTyped`, `StoredMessagesValidate`, `FilledSlotsAreLive` | `TypeOK`, `StoredValidates`, `FilledAreLive` are invariants |
| | `GetNthIsTheCodesLoop` | `GetNthIsTheLoop` is an invariant |
| `MerkleProofs` | `TreeIsSound` | `TreeInv` is an invariant |
| | `TreeIsTyped`, `BuiltIsTheTree`, `VerifyIsRight` | `TypeOK`, `LayersAreTheTree`, `VerifyDetects` are invariants |
| | `CountsAreRight` | `CountIsRight` is an invariant, the safety part of `CountsIntact` |

*The server.* `MessageExchangeProofs` has the types and what a step does to the
buffer and to a slot, `MessageExchangeSafety`, which extends it, one lemma per
kind of step before the first `ENOUGH`, the steps together and the theorems.
`BufferNeverFails` is not inductive: nothing in it says why
the slots that `FINISH_SENDING` hashes are loaded. The strengthening `IInv` rests
on the two phases of the server's life. Until the first `ENOUGH` is handled
(`FirstPhase`), no connection is closed, so descriptors and clients correspond one
to one (`DescriptorInv`); slots below `fill_size` are loaded in order
(`BufferInv`); no client has more messages than its counter, and no counter is
above `fill_size` (`ClientInv`); hence an `ENOUGH` stands for a full block
(`EnoughInv`). From the first `ENOUGH` on `fill_size` is 0, the wrap-around makes
`GET_nth_circ_buf` push nothing, and the loaded block stays. In that second phase
nothing at all is assumed of the clients, which is what makes the invariant
robust to the repeated operations and to clients out of step. The proof uses
that the sizes of the two programs agree (`N_MESSAGES <= CIRC_BUF_SIZE`,
`MERKLE_LEAVES <= BLOCKSIZE`, `N_MESSAGES <= BLOCKSIZE`; all are 512 in the code).

*The refinement.* `DistributionProofs` shows that the exchange implements
`Distribution!Spec`, for any number of clients served at once. A step that stores
a message has to be shown to store the next one, and `IInv` does not say so: it
bounds what is on its way and does not count it. `HandOutInv` does. In the first
phase server and client take turns (`TurnInv`): of a completion that lets the
server send (`Due`), an answer on its way and a message on its way, a connection
has at most one, and the counter is ahead of the client only by that message. A
client that stores a message with `k` stored then stores message `k + 1`. An
`ENOUGH`, wherever it is, means that some client has a whole block (`FullInv`), so
the first `FINISH_SENDING` is the abstract `Finish`. As long as the turns hold, the
buffer of a descriptor with an unparsed answer holds that answer (`AnswerInv`): a
send would need a second completion that is due. This is `AnswersAreParsed`. In both phases whatever is on
its way, or lies in a buffer from which the ring may repeat a send, is of the
block (`CopiesInv`); this is all that is left once turns are broken, and it is
what `AnyOrder` asks for. There is one lemma per kind of step for each part.
`Make`, `Get` and `Finish` are then `OnNeedMore` (when it pushes), the two handlers
that store a message, and the first `FINISH_SENDING`; every other step stutters.

*Clients in turn.* Four properties of the exchange are false with two clients at
once (the violation runs show it) and hold if clients come one at a time. The
hypothesis `OneAtATime` of `InTurnProofs` says when: one client is connected at a
time (`MAX_ACTIVE = 1`), none fails, the clients are finitely many (their number
is compared with `MAX_ACTIVE`) and the block of the server is as long as that of
the client, as in the code. The instance of `served_in_turn` satisfies it. The
invariant `OneAtATimeInv` has no phases: the second and later clients, for which
`IInv` assumes nothing, are followed as closely as the first. Every descriptor is
closed before the next client comes, so all are served on descriptor 1, and the
connected client is in one of five stages: accepted; told something; answering;
its answer read; or finished, where what `FINISH_SENDING` submits either completes
at once and closes the connection, or repeats an accept or a recv that never
completes, and then no other client comes. `Holds` ties the client's messages to the slots of
the buffer and to the counter of the descriptor, which `OnClose` and
`FINISH_SENDING` reset.

*The peers.* `P2PProofs`. `SentIsWhole` rests
on two orders in two threads: the block is packed before its size is published,
and the size is read before the block is copied (`BlockInv`). A mutex found free
too early then does no harm, since the size read is 0. `BufferServesOne` needs
that a completion belongs to a listener that has connected (`ConnectionInv`), and
`AcceptedIsCreated` that a block on its way was published (`DeliveryInv`).
`TakeTurns` counts what is under way and says nothing of why a turn of the loop
may add to it. `TurnsInv` does: while a completion that lets the server send
(`LetsSend`: an accept, or a recv with a status) is unhandled, the connection is
empty both ways; while that of the block's send is, there is at most the block.
The FINISH that follows is the one case of two statuses.

*The client process.* `ClientBlockProofs`. `PuzzleInv` says where the puzzle thread
may be while the message thread is where, `ContentInv` what the block is made of
at each step and that the copies on its way are copies, `ProcessInv` what `main`
has set up when, `LoopInv` that a block is begun only in the loop. The two halves share `main` and the threads' states only, and
the lemmas take them one at a time.

*The messages.* `SignedMessagesProofs`. `SignedInv` adds to the properties that a
slot holds a message that was made, that a generated message validates under its
own key and that what is on its way was packed from a generated one. The lemma
that a batch acts as its last message (`BatchActsAsLast`, which the exchange
assumes) is about the external parser alone.
`GetNthIsTheLoop` compares the one-step `GET_nth_circ_buf` with the number of
pushes after which the code's loop stops, if it does; the lemmas say what the
buffer is after `k` pushes.

*The Merkle tree.* `MerkleProofs`, for any height. `TreeInv` adds to the properties
that nothing is overwritten while the tree is built and that what was counted is
intact and stays so.

Both of the last two need induction. It is done over sets: a non-empty set of
naturals has a least element (from the well-founded order of the library), so a
set that holds 0 and, with `n`, `n + 1` is all of them; the property to prove is
given as such a set. The recursive functions (`pow2`, `HashOver`) are shown to
exist by their approximations up to `n`.

### Only model-checked

The liveness properties, since liveness under fairness is out of the prover's
reach: `EveryClientServed`, `ServedIsClosed`, `SomeClientFinishes`, `AskingEnds`,
`BlockIsPublished`, and that verification ends (`CountsIntact`). The six
violations are counterexamples of TLC. `Timestamp` has no property that holds.

## Observations without a run

Facts the models show in passing:

* The mutex is free until the message thread, once connected, takes it: the P2P
  server may find the block "ready" before it exists. It then sends zero bytes
  (`AcceptedWasCreated`).
* If the puzzle thread cannot be created, the block is published all the same, with
  nonce 0, and `block_process.c:68` prints that the puzzle has been solved.
  `ReceivedIsAsMade` states what such a block is. A nonce of 0 may happen to solve
  the puzzle or not.
* An answer may fail to parse and end the server once a client has finished. With
  three clients served at once it takes a descriptor that was closed and given to
  the next client while an answer on it was still unparsed. With two clients TLC
  finds no such behaviour. `AnswersAreParsed` and `ServerStaysUp` say when it cannot
  happen.
* A block records difficulty 0 although three zero bytes are required, and
  carries the hash of the root the puzzle was solved for, not the root.
* If the message thread cannot connect, `main` releases the buffers, the socket and
  the ring while the detached worker still uses them; `UsedIsReady` says that this
  is the only such case and that no block is lost in it.
* The scratch message of a descriptor is addressed with an index that is scaled
  twice. Memory layout is not modelled.

## Not modelled

Code generated by protoc, whose effect is in `SignedMessages`, `Sockets` and
`PeerLinks`; logging and hex dumps, pure output; `serdes/main.c`, a
demonstration that is not built; the header-only `zlog.h`; the deployment files;
of the unit tests those that call libsodium. `kill_thread_p2p` is never set, so
the branches that test it are left out. A message split over two reads, the
exhaustion of descriptors, and clients that reconnect. libsodium, protobuf-c,
liburing and the kernel are external and modelled by what the code uses of them.

## Running

    tlc -config served_in_turn.cfg MCExchange
    tlc -config client_block.cfg ClientBlock
    tlapm DistributionProofs.tla

A run takes at most two minutes, the proofs of a module one to fifteen minutes.
