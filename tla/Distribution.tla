---------------------------- MODULE Distribution ----------------------------
(***************************************************************************)
(* What the message server promises its clients, without sockets, rings or *)
(* counters: it makes one block of messages, once, and hands it to every   *)
(* client, message by message and in order, until a first client has the   *)
(* whole block. What it promises afterwards depends on whether clients are *)
(* served at the same time.                                                *)
(***************************************************************************)
EXTENDS Naturals, Sequences

CONSTANTS
  Clients,
  SIZE,       \* slots of the log
  BLOCKSIZE   \* messages of a block

VARIABLES
  log,        \* the messages made, by slot: 0 while the slot is empty
  got,        \* the messages each client has
  finished    \* a client has its block, and the server knows

vars == <<log, got, finished>>

Slots == 0 .. SIZE - 1

\* One message is made before any client comes.
Init ==
  /\ log = [i \in Slots |-> IF i = 0 THEN 1 ELSE 0]
  /\ got = [c \in Clients |-> <<>>]
  /\ finished = FALSE

\* The next message is made: the slots are loaded once, from the first on.
Make ==
  /\ ~finished
  /\ \E n \in Slots :
       /\ \A i \in Slots : log[i] = 0 <=> i >= n
       /\ log' = [log EXCEPT ![n] = n + 1]
  /\ UNCHANGED <<got, finished>>

\* Client c gets the message of slot n.
Get(c, n) ==
  /\ n \in Slots /\ log[n] # 0
  /\ Len(got[c]) < BLOCKSIZE
  /\ got' = [got EXCEPT ![c] = Append(@, log[n])]
  /\ UNCHANGED <<log, finished>>

Finish ==
  /\ ~finished
  /\ \E c \in Clients : Len(got[c]) = BLOCKSIZE
  /\ finished' = TRUE
  /\ UNCHANGED <<log, got>>

\* Served one at a time, clients get the messages in order for ever...
InOrder(c) == Get(c, Len(got[c]))

OrderedNext == Make \/ Finish \/ \E c \in Clients : InOrder(c)

OrderedSpec == Init /\ [][OrderedNext]_vars

\* ... and otherwise until the first has finished; from then on a client still
\* gets messages of the same block, but maybe one of them twice.
AnyOrder(c) == finished /\ \E n \in Slots : Get(c, n)

Next == OrderedNext \/ \E c \in Clients : AnyOrder(c)

Spec == Init /\ [][Next]_vars
=============================================================================
