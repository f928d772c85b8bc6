------------------------------ MODULE CircBuf ------------------------------
(***************************************************************************)
(* The server's message buffer: circ_buf_t and the functions of            *)
(* networking/data_handlers.c, as operators on a value                     *)
(*                                                                         *)
(*   buffer     the slots: NULL (0) or the serial number of a message      *)
(*   fill_size  the next slot to load                                      *)
(*   made       how many messages ls_get_a_signed_msg has generated: each  *)
(*              call returns a message no other call has returned          *)
(*   freed      the messages destroy_signed_message has released; a slot   *)
(*              still holding one is a dangling pointer                    *)
(***************************************************************************)
EXTENDS Integers

CONSTANTS
  CIRC_BUF_SIZE,  \* slots of the buffer (data_handlers.c: 512)
  SIZE_MOD        \* size_t arithmetic is modulo this (2^64)

ASSUME CircBufAssumption ==
  /\ CIRC_BUF_SIZE \in Nat \ {0}
  /\ SIZE_MOD \in Nat
  /\ SIZE_MOD > CIRC_BUF_SIZE

NULL == 0

Slots == 0 .. CIRC_BUF_SIZE - 1

CircBufs ==
  [buffer : [Slots -> Nat], fill_size : 0 .. CIRC_BUF_SIZE, made : Nat, freed : SUBSET Nat]

create_circ_buf ==
  [buffer |-> [i \in Slots |-> NULL], fill_size |-> 0, made |-> 0, freed |-> {}]

\* Reading slot i yields a message that is still allocated.
Loaded(cbuf, i) ==
  i \in Slots /\ cbuf.buffer[i] # NULL /\ cbuf.buffer[i] \notin cbuf.freed

\* clean_circ_buf frees every message and leaves the pointers in the slots.
clean_circ_buf(cbuf) ==
  [cbuf EXCEPT !.freed = @ \cup ({cbuf.buffer[i] : i \in Slots} \ {NULL})]

\* Mutant: a full buffer is cleaned and its size not reset.
PUSH_keeps_fill_size(cbuf) ==
  IF cbuf.fill_size = CIRC_BUF_SIZE
    THEN [clean_circ_buf(cbuf) EXCEPT !.made = @ + 1]
    ELSE [cbuf EXCEPT !.buffer = [@ EXCEPT ![cbuf.fill_size] = cbuf.made + 1],
                      !.fill_size = @ + 1,
                      !.made = @ + 1]

\* A message is generated before the test for a full buffer, and lost if full.
PUSH_msg_circ_buf(cbuf) ==
  IF cbuf.fill_size = CIRC_BUF_SIZE
    THEN [clean_circ_buf(cbuf) EXCEPT !.fill_size = 0, !.made = @ + 1]
    ELSE [cbuf EXCEPT !.buffer = [@ EXCEPT ![cbuf.fill_size] = cbuf.made + 1],
                      !.fill_size = @ + 1,
                      !.made = @ + 1]

\* Mutants: fill_size - 1 in signed arithmetic; the last message off by one.
signed_last_msg_serial(cbuf) == cbuf.fill_size - 1
next_msg_serial(cbuf) == cbuf.fill_size % SIZE_MOD

\* fill_size - 1 in size_t: the largest size_t when nothing is counted.
cur_last_msg_serial(cbuf) == (cbuf.fill_size - 1) % SIZE_MOD

\* Mutant: slot CIRC_BUF_SIZE taken for a slot.
GET_nth_one_past(cbuf, n) == n > cur_last_msg_serial(cbuf) => n \in 0 .. CIRC_BUF_SIZE

\* GET_nth_circ_buf pushes until slot n is the last one filled. The loop ends
\* only if n is a slot: past the end every push that finds the buffer full
\* empties it and n + 1 is never reached.
GET_nth_terminates(cbuf, n) == n > cur_last_msg_serial(cbuf) => n \in Slots

\* The buffer once GET_nth_circ_buf has returned: the pushes of the loop in
\* one step (GetNthIsTheLoop compares it with the loop).
GET_nth_circ_buf(cbuf, n) ==
  IF n > cur_last_msg_serial(cbuf)
    THEN [cbuf EXCEPT
            !.buffer = [i \in Slots |->
                          IF i \in cbuf.fill_size .. n
                            THEN cbuf.made + 1 + (i - cbuf.fill_size)
                            ELSE cbuf.buffer[i]],
            !.fill_size = n + 1,
            !.made = @ + (n + 1 - cbuf.fill_size)]
    ELSE cbuf
============================================================================
