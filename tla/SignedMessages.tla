--------------------------- MODULE SignedMessages ---------------------------
(***************************************************************************)
(* What is inside a message: how the server signs it (misc/misc.c,         *)
(* accounts/acc_utils.c), keeps it in its buffer (CircBuf), packs it or a  *)
(* bare status (serdes/serdes.c, networking/ipcmessages.c), and what the   *)
(* client's parser makes of all that one recv returns                      *)
(* (client/ipc_messages_client.c). The models of the exchange take a       *)
(* message for a whole, a batch for its last message and the loop of       *)
(* GET_nth_circ_buf for one step; this one has the fields and the loop,    *)
(* and uses the buffer in any order.                                       *)
(*                                                                         *)
(* libsodium and protobuf-c are external. A key pair is a number; what it  *)
(* signs names it. A packed message is a record of the fields it has, and  *)
(* the parser, which finds no border between two packed messages, merges   *)
(* them field by field. The timestamp is left out: nothing reads it, and   *)
(* in the server's bare statuses it is an uninitialised array.             *)
(***************************************************************************)
EXTENDS CircBuf, Sequences

CONSTANTS
  MAX_MADE,   \* bound: messages the server generates
  PENDING,    \* bound: packed messages on their way
  BLOCKSIZE   \* slots of the client's msg_arr

ASSUME SignedAssumption == {MAX_MADE, PENDING, BLOCKSIZE} \subseteq Nat

VARIABLES
  CBUF,       \* the server's buffer
  generated,  \* the signed message of each serial number
  pending,    \* packed messages on their way to the client
  msg_arr,    \* the client's slots
  count       \* ... of which so many are filled

vars == <<CBUF, generated, pending, msg_arr, count>>

-----------------------------------------------------------------------------
\* crypto_sign and crypto_sign_open.
crypto_sign(text, sk) == [text |-> text, by |-> sk]
crypto_sign_open(message, pk) == message.by = pk

\* signed_message_t. A slot that calloc has cleared is signed by nobody.
Signed(message, pk) == [message |-> message, public_key |-> pk]
Cleared == Signed(crypto_sign(0, 0), 0)
SignedMessage == [message : [text : Nat, by : Nat], public_key : Nat]

sign_a_message(text, sk) == Signed(crypto_sign(text, sk), 0)
put_a_PK(msg, pk) == [msg EXCEPT !.public_key = pk]

\* Mutant: the message goes without its key.
get_a_msg_no_PK(text, keys) == sign_a_message(text, keys.sk)

ls_get_a_signed_msg(text, keys) == put_a_PK(sign_a_message(text, keys.sk), keys.pk)
validate_a_message(msg, pk) == crypto_sign_open(msg.message, pk)

\* crypto_sign_keypair gives a pair that was not given before.
create_key_pair(n) == [sk |-> n, pk |-> n]

\* Mutant: the message is packed without its key.
SerializeNoKey(msg) ==
  [status_code |-> "MESSAGE_SENDED", transaction_msg |-> msg.message]

serialize_data_v2(msg) ==
  [status_code |-> "MESSAGE_SENDED", transaction_msg |-> msg.message,
   pubkey |-> msg.public_key]

Statuses == {"ASK_NEED_MSG", "ALL_BLOCK_MSG_SENDED"}
send_ONLY_status_code(st) == [status_code |-> st]

\* A packed message has the fields that were set.
Packed ==
  [status_code : Statuses]
    \cup [status_code : {"MESSAGE_SENDED"}, transaction_msg : [text : Nat, by : Nat], pubkey : Nat]

\* ipc_message__unpack: a field that comes again replaces what it was.
ipc_message__unpack(batch) ==
  LET has(field) == {i \in DOMAIN batch : field \in DOMAIN batch[i]}
      last(field) == CHOOSE i \in has(field) : \A j \in has(field) : j <= i
  IN  [field \in UNION {DOMAIN batch[i] : i \in DOMAIN batch} |-> batch[last(field)][field]]

\* deserialize_data_from_server: the slot keeps what the message does not have.
deserialize_data_from_server(message, slot) ==
  Signed(IF "transaction_msg" \in DOMAIN message THEN message.transaction_msg ELSE slot.message,
         IF "pubkey" \in DOMAIN message THEN message.pubkey ELSE slot.public_key)

-----------------------------------------------------------------------------
\* Type invariant of the messages.
TypeOK ==
  /\ CBUF \in CircBufs /\ CBUF.made = Len(generated)
  /\ generated \in Seq(SignedMessage)
  /\ pending \in Seq(Packed) /\ Len(pending) <= PENDING
  /\ msg_arr \in [1 .. BLOCKSIZE -> SignedMessage]
  /\ count \in 0 .. BLOCKSIZE

Init ==
  /\ CBUF = create_circ_buf
  /\ generated = <<>>
  /\ pending = <<>>
  /\ msg_arr = [i \in 1 .. BLOCKSIZE |-> Cleared]
  /\ count = 0

\* The buffer becomes cbuf; for each message made for it there is a new key
\* pair and a random text (equal or not to another).
Becomes(cbuf) ==
  /\ cbuf.made <= MAX_MADE
  /\ CBUF' = cbuf
  /\ \E text \in 1 .. 2 :
       generated' = [n \in 1 .. cbuf.made |->
                       IF n <= Len(generated) THEN generated[n]
                       ELSE ls_get_a_signed_msg(text, create_key_pair(n))]

Push ==
  /\ Becomes(PUSH_msg_circ_buf(CBUF))
  /\ UNCHANGED <<pending, msg_arr, count>>

\* The message of slot n is fetched, packed and sent. The server does so only
\* for a slot that then is loaded (BufferNeverFails of MessageExchange).
SendMessage(n) ==
  /\ Len(pending) < PENDING
  /\ GET_nth_terminates(CBUF, n)
  /\ Becomes(GET_nth_circ_buf(CBUF, n))
  /\ Loaded(CBUF', n)
  /\ pending' = Append(pending, serialize_data_v2(generated'[CBUF'.buffer[n]]))
  /\ UNCHANGED <<msg_arr, count>>

SendStatus ==
  /\ Len(pending) < PENDING
  /\ \E st \in Statuses : pending' = Append(pending, send_ONLY_status_code(st))
  /\ UNCHANGED <<CBUF, generated, msg_arr, count>>

\* FINISH_SENDING sets fill_size to 0.
Reset ==
  /\ CBUF' = [CBUF EXCEPT !.fill_size = 0]
  /\ UNCHANGED <<generated, pending, msg_arr, count>>

\* Mutant: the client does not stop when its block is full.
ReceiveOn ==
  /\ pending # <<>>
  /\ pending' = <<>>
  /\ LET message == ipc_message__unpack(pending)
     IN  IF message.status_code = "MESSAGE_SENDED"
           THEN /\ msg_arr' = [i \in 1 .. BLOCKSIZE |->
                                 IF i = count + 1
                                   THEN deserialize_data_from_server(message, msg_arr[i])
                                   ELSE msg_arr[i]]
                /\ count' = count + 1
           ELSE UNCHANGED <<msg_arr, count>>
  /\ UNCHANGED <<CBUF, generated>>

\* The client's recv returns all that is pending, and the parser reads it once
\* for the status and, if that is MESSAGE_SENDED, again for the message.
Receive ==
  /\ pending # <<>> /\ count < BLOCKSIZE
  /\ pending' = <<>>
  /\ LET message == ipc_message__unpack(pending)
     IN  IF message.status_code = "MESSAGE_SENDED"
           THEN /\ msg_arr' = [msg_arr EXCEPT ![count + 1] =
                                 deserialize_data_from_server(message, @)]
                /\ count' = count + 1
           ELSE UNCHANGED <<msg_arr, count>>
  /\ UNCHANGED <<CBUF, generated>>

Next ==
  \/ Push
  \/ \E n \in Slots : SendMessage(n)
  \/ SendStatus
  \/ Reset
  \/ Receive

Spec == Init /\ [][Next]_vars

-----------------------------------------------------------------------------
\* A message the client stores is one the server generated, with its own key,
\* under which it validates: a batch of several packed messages never leaves
\* the text of one beside the key of another.
StoredValidates ==
  \A i \in 1 .. count :
    /\ \E j \in DOMAIN generated : msg_arr[i] = generated[j]
    /\ validate_a_message(msg_arr[i], msg_arr[i].public_key)

\* The buffers the do-while loop returns within k turns: one or, if it has
\* not ended by then, none.
PushUntil(b, n, k) ==
  LET pushed[i \in 0 .. k] == IF i = 0 THEN b ELSE PUSH_msg_circ_buf(pushed[i - 1])
      ends == {i \in 1 .. k : n + 1 = pushed[i].fill_size}
  IN  {pushed[i] : i \in {j \in ends : \A h \in ends : j <= h}}

\* GET_nth_circ_buf and GET_nth_terminates, which the server's model uses,
\* are the loop: fill_size comes round every CIRC_BUF_SIZE + 1 pushes, so the
\* loop ends within that many turns or never. Also for n one past the end.
GetNthIsTheLoop ==
  \A n \in 0 .. CIRC_BUF_SIZE :
    (IF n > cur_last_msg_serial(CBUF) THEN PushUntil(CBUF, n, CIRC_BUF_SIZE + 1) ELSE {CBUF})
      = (IF GET_nth_terminates(CBUF, n) THEN {GET_nth_circ_buf(CBUF, n)} ELSE {})

\* The slots below fill_size hold distinct live messages. So clean_circ_buf,
\* called when all slots count as filled, never frees a message twice,
\* although it leaves the pointers it has freed in the buffer.
FilledAreLive ==
  \A i, j \in 0 .. CBUF.fill_size - 1 :
    /\ Loaded(CBUF, i)
    /\ CBUF.buffer[i] = CBUF.buffer[j] => i = j

\* The inductive invariant of the messages: a slot holds a message that was
\* made, and only such are freed; a generated message validates under its own
\* key; what is on its way is a bare status or a message the server generated.
SignedInv ==
  /\ TypeOK /\ FilledAreLive /\ StoredValidates
  /\ CBUF.freed \subseteq 1 .. CBUF.made
  /\ \A i \in Slots : CBUF.buffer[i] <= CBUF.made
  /\ \A j \in DOMAIN generated : validate_a_message(generated[j], generated[j].public_key)
  /\ \A i \in DOMAIN pending :
       pending[i].status_code = "MESSAGE_SENDED" =>
         \E j \in DOMAIN generated : pending[i] = serialize_data_v2(generated[j])
=============================================================================
