------------------------ MODULE SignedMessagesProofs ------------------------
(***************************************************************************)
(* Proofs about the messages, for any size of the buffer and of size_t and *)
(* any bounds: what the client stores validates, the filled part of the    *)
(* buffer is live, and GET_nth_circ_buf, one step in the models, is the    *)
(* loop of the code.                                                       *)
(***************************************************************************)
EXTENDS SignedMessages, SequenceTheorems, WellFoundedInduction, TLAPS

\* A non-empty set of natural numbers has a least element.
LEMMA LeastNatural ==
  ASSUME NEW T \in SUBSET Nat, T # {}
  PROVE  \E m \in T : \A k \in T : m <= k
<1>1. PICK m \in T : \A y \in T : ~(<<y, m>> \in OpToRel(<, Nat))
  BY NatLessThanWellFounded, WFMin, Zenon
<1>2. \A y \in T : ~(y < m)
  BY <1>1 DEF OpToRel
<1>. QED  BY <1>2

\* Induction, for a property given as the set of the numbers that have it.
LEMMA InductionOn ==
  ASSUME NEW S, 0 \in S, \A n \in Nat : n \in S => n + 1 \in S
  PROVE  \A n \in Nat : n \in S
<1>1. SUFFICES ASSUME Nat \ S # {}  PROVE FALSE
  OBVIOUS
<1>2. PICK m \in Nat \ S : \A k \in Nat \ S : m <= k
  BY <1>1, LeastNatural
<1>3. m # 0 /\ m - 1 \in Nat /\ m - 1 + 1 = m
  BY <1>2
<1>4. m - 1 \in S
  BY <1>2, <1>3
<1>. QED  BY <1>2, <1>3, <1>4

-----------------------------------------------------------------------------
\* fill_size - 1 in size_t.
LEMMA LastSerial ==
  ASSUME NEW b \in CircBufs
  PROVE  /\ cur_last_msg_serial(b) = IF b.fill_size = 0 THEN SIZE_MOD - 1 ELSE b.fill_size - 1
         /\ b.fill_size \in 0 .. CIRC_BUF_SIZE
         /\ b.made \in Nat
         /\ b.buffer \in [Slots -> Nat]
         /\ b.freed \in SUBSET Nat
<1>1. /\ b.fill_size \in 0 .. CIRC_BUF_SIZE /\ b.made \in Nat
      /\ b.buffer \in [Slots -> Nat] /\ b.freed \in SUBSET Nat
  BY DEF CircBufs
<1>2. CIRC_BUF_SIZE \in Nat /\ SIZE_MOD \in Nat /\ SIZE_MOD > CIRC_BUF_SIZE
  BY CircBufAssumption
<1>3. PICK f \in Nat : f = b.fill_size /\ f <= CIRC_BUF_SIZE
  BY <1>1, <1>2
<1>4. CASE f = 0
  <2>1. -1 = (-1) * SIZE_MOD + (SIZE_MOD - 1)
    BY <1>2
  <2>2. (f - 1) % SIZE_MOD = SIZE_MOD - 1
    BY <1>2, <1>4, <2>1
  <2>. QED  BY <1>1, <1>3, <1>4, <2>2 DEF cur_last_msg_serial
<1>5. CASE f # 0
  <2>1. (f - 1) % SIZE_MOD = f - 1
    BY <1>2, <1>3, <1>5
  <2>. QED  BY <1>1, <1>3, <1>5, <2>1 DEF cur_last_msg_serial
<1>. QED  BY <1>4, <1>5

\* What PUSH_msg_circ_buf makes of the fields of a buffer.
LEMMA PushFields ==
  ASSUME NEW b \in CircBufs
  PROVE  LET p == PUSH_msg_circ_buf(b)
         IN  /\ p \in CircBufs
             /\ p.made = b.made + 1
             /\ b.fill_size = CIRC_BUF_SIZE =>
                  /\ p.fill_size = 0 /\ p.buffer = b.buffer
                  /\ p.freed = b.freed \cup ({b.buffer[i] : i \in Slots} \ {NULL})
             /\ b.fill_size # CIRC_BUF_SIZE =>
                  /\ p.fill_size = b.fill_size + 1
                  /\ p.freed = b.freed
                  /\ p.buffer = [b.buffer EXCEPT ![b.fill_size] = b.made + 1]
<1>0. /\ b.fill_size \in 0 .. CIRC_BUF_SIZE /\ b.made \in Nat
      /\ b.buffer \in [Slots -> Nat] /\ b.freed \in SUBSET Nat
  BY Zenon, LastSerial
<1>1. CASE b.fill_size = CIRC_BUF_SIZE
  <2>1. PICK f \in SUBSET Nat : f = b.freed \cup ({b.buffer[i] : i \in Slots} \ {NULL})
    BY <1>0
  <2>2. PUSH_msg_circ_buf(b) = [b EXCEPT !.freed = f, !.fill_size = 0, !.made = b.made + 1]
    <3>1. clean_circ_buf(b) = [b EXCEPT !.freed = f]
      BY <2>1 DEF clean_circ_buf
    <3>2. [b EXCEPT !.freed = f].made = b.made
      BY DEF CircBufs
    <3>. QED  BY <1>1, <3>1, <3>2 DEF PUSH_msg_circ_buf, CircBufs
  <2>3. 0 \in 0 .. CIRC_BUF_SIZE /\ b.made + 1 \in Nat
    BY <1>0, CircBufAssumption
  <2>. QED  BY <1>0, <1>1, <2>1, <2>2, <2>3 DEF CircBufs
<1>2. CASE b.fill_size # CIRC_BUF_SIZE
  <2>1. b.fill_size \in Slots /\ b.fill_size + 1 \in 0 .. CIRC_BUF_SIZE /\ b.made + 1 \in Nat
    BY <1>0, <1>2, CircBufAssumption DEF Slots
  <2>2. PICK a \in [Slots -> Nat] : a = [b.buffer EXCEPT ![b.fill_size] = b.made + 1]
    BY <1>0, <2>1
  <2>3. PUSH_msg_circ_buf(b) = [b EXCEPT !.buffer = a, !.fill_size = b.fill_size + 1,
                                         !.made = b.made + 1]
    BY <1>2, <2>2 DEF PUSH_msg_circ_buf
  <2>. QED  BY <1>0, <1>2, <2>1, <2>2, <2>3 DEF CircBufs
<1>. QED  BY <1>1, <1>2

\* ... and what GET_nth_circ_buf makes of them, when it pushes.
LEMMA GetFields ==
  ASSUME NEW b \in CircBufs, NEW n \in Slots, n > cur_last_msg_serial(b)
  PROVE  LET g == GET_nth_circ_buf(b, n)
         IN  /\ b.fill_size \in 1 .. n
             /\ g \in CircBufs
             /\ g.fill_size = n + 1
             /\ g.made = b.made + (n + 1 - b.fill_size)
             /\ g.freed = b.freed
             /\ g.buffer = [i \in Slots |-> IF i \in b.fill_size .. n
                                              THEN b.made + 1 + (i - b.fill_size)
                                              ELSE b.buffer[i]]
<1>0. /\ b.fill_size \in 0 .. CIRC_BUF_SIZE /\ b.made \in Nat
      /\ b.buffer \in [Slots -> Nat] /\ b.freed \in SUBSET Nat
      /\ cur_last_msg_serial(b) = IF b.fill_size = 0 THEN SIZE_MOD - 1 ELSE b.fill_size - 1
  BY Zenon, LastSerial
<1>1. b.fill_size \in 1 .. n /\ n + 1 \in 0 .. CIRC_BUF_SIZE
  BY <1>0, CircBufAssumption DEF Slots
<1>. DEFINE a == [i \in Slots |-> IF i \in b.fill_size .. n
                                    THEN b.made + 1 + (i - b.fill_size) ELSE b.buffer[i]]
<1>2. a \in [Slots -> Nat]
  <2>1. \A i \in Slots : (IF i \in b.fill_size .. n
                            THEN b.made + 1 + (i - b.fill_size) ELSE b.buffer[i]) \in Nat
    BY <1>0, <1>1
  <2>. QED  BY <2>1
<1>3. GET_nth_circ_buf(b, n) = [b EXCEPT !.buffer = a, !.fill_size = n + 1,
                                         !.made = b.made + (n + 1 - b.fill_size)]
  BY Zenon DEF GET_nth_circ_buf
<1>4. b.made + (n + 1 - b.fill_size) \in Nat
  BY <1>0, <1>1 DEF Slots
<1>5. /\ GET_nth_circ_buf(b, n) \in CircBufs
      /\ GET_nth_circ_buf(b, n).fill_size = n + 1
      /\ GET_nth_circ_buf(b, n).made = b.made + (n + 1 - b.fill_size)
      /\ GET_nth_circ_buf(b, n).freed = b.freed
      /\ GET_nth_circ_buf(b, n).buffer = a
  <2>. HIDE DEF a
  <2>. QED  BY <1>0, <1>1, <1>2, <1>3, <1>4 DEF CircBufs
<1>. QED  BY Zenon, <1>1, <1>5

\* A buffer as the server's functions leave it: a slot holds a message that was
\* made, only such are freed, and the slots below fill_size hold live messages,
\* no two the same.
Sound(b) ==
  /\ b \in CircBufs
  /\ b.freed \subseteq 1 .. b.made
  /\ \A i \in Slots : b.buffer[i] <= b.made
  /\ \A i \in 0 .. b.fill_size - 1 :
       i \in Slots /\ b.buffer[i] # NULL /\ b.buffer[i] \notin b.freed
  /\ \A i, j \in 0 .. b.fill_size - 1 : b.buffer[i] = b.buffer[j] => i = j

\* PUSH_msg_circ_buf, GET_nth_circ_buf and the reset of fill_size keep it so.
LEMMA PushSound ==
  ASSUME NEW b, Sound(b)  PROVE Sound(PUSH_msg_circ_buf(b))
<1>. DEFINE p == PUSH_msg_circ_buf(b)
<1>0. /\ b \in CircBufs
      /\ b.fill_size \in 0 .. CIRC_BUF_SIZE /\ b.made \in Nat
      /\ b.buffer \in [Slots -> Nat] /\ b.freed \in SUBSET Nat
  BY Zenon, LastSerial DEF Sound
<1>1. /\ p \in CircBufs
      /\ p.made = b.made + 1
      /\ b.fill_size = CIRC_BUF_SIZE =>
           /\ p.fill_size = 0 /\ p.buffer = b.buffer
           /\ p.freed = b.freed \cup ({b.buffer[i] : i \in Slots} \ {NULL})
      /\ b.fill_size # CIRC_BUF_SIZE =>
           /\ p.fill_size = b.fill_size + 1
           /\ p.freed = b.freed
           /\ p.buffer = [b.buffer EXCEPT ![b.fill_size] = b.made + 1]
  BY Zenon, <1>0, PushFields
<1>. SUFFICES Sound(p)
  OBVIOUS
<1>. HIDE DEF p
<1>2. CASE b.fill_size = CIRC_BUF_SIZE
  <2>1. \A i \in 0 .. p.fill_size - 1 : FALSE
    BY <1>1, <1>2
  <2>2. \A i \in Slots : p.buffer[i] <= p.made
    BY <1>0, <1>1, <1>2 DEF Sound
  <2>3. \A i \in Slots : b.buffer[i] # NULL => b.buffer[i] \in 1 .. b.made
    BY <1>0 DEF Sound, NULL
  <2>4. p.freed \subseteq 1 .. b.made
    BY <1>1, <1>2, <2>3 DEF Sound
  <2>5. 1 .. b.made \subseteq 1 .. p.made
    BY <1>0, <1>1
  <2>. QED  BY Zenon, <1>1, <2>1, <2>2, <2>4, <2>5 DEF Sound
<1>3. CASE b.fill_size # CIRC_BUF_SIZE
  <2>1. b.fill_size \in Slots
    BY <1>0, <1>3, CircBufAssumption DEF Slots
  <2>2. \A i \in Slots : p.buffer[i] = IF i = b.fill_size THEN b.made + 1 ELSE b.buffer[i]
    BY <1>0, <1>1, <1>3, <2>1
  <2>3. p.freed \subseteq 1 .. p.made
    BY <1>0, <1>1, <1>3 DEF Sound
  <2>4. \A i \in Slots : p.buffer[i] <= p.made
    BY <1>0, <1>1, <2>2 DEF Sound
  <2>5. \A i \in 0 .. p.fill_size - 1 :
          i \in Slots /\ (i = b.fill_size \/ i \in 0 .. b.fill_size - 1)
    BY <1>0, <1>1, <1>3, <2>1 DEF Sound, Slots
  <2>6. ASSUME NEW i \in 0 .. p.fill_size - 1
        PROVE  i \in Slots /\ p.buffer[i] # NULL /\ p.buffer[i] \notin p.freed
    <3>1. CASE i = b.fill_size
      <4>1. p.buffer[i] = b.made + 1
        BY <2>1, <2>2, <3>1
      <4>2. b.made + 1 # NULL /\ b.made + 1 \notin b.freed
        BY <1>0 DEF Sound, NULL
      <4>. QED  BY <1>1, <1>3, <2>1, <3>1, <4>1, <4>2
    <3>2. CASE i \in 0 .. b.fill_size - 1 /\ i # b.fill_size
      BY Zenon, <1>1, <1>3, <2>2, <3>2 DEF Sound
    <3>. QED  BY Zenon, <2>5, <3>1, <3>2
  <2>7. ASSUME NEW i \in 0 .. p.fill_size - 1, NEW j \in 0 .. p.fill_size - 1,
               p.buffer[i] = p.buffer[j]
        PROVE  i = j
    <3>1. \A k \in 0 .. b.fill_size - 1 : k \in Slots /\ b.buffer[k] # b.made + 1
      BY <1>0 DEF Sound
    <3>. QED  BY Zenon, <2>2, <2>5, <2>7, <3>1 DEF Sound
  <2>. QED  BY Zenon, <1>1, <2>3, <2>4, <2>6, <2>7 DEF Sound
<1>. QED  BY Zenon, <1>2, <1>3

LEMMA GetSound ==
  ASSUME NEW b, Sound(b), NEW n \in Slots  PROVE Sound(GET_nth_circ_buf(b, n))
<1>. DEFINE g == GET_nth_circ_buf(b, n)
<1>0. /\ b \in CircBufs
      /\ b.fill_size \in 0 .. CIRC_BUF_SIZE /\ b.made \in Nat
      /\ b.buffer \in [Slots -> Nat] /\ b.freed \in SUBSET Nat
  BY Zenon, LastSerial DEF Sound
<1>1. CASE ~(n > cur_last_msg_serial(b))
  BY <1>1 DEF GET_nth_circ_buf
<1>2. CASE n > cur_last_msg_serial(b)
  <2>1. /\ b.fill_size \in 1 .. n
        /\ g \in CircBufs
        /\ g.fill_size = n + 1
        /\ g.made = b.made + (n + 1 - b.fill_size)
        /\ g.freed = b.freed
        /\ g.buffer = [i \in Slots |-> IF i \in b.fill_size .. n
                                         THEN b.made + 1 + (i - b.fill_size)
                                         ELSE b.buffer[i]]
    BY Zenon, <1>0, <1>2, GetFields
  <2>. SUFFICES Sound(g)
    OBVIOUS
  <2>. HIDE DEF g
  <2>2. n \in Nat /\ g.made \in Nat /\ g.made > b.made /\ \A i \in 0 .. n : i \in Slots
    <3>1. n \in Nat /\ \A i \in 0 .. n : i \in Slots
      BY CircBufAssumption DEF Slots
    <3>2. g.made \in Nat /\ g.made > b.made
      BY <1>0, <2>1, <3>1
    <3>. QED  BY Zenon, <3>1, <3>2
  <2>3. \A i \in Slots : g.buffer[i] = IF i \in b.fill_size .. n
                                         THEN b.made + 1 + (i - b.fill_size)
                                         ELSE b.buffer[i]
    BY <2>1
  <2>4. g.freed \subseteq 1 .. g.made
    BY <1>0, <2>1, <2>2 DEF Sound
  <2>5. \A i \in Slots : g.buffer[i] <= g.made
    <3>1. \A i \in Slots : i \in Nat /\ b.buffer[i] \in Nat /\ b.buffer[i] <= b.made
      BY <1>0, CircBufAssumption DEF Sound, Slots
    <3>. QED  BY <1>0, <2>1, <2>2, <2>3, <3>1
  <2>6. \A i \in 0 .. g.fill_size - 1 :
          /\ i \in Slots
          /\ \/ i \in b.fill_size .. n /\ g.buffer[i] = b.made + 1 + (i - b.fill_size)
             \/ i \in 0 .. b.fill_size - 1 /\ g.buffer[i] = b.buffer[i]
    BY <1>0, <2>1, <2>2, <2>3
  <2>7. \A i \in b.fill_size .. n : /\ b.made + 1 + (i - b.fill_size) > b.made
                                    /\ b.made + 1 + (i - b.fill_size) \in Nat
    BY <1>0, <2>1
  <2>8. \A i \in 0 .. b.fill_size - 1 : b.buffer[i] \in Nat /\ b.buffer[i] <= b.made
    BY <1>0 DEF Sound
  <2>9. ASSUME NEW i \in 0 .. g.fill_size - 1
        PROVE  i \in Slots /\ g.buffer[i] # NULL /\ g.buffer[i] \notin g.freed
    <3>1. CASE i \in b.fill_size .. n /\ g.buffer[i] = b.made + 1 + (i - b.fill_size)
      BY <1>0, <2>1, <2>6, <2>7, <3>1 DEF Sound, NULL
    <3>2. CASE i \in 0 .. b.fill_size - 1 /\ g.buffer[i] = b.buffer[i]
      BY Zenon, <2>1, <3>2 DEF Sound
    <3>. QED  BY Zenon, <2>6, <3>1, <3>2
  <2>10. ASSUME NEW i \in 0 .. g.fill_size - 1, NEW j \in 0 .. g.fill_size - 1,
                g.buffer[i] = g.buffer[j]
         PROVE  i = j
    <3>1. CASE i \in b.fill_size .. n /\ j \in b.fill_size .. n
      <4>1. b.made + 1 + (i - b.fill_size) = b.made + 1 + (j - b.fill_size)
        BY <2>2, <2>3, <2>10, <3>1, <2>6
      <4>. QED  BY <1>0, <3>1, <4>1
    <3>2. CASE i \in 0 .. b.fill_size - 1 /\ j \in 0 .. b.fill_size - 1
      BY <1>0, <2>1, <2>6, <2>10, <3>2 DEF Sound
    <3>. QED  BY <1>0, <2>6, <2>7, <2>8, <2>10, <3>1, <3>2
  <2>. QED  BY Zenon, <2>1, <2>4, <2>5, <2>9, <2>10 DEF Sound
<1>. QED  BY <1>1, <1>2

LEMMA ResetSound ==
  ASSUME NEW b, Sound(b)  PROVE Sound([b EXCEPT !.fill_size = 0])
<1>1. PICK r : r = [b EXCEPT !.fill_size = 0]
  OBVIOUS
<1>2. /\ r \in CircBufs /\ r.fill_size = 0
      /\ r.made = b.made /\ r.freed = b.freed /\ r.buffer = b.buffer
  BY <1>1, CircBufAssumption DEF Sound, CircBufs
<1>3. \A i \in 0 .. r.fill_size - 1 : FALSE
  BY <1>2
<1>4. Sound(r)
  BY Zenon, <1>2, <1>3 DEF Sound
<1>. QED  BY <1>1, <1>4

-----------------------------------------------------------------------------
\* What the parser makes of a batch: the fields of its last message.
LEMMA BatchActsAsLast ==
  ASSUME NEW batch \in Seq(Packed), batch # <<>>
  PROVE  LET last == batch[Len(batch)]
             message == ipc_message__unpack(batch)
         IN  /\ last \in Packed
             /\ \A field \in DOMAIN last : field \in DOMAIN message /\ message[field] = last[field]
<1>. DEFINE n == Len(batch)
            has(field) == {i \in DOMAIN batch : field \in DOMAIN batch[i]}
            top(field) == CHOOSE i \in has(field) : \A j \in has(field) : j <= i
            fields == UNION {DOMAIN batch[i] : i \in DOMAIN batch}
<1>1. n \in DOMAIN batch /\ n \in Nat /\ DOMAIN batch = 1 .. n /\ batch[n] \in Packed
  BY LenProperties, EmptySeq, ElementOfSeq
<1>2. ipc_message__unpack(batch) = [field \in fields |-> batch[top(field)][field]]
  BY Zenon DEF ipc_message__unpack
<1>3. ASSUME NEW field \in DOMAIN batch[n]
      PROVE  field \in fields /\ top(field) = n
  <2>1. field \in fields
    BY Zenon, <1>1, <1>3
  <2>2. n \in has(field) /\ \A j \in has(field) : j <= n
    BY <1>1, <1>3
  <2>3. \A i \in has(field) : (\A j \in has(field) : j <= i) => i = n
    BY <1>1, <2>2
  <2>. HIDE DEF has
  <2>4. top(field) \in has(field) /\ \A j \in has(field) : j <= top(field)
    BY Zenon, <2>2
  <2>. QED  BY Zenon, <2>1, <2>3, <2>4
<1>4. \A field \in DOMAIN batch[n] :
        /\ field \in DOMAIN ipc_message__unpack(batch)
        /\ ipc_message__unpack(batch)[field] = batch[n][field]
  <2>. HIDE DEF fields, top
  <2>. QED  BY <1>2, <1>3
<1>. QED  BY Zenon, <1>1, <1>4

-----------------------------------------------------------------------------
\* The part of SignedInv about the server's buffer is that it is sound.
LEMMA BufferPart ==
  ASSUME CBUF \in CircBufs
  PROVE  Sound(CBUF) <=> /\ FilledAreLive
                         /\ CBUF.freed \subseteq 1 .. CBUF.made
                         /\ \A i \in Slots : CBUF.buffer[i] <= CBUF.made
BY Zenon DEF Sound, FilledAreLive, Loaded

\* The other part: the client's slots and the messages on their way come from
\* the generated messages, all of which validate.
MessagePart ==
  /\ generated \in Seq(SignedMessage)
  /\ pending \in Seq(Packed) /\ Len(pending) <= PENDING
  /\ msg_arr \in [1 .. BLOCKSIZE -> SignedMessage]
  /\ count \in 0 .. BLOCKSIZE
  /\ StoredValidates
  /\ \A j \in DOMAIN generated : validate_a_message(generated[j], generated[j].public_key)
  /\ \A i \in DOMAIN pending :
       pending[i].status_code = "MESSAGE_SENDED" =>
         \E j \in DOMAIN generated : pending[i] = serialize_data_v2(generated[j])

LEMMA SignedParts ==
  SignedInv <=> Sound(CBUF) /\ CBUF.made = Len(generated) /\ MessagePart
<1>1. SignedInv => CBUF \in CircBufs
  BY Zenon DEF SignedInv, TypeOK
<1>2. Sound(CBUF) => CBUF \in CircBufs
  BY Zenon DEF Sound
<1>. QED  BY Zenon, <1>1, <1>2, BufferPart DEF SignedInv, TypeOK, MessagePart

LEMMA SignedPartsNext ==
  SignedInv' <=> Sound(CBUF') /\ CBUF'.made = Len(generated') /\ MessagePart'
<1>1. (SignedInv <=> Sound(CBUF) /\ CBUF.made = Len(generated) /\ MessagePart)'
  BY SignedParts, PTL
<1>. QED  BY Zenon, <1>1

\* A message ls_get_a_signed_msg returns validates under the key beside it.
LEMMA SignedIsValid ==
  ASSUME NEW text \in Nat, NEW n \in Nat
  PROVE  LET msg == ls_get_a_signed_msg(text, create_key_pair(n))
         IN  msg \in SignedMessage /\ validate_a_message(msg, msg.public_key)
BY DEF ls_get_a_signed_msg, create_key_pair, put_a_PK, sign_a_message, Signed, crypto_sign,
       SignedMessage, validate_a_message, crypto_sign_open

\* Becomes adds valid messages and changes none.
LEMMA BecomesExtends ==
  ASSUME NEW b, b.made \in Nat, Len(generated) <= b.made,
         generated \in Seq(SignedMessage),
         \A j \in DOMAIN generated : validate_a_message(generated[j], generated[j].public_key),
         Becomes(b)
  PROVE  /\ generated' \in Seq(SignedMessage) /\ Len(generated') = b.made
         /\ DOMAIN generated \subseteq DOMAIN generated'
         /\ \A j \in DOMAIN generated : generated'[j] = generated[j]
         /\ \A j \in DOMAIN generated' : validate_a_message(generated'[j], generated'[j].public_key)
<1>1. PICK text \in 1 .. 2 :
        generated' = [n \in 1 .. b.made |->
                        IF n <= Len(generated) THEN generated[n]
                        ELSE ls_get_a_signed_msg(text, create_key_pair(n))]
  BY Zenon DEF Becomes
<1>2. Len(generated) \in Nat /\ DOMAIN generated = 1 .. Len(generated)
  BY LenProperties
<1>3. \A j \in 1 .. Len(generated) : generated[j] \in SignedMessage
  BY <1>2, ElementOfSeq
<1>4. \A n \in 1 .. b.made :
        /\ n <= Len(generated) =>
             n \in DOMAIN generated /\ generated'[n] = generated[n]
        /\ ~(n <= Len(generated)) =>
             generated'[n] = ls_get_a_signed_msg(text, create_key_pair(n))
  BY <1>1, <1>2
<1>5. text \in Nat /\ \A n \in 1 .. b.made : n \in Nat
  OBVIOUS
<1>6. \A n \in 1 .. b.made :
        /\ generated'[n] \in SignedMessage
        /\ validate_a_message(generated'[n], generated'[n].public_key)
  BY Zenon, <1>2, <1>3, <1>4, <1>5, SignedIsValid
<1>7. DOMAIN generated' = 1 .. b.made
  BY Zenon, <1>1
<1>8. generated' \in [1 .. b.made -> SignedMessage]
  <2>1. generated' = [n \in 1 .. b.made |-> generated'[n]]
    BY Zenon, <1>1
  <2>. QED  BY <1>6, <2>1
<1>9. generated' \in Seq(SignedMessage) /\ Len(generated') = b.made
  BY <1>8, IsASeq, LenProperties, <1>7
<1>10. DOMAIN generated \subseteq DOMAIN generated' /\ \A j \in DOMAIN generated : j \in 1 .. b.made
                                                             /\ j <= Len(generated)
  BY <1>2, <1>7
<1>. QED  BY Zenon, <1>4, <1>6, <1>7, <1>9, <1>10

\* What was stored or sent stays one of the generated messages when there are
\* more of them.
LEMMA MessagesStay ==
  ASSUME MessagePart,
         generated' \in Seq(SignedMessage),
         DOMAIN generated \subseteq DOMAIN generated',
         \A j \in DOMAIN generated : generated'[j] = generated[j]
  PROVE  /\ UNCHANGED <<msg_arr, count>> => StoredValidates'
         /\ \A i \in DOMAIN pending :
              pending[i].status_code = "MESSAGE_SENDED" =>
                \E j \in DOMAIN generated' : pending[i] = serialize_data_v2(generated'[j])
<1>1. ASSUME UNCHANGED <<msg_arr, count>>  PROVE StoredValidates'
  <2>. SUFFICES ASSUME NEW i \in 1 .. count
                PROVE  /\ \E j \in DOMAIN generated' : msg_arr[i] = generated'[j]
                       /\ validate_a_message(msg_arr[i], msg_arr[i].public_key)
    BY Zenon, <1>1 DEF StoredValidates
  <2>1. StoredValidates
    BY Zenon DEF MessagePart
  <2>2. PICK j \in DOMAIN generated : msg_arr[i] = generated[j]
    BY Zenon, <2>1 DEF StoredValidates
  <2>. QED  BY Zenon, <2>1, <2>2 DEF StoredValidates
<1>2. ASSUME NEW i \in DOMAIN pending, pending[i].status_code = "MESSAGE_SENDED"
      PROVE  \E j \in DOMAIN generated' : pending[i] = serialize_data_v2(generated'[j])
  BY Zenon, <1>2 DEF MessagePart
<1>. QED  BY Zenon, <1>1, <1>2

-----------------------------------------------------------------------------
\* A packed message carries the status and, if it is MESSAGE_SENDED, the text
\* and the key of the message it was made from, which the parser puts back.
LEMMA PackedFields ==
  ASSUME NEW msg \in SignedMessage, NEW slot
  PROVE  LET p == serialize_data_v2(msg)
         IN  /\ p \in Packed
             /\ DOMAIN p = {"status_code", "transaction_msg", "pubkey"}
             /\ p.status_code = "MESSAGE_SENDED"
             /\ Signed(p.transaction_msg, p.pubkey) = msg
BY DEF serialize_data_v2, SignedMessage, Packed, Signed

LEMMA SignedInit ==
  ASSUME Init  PROVE SignedInv
<1>1. /\ CBUF = create_circ_buf /\ generated = <<>> /\ pending = <<>> /\ count = 0
      /\ msg_arr = [i \in 1 .. BLOCKSIZE |-> Cleared]
  BY Zenon DEF Init
<1>2. Sound(create_circ_buf)
  <2>1. /\ create_circ_buf \in CircBufs /\ create_circ_buf.fill_size = 0
        /\ create_circ_buf.freed = {} /\ create_circ_buf.made = 0
        /\ \A i \in Slots : create_circ_buf.buffer[i] = 0
    BY CircBufAssumption DEF create_circ_buf, CircBufs, NULL
  <2>2. \A i \in 0 .. create_circ_buf.fill_size - 1 : FALSE
    BY <2>1
  <2>3. \A i \in Slots : create_circ_buf.buffer[i] <= create_circ_buf.made
    BY <2>1
  <2>. QED  BY <2>1, <2>2, <2>3 DEF Sound
<1>3. Cleared \in SignedMessage
  BY DEF Cleared, Signed, crypto_sign, SignedMessage
<1>4. /\ generated \in Seq(SignedMessage) /\ pending \in Seq(Packed)
      /\ Len(generated) = 0 /\ Len(pending) <= PENDING
      /\ DOMAIN generated = {} /\ DOMAIN pending = {}
  BY <1>1, SignedAssumption
<1>5. /\ msg_arr \in [1 .. BLOCKSIZE -> SignedMessage]
      /\ count \in 0 .. BLOCKSIZE /\ \A i \in 1 .. count : FALSE
  BY <1>1, <1>3, SignedAssumption
<1>6. CBUF.made = Len(generated)
  BY <1>1, <1>4 DEF create_circ_buf
<1>. QED  BY Zenon, <1>1, <1>2, <1>4, <1>5, <1>6, SignedParts DEF MessagePart, StoredValidates

LEMMA PushKeeps ==
  ASSUME SignedInv, Push  PROVE SignedInv'
<1>0. Sound(CBUF) /\ CBUF.made = Len(generated) /\ MessagePart
  BY Zenon, SignedParts
<1>1. PICK b : b = PUSH_msg_circ_buf(CBUF)
  OBVIOUS
<1>2. /\ Becomes(b) /\ CBUF' = b /\ UNCHANGED <<pending, msg_arr, count>>
  BY Zenon, <1>1 DEF Push, Becomes
<1>3. Sound(b)
  BY Zenon, <1>0, <1>1, PushSound
<1>4. b.made \in Nat /\ Len(generated) <= b.made
  <2>1. CBUF \in CircBufs /\ CBUF.made \in Nat
    BY Zenon, <1>0, LastSerial DEF Sound
  <2>2. b.made = CBUF.made + 1
    BY Zenon, <1>1, <2>1, PushFields
  <2>. QED  BY <1>0, <2>1, <2>2
<1>. QED  BY Zenon, <1>0, <1>2, <1>3, <1>4, BecomesExtends, MessagesStay, SignedPartsNext
             DEF MessagePart

LEMMA ResetKeeps ==
  ASSUME SignedInv, Reset  PROVE SignedInv'
<1>0. Sound(CBUF) /\ CBUF.made = Len(generated) /\ MessagePart
  BY Zenon, SignedParts
<1>1. /\ CBUF' = [CBUF EXCEPT !.fill_size = 0]
      /\ UNCHANGED <<generated, pending, msg_arr, count>>
  BY Zenon DEF Reset
<1>2. Sound(CBUF')
  BY Zenon, <1>0, <1>1, ResetSound
<1>3. CBUF'.made = CBUF.made
  BY <1>0, <1>1 DEF Sound, CircBufs
<1>4. MessagePart'
  BY Zenon, <1>0, <1>1 DEF MessagePart, StoredValidates
<1>. QED  BY Zenon, <1>0, <1>1, <1>2, <1>3, <1>4, SignedPartsNext

\* Whatever is appended, what is on its way stays packed messages.
LEMMA PendingAppend ==
  ASSUME MessagePart, Len(pending) < PENDING,
         NEW p \in Packed, pending' = Append(pending, p)
  PROVE  /\ pending' \in Seq(Packed) /\ Len(pending') <= PENDING
         /\ \A i \in DOMAIN pending' :
              \/ i \in DOMAIN pending /\ pending'[i] = pending[i]
              \/ pending'[i] = p
<1>1. pending \in Seq(Packed) /\ Len(pending) \in Nat
  BY LenProperties DEF MessagePart
<1>2. /\ pending' \in Seq(Packed) /\ Len(pending') = Len(pending) + 1
      /\ DOMAIN pending' = 1 .. Len(pending) + 1 /\ DOMAIN pending = 1 .. Len(pending)
      /\ pending'[Len(pending) + 1] = p
      /\ \A i \in 1 .. Len(pending) : pending'[i] = pending[i]
  BY <1>1, AppendProperties, LenProperties
<1>3. Len(pending') <= PENDING
  BY <1>1, <1>2, SignedAssumption
<1>4. \A i \in 1 .. Len(pending) + 1 : i \in 1 .. Len(pending) \/ i = Len(pending) + 1
  BY <1>1
<1>. QED  BY Zenon, <1>2, <1>3, <1>4

LEMMA SendStatusKeeps ==
  ASSUME SignedInv, SendStatus  PROVE SignedInv'
<1>0. Sound(CBUF) /\ CBUF.made = Len(generated) /\ MessagePart
  BY Zenon, SignedParts
<1>1. PICK st \in Statuses : pending' = Append(pending, send_ONLY_status_code(st))
  BY Zenon DEF SendStatus
<1>2. PICK p : p = send_ONLY_status_code(st)
  OBVIOUS
<1>3. p \in Packed /\ p.status_code # "MESSAGE_SENDED"
  BY <1>2 DEF send_ONLY_status_code, Packed, Statuses
<1>4. Len(pending) < PENDING /\ UNCHANGED <<CBUF, generated, msg_arr, count>>
  BY Zenon DEF SendStatus
<1>5. /\ pending' \in Seq(Packed) /\ Len(pending') <= PENDING
      /\ \A i \in DOMAIN pending' :
           \/ i \in DOMAIN pending /\ pending'[i] = pending[i]
           \/ pending'[i] = p
  BY Zenon, <1>0, <1>1, <1>2, <1>3, <1>4, PendingAppend
<1>6. MessagePart'
  BY Zenon, <1>0, <1>3, <1>4, <1>5 DEF MessagePart, StoredValidates
<1>. QED  BY Zenon, <1>0, <1>4, <1>6, SignedPartsNext

LEMMA SendMessageKeeps ==
  ASSUME SignedInv, NEW n \in Slots, SendMessage(n)  PROVE SignedInv'
<1>0. Sound(CBUF) /\ CBUF.made = Len(generated) /\ MessagePart
  BY Zenon, SignedParts
<1>1. PICK b : b = GET_nth_circ_buf(CBUF, n)
  OBVIOUS
<1>2. /\ Becomes(b) /\ CBUF' = b /\ UNCHANGED <<msg_arr, count>>
      /\ Len(pending) < PENDING /\ Loaded(b, n)
      /\ pending' = Append(pending, serialize_data_v2(generated'[b.buffer[n]]))
  BY Zenon, <1>1 DEF SendMessage, Becomes
<1>3. Sound(b)
  BY Zenon, <1>0, <1>1, GetSound
<1>4. b.made \in Nat /\ Len(generated) <= b.made
  <2>1. CBUF \in CircBufs /\ CBUF.made \in Nat
    BY Zenon, <1>0, LastSerial DEF Sound
  <2>2. CASE n > cur_last_msg_serial(CBUF)
    <3>1. CBUF.fill_size \in 1 .. n /\ b.made = CBUF.made + (n + 1 - CBUF.fill_size)
      BY Zenon, <1>1, <2>1, <2>2, GetFields
    <3>2. n \in Nat
      BY CircBufAssumption DEF Slots
    <3>. QED  BY <1>0, <2>1, <3>1, <3>2
  <2>3. CASE ~(n > cur_last_msg_serial(CBUF))
    BY <1>0, <1>1, <2>1, <2>3 DEF GET_nth_circ_buf
  <2>. QED  BY Zenon, <2>2, <2>3
<1>5. /\ generated' \in Seq(SignedMessage) /\ Len(generated') = b.made
      /\ DOMAIN generated \subseteq DOMAIN generated'
      /\ \A j \in DOMAIN generated : generated'[j] = generated[j]
      /\ \A j \in DOMAIN generated' : validate_a_message(generated'[j], generated'[j].public_key)
  BY Zenon, <1>0, <1>2, <1>4, BecomesExtends DEF MessagePart
<1>6. PICK k \in DOMAIN generated' : k = b.buffer[n]
  <2>1. b.buffer[n] \in Nat /\ b.buffer[n] # 0 /\ b.buffer[n] <= b.made
    BY <1>2, <1>3 DEF Sound, CircBufs, Loaded, NULL
  <2>2. b.buffer[n] \in 1 .. b.made
    BY <1>4, <2>1
  <2>. QED  BY <1>5, <2>2, LenProperties
<1>7. PICK p : p = serialize_data_v2(generated'[k])
  OBVIOUS
<1>8. p \in Packed
  <2>1. generated'[k] \in SignedMessage
    BY <1>5, ElementOfSeq, LenProperties
  <2>. QED  BY Zenon, <1>7, <2>1, PackedFields
<1>9. /\ pending' \in Seq(Packed) /\ Len(pending') <= PENDING
      /\ \A i \in DOMAIN pending' :
           \/ i \in DOMAIN pending /\ pending'[i] = pending[i]
           \/ pending'[i] = p
  BY Zenon, <1>0, <1>2, <1>6, <1>7, <1>8, PendingAppend
<1>10. /\ StoredValidates'
       /\ \A i \in DOMAIN pending :
            pending[i].status_code = "MESSAGE_SENDED" =>
              \E j \in DOMAIN generated' : pending[i] = serialize_data_v2(generated'[j])
  BY Zenon, <1>0, <1>2, <1>5, MessagesStay
<1>11. \A i \in DOMAIN pending' :
         pending'[i].status_code = "MESSAGE_SENDED" =>
           \E j \in DOMAIN generated' : pending'[i] = serialize_data_v2(generated'[j])
  BY Zenon, <1>7, <1>9, <1>10
<1>12. MessagePart'
  BY Zenon, <1>0, <1>2, <1>5, <1>9, <1>10, <1>11 DEF MessagePart
<1>. QED  BY Zenon, <1>2, <1>3, <1>5, <1>12, SignedPartsNext

\* What a batch that ends in a message puts into a slot is that message.
LEMMA UnpackedMessage ==
  ASSUME SignedInv, pending # <<>>, NEW message, NEW slot,
         message = ipc_message__unpack(pending), message.status_code = "MESSAGE_SENDED"
  PROVE  \E j \in DOMAIN generated : deserialize_data_from_server(message, slot) = generated[j]
<1>0. MessagePart
  BY Zenon, SignedParts
<1>1. PICK last : last = pending[Len(pending)]
  OBVIOUS
<1>2. /\ last \in Packed
      /\ \A field \in DOMAIN last : field \in DOMAIN message /\ message[field] = last[field]
  BY Zenon, <1>0, <1>1, BatchActsAsLast DEF MessagePart
<1>3. "status_code" \in DOMAIN last
  BY <1>2 DEF Packed
<1>4. last.status_code = "MESSAGE_SENDED"
  BY <1>2, <1>3
<1>5. Len(pending) \in DOMAIN pending
  BY <1>0, LenProperties, EmptySeq DEF MessagePart
<1>6. PICK j \in DOMAIN generated : last = serialize_data_v2(generated[j])
  BY Zenon, <1>0, <1>1, <1>4, <1>5 DEF MessagePart
<1>7. generated[j] \in SignedMessage
  BY <1>0, ElementOfSeq, LenProperties DEF MessagePart
<1>8. /\ DOMAIN last = {"status_code", "transaction_msg", "pubkey"}
      /\ Signed(last.transaction_msg, last.pubkey) = generated[j]
  BY Zenon, <1>6, <1>7, PackedFields
<1>9. /\ "transaction_msg" \in DOMAIN message /\ message.transaction_msg = last.transaction_msg
      /\ "pubkey" \in DOMAIN message /\ message.pubkey = last.pubkey
  BY <1>2, <1>8
<1>. QED  BY Zenon, <1>8, <1>9 DEF deserialize_data_from_server

LEMMA ReceiveKeeps ==
  ASSUME SignedInv, Receive  PROVE SignedInv'
<1>0. Sound(CBUF) /\ CBUF.made = Len(generated) /\ MessagePart
  BY Zenon, SignedParts
<1>1. PICK message : message = ipc_message__unpack(pending)
  OBVIOUS
<1>2. /\ pending # <<>> /\ count < BLOCKSIZE /\ pending' = <<>> /\ UNCHANGED <<CBUF, generated>>
      /\ IF message.status_code = "MESSAGE_SENDED"
           THEN /\ msg_arr' = [msg_arr EXCEPT ![count + 1] =
                                 deserialize_data_from_server(message, msg_arr[count + 1])]
                /\ count' = count + 1
           ELSE UNCHANGED <<msg_arr, count>>
  BY Zenon, <1>1 DEF Receive
<1>3. pending' \in Seq(Packed) /\ Len(pending') <= PENDING /\ DOMAIN pending' = {}
  BY <1>2, SignedAssumption
<1>4. /\ msg_arr' \in [1 .. BLOCKSIZE -> SignedMessage] /\ count' \in 0 .. BLOCKSIZE
      /\ StoredValidates'
  <2>1. CASE message.status_code # "MESSAGE_SENDED"
    <3>1. msg_arr' = msg_arr /\ count' = count /\ generated' = generated
      BY Zenon, <1>2, <2>1
    <3>2. StoredValidates
      BY Zenon, <1>0 DEF MessagePart
    <3>3. StoredValidates'
      BY Zenon, <3>1, <3>2 DEF StoredValidates
    <3>. QED  BY Zenon, <1>0, <3>1, <3>3 DEF MessagePart
  <2>2. CASE message.status_code = "MESSAGE_SENDED"
    <3>1. PICK j \in DOMAIN generated :
            deserialize_data_from_server(message, msg_arr[count + 1]) = generated[j]
      <4>1. pending # <<>>
        BY Zenon, <1>2
      <4>2. \A slot : \E j \in DOMAIN generated :
                       deserialize_data_from_server(message, slot) = generated[j]
        BY Zenon, <1>1, <2>2, <4>1, UnpackedMessage
      <4>. QED  BY Zenon, <4>2
    <3>2. /\ msg_arr' = [msg_arr EXCEPT ![count + 1] = generated[j]]
          /\ count' = count + 1
      BY Zenon, <1>2, <2>2, <3>1
    <3>3. count + 1 \in 1 .. BLOCKSIZE /\ count' \in 0 .. BLOCKSIZE
      BY <1>0, <1>2, <3>2, SignedAssumption DEF MessagePart
    <3>4. generated[j] \in SignedMessage
      BY <1>0, ElementOfSeq, LenProperties DEF MessagePart
    <3>5. /\ msg_arr' \in [1 .. BLOCKSIZE -> SignedMessage]
          /\ msg_arr'[count + 1] = generated[j]
          /\ \A i \in 1 .. BLOCKSIZE : i # count + 1 => msg_arr'[i] = msg_arr[i]
      BY Zenon, <1>0, <3>2, <3>3, <3>4 DEF MessagePart
    <3>6. \A i \in 1 .. count' : i = count + 1 \/ (i \in 1 .. count /\ i \in 1 .. BLOCKSIZE
                                                     /\ i # count + 1)
      BY <1>0, <3>2, <3>3, SignedAssumption DEF MessagePart
    <3>7. StoredValidates'
      <4>1. \A i \in 1 .. count : /\ \E h \in DOMAIN generated : msg_arr[i] = generated[h]
                                  /\ validate_a_message(msg_arr[i], msg_arr[i].public_key)
        BY Zenon, <1>0 DEF MessagePart, StoredValidates
      <4>2. validate_a_message(generated[j], generated[j].public_key)
        BY Zenon, <1>0 DEF MessagePart
      <4>3. \A i \in 1 .. count' : /\ \E h \in DOMAIN generated : msg_arr'[i] = generated[h]
                                   /\ validate_a_message(msg_arr'[i], msg_arr'[i].public_key)
        BY Zenon, <3>5, <3>6, <4>1, <4>2
      <4>. QED  BY Zenon, <1>2, <4>3 DEF StoredValidates
    <3>. QED  BY Zenon, <3>3, <3>5, <3>7
  <2>. QED  BY Zenon, <2>1, <2>2
<1>5. MessagePart'
  BY Zenon, <1>0, <1>2, <1>3, <1>4 DEF MessagePart
<1>. QED  BY Zenon, <1>0, <1>2, <1>5, SignedPartsNext

-----------------------------------------------------------------------------
\* SignedInv is an invariant of the messages: the server's pushes, the sends of
\* slots and of bare statuses, the resets and the client's receives keep it.
THEOREM MessagesAreSound == Spec => []SignedInv
<1>1. Init => SignedInv
  BY SignedInit
<1>2. SignedInv /\ [Next]_vars => SignedInv'
  <2>. SUFFICES ASSUME SignedInv, [Next]_vars  PROVE SignedInv'
    OBVIOUS
  <2>1. CASE UNCHANGED vars
    BY Zenon, <2>1 DEF vars, SignedInv, TypeOK, FilledAreLive, StoredValidates
  <2>2. CASE Next
    BY Zenon, <2>2, PushKeeps, SendMessageKeeps, SendStatusKeeps, ResetKeeps, ReceiveKeeps DEF Next
  <2>. QED  BY Zenon, <2>1, <2>2
<1>. QED  BY <1>1, <1>2, PTL DEF Spec

\* The values keep their types.
THEOREM MessagesAreTyped == Spec => []TypeOK
<1>1. SignedInv => TypeOK
  BY Zenon DEF SignedInv
<1>. QED  BY <1>1, MessagesAreSound, PTL

\* What deserialize_data_from_server stores is a message the server generated
\* and validates under the key beside it.
THEOREM StoredMessagesValidate == Spec => []StoredValidates
<1>1. SignedInv => StoredValidates
  BY Zenon DEF SignedInv
<1>. QED  BY <1>1, MessagesAreSound, PTL

\* The slots of the server's buffer below fill_size hold distinct live messages.
THEOREM FilledSlotsAreLive == Spec => []FilledAreLive
<1>1. SignedInv => FilledAreLive
  BY Zenon DEF SignedInv
<1>. QED  BY <1>1, MessagesAreSound, PTL

-----------------------------------------------------------------------------
\* The turns of the do-while loop of GET_nth_circ_buf: f[i] is the buffer
\* after i pushes.
Turns(f, b, k) == f = [i \in 0 .. k |-> IF i = 0 THEN b ELSE PUSH_msg_circ_buf(f[i - 1])]

LEMMA TurnsExist ==
  ASSUME NEW b  PROVE \A k \in Nat : \E f : Turns(f, b, k)
<1>. DEFINE S == {k \in Nat : \E f : Turns(f, b, k)}
<1>1. 0 \in S
  <2>1. PICK f : f = [i \in 0 .. 0 |-> b]
    OBVIOUS
  <2>2. \A i \in 0 .. 0 : i = 0
    OBVIOUS
  <2>3. Turns(f, b, 0)
    BY <2>1, <2>2 DEF Turns
  <2>. QED  BY <2>3
<1>2. ASSUME NEW k \in Nat, k \in S  PROVE k + 1 \in S
  <2>1. PICK f : Turns(f, b, k)
    BY <1>2
  <2>2. PICK g : g = [i \in 0 .. k + 1 |-> IF i = k + 1 THEN PUSH_msg_circ_buf(f[k]) ELSE f[i]]
    OBVIOUS
  <2>3. ASSUME NEW i \in 0 .. k + 1
        PROVE  g[i] = IF i = 0 THEN b ELSE PUSH_msg_circ_buf(g[i - 1])
    <3>1. CASE i = k + 1
      <4>1. k \in 0 .. k + 1 /\ k # k + 1 /\ i - 1 = k /\ i # 0
        BY <3>1
      <4>2. g[i] = PUSH_msg_circ_buf(f[k]) /\ g[k] = f[k]
        BY Zenon, <2>2, <3>1, <4>1
      <4>. QED  BY Zenon, <4>1, <4>2
    <3>2. CASE i = 0
      <4>1. 0 \in 0 .. k /\ 0 \in 0 .. k + 1 /\ 0 # k + 1
        OBVIOUS
      <4>2. f[0] = b
        BY Zenon, <2>1, <4>1 DEF Turns
      <4>. QED  BY Zenon, <2>2, <3>2, <4>1, <4>2
    <3>3. CASE i # 0 /\ i # k + 1
      <4>1. i \in 0 .. k /\ i - 1 \in 0 .. k + 1 /\ i - 1 # k + 1
        BY <3>3
      <4>2. f[i] = PUSH_msg_circ_buf(f[i - 1])
        BY Zenon, <2>1, <3>3, <4>1 DEF Turns
      <4>. QED  BY Zenon, <2>2, <3>3, <4>1, <4>2
    <3>. QED  BY Zenon, <3>1, <3>2, <3>3
  <2>4. g = [i \in 0 .. k + 1 |-> g[i]]
    BY Zenon, <2>2
  <2>5. Turns(g, b, k + 1)
    BY Zenon, <2>3, <2>4 DEF Turns
  <2>. QED  BY <2>5
<1>. HIDE DEF S
<1>3. \A k \in Nat : k \in S
  BY Zenon, <1>1, <1>2, InductionOn
<1>. QED  BY Zenon, <1>3 DEF S

Ends(f, n, k) == {i \in 1 .. k : n + 1 = f[i].fill_size}

\* PushUntil takes the first turn that ends with fill_size at n + 1.
LEMMA PushUntilTurns ==
  ASSUME NEW b, NEW n, NEW k \in Nat
  PROVE  \E f : /\ Turns(f, b, k)
                /\ PushUntil(b, n, k) =
                     {f[i] : i \in {j \in Ends(f, n, k) : \A h \in Ends(f, n, k) : j <= h}}
<1>. DEFINE pushed == CHOOSE f : f = [i \in 0 .. k |-> IF i = 0 THEN b
                                                       ELSE PUSH_msg_circ_buf(f[i - 1])]
<1>1. Turns(pushed, b, k)
  <2>1. \E f : f = [i \in 0 .. k |-> IF i = 0 THEN b ELSE PUSH_msg_circ_buf(f[i - 1])]
    BY Zenon, TurnsExist DEF Turns
  <2>. QED  BY Zenon, <2>1 DEF Turns
<1>2. PushUntil(b, n, k) =
        {pushed[i] : i \in {j \in Ends(pushed, n, k) : \A h \in Ends(pushed, n, k) : j <= h}}
  BY Zenon DEF PushUntil, Ends
<1>. QED  BY Zenon, <1>1, <1>2

LEMMA TurnByTurn ==
  ASSUME NEW b, NEW k \in Nat, NEW f, Turns(f, b, k)
  PROVE  f[0] = b /\ \A i \in 1 .. k : i - 1 \in 0 .. k /\ f[i] = PUSH_msg_circ_buf(f[i - 1])
<1>1. 0 \in 0 .. k /\ \A i \in 1 .. k : i \in 0 .. k /\ i # 0 /\ i - 1 \in 0 .. k
  OBVIOUS
<1>. QED  BY Zenon, <1>1 DEF Turns

\* Every turn leaves a buffer.
LEMMA TurnsAreBuffers ==
  ASSUME NEW b \in CircBufs, NEW k \in Nat, NEW f, Turns(f, b, k)
  PROVE  \A i \in 0 .. k : f[i] \in CircBufs
<1>. DEFINE S == {i \in Nat : i <= k => f[i] \in CircBufs}
<1>1. 0 \in S
  BY Zenon, TurnByTurn
<1>2. ASSUME NEW i \in Nat, i \in S  PROVE i + 1 \in S
  <2>. SUFFICES ASSUME i + 1 <= k  PROVE f[i + 1] \in CircBufs
    OBVIOUS
  <2>1. i + 1 \in 1 .. k /\ i + 1 - 1 = i /\ i <= k
    OBVIOUS
  <2>2. f[i + 1] = PUSH_msg_circ_buf(f[i])
    <3>1. \A j \in 1 .. k : f[j] = PUSH_msg_circ_buf(f[j - 1])
      BY TurnByTurn
    <3>2. f[i + 1] = PUSH_msg_circ_buf(f[i + 1 - 1])
      BY <2>1, <3>1
    <3>. QED  BY <2>1, <3>2
  <2>3. f[i] \in CircBufs
    BY <1>2, <2>1
  <2>. QED  BY Zenon, <2>2, <2>3, PushFields
<1>. HIDE DEF S
<1>3. \A i \in Nat : i \in S
  BY Zenon, <1>1, <1>2, InductionOn
<1>4. \A i \in 0 .. k : i \in Nat /\ i <= k
  OBVIOUS
<1>. QED  BY Zenon, <1>3, <1>4 DEF S

\* Until slot n is filled, the i-th turn has loaded i more slots.
LEMMA TurnFields ==
  ASSUME NEW b \in CircBufs, NEW n \in Slots, b.fill_size \in 1 .. n,
         NEW k \in Nat, NEW f, Turns(f, b, k)
  PROVE  \A i \in 0 .. k : i <= n + 1 - b.fill_size =>
           /\ f[i].fill_size = b.fill_size + i
           /\ f[i].made = b.made + i
           /\ f[i].freed = b.freed
           /\ f[i].buffer = [s \in Slots |-> IF s \in b.fill_size .. b.fill_size + i - 1
                                               THEN b.made + 1 + (s - b.fill_size)
                                               ELSE b.buffer[s]]
<1>0. /\ b.fill_size \in 0 .. CIRC_BUF_SIZE /\ b.made \in Nat
      /\ b.buffer \in [Slots -> Nat] /\ b.freed \in SUBSET Nat
  BY Zenon, LastSerial
<1>. DEFINE d == n + 1 - b.fill_size
            slot(i, s) == IF s \in b.fill_size .. b.fill_size + i - 1
                            THEN b.made + 1 + (s - b.fill_size) ELSE b.buffer[s]
            P(i) == /\ f[i].fill_size = b.fill_size + i
                    /\ f[i].made = b.made + i
                    /\ f[i].freed = b.freed
                    /\ f[i].buffer = [s \in Slots |-> slot(i, s)]
            S == {i \in Nat : i <= k /\ i <= d => P(i)}
<1>1. n \in Nat /\ d \in Nat /\ b.fill_size \in Nat /\ n < CIRC_BUF_SIZE
  BY <1>0, CircBufAssumption DEF Slots
<1>2. 0 \in S
  <2>1. f[0] = b
    BY Zenon, TurnByTurn
  <2>2. b.buffer = [s \in Slots |-> b.buffer[s]]
    BY Zenon, <1>0
  <2>3. \A s \in Slots : ~(s \in b.fill_size .. b.fill_size + 0 - 1)
    BY <1>0 DEF Slots
  <2>4. \A s \in Slots : slot(0, s) = b.buffer[s]
    BY Zenon, <2>3
  <2>5. b.buffer = [s \in Slots |-> slot(0, s)]
    <3>. HIDE DEF slot
    <3>. QED  BY <2>2, <2>4
  <2>6. P(0)
    <3>. HIDE DEF slot
    <3>. QED  BY <1>0, <2>1, <2>5
  <2>. QED  BY Zenon, <2>6
<1>3. ASSUME NEW i \in Nat, i \in S  PROVE i + 1 \in S
  <2>. HIDE DEF P
  <2>0. i + 1 \in Nat
    OBVIOUS
  <2>. SUFFICES ASSUME i + 1 <= k, i + 1 <= d  PROVE P(i + 1)
    BY Zenon, <2>0
  <2>1. i + 1 \in 1 .. k /\ i + 1 - 1 = i /\ i <= k /\ i <= d /\ i \in 0 .. k
    BY <1>1
  <2>2. f[i + 1] = PUSH_msg_circ_buf(f[i])
    <3>1. \A j \in 1 .. k : f[j] = PUSH_msg_circ_buf(f[j - 1])
      BY TurnByTurn
    <3>2. f[i + 1] = PUSH_msg_circ_buf(f[i + 1 - 1])
      BY <2>1, <3>1
    <3>. QED  BY <2>1, <3>2
  <2>3. f[i] \in CircBufs
    BY Zenon, <2>1, TurnsAreBuffers
  <2>4. P(i)
    BY <1>3, <2>1
  <2>5. f[i].fill_size = b.fill_size + i /\ f[i].fill_size # CIRC_BUF_SIZE
    <3>1. f[i].fill_size = b.fill_size + i
      BY Zenon, <2>4 DEF P
    <3>. QED  BY <1>0, <1>1, <3>1
  <2>6. /\ f[i + 1].fill_size = f[i].fill_size + 1
        /\ f[i + 1].made = f[i].made + 1
        /\ f[i + 1].freed = f[i].freed
        /\ f[i + 1].buffer = [f[i].buffer EXCEPT ![f[i].fill_size] = f[i].made + 1]
    BY Zenon, <2>2, <2>3, <2>5, PushFields
  <2>7. \A s \in Slots : slot(i + 1, s) = IF s = b.fill_size + i THEN b.made + i + 1 ELSE slot(i, s)
    <3>1. \A s \in Slots : s \in Int
      BY DEF Slots
    <3>2. PICK fill \in Nat : fill = b.fill_size
      BY Zenon, <1>1
    <3>3. PICK made \in Nat : made = b.made
      BY Zenon, <1>0
    <3>. QED  BY <3>1, <3>2, <3>3
  <2>. HIDE DEF slot
  <2>8. f[i].buffer = [s \in Slots |-> slot(i, s)] /\ f[i].made = b.made + i
    BY Zenon, <2>4 DEF P
  <2>9. b.fill_size + i \in Slots
    <3>1. b.fill_size + i \in Nat /\ b.fill_size + i <= n
      BY <1>1
    <3>. QED  BY <1>1, <3>1, CircBufAssumption DEF Slots
  <2>10. f[i + 1].buffer = [s \in Slots |-> slot(i + 1, s)]
    <3>1. f[i + 1].buffer = [[s \in Slots |-> slot(i, s)] EXCEPT ![b.fill_size + i] = b.made + i + 1]
      BY Zenon, <2>5, <2>6, <2>8
    <3>2. f[i + 1].buffer = [s \in Slots |-> IF s = b.fill_size + i THEN b.made + i + 1 ELSE slot(i, s)]
      BY <2>9, <3>1
    <3>. QED  BY <2>7, <3>2
  <2>11. f[i + 1].fill_size = b.fill_size + (i + 1) /\ f[i + 1].made = b.made + (i + 1)
    BY <1>0, <1>1, <2>5, <2>6, <2>8
  <2>12. f[i + 1].freed = b.freed
    BY Zenon, <2>4, <2>6 DEF P
  <2>. QED  BY Zenon, <2>10, <2>11, <2>12 DEF P
<1>. HIDE DEF S
<1>4. \A i \in Nat : i \in S
  BY Zenon, <1>2, <1>3, InductionOn
<1>5. \A i \in 0 .. k : i \in Nat /\ i <= k
  OBVIOUS
<1>6. \A i \in 0 .. k : i <= d => P(i)
  <2>. HIDE DEF P, d
  <2>. QED  BY Zenon, <1>4, <1>5 DEF S
<1>. QED  BY Zenon, <1>6

\* Two buffers with the same fields are the same.
LEMMA SameBuffer ==
  ASSUME NEW a \in CircBufs, NEW b \in CircBufs,
         a.buffer = b.buffer, a.fill_size = b.fill_size, a.made = b.made, a.freed = b.freed
  PROVE  a = b
BY DEF CircBufs

\* The loop fills up to slot n and ends there: what it returns is what
\* GET_nth_circ_buf of the models does in one step.
LEMMA LoopReachesSlot ==
  ASSUME NEW b \in CircBufs, NEW n \in Slots, n > cur_last_msg_serial(b)
  PROVE  PushUntil(b, n, CIRC_BUF_SIZE + 1) = {GET_nth_circ_buf(b, n)}
<1>. DEFINE k == CIRC_BUF_SIZE + 1
            g == GET_nth_circ_buf(b, n)
            d == n + 1 - b.fill_size
<1>0. /\ b.fill_size \in 1 .. n
      /\ g \in CircBufs
      /\ g.fill_size = n + 1
      /\ g.made = b.made + (n + 1 - b.fill_size)
      /\ g.freed = b.freed
      /\ g.buffer = [i \in Slots |-> IF i \in b.fill_size .. n
                                       THEN b.made + 1 + (i - b.fill_size)
                                       ELSE b.buffer[i]]
  BY Zenon, GetFields
<1>1. k \in Nat /\ n \in Nat /\ b.fill_size \in Nat /\ d \in 1 .. k /\ b.fill_size + d - 1 = n
  BY <1>0, CircBufAssumption DEF Slots
<1>. HIDE DEF k, g, d
<1>2. PICK f : /\ Turns(f, b, k)
               /\ PushUntil(b, n, k) =
                    {f[i] : i \in {j \in Ends(f, n, k) : \A h \in Ends(f, n, k) : j <= h}}
  <2>1. k \in Nat
    BY Zenon, <1>1
  <2>. QED  BY <2>1, PushUntilTurns
<1>3. \A i \in 0 .. k : i <= d =>
        /\ f[i].fill_size = b.fill_size + i
        /\ f[i].made = b.made + i
        /\ f[i].freed = b.freed
        /\ f[i].buffer = [s \in Slots |-> IF s \in b.fill_size .. b.fill_size + i - 1
                                            THEN b.made + 1 + (s - b.fill_size)
                                            ELSE b.buffer[s]]
  <2>1. b.fill_size \in 1 .. n /\ k \in Nat /\ Turns(f, b, k)
    BY Zenon, <1>0, <1>1, <1>2
  <2>. QED  BY <2>1, TurnFields DEF d
<1>4. f[d] = g
  <2>1. d \in 0 .. k /\ d <= d /\ b.fill_size + d = n + 1
    BY <1>1
  <2>2. f[d] \in CircBufs
    BY Zenon, <1>1, <1>2, <2>1, TurnsAreBuffers
  <2>3. /\ f[d].fill_size = n + 1
        /\ f[d].made = b.made + d
        /\ f[d].freed = b.freed
        /\ f[d].buffer = [s \in Slots |-> IF s \in b.fill_size .. n
                                            THEN b.made + 1 + (s - b.fill_size)
                                            ELSE b.buffer[s]]
    BY Zenon, <1>1, <1>3, <2>1
  <2>4. f[d].made = g.made
    BY Zenon, <1>0, <2>3 DEF d
  <2>5. f[d].buffer = g.buffer /\ f[d].fill_size = g.fill_size /\ f[d].freed = g.freed
    BY Zenon, <1>0, <2>3
  <2>. QED  BY Zenon, <1>0, <2>2, <2>4, <2>5, SameBuffer
<1>. DEFINE ends == Ends(f, n, k)
<1>5. d \in ends
  BY Zenon, <1>0, <1>1, <1>4 DEF Ends
<1>6. \A h \in ends : d <= h
  <2>. SUFFICES ASSUME NEW h \in ends, h < d  PROVE FALSE
    BY <1>1 DEF Ends
  <2>1. h \in 0 .. k /\ h <= d /\ n + 1 = f[h].fill_size
    BY <1>1 DEF Ends
  <2>2. f[h].fill_size = b.fill_size + h
    BY Zenon, <1>3, <2>1
  <2>. QED  BY <1>1, <2>1, <2>2
<1>7. {j \in ends : \A h \in ends : j <= h} = {d}
  <2>1. \A j \in ends : (\A h \in ends : j <= h) => j = d
    BY <1>1, <1>5, <1>6
  <2>. HIDE DEF ends
  <2>. QED  BY Zenon, <1>5, <1>6, <2>1
<1>8. PushUntil(b, n, k) = {f[i] : i \in {d}}
  BY Zenon, <1>2, <1>7
<1>9. {f[i] : i \in {d}} = {f[d]}
  <2>. HIDE DEF d
  <2>. QED  BY Zenon
<1>. QED  BY Zenon, <1>4, <1>8, <1>9 DEF g, k

\* Past the last slot no turn ends the loop.
LEMMA LoopNeverEnds ==
  ASSUME NEW b \in CircBufs
  PROVE  PushUntil(b, CIRC_BUF_SIZE, CIRC_BUF_SIZE + 1) = {}
<1>. DEFINE k == CIRC_BUF_SIZE + 1
            n == CIRC_BUF_SIZE
<1>1. k \in Nat /\ CIRC_BUF_SIZE \in Nat
  BY CircBufAssumption
<1>2. PICK f : /\ Turns(f, b, k)
               /\ PushUntil(b, n, k) =
                    {f[i] : i \in {j \in Ends(f, n, k) : \A h \in Ends(f, n, k) : j <= h}}
  <2>. HIDE DEF k, n
  <2>. QED  BY Zenon, <1>1, PushUntilTurns
<1>3. \A i \in 1 .. k : f[i].fill_size # k
  <2>1. \A i \in 0 .. k : f[i].fill_size \in 0 .. CIRC_BUF_SIZE
    <3>. HIDE DEF k
    <3>. QED  BY Zenon, <1>1, <1>2, TurnsAreBuffers, LastSerial
  <2>2. \A i \in 1 .. k : i \in 0 .. k
    OBVIOUS
  <2>3. k \notin 0 .. CIRC_BUF_SIZE
    BY <1>1
  <2>. HIDE DEF k
  <2>. QED  BY Zenon, <2>1, <2>2, <2>3
<1>. HIDE DEF k
<1>4. Ends(f, n, k) = {}
  BY Zenon, <1>3 DEF Ends, k
<1>5. PushUntil(b, n, k) = {}
  BY Zenon, <1>2, <1>4
<1>. QED  BY <1>5 DEF k

\* GET_nth_circ_buf and GET_nth_terminates are the loop of the code, from every
\* buffer the server can have and for a buffer of any size.
THEOREM GetNthIsTheCodesLoop == Spec => []GetNthIsTheLoop
<1>1. SignedInv => GetNthIsTheLoop
  <2>. SUFFICES ASSUME SignedInv, NEW n \in 0 .. CIRC_BUF_SIZE
                PROVE  (IF n > cur_last_msg_serial(CBUF)
                          THEN PushUntil(CBUF, n, CIRC_BUF_SIZE + 1) ELSE {CBUF})
                         = (IF GET_nth_terminates(CBUF, n) THEN {GET_nth_circ_buf(CBUF, n)} ELSE {})
    BY Zenon DEF GetNthIsTheLoop
  <2>1. CBUF \in CircBufs
    BY Zenon DEF SignedInv, TypeOK
  <2>2. CASE ~(n > cur_last_msg_serial(CBUF))
    BY Zenon, <2>2 DEF GET_nth_terminates, GET_nth_circ_buf
  <2>3. CASE n > cur_last_msg_serial(CBUF) /\ n \in Slots
    BY Zenon, <2>1, <2>3, LoopReachesSlot DEF GET_nth_terminates
  <2>4. CASE n > cur_last_msg_serial(CBUF) /\ n \notin Slots
    <3>1. n = CIRC_BUF_SIZE
      BY <2>4, CircBufAssumption DEF Slots
    <3>. QED  BY Zenon, <2>1, <2>4, <3>1, LoopNeverEnds DEF GET_nth_terminates
  <2>. QED  BY Zenon, <2>2, <2>3, <2>4
<1>. QED  BY <1>1, MessagesAreSound, PTL

=============================================================================
