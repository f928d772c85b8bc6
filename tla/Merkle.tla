-------------------------------- MODULE Merkle --------------------------------
(***************************************************************************)
(* The Merkle tree of a block: calc_merkle_tree (client/block_process.c,   *)
(* networking/connection_handlers.c) with the layers of                    *)
(* block_data/layering.c and the nodes of hashing/hashing.c, and the       *)
(* verification of every message that follows (client/setup_client.c,      *)
(* tests/tests.c) with merkle_verify_message (block_data/merkle_process.c).*)
(*                                                                         *)
(* BLAKE2b is external: a hash is the term it was computed from, so that   *)
(* two hashes are equal only if their inputs are.                          *)
(***************************************************************************)
EXTENDS Integers

CONSTANT EXPONENT  \* the tree has 2^EXPONENT messages (setup_client.c: 9)

ASSUME MerkleAssumption == EXPONENT \in Nat \ {0, 1}

VARIABLES
  msg_arr,     \* the messages in memory; the tree points to them
  layers,      \* the layers built so far, the root's is layer 0
  ver_result,  \* messages verified
  verifying    \* "no", "yes" or "done"

vars == <<msg_arr, layers, ver_result, verifying>>

\* The powers of two, as a function the proofs can unfold.
pow2[n \in Nat] == IF n = 0 THEN 1 ELSE 2 * pow2[n - 1]

Indices == 0 .. pow2[EXPONENT] - 1

\* A message is its number and whether it is the one that was signed.
Signed(i) == <<i, "signed">>
Wrong(i) == <<i, "wrong">>

calc_hash(msg) == <<"message", msg>>
merge_2hashses(h1, h2) == <<h1, h2>>

\* A node: its hash and the places of what it points to, two messages or two
\* nodes of the layer below.
create_hpoint_message(i, j) ==
  [hash |-> merge_2hashses(calc_hash(msg_arr[i]), calc_hash(msg_arr[j])),
   hpoint1 |-> i, hpoint2 |-> j]
create_hpoint_hashG(below, i, j) ==
  [hash |-> merge_2hashses(below[i].hash, below[j].hash), hpoint1 |-> i, hpoint2 |-> j]

\* Mutant: neighbouring nodes overlap.
create_overlapping_layer(n, below) ==
  [k \in 0 .. n \div 2 - 1 |-> create_hpoint_hashG(below, k, k + 1)]

\* The layer above n messages, or above a layer of n nodes.
process_s_messagesV2(n) ==
  [k \in 0 .. n \div 2 - 1 |-> create_hpoint_message(2 * k, 2 * k + 1)]
create_a_h_layer(n, below) ==
  [k \in 0 .. n \div 2 - 1 |-> create_hpoint_hashG(below, 2 * k, 2 * k + 1)]

\* The number of the topmost layer built.
Top == CHOOSE k \in DOMAIN layers : \A j \in DOMAIN layers : k <= j

\* Mutant: the layers below are lost.
ReplaceLayers(k, layer) == layers' = [j \in {k} |-> layer]

\* Layer k is built on top of the others.
AddLayer(k, layer) ==
  layers' = [j \in k .. EXPONENT - 1 |-> IF j = k THEN layer ELSE layers[j]]

\* Mutant: odd and even nodes confused.
BaseMatchesOther(node) ==
  LET base == layers[EXPONENT - 1]
      parent == layers[EXPONENT - 2][node \div 2]
      child == IF node % 2 = 1 THEN parent.hpoint1 ELSE parent.hpoint2
  IN  merge_2hashses(calc_hash(msg_arr[base[node].hpoint1]),
                     calc_hash(msg_arr[base[node].hpoint2])) = base[child].hash

\* merkle_verify_message returns 0 if the hash of the message and the one it
\* is paired with is not the one their node was built with. Otherwise it
\* climbs from layer EXPONENT - 2: a node and its neighbour that do not give
\* their parent's hash end it with 1, and only the root's own hash with 0.
BaseMatches(node) ==
  LET base == layers[EXPONENT - 1]
      parent == layers[EXPONENT - 2][node \div 2]
      child == IF node % 2 = 0 THEN parent.hpoint1 ELSE parent.hpoint2
  IN  merge_2hashses(calc_hash(msg_arr[base[node].hpoint1]),
                     calc_hash(msg_arr[base[node].hpoint2])) = base[child].hash
LevelMatches(i, n) ==
  LET left == IF n % 2 = 1 THEN n - 1 ELSE n
  IN  merge_2hashses(layers[i][left].hash, layers[i][left + 1].hash)
        = layers[i - 1][n \div 2].hash
RootMatches ==
  LET root == layers[0][0]
  IN  merge_2hashses(layers[1][root.hpoint1].hash, layers[1][root.hpoint2].hash) = root.hash

merkle_verify_message(msg_num) ==
  LET node == msg_num \div 2
  IN  /\ BaseMatches(node)
      /\ \/ RootMatches
         \/ \E i \in 1 .. EXPONENT - 2 : ~LevelMatches(i, node \div pow2[EXPONENT - 1 - i])

Init ==
  /\ msg_arr = [i \in Indices |-> Signed(i)]
  /\ layers = [k \in {} |-> 0]
  /\ ver_result = 0
  /\ verifying = "no"

BuildBase ==
  /\ DOMAIN layers = {}
  /\ AddLayer(EXPONENT - 1, process_s_messagesV2(pow2[EXPONENT]))
  /\ UNCHANGED <<msg_arr, ver_result, verifying>>

\* A turn of the loop of fill_intermediate_levels. create_a_h_layer halves
\* the number of hashes through its pointer, so what one turn leaves there the
\* next starts from: 2^Top, the size of the layer above which it builds.
FillLevel ==
  /\ DOMAIN layers # {}
  /\ Top > 0
  /\ AddLayer(Top - 1, create_a_h_layer(pow2[Top], layers[Top]))
  /\ UNCHANGED <<msg_arr, ver_result, verifying>>

\* test_mekrle_proof_WRONG overwrites a message once the tree is built.
Wreck(i) ==
  /\ 0 \in DOMAIN layers
  /\ verifying = "no"
  /\ msg_arr' = [msg_arr EXCEPT ![i] = Wrong(i)]
  /\ UNCHANGED <<layers, ver_result, verifying>>

\* Mutant: a message that fails does not end the loop.
VerifyWithoutBreak ==
  /\ 0 \in DOMAIN layers
  /\ verifying # "done"
  /\ IF ver_result \in Indices
       THEN ver_result' = ver_result + 1 /\ verifying' = "yes"
       ELSE verifying' = "done" /\ UNCHANGED ver_result
  /\ UNCHANGED <<msg_arr, layers>>

\* A turn of the verification loop: message ver_result, until one fails.
VerifyNext ==
  /\ 0 \in DOMAIN layers
  /\ verifying # "done"
  /\ IF ver_result \in Indices /\ merkle_verify_message(ver_result)
       THEN ver_result' = ver_result + 1 /\ verifying' = "yes"
       ELSE verifying' = "done" /\ UNCHANGED ver_result
  /\ UNCHANGED <<msg_arr, layers>>

Next ==
  \/ BuildBase
  \/ FillLevel
  \/ \E i \in Indices : Wreck(i)
  \/ VerifyNext

Spec == Init /\ [][Next]_vars /\ WF_vars(BuildBase \/ FillLevel \/ VerifyNext)

-------------------------------------------------------------------------------
\* Reference: row h, the hash at height h above messages n * 2^h .. (n + 1) * 2^h - 1.
HashOver[h \in Nat] ==
  [n \in Nat |-> IF h = 0 THEN calc_hash(Signed(n))
                 ELSE merge_2hashses(HashOver[h - 1][2 * n], HashOver[h - 1][2 * n + 1])]

\* Type invariant of the tree and of its verification.
TypeOK ==
  /\ msg_arr \in [Indices -> UNION {{Signed(i), Wrong(i)} : i \in Indices}]
  /\ DOMAIN layers \in {k .. EXPONENT - 1 : k \in 0 .. EXPONENT}
  /\ ver_result \in 0 .. pow2[EXPONENT]
  /\ verifying \in {"no", "yes", "done"}

\* The layers that calc_merkle_tree builds, from the messages up and by
\* halving the size each time, are those of the recursive definition of a
\* Merkle tree: 2^k nodes in layer k, in the order of the messages, each with
\* the hash over all messages below it and pointing to its two children.
LayersAreTheTree ==
  \A k \in DOMAIN layers :
    layers[k] = [n \in 0 .. pow2[k] - 1 |->
                   [hash |-> HashOver[EXPONENT - k][n], hpoint1 |-> 2 * n, hpoint2 |-> 2 * n + 1]]

\* The pair of messages i belongs to is as it was signed.
PairIntact(i) == \A j \in {2 * (i \div 2), 2 * (i \div 2) + 1} : msg_arr[j] = Signed(j)

\* merkle_verify_message accepts a message exactly if neither it nor the
\* message it is paired with has changed since the tree was built, whatever
\* happened to the others.
VerifyDetects ==
  0 \in DOMAIN layers => \A i \in Indices : merkle_verify_message(i) <=> PairIntact(i)

\* Once verification is over, as many messages are verified as precede the
\* first wrong pair, and all of them if none is wrong: the counts that
\* test_mekrle_proof_RIGHT and test_mekrle_proof_WRONG expect.
CountIsRight ==
  verifying = "done" =>
    /\ \A i \in 0 .. ver_result - 1 : PairIntact(i)
    /\ ver_result \in Indices => ver_result % 2 = 0 /\ ~PairIntact(ver_result)

\* Verification always ends, with the right count.
CountsIntact == <>[](verifying = "done" /\ CountIsRight)
===============================================================================
