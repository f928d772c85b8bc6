---------------------------- MODULE MerkleProofs ----------------------------
(***************************************************************************)
(* Proofs about the Merkle tree, for a tree of any height: the layers are  *)
(* those of the recursive definition, verification accepts exactly the     *)
(* messages whose pair is intact, and it stops at the first that is not.   *)
(***************************************************************************)
EXTENDS Merkle, WellFoundedInduction, TLAPS

\* A non-empty set of natural numbers has a least element.
LEMMA LeastNatural ==
  ASSUME NEW T \in SUBSET Nat, T # {}
  PROVE  \E m \in T : \A k \in T : m <= k
<1>1. PICK m \in T : \A y \in T : ~(<<y, m>> \in OpToRel(<, Nat))
  BY NatLessThanWellFounded, WFMin, Zenon
<1>2. \A y \in T : ~(y < m)
  BY <1>1 DEF OpToRel
<1>. QED  BY <1>2

\* Induction, for a property given as the set of the numbers that have it.
LEMMA InductionOn ==
  ASSUME NEW S, 0 \in S, \A n \in Nat : n \in S => n + 1 \in S
  PROVE  \A n \in Nat : n \in S
<1>1. SUFFICES ASSUME Nat \ S # {}  PROVE FALSE
  OBVIOUS
<1>2. PICK m \in Nat \ S : \A k \in Nat \ S : m <= k
  BY <1>1, LeastNatural
<1>3. m # 0 /\ m - 1 \in Nat /\ m - 1 + 1 = m
  BY <1>2
<1>4. m - 1 \in S
  BY <1>2, <1>3
<1>. QED  BY <1>2, <1>3, <1>4

-----------------------------------------------------------------------------
\* The powers of two exist: powers up to k, and that any two such tables agree.
Powers(f, k) == f = [n \in 0 .. k |-> IF n = 0 THEN 1 ELSE 2 * f[n - 1]]

LEMMA PowersExist == \A k \in Nat : \E f : Powers(f, k)
<1>. DEFINE S == {k \in Nat : \E f : Powers(f, k)}
<1>1. 0 \in S
  <2>1. PICK f : f = [n \in 0 .. 0 |-> 1]
    OBVIOUS
  <2>2. \A n \in 0 .. 0 : n = 0
    OBVIOUS
  <2>3. Powers(f, 0)
    BY <2>1, <2>2 DEF Powers
  <2>. QED  BY <2>3
<1>2. ASSUME NEW k \in Nat, k \in S  PROVE k + 1 \in S
  <2>1. PICK f : Powers(f, k)
    BY <1>2
  <2>2. PICK g : g = [n \in 0 .. k + 1 |-> IF n = k + 1 THEN 2 * f[k] ELSE f[n]]
    OBVIOUS
  <2>3. ASSUME NEW n \in 0 .. k + 1  PROVE g[n] = IF n = 0 THEN 1 ELSE 2 * g[n - 1]
    <3>1. CASE n = k + 1
      <4>1. k \in 0 .. k + 1 /\ k # k + 1 /\ n - 1 = k /\ n # 0
        BY <3>1
      <4>2. g[n] = 2 * f[k] /\ g[k] = f[k]
        BY Zenon, <2>2, <3>1, <4>1
      <4>. QED  BY Zenon, <4>1, <4>2
    <3>2. CASE n = 0
      <4>1. 0 \in 0 .. k /\ 0 \in 0 .. k + 1 /\ 0 # k + 1
        OBVIOUS
      <4>2. f[0] = 1
        BY Zenon, <2>1, <4>1 DEF Powers
      <4>. QED  BY Zenon, <2>2, <3>2, <4>1, <4>2
    <3>3. CASE n # 0 /\ n # k + 1
      <4>1. n \in 0 .. k /\ n - 1 \in 0 .. k + 1 /\ n - 1 # k + 1
        BY <3>3
      <4>2. f[n] = 2 * f[n - 1]
        BY Zenon, <2>1, <3>3, <4>1 DEF Powers
      <4>. QED  BY Zenon, <2>2, <3>3, <4>1, <4>2
    <3>. QED  BY Zenon, <3>1, <3>2, <3>3
  <2>4. g = [n \in 0 .. k + 1 |-> g[n]]
    BY Zenon, <2>2
  <2>5. Powers(g, k + 1)
    BY Zenon, <2>3, <2>4 DEF Powers
  <2>. QED  BY <2>5
<1>. HIDE DEF S
<1>3. \A k \in Nat : k \in S
  BY Zenon, <1>1, <1>2, InductionOn
<1>. QED  BY Zenon, <1>3 DEF S

LEMMA PowersAgree ==
  ASSUME NEW k \in Nat, NEW f, Powers(f, k), NEW j \in Nat, NEW g, Powers(g, j)
  PROVE  \A n \in Nat : n <= k /\ n <= j => f[n] = g[n]
<1>. DEFINE S == {n \in Nat : n <= k /\ n <= j => f[n] = g[n]}
<1>1. 0 \in S
  <2>1. 0 \in 0 .. k /\ 0 \in 0 .. j
    OBVIOUS
  <2>2. f[0] = 1 /\ g[0] = 1
    BY Zenon, <2>1 DEF Powers
  <2>. QED  BY <2>2
<1>2. ASSUME NEW n \in Nat, n \in S  PROVE n + 1 \in S
  <2>1. SUFFICES ASSUME n + 1 <= k, n + 1 <= j  PROVE f[n + 1] = g[n + 1]
    OBVIOUS
  <2>2. /\ n + 1 \in 0 .. k /\ n + 1 \in 0 .. j /\ n + 1 # 0 /\ n + 1 - 1 = n
        /\ n <= k /\ n <= j
    BY <2>1
  <2>3. f[n] = g[n]
    BY <1>2, <2>2
  <2>4. f[n + 1] = 2 * f[n + 1 - 1] /\ g[n + 1] = 2 * g[n + 1 - 1]
    <3>1. /\ \A i \in 0 .. k : i # 0 => f[i] = 2 * f[i - 1]
          /\ \A i \in 0 .. j : i # 0 => g[i] = 2 * g[i - 1]
      BY Zenon DEF Powers
    <3>. QED  BY <2>2, <3>1
  <2>. QED  BY <2>2, <2>3, <2>4
<1>. HIDE DEF S
<1>3. \A n \in Nat : n \in S
  BY Zenon, <1>1, <1>2, InductionOn
<1>. QED  BY Zenon, <1>3 DEF S

LEMMA Pow2Unfolds == pow2 = [n \in Nat |-> IF n = 0 THEN 1 ELSE 2 * pow2[n - 1]]
<1>. DEFINE table(k) == CHOOSE f : Powers(f, k)
            h == [n \in Nat |-> table(n)[n]]
<1>1. \A k \in Nat : Powers(table(k), k)
  BY Zenon, PowersExist
<1>. HIDE DEF table
<1>2. ASSUME NEW n \in Nat  PROVE h[n] = IF n = 0 THEN 1 ELSE 2 * h[n - 1]
  <2>1. \A i \in 0 .. n : table(n)[i] = IF i = 0 THEN 1 ELSE 2 * table(n)[i - 1]
    BY Zenon, <1>1 DEF Powers
  <2>2. n \in 0 .. n
    OBVIOUS
  <2>3. CASE n = 0
    BY Zenon, <2>1, <2>2, <2>3
  <2>4. CASE n # 0
    <3>1. n - 1 \in Nat /\ n - 1 <= n /\ n - 1 <= n - 1
      BY <2>4
    <3>2. table(n)[n - 1] = table(n - 1)[n - 1]
      <4>1. Powers(table(n), n) /\ Powers(table(n - 1), n - 1)
        BY Zenon, <1>1, <3>1
      <4>2. \A i \in Nat : i <= n /\ i <= n - 1 => table(n)[i] = table(n - 1)[i]
        BY <3>1, <4>1, PowersAgree
      <4>. QED  BY <3>1, <4>2
    <3>. QED  BY Zenon, <2>1, <2>2, <2>4, <3>1, <3>2
  <2>. QED  BY Zenon, <2>3, <2>4
<1>3. h = [n \in Nat |-> IF n = 0 THEN 1 ELSE 2 * h[n - 1]]
  <2>1. h = [n \in Nat |-> h[n]]
    BY Zenon
  <2>. HIDE DEF h
  <2>. QED  BY Zenon, <1>2, <2>1
<1>. HIDE DEF h
<1>. QED  BY Zenon, <1>3 DEF pow2

\* 2^0 = 1 and 2^(n+1) = 2 * 2^n, all positive.
LEMMA Pow2 ==
  /\ pow2[0] = 1
  /\ \A n \in Nat : /\ pow2[n] \in Nat /\ pow2[n] > 0
                    /\ pow2[n + 1] = 2 * pow2[n]
<1>1. pow2[0] = 1
  <2>1. \A n \in Nat : pow2[n] = IF n = 0 THEN 1 ELSE 2 * pow2[n - 1]
    BY Zenon, Pow2Unfolds
  <2>. QED  BY <2>1
<1>2. \A n \in Nat : pow2[n + 1] = 2 * pow2[n]
  <2>. TAKE n \in Nat
  <2>1. \A i \in Nat : i # 0 => pow2[i] = 2 * pow2[i - 1]
    BY Zenon, Pow2Unfolds
  <2>2. n + 1 \in Nat /\ n + 1 # 0 /\ n + 1 - 1 = n
    OBVIOUS
  <2>. QED  BY <2>1, <2>2
<1>. DEFINE S == {n \in Nat : pow2[n] \in Nat /\ pow2[n] > 0}
<1>3. 0 \in S
  BY <1>1
<1>4. \A n \in Nat : n \in S => n + 1 \in S
  BY <1>2
<1>. HIDE DEF S
<1>5. \A n \in Nat : n \in S
  BY Zenon, <1>3, <1>4, InductionOn
<1>. QED  BY Zenon, <1>1, <1>2, <1>5 DEF S

-----------------------------------------------------------------------------
\* The same for the reference hashes: row h has the hashes of height h.
Rows(f, k) ==
  f = [h \in 0 .. k |-> [n \in Nat |->
         IF h = 0 THEN calc_hash(Signed(n))
                  ELSE merge_2hashses(f[h - 1][2 * n], f[h - 1][2 * n + 1])]]

LEMMA RowsExist == \A k \in Nat : \E f : Rows(f, k)
<1>. DEFINE S == {k \in Nat : \E f : Rows(f, k)}
<1>1. 0 \in S
  <2>1. PICK f : f = [h \in 0 .. 0 |-> [n \in Nat |-> calc_hash(Signed(n))]]
    OBVIOUS
  <2>2. \A h \in 0 .. 0 : h = 0
    OBVIOUS
  <2>3. Rows(f, 0)
    BY <2>1, <2>2 DEF Rows
  <2>. QED  BY <2>3
<1>2. ASSUME NEW k \in Nat, k \in S  PROVE k + 1 \in S
  <2>1. PICK f : Rows(f, k)
    BY <1>2
  <2>. DEFINE row(r) == [n \in Nat |-> merge_2hashses(r[2 * n], r[2 * n + 1])]
              first == [n \in Nat |-> calc_hash(Signed(n))]
  <2>2. PICK g : g = [h \in 0 .. k + 1 |-> IF h = k + 1 THEN row(f[k]) ELSE f[h]]
    OBVIOUS
  <2>3. \A h \in 0 .. k : f[h] = IF h = 0 THEN first ELSE row(f[h - 1])
    BY <2>1 DEF Rows
  <2>. HIDE DEF row, first
  <2>4. ASSUME NEW h \in 0 .. k + 1  PROVE g[h] = IF h = 0 THEN first ELSE row(g[h - 1])
    <3>1. CASE h = k + 1
      <4>1. k \in 0 .. k + 1 /\ k # k + 1 /\ h - 1 = k /\ h # 0
        BY <3>1
      <4>2. g[h] = row(f[k]) /\ g[k] = f[k]
        BY Zenon, <2>2, <3>1, <4>1
      <4>. QED  BY Zenon, <4>1, <4>2
    <3>2. CASE h = 0
      <4>1. 0 \in 0 .. k /\ 0 \in 0 .. k + 1 /\ 0 # k + 1
        OBVIOUS
      <4>. QED  BY Zenon, <2>2, <2>3, <3>2, <4>1
    <3>3. CASE h # 0 /\ h # k + 1
      <4>1. h \in 0 .. k /\ h - 1 \in 0 .. k + 1 /\ h - 1 # k + 1
        BY <3>3
      <4>. QED  BY Zenon, <2>2, <2>3, <3>3, <4>1
    <3>. QED  BY Zenon, <3>1, <3>2, <3>3
  <2>5. g = [h \in 0 .. k + 1 |-> g[h]]
    BY Zenon, <2>2
  <2>6. g = [h \in 0 .. k + 1 |-> IF h = 0 THEN first ELSE row(g[h - 1])]
    BY Zenon, <2>4, <2>5
  <2>7. \A h \in 0 .. k + 1 :
          (IF h = 0 THEN first ELSE row(g[h - 1])) =
            [n \in Nat |-> IF h = 0 THEN calc_hash(Signed(n))
                           ELSE merge_2hashses(g[h - 1][2 * n], g[h - 1][2 * n + 1])]
    BY DEF first, row
  <2>8. Rows(g, k + 1)
    BY Zenon, <2>6, <2>7 DEF Rows
  <2>. QED  BY <2>8
<1>. HIDE DEF S
<1>3. \A k \in Nat : k \in S
  BY Zenon, <1>1, <1>2, InductionOn
<1>. QED  BY Zenon, <1>3 DEF S

LEMMA RowOf ==
  ASSUME NEW k \in Nat, NEW f, Rows(f, k)
  PROVE  \A h \in 0 .. k : \A n \in Nat :
           f[h][n] = IF h = 0 THEN calc_hash(Signed(n))
                     ELSE merge_2hashses(f[h - 1][2 * n], f[h - 1][2 * n + 1])
<1>. TAKE h \in 0 .. k
<1>1. f[h] = [n \in Nat |-> IF h = 0 THEN calc_hash(Signed(n))
                            ELSE merge_2hashses(f[h - 1][2 * n], f[h - 1][2 * n + 1])]
  BY Zenon DEF Rows
<1>. QED  BY Zenon, <1>1

LEMMA RowsAgree ==
  ASSUME NEW k \in Nat, NEW f, Rows(f, k), NEW j \in Nat, NEW g, Rows(g, j)
  PROVE  \A h \in Nat : h <= k /\ h <= j => \A n \in Nat : f[h][n] = g[h][n]
<1>. DEFINE S == {h \in Nat : h <= k /\ h <= j => \A n \in Nat : f[h][n] = g[h][n]}
<1>0. /\ \A h \in 0 .. k : \A n \in Nat :
           f[h][n] = IF h = 0 THEN calc_hash(Signed(n))
                     ELSE merge_2hashses(f[h - 1][2 * n], f[h - 1][2 * n + 1])
      /\ \A h \in 0 .. j : \A n \in Nat :
           g[h][n] = IF h = 0 THEN calc_hash(Signed(n))
                     ELSE merge_2hashses(g[h - 1][2 * n], g[h - 1][2 * n + 1])
  BY RowOf
<1>1. 0 \in S
  <2>1. 0 \in 0 .. k /\ 0 \in 0 .. j
    OBVIOUS
  <2>. QED  BY <1>0, <2>1
<1>2. ASSUME NEW h \in Nat, h \in S  PROVE h + 1 \in S
  <2>1. SUFFICES ASSUME h + 1 <= k, h + 1 <= j, NEW n \in Nat  PROVE f[h + 1][n] = g[h + 1][n]
    OBVIOUS
  <2>2. /\ h + 1 \in 0 .. k /\ h + 1 \in 0 .. j /\ h + 1 # 0 /\ h + 1 - 1 = h
        /\ h <= k /\ h <= j /\ 2 * n \in Nat /\ 2 * n + 1 \in Nat
    BY <2>1
  <2>3. f[h][2 * n] = g[h][2 * n] /\ f[h][2 * n + 1] = g[h][2 * n + 1]
    BY <1>2, <2>2
  <2>4. /\ f[h + 1][n] = merge_2hashses(f[h][2 * n], f[h][2 * n + 1])
        /\ g[h + 1][n] = merge_2hashses(g[h][2 * n], g[h][2 * n + 1])
    <3>1. PICK i : i \in 0 .. k /\ i \in 0 .. j /\ i # 0 /\ i = h + 1 /\ i - 1 = h
      BY <2>2
    <3>2. /\ f[i][n] = merge_2hashses(f[i - 1][2 * n], f[i - 1][2 * n + 1])
          /\ g[i][n] = merge_2hashses(g[i - 1][2 * n], g[i - 1][2 * n + 1])
      BY Zenon, <1>0, <3>1
    <3>. QED  BY <3>1, <3>2
  <2>. QED  BY Zenon, <2>3, <2>4
<1>. HIDE DEF S
<1>3. \A h \in Nat : h \in S
  BY Zenon, <1>1, <1>2, InductionOn
<1>. QED  BY Zenon, <1>3 DEF S

LEMMA HashOverUnfolds ==
  HashOver = [h \in Nat |-> [n \in Nat |->
                IF h = 0 THEN calc_hash(Signed(n))
                ELSE merge_2hashses(HashOver[h - 1][2 * n], HashOver[h - 1][2 * n + 1])]]
<1>. DEFINE table(k) == CHOOSE f : Rows(f, k)
            F == [h \in Nat |-> table(h)[h]]
            row(f, h) == [n \in Nat |-> IF h = 0 THEN calc_hash(Signed(n))
                            ELSE merge_2hashses(f[h - 1][2 * n], f[h - 1][2 * n + 1])]
<1>1. \A k \in Nat : Rows(table(k), k)
  BY Zenon, RowsExist
<1>. HIDE DEF table
<1>2. ASSUME NEW h \in Nat  PROVE F[h] = row(F, h)
  <2>1. h \in 0 .. h
    OBVIOUS
  <2>2. table(h)[h] = row(table(h), h)
    BY Zenon, <1>1, <2>1 DEF Rows
  <2>3. CASE h = 0
    BY <2>2, <2>3
  <2>4. CASE h # 0
    <3>1. h - 1 \in Nat /\ h - 1 <= h /\ h - 1 <= h - 1
      BY <2>4
    <3>2. Rows(table(h), h) /\ Rows(table(h - 1), h - 1)
      BY Zenon, <1>1, <3>1
    <3>3. \A i \in Nat : i <= h /\ i <= h - 1 => \A m \in Nat : table(h)[i][m] = table(h - 1)[i][m]
      BY <3>1, <3>2, RowsAgree
    <3>4. \A m \in Nat : table(h)[h - 1][m] = table(h - 1)[h - 1][m]
      BY <3>1, <3>3
    <3>5. \A n \in Nat : 2 * n \in Nat /\ 2 * n + 1 \in Nat
      OBVIOUS
    <3>6. F[h - 1] = table(h - 1)[h - 1] /\ F[h] = table(h)[h]
      BY Zenon, <3>1
    <3>. HIDE DEF F
    <3>7. row(table(h), h) = row(F, h)
      BY Zenon, <2>4, <3>4, <3>5, <3>6
    <3>. QED  BY Zenon, <2>2, <3>6, <3>7
  <2>. QED  BY Zenon, <2>3, <2>4
<1>3. F = [h \in Nat |-> row(F, h)]
  <2>1. F = [h \in Nat |-> F[h]]
    BY Zenon
  <2>. HIDE DEF F, row
  <2>. QED  BY Zenon, <1>2, <2>1
<1>. HIDE DEF F
<1>. QED  BY Zenon, <1>3 DEF HashOver

\* The hashes of the tree's definition, height by height.
LEMMA HashOverRows ==
  /\ \A n \in Nat : HashOver[0][n] = calc_hash(Signed(n))
  /\ \A h, n \in Nat :
       HashOver[h + 1][n] = merge_2hashses(HashOver[h][2 * n], HashOver[h][2 * n + 1])
<1>1. \A h \in Nat :
        HashOver[h] = [n \in Nat |->
                         IF h = 0 THEN calc_hash(Signed(n))
                         ELSE merge_2hashses(HashOver[h - 1][2 * n], HashOver[h - 1][2 * n + 1])]
  BY Zenon, HashOverUnfolds
<1>2. \A n \in Nat : HashOver[0][n] = calc_hash(Signed(n))
  <2>1. HashOver[0] = [n \in Nat |->
                         IF 0 = 0 THEN calc_hash(Signed(n))
                         ELSE merge_2hashses(HashOver[0 - 1][2 * n], HashOver[0 - 1][2 * n + 1])]
    BY <1>1
  <2>. QED  BY Zenon, <2>1
<1>3. ASSUME NEW h \in Nat, NEW n \in Nat
      PROVE  HashOver[h + 1][n] = merge_2hashses(HashOver[h][2 * n], HashOver[h][2 * n + 1])
  <2>1. PICK i \in Nat : i # 0 /\ i = h + 1 /\ i - 1 = h
    OBVIOUS
  <2>2. HashOver[i][n] = merge_2hashses(HashOver[i - 1][2 * n], HashOver[i - 1][2 * n + 1])
    BY Zenon, <1>1, <2>1
  <2>. QED  BY <2>1, <2>2
<1>. QED  BY Zenon, <1>2, <1>3

-----------------------------------------------------------------------------
\* A node of the tree's definition.
Node(k, n) ==
  [hash |-> HashOver[EXPONENT - k][n], hpoint1 |-> 2 * n, hpoint2 |-> 2 * n + 1]

\* The inductive invariant: nothing is overwritten before the tree is built,
\* what verification has counted was intact and stays so, and it only stops at
\* a pair that is not.
TreeInv ==
  /\ TypeOK
  /\ LayersAreTheTree
  /\ 0 \notin DOMAIN layers => /\ msg_arr = [i \in Indices |-> Signed(i)]
                               /\ verifying = "no"
  /\ verifying = "no" => ver_result = 0
  /\ \A i \in 0 .. ver_result - 1 : PairIntact(i)
  /\ verifying = "done" => (ver_result \in Indices => ~PairIntact(ver_result))

\* Halving the size of a layer gives that of the layer above.
LEMMA Halves ==
  \A n \in Nat : /\ pow2[n + 1] \div 2 = pow2[n] /\ pow2[n] \in Nat
                 /\ \A k \in 0 .. pow2[n] - 1 : /\ k \in Nat
                                                /\ 2 * k \in 0 .. pow2[n + 1] - 1
                                                /\ 2 * k + 1 \in 0 .. pow2[n + 1] - 1
<1>. TAKE n \in Nat
<1>1. pow2[n] \in Nat /\ pow2[n + 1] = 2 * pow2[n]
  BY Zenon, Pow2
<1>. QED  BY <1>1

\* The base layer, built from the messages as they were signed.
LEMMA BaseIsTheTree ==
  ASSUME msg_arr = [i \in Indices |-> Signed(i)]
  PROVE  process_s_messagesV2(pow2[EXPONENT])
           = [n \in 0 .. pow2[EXPONENT - 1] - 1 |-> Node(EXPONENT - 1, n)]
<1>1. PICK e \in Nat : e = EXPONENT - 1 /\ EXPONENT = e + 1 /\ EXPONENT - e = 0 + 1
  <2>1. PICK e \in Nat : e = EXPONENT - 1
    BY MerkleAssumption
  <2>2. EXPONENT = e + 1 /\ EXPONENT - e = 0 + 1
    BY <2>1, MerkleAssumption
  <2>. QED  BY Zenon, <2>1, <2>2
<1>2. pow2[EXPONENT] \div 2 = pow2[e]
  BY Zenon, <1>1, Halves
<1>3. ASSUME NEW k \in 0 .. pow2[e] - 1
      PROVE  create_hpoint_message(2 * k, 2 * k + 1) = Node(e, k)
  <2>1. k \in Nat /\ 2 * k \in Indices /\ 2 * k + 1 \in Indices
    BY Zenon, <1>1, Halves DEF Indices
  <2>2. 2 * k \in Nat /\ 2 * k + 1 \in Nat /\ 0 \in Nat
    BY <2>1
  <2>3. msg_arr[2 * k] = Signed(2 * k) /\ msg_arr[2 * k + 1] = Signed(2 * k + 1)
    BY Zenon, <2>1
  <2>4. HashOver[EXPONENT - e][k] = merge_2hashses(HashOver[0][2 * k], HashOver[0][2 * k + 1])
    <3>1. HashOver[0 + 1][k] = merge_2hashses(HashOver[0][2 * k], HashOver[0][2 * k + 1])
      BY Zenon, <2>1, <2>2, HashOverRows
    <3>. QED  BY Zenon, <1>1, <3>1
  <2>5. /\ HashOver[0][2 * k] = calc_hash(Signed(2 * k))
        /\ HashOver[0][2 * k + 1] = calc_hash(Signed(2 * k + 1))
    BY Zenon, <2>2, HashOverRows
  <2>. QED  BY Zenon, <2>3, <2>4, <2>5 DEF create_hpoint_message, Node
<1>. QED  BY Zenon, <1>1, <1>2, <1>3 DEF process_s_messagesV2

\* The layer above a layer of the tree.
LEMMA NextIsTheTree ==
  ASSUME NEW t \in 1 .. EXPONENT - 1, NEW below,
         below = [n \in 0 .. pow2[t] - 1 |-> Node(t, n)]
  PROVE  create_a_h_layer(pow2[t], below) = [n \in 0 .. pow2[t - 1] - 1 |-> Node(t - 1, n)]
<1>1. PICK s \in Nat : s = t - 1 /\ t = s + 1
  BY MerkleAssumption
<1>2. PICK h \in Nat : h = EXPONENT - t /\ EXPONENT - s = h + 1
  BY <1>1, MerkleAssumption
<1>3. pow2[t] \div 2 = pow2[s]
  BY Zenon, <1>1, Halves
<1>4. ASSUME NEW k \in 0 .. pow2[s] - 1
      PROVE  create_hpoint_hashG(below, 2 * k, 2 * k + 1) = Node(s, k)
  <2>1. k \in Nat /\ 2 * k \in 0 .. pow2[t] - 1 /\ 2 * k + 1 \in 0 .. pow2[t] - 1
    BY Zenon, <1>1, Halves
  <2>2. below[2 * k] = Node(t, 2 * k) /\ below[2 * k + 1] = Node(t, 2 * k + 1)
    BY Zenon, <2>1
  <2>3. below[2 * k].hash = HashOver[h][2 * k] /\ below[2 * k + 1].hash = HashOver[h][2 * k + 1]
    BY <1>2, <2>2 DEF Node
  <2>4. HashOver[EXPONENT - s][k] = merge_2hashses(HashOver[h][2 * k], HashOver[h][2 * k + 1])
    BY Zenon, <1>2, <2>1, HashOverRows
  <2>. QED  BY Zenon, <2>3, <2>4 DEF create_hpoint_hashG, Node
<1>. QED  BY Zenon, <1>1, <1>3, <1>4 DEF create_a_h_layer

\* AddLayer puts its layer on top of a part of the tree.
LEMMA AddLayerIsTheTree ==
  ASSUME LayersAreTheTree, NEW k \in 0 .. EXPONENT - 1, DOMAIN layers = k + 1 .. EXPONENT - 1,
         NEW layer, layer = [n \in 0 .. pow2[k] - 1 |-> Node(k, n)], AddLayer(k, layer)
  PROVE  DOMAIN layers' = k .. EXPONENT - 1 /\ LayersAreTheTree'
<1>1. DOMAIN layers' = k .. EXPONENT - 1
  BY Zenon DEF AddLayer
<1>2. \A j \in k .. EXPONENT - 1 : j = k \/ j \in DOMAIN layers
  BY MerkleAssumption
<1>3. \A j \in k .. EXPONENT - 1 : layers'[j] = IF j = k THEN layer ELSE layers[j]
  BY Zenon DEF AddLayer
<1>4. \A j \in DOMAIN layers : layers[j] = [n \in 0 .. pow2[j] - 1 |-> Node(j, n)]
  BY Zenon DEF LayersAreTheTree, Node
<1>5. \A j \in k .. EXPONENT - 1 : layers'[j] = [n \in 0 .. pow2[j] - 1 |-> Node(j, n)]
  BY Zenon, <1>2, <1>3, <1>4
<1>. QED  BY Zenon, <1>1, <1>5 DEF LayersAreTheTree, Node

-----------------------------------------------------------------------------
\* The parent of a node of a layer with 2 * n nodes.
LEMMA ParentBelow ==
  ASSUME NEW n \in Nat, NEW j \in 0 .. 2 * n - 1
  PROVE  /\ j \div 2 \in 0 .. n - 1
         /\ j \in Nat /\ 2 * j \in Nat /\ 2 * j + 1 \in Nat
OBVIOUS

\* merkle_verify_message on the whole tree: the root always matches, so what
\* decides is whether the two messages still give the hash of their node.
LEMMA VerifyIsPairIntact ==
  ASSUME LayersAreTheTree, DOMAIN layers = 0 .. EXPONENT - 1, NEW i \in Indices
  PROVE  merkle_verify_message(i) <=> PairIntact(i)
<1>1. PICK e \in Nat : /\ e = EXPONENT - 1 /\ e + 1 = EXPONENT /\ EXPONENT - e = 0 + 1
                       /\ e \in DOMAIN layers /\ e > 0
  <2>1. PICK e \in Nat : e = EXPONENT - 1
    BY MerkleAssumption
  <2>2. EXPONENT = e + 1 /\ EXPONENT - e = 0 + 1 /\ e \in DOMAIN layers /\ e > 0
    BY <2>1, MerkleAssumption
  <2>. QED  BY Zenon, <2>1, <2>2
<1>2. PICK d \in Nat : d = EXPONENT - 2 /\ d + 1 = e /\ d \in DOMAIN layers
  BY <1>1, MerkleAssumption
<1>3. \A k \in DOMAIN layers : layers[k] = [n \in 0 .. pow2[k] - 1 |-> Node(k, n)]
  BY Zenon DEF LayersAreTheTree, Node
<1>4. PICK node \in 0 .. pow2[e] - 1 : node = i \div 2
  <2>1. pow2[e] \in Nat /\ pow2[EXPONENT] = 2 * pow2[e]
    BY Zenon, <1>1, Pow2
  <2>2. i \in 0 .. 2 * pow2[e] - 1
    BY Zenon, <2>1 DEF Indices
  <2>3. i \div 2 \in 0 .. pow2[e] - 1
    BY Zenon, <2>1, <2>2, ParentBelow
  <2>. QED  BY Zenon, <2>3
<1>5. /\ node \in Nat /\ 2 * node \in Nat /\ 2 * node + 1 \in Nat
      /\ node \div 2 \in 0 .. pow2[d] - 1
  <2>1. pow2[d] \in Nat /\ pow2[e] = 2 * pow2[d]
    BY Zenon, <1>2, Pow2
  <2>2. node \in 0 .. 2 * pow2[d] - 1
    BY Zenon, <1>4, <2>1
  <2>. QED  BY Zenon, <2>1, <2>2, ParentBelow
<1>6. layers[e][node] = Node(e, node) /\ layers[d][node \div 2] = Node(d, node \div 2)
  <2>1. /\ layers[e] = [n \in 0 .. pow2[e] - 1 |-> Node(e, n)]
        /\ layers[d] = [n \in 0 .. pow2[d] - 1 |-> Node(d, n)]
    BY Zenon, <1>1, <1>2, <1>3
  <2>2. PICK up \in 0 .. pow2[d] - 1 : up = node \div 2
    BY Zenon, <1>5
  <2>3. layers[e][node] = Node(e, node) /\ layers[d][up] = Node(d, up)
    BY Zenon, <2>1
  <2>. QED  BY Zenon, <2>2, <2>3
<1>7. /\ layers[e][node].hpoint1 = 2 * node /\ layers[e][node].hpoint2 = 2 * node + 1
      /\ layers[e][node].hash = HashOver[EXPONENT - e][node]
      /\ layers[d][node \div 2].hpoint1 = 2 * (node \div 2)
      /\ layers[d][node \div 2].hpoint2 = 2 * (node \div 2) + 1
  BY <1>6 DEF Node
<1>8. (IF node % 2 = 0 THEN 2 * (node \div 2) ELSE 2 * (node \div 2) + 1) = node
  BY <1>5
<1>9. layers[e][node].hash = <<calc_hash(Signed(2 * node)), calc_hash(Signed(2 * node + 1))>>
  <2>1. HashOver[0 + 1][node] = merge_2hashses(HashOver[0][2 * node], HashOver[0][2 * node + 1])
    BY Zenon, <1>5, HashOverRows
  <2>2. /\ HashOver[0][2 * node] = calc_hash(Signed(2 * node))
        /\ HashOver[0][2 * node + 1] = calc_hash(Signed(2 * node + 1))
    BY Zenon, <1>5, HashOverRows
  <2>. QED  BY Zenon, <1>1, <1>7, <2>1, <2>2 DEF merge_2hashses
<1>10. BaseMatches(node) <=>
         <<calc_hash(msg_arr[2 * node]), calc_hash(msg_arr[2 * node + 1])>>
           = <<calc_hash(Signed(2 * node)), calc_hash(Signed(2 * node + 1))>>
  <2>1. BaseMatches(node) <=>
          merge_2hashses(calc_hash(msg_arr[layers[e][node].hpoint1]),
                         calc_hash(msg_arr[layers[e][node].hpoint2]))
            = layers[e][IF node % 2 = 0 THEN layers[d][node \div 2].hpoint1
                                        ELSE layers[d][node \div 2].hpoint2].hash
    BY Zenon, <1>1, <1>2 DEF BaseMatches
  <2>2. (IF node % 2 = 0 THEN layers[d][node \div 2].hpoint1 ELSE layers[d][node \div 2].hpoint2)
          = node
    BY Zenon, <1>7, <1>8
  <2>. QED  BY Zenon, <1>7, <1>9, <2>1, <2>2 DEF merge_2hashses
<1>11. BaseMatches(node) <=> msg_arr[2 * node] = Signed(2 * node)
                             /\ msg_arr[2 * node + 1] = Signed(2 * node + 1)
  BY <1>10 DEF calc_hash
<1>12. RootMatches
  <2>1. 0 \in DOMAIN layers /\ 1 \in DOMAIN layers /\ EXPONENT - 1 \in Nat
        /\ EXPONENT - 0 = EXPONENT - 1 + 1
    BY MerkleAssumption
  <2>2. pow2[0] = 1 /\ pow2[1] = 2
    <3>1. pow2[0] = 1 /\ pow2[0 + 1] = 2 * pow2[0]
      BY Zenon, Pow2, 0 \in Nat
    <3>. QED  BY <3>1
  <2>3. 0 \in 0 .. pow2[0] - 1 /\ 0 \in 0 .. pow2[1] - 1 /\ 1 \in 0 .. pow2[1] - 1
    BY <2>2
  <2>4. layers[0][0] = Node(0, 0) /\ layers[1][0] = Node(1, 0) /\ layers[1][1] = Node(1, 1)
    BY Zenon, <1>3, <2>1, <2>3
  <2>5. /\ layers[0][0].hpoint1 = 0 /\ layers[0][0].hpoint2 = 1
        /\ layers[0][0].hash = HashOver[EXPONENT - 0][0]
        /\ layers[1][0].hash = HashOver[EXPONENT - 1][0]
        /\ layers[1][1].hash = HashOver[EXPONENT - 1][1]
    BY <2>4 DEF Node
  <2>6. HashOver[EXPONENT - 0][0] = merge_2hashses(HashOver[EXPONENT - 1][0], HashOver[EXPONENT - 1][1])
    <3>1. \A n \in Nat : HashOver[EXPONENT - 1 + 1][n] =
                            merge_2hashses(HashOver[EXPONENT - 1][2 * n], HashOver[EXPONENT - 1][2 * n + 1])
      BY Zenon, <2>1, HashOverRows
    <3>2. 0 \in Nat /\ 2 * 0 = 0 /\ 2 * 0 + 1 = 1
      OBVIOUS
    <3>. QED  BY <2>1, <3>1, <3>2
  <2>. QED  BY Zenon, <2>5, <2>6 DEF RootMatches
<1>13. merkle_verify_message(i) <=> BaseMatches(node)
  BY Zenon, <1>4, <1>12 DEF merkle_verify_message
<1>. QED  BY Zenon, <1>4, <1>11, <1>13 DEF PairIntact

-----------------------------------------------------------------------------
\* A part of the tree that has layer 0 is the whole tree.
LEMMA BuiltIsWhole ==
  ASSUME TypeOK, 0 \in DOMAIN layers  PROVE DOMAIN layers = 0 .. EXPONENT - 1
<1>1. PICK k \in 0 .. EXPONENT : DOMAIN layers = k .. EXPONENT - 1
  BY Zenon DEF TypeOK
<1>2. k = 0
  BY <1>1, MerkleAssumption
<1>. QED  BY Zenon, <1>1, <1>2

\* Of a part of the tree, Top is the layer to build on.
LEMMA TopIsLeast ==
  ASSUME TypeOK, DOMAIN layers # {}
  PROVE  Top \in 0 .. EXPONENT - 1 /\ DOMAIN layers = Top .. EXPONENT - 1
<1>1. PICK k \in 0 .. EXPONENT : DOMAIN layers = k .. EXPONENT - 1
  BY Zenon DEF TypeOK
<1>2. k \in 0 .. EXPONENT - 1 /\ k \in DOMAIN layers /\ \A j \in DOMAIN layers : k <= j
  BY <1>1, MerkleAssumption
<1>3. \A m \in DOMAIN layers : (\A j \in DOMAIN layers : m <= j) => m = k
  BY <1>1, <1>2, MerkleAssumption
<1>4. Top \in DOMAIN layers /\ \A j \in DOMAIN layers : Top <= j
  BY Zenon, <1>2 DEF Top
<1>5. Top = k
  BY Zenon, <1>3, <1>4
<1>. QED  BY Zenon, <1>1, <1>2, <1>5

\* The two messages of a pair are intact or not together.
LEMMA PairIsOne ==
  ASSUME NEW i \in Nat, i % 2 = 1  PROVE i - 1 \in Nat /\ (PairIntact(i - 1) <=> PairIntact(i))
<1>1. i - 1 \in Nat /\ (i - 1) \div 2 = i \div 2
  OBVIOUS
<1>. QED  BY Zenon, <1>1 DEF PairIntact

LEMMA InitTree == Init => TreeInv
<1>. SUFFICES ASSUME Init  PROVE TreeInv
  OBVIOUS
<1>1. /\ msg_arr = [i \in Indices |-> Signed(i)] /\ DOMAIN layers = {}
      /\ ver_result = 0 /\ verifying = "no"
  BY DEF Init
<1>2. \A k \in DOMAIN layers : FALSE
  BY Zenon, <1>1
<1>3. EXPONENT \in 0 .. EXPONENT /\ {} = EXPONENT .. EXPONENT - 1 /\ EXPONENT \in Nat
  BY MerkleAssumption
<1>4. 0 \in 0 .. pow2[EXPONENT] /\ \A i \in 0 .. 0 - 1 : FALSE
  <2>1. pow2[EXPONENT] \in Nat
    BY Zenon, <1>3, Pow2
  <2>. QED  BY <2>1
<1>5. msg_arr \in [Indices -> UNION {{Signed(i), Wrong(i)} : i \in Indices}]
  BY <1>1
<1>6. TypeOK
  BY Zenon, <1>1, <1>3, <1>4, <1>5 DEF TypeOK
<1>7. verifying # "done"
  BY <1>1
<1>. QED  BY Zenon, <1>1, <1>2, <1>4, <1>6, <1>7 DEF TreeInv, LayersAreTheTree

\* calc_merkle_tree's two steps keep the invariant.
LEMMA BuildKeeps ==
  ASSUME TreeInv, BuildBase \/ FillLevel  PROVE TreeInv'
<1>0. TypeOK /\ LayersAreTheTree
  BY Zenon DEF TreeInv
<1>1. 0 \notin DOMAIN layers
  <2>1. CASE BuildBase
    BY Zenon, <2>1 DEF BuildBase
  <2>2. CASE FillLevel
    <3>1. Top > 0 /\ Top \in 0 .. EXPONENT - 1 /\ DOMAIN layers = Top .. EXPONENT - 1
      BY Zenon, <1>0, <2>2, TopIsLeast DEF FillLevel
    <3>. QED  BY <3>1, MerkleAssumption
  <2>. QED  BY Zenon, <2>1, <2>2
<1>2. msg_arr = [i \in Indices |-> Signed(i)] /\ verifying = "no" /\ ver_result = 0
  BY Zenon, <1>1 DEF TreeInv
<1>3. UNCHANGED <<msg_arr, ver_result, verifying>>
  BY Zenon DEF BuildBase, FillLevel
<1>4. \E k \in 0 .. EXPONENT - 1 : DOMAIN layers' = k .. EXPONENT - 1 /\ LayersAreTheTree'
  <2>1. CASE BuildBase
    <3>1. EXPONENT - 1 \in 0 .. EXPONENT - 1 /\ {} = EXPONENT - 1 + 1 .. EXPONENT - 1
      BY MerkleAssumption
    <3>2. DOMAIN layers = {} /\ AddLayer(EXPONENT - 1, process_s_messagesV2(pow2[EXPONENT]))
      BY Zenon, <2>1 DEF BuildBase
    <3>3. process_s_messagesV2(pow2[EXPONENT])
            = [n \in 0 .. pow2[EXPONENT - 1] - 1 |-> Node(EXPONENT - 1, n)]
      BY Zenon, <1>2, BaseIsTheTree
    <3>. QED  BY <1>0, <3>1, <3>2, <3>3, AddLayerIsTheTree
  <2>2. CASE FillLevel
    <3>1. /\ Top > 0 /\ Top \in 0 .. EXPONENT - 1 /\ DOMAIN layers = Top .. EXPONENT - 1
          /\ AddLayer(Top - 1, create_a_h_layer(pow2[Top], layers[Top]))
      BY Zenon, <1>0, <2>2, TopIsLeast DEF FillLevel
    <3>2. PICK t \in 1 .. EXPONENT - 1 : t = Top
      BY <3>1, MerkleAssumption
    <3>3. t - 1 \in 0 .. EXPONENT - 1 /\ t - 1 + 1 = t /\ t \in DOMAIN layers
      BY <3>1, <3>2, MerkleAssumption
    <3>4. layers[t] = [n \in 0 .. pow2[t] - 1 |-> Node(t, n)]
      BY Zenon, <1>0, <3>3 DEF LayersAreTheTree, Node
    <3>5. create_a_h_layer(pow2[t], layers[t]) = [n \in 0 .. pow2[t - 1] - 1 |-> Node(t - 1, n)]
      BY Zenon, <3>4, NextIsTheTree
    <3>6. DOMAIN layers = t - 1 + 1 .. EXPONENT - 1
      BY Zenon, <3>1, <3>2, <3>3
    <3>. QED  BY <1>0, <3>1, <3>2, <3>3, <3>5, <3>6, AddLayerIsTheTree
  <2>. QED  BY Zenon, <2>1, <2>2
<1>5. TypeOK'
  <2>1. \A k \in 0 .. EXPONENT - 1 : k \in 0 .. EXPONENT
    BY MerkleAssumption
  <2>. QED  BY Zenon, <1>0, <1>3, <1>4, <2>1 DEF TypeOK
<1>6. \A i \in 0 .. 0 - 1 : FALSE
  OBVIOUS
<1>7. verifying' = "no" /\ verifying' # "done" /\ ver_result' = 0
  BY <1>2, <1>3
<1>. QED  BY Zenon, <1>2, <1>3, <1>4, <1>5, <1>6, <1>7 DEF TreeInv

\* test_mekrle_proof_WRONG overwrites a message before any is verified.
LEMMA WreckKeeps ==
  ASSUME TreeInv, NEW i \in Indices, Wreck(i)  PROVE TreeInv'
<1>1. /\ 0 \in DOMAIN layers /\ verifying = "no" /\ ver_result = 0
      /\ msg_arr' = [msg_arr EXCEPT ![i] = Wrong(i)]
      /\ UNCHANGED <<layers, ver_result, verifying>>
  BY Zenon DEF TreeInv, Wreck
<1>2. Wrong(i) \in UNION {{Signed(j), Wrong(j)} : j \in Indices}
  BY Zenon
<1>3. TypeOK'
  BY Zenon, <1>1, <1>2 DEF TypeOK, TreeInv
<1>4. LayersAreTheTree'
  BY Zenon, <1>1 DEF LayersAreTheTree, TreeInv
<1>5. \A j \in 0 .. 0 - 1 : FALSE
  OBVIOUS
<1>6. verifying' # "done"
  BY <1>1
<1>. QED  BY Zenon, <1>1, <1>3, <1>4, <1>5, <1>6 DEF TreeInv

\* The verification loop counts a message only if its pair is intact, and ends
\* at one that is not.
LEMMA VerifyKeeps ==
  ASSUME TreeInv, VerifyNext  PROVE TreeInv'
<1>1. /\ TypeOK /\ LayersAreTheTree /\ 0 \in DOMAIN layers
      /\ verifying # "done" /\ UNCHANGED <<msg_arr, layers>>
      /\ IF ver_result \in Indices /\ merkle_verify_message(ver_result)
           THEN ver_result' = ver_result + 1 /\ verifying' = "yes"
           ELSE verifying' = "done" /\ UNCHANGED ver_result
  BY Zenon DEF TreeInv, VerifyNext
<1>2. \A i \in Indices : merkle_verify_message(i) <=> PairIntact(i)
  BY Zenon, <1>1, BuiltIsWhole, VerifyIsPairIntact
<1>3. LayersAreTheTree'
  BY Zenon, <1>1 DEF LayersAreTheTree
<1>4. \A i : PairIntact(i)' <=> PairIntact(i)
  BY Zenon, <1>1 DEF PairIntact
<1>5. pow2[EXPONENT] \in Nat /\ ver_result \in 0 .. pow2[EXPONENT]
  BY Zenon, <1>1, Pow2, MerkleAssumption DEF TypeOK
<1>6. CASE ver_result \in Indices /\ merkle_verify_message(ver_result)
  <2>1. ver_result' = ver_result + 1 /\ verifying' = "yes" /\ PairIntact(ver_result)
    BY Zenon, <1>1, <1>2, <1>6
  <2>2. /\ ver_result' \in 0 .. pow2[EXPONENT]
        /\ \A i \in 0 .. ver_result' - 1 : i = ver_result \/ i \in 0 .. ver_result - 1
    BY <1>5, <1>6, <2>1 DEF Indices
  <2>3. TypeOK'
    BY Zenon, <1>1, <2>1, <2>2 DEF TypeOK
  <2>4. verifying' # "done" /\ verifying' # "no"
    BY <2>1
  <2>5. \A i \in 0 .. ver_result' - 1 : PairIntact(i)'
    BY Zenon, <1>4, <2>1, <2>2 DEF TreeInv
  <2>. QED  BY Zenon, <1>1, <1>3, <2>3, <2>4, <2>5 DEF TreeInv
<1>7. CASE ~(ver_result \in Indices /\ merkle_verify_message(ver_result))
  <2>1. verifying' = "done" /\ ver_result' = ver_result
    BY Zenon, <1>1, <1>7
  <2>2. TypeOK'
    BY Zenon, <1>1, <2>1 DEF TypeOK
  <2>3. verifying' # "no"
    BY <2>1
  <2>4. \A i \in 0 .. ver_result' - 1 : PairIntact(i)'
    BY Zenon, <1>4, <2>1 DEF TreeInv
  <2>5. (ver_result \in Indices => ~PairIntact(ver_result))'
    BY Zenon, <1>1, <1>2, <1>7, <2>1 DEF PairIntact
  <2>. QED  BY Zenon, <1>1, <1>3, <2>2, <2>3, <2>4, <2>5 DEF TreeInv
<1>. QED  BY Zenon, <1>6, <1>7

-----------------------------------------------------------------------------
\* TreeInv is an invariant: the steps of calc_merkle_tree, an overwritten
\* message and the turns of the verification loop keep it.
THEOREM TreeIsSound == Spec => []TreeInv
<1>1. TreeInv /\ [Next]_vars => TreeInv'
  <2>. SUFFICES ASSUME TreeInv, [Next]_vars  PROVE TreeInv'
    OBVIOUS
  <2>1. CASE UNCHANGED vars
    BY Zenon, <2>1 DEF vars, TreeInv, TypeOK, LayersAreTheTree, PairIntact
  <2>2. CASE Next
    BY Zenon, <2>2, BuildKeeps, WreckKeeps, VerifyKeeps DEF Next
  <2>. QED  BY Zenon, <2>1, <2>2
<1>. QED  BY <1>1, InitTree, PTL DEF Spec

\* The values keep their types.
THEOREM TreeIsTyped == Spec => []TypeOK
<1>1. TreeInv => TypeOK
  BY Zenon DEF TreeInv
<1>. QED  BY <1>1, TreeIsSound, PTL

\* calc_merkle_tree builds the tree of the recursive definition, whatever its
\* height.
THEOREM BuiltIsTheTree == Spec => []LayersAreTheTree
<1>1. TreeInv => LayersAreTheTree
  BY Zenon DEF TreeInv
<1>. QED  BY <1>1, TreeIsSound, PTL

\* merkle_verify_message accepts exactly the messages whose pair is intact.
THEOREM VerifyIsRight == Spec => []VerifyDetects
<1>1. TreeInv => VerifyDetects
  <2>. SUFFICES ASSUME TreeInv, 0 \in DOMAIN layers, NEW i \in Indices
                PROVE  merkle_verify_message(i) <=> PairIntact(i)
    BY Zenon DEF VerifyDetects
  <2>. QED  BY Zenon, BuiltIsWhole, VerifyIsPairIntact DEF TreeInv
<1>. QED  BY <1>1, TreeIsSound, PTL

\* The safety half of CountsIntact: when verification has ended, the count is
\* the one the tests expect.
THEOREM CountsAreRight == Spec => []CountIsRight
<1>1. TreeInv => CountIsRight
  <2>. SUFFICES ASSUME TreeInv, verifying = "done"
                PROVE  /\ \A i \in 0 .. ver_result - 1 : PairIntact(i)
                       /\ ver_result \in Indices => ver_result % 2 = 0 /\ ~PairIntact(ver_result)
    BY Zenon DEF CountIsRight
  <2>1. /\ \A i \in 0 .. ver_result - 1 : PairIntact(i)
        /\ ver_result \in Indices => ~PairIntact(ver_result)
        /\ ver_result \in 0 .. pow2[EXPONENT]
    BY Zenon DEF TreeInv, TypeOK
  <2>2. ASSUME ver_result \in Indices, ver_result % 2 # 0  PROVE FALSE
    <3>1. ver_result \in Nat /\ ver_result % 2 = 1
      BY <2>1, <2>2
    <3>2. ver_result - 1 \in 0 .. ver_result - 1
      BY <3>1
    <3>. QED  BY Zenon, <2>1, <2>2, <3>1, <3>2, PairIsOne
  <2>. QED  BY Zenon, <2>1, <2>2
<1>. QED  BY <1>1, TreeIsSound, PTL

=============================================================================
