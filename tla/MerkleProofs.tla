---------------------------- MODULE MerkleProofs ----------------------------
(***************************************************************************)
(* merkle_verify tells the blocks of a payload from anything else, at      *)
(* every size and index: a claim is accepted if and only if it is the leaf *)
(* at that index with the proof merkle_proof gives for it.  All it rests   *)
(* on is that Sha256 has no collisions and that digests have one length.   *)
(*                                                                         *)
(* The loops are recursive functions over their rounds; what holds of      *)
(* every round is shown by its least counterexample.                       *)
(***************************************************************************)
EXTENDS Merkle, SequenceTheorems, WellFoundedInduction, TLAPS

\* A set of natural numbers that is not empty has a least member.
LEMMA LeastMember ==
  ASSUME NEW X, X \subseteq Nat, X # {}
  PROVE  \E i \in X : \A j \in X : i <= j
<1>1. IsWellFoundedOn(OpToRel(<, Nat), Nat)
  BY NatLessThanWellFounded, Zenon
<1>2. PICK i \in X : \A j \in X : ~(<<j, i>> \in OpToRel(<, Nat))
  BY <1>1, WFMin, Zenon
<1>3. \A j \in X : ~(j < i)
  BY <1>2 DEF OpToRel
<1> QED
  BY <1>3

\* Of the rounds 0..n, either all are out of a set, or there is a first one in it.
LEMMA FirstRound ==
  ASSUME NEW n \in Nat, NEW Bad, Bad \subseteq 0..n, 0 \notin Bad, Bad # {}
  PROVE  \E k \in 1..n : k \in Bad /\ k - 1 \in 0..n /\ k - 1 \notin Bad
<1>1. Bad \subseteq Nat
  OBVIOUS
<1>2. PICK k \in Bad : \A j \in Bad : k <= j
  BY <1>1, LeastMember, Zenon
<1>3. k \in 1..n /\ k - 1 \in 0..n /\ ~(k <= k - 1)
  BY <1>2
<1> QED
  BY <1>2, <1>3

-----------------------------------------------------------------------------
(* Digests.                                                                  *)

IsDigest(d) == d = [c \in 1..HashLen |-> d[c]]

\* A sequence of digests.
Digests(s) ==
  /\ Len(s) \in Nat
  /\ s = [i \in 1..Len(s) |-> s[i]]
  /\ \A i \in 1..Len(s) : IsDigest(s[i])

LEMMA FunctionIsSequence ==
  ASSUME NEW n \in Nat, NEW s, s = [i \in 1..n |-> s[i]], NEW S, \A i \in 1..n : s[i] \in S
  PROVE  s \in Seq(S) /\ Len(s) = n
<1>1. s \in [1..n -> S]
  OBVIOUS
<1>2. s \in Seq(S)
  BY <1>1
<1> QED
  BY <1>1, <1>2

LEMMA ShaIsDigest == \A bytes : IsDigest(Sha256(bytes))
BY DEF Sha256, IsDigest

LEMMA ShaIsInjective ==
  ASSUME NEW x, NEW y, Sha256(x) = Sha256(y)
  PROVE  x = y
<1>1. 1 \in 1..HashLen
  BY HashLenAssumption
<1>2. Sha256(x)[1] = [sha |-> x, cell |-> 1] /\ Sha256(y)[1] = [sha |-> y, cell |-> 1]
  BY <1>1 DEF Sha256
<1> QED
  BY <1>2

LEMMA PairIsInjective ==
  ASSUME NEW a, NEW b, NEW c, NEW d, IsDigest(a), IsDigest(b), IsDigest(c), IsDigest(d),
         hash_pair(a, b) = hash_pair(c, d)
  PROVE  a = c /\ b = d
<1> DEFINE S == UNION {{x[i] : i \in 1..HashLen} : x \in {a, b, c, d}}
<1>0. HashLen \in Nat
  BY HashLenAssumption
<1>1. ASSUME NEW x \in {a, b, c, d} PROVE x \in Seq(S) /\ Len(x) = HashLen
  <2>1. x = [i \in 1..HashLen |-> x[i]]
    BY DEF IsDigest
  <2>2. \A i \in 1..HashLen : x[i] \in S
    OBVIOUS
  <2> HIDE DEF S
  <2> QED
    BY <1>0, <2>1, <2>2, FunctionIsSequence
<1> HIDE DEF S
<1>2. a \o b = c \o d
  BY ShaIsInjective DEF hash_pair
<1>3. ASSUME NEW i \in 1..HashLen PROVE a[i] = c[i] /\ b[i] = d[i]
  <2>1. (a \o b)[i] = a[i] /\ (c \o d)[i] = c[i]
    BY <1>0, <1>1
  <2>2. i + HashLen \in 1..(HashLen + HashLen)
    BY <1>0
  <2>3. (a \o b)[i + HashLen] = b[i] /\ (c \o d)[i + HashLen] = d[i]
    BY <1>0, <1>1, <2>2
  <2> QED
    BY <1>2, <2>1, <2>3
<1>4. a = c
  BY <1>3 DEF IsDigest
<1> QED
  BY <1>3, <1>4 DEF IsDigest

LEMMA AppendDigest ==
  ASSUME NEW s, Digests(s), NEW d, IsDigest(d)
  PROVE  /\ Digests(Append(s, d)) /\ Len(Append(s, d)) = Len(s) + 1
         /\ \A i \in 1..Len(s) : Append(s, d)[i] = s[i]
         /\ Append(s, d)[Len(s) + 1] = d
<1> DEFINE S == {s[i] : i \in 1..Len(s)} \cup {d}
<1>1. Len(s) \in Nat /\ s = [i \in 1..Len(s) |-> s[i]] /\ \A i \in 1..Len(s) : IsDigest(s[i])
  BY DEF Digests
<1>2. s \in Seq(S) /\ d \in S
  <2>1. \A i \in 1..Len(s) : s[i] \in S
    OBVIOUS
  <2>2. d \in S
    OBVIOUS
  <2> HIDE DEF S
  <2> QED
    BY <1>1, <2>1, <2>2, FunctionIsSequence
<1> HIDE DEF S
<1>3. /\ Append(s, d) \in Seq(S) /\ Len(Append(s, d)) = Len(s) + 1
      /\ \A i \in 1..Len(s) : Append(s, d)[i] = s[i]
      /\ Append(s, d)[Len(s) + 1] = d
  BY <1>2, AppendProperties
<1>4. Append(s, d) = [i \in 1..(Len(s) + 1) |-> Append(s, d)[i]]
  BY <1>3, LenProperties
<1>5. ASSUME NEW i \in 1..(Len(s) + 1) PROVE IsDigest(Append(s, d)[i])
  <2>1. i \in 1..Len(s) \/ i = Len(s) + 1
    BY <1>1
  <2> QED
    BY <1>1, <1>3, <2>1
<1> QED
  BY <1>1, <1>3, <1>4, <1>5 DEF Digests

LEMMA EmptyIsDigests == Digests(<<>>) /\ Len(<<>>) = 0
<1>1. Len(<<>>) = 0 /\ <<>> = [i \in 1..0 |-> <<>>[i]]
  OBVIOUS
<1> QED
  BY <1>1 DEF Digests

-----------------------------------------------------------------------------
(* The levels.                                                               *)

LEMMA Half ==
  ASSUME NEW n \in Nat
  PROVE  /\ n \div 2 \in Nat /\ (n + 1) \div 2 \in Nat
         /\ n % 2 \in {0, 1} /\ n = 2 * (n \div 2) + (n % 2)
         /\ 2 * ((n + 1) \div 2) = n + (n % 2)
         /\ n = 1 => (n + 1) \div 2 = 1
         /\ n # 0 => (n + 1) \div 2 # 0
         /\ n > 1 => (n + 1) \div 2 < n
BY SMT

LEMMA ReducedLevel ==
  ASSUME NEW level, Digests(level)
  PROVE  /\ Digests(reduce_level(level))
         /\ Len(reduce_level(level)) = (Len(level) + 1) \div 2
<1> DEFINE n == Len(level)
           m == (n + 1) \div 2
           r == reduce_level(level)
<1>1. n \in Nat /\ m \in Nat /\ 2 * m <= n + 1
  BY Half DEF Digests
<1>2. ASSUME NEW i \in 1..m
      PROVE  IsDigest(r[i])
  <2>1. r[i] = IF 2 * i <= n THEN hash_pair(level[2 * i - 1], level[2 * i]) ELSE level[2 * i - 1]
    BY DEF reduce_level
  <2>2. 2 * i - 1 \in 1..n
    BY <1>1
  <2> QED
    BY <2>1, <2>2, ShaIsDigest DEF hash_pair, Digests
<1>3. r = [i \in 1..m |-> r[i]]
  BY DEF reduce_level
<1>4. Len(r) = m
  <2>1. \A i \in 1..m : r[i] \in {r[j] : j \in 1..m}
    OBVIOUS
  <2> HIDE DEF r, m
  <2> QED
    BY <1>1, <1>3, <2>1, FunctionIsSequence
<1> QED
  BY <1>1, <1>2, <1>3, <1>4 DEF Digests

\* A function that is what Levels computes, as far as the k-th level.
LevelsTo(f, k, leaves) ==
  /\ f = [j \in 0..k |-> f[j]]
  /\ f[0] = leaves
  /\ \A j \in 1..k : f[j] = reduce_level(f[j - 1])

LEMMA LevelsExist ==
  ASSUME NEW leaves, NEW n \in Nat
  PROVE  \E f : LevelsTo(f, n, leaves)
<1> DEFINE Bad == {k \in 0..n : ~ \E f : LevelsTo(f, k, leaves)}
<1>1. 0 \notin Bad
  <2>1. LevelsTo([j \in 0..0 |-> leaves], 0, leaves)
    BY DEF LevelsTo
  <2> QED
    BY <2>1
<1>2. SUFFICES ASSUME Bad # {} PROVE FALSE
  OBVIOUS
<1>3. PICK k \in 1..n : k \in Bad /\ k - 1 \in 0..n /\ k - 1 \notin Bad
  <2>1. Bad \subseteq 0..n
    OBVIOUS
  <2> HIDE DEF Bad
  <2> QED
    BY <1>1, <1>2, <2>1, FirstRound
<1>4. PICK f : LevelsTo(f, k - 1, leaves)
  BY <1>3
<1> DEFINE g == [j \in 0..k |-> IF j = k THEN reduce_level(f[k - 1]) ELSE f[j]]
<1>5. LevelsTo(g, k, leaves)
  <2>1. g = [j \in 0..k |-> g[j]]
    OBVIOUS
  <2>2. g[0] = leaves
    BY <1>4 DEF LevelsTo
  <2>3. ASSUME NEW j \in 1..k PROVE g[j] = reduce_level(g[j - 1])
    <3>1. j \in 0..k /\ j - 1 \in 0..k /\ j - 1 # k
      OBVIOUS
    <3>2. g[j - 1] = f[j - 1]
      BY <3>1
    <3>3. CASE j = k
      BY <3>1, <3>2, <3>3
    <3>4. CASE j # k
      <4>0. j \in 1..(k - 1)
        BY <3>4
      <4>1. f[j] = reduce_level(f[j - 1])
        BY <1>4, <4>0 DEF LevelsTo
      <4> QED
        BY <3>1, <3>2, <3>4, <4>1
    <3> QED
      BY <3>3, <3>4
  <2> HIDE DEF g
  <2> QED
    BY <2>1, <2>2, <2>3 DEF LevelsTo
<1> QED
  BY <1>3, <1>5

LEMMA LevelsAre ==
  ASSUME NEW leaves, Len(leaves) \in Nat
  PROVE  LevelsTo(Levels(leaves), Len(leaves), leaves)
<1> DEFINE n == Len(leaves)
           IsLevels(f) == f = [k \in 0..n |-> IF k = 0 THEN leaves ELSE reduce_level(f[k - 1])]
           L == CHOOSE f : IsLevels(f)
<1>1. PICK f : LevelsTo(f, n, leaves)
  BY LevelsExist
<1>2. IsLevels(f)
  BY <1>1 DEF LevelsTo
<1>3. IsLevels(L)
  <2> HIDE DEF IsLevels
  <2> QED
    BY <1>2
<1>4. Levels(leaves) = L
  BY DEF Levels
<1> HIDE DEF L
<1> QED
  BY <1>3, <1>4 DEF LevelsTo

\* Every level is a sequence of digests; the levels shrink to one node.
LEMMA LevelFields ==
  ASSUME NEW leaves, Digests(leaves), leaves # <<>>
  PROVE  \A k \in 0..Len(leaves) :
           /\ Digests(Levels(leaves)[k])
           /\ Len(Levels(leaves)[k]) \in Nat \ {0}
           /\ Len(Levels(leaves)[k]) = 1 \/ Len(Levels(leaves)[k]) + k <= Len(leaves)
<1> DEFINE n == Len(leaves)
           L == Levels(leaves)
           Good(k) == /\ Digests(L[k]) /\ Len(L[k]) \in Nat \ {0}
                      /\ Len(L[k]) = 1 \/ Len(L[k]) + k <= n
           Bad == {k \in 0..n : ~Good(k)}
<1>1. n \in Nat \ {0}
  BY DEF Digests
<1>2. LevelsTo(L, n, leaves)
  BY <1>1, LevelsAre
<1> HIDE DEF L
<1>3. 0 \notin Bad
  BY <1>1, <1>2 DEF LevelsTo
<1>4. SUFFICES ASSUME Bad # {} PROVE FALSE
  BY DEF L
<1>5. PICK k \in 1..n : k \in Bad /\ k - 1 \in 0..n /\ k - 1 \notin Bad
  <2>1. Bad \subseteq 0..n
    OBVIOUS
  <2> HIDE DEF Bad
  <2> QED
    BY <1>1, <1>3, <1>4, <2>1, FirstRound
<1>6. Good(k - 1) /\ ~Good(k)
  BY <1>5
<1>7. L[k] = reduce_level(L[k - 1])
  BY <1>2 DEF LevelsTo
<1>8. Digests(L[k]) /\ Len(L[k]) = (Len(L[k - 1]) + 1) \div 2
  BY <1>6, <1>7, ReducedLevel
<1>9. Len(L[k]) \in Nat \ {0} /\ (Len(L[k]) = 1 \/ Len(L[k]) + k <= n)
  <2> DEFINE c == Len(L[k - 1])
  <2>1. c \in Nat \ {0} /\ (c = 1 \/ c + (k - 1) <= n)
    BY <1>6
  <2>2. Len(L[k]) = (c + 1) \div 2
    BY <1>8
  <2> HIDE DEF c
  <2> QED
    BY <1>1, <2>1, <2>2, Half
<1> QED
  BY <1>6, <1>8, <1>9

-----------------------------------------------------------------------------
(* The loops of merkle_proof and merkle_verify.                              *)

\* A function that is what ProofLoop computes, as far as the k-th round.
ProofTo(f, k, leaves, index) ==
  /\ f = [j \in 0..k |-> f[j]]
  /\ f[0] = [idx |-> index, proof |-> <<>>]
  /\ \A j \in 1..k : f[j] = ProofRound(f[j - 1], Levels(leaves)[j - 1])

LEMMA ProofLoopIs ==
  ASSUME NEW leaves, NEW index, Len(leaves) \in Nat
  PROVE  ProofTo(ProofLoop(leaves, index), Len(leaves), leaves, index)
<1> DEFINE n == Len(leaves)
           first == [idx |-> index, proof |-> <<>>]
           L == Levels(leaves)
           Bad == {k \in 0..n : ~ \E f : ProofTo(f, k, leaves, index)}
           IsLoop(f) == f = [k \in 0..n |-> IF k = 0 THEN first ELSE ProofRound(f[k - 1], L[k - 1])]
           R == CHOOSE f : IsLoop(f)
<1>1. ProofLoop(leaves, index) = R
  BY DEF ProofLoop
<1> HIDE DEF R, L, first
<1>2. 0 \notin Bad
  <2>1. ProofTo([j \in 0..0 |-> first], 0, leaves, index)
    BY DEF ProofTo, first
  <2> QED
    BY <2>1
<1>3. ASSUME Bad # {} PROVE FALSE
  <2>1. PICK k \in 1..n : k \in Bad /\ k - 1 \in 0..n /\ k - 1 \notin Bad
    <3>1. Bad \subseteq 0..n
      OBVIOUS
    <3> HIDE DEF Bad
    <3> QED
      BY <1>2, <1>3, <3>1, FirstRound
  <2>2. PICK f : ProofTo(f, k - 1, leaves, index)
    BY <2>1
  <2> DEFINE g == [j \in 0..k |-> IF j = k THEN ProofRound(f[k - 1], L[k - 1]) ELSE f[j]]
  <2>3. ProofTo(g, k, leaves, index)
    <3>1. g = [j \in 0..k |-> g[j]]
      OBVIOUS
    <3>2. g[0] = first
      BY <2>2 DEF ProofTo, first
    <3>3. ASSUME NEW j \in 1..k PROVE g[j] = ProofRound(g[j - 1], L[j - 1])
      <4>1. j \in 0..k /\ j - 1 \in 0..k /\ j - 1 # k
        OBVIOUS
      <4>2. g[j - 1] = f[j - 1]
        BY <4>1
      <4>3. CASE j = k
        BY <4>1, <4>2, <4>3
      <4>4. CASE j # k
        <5>1. j \in 1..(k - 1)
          BY <4>4
        <5>2. f[j] = ProofRound(f[j - 1], L[j - 1])
          BY <2>2, <5>1 DEF ProofTo, L
        <5> QED
          BY <4>1, <4>2, <4>4, <5>2
      <4> QED
        BY <4>3, <4>4
    <3> HIDE DEF g
    <3> QED
      BY <3>1, <3>2, <3>3 DEF ProofTo, L, first
  <2> QED
    BY <2>1, <2>3
<1>4. n \in 0..n
  OBVIOUS
<1>5. PICK f : ProofTo(f, n, leaves, index)
  BY <1>3, <1>4
<1>6. IsLoop(f)
  <2>1. f = [k \in 0..n |-> f[k]]
    BY <1>5 DEF ProofTo
  <2>2. f[0] = first /\ \A k \in 1..n : f[k] = ProofRound(f[k - 1], L[k - 1])
    BY <1>5 DEF ProofTo, L, first
  <2>3. ASSUME NEW k \in 0..n PROVE f[k] = IF k = 0 THEN first ELSE ProofRound(f[k - 1], L[k - 1])
    BY <2>2
  <2> QED
    BY <2>1, <2>3
<1>7. IsLoop(R)
  <2> HIDE DEF IsLoop
  <2> QED
    BY <1>6 DEF R
<1> QED
  BY <1>1, <1>7 DEF ProofTo, L, first

\* A function that is what VerifyLoop computes, as far as the k-th round.
VerifyTo(f, k, leaf, index, leaf_count, proof) ==
  /\ f = [j \in 0..k |-> f[j]]
  /\ f[0] = [idx |-> index, count |-> leaf_count, used |-> 0, h |-> leaf]
  /\ \A j \in 1..k : f[j] = VerifyRound(f[j - 1], proof)

LEMMA VerifyLoopIs ==
  ASSUME NEW leaf, NEW index, NEW n \in Nat, NEW proof
  PROVE  VerifyTo(VerifyLoop(leaf, index, n, proof), n, leaf, index, n, proof)
<1> DEFINE first == [idx |-> index, count |-> n, used |-> 0, h |-> leaf]
           Bad == {k \in 0..n : ~ \E f : VerifyTo(f, k, leaf, index, n, proof)}
           IsLoop(f) == f = [k \in 0..n |-> IF k = 0 THEN first ELSE VerifyRound(f[k - 1], proof)]
           R == CHOOSE f : IsLoop(f)
<1>1. VerifyLoop(leaf, index, n, proof) = R
  BY DEF VerifyLoop
<1> HIDE DEF R, first
<1>2. 0 \notin Bad
  <2>1. VerifyTo([j \in 0..0 |-> first], 0, leaf, index, n, proof)
    BY DEF VerifyTo, first
  <2> QED
    BY <2>1
<1>3. ASSUME Bad # {} PROVE FALSE
  <2>1. PICK k \in 1..n : k \in Bad /\ k - 1 \in 0..n /\ k - 1 \notin Bad
    <3>1. Bad \subseteq 0..n
      OBVIOUS
    <3> HIDE DEF Bad
    <3> QED
      BY <1>2, <1>3, <3>1, FirstRound
  <2>2. PICK f : VerifyTo(f, k - 1, leaf, index, n, proof)
    BY <2>1
  <2> DEFINE g == [j \in 0..k |-> IF j = k THEN VerifyRound(f[k - 1], proof) ELSE f[j]]
  <2>3. VerifyTo(g, k, leaf, index, n, proof)
    <3>1. g = [j \in 0..k |-> g[j]]
      OBVIOUS
    <3>2. g[0] = first
      BY <2>2 DEF VerifyTo, first
    <3>3. ASSUME NEW j \in 1..k PROVE g[j] = VerifyRound(g[j - 1], proof)
      <4>1. j \in 0..k /\ j - 1 \in 0..k /\ j - 1 # k
        OBVIOUS
      <4>2. g[j - 1] = f[j - 1]
        BY <4>1
      <4>3. CASE j = k
        BY <4>1, <4>2, <4>3
      <4>4. CASE j # k
        <5>1. j \in 1..(k - 1)
          BY <4>4
        <5>2. f[j] = VerifyRound(f[j - 1], proof)
          BY <2>2, <5>1 DEF VerifyTo
        <5> QED
          BY <4>1, <4>2, <4>4, <5>2
      <4> QED
        BY <4>3, <4>4
    <3> HIDE DEF g
    <3> QED
      BY <3>1, <3>2, <3>3 DEF VerifyTo, first
  <2> QED
    BY <2>1, <2>3
<1>4. n \in 0..n
  OBVIOUS
<1>5. PICK f : VerifyTo(f, n, leaf, index, n, proof)
  BY <1>3, <1>4
<1>6. IsLoop(f)
  <2>1. f = [k \in 0..n |-> f[k]]
    BY <1>5 DEF VerifyTo
  <2>2. f[0] = first /\ \A k \in 1..n : f[k] = VerifyRound(f[k - 1], proof)
    BY <1>5 DEF VerifyTo, first
  <2>3. ASSUME NEW k \in 0..n PROVE f[k] = IF k = 0 THEN first ELSE VerifyRound(f[k - 1], proof)
    BY <2>2
  <2> QED
    BY <2>1, <2>3
<1>7. IsLoop(R)
  <2> HIDE DEF IsLoop
  <2> QED
    BY <1>6 DEF R
<1> QED
  BY <1>1, <1>7 DEF VerifyTo, first

-----------------------------------------------------------------------------
(* One round of both loops.                                                  *)

\* The node at idx has a sibling at its level.
Paired(idx, count) == count > 1 /\ ~IsPromoted(idx, count)

\* What becomes of a node and its sibling one level up.
Joined(idx, node, sibling) ==
  IF idx % 2 = 0 THEN hash_pair(node, sibling) ELSE hash_pair(sibling, node)

LEMMA SiblingIsThere ==
  ASSUME NEW idx \in Nat, NEW count \in Nat, idx < count, Paired(idx, count)
  PROVE  Sibling(idx) + 1 \in 1..count
<1>1. CASE idx % 2 = 0
  <2>1. idx # count - 1
    BY <1>1, Half, SMT DEF Paired, IsPromoted
  <2> QED
    BY <1>1, <2>1 DEF Sibling
<1>2. CASE idx % 2 # 0
  <2>1. idx # 0
    BY <1>2
  <2> QED
    BY <1>2, <2>1 DEF Sibling
<1> QED
  BY <1>1, <1>2

\* The parent of a node is where the loops look for it.
LEMMA ParentOf ==
  ASSUME NEW level, Digests(level), NEW idx \in Nat, idx < Len(level), Len(level) > 1
  PROVE  /\ idx \div 2 \in Nat /\ idx \div 2 < Len(reduce_level(level))
         /\ ~Paired(idx, Len(level)) =>
              reduce_level(level)[idx \div 2 + 1] = level[idx + 1]
         /\ Paired(idx, Len(level)) =>
              reduce_level(level)[idx \div 2 + 1]
                = Joined(idx, level[idx + 1], level[Sibling(idx) + 1])
<1> DEFINE n == Len(level)
           i == idx \div 2 + 1
           m == (n + 1) \div 2
<1>1. n \in Nat /\ m \in Nat /\ 2 * m = n + (n % 2) /\ n % 2 \in {0, 1} /\ n > 1
      /\ n = 2 * (n \div 2) + (n % 2) /\ n \div 2 \in Nat
  BY Half DEF Digests
<1>2. Len(reduce_level(level)) = m
  BY ReducedLevel
<1>3. idx \div 2 \in Nat /\ idx % 2 \in {0, 1} /\ 2 * (i - 1) = idx - (idx % 2)
  BY Half
<1>4. idx < n
  OBVIOUS
<1> DEFINE r == reduce_level(level)
<1>5. \A j \in 1..m :
        r[j] = IF 2 * j <= n THEN hash_pair(level[2 * j - 1], level[2 * j]) ELSE level[2 * j - 1]
  BY DEF reduce_level
<1>6. IsPromoted(idx, n) <=> idx = n - 1 /\ n % 2 = 1
  BY DEF IsPromoted
<1> HIDE DEF n, m, r
<1>7. i \in 1..m
  BY <1>1, <1>3, <1>4
<1>8. CASE idx % 2 = 0
  <2>1. 2 * i = idx + 2 /\ 2 * i - 1 = idx + 1
    BY <1>3, <1>8
  <2>2. 2 * i <= n <=> ~IsPromoted(idx, n)
    BY <1>1, <1>4, <1>6, <1>8, <2>1, <1>3
  <2>3. Sibling(idx) + 1 = 2 * i
    BY <1>8, <2>1 DEF Sibling
  <2>4. CASE 2 * i <= n
    <3>1. r[i] = hash_pair(level[idx + 1], level[Sibling(idx) + 1])
      BY <1>5, <1>7, <2>1, <2>3, <2>4
    <3> QED
      BY <1>1, <1>2, <1>3, <1>7, <1>8, <2>2, <2>4, <3>1 DEF Paired, Joined, n, m, r
  <2>5. CASE ~(2 * i <= n)
    <3>1. r[i] = level[idx + 1]
      BY <1>5, <1>7, <2>1, <2>5
    <3> QED
      BY <1>1, <1>2, <1>3, <1>7, <2>2, <2>5, <3>1 DEF Paired, n, m, r
  <2> QED
    BY <2>4, <2>5
<1>9. CASE idx % 2 = 1
  <2>1. 2 * i = idx + 1
    BY <1>3, <1>9
  <2>2. 2 * i <= n /\ ~IsPromoted(idx, n)
    BY <1>1, <1>3, <1>4, <1>6, <1>9, <2>1
  <2>3. 2 * i - 1 = Sibling(idx) + 1
    BY <1>9, <2>1 DEF Sibling
  <2>4. r[i] = hash_pair(level[Sibling(idx) + 1], level[idx + 1])
    BY <1>5, <1>7, <2>1, <2>2, <2>3
  <2> QED
    BY <1>1, <1>2, <1>3, <1>7, <1>9, <2>2, <2>4 DEF Paired, Joined, n, m, r
<1> QED
  BY <1>3, <1>8, <1>9

\* The two loops side by side, after some rounds: where they are, and that the digest
\* computed from the claim is the node of the tree if and only if the claim was right
\* so far.
Together(leaves, index, leaf, pf, k) ==
  LET p == ProofLoop(leaves, index)[k]
      v == VerifyLoop(leaf, index, Len(leaves), pf)[k]
      level == Levels(leaves)[k]
  IN  /\ p.idx \in Nat /\ p.idx < Len(level) /\ Digests(p.proof)
      /\ v.idx = p.idx /\ v.count = Len(level) /\ v.used = Len(p.proof) /\ IsDigest(v.h)
      /\ Len(p.proof) <= Len(pf) =>
           (v.h = level[p.idx + 1] <=>
              /\ leaf = leaves[index + 1]
              /\ \A j \in 1..Len(p.proof) : pf[j] = p.proof[j])

LEMMA JoinedIsDigest == \A idx, a, b : IsDigest(Joined(idx, a, b))
BY ShaIsDigest DEF Joined, hash_pair

LEMMA JoinedIsInjective ==
  \A idx, a, b, c, d :
    IsDigest(a) /\ IsDigest(b) /\ IsDigest(c) /\ IsDigest(d)
      => (Joined(idx, a, b) = Joined(idx, c, d) <=> a = c /\ b = d)
BY PairIsInjective DEF Joined

LEMMA MoreThanOne == \A m \in Nat \ {0} : m # 1 => m > 1
OBVIOUS

LEMMA RoundTogether ==
  ASSUME NEW leaves, Digests(leaves), leaves # <<>>,
         NEW index \in 0..(Len(leaves) - 1), NEW leaf, NEW pf, Digests(pf),
         NEW k \in 1..Len(leaves), Together(leaves, index, leaf, pf, k - 1)
  PROVE  Together(leaves, index, leaf, pf, k)
<1> DEFINE n == Len(leaves)
           p == ProofLoop(leaves, index)[k - 1]
           q == ProofLoop(leaves, index)[k]
           v == VerifyLoop(leaf, index, n, pf)[k - 1]
           w == VerifyLoop(leaf, index, n, pf)[k]
           level == Levels(leaves)[k - 1]
           above == Levels(leaves)[k]
           Right(f) == leaf = leaves[index + 1] /\ \A j \in 1..Len(f) : pf[j] = f[j]
           sibling == level[Sibling(p.idx) + 1]
<1>1. n \in Nat /\ k - 1 \in 0..n /\ Len(pf) \in Nat
  BY DEF Digests
<1>2. above = reduce_level(level)
  BY <1>1, LevelsAre DEF LevelsTo
<1>3. q = ProofRound(p, level)
  BY <1>1, ProofLoopIs DEF ProofTo
<1>4. w = VerifyRound(v, pf)
  <2>1. VerifyTo(VerifyLoop(leaf, index, n, pf), n, leaf, index, n, pf)
    BY <1>1, VerifyLoopIs
  <2> QED
    BY <2>1 DEF VerifyTo
<1>5. Digests(level) /\ Len(level) \in Nat \ {0}
  BY <1>1, LevelFields
<1>6. /\ p.idx \in Nat /\ p.idx < Len(level) /\ Digests(p.proof)
      /\ v.idx = p.idx /\ v.count = Len(level) /\ v.used = Len(p.proof) /\ IsDigest(v.h)
      /\ Len(p.proof) <= Len(pf) => (v.h = level[p.idx + 1] <=> Right(p.proof))
  BY DEF Together
<1>7. SUFFICES /\ q.idx \in Nat /\ q.idx < Len(above) /\ Digests(q.proof)
               /\ w.idx = q.idx /\ w.count = Len(above) /\ w.used = Len(q.proof) /\ IsDigest(w.h)
               /\ Len(q.proof) <= Len(pf) => (w.h = above[q.idx + 1] <=> Right(q.proof))
  BY DEF Together
<1>8. Len(p.proof) \in Nat /\ IsDigest(level[p.idx + 1])
  <2> HIDE DEF p, level
  <2>1. p.idx + 1 \in 1..Len(level)
    BY <1>5, <1>6
  <2> QED
    BY <1>5, <1>6, <2>1 DEF Digests
<1> HIDE DEF p, q, v, w, level, above, n
<1>9. ASSUME Len(level) > 1
       PROVE  /\ p.idx \div 2 \in Nat /\ p.idx \div 2 < Len(above)
              /\ Len(above) = (Len(level) + 1) \div 2
              /\ ~Paired(p.idx, Len(level)) => above[p.idx \div 2 + 1] = level[p.idx + 1]
              /\ Paired(p.idx, Len(level)) =>
                   above[p.idx \div 2 + 1] = Joined(p.idx, level[p.idx + 1], sibling)
  <2>1. Len(above) = (Len(level) + 1) \div 2
    BY <1>2, <1>5, ReducedLevel, Zenon
  <2>2. p.idx \in Nat /\ p.idx < Len(level) /\ Digests(level)
    BY <1>5, <1>6
  <2>3. /\ p.idx \div 2 \in Nat /\ p.idx \div 2 < Len(reduce_level(level))
        /\ ~Paired(p.idx, Len(level)) => reduce_level(level)[p.idx \div 2 + 1] = level[p.idx + 1]
        /\ Paired(p.idx, Len(level)) =>
             reduce_level(level)[p.idx \div 2 + 1] = Joined(p.idx, level[p.idx + 1], sibling)
    BY <1>9, <2>2, ParentOf, Zenon
  <2> QED
    BY <1>2, <2>1, <2>3, Zenon
<1>10. CASE Len(level) = 1
  <2>1. q = p /\ w = v
    BY <1>3, <1>4, <1>6, <1>10 DEF ProofRound, VerifyRound
  <2>2. p.idx = 0 /\ Len(above) = 1
    <3>1. Len(above) = (1 + 1) \div 2
      BY <1>2, <1>5, <1>10, ReducedLevel
    <3> QED
      BY <1>6, <1>10, <3>1
  <2>3. above[1] = level[1]
    BY <1>2, <1>10 DEF reduce_level
  <2> QED
    BY <1>6, <1>10, <2>1, <2>2, <2>3
<1>11. CASE Len(level) # 1 /\ ~Paired(p.idx, Len(level))
  <2>1. Len(level) > 1 /\ IsPromoted(p.idx, Len(level))
    <3>1. Len(level) # 1
      BY <1>11, Zenon
    <3>2. Len(level) > 1
      BY <1>5, <3>1, MoreThanOne, Zenon
    <3> QED
      BY <1>11, <3>2, Zenon DEF Paired
  <2>2. q.idx = p.idx \div 2 /\ q.proof = p.proof
    BY <1>3, <2>1 DEF ProofRound
  <2>3. w.idx = p.idx \div 2 /\ w.count = (Len(level) + 1) \div 2 /\ w.used = v.used /\ w.h = v.h
    BY <1>4, <1>6, <2>1 DEF VerifyRound
  <2>4. /\ p.idx \div 2 \in Nat /\ p.idx \div 2 < Len(above)
        /\ above[p.idx \div 2 + 1] = level[p.idx + 1]
        /\ Len(above) = (Len(level) + 1) \div 2
    BY <1>11, <1>9, <2>1
  <2> QED
    BY <1>6, <2>2, <2>3, <2>4
<1>12. CASE Paired(p.idx, Len(level))
  <2>1. Len(level) > 1 /\ ~IsPromoted(p.idx, Len(level))
    BY <1>12 DEF Paired
  <2>2. IsDigest(sibling)
    BY <1>5, <1>6, <1>12, SiblingIsThere DEF Digests
  <2>3. q.idx = p.idx \div 2 /\ q.proof = Append(p.proof, sibling)
    BY <1>3, <2>1 DEF ProofRound
  <2>4. /\ w.idx = p.idx \div 2 /\ w.count = (Len(level) + 1) \div 2 /\ w.used = v.used + 1
        /\ w.h = IF v.used >= Len(pf) THEN v.h ELSE Joined(p.idx, v.h, pf[v.used + 1])
    <3>1. ~(v.count <= 1) /\ ~IsPromoted(v.idx, v.count)
      BY <1>5, <1>6, <2>1
    <3>2. w = [idx |-> v.idx \div 2, count |-> (v.count + 1) \div 2, used |-> v.used + 1,
               h |-> IF v.used >= Len(pf) THEN v.h ELSE Joined(v.idx, v.h, pf[v.used + 1])]
      BY <1>4, <3>1, Zenon DEF VerifyRound, Joined
    <3> QED
      BY <1>6, <3>2, Zenon
  <2>5. /\ p.idx \div 2 \in Nat /\ p.idx \div 2 < Len(above)
        /\ above[p.idx \div 2 + 1] = Joined(p.idx, level[p.idx + 1], sibling)
        /\ Len(above) = (Len(level) + 1) \div 2
    BY <1>12, <1>9, <2>1
  <2> HIDE DEF sibling
  <2>6. /\ Digests(q.proof) /\ Len(q.proof) = Len(p.proof) + 1
        /\ \A j \in 1..Len(p.proof) : q.proof[j] = p.proof[j]
        /\ q.proof[Len(p.proof) + 1] = sibling
    BY <1>6, <2>2, <2>3, AppendDigest
  <2>7. IsDigest(w.h)
    BY <1>6, <2>4, JoinedIsDigest
  <2>8. ASSUME Len(q.proof) <= Len(pf)
        PROVE  w.h = above[q.idx + 1] <=> Right(q.proof)
    <3> DEFINE u == Len(p.proof)
    <3>1. u \in Nat /\ u + 1 \in 1..Len(pf) /\ ~(u >= Len(pf)) /\ u <= Len(pf)
      BY <1>1, <1>8, <2>6, <2>8
    <3>2. IsDigest(pf[u + 1])
      BY <3>1 DEF Digests
    <3>3. w.h = Joined(p.idx, v.h, pf[u + 1])
      BY <1>6, <2>4, <3>1
    <3>4. w.h = above[q.idx + 1] <=> v.h = level[p.idx + 1] /\ pf[u + 1] = sibling
      <4>1. above[q.idx + 1] = Joined(p.idx, level[p.idx + 1], sibling)
        BY <2>3, <2>5
      <4>2. IsDigest(v.h)
        BY <1>6
      <4> HIDE DEF u
      <4>3. IsDigest(level[p.idx + 1])
        BY <1>8
      <4>4. Joined(p.idx, v.h, pf[u + 1]) = Joined(p.idx, level[p.idx + 1], sibling)
              <=> v.h = level[p.idx + 1] /\ pf[u + 1] = sibling
        BY <2>2, <3>2, <4>2, <4>3, JoinedIsInjective
      <4> QED
        BY <3>3, <4>1, <4>4, Zenon
    <3>5. Right(q.proof) <=> Right(p.proof) /\ pf[u + 1] = sibling
      <4>1. 1..Len(q.proof) = (1..u) \cup {u + 1}
        BY <2>6, <3>1
      <4> HIDE DEF u
      <4> QED
        BY <2>6, <4>1 DEF u
    <3> QED
      BY <1>6, <3>1, <3>4, <3>5
  <2> QED
    BY <1>6, <2>3, <2>4, <2>5, <2>6, <2>7, <2>8
<1> QED
  BY <1>10, <1>11, <1>12

\* The loops stay together to their ends.
LEMMA LoopsTogether ==
  ASSUME NEW leaves, Digests(leaves), leaves # <<>>,
         NEW index \in 0..(Len(leaves) - 1), NEW leaf, IsDigest(leaf), NEW pf, Digests(pf)
  PROVE  Together(leaves, index, leaf, pf, Len(leaves))
<1> DEFINE n == Len(leaves)
           Bad == {k \in 0..n : ~Together(leaves, index, leaf, pf, k)}
<1>1. n \in Nat /\ Len(pf) \in Nat /\ 0 \in 0..n
  BY DEF Digests
<1>2. 0 \notin Bad
  <2>1. ProofLoop(leaves, index)[0] = [idx |-> index, proof |-> <<>>]
    BY <1>1, ProofLoopIs DEF ProofTo
  <2>2. VerifyLoop(leaf, index, n, pf)[0] = [idx |-> index, count |-> n, used |-> 0, h |-> leaf]
    BY <1>1, VerifyLoopIs DEF VerifyTo
  <2>3. Levels(leaves)[0] = leaves
    BY <1>1, LevelsAre DEF LevelsTo
  <2> QED
    BY <1>1, <2>1, <2>2, <2>3, EmptyIsDigests DEF Together
<1>3. SUFFICES ASSUME Bad # {} PROVE FALSE
  BY <1>1
<1>4. PICK k \in 1..n : k \in Bad /\ k - 1 \in 0..n /\ k - 1 \notin Bad
  <2>1. Bad \subseteq 0..n
    OBVIOUS
  <2> HIDE DEF Bad
  <2> QED
    BY <1>1, <1>2, <1>3, <2>1, FirstRound
<1>5. Together(leaves, index, leaf, pf, k - 1)
  BY <1>4
<1> QED
  BY <1>4, <1>5, RoundTogether

\* A claim verifies under the root of a payload if and only if it is the leaf at that
\* index, with the proof that merkle_proof gives for it: at every number of leaves and
\* for every index and proof (merkle.cpp:51-100).
THEOREM VerifyIsExactForAll ==
  ASSUME NEW leaves, Digests(leaves), leaves # <<>>,
         NEW index \in Nat, NEW leaf, IsDigest(leaf), NEW pf, Digests(pf)
  PROVE  merkle_verify(leaf, index, Len(leaves), pf, merkle_root(leaves))
           <=> /\ index < Len(leaves)
               /\ leaf = leaves[index + 1]
               /\ pf = merkle_proof(leaves, index)
<1> DEFINE n == Len(leaves)
           p == ProofLoop(leaves, index)[n]
           v == VerifyLoop(leaf, index, n, pf)[n]
           top == Levels(leaves)[n]
<1>1. n \in Nat /\ n # 0
  <2>1. n = 0 => leaves = <<>>
    BY DEF Digests
  <2> QED
    BY <2>1 DEF Digests
<1>2. merkle_verify(leaf, index, n, pf, merkle_root(leaves))
        <=> index < n /\ v.used = Len(pf) /\ v.h = top[1]
  BY <1>1 DEF merkle_verify, merkle_root
<1>3. SUFFICES ASSUME index < n
               PROVE  v.used = Len(pf) /\ v.h = top[1]
                        <=> leaf = leaves[index + 1] /\ pf = merkle_proof(leaves, index)
  BY <1>2
<1>4. merkle_proof(leaves, index) = p.proof
  BY <1>1, <1>3 DEF merkle_proof
<1>5. Together(leaves, index, leaf, pf, n)
  BY <1>1, <1>3, LoopsTogether
<1>6. Len(top) = 1
  <2>1. Len(top) \in Nat \ {0} /\ (Len(top) = 1 \/ Len(top) + n <= n)
    <3>1. n \in 0..n
      BY <1>1
    <3> QED
      BY <3>1, LevelFields
  <2> QED
    BY <1>1, <2>1
<1>7. /\ p.idx = 0 /\ Digests(p.proof) /\ v.used = Len(p.proof)
      /\ Len(p.proof) <= Len(pf) =>
           (v.h = top[1] <=> /\ leaf = leaves[index + 1]
                             /\ \A j \in 1..Len(p.proof) : pf[j] = p.proof[j])
  BY <1>5, <1>6 DEF Together
<1> HIDE DEF p, v, top
<1>8. pf = p.proof <=> /\ Len(p.proof) = Len(pf)
                       /\ \A j \in 1..Len(p.proof) : pf[j] = p.proof[j]
  BY <1>7 DEF Digests
<1>9. Len(p.proof) \in Nat /\ Len(pf) \in Nat
  BY <1>7 DEF Digests
<1> QED
  BY <1>4, <1>7, <1>8, <1>9
=============================================================================
