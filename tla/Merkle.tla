------------------------------- MODULE Merkle -------------------------------
(***************************************************************************)
(* The Merkle tree over a package's payload blocks (merkle.cpp).           *)
(*                                                                         *)
(* A byte string is a sequence of cells, a cell standing for a run of      *)
(* bytes that is never split.  SHA-256 is a collision-free function: the   *)
(* k-th cell of a digest names the whole string that was hashed.  As in    *)
(* the code there is no tag that tells a leaf's digest from a pair's: both *)
(* are Sha256 of a string, so a block whose bytes are two digests hashes   *)
(* to what hash_pair gives for them.                                       *)
(***************************************************************************)
EXTENDS Naturals, Sequences

CONSTANTS
  HashLen,    \* kSha256Len: the number of cells of a digest
  ZeroCell    \* a cell of zero bytes (the root of an empty tree)

ASSUME HashLenAssumption == HashLen \in Nat \ {0}

Sha256(bytes) == [k \in 1..HashLen |-> [sha |-> bytes, cell |-> k]]

hash_leaf(block) == Sha256(block)

hash_pair(left, right) == Sha256(left \o right)

\* One level up: neighbours are paired, an unpaired last node is promoted.
reduce_level_Doubling(level) ==
  [i \in 1..((Len(level) + 1) \div 2) |->
     IF 2 * i <= Len(level) THEN hash_pair(level[2 * i - 1], level[2 * i])
                            ELSE hash_pair(level[2 * i - 1], level[2 * i - 1])]
reduce_level(level) ==
  [i \in 1..((Len(level) + 1) \div 2) |->
     IF 2 * i <= Len(level) THEN hash_pair(level[2 * i - 1], level[2 * i])
                            ELSE level[2 * i - 1]]

\* The level reached after k reductions.  The code's loops stop at the first level
\* of one node; reduce_level leaves such a level alone.
Levels(leaves) ==
  LET level[k \in 0..Len(leaves)] == IF k = 0 THEN leaves ELSE reduce_level(level[k - 1])
  IN  level

merkle_root(leaves) ==
  IF leaves = <<>> THEN [k \in 1..HashLen |-> ZeroCell]
                   ELSE Levels(leaves)[Len(leaves)][1]

\* idx is the unpaired last node of a level of count nodes.
IsPromoted_AnyLast(idx, count) == idx = count - 1
IsPromoted(idx, count) == idx = count - 1 /\ count % 2 = 1

Sibling(idx) == IF idx % 2 = 0 THEN idx + 1 ELSE idx - 1

\* One round of merkle_proof's loop, at the given level.
ProofRound(s, level) ==
  IF Len(level) <= 1 THEN s
  ELSE [idx   |-> s.idx \div 2,
        proof |-> IF IsPromoted(s.idx, Len(level)) THEN s.proof
                  ELSE Append(s.proof, level[Sibling(s.idx) + 1])]

ProofLoop(leaves, index) ==
  LET level == Levels(leaves)
      loop[k \in 0..Len(leaves)] ==
        IF k = 0 THEN [idx |-> index, proof |-> <<>>] ELSE ProofRound(loop[k - 1], level[k - 1])
  IN  loop

merkle_proof(leaves, index) ==
  IF index >= Len(leaves) THEN <<>> ELSE ProofLoop(leaves, index)[Len(leaves)].proof

\* One round of merkle_verify's loop.  A round that finds the proof used up returns
\* false in the code; here the loop goes on counting what it would have used.
VerifyRound(s, proof) ==
  IF s.count <= 1 THEN s
  ELSE [idx   |-> s.idx \div 2,
        count |-> (s.count + 1) \div 2,
        used  |-> IF IsPromoted(s.idx, s.count) THEN s.used ELSE s.used + 1,
        h     |-> IF IsPromoted(s.idx, s.count) \/ s.used >= Len(proof) THEN s.h
                  ELSE IF s.idx % 2 = 0 THEN hash_pair(s.h, proof[s.used + 1])
                                        ELSE hash_pair(proof[s.used + 1], s.h)]

VerifyLoop(leaf, index, leaf_count, proof) ==
  LET loop[k \in 0..leaf_count] ==
        IF k = 0 THEN [idx |-> index, count |-> leaf_count, used |-> 0, h |-> leaf]
                 ELSE VerifyRound(loop[k - 1], proof)
  IN  loop

merkle_verify_AnyLength(leaf, index, leaf_count, proof, root) ==
  /\ leaf_count # 0
  /\ index < leaf_count
  /\ LET end == VerifyLoop(leaf, index, leaf_count, proof)[leaf_count]
     IN  end.used <= Len(proof) /\ end.h = root
merkle_verify(leaf, index, leaf_count, proof, root) ==
  /\ leaf_count # 0
  /\ index < leaf_count
  /\ LET end == VerifyLoop(leaf, index, leaf_count, proof)[leaf_count]
     IN  end.used = Len(proof) /\ end.h = root

merkle_verify_block(block, index, leaf_count, proof, root) ==
  merkle_verify(hash_leaf(block), index, leaf_count, proof, root)

=============================================================================
