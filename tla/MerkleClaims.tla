---------------------------- MODULE MerkleClaims ----------------------------
(***************************************************************************)
(* The tree of merkle.cpp checked over bounded inputs.  A claim (a block,  *)
(* an index and a proof) starts as what the seeder sends for a leaf of a   *)
(* payload, and is then altered one step at a time.                        *)
(***************************************************************************)
EXTENDS Merkle, FiniteSets, TLC

CONSTANTS
  MaxLeaves,  \* the largest payload, in blocks
  MaxEdited,  \* the largest payload whose claims are altered
  MaxEdits    \* the alterations of one claim

ASSUME ClaimBounds == MaxLeaves \in Nat /\ MaxEdited \in Nat /\ MaxEdits \in Nat

VARIABLES
  payload,  \* the blocks the signed root is computed from
  block,    \* the claimed block
  index,    \* the claimed index
  proof,    \* the claimed proof
  edits     \* alterations made so far

claimVars == <<payload, block, index, proof, edits>>

\* Payloads of distinct one-cell blocks (the same bytes twice would make two
\* indices interchangeable), in one order per size.
Payloads == {[i \in 1..n |-> <<[atom |-> i]>>] : n \in 1..MaxLeaves}

LeavesOf(blocks) == [i \in 1..Len(blocks) |-> hash_leaf(blocks[i])]

RootOf(blocks) == merkle_root(LeavesOf(blocks))

Accepted == merkle_verify_block(block, index, Len(payload), proof, RootOf(payload))

\* Every digest of the tree.
Nodes ==
  LET level == Levels(LeavesOf(payload))
  IN  UNION {{level[k][i] : i \in 1..Len(level[k])} : k \in 0..Len(payload)}

ClaimInit ==
  /\ payload \in Payloads
  /\ index \in 0..(Len(payload) - 1)
  /\ block = payload[index + 1]
  /\ proof = merkle_proof(LeavesOf(payload), index)
  /\ edits = 0

Edit == edits < MaxEdits /\ Len(payload) <= MaxEdited /\ edits' = edits + 1

\* Another block of the payload, or the concatenation of two digests of the tree
\* (the bytes a pair's digest is computed from).
OtherBlock ==
  /\ Edit
  /\ block' \in {payload[i] : i \in 1..Len(payload)} \cup {l \o r : l, r \in Nodes}
  /\ UNCHANGED <<payload, index, proof>>

OtherIndex ==
  /\ Edit
  /\ index' \in 0..Len(payload)
  /\ UNCHANGED <<payload, block, proof>>

OtherNode ==
  /\ Edit
  /\ \E i \in 1..Len(proof), h \in Nodes : proof' = [proof EXCEPT ![i] = h]
  /\ UNCHANGED <<payload, block, index>>

LongerProof ==
  /\ Edit
  /\ \E h \in Nodes : proof' = Append(proof, h)
  /\ UNCHANGED <<payload, block, index>>

ShorterProof ==
  /\ Edit
  /\ proof # <<>>
  /\ proof' \in {Tail(proof), SubSeq(proof, 1, Len(proof) - 1)}
  /\ UNCHANGED <<payload, block, index>>

ClaimNext == OtherBlock \/ OtherIndex \/ OtherNode \/ LongerProof \/ ShorterProof

ClaimSpec == ClaimInit /\ [][ClaimNext]_claimVars

-----------------------------------------------------------------------------
(* The reference: the tree hash and the audit path of RFC 6962, which split  *)
(* n leaves at the largest power of two below n.                             *)

PowerOfTwo[e \in Nat] == IF e = 0 THEN 1 ELSE 2 * PowerOfTwo[e - 1]

SplitAt(n) == CHOOSE k \in 1..(n - 1) : (\E e \in 0..n : k = PowerOfTwo[e]) /\ 2 * k >= n

\* Leaves from..to, and the last one of their left half.
Spans(leaves) == (1..Len(leaves)) \X (1..Len(leaves))
Mid(from, to) == from + SplitAt(to - from + 1) - 1

\* The tree hash of a span.
TreeHash(leaves) ==
  LET hash[s \in Spans(leaves)] ==
        LET from == s[1]
            to == s[2]
        IN  IF from >= to THEN leaves[from]
            ELSE hash_pair(hash[<<from, Mid(from, to)>>], hash[<<Mid(from, to) + 1, to>>])
  IN  hash

\* The siblings of leaf m on the way to the root of a span, lowest first.
AuditPaths(leaves, m) ==
  LET hash == TreeHash(leaves)
      path[s \in Spans(leaves)] ==
        LET from == s[1]
            to == s[2]
        IN  IF from >= to THEN <<>>
            ELSE IF m <= Mid(from, to)
            THEN Append(path[<<from, Mid(from, to)>>], hash[<<Mid(from, to) + 1, to>>])
            ELSE Append(path[<<Mid(from, to) + 1, to>>], hash[<<from, Mid(from, to)>>])
  IN  path

\* Reducing level by level with promotion gives the root of the reference tree:
\* merkle_root and its loop over reduce_level (merkle.cpp:39-49).
RootIsTreeHash ==
  RootOf(payload) = TreeHash(LeavesOf(payload))[<<1, Len(payload)>>]

\* The proof built level by level, skipping the levels where the leaf's ancestor
\* is promoted, is the reference audit path: merkle_proof (merkle.cpp:51-70).
ProofIsAuditPath ==
  \A i \in 1..Len(payload) :
    merkle_proof(LeavesOf(payload), i - 1) = AuditPaths(LeavesOf(payload), i)[<<1, Len(payload)>>]

\* merkle_verify accepts a claim if and only if it is the block that the signed root
\* holds at that index, with that leaf's own proof: what the seeder builds is accepted
\* at every size and index, and an inner node's preimage, a neighbour's proof or a
\* proof with a node too many is refused (merkle.cpp:72-99).
VerifyIsExact ==
  Accepted <=> /\ index < Len(payload)
               /\ block = payload[index + 1]
               /\ proof = merkle_proof(LeavesOf(payload), index)
=============================================================================
