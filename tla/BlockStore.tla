----------------------------- MODULE BlockStore -----------------------------
(***************************************************************************)
(* What the receiver relies on in an IBlockStore (transport.h): a block is *)
(* kept as it was put, under its index, for as long as the store lives; a  *)
(* put may be refused.                                                     *)
(***************************************************************************)
CONSTANTS
  Index,   \* the indices of the payload's blocks
  Block    \* what put_block may be handed

VARIABLE blocks   \* the blocks has_block answers true for, by index

Init == blocks = [i \in {} |-> {}]

Keep(i, b) ==
  /\ i \notin DOMAIN blocks
  /\ blocks' = [j \in DOMAIN blocks \cup {i} |-> IF j = i THEN b ELSE blocks[j]]

Next == \E i \in Index, b \in Block : Keep(i, b)

Spec == Init /\ [][Next]_blocks
=============================================================================
