-------------------------- MODULE SeederConstruct ---------------------------
(***************************************************************************)
(* The constructor of OtaSeeder over a package that parses: it keeps the   *)
(* manifest's block size in 16 bits and walks the payload with it, hashing *)
(* a leaf per block.  A leaf is named by the bytes it is the hash of.      *)
(***************************************************************************)
EXTENDS Integers, Sequences

CONSTANTS
  U16, U32,     \* how many values a uint16_t, and a uint32_t, has
  BlockSizes,   \* manifest.block_size
  Lengths       \* payload_len_

\* The constructor ends, and makes the manifest's leaves, only for a block size that
\* is not zero and keeps its value in 16 bits, and for a payload that ends a block
\* short of 32 bits: off would pass it by and begin again at the front.
\* package_parse checks none of these.
ASSUME SizesFit ==
  /\ U16 \in Nat \ {0} /\ BlockSizes \subseteq 1..(U16 - 1)
  /\ U32 \in Nat \ {0} /\ Lengths \subseteq Nat
  /\ \A n \in Lengths, b \in BlockSizes : n + b <= U32

VARIABLES
  manifest_block_size, payload_len,   \* the package
  off, leaves,                        \* the loop
  valid                               \* valid_: the constructor is through

constructVars == <<manifest_block_size, payload_len, off, leaves, valid>>

block_size == manifest_block_size % U16

\* off + block_size_, a uint32_t.
EndOfBlock == (off + block_size) % U32

LeafLen_Whole == block_size
LeafLen == IF EndOfBlock <= payload_len THEN block_size ELSE payload_len - off

ConstructInit ==
  /\ manifest_block_size \in BlockSizes /\ payload_len \in Lengths
  /\ off = 0 /\ leaves = <<>> /\ valid = FALSE

HashLeaf ==
  /\ ~valid /\ off < payload_len
  /\ leaves' = Append(leaves, [at |-> off, len |-> LeafLen])
  /\ off' = EndOfBlock
  /\ UNCHANGED <<manifest_block_size, payload_len, valid>>

EndLoop ==
  /\ ~valid /\ off >= payload_len
  /\ valid' = TRUE
  /\ UNCHANGED <<manifest_block_size, payload_len, off, leaves>>

ConstructNext == HashLeaf \/ EndLoop

ConstructSpec == ConstructInit /\ [][ConstructNext]_constructVars

-----------------------------------------------------------------------------
\* The packager's leaves: one for every block_size bytes, the last for what is left
\* (merkle.py, leaves_for).
LeavesFor(n, size) ==
  [k \in 1..((n + size - 1) \div size) |->
     [at |-> (k - 1) * size, len |-> IF k * size <= n THEN size ELSE n - (k - 1) * size]]

\* The proofs a seeder gives are over the leaves the manifest's root was made of:
\* the loop makes these and no other, and ends when it has them (guide.md:311,
\* "payload merkle/transport block size").
LeavesAreTheManifests ==
  /\ \A k \in DOMAIN leaves :
       /\ k \in DOMAIN LeavesFor(payload_len, manifest_block_size)
       /\ leaves[k] = LeavesFor(payload_len, manifest_block_size)[k]
  /\ valid => leaves = LeavesFor(payload_len, manifest_block_size)
=============================================================================
