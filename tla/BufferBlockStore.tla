-------------------------- MODULE BufferBlockStore --------------------------
(***************************************************************************)
(* The store of the delta path (transport.h, transport.cpp): the blocks of *)
(* the delta are assembled, in any order, in one buffer that the decoder   *)
(* reads when the transfer is complete.  A put is refused while the caller *)
(* has not set the manifest.                                               *)
(***************************************************************************)
EXTENDS Integers, Sequences

CONSTANTS
  TheManifest,  \* the manifest of the transfer: block_size, block_count, payload_length
  Cell,         \* a byte ...
  Zero,         \* ... of an empty buffer
  Block,        \* what the receiver may put
  Word          \* the number of values of a uint32_t

Index == 0..(TheManifest.block_count - 1)

\* block_count blocks cover the payload, and only the last may be short.
ASSUME ManifestOfPayload ==
  /\ Word \in Nat \ {0}
  /\ TheManifest.block_size \in Nat \ {0}
  /\ TheManifest.block_count \in Nat
  /\ TheManifest.payload_length \in 0..(Word - 1)
  /\ \A i \in Index : i * TheManifest.block_size < TheManifest.payload_length
  /\ TheManifest.payload_length <= TheManifest.block_count * TheManifest.block_size
ASSUME BlockAssumption == Zero \in Cell /\ Block \subseteq Seq(Cell)

VARIABLES
  manifest_set,  \* manifest_ is set
  ready,         \* the geometry is taken from it
  block_size, block_count,
  count,
  have,          \* the indices whose bit have_ holds
  buf

storeVars == <<manifest_set, ready, block_size, block_count, count, have, buf>>

-----------------------------------------------------------------------------
BufferInit ==
  /\ manifest_set = FALSE
  /\ ready = FALSE
  /\ block_size = 0 /\ block_count = 0 /\ count = 0
  /\ have = {}
  /\ buf = <<>>

SetManifest ==
  /\ manifest_set' = TRUE
  /\ UNCHANGED <<ready, block_size, block_count, count, have, buf>>

\* The geometry and the buffer after ensure_geometry.
Size == IF ready THEN block_size ELSE TheManifest.block_size
Count == IF ready THEN block_count ELSE TheManifest.block_count
Zeros == [k \in 1..TheManifest.payload_length |-> Zero]
Buffer_Cleared == Zeros
Buffer == IF ready THEN buf ELSE Zeros

EnsureGeometry ==
  /\ manifest_set
  /\ ready' = TRUE
  /\ block_size' = Size
  /\ block_count' = Count
  /\ UNCHANGED manifest_set

Offset_Dense(i) == count * Size
Offset(i) == (i * Size) % Word

FitsBuffer(i, b) == Offset(i) <= Len(Buffer) /\ Len(b) <= Len(Buffer) - Offset(i)

Takes(i, b) == i < Count /\ i \notin have /\ FitsBuffer(i, b)

\* The buffer with the bytes of b at offset off.
Copied(b, off) ==
  [k \in DOMAIN Buffer |-> IF k \in (off + 1)..(off + Len(b)) THEN b[k - off] ELSE Buffer[k]]

PutTooEarly == ~manifest_set /\ UNCHANGED storeVars

\* Beyond the payload, there already, or longer than the rest of the buffer.
PutRefused(i, b) ==
  /\ EnsureGeometry
  /\ ~Takes(i, b)
  /\ buf' = Buffer
  /\ UNCHANGED <<count, have>>

PutCopied(i, b) ==
  /\ EnsureGeometry
  /\ Takes(i, b)
  /\ buf' = Copied(b, Offset(i))
  /\ have' = have \cup {i}
  /\ count' = count + 1

PutBlock(i, b) == PutTooEarly \/ PutRefused(i, b) \/ PutCopied(i, b)

\* The length of block i in the payload.
LengthOf(i) ==
  IF (i + 1) * TheManifest.block_size <= TheManifest.payload_length
  THEN TheManifest.block_size
  ELSE TheManifest.payload_length - i * TheManifest.block_size

\* A block put at its index has its length; full ones are tried everywhere, also
\* at the short last index and beyond the payload.
MayPut(i, b) ==
  \/ Len(b) = TheManifest.block_size
  \/ i \in Index /\ Len(b) = LengthOf(i)

BufferNext ==
  \/ SetManifest
  \/ \E i \in 0..TheManifest.block_count, b \in Block : MayPut(i, b) /\ PutBlock(i, b)

BufferSpec == BufferInit /\ [][BufferNext]_storeVars

-----------------------------------------------------------------------------
BufferTypeOK ==
  /\ manifest_set \in BOOLEAN /\ ready \in BOOLEAN
  /\ block_size \in Nat /\ block_count \in Nat /\ count \in Nat
  /\ have \subseteq Index
  /\ buf \in Seq(Cell)

\* Blocks complete in any order, and each is copied to its own place: what is
\* outside the blocks that has_block tells is as the buffer was made, so no copy
\* ran over a neighbour or beyond its block (transport.cpp:377-381).
OnlyBlocksAreWritten ==
  \A k \in DOMAIN buf :
    (\A i \in have : k \notin (i * TheManifest.block_size + 1)
                              ..(i * TheManifest.block_size + LengthOf(i)))
      => buf[k] = Zero

\* The bytes of block i in the buffer the decoder reads.
BlockAt(i) == [k \in 1..LengthOf(i) |-> buf[i * TheManifest.block_size + k]]

Stored == [i \in have |-> BlockAt(i)]

B == INSTANCE BlockStore WITH blocks <- Stored

\* The store keeps the IBlockStore contract: every block it tells is, byte for
\* byte, where the decoder looks for it, and stays so.
ImplementsBlockStore == B!Spec
=============================================================================
