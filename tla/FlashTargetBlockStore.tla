----------------------- MODULE FlashTargetBlockStore -----------------------
(***************************************************************************)
(* The store of the full-image path (transport.h, transport.cpp): every    *)
(* block goes straight to an IFlashTarget.  The target is external: it is  *)
(* the writes it took since its begin, and any call to it may fail.  The   *)
(* caller sets the manifest of the transfer whenever it gets to it; before *)
(* and after that the receiver puts verified blocks, in any order.         *)
(***************************************************************************)
EXTENDS Integers, Sequences

CONSTANTS
  TheManifest,  \* the manifest of the transfer: block_size, block_count
  Block,        \* what the receiver may put
  Word          \* the number of values of a uint32_t

ASSUME ManifestOfTransfer ==
  /\ Word \in Nat \ {0}
  /\ TheManifest.block_size \in 0..(Word - 1)
  /\ TheManifest.block_count \in 0..(Word - 1)
  /\ \A i \in 0..(TheManifest.block_count - 1) : i * TheManifest.block_size < Word

VARIABLES
  manifest_set,  \* manifest_ is set
  began,
  block_size, block_count,
  next,          \* the lowest index that is not written
  count,
  have,          \* the indices whose bit have_ holds
  target         \* the IFlashTarget

storeVars ==
  <<manifest_set, began, block_size, block_count, next, count, have, target>>

-----------------------------------------------------------------------------
IdleTarget == [state |-> "idle", writes |-> <<>>]
OpenTarget == [state |-> "open", writes |-> <<>>]

StoreInit ==
  /\ manifest_set = FALSE
  /\ began = FALSE
  /\ block_size = 0 /\ block_count = 0 /\ next = 0 /\ count = 0
  /\ have = {}
  /\ target = IdleTarget

flash_has_block(i) == i \in have

BlockIndex == 0..(TheManifest.block_count - 1)

set_manifest ==
  /\ manifest_set' = TRUE
  /\ UNCHANGED <<began, block_size, block_count, next, count, have, target>>

\* The first put that has a manifest begins the target and takes the geometry.
Target_BeginAgain == OpenTarget
Target == IF began THEN target ELSE OpenTarget
Size == IF began THEN block_size ELSE TheManifest.block_size
Count == IF began THEN block_count ELSE TheManifest.block_count

Begin ==
  /\ manifest_set
  /\ began' = TRUE
  /\ block_size' = Size
  /\ block_count' = Count
  /\ UNCHANGED manifest_set

\* A put that returns before the target is begun: no manifest yet, or begin fails.
PutTooEarly == (~manifest_set \/ ~began) /\ UNCHANGED storeVars

\* The block is there already, is not the next one, or its write fails.
PutUnwritten ==
  /\ Begin
  /\ target' = Target
  /\ UNCHANGED <<next, count, have>>

InOrder_AnyOrder(i) == TRUE
InOrder(i) == i = next

Offset(i) == (i * Size) % Word

\* put_block tests no range: an index behind the last block is written all the same,
\* and its bit falls behind have_, where has_block does not look.
WithBit(i) == IF i < Count THEN have \cup {i} ELSE have

PutWritten(i, b) ==
  /\ Begin
  /\ ~flash_has_block(i)
  /\ InOrder(i)
  /\ Target.state = "open"
  /\ target' = [Target EXCEPT !.writes = Append(@, [off |-> Offset(i), data |-> b])]
  /\ have' = WithBit(i)
  /\ next' = next + 1
  /\ count' = count + 1

FlashPut(i, b) == PutTooEarly \/ PutUnwritten \/ PutWritten(i, b)

\* The target's hash gate: it activates an image all of whose blocks it has.
CommitTarget ==
  /\ target.state = "open"
  /\ target' = IF {w.off : w \in {target.writes[k] : k \in DOMAIN target.writes}}
                    = {i * TheManifest.block_size : i \in BlockIndex}
               THEN [target EXCEPT !.state = "active"] ELSE target
  /\ UNCHANGED <<manifest_set, began, block_size, block_count, next, count, have>>

\* abort() gives up the target, and only the target: what it took stays written,
\* and it takes no more.
AbortTarget ==
  /\ target' = [target EXCEPT !.state = "idle"]
  /\ UNCHANGED <<manifest_set, began, block_size, block_count, next, count, have>>

StoreNext ==
  \/ set_manifest
  \/ \E i \in 0..(Word - 1), b \in Block : FlashPut(i, b)
  \/ CommitTarget
  \/ AbortTarget

StoreSpec == StoreInit /\ [][StoreNext]_storeVars

-----------------------------------------------------------------------------
StoreTypeOK ==
  /\ manifest_set \in BOOLEAN /\ began \in BOOLEAN
  /\ block_size \in Nat /\ block_count \in Nat /\ next \in Nat /\ count \in Nat
  /\ have \subseteq BlockIndex
  /\ target \in [state : {"idle", "open", "active"},
                 writes : Seq([off : 0..(Word - 1), data : Block])]

\* The target sees the image front to back: the k-th write it takes is at the end
\* of the k - 1 blocks before, none is written twice or skipped, whatever was
\* refused, failed or repeated in between (transport.cpp:338-348).
WritesAreSequential ==
  \A k \in DOMAIN target.writes :
    target.writes[k].off = ((k - 1) * TheManifest.block_size) % Word

\* What the store answers has_block and stored_count with is what the target
\* took: a bit is set if and only if the write of that block succeeded (stored_count
\* also counts a write behind the last block).
HaveIsWritten ==
  /\ have = {i \in BlockIndex : i < next}
  /\ count = next
  /\ Len(target.writes) = next

\* The geometry and the target are taken together, by the first put that begins
\* (transport.cpp:330-337).
BegunTogether ==
  IF began THEN /\ block_size = TheManifest.block_size
                /\ block_count = TheManifest.block_count
           ELSE have = {} /\ next = 0 /\ count = 0 /\ target = IdleTarget

\* The inductive invariant of the store.
StoreInv == StoreTypeOK /\ BegunTogether /\ WritesAreSequential /\ HaveIsWritten

\* The blocks as has_block tells them, with the bytes the target has of them.
Stored ==
  [i \in have |-> IF i + 1 \in DOMAIN target.writes THEN target.writes[i + 1].data ELSE <<>>]

B == INSTANCE BlockStore WITH Index <- BlockIndex, blocks <- Stored

\* The store keeps the IBlockStore contract the receiver builds on, although the
\* bytes live in the target and the bits in RAM.
ImplementsBlockStore == B!Spec
=============================================================================
