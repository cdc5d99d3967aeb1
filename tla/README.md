# A TLA+ model of ota-common

`ota-common` moves a signed firmware package over a slow, lossy radio, checks
it block by block against a Merkle root, and rebuilds the new image from it.
This directory models that code in TLA+: TLC checks the models on small
instances, TLAPS proves for every instance the properties of the receiver, of a
session, of the full-image update, of the in-place apply, of the block stores, of
the Merkle tree, of the hash's buffering and padding, and of the frames.

## 1. Inventory

| Component (source) | State it keeps | Operations | Modules |
|---|---|---|---|
| Merkle tree (`src/src/merkle.cpp`) | none | `hash_leaf`, `hash_pair`, `merkle_root`, `merkle_proof`, `merkle_verify(_block)` | `Merkle`, `MerkleClaims`, `MerkleProofs` |
| Frames (`transport.h`, `transport.cpp` 9-80) | none | pack and unpack of header, START and LOAD info | `OtaFrame` (fields), `FrameCodec` (bytes), `BytesProofs` |
| `OtaReceiver` (`transport.cpp` 84-317) | geometry, manifest, three reassemblers, the two maps of whole halves, `complete_`, `aborted_`, the block store behind `IBlockStore` | `on_frame` (START, MANIFEST, BLOCK, PROOF, ABORT), `poll` | `OtaReceiver`, `OneRelease`, `Transfer`, `OtaReceiverProofs` |
| `OtaSeeder` (`transport.cpp` 389-514) | `done_`, the parsed package, leaves | constructor, `begin`, `on_frame` | `OtaSeeder`, `SeederConstruct` (the constructor's loop), `BytesProofs` |
| Session (`docs/guide.md`, sections 3 and 6; `radio.h`) | frames under way | the receive and the seed loop | `OtaSession`, `OtaSessionProofs` |
| `FlashTargetBlockStore` (`transport.h` 117-142, `transport.cpp` 319-350) | manifest, geometry, `next_`, `count_`, bits; the target behind `IFlashTarget` | `set_manifest`, `has_block`, `put_block`, `commit`, `abort` | `BlockStore`, `FlashTargetBlockStore`, `FullImageUpdateProofs` |
| `BufferBlockStore` (`transport.h` 148-168, `transport.cpp` 352-387) | manifest, geometry, the buffer, bits | `set_manifest`, `put_block` | `BufferBlockStore`, `NodeProofs` |
| Full-image update (`docs/guide.md`, sections 3 and 4) | receiver and flash store | the caller's `set_manifest`, `commit`, giving up | `FullImageUpdate`, `FullImageUpdateProofs` |
| Sequential apply (`detools_apply.cpp` 1-65, `third_party/detools/detools.c`) | the decoder's state, offsets, the sink | `detools_apply` | `SequentialApply`, `PatchFormat`, `SequentialApplyProofs` |
| In-place apply (`detools.c` 1425-2130, `detools_apply.cpp` 67-119) | flash region, step journal, apply state | shift, segment, journal, resume | `InPlaceApply`, `InPlaceRerun`, `InPlaceApplyProofs` |
| Package and signature (`package.cpp`, `admin_key_verifier.h`, `xeddsa.cpp`, `vendor_tweetnacl.c`) | up to three keys | `package_parse`, `package_verify_signature`, `add_key`, `verify` | `PackageCheck`, `NodeProofs` |
| Identity (`esp_image.cpp`, `trailer.cpp`, `package.cpp`) | none; the partition | `esp_image_length`, `trailer_finalize`, `trailer_is_valid`, `package_identity_matches` | `SelfIdentity`, `NodeProofs` |
| SHA-256 (`sha256.cpp`) | hash state, block buffer, length | `reset`, `update`, `finish` | `Sha256Stream`, `BytesProofs` |
| Packager (`src/tools/packager`) | none | build and sign a package | only the fields and leaves it writes (`SelfIdentity`, `SeederConstruct`) |

Interactions: the seeder and the receiver share nothing but frames.  The
receiver *pulls*: it asks for the manifest, then for one missing block after
another; each Request is answered by the fragments of a proof and of a block;
a Done ends it.  The receiver calls its block store and a signature verifier
synchronously.  The flash store streams each block into an `IFlashTarget` and
needs the manifest for it, which the *caller* hands over once the receiver has
it, at a moment of its own; the buffer store collects a delta.  After the
transfer the caller commits the target, or hands the delta to one of the two
applies, which call back into flash, a sink and a step journal.

The hard behaviours are:

- frames that are lost, repeated, late, damaged or of another session, against
  a receiver with *one* reassembly buffer per kind of unit;
- a restart of the receiver over a block store that may have survived;
- polls that race a late answer;
- power cuts in the middle of any flash operation of the in-place apply, whose
  source and destination are the same region;
- puts that come before the store has its manifest, out of order, or whose
  `begin` or `write` fails, while the receiver acknowledges them all;
- byte streams cut anywhere (hash updates, patch chunks, output pieces, CRLE
  runs, frames on the radio);
- 16-bit copies of 32-bit manifest fields.

What makes each part correct: the tree accepts the signed block at its index
and nothing else; the receiver journals only such blocks and says Done only
with all of them; the session ends, for both sides; flash holds a prefix of the
signed image and in the end all of it; a store tells exactly what was written;
a digest is that of the message however it was cut; the sequential apply says
success only for the whole image; the in-place apply ends with the new image
wherever it was cut; a package, a signer and a base are accepted exactly when
they are right.

## 2. Modules

- **`Merkle`** translates `merkle.cpp`.  A byte string is a sequence of *cells*
  (a run of bytes nothing splits); `Sha256` is a collision-free function whose
  value is `HashLen` cells that name the hashed string.  As in the code, leaf
  and pair digests are not told apart by a tag.  Loops are recursive functions.
- **`OtaFrame`** holds the frame's fields and their 16-bit range.
- **`OtaReceiver`** is the receiver in an *open* environment: each step hands it
  any frame of the set `Frames`, polls it, or reboots it.  One action per branch
  of `on_frame`; the trailing `request_next` and `try_finish_block` are part of
  the action that calls them.  `out` is what the call sent.  The verifier is an
  oracle: a manifest's own signature verifies if the manifest is in `Signed`.
  `put_block` may refuse (`MayRefuse`) and its result is ignored, as in the
  code.  `Reboot` is a new receiver over what is left of the store
  (`Persistent`).
- **`OneRelease`** adds the conditions the code leaves to its callers, as named
  assumptions, and the inductive invariant (section 5).  One of them is a condition
  on the environment, `HintsMatch`: a START that comes *after* the manifest agrees
  with it.  `ReleaseSpec` is the receiver in such an environment; a START that comes
  before may say what it likes.
- **`Transfer`** is the abstract specification: missing blocks of one signed
  package enter the journal, the transfer is done exactly when all are there, a
  restart keeps the journal or empties it.  `OtaReceiver!ImplementsTransfer` is
  the refinement (journal <- `store`, phase <- the two end flags).
- **`OtaSeeder`** is the seeder: geometry, leaves, the fragments of each answer.
- **`OtaSession`** composes the two through `toTarget` and `toSeeder`, with the
  loops of the guide and a radio that may lose, repeat (late) or damage frames.
- **`InPlaceApply`** is the in-place part of detools with the region as an array
  of cells named for their meaning (byte j of the old image, byte j of the new,
  erased, garbage).  A diff yields the new byte only from the right old byte, so
  any source spoiled too early shows.  `Cut` models a power cut or a failed flash
  operation, which may leave what it was changing garbage.  **`InPlaceRerun`**
  adds a caller that resumes after success.
- **`BlockStore`** is the abstract `IBlockStore`: a block is kept as it was put,
  for as long as the store lives; a put may be refused.
- **`FlashTargetBlockStore`** is the store of the full-image path.  The target is
  its sequence of writes, and `begin` and `write` may fail at any call.
  `FlashPut` has three outcomes: it returns before the target is begun, it writes
  nothing, it writes.  `ImplementsBlockStore` maps the bits and the target's
  writes to `BlockStore`.  **`BufferBlockStore`** is the delta path's, with the
  buffer cell by cell; its own `ImplementsBlockStore` reads the blocks back from
  the buffer, as the decoder will.
- **`FullImageUpdate`** composes `OtaReceiver` (through `OneRelease`) with the
  flash store: one call of the receiver may put a block, whose outcome in the
  store decides what the receiver's `has_block` says next.  The caller's
  `Prime` (set_manifest), `Activate` (commit) and `GiveUp` (abort) are actions of
  their own and come when they come.  An interrupt makes receiver and store anew
  (the guide's loop constructs both), which is the initial state again.
- **`SequentialApply`** is `detools_apply` with the decoder under it: chunks in,
  sizes and data by turns, CRLE or no compression, pieces out.  A step reads a
  byte of a size, or writes one piece.  **`PatchFormat`** says, without the decoder,
  which patches detools writes for an image: a *layout* names the place of every
  number, run and part in the patch, in the stream it decompresses to, and in base
  and image (`IsLayout`).  An update is `Written` if such a patch, whole, cut short
  anywhere or followed by other bytes, is what arrives.
- **`PackageCheck`** parses buffers of cells (a header or manifest field is one)
  and verifies the manifest's signature with the keys added so far.
  **`SelfIdentity`** finds the trailer of the running image in a partition and
  gates deltas on it; the partition keeps what an earlier image left behind.
- **`Sha256Stream`** is the buffering and padding of `Sha256`; the compression of
  a block is its appending to a sequence.  **`FrameCodec`** is the byte layout of
  frames on a radio that cuts them short.  **`SeederConstruct`** is the loop of the
  seeder's constructor.  **`MerkleClaims`** alters claims about a tree step by
  step, and holds the reference definitions of RFC 6962.
- `MC*` modules give the constants their values.  `MCBytes` and `MCNode` each
  hold several components that do not interact: a behaviour is about one of
  them, chosen by `part` in the initial state, and the others keep still.

An operator named `X_Y` beside an operator `X` is a variant of `X` with a plausible
bug; it is used nowhere, and every checked property is violated with one of them
in place.

## 3. Runs and bounds

| Run | What it asks | Bounds |
|---|---|---|
| `receiver` | The safety properties and the refinement, for a receiver that may be handed any frame at any time: two packages that share a block, a forged START of a third before the manifest, damaged fragments, an overlong fragment, an odd proof, a block beyond the payload, foreign sessions (`ReleaseSpec`). | Two blocks, one short, blocks of two fragments, digests of two cells: each unit can be torn and mixed. |
| `receiver_resume` | A persistent store: the inductive invariant (with it the types and the bounds of the buffers), and what is asked for. | Three blocks, so that the last leaf is promoted and proofs differ in length; any number of reboots. |
| `session` | The inductive invariant of a session; no unit is mixed up, halves that wait are of missing blocks, requests do not multiply, Done is true; the target becomes complete and the seeder learns it. | `MaxFaults` 2 (losses, late copies, damage to blocks and proofs; Done may be copied and not lost), `MaxNudges` 1, `MaxReboots` 1. |
| `full_image` | The inductive invariant of the composition; flash holds a prefix of the image, all of it when complete or active; the bits are the writes; the store keeps the `IBlockStore` contract; the image is activated in the end. | Three blocks, the last one short; one damaged frame or Abort; any number of failing, early and repeated puts. |
| `in_place` | The inductive invariant; sources intact, journaled segments written and kept, success means the new image, the journal goes forward one step at a time, the apply ends. | `MaxCuts` 2, torn or clean, at any operation; 5 segments, two patches. |
| `bytes` | Frames are heard as sent or not at all; the digest of a message is that of the padded message, however it was cut; the seeder's leaves are the manifest's; root and proofs are those of RFC 6962, and `merkle_verify` accepts exactly the right claims. | Field values at the edges of their bytes, cut at every length; messages to 15 bytes in blocks of 6 with a length of 2, in every way to cut them; block sizes below a width of 8 and payloads up to the last that leaves a block's room below a width of 28; 1..9 leaves, claims of up to 6 leaves altered up to twice. |
| `node` | The buffer store keeps the `IBlockStore` contract; what parses is a package; a signer is accepted exactly when its key was added; the identity is the running image's; the gate lets exactly the right base through; the sink holds a prefix of the image, the result is true, the call returns. | Four blocks of three bytes, also overlong, out of range and repeated; packages cut, lengthened and mixed in any cell, three keys over four adds; images of every kind of remainder of 16 over each other, deltas of bases whose names are in a trailer, partly, or not at all, with and without names given to the packager; two patches in three encodings cut at every byte, chunks of 7 and pieces of 4. |
| `receiver_hints` | Finding 1: violates `GeometryIsSigned`. | A START of a longer package in the session. |
| `receiver_wide` | Finding 2: violates `DoneMeansAll`. | 65536 blocks, no START. |
| `session_lost_done` | Finding 3: violates `SeederLearnsDone`. | One lost Done. |
| `session_refusal` | Finding 4: violates `SeederLearnsAbort`. | One damaged manifest fragment. |
| `in_place_again` | Finding 5: violates `ImageKept`. | No cut at all. |

Two faults are enough to lose a fragment and then meet its late copy, or to hit
both halves of one answer; the open environment of `receiver` has no bound on
faults at all, and `full_image` none on refused puts.  In `in_place` a second cut
falls into the run that resumes.  The cells of a fragment, digest or flash write
are bounds on sizes only: no code path depends on more than "less than, equal to,
or more than one fragment"; likewise the scaled sizes of hash blocks, chunks and
pieces, which the messages and patches exceed more than twice.  The safety
properties of the passing runs do not rest on these bounds: they are proved (section 5;
those of the full-image update under its proviso, those of the sequential apply for the
patches detools writes).

`CHECK_DEADLOCK FALSE` is set where the system may stop: a session whose two
loops have ended, an apply that returned, a frame or a claim that was cut or
altered as often as it may.  The receiver's environment and the full-image update
never stop; their passing runs check deadlock.

**Fairness.**  `FairSessionSpec` assumes that both loops of the guide keep
running: the first frame under way is taken in the end (weak fairness; a frame
that the radio loses counts as taken, which happens `MaxFaults` times at most),
and a target that hears nothing before its timeout polls.  Faults, early polls and
reboots are bounded and not fair.  `FairUpdateSpec` assumes that the radio goes on
bringing every fragment of what is asked for, that a caller whose receiver has the
manifest sets it and one whose receiver is complete commits (the lines of the
guide's section 4), and that a block the flash store may take again and again is
taken some time: a target that fails for ever cannot be updated.
`InPlaceApply!FairSpec` assumes that a run which is not cut goes on; `Returns`
that `detools_apply`, one synchronous call, does.  No fairness is assumed of
faults or of the caller's resume beyond the restart itself.

## 4. Findings

1. `handle_start` overwrites the geometry also after the signed manifest was
   accepted; the guide (345-347) says hints are cross-checked and the manifest
   is authoritative.
2. `block_count` of a signed manifest is cut to 16 bits when no START came: a
   package of 65536 blocks is "complete" at once, with no block.
3. Done is sent once and never repeated: if it is lost, the guide's seeding
   loop (`if (seeder.done()) break;`) never ends.
4. `transport.h` and the guide say either side may send Abort; the receiver never
   does, so a refused session leaves the seeder waiting.
5. The step journal is zero after a complete apply, as before the first step: a
   caller that resumes as the guide says (162-163), after a restart between the
   end of the apply and its confirmation, moves the new image as if it were the
   old one.

Finding 1 limits what can be claimed of the receiver.  A forged START that comes late
and changes `block_count_` changes the shape of the tree a proof is checked against,
so that an inner node's preimage may pass for a block, enter the journal and be
flashed.  The theorems on the receiver and on the full-image update therefore carry
the proviso `[]GeometryIsSigned`; section 5 says where it is discharged.

Known limits, which the models take as conditions and no run violates:

- `has_block` does not name the package (`transport.cpp` 251, 270): a store that
  survives a reboot, as `transport.h` 89-90 describes it, passes the blocks of one
  package off as those of the next, and Done is said of a payload that was not verified
  (assumption `OnePackagePerJournal`).
- The seeder's constructor cuts the manifest's block size to 16 bits: 65536
  leaves 0, and the loop over the payload never ends.  Nor does it for a payload
  that ends within a block of 4 GiB, where `off`, a `uint32_t`, wraps.  `SeederConstruct`
  has both widths, and is checked and proved for sizes that fit (`SizesFit`).
- A manifest that counts more blocks than its payload has makes `send_block`
  (454-455) wrap `payload_len_ - base`; nothing checks the count.  The session is of
  a package whose blocks are counted as the packager counts them (`BlocksAreCounted`).
- `FlashTargetBlockStore::put_block` (339-346) has no range check: a put of the index
  just behind the last block, with the store full, writes behind the image and sets a
  bit behind `have_`.  `FlashTargetBlockStore` takes puts of any index; what the bit
  behind the end does is not modelled (`WithBit`).  The receiver asks for and
  puts no such block as long as its geometry is the signed one (`NoneBeyond`, proved).
- `ready_blocks_` and `proofs_` are keyed by whatever index a frame names
  (`transport.cpp` 261, 293): nothing but the 16 bits of an index bounds them.  An honest
  seeder names none beyond the payload, so `HalvesAreOfMissing` says nothing of one.
- `FlashTargetBlockStore::abort()` forgets the target and keeps the bits: a store
  that is used again after it tells blocks that are gone.  The guide's loop makes
  a new store, and the model's target takes no write after an abort.
- The packager keeps the last character of a text field for a NUL, although the
  guide says that a string may fill its field: a commit that fills it is cut in a
  delta's manifest, and the gate refuses the delta on its own base.  `node` checks
  names that leave room for the NUL.
- `trailer_is_valid` does not compare `image_length` with where the trailer was
  found, so an image without a trailer may be taken for the longer one whose
  trailer still lies behind it; `IdentityIsOfImage` speaks of images that have one.

## 5. Proofs

Eight modules hold proofs, for all values of the constants that satisfy the
assumptions below:

| Module | Theorem | Property |
|---|---|---|
| `OtaReceiverProofs` | `InvariantHolds` | `IInv`, the inductive invariant (†) |
| | `TypeCorrect` | `TypeOK` (with it: no buffer is filled past its end) (†) |
| | `SignedJournal` | `JournalIsSigned` (†) |
| | `DoneIsWhole` | `DoneMeansAll` (†) |
| | `HalvesAreJoined` | `NoHalfForgotten` (†) |
| | `ReceiverImplementsTransfer` | `ImplementsTransfer` (†) |
| | `AbortsOnlyOnAbort` | `OnlyAbortEndsIt`, whatever frames arrive |
| | `AsksForMissing` | `AsksForMissingOnly`, whatever frames arrive |
| | `SignedGeometry` | `GeometryIsSigned`, of `ReleaseSpec` |
| | `ReleaseInvariant`, `ReleaseImplementsTransfer` | `IInv`, `ImplementsTransfer`, of `ReleaseSpec` |
| `OtaSessionProofs` | `SessionInvariant` | `SessionInv`, the inductive invariant |
| | `SessionIsAReceiver` | a session's behaviours are its receiver's (`ReleaseSpec`) |
| | `SessionImplementsTransfer` | `ImplementsTransfer` |
| | `SeederIsToldTheTruth` | `DoneIsTrue` |
| | `MapsHoldHalvesOfMissing` | `HalvesAreOfMissing` |
| | `BuffersStayOfOneUnit` | `BuffersHoldOneUnit` |
| | `RequestsStayBounded` | `RequestsDoNotMultiply` |
| `FullImageUpdateProofs` | `FlashStoreInvariant` | `StoreInv`, the inductive invariant |
| | `FlashWritesAreSequential` | `WritesAreSequential` |
| | `FlashHaveIsWritten` | `HaveIsWritten` |
| | `FlashStoreImplements` | `ImplementsBlockStore` |
| | `UpdateInvariant` | `UpdateInv`, the inductive invariant (†) |
| | `UpdateIsAReceiver`, `UpdateIsAStore` | the composition's behaviours are the receiver's and (†) the store's |
| | `UpdateKeepsContract`, `UpdateHaveIsWritten` | `ImplementsBlockStore`, `HaveIsWritten` (†) |
| | `FlashStaysPrefix` | `FlashIsPrefix` (†) |
| | `DoneStaysFlashed` | `DoneIsFlashed` (†) |
| `InPlaceApplyProofs` | `InPlaceInvariant` | `IInv`, the inductive invariant |
| | `SourcesStayIntact` | `SourcesIntact` |
| | `JournaledStaysWritten` | `JournaledIsWritten` |
| | `InPlaceDoneIsTarget` | `DoneIsTarget` |
| | `JournalGoesForward` | `JournalForward`: one step at a time, none skipped, none taken back |
| `MerkleProofs` | `VerifyIsExactForAll` | a claim verifies if and only if it is the tree's leaf with its own proof |
| `BytesProofs` | `WireIsPrefix` | `FrameInv`, the inductive invariant |
| | `HeaderHeard`, `InfoHeard`, `FrameHeard` | `HeaderIsHeard`, `InfoIsHeard`, `FrameIsHeard` |
| | `Sha256Invariant`, `Sha256TypeCorrect` | `StreamInv`; `ShaTypeOK` (the block buffer is never left full) |
| | `Sha256LosesNoByte` | `Absorbed` |
| | `Sha256PadsRight` | `DigestIsOfPadded` |
| | `ClaimsAreExact` | `VerifyIsExact` |
| | `RootsAreTreeHashes` | `RootIsTreeHash` |
| | `ProofsAreAuditPaths` | `ProofIsAuditPath` |
| | `SeederMakesTheLeaves` | `LeavesAreTheManifests` |
| `SequentialApplyProofs` | `ApplyInvariant` | `ApplyInv`, the inductive invariant |
| | `SinkHoldsAPrefix` | `SinkIsPrefix`, of every update that is `Written` |
| | `TheResultIsTrue` | `ResultIsTrue`, of every update that is `Written` |
| `NodeProofs` | `BufferOnlyBlocksAreWritten` | `OnlyBlocksAreWritten` |
| | `BufferStoreImplements` | `ImplementsBlockStore` |
| | `ParsingIsExact` | `ParseIsExact` |
| | `VerdictsAreExact` | `VerdictIsExact` |
| | `IdentityIsFound` | `IdentityIsOfImage` |
| | `GateIsAlwaysExact` | `GateIsExact` |

(†) Of the behaviours in which the receiver's geometry stays the signed one: the theorem
reads `Spec => ([]GeometryIsSigned => ...)`.  The code does not see to it (finding 1).
It holds of `ReleaseSpec` (`SignedGeometry`), and a session with an honest seeder is one of
its behaviours, so that the session's theorems carry no proviso: `ServedHintsMatch` is the
lemma that every START its radio may bring, however late or often, agrees with the manifest.

**Assumptions** (all evaluated by TLC in the passing runs).

- Of the receiver: `SignedFits` (signed sizes fit 16 bits; without it: finding
  2), `OnePackagePerJournal` (a surviving store is used for one package; without it:
  section 4), `PayloadIsSigned` (the packager puts the root of the tree over the
  payload's blocks into the manifest, `package.py` 111-127).  That only block i
  verifies at index i under that root is no assumption: it is the lemma
  `MerkleIsSound`, from `VerifyIsExactForAll`.
- Of a session: `BlockSizeAssumption` (the seeder's constructor ends),
  `ChannelAssumption` (the channel carries the seeder's frames, and damaged ones
  of the types it may damage), `PackageAssumption` (one manifest is spelled by
  these frames, the package's, and if it is signed then over the payload the
  package carries, whose length it gives), `BlocksAreCounted` (it counts the payload's
  blocks).
- Of the full-image update: `OneImage` (one image is signed, and its manifest
  counts its blocks).  Of the stores: `ManifestOfTransfer` and `ManifestOfPayload`
  (the blocks cover the payload and their offsets fit 32 bits, as in a manifest the
  receiver accepted).
- Of the in-place apply: `SizesAssumption` (whole segments, a shift of one segment
  at least, images that fit the region) and `PatchesAssumption` (`SoundPatch`: the
  chunks of a segment fill it, and its diffs read only cells of the moved old image
  above the segment, as `create_patch` arranges).
- Of the sequential apply: `HeaderFitsChunk` (the type of a patch and its longest
  size fit in one chunk; a piece has a byte).  Its theorems speak of updates that are `Written`; that those the
  run applies are, whole, cut and lengthened, is `SentAreWritten`, which `node` evaluates.
- Of the hash: `Sizes` (the length field is shorter than a block).  Of the frames:
  fields fit their widths.  Of the seeder's loop: `SizesFit` (the block size is
  positive and fits 16 bits, the payload leaves a block's room in 32).
- Of images: `ImagesAreBuilt` (every name ends with a NUL inside its field, as
  `formats.py` packs it, 33-37; otherwise: section 4), and `GivenNamesFit` (so do the
  names the packager is called with).
- The rest are types of the constants (`OffersAreBuffers`: what is offered is a sequence
  of cells).  SHA-256 has no collisions by the definition
  of `Sha256`.

**The receiver.**  The promises alone are not inductive.  `IInv` adds

- `WaitingUnits`: whole blocks and proofs that wait are units frames can spell,
  so that `MerkleIsSound` speaks of them when they meet, over the signed number of
  leaves and no other;
- `EarlyJournal`: blocks without an accepted manifest exist only in a store that
  survived a reboot, where `OnePackagePerJournal` makes them the next manifest's.

A geometry known before the manifest may be anyone's: `HintsAgree` refuses a manifest that
does not share it, so that accepting one yields `GeometryIsSigned`, and only a later START
can take that away.  `DoneMeansAll` then follows from `CompletesWithNothingMissing`: `request_next`
completes only when `next_needed_block` finds none, and a set of indices that is
not empty has a least one, below 65535, the value that stands for "none".  One
lemma per action shows that it keeps `IInv`; all that journal a block go through
`TryFinishBlockKeeps`.  For the refinement, `CallChanges` reduces every call to
four shapes (nothing, the abort flag, the completion, one block), each of which
is a step of `Transfer` or none.

**Sessions and compositions.**  Every step of a session or of the full-image update
is a step of the receiver, of the other part, of both, or of neither, so that each
part's own invariant holds of the whole (`SessionIsAReceiver`, `UpdateIsAReceiver`,
`UpdateIsAStore`); what is new relates the parts.  `SessionInv` says what may be
under way: to the seeder only calls it can answer, and a Done only from a receiver
that is complete (`FrameKeepsComplete`: it stays so; the session restarts no device
whose transfer is complete); to the target only frames of the channel, and of blocks and proofs only pieces of
those the package has (`Carries`), because the seeder cuts its answers so
(`FragmentsCarry`, `ProofIsDigests`) and damage changes the cells of a frame and
nothing else.  A buffer that is being filled expects the length of its unit and holds
its first cells, as `feed` appends at its end only (`FeedFills`); a frame of another
unit starts it afresh.  So no buffer mixes two units, and what waits is a whole one.

That requests do not multiply is a matter of counting, and the count of requests alone
is not inductive: a block that waits without its proof makes no request now and one
later.  `AskingInv` keeps two accounts over both queues.  `AskedFor`: requests under
way, frames under way that end a unit and so may make the receiver ask, and blocks that
wait for their proof are together at most 1 + faults + polls.  `Paid`: blocks that wait,
and the block ends that will come to wait, are at most the faults.  A block end is
`Loose` (it will come to wait) unless the frames before it in the queue are the rest of
its own answer, up to the first proof fragment or to what the receiver is in the middle
of.  The second account is needed because a poll when nothing is under way is free: it
adds a request, and only if what waits has been paid for by a fault does the first
account still hold.  An answer is one chain of frames (`AnswersAreChains`), so it brings
one waking frame and no loose one; a fault breaks one chain at most (`LooseRemoved`,
`LooseRepeated`); a reboot forgets what waits, and takes in no half of a block until
the manifest has come again.  The bound is tight and reboots are not in it.  TLC found
no violation of `AskingInv` with two and with three faults.

`UpdateInv` says that the
receiver's journal is the store's bits, that the k-th write is the k-th block of the
image, and that only a whole image is activated.

**The in-place apply.**  `IInv` describes the region by three boundaries that the
journal alone determines: below `MovedFrom` lies the old image where it was, from
`KeptFrom` on the old image as it was moved, and below `WrittenTo` the new image.
`StepIsInOrder` adds what the step under way has done of its segment: a power cut
forgets that and keeps the rest.  `ReaderIsAtItsPlace` says that the decoder's offsets
are those the patch was made for, also in a run that skips journaled steps.  A step
that moves a segment lowers `MovedFrom` and `KeptFrom` together, one that makes a
segment raises `WrittenTo` and, behind it, `KeptFrom`; that no step reads beyond
these boundaries or writes within them is what makes every source survive
(`SourcesStayIntact`).

**The tree.**  `ProofLoop` and `VerifyLoop` are run side by side: after k rounds both
are at the same node of level k, the verifier has used as many digests as the prover
has made, and its hash is that node exactly when the leaf and the digests so far are
the prover's (`Together`, `LoopsTogether`).  The induction is over the number of
rounds: there is no first round that fails (`FirstRound`, from `LeastMember`).  This
gives `VerifyIsExactForAll` for trees of every size.

The reference splits a tree from above, at the largest power of two, where the code
pairs its levels from below.  What ties them is that node i of level k is the reference
hash of leaves `From(k, i)` to `To(k, i, n)`, (i - 1)·2^k + 1 to i·2^k or n
(`NodesAreHashes`): where a node has two children the reference splits its span between
them, and a promoted node spans what its only child does (`SpanHalves`).  The proof
made in the first k rounds is then the reference path of the span it has reached
(`PathIsAt`, `PathUp`).

**The stores, the hash, the frames.**  `StoreInv` adds to the two promises of the
flash store that geometry and target are taken together, by the first put that begins:
the k-th write is then at block k's offset, and the bits are the indices below
`next_`.  The buffer store's `IInv` adds the same of geometry and buffer; that a copy
leaves the other blocks alone follows from `Placed` and `Apart` (a block lies in the
payload, two blocks share no byte).  A put is then a `Keep` of `BlockStore` or a
stutter.  `Absorbed` needs only the types and that `Taken` splits `rest` in two; for
the padding, `PadInv` adds that the buffer's length is the remainder of what was
absorbed, so that the zeros the code adds are the one number that leaves room for the
length field and no more.  A frame's bytes stay a prefix of what was packed, and every
unpacked field reads bytes that survive packing (`Word16`, `Word32`).  The seeder's
loop has made the first c leaves when it stands at c times the block size, and it ends
at the first such offset that is not below the length.

**Packages.**  A buffer that passes every check of `package_parse` is the concatenation
of what it was cut into (`ParsedIsPackage`), and a package passes every check
(`PackageIsParsed`).  `CheckInv` needs no more than that the keys stay in the order in
which they were added: a verdict speaks of the keys of its moment, and `KeysStay` carries
it over the keys that are added later.

**Identity.**  `IdentityInv` says that the image in the partition is whole and that what
an earlier one left lies behind its end.  The segments' ends grow (`EndsGrow`), so at the
place of a header or a trailer nothing else is read (`PieceIsAlone`, `PieceIsRead`); the
walk from header to header therefore ends where the image ends (`EndsAreRead`,
`LengthIsRead`), and the trailer is the one behind it.  For the gate, a name survives the
manifest's field, whether it comes from the base's trailer (`TextIsKept`) or was given to
the packager (`FixedIsKept`).

**The sequential apply.**  What image a patch stands for is computed by recursion over
the patch, which is out of the provers' reach; that a layout tells it is not, since each
part and each run then stands for itself.  `ApplyInv` says that the decoder is always at
*some* place of the layout (`InStream`): as many bytes of the stream are behind it as the
reader has given (`ReaderAt`: the reader is in a run of CRLE, or has as many bytes left
as the patch), and the state, the half-read number, the offset in the base and the length
of the sink are those of that place (`InPart`).  The two readers keep one promise,
`ReaderGives`: whatever is asked for and wherever chunk and run end, what comes out is
next in the stream, and the reader is behind it.  The lemmas on numbers (`HalfReadByte`,
`SizeRead`) say that a size is the same however its bytes are spread over chunks; those
on parts (`PartIs`, `PieceIs`, `InSize`) that each state of the decoder takes from the
stream what the layout has there, and that no size of such a patch is refused.  A patch
that is cut short ends inside a run, a number or a part, so it is never taken for a
whole one; one that is followed by other bytes ends as the two readers differ in it:
only the uncompressed one counts them (`DestroyOk`).  TLC found no violation of
`ApplyInv` on the patches of `node` before it was proved.

**Only model-checked.**  Patches that detools does not write: `node` applies a few whose
type, compression or sizes are wrong, and the sequential theorems do not speak of them.
Liveness (`Delivered`, `SeederLearnsDone`, `EventuallyActive`, `EventuallyApplied`,
`Returns`) rests on fairness and ENABLED, which are out of TLAPS's reach here.  So are the
library's theorems on definition by recursion, whose parameter is an operator: what the
proofs need of a recursive function they derive from its definition by CHOOSE and an
induction over numbers
(`LevelsAre`, `PowersAre`, `TreeHashIs`, `AuditPathsAre`, `EndsAre`).

## 6. Not modelled

- Heatshrink streams, patches whose sizes are negative, empty CRLE runs, and
  detools' dump and restore; the byte layout of manifests, trailers and package
  headers (a field is a cell).  LOAD_COMMIT and ANNOUNCE frames are defined but
  no code handles them; of LOAD only the codec exists.
- A receiver without a verifier (`nullptr`), which accepts any manifest.
- Cryptography: SHA-256 has no collisions, its compression function stands for
  itself, a signature verifies under its own key and over its own message only,
  and the CRC tells any two trailers apart.
- A second manifest for a store that has begun, and a store that is used again after its
  abort.
- `to_size = 0` and `shift_size = memory_size` of an in-place patch, in-place
  patches that are not sound (a corrupt delta), a journal of another patch, and
  the patch reader under the in-place apply.
- Vendored cryptography, interfaces implemented elsewhere (`IFlashTarget`,
  `IRadio`; modelled as an environment), and the host packager beyond the fields
  and leaves it writes.
