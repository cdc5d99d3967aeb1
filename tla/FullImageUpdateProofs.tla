----------------------- MODULE FullImageUpdateProofs -----------------------
(***************************************************************************)
(* The full-image update keeps the promises of both its parts and its own: *)
(* the flash holds a prefix of the signed image, and a transfer that is    *)
(* complete has all of it there.  Every step of the composition is a step  *)
(* of the receiver, of the store, or of both, so that their own invariants *)
(* carry over; what is new relates the journal, the bits and the bytes.    *)
(***************************************************************************)
EXTENDS FullImageUpdate, OtaReceiverProofs

-----------------------------------------------------------------------------
(* What FlashTargetBlockStore promises by itself, for every manifest, block  *)
(* and word: the order of its writes, its bits, the IBlockStore contract.    *)

\* A value below the word is not changed by it.
LEMMA BelowWord ==
  ASSUME NEW w \in Nat \ {0}, NEW n \in Nat, n < w
  PROVE  n % w = n
OBVIOUS

LEMMA BlocksAreNumbered ==
  /\ Word \in Nat \ {0}
  /\ TheManifest.block_size \in Nat /\ TheManifest.block_count \in Nat
  /\ TheManifest.block_count < Word
  /\ \A i \in BlockIndex : /\ i \in Nat /\ i \in 0..(Word - 1)
                           /\ i * TheManifest.block_size \in Nat
                           /\ i * TheManifest.block_size < Word
<1>1. /\ Word \in Nat \ {0}
      /\ TheManifest.block_size \in Nat /\ TheManifest.block_count \in Nat
      /\ TheManifest.block_count < Word
  BY ManifestOfTransfer
<1>2. \A i \in BlockIndex : i \in Nat /\ i < TheManifest.block_count
                            /\ i * TheManifest.block_size < Word
  BY <1>1, ManifestOfTransfer DEF BlockIndex
<1>3. \A i \in Nat : i * TheManifest.block_size \in Nat
  BY <1>1
<1>4. \A i \in Nat : i < TheManifest.block_count => i \in 0..(Word - 1)
  BY <1>1
<1> QED
  BY <1>1, <1>2, <1>3, <1>4

\* The offset of a write, whatever its index.
LEMMA OffsetOfPut ==
  ASSUME NEW i \in Nat, BegunTogether
  PROVE  /\ Offset(i) = (i * TheManifest.block_size) % Word
         /\ Offset(i) \in 0..(Word - 1)
<1>1. Size = TheManifest.block_size
  BY DEF Size, BegunTogether
<1>2. i * TheManifest.block_size \in Nat
  BY BlocksAreNumbered
<1> QED
  BY <1>1, <1>2, BlocksAreNumbered, Remainder DEF Offset

\* A block of the manifest is written at its own offset.
LEMMA OffsetOfBlock ==
  ASSUME NEW i \in BlockIndex
  PROVE  (i * TheManifest.block_size) % Word = i * TheManifest.block_size
BY BlocksAreNumbered, BelowWord

\* What a put does to the target, whether it begins it or not.
LEMMA TargetOfPut ==
  ASSUME StoreInv
  PROVE  /\ Target \in [state : {"idle", "open", "active"},
                        writes : Seq([off : 0..(Word - 1), data : Block])]
         /\ Len(Target.writes) = next
         /\ \A k \in DOMAIN Target.writes :
              Target.writes[k].off = ((k - 1) * TheManifest.block_size) % Word
         /\ Size = TheManifest.block_size /\ Size \in Nat
         /\ Count = TheManifest.block_count /\ Count \in Nat
<1>1. CASE began
  BY <1>1, ManifestOfTransfer
     DEF StoreInv, StoreTypeOK, BegunTogether, WritesAreSequential, HaveIsWritten, Target, Size, Count
<1>2. CASE ~began
  <2>1. Target = OpenTarget
    BY <1>2 DEF Target
  <2>2. next = 0
    BY <1>2 DEF StoreInv, BegunTogether
  <2>3. OpenTarget.writes = <<>>
    BY DEF OpenTarget
  <2>. QED
    BY <1>2, <2>1, <2>2, <2>3, ManifestOfTransfer DEF OpenTarget, Size, Count
<1>. QED
  BY <1>1, <1>2 DEF StoreInv, StoreTypeOK

\* The initial state.
LEMMA InvInit == StoreInit => StoreInv
<1>. SUFFICES ASSUME StoreInit PROVE StoreInv
  OBVIOUS
<1>1. target.writes = <<>> /\ target.state = "idle"
  BY DEF StoreInit, IdleTarget
<1>2. target \in [state : {"idle", "open", "active"},
                 writes : Seq([off : 0..(Word - 1), data : Block])]
  BY DEF StoreInit, IdleTarget
<1>3. have = {i \in BlockIndex : i < next} /\ have \subseteq BlockIndex
  BY DEF StoreInit, BlockIndex
<1>4. StoreTypeOK
  BY <1>2, <1>3 DEF StoreInit, StoreTypeOK
<1>5. BegunTogether /\ WritesAreSequential /\ HaveIsWritten
  BY <1>1, <1>3 DEF StoreInit, BegunTogether, WritesAreSequential, HaveIsWritten
<1>. QED
  BY <1>4, <1>5 DEF StoreInv

\* A put that writes appends the next block.
LEMMA InvWritten ==
  ASSUME StoreInv, NEW i \in Nat, NEW b \in Block, PutWritten(i, b)
  PROVE  StoreInv'
<1>. DEFINE w == [off |-> Offset(i), data |-> b]
<1>0. StoreTypeOK /\ BegunTogether /\ HaveIsWritten
  BY DEF StoreInv
<1>1. i = next /\ next \in Nat /\ i \in Nat
  BY <1>0 DEF PutWritten, InOrder, StoreTypeOK
<1>2. w \in [off : 0..(Word - 1), data : Block] /\ w.off = (next * TheManifest.block_size) % Word
  BY <1>0, <1>1, OffsetOfPut
<1>3. target' = [state |-> "open", writes |-> Append(Target.writes, w)]
  BY TargetOfPut DEF PutWritten
<1>4. /\ target'.writes \in Seq([off : 0..(Word - 1), data : Block])
      /\ Len(target'.writes) = next + 1
      /\ DOMAIN target'.writes = 1..(next + 1)
      /\ \A k \in 1..next : target'.writes[k] = Target.writes[k]
      /\ target'.writes[next + 1] = w
      /\ DOMAIN Target.writes = 1..next
  BY <1>1, <1>2, <1>3, TargetOfPut
<1>5. StoreTypeOK'
  <2>1. target' \in [state : {"idle", "open", "active"},
                    writes : Seq([off : 0..(Word - 1), data : Block])]
    BY <1>3, <1>4
  <2>2. /\ manifest_set' \in BOOLEAN /\ began' \in BOOLEAN
        /\ next' \in Nat /\ count' \in Nat /\ have' \subseteq BlockIndex
    BY <1>0, TargetOfPut DEF StoreTypeOK, PutWritten, Begin, WithBit, BlockIndex
  <2>3. block_size' \in Nat /\ block_count' \in Nat
    BY TargetOfPut DEF PutWritten, Begin
  <2>. QED
    BY <2>1, <2>2, <2>3 DEF StoreTypeOK
<1>6. BegunTogether'
  BY TargetOfPut DEF BegunTogether, PutWritten, Begin
<1>7. WritesAreSequential'
  <2>. SUFFICES ASSUME NEW k \in 1..(next + 1)
                PROVE  target'.writes[k].off = ((k - 1) * TheManifest.block_size) % Word
    BY <1>4 DEF WritesAreSequential
  <2>1. CASE k = next + 1
    <3>1. k - 1 = next
      BY <1>1, <2>1
    <3>. QED
      BY <1>2, <1>4, <2>1, <3>1
  <2>2. CASE k # next + 1
    <3>1. k \in 1..next
      BY <1>1, <2>2
    <3>2. target'.writes[k] = Target.writes[k] /\ k \in DOMAIN Target.writes
      BY <1>4, <3>1
    <3>. QED
      BY <3>2, TargetOfPut
  <2>. QED
    BY <2>1, <2>2
<1>8. HaveIsWritten'
  <2>1. have = {j \in BlockIndex : j < next} /\ next' = next + 1
    BY <1>0 DEF HaveIsWritten, PutWritten
  <2>2. have' = {j \in BlockIndex : j < next + 1}
    <3>1. \A j \in BlockIndex : j \in Nat /\ j < TheManifest.block_count
      BY BlocksAreNumbered DEF BlockIndex
    <3>2. \A j \in BlockIndex : j < next + 1 <=> j < next \/ j = next
      BY <1>1, <3>1
    <3>3. next < TheManifest.block_count <=> next \in BlockIndex
      BY <1>1, BlocksAreNumbered DEF BlockIndex
    <3>4. have' = IF next < TheManifest.block_count THEN have \cup {next} ELSE have
      BY <1>1, TargetOfPut DEF PutWritten, WithBit
    <3> QED
      BY <2>1, <3>2, <3>3, <3>4
  <2>. QED
    BY <1>0, <1>1, <1>4, <2>1, <2>2 DEF HaveIsWritten, PutWritten
<1>. QED
  BY <1>5, <1>6, <1>7, <1>8 DEF StoreInv

\* A put that does not write leaves the writes; it may have begun the target.
LEMMA InvUnwritten ==
  ASSUME StoreInv, PutUnwritten
  PROVE  StoreInv'
<1>1. /\ target' = Target /\ block_size' = Size /\ block_count' = Count
      /\ began' = TRUE /\ UNCHANGED <<manifest_set, next, count, have>>
  BY DEF PutUnwritten, Begin
<1>2. StoreTypeOK'
  BY <1>1, TargetOfPut DEF StoreInv, StoreTypeOK
<1>3. BegunTogether'
  BY <1>1, TargetOfPut DEF BegunTogether
<1>4. WritesAreSequential'
  BY <1>1, TargetOfPut DEF WritesAreSequential
<1>5. HaveIsWritten'
  BY <1>1, TargetOfPut DEF StoreInv, HaveIsWritten
<1>. QED
  BY <1>2, <1>3, <1>4, <1>5 DEF StoreInv

\* A commit changes the state of the target and not its bytes.
LEMMA InvCommit ==
  ASSUME StoreInv, CommitTarget
  PROVE  StoreInv'
<1>1. /\ target'.writes = target.writes
      /\ target' \in [state : {"idle", "open", "active"},
                      writes : Seq([off : 0..(Word - 1), data : Block])]
      /\ began
  BY DEF CommitTarget, StoreInv, StoreTypeOK, BegunTogether, IdleTarget
<1>. QED
  BY <1>1 DEF CommitTarget, StoreInv, StoreTypeOK, BegunTogether, WritesAreSequential, HaveIsWritten

\* An abort too.
LEMMA InvAbort ==
  ASSUME StoreInv, AbortTarget
  PROVE  StoreInv'
<1>1. /\ target'.writes = target.writes
      /\ target' \in [state : {"idle", "open", "active"},
                      writes : Seq([off : 0..(Word - 1), data : Block])]
      /\ target = IdleTarget => target' = IdleTarget
  BY DEF AbortTarget, StoreInv, StoreTypeOK, IdleTarget
<1>. QED
  BY <1>1 DEF AbortTarget, StoreInv, StoreTypeOK, BegunTogether, WritesAreSequential,
              HaveIsWritten

LEMMA InvNext == StoreInv /\ [StoreNext]_storeVars => StoreInv'
<1>. SUFFICES ASSUME StoreInv, [StoreNext]_storeVars PROVE StoreInv'
  OBVIOUS
<1>1. CASE set_manifest
  BY <1>1 DEF set_manifest, StoreInv, StoreTypeOK, BegunTogether, WritesAreSequential, HaveIsWritten
<1>2. ASSUME NEW i \in 0..(Word - 1), NEW b \in Block, FlashPut(i, b)
      PROVE  StoreInv'
  <2>1. CASE PutTooEarly
    BY <2>1 DEF PutTooEarly, storeVars, StoreInv, StoreTypeOK, BegunTogether, WritesAreSequential,
                HaveIsWritten
  <2>2. CASE PutUnwritten
    BY <2>2, InvUnwritten
  <2>3. CASE PutWritten(i, b)
    BY <2>3, InvWritten, BlocksAreNumbered
  <2>. QED
    BY <1>2, <2>1, <2>2, <2>3 DEF FlashPut
<1>3. CASE CommitTarget
  BY <1>3, InvCommit
<1>5. CASE AbortTarget
  BY <1>5, InvAbort
<1>4. CASE UNCHANGED storeVars
  BY <1>4 DEF storeVars, StoreInv, StoreTypeOK, BegunTogether, WritesAreSequential, HaveIsWritten
<1>. QED
  BY <1>1, <1>2, <1>3, <1>4, <1>5 DEF StoreNext

\* The invariant of the store: its state is well typed, the geometry and the target
\* are taken together, and bits, counts and writes agree.
THEOREM FlashStoreInvariant == StoreSpec => []StoreInv
BY InvInit, InvNext, PTL DEF StoreSpec

\* Whatever is put in whatever order, and whichever call of the target fails, the
\* target is written front to back without a hole or a repetition.
THEOREM FlashWritesAreSequential == StoreSpec => []WritesAreSequential
<1>1. StoreInv => WritesAreSequential
  BY DEF StoreInv
<1>. QED
  BY <1>1, FlashStoreInvariant, PTL

\* has_block and stored_count tell the writes the target took, and no others.
THEOREM FlashHaveIsWritten == StoreSpec => []HaveIsWritten
<1>1. StoreInv => HaveIsWritten
  BY DEF StoreInv
<1>. QED
  BY <1>1, FlashStoreInvariant, PTL

\* A put that writes keeps the block under its index, and the others as they were; one
\* behind the last block is not kept.
LEMMA WrittenIsKept ==
  ASSUME StoreInv, NEW i \in Nat, NEW b \in Block, PutWritten(i, b)
  PROVE  [B!Next]_Stored
<1>1. /\ i = next /\ next \in Nat /\ have = {j \in BlockIndex : j < next}
      /\ have' = IF i < TheManifest.block_count THEN have \cup {i} ELSE have
  BY TargetOfPut DEF StoreInv, StoreTypeOK, HaveIsWritten, PutWritten, InOrder, WithBit
<1>2. /\ target'.writes = Append(Target.writes, [off |-> Offset(i), data |-> b])
      /\ Target.writes \in Seq([off : 0..(Word - 1), data : Block])
      /\ Len(Target.writes) = next
  BY TargetOfPut DEF PutWritten
<1>3. \A j \in have : Target.writes[j + 1] = target.writes[j + 1]
  BY <1>1, BlocksAreNumbered DEF Target, StoreInv, BegunTogether
<1>4. [off |-> Offset(i), data |-> b] \in [off : 0..(Word - 1), data : Block]
  BY OffsetOfPut DEF StoreInv
<1>5. \A j \in have : j \in Nat /\ j < next
  BY <1>1, BlocksAreNumbered
<1>6. \A j \in have : target'.writes[j + 1] = target.writes[j + 1]
  BY <1>1, <1>2, <1>3, <1>4, <1>5
<1>7. target'.writes[i + 1].data = b
  BY <1>1, <1>2, <1>4
<1>8. DOMAIN Stored = have
  BY DEF Stored
<1>9. /\ DOMAIN target.writes = 1..next /\ DOMAIN target'.writes = 1..(next + 1)
      /\ \A j \in have : j + 1 \in 1..next /\ j + 1 \in 1..(next + 1)
  BY <1>1, <1>2, <1>4, <1>5 DEF StoreInv, StoreTypeOK, HaveIsWritten
<1>10. CASE i \in BlockIndex
  <2>1. have' = have \cup {i}
    BY <1>1, <1>10, BlocksAreNumbered DEF BlockIndex
  <2>2. Stored' = [j \in have \cup {i} |-> IF j = i THEN b ELSE Stored[j]]
    BY <1>1, <1>6, <1>7, <1>9, <2>1 DEF Stored
  <2>3. i \notin have
    BY <1>1
  <2> QED
    BY <1>8, <1>10, <2>2, <2>3 DEF B!Next, B!Keep
<1>11. CASE i \notin BlockIndex
  <2>1. have' = have
    BY <1>1, <1>11, BlocksAreNumbered DEF BlockIndex
  <2> QED
    BY <1>6, <1>9, <2>1 DEF Stored
<1> QED
  BY <1>10, <1>11

LEMMA StoreStepImplements == StoreInv /\ [StoreNext]_storeVars => [B!Next]_Stored
<1>. SUFFICES ASSUME StoreInv, [StoreNext]_storeVars PROVE [B!Next]_Stored
  OBVIOUS
<1>1. ASSUME NEW i \in 0..(Word - 1), NEW b \in Block, PutWritten(i, b)
      PROVE  [B!Next]_Stored
  BY <1>1, WrittenIsKept, BlocksAreNumbered
<1>2. CASE PutUnwritten
  BY <1>2 DEF PutUnwritten, Begin, Target, Stored, StoreInv, BegunTogether
<1>3. CASE UNCHANGED <<have, target>>
  BY <1>3 DEF Stored
<1>4. CASE CommitTarget
  BY <1>4 DEF CommitTarget, Stored, StoreInv, StoreTypeOK
<1>5. CASE AbortTarget
  BY <1>5 DEF AbortTarget, Stored, StoreInv, StoreTypeOK
<1>. QED
  BY <1>1, <1>2, <1>3, <1>4, <1>5 DEF StoreNext, FlashPut, PutTooEarly, set_manifest, storeVars

\* The store keeps the IBlockStore contract: what has_block tells was put, is on the
\* target as it was put, and stays there.
THEOREM FlashStoreImplements == StoreSpec => ImplementsBlockStore
<1>1. StoreInit => B!Init
  BY DEF StoreInit, B!Init, Stored
<1>. QED
  BY <1>1, StoreStepImplements, FlashStoreInvariant, PTL DEF StoreSpec, ImplementsBlockStore, B!Spec

-----------------------------------------------------------------------------
(* The image.                                                                *)

LEMMA ImageBlocks ==
  /\ TheManifest.block_count \in Nat
  /\ DOMAIN Blocks = 1..TheManifest.block_count
  /\ \A i \in BlockIndex : Blocks[i + 1] \in Block
<1>1. Blocks \in Seq(Block) /\ Len(Blocks) = TheManifest.block_count
  BY OneImage
<1>2. TheManifest.block_count \in Nat
  BY ManifestOfTransfer
<1>3. DOMAIN Blocks = 1..TheManifest.block_count
  BY <1>1
<1>4. \A i \in BlockIndex : i + 1 \in 1..TheManifest.block_count
  BY <1>2 DEF BlockIndex
<1> QED
  BY <1>1, <1>2, <1>3, <1>4

\* When all blocks are among the first next, there are no more of them.
LEMMA AllBelow ==
  ASSUME NEW n \in Nat, n <= TheManifest.block_count,
         {i \in BlockIndex : i < n} = BlockIndex
  PROVE  n = TheManifest.block_count
<1> SUFFICES ASSUME n # TheManifest.block_count PROVE FALSE
  OBVIOUS
<1>1. n \in BlockIndex
  BY BlocksAreNumbered DEF BlockIndex
<1>2. n < n
  BY <1>1
<1> QED
  BY <1>2

\* A journaled block is the image's block at that index.
JournalOfImage == \A i \in DOMAIN store : i \in BlockIndex /\ store[i] = Blocks[i + 1]

LEMMA JournalIsOfImage == IInv => JournalOfImage
<1> SUFFICES ASSUME IInv, NEW i \in DOMAIN store
             PROVE  i \in BlockIndex /\ store[i] = Blocks[i + 1]
  BY DEF JournalOfImage
<1>1. i \in Index /\ \E m \in Signed : BlockOf(m, i, store[i])
  BY JournalFields
<1>2. i < TheManifest.block_count /\ store[i] = Payload[TheManifest][i + 1]
  BY <1>1, OneImage DEF BlockOf
<1>3. i \in Nat /\ TheManifest.block_count \in Nat
  BY <1>1, IndexIsNat, ImageBlocks
<1>4. i \in BlockIndex
  BY <1>2, <1>3 DEF BlockIndex
<1> QED
  BY <1>2, <1>4 DEF Blocks

\* A receiver that is complete has all the blocks of the image.
LEMMA CompleteHasAll ==
  ASSUME IInv, complete
  PROVE  DOMAIN store = BlockIndex
<1>1. manifest_ready /\ DOMAIN store = 0..(manifest.block_count - 1)
  BY DEF IInv, DoneMeansAll
<1>2. manifest = TheManifest
  BY <1>1, OneImage DEF IInv, GeometryIsSigned
<1> QED
  BY <1>1, <1>2 DEF BlockIndex

-----------------------------------------------------------------------------
(* What a frame changes of the journal, and what it puts.                    *)

\* What a call sends ends with a request, or Done; an Ack can come before it.
LEMMA NoAck ==
  ASSUME request_next(<<>>)
  PROVE  Put' = {}
<1>1. PICK frame : out' = Append(<<>>, frame) /\ frame.type # "Ack"
  BY DEF request_next, send_simple, SimpleFrame, MakeFrame
<1>2. out' = <<frame>>
  BY <1>1
<1> QED
  BY <1>1, <1>2 DEF Put

LEMMA OneAck ==
  ASSUME NEW i, request_next(<<send_simple("Ack", i)>>)
  PROVE  Put' = {i}
<1> DEFINE ack == send_simple("Ack", i)
<1>1. PICK frame : out' = Append(<<ack>>, frame) /\ frame.type # "Ack"
  BY DEF request_next, send_simple, SimpleFrame, MakeFrame
<1>2. ack.type = "Ack" /\ ack.index = i
  BY DEF send_simple, SimpleFrame, MakeFrame
<1> HIDE DEF ack
<1>3. Len(out') = 2 /\ out'[1] = ack /\ out'[2] = frame /\ DOMAIN out' = {1, 2}
  BY <1>1, TwoFrames
<1> QED
  BY <1>1, <1>2, <1>3 DEF Put

\* put_block is called for a block of the image only, and whenever one is journaled.
LEMMA FramePuts ==
  ASSUME IInv, NEW f \in Frames, OnFrame(f)
  PROVE  \/ Put' = {} /\ store' = store
         \/ Put' # {} /\ Put' \subseteq BlockIndex
<1>1. \/ out' = <<>> /\ store' = store
      \/ request_next(<<>>) /\ store' = store
      \/ manifest_ready /\ \E blocks, pfs : TryFinishBlock(f.index, blocks, pfs)
  <2>1. CASE NotForUs(f) \/ Unwanted(f) \/ LateManifest(f)
    BY <2>1 DEF NotForUs, Unwanted, LateManifest, Ignore
  <2>2. CASE HandleAbort(f) \/ ManifestFragment(f) \/ RefuseManifest(f)
    BY <2>2 DEF HandleAbort, ManifestFragment, RefuseManifest, Silent
  <2>3. CASE HandleStart(f) \/ TakeManifest(f)
    BY <2>3 DEF HandleStart, TakeManifest
  <2>4. CASE HandleBlock(f)
    BY <2>4 DEF HandleBlock, Silent
  <2>5. CASE EmptyProof(f) \/ HandleProof(f)
    BY <2>5 DEF EmptyProof, HandleProof, Silent
  <2> QED
    BY <2>1, <2>2, <2>3, <2>4, <2>5 DEF OnFrame, HandleManifest
<1>2. CASE out' = <<>> /\ store' = store
  BY <1>2 DEF Put
<1>3. CASE request_next(<<>>) /\ store' = store
  BY <1>3, NoAck
<1>4. ASSUME manifest_ready, NEW blocks, NEW pfs, TryFinishBlock(f.index, blocks, pfs)
      PROVE  \/ Put' = {} /\ store' = store
             \/ Put' # {} /\ Put' \subseteq BlockIndex
  <2>1. \/ out' = <<>> /\ store' = store
        \/ request_next(<<>>) /\ store' = store
        \/ /\ request_next(<<send_simple("Ack", f.index)>>)
           /\ f.index < geometry.block_count
    BY <1>4 DEF TryFinishBlock, Silent, merkle_verify_block, merkle_verify
  <2>2. geometry.block_count = TheManifest.block_count
    BY <1>4, OneImage DEF IInv, GeometryIsSigned, GeometryOf
  <2>3. f.index \in Nat
    BY FrameFields, IndexIsNat
  <2>4. f.index < TheManifest.block_count => f.index \in BlockIndex
    BY <2>3, BlocksAreNumbered DEF BlockIndex
  <2> QED
    BY <1>2, <1>3, <2>1, <2>2, <2>4, OneAck
<1> QED
  BY <1>1, <1>2, <1>3, <1>4

-----------------------------------------------------------------------------
(* Every step is one of the parts' steps.                                    *)

\* A put that the store takes is of a block of the image, the one that was journaled.
LEMMA WrittenIsOfImage ==
  ASSUME IInv', StoreInv, NEW i \in BlockIndex,
         PutWritten(i, IF i \in DOMAIN store' THEN store'[i] ELSE <<>>),
         have' = DOMAIN store'
  PROVE  PutWritten(i, Blocks[i + 1]) /\ Blocks[i + 1] \in Block
<1>1. i < Count
  BY TargetOfPut, BlocksAreNumbered DEF BlockIndex
<1>2. i \in DOMAIN store'
  BY <1>1 DEF PutWritten, WithBit
<1>3. store'[i] = Blocks[i + 1]
  <2>1. JournalOfImage'
    BY JournalIsOfImage, PTL
  <2> QED
    BY <1>2, <2>1 DEF JournalOfImage
<1> QED
  BY <1>2, <1>3, ImageBlocks

\* The caller's steps are the store's.
LEMMA CallerSteps ==
  ASSUME Prime \/ Activate \/ GiveUp
  PROVE  UNCHANGED vars /\ StoreNext
BY DEF Prime, Activate, GiveUp, StoreNext

\* A frame's step is the receiver's, and the store's or none.
LEMMA ReceiveSteps ==
  ASSUME IInv, IInv', StoreInv, NEW f \in Frames, Receive(f)
  PROVE  [StoreNext]_storeVars
<1>0. Put' \subseteq BlockIndex
  BY FramePuts DEF Receive
<1>1. ASSUME NEW i \in Put',
             FlashPut(i, IF i \in DOMAIN store' THEN store'[i] ELSE <<>>),
             have' = DOMAIN store'
      PROVE  [StoreNext]_storeVars
  <2>0. i \in BlockIndex
    BY <1>0
  <2>1. CASE PutTooEarly
    BY <2>1 DEF PutTooEarly
  <2>2. CASE PutUnwritten
    <3>1. Blocks[i + 1] \in Block /\ FlashPut(i, Blocks[i + 1])
      BY <2>0, <2>2, ImageBlocks DEF FlashPut
    <3> QED
      BY <2>0, <3>1, BlocksAreNumbered DEF StoreNext
  <2>3. CASE PutWritten(i, IF i \in DOMAIN store' THEN store'[i] ELSE <<>>)
    <3>1. Blocks[i + 1] \in Block /\ FlashPut(i, Blocks[i + 1])
      BY <1>1, <2>0, <2>3, WrittenIsOfImage DEF FlashPut
    <3> QED
      BY <2>0, <3>1, BlocksAreNumbered DEF StoreNext
  <2> QED
    BY <1>1, <2>1, <2>2, <2>3 DEF FlashPut
<1> QED
  BY <1>1 DEF Receive

\* Whatever happens, the receiver takes a step of its own or none, and so does the
\* store, once the receiver keeps its invariant.
LEMMA ReceiverSteps == [UpdateNext]_updateVars => [Next]_vars
<1>1. ASSUME NEW f \in Frames, Receive(f) PROVE Next
  BY <1>1 DEF Receive, Next
<1>2. PollAgain => Next
  BY DEF PollAgain, Next
<1>3. ReceiveGenuine \/ ReceiveOther => \E f \in Frames : Receive(f)
  BY OneImage DEF ReceiveGenuine, ReceiveOther
<1> QED
  BY <1>1, <1>2, <1>3, CallerSteps DEF UpdateNext, updateVars

LEMMA StoreSteps ==
  IInv /\ IInv' /\ StoreInv /\ [UpdateNext]_updateVars => [StoreNext]_storeVars
<1> SUFFICES ASSUME IInv, IInv', StoreInv, [UpdateNext]_updateVars PROVE [StoreNext]_storeVars
  OBVIOUS
<1>1. ReceiveGenuine \/ ReceiveOther => \E f \in Frames : Receive(f)
  BY OneImage DEF ReceiveGenuine, ReceiveOther
<1>2. PollAgain \/ UNCHANGED updateVars => UNCHANGED storeVars
  BY DEF PollAgain, updateVars
<1> QED
  BY <1>1, <1>2, ReceiveSteps, CallerSteps DEF UpdateNext

-----------------------------------------------------------------------------
(* The invariant of the composition.                                         *)

\* What UpdateInv adds to the invariants of the parts.
Relation == JournalIsHave /\ NoneBeyond /\ WritesAreBlocks /\ ActiveIsWhole

LEMMA WrittenKeepsRelation ==
  ASSUME StoreInv, Relation, NEW i \in BlockIndex, PutWritten(i, Blocks[i + 1]),
         Blocks[i + 1] \in Block, have' = DOMAIN store'
  PROVE  Relation'
<1> DEFINE w == [off |-> Offset(i), data |-> Blocks[i + 1]]
<1>1. i = next /\ next \in Nat
  BY DEF PutWritten, InOrder, StoreInv, StoreTypeOK
<1>2. w \in [off : 0..(Word - 1), data : Block] /\ w.data = Blocks[i + 1]
  BY <1>1, OffsetOfPut DEF StoreInv
<1>3. target' = [state |-> "open", writes |-> Append(Target.writes, w)]
  BY TargetOfPut DEF PutWritten
<1> HIDE DEF w
<1>4. /\ Target.writes \in Seq([off : 0..(Word - 1), data : Block])
      /\ Len(Target.writes) = next
  BY TargetOfPut
<1>5. /\ DOMAIN target'.writes = 1..(next + 1)
      /\ \A k \in 1..next : target'.writes[k] = Target.writes[k]
      /\ target'.writes[next + 1] = w
  BY <1>1, <1>2, <1>3, <1>4
<1>6. \A k \in 1..next : Target.writes[k].data = Blocks[k]
  <2>1. CASE began
    <3>1. Target = target /\ DOMAIN target.writes = 1..next
      BY <1>4, <2>1 DEF Target
    <3> QED
      BY <3>1 DEF Relation, WritesAreBlocks
  <2>2. CASE ~began
    BY <2>2 DEF StoreInv, BegunTogether
  <2> QED
    BY <2>1, <2>2
<1>7. WritesAreBlocks'
  <2> SUFFICES ASSUME NEW k \in 1..(next + 1) PROVE target'.writes[k].data = Blocks[k]
    BY <1>5 DEF WritesAreBlocks
  <2>1. k = next + 1 \/ k \in 1..next
    BY <1>1
  <2> QED
    BY <1>1, <1>2, <1>5, <1>6, <2>1
<1>8. JournalIsHave' /\ ActiveIsWhole'
  BY <1>3 DEF JournalIsHave, ActiveIsWhole
<1>9. NoneBeyond'
  <2>1. next < TheManifest.block_count /\ next' = next + 1
    BY <1>1, BlocksAreNumbered DEF BlockIndex, PutWritten
  <2> QED
    BY <1>1, <2>1, BlocksAreNumbered DEF NoneBeyond
<1> QED
  BY <1>7, <1>8, <1>9 DEF Relation

LEMMA UnwrittenKeepsRelation ==
  ASSUME StoreInv, Relation, PutUnwritten, have' = DOMAIN store'
  PROVE  Relation'
<1>1. CASE began
  BY <1>1 DEF PutUnwritten, Target, Relation, JournalIsHave, NoneBeyond, WritesAreBlocks, ActiveIsWhole
<1>2. CASE ~began
  BY <1>2 DEF PutUnwritten, Target, OpenTarget, Relation, JournalIsHave, NoneBeyond, WritesAreBlocks,
              ActiveIsWhole
<1> QED
  BY <1>1, <1>2

LEMMA ReceiveKeepsRelation ==
  ASSUME IInv, IInv', StoreInv, Relation, NEW f \in Frames, Receive(f)
  PROVE  Relation'
<1> USE DEF Relation, JournalIsHave, NoneBeyond, WritesAreBlocks, ActiveIsWhole
<1>1. CASE Put' = {} /\ UNCHANGED storeVars
  <2>1. store' = store
    BY <1>1, FramePuts DEF Receive
  <2> QED
    BY <1>1, <2>1 DEF storeVars
<1>2. ASSUME NEW i \in Put',
             FlashPut(i, IF i \in DOMAIN store' THEN store'[i] ELSE <<>>),
             have' = DOMAIN store'
      PROVE  Relation'
  <2> USE DEF Relation
  <2>1. CASE PutTooEarly
    BY <1>2, <2>1 DEF PutTooEarly, storeVars
  <2>2. CASE PutUnwritten
    BY <1>2, <2>2, UnwrittenKeepsRelation
  <2>3. CASE PutWritten(i, IF i \in DOMAIN store' THEN store'[i] ELSE <<>>)
    <3>1. i \in BlockIndex
      BY FramePuts DEF Receive
    <3> QED
      BY <1>2, <2>3, <3>1, WrittenIsOfImage, WrittenKeepsRelation
  <2> QED
    BY <1>2, <2>1, <2>2, <2>3 DEF FlashPut
<1> QED
  BY <1>1, <1>2 DEF Receive

\* A commit comes when the receiver is complete: then all blocks are written.
LEMMA ActivateKeepsRelation ==
  ASSUME IInv, StoreInv, Relation, Activate
  PROVE  Relation'
<1>1. have = {i \in BlockIndex : i < next} /\ next \in Nat /\ have = BlockIndex
      /\ next <= TheManifest.block_count
  BY CompleteHasAll DEF StoreInv, StoreTypeOK, HaveIsWritten, Relation, JournalIsHave, NoneBeyond,
     Activate
<1>2. next = TheManifest.block_count
  BY <1>1, AllBelow
<1>3. target'.writes = target.writes /\ UNCHANGED <<store, have, next>>
  BY DEF Activate, CommitTarget, vars, StoreInv, StoreTypeOK
<1> QED
  BY <1>2, <1>3 DEF Relation, JournalIsHave, NoneBeyond, WritesAreBlocks, ActiveIsWhole

LEMMA UpdateStepKeeps == UpdateInv /\ [UpdateNext]_updateVars /\ GeometryIsSigned' => UpdateInv'
<1> SUFFICES ASSUME UpdateInv, [UpdateNext]_updateVars, GeometryIsSigned' PROVE UpdateInv'
  OBVIOUS
<1>1. IInv /\ StoreInv /\ Relation
  BY DEF UpdateInv, Relation
<1>2. IInv'
  BY <1>1, ReceiverSteps, StepKeeps
<1>3. StoreInv'
  BY <1>1, <1>2, StoreSteps, InvNext
<1>4. Relation'
  <2>1. CASE ReceiveGenuine \/ ReceiveOther
    BY <1>1, <1>2, <2>1, OneImage, ReceiveKeepsRelation DEF ReceiveGenuine, ReceiveOther
  <2>2. CASE PollAgain \/ UNCHANGED updateVars
    BY <1>1, <2>2 DEF PollAgain, Poll, updateVars, vars, storeVars, Relation, JournalIsHave,
                      NoneBeyond, WritesAreBlocks, ActiveIsWhole
  <2>3. CASE Prime
    BY <1>1, <2>3 DEF Prime, set_manifest, vars, Relation, JournalIsHave, NoneBeyond, WritesAreBlocks,
                      ActiveIsWhole
  <2>4. CASE Activate
    BY <1>1, <2>4, ActivateKeepsRelation
  <2>5. CASE GiveUp
    <3>1. target'.writes = target.writes /\ target'.state = "idle"
          /\ UNCHANGED <<store, have, next>>
      BY <1>1, <2>5 DEF GiveUp, AbortTarget, vars, StoreInv, StoreTypeOK
    <3> QED
      BY <1>1, <3>1 DEF Relation, JournalIsHave, NoneBeyond, WritesAreBlocks, ActiveIsWhole
  <2> QED
    BY <2>1, <2>2, <2>3, <2>4, <2>5 DEF UpdateNext
<1> QED
  BY <1>2, <1>3, <1>4 DEF UpdateInv, Relation

LEMMA UpdateInitIsGood == UpdateInit => UpdateInv
<1> SUFFICES ASSUME UpdateInit PROVE UpdateInv
  OBVIOUS
<1>1. IInv /\ StoreInv
  BY InitIsGood, InvInit DEF UpdateInit
<1>2. JournalIsHave
  BY NewValues DEF UpdateInit, Init, StoreInit, JournalIsHave
<1>3. NoneBeyond /\ WritesAreBlocks /\ ActiveIsWhole
  BY BlocksAreNumbered DEF UpdateInit, StoreInit, IdleTarget, NoneBeyond, WritesAreBlocks,
     ActiveIsWhole
<1> QED
  BY <1>1, <1>2, <1>3 DEF UpdateInv

-----------------------------------------------------------------------------
(* The theorems.                                                             *)

\* The invariant of the composition holds of every behaviour, whatever frames come, for
\* as long as no late START replaces the signed geometry: under another block count
\* the tree has another shape, and what verifies in it may be no block of the image.
THEOREM UpdateInvariant == UpdateSpec => ([]GeometryIsSigned => []UpdateInv)
BY UpdateInitIsGood, UpdateStepKeeps, PTL DEF UpdateSpec

\* In the update the receiver behaves as it does alone, so that all its theorems hold
\* there too.
THEOREM UpdateIsAReceiver == UpdateSpec => Spec
BY ReceiverSteps, PTL DEF UpdateSpec, UpdateInit, Spec

\* The receiver uses its store as StoreSpec allows, so that the store's theorems hold.
THEOREM UpdateIsAStore == UpdateSpec => ([]GeometryIsSigned => StoreSpec)
<1>1. UpdateInv => IInv /\ StoreInv
  BY DEF UpdateInv
<1> QED
  BY <1>1, StoreSteps, UpdateInvariant, PTL DEF UpdateSpec, UpdateInit, StoreSpec

\* The store that the receiver is given keeps the IBlockStore contract.
THEOREM UpdateKeepsContract == UpdateSpec => ([]GeometryIsSigned => ImplementsBlockStore)
BY UpdateIsAStore, FlashStoreImplements, PTL

\* has_block tells the writes the target took, and no others.
THEOREM UpdateHaveIsWritten == UpdateSpec => ([]GeometryIsSigned => []HaveIsWritten)
BY UpdateIsAStore, FlashHaveIsWritten, PTL

\* Whatever frames come, in whatever order, and whichever put comes early, again or
\* fails, the target holds a prefix of the signed image, as long as the geometry is the
\* accepted manifest's.
THEOREM FlashStaysPrefix == UpdateSpec => ([]GeometryIsSigned => []FlashIsPrefix)
<1>1. UpdateInv => FlashIsPrefix
  <2> SUFFICES ASSUME UpdateInv PROVE FlashIsPrefix
    OBVIOUS
  <2>1. /\ next \in Nat /\ next <= TheManifest.block_count
        /\ DOMAIN target.writes = 1..next /\ Len(target.writes) = next
        /\ target.writes \in Seq([off : 0..(Word - 1), data : Block])
    BY DEF UpdateInv, StoreInv, StoreTypeOK, HaveIsWritten, NoneBeyond
  <2>2. ASSUME NEW k \in DOMAIN target.writes
        PROVE  target.writes[k] = [off |-> (k - 1) * TheManifest.block_size, data |-> Blocks[k]]
    <3> DEFINE S == [off : 0..(Word - 1), data : Block]
    <3>0. target.writes \in Seq(S)
      BY <2>1
    <3> HIDE DEF S
    <3>1. target.writes[k] \in S
      BY <2>2, <3>0
    <3>2. k - 1 \in BlockIndex
      BY <2>1, <2>2, BlocksAreNumbered DEF BlockIndex
    <3>3. target.writes[k].off = (k - 1) * TheManifest.block_size
      BY <3>2, OffsetOfBlock DEF UpdateInv, StoreInv, WritesAreSequential
    <3>4. target.writes[k].data = Blocks[k]
      BY DEF UpdateInv, WritesAreBlocks
    <3> QED
      BY <3>1, <3>3, <3>4 DEF S
  <2> QED
    BY <2>1, <2>2, OneImage DEF FlashIsPrefix
<1> QED
  BY <1>1, UpdateInvariant, PTL

\* A transfer that is complete has the whole image on the target, and so has a target
\* that is active, on the same proviso.
THEOREM DoneStaysFlashed == UpdateSpec => ([]GeometryIsSigned => []DoneIsFlashed)
<1>1. UpdateInv => DoneIsFlashed
  <2> SUFFICES ASSUME UpdateInv, complete \/ target.state = "active"
               PROVE  Len(target.writes) = Len(Blocks)
    BY DEF DoneIsFlashed
  <2>1. /\ have = {i \in BlockIndex : i < next} /\ next \in Nat
        /\ Len(target.writes) = next /\ next <= TheManifest.block_count
    BY DEF UpdateInv, StoreInv, StoreTypeOK, HaveIsWritten, NoneBeyond
  <2>2. CASE complete
    <3>1. have = BlockIndex
      BY <2>2, CompleteHasAll DEF UpdateInv, JournalIsHave
    <3> QED
      BY <2>1, <3>1, AllBelow, OneImage
  <2>3. CASE target.state = "active"
    BY <2>1, <2>3, OneImage DEF UpdateInv, ActiveIsWhole
  <2> QED
    BY <2>2, <2>3
<1> QED
  BY <1>1, UpdateInvariant, PTL
=============================================================================
