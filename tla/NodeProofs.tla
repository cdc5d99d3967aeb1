------------------------------ MODULE NodeProofs ------------------------------
(***************************************************************************)
(* What a node does around a transfer, for all packages, images and        *)
(* manifests: the store that assembles a delta, the check of a package and *)
(* its signer, and the identity of the build that runs.                    *)
(***************************************************************************)
EXTENDS BufferBlockStore, PackageCheck, SelfIdentity, SequenceTheorems, WellFoundedInduction, TLAPS

-----------------------------------------------------------------------------
(* BufferBlockStore, for every manifest whose blocks cover its payload: no   *)
(* copy touches another block, and what has_block tells is in the buffer as  *)
(* it was put.                                                               *)

\* The geometry and the buffer are taken together, by the first put with a manifest.
ReadyTogether ==
  IF ready THEN /\ block_size = TheManifest.block_size
                /\ block_count = TheManifest.block_count
                /\ Len(buf) = TheManifest.payload_length
           ELSE have = {} /\ buf = <<>>

IInv == BufferTypeOK /\ ReadyTogether /\ OnlyBlocksAreWritten

bs == TheManifest.block_size

-----------------------------------------------------------------------------
(* Where the blocks are.                                                     *)

\* Blocks of one size follow each other.
LEMMA Following ==
  ASSUME NEW i \in Nat, NEW j \in Nat, NEW s \in Nat, i < j
  PROVE  i * s + s <= j * s
<1>1. PICK d \in Nat : j = i + 1 + d
  <2>. WITNESS j - i - 1 \in Nat
  <2>. QED
    OBVIOUS
<1>2. d * s \in Nat
  OBVIOUS
<1>3. j * s = i * s + s + d * s
  BY <1>1
<1>. QED
  BY <1>2, <1>3

\* A block lies in the payload, is not empty and no longer than the block size.
LEMMA Placed ==
  ASSUME NEW i \in Index
  PROVE  /\ i \in Nat /\ bs \in Nat /\ i * bs \in Nat
         /\ LengthOf(i) \in 1..bs
         /\ i * bs + LengthOf(i) <= TheManifest.payload_length
<1>1. /\ i \in Nat /\ bs \in Nat \ {0}
      /\ TheManifest.payload_length \in Nat
      /\ i * bs < TheManifest.payload_length
  BY ManifestOfPayload DEF Index, bs
<1>2. i * bs \in Nat
  BY <1>1
<1>3. (i + 1) * bs = i * bs + bs
  BY <1>1
<1>. QED
  BY <1>1, <1>2, <1>3 DEF LengthOf, bs

\* A byte of something n bytes long at x, in what is m bytes long.
LEMMA Inside ==
  ASSUME NEW x \in Nat, NEW n \in Nat, NEW m \in Nat, x + n <= m, NEW k \in 1..n
  PROVE  x + k \in (x + 1)..(x + n) /\ x + k \in 1..m /\ (x + k) - x = k
OBVIOUS

\* Two blocks share no byte.
LEMMA Apart ==
  ASSUME NEW i \in Index, NEW j \in Index, i # j, NEW k \in 1..LengthOf(j)
  PROVE  j * bs + k \notin (i * bs + 1)..(i * bs + LengthOf(i))
<1>1. CASE i < j
  <2>1. i * bs + bs <= j * bs
    BY <1>1, Placed, Following
  <2>. QED
    BY <2>1, Placed
<1>2. CASE j < i
  <2>1. j * bs + bs <= i * bs
    BY <1>2, Placed, Following
  <2>. QED
    BY <2>1, Placed
<1>. QED
  BY <1>1, <1>2, Placed

LEMMA BelowWord ==
  ASSUME NEW w \in Nat \ {0}, NEW n \in Nat, n < w
  PROVE  n % w = n
OBVIOUS

-----------------------------------------------------------------------------
\* The geometry and the buffer of a put, whether it takes them or has them.
LEMMA Geometry ==
  ASSUME IInv
  PROVE  /\ Size = bs /\ Count = TheManifest.block_count
         /\ Buffer \in Seq(Cell) /\ Len(Buffer) = TheManifest.payload_length
         /\ \A k \in DOMAIN Buffer :
              (\A i \in have : k \notin (i * bs + 1)..(i * bs + LengthOf(i)))
                => Buffer[k] = Zero
<1>1. CASE ready
  BY <1>1 DEF IInv, BufferTypeOK, ReadyTogether, OnlyBlocksAreWritten, Size, Count, Buffer, bs
<1>2. CASE ~ready
  <2>1. Buffer = [k \in 1..TheManifest.payload_length |-> Zero]
    BY <1>2 DEF Buffer, Zeros
  <2>2. TheManifest.payload_length \in Nat /\ Zero \in Cell
    BY ManifestOfPayload, BlockAssumption
  <2>. QED
    BY <1>2, <2>1, <2>2 DEF Size, Count, bs
<1>. QED
  BY <1>1, <1>2 DEF IInv, BufferTypeOK

\* A put that is taken has the length of its block and goes to its place.
LEMMA Taken ==
  ASSUME IInv, NEW i \in 0..TheManifest.block_count, NEW b \in Block,
         MayPut(i, b), Takes(i, b)
  PROVE  /\ i \in Index /\ i \notin have
         /\ Offset(i) = i * bs
         /\ Len(b) = LengthOf(i)
         /\ b \in Seq(Cell)
<1>1. i \in Index /\ i \notin have
  BY Geometry, ManifestOfPayload DEF Takes, Index
<1>2. i * bs < Word
  BY <1>1, Placed, ManifestOfPayload
<1>3. Offset(i) = i * bs
  BY <1>1, <1>2, Placed, BelowWord, Geometry, ManifestOfPayload DEF Offset
<1>4. b \in Seq(Cell) /\ Len(b) \in Nat
  BY BlockAssumption
<1>5. Len(b) <= TheManifest.payload_length - i * bs
  BY <1>3, Geometry DEF Takes, FitsBuffer
<1>6. (i + 1) * bs = i * bs + bs
  BY <1>1, Placed
<1>7. Len(b) = LengthOf(i)
  BY <1>1, <1>4, <1>5, <1>6, Placed, ManifestOfPayload DEF MayPut, LengthOf, bs
<1>. QED
  BY <1>1, <1>3, <1>4, <1>7

\* The buffer after a copy: the bytes of the block, and the others as they were.
LEMMA AfterCopy ==
  ASSUME IInv, NEW i \in 0..TheManifest.block_count, NEW b \in Block,
         MayPut(i, b), PutCopied(i, b)
  PROVE  /\ DOMAIN buf' = DOMAIN Buffer /\ buf' \in Seq(Cell)
         /\ Len(buf') = TheManifest.payload_length
         /\ \A k \in DOMAIN Buffer :
              k \notin (i * bs + 1)..(i * bs + LengthOf(i)) => buf'[k] = Buffer[k]
         /\ \A k \in 1..LengthOf(i) : buf'[i * bs + k] = b[k]
<1>1. Takes(i, b) /\ buf' = Copied(b, Offset(i))
  BY DEF PutCopied
<1>2. /\ i \in Index /\ Offset(i) = i * bs /\ Len(b) = LengthOf(i) /\ b \in Seq(Cell)
  BY <1>1, Taken
<1>3. DOMAIN Buffer = 1..TheManifest.payload_length /\ TheManifest.payload_length \in Nat
  BY Geometry, ManifestOfPayload
<1>4. buf' = [k \in 1..TheManifest.payload_length |->
                IF k \in (i * bs + 1)..(i * bs + LengthOf(i)) THEN b[k - i * bs] ELSE Buffer[k]]
  BY <1>1, <1>2, <1>3 DEF Copied
<1>5. \A k \in 1..TheManifest.payload_length : buf'[k] \in Cell
  <2>. SUFFICES ASSUME NEW k \in 1..TheManifest.payload_length PROVE buf'[k] \in Cell
    OBVIOUS
  <2>1. CASE k \in (i * bs + 1)..(i * bs + LengthOf(i))
    <3>1. k - i * bs \in 1..Len(b)
      BY <1>2, <2>1, Placed
    <3>. QED
      BY <1>2, <1>4, <2>1, <3>1
  <2>2. CASE k \notin (i * bs + 1)..(i * bs + LengthOf(i))
    BY <1>3, <1>4, <2>2, Geometry
  <2>. QED
    BY <2>1, <2>2
<1>6. buf' \in Seq(Cell) /\ Len(buf') = TheManifest.payload_length
  <2>1. buf' \in [1..TheManifest.payload_length -> Cell]
    <3>1. buf' = [k \in 1..TheManifest.payload_length |-> buf'[k]]
      BY <1>4, Zenon
    <3>. QED
      BY <1>5, <3>1, Zenon
  <2>2. ASSUME NEW n \in Nat, NEW s \in [1..n -> Cell]
        PROVE  s \in Seq(Cell) /\ Len(s) = n
    OBVIOUS
  <2>. QED
    BY <1>3, <2>1, <2>2
<1>7. ASSUME NEW k \in 1..LengthOf(i)
      PROVE  buf'[i * bs + k] = b[k]
  <2>1. /\ i * bs + k \in (i * bs + 1)..(i * bs + LengthOf(i))
        /\ i * bs + k \in 1..TheManifest.payload_length
        /\ (i * bs + k) - i * bs = k
    <3>1. LengthOf(i) \in 1..bs /\ bs \in Nat /\ i * bs \in Nat
      BY <1>2, Placed, Zenon
    <3>2. LengthOf(i) \in Nat
      BY <3>1
    <3>3. i * bs + LengthOf(i) <= TheManifest.payload_length
      BY <1>2, Placed, Zenon
    <3>. QED
      BY <1>3, <3>1, <3>2, <3>3, Inside, Zenon
  <2>. QED
    BY <1>4, <2>1
<1>. QED
  BY <1>3, <1>4, <1>6, <1>7
-----------------------------------------------------------------------------
LEMMA InvInit == BufferInit => IInv
<1>. SUFFICES ASSUME BufferInit PROVE IInv
  OBVIOUS
<1>1. buf \in Seq(Cell) /\ DOMAIN buf = {}
  BY DEF BufferInit
<1>2. BufferTypeOK
  BY <1>1 DEF BufferInit, BufferTypeOK
<1>3. ReadyTogether
  BY DEF BufferInit, ReadyTogether
<1>4. OnlyBlocksAreWritten
  BY <1>1, Zenon DEF OnlyBlocksAreWritten
<1>. QED
  BY <1>2, <1>3, <1>4 DEF IInv

LEMMA InvCopied ==
  ASSUME IInv, NEW i \in 0..TheManifest.block_count, NEW b \in Block,
         MayPut(i, b), PutCopied(i, b)
  PROVE  IInv'
<1>1. i \in Index /\ have' = have \cup {i} /\ have \subseteq Index
  BY Taken DEF PutCopied, IInv, BufferTypeOK
<1>2. ready' /\ block_size' = bs /\ block_count' = TheManifest.block_count
      /\ ready' \in BOOLEAN /\ manifest_set' \in BOOLEAN /\ count' \in Nat
  BY Geometry DEF PutCopied, EnsureGeometry, IInv, BufferTypeOK
<1>3. BufferTypeOK'
  BY <1>1, <1>2, AfterCopy, ManifestOfPayload DEF BufferTypeOK, bs
<1>4. ReadyTogether'
  BY <1>2, AfterCopy DEF ReadyTogether, bs
<1>5. OnlyBlocksAreWritten'
  <2>. SUFFICES ASSUME NEW k \in DOMAIN buf',
                       \A j \in have' : k \notin (j * bs + 1)..(j * bs + LengthOf(j))
                PROVE  buf'[k] = Zero
    BY DEF OnlyBlocksAreWritten, LengthOf, bs
  <2>1. k \in DOMAIN Buffer /\ k \notin (i * bs + 1)..(i * bs + LengthOf(i))
    BY <1>1, AfterCopy
  <2>2. buf'[k] = Buffer[k]
    BY <2>1, AfterCopy
  <2>. QED
    BY <1>1, <2>1, <2>2, Geometry
<1>. QED
  BY <1>3, <1>4, <1>5 DEF IInv

LEMMA InvNext == IInv /\ [BufferNext]_storeVars => IInv'
<1>. SUFFICES ASSUME IInv, [BufferNext]_storeVars PROVE IInv'
  OBVIOUS
<1>1. CASE UNCHANGED <<ready, block_size, block_count, count, have, buf>>
           /\ manifest_set' \in BOOLEAN
  BY <1>1 DEF IInv, BufferTypeOK, ReadyTogether, OnlyBlocksAreWritten
<1>2. ASSUME NEW i \in 0..TheManifest.block_count, NEW b \in Block, PutRefused(i, b)
      PROVE  IInv'
  <2>1. /\ buf' = Buffer /\ ready' = TRUE /\ block_size' = bs
        /\ block_count' = TheManifest.block_count
        /\ UNCHANGED <<manifest_set, count, have>>
    BY <1>2, Geometry DEF PutRefused, EnsureGeometry
  <2>2. BufferTypeOK'
    BY <2>1, Geometry, ManifestOfPayload DEF IInv, BufferTypeOK, bs
  <2>3. ReadyTogether'
    BY <2>1, Geometry DEF ReadyTogether, bs
  <2>4. OnlyBlocksAreWritten'
    BY <2>1, Geometry DEF OnlyBlocksAreWritten, LengthOf, bs
  <2>. QED
    BY <2>2, <2>3, <2>4 DEF IInv
<1>3. CASE SetManifest \/ PutTooEarly \/ UNCHANGED storeVars
  BY <1>1, <1>3 DEF SetManifest, PutTooEarly, storeVars, IInv, BufferTypeOK
<1>. QED
  BY <1>2, <1>3, InvCopied DEF BufferNext, PutBlock

\* The invariant of the store: it is well typed, geometry and buffer are taken
\* together, and only the bytes of blocks that has_block tells were written.
THEOREM BufferStoreInvariant == BufferSpec => []IInv
BY InvInit, InvNext, PTL DEF BufferSpec

\* Blocks that complete in any order are copied without touching each other.
THEOREM BufferOnlyBlocksAreWritten == BufferSpec => []OnlyBlocksAreWritten
<1>1. IInv => OnlyBlocksAreWritten
  BY DEF IInv
<1>. QED
  BY <1>1, BufferStoreInvariant, PTL

\* A copy puts the block under its index, and keeps the others as they were.
LEMMA CopiedIsKept ==
  ASSUME IInv, NEW i \in 0..TheManifest.block_count, NEW b \in Block,
         MayPut(i, b), PutCopied(i, b)
  PROVE  i \in Index /\ B!Keep(i, b)
<1>1. /\ i \in Index /\ i \notin have /\ have' = have \cup {i} /\ have \subseteq Index
      /\ Len(b) = LengthOf(i) /\ b \in Seq(Cell)
  BY Taken DEF PutCopied, IInv, BufferTypeOK
<1>2. ASSUME NEW j \in have
      PROVE  BlockAt(j)' = BlockAt(j)
  <2>1. ready /\ Buffer = buf /\ j \in Index /\ j # i
    BY <1>1 DEF IInv, ReadyTogether, Buffer
  <2>2. ASSUME NEW k \in 1..LengthOf(j)
        PROVE  buf'[j * bs + k] = buf[j * bs + k]
    <3>1. j * bs + k \notin (i * bs + 1)..(i * bs + LengthOf(i))
      BY <1>1, <2>1, Apart
    <3>2. j * bs + k \in DOMAIN Buffer
      <4>1. DOMAIN Buffer = 1..TheManifest.payload_length /\ TheManifest.payload_length \in Nat
        BY <1>1, Geometry, ManifestOfPayload
      <4>2. LengthOf(j) \in 1..bs /\ bs \in Nat /\ j * bs \in Nat
        BY <2>1, Placed, Zenon
      <4>3. LengthOf(j) \in Nat
        BY <4>2
      <4>4. j * bs + LengthOf(j) <= TheManifest.payload_length
        BY <2>1, Placed, Zenon
      <4>. QED
        BY <4>1, <4>2, <4>3, <4>4, Inside, Zenon
    <3>. QED
      BY <2>1, <3>1, <3>2, AfterCopy
  <2>. QED
    BY <2>2 DEF BlockAt, LengthOf, bs
<1>3. BlockAt(i)' = b
  <2>1. BlockAt(i)' = [k \in 1..LengthOf(i) |-> b[k]]
    BY AfterCopy DEF BlockAt, LengthOf, bs
  <2>2. b = [k \in 1..LengthOf(i) |-> b[k]]
    BY <1>1
  <2>. QED
    BY <2>1, <2>2
<1>4. DOMAIN Stored = have
  BY DEF Stored
<1>5. Stored' = [j \in have \cup {i} |-> IF j = i THEN b ELSE Stored[j]]
  BY <1>1, <1>2, <1>3 DEF Stored
<1>. QED
  BY <1>1, <1>4, <1>5 DEF B!Keep

LEMMA StepKeeps == IInv /\ [BufferNext]_storeVars => [B!Next]_Stored
<1>. SUFFICES ASSUME IInv, [BufferNext]_storeVars PROVE [B!Next]_Stored
  OBVIOUS
<1>1. ASSUME NEW i \in 0..TheManifest.block_count, NEW b \in Block,
             MayPut(i, b), PutCopied(i, b)
      PROVE  B!Next
  BY <1>1, CopiedIsKept DEF B!Next
<1>2. ASSUME NEW i \in 0..TheManifest.block_count, NEW b \in Block, PutRefused(i, b)
      PROVE  UNCHANGED Stored
  <2>1. have' = have /\ (ready => buf' = buf) /\ (~ready => have = {})
    BY <1>2 DEF PutRefused, Buffer, IInv, ReadyTogether
  <2>. QED
    BY <2>1 DEF Stored, BlockAt, LengthOf
<1>3. CASE UNCHANGED <<have, buf>>
  BY <1>3 DEF Stored, BlockAt, LengthOf
<1>. QED
  BY <1>1, <1>2, <1>3 DEF BufferNext, PutBlock, PutTooEarly, SetManifest, storeVars

\* The store keeps the IBlockStore contract: what has_block tells was put, is in the
\* buffer where the decoder looks for it, and stays there.
THEOREM BufferStoreImplements == BufferSpec => ImplementsBlockStore
<1>1. BufferInit => B!Init
  BY DEF BufferInit, B!Init, Stored
<1>. QED
  BY <1>1, StepKeeps, BufferStoreInvariant, PTL DEF BufferSpec, ImplementsBlockStore, B!Spec

-----------------------------------------------------------------------------
(* PackageCheck.                                                             *)

\* What was parsed is the buffer that was offered, and the keys are in the order in
\* which they were added.
CheckInv ==
  /\ keys \in Seq(Keys)
  /\ package \in Seq(ToSet(package))
  /\ parsed = package_parse(package)
  /\ VerdictIsExact

\* A buffer that parses is long enough, and says what it is.
LEMMA ParsedOk ==
  ASSUME NEW S, NEW b \in Seq(S)
  PROVE  /\ package_parse(b).error = "Ok" <=>
              /\ Len(b) >= HeaderLen + ManifestLen + SigLen
              /\ b[1] = kPackageMagic /\ b[2] = kFormat
              /\ b[3] = ManifestLen /\ b[4] = SigLen
              /\ b[5] = kManifestMagic /\ b[6] = kFormat
              /\ b[7] = Len(b) - (HeaderLen + ManifestLen + SigLen)
         /\ package_parse(b).error = "Ok" =>
              /\ package_parse(b).manifest = SubSeq(b, 5, 8)
              /\ package_parse(b).signature = SubSeq(b, 9, 10)
              /\ package_parse(b).payload = SubSeq(b, 11, Len(b))
         /\ package_parse(b).error # "Ok" => package_parse(b).manifest = <<>>
<1> DEFINE Whole ==
             /\ Len(b) >= 10
             /\ b[1] = kPackageMagic /\ b[2] = kFormat
             /\ b[3] = 4 /\ b[4] = 2
             /\ b[5] = kManifestMagic /\ b[6] = kFormat
             /\ b[7] = Len(b) - 10
           views == [error |-> "Ok", manifest |-> SubSeq(b, 5, 8),
                     signature |-> SubSeq(b, 9, 10), payload |-> SubSeq(b, 11, Len(b))]
<1>1. Len(b) \in Nat
  BY LenProperties
<1>2. ASSUME Whole PROVE package_parse(b) = views
  <2>1. /\ ~(Len(b) < 4) /\ ~(b[1] # kPackageMagic) /\ ~(b[2] # kFormat)
        /\ ~(b[3] # 4 \/ b[4] # 2) /\ 4 <= Len(b) - 4 /\ 2 <= Len(b) - 8
    BY <1>1, <1>2
  <2> QED
    BY <1>2, <2>1 DEF package_parse, SectionFits, TrueLength, HeaderLen, ManifestLen, SigLen
<1>3. ASSUME ~Whole
      PROVE  package_parse(b) \in {Error("TooSmall"), Error("BadMagic"), Error("BadFormat"),
                                   Error("BadManifest"), Error("LengthMismatch")}
  <2>1. \/ Len(b) < 4 \/ b[1] # kPackageMagic \/ b[2] # kFormat
        \/ b[3] # 4 \/ b[4] # 2 \/ ~(4 <= Len(b) - 4) \/ ~(2 <= Len(b) - 8)
        \/ b[5] # kManifestMagic \/ b[6] # kFormat \/ b[7] # Len(b) - 10
    BY <1>1, <1>3
  <2> QED
    BY <2>1 DEF package_parse, SectionFits, TrueLength, HeaderLen, ManifestLen, SigLen
<1>4. views.error = "Ok" /\ \A e : Error(e).error = e /\ Error(e).manifest = <<>>
  BY DEF Error
<1>5. ~Whole => package_parse(b).error # "Ok" /\ package_parse(b).manifest = <<>>
  BY <1>3, <1>4
<1> QED
  BY <1>2, <1>4, <1>5 DEF HeaderLen, ManifestLen, SigLen

\* Four cells in a row.
LEMMA FourCells ==
  ASSUME NEW S, NEW b \in Seq(S), 4 <= Len(b)
  PROVE  <<b[1], b[2], b[3], b[4]>> = SubSeq(b, 1, 4)
<1> DEFINE s == SubSeq(b, 1, 4)
           t == <<b[1], b[2], b[3], b[4]>>
<1>1. Len(b) \in Nat
  BY LenProperties
<1>2. \A i \in 1..4 : i \in 1..Len(b)
  BY <1>1
<1>3. \A i \in 1..4 : b[i] \in S
  BY <1>2, ElementOfSeq
<1>4. s \in Seq(S) /\ Len(s) = 4 /\ \A i \in 1..4 : s[i] = b[i]
  BY <1>3, SubSeqProperties
<1>5. t \in Seq(S) /\ Len(t) = 4 /\ t[1] = b[1] /\ t[2] = b[2] /\ t[3] = b[3] /\ t[4] = b[4]
  BY <1>3
<1> HIDE DEF s, t
<1>6. \A i \in 1..4 : i = 1 \/ i = 2 \/ i = 3 \/ i = 4
  OBVIOUS
<1>7. \A i \in 1..Len(t) : t[i] = s[i]
  BY <1>4, <1>5, <1>6
<1> QED
  BY <1>4, <1>5, <1>7, SeqEqual DEF s, t

\* A buffer is the sections it is cut into.
LEMMA Sections ==
  ASSUME NEW S, NEW b \in Seq(S), 10 <= Len(b)
  PROVE  b = (SubSeq(b, 1, 4) \o SubSeq(b, 5, 8)) \o (SubSeq(b, 9, 10) \o SubSeq(b, 11, Len(b)))
<1>1. Len(b) \in Nat
  BY LenProperties
<1>2. SubSeq(b, 1, 4) \o SubSeq(b, 5, 8) = SubSeq(b, 1, 8)
  <2>1. 1 \in 1..(Len(b) + 1) /\ 4 \in (1 - 1)..Len(b) /\ 8 \in 4..Len(b) /\ 4 + 1 = 5
    BY <1>1
  <2> QED
    BY <2>1, ConcatAdjacentSubSeq
<1>3. SubSeq(b, 9, 10) \o SubSeq(b, 11, Len(b)) = SubSeq(b, 9, Len(b))
  <2>1. 9 \in 1..(Len(b) + 1) /\ 10 \in (9 - 1)..Len(b) /\ Len(b) \in 10..Len(b) /\ 10 + 1 = 11
    BY <1>1
  <2> QED
    BY <2>1, ConcatAdjacentSubSeq
<1>4. SubSeq(b, 1, 8) \o SubSeq(b, 9, Len(b)) = SubSeq(b, 1, Len(b))
  <2>1. 1 \in 1..(Len(b) + 1) /\ 8 \in (1 - 1)..Len(b) /\ Len(b) \in 8..Len(b) /\ 8 + 1 = 9
    BY <1>1
  <2> QED
    BY <2>1, ConcatAdjacentSubSeq
<1> QED
  BY <1>2, <1>3, <1>4, SubSeqFull

LEMMA ConcatFront ==
  ASSUME NEW S, NEW s \in Seq(S), NEW t \in Seq(S)
  PROVE  /\ s \o t \in Seq(S) /\ Len(s \o t) = Len(s) + Len(t)
         /\ \A i \in 1..Len(s) : (s \o t)[i] = s[i]
<1>1. Len(s) \in Nat /\ Len(t) \in Nat
  BY LenProperties
<1>2. \A i \in 1..Len(s) : i \in 1..(Len(s) + Len(t)) /\ i <= Len(s)
  BY <1>1
<1>3. /\ s \o t \in Seq(S) /\ Len(s \o t) = Len(s) + Len(t)
      /\ \A i \in 1..(Len(s) + Len(t)) :
           (s \o t)[i] = IF i <= Len(s) THEN s[i] ELSE t[i - Len(s)]
  BY ConcatProperties
<1> QED
  BY <1>2, <1>3, Zenon

LEMMA FrontOfThree ==
  ASSUME NEW S, NEW s \in Seq(S), NEW t \in Seq(S), NEW u \in Seq(S), NEW i \in 1..Len(s)
  PROVE  ((s \o t) \o u)[i] = s[i]
<1>1. s \o t \in Seq(S) /\ Len(s \o t) = Len(s) + Len(t) /\ (s \o t)[i] = s[i]
  BY ConcatFront
<1>2. Len(s) \in Nat /\ Len(t) \in Nat
  BY LenProperties
<1>3. i \in 1..Len(s \o t)
  BY <1>1, <1>2
<1> DEFINE f == s \o t
<1>4. f \in Seq(S) /\ i \in 1..Len(f)
  BY <1>1, <1>3
<1> HIDE DEF f
<1>5. (f \o u)[i] = f[i]
  BY <1>4, ConcatFront
<1> QED
  BY <1>1, <1>5 DEF f

\* What follows the signature.
LEMMA PayloadPart ==
  ASSUME NEW S, NEW b \in Seq(S), 10 <= Len(b)
  PROVE  SubSeq(b, 11, Len(b)) \in Seq(S) /\ Len(SubSeq(b, 11, Len(b))) = Len(b) - 10
<1> DEFINE n == Len(b)
           t == SubSeq(b, 11, n)
<1>1. n \in Nat /\ 10 <= n /\ \A i \in 1..n : b[i] \in S
  BY LenProperties, ElementOfSeq
<1>2. \A i \in 11..n : b[i] \in S
  BY <1>1
<1>3. t \in Seq(S) /\ Len(t) = IF 11 <= n THEN n - 11 + 1 ELSE 0
  BY <1>1, <1>2, SubSeqProperties
<1> HIDE DEF n, t
<1>4. Len(t) = n - 10
  BY <1>1, <1>3
<1> QED
  BY <1>3, <1>4 DEF n, t

\* The manifest of a buffer that is long enough.
LEMMA ManifestCells ==
  ASSUME NEW S, NEW b \in Seq(S), 8 <= Len(b)
  PROVE  LET m == SubSeq(b, 5, 8)
         IN  Len(m) = 4 /\ m[1] = b[5] /\ m[2] = b[6] /\ m[3] = b[7]
<1> DEFINE m == SubSeq(b, 5, 8)
<1>1. Len(b) \in Nat
  BY LenProperties
<1>2. \A i \in 5..8 : i \in 1..Len(b)
  BY <1>1
<1>3. \A i \in 5..8 : b[i] \in S
  BY <1>2, ElementOfSeq
<1>4. Len(m) = 4 /\ \A i \in 1..4 : m[i] = b[5 + i - 1]
  BY <1>3, SubSeqProperties
<1> HIDE DEF m
<1> QED
  BY <1>4 DEF m

\* What parses is a package, cut into its sections.
LEMMA ParsedIsPackage ==
  ASSUME NEW S, NEW b \in Seq(S), package_parse(b).error = "Ok"
  PROVE  LET p == package_parse(b)
         IN  /\ b = Package(p.manifest, p.signature, p.payload)
             /\ IsManifest(p.manifest) /\ p.manifest[3] = Len(p.payload)
             /\ Len(p.signature) = SigLen /\ p.manifest # <<>>
<1> DEFINE p == package_parse(b)
<1>1. /\ Len(b) >= 10
      /\ b[1] = kPackageMagic /\ b[2] = kFormat /\ b[3] = ManifestLen /\ b[4] = SigLen
      /\ b[5] = kManifestMagic /\ b[6] = kFormat /\ b[7] = Len(b) - 10
  BY ParsedOk DEF HeaderLen, ManifestLen, SigLen
<1>2. /\ p.manifest = SubSeq(b, 5, 8)
      /\ p.signature = SubSeq(b, 9, 10)
      /\ p.payload = SubSeq(b, 11, Len(b))
  BY ParsedOk
<1> HIDE DEF p
<1>3. Len(b) \in Nat
  BY LenProperties
<1>4. <<kPackageMagic, kFormat, ManifestLen, SigLen>> = SubSeq(b, 1, 4)
  BY <1>1, <1>3, FourCells
<1>5. b = Package(p.manifest, p.signature, p.payload)
  BY <1>1, <1>2, <1>3, <1>4, Sections DEF Package
<1>6. /\ Len(p.manifest) = 4 /\ p.manifest[1] = b[5] /\ p.manifest[2] = b[6]
      /\ p.manifest[3] = b[7]
  BY <1>1, <1>2, <1>3, ManifestCells
<1>7. Len(p.payload) = Len(b) - 10 /\ Len(p.signature) = 2
  <2>1. \A i \in 1..Len(b) : b[i] \in S
    BY ElementOfSeq
  <2>2. \A i \in 9..10 : b[i] \in S
    BY <1>1, <1>3, <2>1
  <2>3. Len(SubSeq(b, 9, 10)) = IF 9 <= 10 THEN 10 - 9 + 1 ELSE 0
    BY <2>2, SubSeqProperties
  <2> QED
    BY <1>1, <1>2, <2>3, PayloadPart
<1>8. p.manifest # <<>>
  BY <1>6
<1> QED
  BY <1>1, <1>5, <1>6, <1>7, <1>8 DEF IsManifest, ManifestLen, SigLen, p

\* A package parses.
LEMMA PackageIsParsed ==
  ASSUME NEW S, NEW b \in Seq(S), 10 <= Len(b),
         LET m == SubSeq(b, 5, 8)
             payload == SubSeq(b, 11, Len(b))
         IN  /\ IsManifest(m) /\ m[3] = Len(payload)
             /\ b = Package(m, SubSeq(b, 9, 10), payload)
  PROVE  package_parse(b).error = "Ok"
<1> DEFINE m == SubSeq(b, 5, 8)
           payload == SubSeq(b, 11, Len(b))
           tail == SubSeq(b, 9, 10) \o payload
           head == <<kPackageMagic, kFormat, ManifestLen, SigLen>>
           H == {head[1], head[2], head[3], head[4]} \cup S
<1>1. Len(b) \in Nat /\ \A i \in 1..Len(b) : b[i] \in S
  BY LenProperties, ElementOfSeq
<1>2. /\ \A i \in 5..8 : b[i] \in S
      /\ \A i \in 9..10 : b[i] \in S
      /\ \A i \in 11..Len(b) : b[i] \in S
  BY <1>1
<1>3. m \in Seq(S) /\ Len(m) = 4
  BY <1>2, ManifestCells, SubSeqProperties
<1>4. payload \in Seq(S) /\ Len(payload) = Len(b) - 10
  BY PayloadPart
<1>5. tail \in Seq(S)
  BY <1>2, <1>4, SubSeqProperties, ConcatProperties
<1>6. head \in Seq(H) /\ Len(head) = 4
  OBVIOUS
<1>7. m \in Seq(H) /\ tail \in Seq(H)
  BY <1>3, <1>5, SeqMonotonic
<1>8. b = (head \o m) \o tail
  BY DEF Package
<1>9. IsManifest(m) /\ m[3] = Len(payload)
  OBVIOUS
<1>10. m[1] = b[5] /\ m[2] = b[6] /\ m[3] = b[7]
  BY <1>1, ManifestCells
<1>11. head[1] = kPackageMagic /\ head[2] = kFormat /\ head[3] = ManifestLen /\ head[4] = SigLen
  OBVIOUS
<1> HIDE DEF m, payload, tail, head, H
<1>12. \A i \in 1..Len(head) : ((head \o m) \o tail)[i] = head[i]
  <2>1. \A s, t, u : s \in Seq(H) /\ t \in Seq(H) /\ u \in Seq(H)
                       => \A i \in 1..Len(s) : ((s \o t) \o u)[i] = s[i]
    BY FrontOfThree
  <2>2. head \in Seq(H) /\ m \in Seq(H) /\ tail \in Seq(H)
    BY <1>6, <1>7
  <2> QED
    BY <2>1, <2>2
<1>13. \A i \in 1..4 : b[i] = head[i]
  BY <1>6, <1>8, <1>12
<1>14. b[1] = kPackageMagic /\ b[2] = kFormat /\ b[3] = ManifestLen /\ b[4] = SigLen
  BY <1>11, <1>13
<1>15. b[5] = kManifestMagic /\ b[6] = kFormat /\ b[7] = Len(b) - 10
  BY <1>4, <1>9, <1>10 DEF IsManifest
<1>16. package_parse(b).error = "Ok"
         <=> /\ Len(b) >= 10
             /\ b[1] = kPackageMagic /\ b[2] = kFormat /\ b[3] = ManifestLen /\ b[4] = SigLen
             /\ b[5] = kManifestMagic /\ b[6] = kFormat /\ b[7] = Len(b) - 10
  BY ParsedOk DEF HeaderLen, ManifestLen, SigLen
<1> QED
  BY <1>14, <1>15, <1>16

\* What a verifier that holds the keys ks says of a buffer.
LEMMA VerdictOf ==
  ASSUME NEW S, NEW b \in Seq(S), NEW ks
  PROVE  LET p == package_parse(b)
         IN  p.manifest # <<>> /\ verify(ks, p.manifest, p.signature)
               <=> /\ p.error = "Ok"
                   /\ \E k \in ToSet(ks) :
                        p.signature = Sign(k, <<0, 0, kOtaPortnum>> \o p.manifest)
<1> DEFINE p == package_parse(b)
<1>1. ASSUME NEW k
      PROVE  Len(p.manifest) = 4 =>
               (xeddsa_verify(k, 0, 0, kOtaPortnum, p.manifest, p.signature)
                 <=> p.signature = Sign(k, <<0, 0, kOtaPortnum>> \o p.manifest))
  <2> HIDE DEF p
  <2>1. EdwardsOf(k).edwards = k
    BY DEF EdwardsOf
  <2> QED
    BY <2>1 DEF xeddsa_verify, ota_xeddsa_verify_raw, crypto_sign_open, SigningBuffer,
                kXeddsaMaxPayload
<1>2. CASE p.error = "Ok"
  <2>1. Len(p.manifest) = 4 /\ Len(p.signature) = SigLen /\ p.manifest # <<>>
    BY <1>2, ParsedIsPackage DEF IsManifest, ManifestLen
  <2>2. ToSet(ks) = {ks[i] : i \in DOMAIN ks}
    BY DEF ToSet
  <2>3. ks = <<>> => DOMAIN ks = {}
    OBVIOUS
  <2> HIDE DEF p
  <2>4. verify(ks, p.manifest, p.signature)
          <=> \E i \in DOMAIN ks : p.signature = Sign(ks[i], <<0, 0, kOtaPortnum>> \o p.manifest)
    BY <1>1, <2>1, <2>3 DEF verify
  <2> QED
    BY <1>2, <2>1, <2>2, <2>4 DEF p
<1>3. CASE p.error # "Ok"
  BY <1>3, ParsedOk
<1> QED
  BY <1>2, <1>3

\* A buffer that is offered is a sequence of its cells.
LEMMA OffersAreOfCells ==
  ASSUME NEW b \in Offers
  PROVE  b \in Seq(ToSet(b))
<1> DEFINE n == Len(b)
<1>1. n \in Nat /\ b = [i \in 1..n |-> b[i]]
  BY OffersAreBuffers
<1>2. DOMAIN b = 1..n
  BY <1>1
<1>3. ToSet(b) = {b[i] : i \in 1..n}
  BY <1>2 DEF ToSet
<1>4. b \in [1..n -> ToSet(b)]
  BY <1>1, <1>3, Zenon
<1> QED
  BY <1>1, <1>4, SeqDef, Zenon

LEMMA CheckInit_Inv == CheckInit => CheckInv
<1> SUFFICES ASSUME CheckInit PROVE CheckInv
  OBVIOUS
<1>1. keys \in Seq(Keys) /\ package \in Seq(ToSet(package)) /\ parsed = package_parse(package)
  BY EmptySeq DEF CheckInit
<1>2. package_verify_signature(parsed) <=> Authorized
  BY <1>1, VerdictOf DEF package_verify_signature, Authorized
<1> QED
  BY <1>1, <1>2 DEF CheckInit, CheckInv, VerdictIsExact

\* A key that was added stays.
LEMMA KeysStay ==
  ASSUME NEW ks \in Seq(Keys), NEW k \in Keys
  PROVE  add_key(ks, k) \in Seq(Keys) /\ ToSet(ks) \subseteq ToSet(add_key(ks, k))
<1>1. ToSet(Append(ks, k)) = ToSet(ks) \cup {k} /\ Append(ks, k) \in Seq(Keys)
  <2>1. /\ Append(ks, k) \in Seq(Keys) /\ Len(Append(ks, k)) = Len(ks) + 1
        /\ \A i \in 1..Len(ks) : Append(ks, k)[i] = ks[i]
        /\ Append(ks, k)[Len(ks) + 1] = k
    BY AppendProperties
  <2>2. Len(ks) \in Nat /\ DOMAIN ks = 1..Len(ks)
    BY LenProperties
  <2>3. DOMAIN Append(ks, k) = 1..(Len(ks) + 1)
    BY <2>1, LenProperties
  <2>4. 1..(Len(ks) + 1) = 1..Len(ks) \cup {Len(ks) + 1}
    BY <2>2
  <2> QED
    BY <2>1, <2>2, <2>3, <2>4 DEF ToSet
<1> QED
  BY <1>1 DEF add_key

LEMMA CheckNext_Inv == CheckInv /\ [CheckNext]_checkVars => CheckInv'
<1> SUFFICES ASSUME CheckInv, [CheckNext]_checkVars PROVE CheckInv'
  OBVIOUS
<1>1. ASSUME NEW k \in Keys, AddKey(k) PROVE CheckInv'
  <2>1. keys' \in Seq(Keys) /\ ToSet(keys) \subseteq ToSet(keys')
    BY <1>1, KeysStay DEF AddKey, CheckInv
  <2>2. package' \in Seq(ToSet(package')) /\ parsed' = package_parse(package')
    BY <1>1 DEF AddKey, CheckInv
  <2>3. package_verify_signature(parsed)' <=> Authorized'
    BY <2>2, VerdictOf DEF package_verify_signature, Authorized
  <2>4. Authorized => Authorized'
    BY <1>1, <2>1 DEF AddKey, Authorized
  <2>5. verified' => Authorized'
    BY <1>1, <2>4 DEF AddKey, CheckInv, VerdictIsExact
  <2> QED
    BY <2>1, <2>2, <2>3, <2>5 DEF CheckInv, VerdictIsExact
<1>2. ASSUME NEW b \in Offers, OfferPackage(b) PROVE CheckInv'
  <2>1. package' \in Seq(ToSet(package')) /\ parsed' = package_parse(package') /\ keys' = keys
    BY <1>2, OffersAreOfCells DEF OfferPackage
  <2>2. package_verify_signature(parsed)' <=> Authorized'
    BY <2>1, VerdictOf DEF package_verify_signature, Authorized
  <2>3. verified' = package_verify_signature(parsed)'
    BY <1>2, <2>1 DEF OfferPackage, package_verify_signature
  <2> QED
    BY <2>1, <2>2, <2>3 DEF CheckInv, VerdictIsExact
<1>3. CASE UNCHANGED checkVars
  BY <1>3 DEF checkVars, CheckInv, VerdictIsExact, Authorized, package_verify_signature
<1> QED
  BY <1>1, <1>2, <1>3 DEF CheckNext

THEOREM CheckInvariant == CheckSpec => []CheckInv
  BY CheckInit_Inv, CheckNext_Inv, PTL DEF CheckSpec

\* For every buffer that is offered: it parses exactly when it is a package, its views
\* are its sections, and a buffer damaged, cut or lengthened is refused
\* (package.cpp:7-51).
THEOREM ParsingIsExact == CheckSpec => []ParseIsExact
<1>1. CheckInv => ParseIsExact
  <2> SUFFICES ASSUME CheckInv PROVE ParseIsExact
    OBVIOUS
  <2>1. package \in Seq(ToSet(package)) /\ parsed = package_parse(package)
    BY DEF CheckInv
  <2>2. ASSUME parsed.error = "Ok"
        PROVE  /\ package = Package(parsed.manifest, parsed.signature, parsed.payload)
               /\ IsManifest(parsed.manifest) /\ parsed.manifest[3] = Len(parsed.payload)
    BY <2>1, <2>2, ParsedIsPackage
  <2>3. ASSUME parsed.error # "Ok", NEW n \in 0..Len(package), n = 10,
               IsManifest(SubSeq(package, 5, 8)),
               SubSeq(package, 5, 8)[3] = Len(SubSeq(package, 11, Len(package)))
        PROVE  package # Package(SubSeq(package, 5, 8), SubSeq(package, 9, 10),
                                 SubSeq(package, 11, Len(package)))
    <3>1. 10 <= Len(package)
      BY <2>1, <2>3, LenProperties
    <3> QED
      BY <2>1, <2>3, <3>1, PackageIsParsed
  <2> QED
    BY <2>2, <2>3 DEF ParseIsExact, HeaderLen, ManifestLen, SigLen
<1> QED
  BY <1>1, CheckInvariant, PTL

\* The verdict is right for every set of keys and every buffer: authorized exactly when
\* a holder of one of the keys signed this manifest as an update, and once given it
\* stays true as keys are added (admin_key_verifier.h:25-45).
THEOREM VerdictsAreExact == CheckSpec => []VerdictIsExact
  BY CheckInvariant, PTL DEF CheckInv
-----------------------------------------------------------------------------
(* SelfIdentity.                                                             *)

\* A set of natural numbers that is not empty has a least member.
LEMMA LeastMember ==
  ASSUME NEW X, X \subseteq Nat, X # {}
  PROVE  \E i \in X : \A j \in X : i <= j
<1>1. IsWellFoundedOn(OpToRel(<, Nat), Nat)
  BY NatLessThanWellFounded, Zenon
<1>2. PICK i \in X : \A j \in X : ~(<<j, i>> \in OpToRel(<, Nat))
  BY <1>1, WFMin, Zenon
<1>3. \A j \in X : ~(j < i)
  BY <1>2 DEF OpToRel
<1> QED
  BY <1>3

\* Of the rounds 0..n, either all are out of a set, or there is a first one in it.
LEMMA FirstRound ==
  ASSUME NEW n \in Nat, NEW Bad, Bad \subseteq 0..n, 0 \notin Bad, Bad # {}
  PROVE  \E k \in 1..n : k \in Bad /\ k - 1 \in 0..n /\ k - 1 \notin Bad
<1>1. Bad \subseteq Nat
  OBVIOUS
<1>2. PICK k \in Bad : \A j \in Bad : k <= j
  BY <1>1, LeastMember, Zenon
<1>3. k \in 1..n /\ k - 1 \in 0..n /\ ~(k <= k - 1)
  BY <1>2
<1> QED
  BY <1>2, <1>3

\* A function that says where the first k of some segments end.
EndsTo(f, k, segments) ==
  /\ f = [j \in 0..k |-> f[j]]
  /\ f[0] = kHeaderLen
  /\ \A j \in 1..k : f[j] = f[j - 1] + kSegHeaderLen + segments[j]

LEMMA EndsExist ==
  ASSUME NEW segments, NEW n \in Nat
  PROVE  \E f : EndsTo(f, n, segments)
<1> DEFINE Bad == {k \in 0..n : ~ \E f : EndsTo(f, k, segments)}
<1>1. 0 \notin Bad
  <2>1. EndsTo([j \in 0..0 |-> kHeaderLen], 0, segments)
    BY DEF EndsTo
  <2> QED
    BY <2>1
<1>2. SUFFICES ASSUME Bad # {} PROVE FALSE
  OBVIOUS
<1>3. PICK k \in 1..n : k \in Bad /\ k - 1 \in 0..n /\ k - 1 \notin Bad
  <2>1. Bad \subseteq 0..n
    OBVIOUS
  <2> HIDE DEF Bad
  <2> QED
    BY <1>1, <1>2, <2>1, FirstRound
<1>4. PICK f : EndsTo(f, k - 1, segments)
  BY <1>3
<1> DEFINE last == f[k - 1] + kSegHeaderLen + segments[k]
           g == [j \in 0..k |-> IF j = k THEN last ELSE f[j]]
<1>5. EndsTo(g, k, segments)
  <2>1. g = [j \in 0..k |-> g[j]]
    OBVIOUS
  <2>2. g[0] = kHeaderLen
    BY <1>4 DEF EndsTo
  <2>3. ASSUME NEW j \in 1..k PROVE g[j] = g[j - 1] + kSegHeaderLen + segments[j]
    <3>1. j \in 0..k /\ j - 1 \in 0..k /\ j - 1 # k
      OBVIOUS
    <3>2. g[j - 1] = f[j - 1]
      BY <3>1
    <3>3. CASE j = k
      <4>1. g[j] = last
        BY <3>1, <3>3
      <4> HIDE DEF g
      <4> QED
        BY <3>2, <3>3, <4>1
    <3>4. CASE j # k
      <4>1. j \in 1..(k - 1)
        BY <3>4
      <4>2. f[j] = f[j - 1] + kSegHeaderLen + segments[j]
        BY <1>4, <4>1 DEF EndsTo
      <4>3. g[j] = f[j]
        BY <3>1, <3>4
      <4> HIDE DEF g
      <4> QED
        BY <3>2, <4>2, <4>3
    <3> QED
      BY <3>3, <3>4
  <2> HIDE DEF g
  <2> QED
    BY <2>1, <2>2, <2>3 DEF EndsTo
<1> QED
  BY <1>3, <1>5

LEMMA EndsAre ==
  ASSUME NEW i, Len(i.segments) \in Nat
  PROVE  EndsTo(SegmentEnds(i), Len(i.segments), i.segments)
<1> DEFINE n == Len(i.segments)
           IsEnds(f) == f = [k \in 0..n |-> IF k = 0 THEN kHeaderLen
                                            ELSE f[k - 1] + kSegHeaderLen + i.segments[k]]
           E == CHOOSE f : IsEnds(f)
<1>1. PICK f : EndsTo(f, n, i.segments)
  BY EndsExist
<1>2. IsEnds(f)
  <2>1. ASSUME NEW k \in 0..n
        PROVE  f[k] = IF k = 0 THEN kHeaderLen ELSE f[k - 1] + kSegHeaderLen + i.segments[k]
    <3>1. k = 0 \/ (k \in 1..n /\ k # 0)
      OBVIOUS
    <3>2. k \in 1..n => f[k] = f[k - 1] + kSegHeaderLen + i.segments[k]
      BY <1>1, Zenon DEF EndsTo
    <3>3. f[0] = kHeaderLen
      BY <1>1 DEF EndsTo
    <3> QED
      BY <3>1, <3>2, <3>3, Zenon
  <2>2. f = [k \in 0..n |-> f[k]]
    BY <1>1 DEF EndsTo
  <2> QED
    BY <2>1, <2>2, Zenon
<1>3. IsEnds(E)
  <2> HIDE DEF IsEnds
  <2> QED
    BY <1>2
<1>4. SegmentEnds(i) = E
  BY DEF SegmentEnds
<1> HIDE DEF E
<1> QED
  BY <1>3, <1>4 DEF EndsTo

\* The segments lie behind the header, one behind the other.
LEMMA EndsGrow ==
  ASSUME NEW i \in Images
  PROVE  LET n == Len(i.segments)
             end == SegmentEnds(i)
         IN  /\ n \in Nat /\ DOMAIN i.segments = 1..n
             /\ \A k \in 1..n : i.segments[k] \in Nat
             /\ end = [k \in 0..n |-> end[k]]
             /\ end[0] = kHeaderLen
             /\ \A k \in 1..n : end[k] = end[k - 1] + kSegHeaderLen + i.segments[k]
             /\ \A k \in 0..n : end[k] \in Nat /\ end[k] >= kHeaderLen
             /\ \A k \in 0..n, j \in 0..n : j < k => end[j] + kSegHeaderLen <= end[k]
<1> DEFINE n == Len(i.segments)
           end == SegmentEnds(i)
<1>1. n \in Nat /\ DOMAIN i.segments = 1..n /\ \A k \in 1..n : i.segments[k] \in Nat
  <2>1. i.segments \in Seq(Nat)
    BY ImagesAreBuilt
  <2> QED
    BY <2>1, LenProperties, ElementOfSeq
<1>2. /\ end = [k \in 0..n |-> end[k]]
      /\ end[0] = kHeaderLen
      /\ \A k \in 1..n : end[k] = end[k - 1] + kSegHeaderLen + i.segments[k]
  BY <1>1, EndsAre DEF EndsTo
<1> HIDE DEF n, end
<1>3. \A k \in 0..n : end[k] \in Nat /\ end[k] >= kHeaderLen
  <2> DEFINE Bad == {k \in 0..n : ~(end[k] \in Nat /\ end[k] >= kHeaderLen)}
  <2>1. 0 \notin Bad
    BY <1>2 DEF kHeaderLen
  <2>2. SUFFICES ASSUME Bad # {} PROVE FALSE
    OBVIOUS
  <2>3. PICK k \in 1..n : k \in Bad /\ k - 1 \in 0..n /\ k - 1 \notin Bad
    <3>1. Bad \subseteq 0..n
      OBVIOUS
    <3> HIDE DEF Bad
    <3> QED
      BY <1>1, <2>1, <2>2, <3>1, FirstRound
  <2>4. end[k - 1] \in Nat /\ end[k - 1] >= 24 /\ ~(end[k] \in Nat /\ end[k] >= 24)
    BY <2>3 DEF kHeaderLen
  <2> HIDE DEF Bad
  <2>5. end[k] = end[k - 1] + kSegHeaderLen + i.segments[k]
    BY <1>2, Zenon
  <2>6. i.segments[k] \in Nat
    BY <1>1, Zenon
  <2> QED
    BY <2>4, <2>5, <2>6 DEF kSegHeaderLen
<1>4. ASSUME NEW j \in 0..n
      PROVE  \A k \in 0..n : j < k => end[j] + kSegHeaderLen <= end[k]
  <2> DEFINE Bad == {k \in 0..n : ~(j < k => end[j] + kSegHeaderLen <= end[k])}
  <2>1. 0 \notin Bad
    BY <1>1
  <2>2. SUFFICES ASSUME Bad # {} PROVE FALSE
    OBVIOUS
  <2>3. PICK k \in 1..n : k \in Bad /\ k - 1 \in 0..n /\ k - 1 \notin Bad
    <3>1. Bad \subseteq 0..n
      OBVIOUS
    <3> HIDE DEF Bad
    <3> QED
      BY <1>1, <2>1, <2>2, <3>1, FirstRound
  <2>4. /\ i.segments[k] \in Nat /\ end[k - 1] \in Nat /\ end[j] \in Nat
        /\ j \in Nat /\ k \in Nat
    BY <1>1, <1>3, <2>3
  <2>5. j < k /\ ~(end[j] + 8 <= end[k])
    BY <2>3 DEF kSegHeaderLen
  <2>6. j < k - 1 => end[j] + 8 <= end[k - 1]
    BY <2>3 DEF kSegHeaderLen
  <2>7. j = k - 1 \/ j < k - 1
    BY <2>4, <2>5
  <2> HIDE DEF Bad
  <2>8. end[k] = end[k - 1] + kSegHeaderLen + i.segments[k]
    BY <1>2, Zenon
  <2> QED
    BY <2>4, <2>5, <2>6, <2>7, <2>8 DEF kSegHeaderLen
<1> QED
  BY <1>1, <1>2, <1>3, <1>4 DEF n, end

-----------------------------------------------------------------------------
(* The pieces of the image in a partition that is larger.                    *)

\* What the gate says of a delta built from b.image, with the names given.
GateSays(b) ==
  LET running == Identify(partition)
  IN  running # None /\ package_identity_matches(build_delta_package(b.image, b.given), running)

\* The image is whole, what an earlier one left lies behind it, and the verdict is of
\* this image.
IdentityInv ==
  /\ image \in Images /\ TotalLen(image) <= PartitionLen
  /\ Pieces(image) \subseteq partition
  /\ \A p \in partition \ Pieces(image) : p.at >= TotalLen(image)
  /\ base # None => base.image \in Images /\ base.given \in Given /\ verdict = GateSays(base)

LEMMA IdentityInit_Inv == IdentityInit => IdentityInv
BY DEF IdentityInit, IdentityInv

LEMMA IdentityNext_Inv == IdentityInv /\ [IdentityNext]_identityVars => IdentityInv'
<1> SUFFICES ASSUME IdentityInv, [IdentityNext]_identityVars PROVE IdentityInv'
  OBVIOUS
<1>1. ASSUME NEW i \in Images, Flash(i) PROVE IdentityInv'
  BY <1>1 DEF Flash, IdentityInv
<1>2. ASSUME NEW b \in Images, NEW given \in Given, OfferDelta(b, given) PROVE IdentityInv'
  <2>1. base'.image = b /\ base'.given = given
    BY <1>2 DEF OfferDelta
  <2>2. Identify(partition)' = Identify(partition)
    BY <1>2 DEF OfferDelta
  <2>3. verdict' = GateSays(base)'
    BY <1>2, <2>1, <2>2 DEF OfferDelta, GateSays
  <2> QED
    BY <1>2, <2>1, <2>3 DEF OfferDelta, IdentityInv
<1>3. CASE UNCHANGED identityVars
  BY <1>3 DEF identityVars, IdentityInv, GateSays
<1> QED
  BY <1>1, <1>2, <1>3 DEF IdentityNext

THEOREM IdentityInvariant == IdentitySpec => []IdentityInv
  BY IdentityInit_Inv, IdentityNext_Inv, PTL DEF IdentitySpec

LEMMA PaddedIsRounded ==
  ASSUME NEW len \in Nat
  PROVE  Padded(len) = 16 * (len \div 16 + 1) /\ Padded(len) > len /\ Padded(len) \in Nat
<1>1. len = 16 * (len \div 16) + (len % 16) /\ len \div 16 \in Nat /\ len % 16 \in 0..15
  OBVIOUS
<1> QED
  BY <1>1 DEF Padded

\* An image ends behind its last segment, its trailer behind that.
LEMMA ImageEnds ==
  ASSUME NEW i \in Images, i.trailer # None
  PROVE  LET n == Len(i.segments)
             last == SegmentEnds(i)[n]
         IN  /\ ImageLen(i) \in Nat /\ last < ImageLen(i)
             /\ ImageLen(i) = Padded(last) + (IF i.hashed THEN kShaLen ELSE 0)
             /\ TotalLen(i) = ImageLen(i) + TrailerLen
<1> DEFINE n == Len(i.segments)
           last == SegmentEnds(i)[n]
<1>1. n \in Nat
  BY EndsGrow
<1>2. last \in Nat
  BY <1>1, EndsGrow
<1> HIDE DEF n, last
<1>3. Padded(last) = 16 * (last \div 16 + 1) /\ Padded(last) > last /\ Padded(last) \in Nat
  BY <1>2, PaddedIsRounded
<1>4. ImageLen(i) = Padded(last) + (IF i.hashed THEN kShaLen ELSE 0)
  BY <1>3 DEF ImageLen, n, last
<1>5. ImageLen(i) \in Nat /\ last < ImageLen(i)
  BY <1>2, <1>3, <1>4 DEF kShaLen
<1>6. TotalLen(i) = ImageLen(i) + TrailerLen
  BY DEF TotalLen
<1> QED
  BY <1>4, <1>5, <1>6 DEF n, last

\* At the place of a piece of the image no other piece of that length is found.
LEMMA PieceIsAlone ==
  ASSUME IdentityInv, image.trailer # None,
         NEW q \in Pieces(image), NEW p \in partition, p.at = q.at, p.len = q.len
  PROVE  p = q
<1> DEFINE n == Len(image.segments)
           end == SegmentEnds(image)
           header == [at |-> 0, len |-> kHeaderLen,
                      what |-> [magic |-> "E9", segment_count |-> n, hash_appended |-> image.hashed]]
           segment(k) == [at |-> end[k - 1], len |-> kSegHeaderLen,
                          what |-> [data_len |-> image.segments[k]]]
           trailer == [at |-> ImageLen(image), len |-> TrailerLen, what |-> image.trailer]
<1>1. image \in Images
  BY DEF IdentityInv
<1>2. /\ n \in Nat /\ DOMAIN image.segments = 1..n
      /\ \A k \in 0..n : end[k] \in Nat
      /\ \A k \in 0..n, j \in 0..n : j < k => end[j] + kSegHeaderLen <= end[k]
  BY <1>1, EndsGrow
<1>3. /\ ImageLen(image) \in Nat /\ end[n] < ImageLen(image)
      /\ TotalLen(image) = ImageLen(image) + TrailerLen
  BY <1>1, ImageEnds
<1>4. Pieces(image) = {header} \cup {segment(k) : k \in 1..n} \cup {trailer}
  BY <1>2 DEF Pieces
<1> HIDE DEF n, end
<1>5. \A k \in 1..n : k - 1 \in 0..n /\ end[k - 1] \in Nat /\ end[k - 1] <= end[n]
  <2> TAKE k \in 1..n
  <2>1. k - 1 \in 0..n /\ n \in 0..n /\ k - 1 < n
    BY <1>2
  <2>2. end[k - 1] + kSegHeaderLen <= end[n] /\ end[k - 1] \in Nat /\ end[n] \in Nat
    BY <1>2, <2>1
  <2> QED
    BY <2>1, <2>2 DEF kSegHeaderLen
<1>6. \A k \in 1..n, j \in 1..n : end[k - 1] = end[j - 1] => k = j
  <2> TAKE k \in 1..n, j \in 1..n
  <2>1. k - 1 \in 0..n /\ j - 1 \in 0..n /\ end[k - 1] \in Nat /\ end[j - 1] \in Nat
    BY <1>5
  <2>2. k - 1 < j - 1 => end[k - 1] + kSegHeaderLen <= end[j - 1]
    BY <1>2, <2>1
  <2>3. j - 1 < k - 1 => end[j - 1] + kSegHeaderLen <= end[k - 1]
    BY <1>2, <2>1
  <2> QED
    BY <1>2, <2>1, <2>2, <2>3 DEF kSegHeaderLen
<1>7. ASSUME NEW r \in Pieces(image) PROVE r.at < TotalLen(image)
  <2>1. CASE r = header
    BY <1>3, <2>1 DEF TrailerLen
  <2>2. ASSUME NEW k \in 1..n, r = segment(k) PROVE r.at < TotalLen(image)
    <3>1. r.at = end[k - 1]
      BY <2>2
    <3>2. end[k - 1] \in Nat /\ end[n] \in Nat /\ end[k - 1] <= end[n]
      BY <1>2, <1>5
    <3>3. r.at < ImageLen(image)
      BY <1>3, <3>1, <3>2
    <3> QED
      BY <1>3, <3>1, <3>2, <3>3 DEF TrailerLen
  <2>3. CASE r = trailer
    BY <1>3, <2>3 DEF TrailerLen
  <2> QED
    BY <1>4, <2>1, <2>2, <2>3
<1>8. p \in Pieces(image)
  <2>1. q.at < TotalLen(image) /\ q.at \in Nat
    <3>1. \A k \in 1..n : segment(k).at \in Nat
      BY <1>5
    <3> QED
      BY <1>3, <1>4, <1>7, <3>1
  <2>2. TotalLen(image) \in Nat
    BY <1>3 DEF TrailerLen
  <2>3. ~(q.at >= TotalLen(image))
    BY <2>1, <2>2
  <2> QED
    BY <2>3 DEF IdentityInv
<1>9. CASE q = header
  BY <1>4, <1>8, <1>9 DEF kHeaderLen, kSegHeaderLen, TrailerLen
<1>10. ASSUME NEW k \in 1..n, q = segment(k) PROVE p = q
  <2>1. q.at = end[k - 1] /\ q.len = 8
    BY <1>10 DEF kSegHeaderLen
  <2>2. PICK j \in 1..n : p = segment(j)
    BY <1>4, <1>8, <2>1 DEF kHeaderLen, TrailerLen
  <2>3. end[j - 1] = end[k - 1]
    BY <2>1, <2>2
  <2>4. j = k
    BY <1>6, <2>3
  <2> QED
    BY <1>10, <2>2, <2>4
<1>11. CASE q = trailer
  BY <1>4, <1>8, <1>11 DEF kHeaderLen, kSegHeaderLen, TrailerLen
<1> QED
  BY <1>4, <1>9, <1>10, <1>11

\* So it is read as it was written.
LEMMA PieceIsRead ==
  ASSUME IdentityInv, image.trailer # None, NEW q \in Pieces(image)
  PROVE  ReadAt(partition, q.at, q.len) = q.what
<1>1. q \in partition
  BY DEF IdentityInv
<1> DEFINE r == CHOOSE p \in partition : p.at = q.at /\ p.len = q.len
<1>2. r \in partition /\ r.at = q.at /\ r.len = q.len
  BY <1>1
<1>3. ReadAt(partition, q.at, q.len) = r.what
  BY <1>1 DEF ReadAt
<1> HIDE DEF r
<1>4. r = q
  BY <1>2, PieceIsAlone
<1> QED
  BY <1>3, <1>4

\* The headers lead from one segment to the next, to the end of the last.
LEMMA EndsAreRead ==
  ASSUME IdentityInv, image.trailer # None
  PROVE  LET n == Len(image.segments)
         IN  segment_ends(partition, n)[n] = SegmentEnds(image)[n]
<1> DEFINE n == Len(image.segments)
           end == SegmentEnds(image)
           Step(len) == IF len = NoLength \/ ~Readable(len, kSegHeaderLen) THEN NoLength
                        ELSE len + kSegHeaderLen + ReadAt(partition, len, kSegHeaderLen).data_len
           AreRead(f) == f = [i \in 0..n |-> IF i = 0 THEN kHeaderLen ELSE Step(f[i - 1])]
           F == CHOOSE f : AreRead(f)
<1>1. image \in Images /\ TotalLen(image) <= PartitionLen /\ PartitionLen \in Nat
  BY ImagesAreBuilt DEF IdentityInv
<1>2. /\ n \in Nat /\ DOMAIN image.segments = 1..n
      /\ end = [k \in 0..n |-> end[k]] /\ end[0] = kHeaderLen
      /\ \A k \in 1..n : end[k] = end[k - 1] + kSegHeaderLen + image.segments[k]
      /\ \A k \in 0..n : end[k] \in Nat /\ end[k] >= kHeaderLen
      /\ \A k \in 0..n, j \in 0..n : j < k => end[j] + kSegHeaderLen <= end[k]
  BY <1>1, EndsGrow
<1>3. /\ ImageLen(image) \in Nat /\ end[n] < ImageLen(image)
      /\ TotalLen(image) = ImageLen(image) + TrailerLen
  BY <1>1, ImageEnds
<1>4. segment_ends(partition, n) = F
  BY DEF segment_ends
<1>5. ASSUME NEW k \in 1..n PROVE Step(end[k - 1]) = end[k]
  <2> DEFINE q == [at |-> end[k - 1], len |-> kSegHeaderLen,
                   what |-> [data_len |-> image.segments[k]]]
  <2>1. q \in Pieces(image)
    BY <1>2 DEF Pieces
  <2>2. ReadAt(partition, end[k - 1], kSegHeaderLen).data_len = image.segments[k]
    BY <2>1, PieceIsRead
  <2> HIDE DEF n, end
  <2>3. k - 1 \in 0..n /\ k \in 0..n /\ n \in 0..n /\ k - 1 < k /\ (k < n \/ k = n)
    BY <1>2
  <2>4. /\ end[k - 1] \in Nat /\ end[k - 1] >= kHeaderLen /\ end[k] \in Nat /\ end[n] \in Nat
        /\ end[k - 1] + kSegHeaderLen <= end[k] /\ (k < n => end[k] + kSegHeaderLen <= end[n])
    BY <1>2, <2>3
  <2>5. end[k - 1] + 8 <= PartitionLen
    BY <1>1, <1>3, <2>3, <2>4 DEF kSegHeaderLen, TrailerLen
  <2>6. Readable(end[k - 1], kSegHeaderLen)
    BY <1>1, <2>4, <2>5 DEF Readable, kSegHeaderLen
  <2>7. end[k - 1] # NoLength
    BY <2>4 DEF NoLength, kHeaderLen
  <2>8. end[k] = end[k - 1] + kSegHeaderLen + image.segments[k]
    BY <1>2, Zenon
  <2> QED
    BY <2>2, <2>6, <2>7, <2>8
<1> HIDE DEF n, end, Step
<1>6. AreRead(end)
  <2>1. ASSUME NEW k \in 0..n PROVE end[k] = IF k = 0 THEN kHeaderLen ELSE Step(end[k - 1])
    <3>1. k = 0 \/ (k \in 1..n /\ k # 0)
      BY <1>2
    <3> QED
      BY <1>2, <1>5, <3>1, Zenon
  <2> QED
    BY <1>2, <2>1, Zenon
<1>7. AreRead(F)
  <2> HIDE DEF AreRead
  <2> QED
    BY <1>6
<1> HIDE DEF F
<1>8. \A k \in 0..n : F[k] = end[k]
  <2> DEFINE Bad == {k \in 0..n : F[k] # end[k]}
  <2>1. 0 \in 0..n /\ F[0] = kHeaderLen
    BY <1>2, <1>7
  <2>2. 0 \notin Bad
    BY <1>2, <2>1
  <2>3. SUFFICES ASSUME Bad # {} PROVE FALSE
    OBVIOUS
  <2>4. PICK k \in 1..n : k \in Bad /\ k - 1 \in 0..n /\ k - 1 \notin Bad
    <3>1. Bad \subseteq 0..n
      OBVIOUS
    <3> HIDE DEF Bad
    <3> QED
      BY <1>2, <2>2, <2>3, <3>1, FirstRound
  <2>5. F[k - 1] = end[k - 1] /\ F[k] # end[k]
    BY <2>4
  <2> HIDE DEF Bad
  <2>6. k \in 0..n /\ k # 0
    BY <1>2
  <2>7. F[k] = Step(F[k - 1])
    BY <1>7, <2>6, Zenon
  <2> QED
    BY <1>5, <2>5, <2>7, Zenon
<1>9. n \in 0..n
  BY <1>2
<1> QED
  BY <1>4, <1>8, <1>9 DEF n, end

\* The length that is computed from the partition is the image's.
LEMMA LengthIsRead ==
  ASSUME IdentityInv, image.trailer # None
  PROVE  esp_image_length(partition) = ImageLen(image)
<1> DEFINE n == Len(image.segments)
           h == [magic |-> "E9", segment_count |-> n, hash_appended |-> image.hashed]
           last == SegmentEnds(image)[n]
<1>1. image \in Images /\ TotalLen(image) <= PartitionLen /\ PartitionLen \in Nat
  BY ImagesAreBuilt DEF IdentityInv
<1>2. n \in Nat /\ n \in 0..n
  BY <1>1, EndsGrow
<1>3. last \in Nat /\ last >= kHeaderLen
  BY <1>1, <1>2, EndsGrow
<1>4. ReadAt(partition, 0, kHeaderLen) = h
  <2> DEFINE q == [at |-> 0, len |-> kHeaderLen, what |-> h]
  <2>1. q \in Pieces(image)
    BY DEF Pieces
  <2>2. q.at = 0 /\ q.len = kHeaderLen /\ q.what = h
    OBVIOUS
  <2> HIDE DEF q, h
  <2> QED
    BY <2>1, <2>2, PieceIsRead
<1>5. h.magic = "E9" /\ h.segment_count = n /\ h.hash_appended = image.hashed
  OBVIOUS
<1>6. segment_ends(partition, n)[n] = last
  BY EndsAreRead
<1>7. /\ ImageLen(image) \in Nat /\ last < ImageLen(image)
      /\ ImageLen(image) = Padded(last) + (IF image.hashed THEN kShaLen ELSE 0)
      /\ TotalLen(image) = ImageLen(image) + TrailerLen
  BY <1>1, ImageEnds
<1> HIDE DEF n, h, last
<1>8. last # NoLength
  BY <1>3 DEF NoLength, kHeaderLen
<1>9. Readable(0, kHeaderLen)
  BY <1>1, <1>3, <1>7 DEF Readable, kHeaderLen, TrailerLen
<1> QED
  BY <1>4, <1>5, <1>6, <1>7, <1>8, <1>9, Zenon DEF esp_image_length

LEMMA TrailerIsFound ==
  ASSUME IdentityInv, image.trailer # None
  PROVE  Identify(partition) = trailer_from_image_tail(image)
<1> DEFINE len == ImageLen(image)
           q == [at |-> len, len |-> TrailerLen, what |-> image.trailer]
<1>1. image \in Images /\ TotalLen(image) <= PartitionLen /\ PartitionLen \in Nat
  BY ImagesAreBuilt DEF IdentityInv
<1>2. esp_image_length(partition) = len
  BY LengthIsRead
<1>3. q \in Pieces(image)
  BY DEF Pieces
<1>4. ReadAt(partition, len, TrailerLen) = image.trailer
  BY <1>3, PieceIsRead
<1>5. Len(image.segments) \in Nat /\ SegmentEnds(image)[Len(image.segments)] \in Nat
  BY <1>1, EndsGrow
<1>6. len \in Nat /\ len # 0 /\ TotalLen(image) = len + TrailerLen
  BY <1>1, <1>5, ImageEnds
<1> HIDE DEF len, q
<1>7. len # NoLength /\ Readable(len, TrailerLen)
  BY <1>1, <1>6 DEF NoLength, Readable, TrailerLen
<1>8. trailer_is_valid(image.trailer) => image.trailer.magic # "?"
  BY DEF trailer_is_valid
<1> QED
  BY <1>2, <1>4, <1>7, <1>8 DEF Identify, trailer_from_image_tail

\* The node finds the trailer of the image it runs, whatever its segments and whatever an
\* earlier, longer image left behind it (esp_image.h:31-34).
THEOREM IdentityIsFound == IdentitySpec => []IdentityIsOfImage
<1>1. IdentityInv => IdentityIsOfImage
  BY TrailerIsFound DEF IdentityIsOfImage
<1> QED
  BY <1>1, IdentityInvariant, PTL

-----------------------------------------------------------------------------
(* The names of a build.                                                     *)

\* The text of a field ends before its m-th cell's successor.
EndsAt(f, m) ==
  /\ m \in 0..Len(f)
  /\ \A j \in 1..m : f[j] # NUL
  /\ m = Len(f) \/ f[m + 1] = NUL

LEMMA TextEnds ==
  ASSUME NEW Chars, NEW f \in Seq(Chars), NEW m, EndsAt(f, m)
  PROVE  Text(f) = SubSeq(f, 1, m)
<1> DEFINE g == Append(f, NUL)
           I == {j \in 1..Len(g) : g[j] = NUL}
           least == CHOOSE x \in I : \A y \in I : x <= y
<1>1. /\ Len(f) \in Nat /\ Len(g) = Len(f) + 1
      /\ \A j \in 1..Len(f) : g[j] = f[j]
      /\ g[Len(f) + 1] = NUL
  <2> DEFINE S == Chars \cup {NUL}
  <2>1. Chars \subseteq S /\ NUL \in S
    OBVIOUS
  <2> HIDE DEF S, g
  <2>2. f \in Seq(S)
    BY <2>1, SeqMonotonic
  <2> QED
    BY <2>1, <2>2, AppendProperties, LenProperties DEF g
<1>2. m \in 0..Len(f) /\ (\A j \in 1..m : f[j] # NUL) /\ (m = Len(f) \/ f[m + 1] = NUL)
  BY DEF EndsAt
<1> HIDE DEF g
<1>3. m + 1 \in I
  <2>1. m + 1 \in 1..Len(g) /\ (m # Len(f) => m + 1 \in 1..Len(f))
    BY <1>1, <1>2
  <2> QED
    BY <1>1, <1>2, <2>1
<1>4. \A y \in I : m + 1 <= y
  <2> SUFFICES ASSUME NEW y \in I, ~(m + 1 <= y) PROVE FALSE
    OBVIOUS
  <2>1. y \in 1..m /\ y \in 1..Len(f)
    BY <1>1, <1>2
  <2> QED
    BY <1>1, <1>2, <2>1
<1>5. \A x \in I : x \in Nat
  BY <1>1
<1> HIDE DEF I
<1>6. least = m + 1
  <2>1. least \in I /\ \A y \in I : least <= y
    BY <1>3, <1>4, Zenon
  <2> HIDE DEF least
  <2> QED
    BY <1>3, <1>4, <1>5, <2>1
<1>7. SelectInSeq(g, LAMBDA c : c = NUL) = least
  BY <1>3, Zenon DEF SelectInSeq, Min, I
<1> HIDE DEF least
<1>8. least - 1 = m
  BY <1>2, <1>6
<1> QED
  BY <1>7, <1>8 DEF Text, g

LEMMA TextHasEnd ==
  ASSUME NEW f \in Seq(STRING)
  PROVE  \E m : EndsAt(f, m)
<1>1. Len(f) \in Nat
  BY LenProperties
<1> DEFINE X == {m \in 0..Len(f) : m = Len(f) \/ f[m + 1] = NUL}
<1>2. Len(f) \in X /\ X \subseteq Nat
  BY <1>1
<1>3. PICK m \in X : \A j \in X : m <= j
  <2> HIDE DEF X
  <2> QED
    BY <1>2, LeastMember
<1>4. ASSUME NEW j \in 1..m PROVE f[j] # NUL
  <2>1. j - 1 \in 0..Len(f) /\ (j - 1) + 1 = j /\ ~(m <= j - 1)
    BY <1>1, <1>3, <1>4
  <2>2. j - 1 \notin X
    BY <1>3, <2>1
  <2> QED
    BY <2>1, <2>2
<1> QED
  BY <1>3, <1>4 DEF EndsAt

\* A name that leaves room for a NUL is packed into a manifest whole.
LEMMA FixedIsKept ==
  ASSUME NEW t \in Seq(STRING), Len(t) < FieldLen, \A k \in DOMAIN t : t[k] # NUL
  PROVE  Text(Fixed(t)) = t
<1> DEFINE m == Len(t)
<1>1. t \in Seq(STRING) /\ m = Len(t) /\ m \in Nat /\ DOMAIN t = 1..m /\ \A j \in 1..m : t[j] # NUL
  BY LenProperties
<1>2. FieldLen \in Nat \ {0} /\ m \in 0..(FieldLen - 1)
  BY <1>1, ImagesAreBuilt
<1> HIDE DEF m
<1> DEFINE g == Fixed(t)
<1>6. g = [k \in 1..FieldLen |-> IF k <= m /\ k < FieldLen THEN t[k] ELSE NUL]
  BY <1>1 DEF Fixed
<1> DEFINE S == STRING \cup {NUL}
<1>3. STRING \subseteq S /\ NUL \in S
  OBVIOUS
<1> HIDE DEF S
<1>7. g \in Seq(S) /\ Len(g) = FieldLen
  <2>1. \A k \in 1..m : t[k] \in S
    BY <1>1, <1>3, ElementOfSeq
  <2>2. \A k \in 1..FieldLen : (IF k <= m /\ k < FieldLen THEN t[k] ELSE NUL) \in S
    BY <1>1, <1>2, <1>3, <2>1
  <2> HIDE DEF g
  <2>3. g \in [1..FieldLen -> S]
    BY <1>6, <2>2
  <2> QED
    BY <1>2, <2>3
<1> HIDE DEF g
<1>8. \A j \in 1..m : g[j] = t[j]
  BY <1>2, <1>6
<1>9. g[m + 1] = NUL
  BY <1>2, <1>6
<1>10. EndsAt(g, m)
  BY <1>2, <1>1, <1>7, <1>8, <1>9 DEF EndsAt
<1>11. Text(g) = SubSeq(g, 1, m)
  BY <1>7, <1>10, TextEnds
<1>12. SubSeq(g, 1, m) = t
  <2> DEFINE s == SubSeq(g, 1, m)
  <2>1. \A j \in 1..m : j \in 1..Len(g)
    BY <1>2, <1>7
  <2>2. \A j \in 1..m : g[j] \in S
    BY <1>7, <2>1, ElementOfSeq
  <2>3. /\ s \in Seq(S) /\ Len(s) = IF 1 <= m THEN m - 1 + 1 ELSE 0
        /\ \A j \in 1..(m - 1 + 1) : s[j] = g[1 + j - 1]
    BY <1>2, <2>2, SubSeqProperties
  <2> HIDE DEF s
  <2>4. Len(s) = m /\ \A j \in 1..m : s[j] = g[j]
    BY <1>2, <2>3
  <2> QED
    BY <1>1, <1>3, <1>8, <2>3, <2>4, SeqMonotonic, SeqEqual DEF s
<1> QED
  BY <1>11, <1>12 DEF g

\* A name that was packed into a trailer is packed into a manifest whole.
LEMMA TextIsKept ==
  ASSUME NEW f \in Seq(STRING), Len(f) = FieldLen, f[FieldLen] = NUL
  PROVE  Text(Fixed(Text(f))) = Text(f)
<1>1. PICK m : EndsAt(f, m)
  BY TextHasEnd
<1>2. FieldLen \in Nat \ {0}
  BY ImagesAreBuilt
<1>3. m \in 0..(FieldLen - 1) /\ \A j \in 1..m : f[j] # NUL
  <2>1. m \in 0..FieldLen /\ \A j \in 1..m : f[j] # NUL
    BY <1>1 DEF EndsAt
  <2>2. m # FieldLen
    BY <1>2, <2>1
  <2> QED
    BY <1>2, <2>1, <2>2
<1> DEFINE t == SubSeq(f, 1, m)
<1>4. Text(f) = t
  BY <1>1, TextEnds
<1>5. t \in Seq(STRING) /\ Len(t) = m /\ \A j \in 1..m : t[j] = f[j]
  <2>1. \A j \in 1..m : j \in 1..Len(f)
    BY <1>2, <1>3
  <2>2. \A j \in 1..m : f[j] \in STRING
    BY <2>1, ElementOfSeq
  <2>3. /\ t \in Seq(STRING) /\ Len(t) = IF 1 <= m THEN m - 1 + 1 ELSE 0
        /\ \A j \in 1..(m - 1 + 1) : t[j] = f[1 + j - 1]
    BY <1>3, <2>2, SubSeqProperties
  <2> HIDE DEF t
  <2> QED
    BY <1>3, <2>3
<1>6. \A k \in DOMAIN t : t[k] # NUL
  <2>1. DOMAIN t = 1..m
    BY <1>5, LenProperties
  <2> QED
    BY <1>3, <1>5, <2>1
<1> HIDE DEF t
<1> QED
  BY <1>2, <1>3, <1>4, <1>5, <1>6, FixedIsKept

\* The gate lets a delta pass exactly when its base is called, env, version and commit,
\* what the image that runs is, however long the names and wherever the packager has
\* them from (package.h:61-62).
THEOREM GateIsAlwaysExact == IdentitySpec => []GateIsExact
<1>1. IdentityInv => GateIsExact
  <2> SUFFICES ASSUME IdentityInv, base # None, image.trailer # None
               PROVE  verdict <=> /\ trailer_is_valid(image.trailer)
                                  /\ MeantNames(base.image, base.given) = Names(image)
    BY DEF GateIsExact
  <2>1. /\ base.image \in Images /\ base.given \in Given /\ verdict = GateSays(base)
    BY DEF IdentityInv
  <2>2. Identify(partition) = IF trailer_is_valid(image.trailer) THEN image.trailer ELSE None
    BY TrailerIsFound DEF trailer_from_image_tail
  <2> DEFINE b == base.image
             g == base.given
             names == BaseNames(b, g)
  <2>3. ASSUME NEW f \in Fields(b.trailer), b.trailer # None PROVE Text(Fixed(Text(f))) = Text(f)
    BY <2>1, <2>3, ImagesAreBuilt, TextIsKept
  <2>4. ASSUME NEW t \in Fields(g) PROVE Text(Fixed(t)) = t
    BY <2>1, GivenNamesFit, FixedIsKept
  <2>5. /\ Text(Fixed(names.env)) = names.env
        /\ Text(Fixed(names.version)) = names.version
        /\ Text(Fixed(names.commit)) = names.commit
    <3>1. CASE trailer_from_image_tail(b) = None
      BY <2>4, <3>1 DEF BaseNames, Fields
    <3>2. CASE trailer_from_image_tail(b) # None
      <4>1. trailer_from_image_tail(b) = b.trailer /\ b.trailer # None
        BY <3>2 DEF trailer_from_image_tail
      <4>2. /\ names.env = OrGiven(b.trailer.env, g.env)
            /\ names.version = OrGiven(b.trailer.version, g.version)
            /\ names.commit = OrGiven(b.trailer.commit, g.commit)
        BY <4>1 DEF BaseNames
      <4> QED
        BY <2>3, <2>4, <4>1, <4>2 DEF OrGiven, Fields
    <3> QED
      BY <3>1, <3>2
  <2>6. MeantNames(b, g) = [env |-> names.env, version |-> names.version, commit |-> names.commit]
    <3>1. DOMAIN g = {"env", "version", "commit"}
      BY <2>1, GivenNamesFit
    <3>2. MeantNames(b, g) =
            [n \in {"env", "version", "commit"} |->
               IF b.trailer # None /\ trailer_is_valid(b.trailer) /\ Names(b)[n] # <<>>
               THEN Names(b)[n] ELSE g[n]]
      BY <3>1 DEF MeantNames
    <3>3. CASE b.trailer # None /\ trailer_is_valid(b.trailer)
      BY <3>2, <3>3 DEF BaseNames, OrGiven, Names, trailer_from_image_tail
    <3>4. CASE ~(b.trailer # None /\ trailer_is_valid(b.trailer))
      BY <3>2, <3>4 DEF BaseNames, trailer_from_image_tail
    <3> QED
      BY <3>3, <3>4
  <2> HIDE DEF names
  <2>7. package_identity_matches(build_delta_package(b, g), image.trailer)
          <=> MeantNames(b, g) = Names(image)
    BY <2>5, <2>6 DEF package_identity_matches, build_delta_package, field_equal, Names, names
  <2> QED
    BY <2>1, <2>2, <2>7 DEF GateSays
<1> QED
  BY <1>1, IdentityInvariant, PTL
=============================================================================
