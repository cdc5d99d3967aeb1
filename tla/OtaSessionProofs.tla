--------------------------- MODULE OtaSessionProofs ---------------------------
(***************************************************************************)
(* A session of one seeder and one receiver, for any package, fragment     *)
(* size and number of faults.  Every step of the session is a call of the  *)
(* receiver, a reboot, or a step it does not see; so the receiver's        *)
(* invariant holds of it, and SessionInv adds what each end may believe of *)
(* the other.                                                              *)
(***************************************************************************)
EXTENDS OtaSession, OtaReceiverProofs, FiniteSetTheorems

-----------------------------------------------------------------------------
(* Every step of a session is a step of its receiver.                        *)

LEMMA ServedAreFrames == Served \subseteq Frames
BY DEF Served

LEMMA FirstUnderWay ==
  ASSUME SessionInv, toTarget # <<>>
  PROVE  Head(toTarget) \in Served /\ Head(toTarget) \in Frames
BY HeadTailProperties, ServedAreFrames DEF SessionInv

-----------------------------------------------------------------------------
(* The package's geometry.                                                   *)

LEMMA IndexIsBelow == \A i \in Index : i \in Nat /\ i < U16
<1>1. U16 \in Nat
  BY DEF U16
<1> QED
  BY <1>1 DEF Index

LEMMA BlockCount == S!block_count \in Nat /\ S!block_count < U16
<1>1. Package.manifest.block_count \in Nat
  BY PackageAssumption, ManifestAssumption
<1>2. S!block_count = Package.manifest.block_count % U16
  BY DEF S!block_count, U16, S!U16
<1>3. Package.manifest.block_count % U16 \in Index
  BY <1>1, SixteenBits
<1> QED
  BY <1>2, <1>3, IndexIsBelow

\* A receiver that has accepted a manifest counts the seeder's blocks.
LEMMA AcceptedIsThePackages ==
  ASSUME IInv, manifest_ready
  PROVE  /\ manifest \in Signed /\ manifest = Package.manifest
         /\ manifest.block_count = S!block_count
         /\ geometry.block_count = S!block_count
<1>1. manifest \in Signed /\ geometry = GeometryOf(manifest)
  BY DEF IInv, GeometryIsSigned
<1>2. manifest = Package.manifest
  BY <1>1, PackageAssumption, ManifestAssumption
<1>3. manifest.block_count \in Nat /\ manifest.block_count < U16
  BY <1>1, SignedFits, ManifestAssumption
<1>4. manifest.block_count % U16 = manifest.block_count
  BY <1>3, SixteenBits
<1> QED
  BY <1>1, <1>2, <1>4 DEF S!block_count, GeometryOf, U16, S!U16

\* The seeder's START carries the geometry of the package's manifest: whenever it
\* arrives, before the manifest or late, its hints match.
LEMMA ServedHintsMatch ==
  ASSUME IInv, NEW f \in Served
  PROVE  HintsMatch(f)
<1> SUFFICES ASSUME manifest_ready, f.type = "Start", f.data # <<>>
             PROVE  f.data[1] = GeometryOf(manifest)
  BY DEF HintsMatch, Hears
<1>1. manifest \in Signed /\ manifest = Package.manifest
  BY AcceptedIsThePackages
<1>2. f = S!StartFrames[1]
  <2>1. f \in ToSet(S!StartFrames) /\ DOMAIN S!StartFrames = {1}
    BY DEF Served, S!StartFrames
  <2> QED
    BY <2>1 DEF ToSet
<1>3. f.data[1] = [block_size |-> S!block_size, block_count |-> S!block_count,
                   payload_length |-> S!payload_len]
  BY <1>2 DEF S!StartFrames, S!MakeFrame
<1>4. /\ manifest.block_size \in Nat /\ manifest.block_size < U16
      /\ manifest.block_count \in Nat /\ manifest.block_count < U16
  BY <1>1, SignedFits, ManifestAssumption
<1>5. manifest.block_size % U16 = manifest.block_size
      /\ manifest.block_count % U16 = manifest.block_count
  BY <1>4, SixteenBits
<1>6. S!block_size = manifest.block_size /\ S!block_count = manifest.block_count
      /\ S!payload_len = manifest.payload_length
  BY <1>1, <1>5, PackageAssumption DEF S!block_size, S!block_count, U16, S!U16
<1> QED
  BY <1>3, <1>6 DEF GeometryOf

LEMMA SessionStepIsReceiverStep ==
  ASSUME SessionInv, [SessionNext]_sessionVars
  PROVE  [ReleaseNext]_vars
<1>1. CASE TargetReceives
  <2>1. OnFrame(Head(toTarget)) /\ Head(toTarget) \in Served /\ Head(toTarget) \in Frames
    BY <1>1, FirstUnderWay DEF TargetReceives
  <2>2. HintsMatch(Head(toTarget))
    BY <2>1, ServedHintsMatch DEF SessionInv
  <2> QED
    BY <2>1, <2>2 DEF ReleaseNext
<1>2. CASE TargetTimesOut \/ TargetNudges
  BY <1>2 DEF TargetTimesOut, TargetNudges, ReleaseNext
<1>3. CASE TargetReboots
  BY <1>3 DEF TargetReboots, ReleaseNext
<1>4. CASE SeederReceives \/ Lose \/ Repeat \/ Damage \/ UNCHANGED sessionVars
  BY <1>4 DEF SeederReceives, Lose, Repeat, Damage, sessionVars
<1> QED
  BY <1>1, <1>2, <1>3, <1>4 DEF SessionNext, TargetLoop

-----------------------------------------------------------------------------
(* What the seeder sends.                                                    *)

LEMMA CeilDivIsNat ==
  ASSUME NEW n \in Nat, NEW d \in Nat \ {0}
  PROVE  S!CeilDiv(n, d) \in Nat
<1>1. n + d - 1 \in Nat
  OBVIOUS
<1> QED
  BY <1>1, Quotient DEF S!CeilDiv

\* A unit's fragments all carry its index and type.
LEMMA FragmentsAre ==
  ASSUME NEW type, NEW index, NEW unit, Len(unit) \in Nat
  PROVE  LET fs == S!Fragments(type, index, unit)
         IN  /\ DOMAIN fs = 1..Len(fs) /\ Len(fs) \in Nat
             /\ fs = [k \in 1..Len(fs) |-> fs[k]]
             /\ \A k \in 1..Len(fs) : fs[k].type = type /\ fs[k].index = index
<1> DEFINE n == S!CeilDiv(Len(unit), FragmentSize)
           fs == S!Fragments(type, index, unit)
<1>1. n \in Nat
  BY CeilDivIsNat, FragmentAssumption
<1>2. /\ fs = [k \in 1..n |-> fs[k]]
      /\ \A k \in 1..n : fs[k].type = type /\ fs[k].index = index
  BY DEF S!Fragments, S!MakeFrame
<1> HIDE DEF n, fs
<1>3. DOMAIN fs = 1..n /\ Len(fs) = n
  BY <1>1, <1>2
<1> QED
  BY <1>1, <1>2, <1>3 DEF fs

\* Each carries its piece of the unit, and the last no more than is left of it.
LEMMA FragmentsCarry ==
  ASSUME NEW type, NEW index, NEW C, NEW unit \in Seq(C)
  PROVE  LET fs == S!Fragments(type, index, unit)
         IN  \A k \in 1..Len(fs) : Carries(fs[k], unit)
<1> DEFINE L == Len(unit)
           n == S!CeilDiv(L, FragmentSize)
           fs == S!Fragments(type, index, unit)
<1>1. L \in Nat /\ FragmentSize \in Nat \ {0}
  BY LenProperties, FragmentAssumption
<1>2. n \in Nat /\ n * FragmentSize <= L + FragmentSize - 1
  <2>1. L + FragmentSize - 1 \in Nat
    BY <1>1
  <2> QED
    BY <1>1, <2>1, Quotient DEF S!CeilDiv
<1>3. Len(fs) = n
  BY <1>2 DEF S!Fragments
<1>4. ASSUME NEW k \in 1..n PROVE Carries(fs[k], unit)
  <2> DEFINE off == (k - 1) * FragmentSize
             to == IF off + FragmentSize <= L THEN off + FragmentSize ELSE L
             piece == SubSeq(unit, off + 1, to)
  <2>1. /\ fs[k].total = L /\ fs[k].off = off
        /\ fs[k].data = piece
    BY DEF S!Fragments, S!MakeFrame, S!Slice
  <2>2. off \in Nat /\ off + 1 <= L
    <3> HIDE DEF n, L
    <3>1. k \in Nat \ {0} /\ k <= n
      BY <1>2
    <3>2. k * FragmentSize \in Int /\ k * FragmentSize <= n * FragmentSize
      BY <1>1, <1>2, <3>1, Multiples
    <3>3. off = k * FragmentSize - FragmentSize /\ off + 1 >= 1
      BY <1>1, <3>1
    <3>4. n * FragmentSize \in Int
      BY <1>1, <1>2
    <3> HIDE DEF off
    <3> QED
      BY <1>1, <1>2, <3>2, <3>3, <3>4
  <2> HIDE DEF off, n
  <2>3. to \in Nat /\ off + 1 <= to /\ to <= L
    BY <1>1, <2>2
  <2> HIDE DEF to
  <2>4. \A j \in (off + 1)..to : unit[j] \in C
    <3>1. \A j \in (off + 1)..to : j \in 1..L
      BY <1>1, <2>2, <2>3
    <3> QED
      BY <3>1, ElementOfSeq
  <2>5. /\ piece \in Seq(C)
        /\ Len(piece) = to - (off + 1) + 1
        /\ \A j \in 1..(to - (off + 1) + 1) : piece[j] = unit[off + 1 + j - 1]
    BY <2>2, <2>3, <2>4, SubSeqProperties
  <2>6. /\ Len(piece) = to - off
        /\ DOMAIN piece = 1..(to - off)
        /\ \A j \in 1..(to - off) : piece[j] = unit[off + j]
    <3>1. \A j \in 1..(to - off) : off + 1 + j - 1 = off + j
      BY <2>2, <2>3
    <3>2. to - (off + 1) + 1 = to - off
      BY <2>2, <2>3
    <3>3. DOMAIN piece = 1..Len(piece)
      BY <2>5, LenProperties
    <3> HIDE DEF piece
    <3> QED
      BY <2>5, <3>1, <3>2, <3>3
  <2> HIDE DEF piece, fs
  <2>7. off + Len(piece) <= L
    BY <2>2, <2>3, <2>6
  <2> QED
    BY <2>1, <2>6, <2>7 DEF Carries
<1> QED
  BY <1>3, <1>4

\* Fragments of the channel are frames a session may have under way.
LEMMA FragmentsServed ==
  ASSUME NEW type, NEW index \in Index, NEW C, NEW unit \in Seq(C),
         ToSet(S!Fragments(type, index, unit)) \subseteq Frames, type # "Start",
         type \in {"Block", "Proof"} => index < S!block_count,
         type = "Block" => unit = BlockUnit(index),
         type = "Proof" => unit = S!ProofBytes(index)
  PROVE  S!Fragments(type, index, unit) \in Seq(Served)
<1> DEFINE fs == S!Fragments(type, index, unit)
<1>1. /\ DOMAIN fs = 1..Len(fs) /\ Len(fs) \in Nat
      /\ fs = [k \in 1..Len(fs) |-> fs[k]]
      /\ \A k \in 1..Len(fs) : fs[k].type = type /\ fs[k].index = index
  BY LenProperties, FragmentsAre
<1>2. \A k \in 1..Len(fs) : Carries(fs[k], unit)
  BY FragmentsCarry
<1> HIDE DEF fs
<1>3. \A k \in 1..Len(fs) : fs[k] \in Frames
  BY <1>1 DEF ToSet, fs
<1>4. \A k \in 1..Len(fs) : fs[k] \in Served
  BY <1>1, <1>2, <1>3 DEF Served
<1> QED
  BY <1>1, <1>4, FunctionIsSequence DEF fs

LEMMA StartServed == S!StartFrames \in Seq(Served)
<1> DEFINE start == S!StartFrames[1]
<1>1. S!StartFrames = <<start>> /\ start.type = "Start"
  BY DEF S!StartFrames, S!MakeFrame
<1>2. start \in ToSet(S!StartFrames)
  BY <1>1 DEF ToSet
<1>3. start \in Frames
  BY <1>2, ChannelAssumption DEF SeederFrames
<1> HIDE DEF start
<1>4. start \in Served
  BY <1>1, <1>2, <1>3 DEF Served
<1> QED
  BY <1>1, <1>4

LEMMA ManifestServed == S!ManifestFrames \in Seq(Served)
<1> DEFINE unit == <<Package.manifest, Package.signature>>
           C == {Package.manifest, Package.signature}
           type == "Manifest"
<1>1. unit \in Seq(C)
  OBVIOUS
<1>2. S!kIndexManifest = kIndexManifest
  BY DEF S!kIndexManifest, kIndexManifest
<1>3. S!ManifestFrames = S!Fragments(type, kIndexManifest, unit)
  BY <1>2 DEF S!ManifestFrames
<1>4. ToSet(S!Fragments(type, kIndexManifest, unit)) \subseteq Frames
  BY <1>3, ChannelAssumption DEF SeederFrames
<1>5. type \notin {"Block", "Proof"} /\ type # "Block" /\ type # "Proof" /\ type # "Start"
  OBVIOUS
<1> HIDE DEF unit, C, type
<1>6. S!Fragments(type, kIndexManifest, unit) \in Seq(Served)
  BY <1>1, <1>4, <1>5, FragmentsServed, IndexMembers
<1> QED
  BY <1>3, <1>6

\* A slice of a sequence is one.
LEMMA SliceIsSequence ==
  ASSUME NEW C, NEW s \in Seq(C), NEW off \in Nat, NEW len \in Nat
  PROVE  S!Slice(s, off, len) \in Seq(C)
<1> DEFINE to == IF off + len <= Len(s) THEN off + len ELSE Len(s)
<1>1. Len(s) \in Nat
  BY LenProperties
<1>2. off + 1 \in Int /\ to \in Int /\ to <= Len(s) /\ off + 1 >= 1
  BY <1>1
<1>3. S!Slice(s, off, len) = SubSeq(s, off + 1, to)
  BY DEF S!Slice
<1> HIDE DEF to
<1>4. \A j \in (off + 1)..to : j \in 1..Len(s)
  BY <1>1, <1>2
<1>5. \A j \in (off + 1)..to : s[j] \in C
  BY <1>4, ElementOfSeq
<1> QED
  BY <1>2, <1>3, <1>5, SubSeqProperties

LEMMA BlockSizes ==
  S!block_size \in Nat \ {0} /\ S!payload_len \in Nat
<1>1. Package.manifest.block_size \in Nat
  BY PackageAssumption, ManifestAssumption
<1>2. S!block_size \in Nat
  BY <1>1, SixteenBits, IndexIsNat DEF S!block_size, U16, S!U16
<1>3. S!payload_len \in Nat
  BY PackageAssumption, LenProperties DEF S!payload_len
<1> QED
  BY <1>2, <1>3, BlockSizeAssumption

LEMMA BlockIsSequence ==
  ASSUME NEW i \in Index
  PROVE  BlockUnit(i) \in Seq(BlockCells)
<1>1. i \in Nat /\ S!block_size \in Nat
  BY IndexIsNat, BlockSizes
<1>2. i * S!block_size \in Nat
  BY <1>1
<1> QED
  BY <1>1, <1>2, PackageAssumption, SliceIsSequence DEF BlockUnit

LEMMA BlocksServed ==
  ASSUME NEW i \in Index, ToSet(S!BlockFrames(i)) \subseteq Frames
  PROVE  S!BlockFrames(i) \in Seq(Served)
<1>1. CASE i >= S!block_count
  BY <1>1, EmptySeq DEF S!BlockFrames
<1>2. CASE ~(i >= S!block_count)
  <2>1. S!BlockFrames(i) = S!Fragments("Block", i, BlockUnit(i))
    BY <1>2 DEF S!BlockFrames, BlockUnit
  <2>2. i < S!block_count
    BY <1>2, IndexIsNat, BlockCount
  <2> QED
    BY <2>1, <2>2, BlockIsSequence, FragmentsServed
<1> QED
  BY <1>1, <1>2

\* A proof is a sequence of digests, whatever the index.
LEMMA ProofIsDigests ==
  ASSUME NEW leaves, Digests(leaves), NEW i \in Nat
  PROVE  Digests(merkle_proof(leaves, i))
<1>1. CASE i >= Len(leaves)
  BY <1>1, EmptyIsDigests DEF merkle_proof
<1>2. CASE ~(i >= Len(leaves))
  <2>1. Len(leaves) \in Nat /\ i \in 0..(Len(leaves) - 1) /\ leaves # <<>>
    BY <1>2, EmptyIsDigests DEF Digests
  <2> DEFINE leaf == Sha256(<<>>)
  <2>2. Together(leaves, i, leaf, <<>>, Len(leaves))
    BY <2>1, ShaIsDigest, EmptyIsDigests, LoopsTogether
  <2> QED
    BY <1>2, <2>2 DEF Together, merkle_proof
<1> QED
  BY <1>1, <1>2

LEMMA SameMerkle ==
  /\ \A bytes : S!hash_leaf(bytes) = hash_leaf(bytes)
  /\ \A leaves, i : S!merkle_proof(leaves, i) = merkle_proof(leaves, i)
<1>1. \A bytes : S!hash_leaf(bytes) = hash_leaf(bytes)
  BY DEF S!hash_leaf, hash_leaf, S!Sha256, Sha256
<1>2. \A level : S!reduce_level(level) = reduce_level(level)
  BY DEF S!reduce_level, reduce_level, S!hash_pair, hash_pair, S!Sha256, Sha256
<1>3. \A leaves : S!Levels(leaves) = Levels(leaves)
  BY <1>2 DEF S!Levels, Levels
<1>4. \A s, level : S!ProofRound(s, level) = ProofRound(s, level)
  BY DEF S!ProofRound, ProofRound, S!IsPromoted, IsPromoted, S!Sibling, Sibling
<1>5. \A leaves, i : S!ProofLoop(leaves, i) = ProofLoop(leaves, i)
  BY <1>3, <1>4 DEF S!ProofLoop, ProofLoop
<1> QED
  BY <1>1, <1>5 DEF S!merkle_proof, merkle_proof

LEMMA LeavesAreDigests == Digests(S!leaves)
<1> DEFINE n == S!CeilDiv(S!payload_len, S!block_size)
           l == S!leaves
<1>1. n \in Nat
  BY BlockSizes, CeilDivIsNat
<1>2. /\ l = [k \in 1..n |-> l[k]]
      /\ \A k \in 1..n : IsDigest(l[k])
  BY SameMerkle, ShaIsDigest DEF S!leaves, hash_leaf
<1> HIDE DEF n, l
<1>3. Len(l) = n
  BY <1>1, <1>2
<1> QED
  BY <1>1, <1>2, <1>3 DEF Digests, l

\* The cells of a proof.
ProofCellsOf(i) == {S!ProofBytes(i)[k] : k \in DOMAIN S!ProofBytes(i)}

LEMMA ProofIsSequence ==
  ASSUME NEW i \in Nat
  PROVE  S!ProofBytes(i) \in Seq(ProofCellsOf(i))
<1> DEFINE n == Len(S!merkle_proof(S!leaves, i)) * HashLen
           bytes == S!ProofBytes(i)
<1>1. Len(S!merkle_proof(S!leaves, i)) \in Nat
  BY LeavesAreDigests, ProofIsDigests, SameMerkle DEF Digests
<1>2. n \in Nat
  BY <1>1, HashLenAssumption
<1>3. bytes = [k \in 1..n |-> bytes[k]]
  BY DEF S!ProofBytes
<1> HIDE DEF n, bytes
<1>4. \A k \in 1..n : bytes[k] \in ProofCellsOf(i)
  BY <1>3 DEF ProofCellsOf, bytes
<1> QED
  BY <1>2, <1>3, <1>4, FunctionIsSequence DEF bytes

LEMMA ProofsServed ==
  ASSUME NEW i \in Index, i < S!block_count, ToSet(S!ProofFrames(i)) \subseteq Frames
  PROVE  S!ProofFrames(i) \in Seq(Served)
<1>1. CASE S!ProofBytes(i) = <<>>
  <2> DEFINE frame == S!SimpleFrame("Proof", Session, i)
  <2>1. /\ frame.type = "Proof" /\ frame.index = i
        /\ frame.off = 0 /\ frame.total = 0 /\ frame.data = <<>>
    BY DEF S!SimpleFrame, S!MakeFrame
  <2>2. S!ProofFrames(i) = <<frame>>
    BY <1>1 DEF S!ProofFrames
  <2> HIDE DEF frame
  <2>3. frame \in Frames
    BY <2>2 DEF ToSet
  <2>4. Carries(frame, S!ProofBytes(i))
    BY <1>1, <2>1, EmptySeq DEF Carries
  <2>5. frame \in Served
    BY <2>1, <2>3, <2>4 DEF Served
  <2> QED
    BY <2>2, <2>5
<1>2. CASE S!ProofBytes(i) # <<>>
  <2>1. S!ProofBytes(i) \in Seq(ProofCellsOf(i))
    BY IndexIsNat, ProofIsSequence
  <2>2. S!ProofFrames(i) = S!Fragments("Proof", i, S!ProofBytes(i))
    BY <1>2 DEF S!ProofFrames
  <2> QED
    BY <2>1, <2>2, FragmentsServed
<1> QED
  BY <1>1, <1>2

\* Both parts of a concatenation of frames.
LEMMA PartsOfConcat ==
  ASSUME NEW F, NEW A, NEW B, NEW s \in Seq(A), NEW t \in Seq(B), ToSet(s \o t) \subseteq F
  PROVE  ToSet(s) \subseteq F /\ ToSet(t) \subseteq F
<1> DEFINE C == A \cup B
<1>1. s \in Seq(C) /\ t \in Seq(C)
  BY SeqMonotonic
<1> HIDE DEF C
<1>2. Len(s) \in Nat /\ Len(t) \in Nat /\ DOMAIN s = 1..Len(s) /\ DOMAIN t = 1..Len(t)
  BY <1>1, LenProperties
<1>3. /\ s \o t \in Seq(C)
      /\ Len(s \o t) = Len(s) + Len(t)
      /\ \A k \in 1..(Len(s) + Len(t)) :
           (s \o t)[k] = IF k <= Len(s) THEN s[k] ELSE t[k - Len(s)]
  BY <1>1, ConcatProperties
<1>4. DOMAIN (s \o t) = 1..(Len(s) + Len(t))
  BY <1>3, LenProperties
<1>5. ASSUME NEW k \in DOMAIN s PROVE s[k] \in F
  <2>1. k \in 1..(Len(s) + Len(t)) /\ k <= Len(s)
    BY <1>2
  <2> QED
    BY <1>3, <1>4, <2>1 DEF ToSet
<1>6. ASSUME NEW k \in DOMAIN t PROVE t[k] \in F
  <2>1. k + Len(s) \in 1..(Len(s) + Len(t)) /\ ~(k + Len(s) <= Len(s)) /\ k + Len(s) - Len(s) = k
    BY <1>2
  <2> QED
    BY <1>3, <1>4, <2>1 DEF ToSet
<1> QED
  BY <1>5, <1>6 DEF ToSet

\* Whatever is asked for, the answer is made of frames of the channel.
LEMMA AnswersServed ==
  ASSUME NEW i \in 0..(S!block_count - 1) \cup {kIndexManifest}
  PROVE  S!Answer(i) \in Seq(Served)
<1>1. S!kIndexManifest = kIndexManifest
  BY DEF S!kIndexManifest, kIndexManifest
<1>2. CASE i = kIndexManifest
  BY <1>1, <1>2, ManifestServed DEF S!Answer
<1>3. CASE i # kIndexManifest
  <2>1. i \in 0..(S!block_count - 1)
    BY <1>3
  <2>2. i \in Index /\ i < S!block_count
    <3> DEFINE n == S!block_count
    <3>1. n \in Nat /\ n < U16 /\ U16 \in Nat /\ i \in 0..(n - 1)
      BY <2>1, BlockCount DEF U16
    <3> HIDE DEF n
    <3>2. i \in 0..(U16 - 1) /\ i < n
      BY <3>1
    <3> QED
      BY <3>2 DEF Index, n
  <2>3. S!Answer(i) = S!ProofFrames(i) \o S!BlockFrames(i)
    BY <1>1, <1>3 DEF S!Answer
  <2>4. ToSet(S!Answer(i)) \subseteq Frames
    BY <2>1, ChannelAssumption DEF SeederFrames
  <2> DEFINE P == {S!ProofFrames(i)[k] : k \in DOMAIN S!ProofFrames(i)}
             B == {S!BlockFrames(i)[k] : k \in DOMAIN S!BlockFrames(i)}
  <2>5. S!ProofFrames(i) \in Seq(P)
    <3>1. CASE S!ProofBytes(i) = <<>>
      BY <3>1 DEF S!ProofFrames
    <3>2. CASE S!ProofBytes(i) # <<>>
      <4>1. S!ProofFrames(i) = S!Fragments("Proof", i, S!ProofBytes(i))
        BY <3>2 DEF S!ProofFrames
      <4>2. Len(S!ProofBytes(i)) \in Nat
        BY <2>2, IndexIsNat, ProofIsSequence, LenProperties
      <4> QED
        BY <4>1, <4>2, FragmentsAre, FunctionIsSequence
    <3> QED
      BY <3>1, <3>2
  <2>6. S!BlockFrames(i) \in Seq(B)
    <3>1. S!BlockFrames(i) = S!Fragments("Block", i, BlockUnit(i))
      BY <2>2, IndexIsNat, BlockCount DEF S!BlockFrames, BlockUnit
    <3>2. Len(BlockUnit(i)) \in Nat
      BY <2>2, BlockIsSequence, LenProperties
    <3> QED
      BY <3>1, <3>2, FragmentsAre, FunctionIsSequence
  <2> HIDE DEF P, B
  <2>7. ToSet(S!ProofFrames(i)) \subseteq Frames /\ ToSet(S!BlockFrames(i)) \subseteq Frames
    BY <2>3, <2>4, <2>5, <2>6, PartsOfConcat
  <2>8. S!ProofFrames(i) \in Seq(Served) /\ S!BlockFrames(i) \in Seq(Served)
    BY <2>2, <2>7, ProofsServed, BlocksServed
  <2> QED
    BY <2>3, <2>8, ConcatProperties
<1> QED
  BY <1>2, <1>3

-----------------------------------------------------------------------------
(* What the receiver sends.                                                  *)

\* The calls a receiver may have under way, by whether it is complete.
CallsOf(c) ==
  LET blocks == 0..(S!block_count - 1)
  IN  {SimpleFrame("Request", Session, i) : i \in blocks \cup {kIndexManifest}}
        \cup {SimpleFrame("Ack", Session, i) : i \in blocks}
        \cup (IF c THEN {SimpleFrame("Done", Session, 0)} ELSE {})

LEMMA CallsAre == Calls = CallsOf(complete) /\ Calls' = CallsOf(complete')
BY DEF Calls, CallsOf

LEMMA CallsGrow ==
  ASSUME NEW c, NEW d, c => d, NEW calls \in Seq(CallsOf(c))
  PROVE  calls \in Seq(CallsOf(d))
<1>1. CallsOf(c) \subseteq CallsOf(d)
  BY DEF CallsOf
<1> QED
  BY <1>1, SeqMonotonic

\* request_next asks for a unit the seeder has, or says Done and is complete.
LEMMA RequestNextCalls ==
  ASSUME IInv', NEW sent \in Seq(CallsOf(complete')), request_next(sent)
  PROVE  out' \in Seq(CallsOf(complete'))
<1>1. PICK frame : out' = Append(sent, frame)
                   /\ \/ frame = send_simple("Request", kIndexManifest)
                      \/ complete' /\ frame = send_simple("Done", 0)
                      \/ /\ manifest_ready' /\ next_needed_block' # kIndexManifest
                         /\ frame = send_simple("Request", next_needed_block')
  BY DEF request_next
<1>2. ASSUME frame = send_simple("Request", kIndexManifest)
      PROVE  frame \in CallsOf(complete')
  BY <1>2 DEF CallsOf, send_simple
<1>3. ASSUME complete' /\ frame = send_simple("Done", 0)
      PROVE  frame \in CallsOf(complete')
  BY <1>3 DEF CallsOf, send_simple
<1>4. ASSUME manifest_ready' /\ next_needed_block' # kIndexManifest,
             frame = send_simple("Request", next_needed_block')
      PROVE  frame \in CallsOf(complete')
  <2>1. geometry' \in Geometry
    BY DEF IInv, TypeOK
  <2>2. next_needed_block' \in Missing'
    BY <1>4, <2>1, NextNeededBlockIsMissing
  <2>3. geometry'.block_count = S!block_count
    <3>1. manifest' \in Signed /\ geometry' = GeometryOf(manifest')
      BY <1>4 DEF IInv, GeometryIsSigned, GeometryOf
    <3>2. manifest' = Package.manifest /\ manifest'.block_count \in Nat
          /\ manifest'.block_count < U16
      BY <3>1, SignedFits, PackageAssumption, ManifestAssumption
    <3>3. manifest'.block_count % U16 = manifest'.block_count
      BY <3>2, SixteenBits
    <3> QED
      BY <3>1, <3>2, <3>3 DEF S!block_count, GeometryOf, U16, S!U16
  <2>4. next_needed_block' \in 0..(S!block_count - 1)
    BY <2>2, <2>3 DEF Missing
  <2> QED
    BY <1>4, <2>4 DEF CallsOf, send_simple
<1>5. frame \in CallsOf(complete')
  BY <1>1, <1>2, <1>3, <1>4
<1> QED
  BY <1>1, <1>5, AppendProperties

\* What a frame of the channel makes the receiver send.
LEMMA FrameCalls ==
  ASSUME IInv', NEW f \in Served, OnFrame(f)
  PROVE  out' \in Seq(CallsOf(complete'))
<1>1. f \in Frames
  BY ServedAreFrames
<1>2. CASE out' = <<>>
  BY <1>2, EmptySeq
<1>3. CASE request_next(<<>>)
  BY <1>3, EmptySeq, RequestNextCalls
<1>4. CASE f.type \in {"Block", "Proof"} /\ request_next(<<send_simple("Ack", f.index)>>)
  <2> DEFINE ack == send_simple("Ack", f.index)
  <2>1. f.index \in Nat /\ f.index < S!block_count
    BY <1>1, <1>4, FrameFields, IndexIsNat DEF Served
  <2>2. f.index \in 0..(S!block_count - 1)
    BY <2>1, BlockCount
  <2>3. ack \in CallsOf(complete')
    BY <2>2 DEF CallsOf, send_simple
  <2> HIDE DEF ack
  <2>4. <<ack>> \in Seq(CallsOf(complete'))
    BY <2>3
  <2> QED
    BY <1>4, <2>4, RequestNextCalls DEF ack
<1> QED
  BY <1>1, <1>2, <1>3, <1>4, FrameSends

\* A receiver that is complete stays so until it is restarted.
LEMMA FrameKeepsComplete ==
  ASSUME NEW f \in Frames, OnFrame(f), complete
  PROVE  complete' /\ out' = <<>>
BY FrameSends

-----------------------------------------------------------------------------
(* What waits.                                                               *)

LEMMA FrameHalves ==
  ASSUME NEW f \in Served, OnFrame(f), HalvesInRange
  PROVE  HalvesInRange'
<1>1. CASE UNCHANGED <<ready_blocks, proofs>> /\ (manifest_ready => manifest_ready')
  BY <1>1 DEF HalvesInRange
<1>2. CASE /\ f.type \in {"Block", "Proof"} /\ manifest_ready /\ UNCHANGED manifest_ready
           /\ DOMAIN ready_blocks' \cup DOMAIN proofs'
                \subseteq DOMAIN ready_blocks \cup DOMAIN proofs \cup {f.index}
  <2>1. f.index < S!block_count
    BY <1>2 DEF Served
  <2> QED
    BY <1>2, <2>1 DEF HalvesInRange
<1>3. CASE NotForUs(f) \/ Unwanted(f) \/ LateManifest(f)
  BY <1>1, <1>3 DEF NotForUs, Unwanted, LateManifest, Ignore, manifestVars
<1>4. CASE HandleAbort(f) \/ HandleStart(f) \/ ManifestFragment(f) \/ RefuseManifest(f)
           \/ TakeManifest(f)
  BY <1>1, <1>4 DEF HandleAbort, HandleStart, ManifestFragment, RefuseManifest, TakeManifest,
                    manifestVars
<1>5. ASSUME NEW bl, NEW pf, TryFinishBlock(f.index, bl, pf),
             DOMAIN bl \cup DOMAIN pf
               \subseteq DOMAIN ready_blocks \cup DOMAIN proofs \cup {f.index}
      PROVE  DOMAIN ready_blocks' \cup DOMAIN proofs'
               \subseteq DOMAIN ready_blocks \cup DOMAIN proofs \cup {f.index}
  <2>1. DOMAIN ready_blocks' \subseteq DOMAIN bl /\ DOMAIN proofs' \subseteq DOMAIN pf
    BY <1>5 DEF TryFinishBlock, Without
  <2> QED
    BY <1>5, <2>1
<1>6. CASE HandleBlock(f)
  <2>1. f.type = "Block" /\ manifest_ready /\ UNCHANGED manifest_ready
    BY <1>6 DEF HandleBlock, Hears, manifestVars
  <2>2. \/ UNCHANGED <<ready_blocks, proofs>>
        \/ \E b : TryFinishBlock(f.index, With(ready_blocks, f.index, b), proofs)
    BY <1>6 DEF HandleBlock
  <2>3. \A b : DOMAIN With(ready_blocks, f.index, b) = DOMAIN ready_blocks \cup {f.index}
    BY DEF With
  <2> QED
    BY <1>1, <1>2, <1>5, <2>1, <2>2, <2>3
<1>7. CASE EmptyProof(f) \/ HandleProof(f)
  <2>1. f.type = "Proof" /\ manifest_ready /\ UNCHANGED manifest_ready
    BY <1>7 DEF EmptyProof, HandleProof, Hears, manifestVars
  <2>2. \/ UNCHANGED <<ready_blocks, proofs>>
        \/ \E p : TryFinishBlock(f.index, ready_blocks, With(proofs, f.index, p))
    BY <1>7 DEF EmptyProof, HandleProof
  <2>3. \A p : DOMAIN With(proofs, f.index, p) = DOMAIN proofs \cup {f.index}
    BY DEF With
  <2> QED
    BY <1>1, <1>2, <1>5, <2>1, <2>2, <2>3
<1> QED
  BY <1>3, <1>4, <1>6, <1>7 DEF OnFrame, HandleManifest

-----------------------------------------------------------------------------
(* What the buffers hold.                                                    *)

\* A reassembler of the unit holds the first cells of it while it is being filled.
Filling(re, unit) == re.active => re.total = Len(unit) /\ Holds(re.data, unit)

BlocksWhole(map) ==
  \A i \in DOMAIN map : Len(map[i]) = Len(BlockUnit(i)) /\ Holds(map[i], BlockUnit(i))
ProofsWhole(map) == \A i \in DOMAIN map : Spells(map[i], S!ProofBytes(i))

UnitsHeld ==
  /\ Filling(block_re, BlockUnit(block_in_flight))
  /\ Filling(proof_re, S!ProofBytes(proof_in_flight))
  /\ BlocksWhole(ready_blocks)
  /\ ProofsWhole(proofs)

LEMMA UnitsHeldIs ==
  /\ UnitsHeld <=> TotalsAreTheUnits /\ BuffersHoldOneUnit
  /\ UnitsHeld' <=> TotalsAreTheUnits' /\ BuffersHoldOneUnit'
BY DEF UnitsHeld, Filling, BlocksWhole, ProofsWhole, TotalsAreTheUnits, BuffersHoldOneUnit

\* feed appends to the first cells of the unit those that come next in it.
LEMMA FeedFills ==
  ASSUME NEW C, NEW re \in Reassembler(C), NEW unit, Len(unit) \in Nat, Filling(re, unit),
         NEW f, f.data \in Seq(C), f.off \in Nat, Carries(f, unit)
  PROVE  /\ Filling(Fed(re, f), unit)
         /\ Completes(re, f) => /\ Len(Fed(re, f).data) = Len(unit)
                                /\ Holds(Fed(re, f).data, unit)
<1> DEFINE data == re.data \o f.data
<1>1. /\ re \in [total : 0..MaxUnit, data : Seq(C), active : BOOLEAN]
      /\ re.data \in Seq(C)
  BY DEF Reassembler
<1>2. CASE ~Fits(re, f)
  BY <1>2 DEF Fed, Completes
<1>3. CASE Fits(re, f)
  <2>1. /\ re.total = Len(unit) /\ Holds(re.data, unit)
        /\ f.off = Len(re.data) /\ f.off + Len(f.data) <= Len(unit)
    BY <1>3 DEF Fits, Filling
  <2>2. /\ Len(re.data) \in Nat /\ DOMAIN re.data = 1..Len(re.data)
        /\ Len(f.data) \in Nat /\ DOMAIN f.data = 1..Len(f.data)
    BY <1>1, LenProperties
  <2>3. /\ data \in Seq(C)
        /\ Len(data) = Len(re.data) + Len(f.data)
        /\ \A k \in 1..(Len(re.data) + Len(f.data)) :
             data[k] = IF k <= Len(re.data) THEN re.data[k] ELSE f.data[k - Len(re.data)]
    BY <1>1, ConcatProperties
  <2>4. /\ Fed(re, f).data = data
        /\ Fed(re, f).total = re.total
    BY <1>1, <1>3 DEF Fed
  <2> DEFINE m == Len(re.data)
             n == Len(f.data)
  <2>5. m \in Nat /\ n \in Nat /\ f.off = m /\ m + n <= Len(unit)
    BY <2>1, <2>2
  <2>6. DOMAIN data = 1..(m + n)
    BY <2>3, LenProperties
  <2> HIDE DEF data, m, n
  <2>7. ASSUME NEW k \in 1..(m + n) PROVE data[k] \in {unit[k], Damaged}
    <3>1. CASE k <= m
      <4>1. k \in 1..m
        BY <2>5, <3>1
      <4> QED
        BY <2>1, <2>2, <2>3, <3>1, <4>1 DEF Holds, m, n
    <3>2. CASE ~(k <= m)
      <4>1. k - m \in 1..n /\ m + (k - m) = k
        BY <2>5, <3>2
      <4>2. f.data[k - m] \in {unit[k], Damaged}
        BY <2>2, <2>5, <4>1 DEF Carries, n
      <4> QED
        BY <2>3, <3>2, <4>2 DEF m, n
    <3> QED
      BY <3>1, <3>2
  <2>8. Len(data) = m + n
    BY <2>3 DEF m, n
  <2>9. Holds(data, unit)
    BY <2>5, <2>6, <2>7, <2>8 DEF Holds
  <2>10. Len(data) >= Len(unit) => Len(data) = Len(unit)
    BY <2>5, <2>8
  <2> QED
    BY <2>1, <2>4, <2>9, <2>10 DEF Filling, Completes
<1> QED
  BY <1>2, <1>3

LEMMA ResetFills ==
  ASSUME NEW f, NEW unit, Len(unit) \in Nat, Carries(f, unit)
  PROVE  Filling(Reset(f.total), unit)
<1>1. Len(<<>>) = 0 /\ DOMAIN <<>> = {}
  BY EmptySeq
<1> QED
  BY <1>1 DEF Filling, Reset, Carries, Holds

LEMMA StoppedFills ==
  ASSUME NEW C, NEW re \in Reassembler(C), NEW unit
  PROVE  Filling(Stopped(re), unit)
<1>1. re \in [total : 0..MaxUnit, data : Seq(C), active : BOOLEAN]
  BY DEF Reassembler
<1>2. Stopped(re).active = FALSE
  BY <1>1 DEF Stopped
<1> QED
  BY <1>2 DEF Filling

LEMMA WholeQuotient ==
  ASSUME NEW n \in Nat, NEW d \in Nat \ {0}, n % d = 0
  PROVE  n \div d \in Nat /\ (n \div d) * d = n
BY SMT

\* The digests of a whole proof unit spell it.
LEMMA SplitSpells ==
  ASSUME NEW C, NEW buf \in Seq(C), NEW unit, Len(buf) = Len(unit), Holds(buf, unit),
         Len(buf) % HashLen = 0
  PROVE  Spells(SplitProof(buf), unit)
<1> DEFINE q == Len(buf) \div HashLen
           pf == SplitProof(buf)
<1>1. Len(buf) \in Nat /\ DOMAIN buf = 1..Len(buf) /\ HashLen \in Nat \ {0}
  BY LenProperties, HashLenAssumption
<1>2. q \in Nat /\ q * HashLen = Len(buf)
  BY <1>1, WholeQuotient
<1>3. pf = [k \in 1..q |-> SubSeq(buf, (k - 1) * HashLen + 1, k * HashLen)]
  BY DEF SplitProof
<1> HIDE DEF q, pf
<1>4. Len(pf) = q /\ DOMAIN pf = 1..q
  BY <1>2, <1>3
<1>5. ASSUME NEW d \in 1..q
      PROVE  /\ Len(pf[d]) = HashLen
             /\ \A c \in 1..HashLen : pf[d][c] \in {unit[(d - 1) * HashLen + c], Damaged}
  <2> DEFINE before == (d - 1) * HashLen
             to == d * HashLen
  <2>1. d \in Nat \ {0} /\ d <= q
    BY <1>2
  <2>2. /\ to \in Int /\ before + 1 \in Int /\ 1 <= before + 1 /\ to <= Len(buf)
        /\ before \in Int /\ to = before + HashLen
    <3>1. to \in Int /\ before + 1 \in Int /\ 1 <= before + 1 /\ to <= q * HashLen
      BY <1>1, <1>2, <2>1, Multiples
    <3>2. to - (before + 1) + 1 = HashLen
      BY <1>1, <2>1, OneMultiple
    <3>3. before \in Int
      BY <1>1, <2>1
    <3> HIDE DEF before, to
    <3> QED
      BY <1>1, <1>2, <3>1, <3>2, <3>3
  <2>3. pf[d] = SubSeq(buf, before + 1, to)
    BY <1>3
  <2> HIDE DEF before, to
  <2>4. \A j \in (before + 1)..to : buf[j] \in C
    <3>1. \A j \in (before + 1)..to : j \in 1..Len(buf)
      BY <1>1, <2>2
    <3> QED
      BY <3>1, ElementOfSeq
  <2>5. /\ Len(pf[d]) = IF before + 1 <= to THEN to - (before + 1) + 1 ELSE 0
        /\ \A c \in 1..(to - (before + 1) + 1) : pf[d][c] = buf[before + 1 + c - 1]
    BY <2>2, <2>3, <2>4, SubSeqProperties
  <2>6. to - (before + 1) + 1 = HashLen /\ before + 1 <= to
    BY <1>1, <2>2
  <2>7. ASSUME NEW c \in 1..HashLen
        PROVE  pf[d][c] \in {unit[before + c], Damaged}
    <3>1. before + 1 + c - 1 = before + c /\ before + c \in DOMAIN buf
      BY <1>1, <2>2
    <3> QED
      BY <2>5, <2>6, <3>1 DEF Holds
  <2> QED
    BY <2>5, <2>6, <2>7 DEF before
<1> QED
  BY <1>2, <1>4, <1>5 DEF Spells, pf

LEMMA TryFinishKeepsUnits ==
  ASSUME NEW i, NEW blocks, NEW pfs, TryFinishBlock(i, blocks, pfs),
         BlocksWhole(blocks), ProofsWhole(pfs)
  PROVE  BlocksWhole(ready_blocks') /\ ProofsWhole(proofs')
BY DEF TryFinishBlock, Without, BlocksWhole, ProofsWhole

LEMMA FrameUnits ==
  ASSUME IInv, UnitsHeld, NEW f \in Served, OnFrame(f)
  PROVE  UnitsHeld'
<1>1. f \in Frames /\ f.index \in Index /\ f.index \in Nat /\ f.off \in Nat
      /\ f.total \in 0..MaxUnit
  BY ServedAreFrames, FrameFields, IndexIsNat
<1>2. CASE UNCHANGED <<unitVars, ready_blocks, proofs>>
  BY <1>2 DEF UnitsHeld, unitVars
<1>3. CASE NotForUs(f) \/ Unwanted(f) \/ LateManifest(f)
  BY <1>2, <1>3 DEF NotForUs, Unwanted, LateManifest, Ignore
<1>4. CASE HandleAbort(f) \/ HandleStart(f) \/ ManifestFragment(f) \/ RefuseManifest(f)
           \/ TakeManifest(f)
  BY <1>2, <1>4 DEF HandleAbort, HandleStart, ManifestFragment, RefuseManifest, TakeManifest
<1>5. CASE HandleBlock(f)
  <2> DEFINE unit == BlockUnit(f.index)
             re == Fed(BlockBuffer(f), f)
  <2>1. /\ f.type = "Block" /\ Carries(f, unit) /\ f.data \in Seq(BlockCells)
        /\ block_in_flight' = f.index /\ UNCHANGED <<proof_re, proof_in_flight>>
    BY <1>1, <1>5, FrameFields DEF HandleBlock, Hears, Served
  <2>2. Len(unit) \in Nat
    BY <1>1, BlockIsSequence, LenProperties
  <2>3. BlockBuffer(f) \in Reassembler(BlockCells) /\ Filling(BlockBuffer(f), unit)
    <3>1. Reset(f.total) \in Reassembler(BlockCells) /\ Filling(Reset(f.total), unit)
      BY <1>1, <2>1, <2>2, NewReassembler, ResetFills
    <3> QED
      BY <3>1, UnitFields DEF BlockBuffer, UnitsHeld
  <2>4. /\ Filling(re, unit)
        /\ Completes(BlockBuffer(f), f) => Len(re.data) = Len(unit) /\ Holds(re.data, unit)
    BY <1>1, <2>1, <2>2, <2>3, FeedFills
  <2>5. re \in Reassembler(BlockCells)
    BY <1>1, <2>1, <2>3, FedReassembler
  <2>6. \/ block_re' = re /\ UNCHANGED <<ready_blocks, proofs>>
        \/ /\ block_re' = Stopped(re) /\ Completes(BlockBuffer(f), f)
           /\ TryFinishBlock(f.index, With(ready_blocks, f.index, re.data), proofs)
    BY <1>5 DEF HandleBlock
  <2> HIDE DEF re, unit
  <2>7. Filling(block_re', unit)
    BY <2>4, <2>5, <2>6, StoppedFills
  <2>8. BlocksWhole(ready_blocks') /\ ProofsWhole(proofs')
    <3>1. CASE UNCHANGED <<ready_blocks, proofs>>
      BY <3>1 DEF UnitsHeld
    <3>2. CASE /\ Completes(BlockBuffer(f), f)
               /\ TryFinishBlock(f.index, With(ready_blocks, f.index, re.data), proofs)
      <4>1. BlocksWhole(With(ready_blocks, f.index, re.data))
        BY <2>4, <3>2 DEF BlocksWhole, With, UnitsHeld, unit
      <4> QED
        BY <3>2, <4>1, TryFinishKeepsUnits DEF UnitsHeld
    <3> QED
      BY <2>6, <3>1, <3>2
  <2> QED
    BY <2>1, <2>7, <2>8 DEF UnitsHeld, unit
<1>6. CASE EmptyProof(f)
  <2>1. f.type = "Proof" /\ f.total = 0 /\ UNCHANGED unitVars
        /\ TryFinishBlock(f.index, ready_blocks, With(proofs, f.index, <<>>))
    BY <1>6 DEF EmptyProof, Hears
  <2>2. Len(S!ProofBytes(f.index)) = 0
    BY <2>1 DEF Served, Carries
  <2>3. Spells(<<>>, S!ProofBytes(f.index))
    BY <2>2, EmptySeq, HashLenAssumption DEF Spells
  <2>4. ProofsWhole(With(proofs, f.index, <<>>))
    BY <2>3 DEF ProofsWhole, With, UnitsHeld
  <2>5. BlocksWhole(ready_blocks') /\ ProofsWhole(proofs')
    BY <2>1, <2>4, TryFinishKeepsUnits DEF UnitsHeld
  <2> QED
    BY <2>1, <2>5 DEF UnitsHeld, unitVars
<1>7. CASE HandleProof(f)
  <2> DEFINE unit == S!ProofBytes(f.index)
             re == Fed(ProofBuffer(f), f)
  <2>1. /\ f.type = "Proof" /\ Carries(f, unit) /\ f.data \in Seq(ProofCells)
        /\ proof_in_flight' = f.index /\ UNCHANGED <<block_re, block_in_flight>>
    BY <1>1, <1>7, FrameFields DEF HandleProof, Hears, Served
  <2>2. Len(unit) \in Nat
    BY <1>1, ProofIsSequence, LenProperties
  <2>3. ProofBuffer(f) \in Reassembler(ProofCells) /\ Filling(ProofBuffer(f), unit)
    <3>1. Reset(f.total) \in Reassembler(ProofCells) /\ Filling(Reset(f.total), unit)
      BY <1>1, <2>1, <2>2, NewReassembler, ResetFills
    <3> QED
      BY <3>1, UnitFields DEF ProofBuffer, UnitsHeld
  <2>4. /\ Filling(re, unit)
        /\ Completes(ProofBuffer(f), f) => Len(re.data) = Len(unit) /\ Holds(re.data, unit)
    BY <1>1, <2>1, <2>2, <2>3, FeedFills
  <2>5. re \in Reassembler(ProofCells) /\ re.data \in Seq(ProofCells)
    BY <1>1, <2>1, <2>3, FedReassembler, ReassemblerFields
  <2>6. \/ block_re' = block_re /\ proof_re' \in {re, Stopped(re)}
           /\ UNCHANGED <<ready_blocks, proofs>>
        \/ /\ proof_re' = Stopped(re) /\ Completes(ProofBuffer(f), f)
           /\ Len(re.data) % HashLen = 0
           /\ TryFinishBlock(f.index, ready_blocks,
                             With(proofs, f.index, SplitProof(re.data)))
    BY <1>7 DEF HandleProof
  <2> HIDE DEF re, unit
  <2>7. Filling(proof_re', unit)
    BY <2>4, <2>5, <2>6, StoppedFills
  <2>8. BlocksWhole(ready_blocks') /\ ProofsWhole(proofs')
    <3>1. CASE UNCHANGED <<ready_blocks, proofs>>
      BY <3>1 DEF UnitsHeld
    <3>2. CASE /\ Completes(ProofBuffer(f), f)
               /\ Len(re.data) % HashLen = 0
               /\ TryFinishBlock(f.index, ready_blocks,
                                 With(proofs, f.index, SplitProof(re.data)))
      <4>1. Spells(SplitProof(re.data), unit)
        BY <2>4, <2>5, <3>2, SplitSpells
      <4>2. ProofsWhole(With(proofs, f.index, SplitProof(re.data)))
        BY <4>1 DEF ProofsWhole, With, UnitsHeld, unit
      <4> QED
        BY <3>2, <4>2, TryFinishKeepsUnits DEF UnitsHeld
    <3> QED
      BY <2>6, <3>1, <3>2
  <2> QED
    BY <2>1, <2>7, <2>8 DEF UnitsHeld, unit
<1> QED
  BY <1>3, <1>4, <1>5, <1>6, <1>7 DEF OnFrame, HandleManifest

\* A step that leaves the buffers alone.
LEMMA OthersKeepUnits ==
  ASSUME SessionInv, UNCHANGED <<unitVars, ready_blocks, proofs>>
  PROVE  TotalsAreTheUnits' /\ BuffersHoldOneUnit'
<1>1. UnitsHeld
  BY UnitsHeldIs DEF SessionInv
<1>2. UnitsHeld'
  BY <1>1 DEF UnitsHeld, unitVars
<1> QED
  BY <1>2, UnitsHeldIs

\* New buffers are idle, and nothing waits.
LEMMA NewUnits ==
  ASSUME NEW i, NEW j
  PROVE  /\ Filling(Idle, BlockUnit(i)) /\ Filling(Idle, S!ProofBytes(j))
         /\ BlocksWhole(EmptyMap) /\ ProofsWhole(EmptyMap)
BY DEF Filling, Idle, BlocksWhole, ProofsWhole, EmptyMap

-----------------------------------------------------------------------------
(* What the radio does to the frames under way.                              *)

LEMMA RemovedKeeps ==
  ASSUME NEW C, NEW q \in Seq(C), NEW k \in 1..Len(q)
  PROVE  RemoveAt(q, k) \in Seq(C)
<1>1. Len(q) \in Nat /\ k \in Nat /\ 1 <= k /\ k <= Len(q)
  BY LenProperties
<1>2. \A j \in 1..(k - 1) : q[j] \in C
  BY <1>1, ElementOfSeq
<1>3. \A j \in (k + 1)..Len(q) : q[j] \in C
  BY <1>1, ElementOfSeq
<1>4. SubSeq(q, 1, k - 1) \in Seq(C) /\ SubSeq(q, k + 1, Len(q)) \in Seq(C)
  BY <1>1, <1>2, <1>3, SubSeqProperties
<1> QED
  BY <1>4, ConcatProperties DEF RemoveAt

LEMMA RepeatedKeeps ==
  ASSUME NEW C, NEW q \in Seq(C), NEW k \in 1..Len(q)
  PROVE  Append(q, q[k]) \in Seq(C)
BY ElementOfSeq, AppendProperties

\* A damaged frame is one of the channel's, names the unit it named before, and
\* stands for the same piece of it.
LEMMA DamagedServed ==
  ASSUME NEW f \in Served, f.type \in Damageable
  PROVE  DamagedFrame(f) \in Served
<1> DEFINE d == DamagedFrame(f)
<1>1. d \in Frames /\ f \in Frame
  BY ServedAreFrames, ChannelAssumption, FramesAssumption
<1>2. Len(f.data) \in Nat
  BY <1>1, LenProperties DEF Frame, FrameOf
<1>3. /\ d.type = f.type /\ d.index = f.index /\ d.off = f.off /\ d.total = f.total
      /\ d.data = [k \in 1..Len(f.data) |-> Damaged]
  BY <1>1 DEF DamagedFrame, Frame, FrameOf
<1> HIDE DEF d
<1>4. /\ Len(d.data) = Len(f.data)
      /\ \A k \in DOMAIN d.data : d.data[k] = Damaged
  BY <1>2, <1>3
<1>5. \A unit : Carries(f, unit) => Carries(d, unit)
  BY <1>3, <1>4 DEF Carries
<1>6. f.type # "Start"
  <2> SUFFICES ASSUME f.type = "Start" PROVE FALSE
    OBVIOUS
  <2>1. f \in ToSet(S!StartFrames)
    BY DEF Served
  <2>2. Len(f.data) = 1
    BY <2>1 DEF ToSet, S!StartFrames, S!MakeFrame
  <2>3. d \in Frames /\ d.type = "Start" /\ d.data = [k \in 1..1 |-> Damaged]
    BY <1>1, <1>3, <2>2
  <2>4. d.data \in Seq(Geometry)
    BY <2>3, FrameFields
  <2>5. 1 \in 1..Len(d.data) /\ d.data[1] = Damaged
    BY <2>3
  <2>6. Damaged \in Geometry
    BY <2>4, <2>5, ElementOfSeq
  <2> QED
    BY <2>6 DEF Damaged, Geometry
<1> QED
  BY <1>1, <1>3, <1>5, <1>6 DEF Served, d

-----------------------------------------------------------------------------
(* The steps of a session keep SessionInv.                                   *)

LEMMA SessionInitIsGood == SessionInit => SessionInv
<1> SUFFICES ASSUME SessionInit PROVE SessionInv
  OBVIOUS
<1>1. IInv
  BY InitIsGood DEF SessionInit
<1>2. toTarget \in Seq(Served)
  BY StartServed DEF SessionInit, S!SeederInit
<1>3. toSeeder \in Seq(Calls)
  BY EmptySeq DEF SessionInit
<1>4. HalvesInRange /\ ~seeder_done
  BY DEF SessionInit, S!SeederInit, Init, HalvesInRange, EmptyMap
<1>5. TotalsAreTheUnits /\ BuffersHoldOneUnit
  BY NewUnits, UnitsHeldIs DEF SessionInit, Init, UnitsHeld
<1> QED
  BY <1>1, <1>2, <1>3, <1>4, <1>5 DEF SessionInv

\* What a call adds to the frames under way to the seeder.
LEMMA CallsJoin ==
  ASSUME SessionInv, complete => complete', out' \in Seq(CallsOf(complete')),
         toSeeder' = toSeeder \o out'
  PROVE  (toSeeder \in Seq(Calls))'
<1>1. toSeeder \in Seq(CallsOf(complete'))
  BY CallsAre, CallsGrow DEF SessionInv
<1>2. toSeeder \o out' \in Seq(CallsOf(complete'))
  BY <1>1, ConcatProperties
<1> QED
  BY <1>2, CallsAre

LEMMA TargetReceivesKeeps ==
  ASSUME SessionInv, IInv', TargetReceives
  PROVE  SessionInv'
<1>1. toTarget # <<>> /\ OnFrame(Head(toTarget)) /\ Head(toTarget) \in Served
      /\ Head(toTarget) \in Frames
  BY FirstUnderWay DEF TargetReceives
<1>2. complete => complete'
  BY <1>1, FrameKeepsComplete
<1>3. out' \in Seq(CallsOf(complete'))
  BY <1>1, FrameCalls
<1>4. (toSeeder \in Seq(Calls))'
  BY <1>2, <1>3, CallsJoin DEF TargetReceives
<1>5. HalvesInRange'
  BY <1>1, FrameHalves DEF SessionInv
<1>6. toTarget' \in Seq(Served)
  BY <1>1, HeadTailProperties DEF SessionInv, TargetReceives
<1>7. seeder_done' => complete'
  BY <1>2 DEF SessionInv, TargetReceives, seederVars
<1>8. TotalsAreTheUnits' /\ BuffersHoldOneUnit'
  BY <1>1, FrameUnits, UnitsHeldIs DEF SessionInv
<1> QED
  BY <1>4, <1>5, <1>6, <1>7, <1>8 DEF SessionInv

LEMMA PollKeepsSession ==
  ASSUME SessionInv, IInv', Poll, toSeeder' = toSeeder \o out',
         UNCHANGED <<seederVars, toTarget>>
  PROVE  SessionInv'
<1>1. ~complete /\ request_next(<<>>)
      /\ UNCHANGED <<ready_blocks, proofs, manifest_ready>>
  BY DEF Poll, manifestVars
<1>2. out' \in Seq(CallsOf(complete'))
  BY <1>1, EmptySeq, RequestNextCalls
<1>3. (toSeeder \in Seq(Calls))'
  BY <1>1, <1>2, CallsJoin
<1>4. HalvesInRange'
  BY <1>1 DEF SessionInv, HalvesInRange
<1>5. toTarget' \in Seq(Served) /\ ~seeder_done'
  BY <1>1 DEF SessionInv, seederVars
<1>6. TotalsAreTheUnits' /\ BuffersHoldOneUnit'
  BY OthersKeepUnits DEF Poll
<1> QED
  BY <1>3, <1>4, <1>5, <1>6 DEF SessionInv

\* The seeder answers a request, and is done only when the receiver has said so.
LEMMA SeederReceivesKeeps ==
  ASSUME SessionInv, IInv', SeederReceives
  PROVE  SessionInv'
<1> DEFINE f == Head(toSeeder)
<1>1. f \in CallsOf(complete) /\ toSeeder' \in Seq(CallsOf(complete))
  BY HeadTailProperties, CallsAre DEF SessionInv, SeederReceives
<1>2. UNCHANGED <<complete, manifest_ready, ready_blocks, proofs>>
  BY DEF SeederReceives, vars, manifestVars
<1>3. (toSeeder \in Seq(Calls))' /\ HalvesInRange'
  BY <1>1, <1>2, CallsAre DEF SessionInv, HalvesInRange
<1>4. S!SeederOnFrame(f) /\ ~seeder_done /\ toTarget' = toTarget \o seeder_sent'
  BY DEF SeederReceives
<1>5. PICK i : \/ f = SimpleFrame("Request", Session, i)
                  /\ i \in 0..(S!block_count - 1) \cup {kIndexManifest}
               \/ f = SimpleFrame("Ack", Session, i)
               \/ f = SimpleFrame("Done", Session, 0) /\ complete
  <2> HIDE DEF f
  <2> QED
    BY <1>1 DEF CallsOf
<1> HIDE DEF f
<1>6. /\ seeder_done' => complete
      /\ seeder_sent' \in Seq(Served)
  <2> USE DEF SimpleFrame, MakeFrame, S!HandleRequest, S!HandleEnd, S!HandleOther, S!Ends
  <2>1. CASE f = SimpleFrame("Request", Session, i)
             /\ i \in 0..(S!block_count - 1) \cup {kIndexManifest}
    <3>1. f.type = "Request" /\ f.session = Session /\ f.index = i
      BY <2>1
    <3>2. S!HandleRequest(f)
      BY <1>4, <3>1 DEF S!SeederOnFrame
    <3>3. seeder_sent' = S!Answer(i) /\ UNCHANGED seeder_done
      BY <3>1, <3>2
    <3> QED
      BY <1>4, <2>1, <3>3, AnswersServed
  <2>2. CASE f = SimpleFrame("Ack", Session, i)
    <3>1. f.type = "Ack"
      BY <2>2
    <3>2. S!HandleOther(f)
      BY <1>4, <3>1 DEF S!SeederOnFrame
    <3> QED
      BY <1>4, <3>2, EmptySeq
  <2>3. CASE f = SimpleFrame("Done", Session, 0) /\ complete
    <3>1. f.type = "Done" /\ f.session = Session
      BY <2>3
    <3>2. S!HandleEnd(f)
      BY <1>4, <3>1 DEF S!SeederOnFrame
    <3> QED
      BY <2>3, <3>2, EmptySeq
  <2> QED
    BY <1>5, <2>1, <2>2, <2>3
<1>7. toTarget' \in Seq(Served)
  BY <1>4, <1>6, ConcatProperties DEF SessionInv
<1>8. TotalsAreTheUnits' /\ BuffersHoldOneUnit'
  BY OthersKeepUnits DEF SeederReceives, vars
<1> QED
  BY <1>2, <1>3, <1>6, <1>7, <1>8 DEF SessionInv

LEMMA RadioKeeps ==
  ASSUME SessionInv, IInv', Lose \/ Repeat \/ Damage
  PROVE  SessionInv'
<1>1. UNCHANGED <<complete, manifest_ready, ready_blocks, proofs, seeder_done>>
  BY DEF Lose, Repeat, Damage, vars, manifestVars, seederVars
<1>2. HalvesInRange' /\ (seeder_done' => complete')
  BY <1>1 DEF SessionInv, HalvesInRange
<1>3. toTarget \in Seq(Served) /\ toSeeder \in Seq(CallsOf(complete))
  BY CallsAre DEF SessionInv
<1>4. toTarget' \in Seq(Served) /\ toSeeder' \in Seq(CallsOf(complete))
  <2>1. CASE Lose
    BY <1>3, <2>1, RemovedKeeps DEF Lose
  <2>2. CASE Repeat
    BY <1>3, <2>2, RepeatedKeeps DEF Repeat
  <2>3. CASE Damage
    <3>1. PICK k \in 1..Len(toTarget) :
            /\ toTarget[k].type \in Damageable
            /\ toTarget' = [toTarget EXCEPT ![k] = DamagedFrame(toTarget[k])]
      BY <2>3 DEF Damage
    <3>2. DamagedFrame(toTarget[k]) \in Served
      BY <1>3, <3>1, ElementOfSeq, DamagedServed
    <3>3. toTarget' \in Seq(Served)
      BY <1>3, <3>1, <3>2, ExceptSeq
    <3> QED
      BY <1>3, <2>3, <3>3 DEF Damage
  <2> QED
    BY <2>1, <2>2, <2>3
<1>5. TotalsAreTheUnits' /\ BuffersHoldOneUnit'
  BY OthersKeepUnits DEF Lose, Repeat, Damage, vars
<1> QED
  BY <1>1, <1>2, <1>4, <1>5, CallsAre DEF SessionInv

\* A device that restarts was not complete, so no Done is under way or believed.
LEMMA RebootKeepsSession ==
  ASSUME SessionInv, IInv', TargetReboots
  PROVE  SessionInv'
<1>1. ~complete /\ ~complete' /\ DOMAIN ready_blocks' = {} /\ DOMAIN proofs' = {}
      /\ UNCHANGED <<seeder_done, toTarget, toSeeder>>
  BY DEF TargetReboots, Reboot, EmptyMap, seederVars, radioVars
<1>2. HalvesInRange' /\ (seeder_done' => complete')
  BY <1>1 DEF SessionInv, HalvesInRange
<1>3. (toSeeder \in Seq(Calls))' /\ toTarget' \in Seq(Served)
  BY <1>1, CallsAre, CallsGrow DEF SessionInv
<1>4. TotalsAreTheUnits' /\ BuffersHoldOneUnit'
  BY NewUnits, UnitsHeldIs DEF TargetReboots, Reboot, UnitsHeld
<1> QED
  BY <1>2, <1>3, <1>4 DEF SessionInv

LEMMA SessionStepKeeps == SessionInv /\ [SessionNext]_sessionVars => SessionInv'
<1> SUFFICES ASSUME SessionInv, [SessionNext]_sessionVars PROVE SessionInv'
  OBVIOUS
<1>1. IInv'
  BY SessionStepIsReceiverStep, ReleaseStepKeeps DEF SessionInv
<1>2. CASE TargetReceives
  BY <1>1, <1>2, TargetReceivesKeeps
<1>3. CASE TargetTimesOut \/ TargetNudges
  BY <1>1, <1>3, PollKeepsSession DEF TargetTimesOut, TargetNudges
<1>4. CASE SeederReceives
  BY <1>1, <1>4, SeederReceivesKeeps
<1>5. CASE Lose \/ Repeat \/ Damage
  BY <1>1, <1>5, RadioKeeps
<1>6. CASE TargetReboots
  BY <1>1, <1>6, RebootKeepsSession
<1>7. CASE UNCHANGED sessionVars
  <2>1. UNCHANGED <<complete, manifest_ready, ready_blocks, proofs, seeder_done,
                    toTarget, toSeeder>>
    BY <1>7 DEF sessionVars, vars, manifestVars, seederVars, radioVars
  <2>2. TotalsAreTheUnits' /\ BuffersHoldOneUnit'
    BY <1>7, OthersKeepUnits DEF sessionVars, vars
  <2> QED
    BY <1>1, <2>1, <2>2, CallsAre DEF SessionInv, HalvesInRange
<1> QED
  BY <1>2, <1>3, <1>4, <1>5, <1>6, <1>7 DEF SessionNext, TargetLoop

-----------------------------------------------------------------------------
(* The theorems.                                                             *)

\* Whatever is lost, late, repeated or damaged, and however often the device
\* restarts, each end keeps to what the other may believe of it.
THEOREM SessionInvariant == SessionSpec => []SessionInv
BY SessionInitIsGood, SessionStepKeeps, PTL DEF SessionSpec

\* A session's receiver is a receiver whose late STARTs match the manifest: what
\* OtaReceiverProofs proves of it alone holds of it in a session.
THEOREM SessionIsAReceiver == SessionSpec => ReleaseSpec
<1>1. SessionInit => Init
  BY DEF SessionInit
<1>2. SessionInv /\ [SessionNext]_sessionVars => [ReleaseNext]_vars
  BY SessionStepIsReceiverStep
<1> QED
  BY <1>1, <1>2, SessionInvariant, PTL DEF SessionSpec, ReleaseSpec

\* Whatever the radio does, a buffer holds the first bytes of the one unit it is
\* for, or damage in their place, and what waits for its other half is a whole unit.
THEOREM BuffersStayOfOneUnit == SessionSpec => []BuffersHoldOneUnit
<1>1. SessionInv => BuffersHoldOneUnit
  BY DEF SessionInv
<1> QED
  BY <1>1, SessionInvariant, PTL

\* So a session is one of the abstract transfer.
THEOREM SessionImplementsTransfer == SessionSpec => ImplementsTransfer
BY SessionIsAReceiver, ReleaseImplementsTransfer, PTL

\* A seeder leaves its loop only when the target has the seeder's whole payload in
\* its store, block by block.
THEOREM SeederIsToldTheTruth == SessionSpec => []DoneIsTrue
<1>1. SessionInv => DoneIsTrue
  <2> SUFFICES ASSUME SessionInv, seeder_done
               PROVE  /\ DOMAIN store = 0..(S!block_count - 1)
                      /\ \A i \in DOMAIN store :
                           store[i] = BlockUnit(i)
    BY DEF DoneIsTrue
  <2>1. IInv /\ complete
    BY DEF SessionInv
  <2>2. /\ manifest_ready
        /\ DOMAIN store = 0..(manifest.block_count - 1)
        /\ \A i \in DOMAIN store : store[i] = Payload[manifest][i + 1]
    BY <2>1 DEF IInv, DoneMeansAll, BlockOf
  <2>3. manifest \in Signed /\ manifest.block_count = S!block_count
    BY <2>1, <2>2, AcceptedIsThePackages
  <2> QED
    BY <2>2, <2>3, PackageAssumption
<1> QED
  BY <1>1, SessionInvariant, PTL

\* An honest seeder cannot fill the maps: what waits in them is half of a block that
\* is still missing.
THEOREM MapsHoldHalvesOfMissing == SessionSpec => []HalvesAreOfMissing
<1>1. SessionInv => HalvesAreOfMissing
  <2> SUFFICES ASSUME SessionInv PROVE HalvesAreOfMissing
    OBVIOUS
  <2>1. IInv /\ HalvesInRange /\ NoHalfForgotten
    BY DEF SessionInv, IInv
  <2>2. ASSUME NEW i \in DOMAIN ready_blocks \cup DOMAIN proofs PROVE i \in Missing
    <3>1. manifest_ready /\ i < S!block_count
      BY <2>1 DEF HalvesInRange
    <3>2. geometry.block_count = S!block_count
      BY <2>1, <3>1, AcceptedIsThePackages
    <3>3. i \in Nat
      BY <2>1, IndexIsNat DEF IInv, TypeOK
    <3>4. i \in 0..(S!block_count - 1)
      BY <3>1, <3>3, BlockCount
    <3>5. ~has_block(i)
      BY <2>1 DEF NoHalfForgotten, has_block
    <3> QED
      BY <3>2, <3>4, <3>5 DEF Missing
  <2> QED
    BY <2>1, <2>2 DEF HalvesAreOfMissing, NoHalfForgotten
<1> QED
  BY <1>1, SessionInvariant, PTL

-----------------------------------------------------------------------------
(* Requests do not multiply.  Of every answer, the end of its block can make *)
(* the receiver ask again; what has been asked, what can make it ask and the *)
(* blocks that wait for a proof are together never more than the faults and  *)
(* polls have added to the first.  A poll when nothing is under way adds one *)
(* for free, so then no block may wait that a fault has not paid for: every  *)
(* block end under way that does not come right behind its proof has been    *)
(* made so by a fault.                                                       *)

IsLast(f) == f.off + Len(f.data) >= f.total
IsBlockEnd(f) == f.type = "Block" /\ IsLast(f)

\* Frames at which the receiver may ask for more.
Wakes(f) == f.type = "Start" \/ (f.type \in {"Manifest", "Block"} /\ IsLast(f))

\* g comes next after f in an answer.
Follows(f, g) ==
  /\ f.session = Session /\ f.index = g.index
  /\ f.type \in {"Proof", "Block"}
  /\ IF f.type = g.type THEN ~IsLast(f) /\ g.off = f.off + Len(f.data)
                        ELSE f.type = "Proof" /\ IsLast(f) /\ g.type = "Block"

Opens(f) == f.type = "Proof" /\ f.off = 0

\* The receiver takes no half of that block ...
Deaf(i) == aborted \/ complete \/ ~manifest_ready \/ has_block(i)

\* ... or has taken all that comes before the frame in its answer.
Expects(f) ==
  \/ Deaf(f.index)
  \/ f.type = "Block" /\ f.index \in DOMAIN proofs
  \/ f.type = "Proof" /\ proof_re.active /\ proof_in_flight = f.index /\ Len(proof_re.data) = f.off

\* The frames m..k of q are of one answer; e says whether the first of q is expected.
Chain(q, m, k) == \A j \in m..(k - 1) : Follows(q[j], q[j + 1])
Begun(q, m, e) == Opens(q[m]) \/ (m = 1 /\ e)
Covered(q, k, e) == \E m \in 1..k : Chain(q, m, k) /\ Begun(q, m, e)

Loose(q, e) == {k \in 1..Len(q) : IsBlockEnd(q[k]) /\ ~Covered(q, k, e)}
Waking(q) == {k \in 1..Len(q) : Wakes(q[k])}

-----------------------------------------------------------------------------
(* Queues that lose a frame, are joined by an answer, or repeat a frame: how *)
(* many of their positions are loose, waking or requests.                    *)

LEMMA PositionsAreFinite ==
  ASSUME NEW n \in Nat, NEW A, A \subseteq 1..n
  PROVE  IsFiniteSet(A) /\ Cardinality(A) \in Nat
<1>1. IsFiniteSet(1..n)
  BY FS_Interval
<1> QED
  BY <1>1, FS_Subset, FS_CardinalityType

\* The place that element k had before the r-th was removed.
Skip(r, k) == IF k < r THEN k ELSE k + 1

Removed(p, q, r) == Len(q) = Len(p) - 1 /\ \A k \in 1..Len(q) : q[k] = p[Skip(r, k)]

LEMMA SkippedAreFewer ==
  ASSUME NEW r \in Nat, NEW A, IsFiniteSet(A), NEW B, B \subseteq Nat, \A k \in B : Skip(r, k) \in A
  PROVE  /\ IsFiniteSet(B) /\ Cardinality(B) \in Nat /\ Cardinality(A) \in Nat
         /\ Cardinality(B) <= Cardinality(A)
         /\ r \in A => Cardinality(B) + 1 <= Cardinality(A)
<1> DEFINE C == A \ {r}
           f == [k \in B |-> Skip(r, k)]
<1>1. /\ IsFiniteSet(C)
      /\ Cardinality(C) = IF r \in A THEN Cardinality(A) - 1 ELSE Cardinality(A)
  BY FS_RemoveElement
<1>2. f \in Injection(B, C)
  <2>1. \A k \in B : Skip(r, k) \in C
    BY DEF Skip
  <2>2. \A j, k \in B : Skip(r, j) = Skip(r, k) => j = k
    BY DEF Skip
  <2> QED
    BY <2>1, <2>2 DEF Injection, IsInjective
<1>3. IsFiniteSet(B) /\ Cardinality(B) <= Cardinality(C)
  BY <1>1, <1>2, FS_Injection
<1>4. Cardinality(A) \in Nat /\ Cardinality(B) \in Nat /\ Cardinality(C) \in Nat
  BY <1>1, <1>3, FS_CardinalityType
<1> QED
  BY <1>1, <1>3, <1>4

\* One more at most.
LEMMA OneMore ==
  ASSUME NEW A, IsFiniteSet(A), NEW c
  PROVE  /\ IsFiniteSet(A \cup {c}) /\ Cardinality(A) \in Nat
         /\ Cardinality(A \cup {c}) \in Nat /\ Cardinality(A \cup {c}) <= Cardinality(A) + 1
BY FS_AddElement, FS_CardinalityType

LEMMA SubsetIsFewer ==
  ASSUME NEW A, IsFiniteSet(A), NEW B, B \subseteq A
  PROVE  IsFiniteSet(B) /\ Cardinality(B) \in Nat /\ Cardinality(A) \in Nat
         /\ Cardinality(B) <= Cardinality(A)
BY FS_Subset, FS_CardinalityType

LEMMA RemovedSkips ==
  ASSUME NEW p, NEW q, Len(p) \in Nat, NEW r \in 1..Len(p), Removed(p, q, r), NEW k \in 1..Len(q)
  PROVE  k \in Nat /\ Skip(r, k) \in 1..Len(p) /\ Skip(r, k) # r /\ q[k] = p[Skip(r, k)]
BY DEF Removed, Skip

\* A chain that does not hold the removed frame is still one.
LEMMA ChainStays ==
  ASSUME NEW p, NEW q, Len(p) \in Nat, NEW r \in 1..Len(p), Removed(p, q, r),
         NEW k \in 1..Len(q), NEW m \in 1..Skip(r, k), Chain(p, m, Skip(r, k)),
         ~(m <= r /\ r <= Skip(r, k)), NEW e, NEW d, Begun(p, m, e), (r # 1 /\ e) => d
  PROVE  Covered(q, k, d)
<1> DEFINE n == IF m < r THEN m ELSE m - 1
           g == Skip(r, k)
<1>1. g \in 1..Len(p) /\ q[k] = p[g] /\ Len(q) \in Nat /\ Len(q) = Len(p) - 1
  <2>1. g \in 1..Len(p) /\ q[k] = p[g]
    BY RemovedSkips
  <2>2. Len(q) = Len(p) - 1
    BY DEF Removed
  <2> QED
    BY <2>1, <2>2
<1>2. n \in 1..k /\ Skip(r, n) = m
  <2>1. k \in Nat /\ k >= 1 /\ r \in Nat /\ m \in Nat /\ m >= 1 /\ m <= g
    BY <1>1
  <2>2. CASE k < r
    <3>1. g = k /\ m < r /\ n = m
      BY <2>1, <2>2 DEF Skip
    <3> QED
      BY <2>1, <3>1 DEF Skip
  <2>3. CASE ~(k < r)
    <3>1. g = k + 1 /\ r < m /\ n = m - 1
      BY <2>1, <2>3 DEF Skip
    <3>2. n \in 1..k /\ ~(n < r) /\ n + 1 = m
      BY <2>1, <3>1
    <3> QED
      BY <3>2 DEF Skip
  <2> QED
    BY <2>2, <2>3
<1>3. ASSUME NEW j \in n..(k - 1)
      PROVE  Follows(q[j], q[j + 1])
  <2>1. j \in 1..Len(q) /\ j + 1 \in 1..Len(q)
    BY <1>1, <1>2
  <2>2. Skip(r, j) \in m..(g - 1) /\ Skip(r, j + 1) = Skip(r, j) + 1
    BY <1>1, <1>2, <2>1 DEF Skip
  <2>3. q[j] = p[Skip(r, j)] /\ q[j + 1] = p[Skip(r, j + 1)]
    BY <2>1, RemovedSkips
  <2> QED
    BY <2>2, <2>3 DEF Chain
<1>4. q[n] = p[m]
  <2>1. n \in 1..Len(q)
    BY <1>1, <1>2
  <2> QED
    BY <1>2, <2>1, RemovedSkips
<1>5. Begun(q, n, d)
  <2>1. CASE Opens(p[m])
    BY <1>4, <2>1 DEF Begun
  <2>2. CASE m = 1 /\ e
    <3>1. n = 1 /\ r # 1
      BY <1>1, <2>2 DEF Skip
    <3> QED
      BY <2>2, <3>1 DEF Begun
  <2> QED
    BY <2>1, <2>2 DEF Begun
<1> HIDE DEF n
<1> QED
  BY <1>2, <1>3, <1>5 DEF Covered, Chain

\* The end of a block is the last of its chain.
LEMMA EndsAreLast ==
  ASSUME NEW f, NEW g, IsBlockEnd(f)
  PROVE  ~Follows(f, g)
BY DEF IsBlockEnd, Follows

\* Removing a frame loosens one block end at most.
LEMMA LooseRemoved ==
  ASSUME NEW p, NEW q, Len(p) \in Nat, NEW r \in 1..Len(p), Removed(p, q, r),
         NEW e, NEW d, (r # 1 /\ e) => d
  PROVE  \E c : \A k \in Loose(q, d) : Skip(r, k) \in Loose(p, e) \cup {c}
<1> DEFINE Lost(k) == Skip(r, k) \notin Loose(p, e)
           g(k) == Skip(r, k)
<1>0. Len(q) \in Nat
  BY DEF Removed
<1>1. ASSUME NEW k \in Loose(q, d), Lost(k)
      PROVE  /\ k \in 1..Len(q) /\ g(k) \in 1..Len(p) /\ IsBlockEnd(p[g(k)])
             /\ \E m \in 1..g(k) : Chain(p, m, g(k)) /\ m <= r /\ r <= g(k)
  <2>1. k \in 1..Len(q) /\ IsBlockEnd(q[k]) /\ ~Covered(q, k, d)
    BY DEF Loose
  <2>2. g(k) \in 1..Len(p) /\ q[k] = p[g(k)]
    BY <2>1, RemovedSkips
  <2>3. Covered(p, g(k), e)
    BY <1>1, <2>1, <2>2 DEF Loose
  <2>4. PICK m \in 1..g(k) : Chain(p, m, g(k)) /\ Begun(p, m, e)
    BY <2>3 DEF Covered
  <2>5. m <= r /\ r <= g(k)
    BY <2>1, <2>4, ChainStays
  <2> QED
    BY <2>1, <2>2, <2>4, <2>5
<1>2. ASSUME NEW j \in Loose(q, d), Lost(j), NEW k \in Loose(q, d), Lost(k), j < k
      PROVE  FALSE
  <2>1. /\ j \in 1..Len(q) /\ g(j) \in 1..Len(p) /\ IsBlockEnd(p[g(j)]) /\ r <= g(j)
        /\ k \in 1..Len(q) /\ g(k) \in 1..Len(p)
    BY <1>1, <1>2
  <2>2. PICK m \in 1..g(k) : Chain(p, m, g(k)) /\ m <= r
    BY <1>1, <1>2
  <2>3. g(j) \in m..(g(k) - 1)
    BY <1>0, <1>2, <2>1, <2>2 DEF Skip
  <2>4. Follows(p[g(j)], p[g(j) + 1])
    BY <2>2, <2>3 DEF Chain
  <2> QED
    BY <2>1, <2>4, EndsAreLast
<1>3. ASSUME NEW j \in Loose(q, d), Lost(j), NEW k \in Loose(q, d), Lost(k)
      PROVE  j = k
  <2>1. j \in Nat /\ k \in Nat
    BY <1>0 DEF Loose
  <2>2. ~(j < k) /\ ~(k < j)
    BY <1>2, <1>3
  <2> QED
    BY <2>1, <2>2
<1>4. CASE \E j \in Loose(q, d) : Lost(j)
  <2>1. PICK j \in Loose(q, d) : Lost(j)
    BY <1>4
  <2>2. \A k \in Loose(q, d) : Skip(r, k) \in Loose(p, e) \cup {Skip(r, j)}
    BY <1>3, <2>1
  <2> QED
    BY <2>2
<1>5. CASE ~ \E j \in Loose(q, d) : Lost(j)
  BY <1>5
<1> QED
  BY <1>4, <1>5

\* Taking the first frame loosens none, when what comes next of its answer is expected.
LEMMA LooseKept ==
  ASSUME NEW p, NEW q, Len(p) \in Nat \ {0}, Removed(p, q, 1), NEW e, NEW d,
         Len(p) > 1 /\ Follows(p[1], p[2]) /\ Begun(p, 1, e) => d
  PROVE  \A k \in Loose(q, d) : Skip(1, k) \in Loose(p, e)
<1> SUFFICES ASSUME NEW k \in Loose(q, d), Skip(1, k) \notin Loose(p, e) PROVE FALSE
  OBVIOUS
<1>1. k \in 1..Len(q) /\ IsBlockEnd(q[k]) /\ ~Covered(q, k, d) /\ Len(q) = Len(p) - 1
  BY DEF Loose, Removed
<1>2. Skip(1, k) = k + 1 /\ k + 1 \in 1..Len(p) /\ q[k] = p[k + 1]
  BY <1>1 DEF Removed, Skip
<1>3. Covered(p, k + 1, e)
  BY <1>1, <1>2 DEF Loose
<1>4. PICK m \in 1..(k + 1) : Chain(p, m, k + 1) /\ Begun(p, m, e)
  BY <1>3 DEF Covered
<1>5. CASE m # 1
  <2>1. ~(m <= 1 /\ 1 <= k + 1) /\ 1 \in 1..Len(p) /\ Len(p) \in Nat
    BY <1>5
  <2>2. (1 # 1 /\ e) => d
    OBVIOUS
  <2> QED
    BY <1>1, <1>2, <1>4, <2>1, <2>2, ChainStays
<1>6. CASE m = 1
  <2>1. \A j \in 1..k : Follows(p[j], p[j + 1])
    BY <1>1, <1>4, <1>6 DEF Chain
  <2>2. Follows(p[1], p[2])
    <3>1. 1 \in 1..k
      BY <1>1
    <3> QED
      BY <2>1, <3>1
  <2>3. d
    BY <1>1, <1>2, <1>4, <1>6, <2>2
  <2>4. ASSUME NEW j \in 1..(k - 1) PROVE Follows(q[j], q[j + 1])
    <3>1. j + 1 \in 1..k /\ j \in 1..Len(q) /\ j + 1 \in 1..Len(q)
      BY <1>1
    <3>2. \A i \in 1..Len(q) : Skip(1, i) = i + 1
      BY DEF Removed, Skip
    <3>3. \A i \in 1..Len(q) : q[i] = p[Skip(1, i)]
      BY DEF Removed
    <3>4. q[j] = p[j + 1]
      BY <3>1, <3>2, <3>3
    <3>5. q[j + 1] = p[j + 1 + 1]
      BY <3>1, <3>2, <3>3
    <3> QED
      BY <2>1, <3>1, <3>4, <3>5
  <2>5. 1 \in 1..k
    BY <1>1
  <2> QED
    BY <1>1, <2>3, <2>4, <2>5 DEF Covered, Chain, Begun
<1> QED
  BY <1>5, <1>6

\* What stands at the front of a queue is as loose as it was when frames join behind it.
LEMMA LooseExtended ==
  ASSUME NEW p, NEW q, Len(p) \in Nat, Len(q) \in Nat, \A k \in 1..Len(p) : q[k] = p[k],
         NEW e, NEW d, Len(p) > 0 /\ e => d,
         NEW k \in Loose(q, d), k <= Len(p)
  PROVE  k \in Loose(p, e)
<1>1. k \in 1..Len(p) /\ IsBlockEnd(q[k]) /\ ~Covered(q, k, d)
  BY DEF Loose
<1>2. SUFFICES ASSUME Covered(p, k, e) PROVE FALSE
  BY <1>1 DEF Loose
<1>3. PICK m \in 1..k : Chain(p, m, k) /\ Begun(p, m, e)
  BY <1>2 DEF Covered
<1>4. Chain(q, m, k)
  <2>1. ASSUME NEW j \in m..(k - 1) PROVE Follows(q[j], q[j + 1])
    <3>1. j \in 1..Len(p) /\ j + 1 \in 1..Len(p)
      BY <1>1, <1>3
    <3> QED
      BY <1>3, <3>1 DEF Chain
  <2> QED
    BY <2>1 DEF Chain
<1>5. q[m] = p[m] /\ Len(p) > 0
  <2>1. m \in 1..Len(p)
    BY <1>1, <1>3
  <2> QED
    BY <2>1
<1>6. Begun(q, m, d)
  BY <1>3, <1>5 DEF Begun
<1> QED
  BY <1>1, <1>3, <1>4, <1>6 DEF Covered

\* An answer that joins has no loose end: every block end in it has its proof before it.
LEMMA LooseJoined ==
  ASSUME NEW C, NEW p \in Seq(C), NEW a \in Seq(C), NEW e, NEW d, Len(p) > 0 /\ e => d,
         \A k \in 1..Len(a) : IsBlockEnd(a[k]) => Chain(a, 1, k) /\ Opens(a[1])
  PROVE  Loose(p \o a, d) \subseteq Loose(p, e)
<1> DEFINE q == p \o a
           n == Len(p)
<1>1. /\ n \in Nat /\ Len(a) \in Nat /\ Len(q) = n + Len(a)
      /\ \A k \in 1..(n + Len(a)) : q[k] = IF k <= n THEN p[k] ELSE a[k - n]
  BY LenProperties, ConcatProperties
<1> HIDE DEF q, n
<1> SUFFICES ASSUME NEW k \in Loose(q, d) PROVE k \in Loose(p, e)
  BY DEF q
<1>2. k \in 1..(n + Len(a)) /\ IsBlockEnd(q[k]) /\ ~Covered(q, k, d)
  BY <1>1 DEF Loose
<1>3. CASE k <= n
  <2>1. \A j \in 1..n : q[j] = p[j]
    BY <1>1
  <2> QED
    BY <1>1, <1>3, <2>1, LooseExtended DEF n
<1>4. CASE ~(k <= n)
  <2>1. k - n \in 1..Len(a) /\ q[k] = a[k - n]
    BY <1>1, <1>2, <1>4
  <2>2. Chain(a, 1, k - n) /\ Opens(a[1])
    BY <1>2, <2>1
  <2>3. ASSUME NEW j \in (n + 1)..(k - 1) PROVE Follows(q[j], q[j + 1])
    <3>1. j - n \in 1..(k - n - 1) /\ j \in 1..(n + Len(a)) /\ j + 1 \in 1..(n + Len(a))
          /\ ~(j <= n) /\ ~(j + 1 <= n) /\ j + 1 - n = (j - n) + 1
      BY <1>1, <1>2
    <3>2. q[j] = a[j - n] /\ q[j + 1] = a[(j - n) + 1]
      BY <1>1, <3>1
    <3> QED
      BY <2>2, <3>1, <3>2 DEF Chain
  <2>4. n + 1 \in 1..k /\ n + 1 \in 1..(n + Len(a)) /\ ~(n + 1 <= n) /\ n + 1 - n = 1
    BY <1>1, <1>2, <1>4
  <2>5. q[n + 1] = a[1]
    BY <1>1, <2>4
  <2>6. Covered(q, k, d)
    BY <2>2, <2>3, <2>4, <2>5 DEF Covered, Chain, Begun
  <2> QED
    BY <1>2, <2>6
<1> QED
  BY <1>3, <1>4

\* Frames that differ in their cells only.
Alike(f, g) ==
  /\ f.type = g.type /\ f.session = g.session /\ f.index = g.index
  /\ f.off = g.off /\ f.total = g.total /\ Len(f.data) = Len(g.data)

LEMMA AlikeFrames ==
  ASSUME NEW p, NEW q, Len(q) = Len(p), Len(p) \in Nat, \A k \in 1..Len(p) : Alike(p[k], q[k]),
         NEW e, NEW d, e => d
  PROVE  Loose(q, d) \subseteq Loose(p, e) /\ Waking(q) = Waking(p)
<1>1. \A k \in 1..Len(p) : IsBlockEnd(p[k]) <=> IsBlockEnd(q[k])
  BY DEF Alike, IsBlockEnd, IsLast
<1>2. \A k \in 1..Len(p) : Wakes(p[k]) <=> Wakes(q[k])
  BY DEF Alike, Wakes, IsLast
<1>3. ASSUME NEW j \in 1..Len(p), NEW k \in 1..Len(p), Follows(p[j], p[k])
      PROVE  Follows(q[j], q[k])
  BY <1>3 DEF Alike, Follows, IsLast
<1>4. ASSUME NEW k \in 1..Len(p), Covered(p, k, e)
      PROVE  Covered(q, k, d)
  <2>1. PICK m \in 1..k : Chain(p, m, k) /\ Begun(p, m, e)
    BY <1>4 DEF Covered
  <2>2. ASSUME NEW j \in m..(k - 1) PROVE Follows(q[j], q[j + 1])
    <3>1. j \in 1..Len(p) /\ j + 1 \in 1..Len(p)
      BY <2>1
    <3> QED
      BY <1>3, <2>1, <3>1 DEF Chain
  <2>3. Begun(q, m, d)
    <3>1. m \in 1..Len(p)
      BY <2>1
    <3> QED
      BY <2>1, <3>1 DEF Begun, Opens, Alike
  <2> QED
    BY <2>1, <2>2, <2>3 DEF Covered, Chain
<1>5. Waking(q) = Waking(p)
  BY <1>2 DEF Waking
<1>6. Loose(q, d) \subseteq Loose(p, e)
  BY <1>1, <1>4 DEF Loose
<1> QED
  BY <1>5, <1>6

\* A set with one new element at most.
LEMMA OneNew ==
  ASSUME NEW A, IsFiniteSet(A), NEW B, \A j, k \in B \ A : j = k
  PROVE  /\ IsFiniteSet(B) /\ Cardinality(A) \in Nat /\ Cardinality(B) \in Nat
         /\ Cardinality(B) <= Cardinality(A) + 1
<1>1. PICK c : B \subseteq A \cup {c}
  <2>1. CASE B \subseteq A
    BY <2>1
  <2>2. CASE ~(B \subseteq A)
    <3>1. PICK c \in B \ A : TRUE
      BY <2>2
    <3> QED
      BY <3>1
  <2> QED
    BY <2>1, <2>2
<1>2. /\ IsFiniteSet(A \cup {c}) /\ Cardinality(A) \in Nat /\ Cardinality(A \cup {c}) \in Nat
      /\ Cardinality(A \cup {c}) <= Cardinality(A) + 1
  BY OneMore
<1>3. /\ IsFiniteSet(B) /\ Cardinality(B) \in Nat
      /\ Cardinality(B) <= Cardinality(A \cup {c})
  BY <1>1, <1>2, SubsetIsFewer
<1> QED
  BY <1>2, <1>3

LEMMA TailRemoves ==
  ASSUME NEW C, NEW q \in Seq(C), q # <<>>
  PROVE  /\ Removed(q, Tail(q), 1) /\ Len(q) \in Nat \ {0} /\ Head(q) = q[1]
         /\ Len(Tail(q)) \in Nat
<1>1. /\ Head(q) = q[1] /\ Len(q) \in Nat /\ Len(Tail(q)) = Len(q) - 1
      /\ \A k \in 1..Len(Tail(q)) : Tail(q)[k] = q[k + 1]
  BY HeadTailProperties, LenProperties
<1>2. Len(q) # 0
  BY EmptySeq
<1> QED
  BY <1>1, <1>2 DEF Removed, Skip

\* A queue and the frames that join it.
LEMMA JoinedFrames ==
  ASSUME NEW C, NEW p \in Seq(C), NEW a \in Seq(C)
  PROVE  /\ Len(p) \in Nat /\ Len(a) \in Nat /\ Len(p \o a) = Len(p) + Len(a)
         /\ \A k \in 1..(Len(p) + Len(a)) :
              (p \o a)[k] = IF k <= Len(p) THEN p[k] ELSE a[k - Len(p)]
BY LenProperties, ConcatProperties

LEMMA RemoveAtRemoves ==
  ASSUME NEW C, NEW q \in Seq(C), NEW r \in 1..Len(q)
  PROVE  Removed(q, RemoveAt(q, r), r) /\ Len(q) \in Nat
<1>1. Len(q) \in Nat /\ r \in Nat /\ 1 <= r /\ r <= Len(q)
  BY LenProperties
<1> DEFINE a == SubSeq(q, 1, r - 1)
           b == SubSeq(q, r + 1, Len(q))
<1>2. \A j \in 1..(r - 1) : q[j] \in C
  BY <1>1, ElementOfSeq
<1>3. \A j \in (r + 1)..Len(q) : q[j] \in C
  BY <1>1, ElementOfSeq
<1>4. a \in Seq(C) /\ b \in Seq(C)
  BY <1>1, <1>2, <1>3, SubSeqProperties
<1>5. Len(a) = r - 1 /\ \A k \in 1..(r - 1) : a[k] = q[k]
  BY <1>1, SubSeqProperties
<1>6. Len(b) = Len(q) - r /\ \A k \in 1..(Len(q) - r) : b[k] = q[r + k]
  BY <1>1, SubSeqProperties
<1>7. RemoveAt(q, r) = a \o b
  BY DEF RemoveAt
<1> HIDE DEF a, b
<1>8. /\ Len(a \o b) = Len(q) - 1
      /\ \A k \in 1..(Len(q) - 1) : (a \o b)[k] = IF k <= r - 1 THEN a[k] ELSE b[k - (r - 1)]
  <2>1. Len(a) + Len(b) = Len(q) - 1
    BY <1>1, <1>5, <1>6
  <2>2. /\ Len(a \o b) = Len(a) + Len(b)
        /\ \A k \in 1..(Len(a) + Len(b)) :
             (a \o b)[k] = IF k <= Len(a) THEN a[k] ELSE b[k - Len(a)]
    BY <1>4, JoinedFrames
  <2> QED
    BY <1>5, <2>1, <2>2
<1>9. ASSUME NEW k \in 1..(Len(q) - 1) PROVE (a \o b)[k] = q[Skip(r, k)]
  <2>1. CASE k <= r - 1
    BY <1>1, <1>5, <1>8, <2>1 DEF Skip
  <2>2. CASE ~(k <= r - 1)
    <3>1. k - (r - 1) \in 1..(Len(q) - r) /\ r + (k - (r - 1)) = k + 1 /\ ~(k < r)
      BY <1>1, <2>2
    <3> QED
      BY <1>6, <1>8, <2>2, <3>1 DEF Skip
  <2> QED
    BY <2>1, <2>2
<1> QED
  BY <1>1, <1>7, <1>8, <1>9 DEF Removed

LEMMA AppendedFrame ==
  ASSUME NEW C, NEW p \in Seq(C), NEW c \in C
  PROVE  /\ Len(p) \in Nat /\ Len(Append(p, c)) = Len(p) + 1
         /\ \A k \in 1..Len(p) : Append(p, c)[k] = p[k]
BY LenProperties, AppendProperties

\* How many can wake the receiver.
LEMMA WakingIsFinite ==
  ASSUME NEW q, Len(q) \in Nat
  PROVE  IsFiniteSet(Waking(q)) /\ Cardinality(Waking(q)) \in Nat
BY PositionsAreFinite DEF Waking

LEMMA LooseIsFinite ==
  ASSUME NEW q, Len(q) \in Nat, NEW e
  PROVE  IsFiniteSet(Loose(q, e)) /\ Cardinality(Loose(q, e)) \in Nat
BY PositionsAreFinite DEF Loose

LEMMA WakingRemoved ==
  ASSUME NEW p, NEW q, Len(p) \in Nat, NEW r \in 1..Len(p), Removed(p, q, r)
  PROVE  /\ Cardinality(Waking(q)) \in Nat /\ Cardinality(Waking(p)) \in Nat
         /\ Cardinality(Waking(q)) <= Cardinality(Waking(p))
         /\ Wakes(p[r]) => Cardinality(Waking(q)) + 1 <= Cardinality(Waking(p))
<1>1. \A k \in Waking(q) : k \in Nat /\ Skip(r, k) \in Waking(p)
  BY RemovedSkips DEF Waking
<1>2. Wakes(p[r]) => r \in Waking(p)
  BY DEF Waking
<1>3. r \in Nat /\ Waking(q) \subseteq Nat
  BY <1>1
<1> QED
  BY <1>1, <1>2, <1>3, WakingIsFinite, SkippedAreFewer

LEMMA WakingJoined ==
  ASSUME NEW C, NEW p \in Seq(C), NEW a \in Seq(C),
         \A j, k \in 1..Len(a) : Wakes(a[j]) /\ Wakes(a[k]) => j = k
  PROVE  /\ Cardinality(Waking(p \o a)) \in Nat /\ Cardinality(Waking(p)) \in Nat
         /\ Cardinality(Waking(p \o a)) <= Cardinality(Waking(p)) + 1
         /\ a = <<>> => Cardinality(Waking(p \o a)) = Cardinality(Waking(p))
<1>1. Len(p) \in Nat /\ IsFiniteSet(Waking(p)) /\ Cardinality(Waking(p)) \in Nat
  BY JoinedFrames, WakingIsFinite
<1>2. ASSUME NEW j \in Waking(p \o a) \ Waking(p)
      PROVE  j \in Nat /\ j - Len(p) \in 1..Len(a) /\ Wakes(a[j - Len(p)])
  BY JoinedFrames DEF Waking
<1>3. \A j, k \in Waking(p \o a) \ Waking(p) : j = k
  <2> SUFFICES ASSUME NEW j \in Waking(p \o a) \ Waking(p), NEW k \in Waking(p \o a) \ Waking(p)
               PROVE  j = k
    OBVIOUS
  <2>1. j - Len(p) = k - Len(p) /\ j \in Nat /\ k \in Nat
    BY <1>2
  <2> QED
    BY <1>1, <2>1
<1>4. a = <<>> => p \o a = p
  BY ConcatEmptySeq
<1> QED
  BY <1>1, <1>3, <1>4, OneNew

LEMMA WakingRepeated ==
  ASSUME NEW C, NEW p \in Seq(C), NEW c \in C
  PROVE  /\ Cardinality(Waking(Append(p, c))) \in Nat /\ Cardinality(Waking(p)) \in Nat
         /\ Cardinality(Waking(Append(p, c))) <= Cardinality(Waking(p)) + 1
<1>1. Len(p) \in Nat /\ IsFiniteSet(Waking(p))
  BY AppendedFrame, WakingIsFinite
<1>2. \A j \in Waking(Append(p, c)) \ Waking(p) : j = Len(p) + 1
  BY AppendedFrame DEF Waking
<1> QED
  BY <1>1, <1>2, OneNew

LEMMA LooseRepeated ==
  ASSUME NEW C, NEW p \in Seq(C), NEW c \in C, NEW e, NEW d, Len(p) > 0 /\ e => d
  PROVE  /\ Cardinality(Loose(Append(p, c), d)) \in Nat /\ Cardinality(Loose(p, e)) \in Nat
         /\ Cardinality(Loose(Append(p, c), d)) <= Cardinality(Loose(p, e)) + 1
<1> DEFINE q == Append(p, c)
<1>1. Len(p) \in Nat /\ Len(q) \in Nat /\ Len(q) = Len(p) + 1 /\ \A k \in 1..Len(p) : q[k] = p[k]
  BY AppendedFrame
<1> HIDE DEF q
<1>2. \A j \in Loose(q, d) \ Loose(p, e) : j = Len(p) + 1
  <2> SUFFICES ASSUME NEW j \in Loose(q, d), j \notin Loose(p, e) PROVE j = Len(p) + 1
    OBVIOUS
  <2>1. j \in 1..(Len(p) + 1)
    BY <1>1 DEF Loose
  <2>2. ~(j <= Len(p))
    BY <1>1, LooseExtended
  <2> QED
    BY <1>1, <2>1, <2>2
<1>3. IsFiniteSet(Loose(p, e))
  BY <1>1, LooseIsFinite
<1> QED
  BY <1>2, <1>3, OneNew DEF q

\* How many ask the seeder.
Asked(a) == IF \E k \in 1..Len(a) : a[k].type = "Request" THEN 1 ELSE 0

LEMMA RequestsAreFinite ==
  ASSUME NEW q, Len(q) \in Nat
  PROVE  /\ IsFiniteSet({k \in 1..Len(q) : q[k].type = "Request"}) /\ Requests(q) \in Nat
BY PositionsAreFinite DEF Requests

LEMMA RequestsRemoved ==
  ASSUME NEW p, NEW q, Len(p) \in Nat, NEW r \in 1..Len(p), Removed(p, q, r)
  PROVE  /\ Requests(q) \in Nat /\ Requests(p) \in Nat /\ Requests(q) <= Requests(p)
         /\ p[r].type = "Request" => Requests(q) + 1 <= Requests(p)
<1> DEFINE A == {k \in 1..Len(p) : p[k].type = "Request"}
           B == {k \in 1..Len(q) : q[k].type = "Request"}
<1>1. \A k \in B : k \in Nat /\ Skip(r, k) \in A
  BY RemovedSkips
<1>2. p[r].type = "Request" => r \in A
  OBVIOUS
<1>3. r \in Nat /\ B \subseteq Nat /\ IsFiniteSet(A)
  BY <1>1, RequestsAreFinite
<1>4. Requests(p) = Cardinality(A) /\ Requests(q) = Cardinality(B)
  BY DEF Requests
<1> HIDE DEF A, B
<1> QED
  BY <1>1, <1>2, <1>3, <1>4, SkippedAreFewer

LEMMA RequestsJoined ==
  ASSUME NEW C, NEW p \in Seq(C), NEW a \in Seq(C),
         \A j, k \in 1..Len(a) : a[j].type = "Request" /\ a[k].type = "Request" => j = k
  PROVE  /\ Requests(p \o a) \in Nat /\ Requests(p) \in Nat
         /\ Requests(p \o a) <= Requests(p) + Asked(a)
<1> DEFINE A == {k \in 1..Len(p) : p[k].type = "Request"}
           B == {k \in 1..Len(p \o a) : (p \o a)[k].type = "Request"}
<1>1. Len(p) \in Nat /\ IsFiniteSet(A) /\ Cardinality(A) \in Nat
  BY JoinedFrames, RequestsAreFinite DEF Requests
<1>2. ASSUME NEW j \in B \ A
      PROVE  j \in Nat /\ j - Len(p) \in 1..Len(a) /\ a[j - Len(p)].type = "Request"
  BY JoinedFrames
<1>3. Requests(p) = Cardinality(A) /\ Requests(p \o a) = Cardinality(B)
  BY DEF Requests
<1> HIDE DEF A, B
<1>4. \A j, k \in B \ A : j = k
  <2> SUFFICES ASSUME NEW j \in B \ A, NEW k \in B \ A PROVE j = k
    OBVIOUS
  <2>1. j - Len(p) = k - Len(p) /\ j \in Nat /\ k \in Nat
    BY <1>2
  <2> QED
    BY <1>1, <2>1
<1>5. CASE Asked(a) = 1
  BY <1>1, <1>3, <1>4, <1>5, OneNew
<1>6. CASE Asked(a) # 1
  <2>1. B \subseteq A
    BY <1>2, <1>6 DEF Asked
  <2>2. Asked(a) = 0
    BY <1>6 DEF Asked
  <2> QED
    BY <1>1, <1>3, <2>1, <2>2, SubsetIsFewer
<1> QED
  BY <1>5, <1>6

LEMMA RequestsRepeated ==
  ASSUME NEW C, NEW p \in Seq(C), NEW c \in C
  PROVE  /\ Requests(Append(p, c)) \in Nat /\ Requests(p) \in Nat
         /\ Requests(Append(p, c)) <= Requests(p) + 1
<1>1. Len(p) \in Nat /\ IsFiniteSet({k \in 1..Len(p) : p[k].type = "Request"})
  BY AppendedFrame, RequestsAreFinite
<1>2. \A j \in {k \in 1..Len(Append(p, c)) : Append(p, c)[k].type = "Request"}
            \ {k \in 1..Len(p) : p[k].type = "Request"} : j = Len(p) + 1
  BY AppendedFrame
<1> QED
  BY <1>1, <1>2, OneNew DEF Requests

-----------------------------------------------------------------------------
(* The seeder's answer is one chain, from the proof's first fragment to the  *)
(* block's last: none of its block ends is loose, and one frame of it wakes. *)

LEMMA QuotientIsNext ==
  ASSUME NEW n \in Nat, NEW d \in Nat \ {0}
  PROVE  (n \div d) \in Nat /\ (n \div d) * d \in Nat /\ n < (n \div d) * d + d
BY SMT

LEMMA TimesNext ==
  ASSUME NEW k \in Nat \ {0}, NEW n \in Nat, NEW d \in Nat \ {0}
  PROVE  /\ k * d \in Nat /\ (k - 1) * d \in Nat /\ (k - 1) * d = k * d - d /\ n * d \in Nat
         /\ k < n => k * d <= n * d - d
         /\ (k + 1 - 1) * d = k * d
BY SMT

\* The frames of one unit, in order.
Cut(fs, type, index) ==
  /\ Len(fs) \in Nat
  /\ \A k \in 1..Len(fs) :
       /\ fs[k].type = type /\ fs[k].index = index /\ fs[k].session = Session
       /\ k = 1 => fs[k].off = 0
       /\ IsLast(fs[k]) <=> k = Len(fs)
       /\ k # Len(fs) => fs[k + 1].off = fs[k].off + Len(fs[k].data)

\* One fragment begins where the one before ends, and only the last ends the unit.
LEMMA FragmentsFollow ==
  ASSUME NEW type, NEW index, NEW C, NEW unit \in Seq(C)
  PROVE  LET fs == S!Fragments(type, index, unit)
         IN  /\ Cut(fs, type, index)
             /\ unit # <<>> => fs # <<>>
<1> DEFINE L == Len(unit)
           F == FragmentSize
           n == S!CeilDiv(L, F)
           fs == S!Fragments(type, index, unit)
<1>1. L \in Nat /\ F \in Nat \ {0}
  BY LenProperties, FragmentAssumption
<1>2. n \in Nat /\ n * F \in Nat /\ n * F <= L + F - 1 /\ L <= n * F
  <2>1. L + F - 1 \in Nat
    BY <1>1
  <2>2. /\ n \in Nat /\ n * F \in Nat /\ n * F <= L + F - 1 /\ L + F - 1 < n * F + F
    BY <1>1, <2>1, Quotient, QuotientIsNext DEF S!CeilDiv
  <2> HIDE DEF n, L, F
  <2> QED
    BY <1>1, <2>1, <2>2
<1>3. Len(fs) = n
  BY <1>2 DEF S!Fragments
<1>4. ASSUME NEW k \in 1..n
      PROVE  /\ fs[k].type = type /\ fs[k].index = index /\ fs[k].session = Session
             /\ fs[k].total = L /\ fs[k].off = (k - 1) * F
             /\ fs[k].off + Len(fs[k].data) = IF k = n THEN L ELSE k * F
             /\ k # n => k * F < L
  <2> DEFINE off == (k - 1) * F
             to == IF off + F <= L THEN off + F ELSE L
             piece == SubSeq(unit, off + 1, to)
  <2>1. /\ fs[k].type = type /\ fs[k].index = index /\ fs[k].session = Session
        /\ fs[k].total = L /\ fs[k].off = off /\ fs[k].data = piece
    BY DEF S!Fragments, S!MakeFrame, S!Slice
  <2> HIDE DEF fs, n
  <2>2. /\ k * F \in Nat /\ off \in Nat /\ off = k * F - F
        /\ k # n => k * F <= n * F - F
    <3>1. k \in Nat \ {0} /\ n \in Nat /\ (k # n => k < n)
      BY <1>2
    <3> QED
      BY <1>1, <3>1, TimesNext
  <2>3. off + 1 <= L
    <3>1. k \in Nat \ {0} /\ k <= n
      BY <1>2
    <3>2. k * F \in Int /\ k * F <= n * F
      BY <1>1, <1>2, <3>1, Multiples
    <3> HIDE DEF off, L, F
    <3> QED
      BY <1>1, <1>2, <2>2, <3>2
  <2>4. /\ to \in Nat /\ off + 1 <= to /\ to <= L
        /\ to = IF k = n THEN L ELSE k * F
        /\ k # n => k * F < L
    <3> HIDE DEF off, L, F
    <3>1. CASE k = n
      BY <1>1, <1>2, <2>2, <2>3, <3>1
    <3>2. CASE k # n
      BY <1>1, <1>2, <2>2, <2>3, <3>2
    <3> QED
      BY <3>1, <3>2
  <2> HIDE DEF off, to, F
  <2>5. Len(piece) = to - off
    <3>1. \A j \in (off + 1)..to : j \in 1..L
      BY <1>1, <2>2, <2>4
    <3>2. \A j \in (off + 1)..to : unit[j] \in C
      BY <3>1, ElementOfSeq
    <3>3. off + 1 \in Int /\ to \in Int /\ to - (off + 1) + 1 = to - off
      BY <2>2, <2>4
    <3>4. Len(piece) = to - (off + 1) + 1
      BY <2>2, <2>4, <3>2, <3>3, SubSeqProperties
    <3> QED
      BY <3>3, <3>4
  <2>6. off + Len(piece) = to
    BY <2>2, <2>4, <2>5
  <2>7. off = (k - 1) * F
    BY DEF off
  <2> HIDE DEF piece, L
  <2> QED
    BY <2>1, <2>4, <2>6, <2>7
<1> HIDE DEF fs, n
<1>5. ASSUME NEW k \in 1..n
      PROVE  /\ k = 1 => fs[k].off = 0
             /\ IsLast(fs[k]) <=> k = n
             /\ k # n => fs[k + 1].off = fs[k].off + Len(fs[k].data)
  <2>1. k = 1 => fs[k].off = 0
    <3>1. (1 - 1) * F = 0
      BY <1>1
    <3> QED
      BY <1>4, <3>1
  <2>2. CASE k = n
    <3>1. fs[k].off + Len(fs[k].data) = L /\ fs[k].total = L
      BY <1>4, <2>2
    <3> HIDE DEF L
    <3> QED
      BY <1>1, <2>1, <2>2, <3>1 DEF IsLast
  <2>3. CASE k # n
    <3>1. fs[k].off + Len(fs[k].data) = k * F /\ fs[k].total = L /\ k * F < L
      BY <1>4, <2>3
    <3>2. k + 1 \in 1..n
      BY <1>2, <2>3
    <3>3. fs[k + 1].off = (k + 1 - 1) * F
      BY <1>4, <3>2
    <3>4. (k + 1 - 1) * F = k * F /\ k * F \in Nat
      <4>1. k \in Nat \ {0}
        BY <1>2
      <4> QED
        BY <1>1, <1>2, <4>1, TimesNext
    <3> HIDE DEF F, L
    <3> QED
      BY <1>1, <2>1, <2>3, <3>1, <3>3, <3>4 DEF IsLast
  <2> QED
    BY <2>2, <2>3
<1>6. unit # <<>> => fs # <<>>
  <2> SUFFICES ASSUME unit # <<>> PROVE n # 0
    BY <1>3, EmptySeq
  <2>1. L # 0
    BY EmptySeq
  <2>2. 0 * F = 0
    BY <1>1
  <2> HIDE DEF F, L
  <2> QED
    BY <1>1, <1>2, <2>1, <2>2
<1> QED
  BY <1>2, <1>3, <1>4, <1>5, <1>6 DEF fs, Cut

LEMMA ProofFramesAreCut ==
  ASSUME NEW i \in Nat
  PROVE  Cut(S!ProofFrames(i), "Proof", i) /\ Len(S!ProofFrames(i)) # 0
<1>1. CASE S!ProofBytes(i) = <<>>
  <2> DEFINE frame == S!SimpleFrame("Proof", Session, i)
  <2>1. S!ProofFrames(i) = <<frame>>
    BY <1>1 DEF S!ProofFrames
  <2>2. /\ frame.type = "Proof" /\ frame.index = i /\ frame.session = Session
        /\ frame.off = 0 /\ IsLast(frame)
    BY EmptySeq DEF S!SimpleFrame, S!MakeFrame, IsLast
  <2> HIDE DEF frame
  <2>3. Len(<<frame>>) = 1 /\ <<frame>>[1] = frame
    OBVIOUS
  <2> QED
    BY <2>1, <2>2, <2>3 DEF Cut
<1>2. CASE S!ProofBytes(i) # <<>>
  <2>1. S!ProofFrames(i) = S!Fragments("Proof", i, S!ProofBytes(i))
    BY <1>2 DEF S!ProofFrames
  <2>2. Cut(S!ProofFrames(i), "Proof", i) /\ S!ProofFrames(i) # <<>>
    BY <1>2, <2>1, ProofIsSequence, FragmentsFollow
  <2>3. Len(S!ProofFrames(i)) = S!CeilDiv(Len(S!ProofBytes(i)), FragmentSize)
        /\ DOMAIN S!ProofFrames(i) = 1..S!CeilDiv(Len(S!ProofBytes(i)), FragmentSize)
    <3>1. Len(S!ProofBytes(i)) \in Nat
      BY ProofIsSequence, LenProperties
    <3>2. S!CeilDiv(Len(S!ProofBytes(i)), FragmentSize) \in Nat
      BY <3>1, CeilDivIsNat, FragmentAssumption
    <3> QED
      BY <2>1, <3>2 DEF S!Fragments
  <2> QED
    BY <2>2, <2>3
<1> QED
  BY <1>1, <1>2

LEMMA BlockFramesAreCut ==
  ASSUME NEW i \in Index
  PROVE  Cut(S!BlockFrames(i), "Block", i)
<1>1. CASE i >= S!block_count
  BY <1>1, EmptySeq DEF S!BlockFrames, Cut
<1>2. CASE ~(i >= S!block_count)
  <2>1. S!BlockFrames(i) = S!Fragments("Block", i, BlockUnit(i))
    BY <1>2 DEF S!BlockFrames, BlockUnit
  <2> QED
    BY <2>1, BlockIsSequence, FragmentsFollow
<1> QED
  BY <1>1, <1>2

\* An answer to a request for a block is one chain that its proof opens, and only its
\* last frame ends the block.
LEMMA AnswersAreChains ==
  ASSUME NEW i, NEW C, NEW p \in Seq(C), NEW b \in Seq(C),
         Cut(p, "Proof", i), Len(p) # 0, Cut(b, "Block", i)
  PROVE  LET A == p \o b
         IN  /\ \A k \in 1..Len(A) : A[k].type \in {"Proof", "Block"}
             /\ \A k \in 1..Len(A) : IsBlockEnd(A[k]) => Chain(A, 1, k) /\ Opens(A[1])
             /\ \A k \in 1..Len(A) : Wakes(A[k]) => k = Len(A)
<1> DEFINE A == p \o b
           n == Len(p)
           m == Len(b)
<1>1. /\ n \in Nat \ {0} /\ m \in Nat /\ Len(A) = n + m
      /\ \A k \in 1..(n + m) : A[k] = IF k <= n THEN p[k] ELSE b[k - n]
  BY JoinedFrames
<1> HIDE DEF A
<1>2. /\ \A k \in 1..n : /\ p[k].type = "Proof" /\ p[k].index = i /\ p[k].session = Session
                         /\ k = 1 => p[k].off = 0
                         /\ IsLast(p[k]) <=> k = n
                         /\ k # n => p[k + 1].off = p[k].off + Len(p[k].data)
      /\ \A k \in 1..m : /\ b[k].type = "Block" /\ b[k].index = i /\ b[k].session = Session
                         /\ k = 1 => b[k].off = 0
                         /\ IsLast(b[k]) <=> k = m
                         /\ k # m => b[k + 1].off = b[k].off + Len(b[k].data)
  BY DEF Cut
<1> HIDE DEF n, m
<1>3. ASSUME NEW k \in 1..(n + m)
      PROVE  /\ A[k].type \in {"Proof", "Block"}
             /\ Wakes(A[k]) => k = n + m
             /\ IsBlockEnd(A[k]) => k = n + m
  <2>1. CASE k <= n
    <3>1. k \in 1..n /\ A[k] = p[k]
      BY <1>1, <2>1
    <3>2. A[k].type = "Proof"
      BY <1>2, <3>1
    <3> QED
      BY <3>2 DEF Wakes, IsBlockEnd
  <2>2. CASE ~(k <= n)
    <3>1. k - n \in 1..m /\ A[k] = b[k - n] /\ (k - n = m => k = n + m)
      BY <1>1, <2>2
    <3>2. A[k].type = "Block" /\ (IsLast(A[k]) <=> k - n = m)
      BY <1>2, <3>1
    <3> QED
      BY <3>1, <3>2 DEF Wakes, IsBlockEnd
  <2> QED
    BY <2>1, <2>2
<1>4. ASSUME NEW j \in 1..(n + m - 1)
      PROVE  Follows(A[j], A[j + 1])
  <2>0. j \in 1..(n + m) /\ j + 1 \in 1..(n + m)
    BY <1>1
  <2>1. CASE j < n
    <3>1. j \in 1..n /\ j + 1 \in 1..n /\ A[j] = p[j] /\ A[j + 1] = p[j + 1] /\ j # n
      BY <1>1, <2>0, <2>1
    <3> QED
      BY <1>2, <3>1 DEF Follows
  <2>2. CASE j = n
    <3>1. j \in 1..n /\ 1 \in 1..m /\ A[j] = p[j] /\ A[j + 1] = b[1] /\ j = n
      BY <1>1, <2>0, <2>2
    <3> QED
      BY <1>2, <3>1 DEF Follows
  <2>3. CASE j > n
    <3>1. /\ j - n \in 1..m /\ (j - n) + 1 \in 1..m /\ A[j] = b[j - n] /\ A[j + 1] = b[(j - n) + 1]
          /\ j - n # m
      <4>1. j + 1 - n = (j - n) + 1
        BY <1>1
      <4> QED
        BY <1>1, <2>0, <2>3, <4>1
    <3> QED
      BY <1>2, <3>1 DEF Follows
  <2> QED
    BY <1>1, <2>1, <2>2, <2>3
<1>5. Opens(A[1])
  <2>1. 1 \in 1..n /\ A[1] = p[1]
    BY <1>1
  <2> QED
    BY <1>2, <2>1 DEF Opens
<1>6. ASSUME NEW k \in 1..(n + m)
      PROVE  Chain(A, 1, k)
  <2>1. \A j \in 1..(k - 1) : j \in 1..(n + m - 1)
    BY <1>1
  <2> QED
    BY <1>4, <2>1 DEF Chain
<1> QED
  BY <1>1, <1>3, <1>5, <1>6 DEF A

\* What an answer adds to the frames under way.
LEMMA AnswersEnd ==
  ASSUME NEW i \in 0..(S!block_count - 1) \cup {kIndexManifest}
  PROVE  LET A == S!Answer(i)
         IN  /\ \A k \in 1..Len(A) : IsBlockEnd(A[k]) => Chain(A, 1, k) /\ Opens(A[1])
             /\ \A j, k \in 1..Len(A) : Wakes(A[j]) /\ Wakes(A[k]) => j = k
             /\ \A k \in 1..Len(A) : A[k].type = "Manifest" => A[k].total = 2
<1>1. S!kIndexManifest = kIndexManifest
  BY DEF S!kIndexManifest, kIndexManifest
<1>2. CASE i = kIndexManifest
  <2> DEFINE unit == <<Package.manifest, Package.signature>>
             C == {Package.manifest, Package.signature}
             type == "Manifest"
             fs == S!Fragments(type, kIndexManifest, unit)
  <2>1. unit \in Seq(C) /\ Len(unit) = 2
    OBVIOUS
  <2>2. S!Answer(i) = fs
    BY <1>1, <1>2 DEF S!Answer, S!ManifestFrames
  <2>0. type = "Manifest"
    OBVIOUS
  <2> HIDE DEF unit, C, type
  <2>3. Cut(fs, type, kIndexManifest) /\ \A k \in 1..Len(fs) : fs[k].total = 2
    <3>1. Cut(fs, type, kIndexManifest)
      BY <2>1, FragmentsFollow
    <3>2. \A k \in 1..Len(fs) : Carries(fs[k], unit)
      BY <2>1, FragmentsCarry
    <3> QED
      BY <2>1, <3>1, <3>2 DEF Carries
  <2> HIDE DEF fs
  <2>4. \A k \in 1..Len(fs) : fs[k].type = "Manifest" /\ (IsLast(fs[k]) <=> k = Len(fs))
    BY <2>0, <2>3 DEF Cut
  <2>5. \A k \in 1..Len(fs) : ~IsBlockEnd(fs[k]) /\ (Wakes(fs[k]) => k = Len(fs))
    BY <2>4 DEF IsBlockEnd, Wakes
  <2> QED
    BY <2>2, <2>3, <2>5
<1>3. CASE i # kIndexManifest
  <2>1. i \in 0..(S!block_count - 1)
    BY <1>3
  <2>2. i \in Index /\ i \in Nat
    <3> DEFINE n == S!block_count
    <3>1. n \in Nat /\ n < U16 /\ U16 \in Nat /\ i \in 0..(n - 1)
      BY <2>1, BlockCount DEF U16
    <3> HIDE DEF n
    <3>2. i \in 0..(U16 - 1)
      BY <3>1
    <3> QED
      BY <3>2 DEF Index
  <2>3. S!Answer(i) = S!ProofFrames(i) \o S!BlockFrames(i)
    BY <1>1, <1>3 DEF S!Answer
  <2>4. PICK C : S!ProofFrames(i) \in Seq(C) /\ S!BlockFrames(i) \in Seq(C)
    <3> DEFINE C == {S!ProofFrames(i)[k] : k \in DOMAIN S!ProofFrames(i)}
                      \cup {S!BlockFrames(i)[k] : k \in DOMAIN S!BlockFrames(i)}
    <3>1. S!ProofFrames(i) \in Seq(C)
      <4>1. CASE S!ProofBytes(i) = <<>>
        BY <4>1 DEF S!ProofFrames
      <4>2. CASE S!ProofBytes(i) # <<>>
        <5>1. S!ProofFrames(i) = S!Fragments("Proof", i, S!ProofBytes(i))
          BY <4>2 DEF S!ProofFrames
        <5>2. Len(S!ProofBytes(i)) \in Nat
          BY <2>2, ProofIsSequence, LenProperties
        <5> QED
          BY <5>1, <5>2, FragmentsAre, FunctionIsSequence
      <4> QED
        BY <4>1, <4>2
    <3>2. S!BlockFrames(i) \in Seq(C)
      <4>1. CASE i >= S!block_count
        BY <4>1, EmptySeq DEF S!BlockFrames
      <4>2. CASE ~(i >= S!block_count)
        <5>1. S!BlockFrames(i) = S!Fragments("Block", i, BlockUnit(i))
          BY <4>2 DEF S!BlockFrames, BlockUnit
        <5>2. Len(BlockUnit(i)) \in Nat
          BY <2>2, BlockIsSequence, LenProperties
        <5> QED
          BY <5>1, <5>2, FragmentsAre, FunctionIsSequence
      <4> QED
        BY <4>1, <4>2
    <3> QED
      BY <3>1, <3>2
  <2>5. /\ Cut(S!ProofFrames(i), "Proof", i) /\ Len(S!ProofFrames(i)) # 0
        /\ Cut(S!BlockFrames(i), "Block", i)
    BY <2>2, ProofFramesAreCut, BlockFramesAreCut
  <2>6. /\ \A k \in 1..Len(S!Answer(i)) : S!Answer(i)[k].type \in {"Proof", "Block"}
        /\ \A k \in 1..Len(S!Answer(i)) :
             IsBlockEnd(S!Answer(i)[k]) => Chain(S!Answer(i), 1, k) /\ Opens(S!Answer(i)[1])
        /\ \A k \in 1..Len(S!Answer(i)) : Wakes(S!Answer(i)[k]) => k = Len(S!Answer(i))
    BY <2>3, <2>4, <2>5, AnswersAreChains
  <2> QED
    BY <2>6
<1> QED
  BY <1>2, <1>3

-----------------------------------------------------------------------------
(* A frame at the receiver: what it waited for decides whether the frame     *)
(* ends a unit, makes it ask, and leaves the next of the answer expected.    *)

\* Both fragments of a manifest unit, and the buffer for them, know that it is two cells.
ManifestTotals ==
  /\ manifest_re.active => manifest_re.total = 2
  /\ \A k \in 1..Len(toTarget) : toTarget[k].type = "Manifest" => toTarget[k].total = 2

\* A fragment that fits ends the unit exactly when it is the last of it.
LEMMA FeedEnds ==
  ASSUME NEW C, NEW re \in Reassembler(C), NEW f, f.data \in Seq(C), f.off \in Nat,
         re.active => re.total = f.total
  PROVE  /\ Completes(re, f) => Fits(re, f) /\ IsLast(f)
         /\ Fits(re, f) => /\ Fed(re, f).active /\ Len(Fed(re, f).data) = f.off + Len(f.data)
                           /\ IsLast(f) => Completes(re, f)
         /\ Fed(re, f).total = re.total /\ Fed(re, f).active = re.active
<1>1. /\ re \in [total : 0..MaxUnit, data : Seq(C), active : BOOLEAN]
      /\ re.data \in Seq(C)
  BY DEF Reassembler
<1>2. CASE ~Fits(re, f)
  BY <1>2 DEF Fed, Completes
<1>3. CASE Fits(re, f)
  <2>1. /\ Fed(re, f).total = re.total /\ Fed(re, f).active = re.active
        /\ Fed(re, f).data = re.data \o f.data
    BY <1>1, <1>3 DEF Fed
  <2>2. Len(re.data \o f.data) = Len(re.data) + Len(f.data)
    BY <1>1, ConcatProperties
  <2>3. re.active /\ f.off = Len(re.data) /\ re.total = f.total
    BY <1>3 DEF Fits
  <2>4. Completes(re, f) <=> f.off + Len(f.data) >= f.total
    BY <1>3, <2>1, <2>2, <2>3 DEF Completes
  <2> QED
    BY <1>3, <2>1, <2>2, <2>3, <2>4 DEF IsLast
<1> QED
  BY <1>2, <1>3

LEMMA BlockEnds ==
  ASSUME IInv, UnitsHeld, NEW f \in Served, f.type = "Block", Completes(BlockBuffer(f), f)
  PROVE  IsLast(f)
<1>1. /\ f.index \in Index /\ f.off \in Nat /\ f.total \in 0..MaxUnit
      /\ f.data \in Seq(BlockCells) /\ Carries(f, BlockUnit(f.index))
  BY ServedAreFrames, FrameFields DEF Served
<1>2. BlockBuffer(f) \in Reassembler(BlockCells)
  BY <1>1, NewReassembler, UnitFields DEF BlockBuffer
<1>3. BlockBuffer(f).active => BlockBuffer(f).total = f.total
  <2>1. Reset(f.total).total = f.total
    BY DEF Reset
  <2> QED
    BY <1>1, <2>1 DEF BlockBuffer, UnitsHeld, Filling, Carries
<1> QED
  BY <1>1, <1>2, <1>3, FeedEnds

LEMMA ProofEnds ==
  ASSUME IInv, UnitsHeld, NEW f \in Served, f.type = "Proof"
  PROVE  LET re == ProofBuffer(f)
         IN  /\ Completes(re, f) => IsLast(f)
             /\ \/ f.off = 0
                \/ proof_re.active /\ proof_in_flight = f.index /\ Len(proof_re.data) = f.off
                => /\ Fed(re, f).active /\ Len(Fed(re, f).data) = f.off + Len(f.data)
                   /\ IsLast(f) => Completes(re, f)
<1>1. /\ f.index \in Index /\ f.off \in Nat /\ f.total \in 0..MaxUnit
      /\ f.data \in Seq(ProofCells) /\ Carries(f, S!ProofBytes(f.index))
  BY ServedAreFrames, FrameFields DEF Served
<1>2. ProofBuffer(f) \in Reassembler(ProofCells)
  BY <1>1, NewReassembler, UnitFields DEF ProofBuffer
<1>3. /\ Reset(f.total).total = f.total /\ Reset(f.total).data = <<>>
      /\ Reset(f.total).active = TRUE
  BY DEF Reset
<1>4. ProofBuffer(f).active => ProofBuffer(f).total = f.total
  BY <1>1, <1>3 DEF ProofBuffer, UnitsHeld, Filling, Carries
<1>5. ASSUME \/ f.off = 0
             \/ proof_re.active /\ proof_in_flight = f.index /\ Len(proof_re.data) = f.off
      PROVE  Fits(ProofBuffer(f), f)
  <2>1. ProofBuffer(f).active /\ Len(ProofBuffer(f).data) = f.off
    BY <1>3, <1>5, EmptySeq DEF ProofBuffer
  <2>2. f.off + Len(f.data) <= f.total
    BY <1>1 DEF Carries
  <2> QED
    BY <1>4, <2>1, <2>2 DEF Fits
<1> QED
  BY <1>1, <1>2, <1>4, <1>5, FeedEnds

LEMMA ManifestEnds ==
  ASSUME IInv, manifest_re.active => manifest_re.total = 2,
         NEW f \in Served, f.type = "Manifest", f.total = 2
  PROVE  /\ Completes(ManifestBuffer(f), f) => IsLast(f)
         /\ LET re == Fed(ManifestBuffer(f), f)
            IN  /\ re.active => re.total = 2
                /\ re \in Reassembler(ManifestCells)
<1>1. f.off \in Nat /\ f.total \in 0..MaxUnit /\ f.data \in Seq(ManifestCells)
  BY ServedAreFrames, FrameFields
<1>2. ManifestBuffer(f) \in Reassembler(ManifestCells)
  BY <1>1, NewReassembler DEF ManifestBuffer, IInv, TypeOK
<1>3. ManifestBuffer(f).active => ManifestBuffer(f).total = 2
  BY DEF ManifestBuffer, Reset
<1>4. Fed(ManifestBuffer(f), f) \in Reassembler(ManifestCells)
  BY <1>1, <1>2, FedReassembler
<1> QED
  BY <1>1, <1>2, <1>3, <1>4, FeedEnds

-----------------------------------------------------------------------------
(* What a handler asks: one request at most, and only where it ran out of    *)
(* halves.                                                                   *)

\* What request_next adds is one request at most.
AsksOnce == \A j, k \in 1..Len(out') : out'[j].type = "Request" /\ out'[k].type = "Request" => j = k

LEMMA RequestNextAsksOnce ==
  ASSUME NEW i, request_next(<<>>) \/ request_next(<<send_simple("Ack", i)>>)
  PROVE  AsksOnce
<1>1. send_simple("Ack", i).type = "Ack"
  BY DEF send_simple, SimpleFrame, MakeFrame
<1>2. CASE request_next(<<>>)
  <2>1. PICK r : out' = Append(<<>>, r)
    BY <1>2 DEF request_next
  <2>2. Len(Append(<<>>, r)) = 1
    BY SMT
  <2> QED
    BY <2>1, <2>2 DEF AsksOnce
<1>3. CASE request_next(<<send_simple("Ack", i)>>)
  <2>1. PICK r : out' = Append(<<send_simple("Ack", i)>>, r)
    BY <1>3 DEF request_next
  <2>2. Len(out') = 2 /\ out'[1] = send_simple("Ack", i)
    BY <2>1, TwoFrames
  <2> QED
    BY <1>1, <2>2 DEF AsksOnce
<1> QED
  BY <1>2, <1>3

LEMMA SilenceAsks ==
  ASSUME out' = <<>>
  PROVE  AsksOnce /\ Asked(out') = 0
BY DEF AsksOnce, Asked

LEMMA TryFinishDoes ==
  ASSUME NEW i, NEW blocks, NEW pfs, TryFinishBlock(i, blocks, pfs)
  PROVE  \/ /\ i \notin DOMAIN blocks \cap DOMAIN pfs
            /\ ready_blocks' = blocks /\ proofs' = pfs /\ out' = <<>>
         \/ /\ i \in DOMAIN blocks \cap DOMAIN pfs
            /\ DOMAIN ready_blocks' = DOMAIN blocks \ {i} /\ AsksOnce
BY RequestNextAsksOnce DEF TryFinishBlock, Silent, Without

\* What a frame does to what waits and to what is asked for.
Waits(f) ==
  \/ out' = <<>> /\ UNCHANGED ready_blocks
  \/ Wakes(f) /\ ~IsBlockEnd(f) /\ AsksOnce /\ UNCHANGED ready_blocks
  \/ /\ IsBlockEnd(f) /\ ~Expects(f) /\ out' = <<>>
     /\ DOMAIN ready_blocks' = DOMAIN ready_blocks \cup {f.index}
  \/ IsBlockEnd(f) /\ AsksOnce /\ DOMAIN ready_blocks' = DOMAIN ready_blocks \ {f.index}
  \/ /\ f.index \in DOMAIN ready_blocks /\ AsksOnce
     /\ DOMAIN ready_blocks' = DOMAIN ready_blocks \ {f.index}

LEMMA FrameWaits ==
  ASSUME IInv, UnitsHeld, manifest_re.active => manifest_re.total = 2,
         NEW f \in Served, OnFrame(f), f.type = "Manifest" => f.total = 2
  PROVE  Waits(f)
<1>1. CASE NotForUs(f) \/ Unwanted(f) \/ LateManifest(f)
  BY <1>1 DEF NotForUs, Unwanted, LateManifest, Ignore, Waits
<1>2. CASE HandleAbort(f) \/ ManifestFragment(f) \/ RefuseManifest(f)
  BY <1>2 DEF HandleAbort, ManifestFragment, RefuseManifest, Silent, Waits
<1>3. CASE HandleStart(f)
  BY <1>3, RequestNextAsksOnce DEF HandleStart, Hears, Waits, Wakes, IsBlockEnd
<1>4. CASE TakeManifest(f)
  <2>1. f.type = "Manifest" /\ Completes(ManifestBuffer(f), f) /\ UNCHANGED ready_blocks
        /\ request_next(<<>>)
    BY <1>4 DEF TakeManifest, WantsManifest, Hears
  <2> QED
    BY <2>1, ManifestEnds, RequestNextAsksOnce DEF Waits, Wakes, IsBlockEnd
<1>5. CASE HandleBlock(f)
  <2>1. f.type = "Block" /\ ~aborted /\ ~complete /\ manifest_ready /\ ~has_block(f.index)
    BY <1>5 DEF HandleBlock, Hears
  <2>2. CASE UNCHANGED ready_blocks /\ out' = <<>>
    BY <2>2 DEF Waits
  <2>3. ASSUME NEW b, Completes(BlockBuffer(f), f),
               TryFinishBlock(f.index, With(ready_blocks, f.index, b), proofs)
        PROVE  Waits(f)
    <3>1. IsBlockEnd(f)
      BY <2>1, <2>3, BlockEnds DEF IsBlockEnd
    <3> DEFINE blocks == With(ready_blocks, f.index, b)
    <3>2. DOMAIN blocks = DOMAIN ready_blocks \cup {f.index}
      BY DEF With
    <3> HIDE DEF blocks
    <3>3. \/ /\ f.index \notin DOMAIN proofs
             /\ DOMAIN ready_blocks' = DOMAIN ready_blocks \cup {f.index} /\ out' = <<>>
          \/ DOMAIN ready_blocks' = DOMAIN ready_blocks \ {f.index} /\ AsksOnce
      <4>1. TryFinishBlock(f.index, blocks, proofs)
        BY <2>3 DEF blocks
      <4>2. \/ /\ f.index \notin DOMAIN blocks \cap DOMAIN proofs
               /\ ready_blocks' = blocks /\ out' = <<>>
            \/ DOMAIN ready_blocks' = DOMAIN blocks \ {f.index} /\ AsksOnce
        BY <4>1, TryFinishDoes
      <4>3. DOMAIN blocks \ {f.index} = DOMAIN ready_blocks \ {f.index}
        BY <3>2
      <4> QED
        BY <3>2, <4>2, <4>3
    <3>4. f.index \notin DOMAIN proofs => ~Expects(f)
      BY <2>1 DEF Expects, Deaf
    <3> QED
      BY <3>1, <3>3, <3>4 DEF Waits
  <2> QED
    BY <1>5, <2>2, <2>3 DEF HandleBlock, Silent
<1>6. CASE EmptyProof(f) \/ HandleProof(f)
  <2>1. CASE UNCHANGED ready_blocks /\ out' = <<>>
    BY <2>1 DEF Waits
  <2>2. ASSUME NEW p, TryFinishBlock(f.index, ready_blocks, With(proofs, f.index, p))
        PROVE  Waits(f)
    BY <2>2, TryFinishDoes DEF Waits
  <2> QED
    BY <1>6, <2>1, <2>2 DEF EmptyProof, HandleProof, Silent
<1> QED
  BY <1>1, <1>2, <1>3, <1>4, <1>5, <1>6 DEF OnFrame, HandleManifest

LEMMA MultiplesDivide ==
  ASSUME NEW n \in Nat, NEW d \in Nat \ {0}
  PROVE  (n * d) % d = 0
BY SMT

\* A proof unit is whole digests.
LEMMA ProofUnitsDivide ==
  ASSUME NEW i \in Nat
  PROVE  Len(S!ProofBytes(i)) % HashLen = 0
<1> DEFINE n == Len(S!merkle_proof(S!leaves, i))
<1>1. n \in Nat
  BY LeavesAreDigests, ProofIsDigests, SameMerkle DEF Digests
<1>2. n * HashLen \in Nat
  BY <1>1, HashLenAssumption
<1>3. Len(S!ProofBytes(i)) = n * HashLen
  BY <1>2 DEF S!ProofBytes
<1> HIDE DEF n
<1> QED
  BY <1>1, <1>3, HashLenAssumption, MultiplesDivide

\* When a frame is expected, so is the next of its answer; if not, a block that waited
\* is finished.
Finishes(i) == i \in DOMAIN ready_blocks /\ DOMAIN ready_blocks' = DOMAIN ready_blocks \ {i}

LEMMA WholeProofExpects ==
  ASSUME NEW i, NEW p, TryFinishBlock(i, ready_blocks, With(proofs, i, p))
  PROVE  i \in DOMAIN proofs' \/ Finishes(i)
<1> DEFINE pfs == With(proofs, i, p)
<1>1. i \in DOMAIN pfs
  BY DEF With
<1> HIDE DEF pfs
<1>2. \/ proofs' = pfs
      \/ i \in DOMAIN ready_blocks \cap DOMAIN pfs /\ DOMAIN ready_blocks' = DOMAIN ready_blocks \ {i}
  <2>1. TryFinishBlock(i, ready_blocks, pfs)
    BY DEF pfs
  <2> QED
    BY <2>1, TryFinishDoes
<1> QED
  BY <1>1, <1>2 DEF Finishes

LEMMA FrameExpects ==
  ASSUME IInv, UnitsHeld, NEW f \in Served, OnFrame(f), NEW g, Follows(f, g),
         Opens(f) \/ Expects(f)
  PROVE  Expects(g)' \/ Finishes(f.index)
<1>1. /\ f.session = Session /\ f.index = g.index /\ f.type \in {"Proof", "Block"}
      /\ IF f.type = g.type THEN ~IsLast(f) /\ g.off = f.off + Len(f.data)
                            ELSE f.type = "Proof" /\ IsLast(f) /\ g.type = "Block"
  BY DEF Follows
<1>2. CASE NotForUs(f)
  <2>1. aborted \/ complete
    BY <1>1, <1>2 DEF NotForUs
  <2>2. aborted' \/ complete'
    BY <1>2, <2>1 DEF NotForUs, Ignore
  <2> QED
    BY <2>2 DEF Expects, Deaf
<1>3. CASE Unwanted(f)
  <2>1. ~manifest_ready' \/ g.index \in DOMAIN store'
    BY <1>1, <1>3 DEF Unwanted, Ignore, manifestVars, has_block
  <2> QED
    BY <2>1 DEF Expects, Deaf, has_block
<1>4. CASE HandleBlock(f)
  <2>1. /\ f.type = "Block" /\ ~aborted /\ ~complete /\ manifest_ready /\ ~has_block(f.index)
        /\ Completes(BlockBuffer(f), f) \/ UNCHANGED proofs
    BY <1>4 DEF HandleBlock, Hears
  <2>2. f.index \in DOMAIN proofs /\ g.type = "Block" /\ ~IsLast(f)
    BY <1>1, <2>1 DEF Opens, Expects, Deaf
  <2>3. UNCHANGED proofs
    BY <2>1, <2>2, BlockEnds
  <2> QED
    BY <1>1, <2>2, <2>3 DEF Expects
<1>5. ASSUME f.type = "Proof", IsLast(f), NEW p,
             TryFinishBlock(f.index, ready_blocks, With(proofs, f.index, p))
      PROVE  Expects(g)' \/ Finishes(f.index)
  <2>1. g.type = "Block"
    BY <1>1, <1>5
  <2>2. f.index \in DOMAIN proofs' \/ Finishes(f.index)
    BY <1>5, WholeProofExpects
  <2> QED
    BY <1>1, <2>1, <2>2 DEF Expects
<1>6. CASE EmptyProof(f)
  <2>1. f.type = "Proof" /\ f.total = 0
    BY <1>6 DEF EmptyProof, Hears
  <2>2. f.off \in Nat /\ Len(f.data) \in Nat
    BY <2>1, ServedAreFrames, FrameFields, LenProperties
  <2> QED
    BY <1>5, <1>6, <2>1, <2>2 DEF EmptyProof, IsLast
<1>7. CASE HandleProof(f)
  <2> DEFINE re == Fed(ProofBuffer(f), f)
             whole == Completes(ProofBuffer(f), f)
  <2>1. /\ f.type = "Proof" /\ ~aborted /\ ~complete /\ manifest_ready /\ ~has_block(f.index)
        /\ proof_in_flight' = f.index
        /\ \/ ~whole /\ proof_re' = re
           \/ whole /\ Len(re.data) % HashLen # 0
           \/ whole /\ TryFinishBlock(f.index, ready_blocks,
                                      With(proofs, f.index, SplitProof(re.data)))
    BY <1>7 DEF HandleProof, Hears
  <2>2. \/ f.off = 0
        \/ proof_re.active /\ proof_in_flight = f.index /\ Len(proof_re.data) = f.off
    BY <2>1 DEF Opens, Expects, Deaf
  <2>3. /\ whole <=> IsLast(f)
        /\ re.active /\ Len(re.data) = f.off + Len(f.data)
    BY <2>1, <2>2, ProofEnds
  <2> HIDE DEF re, whole
  <2>4. CASE ~IsLast(f)
    <3>1. g.type = "Proof" /\ g.off = f.off + Len(f.data) /\ proof_re' = re
      BY <1>1, <2>1, <2>3, <2>4
    <3> QED
      BY <1>1, <2>1, <2>3, <3>1 DEF Expects
  <2>5. CASE IsLast(f)
    <3>1. Carries(f, S!ProofBytes(f.index)) /\ f.index \in Nat
      BY <2>1, ServedAreFrames, FrameFields, IndexIsNat DEF Served
    <3>2. Len(re.data) = Len(S!ProofBytes(f.index))
      <4>1. f.off \in Nat /\ Len(f.data) \in Nat /\ Len(S!ProofBytes(f.index)) \in Nat
        BY <2>1, <3>1, ServedAreFrames, FrameFields, LenProperties, ProofIsSequence
      <4> QED
        BY <2>3, <2>5, <3>1, <4>1 DEF Carries, IsLast
    <3>3. Len(re.data) % HashLen = 0
      BY <3>1, <3>2, ProofUnitsDivide
    <3> QED
      BY <1>5, <2>1, <2>3, <2>5, <3>3
  <2> QED
    BY <2>4, <2>5
<1>8. f.type \in {"Proof", "Block"} => ~(HandleAbort(f) \/ HandleStart(f) \/ HandleManifest(f))
  BY DEF HandleAbort, HandleStart, HandleManifest, ManifestFragment, RefuseManifest,
         TakeManifest, LateManifest, WantsManifest, Hears
<1> QED
  BY <1>1, <1>2, <1>3, <1>4, <1>6, <1>7, <1>8 DEF OnFrame

-----------------------------------------------------------------------------
(* The inductive invariant, and what one frame does to its counts.           *)

\* Faults have paid for the loose block ends and for the blocks that wait for a proof; the
\* first request, the faults and the polls for all that asks or will make the receiver ask.
Paid(q, e, blocks, n) == Cardinality(Loose(q, e)) + Cardinality(DOMAIN blocks) <= n
AskedFor(calls, q, blocks, n) ==
  Requests(calls) + Cardinality(Waking(q)) + Cardinality(DOMAIN blocks) <= 1 + n

AskingInv ==
  /\ ManifestTotals
  /\ faults \in Nat /\ nudges \in Nat
  /\ Paid(toTarget, Expects(toTarget[1]), ready_blocks, faults)
  /\ AskedFor(toSeeder, toTarget, ready_blocks, faults + nudges)

LEMMA NextAsking ==
  ASSUME ManifestTotals', faults' \in Nat, nudges' \in Nat,
         Paid(toTarget', Expects(toTarget[1])', ready_blocks', faults'),
         AskedFor(toSeeder', toTarget', ready_blocks', faults' + nudges')
  PROVE  AskingInv'
BY DEF AskingInv

LEMMA PrimedExpects ==
  ASSUME NEW g, g = toTarget'[1]
  PROVE  Expects(toTarget[1])' = Expects(g)'
BY DEF Expects, Deaf, has_block

\* The blocks that wait are finitely many.
LEMMA ReadyIsFinite ==
  ASSUME IInv
  PROVE  IsFiniteSet(DOMAIN ready_blocks) /\ Cardinality(DOMAIN ready_blocks) \in Nat
<1>1. DOMAIN ready_blocks \subseteq 0..(U16 - 1)
  BY UnitFields DEF Index
<1>2. 0 \in Int /\ U16 - 1 \in Int
  BY DEF U16
<1>3. IsFiniteSet(0..(U16 - 1))
  BY <1>2, FS_Interval
<1> QED
  BY <1>1, <1>3, FS_Subset, FS_CardinalityType

\* What a frame adds to the blocks that wait and to the requests.
LEMMA FrameCounts ==
  ASSUME NEW f, Waits(f), NEW R, R = DOMAIN ready_blocks, IsFiniteSet(R),
         NEW Q, Q = DOMAIN ready_blocks'
  PROVE  /\ AsksOnce /\ Cardinality(Q) \in Nat /\ Cardinality(R) \in Nat
         /\ Asked(out') + Cardinality(Q) <= Cardinality(R) + (IF Wakes(f) THEN 1 ELSE 0)
         /\ Cardinality(Q)
              <= Cardinality(R) + (IF IsBlockEnd(f) /\ ~Expects(f) THEN 1 ELSE 0)
         /\ Finishes(f.index) => Cardinality(Q) + 1 = Cardinality(R)
<1> DEFINE i == f.index
<1>1. /\ Cardinality(R) \in Nat
      /\ IsFiniteSet(R \cup {i}) /\ Cardinality(R \cup {i}) \in Nat
      /\ Cardinality(R \cup {i}) <= Cardinality(R) + 1
  BY OneMore, FS_CardinalityType
<1>2. /\ IsFiniteSet(R \ {i}) /\ Cardinality(R \ {i}) \in Nat
      /\ Cardinality(R \ {i}) = IF i \in R THEN Cardinality(R) - 1 ELSE Cardinality(R)
  BY FS_RemoveElement, FS_CardinalityType
<1>3. Finishes(i) => Q = R \ {i} /\ i \in R
  BY DEF Finishes
<1>4. Asked(out') \in {0, 1}
  BY DEF Asked
<1>5. IsBlockEnd(f) => Wakes(f)
  BY DEF IsBlockEnd, Wakes
<1>6. CASE out' = <<>> /\ UNCHANGED ready_blocks
  <2>1. Q = R /\ AsksOnce /\ Asked(out') = 0
    BY <1>6, SilenceAsks
  <2> QED
    BY <1>1, <1>2, <1>3, <2>1
<1>7. CASE Wakes(f) /\ ~IsBlockEnd(f) /\ AsksOnce /\ UNCHANGED ready_blocks
  <2>1. Q = R
    BY <1>7
  <2> QED
    BY <1>1, <1>2, <1>3, <1>4, <1>7, <2>1
<1>8. CASE /\ IsBlockEnd(f) /\ ~Expects(f) /\ out' = <<>>
           /\ DOMAIN ready_blocks' = DOMAIN ready_blocks \cup {f.index}
  <2>1. Q = R \cup {i} /\ AsksOnce /\ Asked(out') = 0
    BY <1>8, SilenceAsks
  <2> QED
    BY <1>1, <1>2, <1>3, <1>5, <1>8, <2>1
<1>9. CASE IsBlockEnd(f) /\ AsksOnce /\ DOMAIN ready_blocks' = DOMAIN ready_blocks \ {f.index}
  <2>1. Q = R \ {i} /\ Cardinality(Q) <= Cardinality(R)
    BY <1>1, <1>2, <1>9
  <2> QED
    BY <1>1, <1>2, <1>3, <1>4, <1>5, <1>9, <2>1
<1>10. CASE /\ f.index \in DOMAIN ready_blocks /\ AsksOnce
            /\ DOMAIN ready_blocks' = DOMAIN ready_blocks \ {f.index}
  <2>1. Q = R \ {i} /\ i \in R /\ Cardinality(Q) = Cardinality(R) - 1
    BY <1>1, <1>2, <1>10
  <2> QED
    BY <1>1, <1>2, <1>3, <1>4, <1>10, <2>1
<1> QED
  BY <1>6, <1>7, <1>8, <1>9, <1>10 DEF Waits

\* Removing a frame loosens one end at most, whatever else becomes expected.
LEMMA LooseLost ==
  ASSUME NEW p, NEW q, Len(p) \in Nat, NEW r \in 1..Len(p), Removed(p, q, r),
         NEW e, NEW d, (r # 1 /\ e) => d
  PROVE  /\ Cardinality(Loose(q, d)) \in Nat /\ Cardinality(Loose(p, e)) \in Nat
         /\ Cardinality(Loose(q, d)) <= Cardinality(Loose(p, e)) + 1
<1>1. PICK c : \A k \in Loose(q, d) : Skip(r, k) \in Loose(p, e) \cup {c}
  BY LooseRemoved
<1>2. /\ IsFiniteSet(Loose(p, e) \cup {c}) /\ Cardinality(Loose(p, e)) \in Nat
      /\ Cardinality(Loose(p, e) \cup {c}) <= Cardinality(Loose(p, e)) + 1
  BY LooseIsFinite, OneMore
<1>3. Loose(q, d) \subseteq Nat
  <2>1. Len(q) \in Nat
    BY DEF Removed
  <2> QED
    BY <2>1 DEF Loose
<1>4. /\ Cardinality(Loose(q, d)) \in Nat /\ Cardinality(Loose(p, e) \cup {c}) \in Nat
      /\ Cardinality(Loose(q, d)) <= Cardinality(Loose(p, e) \cup {c})
  BY <1>1, <1>2, <1>3, SkippedAreFewer
<1> QED
  BY <1>2, <1>4

\* Taking the first frame takes its loose end, when what comes next is expected.
LEMMA LooseTaken ==
  ASSUME NEW p, NEW q, Len(p) \in Nat \ {0}, Removed(p, q, 1), NEW e, NEW d,
         Len(p) > 1 /\ Follows(p[1], p[2]) /\ Begun(p, 1, e) => d
  PROVE  /\ Cardinality(Loose(q, d)) \in Nat /\ Cardinality(Loose(p, e)) \in Nat
         /\ Cardinality(Loose(q, d)) <= Cardinality(Loose(p, e))
         /\ IsBlockEnd(p[1]) /\ ~e => Cardinality(Loose(q, d)) + 1 <= Cardinality(Loose(p, e))
<1>1. \A k \in Loose(q, d) : Skip(1, k) \in Loose(p, e)
  BY LooseKept
<1>2. IsFiniteSet(Loose(p, e))
  BY LooseIsFinite
<1>3. Loose(q, d) \subseteq Nat
  <2>1. Len(q) \in Nat
    BY DEF Removed
  <2> QED
    BY <2>1 DEF Loose
<1>4. IsBlockEnd(p[1]) /\ ~e => 1 \in Loose(p, e)
  <2> SUFFICES ASSUME IsBlockEnd(p[1]), ~e PROVE 1 \in Loose(p, e)
    OBVIOUS
  <2>1. ~Opens(p[1])
    BY DEF IsBlockEnd, Opens
  <2>2. \A m \in 1..1 : ~Begun(p, m, e)
    BY <2>1 DEF Begun
  <2>3. ~Covered(p, 1, e)
    BY <2>2 DEF Covered
  <2> QED
    BY <2>3 DEF Loose
<1> QED
  BY <1>1, <1>2, <1>3, <1>4, SkippedAreFewer

\* What is expected when nothing is taken stays so.
LEMMA LooseStays ==
  ASSUME NEW q, Len(q) \in Nat, NEW e, NEW d, Len(q) > 0 /\ e => d
  PROVE  /\ Cardinality(Loose(q, d)) \in Nat /\ Cardinality(Loose(q, e)) \in Nat
         /\ Cardinality(Loose(q, d)) <= Cardinality(Loose(q, e))
<1>1. ASSUME NEW k \in Loose(q, d) PROVE k \in Loose(q, e)
  <2>1. k <= Len(q)
    BY DEF Loose
  <2> QED
    BY <2>1, LooseExtended
<1>2. Loose(q, d) \subseteq Loose(q, e) /\ IsFiniteSet(Loose(q, e))
  BY <1>1, LooseIsFinite
<1> QED
  BY <1>2, SubsetIsFewer

-----------------------------------------------------------------------------
(* Every step keeps it: the receiver's, the seeder's and the radio's.        *)

\* The counts of a session, before a step.
LEMMA AskingCounts ==
  ASSUME SessionInv, AskingInv
  PROVE  /\ Len(toTarget) \in Nat /\ Len(toSeeder) \in Nat
         /\ faults \in Nat /\ nudges \in Nat
         /\ Requests(toSeeder) \in Nat /\ Cardinality(Waking(toTarget)) \in Nat
         /\ Cardinality(Loose(toTarget, Expects(toTarget[1]))) \in Nat
         /\ IsFiniteSet(DOMAIN ready_blocks) /\ Cardinality(DOMAIN ready_blocks) \in Nat
<1>1. toTarget \in Seq(Served) /\ toSeeder \in Seq(Calls)
  BY DEF SessionInv
<1>2. Len(toTarget) \in Nat /\ Len(toSeeder) \in Nat
  BY <1>1, LenProperties
<1>3. Requests(toSeeder) \in Nat /\ Cardinality(Waking(toTarget)) \in Nat
  BY <1>2, RequestsAreFinite, WakingIsFinite
<1>4. Cardinality(Loose(toTarget, Expects(toTarget[1]))) \in Nat
  BY <1>2, LooseIsFinite
<1> QED
  BY <1>2, <1>3, <1>4, ReadyIsFinite DEF AskingInv, SessionInv

LEMMA AskingInit == SessionInit => AskingInv
<1> SUFFICES ASSUME SessionInit PROVE AskingInv
  OBVIOUS
<1>1. /\ toTarget = S!StartFrames /\ toSeeder = <<>> /\ faults = 0 /\ nudges = 0
      /\ ready_blocks = EmptyMap /\ manifest_re = Idle
  BY DEF SessionInit, Init, S!SeederInit
<1>2. Len(toTarget) = 1 /\ toTarget[1].type = "Start"
  BY <1>1 DEF S!StartFrames, S!MakeFrame
<1>3. DOMAIN ready_blocks = {} /\ Len(toSeeder) = 0
  BY <1>1, EmptySeq DEF EmptyMap
<1>4. Loose(toTarget, Expects(toTarget[1])) = {}
  BY <1>2 DEF Loose, IsBlockEnd
<1>5. {k \in 1..Len(toSeeder) : toSeeder[k].type = "Request"} = {}
  BY <1>3
<1>6. Waking(toTarget) \subseteq {1}
  BY <1>2 DEF Waking
<1>7. Cardinality({}) = 0 /\ IsFiniteSet({1}) /\ Cardinality({1}) = 1
  BY FS_EmptySet, FS_Singleton
<1>8. Cardinality(Waking(toTarget)) \in Nat /\ Cardinality(Waking(toTarget)) <= 1
  BY <1>6, <1>7, SubsetIsFewer
<1>9. ManifestTotals
  <2>1. manifest_re.active = FALSE
    BY <1>1 DEF Idle
  <2> QED
    BY <1>2, <2>1 DEF ManifestTotals
<1> QED
  BY <1>1, <1>3, <1>4, <1>5, <1>7, <1>8, <1>9 DEF AskingInv, Paid, AskedFor, Requests

\* The manifest's buffer after a frame.
LEMMA FrameKeepsTotal ==
  ASSUME IInv, manifest_re.active => manifest_re.total = 2,
         NEW f \in Served, OnFrame(f), f.type = "Manifest" => f.total = 2
  PROVE  manifest_re'.active => manifest_re'.total = 2
<1>1. CASE UNCHANGED manifest_re
  BY <1>1
<1>2. CASE f.type = "Manifest" /\ manifest_re' = Fed(ManifestBuffer(f), f)
  BY <1>2, ManifestEnds
<1>3. CASE f.type = "Manifest" /\ manifest_re' = Stopped(Fed(ManifestBuffer(f), f))
  <2>1. Fed(ManifestBuffer(f), f) \in Reassembler(ManifestCells)
    BY <1>3, ManifestEnds
  <2>2. manifest_re'.active = FALSE
    BY <1>3, <2>1 DEF Stopped, Reassembler
  <2> QED
    BY <2>2
<1>4. CASE ManifestFragment(f) \/ RefuseManifest(f)
  BY <1>2, <1>4 DEF ManifestFragment, RefuseManifest, WantsManifest, Hears
<1>5. CASE TakeManifest(f)
  BY <1>3, <1>5 DEF TakeManifest, WantsManifest, Hears
<1>6. CASE ~(ManifestFragment(f) \/ RefuseManifest(f) \/ TakeManifest(f))
  BY <1>1, <1>6 DEF OnFrame, HandleManifest, NotForUs, HandleAbort, HandleStart, LateManifest,
     Unwanted, HandleBlock, EmptyProof, HandleProof, Ignore, manifestVars
<1> QED
  BY <1>4, <1>5, <1>6

LEMMA ReceivesAsks ==
  ASSUME SessionInv, SessionInv', AskingInv, TargetReceives
  PROVE  AskingInv'
<1> DEFINE p == toTarget
           q == Tail(toTarget)
           f == p[1]
           e == Expects(toTarget[1])
           d == Expects(toTarget[1])'
           R == DOMAIN ready_blocks
           Q == DOMAIN ready_blocks'
<1>1. /\ toTarget # <<>> /\ OnFrame(f) /\ f \in Served
      /\ Removed(p, q, 1) /\ Len(p) \in Nat \ {0} /\ 1 \in 1..Len(p)
  <2>1. toTarget # <<>> /\ toTarget \in Seq(Served) /\ Head(toTarget) \in Served
    BY FirstUnderWay DEF TargetReceives, SessionInv
  <2> QED
    BY <2>1, TailRemoves DEF TargetReceives
<1>2. /\ toTarget' = q /\ toSeeder' = toSeeder \o out' /\ UNCHANGED <<faults, nudges>>
  BY DEF TargetReceives, bounds
<1>3. /\ IInv /\ UnitsHeld /\ ManifestTotals
      /\ manifest_re.active => manifest_re.total = 2
      /\ f.type = "Manifest" => f.total = 2
  BY <1>1, UnitsHeldIs DEF SessionInv, AskingInv, ManifestTotals
<1>4. PICK g : g = toTarget'[1]
  OBVIOUS
<1>5. d <=> Expects(g)'
  BY <1>4, PrimedExpects
<1>6. PICK c : c = f
  OBVIOUS
<1>7. c \in Served /\ OnFrame(c) /\ (c.type = "Manifest" => c.total = 2)
  BY <1>1, <1>3, <1>6
<1>8. Waits(c)
  BY <1>3, <1>7, FrameWaits
<1>9. /\ Cardinality(R) \in Nat /\ Cardinality(Q) \in Nat /\ AsksOnce
      /\ Asked(out') + Cardinality(Q) <= Cardinality(R) + (IF Wakes(c) THEN 1 ELSE 0)
      /\ Cardinality(Q) <= Cardinality(R) + (IF IsBlockEnd(c) /\ ~Expects(c) THEN 1 ELSE 0)
      /\ Finishes(c.index) => Cardinality(Q) + 1 = Cardinality(R)
  BY <1>8, AskingCounts, FrameCounts
<1>10. Expects(c) <=> e
  BY <1>6
<1>11. Paid(toTarget', d, ready_blocks', faults')
  <2>1. Cardinality(Loose(p, e)) + Cardinality(R) <= faults /\ faults \in Nat
    BY DEF AskingInv, Paid
  <2>2. CASE Finishes(c.index)
    <3>1. /\ Cardinality(Loose(q, d)) \in Nat /\ Cardinality(Loose(p, e)) \in Nat
          /\ Cardinality(Loose(q, d)) <= Cardinality(Loose(p, e)) + 1
      BY <1>1, LooseLost
    <3>2. Cardinality(Loose(q, d)) + Cardinality(Q) <= faults
      BY <1>9, <2>1, <2>2, <3>1
    <3> QED
      BY <1>2, <3>2 DEF Paid
  <2>3. CASE ~Finishes(c.index)
    <3>1. ASSUME Len(p) > 1, Follows(p[1], p[2]), Begun(p, 1, e)
          PROVE  d
      <4>1. p[2] = g
        <5>1. 1 \in 1..Len(q) /\ Skip(1, 1) = 2
          BY <1>1, <3>1 DEF Removed, Skip
        <5> QED
          BY <1>2, <1>4, <5>1, <1>1 DEF Removed
      <4>2. Follows(c, g) /\ (Opens(c) \/ Expects(c))
        BY <1>6, <1>10, <3>1, <4>1 DEF Begun
      <4> QED
        BY <1>3, <1>5, <1>7, <2>3, <4>2, FrameExpects
    <3>2. /\ Cardinality(Loose(q, d)) \in Nat /\ Cardinality(Loose(p, e)) \in Nat
          /\ Cardinality(Loose(q, d)) <= Cardinality(Loose(p, e))
          /\ IsBlockEnd(p[1]) /\ ~e => Cardinality(Loose(q, d)) + 1 <= Cardinality(Loose(p, e))
      BY <1>1, <3>1, LooseTaken
    <3>3. Cardinality(Loose(q, d)) + Cardinality(Q) <= faults
      BY <1>6, <1>9, <1>10, <2>1, <3>2
    <3> QED
      BY <1>2, <3>3 DEF Paid
  <2> QED
    BY <2>2, <2>3
<1>12. AskedFor(toSeeder', toTarget', ready_blocks', faults' + nudges')
  <2>1. /\ Requests(toSeeder) + Cardinality(Waking(p)) + Cardinality(R) <= 1 + (faults + nudges)
        /\ faults \in Nat /\ nudges \in Nat
    BY DEF AskingInv, AskedFor
  <2>2. /\ Cardinality(Waking(q)) \in Nat /\ Cardinality(Waking(p)) \in Nat
        /\ Cardinality(Waking(q)) <= Cardinality(Waking(p))
        /\ Wakes(p[1]) => Cardinality(Waking(q)) + 1 <= Cardinality(Waking(p))
    BY <1>1, WakingRemoved
  <2>3. /\ Requests(toSeeder \o out') \in Nat /\ Requests(toSeeder) \in Nat
        /\ Requests(toSeeder \o out') <= Requests(toSeeder) + Asked(out')
    <3>1. out' \in Seq(CallsOf(complete'))
      BY <1>7, FrameCalls DEF SessionInv
    <3>2. toSeeder \in Seq(CallsOf(complete'))
      <4>1. complete => complete'
        BY <1>7, ServedAreFrames, FrameKeepsComplete
      <4> QED
        BY <4>1, CallsAre, CallsGrow DEF SessionInv
    <3> QED
      BY <1>9, <3>1, <3>2, RequestsJoined DEF AsksOnce
  <2>4. Asked(out') \in {0, 1}
    BY DEF Asked
  <2>5. Requests(toSeeder \o out') + Cardinality(Waking(q)) + Cardinality(Q) <= 1 + (faults + nudges)
    BY <1>6, <1>9, <2>1, <2>2, <2>3, <2>4
  <2> QED
    BY <1>2, <2>5 DEF AskedFor
<1>13. ManifestTotals'
  <2>1. manifest_re'.active => manifest_re'.total = 2
    BY <1>3, <1>7, FrameKeepsTotal
  <2>2. ASSUME NEW k \in 1..Len(q) PROVE Skip(1, k) \in 1..Len(p) /\ q[k] = p[Skip(1, k)]
    <3>1. Len(p) \in Nat
      BY <1>1
    <3> HIDE DEF p, q
    <3> QED
      BY <1>1, <3>1, RemovedSkips
  <2> QED
    BY <1>2, <1>3, <2>1, <2>2 DEF ManifestTotals
<1> QED
  BY <1>2, <1>11, <1>12, <1>13, AskingCounts, NextAsking

\* A poll asks once.
LEMMA PollAsks ==
  ASSUME SessionInv, IInv', AskingInv, Poll, toSeeder' = toSeeder \o out',
         UNCHANGED <<toTarget, faults>>, NEW m \in Nat, nudges' = m,
         Requests(toSeeder) + Cardinality(Waking(toTarget)) + Cardinality(DOMAIN ready_blocks)
           <= faults + m
  PROVE  AskingInv'
<1> DEFINE e == Expects(toTarget[1])
           d == Expects(toTarget[1])'
<1>1. /\ request_next(<<>>) /\ ~complete
      /\ UNCHANGED <<ready_blocks, proofs, manifest_ready, store, aborted, proof_re,
                     proof_in_flight, manifest_re>>
  BY DEF Poll, manifestVars, unitVars
<1>2. e => d
  BY <1>1 DEF Expects, Deaf, has_block
<1>3. /\ Len(toTarget) \in Nat /\ faults \in Nat
      /\ Cardinality(Loose(toTarget, e)) \in Nat /\ Cardinality(Waking(toTarget)) \in Nat
      /\ Cardinality(DOMAIN ready_blocks) \in Nat
  BY AskingCounts
<1>4. Cardinality(Loose(toTarget, d)) \in Nat
      /\ Cardinality(Loose(toTarget, d)) <= Cardinality(Loose(toTarget, e))
  BY <1>2, <1>3, LooseStays
<1>5. Cardinality(Loose(toTarget, e)) + Cardinality(DOMAIN ready_blocks) <= faults
  BY DEF AskingInv, Paid
<1> HIDE DEF e, d
<1>6. Cardinality(Loose(toTarget, d)) + Cardinality(DOMAIN ready_blocks) <= faults
  BY <1>3, <1>4, <1>5
<1>7. Paid(toTarget', d, ready_blocks', faults')
  BY <1>1, <1>6 DEF Paid
<1>8. /\ Requests(toSeeder \o out') \in Nat /\ Requests(toSeeder) \in Nat
      /\ Requests(toSeeder \o out') <= Requests(toSeeder) + Asked(out')
  <2>1. AsksOnce
    BY <1>1, RequestNextAsksOnce
  <2>2. out' \in Seq(CallsOf(complete'))
    BY <1>1, EmptySeq, RequestNextCalls
  <2>3. toSeeder \in Seq(CallsOf(complete'))
    BY <1>1, CallsAre, CallsGrow DEF SessionInv
  <2> QED
    BY <2>1, <2>2, <2>3, RequestsJoined DEF AsksOnce
<1>9. Asked(out') \in {0, 1}
  BY DEF Asked
<1>10. Requests(toSeeder \o out') + Cardinality(Waking(toTarget)) + Cardinality(DOMAIN ready_blocks)
         <= 1 + (faults + m)
  <2> DEFINE n == Cardinality(DOMAIN ready_blocks)
             w == Cardinality(Waking(toTarget))
             r == Requests(toSeeder)
             c == Requests(toSeeder \o out')
             bound == faults + m
  <2>0. r + w + n <= bound
    OBVIOUS
  <2>1. n \in Nat /\ w \in Nat /\ r \in Nat /\ bound \in Nat
    BY <1>3, <1>8
  <2>2. c \in Nat /\ c <= r + 1
    BY <1>8, <1>9
  <2> HIDE DEF n, w, r, c, bound
  <2>3. c + w + n <= 1 + bound
    BY <2>0, <2>1, <2>2
  <2> QED
    BY <2>3 DEF n, w, c, bound
<1>11. AskedFor(toSeeder', toTarget', ready_blocks', faults' + nudges')
  BY <1>1, <1>10 DEF AskedFor
<1>12. ManifestTotals'
  BY <1>1 DEF AskingInv, ManifestTotals
<1> QED
  BY <1>3, <1>7, <1>11, <1>12, NextAsking DEF d

LEMMA TimesOutAsks ==
  ASSUME SessionInv, IInv', AskingInv, TargetTimesOut
  PROVE  AskingInv'
<1>1. /\ toTarget = <<>> /\ toSeeder = <<>> /\ Poll /\ toSeeder' = toSeeder \o out'
      /\ UNCHANGED <<toTarget, faults, nudges>>
  BY DEF TargetTimesOut, bounds
<1>2. {k \in 1..Len(toSeeder) : toSeeder[k].type = "Request"} = {} /\ Waking(toTarget) = {}
  BY <1>1, EmptySeq DEF Waking
<1>3. Requests(toSeeder) = 0 /\ Cardinality(Waking(toTarget)) = 0
  BY <1>2, FS_EmptySet DEF Requests
<1>4. /\ faults \in Nat /\ nudges \in Nat /\ Cardinality(DOMAIN ready_blocks) \in Nat
      /\ Cardinality(Loose(toTarget, Expects(toTarget[1]))) \in Nat
  BY AskingCounts
<1>5. Cardinality(Loose(toTarget, Expects(toTarget[1]))) + Cardinality(DOMAIN ready_blocks)
        <= faults
  BY DEF AskingInv, Paid
<1>6. Requests(toSeeder) + Cardinality(Waking(toTarget)) + Cardinality(DOMAIN ready_blocks)
        <= faults + nudges
  BY <1>3, <1>4, <1>5
<1>7. nudges' = nudges
  BY <1>1
<1> QED
  BY <1>1, <1>4, <1>6, <1>7, PollAsks

LEMMA NudgesAsks ==
  ASSUME SessionInv, IInv', AskingInv, TargetNudges
  PROVE  AskingInv'
<1>1. /\ Poll /\ toSeeder' = toSeeder \o out' /\ nudges' = nudges + 1
      /\ UNCHANGED <<toTarget, faults>>
  BY DEF TargetNudges
<1>2. /\ faults \in Nat /\ nudges \in Nat /\ Cardinality(DOMAIN ready_blocks) \in Nat
      /\ Requests(toSeeder) \in Nat /\ Cardinality(Waking(toTarget)) \in Nat
  BY AskingCounts
<1>3. Requests(toSeeder) + Cardinality(Waking(toTarget)) + Cardinality(DOMAIN ready_blocks)
        <= 1 + (faults + nudges)
  BY DEF AskingInv, AskedFor
<1>4. Requests(toSeeder) + Cardinality(Waking(toTarget)) + Cardinality(DOMAIN ready_blocks)
        <= faults + (nudges + 1)
  BY <1>2, <1>3
<1>5. nudges + 1 \in Nat
  BY <1>2
<1> QED
  BY <1>1, <1>4, <1>5, PollAsks

\* An answer takes its request away and adds one frame that wakes.
LEMMA SeederAsks ==
  ASSUME SessionInv, AskingInv, SeederReceives
  PROVE  AskingInv'
<1> DEFINE f == Head(toSeeder)
           e == Expects(toTarget[1])
           d == Expects(toTarget[1])'
           n == Cardinality(DOMAIN ready_blocks)
<1>1. /\ f \in CallsOf(complete) /\ toSeeder # <<>> /\ f = toSeeder[1]
      /\ Removed(toSeeder, Tail(toSeeder), 1) /\ Len(toSeeder) \in Nat /\ 1 \in 1..Len(toSeeder)
      /\ toSeeder' = Tail(toSeeder)
  <2>1. toSeeder \in Seq(CallsOf(complete)) /\ toSeeder # <<>> /\ toSeeder' = Tail(toSeeder)
    BY CallsAre DEF SessionInv, SeederReceives
  <2> QED
    BY <2>1, TailRemoves, HeadTailProperties
<1>2. /\ UNCHANGED <<complete, manifest_ready, ready_blocks, proofs, aborted, store, proof_re,
                     proof_in_flight, manifest_re>>
      /\ UNCHANGED <<faults, nudges>>
  BY DEF SeederReceives, vars, manifestVars, unitVars, bounds
<1>3. /\ S!SeederOnFrame(f) /\ toTarget' = toTarget \o seeder_sent'
      /\ toTarget \in Seq(Served)
  BY DEF SeederReceives, SessionInv
<1>4. /\ Len(toTarget) \in Nat /\ faults \in Nat /\ nudges \in Nat /\ n \in Nat
      /\ Cardinality(Loose(toTarget, e)) \in Nat /\ Cardinality(Waking(toTarget)) \in Nat
      /\ Cardinality(Loose(toTarget, e)) + n <= faults
      /\ Requests(toSeeder) + Cardinality(Waking(toTarget)) + n <= 1 + (faults + nudges)
  BY AskingCounts DEF AskingInv, Paid, AskedFor
<1>5. /\ Requests(Tail(toSeeder)) \in Nat /\ Requests(toSeeder) \in Nat
      /\ Requests(Tail(toSeeder)) <= Requests(toSeeder)
      /\ f.type = "Request" => Requests(Tail(toSeeder)) + 1 <= Requests(toSeeder)
  BY <1>1, RequestsRemoved
<1>6. ASSUME seeder_sent' \in Seq(Served),
             \A k \in 1..Len(seeder_sent') : IsBlockEnd(seeder_sent'[k])
               => Chain(seeder_sent', 1, k) /\ Opens(seeder_sent'[1]),
             \A j, k \in 1..Len(seeder_sent') :
               Wakes(seeder_sent'[j]) /\ Wakes(seeder_sent'[k]) => j = k,
             \A k \in 1..Len(seeder_sent') :
               seeder_sent'[k].type = "Manifest" => seeder_sent'[k].total = 2,
             f.type = "Request" \/ seeder_sent' = <<>>
      PROVE  AskingInv'
  <2> DEFINE p == toTarget
             a == seeder_sent'
             q == p \o a
  <2>1. /\ Len(a) \in Nat /\ Len(q) = Len(p) + Len(a)
        /\ \A k \in 1..(Len(p) + Len(a)) : q[k] = IF k <= Len(p) THEN p[k] ELSE a[k - Len(p)]
    BY <1>3, <1>6, JoinedFrames
  <2>2. Len(p) > 0 /\ e => d
    <3>1. Len(p) > 0 => q[1] = p[1]
      BY <1>4, <2>1
    <3>2. Len(p) > 0 => toTarget'[1] = p[1]
      BY <1>3, <3>1
    <3> QED
      BY <1>2, <3>2 DEF Expects, Deaf, has_block
  <2>3. /\ Cardinality(Loose(q, d)) \in Nat
        /\ Cardinality(Loose(q, d)) <= Cardinality(Loose(p, e))
    <3>1. Loose(q, d) \subseteq Loose(p, e)
      <4> HIDE DEF e, d, f, n
      <4> QED
        BY <1>3, <1>6, <2>2, LooseJoined
    <3> QED
      BY <1>4, <3>1, LooseIsFinite, SubsetIsFewer
  <2>4. /\ Cardinality(Waking(q)) \in Nat /\ Cardinality(Waking(p)) \in Nat
        /\ Cardinality(Waking(q)) <= Cardinality(Waking(p)) + 1
        /\ a = <<>> => Cardinality(Waking(q)) = Cardinality(Waking(p))
    BY <1>3, <1>6, WakingJoined
  <2>5. toTarget' = q
    BY <1>3
  <2>6. ManifestTotals'
    <3>1. \A k \in 1..Len(p) : p[k].type = "Manifest" => p[k].total = 2
      BY DEF AskingInv, ManifestTotals
    <3>2. ASSUME NEW k \in 1..Len(q), q[k].type = "Manifest" PROVE q[k].total = 2
      <4>1. CASE k <= Len(p)
        BY <1>4, <2>1, <3>1, <3>2, <4>1
      <4>2. CASE ~(k <= Len(p))
        <5>1. Len(p) \in Nat /\ k \in 1..(Len(p) + Len(a))
          BY <1>4, <2>1
        <5>2. k - Len(p) \in 1..Len(a) /\ q[k] = a[k - Len(p)]
          <6> HIDE DEF p, a, q
          <6> QED
            BY <2>1, <4>2, <5>1
        <5> QED
          BY <1>6, <3>2, <5>2
      <4> QED
        BY <4>1, <4>2
    <3>3. manifest_re'.active => manifest_re'.total = 2
      BY <1>2 DEF AskingInv, ManifestTotals
    <3> QED
      BY <2>5, <3>2, <3>3 DEF ManifestTotals
  <2> HIDE DEF q, e, d, n, f
  <2>7. Cardinality(Loose(q, d)) + n <= faults
    BY <1>4, <2>3
  <2>8. Requests(Tail(toSeeder)) + Cardinality(Waking(q)) + n <= 1 + (faults + nudges)
    <3> DEFINE r == Requests(toSeeder)
               c == Requests(Tail(toSeeder))
               w == Cardinality(Waking(toTarget))
               v == Cardinality(Waking(q))
               bound == 1 + (faults + nudges)
    <3>1. n \in Nat /\ w \in Nat /\ r \in Nat /\ bound \in Nat /\ r + w + n <= bound
      BY <1>4, <1>5
    <3>2. /\ c \in Nat /\ v \in Nat
          /\ \/ c + 1 <= r /\ v <= w + 1
             \/ c <= r /\ v = w
      BY <1>5, <1>6, <2>4
    <3> HIDE DEF r, c, w, v, bound
    <3>3. c + v + n <= bound
      BY <3>1, <3>2
    <3> QED
      BY <3>3 DEF c, v, bound
  <2>9. Paid(toTarget', d, ready_blocks', faults')
    BY <1>2, <2>5, <2>7 DEF Paid, n
  <2>10. AskedFor(toSeeder', toTarget', ready_blocks', faults' + nudges')
    BY <1>1, <1>2, <2>5, <2>8 DEF AskedFor, n
  <2> QED
    BY <1>2, <1>4, <2>6, <2>9, <2>10, NextAsking DEF d
<1>7. CASE seeder_sent' = <<>>
  BY <1>6, <1>7, EmptySeq
<1>8. CASE seeder_sent' # <<>>
  <2>1. S!HandleRequest(f)
    BY <1>3, <1>8 DEF S!SeederOnFrame, S!HandleEnd, S!HandleOther
  <2>2. f.type = "Request" /\ seeder_sent' = S!Answer(f.index)
    BY <2>1 DEF S!HandleRequest
  <2>3. f.index \in 0..(S!block_count - 1) \cup {kIndexManifest}
    BY <1>1, <2>2 DEF CallsOf, SimpleFrame, MakeFrame
  <2>4. PICK i \in 0..(S!block_count - 1) \cup {kIndexManifest} : i = f.index
    BY <2>3
  <2>5. S!Answer(i) \in Seq(Served)
    BY AnswersServed
  <2>6. /\ \A k \in 1..Len(S!Answer(i)) : IsBlockEnd(S!Answer(i)[k])
             => Chain(S!Answer(i), 1, k) /\ Opens(S!Answer(i)[1])
        /\ \A j, k \in 1..Len(S!Answer(i)) :
             Wakes(S!Answer(i)[j]) /\ Wakes(S!Answer(i)[k]) => j = k
        /\ \A k \in 1..Len(S!Answer(i)) :
             S!Answer(i)[k].type = "Manifest" => S!Answer(i)[k].total = 2
    BY AnswersEnd
  <2> QED
    BY <1>6, <2>2, <2>4, <2>5, <2>6
<1> QED
  BY <1>7, <1>8

\* The radio takes nothing in: what is expected of a frame is what was.
LEMMA RadioExpects ==
  ASSUME UNCHANGED vars, NEW g, toTarget'[1] = g
  PROVE  (Expects(g) <=> Expects(toTarget[1])')
BY DEF Expects, Deaf, has_block, vars, manifestVars, unitVars

\* A fault pays for one more of everything.
LEMMA FaultPays ==
  ASSUME SessionInv, AskingInv, UNCHANGED <<vars, nudges>>, faults' = faults + 1,
         ManifestTotals',
         Cardinality(Loose(toTarget', Expects(toTarget[1])')) \in Nat,
         Cardinality(Loose(toTarget', Expects(toTarget[1])'))
           <= Cardinality(Loose(toTarget, Expects(toTarget[1]))) + 1,
         NEW c \in Nat, NEW w \in Nat, c + w <= 1,
         Requests(toSeeder') \in Nat, Requests(toSeeder') <= Requests(toSeeder) + c,
         Cardinality(Waking(toTarget')) \in Nat,
         Cardinality(Waking(toTarget')) <= Cardinality(Waking(toTarget)) + w
  PROVE  AskingInv'
<1> DEFINE n == Cardinality(DOMAIN ready_blocks)
           l == Cardinality(Loose(toTarget, Expects(toTarget[1])))
           m == Cardinality(Loose(toTarget', Expects(toTarget[1])'))
<1>1. /\ faults \in Nat /\ nudges \in Nat /\ n \in Nat /\ l \in Nat
      /\ Requests(toSeeder) \in Nat /\ Cardinality(Waking(toTarget)) \in Nat
      /\ l + n <= faults
      /\ Requests(toSeeder) + Cardinality(Waking(toTarget)) + n <= 1 + (faults + nudges)
  BY AskingCounts DEF AskingInv, Paid, AskedFor
<1>2. UNCHANGED ready_blocks
  BY DEF vars
<1> HIDE DEF l
<1>3. m \in Nat /\ m <= l + 1
  BY DEF l
<1> HIDE DEF n, m
<1>4. m + n <= faults + 1
  BY <1>1, <1>3
<1>5. Requests(toSeeder') + Cardinality(Waking(toTarget')) + n <= 1 + (faults + 1 + nudges)
  BY <1>1
<1>6. Paid(toTarget', Expects(toTarget[1])', ready_blocks', faults')
  BY <1>2, <1>4 DEF Paid, m, n
<1>7. AskedFor(toSeeder', toTarget', ready_blocks', faults' + nudges')
  BY <1>2, <1>5 DEF AskedFor, n
<1>8. faults' \in Nat /\ nudges' \in Nat
  BY <1>1
<1> QED
  BY <1>6, <1>7, <1>8, NextAsking

\* A fault on the way to the seeder.
LEMMA SeederFaultAsks ==
  ASSUME SessionInv, AskingInv, UNCHANGED <<vars, nudges, toTarget>>, faults' = faults + 1,
         Requests(toSeeder') \in Nat, Requests(toSeeder') <= Requests(toSeeder) + 1
  PROVE  AskingInv'
<1> DEFINE e == Expects(toTarget[1])
           d == Expects(toTarget[1])'
<1>1. d <=> e
  BY DEF Expects, Deaf, has_block, vars, manifestVars, unitVars
<1>2. /\ Len(toTarget) \in Nat /\ Cardinality(Loose(toTarget, e)) \in Nat
      /\ Cardinality(Waking(toTarget)) \in Nat
  BY AskingCounts
<1>3. Cardinality(Loose(toTarget, d)) \in Nat
      /\ Cardinality(Loose(toTarget, d)) <= Cardinality(Loose(toTarget, e))
  BY <1>1, <1>2, LooseStays
<1>4. ManifestTotals'
  BY DEF AskingInv, ManifestTotals, vars, manifestVars
<1> HIDE DEF e, d
<1>5. Cardinality(Loose(toTarget', d)) \in Nat
      /\ Cardinality(Loose(toTarget', d)) <= Cardinality(Loose(toTarget, e)) + 1
  BY <1>2, <1>3
<1>6. 1 \in Nat /\ 0 \in Nat /\ 1 + 0 <= 1
  OBVIOUS
<1>7. Cardinality(Waking(toTarget')) \in Nat
      /\ Cardinality(Waking(toTarget')) <= Cardinality(Waking(toTarget)) + 0
  BY <1>2
<1> QED
  BY <1>4, <1>5, <1>6, <1>7, FaultPays DEF d, e

LEMMA LoseAsks ==
  ASSUME SessionInv, AskingInv, Lose
  PROVE  AskingInv'
<1>1. /\ faults' = faults + 1 /\ UNCHANGED <<vars, nudges>>
      /\ toTarget \in Seq(Served) /\ toSeeder \in Seq(Calls)
  BY DEF Lose, Fault, SessionInv
<1>2. ASSUME NEW r \in 1..Len(toTarget), toTarget' = RemoveAt(toTarget, r), UNCHANGED toSeeder
      PROVE  AskingInv'
  <2> DEFINE p == toTarget
             q == RemoveAt(toTarget, r)
             e == Expects(toTarget[1])
             d == Expects(toTarget[1])'
  <2>1. Removed(p, q, r) /\ Len(p) \in Nat
    BY <1>1, RemoveAtRemoves
  <2>2. r # 1 /\ e => d
    <3> SUFFICES ASSUME r # 1, e PROVE d
      OBVIOUS
    <3>1. Len(q) = Len(p) - 1
      BY <2>1 DEF Removed
    <3>2. 1 \in 1..Len(q) /\ Skip(r, 1) = 1
      BY <2>1, <3>1 DEF Skip
    <3>3. q[1] = p[1]
      BY <2>1, <3>2 DEF Removed
    <3>4. PICK g : g = toTarget[1]
      OBVIOUS
    <3>5. toTarget'[1] = g
      BY <1>2, <3>3, <3>4
    <3> QED
      BY <1>1, <3>4, <3>5, RadioExpects
  <2>3. /\ Cardinality(Loose(q, d)) \in Nat
        /\ Cardinality(Loose(q, d)) <= Cardinality(Loose(p, e)) + 1
    BY <2>1, <2>2, LooseLost
  <2>4. /\ Cardinality(Waking(q)) \in Nat /\ Cardinality(Waking(p)) \in Nat
        /\ Cardinality(Waking(q)) <= Cardinality(Waking(p))
    BY <2>1, WakingRemoved
  <2>5. ManifestTotals'
    <3>1. \A k \in 1..Len(q) : Skip(r, k) \in 1..Len(p) /\ q[k] = p[Skip(r, k)]
      <4> HIDE DEF p, q
      <4> QED
        BY <2>1, RemovedSkips DEF p
    <3> QED
      BY <1>1, <1>2, <3>1 DEF AskingInv, ManifestTotals, vars, manifestVars
  <2>6. Requests(toSeeder) \in Nat
    BY AskingCounts
  <2>7. 0 \in Nat /\ 0 + 0 <= 1
    OBVIOUS
  <2>8. Requests(toSeeder') \in Nat /\ Requests(toSeeder') <= Requests(toSeeder) + 0
    BY <1>2, <2>6
  <2>9. Cardinality(Waking(toTarget')) \in Nat
        /\ Cardinality(Waking(toTarget')) <= Cardinality(Waking(toTarget)) + 0
    BY <1>2, <2>4
  <2>10. /\ Cardinality(Loose(toTarget', d)) \in Nat
         /\ Cardinality(Loose(toTarget', d)) <= Cardinality(Loose(p, e)) + 1
    BY <1>2, <2>3
  <2> HIDE DEF q, d, e
  <2> QED
    BY <1>1, <2>5, <2>7, <2>8, <2>9, <2>10, FaultPays DEF d, e
<1>3. ASSUME NEW r \in 1..Len(toSeeder), toSeeder' = RemoveAt(toSeeder, r), UNCHANGED toTarget
      PROVE  AskingInv'
  <2>1. Removed(toSeeder, toSeeder', r) /\ Len(toSeeder) \in Nat
    BY <1>1, <1>3, RemoveAtRemoves
  <2>2. /\ Requests(toSeeder') \in Nat /\ Requests(toSeeder) \in Nat
        /\ Requests(toSeeder') <= Requests(toSeeder)
    BY <2>1, RequestsRemoved
  <2> QED
    BY <1>1, <1>3, <2>2, SeederFaultAsks
<1> QED
  BY <1>2, <1>3 DEF Lose

LEMMA RepeatAsks ==
  ASSUME SessionInv, AskingInv, Repeat
  PROVE  AskingInv'
<1>1. /\ faults' = faults + 1 /\ UNCHANGED <<vars, nudges>>
      /\ toTarget \in Seq(Served) /\ toSeeder \in Seq(Calls)
  BY DEF Repeat, Fault, SessionInv
<1>2. ASSUME NEW r \in 1..Len(toTarget), toTarget' = Append(toTarget, toTarget[r]),
             UNCHANGED toSeeder
      PROVE  AskingInv'
  <2> DEFINE p == toTarget
             q == Append(toTarget, toTarget[r])
             e == Expects(toTarget[1])
             d == Expects(toTarget[1])'
  <2>1. /\ toTarget[r] \in Served
        /\ Len(p) \in Nat /\ Len(q) = Len(p) + 1 /\ \A k \in 1..Len(p) : q[k] = p[k]
        /\ q[Len(p) + 1] = p[r]
    BY <1>1, ElementOfSeq, AppendedFrame, AppendProperties
  <2>2. e => d
    <3>1. PICK g : g = toTarget[1]
      OBVIOUS
    <3>2. toTarget'[1] = g
      <4>1. 1 \in 1..Len(p)
        BY <2>1
      <4> QED
        BY <1>2, <2>1, <3>1, <4>1
    <3> QED
      BY <1>1, <3>1, <3>2, RadioExpects
  <2>3. /\ Cardinality(Loose(q, d)) \in Nat
        /\ Cardinality(Loose(q, d)) <= Cardinality(Loose(p, e)) + 1
    BY <1>1, <2>1, <2>2, LooseRepeated
  <2>4. /\ Cardinality(Waking(q)) \in Nat
        /\ Cardinality(Waking(q)) <= Cardinality(Waking(p)) + 1
    BY <1>1, <2>1, WakingRepeated
  <2>5. ManifestTotals'
    <3>1. \A k \in 1..Len(q) : k \in 1..Len(p) \/ k = Len(p) + 1
      BY <2>1
    <3>2. \A k \in 1..Len(q) : \E j \in 1..Len(p) : q[k] = p[j]
      BY <1>2, <2>1, <3>1
    <3> QED
      BY <1>1, <1>2, <3>2 DEF AskingInv, ManifestTotals, vars, manifestVars
  <2>6. Requests(toSeeder) \in Nat
    BY AskingCounts
  <2>7. 0 \in Nat /\ 1 \in Nat /\ 0 + 1 <= 1
    OBVIOUS
  <2>8. Requests(toSeeder') \in Nat /\ Requests(toSeeder') <= Requests(toSeeder) + 0
    BY <1>2, <2>6
  <2>9. Cardinality(Waking(toTarget')) \in Nat
        /\ Cardinality(Waking(toTarget')) <= Cardinality(Waking(toTarget)) + 1
    BY <1>2, <2>4
  <2>10. /\ Cardinality(Loose(toTarget', d)) \in Nat
         /\ Cardinality(Loose(toTarget', d)) <= Cardinality(Loose(p, e)) + 1
    BY <1>2, <2>3
  <2> HIDE DEF q, d, e
  <2> QED
    BY <1>1, <2>5, <2>7, <2>8, <2>9, <2>10, FaultPays DEF d, e
<1>3. ASSUME NEW r \in 1..Len(toSeeder), toSeeder' = Append(toSeeder, toSeeder[r]),
             UNCHANGED toTarget
      PROVE  AskingInv'
  <2>1. toSeeder[r] \in Calls
    BY <1>1, ElementOfSeq
  <2>2. /\ Requests(toSeeder') \in Nat /\ Requests(toSeeder) \in Nat
        /\ Requests(toSeeder') <= Requests(toSeeder) + 1
    BY <1>1, <1>3, <2>1, RequestsRepeated
  <2> QED
    BY <1>1, <1>3, <2>2, SeederFaultAsks
<1> QED
  BY <1>2, <1>3 DEF Repeat

LEMMA DamagedAlike ==
  ASSUME NEW f \in Served
  PROVE  Alike(f, DamagedFrame(f))
<1>1. f \in Frame
  BY ServedAreFrames, FramesAssumption
<1>2. Len(f.data) \in Nat
  BY <1>1, LenProperties DEF Frame, FrameOf
<1>3. DamagedFrame(f) = [f EXCEPT !.data = [k \in 1..Len(f.data) |-> Damaged]]
  BY DEF DamagedFrame
<1>4. Len([k \in 1..Len(f.data) |-> Damaged]) = Len(f.data)
  BY <1>2
<1>5. \E A, C : f \in [type : A, session : Nat, index : Index, off : Index, total : Index, data : Seq(C)]
  BY <1>1 DEF Frame, FrameOf
<1> QED
  BY <1>3, <1>4, <1>5 DEF Alike

LEMMA DamageAsks ==
  ASSUME SessionInv, AskingInv, Damage
  PROVE  AskingInv'
<1>1. /\ faults' = faults + 1 /\ UNCHANGED <<vars, nudges, toSeeder>>
      /\ toTarget \in Seq(Served)
  BY DEF Damage, Fault, SessionInv
<1>2. PICK r \in 1..Len(toTarget) : toTarget' = [toTarget EXCEPT ![r] = DamagedFrame(toTarget[r])]
  BY DEF Damage
<1> DEFINE p == toTarget
           q == toTarget'
           e == Expects(toTarget[1])
           d == Expects(toTarget[1])'
<1>3. /\ Len(p) \in Nat /\ DOMAIN p = 1..Len(p)
      /\ \A k \in 1..Len(p) : p[k] \in Served
  BY <1>1, LenProperties, ElementOfSeq
<1>4. \A k \in 1..Len(p) : q[k] = IF k = r THEN DamagedFrame(p[k]) ELSE p[k]
  BY <1>2, <1>3
<1>5. Len(q) = Len(p)
  BY <1>1, <1>2, <1>3
<1>6. \A k \in 1..Len(p) : Alike(p[k], q[k])
  <2> SUFFICES ASSUME NEW k \in 1..Len(p) PROVE Alike(p[k], q[k])
    OBVIOUS
  <2>1. p[k] \in Served
    BY <1>3
  <2>2. Alike(p[k], DamagedFrame(p[k])) /\ Alike(p[k], p[k])
    BY <2>1, DamagedAlike DEF Alike
  <2> QED
    BY <1>4, <2>2
<1>7. e => d
  <2>1. 1 \in 1..Len(p)
    BY <1>3
  <2>2. Alike(p[1], q[1])
    BY <1>6, <2>1
  <2> QED
    BY <1>1, <2>2 DEF Alike, Expects, Deaf, has_block, vars, manifestVars, unitVars
<1>8. Loose(q, d) \subseteq Loose(p, e) /\ Waking(q) = Waking(p)
  BY <1>3, <1>5, <1>6, <1>7, AlikeFrames
<1>9. /\ Cardinality(Loose(q, d)) \in Nat /\ Cardinality(Loose(p, e)) \in Nat
      /\ Cardinality(Loose(q, d)) <= Cardinality(Loose(p, e))
  BY <1>3, <1>8, LooseIsFinite, SubsetIsFewer
<1>10. ManifestTotals'
  BY <1>1, <1>5, <1>6 DEF Alike, AskingInv, ManifestTotals, vars, manifestVars
<1>11. Requests(toSeeder) \in Nat /\ Cardinality(Waking(p)) \in Nat
  BY AskingCounts
<1>12. 0 \in Nat /\ 0 + 0 <= 1
  OBVIOUS
<1>13. Requests(toSeeder') \in Nat /\ Requests(toSeeder') <= Requests(toSeeder) + 0
  BY <1>1, <1>11
<1>14. Cardinality(Waking(toTarget')) \in Nat
       /\ Cardinality(Waking(toTarget')) <= Cardinality(Waking(toTarget)) + 0
  BY <1>8, <1>11
<1>15. /\ Cardinality(Loose(toTarget', d)) \in Nat
       /\ Cardinality(Loose(toTarget', d)) <= Cardinality(Loose(p, e)) + 1
  BY <1>9
<1> HIDE DEF d, e
<1> QED
  BY <1>1, <1>10, <1>12, <1>13, <1>14, <1>15, FaultPays DEF d, e

\* A restart forgets the blocks that wait, and takes in no half until the manifest comes.
LEMMA RebootAsks ==
  ASSUME SessionInv, AskingInv, TargetReboots
  PROVE  AskingInv'
<1> DEFINE e == Expects(toTarget[1])
           d == Expects(toTarget[1])'
<1>1. /\ UNCHANGED <<toTarget, toSeeder, faults, nudges>>
      /\ ready_blocks' = EmptyMap /\ manifest_re' = Idle /\ ~manifest_ready'
  BY DEF TargetReboots, Reboot, radioVars
<1>2. d
  BY <1>1 DEF Expects, Deaf
<1>3. /\ Len(toTarget) \in Nat /\ faults \in Nat /\ nudges \in Nat
      /\ Requests(toSeeder) \in Nat /\ Cardinality(Waking(toTarget)) \in Nat
      /\ Cardinality(DOMAIN ready_blocks) \in Nat
      /\ Cardinality(Loose(toTarget, e)) + Cardinality(DOMAIN ready_blocks) <= faults
      /\ Requests(toSeeder) + Cardinality(Waking(toTarget)) + Cardinality(DOMAIN ready_blocks)
           <= 1 + (faults + nudges)
  BY AskingCounts DEF AskingInv, Paid, AskedFor
<1>4. /\ Cardinality(Loose(toTarget, d)) \in Nat /\ Cardinality(Loose(toTarget, e)) \in Nat
      /\ Cardinality(Loose(toTarget, d)) <= Cardinality(Loose(toTarget, e))
  BY <1>2, <1>3, LooseStays
<1>5. Cardinality(DOMAIN EmptyMap) = 0
  BY FS_EmptySet DEF EmptyMap
<1>6. Idle.active = FALSE
  BY DEF Idle
<1>7. ManifestTotals'
  BY <1>1, <1>6 DEF AskingInv, ManifestTotals
<1> HIDE DEF d, e
<1>8. Cardinality(Loose(toTarget, d)) + Cardinality(DOMAIN EmptyMap) <= faults
  BY <1>3, <1>4, <1>5
<1>9. Requests(toSeeder) + Cardinality(Waking(toTarget)) + Cardinality(DOMAIN EmptyMap)
        <= 1 + (faults + nudges)
  BY <1>3, <1>5
<1>10. Paid(toTarget', d, ready_blocks', faults')
  BY <1>1, <1>8 DEF Paid
<1>11. AskedFor(toSeeder', toTarget', ready_blocks', faults' + nudges')
  BY <1>1, <1>9 DEF AskedFor
<1> QED
  BY <1>1, <1>3, <1>7, <1>10, <1>11, NextAsking DEF d

LEMMA AskingStep == SessionInv /\ SessionInv' /\ AskingInv /\ [SessionNext]_sessionVars => AskingInv'
<1> SUFFICES ASSUME SessionInv, SessionInv', AskingInv, [SessionNext]_sessionVars PROVE AskingInv'
  OBVIOUS
<1>1. IInv'
  BY DEF SessionInv
<1>2. CASE UNCHANGED sessionVars
  BY <1>2 DEF sessionVars, vars, manifestVars, unitVars, radioVars, bounds, AskingInv,
     ManifestTotals, Expects, Deaf, has_block
<1> QED
  BY <1>1, <1>2, ReceivesAsks, TimesOutAsks, NudgesAsks, SeederAsks, LoseAsks, RepeatAsks,
     DamageAsks, RebootAsks DEF SessionNext, TargetLoop

\* Requests never outnumber the first one and what faults and early polls have added.
THEOREM RequestsStayBounded == SessionSpec => []RequestsDoNotMultiply
<1>1. SessionInv /\ AskingInv => RequestsDoNotMultiply
  <2> SUFFICES ASSUME SessionInv, AskingInv PROVE RequestsDoNotMultiply
    OBVIOUS
  <2>1. /\ faults \in Nat /\ nudges \in Nat
        /\ Requests(toSeeder) \in Nat /\ Cardinality(Waking(toTarget)) \in Nat
        /\ Cardinality(DOMAIN ready_blocks) \in Nat
        /\ Requests(toSeeder) + Cardinality(Waking(toTarget)) + Cardinality(DOMAIN ready_blocks)
             <= 1 + (faults + nudges)
    BY AskingCounts DEF AskingInv, AskedFor
  <2> QED
    BY <2>1 DEF RequestsDoNotMultiply
<1> QED
  BY <1>1, SessionInvariant, AskingInit, AskingStep, PTL DEF SessionSpec

=============================================================================
